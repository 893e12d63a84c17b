\* Every host, including those where the DRM path cannot name the GPU and
\* getGpuModel falls back to /proc/fb, /dev and the PCI scan.
CONSTANTS
    Catalogue <- MCCatalogue
    Hosts <- MCHosts
    MaxSignals = 0
SPECIFICATION Spec
CHECK_DEADLOCK FALSE
INVARIANT DetectsGpu
