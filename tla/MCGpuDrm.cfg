\* Every host whose display GPU libdrm names, with a second GPU, /proc/fb
\* entries and NVIDIA device nodes that disagree with it; the renderer
\* process around it, with up to two SIGINT/SIGTERM.
CONSTANTS
    Catalogue <- MCCatalogue
    Hosts <- MCHosts
    MaxSignals = 2
SPECIFICATION Spec
CHECK_DEADLOCK FALSE
INVARIANT MainTypeOK
INVARIANT DetectsDrmGpu
