---------------------------- MODULE GpuDetection ----------------------------
(***************************************************************************)
(* GpuDetection::getGpuModel (android-emu/android/utils/gpu_detection.cpp) *)
(* and the step of its one caller, android_startOpenglesRenderer          *)
(* (opengles.cpp), that picks EGL_PLATFORM from the result: "surfaceless"  *)
(* for NVIDIA, AMD and Intel, "drm" otherwise.  RendererMain composes it   *)
(* with the renderer process that calls it.                                *)
(*                                                                         *)
(* The host is an input chosen in Init from a bounded set: its PCI devices *)
(* in enumeration order, the GPU the X server's DRI3 hands out, whether    *)
(* libdrm can name that GPU's PCI vendor, the framebuffer drivers listed   *)
(* in /proc/fb, and the device nodes present.  A PCI device is abstracted  *)
(* to its class, its vendor id, and the keywords getGpuModel looks for     *)
(* with strcasestr that occur in its pci.ids vendor (or device) name.      *)
(* GpuType values keep their enum values (gpu_types.h): UNKNOWN_VGA is -1  *)
(* and NVIDIA_VGA is 0.                                                    *)
(***************************************************************************)
EXTENDS Integers, Sequences

CONSTANTS
    Catalogue,  \* device name -> [cls, vendor, named, vendName, devName, fb, kind]
    Hosts       \* the hosts the renderer may start on (records: pci, display,
                \* drmOk, fbs, nvdev, mali, pciOk)

\* enum GpuType
UNKNOWN_VGA == -1
NVIDIA_VGA == 0
AMD_VGA == 1
MALI_VGA == 2
INTEL_VGA == 3
GP101_VGA == 4
ZC716_VGA == 5
JJM_VGA == 6
ZHAOXIN_VGA == 8
GpuTypes == -1..9

Mali == "mali"       \* a platform (non-PCI) GPU: the host's display GPU
                     \* when it is not one of its PCI devices

VARIABLES
    host,        \* the machine (constant in a behaviour)
    checked,     \* GpuDetection::mGpuCheckCompleted
    cachedType,  \* GpuDetection::mGpuType
    platform     \* the EGL_PLATFORM environment variable: unset, surfaceless, drm

gpuVars == <<host, checked, cachedType, platform>>

GpuTypeOK ==
    /\ host.display \in DOMAIN Catalogue \cup {Mali}
    /\ checked \in BOOLEAN
    /\ cachedType \in GpuTypes
    /\ platform \in {"unset", "surfaceless", "drm"}

Dev(d) == Catalogue[d]

-----------------------------------------------------------------------------
(* The probes, as functions of the host.                                   *)

\* get_gpu_vendor: the vendor ids the DRM path knows.
get_gpu_vendor(id) ==
    CASE id = 1801  -> GP101_VGA     \* 0x0709
      [] id = 1814  -> ZC716_VGA     \* 0x0716
      [] id = 1841  -> JJM_VGA       \* 0x0731
      [] id = 4098  -> AMD_VGA       \* 0x1002
      [] id = 4318  -> NVIDIA_VGA    \* 0x10de
      [] id = 32902 -> INTEL_VGA     \* 0x8086
      [] id = 7447  -> ZHAOXIN_VGA   \* 0x1d17
      [] OTHER      -> UNKNOWN_VGA

\* Mutant: the PCI vendor id is returned without get_gpu_vendor.
getGpuVendorFromDrmRawId(h) ==
    IF h.drmOk THEN Dev(h.display).vendor ELSE UNKNOWN_VGA

\* getGpuVendorFromDrm: get_gpu_pci_info opens the X screen's DRI3 device
\* (DRI_PRIME may pick another) and asks libdrm for its PCI ids; that fails
\* for a device not on the PCI bus, or when DRI3 is not available.
getGpuVendorFromDrm(h) ==
    IF h.drmOk THEN get_gpu_vendor(Dev(h.display).vendor) ELSE UNKNOWN_VGA

\* fbMatched(name): a line of /proc/fb contains name.
fbMatched(h, name) == name \in h.fbs
\* isGpuFileExist: /dev/mali0, /dev/nvidiactl or /dev/nvidia0.
isMaliGraphicCard(h) == h.mali
isNvidiaGraphicCard(h) == h.nvdev

\* The strcasestr chain on a vendor or device name: NVIDIA, then "AMD",
\* "ATI", and Intel last.
NameType(words) ==
    CASE "nvidia" \in words -> NVIDIA_VGA
      [] "amd" \in words    -> AMD_VGA
      [] "ati" \in words    -> AMD_VGA
      [] "intel" \in words  -> INTEL_VGA
      [] OTHER              -> UNKNOWN_VGA

\* IterateVgaPciDevice: a VGA or other display controller is typed by its
\* vendor id, else by its vendor name, or its device name when it has no
\* vendor name ("Device unknown" when it has neither).
IterateVgaPciDevice(d) ==
    LET v == Dev(d).vendor
    IN
    IF Dev(d).cls \notin {"vga", "dc"} THEN UNKNOWN_VGA
    ELSE CASE v = 1801  -> GP101_VGA
           [] v = 1814  -> ZC716_VGA
           [] v = 1841  -> JJM_VGA
           [] v = 4098  -> AMD_VGA
           [] v = 4318  -> NVIDIA_VGA
           [] v = 32902 -> INTEL_VGA
           [] OTHER     -> IF Dev(d).named
                           THEN NameType(Dev(d).vendName)
                           ELSE NameType(Dev(d).devName)

\* The pci_device_next loop: nRet is overwritten by every device and the
\* loop stops at the first one with nRet > 0.
RECURSIVE PciScan(_, _)
PciScan(devs, nRet) ==
    IF devs = <<>> THEN nRet
    ELSE LET r == IterateVgaPciDevice(Head(devs))
         IN IF r > 0 THEN r ELSE PciScan(Tail(devs), r)

\* The /proc/fb and /dev checks, each overriding the one before.
FbFallback(h, nRet) ==
    LET a == IF fbMatched(h, "MWV206") THEN JJM_VGA ELSE nRet
        b == IF fbMatched(h, "CSMDRMFB") \/ fbMatched(h, "csmicrodrmfb")
             THEN GP101_VGA ELSE a
        c == IF fbMatched(h, "amdgpudrmfb") \/ fbMatched(h, "radeondrmfb")
             THEN AMD_VGA ELSE b
    IN IF isNvidiaGraphicCard(h) THEN NVIDIA_VGA ELSE c

\* Mutant: the fallbacks run even when the DRM path named the GPU.
DetectGpuAlwaysFallback(h) ==
    LET afterDrm == getGpuVendorFromDrm(h)
        afterFb == FbFallback(h, afterDrm)
    IN IF afterFb = UNKNOWN_VGA /\ h.pciOk THEN PciScan(h.pci, afterFb)
       ELSE afterFb

\* getGpuModel, uncached part: the Mali result is overwritten by the DRM
\* result right after; the fallbacks run while the result is UNKNOWN_VGA;
\* the PCI scan runs if pci_system_init succeeds.
DetectGpu(h) ==
    LET afterMali == IF isMaliGraphicCard(h) THEN MALI_VGA ELSE UNKNOWN_VGA
        afterDrm == getGpuVendorFromDrm(h)
        afterFb == IF afterDrm = UNKNOWN_VGA THEN FbFallback(h, afterDrm)
                   ELSE afterDrm
    IN IF afterFb = UNKNOWN_VGA /\ h.pciOk THEN PciScan(h.pci, afterFb)
       ELSE afterFb

-----------------------------------------------------------------------------

GpuInit ==
    /\ host \in Hosts
    /\ checked = FALSE
    /\ cachedType = UNKNOWN_VGA
    /\ platform = "unset"

\* android_startOpenglesRenderer's GPU step: getGpuModel (which returns
\* mGpuType once mGpuCheckCompleted is set), then setenv("EGL_PLATFORM",
\* ..., 0), which keeps a value the environment already has.
SelectEglPlatform ==
    LET t == IF checked THEN cachedType ELSE DetectGpu(host)
    IN /\ checked' = TRUE
       /\ cachedType' = t
       /\ platform' = IF platform # "unset" THEN platform
                      ELSE IF t \in {NVIDIA_VGA, AMD_VGA, INTEL_VGA}
                           THEN "surfaceless" ELSE "drm"
       /\ UNCHANGED host

-----------------------------------------------------------------------------
(* Properties                                                              *)

\* The GPU the X server renders with, as the GpuType it is (Catalogue's
\* kind: UNKNOWN_VGA for a vendor GpuType has no value for).
DisplayKind(h) == IF h.display = Mali THEN MALI_VGA ELSE Dev(h.display).kind

\* When libdrm names the display GPU and it is a GPU getGpuModel has a type
\* for, the result is that GPU: the /proc/fb, /dev and PCI fallbacks (which
\* may see a second GPU) never override the DRM answer.
DetectsDrmGpu ==
    checked /\ host.drmOk /\ DisplayKind(host) # UNKNOWN_VGA
        => cachedType = DisplayKind(host)

\* getGpuModel names the host's GPU: once it has run, mGpuType is the
\* type of the GPU the X server renders with (UNKNOWN_VGA for a vendor it
\* has no type for).  android_startOpenglesRenderer sets EGL_PLATFORM
\* from it: surfaceless for NVIDIA, AMD and Intel, drm otherwise.
DetectsGpu == checked => cachedType = DisplayKind(host)

=============================================================================
