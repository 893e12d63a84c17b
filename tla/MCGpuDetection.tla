--------------------------- MODULE MCGpuDetection ---------------------------
(* Hosts for RendererMain and GpuDetection: PCI devices as pci.ids and    *)
(* their drivers show them, up to two GPUs and a network controller in any *)
(* enumeration order.                                                      *)
EXTENDS RendererMain, FiniteSets

\* named: pci.ids has a vendor name for it; vendName/devName: the keywords
\* of getGpuModel's strcasestr calls ("nvidia", "AMD", "ATI", "Intel",
\* case-insensitive) occurring in the pci.ids vendor and device names;
\* fb: the /proc/fb names getGpuModel looks for that the driver uses.
MCCatalogue ==
    [d \in {"nvidia", "amd", "intel", "zhaoxin", "jjm", "gp101", "hyperv", "nic"} |->
        CASE d = "nvidia"  -> [cls |-> "vga", vendor |-> 4318,   \* NVIDIA Corporation
                               named |-> TRUE, vendName |-> {"nvidia", "ati"}, devName |-> {},
                               fb |-> {}, kind |-> NVIDIA_VGA]
          [] d = "amd"     -> [cls |-> "vga", vendor |-> 4098,   \* Advanced Micro Devices, Inc. [AMD/ATI]
                               named |-> TRUE, vendName |-> {"amd", "ati"}, devName |-> {},
                               fb |-> {"amdgpudrmfb"}, kind |-> AMD_VGA]
          [] d = "intel"   -> [cls |-> "vga", vendor |-> 32902,  \* Intel Corporation
                               named |-> TRUE, vendName |-> {"intel", "ati"}, devName |-> {},
                               fb |-> {}, kind |-> INTEL_VGA]
          [] d = "zhaoxin" -> [cls |-> "vga", vendor |-> 7447,   \* Zhaoxin
                               named |-> TRUE, vendName |-> {}, devName |-> {},
                               fb |-> {}, kind |-> ZHAOXIN_VGA]
          [] d = "jjm"     -> [cls |-> "vga", vendor |-> 1841,   \* Jingjia Microelectronics
                               named |-> TRUE, vendName |-> {}, devName |-> {},
                               fb |-> {"MWV206"}, kind |-> JJM_VGA]
          [] d = "gp101"   -> [cls |-> "dc", vendor |-> 1801,    \* no pci.ids name
                               named |-> FALSE, vendName |-> {}, devName |-> {},
                               fb |-> {"csmicrodrmfb"}, kind |-> GP101_VGA]
          [] d = "hyperv"  -> [cls |-> "vga", vendor |-> 5140,   \* Microsoft Corporation (Hyper-V VGA)
                               named |-> TRUE, vendName |-> {"ati"}, devName |-> {},
                               fb |-> {}, kind |-> UNKNOWN_VGA]
          [] d = "nic"     -> [cls |-> "other", vendor |-> 32902, \* Intel Corporation, Ethernet
                               named |-> TRUE, vendName |-> {"intel", "ati"}, devName |-> {},
                               fb |-> {}, kind |-> UNKNOWN_VGA]]

MCGpus == DOMAIN MCCatalogue \ {"nic"}

\* Enumeration orders: up to three distinct devices, at most two GPUs.
MCLayouts ==
    {s \in UNION {[1..n -> DOMAIN MCCatalogue] : n \in 0..3} :
        /\ \A i, j \in DOMAIN s : i # j => s[i] # s[j]
        /\ Cardinality({i \in DOMAIN s : s[i] \in MCGpus}) <= 2}

GpusOf(s) == {s[i] : i \in DOMAIN s} \cap MCGpus

\* The display GPU is one of the PCI GPUs (libdrm may or may not name it)
\* or, with no PCI GPU, a Mali platform GPU (/dev/mali0, never on PCI).
\* /proc/fb lists framebuffers of present drivers only; /dev/nvidiactl
\* exists only beside an NVIDIA device.
MCHosts ==
    LET HostsOn(s, g) ==
          { [pci |-> s, display |-> g, drmOk |-> ok, fbs |-> f, nvdev |-> nv,
             mali |-> (g = Mali), pciOk |-> po] :
              ok \in IF g = Mali THEN {FALSE} ELSE BOOLEAN,
              f \in SUBSET UNION {MCCatalogue[x].fb : x \in GpusOf(s)},
              nv \in IF "nvidia" \in GpusOf(s) THEN BOOLEAN ELSE {FALSE},
              po \in BOOLEAN }
    IN UNION { UNION { HostsOn(s, g) :
                         g \in IF GpusOf(s) = {} THEN {Mali} ELSE GpusOf(s) }
             : s \in MCLayouts }

\* One laptop: Intel graphics, libdrm names it.
MCOneHost ==
    {[pci |-> <<"intel">>, display |-> "intel", drmOk |-> TRUE, fbs |-> {},
      nvdev |-> FALSE, mali |-> FALSE, pciOk |-> TRUE]}

=============================================================================
