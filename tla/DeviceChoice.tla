---------------------------- MODULE DeviceChoice ----------------------------
(***************************************************************************)
(* PlaygroundEngine/src/Renderer/VulkanUtils.cpp: what the renderer picks  *)
(* out of what a machine offers.  A machine is a record of the devices the *)
(* instance reports, in order, and of what the window's surface can do;    *)
(* a choice that cannot be made is 0, or "none".                           *)
(***************************************************************************)
EXTENDS Integers, SequencesExt

RequiredExtensions == {"swapchain"}
RequiredFeatures ==
    {"samplerAnisotropy", "shaderDrawParameters", "dynamicRendering", "extendedDynamicState"}

\* Mutant: a device whose extensions cannot be enumerated passes for one that
\* has them.
SuitableIfNotEnumerable(device) ==
    /\ device.api >= 13
    /\ \E i \in DOMAIN device.families : device.families[i].graphics
    /\ device.enumerable => RequiredExtensions \subseteq device.extensions
    /\ RequiredFeatures \subseteq device.features

IsPhysicalDeviceSuitable(device) ==
    /\ device.api >= 13
    /\ \E i \in DOMAIN device.families : device.families[i].graphics
    /\ device.enumerable
    /\ RequiredExtensions \subseteq device.extensions
    /\ RequiredFeatures \subseteq device.features

\* The first suitable device; its queue families are looked at afterwards.
SelectPhysicalDevice(devices) == SelectInSeq(devices, IsPhysicalDeviceSuitable)

FindGraphicsPresentQueueFamily(device) ==
    SelectInSeq(device.families, LAMBDA family : family.graphics /\ family.present)

\* What CreateInstance asks of the loader: the window system's extensions and,
\* in a development build, the messenger's and the validation layer.
CollectRequired(machine, dev) ==
    /\ machine.windowExtensions # {}
    /\ machine.windowExtensions \cup (IF dev THEN {"debugUtils"} ELSE {})
          \subseteq machine.instanceExtensions
    /\ dev => "validation" \in machine.layers

SelectSurfaceFormat(formats) ==
    LET preferred == SelectInSeq(formats, LAMBDA f : f = "B8G8R8A8Srgb") IN
    IF formats = <<>> THEN "none"
    ELSE formats[IF preferred # 0 THEN preferred ELSE 1]

\* std::clamp
Clamp(x, low, high) == IF x < low THEN low ELSE IF high < x THEN high ELSE x

\* Mutant: three images or more, whatever the surface's limit.
ImageCountIgnoringLimit(surface) == Max({3, surface.minCount})

\* A limit of 0 is no limit.
ImageCount(surface) ==
    LET wanted == Max({3, surface.minCount}) IN
    IF 0 < surface.maxCount /\ surface.maxCount < wanted THEN surface.maxCount ELSE wanted

\* CreateSwapChainResources, up to the swap chain itself.
SwapChainChoice(surface, framebufferSize) ==
    [extent |-> [i \in 1..2 |-> Clamp(framebufferSize[i], surface.minExtent[i],
                                      surface.maxExtent[i])],
     mode   |-> IF "mailbox" \in surface.modes THEN "mailbox" ELSE "fifo",
     usage  |-> {"colour"} \cup ({"transferSource"} \cap surface.usages),
     count  |-> ImageCount(surface)]

\* The first memory type among the allowed ones that has the properties.
FindMemoryType(memory, allowed, properties) ==
    LET fits == {i \in DOMAIN memory \cap allowed : properties \subseteq memory[i]} IN
    IF fits = {} THEN 0 ELSE Min(fits)

DepthCandidates == <<"D32Sfloat", "D32SfloatS8Uint", "D24UnormS8Uint">>

\* FindSupportedFormat over the candidates, the depth-only one first.
FindDepthFormat(device) ==
    LET found == SelectInSeq(DepthCandidates, LAMBDA f : f \in device.depthFormats) IN
    IF found = 0 THEN "none" ELSE DepthCandidates[found]

\* The counts both attachments support; one sample always is.
GetMaxUsableSampleCount(device) ==
    Max({1} \cup (device.colourSamples \cap device.depthSamples \cap {2, 4, 8, 16, 32, 64}))

PowerOfTwo(n) ==
    LET power[i \in 0..n] == IF i = 0 THEN 1 ELSE 2 * power[i - 1] IN power[n]

\* floor(log2(longer side)) + 1
MipLevels(extent) ==
    CHOOSE n \in 1..32 : /\ PowerOfTwo(n - 1) <= Max({extent[1], extent[2]})
                         /\ Max({extent[1], extent[2]}) < PowerOfTwo(n)

\* CaptureSwapChainImage reads back the 8-bit four-channel formats only.
Capturable(format) == format \in {"B8G8R8A8Unorm", "B8G8R8A8Srgb", "R8G8B8A8Unorm", "R8G8B8A8Srgb"}

-----------------------------------------------------------------------------
(* What Vulkan asks of the choices, as the specification puts it.          *)

BytesPerPixel(format) == IF format = "R16G16B16A16Sfloat" THEN 8 ELSE 4

LegalSwapChain(surface, choice) ==
    /\ \A i \in 1..2 : /\ surface.minExtent[i] <= choice.extent[i]
                       /\ choice.extent[i] <= surface.maxExtent[i]
    /\ surface.minCount <= choice.count
    /\ surface.maxCount # 0 => choice.count <= surface.maxCount
    /\ choice.mode \in surface.modes
    /\ choice.usage \subseteq surface.usages

\* Everything the renderer builds its device and its attachments from is there.
LegalDevice(device, family, depthFormat, samples) ==
    /\ device.families[family].graphics /\ device.families[family].present
    /\ device.api >= 13 /\ "swapchain" \in device.extensions
    /\ RequiredFeatures \subseteq device.features
    /\ depthFormat \in device.depthFormats
    /\ samples \in device.colourSamples \cap device.depthSamples
=============================================================================
