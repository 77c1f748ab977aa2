--------------------------- MODULE RendererCalls ---------------------------
(***************************************************************************)
(* PlaygroundEngine/src/Renderer: each function of VulkanUtils.cpp and     *)
(* RendererVulkan.cpp as the sequence of steps it takes, in the order of   *)
(* its source.  A step is a record:                                        *)
(*   make     a local is constructed from the objects Needs lists          *)
(*   call     a call on live objects                                       *)
(*   submit   work that uses live objects goes to the queue                *)
(*   wait     the queue or the device is waited for                        *)
(*   image    an image comes into being, or is acquired, contents unknown  *)
(*   transition, use, present   its accesses                               *)
(*   drop     a local is destroyed        release   a member is            *)
(*   replace  a local is moved over the member of its name                 *)
(*   adopt    every local is moved into a member                           *)
(*   chain    the swap chain's properties are noted                        *)
(*   choose   what the world decides      stop   RequestStop               *)
(*   catch    where a failed call before it is handled, with what follows  *)
(* fails says what a step's result may be: {FALSE} it cannot fail, {TRUE}  *)
(* it must, BOOLEAN either.  EngineLifecycle runs the steps.               *)
(***************************************************************************)
EXTENDS DeviceChoice, GpuAccess

Step(op, on, fails, with) == <<[op |-> op, on |-> on, fails |-> fails, with |-> with]>>

Make(o)              == Step("make", {o}, BOOLEAN, <<>>)
Own(o)               == Step("make", {o}, {FALSE}, <<>>)
Check(uses)          == Step("call", uses, BOOLEAN, <<>>)
Surely(uses)         == Step("call", uses, {FALSE}, <<>>)
Needed(found)        == Step("call", {}, {~found}, <<>>)
Submit(uses)         == Step("submit", uses, BOOLEAN, <<>>)
Wait                 == Step("wait", {"device"}, BOOLEAN, <<>>)
Drop(o)              == Step("drop", {o}, {FALSE}, <<>>)
Release(o)           == Step("release", {o}, {FALSE}, <<>>)
Replace(o)           == Step("replace", {o}, {FALSE}, <<>>)
Adopt                == Step("adopt", {}, {FALSE}, <<>>)
Stop                 == Step("stop", {}, {FALSE}, <<>>)
Catch(handler)       == Step("catch", {}, {FALSE}, handler)
Choose(alternatives) == Step("choose", {}, {FALSE}, alternatives)
Guarded(body, handler) == Choose(<<body \o Catch(handler)>>)
Chain(chain)         == Step("chain", {"swapChain"}, {FALSE}, chain)
Image(o, level, extent) == Step("image", {o}, {FALSE}, [image |-> <<o, level>>, extent |-> extent])
Use(o, level, layout, access, extent) ==
    Step("use", {o}, {FALSE},
         [image |-> <<o, level>>, layout |-> layout, access |-> access, extent |-> extent])

Present == Step("present", {"swapChain", "renderFinished"}, {FALSE}, [image |-> <<"swapChain", 0>>])

TransitionImageLayout(o, level, from, to, src, dst) ==
    Step("transition", {o}, {FALSE},
         [image |-> <<o, level>>, from |-> from, to |-> to, src |-> src, dst |-> dst])

-----------------------------------------------------------------------------
(* Buffers, images and single-time commands (VulkanUtils.cpp).  A resource *)
(* is its buffer or image with the memory behind it.                       *)

HostVisible == {"hostVisible", "hostCoherent"}
DeviceLocal == {"deviceLocal"}

CreateBufferResource(host, o, properties) ==
    Make(o) \o Needed(FindMemoryType(host.memory, host.bufferTypes, properties) # 0)
            \o Check({o}) \o Check({o})

\* Vulkan's size of a level.
MipExtent(extent, level) == [i \in 1..2 |-> Max({1, extent[i] \div PowerOfTwo(level)})]

CreateImage(host, o, extent, levels) ==
    Make(o) \o Needed(FindMemoryType(host.memory, host.imageTypes, DeviceLocal) # 0)
            \o Check({o}) \o Check({o})
            \o FlattenSeq([l \in 1..levels |-> Image(o, l - 1, MipExtent(extent, l - 1))])

\* Mapped, filled and unmapped.
UploadToDeviceMemory(o) == Check({o})

BeginSingleTimeCommands == Make("single") \o Check({"single"})

\* Mutant: the commands are left to run on their own.
EndSingleTimeCommandsUnwaited(uses) == Check({"single"}) \o Submit({"single"} \cup uses)

EndSingleTimeCommands(uses) == Check({"single"}) \o Submit({"single"} \cup uses) \o Wait

CopyBuffer(from, to) ==
    BeginSingleTimeCommands \o Surely({from, to}) \o EndSingleTimeCommands({from, to})
    \o Drop("single")

CreateDeviceLocalBuffer(host, o) ==
    CreateBufferResource(host, "staging", HostVisible) \o UploadToDeviceMemory("staging")
    \o CreateBufferResource(host, o, DeviceLocal)
    \o CopyBuffer("staging", o) \o Drop("staging")

\* The buffer holds four bytes of each pixel.
ReadImageToHost(host, o, layout, extent) ==
    CreateBufferResource(host, "readback", HostVisible) \o BeginSingleTimeCommands
    \o TransitionImageLayout(o, 0, layout, "transferSrc", {}, {"transferRead"})
    \o Use(o, 0, "transferSrc", {"transferRead"}, extent)
    \o TransitionImageLayout(o, 0, "transferSrc", layout, {"transferRead"}, {})
    \o EndSingleTimeCommands({"readback", "swapChain"})
    \o Check({"readback"}) \o Drop("single") \o Drop("readback")

-----------------------------------------------------------------------------
(* The texture.                                                            *)

\* Mutant: the smallest level, never a source, is forgotten.
GenerateMipmapsButTheLast(extent, levels) ==
    LET size[l \in 0..levels] == IF l = 0 THEN extent
                                 ELSE [i \in 1..2 |-> Max({1, size[l - 1][i] \div 2})]
        Blit(l) ==
            TransitionImageLayout("texture", l - 1, "transferDst", "transferSrc",
                                  {"transferWrite"}, {"transferRead"})
            \o Use("texture", l - 1, "transferSrc", {"transferRead"}, size[l - 1])
            \o Use("texture", l, "transferDst", {"transferWrite"}, size[l])
            \o TransitionImageLayout("texture", l - 1, "transferSrc", "shaderRead",
                                     {"transferRead"}, {"sampledRead"})
    IN FlattenSeq([l \in 1..(levels - 1) |-> Blit(l)])

\* Each level is blitted from the one above, which is then done with.
GenerateMipmaps(extent, levels) ==
    GenerateMipmapsButTheLast(extent, levels)
    \o TransitionImageLayout("texture", levels - 1, "transferDst", "shaderRead",
                             {"transferWrite"}, {"sampledRead"})

CopyBufferToImage(extent) == Use("texture", 0, "transferDst", {"transferWrite"}, extent)

\* The three ways the file may not be read are one call.
CreateTextureImage(host) ==
    LET extent == host.texture
        levels == MipLevels(extent) IN
    Check({}) \o CreateBufferResource(host, "staging", HostVisible)
    \o UploadToDeviceMemory("staging") \o Needed(host.linearBlit)
    \o CreateImage(host, "texture", extent, levels) \o BeginSingleTimeCommands
    \o FlattenSeq([l \in 1..levels |->
           TransitionImageLayout("texture", l - 1, "undefined", "transferDst", {}, {"transferWrite"})])
    \o CopyBufferToImage(extent) \o GenerateMipmaps(extent, levels)
    \o EndSingleTimeCommands({"staging", "texture"}) \o Drop("single") \o Drop("staging")

-----------------------------------------------------------------------------
(* The device, the swap chain and what is drawn into.                      *)

CreateInstance(host) == Needed(CollectRequired(host, host.dev)) \o Make("instance")

\* A build without the development flag makes a null messenger.
CreateDebugMessenger(host) == IF host.dev THEN Make("messenger") ELSE <<>>

CreateSurface == Make("surface")

\* What SelectPhysicalDevice and FindGraphicsPresentQueueFamily settle on.
Device(host) == host.devices[SelectPhysicalDevice(host.devices)]

CreateLogicalDevice(host) ==
    Check({"instance"}) \o Needed(SelectPhysicalDevice(host.devices) # 0)
    \o (IF SelectPhysicalDevice(host.devices) = 0 THEN <<>>
        ELSE Needed(FindGraphicsPresentQueueFamily(Device(host)) # 0))
    \o Make("device")

CreateImageView(o) == Make(o)

\* Both queries, the choices, the chain, its images and their views.
CreateSwapChainResources(surface, framebufferSize) ==
    Check({"device", "surface"}) \o Make("swapChain") \o Check({"swapChain"})
    \o Chain([surface |-> surface, choice |-> SwapChainChoice(surface, framebufferSize)])
    \o CreateImageView("swapViews")

CreateMultisampleColorResources(host, extent) ==
    CreateImage(host, "msaa", extent, 1) \o CreateImageView("msaaView")

CreateDepthResources(host, extent) ==
    CreateImage(host, "depth", extent, 1) \o CreateImageView("depthView")

CreateDescriptorSetLayout == Make("setLayout")
CreatePipelineLayout == Make("pipelineLayout")

\* The file, then the module.
LoadShaderModule == Check({}) \o Make("shaders")

\* The shader module outlives the call that reads it and no more.
CreateGraphicsPipeline == LoadShaderModule \o Surely({"pipelineLayout", "shaders"}) \o Make("pipeline") \o Drop("shaders")

CreateCommandPool == Make("commandPool")
CreateTextureSampler == Make("sampler")

\* One for each frame in flight, mapped for good.
CreateUniformBuffer(host) ==
    CreateBufferResource(host, "uniforms", HostVisible) \o Check({"uniforms"})

CreateDescriptorPool == Make("descriptorPool")
CreateDescriptorSets == Surely({"setLayout"}) \o Make("descriptorSets")
AllocateCommandBuffers == Make("commandBuffers")
CreateSemaphores(o) == Make(o)
CreateSignaledFences == Make("fences")

-----------------------------------------------------------------------------
(* RendererVulkan: creation and the end.                                   *)

\* Instance to depth image; the images of the chain belong to it.
CreateDeviceAndTargets(host, framebufferSize) ==
    LET extent == SwapChainChoice(host.surface, framebufferSize).extent IN
    CreateInstance(host) \o CreateDebugMessenger(host) \o CreateSurface
    \o CreateLogicalDevice(host)
    \o Check({"device", "surface"}) \o Needed(SelectSurfaceFormat(host.surface.formats) # "none")
    \o CreateSwapChainResources(host.surface, framebufferSize)
    \o (IF SelectPhysicalDevice(host.devices) = 0 THEN <<>>
        ELSE Needed(FindDepthFormat(Device(host)) # "none"))
    \o CreateMultisampleColorResources(host, extent) \o CreateDepthResources(host, extent)

\* Set layout to fences, and the object that takes them all over.
CreatePipelineAndFrames(host) ==
    CreateDescriptorSetLayout \o CreatePipelineLayout \o CreateGraphicsPipeline
    \o CreateCommandPool \o CreateTextureImage(host) \o CreateImageView("textureView")
    \o CreateTextureSampler \o CreateUniformBuffer(host)
    \o CreateDescriptorPool \o CreateDescriptorSets
    \o Surely({"descriptorSets", "uniforms", "sampler", "textureView"})
    \o AllocateCommandBuffers \o CreateSemaphores("renderFinished")
    \o CreateSemaphores("presentComplete") \o CreateSignaledFences
    \o Adopt

\* An overlay that does not come up costs the debug UI, not the run.
InitializeDebugUiBackend == Guarded(Make("backend") \o Adopt, Release("ui"))

Create(host, framebufferSize) ==
    CreateDeviceAndTargets(host, framebufferSize) \o CreatePipelineAndFrames(host)

\* The order RendererVulkan.cppm declares its members in.
Members ==
    <<"instance", "messenger", "surface", "device", "swapChain", "swapViews", "setLayout",
      "pipelineLayout", "pipeline", "commandPool", "vertices", "indices", "texture",
      "textureView", "sampler", "msaa", "msaaView", "depth", "depthView", "uniforms",
      "descriptorPool", "descriptorSets", "commandBuffers", "presentComplete",
      "renderFinished", "fences">>

\* Mutant: members go in the order they are declared in.
ReleaseMembersForwards == FlattenSeq([i \in DOMAIN Members |-> Release(Members[i])])

\* The destructor: last declared, first destroyed.
ReleaseMembers == FlattenSeq([i \in DOMAIN Members |-> Release(Reverse(Members)[i])])

\* Whether the wait succeeded is not looked at.
Teardown == Guarded(Wait, <<>>) \o Release("backend")

-----------------------------------------------------------------------------
(* RendererVulkan: meshes, frames, captures and a new swap chain.  has is  *)
(* the set of members the frame finds, chain what the swap chain was made  *)
(* from.                                                                   *)

LoadMesh == Check({})

AcquireMesh(host) ==
    LoadMesh \o CreateDeviceLocalBuffer(host, "vertices")
    \o CreateDeviceLocalBuffer(host, "indices") \o Adopt

Colour == {"colourWrite"}

\* The scene is resolved into the image the overlay loads.
RecordDebugUiOverlay(extent) ==
    TransitionImageLayout("swapChain", 0, "colour", "colour", Colour, {"colourRead", "colourWrite"})
    \o Use("swapChain", 0, "colour", {"colourRead", "colourWrite"}, extent) \o Surely({"backend"})

RecordCommandBuffer(host, extent, has) ==
    Check({"commandBuffers"})
    \o TransitionImageLayout("swapChain", 0, "undefined", "colour", {}, Colour)
    \o TransitionImageLayout("msaa", 0, "undefined", "colour", Colour, Colour)
    \o TransitionImageLayout("depth", 0, "undefined", "depth", {"depthWrite"}, {"depthWrite"})
    \o Use("msaa", 0, "colour", Colour, extent) \o Use("depth", 0, "depth", {"depthWrite"}, extent)
    \o Use("swapChain", 0, "colour", Colour, extent)
    \o FlattenSeq([l \in 1..MipLevels(host.texture) |->
           Use("texture", l - 1, "shaderRead", {"sampledRead"}, <<1, 1>>)])
    \o (IF "backend" \in has THEN RecordDebugUiOverlay(extent) ELSE <<>>)
    \o TransitionImageLayout("swapChain", 0, "colour", "present", Colour, {})
    \o Check({"commandBuffers"})

\* What a frame's command buffer refers to, the semaphores and the fence included.
FrameUses(has) ==
    {"commandBuffers", "swapChain", "swapViews", "msaa", "msaaView", "depth", "depthView",
     "pipelineLayout", "pipeline", "descriptorSets", "descriptorPool", "uniforms", "texture",
     "textureView", "sampler", "presentComplete", "renderFinished", "fences"}
    \cup (has \cap {"backend", "vertices", "indices"})

CaptureSwapChainImage(host, chain) ==
    Needed("transferSource" \in chain.choice.usage)
    \o Needed(Capturable(SelectSurfaceFormat(host.surface.formats)))
    \o ReadImageToHost(host, "swapChain", "present", chain.choice.extent)
    \o Check({}) \o Check({})

\* The semaphores are replaced when the new chain has another number of images.
RecreateSwapChain(host, surface, framebufferSize) ==
    LET extent == SwapChainChoice(surface, framebufferSize).extent IN
    Wait \o Release("swapViews") \o Release("swapChain")
    \o CreateSwapChainResources(surface, framebufferSize)
    \o Replace("swapChain") \o Replace("swapViews")
    \o CreateMultisampleColorResources(host, extent)
    \o Release("msaaView") \o Replace("msaa") \o Replace("msaaView")
    \o CreateDepthResources(host, extent)
    \o Release("depthView") \o Replace("depth") \o Replace("depthView")
    \o Choose(<<<<>>, CreateSemaphores("renderFinished") \o Replace("renderFinished")>>)

\* A minimized window draws nothing.  surface is what the surface reports when
\* a new chain is made.
DrawFrame(host, surface, framebufferSize, chain, has) ==
    LET recreate == RecreateSwapChain(host, surface, framebufferSize)
        capture == Wait \o CaptureSwapChainImage(host, chain)
        image == Image("swapChain", 0, chain.choice.extent)
    IN IF framebufferSize[1] = 0 \/ framebufferSize[2] = 0 THEN <<>>
       ELSE Check({"fences"})
            \o Choose(<<recreate,
                        Check({"swapChain", "presentComplete"}) \o image
                        \o Check({"fences"}) \o Surely({"uniforms"}) \o Check({"commandBuffers"})
                        \o RecordCommandBuffer(host, chain.choice.extent, has)
                        \o Submit(FrameUses(has))
                        \o Choose(<<<<>>, Guarded(capture, <<>>)>>)
                        \o Present
                        \o Choose(<<recreate, Check({"swapChain", "renderFinished"})>>)>>)
=============================================================================
