SPECIFICATION Spec
CONSTANTS
    Hosts <- MCHosts
    Capabilities <- MCCapabilities
    FramebufferSizes <- MCSizes
    MaxFrames = 2
    MaxFailures = 2
INVARIANTS
    UsersGoFirst
    GpuDoneFirst
    ImagesAccessedInOrder
    NothingOutlivesTheRun
    ChoicesLegal
