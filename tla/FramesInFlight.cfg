SPECIFICATION Spec
CONSTANTS
    MaxFramesInFlight = 2
    ImageCounts <- MCImageCounts
    Sizes = {small, large}
    NoImage = NoImage
INVARIANTS
    NoWriteInFlight
    SemaphoresUsable
    ImagesOutliveTheirUse
    NoResizeForgotten
PROPERTIES
    NextPresentedIsCaptured
    StepTerminates
