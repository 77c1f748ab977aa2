SPECIFICATION Spec
CONSTANTS
    MaxFramesInFlight = 2
    ImageCounts <- MCImageCounts
    Sizes = {small, large}
    NoImage = NoImage
INVARIANT
    ServedThisFrame
