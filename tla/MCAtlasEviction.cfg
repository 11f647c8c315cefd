SPECIFICATION FramesSpec
CONSTANTS
    Glyphs <- ThreeGlyphs
    Raster <- Sizes
    WorkingSets <- ManyTexts
    PageWidth = 3
    PageHeight = 1
    Padding = 0
    MaxPages = 2
    MaxEntries = 3
    Holders = {"ui"}
    Producer = "ui"
    MaxEpoch = 4
    MaxTextures = 2
    DeviceFrames = 2
    ScheduledFrames = 2
    MaxResident = 2
    MaxPins = 4
    Repeats = TRUE
    MaxFence = 8
INVARIANT DrawsWhatWasPut
CHECK_DEADLOCK FALSE
