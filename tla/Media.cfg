SPECIFICATION MediaSpec
SYMMETRY Alike
CONSTANTS
    Viewers = {h1, h2}
    Kinds = {"audio", "video"}
    Frames = 2
    Keys = {1}
    Tracked = {"connect", "busy"}
    MaxFails = 2
    Loops = 4
    KeyFrames = {2, 3, 7}
    Pauses = TRUE
    MaxLag = 7
    Opener = command
    Closers = {c1, c2}
    ApartSlots = 2
    ApartOpens = 3
    ApartFrames = 4
    OverlapSlots = 1
    OverlapOpens = 2
    OverlapFrames = 2
INVARIANTS
    KeyFrameWhenOwed
    FramesTileTheFile
    RecorderIsSound
PROPERTIES
    JumpTakesAudioAlong
CHECK_DEADLOCK FALSE
