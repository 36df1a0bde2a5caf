SPECIFICATION Spec
CONSTANTS
    Bans = {"ban"}
    SendCap = 1
    MaxFrames = 3
    MaxMessages = 2
INVARIANTS
    FramesHold
PROPERTIES
    BrokenIsCleanedUp
    OneCloseSuffices
    ReceiverLeavesSocket
CHECK_DEADLOCK FALSE
