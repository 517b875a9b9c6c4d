CONSTANTS
    Kinds = {"session", "tcp", "tcp15"}
    Window = 2
    MaxPacket = 1
    Volume <- MCVolume
    MaxIO = 1
SPECIFICATION Spec
INVARIANTS TypeOK InStep NothingForFreed WindowKept StatusBeforeClose
PROPERTIES PipesSpec ChannelEnds
CHECK_DEADLOCK FALSE
