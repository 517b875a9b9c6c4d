\* The command writes more than the window of the client while the client's
\* standard output refuses what it is given.
CONSTANTS
    Kinds = {"session"}
    Window = 2
    MaxPacket = 1
    Volume <- MCVolume
    MaxIO = 1
SPECIFICATION Spec
PROPERTIES EndsAfterRefusal
CHECK_DEADLOCK FALSE
