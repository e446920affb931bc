CONSTANTS
    WorkerId = 1
    MaxConn = 2
    CidWidth = 2
    MaxGen = 4
    Junk <- MCJunk
    Frames <- MCFrames
    InstanceId <- MCInstanceId

SPECIFICATION Spec

INVARIANT TypeOK
INVARIANT GetKeyIsReference
INVARIANT AddrCheckIsReference
INVARIANT IntakeSelectsItsSession
