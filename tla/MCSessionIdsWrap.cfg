\* One gen_id call past the top of a 2-bit next_cid.  In a release build
\* the counter wraps to 0, and a slot that has gone through all four cids
\* is handed the id of its first session again (at 32 bits this takes
\* 2^32 sessions on one worker).
CONSTANTS
    WorkerId = 1
    MaxConn = 2
    CidWidth = 2
    MaxGen = 5
    Junk <- MCJunk
    Frames <- MCFrames
    InstanceId <- MCInstanceId

SPECIFICATION Spec

INVARIANT IntakeSelectsItsSession
