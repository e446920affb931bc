CONSTANTS
    Req = Req
    Stream = Stream
    None = None
    MaxConn <- MCMaxConn
    TlsModes = {Stream}
    AcceptPerLoopMax = 1
    MaxCid = 3
    MaxMsgs = 2
    MaxIds = 2
    Malformed = FALSE

SPECIFICATION Spec

INVARIANT TypeOK
INVARIANT SendingKeyConsistent
INVARIANT NeedsProcessLive
INVARIANT TimerOwnerLive
INVARIANT NoLostInboxWakeup
INVARIANT NoStrandedWaiter
INVARIANT NoCrossConnectionDelivery
