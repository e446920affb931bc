\* One response that lists the same stream session twice: is a node ever
\* left on the waiting list with nothing to re-arm it?
CONSTANTS
    Req = Req
    Stream = Stream
    None = None
    MaxConn <- MCStreamOnly
    TlsModes = {}
    AcceptPerLoopMax = 1
    MaxCid = 1
    MaxMsgs = 1
    MaxIds = 2
    Malformed = TRUE

SPECIFICATION Spec

INVARIANT NoStrandedWaiter
