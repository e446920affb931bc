\* Two stream connections, three responses: can more than
\* MSG_RETAINED_MAX responses of one mode be retained at once?
CONSTANTS
    Req = Req
    Stream = Stream
    None = None
    MaxConn <- MCStreamOnly
    TlsModes = {}
    AcceptPerLoopMax = 2
    MaxCid = 2
    MaxMsgs = 3
    MaxIds = 1
    Malformed = FALSE

SPECIFICATION Spec

INVARIANT RetainedWithinBound
