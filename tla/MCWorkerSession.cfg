\* One stream connection restarted by Ready: is every response applied
\* to the session it was addressed to?
CONSTANTS
    Req = Req
    Stream = Stream
    None = None
    MaxConn <- MCStreamOnly
    TlsModes = {}
    AcceptPerLoopMax = 1
    MaxCid = 2
    MaxMsgs = 2
    MaxIds = 1
    Malformed = FALSE

SPECIFICATION Spec

INVARIANT DeliveredToCurrentSession
