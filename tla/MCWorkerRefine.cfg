\* Two stream connections, a restart or slot reuse, and three single-id
\* responses: enough for a response to be read while an older one is still
\* parked for the same connection.
CONSTANTS
    Req = Req
    Stream = Stream
    None = None
    MaxConn <- MCStreamOnly
    TlsModes = {}
    AcceptPerLoopMax = 1
    MaxCid = 3
    MaxMsgs = 3
    MaxIds = 1
    Malformed = FALSE

SPECIFICATION Spec

PROPERTY FanOutRefined
