CONSTANTS
    Req = Req
    Stream = Stream
    None = None
    ReqMax = 0
    StreamMax = 2
    Addrs = {a1, a2}
    KEEP_ALIVE_BATCHES = 2
    IDS_MAX = 1
    MaxLag = 1
SPECIFICATION Spec
INVARIANT GroupAvailable
