CONSTANTS
    Req = Req
    Stream = Stream
    None = None
    ReqMax = 1
    StreamMax = 0
    Addrs = {a1}
    KEEP_ALIVE_BATCHES = 2
    IDS_MAX = 1
    MaxLag = 1
SPECIFICATION Spec
PROPERTY ShutdownCompletes
