\* One-slot channels and handles, four messages per pump and one Io error:
\* Full, a message behind the holder, and a message sent while the
\* receiver is still readable (no event) followed by an Io drop all occur.
\* A full out_stream channel (handle, holder and channel each holding one)
\* leaves a fourth message for check_send to refuse.  One connection
\* competes with the keep-alive emitter for that channel; a second one
\* multiplies the states by three without a new case.
CONSTANTS
    PumpOrder <- MCPumpOrder
    KaPump = outStream
    ChanCap = 1
    BusCap = 1
    MaxMsgs = 4
    MaxIo = 1
    Conns = {c1}
    None = None
    c1 = c1
    req = req
    outStream = outStream
SPECIFICATION Spec
INVARIANT TypeOK
INVARIANT NoLossNoReorder
INVARIANT NoStall
PROPERTY Progress
PROPERTY SendToProgress
