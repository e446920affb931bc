------------------------------- MODULE Pumps -------------------------------
(***************************************************************************)
(* The outbound half of a condure worker's event loop (Worker::run in      *)
(* src/server.rs): the three backend write pumps (req, stream-any,         *)
(* stream-addr), each draining a local channel filled by connections into  *)
(* a single-slot "send pending" holder and on to a bounded bus handle; the *)
(* keep-alive emitter, which writes into the stream-addr channel through   *)
(* check_send; the decision whether the poll may block; and the poll's    *)
(* readiness events for channels and bus handles.                          *)
(*                                                                         *)
(* The rest of the loop body is the "process" phase, where connections may *)
(* send into the channels (try_send succeeds only when there is room) and  *)
(* the keep-alive sweep may queue a group.  The bus handles are drained by *)
(* the bus socket manager, a thread of its own.  The readiness edges of    *)
(* channels and handles are those of a poller registration: an event is   *)
(* raised when readiness turns on after it was observed off.               *)
(***************************************************************************)
EXTENDS Naturals, Sequences, FiniteSets

CONSTANTS
    PumpOrder, \* the pumps in the order run() drives them
    KaPump,    \* the pump whose channel the keep-alive emitter writes to
    ChanCap,   \* handle_bound: capacity of each local channel
    BusCap,    \* capacity of a bus handle's outbound queue
    MaxMsgs,   \* bound on messages sent into each channel
    MaxIo,     \* bound on bus send Io errors
    Conns,     \* stream connections writing to handlers through send_to
    None

Pumps == {PumpOrder[i] : i \in 1..Len(PumpOrder)}

ASSUME /\ KaPump \in Pumps
       /\ {ChanCap, BusCap, MaxMsgs, MaxIo} \subseteq Nat
       /\ ChanCap > 0 /\ BusCap > 0

Msgs == 1..MaxMsgs

VARIABLES
    phase,      \* "process", "emit", "pump" or "poll"
    pi,         \* index into PumpOrder during the pump phase
    chan,       \* each local channel's queued messages (numbered per pump)
    rxArmed,    \* the channel's read readiness is on
    rxEv,       \* a readable event is waiting in the poller
    rxReady,    \* z*_receiver_ready
    pending,    \* *_send_pending
    canWrite,   \* can_z*_write
    bus,        \* the bus handle's outbound queue
    busFull,    \* the handle reported Full and owes a writable edge
    wrEv,       \* a writable event is waiting in the poller
    sent,       \* messages sent into each channel so far (history)
    drained,    \* messages the bus manager has taken from each handle
    dropped,    \* messages dropped on an Io error
    ioErrs,     \* Io errors so far
    groups,     \* keep-alive groups waiting in the batch
    kaReady,    \* zstream_out_stream_sender_ready
    kaWaiting,  \* the emitter's sender is on the channel's wait list
    kaEv,       \* a writable event for the emitter's sender is waiting
    owe,        \* the connection's state machine has a message for a handler
    wantTo,     \* c.want.zhttp_write_to
    canTo,      \* the connection's out_stream_can_write
    cWaiting,   \* the connection's out_stream sender is on the wait list
    cEv,        \* the connection's subkey 2 (out_stream writable) event
    needs       \* needs_process, as far as these connections go

vars == <<phase, pi, chan, rxArmed, rxEv, rxReady, pending, canWrite, bus,
          busFull, wrEv, sent, drained, dropped, ioErrs, groups, kaReady,
          kaWaiting, kaEv, owe, wantTo, canTo, cWaiting, cEv, needs>>

cvars == <<owe, wantTo, canTo, cWaiting, cEv, needs>>

TypeOK ==
    /\ phase \in {"process", "emit", "pump", "poll"}
    /\ pi \in 1..Len(PumpOrder)
    /\ chan \in [Pumps -> Seq(Msgs)]
    /\ pending \in [Pumps -> Msgs \cup {None}]
    /\ bus \in [Pumps -> Seq(Msgs)]
    /\ \A p \in Pumps : Len(chan[p]) <= ChanCap /\ Len(bus[p]) <= BusCap
    /\ rxArmed \in [Pumps -> BOOLEAN] /\ rxEv \in [Pumps -> BOOLEAN]
    /\ rxReady \in [Pumps -> BOOLEAN] /\ canWrite \in [Pumps -> BOOLEAN]
    /\ busFull \in [Pumps -> BOOLEAN] /\ wrEv \in [Pumps -> BOOLEAN]
    /\ sent \in [Pumps -> 0..MaxMsgs] /\ drained \in [Pumps -> 0..MaxMsgs]
    /\ dropped \in [Pumps -> 0..MaxMsgs] /\ ioErrs \in 0..MaxIo
    /\ groups \in 0..MaxMsgs
    /\ kaReady \in BOOLEAN /\ kaWaiting \in BOOLEAN /\ kaEv \in BOOLEAN
    /\ \A f \in {owe, wantTo, canTo, cWaiting, cEv} : f \in [Conns -> BOOLEAN]
    /\ needs \subseteq Conns

\* Every readiness flag starts set and nothing is pending (run(), before
\* the loop).
Init ==
    /\ phase = "process"
    /\ pi = 1
    /\ chan = [p \in Pumps |-> <<>>]
    /\ rxArmed = [p \in Pumps |-> FALSE]
    /\ rxEv = [p \in Pumps |-> FALSE]
    /\ rxReady = [p \in Pumps |-> TRUE]
    /\ pending = [p \in Pumps |-> None]
    /\ canWrite = [p \in Pumps |-> TRUE]
    /\ bus = [p \in Pumps |-> <<>>]
    /\ busFull = [p \in Pumps |-> FALSE]
    /\ wrEv = [p \in Pumps |-> FALSE]
    /\ sent = [p \in Pumps |-> 0]
    /\ drained = [p \in Pumps |-> 0]
    /\ dropped = [p \in Pumps |-> 0]
    /\ ioErrs = 0
    /\ groups = 0
    /\ kaReady = TRUE
    /\ kaWaiting = FALSE
    /\ kaEv = FALSE
    /\ owe = [c \in Conns |-> FALSE]
    /\ wantTo = [c \in Conns |-> FALSE]
    /\ canTo = [c \in Conns |-> TRUE]
    /\ cWaiting = [c \in Conns |-> FALSE]
    /\ cEv = [c \in Conns |-> FALSE]
    /\ needs = {}

\* LocalSender::try_send into channel p when it has room: the message is
\* queued, and the receiver's readiness turns on (an event if it was off).
Enqueue(p) ==
    /\ Len(chan[p]) < ChanCap
    /\ sent[p] < MaxMsgs
    /\ chan' = [chan EXCEPT ![p] = Append(@, sent[p] + 1)]
    /\ sent' = [sent EXCEPT ![p] = @ + 1]
    /\ rxArmed' = [rxArmed EXCEPT ![p] = TRUE]
    /\ rxEv' = [rxEv EXCEPT ![p] = @ \/ ~rxArmed[p]]

-----------------------------------------------------------------------------
(* The process phase: a connection sends a message through one of its     *)
(* zhttp senders, or the keep-alive sweep queues a group.                 *)
\* Messages still to be sent into channel p within MaxMsgs, keeping room
\* for the groups queued for the emitter and the messages the connections
\* owe a handler.
Budget(p) ==
    MaxMsgs - sent[p]
      - (IF p = KaPump
         THEN groups + Cardinality({c \in Conns : owe[c]}) ELSE 0)

\* A send through LocalSender::send (the req and stream-any channels) that
\* finds room.
ConnSend(p) ==
    /\ phase = "process"
    /\ p # KaPump
    /\ Budget(p) > 0
    /\ Enqueue(p)
    /\ UNCHANGED <<phase, pi, rxReady, pending, canWrite, bus, busFull, wrEv,
                   drained, dropped, ioErrs, groups, kaReady, kaWaiting, kaEv>>
    /\ UNCHANGED cvars

\* process() of stream connection c, taken off needs_process.  Its state
\* machine, with a message for the handler, asks can_send_to: with the
\* cached out_stream_can_write flag set, check_send probes the channel;
\* true guarantees room and send_to queues the message, false clears the
\* flag and leaves the sender on the wait list.  With the flag clear it
\* answers false without a probe.  A false answer makes the connection
\* want zhttp_write_to.
ConnProcess(c) ==
    /\ phase = "process"
    /\ c \in needs
    /\ needs' = needs \ {c}
    /\ \/ /\ ~owe[c]
          /\ UNCHANGED <<chan, rxArmed, rxEv, sent, owe, wantTo, canTo,
                         cWaiting>>
       \/ /\ owe[c] /\ canTo[c] /\ Len(chan[KaPump]) < ChanCap
          /\ Enqueue(KaPump)
          /\ owe' = [owe EXCEPT ![c] = FALSE]
          /\ wantTo' = [wantTo EXCEPT ![c] = FALSE]
          /\ UNCHANGED <<canTo, cWaiting>>
       \/ /\ owe[c] /\ canTo[c] /\ Len(chan[KaPump]) = ChanCap
          /\ canTo' = [canTo EXCEPT ![c] = FALSE]
          /\ cWaiting' = [cWaiting EXCEPT ![c] = TRUE]
          /\ wantTo' = [wantTo EXCEPT ![c] = TRUE]
          /\ UNCHANGED <<chan, rxArmed, rxEv, sent, owe>>
       \/ /\ owe[c] /\ ~canTo[c]
          /\ wantTo' = [wantTo EXCEPT ![c] = TRUE]
          /\ UNCHANGED <<chan, rxArmed, rxEv, sent, owe, canTo, cWaiting>>
    /\ UNCHANGED <<phase, pi, rxReady, pending, canWrite, bus, busFull, wrEv,
                   drained, dropped, ioErrs, groups, kaReady, kaWaiting, kaEv,
                   cEv>>

\* A socket or timer event queues connection c on needs_process; with it
\* the client may have sent data the connection must forward to the
\* handler.  These are the environment: they need never happen.
ConnEvent(c) ==
    /\ phase = "poll"
    /\ c \notin needs
    /\ \E o \in {owe[c]} \cup (IF Budget(KaPump) > 0 THEN {TRUE} ELSE {}) :
         owe' = [owe EXCEPT ![c] = o]
    /\ needs' = needs \cup {c}
    /\ UNCHANGED <<phase, pi, chan, rxArmed, rxEv, rxReady, pending, canWrite,
                   bus, busFull, wrEv, sent, drained, dropped, ioErrs, groups,
                   kaReady, kaWaiting, kaEv, wantTo, canTo, cWaiting, cEv>>

QueueGroup ==
    /\ phase = "process"
    /\ Budget(KaPump) > 0
    /\ groups' = groups + 1
    /\ UNCHANGED <<phase, pi, chan, rxArmed, rxEv, rxReady, pending, canWrite,
                   bus, busFull, wrEv, sent, drained, dropped, ioErrs, kaReady,
                   kaWaiting, kaEv>>
    /\ UNCHANGED cvars

ProcessEnd ==
    /\ phase = "process"
    /\ needs = {}
    /\ phase' = "emit"
    /\ UNCHANGED <<pi, chan, rxArmed, rxEv, rxReady, pending, canWrite, bus,
                   busFull, wrEv, sent, drained, dropped, ioErrs, groups,
                   kaReady, kaWaiting, kaEv>>
    /\ UNCHANGED cvars

-----------------------------------------------------------------------------
(* Keep-alive emission: while the batch is non-empty and the sender is    *)
(* ready, check_send; true guarantees room and one group is sent, false   *)
(* clears the ready flag and leaves the sender on the wait list.          *)
EmitGroup ==
    /\ phase = "emit"
    /\ groups > 0 /\ kaReady
    /\ Enqueue(KaPump)
    /\ groups' = groups - 1
    /\ UNCHANGED <<phase, pi, rxReady, pending, canWrite, bus, busFull, wrEv,
                   drained, dropped, ioErrs, kaReady, kaWaiting, kaEv>>
    /\ UNCHANGED cvars

EmitBlocked ==
    /\ phase = "emit"
    /\ groups > 0 /\ kaReady
    /\ Len(chan[KaPump]) = ChanCap
    /\ kaReady' = FALSE
    /\ kaWaiting' = TRUE
    /\ phase' = "pump"
    /\ UNCHANGED <<pi, chan, rxArmed, rxEv, rxReady, pending, canWrite, bus,
                   busFull, wrEv, sent, drained, dropped, ioErrs, groups, kaEv>>
    /\ UNCHANGED cvars

EmitEnd ==
    /\ phase = "emit"
    /\ ~(groups > 0 /\ kaReady)
    /\ phase' = "pump"
    /\ UNCHANGED <<pi, chan, rxArmed, rxEv, rxReady, pending, canWrite, bus,
                   busFull, wrEv, sent, drained, dropped, ioErrs, groups,
                   kaReady, kaWaiting, kaEv>>
    /\ UNCHANGED cvars

-----------------------------------------------------------------------------
(* The pumps, one loop iteration per step.  With nothing pending,          *)
(* try_recv: a message moves into the holder (freeing room wakes a sender *)
(* on the channel's wait list), an empty channel clears the ready flag.   *)
(* Then, if the handle is writable and a message is held, send it: Ok     *)
(* continues the loop; Full puts the message back and clears writable;    *)
(* Io drops it.  Anything else breaks to the next pump.                   *)
\* A faulty pump walk that steps one pump too far (mutant of NextPump).
NextPumpPastEnd ==
    IF pi <= Len(PumpOrder)
    THEN pi' = pi + 1 /\ phase' = phase
    ELSE pi' = 1 /\ phase' = "poll"

\* After the loop of the current pump: the next pump, or the poll.
NextPump ==
    IF pi < Len(PumpOrder)
    THEN pi' = pi + 1 /\ phase' = phase
    ELSE pi' = 1 /\ phase' = "poll"

\* The state of pump p's holder, channel and ready flag after try_recv.
Recv(p) ==
    IF pending[p] # None
    THEN [held |-> pending[p], chan |-> chan[p], ready |-> rxReady[p],
          armed |-> rxArmed[p], took |-> FALSE]
    ELSE IF chan[p] # <<>>
    THEN [held |-> Head(chan[p]), chan |-> Tail(chan[p]), ready |-> rxReady[p],
          armed |-> rxArmed[p], took |-> TRUE]
    ELSE [held |-> None, chan |-> <<>>, ready |-> FALSE, armed |-> FALSE,
          took |-> FALSE]

\* A faulty Full branch that loses the message it took (mutant of Send).
SendFullDrop(p, m) ==
    \/ /\ Len(bus[p]) < BusCap
       /\ bus' = [bus EXCEPT ![p] = Append(@, m)]
       /\ pending' = [pending EXCEPT ![p] = None]
       /\ UNCHANGED <<pi, phase, canWrite, busFull, dropped, ioErrs>>
    \/ /\ Len(bus[p]) = BusCap
       /\ pending' = [pending EXCEPT ![p] = None]
       /\ canWrite' = [canWrite EXCEPT ![p] = FALSE]
       /\ busFull' = [busFull EXCEPT ![p] = TRUE]
       /\ NextPump
       /\ UNCHANGED <<bus, dropped, ioErrs>>
    \/ /\ ioErrs < MaxIo
       /\ ioErrs' = ioErrs + 1
       /\ dropped' = [dropped EXCEPT ![p] = @ + 1]
       /\ pending' = [pending EXCEPT ![p] = None]
       /\ NextPump
       /\ UNCHANGED <<bus, canWrite, busFull>>

\* req_handle.send / stream_handle.send_to_any / send_to_addr of message m.
Send(p, m) ==
    \/ /\ Len(bus[p]) < BusCap
       /\ bus' = [bus EXCEPT ![p] = Append(@, m)]
       /\ pending' = [pending EXCEPT ![p] = None]
       /\ UNCHANGED <<pi, phase, canWrite, busFull, dropped, ioErrs>>
    \/ /\ Len(bus[p]) = BusCap
       /\ pending' = [pending EXCEPT ![p] = m]
       /\ canWrite' = [canWrite EXCEPT ![p] = FALSE]
       /\ busFull' = [busFull EXCEPT ![p] = TRUE]
       /\ NextPump
       /\ UNCHANGED <<bus, dropped, ioErrs>>
    \/ /\ ioErrs < MaxIo
       /\ ioErrs' = ioErrs + 1
       /\ dropped' = [dropped EXCEPT ![p] = @ + 1]
       /\ pending' = [pending EXCEPT ![p] = None]
       /\ NextPump
       /\ UNCHANGED <<bus, canWrite, busFull>>

PumpStep ==
    LET p == PumpOrder[pi]
        r == Recv(p)
    IN /\ phase = "pump"
       /\ chan' = [chan EXCEPT ![p] = r.chan]
       /\ rxReady' = [rxReady EXCEPT ![p] = r.ready]
       /\ rxArmed' = [rxArmed EXCEPT ![p] = r.armed]
       /\ IF r.took /\ p = KaPump /\ kaWaiting
          THEN kaWaiting' = FALSE /\ kaEv' = TRUE
          ELSE UNCHANGED <<kaWaiting, kaEv>>
       /\ IF r.took /\ p = KaPump
          THEN /\ cWaiting' = [c \in Conns |-> FALSE]
               /\ cEv' = [c \in Conns |-> cEv[c] \/ cWaiting[c]]
          ELSE UNCHANGED <<cWaiting, cEv>>
       /\ UNCHANGED <<owe, wantTo, canTo, needs>>
       /\ IF canWrite[p] /\ r.held # None
          THEN Send(p, r.held)
          ELSE /\ pending' = [pending EXCEPT ![p] = r.held]
               /\ NextPump
               /\ UNCHANGED <<bus, canWrite, busFull, dropped, ioErrs>>
       /\ UNCHANGED <<rxEv, wrEv, sent, drained, groups, kaReady>>

-----------------------------------------------------------------------------
(* The timeout decision and the poll.                                     *)

\* A faulty decision without the "receiver ready, nothing pending" terms
\* (mutant of ZeroTimeout).
ZeroTimeoutNoRecv ==
    \/ \E p \in Pumps : canWrite[p] /\ pending[p] # None
    \/ groups > 0 /\ kaReady

\* The pump and batch terms of the condition for a zero poll timeout.
ZeroTimeout ==
    \/ \E p \in Pumps : pending[p] = None /\ rxReady[p]
    \/ \E p \in Pumps : canWrite[p] /\ pending[p] # None
    \/ groups > 0 /\ kaReady

\* A faulty event loop that has no arm for the handle write tokens
\* (mutant of Writable).
WritableNoEvent(p) == canWrite[p]

\* REQ_HANDLE_WRITE_TOKEN, STREAM_HANDLE_WRITE_ANY_TOKEN and
\* STREAM_HANDLE_WRITE_ADDR_TOKEN set the pump's can_write flag.
Writable(p) == canWrite[p] \/ wrEv[p]

\* A faulty subkey 2 arm that queues the connection but does not set
\* out_stream_can_write (mutant of OutStreamArm).
OutStreamArmNoFlag(c) ==
    [canTo |-> canTo[c], wake |-> cEv[c] /\ wantTo[c]]

\* The subkey 2 arm (zhttp sender out_stream ready): set the connection's
\* out_stream_can_write, and queue it if it wants zhttp_write_to.
OutStreamArm(c) ==
    [canTo |-> canTo[c] \/ cEv[c], wake |-> cEv[c] /\ wantTo[c]]

\* poller.poll returns at once, on an event, or after POLL_TIMEOUT_MAX;
\* every waiting event is handled: a receiver token sets its ready flag, a
\* handle write token sets can_write, the sender token sets the emitter's
\* ready flag.
Poll ==
    /\ phase = "poll"
    /\ rxReady' = [p \in Pumps |-> rxReady[p] \/ rxEv[p]]
    /\ canWrite' = [p \in Pumps |-> Writable(p)]
    /\ kaReady' = (kaReady \/ kaEv)
    /\ rxEv' = [p \in Pumps |-> FALSE]
    /\ wrEv' = [p \in Pumps |-> FALSE]
    /\ kaEv' = FALSE
    /\ canTo' = [c \in Conns |-> OutStreamArm(c).canTo]
    /\ needs' = needs \cup {c \in Conns : OutStreamArm(c).wake}
    /\ cEv' = [c \in Conns |-> FALSE]
    /\ phase' = "process"
    /\ UNCHANGED <<pi, chan, rxArmed, pending, bus, busFull, sent, drained,
                   dropped, ioErrs, groups, kaWaiting, owe, wantTo, cWaiting>>

\* The bus manager takes a message off handle p; room after a Full raises
\* the handle's writable edge.
Drain(p) ==
    /\ bus[p] # <<>>
    /\ bus' = [bus EXCEPT ![p] = Tail(@)]
    /\ drained' = [drained EXCEPT ![p] = @ + 1]
    /\ busFull' = [busFull EXCEPT ![p] = FALSE]
    /\ wrEv' = [wrEv EXCEPT ![p] = @ \/ busFull[p]]
    /\ UNCHANGED <<phase, pi, chan, rxArmed, rxEv, rxReady, pending, canWrite,
                   sent, dropped, ioErrs, groups, kaReady, kaWaiting, kaEv>>
    /\ UNCHANGED cvars

-----------------------------------------------------------------------------
LoopStep ==
    \/ \E p \in Pumps : ConnSend(p)
    \/ \E c \in Conns : ConnProcess(c) \/ ConnEvent(c)
    \/ QueueGroup \/ ProcessEnd
    \/ EmitGroup \/ EmitBlocked \/ EmitEnd
    \/ PumpStep
    \/ Poll

Next == LoopStep \/ \E p \in Pumps : Drain(p)

\* The worker thread always runs (poll returns within POLL_TIMEOUT_MAX),
\* and the bus manager keeps taking messages off every handle.
Spec == Init /\ [][Next]_vars /\ WF_vars(LoopStep)
        /\ \A p \in Pumps : WF_vars(Drain(p))

-----------------------------------------------------------------------------
(***************************************************************************)
(* Properties.                                                             *)
(***************************************************************************)

\* The messages of pump p not yet taken by the bus manager, oldest first.
InFlight(p) ==
    bus[p] \o (IF pending[p] = None THEN <<>> ELSE <<pending[p]>>) \o chan[p]

\* Spec 8: a bus write pump neither loses nor reorders a message.  Every
\* message a sender put into the channel is queued on the handle, taken
\* by the bus manager, dropped on an Io error, or still on its way in the
\* order it was sent, through any interleaving of Full replies, writable
\* edges and receiver wake-ups.
NoLossNoReorder ==
    \A p \in Pumps :
        /\ sent[p] = Len(InFlight(p)) + drained[p] + dropped[p]
        /\ \A i \in 1..Len(InFlight(p)) - 1 : InFlight(p)[i] < InFlight(p)[i + 1]

\* A pump or the emitter has work it could do without a new event, and
\* no waiting event will wake the poll for it.
Stranded(p) ==
    \/ pending[p] = None /\ chan[p] # <<>> /\ ~rxEv[p]
    \/ pending[p] # None /\ Len(bus[p]) < BusCap /\ ~wrEv[p]

EmitterStranded ==
    groups > 0 /\ Len(chan[KaPump]) < ChanCap /\ ~kaEv

\* The timeout decision (spec step 9): whenever the loop is about to block
\* in poll, no message sits in a channel or holder that the pumps could
\* forward now, and no group in the batch could be emitted now, unless a
\* waiting event will wake the poll at once.  A missing term stalls that
\* traffic for POLL_TIMEOUT_MAX on every turn; the Io error path, which
\* breaks the loop with the receiver still marked ready, needs the term
\* for a ready receiver.
NoStall ==
    phase = "poll" /\ ~ZeroTimeout =>
        /\ \A p \in Pumps : ~Stranded(p)
        /\ ~EmitterStranded

\* Every message sent into a channel is eventually taken by the bus
\* manager or dropped on an Io error, and every queued keep-alive group is
\* eventually emitted: a Full reply is always followed by the writable
\* edge that resumes the pump, a check_send refusal by the wait-list
\* wake-up that resumes the emitter.
Progress ==
    /\ \A p \in Pumps : \A k \in Msgs :
         sent[p] >= k ~> drained[p] + dropped[p] >= k
    /\ groups > 0 ~> groups = 0

\* Spec 5: out_stream_can_write is cleared on the first refusal and set
\* only by the writable edge, and while it is clear can_send_to answers
\* false without probing (so without joining the wait list again).  A
\* connection holding a message for a handler nevertheless gets it into
\* the out_stream channel eventually, however the emitter and the other
\* connections compete for the channel's room.
SendToProgress == \A c \in Conns : owe[c] ~> ~owe[c]

=============================================================================
