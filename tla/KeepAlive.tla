----------------------------- MODULE KeepAlive -----------------------------
(***************************************************************************)
(* The keep-alive and cancel side of the worker (Worker::run in            *)
(* src/server.rs): the sweep that fills the Batch every                    *)
(* KEEP_ALIVE_INTERVAL, the emission loop that takes groups while the      *)
(* out_stream sender is ready, and the cancel flush after the stop signal. *)
(* The connection events that touch c.keep_alive or the handler address   *)
(* (accept, teardown, the Ready restart, the stream state machine learning *)
(* to_addr) are the process step, taken in any number per loop iteration. *)
(*                                                                         *)
(* Time is counted in keep-alive intervals: lag is now minus               *)
(* next_keep_alive_time, in whole intervals, saturating at MaxLag.         *)
(* A handler address fits the batch's 64-byte ArrayVec (the connection    *)
(* limits to_addr to 64 bytes), so no address here is longer.             *)
(***************************************************************************)
EXTENDS Integers, Sequences, FiniteSets

CONSTANTS
    Req, Stream,         \* the two modes (enum ZhttpMode)
    ReqMax, StreamMax,   \* req_maxconn, stream_maxconn of this worker
    Addrs,               \* handler addresses a stream connection may learn
    KEEP_ALIVE_BATCHES,  \* KEEP_ALIVE_TIMEOUT_MS / KEEP_ALIVE_BATCH_MS
    IDS_MAX,             \* zhttppacket::IDS_MAX, ids per group
    MaxLag,              \* saturation bound of lag
    None

ASSUME /\ {ReqMax, StreamMax} \subseteq Nat
       /\ KEEP_ALIVE_BATCHES \in Nat \ {0}
       /\ IDS_MAX \in Nat \ {0}
       /\ MaxLag \in Nat

B == INSTANCE Batch

\* conns.capacity(): the slab holds req_maxconn + stream_maxconn entries.
Cap == ReqMax + StreamMax
Slots == 0 .. Cap - 1

\* A faulty batch size rounding down (mutant of KaBatch).
KaBatchFloor == StreamMax \div KEEP_ALIVE_BATCHES

\* ka_batch = ceil(stream_maxconn / KEEP_ALIVE_BATCHES).
KaBatch == (StreamMax + (KEEP_ALIVE_BATCHES - 1)) \div KEEP_ALIVE_BATCHES

LoopPhases == {"env", "ka", "emit", "poll"}
Phases == LoopPhases \cup {"cancel", "cancelTake", "stopped"}

VARIABLES
    phase,      \* which part of the loop (or of the shutdown) runs next
    conn,       \* the mode of the connection in each slot, or None
    free,       \* the connection slab's free list
    toAddr,     \* cshared.to_addr() of a stream connection, or None
    keepAlive,  \* c.keep_alive: a BatchKey, or None
    batch,      \* the worker's Batch
    nextIdx,    \* next_keep_alive_index
    lag,        \* now - next_keep_alive_time, in intervals
    ready,      \* zstream_out_stream_sender_ready
    age,        \* sweeps since the sweep last visited each slot (history)
    cancelIdx,  \* next_cancel_index
    cancels     \* cancels handed to send_to_addr per slot at shutdown (history)

vars == <<phase, conn, free, toAddr, keepAlive, batch, nextIdx, lag, ready,
          age, cancelIdx, cancels>>

BatchKey == [addrIndex: Nat, nkey: Nat]

TypeOK ==
    /\ phase \in Phases
    /\ conn \in [Slots -> {Req, Stream, None}]
    /\ free \in Seq(Slots)
    /\ toAddr \in [Slots -> Addrs \cup {None}]
    /\ keepAlive \in [Slots -> BatchKey \cup {None}]
    /\ DOMAIN batch.nodes \subseteq 0 .. KaBatch - 1
    /\ batch.addrIndex \in 0 .. Len(batch.addrs)
    /\ nextIdx \in Slots \cup {0}
    /\ lag \in -1 .. MaxLag
    /\ ready \in BOOLEAN
    /\ age \in [Slots -> 0 .. KEEP_ALIVE_BATCHES]
    /\ cancelIdx \in 0 .. Cap
    /\ cancels \in [Slots -> Nat]

Init ==
    /\ phase = "env"
    /\ conn = [s \in Slots |-> None]
    /\ free = [i \in 1 .. Cap |-> i - 1]
    /\ toAddr = [s \in Slots |-> None]
    /\ keepAlive = [s \in Slots |-> None]
    /\ batch = B!New(KaBatch)
    /\ nextIdx = 0
    /\ lag = -1
    /\ ready = TRUE
    /\ age = [s \in Slots |-> 0]
    /\ cancelIdx = 0
    /\ cancels = [s \in Slots |-> 0]

Count(m) == Cardinality({s \in Slots : conn[s] = m})

\* A connection the sweep and the cancel flush pick: stream mode with a
\* known handler address.
Pinged(s) == conn[s] = Stream /\ toAddr[s] # None

\* Drop the connection's keep-alive entry from the batch, if it has one.
ClearKeepAlive(s) ==
    /\ batch' = IF keepAlive[s] = None THEN batch
                ELSE B!Remove(batch, keepAlive[s])
    /\ keepAlive' = [keepAlive EXCEPT ![s] = None]

-----------------------------------------------------------------------------
(* The process step, as far as keep-alives are concerned.                 *)

\* Accept: the slab's next free key gets a fresh connection.
Open(m) ==
    LET s == Head(free)
    IN /\ phase = "env"
       /\ Count(m) < (IF m = Req THEN ReqMax ELSE StreamMax)
       /\ conn' = [conn EXCEPT ![s] = m]
       /\ free' = Tail(free)
       /\ toAddr' = [toAddr EXCEPT ![s] = None]
       /\ keepAlive' = [keepAlive EXCEPT ![s] = None]
       /\ UNCHANGED <<phase, batch, nextIdx, lag, ready, age, cancelIdx,
                      cancels>>

\* The stream state machine records the address a handler answered from.
LearnAddr(s, a) ==
    /\ phase = "env"
    /\ conn[s] = Stream
    /\ toAddr' = [toAddr EXCEPT ![s] = a]
    /\ UNCHANGED <<phase, conn, free, keepAlive, batch, nextIdx, lag, ready,
                   age, cancelIdx, cancels>>

\* A faulty teardown that leaves the keep-alive entry (mutant of Close).
CloseKeepEntry(s) ==
    /\ phase = "env"
    /\ conn[s] # None
    /\ conn' = [conn EXCEPT ![s] = None]
    /\ toAddr' = [toAddr EXCEPT ![s] = None]
    /\ free' = <<s>> \o free
    /\ UNCHANGED <<phase, batch, keepAlive, nextIdx, lag, ready, age,
                   cancelIdx, cancels>>

\* Teardown (Finished): the active keep-alive is cleared, then the slot is
\* freed.
Close(s) ==
    /\ phase = "env"
    /\ conn[s] # None
    /\ ClearKeepAlive(s)
    /\ conn' = [conn EXCEPT ![s] = None]
    /\ toAddr' = [toAddr EXCEPT ![s] = None]
    /\ free' = <<s>> \o free
    /\ UNCHANGED <<phase, nextIdx, lag, ready, age, cancelIdx, cancels>>

\* Ready restart: the active keep-alive is cleared before the new session
\* starts; whether the new session keeps the handler address is up to the
\* state machine.
Restart(s) ==
    /\ phase = "env"
    /\ conn[s] = Stream
    /\ ClearKeepAlive(s)
    /\ \E a \in {toAddr[s], None} : toAddr' = [toAddr EXCEPT ![s] = a]
    /\ UNCHANGED <<phase, conn, free, nextIdx, lag, ready, age, cancelIdx,
                   cancels>>

EnvEnd ==
    /\ phase = "env"
    /\ phase' = "ka"
    /\ UNCHANGED <<conn, free, toAddr, keepAlive, batch, nextIdx, lag, ready,
                   age, cancelIdx, cancels>>

-----------------------------------------------------------------------------
(* The keep-alive sweep: with the batch empty and the interval due, visit *)
(* up to batch.capacity() slots round-robin from next_keep_alive_index,   *)
(* stopping at the wrap, and add every pinged connection to the batch.    *)
\* A faulty sweep that wraps one slot too late (mutant of SweepLoop).
RECURSIVE SweepLoopLateWrap(_, _)
SweepLoopLateWrap(st, n) ==
    IF n = 0 \/ st.wrapped THEN st
    ELSE LET key == st.idx
             w == key + 1 > Cap
             st1 == [st EXCEPT !.idx = IF w THEN 0 ELSE key + 1,
                               !.wrapped = w,
                               !.visited = @ \cup {key}]
         IN SweepLoopLateWrap(
              IF Pinged(key)
              THEN [st1 EXCEPT !.batch = B!Add(st.batch, toAddr[key], key),
                               !.ka[key] = B!AddKey(st.batch, toAddr[key])]
              ELSE st1,
              n - 1)

RECURSIVE SweepLoop(_, _)
SweepLoop(st, n) ==
    IF n = 0 \/ st.wrapped THEN st
    ELSE LET key == st.idx
             w == key + 1 = Cap
             st1 == [st EXCEPT !.idx = IF w THEN 0 ELSE key + 1,
                               !.wrapped = w,
                               !.visited = @ \cup {key}]
         IN SweepLoop(
              IF Pinged(key)
              THEN [st1 EXCEPT !.batch = B!Add(st.batch, toAddr[key], key),
                               !.ka[key] = B!AddKey(st.batch, toAddr[key])]
              ELSE st1,
              n - 1)

KeepAliveSweep ==
    LET st == SweepLoop([batch |-> batch, ka |-> keepAlive, idx |-> nextIdx,
                         wrapped |-> FALSE, visited |-> {}], batch.cap)
    IN /\ phase = "ka"
       /\ B!IsEmpty(batch) /\ lag >= 0
       /\ batch' = st.batch
       /\ keepAlive' = st.ka
       /\ nextIdx' = st.idx
       /\ lag' = lag - 1
       /\ age' = [s \in Slots |-> IF s \in st.visited THEN 0
                                  ELSE IF age[s] < KEEP_ALIVE_BATCHES
                                       THEN age[s] + 1 ELSE age[s]]
       /\ phase' = "emit"
       /\ UNCHANGED <<conn, free, toAddr, ready, cancelIdx, cancels>>

KeepAliveIdle ==
    /\ phase = "ka"
    /\ ~(B!IsEmpty(batch) /\ lag >= 0)
    /\ phase' = "emit"
    /\ UNCHANGED <<conn, free, toAddr, keepAlive, batch, nextIdx, lag, ready,
                   age, cancelIdx, cancels>>

(* Batch emission: while the batch is non-empty and the sender ready,     *)
(* check_send, take a group, send it, and clear the keep_alive handle of  *)
(* every connection in last_group_ckeys (the out_seq bump there is a     *)
(* seq every packet carries; it is not represented); once the batch      *)
(* empties and the loop is more than an interval behind, skip ahead.      *)
EmitGroup ==
    LET b2 == B!TakeGroup(batch, IDS_MAX)
        sent == {b2.last[i] : i \in 1 .. Len(b2.last)}
    IN /\ phase = "emit"
       /\ ~B!IsEmpty(batch) /\ ready
       /\ B!HasGroup(batch)
       /\ batch' = b2
       /\ keepAlive' = [s \in Slots |-> IF s \in sent THEN None
                                        ELSE keepAlive[s]]
       /\ lag' = IF B!IsEmpty(b2) /\ lag >= 1 THEN -1 ELSE lag
       /\ UNCHANGED <<phase, conn, free, toAddr, nextIdx, ready, age,
                      cancelIdx, cancels>>

\* check_send returns false: wait for the sender's writable event.
EmitBlocked ==
    /\ phase = "emit"
    /\ ~B!IsEmpty(batch) /\ ready
    /\ ready' = FALSE
    /\ phase' = "poll"
    /\ UNCHANGED <<conn, free, toAddr, keepAlive, batch, nextIdx, lag, age,
                   cancelIdx, cancels>>

EmitEnd ==
    /\ phase = "emit"
    /\ B!IsEmpty(batch) \/ ~ready
    /\ phase' = "poll"
    /\ UNCHANGED <<conn, free, toAddr, keepAlive, batch, nextIdx, lag, ready,
                   age, cancelIdx, cancels>>

\* Poll: time may pass and the sender's writable event may arrive.
Poll ==
    /\ phase = "poll"
    /\ \E r \in {ready, TRUE}, l \in {lag, IF lag < MaxLag THEN lag + 1
                                            ELSE lag} :
         ready' = r /\ lag' = l
    /\ phase' = "env"
    /\ UNCHANGED <<conn, free, toAddr, keepAlive, batch, nextIdx, age,
                   cancelIdx, cancels>>

-----------------------------------------------------------------------------
(* Shutdown: the stop signal ends the loop; the batch is cleared and the  *)
(* slots are swept in rounds of at most batch.capacity() cancels, each    *)
(* round taking groups until take_group returns None.                     *)
Stop ==
    /\ phase = "poll"
    /\ batch' = B!Clear(batch)
    /\ cancelIdx' = 0
    /\ phase' = "cancel"
    /\ UNCHANGED <<conn, free, toAddr, keepAlive, nextIdx, lag, ready, age,
                   cancels>>

\* A faulty fill that walks on past a full batch (mutant of FillLoop).
RECURSIVE FillLoopSkipFull(_)
FillLoopSkipFull(st) ==
    IF st.idx < Cap
    THEN LET key == st.idx
         IN FillLoopSkipFull(
              [st EXCEPT !.idx = key + 1,
                         !.batch = IF Pinged(key) /\ B!AddOk(st.batch)
                                   THEN B!Add(@, toAddr[key], key) ELSE @])
    ELSE st

\* The inner while: add pinged connections until the batch is full or
\* every slot has been visited.
RECURSIVE FillLoop(_)
FillLoop(st) ==
    IF B!Size(st.batch) < st.batch.cap /\ st.idx < Cap
    THEN LET key == st.idx
         IN FillLoop([st EXCEPT !.idx = key + 1,
                                !.batch = IF Pinged(key)
                                          THEN B!Add(@, toAddr[key], key)
                                          ELSE @])
    ELSE st

\* A faulty outer loop that runs one round past the last slot (mutant of
\* CancelRound).
CancelRoundPastEnd ==
    LET st == FillLoop([batch |-> batch, idx |-> cancelIdx])
    IN /\ phase = "cancel"
       /\ cancelIdx <= Cap
       /\ batch' = st.batch
       /\ cancelIdx' = st.idx
       /\ phase' = "cancelTake"
       /\ UNCHANGED <<conn, free, toAddr, keepAlive, nextIdx, lag, ready,
                      age, cancels>>

CancelRound ==
    LET st == FillLoop([batch |-> batch, idx |-> cancelIdx])
    IN /\ phase = "cancel"
       /\ cancelIdx < Cap
       /\ batch' = st.batch
       /\ cancelIdx' = st.idx
       /\ phase' = "cancelTake"
       /\ UNCHANGED <<conn, free, toAddr, keepAlive, nextIdx, lag, ready,
                      age, cancels>>

\* One group of cancels is sent: send_batched hands it to the stream
\* handle's send_to_addr, whose error (a full handle) is only logged, so
\* whether the group reaches the handler or is lost, the loop goes on to
\* the next group and nothing is retried: no state here depends on it.
CancelTake ==
    LET b2 == B!TakeGroup(batch, IDS_MAX)
    IN /\ phase = "cancelTake"
       /\ B!HasGroup(batch)
       /\ batch' = b2
       /\ cancels' = [s \in Slots |->
                        cancels[s] + Cardinality({i \in 1 .. Len(b2.last) :
                                                     b2.last[i] = s})]
       /\ UNCHANGED <<phase, conn, free, toAddr, keepAlive, nextIdx, lag,
                      ready, age, cancelIdx>>

\* take_group returns None (and clears the batch); sleep, then loop.
CancelRoundEnd ==
    /\ phase = "cancelTake"
    /\ ~B!HasGroup(batch)
    /\ batch' = B!TakeGroup(batch, IDS_MAX)
    /\ phase' = "cancel"
    /\ UNCHANGED <<conn, free, toAddr, keepAlive, nextIdx, lag, ready, age,
                   cancelIdx, cancels>>

CancelDone ==
    /\ phase = "cancel"
    /\ cancelIdx >= Cap
    /\ phase' = "stopped"
    /\ UNCHANGED <<conn, free, toAddr, keepAlive, batch, nextIdx, lag, ready,
                   age, cancelIdx, cancels>>

\* The worker thread has returned.
Stopped ==
    /\ phase = "stopped"
    /\ UNCHANGED vars

-----------------------------------------------------------------------------
LoopStep ==
    \/ \E m \in {Req, Stream} : Open(m)
    \/ \E s \in Slots, a \in Addrs : LearnAddr(s, a)
    \/ \E s \in Slots : Close(s) \/ Restart(s)
    \/ EnvEnd
    \/ KeepAliveSweep \/ KeepAliveIdle
    \/ EmitGroup \/ EmitBlocked \/ EmitEnd
    \/ Poll

CancelStep ==
    \/ CancelRound \/ CancelTake \/ CancelRoundEnd \/ CancelDone
    \/ Stopped

Next == LoopStep \/ Stop \/ CancelStep

\* After the stop signal the thread runs nothing but the cancel flush, so
\* it keeps taking its steps; nothing is assumed of the loop before it.
Spec == Init /\ [][Next]_vars /\ WF_vars(CancelStep)

-----------------------------------------------------------------------------
(***************************************************************************)
(* Properties.                                                             *)
(***************************************************************************)

\* Node keys on the list of the address at cursor position i.
OnList(i) == {batch.addrs[i + 1].list[j] : j \in 1 .. Len(batch.addrs[i + 1].list)}

\* Spec 2 and 4.3: c.keep_alive names exactly the connection's own entry
\* in the batch, and every entry belongs to a live stream connection that
\* holds its handle.  Teardown and the Ready restart remove the entry
\* through the handle, and take_group's get_ids indexes conns[ckey], so a
\* stale handle or an orphaned entry corrupts the batch or panics.
KeepAliveHandleConsistent ==
    phase \in LoopPhases =>
        /\ \A s \in Slots : keepAlive[s] # None =>
              LET k == keepAlive[s]
              IN /\ conn[s] = Stream
                 /\ k.nkey \in DOMAIN batch.nodes /\ batch.nodes[k.nkey] = s
                 /\ k.addrIndex < Len(batch.addrs)
                 /\ k.nkey \in OnList(k.addrIndex)
        /\ \A k \in DOMAIN batch.nodes :
              keepAlive[batch.nodes[k]] # None
              /\ keepAlive[batch.nodes[k]].nkey = k

\* The emission loop unwraps take_group while the batch is non-empty
\* (line 1787): take_group must then find a group, i.e. no node sits on
\* an address list behind the cursor (spec 4.3).
GroupAvailable ==
    phase \in LoopPhases /\ ~B!IsEmpty(batch) => B!HasGroup(batch)

\* ka_batch = ceil(stream_maxconn / KEEP_ALIVE_BATCHES) is chosen so that
\* one round of sweeps, one per KEEP_ALIVE_INTERVAL, fits in the
\* keep-alive timeout: every slot is visited at least once in every
\* KEEP_ALIVE_BATCHES consecutive sweeps.
SweepPeriod == \A s \in Slots : age[s] < KEEP_ALIVE_BATCHES

\* Spec 4.4: when the worker thread returns, every stream connection with
\* a known handler address was sent exactly one cancel, and no other
\* connection was.  Sent means handed to send_to_addr: a group the handle
\* refuses is lost (cancels are best-effort), but the loss must neither
\* end the flush early nor make it send a connection's cancel twice.
CancelsReachAll ==
    phase = "stopped" =>
        \A s \in Slots : cancels[s] = IF Pinged(s) THEN 1 ELSE 0

\* Spec 4.4: once the stop signal is taken, the cancel flush visits every
\* slot and the worker thread returns.
ShutdownCompletes == phase = "cancel" ~> phase = "stopped"

====
