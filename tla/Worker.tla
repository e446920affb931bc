------------------------------- MODULE Worker -------------------------------
(***************************************************************************)
(* One iteration after another of the event loop of a condure worker       *)
(* (Worker::run in src/server.rs): timers, accept, bus intake, fan-out of  *)
(* the pending response to per-connection inboxes, the process step over  *)
(* the KeySet of connections that need processing, and the poll that turns *)
(* readiness events into work.  Keep-alive batching and the outbound pumps *)
(* are modelled in their own modules; the protocol state machines          *)
(* (ServerReqConnection, ServerStreamConnection) are the environment: each *)
(* process call returns Finished, Ready or a new interest set.             *)
(*                                                                         *)
(* A session id "{worker}-{slot}-{cid}" is the pair <<slot, cid>>; a bus   *)
(* response is numbered by arrival and carries a sequence of such ids.     *)
(***************************************************************************)
EXTENDS Naturals, Sequences, FiniteSets, SequencesExt, Functions

CONSTANTS
    Req, Stream,      \* the two zhttp modes (enum ZhttpMode)
    MaxConn,          \* [mode -> req_maxconn / stream_maxconn of this worker]
    TlsModes,         \* modes whose listener has a TLS acceptor
    AcceptPerLoopMax, \* ACCEPT_PER_LOOP_MAX
    MaxCid,           \* bound on session ids generated (next_cid)
    MaxMsgs,          \* bound on responses read from the bus
    MaxIds,           \* bound on the ids one response carries
    Malformed,        \* responses may list an id twice or another mode's id
    None

ASSUME /\ MaxConn \in [{Req, Stream} -> Nat]
       /\ TlsModes \subseteq {Req, Stream}
       /\ AcceptPerLoopMax \in Nat \ {0}
       /\ {MaxCid, MaxMsgs, MaxIds} \subseteq Nat
       /\ Malformed \in BOOLEAN

KS == INSTANCE KeySet

\* run() visits the req mode before the stream mode in every phase.
ModeOrder == <<Req, Stream>>
Modes == {Req, Stream}

\* The slab of connections holds req_maxconn + stream_maxconn entries.
Slots == 0 .. (MaxConn[Req] + MaxConn[Stream] - 1)

\* RESP_SENDER_BOUND: capacity of each connection's response inbox.
RESP_SENDER_BOUND == 1
MSG_RETAINED_MAX == 1 + RESP_SENDER_BOUND

\* Want, abstracted: "io" is interest in a socket or outbound-channel
\* event (sock_read, sock_write, zhttp_write, zhttp_write_to), "zread" is
\* want.zhttp_read and "timeout" is want.timeout being Some.
Wants == {"io", "zread", "timeout"}

Phases == {"timers", "accept", "intake", "fanout", "process", "poll"}

VARIABLES
    phase,      \* which part of the loop body runs next
    mi,         \* index into ModeOrder during the accept and intake phases
    accepted,   \* connections accepted for the current mode in this loop
    connMode,   \* conns: the mode of the connection in each slot, or None
    cid,        \* the cid part of the slot's current session id
    origin,     \* the cid the connection was accepted with (history)
    want,       \* c.want
    free,       \* the slab's free list: the next key it hands out first
    count,      \* req_count / stream_count
    nextCid,    \* next_cid
    issued,     \* every session id handed out, with its mode (history)
    needs,      \* needs_process (a KeySet)
    wheel,      \* slots with a timer in the timer wheel (c.timer is Some)
    canAccept,  \* can_req_accept / can_stream_accept
    canRead,    \* can_zreq_read / can_zstream_in_read
    pending,    \* req_resp_pending / stream_resp_pending: a response number
    sending,    \* req_resp_sending / stream_resp_sending lists of nodes
    waiting,    \* req_resp_waiting / stream_resp_waiting lists of nodes
    rsk,        \* conns_data[key].resp_sending_key
    inbox,      \* the slot's zreceiver channel: one delivery, or None
    rdEdge,     \* slots whose inbox turned readable since the last poll
    wrEdge,     \* slots whose inbox turned writable since the last poll
    nread,      \* responses read from the bus so far
    lastApply   \* the delivery the last process step applied (history)

vars == <<phase, mi, accepted, connMode, cid, origin, want, free, count,
          nextCid, issued, needs, wheel, canAccept, canRead, pending,
          sending, waiting, rsk, inbox, rdEdge, wrEdge, nread, lastApply>>

Live(s) == connMode[s] # None

\* A fan-out node: the slot it is for and the session it was matched
\* against; key is unique per node (response number, position in ids).
Node == [key: (1..MaxMsgs) \X (1..MaxIds), ckey: Slots,
         cid: 0..MaxCid, origin: 0..MaxCid]
Delivery == [no: 1..MaxMsgs, cid: 0..MaxCid, origin: 0..MaxCid]
\* A session id handed out, with the mode and the connection (named by the
\* cid it was accepted with) it belongs to.
Session == [slot: Slots, cid: 0..MaxCid, mode: Modes, origin: 0..MaxCid]

TypeOK ==
    /\ phase \in Phases
    /\ mi \in 1..Len(ModeOrder)
    /\ accepted \in 0..AcceptPerLoopMax
    /\ connMode \in [Slots -> Modes \cup {None}]
    /\ cid \in [Slots -> 0..MaxCid]
    /\ origin \in [Slots -> 0..MaxCid]
    /\ want \in [Slots -> SUBSET Wants]
    /\ free \in Seq(Slots)
    /\ count \in [Modes -> Nat]
    /\ nextCid \in 0..MaxCid
    /\ issued \subseteq Session
    /\ needs.queue \in Seq(Slots) /\ needs.index \in [Slots -> BOOLEAN]
    /\ wheel \subseteq Slots
    /\ canAccept \in [Modes -> BOOLEAN]
    /\ canRead \in [Modes -> BOOLEAN]
    /\ pending \in [Modes -> (1..MaxMsgs) \cup {None}]
    /\ sending \in [Modes -> Seq(Node)]
    /\ waiting \in [Modes -> Seq(Node)]
    /\ rsk \in [Slots -> ((1..MaxMsgs) \X (1..MaxIds)) \cup {None}]
    /\ inbox \in [Slots -> Delivery \cup {None}]
    /\ rdEdge \subseteq Slots /\ wrEdge \subseteq Slots
    /\ nread \in 0..MaxMsgs
    /\ lastApply \in [slot: Slots, d: Delivery, cid: 0..MaxCid,
                      origin: 0..MaxCid] \cup {None}

-----------------------------------------------------------------------------
Init ==
    /\ phase = "timers"
    /\ mi = 1
    /\ accepted = 0
    /\ connMode = [s \in Slots |-> None]
    /\ cid = [s \in Slots |-> 0]
    /\ origin = [s \in Slots |-> 0]
    /\ want = [s \in Slots |-> {}]
    /\ free = [i \in 1..Cardinality(Slots) |-> i - 1]
    /\ count = [m \in Modes |-> 0]
    /\ nextCid = 0
    /\ issued = {}
    /\ needs = KS!New(Slots)
    /\ wheel = {}
    /\ canAccept = [m \in Modes |-> TRUE]
    /\ canRead = [m \in Modes |-> TRUE]
    /\ pending = [m \in Modes |-> None]
    /\ sending = [m \in Modes |-> <<>>]
    /\ waiting = [m \in Modes |-> <<>>]
    /\ rsk = [s \in Slots |-> None]
    /\ inbox = [s \in Slots |-> None]
    /\ rdEdge = {}
    /\ wrEdge = {}
    /\ nread = 0
    /\ lastApply = None

\* Keys of a set of slots in ascending order.
Sorted(S) == SetToSortSeq(S, <)

\* A faulty mode step that runs one mode too many (mutant of NextMode).
NextModePastEnd(after) ==
    IF mi <= Len(ModeOrder)
    THEN /\ mi' = mi + 1 /\ phase' = phase
    ELSE /\ mi' = 1 /\ phase' = after

\* Move on to the next mode of a per-mode phase, or to the phase after it.
NextMode(after) ==
    IF mi < Len(ModeOrder)
    THEN /\ mi' = mi + 1 /\ phase' = phase
    ELSE /\ mi' = 1 /\ phase' = after

-----------------------------------------------------------------------------
(* Step 1: timers.take_expired() - each expired slot loses its timer and   *)
(* is marked as needing processing.                                        *)
ExpireTimers ==
    /\ phase = "timers"
    /\ \E expired \in SUBSET wheel :
         /\ wheel' = wheel \ expired
         /\ needs' = KS!AddAll(needs, Sorted(expired))
    /\ phase' = "accept" /\ mi' = 1 /\ accepted' = 0
    /\ lastApply' = None
    /\ UNCHANGED <<connMode, cid, origin, want, free, count, nextCid, issued,
                   canAccept, canRead, pending, sending, waiting, rsk, inbox,
                   rdEdge, wrEdge, nread>>

(* Step 2: accept.  One connection from the mode's acceptor channel: the   *)
(* slab hands out its next free key, a fresh inbox is created, start()     *)
(* assigns the id generated by gen_id, and the key needs processing.       *)
AcceptConn ==
    LET m == ModeOrder[mi]
        s == Head(free)
    IN /\ phase = "accept"
       /\ accepted < AcceptPerLoopMax
       /\ canAccept[m]
       /\ count[m] < MaxConn[m]
       /\ nextCid < MaxCid
       /\ connMode' = [connMode EXCEPT ![s] = m]
       /\ cid' = [cid EXCEPT ![s] = nextCid]
       /\ origin' = [origin EXCEPT ![s] = nextCid]
       /\ want' = [want EXCEPT ![s] = {}]
       /\ free' = Tail(free)
       /\ count' = [count EXCEPT ![m] = @ + 1]
       /\ nextCid' = nextCid + 1
       /\ issued' = issued \cup {[slot |-> s, cid |-> nextCid, mode |-> m,
                                  origin |-> nextCid]}
       /\ needs' = KS!Add(needs, s)
       /\ inbox' = [inbox EXCEPT ![s] = None]
       /\ rsk' = [rsk EXCEPT ![s] = None]
       /\ accepted' = accepted + 1
       /\ lastApply' = None
       /\ UNCHANGED <<phase, mi, wheel, canAccept, canRead, pending, sending,
                      waiting, rdEdge, wrEdge, nread>>

\* The accept loop of a mode ends: its guard fails, the acceptor channel is
\* empty (can_accept becomes false), or a TLS handshake cannot be set up
\* (the socket is dropped and accepting stops for this iteration).
AcceptEnd ==
    LET m == ModeOrder[mi]
        open == accepted < AcceptPerLoopMax /\ canAccept[m]
                /\ count[m] < MaxConn[m]
    IN /\ phase = "accept"
       /\ \/ /\ ~open
             /\ UNCHANGED canAccept
          \/ /\ open
             /\ canAccept' = [canAccept EXCEPT ![m] = FALSE]
          \/ /\ open /\ m \in TlsModes
             /\ UNCHANGED canAccept
       /\ NextMode("intake")
       /\ accepted' = 0
       /\ lastApply' = None
       /\ UNCHANGED <<connMode, cid, origin, want, free, count, nextCid, issued,
                      needs, wheel, canRead, pending, sending, waiting, rsk,
                      inbox, rdEdge, wrEdge, nread>>

-----------------------------------------------------------------------------
(* Step 3: bus intake.  The session ids a well-formed response of mode m  *)
(* may carry: distinct ids of sessions of that mode, current or stale.    *)
(* Nothing in the intake loop checks either; a malformed response may     *)
(* list any id handed out, in any number.                                 *)
Sessions(m) == {r \in issued : r.mode = m}
IdLists(m) ==
    IF Malformed THEN BoundedSeq(issued, MaxIds)
    ELSE {ids \in BoundedSeq(Sessions(m), MaxIds) : IsInjective(ids)}

\* The node for the i-th id of response no.
NodeFor(no, ids, i) ==
    [key |-> <<no, i>>, ckey |-> ids[i].slot, cid |-> ids[i].cid,
     origin |-> ids[i].origin]

\* A faulty match that trusts the slot key alone (mutant of Matches).
MatchesSlotOnly(n) == Live(n.ckey)

\* get_key, conns.get_mut and the byte-exact id comparison.
Matches(n) == Live(n.ckey) /\ cid[n.ckey] = n.cid

\* The nodes a response reserves, in the order of its ids.
Targets(no, ids) ==
    SelectSeq([i \in 1..Len(ids) |-> NodeFor(no, ids, i)], Matches)

\* Record each reserved node as its connection's resp_sending_key.
SetSendingKeys(keys, nodes) ==
    LET set(r, n) == [r EXCEPT ![n.ckey] = n.key]
    IN FoldLeft(set, keys, nodes)

\* One response is read and becomes the mode's pending response; this ends
\* the intake loop of the mode, which runs only while nothing is pending.
IntakeMsg ==
    LET m == ModeOrder[mi]
        no == nread + 1
    IN /\ phase = "intake"
       /\ pending[m] = None /\ canRead[m]
       /\ nread < MaxMsgs
       /\ \E ids \in IdLists(m) :
            LET t == Targets(no, ids)
            IN /\ sending' = [sending EXCEPT ![m] = @ \o t]
               /\ rsk' = SetSendingKeys(rsk, t)
       /\ pending' = [pending EXCEPT ![m] = no]
       /\ nread' = no
       /\ NextMode("fanout")
       /\ lastApply' = None
       /\ UNCHANGED <<accepted, connMode, cid, origin, want, free, count,
                      nextCid, issued, needs, wheel, canAccept, canRead,
                      waiting, inbox, rdEdge, wrEdge>>

\* The handle would block (can_read becomes false), or the loop's guard
\* fails.  A response that fails to parse is skipped and the loop goes on,
\* which leaves the state as it was.
IntakeEnd ==
    LET m == ModeOrder[mi]
    IN /\ phase = "intake"
       /\ \/ /\ pending[m] = None /\ canRead[m]
             /\ canRead' = [canRead EXCEPT ![m] = FALSE]
          \/ /\ ~(pending[m] = None /\ canRead[m])
             /\ UNCHANGED canRead
       /\ NextMode("fanout")
       /\ lastApply' = None
       /\ UNCHANGED <<accepted, connMode, cid, origin, want, free, count,
                      nextCid, issued, needs, wheel, canAccept, pending,
                      sending, waiting, rsk, inbox, rdEdge, wrEdge, nread>>

-----------------------------------------------------------------------------
(* Step 4: fan-out.  try_send of the pending response to the inbox of     *)
(* every node on the sending list: on success the node is freed and the   *)
(* connection's resp_sending_key cleared; on Full it moves to waiting.    *)
\* A faulty try_send that leaves resp_sending_key set (mutant of TrySend).
TrySendKeepKey(no, st, n) ==
    IF st.inbox[n.ckey] = None
    THEN [st EXCEPT !.inbox[n.ckey] = [no |-> no, cid |-> n.cid,
                                       origin |-> n.origin],
                    !.rdEdge = @ \cup {n.ckey}]
    ELSE [st EXCEPT !.waiting = Append(@, n)]

TrySend(no, st, n) ==
    IF st.inbox[n.ckey] = None
    THEN [st EXCEPT !.inbox[n.ckey] = [no |-> no, cid |-> n.cid,
                                       origin |-> n.origin],
                    !.rsk[n.ckey] = None,
                    !.rdEdge = @ \cup {n.ckey}]
    ELSE [st EXCEPT !.waiting = Append(@, n)]

\* A faulty walk that drops the pending response as soon as the sending
\* list is walked, with nodes still waiting (mutant of FanOutMode).
FanOutModeEarlyDrop(st, m) ==
    IF st.pending[m] = None
    THEN st
    ELSE LET step(acc, n) == TrySend(st.pending[m], acc, n)
             r == FoldLeft(step, [inbox |-> st.inbox, rsk |-> st.rsk,
                                  rdEdge |-> st.rdEdge,
                                  waiting |-> st.waiting[m]],
                           st.sending[m])
         IN [st EXCEPT !.inbox = r.inbox, !.rsk = r.rsk, !.rdEdge = r.rdEdge,
                       !.sending[m] = <<>>, !.waiting[m] = r.waiting,
                       !.pending[m] = None]

\* The walk for one mode; pending is dropped once both lists are empty.
FanOutMode(st, m) ==
    IF st.pending[m] = None
    THEN st
    ELSE LET step(acc, n) == TrySend(st.pending[m], acc, n)
             r == FoldLeft(step, [inbox |-> st.inbox, rsk |-> st.rsk,
                                  rdEdge |-> st.rdEdge,
                                  waiting |-> st.waiting[m]],
                           st.sending[m])
         IN [st EXCEPT !.inbox = r.inbox, !.rsk = r.rsk, !.rdEdge = r.rdEdge,
                       !.sending[m] = <<>>, !.waiting[m] = r.waiting,
                       !.pending[m] = IF r.waiting = <<>> THEN None ELSE @]

FanOut ==
    LET st0 == [pending |-> pending, sending |-> sending, waiting |-> waiting,
                rsk |-> rsk, inbox |-> inbox, rdEdge |-> rdEdge]
        st == FanOutMode(FanOutMode(st0, Req), Stream)
    IN /\ phase = "fanout"
       /\ pending' = st.pending /\ sending' = st.sending
       /\ waiting' = st.waiting /\ rsk' = st.rsk
       /\ inbox' = st.inbox /\ rdEdge' = st.rdEdge
       /\ phase' = "process"
       /\ lastApply' = None
       /\ UNCHANGED <<mi, accepted, connMode, cid, origin, want, free, count,
                      nextCid, issued, needs, wheel, canAccept, canRead,
                      wrEdge, nread>>

-----------------------------------------------------------------------------
(* Step 5: the process step, one key of needs_process at a time.          *)

\* A faulty receive that only looks at the inbox when the connection
\* wants zhttp input (mutant of Recv).
RecvIfWanted(s) == IF "zread" \in want[s] THEN inbox[s] ELSE None

\* Connection::process first takes one delivery, if any, from zreceiver
\* and applies it; an apply error is ignored.
Recv(s) == inbox[s]

\* A faulty teardown that leaves the timer registered (mutant of DropTimer).
KeepTimer(s) == wheel

\* Teardown removes the connection's timer from the wheel.
DropTimer(s) == wheel \ {s}

\* The protocol state machine reports Finished (or a process error): the
\* fan-out node, if any, is taken off the mode's waiting list, the inbox
\* and every registration go, the timer is removed, the mode's count
\* drops and the slab takes the key back.
Teardown(s) ==
    LET m == connMode[s]
    IN /\ waiting' = IF rsk[s] = None THEN waiting
                     ELSE [waiting EXCEPT ![m] =
                               SelectSeq(@, LAMBDA n : n.key # rsk[s])]
       /\ rsk' = [rsk EXCEPT ![s] = None]
       /\ inbox' = [inbox EXCEPT ![s] = None]
       /\ rdEdge' = rdEdge \ {s}
       /\ wheel' = DropTimer(s)
       /\ count' = [count EXCEPT ![m] = @ - 1]
       /\ connMode' = [connMode EXCEPT ![s] = None]
       /\ want' = [want EXCEPT ![s] = {}]
       /\ free' = <<s>> \o free
       /\ UNCHANGED <<cid, nextCid, issued>>

\* The stream state machine reports Ready after a finished request on a
\* kept-alive connection: a fresh session id is generated and started, and
\* the key is queued again.  The timer is left as it is.
Restart(s, ks) ==
    /\ connMode[s] = Stream
    /\ nextCid < MaxCid
    /\ cid' = [cid EXCEPT ![s] = nextCid]
    /\ nextCid' = nextCid + 1
    /\ issued' = issued \cup {[slot |-> s, cid |-> nextCid, mode |-> Stream,
                               origin |-> origin[s]]}
    /\ needs' = KS!Add(ks, s)
    /\ \E w \in SUBSET Wants : want' = [want EXCEPT ![s] = w]
    /\ UNCHANGED <<wheel, count, connMode, free, waiting, rsk, rdEdge>>

\* Otherwise the connection keeps the interest set it returned, and its
\* timer is added, kept, or removed to match want.timeout.
Continue(s, ks) ==
    /\ \E w \in SUBSET Wants :
         /\ want' = [want EXCEPT ![s] = w]
         /\ wheel' = IF "timeout" \in w THEN wheel \cup {s} ELSE wheel \ {s}
    /\ needs' = ks
    /\ UNCHANGED <<cid, nextCid, issued, count, connMode, free, waiting, rsk,
                   rdEdge>>

ProcessConn ==
    LET s == KS!Peek(needs)
        d == Recv(s)
        ks == KS!Take(needs)
        wr == IF d = None THEN wrEdge ELSE wrEdge \cup {s}
        kept == IF d = None THEN inbox ELSE [inbox EXCEPT ![s] = None]
    IN /\ phase = "process"
       /\ needs.queue # <<>>
       /\ lastApply' = IF d = None THEN None
                       ELSE [slot |-> s, d |-> d, cid |-> cid[s],
                             origin |-> origin[s]]
       /\ \/ /\ Teardown(s)
             /\ needs' = ks
             /\ wrEdge' = wr \ {s}
          \/ /\ Restart(s, ks)
             /\ inbox' = kept
             /\ wrEdge' = wr
          \/ /\ Continue(s, ks)
             /\ inbox' = kept
             /\ wrEdge' = wr
       /\ UNCHANGED <<phase, mi, accepted, origin, canAccept, canRead,
                      pending, sending, nread>>

ProcessEnd ==
    /\ phase = "process"
    /\ needs.queue = <<>>
    /\ phase' = "poll"
    /\ lastApply' = None
    /\ UNCHANGED <<mi, accepted, connMode, cid, origin, want, free, count,
                   nextCid, issued, needs, wheel, canAccept, canRead, pending,
                   sending, waiting, rsk, inbox, rdEdge, wrEdge, nread>>

-----------------------------------------------------------------------------
(* Step 10: poll.  Readiness events since the last poll become work.      *)

\* A faulty subtoken-4 handler that re-arms only connections wanting
\* zhttp input, like subtokens 1-3 do (mutant of Rearm).
RearmIfWanted(st, s) ==
    IF rsk[s] = None \/ "zread" \notin want[s]
    THEN st
    ELSE LET m == connMode[s]
             n == CHOOSE x \in ToSet(st.waiting[m] \o st.sending[m]) :
                      x.key = rsk[s]
         IN [st EXCEPT !.waiting[m] = SelectSeq(@, LAMBDA x : x.key # rsk[s]),
                       !.sending[m] = Append(@, n)]

\* Subtoken 4: the inbox is writable again, so the connection's parked node
\* is removed from the waiting list and pushed back on the sending list.
Rearm(st, s) ==
    IF rsk[s] = None
    THEN st
    ELSE LET m == connMode[s]
             n == CHOOSE x \in ToSet(st.waiting[m] \o st.sending[m]) :
                      x.key = rsk[s]
         IN [st EXCEPT !.waiting[m] = SelectSeq(@, LAMBDA x : x.key # rsk[s]),
                       !.sending[m] = Append(@, n)]

\* Socket and outbound-channel events (subtokens 0-2) arrive for any
\* connection interested in them; subtoken 3 (inbox readable) queues a
\* connection that wants zhttp input; acceptor and bus-read events set
\* the can_* flags again.
Poll ==
    /\ phase = "poll"
    /\ \E io \in SUBSET {s \in Slots : Live(s) /\ "io" \in want[s]},
          acc \in SUBSET Modes, rd \in SUBSET Modes :
         LET readable == {s \in rdEdge : "zread" \in want[s]}
             st == FoldLeft(Rearm, [sending |-> sending, waiting |-> waiting],
                            Sorted(wrEdge))
         IN /\ needs' = KS!AddAll(needs, Sorted(io \cup readable))
            /\ sending' = st.sending
            /\ waiting' = st.waiting
            /\ canAccept' = [m \in Modes |-> canAccept[m] \/ m \in acc]
            /\ canRead' = [m \in Modes |-> canRead[m] \/ m \in rd]
    /\ rdEdge' = {} /\ wrEdge' = {}
    /\ phase' = "timers"
    /\ lastApply' = None
    /\ UNCHANGED <<mi, accepted, connMode, cid, origin, want, free, count,
                   nextCid, issued, wheel, pending, rsk, inbox, nread>>

-----------------------------------------------------------------------------
Next ==
    \/ ExpireTimers
    \/ AcceptConn \/ AcceptEnd
    \/ IntakeMsg \/ IntakeEnd
    \/ FanOut
    \/ ProcessConn \/ ProcessEnd
    \/ Poll

Spec == Init /\ [][Next]_vars

-----------------------------------------------------------------------------
(***************************************************************************)
(* Properties.                                                             *)
(***************************************************************************)

\* The fan-out lists of a mode, sending before waiting.
Listed(m) == sending[m] \o waiting[m]

\* Spec section 3: a connection's resp_sending_key is set iff its node is
\* on exactly one of its mode's sending and waiting lists, and every node
\* on a list belongs to a live connection of that mode that points at it.
\* Intake, fan-out, teardown and the subtoken-4 re-arm all touch this.
SendingKeyConsistent ==
    /\ \A m \in Modes : \A i \in 1..Len(Listed(m)) :
         LET n == Listed(m)[i]
         IN connMode[n.ckey] = m /\ rsk[n.ckey] = n.key
    /\ \A s \in Slots : rsk[s] # None =>
         /\ Live(s)
         /\ Cardinality({i \in 1..Len(Listed(connMode[s])) :
                            Listed(connMode[s])[i].key = rsk[s]}) = 1

\* Every key in needs_process names a live connection: the process step
\* indexes conns[key] and would panic on a slot torn down earlier in the
\* same step (KeySet::add must not queue a key twice).
NeedsProcessLive ==
    \A i \in 1..Len(needs.queue) : Live(needs.queue[i])

\* Every timer in the wheel belongs to a live connection: the timer step
\* indexes conns[key] for each expired entry.
TimerOwnerLive == \A s \in wheel : Live(s)

\* No lost wakeup on the inbox: a delivery sitting in the inbox of a
\* connection that wants zhttp input still has a readable edge to come or
\* the connection is already queued for processing.
NoLostInboxWakeup ==
    \A s \in Slots :
        inbox[s] # None /\ "zread" \in want[s] => s \in rdEdge \/ needs.index[s]

\* No stranded fan-out node: a node parked on a waiting list is parked on
\* an inbox that is still full, or a writable edge will re-arm it; else the
\* mode's pending response, and with it all bus intake of the mode, stalls.
NoStrandedWaiter ==
    \A m \in Modes : \A i \in 1..Len(waiting[m]) :
        LET s == waiting[m][i].ckey IN inbox[s] # None \/ s \in wrEdge

\* A response is only ever applied to the connection it was addressed to,
\* never to a later connection that reuses the slot (the byte-exact id
\* check at intake and the cleanup at teardown guarantee it).
NoCrossConnectionDelivery ==
    lastApply # None => lastApply.d.origin = lastApply.origin

\* A response is applied to the session whose id it carried (spec 4.2).
DeliveredToCurrentSession ==
    lastApply # None => lastApply.d.cid = lastApply.cid

\* The comment above MSG_RETAINED_MAX and spec 4.2/8: at most
\* 1 + RESP_SENDER_BOUND parsed responses of a mode are retained at once
\* (the pending one plus those sitting in inboxes).
Retained(m) ==
    ({pending[m]} \ {None}) \cup
    {inbox[s].no : s \in {s \in Slots : connMode[s] = m /\ inbox[s] # None}}

RetainedWithinBound ==
    \A m \in Modes : Cardinality(Retained(m)) <= MSG_RETAINED_MAX

-----------------------------------------------------------------------------
(***************************************************************************)
(* Refinement of the fan-out contract (module FanOut).  A connection is   *)
(* owed the response of its reserved node (resp_sending_key names at most *)
(* one), and its inbox holds the number of the response delivered there.  *)
(***************************************************************************)
OwedTo(s) == IF rsk[s] = None THEN <<>> ELSE <<rsk[s][1]>>

Contract == INSTANCE FanOut WITH
    live <- [s \in Slots |-> Live(s)],
    owed <- [s \in Slots |-> OwedTo(s)],
    inbox <- [s \in Slots |-> IF inbox[s] = None THEN None ELSE inbox[s].no],
    read <- nread

\* Spec 4.2 and 8: every step of the worker loop is a step of the fan-out
\* contract.  A response is owed only to live connections (which ones
\* its ids select is NoCrossConnectionDelivery's concern), reaches an inbox only when that inbox is empty and only as the oldest
\* response owed there, is taken only by processing the connection, and
\* is forgotten when the connection is torn down; intake, fan-out, re-arm,
\* teardown and the Ready restart together implement that.
FanOutRefined == Contract!Spec

=============================================================================
