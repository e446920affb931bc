------------------------------- MODULE FanOut -------------------------------
(***************************************************************************)
(* What the worker's response fan-out promises (spec sections 4.2 and 8),  *)
(* with none of its lists, nodes or modes: a response read from the bus   *)
(* is owed to each live connection it addresses; owed responses reach a   *)
(* connection's one-slot inbox one at a time, oldest first; processing    *)
(* empties the inbox; closing a connection forgets what it was owed.  A   *)
(* slot that is closed and opened again is a new connection.              *)
(***************************************************************************)
EXTENDS Naturals, Sequences

CONSTANTS
    Slots,    \* connection slots
    MaxMsgs,  \* bound on responses read from the bus
    None

VARIABLES
    live,   \* the slot holds a connection
    owed,   \* the responses owed to the slot's connection, oldest first
    inbox,  \* the response sitting in the connection's inbox, or None
    read    \* responses read from the bus so far

vars == <<live, owed, inbox, read>>

TypeOK ==
    /\ live \in [Slots -> BOOLEAN]
    /\ owed \in [Slots -> Seq(1..MaxMsgs)]
    /\ inbox \in [Slots -> (1..MaxMsgs) \cup {None}]
    /\ read \in 0..MaxMsgs

Init ==
    /\ live = [s \in Slots |-> FALSE]
    /\ owed = [s \in Slots |-> <<>>]
    /\ inbox = [s \in Slots |-> None]
    /\ read = 0

\* A connection is opened on a free slot.
Open(s) ==
    /\ ~live[s]
    /\ live' = [live EXCEPT ![s] = TRUE]
    /\ UNCHANGED <<owed, inbox, read>>

\* The next response is read; it becomes owed to a set of live connections.
Read(targets) ==
    /\ read < MaxMsgs
    /\ targets \subseteq {s \in Slots : live[s]}
    /\ read' = read + 1
    /\ owed' = [s \in Slots |-> IF s \in targets THEN Append(owed[s], read + 1)
                                ELSE owed[s]]
    /\ UNCHANGED <<live, inbox>>

\* Some connections with an empty inbox each receive the oldest response
\* owed to them.
Deliver(S) ==
    /\ S # {}
    /\ \A s \in S : live[s] /\ owed[s] # <<>> /\ inbox[s] = None
    /\ inbox' = [s \in Slots |-> IF s \in S THEN Head(owed[s]) ELSE inbox[s]]
    /\ owed' = [s \in Slots |-> IF s \in S THEN Tail(owed[s]) ELSE owed[s]]
    /\ UNCHANGED <<live, read>>

\* A connection is processed: it takes what its inbox holds and may close,
\* which forgets what it is owed.
Process(s) ==
    /\ live[s]
    /\ inbox' = [inbox EXCEPT ![s] = None]
    /\ \/ UNCHANGED <<live, owed>>
       \/ /\ live' = [live EXCEPT ![s] = FALSE]
          /\ owed' = [owed EXCEPT ![s] = <<>>]
    /\ UNCHANGED read

Next ==
    \/ \E s \in Slots : Open(s) \/ Process(s)
    \/ \E T \in SUBSET Slots : Read(T) \/ Deliver(T)

Spec == Init /\ [][Next]_vars

=============================================================================
