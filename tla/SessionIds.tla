----------------------------- MODULE SessionIds -----------------------------
(***************************************************************************)
(* Session ids as bytes, for the stream connections of one worker.  gen_id *)
(* formats "{worker}-{key}-{cid:x}" from the u32 counter next_cid; the     *)
(* stream intake reads a bus message, keeps it only if the text before its *)
(* first space is instance_id (get_addr_and_offset), and for each id takes *)
(* the slot key between the first two '-' (get_key), looks the slot up and *)
(* compares the id byte for byte.  The req intake runs the same id loop    *)
(* without the address prefix.  A string is a sequence of one-character    *)
(* strings; the zhttp payload past the address is not represented.        *)
(***************************************************************************)
EXTENDS Integers, Sequences, SequencesExt

CONSTANTS
    WorkerId,    \* this worker's index, the first field of its ids
    MaxConn,     \* stream_maxconn of this worker
    CidWidth,    \* bits of next_cid (a u32)
    MaxGen,      \* bound on gen_id calls
    Junk,        \* malformed ids a response may carry
    Frames,      \* bus messages, up to the end of their address prefix
    InstanceId   \* instance_id, as bytes

ASSUME /\ {WorkerId, MaxConn, CidWidth, MaxGen} \subseteq Nat
       /\ CidWidth > 0

None == -1      \* Err(()) of get_key, get_addr_and_offset, no space found
Panic == -2     \* the worker thread panicked on an arithmetic overflow

\* The slab of stream connections.
Slots == 0 .. MaxConn - 1

DIGITS == <<"0", "1", "2", "3", "4", "5", "6", "7",
            "8", "9", "a", "b", "c", "d", "e", "f">>
DecDigits == {DIGITS[i] : i \in 1 .. 10}
DigitValue(c) == CHOOSE v \in 0 .. 9 : DIGITS[v + 1] = c

\* write!'s "{}" (base 10) and "{:x}" (base 16) of a non-negative integer.
RECURSIVE Digits(_, _)
Digits(n, base) ==
    IF n < base THEN <<DIGITS[n + 1]>>
    ELSE Digits(n \div base, base) \o <<DIGITS[(n % base) + 1]>>

GenId(w, key, cid) ==
    Digits(w, 10) \o <<"-">> \o Digits(key, 10) \o <<"-">> \o Digits(cid, 16)

\* A counter one bit narrower than next_cid (mutant of NextCids).
NextCidsNarrow(c) ==
    IF c + 1 < 2^(CidWidth - 1) THEN {c + 1} ELSE {0, Panic}

\* A counter that never wraps, as if it were unbounded (mutant of
\* NextCids).
NextCidsNoWrap(c) == {c + 1}

\* *next_cid += 1 on a u32: past the top a debug build panics and a
\* release build wraps to 0; nothing in the crate fixes which is built.
NextCids(c) ==
    IF c + 1 < 2^CidWidth THEN {c + 1} ELSE {0, Panic}

\* A scan that keeps going after the second '-' (mutant of DashScan).
RECURSIVE DashScanNoBreak(_, _, _)
DashScanNoBreak(id, i, start) ==
    IF i > Len(id) THEN [start |-> start, end |-> None]
    ELSE LET r == DashScanNoBreak(id, i + 1,
                                  IF id[i] = "-" /\ start = None
                                  THEN i + 1 ELSE start)
         IN IF id[i] = "-" /\ start # None /\ r.end = None
            THEN [start |-> start, end |-> i] ELSE r

\* get_key's loop: start is the position after the first '-', end the
\* position of the second; the loop breaks there.
RECURSIVE DashScan(_, _, _)
DashScan(id, i, start) ==
    IF i > Len(id) THEN [start |-> start, end |-> None]
    ELSE IF id[i] = "-" /\ start # None THEN [start |-> start, end |-> i]
    ELSE DashScan(id, i + 1, IF id[i] = "-" THEN i + 1 ELSE start)

\* str::parse::<usize>: an optional '+', then at least one decimal digit.
\* (usize overflow needs 20 digits, beyond the ids here.)
ParseUsize(s) ==
    LET ds == IF s # <<>> /\ Head(s) = "+" THEN Tail(s) ELSE s
    IN IF ds # <<>> /\ \A i \in 1 .. Len(ds) : ds[i] \in DecDigits
       THEN FoldLeft(LAMBDA acc, c : 10 * acc + DigitValue(c), 0, ds)
       ELSE None

GetKey(id) ==
    LET d == DashScan(id, 1, None)
    IN IF d.start = None \/ d.end = None THEN None
       ELSE ParseUsize(SubSeq(id, d.start, d.end - 1))

\* A scan that finds the last space instead of the first (mutant of
\* SpaceAt).
SpaceAtLast(msg, i) ==
    LET sp == {j \in i .. Len(msg) : msg[j] = " "}
    IN IF sp = {} THEN None ELSE Max(sp)

\* get_addr_and_offset's loop: the position of the first space.
RECURSIVE SpaceAt(_, _)
SpaceAt(msg, i) ==
    IF i > Len(msg) THEN None
    ELSE IF msg[i] = " " THEN i ELSE SpaceAt(msg, i + 1)

\* The address before the first space (the offset after it is where the
\* zhttp packet starts), or Err when there is no space.
GetAddrAndOffset(msg) ==
    LET pos == SpaceAt(msg, 1)
    IN IF pos = None THEN [ok |-> FALSE, addr |-> <<>>, offset |-> 0]
       ELSE [ok |-> TRUE, addr |-> SubSeq(msg, 1, pos - 1), offset |-> pos]

\* The intake's `addr != instance_id` check.
ForUs(msg) ==
    LET r == GetAddrAndOffset(msg)
    IN r.ok /\ r.addr = InstanceId

-----------------------------------------------------------------------------
VARIABLES
    conn,      \* c.id of the slot's connection, or <<>> for a vacant slot
    sess,      \* which session (by gen_id call) the slot's connection runs
    free,      \* the slab's vacant keys, next first
    nextCid,   \* next_cid
    gens,      \* gen_id calls so far
    panicked,  \* the worker thread has died
    issued,    \* every id handed out, with its session (history)
    last       \* what the last intake decided (history)

vars == <<conn, sess, free, nextCid, gens, panicked, issued, last>>

\* No intake since the last other step.
NoIntake == [msg |-> <<>>, ours |-> FALSE, id |-> <<>>, key |-> None,
             to |-> 0, at |-> 0]

\* A response a handler may send: an issued id with the session it was
\* issued to, or a malformed id issued to nobody (session 0).

BusIds == issued \cup {[id |-> j, sess |-> 0] : j \in Junk}

TypeOK ==
    /\ conn \in [Slots -> Seq(STRING)]
    /\ sess \in [Slots -> 0 .. MaxGen]
    /\ free \in Seq(Slots)
    /\ nextCid \in 0 .. 2^CidWidth - 1
    /\ gens \in 0 .. MaxGen
    /\ panicked \in BOOLEAN
    /\ \A r \in issued : r.sess \in 1 .. MaxGen
    /\ last.at \in 0 .. MaxGen /\ last.to \in 0 .. MaxGen

Init ==
    /\ conn = [k \in Slots |-> <<>>]
    /\ sess = [k \in Slots |-> 0]
    /\ free = [i \in 1 .. MaxConn |-> i - 1]
    /\ nextCid = 0
    /\ gens = 0
    /\ panicked = FALSE
    /\ issued = {}
    /\ last = NoIntake

\* gen_id for slot k and c.start: the formatted id becomes the
\* connection's id, then next_cid is bumped, or the thread panics.
GenSession(k) ==
    LET id == GenId(WorkerId, k, nextCid)
    IN \E c \in NextCids(nextCid) :
         \/ /\ c = Panic
            /\ panicked' = TRUE
            /\ UNCHANGED <<conn, sess, nextCid, gens, issued>>
         \/ /\ c # Panic
            /\ nextCid' = c
            /\ conn' = [conn EXCEPT ![k] = id]
            /\ sess' = [sess EXCEPT ![k] = gens + 1]
            /\ gens' = gens + 1
            /\ issued' = issued \cup {[id |-> id, sess |-> gens + 1]}
            /\ UNCHANGED panicked

\* Stream accept: the slab's next vacant key gets a connection with a
\* fresh id.
Accept ==
    /\ ~panicked /\ gens < MaxGen
    /\ free # <<>>
    /\ GenSession(Head(free))
    /\ free' = Tail(free)
    /\ last' = NoIntake

\* The Ready restart: the same slot starts a new session with a fresh id.
Restart(k) ==
    /\ ~panicked /\ gens < MaxGen
    /\ conn[k] # <<>>
    /\ GenSession(k)
    /\ last' = NoIntake
    /\ UNCHANGED free

\* Teardown: the slab takes the key back.
Close(k) ==
    /\ ~panicked
    /\ conn[k] # <<>>
    /\ conn' = [conn EXCEPT ![k] = <<>>]
    /\ free' = <<k>> \o free
    /\ last' = NoIntake
    /\ UNCHANGED <<sess, nextCid, gens, panicked, issued>>

\* One iteration of the stream intake loop: a message is read; unless its
\* address is ours it is dropped; otherwise the id it carries is resolved
\* by get_key, conns.get and the byte-exact compare.  `at` is the session
\* the id reaches (0 for none); `to` the one it was issued to.
Intake(msg) ==
    /\ ~panicked
    /\ \/ /\ ~ForUs(msg)
          /\ last' = [msg |-> msg, ours |-> FALSE, id |-> <<>>, key |-> None,
                      to |-> 0, at |-> 0]
       \/ /\ ForUs(msg)
          /\ \E r \in BusIds :
               LET key == GetKey(r.id)
                   hit == key \in Slots /\ conn[key] = r.id
               IN last' = [msg |-> msg, ours |-> TRUE, id |-> r.id,
                           key |-> key, to |-> r.sess,
                           at |-> IF hit THEN sess[key] ELSE 0]
    /\ UNCHANGED <<conn, sess, free, nextCid, gens, panicked, issued>>

\* The worker thread is gone.
Halted ==
    /\ panicked
    /\ UNCHANGED vars

Next ==
    \/ Accept
    \/ \E k \in Slots : Restart(k) \/ Close(k)
    \/ \E msg \in Frames : Intake(msg)
    \/ Halted

Spec == Init /\ [][Next]_vars

-----------------------------------------------------------------------------
(***************************************************************************)
(* Properties.                                                             *)
(***************************************************************************)

\* Spec 6: get_key finds the first two '-' bytes and decodes the decimal
\* integer between them (str::parse also takes a leading '+').  Checked on
\* every id the intake resolves, generated or malformed.
RefKey(id) ==
    LET dashes == {i \in 1 .. Len(id) : id[i] = "-"}
    IN IF Cardinality(dashes) < 2 THEN None
       ELSE LET p == Min(dashes)
                q == Min(dashes \ {p})
                mid == SubSeq(id, p + 1, q - 1)
                ds == IF mid # <<>> /\ mid[1] = "+"
                      THEN SubSeq(mid, 2, Len(mid)) ELSE mid
            IN IF ds = <<>> \/ Range(ds) \notin SUBSET DecDigits THEN None
               ELSE FoldFunction(LAMBDA x, y : x + y, 0,
                        [i \in DOMAIN ds |->
                            DigitValue(ds[i]) * 10^(Len(ds) - i)])

GetKeyIsReference == last.ours => last.key = RefKey(last.id)

\* Spec 6: stream messages are prefixed "<instance_id> "; the intake keeps
\* exactly those (get_addr_and_offset and the instance check).
AddrCheckIsReference ==
    last.ours <=> IsPrefix(InstanceId \o <<" ">>, last.msg)

\* Spec 6: a mismatch after slot reuse is caught by the byte-exact compare.
\* An id reaches a session only if it was issued to that session: a stale
\* id never reaches a later connection of the slot, nor a malformed one
\* any connection.  It rests on gen_id never repeating an id for a slot:
\* it holds up to the wrap of next_cid (session_ids) and fails one gen_id
\* call past it in a release build (session_wrap).
IntakeSelectsItsSession == last.at # 0 => last.at = last.to

=============================================================================
