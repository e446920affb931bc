-------------------------------- MODULE Batch --------------------------------
(***************************************************************************)
(* The group-by-address batch of connection keys (struct Batch in         *)
(* src/server.rs), used for keep-alives and shutdown cancels.  Like        *)
(* KeySet, its operations are pure operators on a record:                  *)
(*   cap        nodes.capacity(), fixed by Batch::new                     *)
(*   nodes      the node slab: node key -> connection key (ckey)          *)
(*   free       the slab's free list; the next key insert hands out first *)
(*   addrs      the (address, list of node keys) pairs, in push order     *)
(*   addrIndex  the take_group cursor (0-based, as in the code)           *)
(*   last       last_group_ckeys                                          *)
(* A BatchKey is the record [addrIndex, nkey].                             *)
(***************************************************************************)
LOCAL INSTANCE Naturals
LOCAL INSTANCE Sequences
LOCAL INSTANCE FiniteSets
LOCAL INSTANCE TLC
LOCAL SE == INSTANCE SequencesExt

\* The slab's free list when nothing was ever removed: keys in order.
Fresh(cap) == [i \in 1 .. cap |-> i - 1]

\* Batch::new(capacity).
New(cap) ==
    [cap |-> cap, nodes |-> [k \in {} |-> 0], free |-> Fresh(cap),
     addrs |-> <<>>, addrIndex |-> 0, last |-> <<>>]

Size(b) == Cardinality(DOMAIN b.nodes)
IsEmpty(b) == DOMAIN b.nodes = {}

\* Batch::clear: addrs and nodes emptied (the slab starts over with fresh
\* keys) and the cursor reset; last_group_ckeys is kept.
Clear(b) ==
    [b EXCEPT !.addrs = <<>>, !.nodes = [k \in {} |-> 0],
              !.free = Fresh(b.cap), !.addrIndex = 0]

\* The node slab without the given node keys.
WithoutNodes(nodes, ks) == [k \in DOMAIN nodes \ ks |-> nodes[k]]

\* Batch::add scans every address and keeps the LAST match; without one it
\* will push a new entry at the end.
AddrPos(b, a) ==
    LET ms == {i \in 0 .. Len(b.addrs) - 1 : b.addrs[i + 1].addr = a}
    IN IF ms = {} THEN Len(b.addrs) ELSE SE!Max(ms)

\* Batch::add returns Ok exactly when the slab has room.
AddOk(b) == Size(b) < b.cap

\* The BatchKey an Ok add returns.
AddKey(b, a) == [addrIndex |-> AddrPos(b, a), nkey |-> Head(b.free)]

\* The batch after Batch::add(a, c).  A new address is pushed before the
\* capacity check, so a failed add still leaves it behind.  Its copy into
\* the entry's 64-byte ArrayVec unwraps; the connection limits to_addr to
\* 64 bytes, so every address here fits.
Add(b, a, c) ==
    LET pos == AddrPos(b, a)
        b1 == IF pos = Len(b.addrs)
              THEN [b EXCEPT !.addrs = Append(@, [addr |-> a, list |-> <<>>])]
              ELSE b
        k == Head(b.free)
    IN IF ~AddOk(b) THEN b1
       ELSE [b1 EXCEPT !.nodes = @ @@ (k :> c), !.free = Tail(@),
                       !.addrs[pos + 1].list = Append(@, k)]

\* Batch::remove(key): unlink the node from its address's list and free it.
Remove(b, key) ==
    [b EXCEPT !.addrs[key.addrIndex + 1].list =
                  SelectSeq(@, LAMBDA n : n # key.nkey),
              !.nodes = WithoutNodes(@, {key.nkey}),
              !.free = <<key.nkey>> \o @]

\* The first cursor position at or after i whose address has nodes, or
\* Len(addrs) if there is none ("find the next addr with items").
RECURSIVE Cursor(_, _)
Cursor(addrs, i) ==
    IF i < Len(addrs) /\ addrs[i + 1].list = <<>> THEN Cursor(addrs, i + 1)
    ELSE i

\* take_group would return Some.
HasGroup(b) == Cursor(b.addrs, b.addrIndex) < Len(b.addrs)

\* Batch::take_group: move the cursor to the next address with items and
\* pop up to idsMax of its nodes, recording their ckeys in last; with no
\* such address, clear the batch (and return None).
TakeGroup(b, idsMax) ==
    LET i == Cursor(b.addrs, b.addrIndex)
        l == b.addrs[i + 1].list
        n == IF Len(l) < idsMax THEN Len(l) ELSE idsMax
        g == SubSeq(l, 1, n)
    IN IF ~HasGroup(b) THEN Clear(b)
       ELSE [b EXCEPT !.addrIndex = i,
                      !.addrs[i + 1].list = SubSeq(l, n + 1, Len(l)),
                      !.nodes = WithoutNodes(@, SE!ToSet(g)),
                      !.free = SE!Reverse(g) \o @,
                      !.last = [j \in 1 .. n |-> b.nodes[g[j]]]]

=============================================================================
