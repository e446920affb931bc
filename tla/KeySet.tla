------------------------------- MODULE KeySet -------------------------------
(***************************************************************************)
(* The deduplicating FIFO of connection keys that need processing          *)
(* (struct KeySet in src/server.rs): a boolean index per key and a queue.  *)
(* Its operations are pure operators on a record [index, queue], so that   *)
(* the worker's event loop can hold one as the value of a variable.        *)
(***************************************************************************)
LOCAL INSTANCE Sequences

\* KeySet::new(capacity): no key marked, empty queue.
New(keys) == [index |-> [k \in keys |-> FALSE], queue |-> <<>>]

\* A faulty add that forgets to consult the index (mutant of Add).
AddNoDedup(ks, k) ==
    [index |-> [ks.index EXCEPT ![k] = TRUE], queue |-> Append(ks.queue, k)]

\* KeySet::add: a no-op when the key is already queued.
Add(ks, k) ==
    IF ks.index[k]
    THEN ks
    ELSE [index |-> [ks.index EXCEPT ![k] = TRUE],
          queue |-> Append(ks.queue, k)]

\* KeySet::take on a non-empty queue: pop the front and unmark it.
Take(ks) ==
    [index |-> [ks.index EXCEPT ![Head(ks.queue)] = FALSE],
     queue |-> Tail(ks.queue)]

\* The key Take pops.
Peek(ks) == Head(ks.queue)

\* Add every key of the sequence ks, in order.
RECURSIVE AddAll(_, _)
AddAll(ks, keys) ==
    IF keys = <<>> THEN ks ELSE AddAll(Add(ks, Head(keys)), Tail(keys))

=============================================================================
