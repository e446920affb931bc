# TLA+ models of the condure worker (`src/src/server.rs`)

condure is an HTTP/WebSocket connection manager. Each worker thread owns a
slab of client connections and speaks zhttp over ZeroMQ to handlers. All of
the worker's logic lives in `Worker::run` (server.rs 936-2121): a single
thread runs an event loop over non-blocking channels and sockets. There are no
locks. The hard parts are the **order of the loop's phases**, **edge-triggered
readiness**, **bounded channels that can be Full**, and **slot reuse**.

## 1. Inventory

| Part | State (server.rs) | Operations | Interacts with |
|---|---|---|---|
| KeySet `needs_process` (673-713) | `index: Vec<bool>`, `queue: VecDeque<u32>` | `new`, `add` (dedup), `take` | timers, accept, poll events: they add keys. The process step takes them. |
| Connection slab | `conns: Slab<Connection>` (LIFO free list), `conns_data`, `req_count`, `stream_count` | accept (1187-1428), teardown (1641-1686) | every phase, indexed by key |
| Session ids | `next_cid: u32`, `c.id = "{worker}-{key}-{cid:x}"` | `gen_id` (921), `get_key` (125), `start` (500) | bus intake matches ids byte-exactly (1471) |
| Timers | timer wheel, `c.timer` | take_expired (1180), reconcile (1701-1725), remove at teardown | process step |
| Response fan-out | `*_resp_pending`, `*_resp_sending`, `*_resp_waiting` lists of nodes, `resp_sending_key` per conn, scratch arena of `MSG_RETAINED_MAX` | intake (1430-1563), fan-out (1565-1637), subtoken-4 re-arm (2034-2054), teardown unlink (1652-1665) | per-connection inbox (`RESP_SENDER_BOUND` = 1) |
| Connection wrapper | `want`, inbox `zreceiver` | `process` (552): first take one inbox delivery, then run the protocol FSM, which returns Finished, Ready or a new `want` | FSMs in other crate files (environment) |
| Batch (735-853) | `nodes`, `addrs` (with lists), `addr_index`, `last_group_ckeys` | `add`, `remove`, `take_group`, `clear` | keep-alive and shutdown cancels |
| Keep-alive | `next_keep_alive_time`, `next_keep_alive_index`, `ka_batch`, `c.keep_alive`, `out_seq` | sweep (1728-1768), emit (1770-1816) | Batch, stream out_stream sender |
| Outbound pumps | `*_send_pending`, `*_receiver_ready`, `can_z*_write` | three loops (1818-1898) | zhttp handles |
| Poll | `can_*` flags, edge events | timeout choice (1900-1919), events (1921-2061) | every phase |
| Shutdown | batch | cancel sweep (2064-2120) | Batch |

Hard behaviours in this code:
- A connection's inbox holds one delivery. A Full `try_send` parks the node on
  `waiting`, and only the inbox-writable edge (subtoken 4) brings it back.
- Readiness is edge-triggered. The inbox-readable edge (subtoken 3) is
  *dropped* when the connection does not want `zhttp_read` at that moment.
- A freed slab key is the next one handed out, so responses for a dead
  connection can name a live one. Only the cid part of the id tells them apart.
- A kept-alive stream connection gets a **new session id** (the Ready path)
  while a response for its old id may still be in flight to it.
- Bus intake reads a new response as soon as none is pending, whatever the
  inboxes still hold.
- The keep-alive batch keeps its cursor `addr_index` across sweeps.
- A stream connection caches `out_stream_can_write`. After one refusal it
  stops probing the channel, so it depends on the wait-list wake-up from
  that first refusal.

## 2. Modules

| Module | Models | State and actions |
|---|---|---|
| `KeySet` | `struct KeySet` | Pure operators `New`, `Add`, `Take`, `Peek` and `AddAll` on a record `[index, queue]`. |
| `Worker` | `Worker::run`, from timers to poll | One action per phase step, in the loop's order. `phase` says which comes next. |
| `MCWorker` | TLC instance | Definitions for `MaxConn`. |
| `Batch` | `struct Batch` | Pure operators on a record `[cap, nodes, free, addrs, addrIndex, last]`: `New`, `Clear`, `Add` / `AddOk` / `AddKey`, `Remove`, `TakeGroup` / `HasGroup`. |
| `Pumps` | the three outbound pumps, the keep-alive emitter's `check_send`, `StreamLocalSenders` (`can_send_to`, `send_to`, `out_stream_can_write`), the zero-timeout decision and the channel, handle and subkey 2 event arms of `Worker::run` | Phases `process` (connections send, `ConnProcess` runs a stream connection off `needs_process`, the sweep queues a group), `emit`, `pump` (one loop iteration per `PumpStep`) and `poll`. `Drain` is the bus manager thread. |
| `MCPumps` | TLC instance | The pump order: req, then stream-addr. |
| `FanOut` | the fan-out contract of spec 4.2 and 8, not a piece of code | `live`, `owed` (responses owed to each connection, oldest first), `inbox`, `read`. `Read`, `Deliver` (to several inboxes at once), `Process` (take the inbox, maybe close), `Open`. `Worker` instantiates it as `Contract` under a refinement mapping. |
| `SessionIds` | `gen_id`, `get_key`, `get_addr_and_offset` and the stream slots' ids in `Worker::run` | Ids are byte strings. `Accept`, `Restart` (the Ready restart), `Close` (teardown) and `Intake` (one stream intake iteration: address check, `get_key`, slab lookup, byte-exact compare). `Halted` is the thread after an overflow panic. |
| `MCSessionIds` | TLC instance | The junk ids and bus frames the intake may read. |
| `KeepAlive` | the keep-alive sweep, batch emission and shutdown cancel flush of `Worker::run`, composed with `Batch` | The loop phases `env` (the process step's effect on keep-alives), `ka`, `emit` and `poll`, then `cancel`, `cancelTake` and `stopped`. |

### Worker: how the model corresponds to the code
- `connMode`, `cid`, `want`, `free`, `count` stand for the slab and its
  connections. `free` is the slab's free list: `Head(free)` is the key
  `vacant_entry()` returns, and teardown pushes the key on the front (LIFO).
- A session id is `<<slot, cid>>`. `issued` records every id handed out,
  with its mode and `origin`, the cid the connection was accepted with. These
  history variables let the properties tell connections apart.
- Bus responses are numbered by arrival (`nread`). A response carries a
  sequence of distinct ids of its mode (`IdLists`), current or stale. Parse
  failures leave the state unchanged, so they are not a separate step.
- With `Malformed` = TRUE, a response may list any id handed out, any
  number of times, including a session of the other mode. The intake loop
  checks neither, so this is input the code accepts.
- Refinement: a connection is owed the response of the node its
  `resp_sending_key` names (`OwedTo`), and its inbox maps to the number of
  the response in it. Fan-out of several nodes in one step is one `Deliver`
  of the contract. The re-arm, the phase changes and a Full `try_send` are
  stuttering steps of the contract.
- The nodes carry their key `<<response, position>>`. `rsk` is
  `resp_sending_key`. `inbox` is the connection's bounded channel (capacity 1).
- `rdEdge` and `wrEdge` are the inbox-readable (subtoken 3) and inbox-writable
  (subtoken 4) edges raised since the last poll.
- `ProcessConn` is the whole body of one `while let Some(key) =
  needs_process.take()` iteration:
  1. the `try_recv` in `Connection::process` (`Recv`);
  2. then one of the three outcomes:
     - `Teardown` (Finished), which unlinks the node, drops the inbox and
       timer, decrements the count and frees the key;
     - `Restart` (Ready), with a new cid and the key queued again;
     - `Continue`, where the timer follows `want.timeout`.
- `Poll` is the poll plus the whole event loop:
  - socket and outbound-channel events (subtokens 0-2) for connections with
    "io" interest;
  - the readable edges of connections that want `zhttp_read` (subtoken 3);
  - re-arming every writable edge (subtoken 4);
  - setting the `can_*` flags again for acceptor and bus events.
- Abstractions:
  - Events within one poll are handled in ascending key order.
  - `want` is abstracted to {io, zread, timeout}.
  - Timer expiry is any subset of the armed timers.

### KeepAlive: how the model corresponds to the code
- The `env` phase models the parts of the process step that touch
  keep-alives:
  - `Open` is accept;
  - `LearnAddr` is the stream state machine learning `to_addr`, modelled from
    the spec, since that code is not in this file;
  - `Close` is teardown, which calls `batch.remove` through `c.keep_alive`;
  - `Restart` is the Ready path, which does the same.
- `KeepAliveSweep` is the whole `if batch.is_empty() && now >=
  next_keep_alive_time` block. `SweepLoop` is its `for` loop: it runs
  `batch.capacity()` iterations, stops at the wrap, and adds each stream
  connection with a known address. `age` counts the sweeps since each slot
  was last visited.
- `EmitGroup`, `EmitBlocked` and `EmitEnd` are the three exits of one
  emission-loop iteration. `EmitGroup` covers `check_send` true,
  `take_group`, the sends, clearing the `keep_alive` handles, and the
  skip-ahead.
- Time is measured in intervals. `lag` = now - `next_keep_alive_time`, and it
  saturates at `MaxLag`.
- `Stop`, `CancelRound` (`FillLoop`), `CancelTake`, `CancelRoundEnd`,
  `CancelDone` and `Stopped` are the shutdown code at 2064-2120.
  `cancels` counts the cancels handed to `send_to_addr` for each slot.
- `out_seq` is not represented. Every keep-alive group is sent after
  `check_send` said there is room, and its handler address fits the
  64-byte `ArrayVec` of the routed send, because `Batch::add` has already
  copied it into one with `unwrap` (783-784; the connection limits
  `to_addr` to 64 bytes, comment at 782). Serialization of at most
  `IDS_MAX` ids of at most 32 bytes fits the 65 000-byte buffer. So the
  bump after each group (1801-1807) follows a packet that was handed on.
- A cancel group goes to `ClientStreamHandle::send_to_addr` (182-189),
  whose error is only logged. Nothing in the flush depends on the outcome,
  so `CancelTake` has no separate failure step.
- `Batch` keeps the slab's LIFO free list, so node keys are those of the code.
  `addrs` is never shrunk except by `clear`.

### SessionIds: how the model corresponds to the code
- A string is a sequence of one-character strings. `Digits` is write!'s
  `{}` and `{:x}`, and `GenId` is gen_id's format (921-934).
- `NextCids` is `*next_cid += 1` on a u32 of `CidWidth` bits (931). Past
  the top the result is a choice: a debug build panics, and a release build
  wraps to 0. The crate's build profile is not in the repository.
- `DashScan`, `ParseUsize` and `GetKey` are get_key (125-161), loop and
  `break` included. `ParseUsize` is `str::parse::<usize>`, which accepts a
  leading `+`. `SpaceAt` and `GetAddrAndOffset` are get_addr_and_offset
  (103-123). The UTF-8 checks never fail on these ASCII alphabets.
- `conn[k]` is the id of the stream connection in slot `k`, and `sess[k]`
  numbers which gen_id call started it. `free` is the slab's LIFO free
  list. `issued` and `last` are history for the properties.
- `Intake(msg)` is one iteration of the stream intake loop (1489-1560): a
  frame whose address is not `instance_id` is dropped, and otherwise any
  issued or malformed id is resolved. `last.to` is the session the id was
  issued to and `last.at` the session it reached.
- The req slots use the same gen_id and the same id loop without the
  address prefix; they are left out because they add nothing the stream
  slots do not show.

### Pumps: how the model corresponds to the code
- A pump `p` has four parts:
  - a channel `chan[p]`: the `local_channel` of capacity `handle_bound`;
  - `pending[p]`: the `*_send_pending` holder;
  - `rxReady[p]` and `canWrite[p]`: the `*_receiver_ready` and
    `can_z*_write` flags;
  - `bus[p]`: the handle's outbound queue.
- Messages are numbered per pump in send order. `sent`, `drained` and
  `dropped` count what went in, what the bus manager took, and what an Io
  error dropped.
- `PumpStep` is one iteration of a pump's `loop`. `Recv` is the `try_recv`
  on an empty holder, and `Send` is the `send` with its three outcomes:
  - `Ok` continues the loop;
  - `Full` puts the message back and clears `can_write`;
  - `Io` drops the message.
  `NextPump` is the `break`.
- Readiness follows a poller registration:
  - A channel's read readiness (`rxArmed`) is turned off by an empty
    `try_recv` and on by a send. The send raises an event (`rxEv`) only when
    readiness was off.
  - A handle that answered Full raises a writable event (`wrEv`) when the bus
    manager frees room.
  - `check_send` false puts the emitter on the channel's wait list
    (`kaWaiting`). The next `try_recv` on that channel wakes it (`kaEv`).
  The channel and handle code is not in this file, so these edges are
  modelled from the spec (section 5).
- Stream connections (`Conns`) write to handlers through their
  `StreamLocalSenders` (275-340) into the stream-addr channel.
  - `owe[c]`: the state machine has a message for a handler. `ConnEvent`
    (a socket or timer event, 2014-2016) queues the connection on
    `needs_process` and may bring such a message; it is the environment.
  - `ConnProcess` is `process` of a queued connection as far as
    `can_send_to` goes: with `canTo[c]` (`out_stream_can_write`) set,
    `check_send` probes the channel, true leads to `send_to` queuing the
    message, false clears the flag and puts the sender on the wait list
    (`cWaiting`). With the flag clear the answer is false without a probe.
    A false answer sets `want.zhttp_write_to`. How the state machine reacts
    to that answer is in another file; this is the reaction spec 5
    describes.
  - A `try_recv` that takes a message from the stream-addr channel wakes
    every sender on its wait list (`cEv`, like `kaEv`). `OutStreamArm` is
    the subkey 2 arm (2022-2028): it sets the flag and queues the
    connection if it wants `zhttp_write_to`.
- `ZeroTimeout` contains the pump and batch terms of the condition at
  1900-1912. `Poll` hands every waiting event to its arm (1933-1975).

## 3. Runs

| Run | cfg | Expect | What it shows |
|---|---|---|---|
| `worker_core` | `MCWorker.cfg` | pass | The fan-out bookkeeping stays consistent (`SendingKeyConsistent`). `needs_process` and the timer wheel name only live connections. No inbox wakeup is lost and no waiting node is stranded. No response reaches a connection other than the one it was sent to, despite LIFO slot reuse. |
| `worker_refine` | `MCWorkerRefine.cfg` | pass | Every step of the worker is a step of the fan-out contract (`FanOutRefined`): a response is owed only to the live connections its ids match, reaches an inbox only when it is empty and only as the oldest owed response, and is forgotten at teardown. |
| `worker_retained` | `MCWorkerRetained.cfg` | violation | More than `MSG_RETAINED_MAX` = 2 parsed responses are held when two stream connections leave a delivery unread. The code would then panic on the scratch arena at line 1440. |
| `worker_session` | `MCWorkerSession.cfg` | violation | A response parked for a stream session is applied to the session started by the Ready restart. |
| `keepalive_core` | `MCKeepAlive.cfg` | pass | Keep-alive handles and batch entries match one to one through teardowns and restarts (`KeepAliveHandleConsistent`). Every slot is swept within `KEEP_ALIVE_BATCHES` sweeps (`SweepPeriod`), because the req slot fits in the rounding slack of `ka_batch`. Shutdown hands exactly one cancel per pinged connection to the handle, whether or not the handle takes it (`CancelsReachAll`), and terminates (`ShutdownCompletes`). |
| `keepalive_cursor` | `MCKeepAliveCursor.cfg` | violation | Two handler addresses over three sweeps leave a node behind the stale cursor. `take_group` would return None and the `unwrap` at 1787 would panic. |
| `keepalive_period` | `MCKeepAlivePeriod.cfg` | violation | Req slots stretch the sweep round beyond `KEEP_ALIVE_BATCHES` sweeps. |
| `worker_dup_ids` | `MCWorkerDupIds.cfg` | violation | A response that lists one live stream session twice leaves its second node on the waiting list with no way back (`NoStrandedWaiter`). |
| `pumps_core` | `MCPumps.cfg` | pass | The req and stream-addr pumps run, with the keep-alive emitter on the stream-addr channel. No message is lost or reordered except by an Io drop (`NoLossNoReorder`). The loop never blocks in poll while a pump or the emitter has work that no waiting event would resume (`NoStall`); after an Io error only the `*_send_pending.is_none() && *_receiver_ready` term prevents that. Every message eventually reaches the bus manager or is dropped, and every queued group is emitted (`Progress`). A stream connection whose `check_send` was refused, and whose cached `out_stream_can_write` then answers false without probing, still gets its message into the stream-addr channel (`SendToProgress`). |
| `session_ids` | `MCSessionIds.cfg` | pass | `get_key` agrees with a declarative reading of the id format (`GetKeyIsReference`), and the address check keeps exactly the frames that start with `"<instance_id> "` (`AddrCheckIsReference`), over every generated id and every malformed one of up to four bytes. An id reaches only the session it was issued to, through slot reuse and Ready restarts, up to and including the step where `next_cid` reaches its top (`IntakeSelectsItsSession`). |
| `session_wrap` | `MCSessionIdsWrap.cfg` | violation | One gen_id call past the top of a 2-bit `next_cid`, a release build's wrap hands a slot the id of its first session again, and a response for that session reaches the new one (`IntakeSelectsItsSession`). |
| `shutdown_reqonly` | `MCShutdownReqOnly.cfg` | violation | With `stream_maxconn` = 0 and req slots, the cancel flush loops forever. |

Bounds:
- `worker_core`: one req and one stream slot, so slots are reused across
  modes. TLS is on the stream listener, so the accept-failure path runs.
  `MaxCid` = 3 allows an accept, a restart and a re-accept of a freed slot.
  There are two responses of up to two ids, so a response can reach both
  connections or a stale id. Exploring these bounds takes about 1.3 M states
  and 70 s.
- `worker_refine`: two stream slots, `MaxCid` = 3 (a restart or a slot
  reuse), and three single-id responses. This is the least that lets a
  response be read while an older one is still parked for the same
  connection. Arrival order is then part of the contract: an overtaking
  response would replace what the connection is owed. This takes about
  1.5 M states and 105 s. Responses of two ids at these bounds take
  3.7 M states and almost 5 minutes, so delivery to two inboxes in one step
  is not exercised.
- The Worker violation runs use two stream slots (`MCStreamOnly`), the least
  that shows each scenario.
- `keepalive_core`:
  - one req and three stream slots, so the sweep and the cancel flush pass
    over a req slot;
  - `KEEP_ALIVE_BATCHES` = 2, so `ka_batch` = 2, a sweep round is two
    sweeps, and a cancel flush takes two rounds;
  - `IDS_MAX` = 1, so one group does not empty the batch.
  The real values (450 batches, `IDS_MAX` of 64) only scale the same
  arithmetic. This takes about 234 k states and 2 minutes.
- `session_ids`: two stream slots, a 2-bit `next_cid` and four gen_id
  calls, so the counter reaches its top and both outcomes of the overflow
  (wrap and panic) are explored, but no id is issued after the wrap.
  `session_wrap` allows a fifth call, and a release build then reissues an
  id to a later session of the same slot; at 32 bits that takes 2^32
  sessions on one worker. Malformed ids are all strings over `1`, `-`
  and `+` of up to four bytes, which include no dash, one dash, an empty
  key, a `+` key and keys out of range. Frames are all strings over `i` and
  space of up to three bytes. This takes about 25 k states and 80 s.
- `pumps_core`: two pumps, one-slot channels and handles, four messages
  per pump, one Io error and one stream connection.
  - The stream-any pump is the same loop as the req pump, so it is left out;
    with all three pumps the state space does not finish in minutes.
  - A stall needs a message sent while the receiver is still readable (so
    no event), then an Io error on the message ahead of it. That takes three
    messages.
  - A `check_send` refusal needs the stream-addr handle, holder and channel
    full (three messages) and a fourth message waiting. The connection
    competes with the emitter for the channel; it is refused, processed
    again by another event while its flag is clear, and woken.
  - Two connections give about 270 k states and over 5 minutes without a
    new case. With one this takes about 100 k states and 85 s.

Every property of the pass run has a mutant in `PROJECT.json`. Each mutant is
a plausible slip in the corresponding code, and TLC finds it:
- a kept `resp_sending_key`;
- a non-deduplicating `KeySet::add`;
- a timer left at teardown;
- a receive gated on `want`;
- a re-arm gated on `want`;
- a slot-only match;
- an off-by-one in the mode loop;
- for the refinement, a fan-out that drops `pending` while nodes still
  wait;
- in KeepAlive, a sweep wrapping one slot late;
- a teardown leaving its batch entry;
- a cancel fill walking past a full batch;
- a cancel loop running one round past the end;
- `ka_batch` rounded down;
- in SessionIds, a `next_cid` one bit narrower and one that never wraps;
- a get_key scan without its `break`;
- an address scan that takes the last space;
- in Pumps, a pump walk one pump too far;
- a Full branch that loses its message;
- an event loop without the handle-write arms;
- a timeout decision without the ready-receiver term;
- a subkey 2 arm that queues the connection without setting
  `out_stream_can_write`.

Fairness: `KeepAlive` assumes weak fairness of the shutdown steps only
(`CancelStep`). After the stop signal the thread runs nothing but the cancel
flush; its only pause is a 10 ms sleep, so it keeps taking steps. Nothing is
assumed of the main loop there.

`Pumps` assumes weak fairness of the loop as a whole (`LoopStep`) and of each
handle's drain:
- `poll` returns within `POLL_TIMEOUT_MAX` (100 ms) even with no event, so
  the worker thread always takes another step.
- The bus manager is a thread of its own that keeps taking messages off the
  handles.
Connections sending, socket events (`ConnEvent`) and the sweep queueing groups are not fair, because they
are the environment. Since the poll always returns, `Progress` holds even if
the timeout decision is wrong. What the decision decides is latency, and
`NoStall` checks it as an invariant.

An ad hoc check on three pumps found that the `can_z*_write &&
*_send_pending.is_some()` terms and the `!batch.is_empty() &&
zstream_out_stream_sender_ready` term are never true when the decision is
made. Each pump loop and the emission loop only exit once those terms are
false. The ready-receiver terms are true there only after an Io error.

## 4. Findings

1. **Retention bound (code bug).** The intake loop reads a response whenever
   none is pending (1430). Delivered responses stay alive in inboxes that
   their connections do not read. The claim of the comment at 59-66 (at most
   1 + RESP_SENDER_BOUND) therefore fails. The scratch arena has exactly that
   capacity, so `Rc::new(..).unwrap()` panics.
2. **Response crosses a session restart (spec divergence).** The id is
   checked only at intake (1471). The Ready path (1688-1699) keeps
   `resp_sending_key`, so the parked node is delivered to the new session.

3. **Stale batch cursor (code bug).** `take_group` resets `addr_index` only
   on its way to None. The emission loop (1770) stops when the batch is
   empty, so that never happens. A later sweep's `add` reuses an address
   entry before the cursor, and `take_group(..).unwrap()` at 1787 panics.
   With two handler addresses, three sweeps are enough.
4. **Sweep period (spec gap).** `ka_batch` is sized from `stream_maxconn`,
   but the sweep walks all `req_maxconn + stream_maxconn` slots. A round
   therefore exceeds `KEEP_ALIVE_BATCHES` intervals (45 s) whenever
   `req_maxconn` is larger than the rounding slack `KEEP_ALIVE_BATCHES *
   ka_batch - stream_maxconn`: with one req and two stream slots it fails,
   and with one req and three stream slots (`keepalive_core`) it holds.
5. **Shutdown hang (code bug).** When `stream_maxconn / workers` = 0,
   `ka_batch` = 0. The cancel fill loop never advances
   `next_cancel_index`, and the outer loop (2070) never ends.

6. **Duplicated id wedges a mode (code bug).** The intake loop (1459-1483)
   inserts a node for every listed id and overwrites `resp_sending_key`.
   Take a response that lists a live session twice. The first node is
   delivered, which clears the key, and the second parks on the waiting
   list because the inbox is full. Both the subtoken-4 re-arm (2038) and
   teardown (1652) reach a parked node only through `resp_sending_key`, so
   the node is never re-armed or unlinked. The mode's pending response is
   never dropped, and that mode reads nothing more from the bus. A response
   that names a session of the other mode ends the same way: the node sits
   on one mode's lists, and the re-arm looks in the other's.
7. **Session id reuse after the `next_cid` wrap (spec gap).** `gen_id`
   increments the u32 `next_cid` with `+=` (931). A release build wraps it,
   so after 2^32 ids a slot reused or restarted often enough gets an id it
   had before, and the byte-exact compare (1546) accepts a response meant
   for the earlier session. Spec 6 relies on that compare to detect slot
   reuse and sets no bound on sessions. A debug build panics instead. At
   32 bits this needs 2^32 sessions on one worker while a response for the
   first is still in flight, so it is a boundary, not a practical risk.

## 5. Plan for the remaining work

1. (Done: `Pumps.tla`.) Still open: the accept, intake and fan-out terms of
   the zero-timeout condition, checked against `Worker`.
2. (Done: `worker_dup_ids`.)
3. Still open: the seq of a connection's own messages, whose sends are in
   the state machines.
4. (Done: `FanOut` and `worker_refine`.) Still open: fairness in `Worker`,
   so that the contract's liveness (every owed response is eventually
   delivered) can be checked.

## 6. Not modelled

- The protocol state machines, TLS, sockets, zhttpsocket and arena are in
  other files of the crate. They are the environment: `process` returns any
  outcome.
- In `Worker`, an id is the pair <<slot, cid>>. `SessionIds` models the
  bytes, at a 2-bit `next_cid`; the wrap at 2^32 is out of reach at real
  width.
- Server and TestServer setup is thread and socket plumbing with no shared
  protocol state.
- The Full and Disconnected results of `send` and `send_to`, and
  `send_to`'s 64-byte address check, are returned to the connection state
  machines in other files; what they do with them is unknown here. In
  `Pumps` a connection sends only after `check_send` said there is room.
- The channel's wait list is in another file. `Pumps` follows spec 5: a
  refused sender is woken by the next `try_recv` that frees room.
