# A TLA+ verification of quiche_min

The repository is a fork of Cloudflare's quiche: a QUIC and HTTP/3 library in
Rust (`src/quiche/src`), a C++ client engine on top of it
(`src/quiche/engine`), the async server framework tokio-quiche and a number of
tools. This project models the state machines of the library and of the engine:
the two halves of a stream, the credit and the streams two ends give each
other, the wakeups of a writing application, connection IDs, paths and
migration, loss recovery, the receiving side of an HTTP/3 server, and the
threads of the engine. TLC checks them on small instances, and TLAPS proves the
main safety properties of eight of them for every value of the constants.

`PROJECT.json` holds the machine-readable side: components, runs, mutants, the
map from definitions to source lines, findings, hazards and theorems.

## 1. Inventory

| Component | Source | State | Operations | What makes it hard |
|---|---|---|---|---|
| Stream receive buffer | `quiche/src/stream/recv_buf.rs`, `flowcontrol.rs`, `range_buf.rs` | chunks by end offset, read offset, length, final size, reset error, drain flag, flow control window | `write`, `emit`, `reset`, `shutdown`, `update_max_data`, `autotune_window` | overlapping, reordered and conflicting frames; FIN, RESET_STREAM and shutdown in any order; credit that depends on reads, autotuning and lost updates |
| Stream send buffer | `quiche/src/stream/send_buf.rs` | chunks with a send position, `pos`, offsets, acked ranges, final size | `write`, `append_buf`, `emit`, `ack_and_drop`, `retransmit`, `update_max_data`, `stop`, `shutdown`, `reset` | acks, losses and probe copies of the same bytes in any order; chunks split under the send position |
| Stream map | `quiche/src/stream/mod.rs` | streams, queues of flushable, readable, writable, almost full, blocked, reset and stopped streams | insertion and removal, `collect` | membership inferred from derived state |
| Connection | `quiche/src/lib.rs` | paths, packet number spaces, streams, limits, timers | `recv`, `send`, `stream_*`, `close`, `on_timeout` | everything above is driven from here |
| Ranges | `quiche/src/ranges.rs` | disjoint sorted ranges, bounded | `insert`, `remove_until` | merging, capacity |
| Loss recovery | `quiche/src/recovery/` | sent packets, lost frames, timers | `on_packet_sent`, `on_ack_received`, `on_loss_detection_timeout` | spurious losses, probes |
| Congestion control | `quiche/src/recovery/` | windows, rates | CUBIC, Reno, BBR, BBR2 | real-valued control laws |
| Connection IDs | `quiche/src/cid.rs` | source and destination IDs, retirement queue | issue, retire | sequence numbers out of order, limits |
| Paths | `quiche/src/path.rs`, `pmtud.rs` | path states, challenges, probe sizes | validation, migration, MTU search | lost challenges, two peers migrating |
| Datagrams | `quiche/src/dgram.rs` | two bounded FIFOs | push, pop, purge | queue at its limit |
| HTTP/3 | `quiche/src/h3/` | per-stream frame state, QPACK, critical streams | `poll`, `send_*` | frames in the wrong order |
| C++ engine | `quiche/engine/src/` | thread, libev loop and watchers, command queue, flags | `start`, `write`, `read`, `shutdown`, destructor, three callbacks | unsynchronised flags, wakeups, join |
| tokio-quiche | `tokio-quiche/src/` | connection workers, router map | accept, route, close | task interleavings |
| Task kill switch | `task-killswitch/src/` | set of abort handles | spawn, activate | spawn racing activation |
| Frames and packets, TLS, C bindings, buffer pool, sockets, qlog, h3i, applications, fuzzing | various | - | - | not modelled, see section 8 |

How they interact. The connection decodes packets into frames and calls the
stream buffers; recovery reports frames acked and lost, which the connection
hands back to the streams; the stream map's queues tell `send_single` what to
put into a packet. The engine owns one client connection. Only its loop thread
touches the connection; the application's threads push commands on a locked
queue and wake the loop through libev.

Correctness, component by component. The receive buffer delivers every byte
once, in order, in the version that arrived first, reports the end only at the
end, and neither exceeds nor starves its credit. The send buffer forgets no
byte until it is acked, stays within the peer's limit, tells one final size and
is discarded only when it is done. The engine frees nothing that its loop still
uses, loses no wakeup, reports its events in order and lets `shutdown` return.

Two ends that follow this code never close the connection on each other over a
limit, a final size or a connection ID; every byte charged to the connection
window is accounted for, and all that is written arrives. An application that
waits to write is woken. Every path sends with a connection ID that routes,
there is one path to send on, a validated migration is reported, and the
connection is given up only when no path is left. Recovery counts exactly what
is outstanding, forgets no frame, and has its timer running while it must.
HTTP/3 reports every event of a request, once and in order.

The hazards (40 of them, each at its line) are listed in `PROJECT.json` with
the properties that cover them, or with the reason why none does.

## 2. Modules

| Module | Models | Composes |
|---|---|---|
| `RecvBuf` | receive half of a stream with its flow controller and the MAX_STREAM_DATA handling of `lib.rs` | - |
| `SendQueue` | abstract specification: what the send half promises | - |
| `SendBuf` | send half of a stream with the code of `lib.rs` that drives it | implements `SendQueue` |
| `Streams` | MAX_DATA, MAX_STREAMS and the life of streams between two ends | writer, network and reader |
| `Writable` | the three windows in front of a writing application, and how it is woken | `stream_send`, the writable set, the limit handlers |
| `Cids` | connection IDs from their issuer to their user and back | issuer, network and user |
| `Paths` | path validation and migration at a client or a server | paths with the stock of connection IDs |
| `Recovery` | loss detection, loss timer and the handshake's packet number spaces | `LegacyRecovery` with the handshake of `lib.rs` |
| `H3` | the receiving side of an HTTP/3 server | QUIC streams, HTTP/3 streams, application |
| `Engine` | the engine's control, writer and loop threads | the connection as seen from the engine |
| `MC*` | instances for TLC | |
| `*Proofs` | theorems of `RecvBuf`, `SendQueue`, `SendBuf`, `Engine`, `Writable`, `Paths`, `Recovery`, `Streams` | |

Operators whose comment begins "Faulty variant" are not used by the
specifications: each is a plausible bug in the definition that follows it, and
shows that a property can fail.

### RecvBuf

`data` is the `BTreeMap` of chunks, keyed by end offset; a chunk is
`[off, end, ver]`, where `ver` stands for the payload of the frame it came
from. `write` has two nested loops, and the model takes a step per turn:
`WriteStart` (checks, final size), `WritePop` (trim below the read offset),
`ScanChunk` (overlap with one stored chunk: contained, start overlaps, end
overlaps and the rest is queued), `ScanEnd`, `WriteInsert`, `WriteDone`;
`WriteRejected` and `WriteIgnored` are the early returns. While `pc # "idle"`
nothing else starts, as the buffer is borrowed mutably. `emit` is `EmitStart`,
`EmitChunk`, `EmitEnd`, with the `insert_almost_full` of `stream_recv` in the
last. `Reset`, `ResetRejected` and `Shutdown` are the methods of those names,
`SendMaxStreamData` and `LostMaxStreamData` the packet writer's loop over
`almost_full` and the handler of a lost MAX_STREAM_DATA. After a connection
error no frame is processed any more, but the application can still read.

`first`, `out` and `told` are history: what arrived first, what was delivered,
what was reported.

### SendBuf and SendQueue

A buffer is `[off, cur, end]`: `RangeBuf`'s bytes, of which `cur .. end-1` are
still to be sent. `StreamSend` is `stream_do_send` over `write` (input cut
into `SendBufferSize` pieces) or `append_buf` (one piece). `StreamFrame` is
the STREAM part of `send_single` with `emit`; `SkipStream` is its path on which
the stream leaves the queue without a frame; `ResetFrame` sends the entry of
`StreamMap::reset`. `AckStream`, `AckCollected`, `AckReset`, `RecvFin` are the
handlers of acks and of the end of the receive half, each with its test for
`collect`. `DeclareLost` and `Probe` are what recovery does to a frame in
flight, `HandleLost` is the lost-frame handler with `retransmit`, `LostReset`
that of RESET_STREAM. `MaxStreamData`, `StopSending`, `ShutdownWrite` are the
remaining operations.

Frames in flight are a bag, since two copies of a frame can be in flight;
`lost` is a set, since a copy handled twice in a row has no further effect.
Acked ranges are a set of offsets plus one flag for the empty range `0..0`,
which decides whether an empty stream is complete.

`SendQueue` knows only which bytes are acked, waiting, in flight or lost, and
which final sizes were told. `SendBuf!LedgerSpec` states the refinement:
`pend` is the set of bytes of the buffers from `pos` on that are to be sent.

### Streams

Two ends and unidirectional streams from one to the other. `snd` is the
writer: `tx_data`, the peer's limits, and of each stream what was written, sent
and acked. `rcv` is the reader: `rx_data`, the connection's flow controller and
the stream limits, and of each stream what arrived and was read. `StreamSend`,
`StreamShutdownWrite`, `StreamRecv` and `StreamShutdownRead` are the calls of
the two applications; `SendStream`, `SendReset`, `SendMaxData`,
`SendMaxStreams` and `SendStopSending` are the parts of `send_single` that
write these frames, with their guards; `Recv*` are the handlers of
`process_frame`; `Acked` and `Lost` are what recovery reports, and `Requeue` is
what the connection does about a lost frame, which for RESET_STREAM of a
collected stream, MAX_STREAMS and STOP_SENDING is nothing. `Collect` is
`StreamMap::collect` with the credit it returns.

The connection's window starts at `InitWindow`, capped by
`DEFAULT_CONNECTION_WINDOW`, and `SendMaxData` may double it first
(`Autotuned`): whether the last update was less than two round trips ago is
left open. The assumption that `max_connection_window` is not below the first
window is needed, see section 7.

A frame carries one unit of data. The stream's own windows never bind, and the
congestion window leaves any of `Cwnds`. Bidirectional streams follow the same
code with both halves; their `is_complete` is the conjunction of the two, and
that part of `collect` is in `SendBuf`.

### Writable

`stream_send` takes what the congestion window, the connection's window and
the stream's window allow, and the application then waits for
`stream_writable_next`. `StreamSend`, `SendBlocked` and `SendStopped` are the
outcomes of `stream_do_send`; `Relist` is its decision to keep the stream in
the writable set; `StreamWritable` sets the low watermark; the other actions
are `stream_writable_next`, `stream_shutdown`, and the handlers of MAX_DATA,
MAX_STREAM_DATA and STOP_SENDING, each followed by `update_tx_cap` as `recv`
does. Of `max_tx_data` and `tx_data` only the difference is kept. Which of the
streams that qualify is named first (priority) is left open.

### Cids

`scids`, `retire_prior_to` and `adv` are the issuer's, `dcids`, `largest_rpt`,
`retire` and `path` the user's. `NewScid` is `new_scid` with
`retire_if_needed`; `SendNewConnectionId` and `SendRetireConnectionId` are the
parts of `send_single`; `RecvNewConnectionId` is the frame's handler with
`new_dcid`, its retirements and the reassignment of the paths;
`RecvRetireConnectionId` is `retire_scid`. `CreatePath`, `ValidatePath` and
`Migrate` move paths from one ID to another, `RetireDcid` is the application's
call. `PartitionPoints` gives every answer that Rust's `partition_point` may
return, since `dcids` is in the order of arrival and not sorted by sequence
number; the history variable `misplaced` notes that `new_dcid` searched entries
of which those to retire did not come first (`Partitioned`). Packets overtake
each other and may be lost for good. With `Spurious` a packet that is declared
lost may also arrive, before or after; none arrives twice, because packet
numbers are checked.

### Paths

`paths` is the slab of `PathMap`. `RecvOther`, `RecvPathChallenge`,
`RecvPathResponse` and `RecvNewConnectionId` are a received packet with the
frame of that name, from `get_or_create_recv_path_id` to the end of
`recv_single`, where paths without a connection ID get one and a server follows
a peer that moved (`Finish`). `SendProbe` and `SendOther` are what
`get_send_path_id` and `send_on_path` do, with the bytes a server may send to an
unverified address: `Probed` if a challenge fits, `NotProbed` if the ACK or the
header that go first leave no room for it. `OnTimeout` takes the expiry of any
set of loss timers and then looks for another path (`TakeCandidate`).
`ProbePath`, `Migrate` and `RetireDcid` are the application's calls.

The peer and the application do anything the code accepts: packets arrive on
failed paths, either end probes and migrates to them, and a DCID may be taken
from the active path. The history variable `limbo` notes that a step left a
path with its `active` flag set that `active()` denies, because it has failed
or has no DCID; `OneActive`, `MigrationReported` and `ClosedWhenStuck` speak of
connections where this has not happened, since the code then has no active path
and takes whichever comes next (section 7).

A server's budget is one of four levels: less than `MIN_PROBING_SIZE`; enough
for that test and too little for a packet with header, PATH_CHALLENGE and tag;
too little for a full-size challenge; or enough. Whether a lost challenge counts
as a further timeout depends on the time since the last one and is left open.
The configuration is the default: `disable_dcid_reuse` is false.

### Recovery

`epochs` is the state of the three packet number spaces, `bif`, `timer`,
`pto_count` and `pkt_thresh` that of `LegacyRecovery`. `SendPacket` is
`on_packet_sent`, `RecvAck` is the ACK handler with `on_ack_received`,
`OnTimeout` is `on_loss_detection_timeout`, `PathChange` is what
`set_active_path` does to the path that was active. `HandshakeKeys`,
`RecvHandshake`, `Complete` and `RecvHandshakeDone` follow the handshake, and
drop keys and recovery state where `lib.rs` does. A packet is of one of five
kinds: with data, a PING, an ACK alone, an ACK padded to be in flight, an MTU
probe. `EarlierOf` compares as Rust compares
`Option<Instant>`: `None` is smaller than any time. A set of sent packets is a
sequence, as packets leave the queue only at its front.

Time is in ticks and the round-trip estimate is fixed, so loss delay and probe
timeout are constants. An ack-eliciting packet has size 1. `made` and `done`
are history: the items sent, and those acknowledged; `passed` notes that the
timer was last set while `pto_time_and_space` got no time from the application
space although packets of it were in flight.

### H3

A client's stream is a fixed sequence of units (type, length and payload of one
frame after the other), and it arrives in pieces of any size, so that the parser
is interrupted in every state. `tr` is the receive side of the QUIC streams,
`h3` is `h3::Connection`, `app` what the application was told. `TryFill` is
`try_fill_buffer`, `Loop` and `Round` are `process_readable_stream`,
`ProcessFrame`, `ProcessFinished` and `ProcessControl` the functions of those
names, `Poll` is `poll`, over the readable streams in every order, and `Body` is
`recv_body`. These work on `w`, the connection with its transport, and return it
with a result, because one call of `poll` does several of them in sequence.
`AppSend` is the response with its clean-up. `app.empty` is history: the streams
on which `recv_body` read nothing at a DATA frame without payload. A
variable-length integer takes one unit, QPACK is not modelled, and a send that
is blocked has changed nothing. `MAX_STATE_BUF_SIZE` is the constant `MaxState`.

### Engine

`ctl`, `wr` and `thr` are the places of three threads. Each read or write of
`mIsRunning`, `mLoop` and libev's `loop_done` by a thread that does not own it
is a step. `Shutdown`, `ShutdownWake`, `ShutdownBreak`, `ShutdownJoin` are the
four parts of `shutdown`; `Destroy`, `DestroyWake`, `DestroyJoin`,
`DestroyFree` those of the destructor; `Write`, `WriteWake` those of `write`.
The loop thread is `ev_run`: `Boot` (which forgets an earlier `ev_break`),
`Iterate` (the tests of `loop_done`), `PollReturns`, the three callbacks and
one step per command of `processCommands`. `FlushEgress` is the part shared by
all callbacks.

libev is vendored (`quiche/engine/deps/libev/ev.c`, built by
`quiche/src/build.rs` without `NDEBUG`) and modelled from there: `ev_break` sets
`loop_done` and wakes nobody; `ev_run` clears it when it starts and, because the
two assertions around `backend_poll` (ev.c 4156-4158) assign it for their side
effect, also at the end of every poll, so that an `ev_break` of another thread
that falls into a poll is forgotten; `ev_async_send` sets a flag and wakes the
poll, `pipecb` clears the flag before it queues the callback. Callbacks run in
the order async, timer, socket (`pipe_w` has the highest priority, events of one
priority are invoked last queued first), and `flushEgress`'s `ev_timer_stop`
drops a timer event that is still pending (`Restart`). Were libev built with
`NDEBUG`, the break would be kept, and the loop would end sooner.

Abstractions, beside payload: `flushEgress` fails to send only on a connection
that has already processed a packet; the flush after CLOSE produces its packet;
the expiry of a draining connection's timer closes it; the application does
not call `write` during or after the destructor, nor `shutdown` from a
callback; `read` and the per-stream read buffers are left out.

### What the environments are assumed to do

Some constants say how far the other parties behave. Each run uses the value
below; with the other value the property named does not hold of the code, which
section 7 explains.

| Constant | Value | Excludes |
|---|---|---|
| `Cids!Settled` | TRUE | an issuer that replaces IDs while an earlier NEW_CONNECTION_ID is unacknowledged |
| `Cids!Spurious` | FALSE | a packet that is declared lost and arrives all the same, before or after |
| `Streams!CapFactor` | 1 | a `tx_cap_factor` above 1 |
| `H3!ReadsOn` | FALSE | an application that reads on after Reset |
| `H3!LateReset` | FALSE | RESET_STREAM after a FIN that arrived |

## 3. Runs

| Run | Bounds | States | Shows |
|---|---|---|---|
| `recvbuf` | 5 offsets, 2 payload versions, initial limit 3, windows 2 to 4 | 148 015 | bytes are delivered once, in order, as they first arrived; one final size; credit is replenished |
| `sendqueue` | 2 offsets, 2 frames in flight, 1 lost | 11 996 | the ledger loses no byte and tells one final size |
| `sendbuf` | 3 offsets, limit 2 growing to 3, 2 in flight, 1 lost, buffers of 2 | 303 560 | the buffer's structure, the flushable queue, collection, and the refinement of `SendQueue` |
| `sendbuf_live` | 2 offsets, buffers of 1 | 48 595 | every byte written is acked or the stream is reset |
| `streams` | 3 streams of 2, 1 and 1 units, an initial credit of 2 units, windows of 3 to 4, 1 stream at a time, 1 shutdown, 1 loss | 630 753 | no connection error, exact accounting of credit, the limit on open streams, delivery |
| `writable` | 2 streams, one incremental, 4 bytes each, windows of 3, congestion window 0 or 2 | 53 607 | no wakeup is lost and all is written |
| `cids` | limit 3, sequence numbers to 4, 6 packets, 2 paths | 1 904 767 | routable paths and no ID forgotten; no connection error and no ID kept too long unless `partition_point` was misapplied |
| `paths` | 2 four-tuples, 2 paths, 1 spare ID, 1 timeout | 379 488 | one active path, migrations reported, validation goes on until it succeeds or fails, given up only when stuck |
| `recovery` | 3 packets of any kind but MTU probes, early data, time to 2, packet threshold 2 to 3, 3 probe timeouts in a row | 1 122 426 | exact accounting, nothing forgotten, the timer armed unless application packets were passed over |
| `h3` | six clients: an upload in two DATA frames with trailers and a priority update; an empty DATA frame between two others; one before a DATA frame of two units; a QPACK and a reserved stream; two requests; a frame above `MAX_STATE_BUF_SIZE` | 418 467 | events complete, once and in order; critical streams |
| `h3_reset` | the same | - | finding 1 |
| `engine` | 2 starts, 2 writes | 220 406 | no use after free, no lost wakeup, order of events, joins return |

Why the bounds are enough. Five offsets let a frame overlap two stored chunks
with a gap between them and reach past both, which is the largest number of
cases the scan of `write` tells apart; two payload versions suffice to see a
byte change. Windows of 2 to 4 let autotuning double once and meet its cap.
Three offsets with buffers of two give a full and a partial chunk, a split
inside a chunk, a retransmission that ends inside one, and a limit that blocks
in the middle of a write; two frames in flight give an ack of an earlier copy
after a probe and acks in the wrong order. A credit of two units and one stream
at a time make every limit block; the third stream exists only if the second
returned its credit, and a second MAX_DATA, whose window may have doubled,
follows the loss of the first. Windows that are not multiples of each other let
each of the three bind first. Five connection IDs under a limit of three let the
issuer replace two, with the frames of either in the wrong order, so that the
second meets a table that the first left unsorted; six packets let
NEW_CONNECTION_ID and RETIRE_CONNECTION_ID frames cross. Two four-tuples and two
paths let the peer move away and back while the other path is new, under
validation or failed; that a third address makes a new path replace an unused
one is checked by hand (`MCPathsThree.cfg`, up to the first path in limbo, 4 022
724 states in about a quarter of an hour). A loss that does not count stands for
the first of two counted timeouts. Three packets reach the packet threshold of
two, and are what it takes to pass over one space while another has data in
flight; three probe timeouts in a row give two probes and a further one; MTU
probes are left to the proofs, which hold for every kind; two ticks let a packet
be sent, declared lost, acked late and forgotten. Two starts let commands and
flags of the first connection reach the second one; two writes let one command
be pushed while the other is being processed.

Bounds on otherwise unbounded state are `MaxOff`, `MaxFlight`, `MaxLost`,
`MaxShutdowns`, `MaxSeq`, `MaxSent`, `MaxSpare`, `MaxTime`, `MaxPn`, `MaxPto`,
`MaxStarts` and `MaxWrites`.

Symmetry: the payload versions of `RecvBuf`, whose run checks invariants and
action properties only (and, by hand, the four-tuples of `Paths` other than the
first).

Deadlock is checked for `SendQueue` and `Writable`. A stream that is finished
or discarded, a connection that is closed, an engine that is destroyed and a
bound that is reached really stop.

## 4. Fairness

`SendBuf!FairSpec` (run `sendbuf_live`) assumes what the callers provide. The
application calls `send()` as long as there is something to send, and
`send_single` handles lost frames before it builds a packet; recovery's timers
make sure that a packet in flight is acked or declared lost; and the network
does not for ever lose every frame whose ack would be news. Sending and the ack
are strongly fair since probes and losses can disable both again and again.
Nothing is assumed of the application's writes, of the peer's limits, of
collection or of resets.

`Streams!Fairness` (run `streams`) is weak: the applications write and read
when they can, the ends send what they have, and what is not lost arrives. No
fairness is assumed of shutdowns, losses or acks. `Delivered` speaks of
behaviours without a shutdown and without a lost credit frame; data may be
lost.

`Writable!Fairness` (run `writable`) assumes that the application writes and
polls, that the peer reads and raises its limits, and that the congestion
window reopens now and then. The application's part is strongly fair, as other
packets narrow the window again and again between two calls.

`Engine!FairSpec` (run `engine`) assumes that threads are scheduled, that a poll
which begins after the async watcher was sent to returns with it, and that the
timer of a draining or closed connection expires: `flushEgress` re-arms the
draining timer with the time left, so its deadline is never put off and strong
fairness is justified although other events keep waking the loop. Nothing is
assumed of the timer of an open connection, whose deadline moves with every
packet.

## 5. Proofs

All theorems are checked by TLAPS with its SMT, Zenon and LS4 backends.

**RecvBuf** (`RecvBufProofs`). Assumptions: `MaxOff` is a natural number,
`NoVer` is not a version, the window and the initial limit are at least 2, and
at least one of them is within the configured maximum. `BufferSafe`,
`DeliverySafe`, `CreditSafe` and `FinalSizeSafe` prove every property that the
run `recvbuf` checks, the type invariant, and that credit never runs ahead of
the window. The properties speak of the idle buffer; in the middle of `write`
bytes are in fragments that are neither stored nor read, so none of them is
inductive. `IInv` says what holds there: `PendingInv` (every fragment lies
within the limits that were checked when the frame arrived), `ScanInv` (the
current fragment is disjoint from every chunk the scan has passed, and from all
of them once it is to be inserted), `VersionInv` (a stored byte is the first
version; a fragment's byte that is not stored yet is the first version too),
`CoverageInv` (what arrived and is unread is stored or in a fragment), `FinInv`
(the final size is the length or the end of a fragment), `CreditInv`, and the
modes of `pc`. The heart of the argument is `ScanChunk`: splitting a fragment at
a stored chunk keeps it covered by the chunk, the head and the queued tail.

**SendQueue** (`SendQueueProofs`). Assumptions: `MaxOff` is a natural number and
the initial limit lies within it. `LedgerSafe` and `FinalSizeSafe` prove the
ledger's properties. The strengthening is `PendInv` (bytes written and never
sent are waiting; nothing beyond what was written is) and `FinInv` (a final
size is the end of what was written; after a reset it is what was sent).

**Engine** (`EngineProofs`). For any number of starts and writes, `ThreadsSafe`
proves `NoUseAfterFree`, `RunningWhileLooping` and `NoLostWakeup`. The
strengthening relates the threads: while the loop thread is live the control
thread has not forgotten it, `mIsRunning` is set and the loop exists; the
destructor reaches the free only when the thread has ended or was never
started; and whenever commands of the current start are queued and the loop is
between its callbacks, a wakeup is set, or pending, or owed by the thread that
pushed. `EventsSafe` proves `ConnectedFirst` and `StopsAfterClosed`: once
anything was reported, `mIsConnected` is set or the connection is over and never
was established, so that CONNECTED cannot follow; and once CONNECTION_CLOSED was
reported, `ev_break` stays in force until the loop tests it.

**Writable** (`WritableProofs`). Assumptions: windows and congestion windows are
natural numbers. `WakeupSafe` proves `NoLostWakeup` together with
`WithinWindows` (no stream and not the connection overruns a window), which
makes the invariant inductive: a write that fills a stream's window leaves it
with no room, so the stream that `stream_do_send` unlists is not writable.

**Paths** (`PathsProofs`). `PathsSafe` proves the four invariants of the run
`paths`, for any four-tuples, number of paths, spare IDs and probing timeouts,
and whatever the peer, the network and the application do. The invariant has
two parts. `AllFine` holds always: the types, and that a path under validation
has a challenge in flight or one to send, which is `ValidationGoesOn`. `Sane`
holds as long as no path was in limbo and the connection is not closed: exactly
one path is active and `is_active` accepts it, and a server has reported its
active path or will when the path is validated. A path becomes active only
through `SetActive`, which clears the others; the steps are proved on the slab
as a function, so that a received packet, which touches several paths one after
the other, is the composition of lemmas about its parts.

**Recovery** (`RecoveryProofs`). `RecoverySafe` proves `InFlightCounted` and
`NothingForgotten` without hypotheses beyond the ranges of the constants. The
invariant: the state has its types; each counter is the cardinality of the set
of outstanding packets; nothing was sent in a space before its keys arrived; and
every item sent in a live space is done, queued or carried by an outstanding
packet. Each operation marks, drains or appends packets, and a
lemma for each says which outstanding packets and which items it takes away;
`Drain` cuts the sequence at the front, so its lemma maps indices.
`TimerSafe` proves `TimerArmed` for every kind of packet, early data included.
Its invariant `TInv` says in addition that a space with packets in flight has
the time of its last ack-eliciting packet, which in the application space holds
only when one of them elicits an ACK (`Watchable`), and that the timer is off
only when it was last set passing over application packets, when nothing is in
flight and the address is verified, or when nothing was ever sent (`Ringing`).
What `passed` excepts is what the code gets wrong; section 7 shows it.

**SendBuf** (`SendBufProofs`). `Implements` proves `LedgerSpec`, the refinement
of `SendQueue`, and `BufferSafe` proves `Contiguous` and `CollectedDelivered`,
for any stream length, initial limit, `SendBufferSize` and number of frames in
flight or lost, assuming only that these are natural numbers, that the initial
limit lies within `MaxOff` and that `SendBufferSize` is not 0. The invariant
`SInv` is the ledger's own invariant, read through the refinement mapping, and
`OwnInv`: the buffers form a `Chain` (none is empty, each ends where the next
begins, the last at `off`); before `pos` everything was sent (`SentBefore`); and
the bytes that are not acked are held (`BufInv`). The second part makes
`Pending`, which the mapping takes from `pos` on, equal to what all buffers have
to send, so that moving `pos` forgets nothing; the third makes it possible to
send a lost byte again. `ResetInv` says that every RESET_STREAM queued or in
flight carries the ledger's final size, `CollectInv` that a collected stream
stays complete, so that acks and losses which no longer find it change nothing
the ledger counts. Chains are closed under concatenation, prefixes and suffixes
(`ChainConcat`, `ChainPrefix`, `ChainSuffix`); with these, `write` (`CutChain`),
`ack_and_drop` (`DroppedFacts`) and `retransmit` (`RetransmittedFacts`, whose
split case is prefix, two halves, suffix) are each one lemma about a sequence.
There is one lemma for each action, which shows the ledger's step and `OwnInv'`;
the ledger's part of the invariant then follows from `SendQueueProofs`,
instantiated with the mapping. `LedgerSafe` carries the ledger's properties over
to the buffers.

`CountersSafe` proves `TypeOK`, with the bounds of `pos`, and `LenCovers`: `len`
is never less than the number of bytes to be sent, although `ack_and_drop` does
not lower it, so `self.len -= buf_len` cannot underflow. `QueuedSafe` proves
`QueuedIfFlushable` under the hypothesis `WideHeader = FALSE`; `MCSendBufWide`
in section 7 shows the stream that is lost from the queue otherwise. Its one
interesting step is an ack, which may take bytes from a queued stream and must
not make an unqueued one flushable (`FewerToSend`).

**Streams** (`StreamsProofs`). `StreamsSafe` proves `NoConnectionError`,
`CreditAccounted` and `LiveWithinLimit` for any streams, lengths, limits,
congestion windows and number of losses and shutdowns, when `tx_cap_factor` is
1, the default; section 7 says what a larger factor does. None of the three is
inductive, since whether a frame is refused depends on both ends and on what is
between them. `Sound` relates them: each half of a stream is consistent
(`WriterOK`, `ReaderOK`); the reader has received no more than the writer sent,
and a final size that it knows is what the writer sent (`Agree`); every frame on
its way, or arrived and unacknowledged, still says what its sender would say
(`FrameOK`), so a late or repeated one changes nothing; the limits are
ordered, what was opened within the writer's limit, that within the reader's
`max_streams`, that within `max_streams_next`, which is the initial limit and
one for each stream collected (`LimitsOK`); and each end's counter is the sum
over its streams of what was written, received or not yet read (`SumsOK`).
Sums are cardinalities of sets of pairs (`Total`), so that the effect of one
stream's step on a sum follows from the theorems on finite sets and needs no
induction. A frame that would be refused contradicts the chain: received within
sent, sent within written, written within `max_tx_data`, and that within the
reader's `max_data`.

## 6. What is only model-checked

Liveness (`AllDelivered`, `Delivered`, `AllWritten`, `JoinReturns`), since the
prover has no ENABLED. All of `Cids` and `H3`. `Cids` gives DCIDs to paths by a
fold over a sequence (`AssignDcids`), and what a fold computes needs induction.
`H3` is written with recursive operators, because `poll` and `recv_body` are
loops that end in one call. Facts by induction over sequences, and anything
recursive, are beyond the installed provers.

## 7. Findings and observations

Finding 1 (run `h3_reset`). A RESET_STREAM that arrives while the parser of a
request waits in the middle of a body is reported as Data; the same call of
`poll` finds the stream finished and queues it (`mod.rs:2047`), and the next one
tells the application Finished for a request that was cut off. The comment in
`poll` says that a reset returns early to avoid a Finished event.

More configurations show a disagreement between the code and something the
repository says of it. They are run by hand, as `tlc -config X.cfg M`, and TLC
reports the property named as violated:

| Configuration | Module | Property | What happens |
|---|---|---|---|
| `MCRecvBufReset.cfg` | `MCRecvBuf` | `ResetNotified` | a RESET_STREAM that arrives when the final size is known discards the buffered data, but the empty buffer meant to wake the application is not stored: the application is not told |
| `MCSendBufFin.cfg` | `MCSendBuf` | `FinSentBeforeCollected` | an empty write with fin, made after all data was sent, lets the ack of that data complete and discard the stream before the FIN was sent |
| `MCSendBufWide.cfg` | `MCSendBuf` | `QueuedIfFlushable` | a stream whose frame header exceeds `MAX_STREAM_OVERHEAD` can leave the flushable queue with data to send, and nothing inserts it again |
| `MCStreamsLoss.cfg` | `MCStreams` | `LimitResent` | a lost MAX_DATA sets `almost_full`, "Whether we send MAX_DATA frame" (`lib.rs:1541`), but the writer also asks whether an update is due (`lib.rs:4526`), which it is not until more is read: the writer stays blocked |
| `MCWritableAsk.cfg` | `MCWritable` | `ReportedAtCapacity` | `stream_writable(len)` says the stream is reported once its capacity reaches `len`; `is_writable` asks for more than `len` |
| `MCRecoveryLoss.cfg` | `MCRecovery` | `LossTimeWatched` | the loss time of the Initial or Handshake space is overlooked when a later space has none, as `None` is less than any time (`recovery.rs:418`); the timer is then set to the probe timeout |
| `MCRecoveryPadded.cfg` | `MCRecovery` | `TimerAlwaysArmed` | a padded ACK in flight in the application space, before anything there elicits an ACK, makes `pto_time_and_space` answer `None` (`recovery.rs:463`): data then sent in the Handshake space goes out with the timer off |
| `MCCidsOrder.cfg` | `MCCids` | `ReplacementFits` | "to avoid exceeding the capacity [...] we first remove the elements and then insert the new one" (`cid.rs:504`), but `partition_point` finds nothing to remove in a table that is not sorted: the peer closes the connection on a legal replacement |
| `MCPathsProbe.cfg` | `MCPaths` | `SendNotBlocked` | a path whose budget is between `MIN_PROBING_SIZE` and a packet with PATH_CHALLENGE, or that a server was asked to probe with none, is chosen by `get_send_path_id` and nothing is sent on any path; the comment at `path.rs:505` has the validation fail when "requesting a challenge is not possible" |
| `MCPathsStall.cfg` | `MCPaths` | `NotStalled` | `retire_dcid` takes the active path's only ID when another path is usable and moves to none; its documentation (`lib.rs:6777`) says it "prevents the caller from stalling the connection" |
| `MCH3Empty.cfg` | `MCH3` | `NothingUnread` | `recv_body` returns Done at a DATA frame without payload though more is readable behind it, and the Data event is not armed again; its documentation (`mod.rs:1754`) says Done means there is no data to read |
| `MCEngineWrite.cfg` | `MCEngine` | `WritesKept` | the engine drops what `stream_send` does not take, after `write` has returned its length: in particular everything written before the handshake |
| `MCEngineClose.cfg` | `MCEngine` | `ShutdownCloses` | `shutdown` can stop the loop before the loop has executed CLOSE |
| `MCEngineDtor.cfg` | `MCEngine` | `DestructorReturns` | the destructor of an engine whose connection ended by itself does not join its thread, and destroying a joinable `std::thread` terminates the process |

Seen while modelling, with no line of the repository that says otherwise:

- Streams. With `tx_cap_factor` 2 the writer can exceed the peer's MAX_DATA
  (`lib.rs:8261`). RESET_STREAM of a collected stream, MAX_STREAMS and
  STOP_SENDING are not sent again when lost. RESET_STREAM and
  `stream_shutdown(Read)` drop unread bytes without returning them to the
  connection's window; `CreditAccounted` says which. A peer's unidirectional
  stream shut down for reading may never be collected. With `initial_max_data`
  1 no update is ever due. With `max_connection_window` below the first window
  `autotune_window` shrinks it: MAX_DATA then goes back, and the reader closes
  the connection over data within the limit it had told before.
- Writing. A stream stopped by the peer, unlisted, and written to while `tx_cap`
  is 0 gets Done and is not reported; `stream_writable_next` names no stopped
  stream while `tx_cap` is 0.
- Connection IDs. Replacing IDs before the peer acknowledged the earlier ones
  makes it close the connection (`Settled`). A RETIRE_CONNECTION_ID repeated
  after a spurious loss does too (`Spurious`). A `new_scid` that fails has
  already raised `retire_prior_to`. A late copy of NEW_CONNECTION_ID adds an ID
  that was retired. `partition_point` is applied to IDs that are not sorted: when
  NEW_CONNECTION_ID 2 overtakes 1 the table is 0, 2, 1; a replacement with
  Retire Prior To 1 makes it 2, 1, 3; for the next one, with Retire Prior To 2,
  `partition_point` may answer 0, and the full table closes the connection
  although each of the issuer's steps waited for the acks. With room left, an ID
  below Retire Prior To is kept instead. A
  NEW_CONNECTION_ID queued again after its ID was retired makes `send` fail.
  `retire_dcid` with a full retirement set leaves the path with the ID.
  `scids_left` can underflow (`lib.rs:6761`).
- Paths. A packet on a failed path, or a migration to one, sets its `active`
  flag although `active()` denies it (`limbo`): no path is active, the next
  packet closes the connection or activates a second path. A path that
  failed, was probed again and failed again is reported once. A server asked
  to probe a path it may not send on sends nothing on any path; so does one whose
  budget passes the test for 25 bytes and is too small for the packet. A
  server's path with less than 25 bytes of budget fails with its first lost challenge.
- Recovery. With only early application data in flight the timer is left in the
  past, and `on_timeout` fires again and again until `2_u32.pow` overflows
  (`recovery.rs:430`); such a sequence is cut by `MaxPto`. `largest_acked` of `None` counts as 0.
- HTTP/3. Finished is reported twice when an empty FIN is pending and the end of the
  response drops the stream. With `ReadsOn` Finished follows Reset; with
  `LateReset` a reset after a FIN is not reported. Entries of finished streams
  stay in `streams`. A FIN in the middle of a frame is reported as Finished.
- Engine. CONNECTED and CONNECTION_CLOSED are reported with a null engine
  pointer; CONNECTION_CLOSED is reported twice when the timer and the socket
  are ready in one iteration. A restart runs the commands left over from the
  previous connection, and `mIsConnected` is not reset, so CONNECTED is not
  reported again. A connection without a timeout leaves the old timer armed.
  `shutdown` called from the event callback would join its own thread; the API
  document's error handling example does it.
- `insert_reset` replaces an entry still to be sent (only the code differs, the
  final size is the same), and `stream_shutdown(Write)` leaves the stream in the
  flushable queue, so that an empty FIN frame can follow its RESET_STREAM.

## 8. Not modelled

- Congestion control, pacing and the gcongestion recovery (control laws over
  real time and real numbers), and MTU discovery.
- The wire encoding of frames and packets, QPACK and Huffman coding, TLS and
  packet protection, key updates, version negotiation and retry: functions of
  bytes and cryptographic state, not protocols between actors.
- Closing and draining, beyond what the engine sees of them; the idle timer.
- Datagrams: two bounded queues behind one owner.
- The representation of ranges; `SendBuf` uses the sets they stand for.
- Stream priorities and the queues of blocked streams.
- Of HTTP/3: the client role, push, sending GOAWAY and priority updates, grease
  and the contents of SETTINGS.
- Of the engine: its read path and read buffers.
- The C bindings (one call each), tokio-quiche (its behaviour is that of tokio's
  channels and tasks, which are not in the repository), the kill switch (its
  races are settled under one lock of a shard), buffer pool and sockets,
  logging, the applications, test tools and fuzzers.

## 9. Plan

Done: the modules of section 2, and the proofs of section 5. What remains is
`Cids`: `RetiredGone`, `Routable` and `NothingForgotten`, which first need
`AssignDcids` stated without a fold (a client has few paths, so one case for
each would do).
