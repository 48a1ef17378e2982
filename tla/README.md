# A TLA+ development of mirror's ingestion path

mirror is a video ingestion server written in Go. Senders push streams over SRT
(MPEG-TS) or RTP; the server accepts and registers them, takes the transport
apart, assembles frames, puts them in order, groups them into GOPs, sheds load
under pressure and queues what is left. This directory models the parts of that
path whose correctness depends on interleavings, on the order of events, on
limits and on modular arithmetic. TLC checks every model on small instances;
TLAPS proves the central invariants for all values of the constants.

Paths below are relative to `src/internal/ingestion` unless they say otherwise.

## 1. Inventory

### 1.1 Components, their state and operations

| Component | Source | State | Operations | What makes it correct |
|---|---|---|---|---|
| Hybrid frame queue | `src/internal/queue/hybrid_queue.go` | a channel, an append-only overflow file with read offset, `depth`, `memCount`, `diskBytes`, `closed` | Enqueue, Dequeue, DequeueTimeout, TryDequeue, disk pump, Close | every accepted message comes out once, in order within its lane; counters that steer pump and consumers do not drift; nothing is stranded |
| Ring, sized buffer, pool | `buffer/*.go` | cyclic array, positions, condition variables; map and free list | Write, Read, ReadTimeout, GetPreview, Close; Get, Put, Remove | bytes come out once and in order; a sleeping reader is woken; no buffer serves two streams |
| SRT listener, connection | `srt/*.go` | limiter counts, connections map, close-once | handshake callback, acceptLoop, handleConnection, Close | slots balance; one sender per stream ID |
| Stream registry | `registry/*.go` | a Redis key per stream with a TTL, an "active" set | Register, Unregister, Update, UpdateStatus | an entry exists exactly for streams that are served |
| Ingestion manager | `manager.go` | handler map, per-stream operation locks | HandleSRTConnection, HandleRTPSession, Terminate/Pause/ResumeStream, Stop | clean-up hits the right handler; API calls and shutdown end; pause flag and registry agree |
| Stream handler | `stream_handler.go` | context, frame path, pressure, session parameter cache | Start, Stop, processFrames, monitors, iframe request | what is shed is shed with its dependents; what is answered can be decoded |
| Memory controller | `memory/*.go` | a global counter and one per stream, no common lock | RequestMemory, ReleaseMemory, ResetStreamUsage, eviction | the two levels agree and stay within budget |
| GOP detector and buffer | `gop/*.go` | current GOP; list of GOPs, frame index, byte count, parameter context | ProcessFrame, AddGOP, tiered drops, limits | what is kept is decodable; the index points at the right frame |
| SRT time stamps | `srt_connection_adapter.go` | last PTS, wrap count, PCR, B-frame detection | processTSPacket | 33-bit stamps become a monotone 64-bit time line |
| A/V sync, time-stamp mapper | `sync/*.go`, `timestamp/mapper.go` | track base and wraps, drift window, audio offset; last RTP stamp | ProcessTimestamp, measureSync, correction, ToPTS | each frame is placed where its source meant it; corrections help |
| B-frame reorderer | `frame/bframe_reorderer.go` | a heap by DTS, last output | AddFrame, Flush | bounded delay, nothing lost, decode order |
| Video pipeline, assembler, detectors | `pipeline/`, `frame/*.go` | three goroutines, two channels, a frame in assembly | Start, Stop, AddPacket, DetectBoundaries | nothing lost while running; a shutdown ends; a frame is a picture |
| RTP listener and sessions | `rtp/listener.go`, `rtp_connection_adapter.go` | session table, slots, bandwidth shares | routePackets, clean-up ticker, TerminateStream, Stop | every share has one owner; Stop frees all |
| RTP receive path | `rtp/{validator,session,jitter_buffer,packet_loss_tracker}.go` | last sequence, jitter heap and duplicate filter, loss ranges | ValidatePacket, ProcessPacket, Add, Get, ProcessSequence | packets are played once, in order and in time; loss is counted exactly |
| RTP codec detection | `rtp/{session,diagnostics}.go` | detection state under a mutex and a condition variable | ProcessPacket, SetSDP, timers, GetDiagnostics | one detection at a time, codec set once, everyone woken |
| Depacketizers | `codec/*_depacketizer.go` | fragment under reassembly | Depacketize, Reset | a unit is emitted whole or not at all |
| MPEG-TS parser, validators | `mpegts/`, `validation/` | partial packet, PIDs of the program, PES buffers, continuity counters | ProcessWithAlignment, ParseWithExtractor | alignment survives cuts and loss; bounded assemblies, one program, loss noticed |
| Parameter sets | `types/*.go` | SPS/PPS tables by ID and age, versions, migrations, encoder session, cache | AddSPS, AddPPS, copies, eviction, CreateVersion, Rollback, StartMigration, Get, Put | the sets handed out belong together; history and cache are exact; no call waits for ever |
| Bit streams | `types/{rbsp,h264_parser}.go` | none | escaping, exponential Golomb codes | what is written is what is read |
| Backpressure | `backpressure/controller.go` | pressure history, rate, flag, bandwidth limit | UpdatePressure, adjustRate, ShouldDropGOP | it settles when the queue does |
| Recovery | `recovery/*.go` | state, waits for a keyframe, circuit breaker | HandleError, UpdateKeyframe, recover, checkHealth | a recovery is watched and ends; one at a time |
| Reconnect | `reconnect/reconnect.go` | running, stop channel, retry count | Start, Stop, loop | Stop ends the loop |
| Codec detector, integrity, monitoring, HTTP, configuration, logging, metrics | see PROJECT.json | none that steers a stream | scores, formatting, I/O | not modelled |

### 1.2 Interactions

The SRT listener calls `Manager.HandleSRTConnection` in the connection's
goroutine; the RTP listener calls `HandleRTPSession` in one it starts for the
session. The manager registers the stream, creates a stream handler under
`handlersMu` and starts it in another goroutine; the handler owns the
connection adapter (reader goroutine), the video pipeline (three goroutines),
the GOP detector and buffer, the frame queue, the recovery handler and the
backpressure monitor. The HTTP API works on the same maps by stream ID. The
memory controller is called from all streams at once. RTP packets pass
validator, session and jitter buffer in the listener's goroutine and leave the
jitter buffer in another one, through the depacketizer, to the adapter.

What makes this hard: maps keyed by stream ID and used by goroutines of
different generations of a stream; several locks (`m.mu`, `handlersMu`, the
operation lock, `codecStateMu`, `s.mu`, the contexts' read-write locks) and calls
or callbacks made with one of them held; counters updated in a step after the
channel or counter they describe; bounded channels between goroutines that are
all being stopped; a disk file that survives the process; lost, repeated and
reordered packets; 16-, 32- and 33-bit numbers that wrap. PROJECT.json lists
these as hazards, at the lines where they bite.

## 2. Modules

| Module | Models | Granularity |
|---|---|---|
| `HybridQueue` | the frame queue over one overflow file, across re-creations | one step per channel operation, counter update or `diskMu` section |
| `ByteFIFO` | *abstract*: a FIFO of bytes with room for so many | |
| `RingBuffers` | ring and sized buffer; implements `ByteFIFO` | one step per section of `mu`, and the look at `closed` before it |
| `BufferPool` | the pool of ring buffers | one step per map or channel operation |
| `StreamLifecycle` | listener, limiter, connection, registry, handler map, API calls, shutdown | one step per lock section and per Redis round trip |
| `RTPSessions` | the RTP session table, its two limiters and four parties | one step per section of `l.mu` or of a limiter |
| `MemoryController` | controller and eviction | one step per atomic operation |
| `GOPBuffer`, `FrameGate` | the buffer as operators on a record (each public method holds its mutex); detector, frame path and shedding that drive it | one step per frame, drop or repair |
| `SRTTimestamps` | time stamps of one SRT connection | one step per TS packet |
| `AVSync` | both tracks, drift and its correction; the RTP mapper | one step per frame or packet |
| `BFrameReorderer` | AddFrame and Flush | one step per emitted frame, inside a `pc` that nothing interrupts |
| `VideoPipeline` | assembler, three goroutines, Stop | one step per channel operation or timer |
| `FrameDetectors` | RTP adapter, boundary detectors of four codecs, what the assembler makes of them | one step per packet |
| `RTPReceive` | validator, session counters, jitter buffer, loss tracker | one step per packet and per round of Get's loop |
| `CodecDetection` | the detection state machine and its two locks | one step per lock section |
| `Reassembly` | *abstract*: what a reassembler promises | |
| `Depacketizer` | four depacketizers behind a lossy network; implements `Reassembly` | one step per packet |
| `Alignment` | the alignment validator between SRT messages and the parser | one step per message, delivered or dropped |
| `TSParser` | transport-stream parser with the continuity and PES validators | one step per transport packet |
| `ParameterSets` | the contexts of session and GOP buffer, eviction, the iframe request | one step per keyframe, tick or half of a request |
| `ParameterVersions` | versions, rollback, migrations | one step per section of `vm.mu` or `mm.mu` |
| `EncoderSessions` | encoder session and LRU cache with expiry | one step per call |
| `ParameterLocks` | the locks of contexts, versions and migrations | one step per lock operation |
| `Bitstream` | escaping and exponential Golomb codes as operators | |
| `FlowControl` | backpressure controller and the handler's use of it | one step per section of a lock or callback |
| `RecoveryHandler`, `SmartRecovery` | the recovery handler with the handler's callbacks; the mutex and strategies of the smart one | one step per state change, callback or lock |
| `StreamRecovery` | per-stream recovery, circuit breaker, health check | one step per atomic operation |
| `Reconnect` | the reconnect manager | one step per look, attempt or wait |
| `MCBuffers`, `MCIngest`, `MCControl`, `MCServices`, `MCTimeline`, `MCPackets` | the instances TLC runs | |
| `Lanes` | operators on sequences that several modules use: the members that lie in a set, in order; the sum | |
| `HybridQueueProofs` | theorems of the module of that name | |
| `RTPProofs` | theorems of `RTPSessions`, `Depacketizer` and `FrameDetectors` | |
| `BuffersProofs` | theorems of `BufferPool`, `RingBuffers` and `FrameGate` | |
| `IngestProofs` | theorems of `MemoryController` and `StreamLifecycle` | |
| `TimelineProofs` | theorems of `SRTTimestamps`, `BFrameReorderer` and `AVSync` | |
| `ServicesProofs` | theorems of `CodecDetection` and `VideoPipeline` | |
| `PacketsProofs` | theorems of `RTPReceive`, `ParameterVersions`, `TSParser` with `Alignment`, `EncoderSessions` and `ParameterSets` | |
| `CommonLemmas` | what they share: induction, remainders, lanes and sums of sequences | |

Each variable names the Go field it stands for in a comment at its declaration,
and PROJECT.json's `map` gives the lines every definition translates. Variables
marked *history* or *ghost* record what a property needs and guard nothing.
`VideoPipeline` uses the reorderer at the level `TimelineProofs`
establishes: it hands frames on in the order they came and keeps fewer than
`Depth` of them. `FrameGate` drives `GOPBuffer`, and `FrameDetectors` takes over
where `VideoPipeline` treats a frame boundary as an input.

**Composition.** An `MC` module joins modules whose code shares no memory: its
variable `subject` names the one that moves, the others stay as they were
created, and the fairness of each is guarded by its being the subject. Every
behaviour of the composition is thus a behaviour of one component, and all of
them occur; because the components have no variable in common, a property of one
holds in all interleavings if it holds in these. Where components do share state
they share a module: listener, registry and manager; controller, monitor and
throttle; contexts of session and buffer; adapter, detector and assembler.

**Refinement.** `RingBuffers!BuffersAreFIFO` shows that either buffer implements
`ByteFIFO` under the mapping that reads the cells between the two positions.
`Depacketizer!Reassembles` shows that the four depacketizers implement
`Reassembly`: what they hand on are units of the sender, whole and in order
within themselves (JPEG XS may cut a beginning). Both are proved as well
(section 4).

Data abstractions: a message, packet or frame is a number or a small record; a
disk record is one length word and some data words (so that a reader that stands
on the wrong word misreads it, as in the code); payload bytes are pairs of unit
and part; a NAL unit is the kind its header names; times are small integers;
sizes are units; moduli (`Wrap`, `WrapAt`, `SeqModulus`, `SeqSpace`, `TsMod`,
`RTPModulus`, `CounterSpace`) are constants, small in the instances and arbitrary
in the proofs. Definitions whose comment calls them a mutant are
deliberately wrong variants; they show that a property notices the mistake
(`mutants` in PROJECT.json).

## 3. What TLC checks

Every run is exhaustive for its instance. `buffers` checks for deadlock of the
queue; the other instances say `CHECK_DEADLOCK FALSE` because their inputs are
bounded and the system then has nothing left to do (that calls return is stated
as liveness).

| Run | Instances | What it shows |
|---|---|---|
| `buffers` | queue: one producer, one consumer, four messages of one or two words, a channel of one, disk faults, two queues over one file. Rings: three bytes, reads of one and two, six bytes written. Pool: two streams, three buffers, two places | `CountersExact`: depth and memCount account for every message up to updates under way. `LaneOrder`, `BoundariesSurviveRestart`: neither lane loses, repeats or reorders, and records are read back within their boundaries after a restart. `ClosedMeansDrained`. `EventuallyDelivered`: what was accepted is delivered unless the queue is closed or its disk fails. `RingsServe`: FIFO, preview, Close wakes the reader. `NoBufferShared` |
| `ingest` | three connections on two stream IDs, one termination, limits of two, failures, shutdown, keys left by a crash. Six frames of four types, five pressures, three GOPs of three units and two ticks. Memory: two callers, two streams, sizes 1 and 2 | `LimiterExact`, `OneOwner`: slots balance on every path, one sender per ID is served although check and store are separate, a clean-up by stream ID hits its own handler. `BufferExact`, `StaysDecodable`: index, counts and limits match the content, what is left of a GOP can be decoded. `MemoryExact`: no byte is lost between the counters until an eviction empties one under a rollback |
| `control` | one connection with Terminate, Pause and Resume, hang-up, expiry, write failures, shutdown. Two RTP sources, two sessions, one share of bandwidth. Two contexts and callers. Smart recovery with two actors. Three starts of the reconnect manager | `RegistryAgrees`; `SlotsExact`: no slot or share is given back twice or left without an owner. `OpsReturn`, `StopFreesAll`, `EveryCallReturns`, `SmartReturns`, `StopEndsLoop`: every call, shutdown, recovery and loop ends |
| `services` | detection: two packet goroutines, one SDP, one observer, three codecs of which one has no depacketizer, both time limits. Pipeline: three packets of all kinds, channels of one. Flow: three pressures, rates 10 to 40. Recovery: two reporters, two errors. Health: two reporters, three errors, two tries | `DetectionSound`, `CodecStable`, `CallsReturn`; `FramesFlow`, `ShutdownEnds`; `FlowSettles`: the rate climbs back when the queue stays calm and GOPs are shed when it stays full; `RecoveryRuns`: a recovery is watched and ends; `StreamRecovers`: one recovery at a time, and it ends |
| `timeline` | SRT: a period of 8, steps up to 3, two wraps. Reorderer: depth 4, nine ticks, near and far frames. Tracks: clocks of 3 and 2 ticks, a period of 64, steps back, jumps and wraps. Mapper: a period of 16, three wraps | `PtsExact`, `DecodeStamps`; `ReorderExact`: a conforming stream passes whole, in decode order, with bounded delay; `ClocksExact`: both clocks agree with the source's media time |
| `packets` | RTP: five packets across both wraps, delays up to 5, two duplicates, a buffer of three. TS: six packets, two programs, a counter of three. Alignment: packets of four bytes, messages of 1 to 9, 32 bytes from any start, two messages dropped, payload bytes that look like a sync byte. Depacketizers: seven packets of five units, four codecs, lost, repeated, reordered. Pictures: two of each kind, three sources. Sets: three keyframes, two SPS, one PPS. Versions: three, two migrations. Cache of two. Bits: payloads up to five bytes, codes of four bits | `SeenExact`, `ReceiveExact`; `DemuxSound`: bounded assemblies, one program, loss noticed, and a cut of the stream that is exact until a message is dropped and exact again one message later; `Depacketizes`: the refinement, and that nothing is missing without loss; `FramesArePictures`; `ParametersSound`; `VersionsExact`; `CacheExact`; `BitsRoundTrip` |
| `sl_hangup` | one connection, hang-up | **violated**: a lost peer never frees its stream ID |
| `mem_double` | two goroutines, three requests | **violated**: a byte is subtracted twice |
| `param_locks` | two callers, with CanDecodeFrame among the methods | **violated**: a reader that reads again behind a waiting writer |
| `smart_locked` | a keyframe in the GOP buffer | **violated**: HandleError waits for its own mutex |
| `drift_sign` | the tracks of `timeline` | **violated**: the correction enlarges the drift |
| `pictures_cut` | transport packets of one picture | **violated**: a picture is finished in its first packet |

`EveryCallReturns` passes in `control` for the methods other than CanDecodeFrame
and Rollback, `SmartReturns` when no keyframe is found in the GOP buffer; the two
violations are what these exclusions stand for.

**Bounds.** Each is named in its module. They are chosen so that the critical
situation occurs, usually with a step to spare: a channel of one overflows with
two messages and four let memory and disk lanes interleave twice; two lives make
a reader meet a file it did not write; three connections give a duplicate and an
unrelated stream competing for the last slot; two sources under one key admit a
session while the goroutine of the previous one still cleans up; a period of 8
with steps of 3 puts packets on both sides of every half-period boundary, and two
epochs show that a wrap is neither forgotten nor counted twice; five RTP packets
starting two below `SeqModulus` and two below `TsMod` cross both wraps, a delay
of five exceeds the late limit, the reorder window and the validator's gap; a
ring of three wraps twice in six bytes; two migrations overlap, and three
versions exceed the two that are kept; a payload of five bytes holds two
escapes. The bandwidth limit of the RTP listener binds before its slots, as in
the code (20 shares, 100 slots). A property is stated as narrowly as the code
allows: where an earlier, wider form failed, the condition it needs is written
into it and the failure is listed in section 6.

**Symmetry** is used in `ingest`, which has no temporal property, for the two
senders of one stream and for callers and streams of the memory controller.

**Fairness.** Weak fairness on goroutines that are inside a call (the Go scheduler
runs whatever is runnable, and a mutex is handed over in the end), on the pump, on
tickers and on timers a goroutine waits for, and on the goroutines of a shutdown.
Nothing is assumed of senders, of API callers, of the consumer of the pipeline, of
keyframes, of a reconnect attempt's success or of the network, and `ShutdownEnds`
of the pipeline does not use Stop's own timeouts. In the queue the consumers keep
calling, and a receive that is possible again and again is taken (strong
fairness): Go's `select` chooses uniformly among ready cases.

## 4. What is proved

The theorems hold for every value of the constants: any number of goroutines,
streams, messages and packets, every capacity, period and limit.

| Theorem | States | Argument |
|---|---|---|
| `HybridQueueProofs!TypeCorrect` | `TypeOK` | one lemma per group of variables |
| `MemCountExact`, `DepthCorrect`, together `BothCountersExact` | `CountersExact` | inductive with `TypeOK`: each action moves one goroutine between "owes" and "owes not" (`CountMove`) and changes channel, file or counter by the same amount |
| `ClosedIsDrained` | `ClosedMeansDrained` | from `DepthCorrect`: a depth of zero bounds what waits by the enqueues in flight |
| `BoundariesKept` | `BoundariesSurviveRestart` | `FileInv`: until a write fails the file is a sequence of whole records of offered messages (`Framed`), and the reader stands on a boundary; appending keeps both (`AppendKeepsFrames`, `AppendKeepsBoundary`), a read at a boundary consumes exactly one record (`ReadRecord`), and a new queue starts at word 0 |
| `LanesInOrder` | `LaneOrder` | `LaneInv` = `FileInv`, `OnceOK` (a message in a producer's hands is in no other place), `LogOK` (offsets at which the records of the log lie; the reader stands at the first it has not read), and the equalities of the lanes; `LaneAppend` and `LaneSame` say what an append and a new record on disk do to a lane |
| `IngestProofs!StreamHasOneOwner` | `OneOwner` | `OwnerInv`: `handlersMu` is held from the start of a removal to its end (`LockOK`), an entry of the handler map belongs to a connection of its stream that has not removed it yet (`MapOK`), a connection's clean-up works on its own handler (`OwnOK`), and while the manager runs whoever is past its handler's end has been closed, or is about to be by the call that holds the lock (`CloseOK`) |
| `SlotsAreExact` | `LimiterExact` | the limiter's counts, in all and per stream, are the cardinalities of the sets of connections at points where they hold a slot (`SlotsOK`); each action moves one connection in or out |
| `RegistryIsTrue` | `RegistryAgrees`, without leftovers of a crashed process | `RegistryInv`: for the only sender of an ID, no record before it registers (`NotYet`), none after it unregistered (`GoneOK`), and the record's status is the connection's but for the one call between its two halves (`StatusOK`), which holds the operation lock (`MutexOK`) |
| `RTPProofs!SlotsAreOwned` | `SlotsExact` | `SessInv`: the sessions charged are those under admission or with a goroutine at work (`FreshOK`, `HandOK`), bandwidth is allocated to exactly these but one in between (`AllocOK`), and a table entry leads to a session that still has its goroutine (`TableOK`) |
| `Depacketizers_Sound` | `Depacketizes` (the refinement of `Reassembly`, and `CleanIsComplete`) | `DepInv`: the fragments held are the beginning of the unit of the packet whose number `lastSeq` is (`FragsOK`; for JPEG XS the last parts of its frame so far, `FrameOK`). A part that is not the first continues the packet right before it (`WellSent`, `Before`), and numbers tell packets apart (`SeqnoSame`, `SeqnoNext`), so a complete unit is a whole one. `InLine` adds what the first n packets leave behind, and what was handed on and what waits together are `Done(n)` |
| `Frames_Sound` | `FramesArePictures` | `DetInv`: between packets of two pictures stands one that begins with a delimiter, in the channel and on either side of it (`Lined`), and all packets of a picture are of one kind, key or not (`Keyed`). Every detector starts a frame at a delimiter, whatever state it is in (`ScanStarts`, by induction over the units of the packet; `BeginsStarts`), so a packet that is added to a frame is of its picture. The type of a frame is found among its units, of which those of the first packet are a part (`ParsedUnits`, `FrameKey`) |
| `BuffersProofs!PoolSharesNothing` | `NoBufferShared` | inductive with the pool's shape: buffers are numbered as they are made, and a step moves one number between free list, map and the hands of a caller |
| `RingsRefineFIFO` | `BuffersAreFIFO` (the refinement of `ByteFIFO`, safety) | `RingInv`: the cells between the positions hold the unread bytes in order (`CellsOK`), at most `RingSize` of them; every step is a step of the FIFO or a stutter under the mapping that reads them |
| `PreviewsAreNewest` | `PreviewIsNewest` | the two copied pieces are the end of the unread cells |
| `Gate_BufferExact` | `BufferExact` | `GateInv` = `Detecting` (frame IDs grow, and no two GOPs share one), `Buffering` and `Shedding`. `Buffering` compares the buffer with the GOPs as they were closed: the ones held are the newest, each holds a part of its frames in order with the counts of that part, the index names exactly the frames held (`Kept`), the limits hold as the buffer counts (`Limited`), and until a drop has rewritten a size the byte count is the sum (`Strict`). Kept and given-up frames add up (`LaneLenSplit`); each loop of a drop or a limit is an induction over its rounds |
| `Gate_StaysDecodable` | `StaysDecodable` | from the same invariant: `Kept` also says that every reference of a P or B frame that is left is left, which `dropPFrames` keeps because nothing refers to a P frame once the B frames behind it are gone, and a cut keeps because references point back; a P frame is shed only above pressure 70 (`Shedding`), where its dependents are shed too |
| `IngestProofs!MemoryStaysExact` | `MemoryExact` | `MemInv`: global usage is the sum of the streams' counters and of what calls in flight have moved and not yet moved back; a change of one summand changes the sum by as much (`FlightSum`, `AdmittedSum`) |
| `TimelineProofs!UnwrapExact` | `PtsExact`, one presentation delay | `wrapCount` is the epoch of the last PTS relative to the first; a step below half a period is a wrap exactly when the raw value falls by more than half |
| `DecodeExact` | `DecodeStamps`, one presentation delay | `StampInv`: with `UnwrapExact`'s invariant, the last PTS the detection saw is no later than the last one unwrapped, as long as no stamp was estimated (`DetectOK`), so the next one never looks like a step back; the DTS takes the wrap count of the PTS, hence the period it is late between the two wraps |
| `DelayBounded` | `Bounded` | buffer below `Depth` when idle, at most one more inside a call |
| `ConformingKept`, `ConformingInOrder`, together with `DelayBounded` `ConformingReordered` | `ReorderExact` when stamps start above zero and do not wrap (`PlainTime`) | invariant `Order`: arrival number and DTS grow together, everything buffered is later than everything emitted |
| `ClocksStayExact` | `ClocksExact` for every time base, field width and pattern of wraps, jumps, B-frames and resets; the mapper for stamps that rise by less than half their field | invariant `Placed`: the last PTS is the media time modulo the field and the wraps since the base make up the difference; `ModStep`: a step below half the field shows as itself or with one modulus more or less |
| `ServicesProofs!DetectsAlone`, `DetectedIsReady`, together `DetectsSoundly` | `DetectionSound` | `IInv`: who holds `codecStateMu`, where it may hold it, and that the state is "detecting" exactly between the decision and its publication; "detected" implies a codec |
| `CodecSetOnce`, `MismatchIsReal` | `CodecStable`, `MismatchTruthful` | from `IInv`: "unknown" and a detector at "install" imply that no codec is set |
| `FramesAlwaysFlow` | `FramesFlow` | `PipeInv`: the frames in flight form a line from the output back to the assembler, along which numbers rise but for metadata that passes held-back video (`OrderOK`); none is missing until the context is cancelled (`NoLossWhileRunning`); from then on Stop closes a channel only behind the goroutines it waited for (`StopOK`) |
| `PacketsProofs!FilterExact` | `SeenExact` | inductive as it stands, with the buffer's type; cardinalities by the finite-set theorems |
| `VersionsStayExact` | `VersionsExact` | `VerInv`: the versions stored run up to the current one, which is among them, and the last rollback's target holds what was put back (`StoredOK`); a migration nobody cancelled is in the history once when done and never before (`RecordedOK`); the counters are the numbers of those that ended either way (`SortedOK`) |
| `Alignment_Sound`, with it `Demux_Sound` | `AlignmentSound`, `DemuxSound` | `AlignInv`: what is kept back ends with consecutive bytes up to where the stream stands, and only as many others as messages were dropped (`Tail1`); until one is, the bytes handed on and the rest are one stretch of the stream cut at a packet boundary (`Seam`). The parser: an assembly exists only under the validator's (`AssemblyInv`), both PIDs are from one map (`ProgramInv`), a PID's counter is that of the last packet received (`CounterInv`) |
| `Cache_Exact` | `CacheExact` | `EncInv`: the eviction list is the lane of the cached keys in the order of their last use, without repetition and within the capacity; moving a key to the front, evicting the last and expiring some keep that |
| `Parameters_Sound` | `ParametersSound` | `ParamInv`: in both contexts the list by age holds what is stored, once each, and no more than is counted (`ContextOK`); a copy adds sets one by one, and the answer to a request is built from one look |

Assumptions are those of the modules' `ASSUME`s: finite sets of goroutines,
positive capacities, `MaxStep` below half a period, frames of a track less than
half a PTS field apart and a field of more than twenty seconds, frame sizes that
are natural numbers and pressures from 0 to 100, and a sender that packetizes
correctly (`WellSent`: a unit is sent in one packet or in parts that follow each
other). `PictureAssumption` describes the encoder: a picture begins with a
delimiter, its slices are all key slices or none is, and parameter sets come with
key pictures only (without the first the detectors of slices cannot tell pictures
apart, and the SRT adapter flags any picture with an SPS as a keyframe,
`srt_connection_adapter.go:717`); TLC checks that the lists of the runs are such.
Some theorems assume more, each because the code does not keep the property without it:
`UnwrapExact` and `DecodeExact` one presentation delay (`OneDelay`: without
B-frames; otherwise a step back across the wrap counts as a further wrap),
`Conforming*` stamps that do not wrap (`PlainTime`), and `RegistryIsTrue` that no
key was left by a crashed process.

**Induction.** The provers cannot instantiate an induction theorem with a
predicate, but they can take a *set*. `LeastExists` (from `WFMin`, a set of
naturals has a least member) gives `SetInduction`: a set of numbers that contains 0
and is closed under +1 contains all of them; `SubsetInduction` is the same for the
subsets of a finite set and `SeqInduction` for sequences that grow at the end. With
the set of the numbers, subsets or sequences for which a claim holds this is
ordinary induction. It carries the facts about sums over streams and goroutines,
about lanes, about the loops of the GOP buffer, about a detector's scan of a packet
(`ScanExists`, `ScanStarts`) and about what `FlattenSeq` computes (`FlattenIs`). For the same reason the
operators these proofs are about are recursive functions (`Lane`, `SumOf`,
`Scanned`, the rounds of `dropBFrames`) and not `SelectSeq` or `FoldLeft`; that such a function is
what its equation says is proved first, by induction over the length
(`LaneIs`, `SumOfIs`).

`MismatchTruthful` is proved only: it needs no instance of its own.

**Only model-checked:**
- all liveness properties (fairness and ENABLED are out of the provers' reach),
  and with them the part of `RingsServe` that says that Close wakes the reader;
- `RTPReceive!ReceiveExact`: holds for delays and gaps that stand in a certain
  relation to the number spaces, which the instance has and which would have to be
  stated first; `SeenExact`, which needs none, is proved;
- the round trips of `Bitstream`, which uses RECURSIVE operators.

## 5. Not modelled, and why

The codec detector scores byte patterns; the field layouts of SPS, PPS, VPS and
sequence headers, LEB128 and the resolution detector are straight-line
conversions of byte strings. Scores, statistics, alerts, the adaptive quality
control and the jitter estimate are floating-point heuristics nothing else
depends on. The verdict of the PTS/DTS validator is ignored (`parser.go:134`);
the fragment validator has no caller.
HTTP, configuration, logging and metrics are I/O; the operations of the API that
change state are actions where they act. The SRT library and Redis are external;
their calls appear as steps of `StreamLifecycle`. Code that only tests call
(`Connection.ReadLoop`, `DTSCalculator`, `SetJitterBufferParams`, `SetAudioOffset`,
the prober, the fallback strategies, `backpressure_integration.go`) is left out, and so are
the depacketizer variants with a memory controller: the session passes none.
`SetSDP` and `GetDiagnostics` are modelled because they are the session's public
interface. The reconnect manager, the smart and the per-stream recovery, the ring
and sized buffers and the pool are not wired into the server yet; they are
modelled at their public interface, with callers that use it as its tests do.

## 6. Observations

Six disagreements between the code and its own comments or documents have a run
and an entry in `findings`. The following came up while the properties were
being stated; each explains a condition in a property, a bound or a property that
is missing. Line numbers refer to the modelled commit.

*Queue.* A new message takes the channel while older ones wait on disk, so order
holds per lane only (`hybrid_queue.go:125`). A queue over an old file subtracts
the old records from a `diskBytes` that starts at zero and then does not see its
own (`:73`). After Close, Dequeue loops when the pump was stopped with a record
left (`:167`).

*Life cycle.* The loser of a duplicate handshake unregisters the winner's stream
ID (`srt/listener.go:277`, `srt/connection.go:109`). Nothing renews the registry
TTL of an SRT stream (`redis_registry.go:28`). `StreamHandler.Stop` does nothing
before Start has run, so a shutdown or a termination in between leaves a
connection or a handler behind (`stream_handler.go:647`, `manager.go:735`). The
rollback of Resume acts on whatever connection has the stream ID by then
(`manager.go:555`). A termination that closes a reconnecting sender before its
Register leaves an entry until the TTL. With two senders of one ID and two
overlapping TerminateStream calls a registry entry can also stay behind.
`RegistryAgrees` therefore speaks of streams with one sender (`OneSender`).

*RTP sessions.* The handler goroutine deletes the table entry by key and so may
remove that of a newer session (`rtp/listener.go:319`). TerminateStream releases
without marking the session; a second release finds nothing (`:522`). With a
handler installed nobody calls `session.Start` (`:351`), and a paused session does
not refresh `lastPacket`, so it times out. The adapter's Close closes the channel
its NAL callback sends to before the session has stopped.

*RTP adapter, detectors.* The depacketizer has already put a start code in front
of a unit, so `analyzeNALUnit` reads its zero as a header, and an AV1 OBU behind
one looks reserved and is dropped. Trailing slices of HEVC are dropped or glued to
the next picture. `isKeyframe` of the SRT adapter calls a packet with an SPS a
keyframe; AV1's GetFrameType says "SPS" when a sequence header comes first.
JPEG XS hands on the end of a frame whose beginning was lost
(`jpegxs_depacketizer.go:87`).

*Transport stream.* A PES start while one is in progress is ignored by the
validator, and the payload of the start is not put in the buffer. A parameter set
that crosses packets is stored cut, or, after a loss the counter cannot show,
joined with what follows (`parser.go:922` says it is not). Fifteen lost packets
look like a duplicate; a duplicate is appended; an adaptation-only packet after a
loss counts the gap twice. A dropped message also costs the packets of the next
one when the cut is off, and while no sync byte is found the bytes kept back grow
with every drop (`alignment.go:84`).

*Parameter sets.* A set of an old GOP overwrites the session's newer one when the
GOP leaves the buffer (`gop/buffer.go:253`, `stream_handler.go:1178`). A frame that
CanDecodeFrame accepts with a fallback SPS makes GenerateDecodableStream use a
missing one (`parameter_context.go:650`). `totalSets` counts additions and is
halved, not what is stored (`stream_handler.go:1915`). The "latest iframe" is the
oldest decodable one of the last five (`stream_handler.go:1679`). IDs are bounded,
so the limits of a thousand sets are never met. AddVPS and AddHEVC* are not
counted; copies drop two fields; remapped sets are escaped twice. A rollback
stores its backup without the clean-up; StartMigration refuses only while one is
migrating, not while it is validating; a cancelled migration goes on and may end
as completed (`parameter_set_migration.go:155`). Session IDs are Unix seconds.

*Memory.* A request that loaded a counter before ResetStreamUsage charges a
counter nobody can release (`controller.go:110`).

*GOPs.* A GOP's size leaves out its keyframe (`gop/detector.go:51`), a drop counts
it in (`gop/buffer.go:502`); removing such a GOP takes `currentBytes` below the
sum. P frames are shed before it is known what depends on them
(`stream_handler.go:519`).

*Flow.* The end of a recovery clears the flag without restoring the bandwidth
limit, so a later release does not either (`stream_handler.go:619`); eighty
percent of an unlimited bandwidth is zero, which means unlimited; and the SRT
option set limits sending only.

*Recovery.* A wait left over from an earlier error is not cancelled when a later
one ends from the GOP buffer; its timeout then marks the stream as failed, and no
keyframe takes it out of that state. An error between the end of a recovery and
`recovering = false` is lost. A half-open probe whose compare-and-swap fails
leaves the breaker used until a health check resets it. `errorHistory` is never
trimmed.

*Time.* With B-frames, or audio behind video, a step back across the wrap is
counted as a further wrap (`srt_connection_adapter.go:553`). Estimates from the
PCR are not unwrapped (`:620`) and feed the B-frame detection (`:629`). A DTS of
zero counts as missing (`bframe_reorderer.go:153`), and the heap compares raw
stamps across a wrap (`:403`). SRT audio has a 90 kHz clock but its track is
initialised with 48 kHz. A packet reordered across the 32-bit wrap moves the
mapper by a whole period for good; `MapperExact` is checked without reordering.

*Pipeline.* During a shutdown processFrames may add a frame to a reorderer that
was already flushed, and both goroutines send at once, so that order holds until
the context is cancelled (`video_pipeline.go:387`).

*RTP.* A copy that arrives after the original was played is played again
(`jitter_buffer.go:186`) and may be counted as recovered twice
(`packet_loss_tracker.go:125`). A full buffer gives up its root even when the new
packet is older (`jitter_buffer.go:119`). `baseTS` never moves, so half a time
stamp range after the start packets count as late (`:166`). A gap above the
limit is refused for good (`validator.go:139`). The list of lost numbers fills up
and stays full (`packet_loss_tracker.go:185`).

*Detection.* GetDiagnostics takes `s.mu` and `codecStateMu` in the opposite order
to ProcessPacket (`diagnostics.go:95`, `session.go:633`). The timer of a waiting
packet wakes it before it marks itself as expired (`session.go:604`). A detection
that succeeds after the timeout leaves the session paused (`:645`).

*Reconnect.* Start right after Stop replaces the stop channel before the old loop
has read it; the old loop then goes on, and its deferred `running = false` marks
the new one as stopped. `StopEndsLoop` is checked with a Start only after the old
loop has ended (`RestartEarly`).

*Bits.* `WriteUE(2^32 - 1)` writes a single zero bit.

## 7. Plan

Done: everything of the inventory that steers a stream has a module. What would
add most next, in this order:

1. Theorems: the order part of `ReceiveExact` (`PlayedInOrder`) under stated
   relations between delay and number space.
2. An abstract slot table that the SRT and the RTP listener both implement, and
   an exactly-once channel of two lanes implemented by `HybridQueue`.
3. `Depacketizer` behind `RTPReceive` in one module, so that the jitter buffer's
   order, not the network's, feeds the reassembly.
4. The HEVC parameter tables, the fallback strategies and the prober, once
   something calls them.

## 8. Running

```
tlc -workers 2 -config MCBuffers.cfg MCBuffers
tlapm HybridQueueProofs.tla
```
PROJECT.json names module and configuration of every run. With two workers the
longest run takes about three minutes.
