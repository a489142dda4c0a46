# Specifications of kkLicode

kkLicode is a fork of Licode's media server library (`erizo/`) with a server
(`servererizo/`) that signals over KCP, a reliable protocol on UDP. This
directory holds TLA+ modules translated from the sources, TLC runs that check
them on small instances, and proofs that TLAPS checks for all instances.

## 1. The system

| component | state it keeps | operations | interacts with |
|---|---|---|---|
| KCP engine, `servererizo/KKkcp/ikcp.c` | per connection: `snd_queue`, `snd_buf`, `rcv_buf`, `rcv_queue`, `acklist`, the sequence numbers `snd_una`, `snd_nxt`, `rcv_nxt`, the windows, the probe timer, `cwnd` | `ikcp_send`, `ikcp_recv`, `ikcp_input`, `ikcp_update`/`ikcp_flush` | calls `kk_udp_output`; called by the manager below |
| Connection manager `CKKkcp`, `KKKcp.cpp`, `KKTwoKeyMap.h`, `defkkkcp.*` | `m_ConIPInfoMap` (peer -> `KcpInfo`, id -> `KcpInfo`), `m_CurConv`, `m_SendUdpQue`, `m_RecPacketQue` | API: `Connect`, `DisConnect`, `StablySend`, `Receive`; threads: `HandleCmd`, `HandleRecUdp`, `ConnMgrThread2` | UDP socket, KCP engine, relay |
| Relay server, `TranServer.cpp` | clients by address and by id, `m_IdSet` | give out ids, forward, heartbeat, expire | `CKKkcp` |
| `servermain.cpp`, `RtcConmgr` | map of WebRTC connections | add, look up | `WebRtcConnection` |
| `kkRes` | read-write lock, mutex, condition, sockets | wrappers | everything in `servererizo` |
| Threads, `erizo/.../thread` | `Scheduler` (task queue, condition variable), `Worker`, `ThreadPool`, `IOWorker` | schedule, stop, drain, cancel | all erizo components post tasks |
| `WebRtcConnection` | `global_state_`, transports, pipeline | create offer, set SDP, `updateState`, `close` | transports, scheduler, handlers |
| `DtlsTransport`, `IceConnection`, `LibNice`/`Nicer` | ICE state, DTLS state, SRTP, `Resender` | start, receive, notify | `WebRtcConnection` |
| RTP handlers, `erizo/.../rtp` | sequence number translation, packet queue, NACK list, retransmission buffer, mute, PLI pacing, quality layer, statistics | `read`, `write`, timers | pipeline |
| `Pipeline` | chain of handler contexts | add, remove, read, write | handlers |
| `OneToManyProcessor` | subscribers, the publisher, the feedback sink | add, substitute, remove, deliver, `closeAll` | workers of publisher and subscribers |
| `ExternalOutput`, `ExternalInput`, `OutputProcessor` | reordering queue, reader and encoder threads, fragments | record; read, encode, packetize | `OneToManyProcessor` |
| `SdpInfo` | codecs, payload type maps, candidates, ssrcs, directions | read, match, offer, answer | `WebRtcConnection`, handlers |
| statistics | counters, sliding windows | add, read | quality manager, retransmissions |

Threads meet in three places: the locks of `CKKkcp` (`m_ConIPInfoMap`'s
read-write lock, `m_KcpLock`, the queue locks), the queue of a `Scheduler`, and
the per-connection `Worker` to which erizo posts its tasks. Datagrams may be
lost, repeated and reordered between two `CKKkcp`, two relays, and the peers of
a transport.

What is hard here, with the property that looks after it, is the `hazards` list
of `PROJECT.json`. In short:

* **KCP**: late, repeated and lost datagrams with stale `una`, ACKs and windows;
  a full receive queue; a window that closes and whose reopening is lost;
  messages of several fragments. Correct means: the peer reads exactly the
  messages that were written, in order and whole; nothing is freed too early;
  nothing overruns a window; all of it arrives in the end.
* **Connection manager**: retried SYN and ACK that overlap their answers; ids
  that change during a handshake; two maps that must agree; one timer for
  several timeouts; entries freed under a late datagram; crashes and restarts.
* **Relay**: ids that are never given back; expiry only when idle; late answers
  that meet an entry of another time. An id must mean one client.
* **Threads of erizo**: stop and drain of the scheduler; calls across the IO
  worker that time out; a close that races the callbacks of an ICE library.
* **A connection**: two transports folded into one state; ICE, DTLS and resend
  timers against `close()`; packets under way in a pipeline that is changed or
  reset. READY must mean keys, and no packet may leave without them.
* **Descriptions**: payload types, rtx and ssrcs that several kinds of lines
  decide together, read in an order the peer chooses, more than once.
* **RTP**: numbers that wrap, skip and are inserted; late packets; layers
  switched by key frames; repeated requests for what is missing. A receiver must
  see one stream without gaps of erizo's making.
* **Recording and reading of files**: frames put together from packets that are
  lost or late; threads that start and end around a shared queue.

## 2. Modules

| module | models | sources |
|---|---|---|
| `Kcp` | two control blocks of `ikcp.c` and the network between them | `KKkcp/ikcp.c` |
| `ReliableStream` | what a KCP connection promises: written messages are read in order, whole, once | - |
| `KkConn` | endpoints of `CKKkcp`: handshake, heartbeat, disconnect, timeouts, the two-key map | `KKkcp/KKKcp.cpp`, `KKTwoKeyMap.h` |
| `Relay` | the relay server and the clients that connect through it | `TranServer.cpp`, `KKKcp.cpp` |
| `ThreadPool` | `Scheduler` with its service threads, `Worker`, `ThreadPool` | `thread/` |
| `Connection` | `WebRtcConnection`, its transports, ICE states, DTLS, resend timers | `WebRtcConnection.cpp`, `DtlsTransport.cpp`, `Transport.h` |
| `NicerIce` | a `NicerConnection` and its `IOWorker` | `NicerConnection.cpp`, `thread/IOWorker.cpp` |
| `LibNiceIce` | a `LibNiceConnection` and the thread of its main loop | `LibNiceConnection.cpp` |
| `Pipeline` | contexts, links, nested calls, close | `pipeline/` |
| `Sdp` | reading, matching, offering and answering descriptions | `SdpInfo.cpp`, `WebRtcConnection.cpp` |
| `OneToMany` | distribution to subscribers, feedback, `closeAll` | `OneToManyProcessor.cpp`, `media/SyntheticInput.cpp` |
| `Translator` | `SequenceNumberTranslator` as operators | `rtp/SequenceNumberTranslator.cpp` |
| `RtpDownstream` | the handlers on the way to a viewer | `rtp/` |
| `RtpUpstream` | the handlers on the way from a publisher | `rtp/` |
| `Recorder` | recording of packets with its two threads | `media/ExternalOutput.cpp`, `rtp/RtpPacketQueue.cpp` |
| `ExternalInput` | reading a file, encoding, packetizing | `media/ExternalInput.cpp`, `media/MediaProcessor.cpp`, `rtp/RtpVP8Fragmenter.cpp` |
| `Quality` | the choice of layers and padding | `rtp/QualityManager.cpp`, `LayerDetectorHandler.cpp` and others |
| `Feedback` | REMBs made and forwarded | `rtp/BandwidthEstimationHandler.cpp`, `rtp/RtcpForwarder.cpp` |
| `RateStat` | the sliding window of a rate | `stats/StatNode.cpp` |
| `Lists` | what a loop that erases or passes over elements leaves of a list | `pipeline/Pipeline.cpp`, `LibNiceConnection.cpp` |
| `Signalling` | `KkConn` and `Relay` side by side | `KKkcp/KKKcp.cpp`, `TranServer.cpp` |
| `Session` | `Connection`, `Pipeline`, `Sdp` and `OneToMany` side by side | `WebRtcConnection.cpp` |
| `Endpoints` | `NicerIce`, `LibNiceIce`, `ExternalInput` and `Quality` side by side | - |
| `KcpProof`, `ThreadPoolProof`, `OneToManyProof`, `PipelineProof` | theorems about the module of the name, with proofs | - |
| `KkConnProof`, `ConnectionProof`, `EndpointsProof` | theorems about `Signalling`, `Session` and `Endpoints` and their parts | - |
| `ListsProof` | induction over numbers and sequences, facts about `Only` and about sequences | - |
| `MC...` | values for TLC | - |

`RtpDownstream` and `RtpUpstream` are built on `Translator`, `Kcp` implements
`ReliableStream`. `Signalling`, `Session` and `Endpoints` compose components whose
threads run side by side: the whole has the variables of all its parts, which it
takes as instances, and a step of it is a step of one of them. They state the
properties of the parts under one name each (`Relayed`, `PipelineSound`, `Agreed`,
`Distributed`, `EndpointsSound`, `PaddingOff`), which the runs check and the theorems prove.

The parts share no variables there, so their interleavings say nothing that
the parts alone do not. For TLC an MC module picks one with the variable `part`
(`way` in `MCRtp`, `small` in `MCKcpOrder`), chosen at the start: the steps of a
behaviour are those of the part it names, and the other parts stay in one
initial state. A run of such a module is a run of each part. The
theorems are about the composition with all interleavings.

### Kcp

The variables carry the names of the fields of `IKCPCB`, as functions of the
peer. `snd_buf` and `rcv_buf` are functions from sequence number to segment
(the code keeps sorted lists without duplicates), `acklist` is a set. Actions:
`Send` is `ikcp_send`, `Recv` is `ikcp_recv` with the move loop and fast recover
at its end, `InputCtl` and `InputPush` are `ikcp_input` for a datagram of
control segments and of a data segment, `Update` is `ikcp_update` with
`ikcp_flush`. `Lose` and the duplication in `Take` are the network. Which
retransmission timers have expired at a flush, and whether the probe timer has,
is nondeterministic: every relation of clocks, round-trip times and timeouts is
covered. What the model leaves out: payload bytes, the clocks (`ikcp_check`,
`ikcp_update_ack`), stream mode (the program never sets `stream`), and the wrap
of 32-bit sequence numbers.
With `NoCwnd` the congestion window is left alone because the code then computes
it and never reads it. `xmit` stops counting at `DeadLink` and `fastack` at
`FastResend`, the values they are compared with.

`dead` records `state = -1`. No code of the repository reads it: a dead
link is noticed by the heartbeat of the connection manager only.

### KkConn

An endpoint is a `CKKkcp` object with its API and its three threads.
`info[n]` is `m_Map1` (the key is the peer), `key2[n]` is `m_Map2`; a pointer is
the peer and the value of `m_CurConv` when the object was made. `m_Map3`, which
remembers under which id an object was registered, is the field `k2`. One action
per API call, per thread step and per kind of datagram; the SYN handler is two
(`OnSyn`, `AcceptSyn`) because `m_CurConv` is assigned before the lock is taken.
`ConnMgr` is one iteration of the loop of `ConnMgrThread2`, with its tests in
the order of the code. `sendtick` and `rectick` are the ages `sendAge` and
`recAge`. A control block is its identity, and `heard` records which blocks of
the peer it took datagrams of. A failed `assert(0)` stops the process: the
makefiles do not define `NDEBUG`. A heartbeat that finds a pointer to a freed
object in `m_Map2` may do anything: it stops the process or does nothing.
API calls use the ids of objects that still exist.

Left out: raw UDP, the mtu of the handshake, the `UDPTranHeart` datagram of the
accepting side (its receiver ignores it). Connections through the relay are in `Relay`.

### Relay

`table` is `m_TranInfoMap` as the id each client is registered under, `fresh` the
clients whose `Tick` is recent, `taken` and `next` are `m_IdSet` and `m_Id`. A
client's entry for the server is its state `relay` with the attempts made, `own`
its `nTranId`; `links` are its entries through the server, of which the model
follows SYN and SYNACK, since the rest of a handshake is that of `KkConn`. `net`
is the set of all datagrams ever sent: any may arrive late, again or never. The
search for a free id in `GetTranId` does not end once all are taken; the server is
then `hung`. `holder` records who was given an id first.

* `IdsKept`: an id never goes to a second client, no client takes another's
  for its own, and the server hangs only when every id was given out.
* `EndsAgree`: both ends of a connection mean each other.

### ThreadPool

`queue` is the multimap `task_queue_`, a sequence in the order of the times.
`thr[t]` says where service thread `t` is in `serviceQueue`: about to take the
mutex (`top`), in `wait`, in `wait_until` its `deadline`, running a function, or
gone. `awake` holds the threads the condition variable has unblocked and that do not
have the mutex yet. A step (`Leave`, `Wait`, `WaitUntil`, `Take`) is what a thread does
from taking the mutex to releasing it: whichever wait it comes back from, the
nested loops look at the flags and the queue afresh, so the four steps differ in
what they find and not in where they started. Whether `wait_until` timed out is
decided by the clock when the mutex is taken again, as in libstdc++. `schedule`
and `stop` notify after they release the mutex (`NotifyOne`, `NotifyAll`), and a wait
may return for no reason (`Spurious`).

`Fire` is the wrapper of `Worker::scheduleFromNow` that posts to the
`io_service` of the worker; `RunOnce`, `RunAgain` and `RunLast` are what the thread of the
worker then runs: a function unless cancelled, a series of `scheduleEvery` that
goes on, one that ends. `CloseWorker`, `JoinWorker`, `StopDrain`, `NotifyAll` and
`JoinThreads` are `ThreadPool::close`; `StopNow` is `stop(false)` by the owner of
a `Scheduler` of its own, as `~Scheduler` and the tests call it. The steady clock
of `Worker` and the system clock of `Scheduler` are one clock.

Left out: `getLessUsedWorker` (`Home` is any assignment of functions to
workers), functions that throw, and `SimulatedWorker`.

### Connection

A transport is a record of its ICE state, the sockets and keys of its
components, and the flights its Resenders still send. ICE callbacks post tasks;
`Worker` runs the first of `tasks`, `Resend` is a timer of the worker. `close()`
runs on the thread of the owner in phases (`phase`: `sending_`, a transport after the
other, the state, the listener and sinks, the pipeline), while the worker goes on
between them. `RunSend` and `RunMedia` are the tests of `sendPacket` and
`onTransportData`; the packet that passed them is `held`, and `WritePipeline` and
`ReadPipeline` are what the worker does with it next, whatever `close()` did
meanwhile, for no lock keeps the two apart. `updateState` is one action on the states both transports have
when it runs, which need not be those that caused it. Where a function uses what
`close()` has freed the model stops with `crashed` naming the use: a function of
`asyncTask` (`"update"`), DTLS started late (`"start"`), a packet that was in hand
(`"media"`, `"send"`). All four happen, see section 6.

* `KeysBeforeMedia`: READY means that each wanted transport has the keys of
  all its components, and no packet leaves unprotected.
* `NotifiedForward`: up to the line of `close()` that sets FINISHED, the listener
  hears of each state once and in order.
* `OnlyPacketInHand`: `close()` does not keep its pipeline from the packet in hand,
  but from all that are queued: a held packet passed its tests (`at`) before
  `close()` took down what they read, and once the pipeline is reset no packet passes.
* `FailuresEnd`: a failure of ICE reaches the connection; the Resender stops.

### NicerIce and LibNiceIce

In `NicerIce` each call is a task for the IO worker, with a caller that waits for
it: five seconds in `start`, one second elsewhere, for ever in `getSelectedPair`. A
wait may time out (`late`) at any point before the task has run, and the caller of
`close` then runs `closeSync` itself. `made` counts the objects `startSync` got to.
`crashed` says which use met a freed or unset pointer. `Sound` is
`CloseIsOrderly`, `CloseFrees` and `ToldMeansAsked`. `CloseIsOrderly` names for each
misuse of memory what it takes: two threads at once, a wait that timed out; a second
release or a use after it, a late wait or a call that overtook the close; a pointer never
set or null, a start that failed half way as well. `ToldMeansAsked` is about
`setRemoteCandidates`, which says true although nICEr refused a candidate: `given` has
the call and whether nICEr took all, and true means no more than that nICEr was asked.
`CallsReturn` is the liveness of the calls.

In `LibNiceIce` the agent's thread, the owner and the worker meet without a
lock: `closeMutex_` protects nothing. `fresh` holds the callbacks of new
candidates that are due, `delivered` is `candsDelivered_`. `NewOnly` is claimed of
one component; two share the counter. `ClosedIsQuiet`: after a
`close()` that joined the thread in time nothing of it runs.

### Pipeline

`ctxs`, `inCtxs` and `outCtxs` are the lists, `nextIn` and `nextOut` the links that
`finalize()` makes, `stack` the nested calls of each thread, each with its guard.
Contexts are added and removed, at either end or by handler, as long as no packet
is inside, which is when the code does it; a packet inside may be answered by a
handler of both directions, and `close()` and the reset run on the owner's thread meanwhile.
`PacketsInOrder` says that a packet passes all handlers of its direction in
order whatever the pipeline was built from, `GuardsHold` that a packet between two
handlers keeps the pipeline although `close()` resets it.

### Sdp

A line is a record of its kind and its values; text is not modelled. A
description is read from `Begin` to `End`, in between one step per kind of line
(`ReadLine`) in any order, of the kinds the scene of the behaviour has. `End` does what
`processSdp` does after its loop: filling in credentials and matching the codecs, then
the rtx. `Translated`: the maps between the payload types of both sides keep the codec, and rtx follows what it retransmits. `CandidatesKnown`,
`Legible`, `SsrcsOnce` are about candidates that come before their credentials,
the m= line of an answer, and ssrcs of groups.

### OneToMany

`monitor` is the thread that holds `monitor_mutex_`, `queue` the tasks of each
worker, `job` what each thread is in the middle of; a delivery goes subscriber by subscriber.
The publisher is a connection, an `ExternalInput` with a thread of its own, or a
`SyntheticInput` on a worker. `Distributed` is `NoneToClosed`, `KeyframeOwed` (a
request for a key frame is not lost between the test of the flag and its
reset) and `AllClosed`; `CloseEnds` says that `closeAll` returns unless a
`SyntheticInput` shares its worker with a subscriber.

### Translator, RtpDownstream and RtpUpstream

A translator is a record of the buffer and its indices, and `get`, `generate`,
`reverse` and `reset` are operators on it, modulo `M` (2^16 in the code).

`RtpDownstream`: one `write` is one step through layers, mute, slide show,
padding and retransmission buffer in the order of
`initializePipeline`, since a pipeline runs on its worker. `chain` holds the state
of each handler, `wire` what left. The source loses, delays and repeats packets.
`Numbering` is `FreshNumbers`, `NoHoles` (the only gaps are losses of the
source), `Reversible` and `RetransmitsSame`; `KeyframesWhole` is `StoredWhole` with
`SwitchOnKeyframe`. Two cases are excepted by name: a simulcast switch that
lapsed (section 6), and VP9 slides, whose first packet does not tell a frame's begin.

`RtpUpstream`: a packet goes through the report and NACK generators and the
removal of padding; the pacer of PLIs stands beside them. `Requests` bounds what is asked
for, `Reports` relates `RtcpRrGenerator`'s cycle counter and losses to what came,
`NumbersUp` is for the translated stream, and `KeyframeOrFir` for the pacer.

### Recorder and ExternalInput

In `Recorder` the worker's `pushPacket` is two steps, `Arrive` with the comparison
before the lock and `Insert` under it; the writing thread (`pc`) tests `recording_`,
locks, waits, takes, unpacks and writes. Nothing is written before the codec of the audio is known,
if audio is expected. `FramesWhole`
and `QueueInOrder` hold in spite of the race; `LateDiscarded` does not.

In `ExternalInput` the reader, the encoder and the destructor are threads;
`read` counts frames of the file, `buffer` is the one decode buffer,
and a frame of VP8 is cut at `Part` bytes. `Sound` says that numbers follow
each other, fragments make up frames, and frames go forward. What ffmpeg decodes and
encodes is external.

### Quality, Feedback and RateStat

`Quality` is the manager with its inputs: layers detected, their rates
and an estimate. It checks once per interval and looks for active layers every
ten seconds. `Settles`: if nothing changes any more, the layer is the best that fits with
the margin, whatever was forced or stopped before. `PaddingOff`: padding needs
a manager that is enabled and not forced.

`Feedback` keeps the estimator in use, the cap it was told, and the mantissa of
a REMB with its shift in 32 bits (`Width`). `ToldStep`: the estimator fits the packets,
no REMB exceeds its sources or the limit its sender knew, and they are paced.

`RateStat` is the ring of `MovingIntervalRateStat` with its unsigned
differences. `RingStep`: it holds what was added in the window, until a pause
outlasts the window (section 6).

## 3. Runs

| run | question | bounds |
|---|---|---|
| `kcp_order` | order, nothing lost, nothing taken back, windows, refinement of `ReliableStream` | a stream of 2 fragments (one message of 2, or 2 of 1), windows 2, fast retransmit after 1 skip, 2 datagrams on their way, 1 duplicate; beside it 3 fragments into a receiver with `rcv_wnd` = 1 |
| `kcp_live` | everything is delivered and acknowledged | 2 fragments, `rcv_wnd` = 1, congestion control on |
| `kk_safe` | the handshake (three-way, one announcement, one stream); the two-key map and what the application is told; the relay | one dialer, one acceptor, 2 ids, with 2 calls or a call and a restart, and 1 datagram; or with 1 call, 2 datagrams, 1 repetition and 2 control blocks at each end; relay with 2 clients, 3 ids, 3 calls, 9 different datagrams |
| `kk_live` | handshakes end, a gone peer is noticed | Connect, and a DisConnect or a restart after it (`MaxEvents`), 2 ids, 1 datagram |
| `pool` | nothing lost or doubled, order of the queue, no lost wakeup, stop, drain and close | 2 service threads, 1 worker, a function and a series, times 0 and 1 |
| `session` | keys before media, notifications, the packet in hand against close; the pipeline; descriptions; distribution | a bundle over libnice with two components, a pair of transports over nICEr, 1 resend, 1 task; 3 handlers IN, OUT and BOTH, 3 contexts, 1 packet; 3 internal codecs, 4 payload types of the peer, 4 lines, 2 descriptions; 2 subscribers on 2 workers, 2 packets, 3 calls, 1 request |
| `rtp` | numbers, whole key frames, requests, reports, recordings, rates | down: 4 packets modulo 64 across the wrap, 1 padding packet, 2 controls; up: 5 packets modulo 32 across the wrap, 1 repetition, lists of 2; recorder: 4 frames modulo 16 across the wrap, 1 repetition; mantissas of 2 bits, integers of 7, time 6; a ring of 3 intervals, time 14 |
| `erizo_live` | layers settle, failures are reported, key frames asked for come or are asked for again, calls and closes return; soundness of ICE connections and inputs, padding only where it is managed | 2 x 2 layers of different rates, estimates that let none or all but the highest fit, 3 changes; one transport over either library, either side offers; 2 subscribers, 1 packet, 2 calls; nICEr with 2 callers, 3 calls, 1 candidate; libnice with 1 component, 2 candidates; 3 frames of up to 1.5 fragments, numbers modulo 4; a pacer with 2 periods to a FIR |
| `kk_starve`, `kk_assert`, `pool_early`, `rec_late` | see section 6 | |

The bounds let the interesting cases happen. Two sequence numbers are enough for
a gap, an out-of-order arrival, a fast retransmission and a stale `una`; three
into a window of one are needed to overrun a receiver whose window
announcements were reordered. With `MaxNet` = 2 an old datagram is overtaken by
a newer one. In `KkConn` two ids are what a retried SYN needs, and the handshake
timeouts have the smallest values that keep their order (`SYNTICK` <= `SYNTICKD`
<= `SYNTICKT` < `MaxConTick`; the code has 5 s, 10 s, 20 s, 60 s). Ages stop one
above the largest threshold. In `ThreadPool` two entries are what a second, earlier
insertion and a stolen entry need, two threads what a missed notification needs,
and the theorems of section 5 take the safety properties to all sizes. Three ids
of the relay let a client come back for another and the two meet the end of the
ids. One task beside those of ICE is enough for a packet queued behind a close;
two transports are what folds states together. Every stream of RTP starts just
before a wrap, so that each run crosses it; `M` is large against `Ahead`,
`Distance` and the number of packets, as 2^16 is in the code. Two spatial layers
are enough for a switch and a lapse, and the controls come in every order.

`pool`, `pool_early`, `session`, `rtp`, `erizo_live` and `rec_late` do not check for
deadlock: a closed pool or connection has stopped, and a stream that was sent is
over. In `kk_safe` the part of the relay may stutter for ever: its search for an
id need not end.

In `kk_safe` the part `restart` is the plain `KkConn` of the cfg, so that `TypeOK`,
`MapsAgree`, `LinkBeforeLoss` and `IncomingOnce` are checked by the names the theorems
have; `Handshakes` and `Relayed` speak of the other two parts. TLC evaluates the
assumptions the theorems rest on: `KcpAssumption` and `PoolAssumption`, and those
of the compositions (`RelaySensible` of `Signalling`; `PipeSensible`, `SdpSensible` and
`DistSensible` of `Session`; `NicerSensible`, `NiceSensible`, `InputSensible` and
`QualitySensible` of `Endpoints`). `DialsOneWay` of `MCKkSafe` is the hypothesis of the theorem about the
three-way handshake.

Two notes on what is not claimed. `OneStream` counts the control blocks of its peer an
endpoint hears under one id. The dialing side hears one, with a datagram repeated as
well (the part `shake` of `kk_safe` repeats one); the accepting side hears one as
long as nothing is delivered twice: a SYNACK that comes twice makes the dialing side throw
away a live control block and go on with a new one under the old id (`KKKcp.cpp:767`).
A restarted process begins to count its ids at 100 again, so nothing is claimed after a
restart. The part `shake` is without heartbeats, which do not touch the handshake.
`MapsAgree` is about endpoints that only accept: an endpoint
that dials gets its ids from its peers, and two peers may assign the same one, in
which case `m_Map2` keeps the first.

## 4. Fairness

`Kcp!FairSpec`: `ConnMgrThread2` calls `ikcp_update` and `GetRecKcpData` for
every connection in an endless loop with a 5 ms sleep, so an expired timer is acted upon and
complete messages are fetched (weak fairness of `Resend`, `FlushDue`, `Recv`).
The network is fair-lossy: strong fairness of the arrival of each segment that
is sent again and again. Nothing is assumed about duplicates and order.

`KkConn!Fairness`: weak fairness of the three threads and of the clock, and
none of the network: every datagram may be lost. `Tick` waits for
`ConnMgrThread2` to act on what is due, which it looks at every 5 ms;
`Stalls = TRUE` lifts that.

`ThreadPool!Fairness`: weak fairness of each service thread, of each worker's
thread, of a notification that is due, of a close that has begun, and of the
clock. That is what an operating system gives threads that can run. Nobody has to submit, to
cancel or to begin a close. `PostedServed` speaks of workers that have begun to
serve: `ThreadPool::start` waits for the promise of each thread, and a `close()` between
the promise and the test of `closed_` leaves what was posted unserved.

For the parts of `erizo_live`:

* `Connection`: weak fairness of the worker's next step, and strong fairness of the
  resend timers that are due: they are tasks of the same worker, which takes no other
  task while it has a packet in hand, so a timer is not enabled all the time, but gets its
  turn between packets. Nothing is assumed of ICE, of the peer or of the owner.
* `OneToMany`: weak fairness of each thread with work and of a `closeAll` that has begun.
* `NicerIce`: weak fairness of the IO worker's loop and of callers in a wait, which
  are answered or time out.
* `ExternalInput`: weak fairness of the end of the reader and of the encoder, which
  look at `running_` in each round, and of the joins of the destructor.
* `Quality`: packets of some layer go on (a publisher that sends nothing has no
  quality to settle), and the check every ten seconds is made.
* `RtpUpstream`: weak fairness of `PliTimer`, a task scheduled on the worker.

`LibNiceIce`, `Pipeline`, `Sdp`, `RtpDownstream`, `Recorder`, `Feedback` and
`RateStat` have safety properties only and assume no fairness.

## 5. Proofs

`KcpProof` proves, for all values of the constants that satisfy
`KcpAssumption`:

* `TypeCorrect`: `Spec => []TypeOK`
* `Inductive`: `Spec => []IInv`, and from it `DeliversInOrder` (`InOrder`,
  `WholeMessages`), `LosesNothing`, `WithinWindows`
* `MovesForward`: the action property `Forward`
* `Implements`: `Spec => ImplementsStream`, the refinement of `ReliableStream`

None of the safety properties is inductive by itself. `IInv` adds
what ties the two sides together: `StreamShape` (the fragments of a message
count down to 0), `SenderInv` (`snd_queue` is the tail of the stream and
`snd_buf` holds fragments of it under their numbers), `ReceiverInv` (what is
buffered or acknowledged was sent) and `NetInv` (every datagram on its way, old
or new, tells the truth: its `una` is not above the sender's `rcv_nxt`, its ACKs
name numbers it has, its PUSH carries the right fragment). The proof goes action
by action: `SendInv`, `RecvInv`, `InputCtlInv`, `InputPushInv`, `FlushInv`,
`LoseInv`. Each also shows `Grows`: `rcv_nxt`, `snd_nxt`, the stream and
`Got` only grow, which keeps datagrams true that are already on their way. For the
refinement each step maps to a `Write`, a `Read` or a stutter; that `Recv` reads
exactly one whole message uses `StreamShape` and `WholeMessages`.

`ThreadPoolProof` proves, for any number of service threads, workers and
functions that satisfy `PoolAssumption`:

* `PoolTypeCorrect`: `Spec => []TypeOK`
* `NoLostWakeup`: `Spec => []HeadWatched`. `HeadWatched` is inductive given
  `TypeOK`: a step of a service thread leaves that thread watching, or the queue
  empty, or the flag set (`WatchStep`); an insertion leaves a notification
  to come; and when a notification finds nobody blocked, every thread that is
  left is on its way to the queue.
* `NothingTakenAfterStop`: `NoneAfterStop`, from `QueueSteps`, which says what
  any step may do to the queue
* `StaysSorted`: `Spec => []Sorted`. `InsertAscending` shows that the entries
  due no later than the new one are a prefix of the queue, by counting, so that
  no induction is needed.
* `OneThreadIsNeverEarly`: with a single service thread `NeverEarly` holds. The
  invariant `OnTime` says that a sleeping thread's deadline is not before the
  time of the first entry; a second thread that takes the entry breaks it, as
  `pool_early` shows.

* `EveryFunctionAccounted`: `Spec => []Accounted`. The invariant `OnePlace` says where a
  function is: not submitted yet, once in the scheduler's queue, in the hands
  of one service thread, once in the queue of its own worker, or done. `InsertPlaces`
  and its sisters say what insertion and removal do to the places in a queue.

`KkConnProof` is about any number of processes that dial one another, of calls,
restarts, datagrams under way and repeated datagrams:

* `KkConnInductive`: `Spec => []IInv`
* `Types`, `LossAfterLink`, `MapsAlwaysAgree`: `TypeOK`, `LinkBeforeLoss` and `MapsAgree`
* `ThreeWayAlways` and `IncomingOnceAlways`: `ThreeWay` and `IncomingOnce` where no two
  processes dial each other (`OneWay`). Where they do, an entry that a process
  made to dial is taken over by the SYN of the other side, and its id is not one
  that process assigned.

`IInv` speaks of each process (`NodeSound`), of each datagram (`MsgSound`) and of the
queues (`CmdsSound`). What the properties lack to be inductive: an id an entry was
given by this process is not above `m_CurConv`, and below it while a SYN is between
`OnSyn` and `AcceptSyn`, which is why the id computed outside the lock is not used
twice (`OwnSound`); an entry waiting for its ACK has no control block and was not
announced, and one that was linked was (`StateSound`); an announced id is not above
`m_CurConv` (`ToldSound`); an ACK under way, however old, was acknowledged by its
sender (`MsgSound`). A process that restarts starts from nothing, while the
datagrams to and from its former life stay under way. The lemmas show for one
process that each handler keeps `NodeSound`, whatever the maps hold, and then for
each action that it is that handler at one process and nothing at the others
(`AtNode`, `Others`).

The last part of the module is about the relay, for any number of clients, ids and
datagrams (`RelaySensible` asks that the bounds are numbers and that no client is
called `None`):

* `RelayInductive`: `Rel!Spec => []RelayIInv`
* `RelayedAlways`: `SignallingSpec => []Relayed`, that is `TypeOK`, `IdsKept` and `EndsAgree` of the
  relay beside any direct connections

`RelayIInv` adds that an id outside `m_IdSet` was never given (`GivenMarked`), and that
what a datagram says of ids stays true while it is under way (`NetSound`): `holder` never
changes once it is set (`Remembered`), so a datagram that outlives its client's
registration still names the client the id was given to.

`ConnectionProof`, for any set of configurations, resends and waiting packets:

* `ConnectionInductive`: `Spec => []IInv`
* `ConnectionTypeCorrect`: `TypeOK`
* `KeysFirst`, `NotifiesForward`, `OnlyPacketInHandAlways`: `KeysBeforeMedia`,
  `NotifiedForward` and `OnlyPacketInHand`

A transport that is ready has its keys (`TransportsSound`), and is never set back: a
queued `CANDIDATES_RECEIVED` would do that, so `TasksSound` says that no such
task is queued behind a packet of DTLS, which is received only once ICE is beyond
gathering. The state folded from the transports then never leaves READY but for the end, and what was
told to the listener ascends until `close()` sets FINISHED (`ToldSound`). `CloseSound` orders
the steps of `close()`: `sending_` is down from the first, the sinks before the pipeline. `Typed` has the
types but for the count of the packets that wait, which has an argument of its own
(`Counted`): taking a task leaves each packet one place earlier, posting one of ICE's adds none.

About the session as a whole it has

* `SessionPackets`: `SessionSpec => []PipelineSound`
* `SessionDistributes`: `SessionSpec => []Distributed`

which follow from the theorems of `PipelineProof` and `OneToManyProof`, taken as
instances with the variables of `Session`: `SamePipeState` and `SameDistState` say that the
instance speaks of the same state, `SessionPipe` and `SessionDist` that a behaviour
of the session is one of the part, since a step of another part leaves its
variables alone.

`OneToManyProof`, for any number of subscribers, workers and packets (`Sensible`
names the workers and keeps the names of threads, connections and places apart):

* `OneToManyInductive`: `Spec => []IInv`
* `DistributedAlways`: `TypeOK` and `Distributed`, that is `NoneToClosed`, `KeyframeOwed` and
  `AllClosed`

The argument for `NoneToClosed` is about the lock: who delivers has it, and so has
`closeAll` while it closes subscribers (`LockSound`); a connection that was told to
close (`Doomed`: its task is queued or runs, or it closed) is in the map only while
`closeAll` waits for it (`SubscribersSound`). So nobody is doomed in a map that a delivery goes
through. For `KeyframeOwed`, a thread that read the flag keeps what it read until
its frame is out (`JobsSound`), and a request in between sets the flag again
(`MovesOwed`). For `AllClosed`, whoever subscribed is in the map, doomed or replaced
(`AddedSound`), and the map is empty when `closeAll` returns.

`EndpointsProof`, for any callers, components, candidates, frames and layers, and any bounds:

* `NicerInductive`: `Spec => []IInv`
* `NicerSoundAlways`: `TypeOK` and `Sound` of `NicerIce`, with the conditions
  `CloseIsOrderly` has
* `EndpointsInductive`: `EndSpec => []EndInv`
* `EndpointsAlways`: `EndSpec => []EndpointsSound`, the types and `Sound` of both ICE
  connections and of the input. What nICEr was given may still be used once freed, or
  freed twice, under the conditions of `CloseIsOrderly`; of libnice's `send`, selected pair
  and data against `close()` nothing is claimed
* `PaddingAlways`: `EndSpec => []PaddingOff`

`EndInv` is the conjunction of the invariants of the parts, of which a step
changes one (`EndStepInv`).

For `NicerIce`, what `Sound` says of memory, of `close()` and of the answers of `setRemoteCandidates`
hangs on calls and tasks staying in step. `IInv` says that a call and its task
bear one number (`IdsSound`); that one `start` is ever posted (`OneStart`), and that while it is
ahead and its caller has not given up nobody else calls (`StartSound`, `Alone`); that the task
of `close` is the last one unless a call overtook it (`CloseLast`), frees once what there
is, and is waited for (`CloseSound`); that packets have a peer once there are candidates
for one (`PeersSound`); and that true is told when nICEr was asked to take the candidates (`GivenSound`).
After a crash it claims nothing but how it came to the crash.

For `LibNiceIce` (`NiceInv`), a callback is due only for a candidate the agent lists
(`CandsSound`); with a single component the count stays within the list, and the
listener was told what passes of the part that is counted (`CountSound`). That
a callback tells none twice, however late it comes, is a fact about `Only`: what passes
of a list is what passes of its beginning, then what passes of the rest
(`OnlyConcat`). `LoopSound` ties the thread of the main loop to `close()`: it lives between
`start` and the join, unless the join timed out.

For `ExternalInput` (`InputInv`): `ThreadsSound` says which threads run in which phase;
`TurnSound` that what waits for the encoder is newer than what went out and no newer
than the one decode buffer; `NumbersSound` that the numbers of a medium count its
packets in `out`; `FramesSound` that each frame packed went out whole. A frame of VP8
is cut by a loop, in the model a recursive function: `CutFacts` and `FragmentFacts` say that
its fragments have the size of the frame together, the first of them begins the
frame, the last ends it, and none is empty or longer than `Part`; `WholeStays` and
`WholeNew` that packets appended leave the frames before them whole.

For `Quality`, `PaddingOff` is inductive once the fields of the manager are known (`Managed`).

`PipelineProof`, for any handlers and any number of contexts and packets (`Sensible`):

* `PipelineInductive`: `Spec => []IInv`
* `PipelineAlways`: `TypeOK`, `PacketsInOrder` and `GuardsHold`

The induction these proofs need is in `ListsProof`, stated for sets so that
no operator is a parameter: a set of numbers that has 0 and every successor is
`Nat` (`NatSetInduction`), a set of sequences that has the empty one and is closed under
`Append` has them all (`SeqSetInduction`); both come from numbers being well
founded. From them follow the facts about `Only`, which filters a list: filtering twice
is filtering once (`OnlyTwice`), and who is next to each other in the result has
nobody of its kind in between in the list (`OnlyGaps`). `IInv` says that the
lists of the two directions are the pipeline filtered (`Mirrors`), that after `finalize()`
the links are those of the lists (`LinksSound`), that a call under way is at the context
that follows its caller's in the list of its direction (`Along`), that who is inside has a
guard and who called on is inside (`Guarded`), and that no context is attached
twice (`CountSound`, `ContextSound`). That packets meet every handler of their
direction is then `OnlyGaps`.

Not proved:

* liveness (`EventuallyDelivered`, `QuietHandshakeEnds`, `GonePeerNoticed`,
  `ServedBeforeEnd`, `CloseEnds`, `KeyframeOrFir`, `Settles`, `FailuresEnd`, `CallsEnd`), which
  needs fairness and `ENABLED` and stays with TLC;
* `OneStream`, the other half of `Handshakes`, which stays with TLC: its invariant
  would have to follow each control block through every datagram under way.
  `ThreeWayAlways` is the first half;
* `WindowsKept` by its name: it is `Windows` of two instances, and `WithinWindows` proves
  `Windows` for all of them;
* `Agreed` of `Session`. `Translated`, a part of it, is true of the run's mappings and not of
  all: where two internal mappings share a codec, or two rtx share an `apt`, or where
  a second description gives the rtx of the first another `apt`, two payload types of
  one side meet in one of the other, and the code keeps what it read last. The rest of
  `Agreed`, and `TypesOK` with it, is computed by folds over the lines of a description;
* `Numbers`, `KeyframesWhole`, `Requests`, `Reports`, `Recorded`, `Rates` and `TypesOK` of `rtp`: arithmetic
  modulo a power of two, and folds whose step is an operator that the provers
  cannot instantiate.

## 6. Where the code and its comments or assertions disagree

With a run:

* `kk_assert`: `OnConHandle` asserts that a SYNACK (`KKKcp.cpp:777`) and an ACK
  (`:819`) find their entry. Connect, then DisConnect before the
  SYNACK arrives, and the process aborts.
* `kk_starve`: `KKKcp.cpp:578` and `:10` promise that a connection attempt times
  out. The timeout is computed from `sendtick`, which every KCP datagram
  of the peer restarts. When the LINK is lost and the accepting side sends data,
  the dialing side stays in `KKACK`. `QuietHandshakeEnds` of `kk_live`
  shows that this traffic is the only reason.
* `pool_early`: `Scheduler.h:14-15` is for tasks that run "once 'after a while'".
  Both service threads of a `ThreadPool` sleep until the time of the first
  entry; one takes it, and the other, timed out as well, takes the next one
  ahead of its time (`Scheduler.cpp:43`).
* `rec_late`: `RtpPacketQueue.h:25` says that packets that come after a later one was
  handed out are discarded, and `:28` that the class is thread-safe.
  `pushPacket` compares before it takes the lock (`RtpPacketQueue.cpp:32`, `:52`).

Met while modelling, and excepted by name in a property or kept in the model:

* After a pause longer than the window a second sample in one interval empties
  the slot of the first (`StatNode.cpp:145`); `RingStep` speaks of the time before.
* `candsDelivered_` counts the candidates of all components and is compared with
  the list of one (`LibNiceConnection.cpp:332`, under the comment "We only want to
  get the new candidates"); `NewOnly` is about one component.
* `boost::mutex::scoped_lock(closeMutex_)` declares a variable
  (`LibNiceConnection.cpp:77`) and locks nothing; `LibNiceIce` has no such lock.
* `outInPTMap[apt]` inserts 0, which is the payload type of PCMU, for a codec that was not
  negotiated (`SdpInfo.cpp:981`); `Translated` leaves 0 out. An `apt` on one side
  only passes the test above it (`:973`).
* `disable()` and `enable()` while a key frame is awaited leave the pacer waiting
  without a timer (`PliPacerHandler.cpp:61`), so PLIs are dropped until a key frame comes by
  itself; `KeyframeOrFir` speaks of a pacer that has its timer.
* `closeAll` waits for workers with `monitor_mutex_` held; a `SyntheticInput` on
  such a worker waits for the mutex (`OneToManyProcessor.cpp:140`).
* A simulcast switch that lapses drops packets of the layer it returns to, and
  leaves a gap (`QualityFilterHandler.cpp:136`).
* An `updateState` or a READY of ICE queued before `close()` follows pointers
  `close()` has dropped (`WebRtcConnection.cpp:545`, `DtlsTransport.cpp:351`).
* The end of the candidates is told to one transport only
  (`WebRtcConnection.cpp:314`); a component of libnice that fails before the last
  remote candidate is not looked at again (`LibNiceConnection.cpp:414`).
* `sendPacket` and `onTransportData` test `sending_` and the sinks and use `pipeline_`
  later (`WebRtcConnection.cpp:848`, `:877`, `:445`, `:473`), and `close()` resets it
  without a lock (`:104`): the packet in hand follows a null pointer. `Connection` stops
  there, and `OnlyPacketInHand` says that it is that packet only.
* Between the line that sets FINISHED and the one that drops the listener
  (`WebRtcConnection.cpp:96`, `:98`) a task of the worker may set another state and notify it.
* `setRemoteCandidates` only warns when nICEr refuses a candidate and returns true
  (`NicerConnection.cpp:340-353`).
* `close()` frees a DTLS socket without the mutex its reader holds (`DtlsTransport.cpp:139`,
  `:171`); in the model a read and a close are one step each.
* `ExternalOutput::close` notifies without the mutex (`ExternalOutput.cpp:80`): between the
  test of `recording_` and the wait (`:497-499`, `Test` and `Wait` of `Recorder`) the
  notification is lost, and `close` joins a thread that sleeps until a packet comes; also
  the queue may trim itself between `hasData` and `popPacket` (`:505`).
* A LINK answers any ACK, also for an id the accepting side replaced
  (`KKKcp.cpp:824`); `ThreeWay` asks for an acknowledged id only.

## 7. Not modelled

* `servermain.cpp` and `RtcConmgr`: a map of names; `kkRes`: wrappers of locks and
  sockets, which appear as steps of the modules that use them.
* What OpenSSL, libsrtp, libnice, nICEr, ffmpeg and WebRTC's estimators do: external.
* The text of descriptions, candidates and JSON.
* `InputProcessor`, the transcoder and the mixer: single-threaded calls into codecs.
* `RtpSink`, `RtpSource`, `RtcpAggregator`, `UDPLOOKPRETRAN`: unused in the repository.
* Handlers without a state of several steps (headers, statistics, FEC, `SRPacketHandler`).
* The clocks of KCP (`ikcp_check`, `ikcp_update_ack`) and the wrap of its 32-bit
  numbers; stream mode, which is never on.
* Data races on memory in `KKKcp.cpp` (`StablySend` beside `ikcp_update`, pointers read after
  the map was unlocked): the handlers are atomic steps.
* Messages of more fragments than `rcv_wnd`, for which `ikcp_peeksize` fails for ever.
* In `Relay`, the length of the buffer handed on in place of the length received
  (`TranServer.cpp:59`).

## 8. Plan

1. Proofs about what the folds of `Sdp` and `Translator` compute, by `SeqSetInduction`,
   once they are written as recursive functions as in `Lists` and `ExternalInput`.
2. Lemmas on serial numbers modulo 2^w for `Translator`, so that `FreshNumbers`
   and `AskedAtMost` can be proved.
3. `KcpTimer`: `ikcp_update` and `_itimediff` with clocks that wrap.
4. Two components in `LibNiceIce` under a property of what is skipped or repeated.
