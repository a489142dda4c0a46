----------------------------- MODULE Connection -----------------------------
(***************************************************************************)
(* One erizo WebRtcConnection with its transports (WebRtcConnection.cpp,   *)
(* DtlsTransport.cpp, Transport.h), each over an ICE connection            *)
(* (IceConnection.cpp, LibNiceConnection.cpp, NicerConnection.cpp) and the *)
(* DTLS sockets of its one or two components (dtls/DtlsSocket.cpp).        *)
(*                                                                         *)
(* Three threads meet here.  ICE callbacks run on the thread of the ICE    *)
(* library and post a task to the worker; the worker runs those tasks, the *)
(* packets and the resend timers, for both transports; the owner's thread  *)
(* runs setRemoteSdp, createOffer and close, which takes its transports    *)
(* one after the other while the worker goes on.  No lock keeps close from *)
(* a packet that has passed its tests: the worker has it in hand, and uses *)
(* the pipeline in a step of its own.  A dereference of what close has     *)
(* freed is undefined: the model stops there, with crashed set.            *)
(***************************************************************************)
EXTENDS Integers, Sequences, FiniteSets

CONSTANTS Confs,        \* the configurations a run starts from
          MaxResends,   \* Resender::kMaxResends
          MaxPackets    \* bound on the tasks waiting for the worker, ICE's aside

ASSUME ConnectionAssumption ==
  /\ MaxResends \in Nat /\ MaxPackets \in Nat \ {0}
  /\ \A k \in Confs :
       /\ {k.bundle, k.trickle, k.mux, k.offer, k.nicer} \subseteq BOOLEAN
       /\ k.media \subseteq {"video", "audio"} /\ k.media # {}

VARIABLES
  conf,       \* bundle_, trickleEnabled_, rtcp_mux, who offered, media of the SDP
  tr,         \* videoTransport_ and audioTransport_
  global,     \* globalState_
  sending,    \* sending_
  listening,  \* connEventListener_ and the sinks are set
  notified,   \* the states updateState notified, in order
  pipe,       \* pipeline_: being built, initialized, or closed and reset
  tasks,      \* tasks posted to worker_
  phase,      \* how far close() is
  held,       \* the packet whose tests the worker has passed, and phase by then
  clear,      \* a packet left without SRTP protection
  crashed     \* what used freed memory, if anything did

connVars == <<global, sending, listening, notified>>
vars == <<conf, tr, connVars, pipe, tasks, phase, clear, held, crashed>>

Medium == {"video", "audio"}
Comps  == IF conf.mux THEN {1} ELSE {1, 2}
IceState == {"INITIAL", "CANDIDATES_RECEIVED", "READY", "FINISHED", "FAILED"}
IceRank(s) == CHOOSE i \in 0..4 :
  s = <<"INITIAL", "CANDIDATES_RECEIVED", "READY", "FINISHED", "FAILED">>[i + 1]
State == {"INITIAL", "STARTED", "GATHERED", "READY", "FINISHED", "FAILED"}
Left == 0..(MaxResends + 1)     \* MaxResends + 1 stands for 2^32 - 1

\* close() in the order of its lines: sending_ down, a transport after the other,
\* globalState_, the listener and the sinks, the pipeline.
Phase == {"open", "video", "audio", "last", "finished", "sinks", "closed"}
Nothing == [k |-> "none"]

\* The places in the queue of the tasks that MaxPackets bounds.
PacketTasks == {i \in DOMAIN tasks : tasks[i].k # "ice"}

TypeOK ==
  /\ conf \in Confs
  /\ \A m \in Medium :
       LET t == tr[m] IN
       /\ {t.up, t.run, t.open, t.last} \subseteq BOOLEAN
       /\ t.st \in State /\ t.ice \in IceState
       /\ t.comp \in [Comps -> IceState]
       /\ t.started \in [Comps -> BOOLEAN] /\ t.timer \in [Comps -> BOOLEAN]
       /\ t.ssl \in [Comps -> {"open", "done", "freed"}]
       /\ t.left \in [Comps -> Left]
       /\ t.keys \subseteq Comps /\ t.ready \subseteq t.keys
  /\ global \in State
  /\ sending \in BOOLEAN /\ listening \in BOOLEAN
  /\ notified \in Seq(State)
  /\ pipe \in {"building", "initialized", "reset"}
  /\ Cardinality(PacketTasks) <= MaxPackets
  /\ phase \in Phase
  /\ held \in {Nothing} \cup [k : {"media"}, at : Phase]
            \cup [k : {"send"}, m : Medium, rtcp : BOOLEAN, at : Phase]
  /\ clear \in BOOLEAN /\ crashed \in {"no", "start", "update", "media", "send"}

\* A transport that was not created yet.
None(k) ==
  LET c == IF k.mux THEN {1} ELSE {1, 2} IN
  [up |-> FALSE, run |-> TRUE, open |-> TRUE, last |-> FALSE,
   st |-> "INITIAL", ice |-> "INITIAL", comp |-> [i \in c |-> "INITIAL"],
   started |-> [i \in c |-> FALSE], timer |-> [i \in c |-> FALSE],
   ssl |-> [i \in c |-> "open"], left |-> [i \in c |-> MaxResends],
   keys |-> {}, ready |-> {}]

Init ==
  /\ conf \in Confs
  /\ tr = [m \in Medium |-> None(conf)]
  /\ global = "INITIAL" /\ sending = TRUE /\ listening = TRUE
  /\ notified = <<>>
  /\ pipe = "building" /\ tasks = <<>> /\ phase = "open"
  /\ clear = FALSE /\ held = Nothing /\ crashed = "no"

-----------------------------------------------------------------------------
\* WebRtcConnection::updateState with the transports as they are by then.
Folded(s, ts) ==
  IF s = "FAILED" \/ ( /\ conf.bundle \/ \A m \in conf.media : ts[m].up /\ ts[m].st = s
                       /\ s = "GATHERED" => ~conf.trickle )
  THEN s ELSE global

UpdateState(s, ts) ==
  IF global = "FAILED" THEN UNCHANGED connVars
  ELSE /\ global' = Folded(s, ts)
       /\ sending' = (sending /\ s # "FAILED")
       /\ notified' = IF global' # global /\ listening THEN Append(notified, global')
                      ELSE notified
       /\ UNCHANGED listening

\* Transport::updateTransportState inside a handler that leaves transport m as t.
Become(m, t) ==
  /\ tr' = [tr EXCEPT ![m] = t]
  /\ IF t.st = tr[m].st \/ t.st \notin {"STARTED", "GATHERED", "READY", "FAILED"}
     THEN UNCHANGED connVars ELSE UpdateState(t.st, tr')

Post(x) == tasks' = Append(tasks, x)

\* A task of the program's users or of the network.
PostPacket(x) ==
  Cardinality(PacketTasks) < MaxPackets /\ Post(x)

\* Resender::scheduleResend: a new flight replaces the timer of the last one.
ScheduleResend(t, c) == [t EXCEPT !.timer[c] = (t.st # "READY")]

\* The failure is not passed on.
Failed_quietly(t) == [t EXCEPT !.run = FALSE]

Failed(t) == [t EXCEPT !.run = FALSE, !.st = "FAILED"]

\* DtlsTransport::onHandshakeCompleted of component c: its SrtpChannel takes
\* the keys or not, and the transport is ready with its last component.
HandshakeCompleted_first(t, c, good) ==
  LET u == [t EXCEPT !.keys = @ \cup {c}, !.ready = IF good THEN @ \cup {c} ELSE @]
  IN [u EXCEPT !.st = IF good THEN "READY" ELSE "FAILED"]

\* The channel of a component is made by its first packet.
HandshakeCompleted_late(t, c, good) ==
  LET u == [t EXCEPT !.ready = IF good THEN @ \cup {c} ELSE @]
  IN [u EXCEPT !.st = IF ~good THEN "FAILED"
                      ELSE IF u.ready = Comps THEN "READY" ELSE @]

HandshakeCompleted(t, c, good) ==
  LET u == [t EXCEPT !.keys = @ \cup {c}, !.ready = IF good THEN @ \cup {c} ELSE @]
  IN [u EXCEPT !.st = IF ~good THEN "FAILED"
                      ELSE IF u.ready = Comps THEN "READY" ELSE @]

\* DtlsTransport::onDtlsPacket: a flight of OpenSSL goes to the Resender of its
\* component, which sends it and arms the timer.
OnDtlsPacket(t, c) == ScheduleResend(t, c)

\* DtlsSocket::handlePacketMaybe and doHandshakeIteration, where r is what
\* OpenSSL makes of the packet; the server writes the last flight.
Handshake(t, c, r) ==
  LET reply(u) == IF conf.offer THEN OnDtlsPacket(u, c) ELSE u
      done(good) == reply(HandshakeCompleted([t EXCEPT !.ssl[c] = "done"], c, good))
  IN IF t.ssl[c] # "open" \/ r = "quiet" THEN t
     ELSE IF r = "flight" THEN OnDtlsPacket(t, c)
     ELSE IF r = "alert" THEN OnDtlsPacket(Failed(t), c)
     ELSE done(r = "done")

-----------------------------------------------------------------------------
(* The owner's thread.                                                     *)

\* The transports setRemoteSdp and createOffer create.
Wanted == IF conf.bundle THEN {"video"} ELSE conf.media

CreateTransports ==
  tr' = [m \in Medium |-> IF m \in Wanted THEN [tr[m] EXCEPT !.up = TRUE] ELSE tr[m]]

CreateOffer ==
  /\ phase = "open" /\ conf.offer /\ pipe = "building"
  /\ CreateTransports
  /\ UNCHANGED <<conf, connVars, pipe, tasks, phase, clear, held, crashed>>

\* The first call builds the pipeline, and the transports if the profile is
\* SAVPF with a fingerprint; a later one only notifies the handlers.
SetRemoteSdp ==
  /\ phase = "open" /\ pipe = "building"
  /\ conf.offer => \A m \in Wanted : tr[m].up
  /\ \E secure \in BOOLEAN : IF secure THEN CreateTransports ELSE UNCHANGED tr
  /\ pipe' = "initialized"
  /\ UNCHANGED <<conf, connVars, tasks, phase, clear, held, crashed>>

\* addRemoteCandidate with mLineIndex -1 tells only one transport.
LastCandidate ==
  /\ phase = "open" /\ ~conf.nicer
  /\ LET m == IF tr["video"].up THEN "video" ELSE "audio" IN
       /\ tr[m].up
       /\ tr' = [tr EXCEPT ![m].last = TRUE]
  /\ UNCHANGED <<conf, connVars, pipe, tasks, phase, clear, held, crashed>>

\* muteStream, enableHandler, disableHandler, notifyUpdateToHandlers.
Notify ==
  /\ phase = "open"
  /\ PostPacket([k |-> "update"])
  /\ UNCHANGED <<conf, tr, connVars, pipe, phase, clear, held, crashed>>

\* The transport and the component by which a packet leaves: WebRtcConnection::write
\* picks the one, DtlsTransport::write the other.
By(m) == IF conf.bundle THEN "video" ELSE m
On(rtcp) == IF rtcp /\ ~conf.mux THEN 2 ELSE 1

\* Only a connection that is ready takes packets to send.
SendPacketAsync(x) == sending /\ global = "READY" /\ PostPacket(x)

\* deliverVideoData, deliverAudioData, deliverFeedback.
Deliver(m) ==
  /\ m \in conf.media /\ tr[By(m)].up
  /\ \E rtcp \in BOOLEAN : SendPacketAsync([k |-> "send", m |-> m, rtcp |-> rtcp])
  /\ UNCHANGED <<conf, tr, connVars, pipe, phase, clear, held, crashed>>

\* sending_ is not taken down.
CloseBegin_sending ==
  /\ phase = "open" /\ sending
  /\ phase' = "video"
  /\ UNCHANGED <<conf, tr, connVars, pipe, tasks, clear, held, crashed>>

\* After a failure sending_ is down and close() returns at once.
CloseBegin ==
  /\ phase = "open" /\ sending
  /\ sending' = FALSE /\ phase' = "video"
  /\ UNCHANGED <<conf, tr, global, listening, notified, pipe, tasks, clear, held, crashed>>

\* LibNiceConnection::close sets FINISHED and drops its listener,
\* NicerConnection::close destroys its context and leaves the state.
Closed(t) ==
  [t EXCEPT !.run = FALSE, !.open = FALSE, !.st = "FINISHED",
            !.ice = IF conf.nicer \/ @ = "FAILED" THEN @ ELSE "FINISHED",
            !.ssl = [c \in Comps |-> "freed"], !.timer = [c \in Comps |-> FALSE]]

CloseTransport(m) ==
  /\ phase = m
  /\ tr' = IF tr[m].up THEN [tr EXCEPT ![m] = Closed(@)] ELSE tr
  /\ phase' = IF m = "video" THEN "audio" ELSE "last"
  /\ UNCHANGED <<conf, connVars, pipe, tasks, clear, held, crashed>>

CloseState ==
  /\ phase = "last"
  /\ global' = "FINISHED" /\ phase' = "finished"
  /\ UNCHANGED <<conf, tr, sending, listening, notified, pipe, tasks, clear, held, crashed>>

CloseSinks ==
  /\ phase = "finished"
  /\ listening' = FALSE /\ phase' = "sinks"
  /\ UNCHANGED <<conf, tr, global, sending, notified, pipe, tasks, clear, held, crashed>>

CloseEnd ==
  /\ phase = "sinks"
  /\ pipe' = "reset" /\ phase' = "closed"
  /\ UNCHANGED <<conf, tr, connVars, tasks, clear, held, crashed>>

-----------------------------------------------------------------------------
(* The thread of the ICE library.                                          *)

\* Any other state is taken over.
UpdateIceState_any(m, t, s) ==
  IF s = t.ice
  THEN tr' = [tr EXCEPT ![m] = t] /\ UNCHANGED tasks
  ELSE /\ tr' = [tr EXCEPT ![m] = [t EXCEPT !.ice = s]]
       /\ Post([k |-> "ice", m |-> m, s |-> s])

\* IceConnection::updateIceState only goes forward, and posts to the worker.
UpdateIceState(m, t, s) ==
  IF IceRank(s) <= IceRank(t.ice)
  THEN tr' = [tr EXCEPT ![m] = t] /\ UNCHANGED tasks
  ELSE /\ tr' = [tr EXCEPT ![m] = [t EXCEPT !.ice = s]]
       /\ Post([k |-> "ice", m |-> m, s |-> s])

Live(m) == tr[m].up /\ tr[m].open
IceOnly == UNCHANGED <<conf, connVars, pipe, phase, clear, held, crashed>>

GatheringDone(m) ==
  /\ Live(m)
  /\ UpdateIceState(m, tr[m], "CANDIDATES_RECEIVED")
  /\ IceOnly

\* cb_new_selected_pair: ready when every component is.
ComponentReady(m, c) ==
  /\ Live(m) /\ ~conf.nicer /\ pipe = "initialized" /\ tr[m].comp[c] # "READY"
  /\ LET t == [tr[m] EXCEPT !.comp[c] = "READY"] IN
       IF \A i \in Comps : t.comp[i] = "READY" THEN UpdateIceState(m, t, "READY")
       ELSE tr' = [tr EXCEPT ![m] = t] /\ UNCHANGED tasks
  /\ IceOnly

\* cb_component_state_changed: counts only after the last remote candidate.
ComponentFailed(m, c) ==
  /\ Live(m) /\ ~conf.nicer /\ pipe = "initialized" /\ tr[m].comp[c] # "FAILED"
  /\ LET t == [tr[m] EXCEPT !.comp[c] = "FAILED"] IN
       IF t.last /\ \A i \in Comps : t.comp[i] = "FAILED"
       THEN UpdateIceState(m, t, "FAILED")
       ELSE tr' = [tr EXCEPT ![m] = t] /\ UNCHANGED tasks
  /\ IceOnly

\* NicerConnection::ice_connected and stream_failed.
NicerConnected(m) ==
  /\ Live(m) /\ conf.nicer /\ pipe = "initialized"
  /\ tr[m].ice \in {"INITIAL", "CANDIDATES_RECEIVED"}
  /\ UpdateIceState(m, tr[m], "READY")
  /\ IceOnly

NicerFailed(m) ==
  /\ Live(m) /\ conf.nicer /\ pipe = "initialized" /\ tr[m].ice # "FAILED"
  /\ UpdateIceState(m, tr[m], "FAILED")
  /\ IceOnly

\* onData passes packets on only while the ICE state is READY.  A server
\* answers a peer, a client that has not started has no peer to hear of.
Receive(m, c) ==
  /\ Live(m) /\ tr[m].ice = "READY"
  /\ \/ /\ conf.offer \/ tr[m].started[c]
        /\ \E r \in {"quiet", "flight", "alert", "done", "badkeys"} :
             PostPacket([k |-> "dtls", m |-> m, c |-> c, r |-> r])
     \/ PostPacket([k |-> "media", m |-> m])
  /\ UNCHANGED tr
  /\ IceOnly

-----------------------------------------------------------------------------
(* The worker.                                                             *)

Next1(k) ==
  held = Nothing /\ tasks # <<>> /\ Head(tasks).k = k /\ tasks' = Tail(tasks)
Fixed == UNCHANGED <<conf, pipe, phase>>

\* DtlsTransport::updateIceStateSync.  ICE being READY starts the DTLS client,
\* on a socket that close() may have freed.
RunIce ==
  /\ Next1("ice")
  /\ LET m == Head(tasks).m
         s == Head(tasks).s
         t == tr[m]
         new == {c \in Comps : ~conf.offer /\ ~t.started[c]}
     IN
     \/ /\ s = "CANDIDATES_RECEIVED"
        /\ Become(m, [t EXCEPT !.st = "GATHERED"]) /\ UNCHANGED crashed
     \/ s = "FAILED" /\ Become(m, Failed(t)) /\ UNCHANGED crashed
     \/ /\ s = "READY"
        /\ crashed' = IF \E c \in new : t.ssl[c] = "freed" THEN "start" ELSE "no"
        /\ Become(m, [t EXCEPT
             !.started = [c \in Comps |-> @[c] \/ c \in new],
             !.timer = [c \in Comps |-> IF c \in new /\ crashed' = "no" THEN t.st # "READY"
                                        ELSE @[c]]])
  /\ Fixed /\ UNCHANGED <<clear, held>>

\* DtlsTransport::onIceData of a DTLS packet: cancel the timer, then read.
RunDtls ==
  /\ Next1("dtls")
  /\ LET x == Head(tasks) IN
       Become(x.m, Handshake([tr[x.m] EXCEPT !.timer[x.c] = FALSE], x.c, x.r))
  /\ Fixed /\ UNCHANGED <<clear, held, crashed>>

\* onIceData: only a transport that is ready passes media up, unprotected with
\* the keys it has by then.
Readable(t) == t.st = "READY"

\* onIceData and onTransportData of a media packet, up to their tests.
RunMedia ==
  /\ Next1("media")
  /\ held' = IF /\ Readable(tr[Head(tasks).m]) /\ listening /\ global = "READY"
                /\ pipe # "building"
             THEN [k |-> "media", at |-> phase] ELSE Nothing
  /\ Fixed /\ UNCHANGED <<tr, connVars, clear, crashed>>

\* pipeline_->read
ReadPipeline ==
  /\ held.k = "media" /\ held' = Nothing
  /\ crashed' = IF pipe = "reset" THEN "media" ELSE "no"
  /\ Fixed /\ UNCHANGED <<tr, connVars, tasks, clear>>

\* The function asyncTask posted: pipeline_->notifyUpdate().
RunUpdate ==
  /\ Next1("update")
  /\ crashed' = IF pipe = "reset" THEN "update" ELSE "no"
  /\ Fixed /\ UNCHANGED <<tr, connVars, clear, held>>

\* DtlsTransport::write: a packet is dropped by an SrtpChannel that is not
\* active, and passes unprotected where there is no SrtpChannel.
Unprotected(t, c) ==
  t.up /\ t.run /\ t.st = "READY" /\ t.ice = "READY" /\ c \notin t.keys

\* sendPacket up to its tests; the rate control may drop the packet.
RunSend ==
  /\ Next1("send")
  /\ LET x == Head(tasks)
         passed == [k |-> "send", m |-> x.m, rtcp |-> x.rtcp, at |-> phase]
     IN held' \in {Nothing} \cup (IF sending /\ pipe # "building" THEN {passed} ELSE {})
  /\ Fixed /\ UNCHANGED <<tr, connVars, clear, crashed>>

\* pipeline_->write, and WebRtcConnection::write at its end.
WritePipeline ==
  /\ held.k = "send" /\ held' = Nothing
  /\ crashed' = IF pipe = "reset" THEN "send" ELSE "no"
  /\ clear' = (clear \/ (pipe = "initialized" /\ Unprotected(tr[By(held.m)], On(held.rtcp))))
  /\ Fixed /\ UNCHANGED <<tr, connVars, tasks>>

Armed(m, c) == c \in Comps /\ tr[m].timer[c]

\* Resender::resend, on the worker as well: max_resends_-- > 0, and an unsigned
\* count below zero.
Resend(m, c) ==
  /\ held = Nothing /\ Armed(m, c)
  /\ LET t == tr[m] IN
       IF t.left[c] = 0
       THEN Become(m, Failed([t EXCEPT !.left[c] = MaxResends + 1, !.timer[c] = FALSE]))
       ELSE Become(m, [t EXCEPT !.left[c] = IF @ > MaxResends THEN @ ELSE @ - 1])
  /\ Fixed /\ UNCHANGED <<tasks, clear, held, crashed>>

Worker ==
  RunIce \/ RunDtls \/ RunMedia \/ ReadPipeline \/ RunUpdate \/ RunSend \/ WritePipeline
Close == CloseBegin \/ CloseState \/ CloseSinks \/ CloseEnd \/ \E m \in Medium : CloseTransport(m)

Next ==
  /\ crashed = "no"
  /\ \/ CreateOffer \/ SetRemoteSdp \/ LastCandidate \/ Notify \/ Close \/ Worker
     \/ \E m \in Medium :
          \/ Deliver(m) \/ GatheringDone(m) \/ NicerConnected(m) \/ NicerFailed(m)
          \/ \E c \in Comps : \/ ComponentReady(m, c) \/ ComponentFailed(m, c)
                              \/ Receive(m, c) \/ Resend(m, c)

Spec == Init /\ [][Next]_vars

\* The worker's thread runs whatever is posted to it, its timers included: they
\* take their turn between packets, so that packets do not put them off for ever.
SomeResend == \E m \in Medium, c \in {1, 2} : Resend(m, c)
Fairness ==
  WF_vars(Worker /\ crashed = "no") /\ SF_vars(SomeResend /\ crashed = "no")

FairSpec == Spec /\ Fairness

-----------------------------------------------------------------------------
(* Properties.                                                             *)

\* The connection is READY only when every transport its media needs has the
\* SRTP keys of all of its components (DtlsTransport.cpp:312, WebRtcConnection.cpp:600).
ReadyMeansKeys ==
  global = "READY" => \A m \in Wanted : tr[m].up /\ tr[m].ready = Comps

\* No packet ever leaves unprotected: write passes a packet on where there is
\* no SrtpChannel (DtlsTransport.cpp:236), so the states have to prevent it.
NeverClear == ~clear

\* No media without keys, in either sense.
KeysBeforeMedia == ReadyMeansKeys /\ NeverClear

\* Up to the moment close() sets FINISHED the listener hears of each state once,
\* and never of an earlier state after a later one, whatever the order in which two
\* transports get there (WebRtcConnection.cpp:96, 636).
NotifiedForward ==
  phase \notin {"finished", "sinks", "closed"} => \A i, j \in 1..Len(notified) : i < j =>
    \E a, b \in 0..3 :
      /\ a < b
      /\ notified[i] = <<"STARTED", "GATHERED", "READY", "FAILED">>[a + 1]
      /\ notified[j] = <<"STARTED", "GATHERED", "READY", "FAILED">>[b + 1]

\* close() may reset the pipeline under the packet the worker has in hand, but not
\* under any behind it: a packet to send that is in hand passed the test of sending_
\* before close() began, one received found its sinks before they were dropped, and
\* by the time the pipeline goes no packet passes either test, so that only one can
\* ever meet it (WebRtcConnection.cpp:89-104, 445, 848).
OnlyPacketInHand ==
  /\ held.k = "send" => held.at = "open"
  /\ held.k = "media" => held.at \notin {"sinks", "closed"}
  /\ pipe = "reset" => ~sending /\ ~listening

\* A failure of ICE reaches the connection.
FailureReported ==
  (\E m \in Medium : tr[m].ice = "FAILED") ~>
    (global = "FAILED" \/ phase # "open" \/ crashed # "no")

SomeArmed == \E m \in Medium, c \in {1, 2} : Armed(m, c)

\* The Resender gives up although each packet of the peer restarts its timer:
\* a flight is not re-sent for ever (DtlsTransport.cpp:54).
ResendingEnds ==
  SomeArmed ~> (global \in {"FAILED", "FINISHED"} \/ ~SomeArmed \/ crashed # "no")

\* Together: no handshake and no failure is left hanging.
FailuresEnd == FailureReported /\ ResendingEnds
=============================================================================
