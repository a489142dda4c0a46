------------------------------- MODULE Session -------------------------------
(***************************************************************************)
(* An erizo session: a connection, with the pipeline its packets go        *)
(* through and the descriptions it exchanges, all made by its constructor  *)
(* (WebRtcConnection.cpp:44), and the distribution of what a connection    *)
(* publishes (OneToManyProcessor.cpp).  The parts run on threads of their  *)
(* own: a step of the session is a step of one of them.                    *)
(***************************************************************************)
EXTENDS Connection

CONSTANTS
  Handlers, Dir, MaxCtxs, MaxRuns,              \* of the pipeline
  Internal, Codec, Params, Feedbacks, Ssrcs,    \* of the descriptions
  Users, Scenes, MaxLines, MaxDescs,
  Conns, Peers, Workers, WorkerOf, PubWorker,   \* of the distribution
  Sources, MaxPublished, MaxCalls, MaxFeedback

VARIABLES
  of, ctxs, inCtxs, outCtxs, nextIn, nextOut, front, back, attached, count, ctx,
  final, owned, stack, turns, pipeCrashed,
  remote, local, mtype, reading, descs, lines, piped, shown, scene,
  source, publisher, pubOpen, sink, subscribers, fbSink, closed, monitor, api,
  calls, queue, job, key, owed, added, replaced, packets, feedback, distCrashed

pipeVars ==
  <<of, ctxs, inCtxs, outCtxs, nextIn, nextOut, front, back, attached, count, ctx,
    final, owned, stack, turns, pipeCrashed>>
sdpVars == <<remote, local, mtype, reading, descs, lines, piped, shown, scene>>
distVars ==
  <<source, publisher, pubOpen, sink, subscribers, fbSink, closed, monitor, api, calls,
    queue, job, key, owed, added, replaced, packets, feedback, distCrashed>>
sessionVars == <<vars, pipeVars, sdpVars, distVars>>

Pipe == INSTANCE Pipeline WITH MaxCalls <- MaxRuns, calls <- turns, crashed <- pipeCrashed
Sdp  == INSTANCE Sdp
Dist == INSTANCE OneToMany WITH MaxPackets <- MaxPublished, crashed <- distCrashed

ASSUME PipeSensible == Pipe!Sensible
ASSUME SdpSensible  == Sdp!Sensible
ASSUME DistSensible == Dist!Sensible

SessionInit == Init /\ Pipe!Init /\ Sdp!Init /\ Dist!Init

ConnStep == Next /\ UNCHANGED <<pipeVars, sdpVars, distVars>>
PipeStep == Pipe!Next /\ UNCHANGED <<vars, sdpVars, distVars>>
SdpStep  == Sdp!Next /\ UNCHANGED <<vars, pipeVars, distVars>>
DistStep == Dist!Next /\ UNCHANGED <<vars, pipeVars, sdpVars>>

SessionNext == ConnStep \/ PipeStep \/ SdpStep \/ DistStep

SessionSpec == SessionInit /\ [][SessionNext]_sessionVars

(* The properties of the parts.                                            *)

\* The state of each part is well typed.
TypesOK == TypeOK /\ Pipe!TypeOK /\ Sdp!TypeOK /\ Dist!TypeOK
\* A packet meets the handlers in the order they were added, there and back,
\* and each handler finds its pipeline (Pipeline.cpp:98), which a packet inside
\* keeps (HandlerContext-inl.h:62).
PipelineSound == Pipe!PacketsInOrder /\ Pipe!GuardsHold
\* Payload types, credentials and ssrcs are what the two sides agreed on
\* (SdpInfo.cpp:869).
Agreed == Sdp!Agreed
\* Nothing goes to a closed subscriber, a key frame asked for is owed, and
\* closeAll closes everyone (OneToManyProcessor.cpp:122).
Distributed == Dist!Distributed
=============================================================================
