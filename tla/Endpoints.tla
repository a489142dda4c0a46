------------------------------ MODULE Endpoints ------------------------------
(***************************************************************************)
(* The ends of an erizo session, side by side: an ICE connection over      *)
(* nICEr, one over libnice, an external input, and the choice of layers    *)
(* for a subscriber.  They run on threads of their own and share nothing   *)
(* here, so a step of the whole is a step of one.                          *)
(***************************************************************************)
EXTENDS NicerIce

CONSTANTS
  Components, Candidates, Usable, Remotes, MaxCands,   \* of libnice
  MaxRead, MaxSize, Part, SeqMod,                      \* of the input
  Layers, Top, Rate, Estimates, MaxChanges             \* of the quality

VARIABLES
  bundle, ice, agent, loop, quit, listener, cands, fresh, delivered, niceTold, remote,
  data, due, sending, nicePhase, niceLate, niceCrashed,
  vp8, phase, running, reader, encoder, read, buffer, queue, sent, seqnum, out,
  vp9, layers, averaged, nodes, estimate, q, checkDue, activeDue, changes

nicerVars == vars
niceVars ==
  <<bundle, ice, agent, loop, quit, listener, cands, fresh, delivered, niceTold, remote,
    data, due, sending, nicePhase, niceLate, niceCrashed>>
inputVars ==
  <<vp8, phase, running, reader, encoder, read, buffer, queue, sent, seqnum, out>>
qualityVars ==
  <<vp9, layers, averaged, nodes, estimate, q, checkDue, activeDue, changes>>
endVars == <<nicerVars, niceVars, inputVars, qualityVars>>

Nice == INSTANCE LibNiceIce WITH
  Comps <- Components, Kinds <- Candidates, told <- niceTold, phase <- nicePhase, late <- niceLate,
  crashed <- niceCrashed

Input == INSTANCE ExternalInput

Quality == INSTANCE Quality WITH sent <- layers, heard <- averaged

ASSUME NicerSensible == Sensible
ASSUME NiceSensible == Nice!Sensible
ASSUME InputSensible == Input!Sensible
ASSUME QualitySensible == Quality!Sensible

EndInit == Init /\ Nice!Init /\ Input!Init /\ Quality!Init

NicerStep   == Next /\ UNCHANGED <<niceVars, inputVars, qualityVars>>
NiceStep    == Nice!Next /\ UNCHANGED <<nicerVars, inputVars, qualityVars>>
InputStep   == Input!Next /\ UNCHANGED <<nicerVars, niceVars, qualityVars>>
QualityStep == Quality!Next /\ UNCHANGED <<nicerVars, niceVars, inputVars>>

EndNext == NicerStep \/ NiceStep \/ InputStep \/ QualityStep
EndSpec == EndInit /\ [][EndNext]_endVars

-----------------------------------------------------------------------------
(* Properties.                                                             *)

\* Over nICEr, what close frees is used or freed again only after startSync failed,
\* a wait timed out, or by a call posted behind the task of close, and true is said
\* only of candidates nICEr was asked to take.  Over libnice, only a close that did
\* not wait long enough lets the main loop run on a freed agent (its send, its data
\* and its selected pair may meet one at any close: nothing is said of those), and
\* the listener is told of each candidate of a single component once.  The frames
\* of an input go out whole (NicerConnection.cpp:349, 557, LibNiceConnection.cpp:91,
\* 332, ExternalInput.cpp:187).
EndpointsSound ==
  /\ TypeOK /\ Sound
  /\ Nice!TypeOK /\ Nice!Sound
  /\ Input!TypeOK /\ Input!Sound

\* Padding is sent only while the manager chooses the layers itself
\* (QualityManager.cpp:33).
PaddingOff == Quality!PaddingOff
=============================================================================
