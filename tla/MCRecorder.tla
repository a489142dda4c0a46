----------------------------- MODULE MCRecorder -----------------------------
(* An instance of Recorder for TLC: four frames, the first two of two        *)
(* packets, across a wrap of the numbers.                                   *)
EXTENDS Recorder

FourFrames == <<2, 2, 1, 1>>
=============================================================================
