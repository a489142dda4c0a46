-------------------------------- MODULE Lists --------------------------------
(* What a loop over a list leaves of it, when it erases or passes over some   *)
(* (pipeline/Pipeline.cpp:18, LibNiceConnection.cpp:336).                     *)
EXTENDS Integers, Sequences

\* The elements of s that are in T, in their order.
Only(s, T) ==
  LET f[i \in 0..Len(s)] ==
        IF i = 0 THEN <<>> ELSE IF s[i] \in T THEN Append(f[i - 1], s[i]) ELSE f[i - 1]
  IN f[Len(s)]
=============================================================================
