----------------------------- MODULE Translator -----------------------------
(***************************************************************************)
(* erizo's SequenceNumberTranslator (rtp/SequenceNumberTranslator.cpp): it *)
(* renumbers a stream of RTP packets of which some are skipped, and into   *)
(* which others are inserted, and finds the packet of an output number.    *)
(* A translator is a record; every operation returns the one it leaves.    *)
(***************************************************************************)
EXTENDS Integers, Sequences

CONSTANTS M,        \* sequence numbers are taken modulo M: 2^16
          Buf,      \* kMaxSequenceNumberInBuffer: 1023
          Ahead,    \* how far ahead a number counts as newer: 0x0FFF
          Distance  \* kMaxDistance: 500

ASSUME TranslatorAssumption ==
  /\ {M, Buf, Ahead, Distance} \subseteq Nat \ {0}
  /\ Distance < Buf /\ Buf < Ahead /\ 2 * Ahead < M

LOCAL SX == INSTANCE SequencesExt

Num   == 0..(M - 1)
Kind  == {"Valid", "Skip", "Discard", "Generated"}
Entry == [in : Num, out : Num, kind : Kind]

\* RtpUtils::sequenceNumberLessThan.
Less(a, b) == (b - a) % M \in 1..Ahead

Blank == [k \in 0..(Buf - 1) |-> [in |-> 0, out |-> 0, kind |-> "Valid"]]

NewTranslator ==
  [inOut |-> Blank, outIn |-> Blank, first |-> 0, last |-> 0, lastOut |-> 0,
   offset |-> 0, initialized |-> FALSE, reset |-> FALSE]

TranslatorType ==
  [inOut : [0..(Buf - 1) -> Entry], outIn : [0..(Buf - 1) -> Entry],
   first : Num, last : Num, lastOut : Num, offset : Num,
   initialized : BOOLEAN, reset : BOOLEAN]

\* add
Add(t, e) == [t EXCEPT !.inOut[e.in % Buf] = e, !.outIn[e.out % Buf] = e]

\* What is jumped over is not noted.
Fill_nothing(t, n) == t

\* fill: the numbers before n that were not seen get the next output numbers.
\* (Its two calls of itself at a wrap only store what its own loop stores.)
Fill(t, n) ==
  SX!FoldLeft(Add, t,
    [j \in 1..((n - t.last - 1) % M) |->
       [in |-> (t.last + j) % M, out |-> (t.lastOut + t.offset + j) % M, kind |-> "Valid"]])

\* get(n) const
Stored(t, n) ==
  LET e == t.inOut[n % Buf] IN
  IF e.in = n THEN e ELSE [in |-> 0, out |-> 0, kind |-> "Skip"]

\* updateLastOutputSequenceNumber
NewLastOut(t, skip, out) ==
  LET firstPacket == ~t.initialized /\ ~(t.reset \/ t.offset > 0) IN
  IF ~skip /\ (Less(t.lastOut, out) \/ firstPacket) THEN out ELSE t.lastOut

Type(skip) == IF skip THEN "Skip" ELSE "Valid"

\* The branches of get(n, skip): the translator and the answer.
GetFirst(t, n, skip) ==
  LET out == IF t.reset \/ t.offset > 0 THEN (t.lastOut + t.offset + 1) % M ELSE n
      u == [Add(t, [in |-> n, out |-> out, kind |-> Type(skip)])
              EXCEPT !.lastOut = NewLastOut(t, skip, out)]
  IN [t |-> IF skip THEN u
            ELSE [u EXCEPT !.last = n, !.first = n, !.initialized = TRUE,
                           !.reset = FALSE, !.offset = 0],
      e |-> Stored(u, n)]

GetNewer(t, n, skip) ==
  LET out == (t.lastOut + t.offset + ((n - t.last - 1) % M) + 1) % M
      u == [Add(Fill(t, n), [in |-> n, out |-> out, kind |-> Type(skip)])
              EXCEPT !.lastOut = NewLastOut(t, skip, out), !.last = n]
      low == (n - Distance) % M
  IN [t |-> [u EXCEPT !.first = IF Less(@, low) THEN low ELSE @,
                      !.offset = IF skip THEN @ ELSE 0],
      e |-> Stored(u, n)]

\* A packet that comes late or again is discarded for good when it is skipped.
GetKnown(t, n, skip) ==
  LET old == t.inOut[n % Buf]
      e == IF old.kind = "Valid" /\ skip THEN [old EXCEPT !.kind = "Discard"] ELSE old
  IN [t |-> [t EXCEPT !.inOut[n % Buf] = e,
                      !.outIn[old.out % Buf].kind = IF old.kind = "Valid" THEN e.kind ELSE @,
                      !.lastOut = NewLastOut(t, skip, e.out)],
      e |-> e]

\* get(n, skip)
Get(t, n, skip) ==
  IF ~t.initialized THEN GetFirst(t, n, skip)
  ELSE IF Less(n, t.first) THEN [t |-> t, e |-> [in |-> n, out |-> 0, kind |-> "Skip"]]
  ELSE IF Less(t.last, n) THEN GetNewer(t, n, skip)
  ELSE GetKnown(t, n, skip)

\* generate
Generate(t) ==
  LET off == (t.offset + 1) % M
      e == [in |-> 0, out |-> (off + t.lastOut) % M, kind |-> "Generated"]
  IN [t |-> [t EXCEPT !.offset = off, !.outIn[e.out % Buf] = e], e |-> e]

\* reverse
Reverse(t, out) ==
  LET e == t.outIn[out % Buf] IN
  IF e.out # out \/ Less(e.in, t.first) \/ Less(t.last, e.in)
  THEN [in |-> 0, out |-> out, kind |-> "Discard"] ELSE e

\* reset
Reset(t) ==
  IF ~t.initialized THEN t
  ELSE [t EXCEPT !.initialized = FALSE, !.reset = TRUE, !.first = 0, !.last = 0,
                 !.inOut = Blank, !.outIn = Blank]
=============================================================================
