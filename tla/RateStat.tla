------------------------------ MODULE RateStat ------------------------------
(***************************************************************************)
(* MovingIntervalRateStat (stats/StatNode.cpp): the bit rates that the     *)
(* quality manager, the padding generator and the retransmissions go by.   *)
(* A ring keeps what was added in each of the last intervals.  Times are   *)
(* counted from the first sample, as the ring does.                        *)
(***************************************************************************)
EXTENDS Integers

CONSTANTS Size,      \* interval_size_ms_
          Window,    \* intervals_in_window_
          MaxTime,   \* bound on the clock
          MaxSamples \* bound on the samples of an interval

Sensible == Size \in Nat \ {0} /\ Window \in Nat /\ Window > 1 /\ MaxTime \in Nat /\ MaxSamples \in Nat

VARIABLES
  now,
  initialized,
  sample,        \* sample_vector_
  current,       \* current_interval_
  accumulated,   \* accumulated_intervals_
  windowEnd,     \* current_window_end_ms_
  added,         \* what was added in each interval, for the properties
  paused         \* no sample came for a whole window, for the properties

vars == <<now, initialized, sample, current, accumulated, windowEnd, added, paused>>

Slot == 0..(Window - 1)
Time == 0..MaxTime

TypeOK ==
  /\ now \in Time /\ initialized \in BOOLEAN
  /\ sample \in [Slot -> Nat] /\ current \in Slot
  /\ accumulated \in Nat /\ windowEnd \in Nat
  /\ added \in [0..(MaxTime \div Size) -> Nat] /\ paused \in BOOLEAN

Init ==
  /\ now = 0 /\ initialized = FALSE
  /\ sample = [i \in Slot |-> 0] /\ current = 0 /\ accumulated = 0 /\ windowEnd = 0
  /\ added = [k \in 0..(MaxTime \div Size) |-> 0] /\ paused = FALSE

-----------------------------------------------------------------------------

Interval(t) == t \div Size
SlotOf(t)   == Interval(t) % Window    \* getIntervalForTimeMs
NextSlots(a, n) == {(a + i) % Window : i \in 1..n}    \* getNextInterval, n times

\* The difference is taken in uint64_t: before the end of the window it wraps,
\* and its quotient by 100, cut to int32_t, is negative.
ToPass == IF now < windowEnd THEN -1 ELSE (now - windowEnd) \div Size

\* The ring after the first n slots behind a were emptied and v was put at s.
Put(a, n, s, v) ==
  LET cleared == [i \in Slot |-> IF i \in NextSlots(a, n) THEN 0 ELSE sample[i]]
      last == (a + n) % Window
  IN [cleared EXCEPT ![s] = IF s = last THEN @ + v ELSE v]

\* The window ends where the intervals accumulated so far end, but for the one
\* path that passes intervals and finds itself in the slot of the present.
Add(v) ==
  LET pass == IF initialized THEN ToPass ELSE -1
      skip == IF pass > 0 THEN pass ELSE 0
      acc  == IF initialized THEN accumulated ELSE 1
      end  == IF initialized THEN windowEnd ELSE Size
      here == SlotOf(now)
  IN /\ initialized' = TRUE
     /\ current' = here
     /\ IF pass >= Window
        THEN /\ sample' = [i \in Slot |-> IF i = here THEN v ELSE 0]
             /\ accumulated' = acc + pass
             /\ windowEnd' = accumulated' * Size
        ELSE LET moved == here # (current + skip) % Window IN
             /\ sample' = Put(current, skip, here, v)
             /\ accumulated' = acc + skip + (IF moved THEN 1 ELSE 0)
             /\ windowEnd' = IF moved THEN accumulated' * Size ELSE end
     /\ added' = [added EXCEPT ![Interval(now)] = @ + v]
     /\ paused' = (paused \/ pass >= Window)
     /\ UNCHANGED now

Tick ==
  /\ initialized /\ now < MaxTime /\ now' = now + 1
  /\ UNCHANGED <<initialized, sample, current, accumulated, windowEnd, added, paused>>

Next == Tick \/ (added[Interval(now)] < MaxSamples /\ Add(1))

Spec == Init /\ [][Next]_vars

-----------------------------------------------------------------------------
(* Properties.                                                             *)

\* The intervals that the ring stands for once a sample was put into it.
InWindow(t) == {k \in 0..Interval(t) : Interval(t) - k < Window}

\* A mean over the window, as the tests take it
\* (MovingIntervalRateStatTest.cpp:60), needs the ring to hold what was added
\* in the present interval and in those before it, and nothing older.  So it
\* does as long as no pause outlasted the window; after one, a second sample in
\* an interval empties the slot of the first (StatNode.cpp:145).
RingStep ==
  ~paused' /\ added' # added => \A k \in InWindow(now) : sample'[k % Window] = added'[k]

RingTrueTillPause == [][RingStep]_vars
=============================================================================
