---------------------------- MODULE RtpUpstream ----------------------------
(***************************************************************************)
(* The way of a publisher's video stream up an erizo pipeline: reports and *)
(* requests for what is missing (rtp/RtcpFeedbackGenerationHandler.cpp     *)
(* with RtcpRrGenerator.cpp and RtcpNackGenerator.cpp), then the removal   *)
(* of padding (RtpPaddingRemovalHandler.cpp), then the requests for key    *)
(* frames that come down against it (PliPacerHandler.cpp).                 *)
(*                                                                         *)
(* Packets are named by how many the publisher sent before them; their     *)
(* sequence number is taken modulo M.                                      *)
(***************************************************************************)
EXTENDS Translator, FiniteSets

LOCAL SX == INSTANCE SequencesExt

CONSTANTS Scenes,         \* what may happen: sets of "padding", "late", "pli"
          Start,          \* the publisher's first sequence number
          MaxPackets,     \* bound on its packets
          MaxRepeats,     \* bound on the packets the network repeats
          MaxRetransmits, \* kMaxRetransmits: 2
          MaxNacks,       \* kMaxNacks: 150
          BlpSize,        \* the numbers of a NACK block after its first: 16
          KeyTimeout      \* kKeyframeTimeout in periods of kMinPLIPeriod

\* What the instances keep to.
Sensible ==
  /\ Start \in Num /\ {MaxPackets, MaxRepeats, KeyTimeout} \subseteq Nat
  /\ {MaxRetransmits, MaxNacks, BlpSize} \subseteq Nat \ {0}
  /\ \A s \in Scenes : s \subseteq {"padding", "late", "pli"}

VARIABLES
  scene,    \* what may happen in this run
  kind,     \* the packets made so far: is it padding?
  net,      \* packets on their way
  repeats,  \* repetitions so far
  got,      \* packets that came
  nack,     \* RtcpNackGenerator: highest_seq_num_, nack_info_list_
  asked,    \* how often each packet was asked for
  rr,       \* RtcpRrGenerator: rr_info_
  tr,       \* the translator of RtpPaddingRemovalHandler
  up,       \* what went up: number and packet
  pli       \* PliPacerHandler

streamVars == <<kind, net, repeats, got, nack, asked, rr, tr, up>>
vars == <<scene, streamVars, pli>>

Packet == 0..(MaxPackets - 1)
None   == -1
No(u)  == (Start + u) % M
Made   == DOMAIN kind
May(w) == w \in scene

TypeOK ==
  /\ scene \in Scenes
  /\ kind \in [Made -> BOOLEAN] /\ Made \subseteq Packet
  /\ net \subseteq Made /\ got \subseteq Made /\ repeats \in 0..MaxRepeats
  /\ nack.high \in Num \cup {None} /\ Len(nack.list) <= MaxNacks
  /\ \A i \in DOMAIN nack.list :
       nack.list[i] \in [n : Num, u : Packet, due : BOOLEAN, tries : 0..MaxRetransmits]
  /\ asked \in [Packet -> Nat]
  /\ rr.max \in Num \cup {None} /\ rr.lost \in Nat /\ rr.fraction \in 0..255
  /\ tr \in TranslatorType
  /\ pli.age \in 0..KeyTimeout
  /\ {pli.waiting, pli.timer, pli.enabled, pli.fir} \subseteq BOOLEAN

Init ==
  /\ scene \in Scenes
  /\ kind = [u \in {} |-> FALSE] /\ net = {} /\ repeats = 0 /\ got = {}
  /\ nack = [high |-> None, list |-> <<>>]
  /\ asked = [u \in Packet |-> 0]
  /\ rr = [base |-> None, first |-> None, max |-> None, cycle |-> 0, received |-> 0,
           expectedPrior |-> 0, receivedPrior |-> 0, lost |-> 0, fraction |-> 0]
  /\ tr = NewTranslator /\ up = <<>>
  /\ pli = [waiting |-> FALSE, timer |-> FALSE, enabled |-> TRUE, age |-> 0, fir |-> FALSE]

-----------------------------------------------------------------------------
(* RtcpNackGenerator.                                                      *)

Entry0(u) == [n |-> No(u), u |-> u, due |-> TRUE, tries |-> 0]

\* The packet is not looked for among the missing ones.
HandleNack_late(k, u) ==
  IF k.high = None \/ No(u) = k.high \/ Less(No(u), k.high)
  THEN [k EXCEPT !.high = IF @ = None THEN No(u) ELSE @]
  ELSE [k EXCEPT !.high = No(u),
          !.list = LET gap == ((No(u) - k.high) % M) - 1 IN
                   SubSeq(@ \o [j \in 1..gap |-> Entry0(u - gap - 1 + j)], 1,
                          IF Len(@) + gap > MaxNacks THEN MaxNacks ELSE Len(@) + gap)]

\* The list grows without limit.
HandleNack_uncapped(k, u) ==
  IF k.high = None THEN [k EXCEPT !.high = No(u)]
  ELSE IF No(u) = k.high THEN k
  ELSE IF Less(No(u), k.high)
       THEN [k EXCEPT !.list = SelectSeq(@, LAMBDA e : e.n # No(u))]
  ELSE LET gap == ((No(u) - k.high) % M) - 1
       IN [high |-> No(u),
           list |-> k.list \o [j \in 1..gap |-> Entry0(u - gap - 1 + j)]]

\* handleRtpPacket and addNacks: what comes late is struck off, what was
\* jumped over is added, and the newest entries are dropped when it is too many.
HandleNack(k, u) ==
  IF k.high = None THEN [k EXCEPT !.high = No(u)]
  ELSE IF No(u) = k.high THEN k
  ELSE IF Less(No(u), k.high)
       THEN [k EXCEPT !.list = SelectSeq(@, LAMBDA e : e.n # No(u))]
  ELSE LET gap == ((No(u) - k.high) % M) - 1
           all == k.list \o [j \in 1..gap |-> Entry0(u - gap - 1 + j)]
       IN [high |-> No(u),
           list |-> SubSeq(all, 1, IF Len(all) > MaxNacks THEN MaxNacks ELSE Len(all))]

\* handleRtpPacket returns true.
WantsNack(k, u) ==
  k.high # None /\ No(u) # k.high /\ ~Less(No(u), k.high) /\ HandleNack(k, u).list # <<>>

Ask(acc, e) ==
  [acc EXCEPT !.list = Append(@, [e EXCEPT !.due = FALSE, !.tries = @ + 1]),
              !.asked = @ \cup {e.u}]
Keep(acc, e) == [acc EXCEPT !.list = Append(@, e)]

\* One round of the loops of addNackPacketToRr.  An entry that is struck off
\* inside a block makes the loop pass over the next one, and the entry that
\* ends a block is passed over too.
Round(acc, e) ==
  LET inside == acc.base # None /\ (e.n - acc.base - 1) % M < BlpSize
      spent == e.due /\ e.tries >= MaxRetransmits
  IN IF acc.pass THEN [Keep(acc, e) EXCEPT !.pass = FALSE]
     ELSE IF acc.base # None /\ ~inside THEN [Keep(acc, e) EXCEPT !.base = None]
     ELSE IF spent THEN [acc EXCEPT !.pass = inside]
     ELSE IF ~e.due THEN Keep(acc, e)
     ELSE [Ask(acc, e) EXCEPT !.base = IF @ = None THEN e.n ELSE @]

AddNackPacketToRr(list) ==
  SX!FoldLeft(Round, [list |-> <<>>, asked |-> {}, base |-> None, pass |-> FALSE], list)

-----------------------------------------------------------------------------
(* RtcpRrGenerator.                                                        *)

\* A wrap is seen in any smaller number.
HandleRr_any(r, u) ==
  [r EXCEPT !.received = @ + 1,
            !.base = IF @ = None THEN No(u) ELSE @, !.first = IF @ = None THEN u ELSE @,
            !.cycle = IF r.max # None /\ No(u) < r.max THEN @ + 1 ELSE @,
            !.max = IF r.max = None \/ ~Less(No(u), r.max) THEN No(u) ELSE @]

\* handleRtpPacket: what comes twice counts twice.
HandleRr(r, u) ==
  LET newer == r.max # None /\ ~Less(No(u), r.max) IN
  [r EXCEPT !.received = @ + 1,
            !.base = IF @ = None THEN No(u) ELSE @, !.first = IF @ = None THEN u ELSE @,
            !.cycle = IF newer /\ No(u) < r.max THEN @ + 1 ELSE @,
            !.max = IF r.max = None \/ newer THEN No(u) ELSE @]

Extended(r) == r.cycle * M + r.max

GenerateReceiverReport(r) ==
  LET expected == Extended(r) - r.base + 1
      expectedNow == expected - r.expectedPrior
      lostNow == expectedNow - (r.received - r.receivedPrior)
  IN [r EXCEPT !.lost = IF expected < r.received THEN 0 ELSE expected - r.received,
               !.expectedPrior = expected, !.receivedPrior = r.received,
               !.fraction = IF expectedNow # 0 /\ lostNow > 0
                            THEN ((lostNow * 256) \div expectedNow) % 256 ELSE 0]

-----------------------------------------------------------------------------
(* One packet up the pipeline.                                             *)

\* RtpPaddingRemovalHandler::read: padding is left out of the numbers.
Remove(u) ==
  LET g == Get(tr, No(u), kind[u]) IN
  /\ tr' = g.t
  /\ up' = IF kind[u] \/ g.e.kind # "Valid" THEN up
           ELSE Append(up, [n |-> g.e.out, u |-> u])

\* RtcpFeedbackGenerationHandler::read; due: the interval of the reports is over.
Feedback(u, due) ==
  LET k == HandleNack(nack, u)
      r == HandleRr(rr, u)
      a == AddNackPacketToRr(k.list)
  IN IF due \/ WantsNack(nack, u)
     THEN /\ rr' = GenerateReceiverReport(r)
          /\ nack' = [k EXCEPT !.list = a.list]
          /\ asked' = [v \in Packet |-> asked[v] + (IF v \in a.asked THEN 1 ELSE 0)]
     ELSE rr' = r /\ nack' = k /\ UNCHANGED asked

Read(u) ==
  /\ u \in net
  /\ got' = got \cup {u}
  /\ \/ net' = net \ {u} /\ UNCHANGED repeats
     \/ May("late") /\ repeats < MaxRepeats /\ repeats' = repeats + 1 /\ UNCHANGED net
  /\ \E due \in BOOLEAN : Feedback(u, due)
  /\ Remove(u)
  /\ May("late") \/ \A v \in net : u <= v
  /\ UNCHANGED <<scene, kind, pli>>

\* The publisher and the network.
Publish ==
  /\ ~May("pli") /\ Cardinality(Made) < MaxPackets
  /\ LET u == Cardinality(Made) IN
       /\ \E padding \in IF May("padding") THEN BOOLEAN ELSE {FALSE} :
            kind' = [v \in Made \cup {u} |-> IF v = u THEN padding ELSE kind[v]]
       /\ net' = net \cup {u}
  /\ UNCHANGED <<scene, repeats, got, nack, asked, rr, tr, up, pli>>

Lose(u) ==
  /\ u \in net /\ net' = net \ {u}
  /\ UNCHANGED <<scene, kind, repeats, got, nack, asked, rr, tr, up, pli>>

\* The publisher answers a request, at most as often as it was asked.
Retransmit(u) ==
  /\ May("late") /\ u \notin net \cup got /\ asked[u] > 0 /\ repeats < MaxRepeats
  /\ net' = net \cup {u} /\ repeats' = repeats + 1
  /\ UNCHANGED <<scene, kind, got, nack, asked, rr, tr, up, pli>>

\* More than kMinNackDelayMs go by.
Delay ==
  /\ \E i \in DOMAIN nack.list : ~nack.list[i].due
  /\ nack' = [nack EXCEPT !.list =
               [i \in DOMAIN @ |-> [@[i] EXCEPT !.due = TRUE]]]
  /\ UNCHANGED <<scene, kind, net, repeats, got, asked, rr, tr, up, pli>>

-----------------------------------------------------------------------------
(* PliPacerHandler.  age counts the periods since the last key frame.      *)

Pli == May("pli") /\ UNCHANGED <<scene, streamVars>>

\* write: a PLI comes down; it is dropped while one is being waited for.
WritePli ==
  /\ Pli /\ ~(pli.enabled /\ pli.waiting)
  /\ pli' = IF pli.enabled THEN [pli EXCEPT !.waiting = TRUE, !.timer = TRUE] ELSE pli

\* read of a key frame
ReadKeyframe ==
  /\ Pli /\ pli.enabled
  /\ pli' = [pli EXCEPT !.age = 0, !.waiting = FALSE, !.timer = FALSE]

\* The next PLI is not scheduled.
PliTimer_once ==
  /\ Pli /\ pli.timer
  /\ pli' = IF pli.age >= KeyTimeout
            THEN [pli EXCEPT !.waiting = FALSE, !.timer = FALSE, !.fir = TRUE]
            ELSE [pli EXCEPT !.timer = FALSE]

\* The task of scheduleNextPLI: sendFIR or sendPLI.
PliTimer ==
  /\ Pli /\ pli.timer
  /\ pli' = IF pli.age >= KeyTimeout
            THEN [pli EXCEPT !.waiting = FALSE, !.timer = FALSE, !.fir = TRUE]
            ELSE [pli EXCEPT !.timer = pli.waiting /\ pli.enabled, !.age = @ + 1]

\* A period goes by without a request.
Quiet ==
  /\ Pli /\ ~pli.timer /\ pli.age < KeyTimeout
  /\ pli' = [pli EXCEPT !.age = @ + 1]

\* enable, disable
EnablePacer ==
  /\ Pli
  /\ pli' = [pli EXCEPT !.enabled = ~@]

Next ==
  \/ Publish \/ Delay \/ \E u \in Packet : Read(u) \/ Lose(u) \/ Retransmit(u)
  \/ WritePli \/ ReadKeyframe \/ PliTimer \/ Quiet \/ EnablePacer

Spec == Init /\ [][Next]_vars

\* The worker runs the tasks that are scheduled on it.
FairSpec == Spec /\ WF_vars(PliTimer)

-----------------------------------------------------------------------------
(* Properties.                                                             *)

\* A packet is asked for kMaxRetransmits times at most, whatever comes late,
\* twice or out of order meanwhile (RtcpNackGenerator.cpp:80).
AskedAtMost == \A u \in Packet : asked[u] <= MaxRetransmits

\* Only what did not come is asked for.
AsksMissing ==
  [][\A u \in Packet : asked'[u] > asked[u] => u \notin got']_vars

\* A packet leaves the list of the missing ones when it came or was asked for
\* often enough; the loops that strike entries off spare the others.
GivenUpLate ==
  [][\A i \in DOMAIN nack.list :
       LET u == nack.list[i].u IN
       \/ u \in got' \/ asked[u] = MaxRetransmits
       \/ \E j \in DOMAIN nack'.list : nack'.list[j].u = u]_vars

\* The extended number of a report is that of the latest packet, counted from
\* the wrap the first packet fell into (RtcpRrGenerator.cpp:61).
ExtendedHighest ==
  got # {} =>
    LET last == CHOOSE u \in got : \A v \in got : v <= u IN
    Extended(rr) = (Start + last) - M * ((Start + rr.first) \div M)

\* Besides, a report never claims more lost packets than are missing.
Reports ==
  [][/\ ExtendedHighest'
     /\ rr'.receivedPrior # rr.receivedPrior =>
          rr'.lost <= Cardinality({u \in Made' \ got' : u > rr'.first})]_vars

\* Two packets that go up with the same number are one packet.  (Not so where
\* padding is dropped and packets come late: SequenceNumberTranslator.cpp:103.)
FreshUp ==
  \A i, j \in DOMAIN up : up[i].n = up[j].n => up[i].u = up[j].u

\* Padding leaves no gap in the numbers, and a packet that is missing above is
\* asked for below by the number the publisher gave it.
GapsAreLost ==
  LET sent == {up[i].n : i \in DOMAIN up} IN
  May("padding") => \A i \in DOMAIN up :
    i > 1 => LET gap == (up[i].n - up[i - 1].n - 1) % M
                 lost == {u \in up[i - 1].u..up[i].u : u \notin got}
             IN /\ gap <= Cardinality(lost)
                /\ i = Len(up) => \A j \in 1..gap :
                     LET e == Reverse(tr, (up[i - 1].n + j) % M) IN
                     e.kind = "Valid" => \E u \in lost : e.in = No(u)

\* Together: the numbers that go up; the NACKs.
NumbersUp == FreshUp /\ GapsAreLost
Requests  == []AskedAtMost /\ AsksMissing /\ GivenUpLate

\* Whoever asks for a key frame gets one, or the publisher gets a FIR, unless
\* the pacer is switched off meanwhile.  (When it is on again by the time its
\* task is over, it waits without a task: PliPacerHandler.cpp:61.)
KeyframeOrFir ==
  pli.waiting /\ pli.timer ~> (~pli.waiting \/ ~pli.enabled)
=============================================================================
