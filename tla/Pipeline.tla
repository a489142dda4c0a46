------------------------------ MODULE Pipeline ------------------------------
(***************************************************************************)
(* The handler pipeline every erizo packet goes through                    *)
(* (pipeline/Pipeline.cpp, Pipeline-inl.h, HandlerContext-inl.h,           *)
(* Handler.h): a list of contexts, one for each handler added, linked in   *)
(* both directions by finalize().  A packet is handed from context to      *)
(* context by nested calls, each of which locks a weak pointer to keep the *)
(* pipeline while it lasts: WebRtcConnection::close() resets the owner's   *)
(* pointer on one thread while the worker may be inside.                   *)
(***************************************************************************)
EXTENDS Integers, Sequences, FiniteSets, Lists

SX == INSTANCE SequencesExt

CONSTANTS Handlers,  \* the handlers of a pipeline
          Dir,       \* the direction of each: "IN", "OUT" or "BOTH"
          MaxCtxs,   \* bound on the contexts ever made
          MaxCalls   \* bound on the packets of the worker

Sensible ==
  /\ Dir \in [Handlers -> {"IN", "OUT", "BOTH"}]
  /\ MaxCtxs \in Nat \ {0} /\ MaxCalls \in Nat

VARIABLES
  of,        \* the handler of every context made
  ctxs, inCtxs, outCtxs,   \* the lists
  nextIn, nextOut,         \* the links, None at the ends
  front, back,             \* front_ and back_
  attached,  \* contexts with attached_ set
  count,     \* attachCount_ of each handler
  ctx,       \* ctx_ of each handler
  final,     \* finalize() was called after the last change of the lists
  owned,     \* WebRtcConnection::pipeline_ is not yet reset
  stack,     \* the nested calls of each thread
  calls,     \* packets so far
  crashed    \* where freed memory was used, if anywhere

lists == <<of, ctxs, inCtxs, outCtxs>>
links == <<nextIn, nextOut, front, back>>
marks == <<attached, count, ctx>>
vars == <<lists, links, marks, final, owned, stack, calls, crashed>>

Threads == {"worker", "owner"}
None == 0
Ids  == 1..MaxCtxs
Inbound(c)  == Dir[of[c]] \in {"IN", "BOTH"}
Outbound(c) == Dir[of[c]] \in {"OUT", "BOTH"}

TypeOK ==
  /\ DOMAIN of \subseteq Ids /\ of \in [DOMAIN of -> Handlers]
  /\ SX!ToSet(ctxs) \subseteq DOMAIN of
  /\ nextIn \in [Ids -> Ids \cup {None}] /\ nextOut \in [Ids -> Ids \cup {None}]
  /\ {front, back} \subseteq Ids \cup {None}
  /\ attached \subseteq Ids /\ count \in [Handlers -> 0..MaxCtxs]
  /\ ctx \in [Handlers -> Ids \cup {None}]
  /\ final \in BOOLEAN /\ owned \in BOOLEAN /\ calls \in 0..MaxCalls
  /\ \A t \in Threads : \A i \in DOMAIN stack[t] :
       stack[t][i] \in [c : Ids, ev : {"read", "write", "close"}, in : BOOLEAN, guard : BOOLEAN]
  /\ crashed \in {"no", "entering", "inside"}

Init ==
  /\ of = [c \in {} |-> None] /\ ctxs = <<>> /\ inCtxs = <<>> /\ outCtxs = <<>>
  /\ nextIn = [c \in Ids |-> None] /\ nextOut = [c \in Ids |-> None]
  /\ front = None /\ back = None
  /\ attached = {} /\ count = [h \in Handlers |-> 0] /\ ctx = [h \in Handlers |-> None]
  /\ final = FALSE /\ owned = TRUE
  /\ stack = [t \in Threads |-> <<>>] /\ calls = 0 /\ crashed = "no"

-----------------------------------------------------------------------------
(* Building and changing the pipeline, between packets.                    *)

Quiet == owned /\ \A t \in Threads : stack[t] = <<>>
Keep  == UNCHANGED <<owned, stack, calls, crashed>>

Put(s, c, atFront) == IF atFront THEN <<c>> \o s ELSE Append(s, c)

\* addFront, addBack: addHelper
Add(h, atFront) ==
  /\ Quiet /\ Cardinality(DOMAIN of) < MaxCtxs
  /\ LET c == Cardinality(DOMAIN of) + 1 IN
       /\ of' = [d \in DOMAIN of \cup {c} |-> IF d = c THEN h ELSE of[d]]
       /\ ctxs' = Put(ctxs, c, atFront)
       /\ inCtxs' = IF Dir[h] = "OUT" THEN inCtxs ELSE Put(inCtxs, c, atFront)
       /\ outCtxs' = IF Dir[h] = "IN" THEN outCtxs ELSE Put(outCtxs, c, atFront)
  /\ final' = FALSE
  /\ UNCHANGED <<links, marks>> /\ Keep

\* removeAt of each context in gone, whose handlers keep their count and ctx_.
RemoveAt(gone) ==
  LET rest(s) == Only(s, Ids \ gone) IN
  /\ ctxs' = rest(ctxs) /\ inCtxs' = rest(inCtxs) /\ outCtxs' = rest(outCtxs)
  /\ attached' = attached \ gone
  /\ final' = FALSE
  /\ UNCHANGED <<of, links, count, ctx>> /\ Keep

\* removeHelper: the loop passes over the context after one it removes.
Found(h) ==
  SX!FoldLeft(LAMBDA a, c :
      IF a.pass THEN [a EXCEPT !.pass = FALSE]
      ELSE IF of[c] = h THEN [gone |-> a.gone \cup {c}, pass |-> TRUE] ELSE a,
    [gone |-> {}, pass |-> FALSE], ctxs).gone

Remove(h)   == Quiet /\ Found(h) # {} /\ RemoveAt(Found(h))
RemoveFront == Quiet /\ ctxs # <<>> /\ RemoveAt({ctxs[1]})
RemoveBack  == Quiet /\ ctxs # <<>> /\ RemoveAt({ctxs[Len(ctxs)]})

After(s, c) ==
  IF \E i \in 1..(Len(s) - 1) : s[i] = c
  THEN s[(CHOOSE i \in 1..(Len(s) - 1) : s[i] = c) + 1] ELSE None

\* The last one of a list keeps the link it had.
Linked_open(next, s) ==
  [c \in Ids |-> IF After(s, c) # None THEN After(s, c) ELSE next[c]]

\* The links of a list, where c has one by now.  The last has none.
Linked(next, s) ==
  [c \in Ids |-> IF c \in SX!ToSet(s) THEN After(s, c) ELSE next[c]]

\* finalize: the links, and attachPipeline for the contexts not yet attached;
\* a handler attached before, by this or another context, gets no ctx_.
Finalize ==
  /\ Quiet /\ ~final
  /\ nextIn' = Linked(nextIn, inCtxs)
  /\ nextOut' = Linked(nextOut, SX!Reverse(outCtxs))
  /\ front' = IF inCtxs = <<>> THEN None ELSE inCtxs[1]
  /\ back' = IF outCtxs = <<>> THEN None ELSE outCtxs[Len(outCtxs)]
  /\ LET new(h) == {c \in SX!ToSet(ctxs) \ attached : of[c] = h} IN
       /\ count' = [h \in Handlers |-> count[h] + Cardinality(new(h))]
       /\ ctx' = [h \in Handlers |->
                    IF new(h) = {} THEN ctx[h]
                    ELSE IF count'[h] = 1 THEN CHOOSE c \in new(h) : TRUE ELSE None]
  /\ attached' = SX!ToSet(ctxs)
  /\ final' = TRUE
  /\ UNCHANGED lists /\ Keep

-----------------------------------------------------------------------------
(* Packets.  The pipeline is there while its owner or a guard holds it.    *)

Held(st) == owned \/ \E t \in Threads : \E i \in DOMAIN st[t] : st[t][i].guard

Built == UNCHANGED <<lists, links, marks, final>>
Ok    == crashed = "no"
Top(t) == stack[t][Len(stack[t])]
Push(t, c, ev) == [stack EXCEPT ![t] = Append(@, [c |-> c, ev |-> ev, in |-> FALSE, guard |-> FALSE])]

\* Pipeline::read and write, up to the call of the first context.
Start(ev) ==
  /\ Ok /\ final /\ owned /\ stack["worker"] = <<>> /\ calls < MaxCalls
  /\ LET c == IF ev = "read" THEN front ELSE back IN
       stack' = IF c = None THEN stack ELSE Push("worker", c, ev)
  /\ calls' = calls + 1
  /\ Built /\ UNCHANGED <<owned, crashed>>

\* Pipeline::close, called by WebRtcConnection::close.
StartClose ==
  /\ Ok /\ final /\ owned /\ stack["owner"] = <<>> /\ back # None
  /\ stack' = Push("owner", back, "close")
  /\ Built /\ UNCHANGED <<owned, calls, crashed>>

\* read, write, close of a context: auto guard = pipelineWeak_.lock().  When
\* the pipeline is gone by then, so is the context.
Enter(t) ==
  /\ Ok /\ stack[t] # <<>> /\ ~Top(t).in
  /\ crashed' = IF Held(stack) THEN "no" ELSE IF Len(stack[t]) = 1 THEN "entering" ELSE "inside"
  /\ stack' = [stack EXCEPT ![t][Len(stack[t])] = [@ EXCEPT !.guard = TRUE, !.in = TRUE]]
  /\ Built /\ UNCHANGED <<owned, calls>>

\* The handler passes the packet on, or answers it the other way: fireRead,
\* fireWrite, fireClose.
Fire(t, ev) ==
  /\ Ok /\ stack[t] # <<>> /\ Top(t).in
  /\ ev = Top(t).ev \/ (Dir[of[Top(t).c]] = "BOTH" /\ Top(t).ev = "read" /\ ev = "write")
  /\ LET c == IF ev = "read" THEN nextIn[Top(t).c] ELSE nextOut[Top(t).c] IN
       /\ c # None
       /\ stack' = Push(t, c, ev)
  /\ Built /\ UNCHANGED <<owned, calls, crashed>>

\* The innermost call returns, and its guard is gone.
Return(t) ==
  /\ Ok /\ stack[t] # <<>> /\ Top(t).in
  /\ Top(t).ev = "close" => nextOut[Top(t).c] = None \/ ~owned
  /\ stack' = [stack EXCEPT ![t] = SubSeq(@, 1, Len(@) - 1)]
  /\ Built /\ UNCHANGED <<owned, calls, crashed>>

\* pipeline_.reset()
Reset ==
  /\ Ok /\ owned /\ final /\ stack["owner"] = <<>>
  /\ owned' = FALSE
  /\ Built /\ UNCHANGED <<stack, calls, crashed>>

Next ==
  \/ \E h \in Handlers : Remove(h) \/ \E atFront \in BOOLEAN : Add(h, atFront)
  \/ RemoveFront \/ RemoveBack \/ Finalize \/ StartClose \/ Reset
  \/ \E ev \in {"read", "write"} : Start(ev)
  \/ \E t \in Threads : \/ Enter(t) \/ Return(t)
                        \/ \E ev \in {"read", "write", "close"} : Fire(t, ev)

Spec == Init /\ [][Next]_vars

-----------------------------------------------------------------------------
(* Properties.                                                             *)

Place(c) == CHOOSE i \in DOMAIN ctxs : ctxs[i] = c

\* The lists of the two directions are what their names say.
Mirrors ==
  /\ inCtxs = Only(ctxs, {c \in DOMAIN of : Inbound(c)})
  /\ outCtxs = Only(ctxs, {c \in DOMAIN of : Outbound(c)})

\* b is the next of the pipeline that takes ev after a.
Neighbours(a, b, ev) ==
  IF ev = "read"
  THEN Place(a) < Place(b) /\ Inbound(b)
       /\ \A i \in (Place(a) + 1)..(Place(b) - 1) : ~Inbound(ctxs[i])
  ELSE Place(b) < Place(a) /\ Outbound(b)
       /\ \A i \in (Place(b) + 1)..(Place(a) - 1) : ~Outbound(ctxs[i])

\* A packet, or an answer to it, is only ever with handlers of the pipeline and
\* passes all of its direction in their order, whatever was added to, removed
\* from and linked in the lists before.
VisitsInOrder ==
  \A t \in Threads : \A i \in DOMAIN stack[t] :
    /\ stack[t][i].c \in SX!ToSet(ctxs)
    /\ i > 1 => Neighbours(stack[t][i - 1].c, stack[t][i].c, stack[t][i].ev)

\* A handler with one context finds its pipeline through it.
KnowsContext ==
  final => \A c \in SX!ToSet(ctxs) :
             (\A d \in DOMAIN of : of[d] = of[c] => d = c) => ctx[of[c]] = c

PacketsInOrder == Mirrors /\ VisitsInOrder /\ KnowsContext

\* A packet that is inside the pipeline, between one handler and the next,
\* keeps it although close() resets the owner's pointer meanwhile.
GuardsHold == crashed # "inside"
=============================================================================
