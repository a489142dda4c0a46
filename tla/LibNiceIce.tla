----------------------------- MODULE LibNiceIce -----------------------------
(***************************************************************************)
(* An ICE connection over libnice (LibNiceConnection.cpp): the owner's     *)
(* calls, the thread that runs the main loop of GLib with the callbacks of *)
(* the agent, and the worker that sends.  closeMutex_ protects nothing:    *)
(* scoped_lock(closeMutex_) declares a variable of that name.  The model   *)
(* stops where a pointer close has dropped is followed: crashed says which *)
(* step did.                                                               *)
(***************************************************************************)
EXTENDS Integers, Sequences, FiniteSets, Lists

CONSTANTS Comps,      \* the components: {1}, or {1, 2} without rtcp-mux
          Kinds,      \* the local candidates an agent may find
          Usable,     \* those with an IPv4 address and a port
          Remotes,    \* the candidates the peer sends
          MaxCands    \* bound on the local candidates of a component

Sensible ==
  /\ Comps \in {{1}, {1, 2}} /\ Usable \subseteq Kinds /\ MaxCands \in Nat
  /\ \A r \in Remotes : /\ r.port \in BOOLEAN /\ r.comp \in {1, 2}
                        /\ r.media \in {"video", "audio"}

VARIABLES
  bundle,    \* the transport carries both media, or video only
  ice,       \* checkIceState()
  agent,     \* agent_, loop_ and context_
  loop,      \* the thread, before and in g_main_loop_run
  quit,      \* g_main_loop_quit came while the loop ran
  listener,  \* listener_ is set
  cands,     \* the local candidates of each component, as the agent lists them
  fresh,     \* the new-candidate callbacks that are due
  delivered, \* candsDelivered_
  told,      \* the local candidates told to the listener
  remote,    \* the remote candidates the agent was told of
  data,      \* onData: what it has read so far
  due,       \* the worker has yet to ask for the selected pair
  sending,   \* sendData is past its test of the state
  phase,     \* how far close() is
  late,      \* the thread did not end in time
  crashed    \* the step that followed a dropped pointer, if any did

gathered == <<cands, fresh, delivered, told>>
closing  == <<agent, quit, listener, phase, late>>
vars ==
  <<bundle, ice, loop, gathered, closing, remote, data, due, sending, crashed>>

SeqOf(S, n) == UNION {[1..k -> S] : k \in 0..n}

TypeOK ==
  /\ {bundle, quit, listener, due, sending, late} \subseteq BOOLEAN
  /\ ice \in {"INITIAL", "READY", "FINISHED", "FAILED"}
  /\ agent \in {"none", "made", "freed"}
  /\ loop \in {"none", "new", "tested", "run", "over"}
  /\ cands \in [Comps -> SeqOf(Kinds, MaxCands)] /\ fresh \in [Comps -> 0..MaxCands]
  /\ delivered \in Nat
  /\ \A i \in DOMAIN told : told[i] \in Comps \X Usable
  /\ remote \subseteq Remotes
  /\ data \in {"no", "ready", "good", "null"}
  /\ phase \in {"open", "begun", "join", "free", "closed"}
  /\ crashed \in {"no", "loop", "data", "send", "pair"}

Init ==
  /\ bundle \in BOOLEAN
  /\ ice = "INITIAL" /\ agent = "none" /\ loop = "none" /\ quit = FALSE /\ listener = TRUE
  /\ cands = [c \in Comps |-> <<>>] /\ fresh = [c \in Comps |-> 0]
  /\ delivered = 0 /\ told = <<>> /\ remote = {}
  /\ data = "no" /\ due = FALSE /\ sending = FALSE
  /\ phase = "open" /\ late = FALSE /\ crashed = "no"

-----------------------------------------------------------------------------
(* The owner.                                                              *)

\* start makes the agent with its stream, starts the thread and gathers.
Start ==
  /\ agent = "none" /\ ice = "INITIAL"
  /\ agent' = "made" /\ loop' = "new"
  /\ UNCHANGED <<bundle, ice, quit, listener, phase, late, gathered, remote, data, due,
                 sending, crashed>>

\* What setRemoteCandidates passes on: component 1, of this medium unless in a
\* bundle, and with a port.  Without an agent it closes and says false.
Fit(r) == r.comp = 1 /\ (bundle \/ r.media = "video") /\ r.port

SetRemoteCandidates ==
  /\ agent = "made"
  /\ \E r \in SUBSET Remotes : remote' = remote \cup {x \in r : Fit(x)}
  /\ UNCHANGED <<bundle, ice, loop, gathered, closing, data, due, sending, crashed>>

\* close(): FINISHED unless it FAILED, and quit, which a loop that does not
\* run yet does not notice.
CloseBegin ==
  /\ phase = "open" /\ agent = "made"
  /\ ice' = IF ice = "FAILED" THEN ice ELSE "FINISHED"
  /\ quit' = (loop = "run")
  /\ phase' = "begun"
  /\ UNCHANGED <<bundle, agent, loop, listener, late, gathered, remote, data, due, sending, crashed>>

CloseListener ==
  /\ phase = "begun"
  /\ listener' = FALSE /\ phase' = "join"
  /\ UNCHANGED <<bundle, ice, agent, loop, quit, late, gathered, remote, data, due, sending, crashed>>

\* timed_join waits for five milliseconds; interrupt() does not reach GLib.
CloseJoin ==
  /\ phase = "join"
  /\ late' = (loop # "over")
  /\ phase' = "free"
  /\ UNCHANGED <<bundle, ice, agent, loop, quit, listener, gathered, remote, data, due,
                 sending, crashed>>

CloseFree ==
  /\ phase = "free"
  /\ agent' = "freed" /\ phase' = "closed"
  /\ UNCHANGED <<bundle, ice, loop, quit, listener, late, gathered, remote, data, due,
                 sending, crashed>>

-----------------------------------------------------------------------------
(* The thread of the loop.                                                 *)

\* mainLoop tests agent_ and loop_, then runs the loop.
LoopTest ==
  /\ loop = "new"
  /\ loop' = IF agent = "made" THEN "tested" ELSE "over"
  /\ UNCHANGED <<bundle, ice, gathered, closing, remote, data, due, sending, crashed>>

LoopRun ==
  /\ loop = "tested" /\ loop' = "run"
  /\ crashed' = IF agent = "freed" THEN "loop" ELSE "no"
  /\ UNCHANGED <<bundle, ice, gathered, closing, remote, data, due, sending>>

LoopEnd ==
  /\ loop = "run" /\ quit /\ data = "no" /\ loop' = "over"
  /\ UNCHANGED <<bundle, ice, gathered, closing, remote, data, due, sending, crashed>>

\* The agent calls back as long as it lives, one callback at a time.
Back == loop = "run" /\ agent = "made" /\ data = "no"

\* The agent finds a candidate, of the host already within start; the callback
\* may come after it found more.
Found(c) ==
  /\ agent = "made" /\ Len(cands[c]) < MaxCands
  /\ \E x \in Kinds : cands' = [cands EXCEPT ![c] = Append(@, x)]
  /\ fresh' = [fresh EXCEPT ![c] = @ + 1]
  /\ UNCHANGED <<bundle, ice, loop, delivered, told, closing, remote, data, due, sending, crashed>>

\* The candidates of the list after those delivered, or all of it when it is
\* shorter than that.
Rest(list) ==
  IF delivered <= Len(list) THEN SubSeq(list, delivered + 1, Len(list)) ELSE list

\* getCandidate: one count for the lists of all components.
GetCandidate(c) ==
  /\ agent = "made" /\ fresh[c] > 0
  /\ fresh' = [fresh EXCEPT ![c] = @ - 1]
  /\ LET new == Rest(cands[c])
         usable == Only(new, Usable)
     IN /\ delivered' = delivered + Len(new)
        /\ told' = IF listener THEN told \o [i \in DOMAIN usable |-> <<c, usable[i]>>] ELSE told
  /\ UNCHANGED <<bundle, ice, loop, cands, closing, remote, data, due, sending, crashed>>

\* updateComponentState: READY or FAILED of every component.  The worker hears
\* of READY and will ask for the pair.
Changed(s) ==
  /\ Back /\ ice \in {"INITIAL", "READY"} /\ s # ice
  /\ ice' = s
  /\ due' = (due \/ s = "READY")
  /\ UNCHANGED <<bundle, loop, gathered, closing, remote, data, sending, crashed>>

\* cb_nice_recv and onData: the state, the listener, then the call.
DataState ==
  /\ Back /\ ice = "READY" /\ data' = "ready"
  /\ UNCHANGED <<bundle, ice, loop, gathered, closing, remote, due, sending, crashed>>

DataListener ==
  /\ data = "ready" /\ data' = IF listener THEN "good" ELSE "null"
  /\ UNCHANGED <<bundle, ice, loop, gathered, closing, remote, due, sending, crashed>>

DataPass ==
  /\ data \in {"good", "null"} /\ data' = "no"
  /\ crashed' = IF data = "null" THEN "data" ELSE "no"
  /\ UNCHANGED <<bundle, ice, loop, gathered, closing, remote, due, sending>>

-----------------------------------------------------------------------------
(* The worker.                                                             *)

SendTest ==
  /\ ice = "READY" /\ ~sending /\ sending' = TRUE
  /\ UNCHANGED <<bundle, ice, loop, gathered, closing, remote, data, due, crashed>>

Send ==
  /\ sending /\ sending' = FALSE
  /\ crashed' = IF agent = "freed" THEN "send" ELSE "no"
  /\ UNCHANGED <<bundle, ice, loop, gathered, closing, remote, data, due>>

\* getSelectedPair, which follows what the agent did not set.
GetSelectedPair ==
  /\ due /\ due' = FALSE
  /\ crashed' = IF agent = "freed" THEN "pair" ELSE "no"
  /\ UNCHANGED <<bundle, ice, loop, gathered, closing, remote, data, sending>>

Next ==
  /\ crashed = "no"
  /\ \/ Start \/ SetRemoteCandidates
     \/ CloseBegin \/ CloseListener \/ CloseJoin \/ CloseFree
     \/ LoopTest \/ LoopRun \/ LoopEnd
     \/ \E c \in Comps : Found(c) \/ GetCandidate(c)
     \/ \E s \in {"READY", "FAILED"} : Changed(s)
     \/ DataState \/ DataListener \/ DataPass \/ SendTest \/ Send \/ GetSelectedPair

Spec == Init /\ [][Next]_vars

-----------------------------------------------------------------------------
(* Properties.                                                             *)

\* A single component: the listener hears of each usable candidate once, in
\* the order of the agent, however many callbacks wait (LibNiceConnection.cpp:332).
NewOnly ==
  Comps = {1} /\ listener =>
    LET known == Only(SubSeq(cands[1], 1, delivered), Usable)
    IN /\ told = [i \in DOMAIN known |-> <<1, known[i]>>]
       /\ fresh[1] = 0 => delivered = Len(cands[1])

\* A close() that joined the thread in time leaves nothing of it running, and
\* only a late one lets the loop run on what was freed (LibNiceConnection.cpp:91).
\* A send, data and a selected pair whose tests came before close() may meet
\* what it dropped whether it is late or not: the model stops, and nothing is
\* claimed of them.
ClosedIsQuiet ==
  /\ phase \in {"free", "closed"} /\ ~late => loop = "over" /\ data = "no"
  /\ crashed = "loop" => late

\* Together.
Sound == NewOnly /\ ClosedIsQuiet
=============================================================================
