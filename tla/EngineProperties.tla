--------------------------- MODULE EngineProperties ---------------------------
(****************************************************************************)
(* What the execution engine of ProcessEngine has to guarantee.             *)
(****************************************************************************)
EXTENDS ProcessEngine

\* How many of the entries `e' are outstanding: on the agenda, kept by a process
\* as deferred events, or held by a handler that has not answered.
Occurrences(s, e) == Cardinality({i \in DOMAIN s : s[i] = e})

OnAgenda(e)    == Occurrences(agenda, e)
Deferred(p, e) == Occurrences(deferred[p], e)
Held(c)        == IF c \in Late THEN pending[c] ELSE 0

\* Work that will take the token at an automatic object further.
WorkAt(o) ==
    OnAgenda(Item("begun", o)) + Held(Item("begun", o))
  + OnAgenda(Item("arrived", o)) + Deferred(ProcessOf[o], Item("arrived", o))
  + OnAgenda(Item("handled", o)) + Held(Item("handled", o))

\* Objects that a token leaves without an event from outside.
Automatic == OfKind({"start", "end", "task", "xor", "message", "timeout"})

SavesInFlight == io["save"] + io["saveAndClose"] + io["close"]

\* Nothing is running and nothing is under way outside either.
Quiet ==
  /\ agenda = << >>
  /\ \A c \in Late : pending[c] = 0
  /\ \A p \in Processes : deferred[p] = << >>

BoundaryEventsOf(o) == {Boundaries[o][i] : i \in DOMAIN Boundaries[o]}

EndEvents == {o \in OfKind({"end"}) : ProcessOf[o] = Main}
Ended     == visited \cap EndEvents # {}

\* What the definition is after parsing without errors: assertNoIncomingSequenceFlows of
\* start and boundary events, assertNoOutgoingSequenceFlows of end events and
\* assertOutgoingSequenceFlows of all others; an event is attached to one activity
\* (attachedToRef), a name belongs to one process, and so do both ends of a flow.
ASSUME ValidationAssumption ==
  /\ \A o \in FlowObjects : \A i \in DOMAIN Outgoing[o] :
       Kind[Outgoing[o][i]] \notin {"start", "message", "timeout"}
  /\ \A o \in FlowObjects : Outgoing[o] = << >> <=> Kind[o] = "end"
  /\ \A o \in FlowObjects :
       /\ \A i \in DOMAIN Outgoing[o] : ProcessOf[Outgoing[o][i]] = ProcessOf[o]
       /\ \A b \in BoundaryEventsOf(o) : ProcessOf[b] = ProcessOf[o]
  /\ \A o, x \in FlowObjects : BoundaryEventsOf(o) \cap BoundaryEventsOf(x) # {} => o = x
  /\ \A p \in Processes : ProcessOf[StartOf[p]] = p
  /\ \A p, q \in Processes \ {Main} : CallOf[p] = CallOf[q] => p = q

(****************************************************************************)
(* Safety.                                                                  *)
(****************************************************************************)

\* Every token at an automatic object has exactly one piece of work that will
\* move it on, however late handlers answer and however long its arrival is
\* deferred by saves: the engine neither loses a token nor doubles one.
TokensHaveWork == \A o \in Automatic : tokens[o] = WorkAt(o)

\* An event the main process keeps back is emitted again: the flag is up, and a
\* save that will reset it is in flight (persistency that answers).
NoEventStranded ==
  deferred[Main] # << >> =>
    deferEvents /\ (~SavesMayFail /\ CloseAnswers => SavesInFlight > 0)

\* A parallel gateway lets its token go only when every object before it has been
\* left: it does not take one branch's token for another's.
JoinWaitsForAll ==
  \A j \in OfKind({"and"}) :
    (\E i \in DOMAIN Outgoing[j] : Outgoing[j][i] \in visited) =>
      \A o \in FlowObjects :
        (\E i \in DOMAIN Outgoing[o] : Outgoing[o][i] = j) => o \in visited /\ tokens[o] = 0

\* A token waits for an event from outside, for other tokens of a join, or for a called
\* process, which has a token as well, unless one came to a gateway that found no flow.
Waits(o) ==
  \/ Kind[o] \in {"waitTask", "catch", "timerCatch"}
  \/ Kind[o] = "and" /\ tokens[o] # Incoming(o)
  \/ /\ Kind[o] = "call"
     /\ \E p \in called \ {Main} :
          /\ CallOf[p] = o
          /\ \E x \in FlowObjects : ProcessOf[x] = p /\ (tokens[x] > 0 \/ x \in Undecided \cap visited)

\* At rest, every token waits for something that can still come: the engine forgets no
\* token, whatever was late, deferred or repeated.
NoTokenStranded == Quiet => \A o \in FlowObjects : tokens[o] > 0 => Waits(o)

\* When an end event of the main process was reached, nothing is under way, and no
\* token waits for an event from outside any more, then no token and no timer is left
\* behind at all: not at a join, not at a call.
NothingLeftAtEnd ==
  /\ Ended
  /\ Quiet
  /\ \A o \in OfKind({"waitTask", "catch", "timerCatch"}) : tokens[o] = 0
  => timers = {} /\ \A o \in FlowObjects : ~HasTokens(Main, o)

\* An armed timer belongs to a token: it is never there to fire for an activity that
\* was left, or for a catch event that already caught its event.  The client has to do
\* its part: a task that is reported while its handler owes its answer gets its timers when
\* it has been left, and triggerEvent at a timer event leaves the timer of it running.
TimersHaveTokens ==
  agenda = << >> =>
    \A t \in timers : tokens[IF t \in BoundaryEvents THEN Host(t) ELSE t] > 0

\* An activity is left on one way only: along its flows, or through one of its
\* boundary events.  (Stated for definitions whose ways start at different objects.)
WaysFrom(o) ==
  {{Outgoing[o][i] : i \in DOMAIN Outgoing[o]}} \cup {{b} : b \in BoundaryEventsOf(o)}

OnePathLeaves ==
  \A o \in OfKind({"waitTask"}) :
    Cardinality({way \in WaysFrom(o) : way \cap visited # {}}) <= 1

(****************************************************************************)
(* What the repository says of the engine and the engine does not keep:     *)
(* each is checked by a run that expects a counterexample.                  *)
(****************************************************************************)

\* gateways.js says a parallel gateway waits "until all tokens arrive": when it emits,
\* no token that was put on it has still to arrive.
JoinTakesArrivedTokens ==
  \A j \in OfKind({"and"}) : OnAgenda(Item("ended", j)) > 0 => WorkAt(j) = 0

\* The test timeoutClearingByLeavingTask says of a timeout handler, once its task was
\* reported as done, that the process "should never be here".
DoneTasksDoNotTimeOut ==
  \A b \in OfKind({"timeout"}) :
    \A i \in DOMAIN Outgoing[Host(b)], k \in DOMAIN Outgoing[b] :
      ~ (Outgoing[Host(b)][i] \in visited /\ Outgoing[b][k] \in visited)

\* process.js says events are deferred "if the process engine is loading or saving
\* state": no process keeps an event while nothing runs and no save is under way.
NothingKeptWithoutSave ==
  agenda = << >> /\ SavesInFlight = 0 => \A p \in Processes : deferred[p] = << >>

(****************************************************************************)
(* Liveness, under Fairness.                                                *)
(****************************************************************************)

\* Whatever the order of task reports, timers, saves and late handlers, a started
\* process ends: every token is consumed, and no timer or save is left to come.
ProcessEnds ==
  visited # {} ~>
    /\ Ended /\ Quiet /\ timers = {} /\ SavesInFlight = 0
    /\ \A o \in FlowObjects : ~HasTokens(Main, o)

\* The main process keeps no event for good: whatever it defers during a save comes out of
\* its queue again.
DeferredIsEmitted == deferred[Main] # << >> ~> deferred[Main] = << >>

(****************************************************************************)
(* The engine plays the token game.                                         *)
(****************************************************************************)

\* An expired timeout already has the token of its activity, which _emitTokens
\* removes later.
Expired(o) ==
  Cardinality({b \in BoundaryEventsOf(o) :
                 Kind[b] = "timeout" /\ OnAgenda(Item("put", b)) + tokens[b] > 0})

\* Tokens that were removed and wait for a handler to let them go on.
Leaving(o) ==
  OnAgenda(Item("ended", o)) + Held(Item("ended", o))
    + OnAgenda(Item("timerHandled", o)) + Held(Item("timerHandled", o))

\* A token of the game is one about to be put, one that is there, or one leaving.
MarkingOf(o) ==
  OnAgenda(Item("put", o)) + (tokens[o] - Expired(o))
    + (IF Kind[o] = "and" THEN 0 ELSE Leaving(o))

Game == INSTANCE TokenGame WITH
  started <- StartOf[Main] \in visited \/ OnAgenda(Item("put", StartOf[Main])) > 0,
  marking <- [o \in FlowObjects |-> MarkingOf(o)],
  entered <- {p \in called : OnAgenda(Item("startCall", CallOf[p])) = 0}

\* Every step of the engine is a step of the token game or none at all.
TokenGameIsPlayed == Game!Spec

(****************************************************************************)
(* When it does: the ways in which the engine can leave the game.           *)
(****************************************************************************)

\* The timeout handler of t may run in this state.
CanExpire(t) ==
  \/ agenda = << >> /\ (t \in timers \/ leaked[t] > 0)
  \/ Running("arm") /\ Current = t /\ t \in PastDue

\* A done handler, a timer or a call that takes a token further finds it there.
HandlersHaveTokens ==
  /\ \/ Running("activityDone") \/ Running("caught") \/ Running("startCall")
     \/ Running("handled") /\ Kind[Current] = "call"
     => tokens[Current] > 0
  /\ \A t \in TimerEvents \ BoundaryEvents : CanExpire(t) => tokens[t] > 0

\* o has a token that no timeout has taken yet.
HasFreeToken(o) == tokens[o] > Expired(o)

\* Neither the end of an activity nor a boundary event takes a token of the activity that
\* a timeout has taken, and a message event finds no second token to take.
InterruptsAreAlone ==
  /\ Running("activityDone") => HasFreeToken(Current)
  /\ Running("boundaryCatch") /\ tokens[Host(Current)] > 0 =>
       Kind[Current] = "message" /\ HasFreeToken(Host(Current))
  /\ Running("handled") /\ Kind[Current] = "message" => tokens[Host(Current)] = 0
  /\ \A t \in TimerEvents \cap BoundaryEvents : CanExpire(t) =>
       HasFreeToken(Host(t)) /\ tokens[t] + OnAgenda(Item("put", t)) = 0

\* A gateway takes the tokens it has waited for, once, and finds a flow for them.
GatewaysTakeTheirTokens ==
  /\ Running("handled") /\ Kind[Current] = "and" => tokens[Current] > 0
  /\ Running("ended") /\ Kind[Current] = "and" => tokens[Current] = Incoming(Current)
  /\ Running("ended") /\ Kind[Current] = "xor" => Current \notin Undecided

\* A called process has no token any more when its activity is left.
CallsEndEmpty ==
  Running("ended") /\ Kind[Current] = "call" =>
    \E p \in called :
      /\ CallOf[p] = Current /\ OnAgenda(Item("startCall", Current)) = 0
      /\ \A o \in Game!Inside(Current) : MarkingOf(o) = 0

\* Every token has one owner at a time, who moves it on.
TokensHaveOneOwner ==
  HandlersHaveTokens /\ InterruptsAreAlone /\ GatewaysTakeTheirTokens /\ CallsEndEmpty

\* What is behind a parallel gateway, or behind an activity with boundary events, is
\* entered from there only.
WaysAreApart ==
  \A o \in FlowObjects : Kind[o] = "and" \/ Boundaries[o] # << >> =>
    \A i \in DOMAIN Outgoing[o] : Incoming(Outgoing[o][i]) = 1

\* A definition without loops, in which decisions are not merged twice: nothing but a
\* parallel gateway is entered more than once.  A gateway right before another one takes
\* the tokens it has waited for, once.
LeadsToGateway(o) == \E i \in DOMAIN Outgoing[o] : Kind[Outgoing[o][i]] = "and"

TokensPassOnce ==
  /\ WaysAreApart
  /\ HandlersHaveTokens
  /\ \A o \in FlowObjects : Kind[o] # "and" =>
       OnAgenda(Item("put", o)) + (IF o \in visited THEN 1 ELSE 0) <= 1
  /\ Running("handled") /\ Kind[Current] = "and" /\ LeadsToGateway(Current) =>
       tokens[Current] > 0
  /\ Running("ended") /\ Kind[Current] = "and" /\ LeadsToGateway(Current) =>
       tokens[Current] = Incoming(Current)
=============================================================================
