----------------------------- MODULE Collaboration -----------------------------
(****************************************************************************)
(* Two main processes that were created together and send each other        *)
(* messages from their handlers (sendMessage and triggerEvent of lib/       *)
(* process.js, getParticipantByName of lib/client.js).  Each is an engine   *)
(* of its own; both run on one event loop, so the agenda is one: a message  *)
(* to a start or boundary event is a call in the middle of the sender's     *)
(* chain, and a message to a catch event goes to the end of the nextTick    *)
(* queue.  As the names of flow objects are unique over the collaboration,  *)
(* so is what the engines keep by name; each has its own flag to defer      *)
(* events and its own calls of the persistency layer.  The processes call   *)
(* no others here.                                                          *)
(****************************************************************************)
EXTENDS Naturals, Sequences, FiniteSets

CONSTANTS
  First, Second,       \* the processes, which are each other's participants
  KindOf, FlowsOf,     \* [{First, Second} -> Kind, Outgoing, Boundaries and Late of ...]
  BoundariesOf, LateOf,\*   ... each process, see ProcessEngine
  StartOf,             \* [{First, Second} -> start events]
  MessageTo,           \* [senders -> flow objects of the other process]
  Client, Budget       \* the client of both, see ProcessEngine

VARIABLES
  tokens, visited, called, agenda, pending, deferred, timers, leaked, calls,
  deferFirst, ioFirst, deferSecond, ioSecond,
  failedHandlers                       \* senders whose handler threw an exception

firstVars  == <<deferFirst, ioFirst>>
secondVars == <<deferSecond, ioSecond>>
sharedVars == <<tokens, visited, called, agenda, pending, deferred, timers, leaked, calls>>
vars       == <<sharedVars, firstVars, secondVars, failedHandlers>>

FirstEngine == INSTANCE EngineProperties WITH
  FlowObjects <- DOMAIN KindOf[First], Kind <- KindOf[First], Outgoing <- FlowsOf[First],
  Boundaries <- BoundariesOf[First], Late <- LateOf[First], Processes <- {First}, Main <- First,
  ProcessOf <- [o \in DOMAIN KindOf[First] |-> First], CallOf <- << >>,
  Undecided <- {}, PastDue <- {}, SavesMayFail <- FALSE, CloseAnswers <- TRUE,
  deferEvents <- deferFirst, io <- ioFirst

SecondEngine == INSTANCE EngineProperties WITH
  FlowObjects <- DOMAIN KindOf[Second], Kind <- KindOf[Second], Outgoing <- FlowsOf[Second],
  Boundaries <- BoundariesOf[Second], Late <- LateOf[Second], Processes <- {Second}, Main <- Second,
  ProcessOf <- [o \in DOMAIN KindOf[Second] |-> Second], CallOf <- << >>,
  Undecided <- {}, PastDue <- {}, SavesMayFail <- FALSE, CloseAnswers <- TRUE,
  deferEvents <- deferSecond, io <- ioSecond

OfKind(p, kinds) == {o \in DOMAIN KindOf[p] : KindOf[p][o] \in kinds}
Objects(p)  == DOMAIN KindOf[p]
FlowObjects == Objects(First) \cup Objects(Second)
Late        == LateOf[First] \cup LateOf[Second]
Other(o)    == IF o \in Objects(First) THEN Second ELSE First

\* Messages go to the start, catch and message boundary events of the other process.
ASSUME MessageAssumption ==
  /\ Objects(First) \cap Objects(Second) = {}
  /\ \A o \in DOMAIN MessageTo :
       /\ o \in FlowObjects
       /\ MessageTo[o] \in OfKind(Other(o), {"start", "catch", "message"})
       /\ o \notin OfKind(Other(MessageTo[o]), {"catch", "timerCatch", "call"})

NoCalls == [op \in FirstEngine!IoOps |-> 0]

\* What _createCollaboratingProcesses of lib/manager.js hands to its callback.
Init ==
  /\ tokens = [o \in FlowObjects |-> 0]
  /\ visited = {}
  /\ called = {}
  /\ agenda = << >>
  /\ pending = [c \in Late |-> 0]
  /\ deferred = [p \in {First, Second} |-> << >>]
  /\ timers = {}
  /\ leaked = [o \in FlowObjects |-> 0]
  /\ calls = [o \in FlowObjects |-> 0]
  /\ deferFirst = FALSE /\ ioFirst = NoCalls
  /\ deferSecond = FALSE /\ ioSecond = NoCalls
  /\ failedHandlers = {}

-----------------------------------------------------------------------------
(****************************************************************************)
(* A handler that sends a message and calls done: before it returns, or     *)
(* later.  (Handlers that send nothing are ArriveAtFlowObject.)             *)
(****************************************************************************)
Sender  == Head(agenda).at
Sending == agenda # << >> /\ Head(agenda).op = "arrived" /\ Sender \in DOMAIN MessageTo
Done    == FirstEngine!Item("handled", Sender)

\* The handler has done `before' in the turn, and `after' is left for the end of it.
HandlerReturns(before, after) ==
  \/ agenda' = before \o <<Done>> \o Tail(agenda) \o after /\ UNCHANGED pending
  \/ /\ Done \in Late
     /\ agenda' = before \o Tail(agenda) \o after
     /\ pending' = [pending EXCEPT ![Done] = @ + 1]

\* A start event gets its token before the handler goes on; on a process that was
\* started already the call throws, and nobody calls done.
SendToStartEvent(t) ==
  /\ t \in OfKind(Other(Sender), {"start"})
  /\ IF t \in visited
     THEN /\ agenda' = Tail(agenda)
          /\ failedHandlers' = failedHandlers \cup {Sender}
          /\ UNCHANGED pending
     ELSE HandlerReturns(<<FirstEngine!Item("put", t)>>, << >>) /\ UNCHANGED failedHandlers
  /\ UNCHANGED deferred

\* Mutant of SendToCatchEvent: the event is emitted at once.
SendToCatchEventAtOnce(t) ==
  /\ t \in OfKind(Other(Sender), {"catch"})
  /\ HandlerReturns(<<FirstEngine!Item("emitCatch", t)>>, << >>)
  /\ UNCHANGED <<deferred, failedHandlers>>

\* "We need this to achieve parallel collaborating processes": nextTick.
SendToCatchEvent(t) ==
  /\ t \in OfKind(Other(Sender), {"catch"})
  /\ HandlerReturns(<< >>, <<FirstEngine!Item("emitCatch", t)>>)
  /\ UNCHANGED <<deferred, failedHandlers>>

Defers(p) == IF p = First THEN deferFirst ELSE deferSecond

\* Mutant of SendToBoundaryEvent: the boundary event gets a token whoever waits.
SendToBoundaryEventUnasked(t) ==
  /\ t \in OfKind(Other(Sender), {"message"})
  /\ HandlerReturns(<<FirstEngine!Item("put", t)>>, << >>)
  /\ UNCHANGED <<deferred, failedHandlers>>

\* _emitEvent of the receiver: at once, or kept while the receiver saves.
SendToBoundaryEvent(t) ==
  LET e == FirstEngine!Item("boundaryCatch", t)
      p == Other(Sender)
  IN  /\ t \in OfKind(Other(Sender), {"message"})
      /\ IF Defers(p)
         THEN deferred' = [deferred EXCEPT ![p] = Append(@, e)] /\ HandlerReturns(<< >>, << >>)
         ELSE HandlerReturns(<<e>>, << >>) /\ UNCHANGED deferred
      /\ UNCHANGED failedHandlers

SendMessage ==
  /\ Sending
  /\ \/ SendToStartEvent(MessageTo[Sender])
     \/ SendToCatchEvent(MessageTo[Sender])
     \/ SendToBoundaryEvent(MessageTo[Sender])
  /\ UNCHANGED <<tokens, visited, called, timers, leaked, calls, firstVars, secondVars>>

-----------------------------------------------------------------------------
RunsIn(p) == agenda # << >> /\ Sender \in Objects(p) /\ ~Sending

RunFirst  == RunsIn(First) /\ FirstEngine!RunStep /\ UNCHANGED <<secondVars, failedHandlers>>
RunSecond == RunsIn(Second) /\ SecondEngine!RunStep /\ UNCHANGED <<firstVars, failedHandlers>>

\* What reaches an engine from outside: its timers, its saves, its client, its handlers.
OutsideFirst ==
  /\ \/ FirstEngine!TimerEvent \/ FirstEngine!IoEvent \/ FirstEngine!ClientStep
     \/ \E c \in LateOf[First] : FirstEngine!HandlerAnswers(c)
  /\ UNCHANGED <<secondVars, failedHandlers>>

OutsideSecond ==
  /\ \/ SecondEngine!TimerEvent \/ SecondEngine!IoEvent \/ SecondEngine!ClientStep
     \/ \E c \in LateOf[Second] : SecondEngine!HandlerAnswers(c)
  /\ UNCHANGED <<firstVars, failedHandlers>>

Idle == agenda = << >> /\ UNCHANGED vars

Next == SendMessage \/ RunFirst \/ RunSecond \/ OutsideFirst \/ OutsideSecond \/ Idle

Spec == Init /\ [][Next]_vars

\* As in ProcessEngine; the client starts the second process and reports the tasks of both.
Fairness ==
  /\ WF_vars(SendMessage \/ RunFirst \/ RunSecond)
  /\ WF_vars(FirstEngine!IoEvent /\ UNCHANGED <<secondVars, failedHandlers>>)
  /\ WF_vars(SecondEngine!IoEvent /\ UNCHANGED <<firstVars, failedHandlers>>)
  /\ \A o \in Objects(First) :
       /\ WF_vars(FirstEngine!TimerFires(o) /\ UNCHANGED <<secondVars, failedHandlers>>)
       /\ WF_vars(FirstEngine!TaskDone(o) /\ UNCHANGED <<secondVars, failedHandlers>>)
  /\ \A o \in Objects(Second) :
       /\ WF_vars(SecondEngine!TimerFires(o) /\ UNCHANGED <<firstVars, failedHandlers>>)
       /\ WF_vars(SecondEngine!TaskDone(o) /\ UNCHANGED <<firstVars, failedHandlers>>)
  /\ \A c \in LateOf[First] :
       WF_vars(FirstEngine!HandlerAnswers(c) /\ UNCHANGED <<secondVars, failedHandlers>>)
  /\ \A c \in LateOf[Second] :
       WF_vars(SecondEngine!HandlerAnswers(c) /\ UNCHANGED <<firstVars, failedHandlers>>)
  /\ WF_vars(SecondEngine!TriggerStart /\ UNCHANGED <<firstVars, failedHandlers>>)

FairSpec == Spec /\ Fairness

(****************************************************************************)
(* Properties.                                                              *)
(****************************************************************************)

\* A collaboration that was started at its second process ends on both sides, however
\* saves defer the events of either: no message comes before the token it is for (the
\* nextTick of triggerEvent, process.js:273-276).  The exception is a handler that starts
\* a process which its client has started already: it throws.
CollaborationEnds ==
  StartOf[Second] \in visited ~>
    \/ failedHandlers # {}
    \/ /\ FirstEngine!Ended /\ FirstEngine!Quiet
       /\ SecondEngine!Ended /\ SecondEngine!Quiet
       /\ \A o \in FlowObjects : tokens[o] = 0

\* Messages are moves of the token game of the receiver: each engine goes on playing its
\* own, although the other one calls it in the middle of a chain (process.js:305-330).
PartnersPlayTheGame == FirstEngine!TokenGameIsPlayed /\ SecondEngine!TokenGameIsPlayed
=============================================================================
