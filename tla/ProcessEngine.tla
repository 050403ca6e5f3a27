---------------------------- MODULE ProcessEngine ----------------------------
(****************************************************************************)
(* The execution engine of one main process and of the processes it calls   *)
(* (lib/process.js, lib/state.js, lib/timeouts.js, lib/handler.js and the   *)
(* emitTokens method of every flow object under lib/parsing).               *)
(*                                                                          *)
(* The engine runs on Node's event loop.  One external event (a client      *)
(* call, a timer, a handler that calls done() late, an answer of the        *)
(* persistency layer) starts a chain of synchronous calls, and what the     *)
(* chain hands to process.nextTick runs right after it.  `agenda' is that   *)
(* chain: the calls still to be made, innermost first, and behind them the  *)
(* nextTick queue.  A step executes the head of the agenda; a call the step *)
(* makes goes to the front, a process.nextTick to the end, and the next     *)
(* external event is taken when the agenda is empty.                        *)
(****************************************************************************)
EXTENDS Naturals, Sequences, FiniteSets

(****************************************************************************)
(* The process definition: what parsing/processDefinition.js answers.       *)
(* Names are unique over the main process and the processes it calls.       *)
(****************************************************************************)
CONSTANTS
  FlowObjects,  \* names of all flow objects
  Kind,         \* [FlowObjects -> Kinds]
  Outgoing,     \* [FlowObjects -> Seq(FlowObjects)]: targets of the outgoing flows
  Boundaries,   \* [FlowObjects -> Seq(FlowObjects)]: boundary events attached to it,
                \* which only a wait task may have
  Processes,    \* the main process and the called ones
  Main,         \* the main process
  ProcessOf,    \* [FlowObjects -> Processes]: the process that owns the object
  CallOf,       \* [Processes \ {Main} -> FlowObjects]: the activity that calls it
  StartOf       \* [Processes -> FlowObjects]: its start event

(****************************************************************************)
(* The environment: handlers, timers, persistency layer and client.         *)
(****************************************************************************)
CONSTANTS
  Late,          \* continuations that a handler may call after it returned
  Undecided,     \* exclusive gateways whose conditions may all be false
  PastDue,       \* timer events whose timeout may be zero or negative
  SavesMayFail,  \* may the persistency layer report an error?
  CloseAnswers,  \* does its close() call back?
  Client,        \* when the client calls: see Clients
  Budget         \* [FlowObjects -> Nat]: bound on the client's calls per object

Kinds == {"start", "end", "task", "waitTask", "xor", "and", "catch",
          "timerCatch", "message", "timeout", "call"}

OfKind(kinds) == {o \in FlowObjects : Kind[o] \in kinds}

BoundaryEvents == OfKind({"message", "timeout"})
TimerEvents    == OfKind({"timerCatch", "timeout"})
CatchEvents    == OfKind({"catch", "timerCatch"})

\* The activity a boundary event is attached to (attachedToRef).
Host(b) == CHOOSE o \in FlowObjects : \E i \in DOMAIN Boundaries[o] : Boundaries[o][i] = b

\* getIncomingSequenceFlows(o).length
Incoming(o) ==
  Cardinality({f \in UNION {{p} \X DOMAIN Outgoing[p] : p \in FlowObjects} :
                 Outgoing[f[1]][f[2]] = o})

ASSUME DefinitionAssumption ==
  /\ IsFiniteSet(FlowObjects)
  /\ Kind \in [FlowObjects -> Kinds]
  /\ Outgoing \in [FlowObjects -> Seq(FlowObjects)]
  /\ Boundaries \in [FlowObjects -> Seq(BoundaryEvents)]
  /\ \A o \in FlowObjects : Boundaries[o] # << >> => Kind[o] = "waitTask"
  /\ \A b \in BoundaryEvents :
       \E o \in FlowObjects : \E i \in DOMAIN Boundaries[o] : Boundaries[o][i] = b
  /\ Main \in Processes
  /\ ProcessOf \in [FlowObjects -> Processes]
  /\ CallOf \in [Processes \ {Main} -> OfKind({"call"})]
  /\ StartOf \in [Processes -> OfKind({"start"})]

(****************************************************************************)
(* Entries of the agenda.  Events are what _emitEvent may defer;            *)
(* continuations are the done callbacks given to the client's handlers.     *)
(****************************************************************************)
EventOps        == {"arrived", "activityEnd", "catch", "boundaryCatch"}
ContinuationOps == {"begun", "handled", "activityDone", "caught", "timerHandled", "ended"}
CallOps         == {"put", "arm", "persist", "persistAndClose", "startCall", "emitCatch"}

Item(op, o)   == [op |-> op, at |-> o]
Events        == [op : EventOps, at : FlowObjects]
Continuations == [op : ContinuationOps, at : FlowObjects]
Items         == [op : EventOps \cup ContinuationOps \cup CallOps, at : FlowObjects]

IoOps == {"save", "saveAndClose", "close"}

\* A patient client calls for an object that holds a token, once the handlers of that
\* object have answered and while the engine does not defer events; a prompt one waits
\* neither for handlers nor for saves; an eager one calls for any object at any time.
Clients == {"patient", "prompt", "eager"}

ASSUME EnvironmentAssumption ==
  /\ Late \subseteq Continuations
  /\ Undecided \subseteq FlowObjects
  /\ PastDue \subseteq TimerEvents
  /\ SavesMayFail \in BOOLEAN
  /\ CloseAnswers \in BOOLEAN
  /\ Client \in Clients
  /\ Budget \in [FlowObjects -> Nat]

VARIABLES
  tokens,       \* [FlowObjects -> Nat]: BPMNProcessState.tokens, counted by position
  visited,      \* names in BPMNProcessHistory.historyEntries
  called,       \* called processes created so far (parentToken.substate is theirs)
  agenda,       \* the running call chain and the nextTick queue
  pending,      \* [Late -> Nat]: done callbacks not called yet
  deferEvents,  \* the main process's flag
  deferred,     \* [Processes -> Seq(Events)]: deferredEvents of each process object
  io,           \* [IoOps -> Nat]: calls of the persistency layer in flight
  timers,       \* timer events with an entry in setTimeoutIds
  leaked,       \* [FlowObjects -> Nat]: running timers whose entry was overwritten
  calls         \* [FlowObjects -> Nat]: client calls so far (bounded by Budget)

vars == <<tokens, visited, called, agenda, pending, deferEvents, deferred, io,
          timers, leaked, calls>>

TypeOK ==
  /\ tokens \in [FlowObjects -> Nat]
  /\ visited \subseteq FlowObjects
  /\ called \subseteq Processes
  /\ agenda \in Seq(Items)
  /\ pending \in [Late -> Nat]
  /\ deferEvents \in BOOLEAN
  /\ deferred \in [Processes -> Seq(Events)]
  /\ io \in [IoOps -> Nat]
  /\ timers \subseteq FlowObjects
  /\ leaked \in [FlowObjects -> Nat]
  /\ calls \in [FlowObjects -> Nat]

\* The process right after createBPMNProcess found nothing to load: the flag
\* was reset by _emitDeferredEvents before the client got the process.
Init ==
  /\ tokens = [o \in FlowObjects |-> 0]
  /\ visited = {}
  /\ called = {}
  /\ agenda = << >>
  /\ pending = [c \in Late |-> 0]
  /\ deferEvents = FALSE
  /\ deferred = [p \in Processes |-> << >>]
  /\ io = [op \in IoOps |-> 0]
  /\ timers = {}
  /\ leaked = [o \in FlowObjects |-> 0]
  /\ calls = [o \in FlowObjects |-> 0]

-----------------------------------------------------------------------------
(****************************************************************************)
(* State functions.                                                         *)
(****************************************************************************)

\* The call activities around a process, from its caller up to the main process.
Enclosing[p \in Processes] ==
  IF p = Main THEN {} ELSE {CallOf[p]} \cup Enclosing[ProcessOf[CallOf[p]]]

\* state.hasTokens(o) evaluated on the state of process p: the search descends
\* from p into the substates of the call tokens.
HasTokens(p, o) ==
  /\ tokens[o] > 0
  /\ \A c \in Enclosing[ProcessOf[o]] \ Enclosing[p] : tokens[c] > 0

\* The process object an event is emitted on: clients report tasks to the main
\* process, a called process reports its end to its parent.
Receiver(e) ==
  IF e.op = "activityEnd" /\ Kind[e.at] # "call" THEN Main ELSE ProcessOf[e.at]

\* self or self.calledProcesses[owningProcessId]: the object at o belongs to the
\* receiver p or to a process that p called itself.
CanReach(p, o) ==
  \/ ProcessOf[o] = p
  \/ ProcessOf[o] # Main /\ ProcessOf[CallOf[ProcessOf[o]]] = p

Add(o)    == [tokens EXCEPT ![o] = @ + 1]
\* Mutant of Remove: takes a token without looking for one.
RemoveBlindly(o) == [tokens EXCEPT ![o] = @ - 1]
Remove(o) == [tokens EXCEPT ![o] = IF @ > 0 THEN @ - 1 ELSE 0]

\* Names that removeTimeout is called with when o is left (_clearBoundaryTimerEvents).
ClearedBy(o) == {Boundaries[o][i] : i \in DOMAIN Boundaries[o]} \cap TimerEvents

Puts(o) == [i \in DOMAIN Outgoing[o] |-> Item("put", Outgoing[o][i])]
Arms(o) == [i \in DOMAIN Boundaries[o] |-> Item("arm", Boundaries[o][i])]

Running(op) == agenda # << >> /\ Head(agenda).op = op
Current     == Head(agenda).at

\* The step ends by making these calls, in order, before the rest of the agenda.
Proceed(items) == agenda' = items \o Tail(agenda)

\* The step ends by calling a handler whose done callback is c: the handler
\* calls it before it returns, or later (or never).
CallHandler(c, rest) ==
  \/ agenda' = <<c>> \o rest /\ UNCHANGED pending
  \/ /\ c \in Late
     /\ agenda' = rest
     /\ pending' = [pending EXCEPT ![c] = @ + 1]

\* Mutant of EmitEvent: an event that is kept is emitted all the same.
EmitAndKeepEvent(e, rest) ==
  /\ agenda' = <<e>> \o rest
  /\ deferred' = [deferred EXCEPT ![Receiver(e)] = IF deferEvents THEN Append(@, e) ELSE @]

\* _emitEvent: emit at once, or keep the event while the engine loads or saves.
EmitEvent(e, rest) ==
  IF deferEvents
  THEN /\ deferred' = [deferred EXCEPT ![Receiver(e)] = Append(@, e)]
       /\ agenda' = rest
  ELSE /\ agenda' = <<e>> \o rest
       /\ UNCHANGED deferred

-----------------------------------------------------------------------------
(****************************************************************************)
(* Tokens: _putTokenAt, TOKEN_ARRIVED and the handlers of flow objects.     *)
(****************************************************************************)

\* Mutant of PutToken: the process is saved before the begin handler runs.
PutTokenAndSave ==
  /\ Running("put")
  /\ tokens' = Add(Current)
  /\ visited' = visited \cup {Current}
  /\ CallHandler(Item("begun", Current), <<Item("persist", Current)>> \o Tail(agenda))
  /\ UNCHANGED <<called, deferEvents, deferred, io, timers, leaked, calls>>

\* _putTokenAt: the token exists before onBeginHandler answers.
PutToken ==
  /\ Running("put")
  /\ tokens' = Add(Current)
  /\ visited' = visited \cup {Current}
  /\ CallHandler(Item("begun", Current), Tail(agenda))
  /\ UNCHANGED <<called, deferEvents, deferred, io, timers, leaked, calls>>

\* onBeginHandler is done: tell the process that the token arrived.
AnnounceToken ==
  /\ Running("begun")
  /\ EmitEvent(Item("arrived", Current), Tail(agenda))
  /\ UNCHANGED <<tokens, visited, called, pending, deferEvents, io, timers, leaked, calls>>

\* A catch event waits: start its timer, save.
ArriveAtCatchEvent ==
  /\ Running("arrived")
  /\ Current \in CatchEvents
  /\ Proceed(IF Current \in TimerEvents
             THEN <<Item("arm", Current), Item("persist", Current)>>
             ELSE <<Item("persist", Current)>>)
  /\ UNCHANGED <<tokens, visited, called, pending, deferEvents, deferred, io, timers,
                 leaked, calls>>

\* Everything else calls the handler named after the object.
ArriveAtFlowObject ==
  /\ Running("arrived")
  /\ Current \notin CatchEvents
  /\ CallHandler(Item("handled", Current), Tail(agenda))
  /\ UNCHANGED <<tokens, visited, called, deferEvents, deferred, io, timers, leaked, calls>>

\* A wait task starts its boundary timers, saves, and waits for taskDone.
WaitTaskHandled ==
  /\ Running("handled")
  /\ Kind[Current] = "waitTask"
  /\ Proceed(Arms(Current) \o <<Item("persist", Current)>>)
  /\ UNCHANGED <<tokens, visited, called, pending, deferEvents, deferred, io, timers,
                 leaked, calls>>

(****************************************************************************)
(* Leaving a flow object: _emitTokens and the emitTokens methods.           *)
(****************************************************************************)

\* Mutant of Leave: a boundary event does not take the token of its activity.
LeaveKeepingActivity(o) ==
  /\ tokens' = Remove(o)
  /\ timers' = timers \ ClearedBy(IF o \in BoundaryEvents THEN Host(o) ELSE o)
  /\ CallHandler(Item("ended", o), Tail(agenda))
  /\ UNCHANGED <<visited, called, deferEvents, deferred, io, leaked, calls>>

\* Mutant of Leave: the boundary timers of an activity that is left keep running.
LeaveWithTimersRunning(o) ==
  /\ tokens' = IF o \in BoundaryEvents
               THEN [Remove(o) EXCEPT ![Host(o)] = IF @ > 0 THEN @ - 1 ELSE 0]
               ELSE Remove(o)
  /\ CallHandler(Item("ended", o), Tail(agenda))
  /\ UNCHANGED <<visited, called, deferEvents, deferred, io, timers, leaked, calls>>

\* _emitTokens of every object but an entered call and a parallel gateway.
\* A boundary event also takes a token of its activity and clears its timers.
Leave(o) ==
  /\ tokens' = IF o \in BoundaryEvents
               THEN [Remove(o) EXCEPT ![Host(o)] = IF @ > 0 THEN @ - 1 ELSE 0]
               ELSE Remove(o)
  /\ timers' = timers \ ClearedBy(IF o \in BoundaryEvents THEN Host(o) ELSE o)
  /\ CallHandler(Item("ended", o), Tail(agenda))
  /\ UNCHANGED <<visited, called, deferEvents, deferred, io, leaked, calls>>

FlowObjectHandled ==
  /\ Running("handled")
  /\ Kind[Current] \in {"start", "end", "task", "xor", "message", "timeout"}
  /\ Leave(Current)

\* removeTokenAt followed by createTokenAt
Renewed(o) == [tokens EXCEPT ![o] = IF @ > 0 THEN @ ELSE 1]

\* Mutant of JoinCompletes: the tokens are not counted.
JoinCompletesUncounted ==
  /\ Running("handled")
  /\ Kind[Current] = "and"
  /\ tokens' = Renewed(Current)
  /\ CallHandler(Item("ended", Current), Tail(agenda))
  /\ UNCHANGED <<visited, called, deferEvents, deferred, io, timers, leaked, calls>>

\* BPMNParallelGateway.emitTokens with all tokens there ...
JoinCompletes ==
  /\ Running("handled")
  /\ Kind[Current] = "and"
  /\ tokens' = Renewed(Current)
  /\ tokens'[Current] = Incoming(Current)
  /\ CallHandler(Item("ended", Current), Tail(agenda))
  /\ UNCHANGED <<visited, called, deferEvents, deferred, io, timers, leaked, calls>>

\* ... and with another number of them: keep the token and save.
JoinWaits ==
  /\ Running("handled")
  /\ Kind[Current] = "and"
  /\ tokens' = Renewed(Current)
  /\ tokens'[Current] # Incoming(Current)
  /\ Proceed(<<Item("persist", Current)>>)
  /\ UNCHANGED <<visited, called, pending, deferEvents, deferred, io, timers, leaked, calls>>

\* onEndHandler is done: one token along every outgoing flow.
EmitAlongAll ==
  /\ Running("ended")
  /\ \/ Kind[Current] \notin {"xor", "and", "end"}
     \/ Kind[Current] = "xor" /\ Len(Outgoing[Current]) = 1
  /\ Proceed(Puts(Current))
  /\ UNCHANGED <<tokens, visited, called, pending, deferEvents, deferred, io, timers,
                 leaked, calls>>

\* A diverging exclusive gateway: the first flow whose condition is true, if any.
EmitAlongOne ==
  /\ Running("ended")
  /\ Kind[Current] = "xor"
  /\ Len(Outgoing[Current]) > 1
  /\ \/ \E i \in DOMAIN Outgoing[Current] : Proceed(<<Puts(Current)[i]>>)
     \/ Current \in Undecided /\ Proceed(<< >>)
  /\ UNCHANGED <<tokens, visited, called, pending, deferEvents, deferred, io, timers,
                 leaked, calls>>

\* Mutant of Fork: the gateway takes one of its tokens only.
ForkTakingOne ==
  /\ Running("ended")
  /\ Kind[Current] = "and"
  /\ tokens' = Remove(Current)
  /\ Proceed(Puts(Current))
  /\ UNCHANGED <<visited, called, pending, deferEvents, deferred, io, timers, leaked, calls>>

\* A parallel gateway takes all its tokens and forks.
Fork ==
  /\ Running("ended")
  /\ Kind[Current] = "and"
  /\ tokens' = [tokens EXCEPT ![Current] = 0]
  /\ Proceed(Puts(Current))
  /\ UNCHANGED <<visited, called, pending, deferEvents, deferred, io, timers, leaked, calls>>

\* The main process ends: save and close the connection.
EndMainProcess ==
  /\ Running("ended")
  /\ Kind[Current] = "end"
  /\ ProcessOf[Current] = Main
  /\ Proceed(<<Item("persistAndClose", Current)>>)
  /\ UNCHANGED <<tokens, visited, called, pending, deferEvents, deferred, io, timers,
                 leaked, calls>>

\* Mutant of EndCalledProcess: the parent process is not told.
EndCalledProcessSilently ==
  /\ Running("ended")
  /\ Kind[Current] = "end"
  /\ ProcessOf[Current] # Main
  /\ Proceed(<< >>)
  /\ UNCHANGED <<tokens, visited, called, pending, deferEvents, deferred, io, timers,
                 leaked, calls>>

\* A called process ends: its activity ends in the parent process.
EndCalledProcess ==
  /\ Running("ended")
  /\ Kind[Current] = "end"
  /\ ProcessOf[Current] # Main
  /\ EmitEvent(Item("activityEnd", CallOf[ProcessOf[Current]]), Tail(agenda))
  /\ UNCHANGED <<tokens, visited, called, pending, deferEvents, io, timers, leaked, calls>>

\* A call activity or sub-process (which has no boundary events) is handled: its
\* token gets a called process, which starts on nextTick.
\* Bound: a call activity is entered once.
EnterCall ==
  /\ Running("handled")
  /\ Kind[Current] = "call"
  /\ \E p \in Processes \ ({Main} \cup called) :
       CallOf[p] = Current /\ called' = called \cup {p}
  /\ tokens' = Renewed(Current)
  /\ agenda' = Append(Tail(agenda), Item("startCall", Current))
  /\ UNCHANGED <<visited, pending, deferEvents, deferred, io, timers, leaked, calls>>

\* createCalledProcess calls back: triggerEvent on the start event.
StartCalledProcess ==
  /\ Running("startCall")
  /\ \E p \in called : CallOf[p] = Current /\ Proceed(<<Item("put", StartOf[p])>>)
  /\ UNCHANGED <<tokens, visited, called, pending, deferEvents, deferred, io, timers,
                 leaked, calls>>

(****************************************************************************)
(* Events from outside: ACTIVITY_END, INTERMEDIATE_CATCH, BOUNDARY_CATCH.   *)
(****************************************************************************)

\* An activity ends: call its Done handler if there is a token.  (A token that is
\* out of reach makes the lookup of its process fail: see UnhandledEvent.)
ActivityEnds ==
  /\ Running("activityEnd")
  /\ HasTokens(Receiver(Head(agenda)), Current)
  /\ CanReach(Receiver(Head(agenda)), Current)
  /\ CallHandler(Item("activityDone", Current), Tail(agenda))
  /\ UNCHANGED <<tokens, visited, called, deferEvents, deferred, io, timers, leaked, calls>>

\* The Done handler is done: the activity is left, whatever happened since.
ActivityLeft ==
  /\ Running("activityDone")
  /\ Leave(Current)

\* nextTick of triggerEvent on a catch event
EmitCatchEvent ==
  /\ Running("emitCatch")
  /\ EmitEvent(Item("catch", Current), Tail(agenda))
  /\ UNCHANGED <<tokens, visited, called, pending, deferEvents, io, timers, leaked, calls>>

CatchEvent ==
  /\ Running("catch")
  /\ tokens[Current] > 0
  /\ CallHandler(Item("caught", Current), Tail(agenda))
  /\ UNCHANGED <<tokens, visited, called, deferEvents, deferred, io, timers, leaked, calls>>

EventCaught ==
  /\ Running("caught")
  /\ Leave(Current)

\* Mutant of CatchBoundaryEvent: the token of the activity stays.
CatchBoundaryEventKeepingToken ==
  /\ Running("boundaryCatch")
  /\ tokens[Host(Current)] > 0
  /\ Proceed(<<Item("put", Current)>>)
  /\ UNCHANGED <<tokens, visited, called, pending, deferEvents, deferred, io, timers,
                 leaked, calls>>

\* A message boundary event takes the token of its activity.
CatchBoundaryEvent ==
  /\ Running("boundaryCatch")
  /\ tokens[Host(Current)] > 0
  /\ tokens' = Remove(Host(Current))
  /\ Proceed(<<Item("put", Current)>>)
  /\ UNCHANGED <<visited, called, pending, deferEvents, deferred, io, timers, leaked, calls>>

\* The default event handler gets an event nobody waits for; an event for a
\* process two levels down ends in an exception.  Neither changes the process.
UnhandledEvent ==
  /\ \/ /\ Running("activityEnd")
        /\ ~ /\ HasTokens(Receiver(Head(agenda)), Current)
             /\ CanReach(Receiver(Head(agenda)), Current)
     \/ Running("catch") /\ tokens[Current] = 0
     \/ Running("boundaryCatch") /\ tokens[Host(Current)] = 0
  /\ Proceed(<< >>)
  /\ UNCHANGED <<tokens, visited, called, pending, deferEvents, deferred, io, timers,
                 leaked, calls>>

-----------------------------------------------------------------------------
(****************************************************************************)
(* Timers.                                                                  *)
(****************************************************************************)

\* The timeout handler: removeTimeout(t), then the boundary event gets a token
\* or the waiting catch event is left.
Expire(t, rest) ==
  /\ timers' = timers \ {t}
  /\ IF t \in BoundaryEvents
     THEN agenda' = <<Item("put", t)>> \o rest /\ UNCHANGED <<tokens, pending>>
     ELSE tokens' = Remove(t) /\ CallHandler(Item("timerHandled", t), rest)
  /\ UNCHANGED <<visited, called, deferEvents, deferred, io, calls>>

\* addTimerEvent overwrites an earlier entry and leaves its timer running.  Boundary
\* events that are no timer events are passed over.
ArmTimer ==
  /\ Running("arm")
  /\ timers' = timers \cup ({Current} \cap TimerEvents)
  /\ leaked' = [leaked EXCEPT ![Current] = IF Current \in timers THEN @ + 1 ELSE @]
  /\ Proceed(<< >>)
  /\ UNCHANGED <<tokens, visited, called, pending, deferEvents, deferred, io, calls>>

\* A timeout that is not in the future: the handler runs at once.
ArmExpiredTimer ==
  /\ Running("arm")
  /\ Current \in PastDue
  /\ Expire(Current, Tail(agenda))
  /\ UNCHANGED leaked

TimerFires(t) ==
  /\ agenda = << >>
  /\ t \in timers
  /\ Expire(t, << >>)
  /\ UNCHANGED leaked

LeakedTimerFires(t) ==
  /\ agenda = << >>
  /\ leaked[t] > 0
  /\ leaked' = [leaked EXCEPT ![t] = @ - 1]
  /\ Expire(t, << >>)

\* The handler of an intermediate timer event is done: flowObject.emitTokens.
TimerHandled ==
  /\ Running("timerHandled")
  /\ CallHandler(Item("ended", Current), Tail(agenda))
  /\ UNCHANGED <<tokens, visited, called, deferEvents, deferred, io, timers, leaked, calls>>

-----------------------------------------------------------------------------
(****************************************************************************)
(* Saving: persist and doneSaving.                                          *)
(****************************************************************************)

Persist ==
  /\ \E op \in {"persist", "persistAndClose"} :
       /\ Running(op)
       /\ io' = [io EXCEPT ![IF op = "persist" THEN "save" ELSE "saveAndClose"] = @ + 1]
  /\ deferEvents' = TRUE
  /\ Proceed(<< >>)
  /\ UNCHANGED <<tokens, visited, called, pending, deferred, timers, leaked, calls>>

\* Mutant of EmitDeferredEvents: only resets the flag.
ForgetDeferredEvents ==
  /\ deferEvents' = FALSE
  /\ UNCHANGED <<agenda, deferred>>

\* _emitDeferredEvents of the main process: the events kept so far are emitted
\* on nextTick, past the flag.
EmitDeferredEvents ==
  /\ deferEvents' = FALSE
  /\ agenda' = deferred[Main]
  /\ deferred' = [deferred EXCEPT ![Main] = << >>]

\* Mutant of SaveDone: the kept events are not emitted.
SaveDoneSilently ==
  /\ agenda = << >>
  /\ io["save"] > 0
  /\ io' = [io EXCEPT !["save"] = @ - 1]
  /\ UNCHANGED <<tokens, visited, called, agenda, pending, deferEvents, deferred,
                 timers, leaked, calls>>

SaveDone ==
  /\ agenda = << >>
  /\ io["save"] > 0
  /\ io' = [io EXCEPT !["save"] = @ - 1]
  /\ EmitDeferredEvents
  /\ UNCHANGED <<tokens, visited, called, pending, timers, leaked, calls>>

\* The save at the end of the process closes the connection first.
FinalSaveDone ==
  /\ agenda = << >>
  /\ io["saveAndClose"] > 0
  /\ io' = [io EXCEPT !["saveAndClose"] = @ - 1, !["close"] = @ + 1]
  /\ UNCHANGED <<tokens, visited, called, agenda, pending, deferEvents, deferred,
                 timers, leaked, calls>>

\* An error is reported to doneSavingHandler, and that is all.
SaveFails ==
  /\ agenda = << >>
  /\ SavesMayFail
  /\ \E op \in {"save", "saveAndClose"} :
       io[op] > 0 /\ io' = [io EXCEPT ![op] = @ - 1]
  /\ UNCHANGED <<tokens, visited, called, agenda, pending, deferEvents, deferred,
                 timers, leaked, calls>>

ConnectionClosed ==
  /\ agenda = << >>
  /\ CloseAnswers
  /\ io["close"] > 0
  /\ io' = [io EXCEPT !["close"] = @ - 1]
  /\ EmitDeferredEvents
  /\ UNCHANGED <<tokens, visited, called, pending, timers, leaked, calls>>

-----------------------------------------------------------------------------
(****************************************************************************)
(* The client, and the handlers that answer late.                           *)
(****************************************************************************)

\* No handler owes an answer at o, or at the activity whose boundary event o is.
HandlersAnswered(o) ==
  LET activity == IF o \in BoundaryEvents THEN Host(o) ELSE o
  IN  \A c \in Late : c.at \in {o, activity} => pending[c] = 0

ClientCalls(o, expected) ==
  /\ agenda = << >>
  /\ expected \/ Client = "eager"
  /\ Client = "patient" => ~deferEvents /\ HandlersAnswered(o)
  /\ calls[o] < Budget[o]
  /\ calls' = [calls EXCEPT ![o] = @ + 1]
  /\ UNCHANGED <<tokens, visited, called, pending, deferEvents, io, timers, leaked>>

\* triggerEvent of a start event; a second call throws.
TriggerStart ==
  /\ StartOf[Main] \notin visited
  /\ ClientCalls(StartOf[Main], TRUE)
  /\ agenda' = <<Item("put", StartOf[Main])>>
  /\ UNCHANGED deferred

TaskDone(o) ==
  /\ Kind[o] = "waitTask"
  /\ ClientCalls(o, tokens[o] > 0)
  /\ EmitEvent(Item("activityEnd", o), << >>)

TriggerCatchEvent(o) ==
  /\ o \in CatchEvents
  /\ ProcessOf[o] = Main
  /\ ClientCalls(o, tokens[o] > 0)
  /\ agenda' = <<Item("emitCatch", o)>>
  /\ UNCHANGED deferred

TriggerBoundaryEvent(b) ==
  /\ b \in BoundaryEvents
  /\ ProcessOf[b] = Main
  /\ ClientCalls(b, tokens[Host(b)] > 0)
  /\ EmitEvent(Item("boundaryCatch", b), << >>)

\* A handler calls the done callback it kept.
HandlerAnswers(c) ==
  /\ agenda = << >>
  /\ pending[c] > 0
  /\ pending' = [pending EXCEPT ![c] = @ - 1]
  /\ agenda' = <<c>>
  /\ UNCHANGED <<tokens, visited, called, deferEvents, deferred, io, timers, leaked, calls>>

\* Node's event loop is idle.
Idle == agenda = << >> /\ UNCHANGED vars

-----------------------------------------------------------------------------
TokenStep ==
  \/ PutToken \/ AnnounceToken \/ ArriveAtCatchEvent \/ ArriveAtFlowObject
  \/ WaitTaskHandled \/ FlowObjectHandled
  \/ JoinCompletes \/ JoinWaits
  \/ EmitAlongAll \/ EmitAlongOne \/ Fork \/ EndMainProcess \/ EndCalledProcess
  \/ EnterCall \/ StartCalledProcess

EventStep ==
  \/ ActivityEnds \/ ActivityLeft \/ EmitCatchEvent \/ CatchEvent \/ EventCaught
  \/ CatchBoundaryEvent \/ UnhandledEvent

TimerStep == ArmTimer \/ ArmExpiredTimer \/ TimerHandled

\* A step of the running call chain.
RunStep == TokenStep \/ EventStep \/ TimerStep \/ Persist

TimerEvent == \E t \in TimerEvents : TimerFires(t) \/ LeakedTimerFires(t)

IoEvent == SaveDone \/ FinalSaveDone \/ SaveFails \/ ConnectionClosed

ClientStep ==
  \/ TriggerStart
  \/ \E o \in FlowObjects :
       TaskDone(o) \/ TriggerCatchEvent(o) \/ TriggerBoundaryEvent(o)

Next ==
  \/ RunStep
  \/ TimerEvent
  \/ IoEvent
  \/ ClientStep
  \/ \E c \in Late : HandlerAnswers(c)
  \/ Idle

Spec == Init /\ [][Next]_vars

(****************************************************************************)
(* The event loop runs what is on the agenda, the persistency layer answers *)
(* every call, handlers and running timers answer eventually, and the       *)
(* client eventually reports a task that holds a token and calls no other.  *)
(****************************************************************************)
Fairness ==
  /\ WF_vars(RunStep)
  /\ WF_vars(IoEvent)
  /\ \A t \in TimerEvents : WF_vars(TimerFires(t))
  /\ \A c \in Late : WF_vars(HandlerAnswers(c))
  /\ WF_vars(TriggerStart)
  /\ \A o \in FlowObjects : WF_vars(TaskDone(o)) /\ WF_vars(TriggerCatchEvent(o))

FairSpec == Spec /\ Fairness
=============================================================================
