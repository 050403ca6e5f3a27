# A TLA+ model of bpmn

`bpmn` executes BPMN 2.0 processes on Node.js: a parsed process definition, a module of
JavaScript handlers named after the flow objects, and an engine that moves tokens, calls the
handlers, waits for tasks, messages and timeouts, and saves the state of the process whenever it
waits. Around the engine there are a parser of BPMN files, two persistency layers, a manager that
keeps processes by id, and a REST server. This directory holds TLA+ modules that model them, TLC
configurations that check the modules, and proofs that TLAPS checks. Source paths are relative to
the repository, e.g. `lib/process.js`.

## The system

| Component | State | Operations | Interacts with |
|---|---|---|---|
| Process engine (`lib/process.js`, `state.js`, `timeouts.js`, `handler.js`, `history.js`, `parsing/*` `emitTokens`) | tokens, history, pending timeouts, deferred events and the defer flag, called processes | put a token, token arrived, activity end, catch and boundary events, emit tokens, save | handlers (callbacks, sync or async), timers, persistency, client, parent and called processes |
| Recovery (`persist`, `loadPersistedData`, `createCalledProcesses`, `restoreTimerEvents`) | the stored document, saves in flight | save, stop, load, rebuild called processes, restart timers | persistency, engine |
| Persistency (`lib/persistency/*`) | documents by process id, a connection per URI, those who wait for it | persist, load, loadAll, close | engine, manager, database driver |
| Process manager (`lib/manager.js`, `find.js`, `public.js`) | definitions, process cache, initialisation stack, waiting callbacks | add definitions, create, get, find | engine, persistency |
| REST server (`lib/rest.js`) | ids of received messages | create, send message, get, collaborate | manager |
| Client interface (`lib/client.js`) | none | taskDone, triggerEvent, sendMessage, getters | engine |
| Collaborations (`sendMessage`, `parsing/collaborationDefinition.js`, ...) | participants | send a message along a flow: to a start, catch or boundary event | several engines |
| Process definition (`parsing/processDefinition.js`, ...) | flow objects, flows, lazily built indexes | add, validate, attach collaborations, look up | parser, engine |
| Parser (`parsing/parser.js`, `definitions.js`, ...) | current definition, element and collaboration, stack of definitions, queue of errors | SAX events, check | definition |
| Logger, debugger, utilities | none that decides anything | | |

What makes the engine hard:

* **Deferral.** While a save is in flight `_emitEvent` keeps events instead of emitting them;
  the answer of the save emits them from `process.nextTick`, past the flag. Saves overlap, since
  a fork can reach several wait states in one call chain. Called processes ask the main process
  for the flag but keep events in a queue of their own.
* **Callbacks.** Every handler gets a `done` callback and may call it before it returns, or any
  time later. Between the two, tasks are reported, messages arrive and timers fire.
* **Timers** race with the reports of the tasks they are attached to.
* **Tokens that are there but have not arrived**: `_putTokenAt` creates a token before the
  begin handler answers and before its arrival is emitted.
* **Hierarchy**: a called process's state hangs on the token of its activity.
* **Messages between processes** are calls: a handler of one engine starts or moves a token of
  another one in the middle of its own call chain, and the other's handlers may send one back.

What is hard around it:

* **Recovery.** A save hands over references to the live state; the program may stop at any
  moment; timers of the document may be past due before the process is complete.
* **Shared connections.** All processes of a URI use one connection, which the first call opens,
  the others wait for, and the end of any process closes. The files' layer looks and then writes.
* **Initialisation.** Definitions are added while others are being loaded, requests wait, and
  processes are created asynchronously under ids that somebody else may take meanwhile.
* **Retries.** A client that puts a message again must not send it twice, nor lose it.
* **Lazy tables** over definitions that grow, nested definitions, message flows that several
  definitions share.

The hazards this leads to are listed in `PROJECT.json` at their lines, with the properties that
cover them.

## The modules

* `ProcessEngine` - the engine of one main process and of the processes it calls.
* `TokenGame` - the abstract specification: tokens that move over flow objects, one step per
  object left, without handlers, events, timers or saves.
* `EngineProperties` - the properties of the engine, and the refinement mapping to `TokenGame`.
* `MCGateways`, `MCActivities`, `MCStress` - process definitions and bounds for TLC.
* `Collaboration` - two instances of the engine that send each other messages.
  `MCCollaboration`.
* `Recovery` - EXTENDS `ProcessEngine`: the store, saves that are read and answered, restarts,
  loading. `RecoveryProperties`, `MCRecovery`.
* `DocumentStore` - the abstract specification of a persistency layer. `PersistencyCalls` - what
  both layers share; `MongoPersistency`, `FilePersistency` - the layers; `Persistency` - the choice
  between them, their properties and the refinement mapping to `DocumentStore`. `MCPersistency`.
* `ProcessManager` - the manager; `RestServer` - EXTENDS it with the routes, which are its
  callers. `ManagerProperties`, `MCManager`.
* `Parser` - from the tags of a file to definitions; `ProcessDefinitions` - EXTENDS it with
  validation, collaborations and lookup tables. `DefinitionProperties`, `MCDefinitions`.
* `ProcessEngine_proofs`, `TokenAccounting_proofs`, `TokenGame_proofs`, `Recovery_proofs`,
  `Manager_proofs`, `Initialisation_proofs`, `Persistency_proofs`, `ProcessDefinitions_proofs` -
  theorems.

### How ProcessEngine corresponds to the code

Node runs one call chain at a time. The chain is a variable, `agenda`: a sequence of calls still
to be made, innermost first, with what `process.nextTick` queued at its end. A step executes the
head; the calls it makes go to the front in the order in which the code makes them. External
events (client, timers, late handlers, answers of the persistency layer) are taken only when the
agenda is empty, because the code cannot be interrupted. Each function between two points where
the code can be left for another one (a handler, an event, a `forEach` over calls) is one action.

| Variable | Code |
|---|---|
| `tokens` | `state.tokens` of all processes, counted by position |
| `visited` | names in `history.historyEntries` |
| `called` | called processes that were created |
| `agenda` | call stack and nextTick queue |
| `pending` | `done` callbacks that handlers kept |
| `deferEvents`, `deferred` | `deferEvents` of the main process, `deferredEvents` of every process object |
| `io` | calls of `persistency.persist` and `close` that have not called back |
| `timers` | keys of `setTimeoutIds` |
| `leaked` | timers whose id was overwritten by a second `setTimeout` |
| `calls` | client calls so far; only there to bound them |

An agenda entry is an operation at a flow object: `put` (`_putTokenAt`), `begun`
(`onFlowObjectBeginHandler`), `arrived` (TOKEN_ARRIVED), `handled` (`handlerDone`), `ended`
(`onFlowObjectEndHandler`), `activityEnd`/`activityDone`, `catch`/`caught`, `boundaryCatch`,
`timerHandled`, `arm` (`addTimerEvent`), `persist`, `startCall`, `emitCatch`. Message data,
properties, logging, transaction log and debugger calls are left out: no decision of the engine
depends on them.

The constants are the process definition (`Kind`, `Outgoing`, `Boundaries`, `ProcessOf`,
`CallOf`, `StartOf`: what the lookups of `processDefinition.js` answer) and the environment:

* `Late`: the continuations that may be called after their handler returned; the others are
  called by the handler itself, or there is no handler and the default one calls them.
* `Undecided`: exclusive gateways whose conditions may all be false. `PastDue`: timers whose
  timeout may be zero. `SavesMayFail`, `CloseAnswers`: the persistency layer.
* `Client`: a *patient* client calls only for an object that has a token, once the handlers of that
  object (and of the activity, if it is a boundary event) have answered, and only while the
  engine defers nothing; a *prompt* one waits neither for handlers nor for saves; an *eager* one
  calls for any object at any time.

Assumptions that the code makes: a boundary event is attached to a wait task
(`buildBoundaryEventsByAttachmentIndex` throws otherwise), a called process has one start event
(`BPMNCallActivity.emitTokens` throws otherwise), names are unique. Restrictions of the model: a
call activity is entered once (bound, in `EnterCall`); names are unique over called processes
too; the process has a persistency layer - `loadPersistedData` calls `mainProcess.persistency.load`
before it asks whether there is one, so a process without persistency fails on creation; the
client reports wait tasks only; the main process has one start event; `getTimeout` handlers
return a number - otherwise `addTimerEvent` throws (`timeouts.js:155-157`), which also skips the
save behind it; sub-processes have no debugger interface (those that are read
from a file have, see Findings). `Init` is the process right after a creation that found
nothing to load. A handler that throws is a `Late` one that never answers.

### How Recovery corresponds to the code

`RequestSave` is `Persist` of the engine and adds the call to `asked`, a queue, because both layers
answer the saves of one process in order unless they overlap in the driver (see `Persistency`).
`WriteDocument` is the moment when the layer reads the document. It holds references
(`process.js:484-494`), so the moment counts: with `WritesAtOnce` it may be the call itself
(MongoDB with a connection), otherwise any time between two call chains before the answer. `Document`
keeps of the state what decides anything: the tokens, the history as `visited`, the timeouts of
the main process, and which calls have a substate. `acked` records what the process had visited
when it asked for each save that was answered without an error - what a client that gets
`doneSavingHandler` may rely on; `refused` that a save was answered with an error.

`Restart` stops the program in any state, also in a call chain, and creates the process again:
everything in memory is gone, events are deferred (`process.js:610`). `Load`, `RestoreTimer` and
`FinishLoading` are `setPersistedData`, `restoreTimerEvents` and `createCalledProcesses` with the
deferred events after them. A timeout of the document is armed again or, past due, expires at once,
while events are still deferred. The order of `RestoreTimer` steps is that of the object's keys,
hence any.

### How Collaboration corresponds to the code

`FirstEngine` and `SecondEngine` are `ProcessEngine` (with `EngineProperties`) for two main
processes that `_createCollaboratingProcesses` has made each other's participants. Both run on
one event loop, so they share the agenda, and whatever an engine keeps by the name of a flow
object (names are unique over the file); each has its own flag and its own saves. `SendMessage`
is a handler of an arrived token that calls `sendMessage` and then `done`, before it returns or
later. What `triggerEvent` does to the partner happens in the middle of the sender's chain:

* a start event gets its token, and the chain of the receiver runs up to the next point
  where it is left before the handler goes on; if the process has been started, the
  call throws and the sender's `done` is never called (`failedHandlers`);
* a catch event's event is put off by `process.nextTick`, to the end of the agenda;
* a boundary event's event is emitted at once, or kept while the receiver saves.

`RunFirst`, `RunSecond` execute the head of the agenda in the engine it belongs to; `OutsideFirst`,
`OutsideSecond` are timers, answers, reports and late handlers. There are two participants, neither
calls processes, senders are handlers of arrived tokens, and each sends one message along one flow.

### How the persistency modules correspond to the code

A call has a stage: what it waits for. One action is one callback of the driver (`mongodb`, or
`jaguardb`, both external) with all that the code does in it. `connection` and `emitter` are the
tables of `mongodb.js` for one URI; connections and emitters are named after the call that opened
or created them, so that a closed one can be told from its successor. `onWire` are the calls
the driver has taken over with the connection it will use; a call on a closed connection fails.
`live` counts the changes of a process, so that a stored state can be compared with the call that
stored it.

`trouble` is a history variable: what the engine or the file system did that the layers are no
match for - saves of one process that overlap, a close beside other calls, an error of the files'
`find`, which `persist` and `load` ignore. Properties say which trouble they do not survive.

### How ProcessManager and RestServer correspond to the code

One action is one turn of the event loop: a request or an addition arrives, or the persistency
layer answers. Everything the manager does in that turn - popping definitions (`next` recurses),
calling back those who wait, starting creations - is part of the action; `CallBack` calls the
callbacks in order and stops at one that throws. Loading a process for a document and creating one
are asynchronous (`createBPMNProcess` loads), so `documents`, `orphans` (documents of an initialisation that
has failed meanwhile: `async.each` goes on) and `jobs` are what is under way. A request of a REST
route is handled in the turn that answers it: `Handle` comes before anything else.

Names and ids are model values; `NameOf` says which definition is asked for with an id. Strings
that differ by case only are one name. A request is one call of the interface by one caller.
Whether `triggerEvent` throws is left open, but it does without a process. That an array with
two descriptors of one name loses the first process (`manager.js:401`) is in `CreatedIds`.

### How Parser and ProcessDefinitions correspond to the code

A file is a sequence of tags. Each action is `onopentag` or `onclosetag` for one kind of tag; every
call that the handler makes is in it. All definitions and collaborations live in functions over
BPMN ids. `ParsingEnds` is `errorQueue.check`, `Attach` one round of the loop in
`setCollaborationDefinitions`: validation with `PlainErrors` and `GatewayErrors`, then
participants and message flows, with the lookup tables that these build on the way. After that
`LookUp` builds any table the engine may ask for, or throws (names that are not unique, boundary
events at other objects than wait tasks). A table is a value next to the lists it was built from,
so it can be stale. Names are compared for being empty and equal only; XML, name spaces and
imports are left out.

## The runs

| Run | What it asks |
|---|---|
| `joins` (`MCGateways`, prompt client) | `NoEventStranded`, `JoinWaitsForAll`, `TokensPassOnce`: fork into user task, catch event and slow service task, and their join, with reports during saves |
| `activities` (`MCActivities`, patient client, fair) | `OnePathLeaves`, `TimersHaveTokens`, `NothingLeftAtEnd`, `TokensHaveOneOwner`, `TokensPassOnce`, `ProcessEnds`, `DeferredIsEmitted`, `TokenGameIsPlayed`: the gateways of `joins` and a decision, a fork behind them, timeout and message boundary events, sub-process, timer event, late handlers of tasks, events and a gateway |
| `stress` (`MCStress`, eager client, failing saves) | `TypeOK`, `TokensHaveWork`, `NoTokenStranded`: two tokens on one task, a late handler and a late Done handler of a task with a timeout, overwritten and expired timers, a timer event that the client triggers, a gateway without a true condition, a called process that ends while one of its branches waits |
| `recovery` (`MCRecovery`, patient client, failing saves, two restarts, fair) | `AckedNotLost`, `WaitingTimersRun`, `SavedTokensWait`, `OneAtATime`, `EndsDespiteRestarts`: user task with timeout, message and a late handler, sub-process around a user task, timer event |
| `persistency` (`MCPersistency`, fair) | `AnsweredOnce`, `OneDocument`, `AllAnswered`, `ImplementsStore`: three calls by two processes, both layers |
| `manager` (`MCManager`, fair) | `CreatedIsFound`, `CacheOnlyGrows`, `AnsweredOncePerRound`, `StoredIsLoaded`, `RequestsAnswered`, `DeliveredOnce`, `AcknowledgedIsDelivered`: two additions, three requests of seven kinds, one or two documents |
| `collaboration` (`MCCollaboration`, prompt client, fair) | `CollaborationEnds`, `PartnersPlayTheGame`: one process starts the other and waits for its message, and cancels a task of it after a while |
| `definitions` (`MCDefinitions`) | `ElementsAreNested`, `IndexesAreFresh`, `MessageFlowsLead`, `GatewaysBranch`: ten files, five of them faulty |
| `join_early`, `timeout_after_done`, `called_event_lost`, `sub_process_debugger` | each finds a counterexample to what the repository says: see Findings |

What the engine's runs show: whatever handlers are late and whatever the client calls, tokens are
neither lost nor doubled at automatic objects and none at rest is forgotten (`stress`), and no event
of the main process is left without its save, nor does a join miss a branch (`joins`, whose client
reports during saves). For the rest `activities` needs more of the program that uses the library:

* a patient client: it waits for the save, which it can with `doneSavingHandler`, and for the
  handlers of what it calls for. Otherwise a timer may fire while a report is kept back
  (`timeout_after_done`), or the handler of a task that was reported arms the timers of a token that
  is gone (`process.js:1066`), which breaks `TimersHaveTokens`;
* Done handlers of activities, and handlers of boundary events, that answer before they return. While the
  Done handler of a task is late (`process.js:917`) its message and timer events may take the token
  first, and it goes on along its flows anyway; while the handler of a boundary event is late, so may
  the report. `OnePathLeaves` and the token game do not survive that. The other kinds of handlers -
  of arrived tokens and decisions, of tasks, catch and timer events - are late in the run;
* nobody triggers the timer event but its timer, because `triggerEvent` leaves that running
  (`process.js:866-876`).

With these, a task is left one way, timers run only for tokens that wait, the engine plays the token
game, and a started process ends. Nothing in the engine enforces them. In `stress` all three are
given up: there a task's handler and Done handler are late, and the client triggers the timer event.

`TokensHaveOneOwner` and `TokensPassOnce` say under which conditions on definition and client the
engine is known to do what the others say (see The proofs); the runs check that their processes are among
those. The first is a list of the ways in which the engine could leave the token game: a done
handler, timer or call that finds no token (`HandlersHaveTokens`), two owners of an activity's token
(`InterruptsAreAlone`), a gateway that counts wrongly or finds no flow (`GatewaysTakeTheirTokens`), a
called process that ends while a branch of it waits (`CallsEndEmpty`). Each occurs: the runs
`join_early`, `timeout_after_done` and `stress` have processes and clients with which it does.
`TokensPassOnce` is about definitions without loops, in which nothing but a parallel gateway
is entered twice.

`recovery`: a client that waits for `doneSavingHandler` loses nothing it was told of, whenever the
program stops, and the process goes on and ends. Three restrictions are part of the result: one
wait state at a time (with a fork, a save of one branch stores the other on its way, at an object
that no reload starts again), a layer that answers, and timers that do not fire during a save
(`SlowTimers`; a boundary timer puts its token and leaves that of its task for later, so a save
in between stores both). `OneAtATime` states the first of them for the states of the run, as the
theorems about recovery assume it: no save is in flight while anything moves, and no object with a
timer has two tokens. `WaitingTimersRun` is about timer events and the timeouts of tasks: at rest, a
token that waits at one has its timer, also after a restart, unless the timeout has fired and its
boundary event has a token. Only timeouts of the main process are stored; a called process gets its
tokens back without its timers, so the run's sub-process has none.

`persistency`: as long as saves of one process do not overlap and a close comes alone, both
layers are a store with one document per process whose calls take effect once between call and
answer, errors change nothing, and everybody is answered, but for `close` of the files. The engine
keeps neither condition: forks write overlapping saves, and the end of any process closes the
connection of all (listed as hazards).

`manager`: requests and additions in any order, with any answers of the layer: created processes
are found and never replaced, a stored process is loaded before anybody is answered, a message is
triggered at most once. Answers may come again with each initialisation (`AnsweredOncePerRound`
allows exactly that). Where the code answers nobody or creates nothing, the property says so:
`thrown` in `RequestsAnswered`, `failedTries` in `AcknowledgedIsDelivered`, `failedLoads` in
`StoredIsLoaded`. `CreatedIsFound` is about arrays of descriptors. A simple id is cached under
`undefined` (`manager.js:513-517`), so `get` does not find it and only one can be created; for a
single `{name, id}` the lookup at 503 throws, so the two POST routes of one process
throw, too; both are in the model as they are.

`collaboration`: the comment of `triggerEvent` on its `nextTick` says "it is not completely clear to
me whether this works in all circumstances" (`process.js:275`). The run shows circumstances in which it does: a
process starts its partner from a handler that calls `done` before it returns, and waits at a
catch event. Then the partner's message comes after the token, although either engine defers
events during its own saves, the handler that sends the message answers late, and the clients do
not wait for saves. Two circumstances are excluded, because it does not work in them:

* the handler that starts the partner calls `done` later: the message may come before the token
  waits for it and is lost, and the collaboration waits for ever;
* the task that a message cancels has a timeout, too: a message that is kept during a save and a
  timer that fires meanwhile take both ways out of it (the hazard of `timeout_after_done`).

A client that starts the first process itself makes the handler that wants to start it throw;
`CollaborationEnds` excepts this case. An end of one process closes the connection under the
partner's saves when both use one MongoDB layer (see `persistency`); the engines here are
answered all the same.

`definitions`: every element ends up in the definition around it, also after nested sub-processes
and processes that are skipped; every message flow between processes gets its target, and is found at its
source, in every order of collaborations and processes; a gateway that neither splits nor joins
is refused although that is looked at only while there are no errors; no lookup is answered from
a stale table.

**Bounds.** `Budget` bounds the client's calls per object: two per wait state, so that one may be a
repetition (one each in `stress`). The prompt client of `joins` repeats calls; the patient one of
`activities` may, but never finds the token that it would need. The number of tokens is bounded by the definitions, which have
no loop: each kind of flow object occurs with the neighbours that its code distinguishes (fork
and join, diverging and single-flow gateway, catch events with and without timer, an activity
with both kinds of boundary events, a called process). `TokenGameIsPlayed`'s `Return` asks that
the called process is empty, so `activities` has one end event in it; `stress` has a second branch.
In `collaboration` each process has a fork or a decision, so that both are under way at once, and each kind of message is sent.
`MaxRestarts` is 2, so that a reloaded process is stopped again while it loads or saves; the
client may call once more than there are restarts, since a restart may lose a call. In
`persistency` three calls are enough for one that opens the connection, one that waits and one
that closes it or comes later, and for two overlapping saves and a load; one process changes once,
so that a stale document differs from a fresh one. In `manager` `MaxAdds` is 2: a
second definition is added during or after the initialisation of the first; there are two requests
with one message and two that want the same ids, and stores with one or two documents of one id. `Documents` of
`MCDefinitions` are ten files with what the parser tells apart, nested two deep, each message flow
in both directions, within a process, and from a process that is not executable.

**Idle and deadlock.** `Idle` stutters when the agenda is empty: Node waits for events. Deadlock
checking is on and would report a call chain that no action continues. The manager and a file
that was read or refused may come to rest, so deadlock is not checked there.

**Fairness.** `FairSpec` has weak fairness of the running call chain (Node runs it to its end), of
the answers of the persistency layer (the driver calls back), of every armed timer and of every
late handler (a promise of the handlers' author), of the start, and of the report of every task
or message a token waits for. Messages at boundary events and overwritten timers need not happen.
`Collaboration!FairSpec` assumes the same of
both engines and that the client starts the second process; that it starts the first is left open.
Every fair action stays enabled until taken, except a client call during a save or before a handler
of its object has answered; saves and handlers answer, and weak fairness of `TaskDone` is enough since
the flag then stays down and no handler of the object is called again. `RecoveryFairSpec` adds that
the layer writes and answers each save and load; restarts and refused saves need not happen.
`Persistency!FairSpec` has weak fairness of the driver's answer to each call, `RestServer!Spec` of
the layer's answers and of a route's handler; nobody has to call anything.

## Findings

* `join_early`: a parallel gateway counts tokens that were put on it but have not arrived
  (`gateways.js:164`), fires for the first arrival and leaves a token behind for the others.
* `timeout_after_done`: a timer that fires while the report of its task is deferred makes the
  task be left twice (`timeouts.js:101` leaves the token of the activity where it is).
* `called_event_lost`: a called process's events that were deferred are never emitted
  (`process.js:1103` and `1112`).
* `sub_process_debugger`: the definition of a sub-process in a file gets the parser's queue of
  errors as debugger interface (`parser.js:175`); the engine asks it with the first token whether it is
  in the debugger, which throws.

## The proofs

TLAPS checks all of them to the last leaf. `ProcessEngine_proofs` and `TokenAccounting_proofs`
prove, from `DefinitionAssumption` and `EnvironmentAssumption` alone, hence for every process
definition, every set of late handlers and every client:

* `TypeCorrectness`: `Spec => []TypeOK`. `TypeOK` is inductive. The proof has a lemma per helper
  (what `Proceed`, `CallHandler`, `EmitEvent`, `Leave`, `Expire`, `EmitDeferredEvents` leave in
  the agenda and the queues) and a case per action.
* `EventsAreNotStranded`: `Spec => []NoEventStranded`. `NoEventStranded` is not inductive: it
  says nothing while no event is kept, and the next event to be kept needs the save to be in
  flight already. `FlagInv` strengthens it: the flag itself implies a call in flight, for a
  persistency layer that answers. Overlapping saves are the interesting case: the first answer
  resets the flag, and that is why the others in flight are not needed.
* `TokensAreAccountedFor`: `Spec => []TokensHaveWork`, for any number of tokens. The invariant
  counts entries in sequences, so the proof first shows what `\o`, `Append` and `Tail` do to a
  count. Then every entry gets an account, `Outstanding`: on the agenda, with a handler, or kept
  by its receiver. `Moves(new)` says that a step takes the head of the agenda from the accounts
  and adds `new` to them; it holds of `Proceed`, `CallHandler`, `EmitEvent`,
  `EmitDeferredEvents` and `HandlerAnswers`, whichever way they go, so that deferral and late
  answers need no cases of their own after that. `AccountInv` strengthens the property by
  `WellPlaced` (a task report is outstanding only for a wait task, or `Leave` would take the token
  of another object) and `Received` (a process keeps its own events only, or emitting those of
  the main process would add work to others). One case per action compares the tokens it moves
  with the work it takes and adds.

`TokenGame_proofs` goes on from these, with `ValidationAssumption`: what the `validate` methods of the
flow objects refuse (flows to start and boundary events, no way out of anything but end events), flows
and boundary events stay in their process, and each call activity has one called process.

* `NoTokenIsForgotten`: `Spec => []NoTokenStranded`, without a condition on the definition or the
  client. Whatever was late, deferred or repeated, a token at rest waits for something that can
  come. `RestInv` adds to the accounts of tokens: `JoinsGoOn`, a gateway that has all its tokens is
  about to be asked or to let them go, also when a second arrival is deferred in between;
  `CallsGoOn`, all tokens of a call but one have work, and that one has a called process that
  is `Alive`, i.e. is on its way in or out, or has a token itself. `PresentStays` is the core: no
  step takes the last token of a process, but that of an end event (`EndIsTold`) or of a gateway
  without a true condition, which came to it (`DecisionsVisited`). `Quiet` includes that no event
  is kept, and that is a condition: `called_event_lost` shows a process for which it never becomes true.
* `EngineImplementsTokenGame`: `Spec /\ []TokensHaveOneOwner => TokenGameIsPlayed`, the refinement.
  `StepEffect` reads every step of the engine, deferral, timers and late handlers included, as
  one of thirteen effects on what the game counts (`puts`, `starts`, `leavings`, tokens, called processes);
  each effect is a move of the game or none. `OwnersInv` keeps apart the tokens that timeouts have
  taken and the activity still has: at most as many as there are, one for each timeout.
* `JoinsWait`: `Spec /\ []TokensPassOnce => []JoinWaitsForAll`. `JoinInv` bounds the tokens at a
  gateway, there or on the way, by the number of its flows that were `Crossed`: so there are as many as flows only
  when all were. `OnceInv` says that an object which was left has no token any more.
* `OnePathIsTaken`: `Spec /\ []TokensPassOnce /\ []TokensHaveOneOwner => []OnePathLeaves`.
  `PathInv` relates the ways out of an activity, each of which begins at objects that are entered from
  there only, to its mark in the game, which is gone once one was taken.

The last three have hypotheses because without them the code does not keep the properties: see
Findings. They speak of single states that a client and a definition can be seen to avoid, not of the
properties themselves: `TokensHaveOneOwner` says nothing of what a step puts, `TokensPassOnce` nothing
of how many branches a join has waited for, unless another gateway comes right after it.

`Recovery_proofs` proves, from these and `RecoveryAssumption`, for every definition and layer:

* `RecoveryTypeCorrectness`: a loaded document is a state of the engine, whatever was stopped when.
  Every step but those of saving, restarting and loading is one of the engine, whose type
  invariant is reused.
* `AcknowledgedIsNotLost`: `RecoverySpec => []AckedNotLost`. `HistoryInv` strengthens it: what the
  saves in flight were asked with is in the history, for the written ones in the store, and a process that is past
  loading has at least the history of the store. It needs that `visited` only grows
  (`HistoryGrows`, a case per action of the engine), and that the layer answers only what is
  written.
* `WaitingIsSaved`: `RecoverySpec /\ []SavesAreAlone => []SavedTokensWait`, and `WaitingHasTimers`:
  `RecoverySpec /\ []OneAtATime => []WaitingTimersRun` (from `ValidationAssumption`, too). Both need a hypothesis about the process,
  because without it the code does not keep them: a save that one branch of a fork asks for, or
  that overlaps a late handler, stores the other branch's token on its way, and `setTimeoutIds`
  has one entry for two tokens at one timer event, or at one activity with a timeout. `README.md` of the repository says that a
  process is saved "while waiting"; `SavesAreAlone` is that sentence, and the run `recovery`
  checks that its process, with its user task, sub-process and timer event, is one that has it.
  The proof of the first says what the hypothesis is enough for. While nothing is on the agenda,
  with a handler or kept back, every token at an automatic object would be without work, so
  `TokensHaveWork` says that there is none (`QuietAccounts`); the step that starts a save ends
  quiet, and whenever the layer reads the live state before it answers, the hypothesis makes it quiet again.
  `WaitingInv`, for the second, follows a timer through all the places it can be in: running, with
  its event on the way (`OnItsWay`), in the stored document, or among those that loading still has
  to restore (`LoadingInv`). For the timeouts of an activity there is one place more, the token of
  the boundary event: while the activity has its own, a timeout is stopped only by what leaves the
  activity, or by firing (`TimeoutIsKept`, `TimeoutOnItsWay`).

`Manager_proofs` proves, from `ManagerAssumption` and `RoutesAssumption`, for any requests,
definitions and documents:

* `ProcessesAreKept`: `Spec => CacheOnlyGrows`. No invariant is needed: who writes to the cache
  has looked up the same ids in the same turn.
* `CreatedProcessesAreFound`: `Spec => []CreatedIsFound`. `ManagerStep` sums up what any of the
  manager's steps does to requests and answers (a request is told nothing, or one honest answer);
  `CreatedInv` then follows from that and `ProcessesAreKept`.
* `MessagesAreDeliveredOnce`, `AcknowledgedMessagesAreDelivered`. `RestInv` relates three things:
  what is recorded as received, what was delivered or has failed, and what was acknowledged.

`Initialisation_proofs` proves, from the same assumptions (`ManagerAssumption` includes that the
stored documents have ids, and that no process equals the mark for none):

* `StoredProcessesAreLoaded`: `Spec => []StoredIsLoaded`. `LoadingInv` says where the
  process of a stored document can be, once its definition is taken up: in the cache, among the
  documents still to be loaded, or failed. Documents wait only while the manager initialises, for
  the definition it is at, so none waits when the flag goes up.
* `CallbacksAreCounted`: `Spec => []AnsweredOncePerRound`. The list of those who wait is never
  emptied, so a request is called back again with each initialisation; `SpentInv` counts the answers
  and the creations under way of a request against the rounds that have finished. It needs what
  `CallBack` does to a list in which somebody waits twice or throws.

`Persistency_proofs` proves, from `CallsAssumption` alone (`Nobody` is no call), for any number of
calls, processes and changes, whichever layer is chosen and however its driver answers:

* `CallsAreAnsweredOnce`: `Spec => []AnsweredOnce`. `AnswerInv` ties the number of answers to the
  stage of the call. That every action finds its call in a stage before the answer is
  `ConnectionInv`: who waits, waits at the emitter of the one call that opens the connection, and
  a call has one request at the driver at most. A close in flight is alone, or the tables would be
  dropped under those who wait; the trouble the property excepts is exactly that.
* `ProcessesHaveOneDocument`: `Spec => []OneDocument`. `SaveInv`: while saves of a process do not
  overlap, no document of it appears between the find of a save and its insert.
* `LayersImplementStore`: `Spec => ImplementsStore`, the refinement. A step is one of the store or
  none: `AskStep`, `FailStep`, `SaveServed` and `LoadServed` say which. `WireInv` and `StageInv`
  bound the state that a save stores by the one at the call and the one at the answer; `OwnerInv`
  says that an update hits a document of the same process; one document for each process makes
  the state that is stored a function of the process.

`ProcessDefinitions_proofs` proves, from `DocumentsAssumption`, for every file:

* `TablesAreFresh`: `Spec => []IndexesAreFresh`. The invariant says what the property does not:
  while a file is read there are no tables at all, and while collaborations are attached none of
  messages, which is why `addSequenceFlow` and `addMessageFlows` may forget less than they change.
* `AcceptedFlowsLead`: `Spec => []MessageFlowsLead`. The processes and collaborations of a file are
  attached one by one, and a flow is completed by whichever of its two ends comes last. The invariant
  says, for those already passed by the loop, what they have left behind: the flows in the definitions of
  their participants, and the target in each flow that ends there. An element is in one
  definition, so no later process takes a flow over.
* `AcceptedGatewaysBranch`: `Spec => []GatewaysBranch`. Errors only accumulate, and a gateway that
  does not branch is looked for at the elements before the first error of a definition. In an accepted
  definition none has an error, hence each was looked at, with the flows it has; in a file with
  such a gateway the first one (`FirstOf`) puts an error on the list.
* `ReadElementsAreNested`: `Spec => []ElementsAreNested`. The parser has a stack and two "current"
  variables, none of which is reset where one would expect (a closing `process` resets nothing, a
  process that is skipped leaves the stack alone); the property speaks of the tags of the file
  only. `StackInv` is the link: the containers around the next tag, outermost first, are a path. If
  its process is read, then stack and current definition are the ids on it; if it is skipped, the
  stack is empty and there is no current definition. `ContentInv` says the property for the places
  before the next tag, and `ElementInv` that the current element is the one whose marks may come
  next. `Adds` sums up what each of the twelve actions adds, so that they need no cases of their own
  after it.

`DocumentsAssumption` is what the BPMN schema gives: opening tags with an `id` of type `xsd:ID` have
different ones, and the `processRef` of a participant names no sub-process. Only
`ReadElementsAreNested` needs `NestingAssumption`, too, which is what XML and the schema give: a
closing tag closes the last container that is open, processes and collaborations are top-level,
flow elements are in processes, and event definitions in their events.

Only model-checked:

* Liveness (`ProcessEnds`, `DeferredIsEmitted`, `CollaborationEnds`, `EndsDespiteRestarts`,
  `AllAnswered`, `RequestsAnswered`), which is out of reach of the prover.
* `TokensHaveOneOwner`, `TokensPassOnce`: hypotheses of the theorems about the token game, checked
  process by process.
* `NothingLeftAtEnd`: it holds of well-formed definitions, whose forks and joins match along paths
  of any length. What holds of every one is `NoTokenIsForgotten`.
* `TimersHaveTokens`: it depends on the definition as well as on the client, who has to wait for saves
  and for the task's handler and to leave timer events to their timers, and on boundary events'
  handlers that are not late. Even then, if an activity is entered again while another of its boundary events is still handled, and the
  arrival is deferred by a save, then the boundary event takes the new token, and the arrival starts
  the timers of an activity that has none. `TokensHaveOneOwner` implies it, for boundary events
  and timer events alike, so that a theorem with that hypothesis would say nothing.
* `OneAtATime`, the hypothesis of the theorems about recovery.
* `PartnersPlayTheGame`: in a collaboration both engines share agenda and tokens, so the invariants of
  one engine are not those of its part of them.

Induction over data is out of reach, too. Where a proof needs the first of some elements, `FirstOf`
takes the least of their positions, by the well-foundedness of the naturals.

## Not modelled

* Logger, transaction log and utilities hold no state that behaviour depends on. Of the debugger
  only who gets one is modelled; its HTTP calls delay a token like a late handler.
* Properties of processes, message data, time stamps of the history: no decision depends on them.
* Collaborations of more than two processes, and messages that a handler of a timer, an activity's
  end or a late answer sends: they are calls from outside a chain, as those of the client are.
  How message flows find their processes is in `ProcessDefinitions`.
* Restarts of a collaboration, and called processes in one.
* A manager without a persistency layer, and the unmanaged processes of `public.js`: they fail on
  creation (`process.js:607`).
* Responses beyond their status; restify, the XML parser, `async`, the MongoDB driver and
  `jaguardb` are external, modelled from how the code uses them.
* The cache of definitions by file name (`definitions.js:97-`), and where call activities find
  their files.
