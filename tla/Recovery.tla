------------------------------- MODULE Recovery -------------------------------
(****************************************************************************)
(* A process that is saved, stopped at any moment, and loaded again         *)
(* (persist, loadPersistedData, setPersistedData and createCalledProcesses  *)
(* of lib/process.js, restoreTimerEvents of lib/timeouts.js), on top of the *)
(* engine of ProcessEngine.                                                 *)
(*                                                                          *)
(* `persist' hands over references to the live state, so the document is    *)
(* what the process looks like when the persistency layer reads it: in the  *)
(* call itself, or any time before it answers.  The layer applies and       *)
(* answers the saves of a process in the order of the calls.                *)
(****************************************************************************)
EXTENDS ProcessEngine

CONSTANTS
  WritesAtOnce,  \* may the layer read the document in the call of persist?
  SlowTimers,    \* do timers fire only while no save is in flight?
  MaxRestarts    \* bound on the restarts

ASSUME RecoveryAssumption ==
  /\ WritesAtOnce \in BOOLEAN
  /\ SlowTimers \in BOOLEAN
  /\ MaxRestarts \in Nat

VARIABLES
  phase,      \* "loading": waits for the document; "restoring": doneLoading runs
  stored,     \* the document in the store
  restoring,  \* loaded timeouts that are still to be restored
  asked,      \* the saves in flight, oldest first
  written,    \* how many of them have reached the store
  acked,      \* what the process had visited when it asked for the saves answered
  refused,    \* a save was answered with an error since the last restart
  restarts    \* restarts so far (bounded by MaxRestarts)

engineVars   == vars
storeVars    == <<stored, asked, written, acked, refused>>
recoveryVars == <<engineVars, phase, storeVars, restoring, restarts>>

Documents ==
  [tokens : [FlowObjects -> Nat], visited : SUBSET FlowObjects,
   calls : SUBSET Processes, timeouts : SUBSET FlowObjects]

SaveRequests == [final : BOOLEAN, visited : SUBSET FlowObjects]

RecoveryTypeOK ==
  /\ TypeOK
  /\ phase \in {"running", "loading", "restoring"}
  /\ stored \in Documents
  /\ restoring \subseteq FlowObjects
  /\ asked \in Seq(SaveRequests)
  /\ written \in 0 .. Len(asked)
  /\ acked \subseteq FlowObjects
  /\ refused \in BOOLEAN
  /\ restarts \in Nat

\* persistentData: state.tokens with the substates of the calls, the history, and
\* the timeouts of the main process.  The called processes that have a token with a
\* calledProcessId are in the state too.
Document ==
  [tokens   |-> [o \in FlowObjects |-> IF HasTokens(Main, o) THEN tokens[o] ELSE 0],
   visited  |-> visited,
   calls    |-> {p \in called \ {Main} : HasTokens(Main, CallOf[p])},
   timeouts |-> {t \in timers : ProcessOf[t] = Main}]

\* The store has nothing, which a process loads like the document of one that has
\* not been started.
NoDocument ==
  [tokens |-> [o \in FlowObjects |-> 0], visited |-> {}, calls |-> {}, timeouts |-> {}]

RecoveryInit ==
  /\ Init
  /\ phase = "running"
  /\ stored = NoDocument
  /\ restoring = {}
  /\ asked = << >>
  /\ written = 0
  /\ acked = {}
  /\ refused = FALSE
  /\ restarts = 0

-----------------------------------------------------------------------------
(****************************************************************************)
(* Saving.                                                                  *)
(****************************************************************************)

\* persist: the document is read at once, or later.
RequestSave ==
  /\ Persist
  /\ asked' = Append(asked, [final |-> Running("persistAndClose"), visited |-> visited])
  /\ \/ UNCHANGED <<stored, written>>
     \/ /\ WritesAtOnce
        /\ written = Len(asked)
        /\ stored' = Document
        /\ written' = written + 1
  /\ UNCHANGED <<phase, restoring, acked, refused, restarts>>

\* The layer reads the live state between two call chains and stores it.
WriteDocument ==
  /\ phase = "running"
  /\ agenda = << >>
  /\ written < Len(asked)
  /\ stored' = Document
  /\ written' = written + 1
  /\ UNCHANGED <<engineVars, phase, restoring, asked, acked, refused, restarts>>

\* Mutant of SaveAnswered: the layer calls back before the document is written.
SaveAnsweredEarly ==
  /\ phase = "running"
  /\ asked # << >>
  /\ IF Head(asked).final THEN FinalSaveDone ELSE SaveDone
  /\ acked' = acked \cup Head(asked).visited
  /\ asked' = Tail(asked)
  /\ written' = IF written > 0 THEN written - 1 ELSE 0
  /\ UNCHANGED <<phase, stored, restoring, refused, restarts>>

\* doneSaving without an error: the client's doneSavingHandler is told.
SaveAnswered ==
  /\ phase = "running"
  /\ written > 0
  /\ IF Head(asked).final THEN FinalSaveDone ELSE SaveDone
  /\ acked' = acked \cup Head(asked).visited
  /\ asked' = Tail(asked)
  /\ written' = written - 1
  /\ UNCHANGED <<phase, stored, restoring, refused, restarts>>

\* doneSaving with an error, whether or not the document was written.
SaveRefused ==
  /\ phase = "running"
  /\ asked # << >>
  /\ SaveFails
  /\ io'[IF Head(asked).final THEN "saveAndClose" ELSE "save"]
       < io[IF Head(asked).final THEN "saveAndClose" ELSE "save"]
  /\ asked' = Tail(asked)
  /\ written' = IF written > 0 THEN written - 1 ELSE 0
  /\ refused' = TRUE
  /\ UNCHANGED <<phase, stored, restoring, acked, restarts>>

-----------------------------------------------------------------------------
(****************************************************************************)
(* Loading.                                                                 *)
(****************************************************************************)

\* The program stops, whatever it was doing, and is started again: a new process
\* object with the same id asks for its document and defers events meanwhile.
Restart ==
  /\ restarts < MaxRestarts
  /\ restarts' = restarts + 1
  /\ phase' = "loading"
  /\ tokens' = [o \in FlowObjects |-> 0]
  /\ visited' = {}
  /\ called' = {}
  /\ agenda' = << >>
  /\ pending' = [c \in Late |-> 0]
  /\ deferEvents' = TRUE
  /\ deferred' = [p \in Processes |-> << >>]
  /\ io' = [op \in IoOps |-> 0]
  /\ timers' = {}
  /\ leaked' = [o \in FlowObjects |-> 0]
  /\ restoring' = {}
  /\ asked' = << >>
  /\ written' = 0
  /\ refused' = FALSE
  /\ UNCHANGED <<calls, stored, acked>>

\* setPersistedData takes over state and history.
Load ==
  /\ phase = "loading"
  /\ phase' = "restoring"
  /\ tokens' = stored.tokens
  /\ visited' = stored.visited
  /\ restoring' = stored.timeouts
  /\ UNCHANGED <<called, agenda, pending, deferEvents, deferred, io, timers, leaked, calls,
                 storeVars, restarts>>

\* Mutant of RestoreTimer: a timeout of a boundary event is not armed again.
RestoreTimerForgettingTimeouts(t) ==
  /\ phase = "restoring"
  /\ agenda = << >>
  /\ t \in restoring
  /\ restoring' = restoring \ {t}
  /\ \/ /\ timers' = timers \cup ({t} \ BoundaryEvents)
        /\ UNCHANGED <<tokens, visited, called, agenda, pending, deferEvents, deferred, io,
                       leaked, calls>>
     \/ t \notin BoundaryEvents /\ Expire(t, << >>) /\ UNCHANGED leaked
  /\ UNCHANGED <<phase, storeVars, restarts>>

\* restoreTimerEvents: a loaded timeout is armed again, or its handler runs at once if
\* its time has passed.
RestoreTimer(t) ==
  /\ phase = "restoring"
  /\ agenda = << >>
  /\ t \in restoring
  /\ restoring' = restoring \ {t}
  /\ \/ /\ timers' = timers \cup {t}
        /\ UNCHANGED <<tokens, visited, called, agenda, pending, deferEvents, deferred, io,
                       leaked, calls>>
     \/ Expire(t, << >>) /\ UNCHANGED leaked
  /\ UNCHANGED <<phase, storeVars, restarts>>

\* Mutant of FinishLoading: events stay deferred.
FinishLoadingSilently ==
  /\ phase = "restoring"
  /\ agenda = << >>
  /\ restoring = {}
  /\ phase' = "running"
  /\ called' = stored.calls
  /\ UNCHANGED <<agenda, deferEvents, deferred, tokens, visited, pending, io, timers, leaked,
                 calls, restoring, storeVars, restarts>>

\* createCalledProcesses for the call tokens loaded; then the deferred events.
FinishLoading ==
  /\ phase = "restoring"
  /\ agenda = << >>
  /\ restoring = {}
  /\ phase' = "running"
  /\ called' = stored.calls
  /\ EmitDeferredEvents
  /\ UNCHANGED <<tokens, visited, pending, io, timers, leaked, calls, restoring, storeVars,
                 restarts>>

-----------------------------------------------------------------------------
\* The call chain of a running or loading process.
Run ==
  \/ RequestSave
  \/ /\ TokenStep \/ EventStep \/ TimerStep
     /\ UNCHANGED <<phase, storeVars, restoring, restarts>>

\* What may start a call chain once the process is loaded.
Outside(step) ==
  /\ phase = "running"
  /\ step
  /\ UNCHANGED <<phase, storeVars, restoring, restarts>>

Timer(t)      == (SlowTimers => asked = << >>) /\ Outside(TimerFires(t) \/ LeakedTimerFires(t))
Closed        == Outside(ConnectionClosed)
Answer(c)     == Outside(HandlerAnswers(c))
Start         == Outside(TriggerStart)
Report(o)     == Outside(TaskDone(o) \/ TriggerCatchEvent(o))
Interrupt(o)  == Outside(TriggerBoundaryEvent(o))
Loading       == Load \/ FinishLoading \/ \E t \in TimerEvents : RestoreTimer(t)
Resting       == Outside(Idle)

RecoveryNext ==
  \/ Run
  \/ WriteDocument \/ SaveAnswered \/ SaveRefused \/ Closed
  \/ Restart \/ Loading
  \/ \E t \in TimerEvents : Timer(t)
  \/ \E c \in Late : Answer(c)
  \/ Start \/ Resting
  \/ \E o \in FlowObjects : Report(o) \/ Interrupt(o)

RecoverySpec == RecoveryInit /\ [][RecoveryNext]_recoveryVars

(****************************************************************************)
(* As in ProcessEngine; the layer writes and answers every save and load.   *)
(* Restarts need not happen, and are finitely many.                         *)
(****************************************************************************)
RecoveryFairness ==
  /\ WF_recoveryVars(Run)
  /\ WF_recoveryVars(WriteDocument)
  /\ WF_recoveryVars(SaveAnswered)
  /\ WF_recoveryVars(Closed)
  /\ WF_recoveryVars(Loading)
  /\ \A t \in TimerEvents : WF_recoveryVars(Timer(t))
  /\ \A c \in Late : WF_recoveryVars(Answer(c))
  /\ WF_recoveryVars(Start)
  /\ \A o \in FlowObjects : WF_recoveryVars(Report(o))

RecoveryFairSpec == RecoverySpec /\ RecoveryFairness
===============================================================================
