-------------------------- MODULE RecoveryProperties --------------------------
(****************************************************************************)
(* What a process that is saved and loaded has to guarantee.                *)
(****************************************************************************)
EXTENDS Recovery, EngineProperties

\* What the client was told is saved (doneSavingHandler) survives every restart: it is
\* in the store, and in the history of the process once it is loaded again, although the
\* document is read from the live state at some later time.
AckedNotLost ==
  /\ acked \subseteq stored.visited
  /\ phase = "running" => acked \subseteq visited

\* While a save is in flight the process waits, as README.md says of it, with nothing on
\* the way: _emitEvent keeps it so, unless a parallel branch or a late handler is on its
\* way when the save begins.
SavesAreAlone == asked # << >> => Quiet

\* One thing at a time: saves are alone, and no timer event, nor an activity with a
\* timeout, is entered twice before it is left, so that the entry in setTimeoutIds is of
\* the token that waits there.
OneAtATime ==
  /\ SavesAreAlone
  /\ \A t \in OfKind({"timerCatch"}) : tokens[t] <= 1
  /\ \A t \in OfKind({"timeout"}) : tokens[Host(t)] <= 1

\* No timer of the main process gets lost, and those that ran when the process was saved run
\* again after a restart.  At rest, a token that waits at a timer event has a timer
\* that will fire, and so has one that waits at an activity with a timeout, for each of
\* its timeouts, unless that has fired and its boundary event has a token already.
WaitingTimersRun ==
  phase = "running" /\ agenda = << >> =>
    /\ \A t \in OfKind({"timerCatch"}) :
         ProcessOf[t] = Main /\ tokens[t] > WorkAt(t) => t \in timers
    /\ \A t \in OfKind({"timeout"}) :
         ProcessOf[t] = Main /\ tokens[Host(t)] > WorkAt(Host(t)) =>
           t \in timers \/ tokens[t] > 0

\* A process is stored as README.md says, "while waiting": every stored token is at an
\* object that waits for an event from outside, so that a process that is loaded goes on.
SavedTokensWait ==
  \A o \in FlowObjects : stored.tokens[o] > 0 =>
    Kind[o] \in {"waitTask", "catch", "timerCatch", "call", "and"}

\* Once the client was told of a save, the process ends however often it is stopped and
\* loaded again, as long as no save is answered with an error.
EndsDespiteRestarts == acked # {} ~> Ended \/ refused
===============================================================================
