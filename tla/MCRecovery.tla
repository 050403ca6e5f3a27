------------------------------ MODULE MCRecovery ------------------------------
(****************************************************************************)
(* A process that waits at one object at a time: a user task with a timeout *)
(* and a message boundary event, a sub-process around a user task, a timer. *)
(*   Start -> Ask -> Sub -> Pause -> End    Timeout (at Ask) -> Overdue     *)
(*   SubStart -> Work -> SubEnd             Cancel (at Ask) -> Cancelled    *)
(****************************************************************************)
EXTENDS RecoveryProperties

MCKind ==
  [Start |-> "start", Ask |-> "waitTask", Sub |-> "call", Pause |-> "timerCatch",
   End |-> "end", Timeout |-> "timeout", Overdue |-> "end", Cancel |-> "message",
   Cancelled |-> "end", SubStart |-> "start", Work |-> "waitTask", SubEnd |-> "end"]
MCFlowObjects == DOMAIN MCKind
MCOutgoing ==
  [o \in MCFlowObjects |->
    CASE o = "Start" -> <<"Ask">>        [] o = "Ask" -> <<"Sub">>
      [] o = "Sub" -> <<"Pause">>        [] o = "Pause" -> <<"End">>
      [] o = "Timeout" -> <<"Overdue">>  [] o = "Cancel" -> <<"Cancelled">>
      [] o = "SubStart" -> <<"Work">>    [] o = "Work" -> <<"SubEnd">>
      [] OTHER -> << >>]
MCBoundaries ==
  [o \in MCFlowObjects |-> IF o = "Ask" THEN <<"Timeout", "Cancel">> ELSE << >>]
MCProcesses == {"main", "sub"}
MCProcessOf ==
  [o \in MCFlowObjects |-> IF o \in {"SubStart", "Work", "SubEnd"} THEN "sub" ELSE "main"]
MCCallOf  == [p \in {"sub"} |-> "Sub"]
MCStartOf == [main |-> "Start", sub |-> "SubStart"]

\* One call more than restarts, since a restart may lose what a call did.
MCBudget ==
  [o \in MCFlowObjects |->
    IF MCKind[o] \in {"start", "waitTask", "message"} THEN 1 + MaxRestarts ELSE 0]

MCLate ==
  {Item("handled", "Ask"), Item("begun", "Pause"), Item("timerHandled", "Pause"),
   Item("activityDone", "Sub")}
===============================================================================
