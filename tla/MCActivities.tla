----------------------------- MODULE MCActivities -----------------------------
(****************************************************************************)
(* The gateways of MCGateways (a join of a user task, a message catch event *)
(* and a service task, and a decision), and behind them a fork into         *)
(* - a user task with a timeout and a message boundary event, then a        *)
(*   sub-process around another user task, then a timer event;              *)
(* - a message catch event with a slow service task.                        *)
(*   Start -> Split -> {Review, Answer, Mail} -> Sync -> Ok -> (Fix ->)     *)
(*     Merge -> Fork -> {Ask, Reply}                                        *)
(*   Ask -> Sub -> Pause -> End         Timeout (at Ask) -> Remind -> Overdue*)
(*   SubStart -> Work -> SubEnd         Cancel (at Ask) -> Cancelled        *)
(*   Reply -> File -> Filed                                                 *)
(****************************************************************************)
EXTENDS EngineProperties

MCKind ==
  [Start |-> "start", Split |-> "and", Review |-> "waitTask", Answer |-> "catch",
   Mail |-> "task", Sync |-> "and", Ok |-> "xor", Fix |-> "task", Merge |-> "xor",
   Fork |-> "and", Reply |-> "catch", File |-> "task",
   Filed |-> "end", Ask |-> "waitTask", Sub |-> "call", Pause |-> "timerCatch",
   End |-> "end", Timeout |-> "timeout", Remind |-> "task", Overdue |-> "end",
   Cancel |-> "message", Cancelled |-> "end",
   SubStart |-> "start", Work |-> "waitTask", SubEnd |-> "end"]
MCFlowObjects == DOMAIN MCKind
MCOutgoing ==
  [o \in MCFlowObjects |->
    CASE o = "Start" -> <<"Split">>      [] o = "Split" -> <<"Review", "Answer", "Mail">>
      [] o \in {"Review", "Answer", "Mail"} -> <<"Sync">>
      [] o = "Sync" -> <<"Ok">>          [] o = "Ok" -> <<"Fix", "Merge">>
      [] o = "Fix" -> <<"Merge">>        [] o = "Merge" -> <<"Fork">>
      [] o = "Fork" -> <<"Ask", "Reply">>
      [] o = "Reply" -> <<"File">>       [] o = "File" -> <<"Filed">>
      [] o = "Ask" -> <<"Sub">>
      [] o = "Sub" -> <<"Pause">>        [] o = "Pause" -> <<"End">>
      [] o = "Timeout" -> <<"Remind">>   [] o = "Remind" -> <<"Overdue">>
      [] o = "Cancel" -> <<"Cancelled">>
      [] o = "SubStart" -> <<"Work">>    [] o = "Work" -> <<"SubEnd">>
      [] OTHER -> << >>]
MCBoundaries ==
  [o \in MCFlowObjects |-> IF o = "Ask" THEN <<"Timeout", "Cancel">> ELSE << >>]
MCProcesses == {"main", "sub"}
MCProcessOf ==
  [o \in MCFlowObjects |-> IF o \in {"SubStart", "Work", "SubEnd"} THEN "sub" ELSE "main"]
MCCallOf  == [p \in {"sub"} |-> "Sub"]
MCStartOf == [main |-> "Start", sub |-> "SubStart"]
\* Nobody triggers the timer event Pause but its timer.
MCBudget  ==
  [o \in MCFlowObjects |->
    IF MCKind[o] \in {"waitTask", "message"} THEN 2
    ELSE IF MCKind[o] \in {"start", "catch"} THEN 1 ELSE 0]

\* No message boundary event, one report of each task.
MCReports ==
  [o \in MCFlowObjects |-> IF MCKind[o] \in {"start", "catch", "waitTask"} THEN 1 ELSE 0]

\* Not late: the Done handlers of the tasks and the handlers of the boundary events.  While
\* those of Ask, Cancel or Timeout owe their answer another way out of Ask stays open, and
\* may be taken as well; after those of Review or Work the token may arrive during a save
\* of another branch, at a join that has been counted or in the queue of the called process.
MCLate ==
  {Item("handled", "Mail"), Item("handled", "Review"), Item("handled", "Ok"),
   Item("begun", "Ask"), Item("handled", "Ask"), Item("handled", "Remind"),
   Item("handled", "File"), Item("caught", "Reply"), Item("begun", "Pause"),
   Item("timerHandled", "Pause")}
===============================================================================
