------------------------------- MODULE MCStress -------------------------------
(****************************************************************************)
(* Everything at once on a small definition: two tokens can meet on the     *)
(* user task Ask, whose timeout may be past due; the gateway Any may find   *)
(* no condition true; the client calls at any time; saves may fail; the     *)
(* called process waits for a task that the main process reports, and its   *)
(* other branch may end the process before that.                            *)
(*   Start -> Split -> {Ask, Any}   Any -> Ask | Sub                        *)
(*   Ask -> End   Timeout (at Ask) -> End   Sub -> Pause -> End             *)
(*   SubStart -> Fan -> {Work, SubEnd}   Work -> SubEnd                      *)
(****************************************************************************)
EXTENDS EngineProperties

MCKind ==
  [Start |-> "start", Split |-> "and", Any |-> "xor", Ask |-> "waitTask",
   Timeout |-> "timeout", Cancel |-> "message", Sub |-> "call", Pause |-> "timerCatch",
   End |-> "end", SubStart |-> "start", Fan |-> "and", Work |-> "waitTask",
   SubEnd |-> "end"]
MCFlowObjects == DOMAIN MCKind
MCOutgoing ==
  [o \in MCFlowObjects |->
    CASE o = "Start" -> <<"Split">>    [] o = "Split" -> <<"Ask", "Any">>
      [] o = "Any" -> <<"Ask", "Sub">> [] o = "Sub" -> <<"Pause">>
      [] o \in {"Ask", "Timeout", "Cancel", "Pause"} -> <<"End">>
      [] o = "SubStart" -> <<"Fan">>   [] o = "Fan" -> <<"Work", "SubEnd">>
      [] o = "Work" -> <<"SubEnd">>
      [] OTHER -> << >>]
MCBoundaries ==
  [o \in MCFlowObjects |-> IF o = "Ask" THEN <<"Timeout", "Cancel">> ELSE << >>]
MCProcesses == {"main", "sub"}
MCProcessOf ==
  [o \in MCFlowObjects |-> IF o \in {"SubStart", "Fan", "Work", "SubEnd"} THEN "sub" ELSE "main"]
MCCallOf  == [p \in {"sub"} |-> "Sub"]
MCStartOf == [main |-> "Start", sub |-> "SubStart"]
MCBudget  ==
  [o \in MCFlowObjects |-> IF o \in {"Start", "Ask", "Work", "Pause", "Cancel"} THEN 1 ELSE 0]
MCLate == {Item("activityDone", "Ask"), Item("handled", "Ask"), Item("begun", "SubEnd")}
MCUndecided == {"Any"}
MCPastDue   == {"Timeout"}
===============================================================================
