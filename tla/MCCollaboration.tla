--------------------------- MODULE MCCollaboration ---------------------------
(****************************************************************************)
(* The collaboration of the repository's tests and README, with a user task *)
(* on a second way of the first process, which a message of the second one  *)
(* interrupts after a while.                                                *)
(*   First:  Start1 -> Check -> {Task1, Ask} -> End1                        *)
(*           Cancel (at Ask) -> End1                                        *)
(*   Second: Start2 -> Split -> {Task2, Rest}                               *)
(*           Task2 -> Message -> End2      Rest -> Abort -> End3            *)
(* The handler of Task2 starts the first process, the one of End1 sends the *)
(* message, the one of Abort cancels Ask.                                   *)
(****************************************************************************)
EXTENDS Collaboration, TLC

MCKindOf ==
  [first  |-> [Start1 |-> "start", Check |-> "xor", Task1 |-> "task", Ask |-> "waitTask",
               Cancel |-> "message", End1 |-> "end"],
   second |-> [Start2 |-> "start", Split |-> "and", Task2 |-> "task", Message |-> "catch",
               End2 |-> "end", Rest |-> "timerCatch", Abort |-> "task", End3 |-> "end"]]
MCFlowsOf ==
  [first  |-> [Start1 |-> <<"Check">>, Check |-> <<"Task1", "Ask">>, Task1 |-> <<"End1">>,
               Ask |-> <<"End1">>, Cancel |-> <<"End1">>, End1 |-> << >>],
   second |-> [Start2 |-> <<"Split">>, Split |-> <<"Rest", "Task2">>, Task2 |-> <<"Message">>,
               Message |-> <<"End2">>, End2 |-> << >>, Rest |-> <<"Abort">>,
               Abort |-> <<"End3">>, End3 |-> << >>]]
MCBoundariesOf ==
  [p \in {"first", "second"} |->
    [o \in DOMAIN MCKindOf[p] |-> IF o = "Ask" THEN <<"Cancel">> ELSE << >>]]
MCStartOf   == [first |-> "Start1", second |-> "Start2"]
MCMessageTo == "Task2" :> "Start1" @@ "End1" :> "Message" @@ "Abort" :> "Cancel"
MCBudget    ==
  [o \in UNION {DOMAIN MCKindOf[p] : p \in {"first", "second"}} |->
    IF o \in {"Start1", "Start2", "Ask"} THEN 1 ELSE 0]

\* Handlers of the first process answer late, and so does the one that cancels.
Handled(o) == [op |-> "handled", at |-> o]
MCLateOf == [first |-> {Handled("Task1"), Handled("End1")}, second |-> {Handled("Abort")}]
===============================================================================
