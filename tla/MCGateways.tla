------------------------------ MODULE MCGateways ------------------------------
(****************************************************************************)
(* A fork into a user task, a message catch event and a service task, the   *)
(* join of the three, and a decision with another service task on one way:  *)
(*   Start -> Split -> {Review, Reply, Mail} -> Sync -> Ok -> (Fix ->) End  *)
(****************************************************************************)
EXTENDS EngineProperties

MCKind ==
  [Start |-> "start", Split |-> "and", Review |-> "waitTask", Reply |-> "catch",
   Mail |-> "task", Sync |-> "and", Ok |-> "xor", Fix |-> "task", End |-> "end"]
MCFlowObjects == DOMAIN MCKind
MCOutgoing ==
  [Start |-> <<"Split">>, Split |-> <<"Review", "Reply", "Mail">>, Review |-> <<"Sync">>,
   Reply |-> <<"Sync">>, Mail |-> <<"Sync">>, Sync |-> <<"Ok">>, Ok |-> <<"Fix", "End">>,
   Fix |-> <<"End">>, End |-> << >>]
MCBoundaries == [o \in MCFlowObjects |-> << >>]
MCProcesses  == {"main"}
MCProcessOf  == [o \in MCFlowObjects |-> "main"]
MCCallOf     == << >>
MCStartOf    == [p \in MCProcesses |-> "Start"]

\* Two reports of each wait state, so that one is a repetition.
MCBudget == [o \in MCFlowObjects |-> IF MCKind[o] \in {"waitTask", "catch"} THEN 2 ELSE 1]

\* The handlers of Mail, Review and Ok answer late.
MCLate == {Item("handled", "Mail"), Item("handled", "Review"), Item("handled", "Ok")}
===============================================================================
