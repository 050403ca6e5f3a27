--------------------------- MODULE PersistencyCalls ---------------------------
(****************************************************************************)
(* What the two persistency layers have in common: the calls the engine and *)
(* the manager make, and the documents in the database.  A call carries     *)
(* references to the live state of its process; what is stored is the state *)
(* at the moment the driver gets it.                                        *)
(****************************************************************************)
EXTENDS Naturals, FiniteSets

CONSTANTS
  Procs,       \* ids of the processes, all with the same process name
  Calls,       \* calls of the persistency layer; each is made once
  MaxChanges,  \* [Procs -> Nat]: bound on the changes of a process
  Nobody       \* no call

ASSUME CallsAssumption == Nobody \notin Calls

VARIABLES
  live,       \* [Procs -> Nat]: how often the state of the process has changed
  documents,  \* documents in the database: [by: the call that inserted it, proc, state]
  call,       \* [Calls -> [op, proc, since]]: what was called; "none": not yet called
  stage,      \* [Calls -> Stages]: what the call waits for
  answers,    \* [Calls -> Nat]: how often it called back
  result,     \* [Calls -> records]: what it called back with last
  trouble     \* what the engine or the database did that the layers are no match for

callVars == <<live, documents, call, stage, answers, result, trouble>>

Ops        == {"persist", "load", "loadAll", "close"}
NotCalled  == [op |-> "none"]
NoResult   == [tag |-> "none"]
Failure    == [tag |-> "error"]
Done(docs) == [tag |-> "done", docs |-> docs]

Stages ==
  {"none", "answered",
   "opening", "listening", "sent", "closing", "thrown",             \* MongoDB
   "connecting", "finding", "inserting", "updating", "unanswered"}  \* files

Troubles == {"saves overlap", "close is not alone", "find failed"}

CallsInit ==
  /\ live = [p \in Procs |-> 0]
  /\ documents = {}
  /\ call = [c \in Calls |-> NotCalled]
  /\ stage = [c \in Calls |-> "none"]
  /\ answers = [c \in Calls |-> 0]
  /\ result = [c \in Calls |-> NoResult]
  /\ trouble = {}

InFlight(c)    == stage[c] \notin {"none", "answered", "unanswered"}
DocumentsOf(p) == {d \in documents : d.proc = p}

\* What the query of a load finds.
Found(c) ==
  CASE call[c].op = "load"    -> DocumentsOf(call[c].proc)
    [] call[c].op = "loadAll" -> documents
    [] OTHER                  -> {}

\* What the caller of c does not wait for although the layers would need it to.
TroubleOf(op, p) ==
  {t \in Troubles :
     \/ t = "saves overlap" /\ op = "persist" /\
          \E d \in Calls : InFlight(d) /\ call[d].op = "persist" /\ call[d].proc = p
     \/ t = "close is not alone" /\
          \E d \in Calls : InFlight(d) /\ (op = "close" \/ call[d].op = "close")}

\* The engine saves or closes, or the manager or a new process loads.
\* (Any of the calls not made yet will do, and any process for a call that names none.)
Request(c, op, p) ==
  /\ call[c] = NotCalled
  /\ c = CHOOSE d \in Calls : call[d] = NotCalled
  /\ op \in {"loadAll", "close"} => p = CHOOSE q \in Procs : TRUE
  /\ call' = [call EXCEPT ![c] = [op |-> op, proc |-> p, since |-> live[p]]]
  /\ trouble' = trouble \cup TroubleOf(op, p)
  /\ UNCHANGED <<live, documents>>

\* The process goes on.
Change(p) ==
  /\ live[p] < MaxChanges[p]
  /\ live' = [live EXCEPT ![p] = @ + 1]
  /\ UNCHANGED <<documents, call, stage, answers, result, trouble>>

\* The calls in cs call back.
AnswerAll(cs, res) ==
  /\ stage' = [c \in Calls |-> IF c \in cs THEN "answered" ELSE stage[c]]
  /\ answers' = [c \in Calls |-> IF c \in cs THEN answers[c] + 1 ELSE answers[c]]
  /\ result' = [c \in Calls |-> IF c \in cs THEN res ELSE result[c]]

Answer(c, res) == AnswerAll({c}, res)

Becomes(c, st) == stage' = [stage EXCEPT ![c] = st] /\ UNCHANGED <<answers, result>>

Insert(c, state) ==
  documents' = documents \cup {[by |-> c, proc |-> call[c].proc, state |-> state]}
Update(d, state) == documents' = (documents \ {d}) \cup {[d EXCEPT !.state = state]}
===============================================================================
