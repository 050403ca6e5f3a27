------------------------------ MODULE Persistency ------------------------------
(****************************************************************************)
(* lib/persistency/persistency.js: the uri decides whether the documents    *)
(* are kept in MongoDB or in files.  Both are compared with DocumentStore.  *)
(****************************************************************************)
EXTENDS MongoPersistency, FilePersistency

VARIABLE implementation   \* "mongodb" or "file"

vars == <<callVars, mongoVars, found, implementation>>

\* The constructor: a uri that starts with mongodb://, or a path.
Init ==
  /\ CallsInit /\ MongoInit /\ FileInit
  /\ implementation \in {"mongodb", "file"}

Idle == (\A c \in Calls : ~InFlight(c)) /\ UNCHANGED vars

Next ==
  \/ implementation = "mongodb" /\ MongoNext /\ UNCHANGED <<found, implementation>>
  \/ implementation = "file" /\ FileNext /\ UNCHANGED <<mongoVars, implementation>>
  \/ \E p \in Procs : Change(p) /\ UNCHANGED <<mongoVars, found, implementation>>
  \/ Idle

Spec == Init /\ [][Next]_vars

(****************************************************************************)
(* The driver and the file system answer every call.                        *)
(****************************************************************************)
Fairness ==
  \A c \in Calls :
    /\ WF_vars(DriverAnswers(c) /\ UNCHANGED <<found, implementation>>)
    /\ WF_vars(DbAnswers(c) /\ UNCHANGED <<mongoVars, implementation>>)

FairSpec == Spec /\ Fairness

-----------------------------------------------------------------------------
(****************************************************************************)
(* What the layers guarantee, and which trouble it does not survive: saves  *)
(* of one process that overlap, a close while other calls are in flight (or *)
(* calls while a close is), an error of the find of a file.                 *)
(****************************************************************************)

\* persist and load of mongodb.js and file.js call back at most once, also for calls that
\* waited for the connection of another one.
AnsweredOnce ==
  "close is not alone" \notin trouble => \A c \in Calls : answers[c] <= 1

\* A process has one document (both layers refuse to load a process with two).
OneDocument ==
  trouble \cap {"saves overlap", "find failed"} = {} =>
    \A p \in Procs : Cardinality(DocumentsOf(p)) <= 1

\* Every call is answered, whoever opens the connection and whether or not that works;
\* but for close() of the files.
AllAnswered ==
  \A c \in Calls :
    call[c] # NotCalled ~>
      \/ answers[c] > 0
      \/ "close is not alone" \in trouble
      \/ implementation = "file" /\ call[c].op = "close"

(****************************************************************************)
(* The layers implement the store: a save stores a state not older than the *)
(* one it was called with, a load finds what was stored, errors leave the   *)
(* documents alone.                                                         *)
(****************************************************************************)
StateIn(docs, p) ==
  IF \E d \in docs : d.proc = p THEN (CHOOSE d \in docs : d.proc = p).state ELSE Nobody

AnswerOf(c) ==
  IF result[c].tag # "done" THEN result[c]
  ELSE [tag |-> "done",
        found |-> [p \in IF call[c].op = "loadAll" THEN Procs
                         ELSE IF call[c].op = "load" THEN {call[c].proc} ELSE {}
                     |-> StateIn(result[c].docs, p)]]

Store == INSTANCE DocumentStore WITH
  NoDocument <- Nobody,
  docs   <- [p \in Procs |-> StateIn(documents, p)],
  asked  <- call,
  answer <- [c \in Calls |-> AnswerOf(c)]

\* Every step, until there is trouble, is a step of the store.
ImplementsStore ==
  Store!StoreInit /\ [][Store!StoreNext \/ trouble' # {}]_(Store!storeVars)
===============================================================================
