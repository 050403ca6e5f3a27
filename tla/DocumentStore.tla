----------------------------- MODULE DocumentStore -----------------------------
(****************************************************************************)
(* What an instance of Persistency (lib/persistency/persistency.js)         *)
(* promises to the engine and the manager: a store with one document per    *)
(* process, whose calls take effect at one moment between the call and its  *)
(* answer, or fail.  A save stores a state the process had in that time.    *)
(****************************************************************************)
EXTENDS Naturals

CONSTANTS
  Procs,      \* ids of processes
  Calls,      \* calls of persist, load, loadAll and close
  NoDocument  \* what is stored of a process that was never saved; not a number

VARIABLES
  live,   \* [Procs -> Nat]: how often the state of the process has changed
  docs,   \* [Procs -> Nat \cup {NoDocument}]: the state that is stored
  asked,  \* [Calls -> records]: op, process and the state when it was called
  answer  \* [Calls -> records]: "none", "error", or "done" with what was found

storeVars == <<live, docs, asked, answer>>

Ops      == {"persist", "load", "loadAll", "close"}
NotAsked == [op |-> "none"]
NoAnswer == [tag |-> "none"]
Failure  == [tag |-> "error"]
Done(found) == [tag |-> "done", found |-> found]

StoreInit ==
  /\ live = [p \in Procs |-> 0]
  /\ docs = [p \in Procs |-> NoDocument]
  /\ asked = [c \in Calls |-> NotAsked]
  /\ answer = [c \in Calls |-> NoAnswer]

Change(p) == live' = [live EXCEPT ![p] = @ + 1] /\ UNCHANGED <<docs, asked, answer>>

Ask(c) ==
  /\ asked[c] = NotAsked
  /\ \E op \in Ops, p \in Procs :
       asked' = [asked EXCEPT ![c] = [op |-> op, proc |-> p, since |-> live[p]]]
  /\ UNCHANGED <<live, docs, answer>>

\* The documents a load sees.
Found(a) ==
  [p \in IF a.op = "loadAll" THEN Procs ELSE IF a.op = "load" THEN {a.proc} ELSE {} |-> docs[p]]

\* A close that finds nothing to do calls back at once.
CloseNothing(c) ==
  /\ asked[c] = NotAsked
  /\ \E p \in Procs :
       asked' = [asked EXCEPT ![c] = [op |-> "close", proc |-> p, since |-> live[p]]]
  /\ answer' = [answer EXCEPT ![c] = Done(Found(asked'[c]))]
  /\ UNCHANGED <<live, docs>>

Serve(c) ==
  /\ asked[c] # NotAsked
  /\ answer[c] = NoAnswer
  /\ answer' = [answer EXCEPT ![c] = Done(Found(asked[c]))]
  /\ IF asked[c].op = "persist"
     THEN \E state \in asked[c].since .. live[asked[c].proc] :
            docs' = [docs EXCEPT ![asked[c].proc] = state]
     ELSE UNCHANGED docs
  /\ UNCHANGED <<live, asked>>

\* An error leaves the documents alone.  A failure to connect is one for every call
\* that waits for the connection.
Fail(cs) ==
  /\ \A c \in cs : asked[c] # NotAsked /\ answer[c] = NoAnswer
  /\ answer' = [c \in Calls |-> IF c \in cs THEN Failure ELSE answer[c]]
  /\ UNCHANGED <<live, docs, asked>>

StoreNext ==
  \/ \E p \in Procs : Change(p)
  \/ \E c \in Calls : Ask(c) \/ CloseNothing(c) \/ Serve(c)
  \/ \E cs \in SUBSET Calls : Fail(cs)
===============================================================================
