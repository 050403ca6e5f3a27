---------------------------- MODULE FilePersistency ----------------------------
(****************************************************************************)
(* lib/persistency/file.js: every call connects to the directory; a save    *)
(* looks for the document of the process and then inserts or updates it.    *)
(****************************************************************************)
EXTENDS PersistencyCalls

VARIABLE found   \* [Calls -> SUBSET documents]: what the find of a save answered

FileInit == found = [c \in Calls |-> {}]

FileRequest(c, op, p) ==
  /\ op # "close"
  /\ Request(c, op, p)
  /\ Becomes(c, "connecting")
  /\ UNCHANGED found

\* close does nothing and does not call back.
FileClose(c, p) ==
  /\ Request(c, "close", p)
  /\ Becomes(c, "unanswered")
  /\ UNCHANGED found

DbConnected(c) ==
  /\ stage[c] = "connecting"
  /\ \/ Becomes(c, "finding")
     \/ Answer(c, Failure)
  /\ UNCHANGED <<live, documents, call, trouble, found>>

\* Mutant of FoundForSave: the process is taken for a new one.
FoundForSaveNothing(c) ==
  /\ stage[c] = "finding"
  /\ call[c].op = "persist"
  /\ Becomes(c, "inserting")
  /\ UNCHANGED <<live, documents, call, trouble, found>>

\* The find of a save: insert, update, or give up.
FoundForSave(c) ==
  /\ stage[c] = "finding"
  /\ call[c].op = "persist"
  /\ found' = [found EXCEPT ![c] = DocumentsOf(call[c].proc)]
  /\ CASE Cardinality(DocumentsOf(call[c].proc)) = 0 -> Becomes(c, "inserting")
       [] Cardinality(DocumentsOf(call[c].proc)) = 1 -> Becomes(c, "updating")
       [] OTHER -> Answer(c, Failure)
  /\ UNCHANGED <<live, documents, call, trouble>>

\* The find of a load.
FoundForLoad(c) ==
  /\ stage[c] = "finding"
  /\ call[c].op # "persist"
  /\ Answer(c, IF call[c].op = "load" /\ Cardinality(Found(c)) > 1
               THEN Failure ELSE Done(Found(c)))
  /\ UNCHANGED <<live, documents, call, trouble, found>>

\* An error of the find is looked at by loadAll only: a save goes on to insert, a load
\* has found nothing.
FindFails(c) ==
  /\ stage[c] = "finding"
  /\ trouble' = trouble \cup {"find failed"}
  /\ CASE call[c].op = "persist" -> Becomes(c, "inserting")
       [] call[c].op = "load"    -> Answer(c, Done({}))
       [] OTHER                  -> Answer(c, Failure)
  /\ UNCHANGED <<live, documents, call, found>>

DbInserted(c) ==
  /\ stage[c] = "inserting"
  /\ \/ Insert(c, live[call[c].proc]) /\ Answer(c, Done({}))
     \/ UNCHANGED documents /\ Answer(c, Failure)
  /\ UNCHANGED <<live, call, trouble, found>>

\* Mutant of DbUpdated: the document that was found is written back.
DbUpdatedWithFound(c) ==
  /\ stage[c] = "updating"
  /\ UNCHANGED documents
  /\ Answer(c, Done({}))
  /\ UNCHANGED <<live, call, trouble, found>>

\* db.update replaces the document with the _id that was found.
DbUpdated(c) ==
  /\ stage[c] = "updating"
  /\ \/ /\ \E d \in documents : (\E f \in found[c] : f.by = d.by)
                                 /\ Update(d, live[call[c].proc])
        /\ Answer(c, Done({}))
     \/ UNCHANGED documents /\ Answer(c, Failure)
  /\ UNCHANGED <<live, call, trouble, found>>

DbAnswers(c) ==
  \/ DbConnected(c) \/ FoundForSave(c) \/ FoundForLoad(c) \/ FindFails(c)
  \/ DbInserted(c) \/ DbUpdated(c)

FileNext ==
  \E c \in Calls :
    \/ \E p \in Procs : FileClose(c, p) \/ \E op \in Ops : FileRequest(c, op, p)
    \/ DbAnswers(c)
===============================================================================
