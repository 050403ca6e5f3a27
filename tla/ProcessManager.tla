---------------------------- MODULE ProcessManager ----------------------------
(****************************************************************************)
(* lib/manager.js: definitions, the cache of processes, and the requests    *)
(* that wait for the initialisation, with a persistency layer.  The layer's *)
(* answers arrive in any order; between them the manager's own code runs    *)
(* without interruption.                                                    *)
(****************************************************************************)
EXTENDS Naturals, Sequences, FiniteSets

CONSTANTS
  Names,      \* names of process definitions
  Ids,        \* ids of processes
  NameOf,     \* [Ids -> Names]: the definition a client or a document names with an id
  IdOf,       \* [documents -> Ids]: the process id a document in the store has
  Stores,     \* sets of documents that the store may hold; two may have the same id
  Requests,   \* those who call the manager's interface, once each
  Calls,      \* [Requests -> sets of calls]: op, and ids and a name where they are needed
  MaxAdds,    \* bound on the additions of definitions
  Nothing     \* no process, no name; the key `undefined' of the cache

\* createProcess of an array, of a simple id, of one descriptor (behind the names of
\* the definitions); the getters.
CreateOps == {"create", "createById", "createOne"}
Ops       == CreateOps \cup {"get", "list", "findByName", "names"}

\* A process is an object: `by' tells two with the same id apart.
Process(id, name, by) == [id |-> id, name |-> name, by |-> by]

ASSUME ManagerAssumption ==
  /\ NameOf \in [Ids -> Names]
  /\ \A d \in UNION Stores : IdOf[d] \in Ids
  /\ \A r \in Requests : \A call \in Calls[r] :
       call.op \in Ops /\ (call.op \in CreateOps => call.ids \in Seq(Ids))
  /\ MaxAdds \in Nat
  /\ Nothing \notin Ids \cup Names
  /\ \A id \in Ids, n \in Names, by \in Requests \cup {Nothing} : Nothing # Process(id, n, by)

VARIABLES
  store,         \* the documents the persistency layer finds
  definitions,   \* names in _processDefinitions
  cache,         \* [Ids \cup {Nothing} -> processes]: _processCache
  initialized,   \* _initialized
  initialising,  \* _initialising
  initError,     \* _initializationError is an error
  toInit,        \* _definitionsToInitialize: a stack
  loading,       \* the definition whose documents are asked for or loaded, or Nothing
  documents,     \* the documents of it whose processes are still to be created
  orphans,       \* the same of an initialisation that has failed meanwhile
  waiting,       \* _initialiseCallbacks
  jobs,          \* createProcess calls that wait for the persistency layer
  asked,         \* [Requests -> calls]: what each has called; op "none": nothing yet
  answers,       \* [Requests -> Seq(answers)]: what the callback was called with
  rounds,        \* completed initialisations
  adds,          \* additions so far (bounded by MaxAdds)
  failedLoads,   \* definitions whose documents could not be loaded
  thrown         \* requests whose callback threw an exception

initVars    == <<initialized, initialising, initError, toInit, loading>>
requestVars == <<waiting, jobs, asked, answers, thrown>>
managerVars == <<store, definitions, cache, initVars, documents, orphans, requestVars, rounds, adds,
                 failedLoads>>

NotAsked  == [op |-> "none"]
Failure   == [tag |-> "error"]
Answer(x) == [tag |-> "ok", value |-> x]

ManagerInit ==
  /\ store \in Stores
  /\ definitions = {}
  /\ cache = [k \in Ids \cup {Nothing} |-> Nothing]
  /\ initialized = TRUE
  /\ initialising = FALSE
  /\ initError = FALSE
  /\ toInit = << >>
  /\ loading = Nothing
  /\ documents = {}
  /\ orphans = {}
  /\ waiting = << >>
  /\ jobs = {}
  /\ asked = [r \in Requests |-> NotAsked]
  /\ answers = [r \in Requests |-> << >>]
  /\ rounds = 0
  /\ adds = 0
  /\ failedLoads = {}
  /\ thrown = {}

-----------------------------------------------------------------------------
(****************************************************************************)
(* A request that was called after the initialisation, which may be over    *)
(* already: what its callback does with the definitions, the cache and the  *)
(* error that the step has left.                                            *)
(****************************************************************************)
Used(ids) == \E i \in DOMAIN ids : cache'[ids[i]] # Nothing
AllProcesses == {cache'[k] : k \in DOMAIN cache'} \ {Nothing}
ProcessesNamed(n) == {p \in AllProcesses : p.name = n}

\* A simple id goes with the only definition there is.
CreatedName(r, id) ==
  IF asked'[r].op = "createById" THEN CHOOSE n \in definitions' : TRUE ELSE NameOf[id]

Refused(r) ==
  LET call == asked'[r]
  IN  \/ initError'
      \/ call.op = "createById" /\ Cardinality(definitions') # 1
      \/ call.op \in {"create", "createById"} /\ Used(call.ids)
      \/ call.op = "createOne" /\ NameOf[call.ids[1]] \notin definitions'

\* createProcess has no id for a single descriptor; an array may name a definition
\* that is not known.
Throws(r) ==
  /\ asked'[r].op \in CreateOps
  /\ ~Refused(r)
  /\ asked'[r].op = "createOne" \/ CreatedName(r, asked'[r].ids[1]) \notin definitions'

Starts(r) ==
  /\ asked'[r].op \in CreateOps
  /\ ~Refused(r)
  /\ ~Throws(r)

\* get and getDefinitionNames pass the value on with an error, too: the error counts.
AnswerTo(r) ==
  IF asked'[r].op \in CreateOps \/ initError' THEN Failure
  ELSE CASE asked'[r].op = "get"        -> Answer(cache'[asked'[r].ids[1]])
         [] asked'[r].op = "list"       -> Answer(AllProcesses)
         [] asked'[r].op = "findByName" -> Answer(ProcessesNamed(asked'[r].name))
         [] asked'[r].op = "names"      -> Answer(definitions')

\* The callbacks of the requests rs are called in order.  One that throws keeps the
\* rest from being called.
CallBack(rs) ==
  LET throwing == {i \in DOMAIN rs : Throws(rs[i])}
      called   == {rs[i] : i \in {k \in DOMAIN rs : \A t \in throwing : k < t}}
      first    == {rs[i] : i \in {k \in throwing : \A t \in throwing : k <= t}}
  IN  /\ answers' = [r \in Requests |->
                       IF r \in called /\ ~Starts(r)
                       THEN Append(answers[r], AnswerTo(r)) ELSE answers[r]]
      /\ jobs' = jobs \cup
           {[request |-> r, round |-> rounds, failed |-> FALSE, todo |-> asked'[r].ids,
             name |-> CreatedName(r, asked'[r].ids[1])]
              : r \in {q \in called : Starts(q)}}
      /\ thrown' = thrown \cup first

\* _afterInitialization
Ask(r, call) ==
  /\ asked[r] = NotAsked
  /\ asked' = [asked EXCEPT ![r] = call]
  /\ UNCHANGED <<definitions, cache, initVars, documents, orphans, rounds, adds, failedLoads>>
  /\ IF initialized
     THEN CallBack(<<r>>) /\ UNCHANGED waiting
     ELSE waiting' = Append(waiting, r) /\ UNCHANGED <<jobs, answers, thrown>>

-----------------------------------------------------------------------------
(****************************************************************************)
(* _initialiseDefinition.                                                   *)
(****************************************************************************)

InitialisationEnds(err) ==
  /\ toInit' = << >>
  /\ loading' = Nothing
  /\ initError' = err
  /\ initialized' = TRUE
  /\ initialising' = FALSE
  /\ rounds' = rounds + 1
  /\ UNCHANGED <<waiting, asked>>

\* Mutant of ExecCallbacks: an error is not told to those who wait.
ExecCallbacksOnSuccess(err) ==
  /\ InitialisationEnds(err)
  /\ CallBack(IF err THEN << >> ELSE waiting)

\* execCallbacks: the list of those who wait is kept.
ExecCallbacks(err) ==
  /\ InitialisationEnds(err)
  /\ CallBack(waiting)

\* next: definitions that are known already are only replaced; the last of the others
\* is loaded first.
NextDefinition(stack) ==
  LET new == {i \in DOMAIN stack : stack[i] \notin definitions'}
      top == CHOOSE i \in new : \A k \in new : k <= i
  IN  IF new = {}
      THEN ExecCallbacks(FALSE)
      ELSE /\ toInit' = SubSeq(stack, 1, top - 1)
           /\ loading' = stack[top]
           /\ initError' = FALSE
           /\ initialized' = FALSE
           /\ initialising' = TRUE
           /\ UNCHANGED <<requestVars, rounds>>

\* addBpmnFilePath and addBpmnXML, for a definition that has a handler.
AddDefinition(n) ==
  /\ adds < MaxAdds
  /\ adds' = adds + 1
  /\ UNCHANGED <<definitions, cache, documents, orphans, failedLoads>>
  /\ IF initialising
     THEN /\ toInit' = Append(toInit, n)
          /\ initError' = FALSE
          /\ initialized' = FALSE
          /\ UNCHANGED <<initialising, loading, requestVars, rounds>>
     ELSE NextDefinition(Append(toInit, n))

Found == {d \in store : NameOf[IdOf[d]] = loading}

\* Mutant of DocumentsFound: the processes are created behind the back of the rest.
DocumentsFoundNotAwaited ==
  /\ loading \notin definitions \cup {Nothing}
  /\ definitions' = definitions \cup {loading}
  /\ orphans' = orphans \cup Found
  /\ UNCHANGED <<cache, documents, adds, failedLoads>>
  /\ NextDefinition(toInit)

\* loadAll calls back: one process for each document.
DocumentsFound ==
  /\ loading \notin definitions \cup {Nothing}
  /\ definitions' = definitions \cup {loading}
  /\ documents' = Found
  /\ UNCHANGED <<cache, orphans, adds, failedLoads>>
  /\ IF Found = {} THEN NextDefinition(toInit) ELSE UNCHANGED <<initVars, requestVars, rounds>>

\* loadAll reports an error: the definitions that are left are forgotten.
DocumentsNotFound ==
  /\ loading \notin definitions \cup {Nothing}
  /\ failedLoads' = failedLoads \cup {loading}
  /\ UNCHANGED <<definitions, cache, documents, orphans, adds>>
  /\ ExecCallbacks(TRUE)

\* The initialisation fails, while the other processes are still created.
DocumentRefused(d) ==
  /\ failedLoads' = failedLoads \cup {loading}
  /\ documents' = {}
  /\ orphans' = orphans \cup (documents \ {d})
  /\ UNCHANGED <<definitions, cache, adds>>
  /\ ExecCallbacks(TRUE)

DocumentNotLoaded(d) == d \in documents /\ DocumentRefused(d)

Loaded(d) == cache' = [cache EXCEPT ![IdOf[d]] = Process(IdOf[d], NameOf[IdOf[d]], Nothing)]

\* A process was created from its document, with an id that must not be in use.
DocumentLoaded(d) ==
  /\ d \in documents
  /\ \/ cache[IdOf[d]] # Nothing /\ DocumentRefused(d)
     \/ /\ cache[IdOf[d]] = Nothing
        /\ Loaded(d)
        /\ documents' = documents \ {d}
        /\ UNCHANGED <<definitions, orphans, adds, failedLoads>>
        /\ IF documents' = {}
           THEN NextDefinition(toInit)
           ELSE UNCHANGED <<initVars, requestVars, rounds>>

\* The same after the initialisation has failed: nobody waits for it.
OrphanLoaded(d) ==
  /\ d \in orphans
  /\ orphans' = orphans \ {d}
  /\ UNCHANGED cache \/ (cache[IdOf[d]] = Nothing /\ Loaded(d))
  /\ UNCHANGED <<definitions, initVars, documents, requestVars, rounds, adds, failedLoads>>

-----------------------------------------------------------------------------
(****************************************************************************)
(* createProcess.                                                           *)
(****************************************************************************)
CallOf(j)  == asked[j.request]
Tell(j, a) == answers' = [answers EXCEPT ![j.request] = Append(@, a)]

\* The next process of a descriptor array, or the rest after a failure.  Its definition
\* is read first.
GoOn(j, failed) ==
  LET name == NameOf[j.todo[2]]
  IN  IF name \in definitions
      THEN /\ jobs' = (jobs \ {j}) \cup {[j EXCEPT !.todo = Tail(@), !.name = name,
                                                   !.failed = failed]}
           /\ UNCHANGED thrown
      ELSE jobs' = jobs \ {j} /\ thrown' = thrown \cup {j.request}

\* The ids of the processes that were created; two of one name replace each other.
CreatedIds(j) ==
  LET ids == CallOf(j).ids
  IN  {ids[i] : i \in {k \in DOMAIN ids :
                         \A l \in DOMAIN ids : l > k => NameOf[ids[l]] # NameOf[ids[k]]}}

\* What the cache is read and written under: descriptors.id is undefined for a string.
Keys(j) == IF CallOf(j).op = "createById" THEN {Nothing}
           ELSE {CallOf(j).ids[i] : i \in DOMAIN CallOf(j).ids}

Enter(j) ==
  IF CallOf(j).op = "createById"
  THEN LET p == Process(j.todo[1], j.name, j.request)
       IN  /\ cache' = [cache EXCEPT ![Nothing] = p]
           /\ Tell(j, Answer({p}))
  ELSE LET p == [id \in CreatedIds(j) |-> Process(id, NameOf[id], j.request)]
       IN  /\ cache' = [k \in DOMAIN cache |-> IF k \in CreatedIds(j) THEN p[k] ELSE cache[k]]
           /\ Tell(j, Answer({p[id] : id \in CreatedIds(j)}))

\* Mutant of FinishCreation: the ids are not looked up again.
FinishCreationUnchecked(j) == Enter(j)

\* All processes were created: an id may be in use by now.
FinishCreation(j) ==
  IF \E k \in Keys(j) : cache[k] # Nothing
  THEN Tell(j, Failure) /\ UNCHANGED cache
  ELSE Enter(j)

\* The process at the head of j was created.
ProcessCreated(j) ==
  /\ IF Len(j.todo) > 1
     THEN GoOn(j, j.failed) /\ UNCHANGED <<cache, answers>>
     ELSE /\ jobs' = jobs \ {j}
          /\ IF j.failed THEN UNCHANGED <<cache, answers>> ELSE FinishCreation(j)
          /\ UNCHANGED thrown
  /\ UNCHANGED <<definitions, initVars, documents, orphans, waiting, asked, rounds, adds,
                 failedLoads>>

\* Mutant of ProcessNotCreated: every failure is told.
ProcessNotCreatedTold(j) ==
  /\ Tell(j, Failure)
  /\ IF Len(j.todo) > 1 THEN GoOn(j, FALSE) ELSE jobs' = jobs \ {j} /\ UNCHANGED thrown
  /\ UNCHANGED <<cache, definitions, initVars, documents, orphans, waiting, asked, rounds, adds,
                 failedLoads>>

\* It was not.  The first failure is told, and the rest is created all the same.
ProcessNotCreated(j) ==
  /\ IF j.failed THEN UNCHANGED answers ELSE Tell(j, Failure)
  /\ IF Len(j.todo) > 1 THEN GoOn(j, TRUE) ELSE jobs' = jobs \ {j} /\ UNCHANGED thrown
  /\ UNCHANGED <<cache, definitions, initVars, documents, orphans, waiting, asked, rounds, adds,
                 failedLoads>>

\* The persistency layer answers.
LayerAnswers ==
  /\ UNCHANGED store
  /\ \/ DocumentsFound \/ DocumentsNotFound
     \/ \E d \in documents \cup orphans : DocumentLoaded(d) \/ DocumentNotLoaded(d) \/ OrphanLoaded(d)
     \/ \E j \in jobs : ProcessCreated(j) \/ ProcessNotCreated(j)
===============================================================================
