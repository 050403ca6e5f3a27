-------------------------- MODULE Initialisation_proofs --------------------------
(****************************************************************************)
(* For all definitions, documents and requests: the documents of a          *)
(* definition are loaded before the manager says that it is initialised,    *)
(* and nobody is called back more often than initialisations were completed.*)
(****************************************************************************)
EXTENDS Manager_proofs, FiniteSetTheorems

(****************************************************************************)
(* The initialisation.  Documents wait for their processes only while the   *)
(* definition that they belong to is the one that is initialised.           *)
(****************************************************************************)
PhaseInv ==
  /\ store \in Stores
  /\ documents \subseteq Found
  /\ documents # {} => initialising /\ loading \in definitions
  /\ initialising <=> ~initialized
  /\ ~initialising => loading = Nothing

\* The document d has its process, or that is still to be created, or something failed.
Settled(d) ==
  NameOf[IdOf[d]] \in definitions =>
    cache[IdOf[d]] # Nothing \/ d \in documents \/ failedLoads # {}

LoadingInv == DOMAIN cache = Ids \cup {Nothing} /\ PhaseInv /\ \A d \in store : Settled(d)

LEMMA DocumentsHaveIds ==
  ASSUME PhaseInv, NEW d \in store
  PROVE  IdOf[d] \in Ids /\ NameOf[IdOf[d]] \in Names
  BY ManagerAssumption DEF PhaseInv, ManagerAssumption

LEMMA LoadingInvInit == Init => LoadingInv
  BY DEF Init, ManagerInit, LoadingInv, PhaseInv, Settled, Found

\* An initialisation is over, or it goes on with another definition: nothing is left of
\* the one before.
LEMMA TurnKeepsPhase ==
  ASSUME PhaseInv, UNCHANGED store, documents' = {},
         NEW stack, NextDefinition(stack) \/ ExecCallbacks(TRUE)
  PROVE  PhaseInv'
  BY DEF NextDefinition, ExecCallbacks, InitialisationEnds, PhaseInv, Found

\* What keeps the documents settled: new definitions bring their documents, and a document
\* goes when its process is there, or when the initialisation fails.
LEMMA SettledStep ==
  ASSUME LoadingInv, Grows, UNCHANGED store, failedLoads \subseteq failedLoads',
         \A d \in store : NameOf[IdOf[d]] \in definitions' \ definitions => d \in documents',
         \A d \in documents \ documents' : cache'[IdOf[d]] # Nothing \/ failedLoads' # {}
  PROVE  \A d \in store : Settled(d)'
<1> SUFFICES ASSUME NEW d \in store PROVE Settled(d)'
  OBVIOUS
<1>1. Settled(d)
  BY DEF LoadingInv
<1>2. IdOf[d] \in DOMAIN cache
  BY DocumentsHaveIds DEF LoadingInv
<1>3. cache[IdOf[d]] # Nothing => cache'[IdOf[d]] # Nothing
  BY <1>2 DEF Grows
<1>4. QED
  BY <1>1, <1>3 DEF Settled

LEMMA DocumentsFoundLoads ==
  ASSUME LoadingInv, UNCHANGED store, DocumentsFound
  PROVE  LoadingInv'
<1>1. /\ loading # Nothing /\ documents' = Found
      /\ definitions' = definitions \cup {loading}
      /\ UNCHANGED <<cache, failedLoads>>
  BY DEF DocumentsFound
<1>2. \A d \in store : Settled(d)'
  BY <1>1, SettledStep, KeptCacheGrows DEF Found, LoadingInv, PhaseInv
<1>3. CASE Found = {}
  <2>1. NextDefinition(toInit)
    BY <1>3 DEF DocumentsFound
  <2>2. PhaseInv'
    BY <1>1, <1>3, <2>1, TurnKeepsPhase DEF LoadingInv
  <2>3. QED
    BY <1>1, <1>2, <2>2 DEF LoadingInv
<1>4. CASE Found # {}
  <2>1. UNCHANGED initVars
    BY <1>4 DEF DocumentsFound
  <2>2. PhaseInv'
    BY <1>1, <2>1 DEF initVars, LoadingInv, PhaseInv, Found
  <2>3. QED
    BY <1>1, <1>2, <2>2 DEF LoadingInv
<1>5. QED
  BY <1>3, <1>4

\* An initialisation that fails leaves the documents to nobody.
LEMMA FailureLoads ==
  ASSUME LoadingInv, UNCHANGED store, DocumentsNotFound \/ \E d : DocumentRefused(d)
  PROVE  LoadingInv'
<1>1. /\ ExecCallbacks(TRUE) /\ documents' = {}
      /\ failedLoads' = failedLoads \cup {loading}
      /\ UNCHANGED <<definitions, cache>>
  BY DEF DocumentsNotFound, DocumentRefused, LoadingInv, PhaseInv
<1>2. PhaseInv'
  BY <1>1, TurnKeepsPhase DEF LoadingInv
<1>3. \A d \in store : Settled(d)'
  BY <1>1 DEF Settled
<1>4. QED
  BY <1>1, <1>2, <1>3 DEF LoadingInv, PhaseInv

LEMMA DocumentLoads ==
  ASSUME LoadingInv, UNCHANGED store, NEW d, DocumentLoaded(d)
  PROVE  LoadingInv'
<1>1. CASE DocumentRefused(d)
  BY <1>1, FailureLoads
<1>2. CASE ~DocumentRefused(d)
  <2>1. /\ Loaded(d) /\ d \in documents /\ documents' = documents \ {d}
        /\ UNCHANGED <<definitions, failedLoads>>
        /\ IF documents' = {} THEN NextDefinition(toInit) ELSE UNCHANGED initVars
    BY <1>2 DEF DocumentLoaded
  <2>2. IdOf[d] \in Ids /\ NameOf[IdOf[d]] \in Names
    BY <2>1, DocumentsHaveIds DEF LoadingInv, PhaseInv, Found
  <2>3. Process(IdOf[d], NameOf[IdOf[d]], Nothing) # Nothing
    BY <2>2, ManagerAssumption DEF ManagerAssumption
  <2>4. /\ DOMAIN cache' = DOMAIN cache
        /\ cache'[IdOf[d]] # Nothing
    BY <2>1, <2>2, <2>3 DEF Loaded, LoadingInv
  <2>5. \A e \in store : Settled(e)'
    BY <2>1, <2>4, SettledStep, DocumentLoadedGrows
  <2>6. PhaseInv'
    <3>1. CASE documents' = {}
      BY <2>1, <3>1, TurnKeepsPhase DEF LoadingInv
    <3>2. CASE documents' # {}
      BY <2>1, <3>2 DEF initVars, LoadingInv, PhaseInv, Found
    <3>3. QED
      BY <3>1, <3>2
  <2>7. QED
    BY <2>4, <2>5, <2>6 DEF LoadingInv
<1>3. QED
  BY <1>1, <1>2

\* The other steps of the persistency layer leave the initialisation alone.
LEMMA ElsewhereLoads ==
  ASSUME LoadingInv, Grows, DOMAIN cache' = DOMAIN cache,
         UNCHANGED <<store, definitions, initVars, documents, failedLoads>>
  PROVE  LoadingInv'
<1>1. \A d \in store : Settled(d)'
  BY SettledStep
<1>2. QED
  BY <1>1 DEF LoadingInv, PhaseInv, Found, initVars

LEMMA AddDefinitionLoads ==
  ASSUME LoadingInv, UNCHANGED store, NEW n, AddDefinition(n)
  PROVE  LoadingInv'
<1>1. UNCHANGED <<definitions, cache, documents, failedLoads>>
  BY DEF AddDefinition
<1>2. \A d \in store : Settled(d)'
  BY <1>1, SettledStep, KeptCacheGrows
<1>3. CASE initialising
  BY <1>1, <1>2, <1>3 DEF AddDefinition, LoadingInv, PhaseInv, Found
<1>4. CASE ~initialising
  <2>1. documents' = {} /\ NextDefinition(Append(toInit, n))
    BY <1>1, <1>4 DEF AddDefinition, LoadingInv, PhaseInv
  <2>2. PhaseInv'
    BY <2>1, TurnKeepsPhase DEF LoadingInv
  <2>3. QED
    BY <1>1, <1>2, <2>2 DEF LoadingInv
<1>5. QED
  BY <1>3, <1>4

LEMMA LoadingNext ==
  ASSUME ManagerInv, LoadingInv, [Next]_vars
  PROVE  ManagerInv' /\ LoadingInv'
<1>1. ManagerInv'
  BY ManagerInvNext
<1>2. DOMAIN cache' = DOMAIN cache
  BY <1>1 DEF ManagerInv
<1>3. Grows
  BY NextGrows, KeptCacheGrows
<1>4. ASSUME UNCHANGED <<store, definitions, initVars, documents, failedLoads>> PROVE LoadingInv'
  BY <1>2, <1>3, <1>4, ElsewhereLoads
<1>5. ASSUME NEW r \in Requests, Handle(r) PROVE LoadingInv'
  BY <1>4, <1>5 DEF Handle
<1>6. ASSUME LayerAnswers PROVE LoadingInv'
  <2>1. ASSUME NEW d, DocumentNotLoaded(d) \/ DocumentLoaded(d) PROVE LoadingInv'
    BY <1>6, <2>1, FailureLoads, DocumentLoads DEF LayerAnswers, DocumentNotLoaded
  <2>2. ASSUME NEW d, OrphanLoaded(d) PROVE LoadingInv'
    BY <1>4, <1>6, <2>2 DEF LayerAnswers, OrphanLoaded
  <2>3. ASSUME NEW j, ProcessCreated(j) \/ ProcessNotCreated(j) PROVE LoadingInv'
    BY <1>4, <1>6, <2>3 DEF LayerAnswers, ProcessCreated, ProcessNotCreated
  <2>4. QED
    BY <1>6, <2>1, <2>2, <2>3, DocumentsFoundLoads, FailureLoads DEF LayerAnswers
<1>7. ASSUME Environment PROVE LoadingInv'
  <2>1. ASSUME NEW r, NEW call, Ask(r, call) PROVE LoadingInv'
    BY <1>4, <1>7, <2>1 DEF Environment, Ask
  <2>2. QED
    BY <1>7, <2>1, AddDefinitionLoads DEF Environment
<1>8. CASE UNCHANGED vars
  BY <1>1, <1>4, <1>8 DEF vars, managerVars
<1>9. QED
  BY <1>1, <1>5, <1>6, <1>7, <1>8 DEF Next

\* When the manager says that it is initialised without an error, and nothing could not be
\* loaded before, the processes of all documents of its definitions are there
\* (manager.js:136-225).
THEOREM StoredProcessesAreLoaded == Spec => []StoredIsLoaded
<1>1. Init => ManagerInv /\ LoadingInv
  BY ManagerInvInit, LoadingInvInit
<1>2. ManagerInv /\ LoadingInv /\ [Next]_vars => (ManagerInv /\ LoadingInv)'
  BY LoadingNext
<1>3. LoadingInv => StoredIsLoaded
  BY DEF LoadingInv, PhaseInv, Settled, StoredIsLoaded
<1>4. QED
  BY <1>1, <1>2, <1>3, PTL DEF Spec

-----------------------------------------------------------------------------
(****************************************************************************)
(* The callbacks.  A request has had answers, and creations that are on     *)
(* their way will bring it one more each: together no more than the         *)
(* initialisations that have called its callback back, or one.              *)
(****************************************************************************)
Pending(r) == {j \in jobs : j.request = r /\ ~j.failed}
Spent(r)   == Len(answers[r]) + Cardinality(Pending(r))
Waits(r)   == \E i \in DOMAIN waiting : waiting[i] = r
Allowed(r) == IF Waits(r) THEN rounds ELSE 1

\* Jobs are records; only the fields that matter here.
JobsInv == \A j \in jobs : "failed" \in DOMAIN j

SpentInv ==
  /\ rounds \in Nat
  /\ JobsInv
  /\ \A r \in Requests : IsFiniteSet(Pending(r)) /\ Spent(r) <= Allowed(r)

\* What a step may spend of what r is allowed: nothing, or what it gives up in the same
\* moment (a creation goes on, or ends with an answer), or one answer or creation more.
Answers(r, n) == \/ n = 0 /\ answers'[r] = answers[r]
                 \/ n = 1 /\ \E x : answers'[r] = Append(answers[r], x)

Keeps(r)    == Answers(r, 0) /\ Pending(r)' \subseteq Pending(r)
GoesOn(r)   == Answers(r, 0) /\ \E j \in Pending(r) : \E next : Pending(r)' \subseteq (Pending(r) \ {j}) \cup {next}
Delivers(r) == Answers(r, 1) /\ \E j \in Pending(r) : Pending(r)' \subseteq Pending(r) \ {j}
CalledBack(r) == \/ Answers(r, 1) /\ Pending(r)' \subseteq Pending(r)
                 \/ Answers(r, 0) /\ \E j : Pending(r)' \subseteq Pending(r) \cup {j}

Spends(r, n) ==
  \/ Keeps(r) \/ GoesOn(r) \/ Delivers(r)
  \/ n = 1 /\ CalledBack(r)

LEMMA SpendingCounts ==
  ASSUME ManagerInv, NEW r \in Requests, IsFiniteSet(Pending(r)), NEW n \in {0, 1}, Spends(r, n)
  PROVE  /\ IsFiniteSet(Pending(r)')
         /\ Spent(r) \in Nat
         /\ Spent(r)' \in Nat
         /\ Spent(r)' <= Spent(r) + n
<1> DEFINE l  == Len(answers[r])
           l2 == Len(answers'[r])
           c  == Cardinality(Pending(r))
           c2 == Cardinality(Pending(r)')
<1>1. l \in Nat /\ (Answers(r, 0) => l2 = l)
  BY DEF ManagerInv, IsSequence, Answers
<1>2. Answers(r, 1) => l2 = l + 1
  <2>1. IsSequence(answers[r])
    BY DEF ManagerInv
  <2>2. ASSUME NEW x PROVE Len(Append(answers[r], x)) = Len(answers[r]) + 1
    <3>1. /\ Len(answers[r]) \in Nat
          /\ DOMAIN Append(answers[r], x) = 1 .. Len(answers[r]) + 1
          /\ IsSequence(Append(answers[r], x))
      BY <2>1, AppendIsSequence
    <3>2. QED
      BY <3>1 DEF IsSequence
  <2>3. QED
    BY <2>2 DEF Answers
<1>3. c \in Nat
  BY FS_CardinalityType
<1>4. ASSUME NEW P, IsFiniteSet(P), Pending(r)' \subseteq P
      PROVE  IsFiniteSet(Pending(r)') /\ c2 \in Nat /\ c2 <= Cardinality(P)
  BY <1>4, FS_Subset, FS_CardinalityType
<1>5. /\ IsFiniteSet(Pending(r)') /\ c2 \in Nat
      /\ \/ l2 = l /\ c2 <= c
         \/ l2 = l + 1 /\ c2 <= c - 1
         \/ n = 1 /\ l2 = l + 1 /\ c2 <= c
         \/ n = 1 /\ l2 = l /\ c2 <= c + 1
  <2>1. CASE Keeps(r)
    BY <1>1, <1>4, <2>1 DEF Keeps
  <2>2. CASE Delivers(r)
    <3>1. PICK j \in Pending(r) : Pending(r)' \subseteq Pending(r) \ {j}
      BY <2>2 DEF Delivers
    <3>2. IsFiniteSet(Pending(r) \ {j}) /\ Cardinality(Pending(r) \ {j}) = c - 1
      BY FS_RemoveElement
    <3>3. IsFiniteSet(Pending(r)') /\ c2 \in Nat /\ c2 <= c - 1
      BY <1>4, <3>1, <3>2
    <3>4. QED
      BY <1>2, <2>2, <3>3 DEF Delivers
  <2>3. CASE n = 1 /\ CalledBack(r)
    <3>1. CASE Answers(r, 1) /\ Pending(r)' \subseteq Pending(r)
      BY <1>2, <1>4, <2>3, <3>1
    <3>2. ASSUME Answers(r, 0), NEW j, Pending(r)' \subseteq Pending(r) \cup {j}
          PROVE  IsFiniteSet(Pending(r)') /\ c2 \in Nat /\ c2 <= c + 1
      <4>1. /\ IsFiniteSet(Pending(r) \cup {j})
            /\ Cardinality(Pending(r) \cup {j}) \in {c, c + 1}
        BY FS_AddElement
      <4>2. IsFiniteSet(Pending(r)') /\ c2 \in Nat /\ c2 <= Cardinality(Pending(r) \cup {j})
        BY <1>4, <3>2, <4>1
      <4> HIDE DEF c, c2
      <4>3. QED
        BY <1>3, <4>1, <4>2
    <3>3. QED
      BY <1>1, <2>3, <3>1, <3>2 DEF CalledBack
  <2>4. CASE GoesOn(r)
    <3>0. PICK j \in Pending(r) : \E next : Pending(r)' \subseteq (Pending(r) \ {j}) \cup {next}
      BY <2>4 DEF GoesOn
    <3>1. PICK next : Pending(r)' \subseteq (Pending(r) \ {j}) \cup {next}
      BY <3>0
    <3> DEFINE rest == Pending(r) \ {j}
    <3>2. IsFiniteSet(rest) /\ Cardinality(rest) = c - 1
      BY FS_RemoveElement
    <3>3. /\ IsFiniteSet(rest \cup {next})
          /\ Cardinality(rest \cup {next}) \in {Cardinality(rest), Cardinality(rest) + 1}
      BY <3>2, FS_AddElement
    <3>4. IsFiniteSet(Pending(r)') /\ c2 \in Nat /\ c2 <= Cardinality(rest \cup {next})
      BY <1>4, <3>1, <3>3
    <3> HIDE DEF c, c2, rest
    <3>5. c2 <= c
      BY <1>3, <3>2, <3>3, <3>4
    <3>6. QED
      BY <1>1, <2>4, <3>4, <3>5 DEF GoesOn
  <2>5. QED
    BY <2>1, <2>2, <2>3, <2>4 DEF Spends
<1>6. Spent(r) = l + c /\ Spent(r)' = l2 + c2
  BY DEF Spent
<1> HIDE DEF l, l2, c, c2
<1>7. QED
  BY <1>1, <1>3, <1>5, <1>6

\* Each of the callbacks that are called back answers or starts a creation, once.
LEMMA CallBackSpends ==
  ASSUME ManagerInv, JobsInv, NEW rs \in Seq(Callers'), CallBack(rs)
  PROVE  /\ JobsInv'
         /\ \A r \in Requests : Spends(r, IF \E i \in DOMAIN rs : rs[i] = r THEN 1 ELSE 0)
<1> DEFINE throwing == {i \in DOMAIN rs : Throws(rs[i])}
           called   == {rs[i] : i \in {k \in DOMAIN rs : \A t \in throwing : k < t}}
           job(r)   == [request |-> r, round |-> rounds, failed |-> FALSE, todo |-> asked'[r].ids,
                        name |-> CreatedName(r, asked'[r].ids[1])]
           started  == {job(r) : r \in {q \in called : Starts(q)}}
<1>1. /\ answers' = [r \in Requests |-> IF r \in called /\ ~Starts(r)
                                       THEN Append(answers[r], AnswerTo(r)) ELSE answers[r]]
      /\ jobs' = jobs \cup started
  BY DEF CallBack
<1>2. \A r \in called : \E i \in DOMAIN rs : rs[i] = r
  OBVIOUS
<1> HIDE DEF called
<1>3. ASSUME NEW j \in started
      PROVE  \E r \in called : Starts(r) /\ j = job(r) /\ j.request = r /\ "failed" \in DOMAIN j
  OBVIOUS
<1> HIDE DEF job, started
<1>4. JobsInv'
  BY <1>1, <1>3 DEF JobsInv
<1>5. ASSUME NEW r \in Requests
      PROVE  Spends(r, IF \E i \in DOMAIN rs : rs[i] = r THEN 1 ELSE 0)
  <2>1. \A j \in Pending(r)' : j \in Pending(r) \/ (j \in started /\ j.request = r)
    BY <1>1 DEF Pending
  <2>2. CASE r \notin called
    <3>1. Pending(r)' \subseteq Pending(r)
      BY <1>3, <2>1, <2>2
    <3>2. QED
      BY <1>1, <2>2, <3>1 DEF Spends, Keeps, Answers
  <2>3. CASE r \in called /\ Starts(r)
    <3>1. Pending(r)' \subseteq Pending(r) \cup {job(r)}
      BY <1>3, <2>1
    <3>2. QED
      BY <1>1, <1>2, <2>3, <3>1 DEF Spends, CalledBack, Answers
  <2>4. CASE r \in called /\ ~Starts(r)
    <3>1. Pending(r)' \subseteq Pending(r)
      BY <1>3, <2>1, <2>4
    <3>2. Answers(r, 1)
      BY <1>1, <2>4 DEF Answers
    <3>3. QED
      BY <1>2, <2>4, <3>1, <3>2 DEF Spends, CalledBack
  <2>5. QED
    BY <2>2, <2>3, <2>4
<1>6. QED
  BY <1>4, <1>5

\* Before its call, a request has nothing.
LEMMA NothingSpentYet ==
  ASSUME ManagerInv, NEW r \in Requests, r \notin Callers
  PROVE  Spent(r) = 0 /\ ~Waits(r)
<1>1. answers[r] = << >> /\ Pending(r) = {} /\ ~Waits(r)
  BY DEF ManagerInv, Pending, Waits
<1>2. QED
  BY <1>1, FS_EmptySet DEF Spent

\* An initialisation that is completed allows those who wait one more; a request that is
\* called is allowed one, or has to wait.
Fair(r) ==
  \/ /\ Waits(r)' <=> Waits(r)
     /\ \/ Spends(r, 0) /\ rounds' \in {rounds, rounds + 1}
        \/ Spends(r, 1) /\ rounds' = rounds + 1 /\ Waits(r)
  \/ r \notin Callers /\ Spends(r, IF Waits(r)' THEN 0 ELSE 1) /\ rounds' = rounds

LEMMA FairStep ==
  ASSUME ManagerInv, SpentInv, JobsInv', rounds' \in {rounds, rounds + 1},
         \A r \in Requests : Fair(r)
  PROVE  SpentInv'
<1>1. rounds \in Nat /\ rounds' \in Nat
  BY DEF SpentInv
<1>2. ASSUME NEW r \in Requests PROVE IsFiniteSet(Pending(r)') /\ Spent(r)' <= Allowed(r)'
  <2>1. IsFiniteSet(Pending(r)) /\ Spent(r) <= Allowed(r)
    BY DEF SpentInv
  <2>2. ASSUME NEW n \in {0, 1}, Spends(r, n)
        PROVE  /\ IsFiniteSet(Pending(r)') /\ Spent(r) \in Nat /\ Spent(r)' \in Nat
               /\ Spent(r)' <= Spent(r) + n
    BY <2>1, <2>2, SpendingCounts
  <2>3. CASE Spends(r, 0) /\ (Waits(r)' <=> Waits(r))
    <3>1. Allowed(r) <= Allowed(r)' /\ Allowed(r) \in Nat /\ Allowed(r)' \in Nat
      BY <1>1, <2>3 DEF Allowed
    <3>2. QED
      BY <2>1, <2>2, <2>3, <3>1
  <2>4. CASE Spends(r, 1) /\ rounds' = rounds + 1 /\ Waits(r) /\ Waits(r)'
    BY <1>1, <2>1, <2>2, <2>4 DEF Allowed
  <2>5. CASE r \notin Callers /\ Spends(r, IF Waits(r)' THEN 0 ELSE 1)
    <3>1. Spent(r) = 0
      BY <2>5, NothingSpentYet
    <3>2. CASE Waits(r)'
      BY <1>1, <2>2, <2>5, <3>1, <3>2 DEF Allowed
    <3>3. CASE ~Waits(r)'
      BY <2>2, <2>5, <3>1, <3>3 DEF Allowed
    <3>4. QED
      BY <3>2, <3>3
  <2>6. QED
    BY <2>3, <2>4, <2>5 DEF Fair
<1>3. QED
  BY <1>1, <1>2 DEF SpentInv, JobsInv

FairTurn == JobsInv' /\ rounds' \in {rounds, rounds + 1} /\ \A r \in Requests : Fair(r)

LEMMA UntouchedIsFair ==
  ASSUME SpentInv, UNCHANGED <<waiting, jobs, answers, rounds>>
  PROVE  FairTurn
  BY DEF FairTurn, Fair, Waits, Spends, Keeps, Answers, Pending, SpentInv, JobsInv

LEMMA ExecCallbacksIsFair ==
  ASSUME ManagerInv, SpentInv, NEW err, ExecCallbacks(err)
  PROVE  FairTurn
<1>1. CallBack(waiting) /\ UNCHANGED <<waiting, asked>> /\ rounds' = rounds + 1
  BY DEF ExecCallbacks, InitialisationEnds
<1>2. waiting \in Seq(Callers')
  BY <1>1 DEF ManagerInv, Callers
<1>3. /\ JobsInv'
      /\ \A r \in Requests : Spends(r, IF Waits(r) THEN 1 ELSE 0)
  BY <1>1, <1>2, CallBackSpends DEF SpentInv, Waits
<1>4. \A r \in Requests : Waits(r)' <=> Waits(r)
  BY <1>1 DEF Waits
<1>5. QED
  BY <1>1, <1>3, <1>4 DEF FairTurn, Fair

LEMMA NextDefinitionIsFair ==
  ASSUME ManagerInv, SpentInv, NEW stack, NextDefinition(stack)
  PROVE  FairTurn
  BY ExecCallbacksIsFair, UntouchedIsFair DEF NextDefinition, requestVars

LEMMA AskIsFair ==
  ASSUME ManagerInv, SpentInv, NEW r \in Requests, NEW call \in Calls[r], Ask(r, call)
  PROVE  FairTurn
<1>1. /\ asked[r] = NotAsked /\ r \notin Callers
      /\ asked' = [asked EXCEPT ![r] = call]
      /\ rounds' = rounds
  BY DEF Ask, Callers
<1>2. r \in Callers'
  BY <1>1, CallsHaveOps DEF ManagerInv, Callers
<1>3. CASE initialized
  <2>1. CallBack(<<r>>) /\ UNCHANGED waiting
    BY <1>3 DEF Ask
  <2>2. <<r>> \in Seq(Callers') /\ \A q : (\E i \in DOMAIN <<r>> : <<r>>[i] = q) <=> q = r
    BY <1>2
  <2>3. JobsInv' /\ \A q \in Requests : Spends(q, IF q = r THEN 1 ELSE 0)
    BY <2>1, <2>2, CallBackSpends DEF SpentInv
  <2>4. ~Waits(r) /\ \A q \in Requests : Waits(q)' <=> Waits(q)
    BY <1>1, <2>1, NothingSpentYet DEF Waits
  <2>5. QED
    BY <1>1, <2>3, <2>4 DEF FairTurn, Fair
<1>4. CASE ~initialized
  <2>1. waiting' = Append(waiting, r) /\ UNCHANGED <<jobs, answers>>
    BY <1>4 DEF Ask
  <2>2. \A q : Waits(q)' <=> Waits(q) \/ q = r
    <3>1. waiting \in Seq(Callers)
      BY DEF ManagerInv
    <3>2. /\ Len(waiting) \in Nat /\ DOMAIN waiting = 1 .. Len(waiting)
          /\ DOMAIN waiting' = 1 .. Len(waiting) + 1
          /\ \A i \in DOMAIN waiting : waiting'[i] = waiting[i]
          /\ waiting'[Len(waiting) + 1] = r
      BY <2>1, <3>1
    <3>3. QED
      BY <3>2 DEF Waits
  <2>3. JobsInv' /\ \A q \in Requests : Spends(q, 0)
    BY <2>1 DEF SpentInv, JobsInv, Spends, Keeps, Answers, Pending
  <2>4. QED
    BY <1>1, <2>2, <2>3 DEF FairTurn, Fair
<1>5. QED
  BY <1>3, <1>4

\* A creation that goes on is still that of the same request, one that has failed is not
\* pending any more, and the creations of others stay.
LEMMA CreationPends ==
  ASSUME ManagerInv, SpentInv, NEW j \in jobs, NEW failed, GoOn(j, failed) \/ jobs' = jobs \ {j}
  PROVE  /\ JobsInv'
         /\ \A r : r # j.request \/ failed => Pending(r)' \subseteq Pending(r) \ {j}
         /\ \E next : Pending(j.request)' \subseteq (Pending(j.request) \ {j}) \cup {next}
<1> DEFINE next == [j EXCEPT !.todo = Tail(@), !.name = NameOf[j.todo[2]], !.failed = failed]
<1>1. jobs' \subseteq (jobs \ {j}) \cup {next}
  BY DEF GoOn
<1>2. /\ "failed" \in DOMAIN next /\ next.request = j.request
      /\ next.failed = failed
  BY DEF ManagerInv, SpentInv, JobsInv
<1> HIDE DEF next
<1>3. \A r : Pending(r)' \subseteq (Pending(r) \ {j}) \cup {next}
  BY <1>1 DEF Pending
<1>4. \A r : r # j.request \/ failed => Pending(r)' \subseteq Pending(r) \ {j}
  BY <1>1, <1>2 DEF Pending
<1>5. JobsInv'
  BY <1>1, <1>2 DEF SpentInv, JobsInv
<1>6. QED
  BY <1>3, <1>4, <1>5

\* A creation that was told is over for its request.
LEMMA ToldIsFair ==
  ASSUME ManagerInv, SpentInv, NEW j \in jobs, ~j.failed, NEW x, Tell(j, x),
         UNCHANGED <<waiting, rounds>>, GoOn(j, TRUE) \/ jobs' = jobs \ {j}
  PROVE  FairTurn
<1>1. /\ JobsInv'
      /\ \A r : Pending(r)' \subseteq Pending(r) \ {j}
  BY CreationPends
<1>2. j.request \in Requests /\ j \in Pending(j.request)
  BY DEF ManagerInv, Callers, Pending
<1>3. Spends(j.request, 0)
  <2>1. answers'[j.request] = Append(answers[j.request], x)
    BY <1>2 DEF Tell, ManagerInv
  <2>2. QED
    BY <1>1, <1>2, <2>1 DEF Spends, Delivers, Answers
<1>4. ASSUME NEW r \in Requests, r # j.request PROVE Spends(r, 0)
  BY <1>1, <1>4 DEF Tell, ManagerInv, Spends, Keeps, Answers
<1>5. QED
  BY <1>1, <1>3, <1>4 DEF FairTurn, Fair, Waits

\* One that is not told goes on, and does not recover from a failure.
LEMMA SilentIsFair ==
  ASSUME ManagerInv, SpentInv, NEW j \in jobs, UNCHANGED <<waiting, rounds, answers>>,
         NEW failed, j.failed => failed, GoOn(j, failed) \/ jobs' = jobs \ {j}
  PROVE  FairTurn
<1>1. CASE j.failed
  <2>1. JobsInv' /\ \A r : Pending(r)' \subseteq Pending(r) \ {j}
    BY <1>1, CreationPends
  <2>2. QED
    BY <2>1 DEF FairTurn, Fair, Waits, Spends, Keeps, Answers
<1>2. CASE ~j.failed
  <2>1. /\ JobsInv'
        /\ \A r : r # j.request => Pending(r)' \subseteq Pending(r) \ {j}
        /\ \E next : Pending(j.request)' \subseteq (Pending(j.request) \ {j}) \cup {next}
    BY <1>2, CreationPends
  <2>2. j \in Pending(j.request)
    BY <1>2 DEF Pending
  <2>3. Spends(j.request, 0)
    BY <2>1, <2>2 DEF Spends, GoesOn, Answers
  <2>4. \A r \in Requests : r # j.request => Spends(r, 0)
    BY <2>1 DEF Spends, Keeps, Answers
  <2>5. QED
    BY <2>1, <2>3, <2>4 DEF FairTurn, Fair, Waits
<1>3. QED
  BY <1>1, <1>2

LEMMA CreationIsFair ==
  ASSUME ManagerInv, SpentInv, NEW j \in jobs, ProcessCreated(j) \/ ProcessNotCreated(j)
  PROVE  FairTurn
<1>1. UNCHANGED <<waiting, rounds>>
  BY DEF ProcessCreated, ProcessNotCreated
<1>2. CASE ProcessCreated(j) /\ Len(j.todo) > 1
  <2>1. GoOn(j, j.failed) /\ UNCHANGED <<waiting, rounds, answers>>
    BY <1>1, <1>2 DEF ProcessCreated
  <2>2. QED
    BY <2>1, SilentIsFair
<1>3. CASE ProcessCreated(j) /\ ~(Len(j.todo) > 1)
  <2>1. jobs' = jobs \ {j}
    BY <1>3 DEF ProcessCreated
  <2>2. CASE j.failed
    BY <1>1, <1>3, <2>1, <2>2, SilentIsFair DEF ProcessCreated
  <2>3. CASE ~j.failed
    <3>1. \E x : Tell(j, x)
      BY <1>3, <2>3 DEF ProcessCreated, FinishCreation, Enter
    <3>2. QED
      BY <1>1, <2>1, <2>3, <3>1, ToldIsFair
  <2>4. QED
    BY <2>2, <2>3
<1>4. CASE ProcessNotCreated(j)
  <2>1. GoOn(j, TRUE) \/ jobs' = jobs \ {j}
    BY <1>4 DEF ProcessNotCreated
  <2>2. CASE j.failed
    BY <1>1, <1>4, <2>1, <2>2, SilentIsFair DEF ProcessNotCreated
  <2>3. CASE ~j.failed
    BY <1>1, <1>4, <2>1, <2>3, ToldIsFair DEF ProcessNotCreated
  <2>4. QED
    BY <2>2, <2>3
<1>5. QED
  BY <1>2, <1>3, <1>4

LEMMA LayerIsFair ==
  ASSUME ManagerInv, SpentInv, LayerAnswers
  PROVE  FairTurn
<1> USE DEF requestVars
<1>1. ASSUME DocumentsFound PROVE FairTurn
  BY <1>1, NextDefinitionIsFair, UntouchedIsFair DEF DocumentsFound
<1>2. ASSUME DocumentsNotFound \/ \E d : DocumentRefused(d) PROVE FairTurn
  BY <1>2, ExecCallbacksIsFair DEF DocumentsNotFound, DocumentRefused
<1>3. ASSUME NEW d, DocumentLoaded(d) \/ DocumentNotLoaded(d) PROVE FairTurn
  BY <1>2, <1>3, NextDefinitionIsFair, UntouchedIsFair DEF DocumentLoaded, DocumentNotLoaded
<1>4. ASSUME NEW d, OrphanLoaded(d) PROVE FairTurn
  BY <1>4, UntouchedIsFair DEF OrphanLoaded
<1>5. QED
  BY <1>1, <1>2, <1>3, <1>4, CreationIsFair DEF LayerAnswers

LEMMA SpentNext ==
  ASSUME ManagerInv, SpentInv, [Next]_vars
  PROVE  ManagerInv' /\ SpentInv'
<1>1. ASSUME NEW r \in Requests, Handle(r) PROVE FairTurn
  BY <1>1, UntouchedIsFair DEF Handle
<1>2. ASSUME Environment PROVE FairTurn
  BY <1>2, AskIsFair, NextDefinitionIsFair, UntouchedIsFair
     DEF Environment, AddDefinition, requestVars
<1>3. ASSUME UNCHANGED vars PROVE FairTurn
  BY <1>3, UntouchedIsFair DEF vars, managerVars, requestVars
<1>4. FairTurn
  BY <1>1, <1>2, <1>3, LayerIsFair DEF Next
<1>5. QED
  BY <1>4, ManagerInvNext, FairStep DEF FairTurn

\* A callback is called once at most, and by a request that had to wait once at most for
\* each initialisation: the list of those who wait is never emptied (manager.js:148-158),
\* and a collaboration that fails in several places reports one (391-422).
THEOREM CallbacksAreCounted == Spec => []AnsweredOncePerRound
<1>1. Init => ManagerInv /\ SpentInv
  <2>1. Init => ManagerInv
    BY ManagerInvInit
  <2>2. ASSUME Init PROVE SpentInv
    <3>1. jobs = {} /\ rounds = 0 /\ waiting = << >> /\ asked = [r \in Requests |-> NotAsked]
      BY <2>2 DEF Init, ManagerInit
    <3>2. Callers = {} /\ \A r : Pending(r) = {}
      BY <3>1 DEF Callers, Pending
    <3>3. \A r \in Requests : Spent(r) = 0 /\ ~Waits(r)
      BY <2>1, <2>2, <3>2, NothingSpentYet
    <3>4. QED
      BY <3>1, <3>2, <3>3, FS_EmptySet DEF SpentInv, JobsInv, Allowed
  <2>3. QED
    BY <2>1, <2>2
<1>2. ManagerInv /\ SpentInv /\ [Next]_vars => (ManagerInv /\ SpentInv)'
  BY SpentNext
<1>3. SpentInv => AnsweredOncePerRound
  BY DEF SpentInv, AnsweredOncePerRound, Spent, Allowed, Waits, Pending
<1>4. QED
  BY <1>1, <1>2, <1>3, PTL DEF Spec
===============================================================================
