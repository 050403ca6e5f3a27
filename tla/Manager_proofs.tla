----------------------------- MODULE Manager_proofs -----------------------------
(****************************************************************************)
(* For all definitions, documents and requests: the cache of processes only *)
(* grows, created processes are found, and messages are delivered once.     *)
(* The first needs no invariant: whoever writes to the cache has looked up  *)
(* the same ids in the same turn of the event loop.                         *)
(****************************************************************************)
EXTENDS ManagerProperties, TLAPS

\* What a step must not do to the cache is to replace a process.
Grows == \A k \in DOMAIN cache : cache[k] # Nothing => cache'[k] = cache[k]

LEMMA KeptCacheGrows == UNCHANGED cache => Grows
  BY DEF Grows

\* A process that is loaded from its document gets an id that is not in use.
LEMMA LoadedGrows ==
  ASSUME NEW d, cache[IdOf[d]] = Nothing, Loaded(d)
  PROVE  Grows
  BY DEF Grows, Loaded

LEMMA DocumentLoadedGrows ==
  ASSUME NEW d, DocumentLoaded(d)
  PROVE  Grows
<1>1. CASE cache[IdOf[d]] # Nothing /\ DocumentRefused(d)
  BY <1>1, KeptCacheGrows DEF DocumentRefused
<1>2. CASE cache[IdOf[d]] = Nothing /\ Loaded(d)
  BY <1>2, LoadedGrows
<1>3. QED
  BY <1>1, <1>2 DEF DocumentLoaded

LEMMA OrphanLoadedGrows ==
  ASSUME NEW d, OrphanLoaded(d)
  PROVE  Grows
<1>1. CASE UNCHANGED cache
  BY <1>1, KeptCacheGrows
<1>2. CASE cache[IdOf[d]] = Nothing /\ Loaded(d)
  BY <1>2, LoadedGrows
<1>3. QED
  BY <1>1, <1>2 DEF OrphanLoaded

\* What is entered was looked up under the ids of the descriptors.
LEMMA CreatedIdsAreKeys ==
  ASSUME NEW j, CallOf(j).op # "createById"
  PROVE  CreatedIds(j) \subseteq Keys(j)
  BY DEF CreatedIds, Keys

LEMMA FinishCreationGrows ==
  ASSUME NEW j, FinishCreation(j)
  PROVE  Grows
<1>1. CASE \E k \in Keys(j) : cache[k] # Nothing
  BY <1>1, KeptCacheGrows DEF FinishCreation
<1>2. CASE ~(\E k \in Keys(j) : cache[k] # Nothing) /\ CallOf(j).op = "createById"
  <2>1. cache[Nothing] = Nothing
    BY <1>2 DEF Keys
  <2>2. cache' = [cache EXCEPT ![Nothing] = Process(j.todo[1], j.name, j.request)]
    BY <1>2 DEF FinishCreation, Enter
  <2>3. QED
    BY <2>1, <2>2 DEF Grows
<1>3. CASE ~(\E k \in Keys(j) : cache[k] # Nothing) /\ CallOf(j).op # "createById"
  <2>1. \A k \in DOMAIN cache : k \notin CreatedIds(j) => cache'[k] = cache[k]
    BY <1>3 DEF FinishCreation, Enter
  <2>2. \A k \in CreatedIds(j) : cache[k] = Nothing
    BY <1>3, CreatedIdsAreKeys
  <2>3. QED
    BY <2>1, <2>2 DEF Grows
<1>4. QED
  BY <1>1, <1>2, <1>3

LEMMA ProcessCreatedGrows ==
  ASSUME NEW j, ProcessCreated(j)
  PROVE  Grows
  BY KeptCacheGrows, FinishCreationGrows DEF ProcessCreated

\* Every other step leaves the cache alone.
LEMMA NextGrows ==
  ASSUME [Next]_vars
  PROVE  [Grows]_cache
<1>1. ASSUME NEW r \in Requests, Handle(r) PROVE UNCHANGED cache
  BY <1>1 DEF Handle
<1>2. ASSUME LayerAnswers PROVE Grows
  <2>1. ASSUME DocumentsFound \/ DocumentsNotFound PROVE Grows
    BY <2>1, KeptCacheGrows DEF DocumentsFound, DocumentsNotFound
  <2>2. ASSUME NEW d, DocumentNotLoaded(d) PROVE Grows
    BY <2>2, KeptCacheGrows DEF DocumentNotLoaded, DocumentRefused
  <2>3. ASSUME NEW j, ProcessNotCreated(j) PROVE Grows
    BY <2>3, KeptCacheGrows DEF ProcessNotCreated
  <2>4. QED
    BY <1>2, <2>1, <2>2, <2>3, DocumentLoadedGrows, OrphanLoadedGrows, ProcessCreatedGrows
       DEF LayerAnswers
<1>3. ASSUME Environment PROVE UNCHANGED cache
  BY <1>3 DEF Environment, Ask, AddDefinition
<1>4. CASE UNCHANGED vars
  BY <1>4 DEF vars, managerVars
<1>5. QED
  BY <1>1, <1>2, <1>3, <1>4 DEF Next

\* A process in the cache is never replaced by another object of the same id, neither by
\* the initialisation nor by createProcess (manager.js:200-206, 466-490, 513-517).
THEOREM ProcessesAreKept == Spec => CacheOnlyGrows
<1>1. [Next]_vars => [Grows]_cache
  BY NextGrows
<1>2. QED
  BY <1>1, PTL DEF Spec, CacheOnlyGrows, Grows

-----------------------------------------------------------------------------
(****************************************************************************)
(* Who is called back: only requests that have called, and a request for a  *)
(* new process is told of one only when that is in the cache.               *)
(****************************************************************************)
IsSequence(s) == s \in Seq({s[i] : i \in DOMAIN s})

Callers == {r \in Requests : asked[r] # NotAsked}

ManagerInv ==
  /\ DOMAIN asked = Requests
  /\ \A r \in Callers : asked[r] \in Calls[r]
  /\ waiting \in Seq(Callers)
  /\ \A j \in jobs : "request" \in DOMAIN j /\ j.request \in Callers
  /\ DOMAIN answers = Requests
  /\ \A r \in Requests : IsSequence(answers[r])
  /\ \A r \in Requests \ Callers : answers[r] = << >>
  /\ DOMAIN cache = Ids \cup {Nothing}

\* The processes ps are in the cache after the step.
Cached(ps) == \A p \in ps : p.id \in Ids /\ p # Nothing /\ cache'[p.id] = p

Honest(r, x) == asked'[r].op = "create" /\ x.tag = "ok" => Cached(x.value)

\* A step tells r nothing, or one honest answer.
ToldOnce(r) ==
  \/ answers'[r] = answers[r]
  \/ r \in Callers' /\ \E x : answers'[r] = Append(answers[r], x) /\ Honest(r, x)

\* What a step of the manager does.
ManagerStep ==
  /\ DOMAIN asked' = Requests
  /\ \A r \in Requests : asked'[r] = asked[r] \/ (asked[r] = NotAsked /\ asked'[r] \in Calls[r])
  /\ waiting' \in Seq(Callers')
  /\ \A j \in jobs' : "request" \in DOMAIN j /\ j.request \in Callers'
  /\ DOMAIN answers' = Requests
  /\ \A r \in Requests : ToldOnce(r)
  /\ DOMAIN cache' = DOMAIN cache

LEMMA AppendIsSequence ==
  ASSUME NEW s, NEW x, IsSequence(s)
  PROVE  /\ IsSequence(Append(s, x))
         /\ Len(s) \in Nat /\ DOMAIN s = 1 .. Len(s)
         /\ DOMAIN Append(s, x) = 1 .. Len(s) + 1
         /\ \A i \in DOMAIN s : Append(s, x)[i] = s[i]
         /\ Append(s, x)[Len(s) + 1] = x
<1> DEFINE S == {s[i] : i \in DOMAIN s} \cup {x}
<1>1. s \in Seq(S)
  <2>1. s \in Seq({s[i] : i \in DOMAIN s})
    BY DEF IsSequence
  <2>2. \A A, B : A \subseteq B => Seq(A) \subseteq Seq(B)
    OBVIOUS
  <2>3. QED
    BY <2>1, <2>2
<1>2. /\ Len(s) \in Nat /\ DOMAIN s = 1 .. Len(s)
      /\ DOMAIN Append(s, x) = 1 .. Len(s) + 1
      /\ \A i \in DOMAIN s : Append(s, x)[i] = s[i]
      /\ Append(s, x)[Len(s) + 1] = x
      /\ Len(Append(s, x)) = Len(s) + 1
      /\ Append(s, x) \in Seq(S)
  <2> HIDE DEF S
  <2>1. x \in S
    BY DEF S
  <2>2. QED
    BY <1>1, <2>1
<1> DEFINE t == Append(s, x)
<1>3. t \in Seq({t[i] : i \in DOMAIN t})
  <2> HIDE DEF S
  <2>1. \A T : (\A i \in 1 .. Len(t) : t[i] \in T) /\ t \in Seq(S) => t \in Seq(T)
    BY DEF t
  <2>2. \A i \in 1 .. Len(t) : t[i] \in {t[k] : k \in DOMAIN t}
    BY <1>2
  <2>3. t \in Seq(S)
    BY <1>2
  <2> HIDE DEF t
  <2>4. QED
    BY <2>1, <2>2, <2>3
<1>4. QED
  BY <1>2, <1>3 DEF IsSequence

LEMMA CallsHaveOps ==
  ASSUME NEW r \in Requests, NEW call \in Calls[r]
  PROVE  call # NotAsked
  BY ManagerAssumption DEF ManagerAssumption, NotAsked, Ops, CreateOps

LEMMA NoAnswerYet ==
  ASSUME ManagerInv, NEW r \in Requests, asked[r] = NotAsked
  PROVE  answers[r] = << >>
  BY DEF ManagerInv, Callers

\* The callbacks that wait tell nobody of a new process: they only begin to create it.
LEMMA CallBackTells ==
  ASSUME ManagerInv, NEW rs \in Seq(Callers'), CallBack(rs)
  PROVE  /\ DOMAIN answers' = Requests
         /\ \A r \in Requests : ToldOnce(r)
         /\ \A j \in jobs' : j \in jobs \/ ("request" \in DOMAIN j /\ j.request \in Callers')
<1> DEFINE throwing == {i \in DOMAIN rs : Throws(rs[i])}
           called   == {rs[i] : i \in {k \in DOMAIN rs : \A t \in throwing : k < t}}
           started  == {[request |-> r, round |-> rounds, failed |-> FALSE, todo |-> asked'[r].ids,
                         name |-> CreatedName(r, asked'[r].ids[1])]
                          : r \in {q \in called : Starts(q)}}
<1>1. called \subseteq Callers'
  OBVIOUS
<1>2. /\ answers' = [r \in Requests |-> IF r \in called /\ ~Starts(r)
                                       THEN Append(answers[r], AnswerTo(r)) ELSE answers[r]]
      /\ jobs' = jobs \cup started
  BY DEF CallBack
<1> HIDE DEF called
<1>3. ASSUME NEW r PROVE Honest(r, AnswerTo(r))
  <2>1. asked'[r].op = "create" => AnswerTo(r) = Failure
    BY DEF AnswerTo, CreateOps
  <2>2. QED
    BY <2>1 DEF Honest, Failure
<1>4. ASSUME NEW r \in Requests PROVE ToldOnce(r)
  <2>1. CASE r \in called /\ ~Starts(r)
    <3>1. answers'[r] = Append(answers[r], AnswerTo(r))
      BY <1>2, <2>1
    <3>2. QED
      BY <1>1, <1>3, <2>1, <3>1 DEF ToldOnce
  <2>2. CASE ~(r \in called /\ ~Starts(r))
    <3>1. answers'[r] = answers[r]
      BY <1>2, <2>2
    <3>2. QED
      BY <3>1 DEF ToldOnce
  <2>3. QED
    BY <2>1, <2>2
<1>5. \A j \in started : "request" \in DOMAIN j /\ j.request \in called
  OBVIOUS
<1>6. QED
  BY <1>1, <1>2, <1>4, <1>5

LEMMA AskStep ==
  ASSUME ManagerInv, NEW r \in Requests, NEW call \in Calls[r], Ask(r, call)
  PROVE  ManagerStep
<1>1. /\ asked[r] = NotAsked
      /\ asked' = [asked EXCEPT ![r] = call]
      /\ UNCHANGED cache
  BY DEF Ask
<1>2. /\ DOMAIN asked' = Requests
      /\ \A q \in Requests : asked'[q] = asked[q] \/ (asked[q] = NotAsked /\ asked'[q] \in Calls[q])
  BY <1>1 DEF ManagerInv
<1>3. Callers' = Callers \cup {r}
  BY <1>1, <1>2, CallsHaveOps DEF ManagerInv, Callers
<1>4. Seq(Callers) \subseteq Seq(Callers')
  BY <1>3
<1>5. CASE initialized
  <2>1. <<r>> \in Seq(Callers')
    BY <1>3
  <2>2. CallBack(<<r>>) /\ UNCHANGED waiting
    BY <1>5 DEF Ask
  <2>3. QED
    BY <1>1, <1>2, <1>3, <1>4, <2>1, <2>2, CallBackTells DEF ManagerStep, ManagerInv
<1>6. CASE ~initialized
  <2>1. waiting' = Append(waiting, r) /\ UNCHANGED <<jobs, answers>>
    BY <1>6 DEF Ask
  <2>2. waiting' \in Seq(Callers')
    BY <1>3, <1>4, <2>1 DEF ManagerInv
  <2>3. QED
    BY <1>1, <1>2, <1>3, <2>1, <2>2 DEF ManagerStep, ManagerInv, ToldOnce
<1>7. QED
  BY <1>5, <1>6

\* A step that leaves the requests alone, but for what ExecCallbacks may tell them.
LEMMA UntouchedStep ==
  ASSUME ManagerInv, UNCHANGED requestVars, DOMAIN cache' = DOMAIN cache
  PROVE  ManagerStep
  BY DEF ManagerInv, ManagerStep, requestVars, Callers, ToldOnce

LEMMA ExecCallbacksStep ==
  ASSUME ManagerInv, NEW err, ExecCallbacks(err), DOMAIN cache' = DOMAIN cache
  PROVE  ManagerStep
<1>1. /\ UNCHANGED <<waiting, asked>>
      /\ CallBack(waiting)
  BY DEF ExecCallbacks, InitialisationEnds
<1>2. Callers' = Callers
  BY <1>1 DEF Callers
<1>3. waiting \in Seq(Callers')
  BY <1>2 DEF ManagerInv
<1>4. QED
  BY <1>1, <1>2, <1>3, CallBackTells DEF ManagerStep, ManagerInv

LEMMA NextDefinitionStep ==
  ASSUME ManagerInv, NEW stack, NextDefinition(stack), DOMAIN cache' = DOMAIN cache
  PROVE  ManagerStep
  BY ExecCallbacksStep, UntouchedStep DEF NextDefinition

LEMMA AddDefinitionStep ==
  ASSUME ManagerInv, NEW n, AddDefinition(n)
  PROVE  ManagerStep
  BY NextDefinitionStep, UntouchedStep DEF AddDefinition

-----------------------------------------------------------------------------
\* A call of createProcess goes on.
LEMMA TellStep ==
  ASSUME ManagerInv, NEW j \in jobs, NEW x, Tell(j, x), Honest(j.request, x),
         UNCHANGED <<waiting, asked>>, DOMAIN cache' = DOMAIN cache,
         \A k \in jobs' : "request" \in DOMAIN k /\ k.request \in Callers
  PROVE  ManagerStep
<1>1. Callers' = Callers
  BY DEF Callers
<1>2. /\ answers' = [answers EXCEPT ![j.request] = Append(answers[j.request], x)]
      /\ j.request \in Callers
  BY DEF Tell, ManagerInv
<1>3. ASSUME NEW r \in Requests PROVE ToldOnce(r)
  <2>1. CASE r = j.request
    <3>1. answers'[r] = Append(answers[r], x)
      BY <1>2, <2>1 DEF ManagerInv
    <3>2. QED
      BY <1>1, <1>2, <2>1, <3>1 DEF ToldOnce
  <2>2. CASE r # j.request
    BY <1>2, <2>2 DEF ToldOnce, ManagerInv
  <2>3. QED
    BY <2>1, <2>2
<1>4. DOMAIN answers' = Requests
  BY <1>2 DEF ManagerInv
<1>5. QED
  BY <1>1, <1>3, <1>4 DEF ManagerStep, ManagerInv

LEMMA FailureIsHonest ==
  ASSUME NEW r
  PROVE  Honest(r, Failure)
  BY DEF Honest, Failure

\* Nobody is told anything.
LEMMA SilentStep ==
  ASSUME ManagerInv, UNCHANGED <<waiting, asked, answers>>, DOMAIN cache' = DOMAIN cache,
         \A k \in jobs' : "request" \in DOMAIN k /\ k.request \in Callers
  PROVE  ManagerStep
  BY DEF ManagerInv, ManagerStep, Callers, ToldOnce

LEMMA JobsGoOn ==
  ASSUME ManagerInv, NEW j \in jobs, NEW failed, GoOn(j, failed) \/ jobs' = jobs \ {j}
  PROVE  \A k \in jobs' : "request" \in DOMAIN k /\ k.request \in Callers
<1> DEFINE next == [j EXCEPT !.todo = Tail(@), !.name = NameOf[j.todo[2]], !.failed = failed]
<1>1. "request" \in DOMAIN next /\ next.request = j.request
  BY DEF ManagerInv
<1>2. jobs' \subseteq jobs \cup {next}
  BY DEF GoOn
<1> HIDE DEF next
<1>3. QED
  BY <1>1, <1>2 DEF ManagerInv

LEMMA ProcessNotCreatedStep ==
  ASSUME ManagerInv, NEW j \in jobs, ProcessNotCreated(j)
  PROVE  ManagerStep
<1>1. \A k \in jobs' : "request" \in DOMAIN k /\ k.request \in Callers
  BY JobsGoOn DEF ProcessNotCreated
<1>2. UNCHANGED <<waiting, asked, cache>>
  BY DEF ProcessNotCreated
<1>3. CASE j.failed
  BY <1>1, <1>2, <1>3, SilentStep DEF ProcessNotCreated
<1>4. CASE ~j.failed
  <2>1. Tell(j, Failure)
    BY <1>4 DEF ProcessNotCreated
  <2>2. QED
    BY <1>1, <1>2, <2>1, FailureIsHonest, TellStep
<1>5. QED
  BY <1>3, <1>4

\* The processes that createProcess answers with are the ones it has put into the cache.
LEMMA EnteredIsCached ==
  ASSUME ManagerInv, NEW j \in jobs, CallOf(j).op = "create", asked' = asked,
         cache' = [k \in DOMAIN cache |-> IF k \in CreatedIds(j)
                                          THEN Process(k, NameOf[k], j.request) ELSE cache[k]]
  PROVE  Cached({Process(k, NameOf[k], j.request) : k \in CreatedIds(j)})
<1>1. j.request \in Callers /\ j.request \in Requests
  BY DEF ManagerInv, Callers
<1>2. CallOf(j) \in Calls[j.request]
  BY <1>1 DEF ManagerInv, CallOf
<1>3. CallOf(j).ids \in Seq(Ids)
  BY <1>1, <1>2, ManagerAssumption DEF ManagerAssumption, CreateOps
<1>4. CreatedIds(j) \subseteq Ids
  BY <1>3 DEF CreatedIds
<1>5. ASSUME NEW k \in CreatedIds(j)
      PROVE  /\ Process(k, NameOf[k], j.request).id = k
             /\ k \in Ids
             /\ Process(k, NameOf[k], j.request) # Nothing
             /\ cache'[k] = Process(k, NameOf[k], j.request)
  <2>1. k \in Ids /\ NameOf[k] \in Names
    BY <1>4, ManagerAssumption DEF ManagerAssumption
  <2>2. Process(k, NameOf[k], j.request) # Nothing
    BY <1>1, <2>1, ManagerAssumption DEF ManagerAssumption
  <2>3. k \in DOMAIN cache
    BY <2>1 DEF ManagerInv
  <2>4. Process(k, NameOf[k], j.request).id = k
    BY DEF Process
  <2>5. QED
    BY <2>1, <2>2, <2>3, <2>4
<1>6. QED
  BY <1>5 DEF Cached

LEMMA FinishCreationStep ==
  ASSUME ManagerInv, NEW j \in jobs, FinishCreation(j), UNCHANGED <<waiting, asked>>,
         \A k \in jobs' : "request" \in DOMAIN k /\ k.request \in Callers
  PROVE  ManagerStep
<1>1. CASE \E k \in Keys(j) : cache[k] # Nothing
  BY <1>1, FailureIsHonest, TellStep DEF FinishCreation
<1>2. CASE ~(\E k \in Keys(j) : cache[k] # Nothing) /\ CallOf(j).op = "createById"
  <2> DEFINE p == Process(j.todo[1], j.name, j.request)
  <2>1. cache' = [cache EXCEPT ![Nothing] = p] /\ Tell(j, Answer({p}))
    BY <1>2 DEF FinishCreation, Enter
  <2>2. Honest(j.request, Answer({p}))
    BY <1>2 DEF Honest, CallOf
  <2>3. QED
    BY <2>1, <2>2, TellStep
<1>3. CASE ~(\E k \in Keys(j) : cache[k] # Nothing) /\ CallOf(j).op # "createById"
  <2> DEFINE ps == {Process(k, NameOf[k], j.request) : k \in CreatedIds(j)}
             p == [k \in CreatedIds(j) |-> Process(k, NameOf[k], j.request)]
  <2>1. /\ cache' = [k \in DOMAIN cache |-> IF k \in CreatedIds(j) THEN p[k] ELSE cache[k]]
        /\ Tell(j, Answer({p[k] : k \in CreatedIds(j)}))
    BY <1>3 DEF FinishCreation, Enter
  <2>2. /\ cache' = [k \in DOMAIN cache |-> IF k \in CreatedIds(j)
                                          THEN Process(k, NameOf[k], j.request) ELSE cache[k]]
        /\ {p[k] : k \in CreatedIds(j)} = ps
        /\ DOMAIN cache' = DOMAIN cache
    BY <2>1
  <2>3. Honest(j.request, Answer(ps))
    <3>1. CallOf(j).op = "create" => Cached(ps)
      BY <2>2, EnteredIsCached
    <3>2. Answer(ps).value = ps
      BY DEF Answer
    <3> HIDE DEF ps
    <3>3. QED
      BY <3>1, <3>2 DEF Honest, CallOf
  <2>4. Tell(j, Answer(ps))
    BY <2>1, <2>2
  <2> HIDE DEF ps, p
  <2>5. QED
    BY <2>2, <2>3, <2>4, TellStep
<1>4. QED
  BY <1>1, <1>2, <1>3

LEMMA ProcessCreatedStep ==
  ASSUME ManagerInv, NEW j \in jobs, ProcessCreated(j)
  PROVE  ManagerStep
<1>1. \A k \in jobs' : "request" \in DOMAIN k /\ k.request \in Callers
  BY JobsGoOn DEF ProcessCreated
<1>2. UNCHANGED <<waiting, asked>>
  BY DEF ProcessCreated
<1>3. CASE Len(j.todo) > 1 \/ j.failed
  BY <1>1, <1>2, <1>3, SilentStep DEF ProcessCreated
<1>4. CASE ~(Len(j.todo) > 1) /\ ~j.failed
  BY <1>1, <1>2, <1>4, FinishCreationStep DEF ProcessCreated
<1>5. QED
  BY <1>3, <1>4

LEMMA DocumentRefusedStep ==
  ASSUME ManagerInv, NEW d, DocumentRefused(d)
  PROVE  ManagerStep
  BY ExecCallbacksStep DEF DocumentRefused

LEMMA DocumentLoadedStep ==
  ASSUME ManagerInv, NEW d, DocumentLoaded(d)
  PROVE  ManagerStep
<1>1. CASE DocumentRefused(d)
  BY <1>1, DocumentRefusedStep
<1>2. CASE ~DocumentRefused(d)
  <2>1. Loaded(d)
    BY <1>2 DEF DocumentLoaded
  <2>2. DOMAIN cache' = DOMAIN cache
    BY <2>1 DEF Loaded
  <2>3. CASE NextDefinition(toInit)
    BY <2>2, <2>3, NextDefinitionStep
  <2>4. CASE UNCHANGED requestVars
    BY <2>2, <2>4, UntouchedStep
  <2>5. QED
    BY <1>2, <2>3, <2>4 DEF DocumentLoaded
<1>3. QED
  BY <1>1, <1>2

LEMMA LayerStep ==
  ASSUME ManagerInv, LayerAnswers
  PROVE  ManagerStep
<1>1. ASSUME DocumentsFound PROVE ManagerStep
  BY <1>1, NextDefinitionStep, UntouchedStep DEF DocumentsFound
<1>2. ASSUME DocumentsNotFound PROVE ManagerStep
  BY <1>2, ExecCallbacksStep DEF DocumentsNotFound
<1>3. ASSUME NEW d, DocumentNotLoaded(d) PROVE ManagerStep
  BY <1>3, DocumentRefusedStep DEF DocumentNotLoaded
<1>4. ASSUME NEW d, OrphanLoaded(d) PROVE ManagerStep
  BY <1>4, UntouchedStep DEF OrphanLoaded, Loaded
<1>5. QED
  BY <1>1, <1>2, <1>3, <1>4, DocumentLoadedStep, ProcessCreatedStep, ProcessNotCreatedStep
     DEF LayerAnswers

-----------------------------------------------------------------------------
LEMMA ManagerInvInit == Init => ManagerInv
<1> SUFFICES ASSUME Init PROVE ManagerInv
  OBVIOUS
<1>1. /\ asked = [r \in Requests |-> NotAsked]
      /\ answers = [r \in Requests |-> << >>]
      /\ waiting = << >> /\ jobs = {}
      /\ cache = [k \in Ids \cup {Nothing} |-> Nothing]
  BY DEF Init, ManagerInit
<1>2. Callers = {}
  BY <1>1 DEF Callers
<1>3. IsSequence(<< >>)
  BY DEF IsSequence
<1>4. QED
  BY <1>1, <1>2, <1>3 DEF ManagerInv

\* Those who have called keep their call.
LEMMA CallersStay ==
  ASSUME ManagerInv, ManagerStep
  PROVE  /\ Callers \subseteq Callers'
         /\ \A r \in Callers : asked'[r] = asked[r]
         /\ \A r \in Requests \ Callers' : r \notin Callers /\ asked'[r] = NotAsked
         /\ \A r \in Callers' : asked'[r] \in Calls[r]
  BY CallsHaveOps DEF ManagerInv, ManagerStep, Callers

LEMMA ManagerInvStep ==
  ASSUME ManagerInv, ManagerStep
  PROVE  ManagerInv'
<1>1. ASSUME NEW r \in Requests PROVE IsSequence(answers'[r])
  <2>1. IsSequence(answers[r])
    BY DEF ManagerInv
  <2>2. \A x : IsSequence(Append(answers[r], x))
    BY <2>1, AppendIsSequence
  <2>3. answers'[r] = answers[r] \/ \E x : answers'[r] = Append(answers[r], x)
    BY DEF ManagerStep, ToldOnce
  <2>4. QED
    BY <2>1, <2>2, <2>3
<1>2. \A r \in Requests \ Callers' : answers'[r] = << >>
  BY CallersStay DEF ManagerInv, ManagerStep, ToldOnce
<1>3. QED
  BY <1>1, <1>2, CallersStay DEF ManagerInv, ManagerStep, IsSequence

\* The requests that were answered with processes find them.
CreatedInv ==
  \A r \in Callers : asked[r].op = "create" =>
    \A i \in DOMAIN answers[r] : answers[r][i].tag = "ok" =>
      \A p \in answers[r][i].value : p.id \in Ids /\ p # Nothing /\ cache[p.id] = p

LEMMA CreatedInvStep ==
  ASSUME ManagerInv, ManagerStep, CreatedInv, Grows
  PROVE  CreatedInv'
<1> SUFFICES ASSUME NEW r \in Callers', asked'[r].op = "create",
                    NEW i \in DOMAIN answers'[r], answers'[r][i].tag = "ok",
                    NEW p \in answers'[r][i].value
             PROVE  p.id \in Ids /\ p # Nothing /\ cache'[p.id] = p
  BY DEF CreatedInv
<1>0. r \in Requests
  BY DEF Callers
<1>1. ASSUME i \in DOMAIN answers[r], answers'[r][i] = answers[r][i]
      PROVE  p.id \in Ids /\ p # Nothing /\ cache'[p.id] = p
  <2>1. r \in Callers
    BY <1>0, <1>1 DEF ManagerInv
  <2>2. asked[r].op = "create"
    BY <2>1, CallersStay
  <2>3. p.id \in Ids /\ p # Nothing /\ cache[p.id] = p
    BY <1>1, <2>1, <2>2 DEF CreatedInv
  <2>4. p.id \in DOMAIN cache
    BY <2>3 DEF ManagerInv
  <2>5. QED
    BY <2>3, <2>4 DEF Grows
<1>2. CASE answers'[r] = answers[r]
  BY <1>1, <1>2
<1>3. ASSUME NEW x, answers'[r] = Append(answers[r], x), Honest(r, x)
      PROVE  p.id \in Ids /\ p # Nothing /\ cache'[p.id] = p
  <2>1. IsSequence(answers[r])
    BY <1>0 DEF ManagerInv
  <2>2. \/ i \in DOMAIN answers[r] /\ answers'[r][i] = answers[r][i]
        \/ answers'[r][i] = x
    BY <1>3, <2>1, AppendIsSequence
  <2>3. CASE answers'[r][i] = x
    BY <1>3, <2>3 DEF Honest, Cached
  <2>4. QED
    BY <1>1, <2>2, <2>3
<1>4. QED
  BY <1>0, <1>2, <1>3 DEF ManagerStep, ToldOnce

\* The handlers of the routes do not touch the manager.
LEMMA HandleKeeps ==
  ASSUME NEW r \in Requests, Handle(r)
  PROVE  UNCHANGED <<asked, waiting, jobs, answers, cache>>
  BY DEF Handle

LEMMA ManagerInvNext ==
  ASSUME ManagerInv, [Next]_vars
  PROVE  ManagerInv'
<1>1. CASE (\E r \in Requests : Handle(r)) \/ UNCHANGED vars
  <2>1. UNCHANGED <<asked, waiting, jobs, answers, cache>>
    BY <1>1, HandleKeeps DEF vars, managerVars, requestVars
  <2>2. QED
    BY <2>1 DEF ManagerInv, Callers, IsSequence
<1>2. CASE LayerAnswers \/ Environment
  <2>1. ManagerStep
    BY <1>2, LayerStep, AskStep, AddDefinitionStep DEF Environment
  <2>2. QED
    BY <2>1, ManagerInvStep
<1>3. QED
  BY <1>1, <1>2 DEF Next

LEMMA CreatedNext ==
  ASSUME ManagerInv, CreatedInv, [Next]_vars
  PROVE  ManagerInv' /\ CreatedInv'
<1>1. CASE (\E r \in Requests : Handle(r)) \/ UNCHANGED vars
  <2>1. UNCHANGED <<asked, waiting, jobs, answers, cache>>
    BY <1>1, HandleKeeps DEF vars, managerVars, requestVars
  <2>2. QED
    BY <2>1 DEF ManagerInv, CreatedInv, Callers, IsSequence
<1>2. CASE LayerAnswers \/ Environment
  <2>1. ManagerStep
    BY <1>2, LayerStep, AskStep, AddDefinitionStep DEF Environment
  <2>2. CASE Next
    <3>1. Grows
      BY NextGrows, KeptCacheGrows
    <3>2. QED
      BY <2>1, <3>1, ManagerInvStep, CreatedInvStep
  <2>3. CASE UNCHANGED vars
    BY <2>3, <1>1
  <2>4. QED
    BY <2>2, <2>3
<1>3. QED
  BY <1>1, <1>2 DEF Next

LEMMA CreatedInvImplies ==
  ASSUME ManagerInv, CreatedInv
  PROVE  CreatedIsFound
  BY DEF ManagerInv, CreatedInv, CreatedIsFound, Positive, Callers, NotAsked

\* What a client was given by createProcess is what everybody finds under the ids from
\* then on (manager.js:435-523: the ids are looked up before and after the asynchronous
\* creation).
THEOREM CreatedProcessesAreFound == Spec => []CreatedIsFound
<1>1. Init => ManagerInv /\ CreatedInv
  <2>1. Init => CreatedInv
    BY DEF Init, ManagerInit, CreatedInv, Callers
  <2>2. QED
    BY <2>1, ManagerInvInit
<1>2. ManagerInv /\ CreatedInv /\ [Next]_vars => (ManagerInv /\ CreatedInv)'
  BY CreatedNext
<1>3. ManagerInv /\ CreatedInv => CreatedIsFound
  BY CreatedInvImplies
<1>4. QED
  BY <1>1, <1>2, <1>3, PTL DEF Spec

-----------------------------------------------------------------------------
(****************************************************************************)
(* Messages: what is recorded as received was sent or has failed, and       *)
(* nothing is acknowledged that is not recorded.                            *)
(****************************************************************************)
IsRequest(r) == r \in Callers /\ RouteOf(r) = "message"
Statuses     == {"200", "201", "error"}
HasAck(s)    == \E i \in DOMAIN s : s[i] \in {"200", "201"}

RestTypes ==
  /\ handled \in [Requests -> Nat]
  /\ responses \in [Requests -> Seq(Statuses)]
  /\ delivered \in [Messages -> Nat]

SentInv ==
  \A m \in Messages :
    /\ delivered[m] <= 1
    /\ delivered[m] > 0 => m \in receivedMessageIds
    /\ m \in receivedMessageIds => delivered[m] = 1 \/ m \in failedTries

AnsweredInv ==
  /\ \A r \in Requests \ Callers : responses[r] = << >>
  /\ \A r \in Requests : IsRequest(r) /\ HasAck(responses[r])
                            => asked[r].message \in receivedMessageIds

RestInv == RestTypes /\ SentInv /\ AnsweredInv

LEMMA RestInvInit == Init => RestInv
<1> SUFFICES ASSUME Init PROVE RestInv
  OBVIOUS
<1>1. RestTypes /\ SentInv
  BY DEF Init, RestTypes, SentInv
<1>2. \A r \in Requests : responses[r] = << >>
  BY DEF Init
<1>3. ~HasAck(<< >>)
  BY DEF HasAck
<1>4. AnsweredInv
  BY <1>2, <1>3 DEF AnsweredInv
<1>5. QED
  BY <1>1, <1>4 DEF RestInv

LEMMA ManagerKeepsRestInv ==
  ASSUME ManagerInv, RestInv, ManagerStep, UNCHANGED restVars
  PROVE  RestInv'
<1>1. RestTypes' /\ SentInv'
  BY DEF RestInv, RestTypes, SentInv, restVars
<1>2. \A r \in Requests \ Callers' : responses'[r] = << >>
  BY CallersStay DEF RestInv, AnsweredInv, restVars
<1>3. ASSUME NEW r \in Requests, IsRequest(r)', HasAck(responses'[r])
      PROVE  asked'[r].message \in receivedMessageIds'
  <2>1. responses' = responses /\ receivedMessageIds' = receivedMessageIds
    BY DEF restVars
  <2>2. r \in Callers
    BY <1>3, <2>1 DEF RestInv, AnsweredInv, HasAck
  <2>3. asked'[r] = asked[r] /\ IsRequest(r)
    BY <1>3, <2>2, CallersStay DEF IsRequest, RouteOf
  <2>4. QED
    BY <1>3, <2>1, <2>3 DEF RestInv, AnsweredInv
<1>4. AnsweredInv'
  BY <1>2, <1>3 DEF AnsweredInv, HasAck
<1>5. QED
  BY <1>1, <1>4 DEF RestInv

\* A handler runs for a request that was called.
LEMMA HandlerOfCaller ==
  ASSUME ManagerInv, RestInv, NEW r \in Requests, Handle(r)
  PROVE  r \in Callers
<1>1. handled[r] < Len(answers[r]) /\ handled[r] \in Nat
  BY DEF Handle, Unhandled, RestInv, RestTypes
<1>2. QED
  BY <1>1 DEF ManagerInv

\* Responses grow at their end; a positive one is new or was there before.
LEMMA SendAdds ==
  ASSUME RestTypes, NEW r \in Requests, NEW statuses \in Seq(Statuses), Send(r, statuses)
  PROVE  /\ responses' \in [Requests -> Seq(Statuses)]
         /\ \A q \in Requests : q # r => responses'[q] = responses[q]
         /\ HasAck(responses'[r]) => HasAck(responses[r]) \/ HasAck(statuses)
<1>1. responses' = [responses EXCEPT ![r] = responses[r] \o statuses]
  BY DEF Send
<1>2. responses[r] \in Seq(Statuses)
  BY DEF RestTypes
<1>3. responses[r] \o statuses \in Seq(Statuses)
  BY <1>2
<1>4. responses'[r] = responses[r] \o statuses
  BY <1>1 DEF RestTypes
<1>5. ASSUME NEW i \in DOMAIN responses'[r]
      PROVE  \/ i \in DOMAIN responses[r] /\ responses'[r][i] = responses[r][i]
             \/ \E k \in DOMAIN statuses : responses'[r][i] = statuses[k]
  <2>1. i \in 1 .. Len(responses[r]) + Len(statuses)
    BY <1>2, <1>4
  <2>2. CASE i <= Len(responses[r])
    BY <1>2, <1>4, <2>1, <2>2
  <2>3. CASE i > Len(responses[r])
    <3>1. i - Len(responses[r]) \in DOMAIN statuses
      BY <1>2, <2>1, <2>3
    <3>2. responses'[r][i] = statuses[i - Len(responses[r])]
      BY <1>2, <1>4, <2>1, <2>3
    <3>3. QED
      BY <3>1, <3>2
  <2>4. QED
    BY <1>2, <2>1, <2>2, <2>3
<1>6. QED
  BY <1>1, <1>3, <1>5 DEF RestTypes, HasAck

\* The handlers of other routes answer, and leave the messages alone.
LEMMA OtherRouteKeepsRestInv ==
  ASSUME ManagerInv, RestInv, NEW r \in Requests, r \in Callers, UNCHANGED asked,
         handled' \in [Requests -> Nat],
         UNCHANGED <<receivedMessageIds, delivered, failedTries>>,
         NEW statuses \in Seq(Statuses), Send(r, statuses),
         IsRequest(r) => ~HasAck(statuses)
  PROVE  RestInv'
<1>1. Callers' = Callers
  BY DEF Callers
<1>2. RestTypes' /\ SentInv'
  BY SendAdds DEF RestInv, RestTypes, SentInv
<1>3. \A q \in Requests : IsRequest(q)' <=> IsRequest(q)
  BY <1>1 DEF IsRequest, RouteOf
<1>4. \A q \in Requests : IsRequest(q) /\ HasAck(responses'[q]) => HasAck(responses[q])
  BY SendAdds DEF RestInv
<1>5. \A q \in Requests \ Callers' : responses'[q] = << >>
  BY <1>1, SendAdds DEF RestInv, AnsweredInv
<1>6. \A q \in Requests : IsRequest(q)' /\ HasAck(responses'[q])
                           => asked'[q].message \in receivedMessageIds'
  BY <1>3, <1>4 DEF RestInv, AnsweredInv
<1>7. AnsweredInv'
  BY <1>5, <1>6 DEF AnsweredInv, HasAck
<1>8. QED
  BY <1>2, <1>7 DEF RestInv

\* A put is recorded before it is answered with anything but an error of the manager.
LEMMA HandleMessageKeepsRestInv ==
  ASSUME ManagerInv, RestInv, NEW r \in Requests, r \in Callers, UNCHANGED asked,
         handled' \in [Requests -> Nat], HandleMessage(r)
  PROVE  RestInv'
<1> DEFINE m == asked[r].message
<1>1. RouteOf(r) = "message" /\ receivedMessageIds' = receivedMessageIds \cup {m}
  BY DEF HandleMessage, Received
<1>2. Callers' = Callers
  BY DEF Callers
<1>3. m \in Messages
  <2>1. asked[r] \in Calls[r] /\ asked[r].route = "message"
    BY <1>1 DEF ManagerInv, RouteOf
  <2>2. QED
    BY <2>1 DEF Messages
<1>4. PICK statuses \in Seq(Statuses) : Send(r, statuses)
  <2>1. <<"200">> \in Seq(Statuses) /\ <<"201">> \in Seq(Statuses) /\ <<"error">> \in Seq(Statuses)
    BY DEF Statuses
  <2>2. QED
    BY <2>1 DEF HandleMessage, TriggerEvent
<1>5. /\ delivered' \in [Messages -> Nat]
      /\ SentInv'
  <2>1. CASE m \in receivedMessageIds
    BY <1>1, <2>1 DEF HandleMessage, RestInv, RestTypes, SentInv
  <2>2. CASE m \notin receivedMessageIds
    <3>1. delivered[m] = 0
      BY <1>3, <2>2 DEF RestInv, RestTypes, SentInv
    <3>2. CASE delivered' = [delivered EXCEPT ![m] = @ + 1] /\ UNCHANGED failedTries
      BY <1>1, <1>3, <3>1, <3>2 DEF RestInv, RestTypes, SentInv
    <3>3. CASE failedTries' = failedTries \cup {m} /\ UNCHANGED delivered
      BY <1>1, <1>3, <3>1, <3>3 DEF RestInv, RestTypes, SentInv
    <3>4. QED
      BY <2>2, <3>2, <3>3 DEF HandleMessage, TriggerEvent
  <2>3. QED
    BY <2>1, <2>2
<1>6. RestTypes'
  BY <1>4, <1>5, SendAdds DEF RestInv, RestTypes
<1>7. \A q \in Requests \ Callers' : responses'[q] = << >>
  BY <1>2, <1>4, SendAdds DEF RestInv, AnsweredInv
<1>8. ASSUME NEW q \in Requests, IsRequest(q)', HasAck(responses'[q])
      PROVE  asked'[q].message \in receivedMessageIds'
  <2>1. CASE q = r
    BY <1>1, <2>1
  <2>2. CASE q # r
    <3>1. responses'[q] = responses[q]
      BY <1>4, <2>2, SendAdds DEF RestInv
    <3>2. IsRequest(q)
      BY <1>2, <1>8 DEF IsRequest, RouteOf
    <3>3. QED
      BY <1>1, <1>8, <3>1, <3>2 DEF RestInv, AnsweredInv
  <2>3. QED
    BY <2>1, <2>2
<1>9. QED
  BY <1>5, <1>6, <1>7, <1>8 DEF RestInv, AnsweredInv, HasAck

LEMMA HandleKeepsRestInv ==
  ASSUME ManagerInv, RestInv, NEW r \in Requests, Handle(r)
  PROVE  RestInv'
<1>1. r \in Callers
  BY HandlerOfCaller
<1>2. UNCHANGED asked /\ handled' \in [Requests -> Nat]
  BY HandleKeeps DEF Handle, RestInv, RestTypes
<1>3. CASE HandleError(r)
  <2>1. <<"error">> \in Seq(Statuses) /\ ~HasAck(<<"error">>)
    BY DEF HasAck, Statuses
  <2>2. Send(r, <<"error">>) /\ UNCHANGED <<receivedMessageIds, delivered, failedTries>>
    BY <1>3 DEF HandleError
  <2>3. QED
    BY <1>1, <1>2, <2>1, <2>2, OtherRouteKeepsRestInv
<1>4. CASE HandleGet(r)
  <2>1. <<"200">> \in Seq(Statuses) /\ ~IsRequest(r)
    BY <1>4 DEF HandleGet, IsRequest, Statuses
  <2>2. Send(r, <<"200">>) /\ UNCHANGED <<receivedMessageIds, delivered, failedTries>>
    BY <1>4 DEF HandleGet
  <2>3. QED
    BY <1>1, <1>2, <2>1, <2>2, OtherRouteKeepsRestInv
<1>5. CASE HandleCollaboration(r)
  <2>1. ~IsRequest(r) /\ UNCHANGED <<receivedMessageIds, delivered, failedTries>>
    BY <1>5 DEF HandleCollaboration, IsRequest
  <2>2. CASE UNCHANGED responses
    <3>1. << >> \in Seq(Statuses) /\ Send(r, << >>)
      BY <2>2 DEF Send, RestInv, RestTypes
    <3>2. QED
      BY <1>1, <1>2, <2>1, <3>1, OtherRouteKeepsRestInv
  <2>3. CASE Send(r, <<"201">>) \/ Send(r, <<"error", "201">>)
    <3>1. <<"201">> \in Seq(Statuses) /\ <<"error", "201">> \in Seq(Statuses)
      BY DEF Statuses
    <3>2. QED
      BY <1>1, <1>2, <2>1, <2>3, <3>1, OtherRouteKeepsRestInv
  <2>4. QED
    BY <1>5, <2>2, <2>3 DEF HandleCollaboration
<1>6. CASE HandleMessage(r)
  BY <1>1, <1>2, <1>6, HandleMessageKeepsRestInv
<1>7. QED
  BY <1>3, <1>4, <1>5, <1>6 DEF Handle

LEMMA RestNext ==
  ASSUME ManagerInv, RestInv, [Next]_vars
  PROVE  ManagerInv' /\ RestInv'
<1>1. ASSUME NEW r \in Requests, Handle(r) PROVE ManagerInv' /\ RestInv'
  <2>1. ManagerInv'
    BY <1>1, HandleKeeps DEF ManagerInv, Callers, IsSequence
  <2>2. QED
    BY <1>1, <2>1, HandleKeepsRestInv
<1>2. ASSUME LayerAnswers \/ Environment, UNCHANGED restVars PROVE ManagerInv' /\ RestInv'
  <2>1. ManagerStep
    BY <1>2, LayerStep, AskStep, AddDefinitionStep DEF Environment
  <2>2. QED
    BY <1>2, <2>1, ManagerInvStep, ManagerKeepsRestInv
<1>3. CASE UNCHANGED vars
  BY <1>3 DEF vars, managerVars, requestVars, restVars, ManagerInv, Callers, IsSequence, RestInv,
     RestTypes, SentInv, AnsweredInv, IsRequest, RouteOf, HasAck
<1>4. QED
  BY <1>1, <1>2, <1>3 DEF Next

\* The event of a message is triggered once at most, however often the message is put and
\* however often the manager calls the handler of a put back (rest.js:161-173, 199-229).
THEOREM MessagesAreDeliveredOnce == Spec => []DeliveredOnce
<1>1. Init => ManagerInv /\ RestInv
  BY ManagerInvInit, RestInvInit
<1>2. ManagerInv /\ RestInv /\ [Next]_vars => (ManagerInv /\ RestInv)'
  BY RestNext
<1>3. RestInv => DeliveredOnce
  BY DEF RestInv, SentInv, DeliveredOnce
<1>4. QED
  BY <1>1, <1>2, <1>3, PTL DEF Spec

\* A message that was answered with 200 or 201 was sent to its process, unless an earlier
\* try of it threw an exception (rest.js:199-229).
THEOREM AcknowledgedMessagesAreDelivered == Spec => []AcknowledgedIsDelivered
<1>1. Init => ManagerInv /\ RestInv
  BY ManagerInvInit, RestInvInit
<1>2. ManagerInv /\ RestInv /\ [Next]_vars => (ManagerInv /\ RestInv)'
  BY RestNext
<1>3. ManagerInv /\ RestInv => AcknowledgedIsDelivered
  <2> SUFFICES ASSUME ManagerInv, RestInv, NEW m \in Acknowledged
               PROVE  delivered[m] = 1 \/ m \in failedTries
    BY DEF AcknowledgedIsDelivered
  <2>1. PICK r \in Puts : m = asked[r].message /\ HasAck(responses[r])
    BY DEF Acknowledged, HasAck
  <2>2. r \in Requests /\ IsRequest(r)
    BY DEF Puts, IsRequest, Callers
  <2>3. m \in receivedMessageIds
    BY <2>1, <2>2 DEF RestInv, AnsweredInv
  <2>4. m \in Messages
    <3>1. asked[r] \in Calls[r] /\ asked[r].route = "message"
      BY <2>2 DEF ManagerInv, IsRequest, RouteOf
    <3>2. QED
      BY <2>1, <2>2, <3>1 DEF Messages
  <2>5. QED
    BY <2>3, <2>4 DEF RestInv, SentInv
<1>4. QED
  BY <1>1, <1>2, <1>3, PTL DEF Spec
===============================================================================
