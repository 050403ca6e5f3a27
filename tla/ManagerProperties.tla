---------------------------- MODULE ManagerProperties ----------------------------
(****************************************************************************)
(* What callers of the manager and of its REST server rely on.              *)
(****************************************************************************)
EXTENDS RestServer

Positive(r) == {answers[r][i].value : i \in {k \in DOMAIN answers[r] : answers[r][k].tag = "ok"}}

\* What a client was given by createProcess is what everybody finds under the ids from
\* then on, whoever else creates or loads processes with the same ids at the same time
\* (manager.js:435-523: the ids are looked up before and after the asynchronous creation).
CreatedIsFound ==
  \A r \in Requests : asked[r].op = "create" =>
    \A ps \in Positive(r) : \A p \in ps : cache[p.id] = p

\* A process in the cache is never replaced by another object of the same id, neither by
\* the initialisation nor by createProcess (manager.js:200-206, 466-490, 513-517).
CacheOnlyGrows ==
  [][\A k \in DOMAIN cache : cache[k] # Nothing => cache'[k] = cache[k]]_cache

\* A callback is called once at most, and by a request that had to wait once at most for
\* each initialisation: the list of those who wait is never emptied (manager.js:148-158),
\* and a collaboration that fails in several places reports one (391-422).
AnsweredOncePerRound ==
  \A r \in Requests :
    LET pending == {j \in jobs : j.request = r /\ ~j.failed}
    IN  Len(answers[r]) + Cardinality(pending)
          <= IF \E i \in DOMAIN waiting : waiting[i] = r THEN rounds ELSE 1

\* When the manager says that it is initialised without an error, and nothing could not be
\* loaded before, the processes of all documents of its definitions are there
\* (manager.js:136-225).
StoredIsLoaded ==
  initialized /\ ~initError /\ failedLoads = {} =>
    \A d \in store : NameOf[IdOf[d]] \in definitions => cache[IdOf[d]] # Nothing

\* The event of a message is triggered once at most, however often the message is put and
\* however often the manager calls the handler of a put back (rest.js:161-173, 199-229).
DeliveredOnce == \A m \in Messages : delivered[m] <= 1

Puts == {r \in Requests : asked[r] # NotAsked /\ RouteOf(r) = "message"}
Acknowledged == {asked[r].message : r \in {q \in Puts :
                   \E i \in DOMAIN responses[q] : responses[q][i] \in {"200", "201"}}}

\* A message that was answered with 200 or 201 was sent to its process, unless an earlier
\* try of it threw an exception (rest.js:199-229).
AcknowledgedIsDelivered ==
  \A m \in Acknowledged : delivered[m] = 1 \/ m \in failedTries

\* Every request is answered, unless a callback of another one throws (manager.js:148-158
\* and 233-239: also by an initialisation that fails).
RequestsAnswered ==
  \A r \in Requests : asked[r] # NotAsked ~> answers[r] # << >> \/ thrown # {}
===============================================================================
