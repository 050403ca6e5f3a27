------------------------------- MODULE RestServer -------------------------------
(****************************************************************************)
(* lib/rest.js on top of the manager: the requests with a route come by     *)
(* HTTP, the others are calls of the manager's interface.  What a route's   *)
(* handler does with the manager's answer belongs to the same turn of the   *)
(* event loop, so it comes before anything else.                            *)
(****************************************************************************)
EXTENDS ProcessManager

\* A route's handler is what is done with the answer; the route "none" is a direct call.
Routes == {"message", "process", "processes", "create", "collaborate"}

OpsOf(route) ==
  CASE route \in {"message", "process"} -> {"get"}
    [] route = "processes"              -> {"findByName"}
    [] route = "create"                 -> {"createOne"}
    [] route = "collaborate"            -> {"create"}
    [] OTHER                            -> Ops

ASSUME RoutesAssumption == \A r \in Requests : \A call \in Calls[r] : call.op \in OpsOf(call.route)

\* process name, id, message name and message id of a request
Messages == {call.message : call \in {c \in UNION {Calls[r] : r \in Requests} :
                                        c.route = "message"}}

VARIABLES
  handled,             \* [Requests -> Nat]: answers of the manager the handler has seen
  responses,           \* [Requests -> Seq(statuses)]: what was sent
  receivedMessageIds,  \* messages recorded as received
  delivered,           \* [Messages -> Nat]: events triggered for a message
  failedTries          \* messages whose triggerEvent threw an exception

restVars == <<handled, responses, receivedMessageIds, delivered, failedTries>>
vars == <<managerVars, restVars>>

Init ==
  /\ ManagerInit
  /\ handled = [r \in Requests |-> 0]
  /\ responses = [r \in Requests |-> << >>]
  /\ receivedMessageIds = {}
  /\ delivered = [m \in Messages |-> 0]
  /\ failedTries = {}

-----------------------------------------------------------------------------
RouteOf(r) == asked[r].route
Unhandled  == {r \in Requests : handled[r] < Len(answers[r]) /\ RouteOf(r) \in Routes}
Told(r)    == answers[r][handled[r] + 1]
Send(r, statuses) == responses' = [responses EXCEPT ![r] = @ \o statuses]

\* sendError
HandleError(r) ==
  /\ Told(r) = Failure
  /\ Send(r, <<"error">>)
  /\ UNCHANGED <<receivedMessageIds, delivered, failedTries, thrown>>

\* GET of one process, which may not exist, and of those with a name.
HandleGet(r) ==
  /\ Told(r) # Failure
  /\ RouteOf(r) \in {"process", "processes"}
  /\ Send(r, <<"200">>)
  /\ UNCHANGED <<receivedMessageIds, delivered, failedTries, thrown>>

\* Mutant of Received: nothing is recorded.
ReceivedUnrecorded(m) == UNCHANGED receivedMessageIds
Received(m) == receivedMessageIds' = receivedMessageIds \cup {m}

\* The event of a message is triggered, or throws: it does without a process.
TriggerEvent(r, m) ==
  \/ /\ Told(r).value # Nothing
     /\ delivered' = [delivered EXCEPT ![m] = @ + 1]
     /\ Send(r, <<"201">>)
     /\ UNCHANGED failedTries
  \/ /\ failedTries' = failedTries \cup {m}
     /\ Send(r, <<"error">>)
     /\ UNCHANGED delivered

\* Mutant of HandleMessage: the message is recorded before the manager's error is seen.
HandleMessageRecordingFirst(r) ==
  LET m == asked[r].message
  IN  /\ RouteOf(r) = "message"
      /\ Received(m)
      /\ IF m \in receivedMessageIds
         THEN Send(r, <<"200">>) /\ UNCHANGED <<delivered, failedTries>>
         ELSE IF Told(r) = Failure
         THEN Send(r, <<"error">>) /\ UNCHANGED <<delivered, failedTries>>
         ELSE TriggerEvent(r, m)
      /\ UNCHANGED thrown

\* PUT of a message: one that was received already is not sent again.
HandleMessage(r) ==
  LET m == asked[r].message
  IN  /\ Told(r) # Failure
      /\ RouteOf(r) = "message"
      /\ Received(m)
      /\ IF m \in receivedMessageIds
         THEN Send(r, <<"200">>) /\ UNCHANGED <<delivered, failedTries>>
         ELSE TriggerEvent(r, m)
      /\ UNCHANGED thrown

\* POST of collaborating processes: the start event of the main one is triggered.  When
\* that throws, an error is sent, and then the answer all the same; without a main
\* process the loop that looks for it throws.
HandleCollaboration(r) ==
  LET main == asked[r].main
      made == {p.id : p \in Told(r).value}
  IN  /\ Told(r) # Failure
      /\ RouteOf(r) = "collaborate"
      /\ \/ main # Nothing /\ Send(r, <<"201">>) /\ UNCHANGED thrown
         \/ main \in made /\ Send(r, <<"error", "201">>) /\ UNCHANGED thrown
         \/ main = Nothing /\ thrown' = thrown \cup {r} /\ UNCHANGED responses
      /\ UNCHANGED <<receivedMessageIds, delivered, failedTries>>

\* The handler of a route is called back by the manager.
Handle(r) ==
  /\ r \in Unhandled
  /\ handled' = [handled EXCEPT ![r] = @ + 1]
  /\ \/ HandleError(r) \/ HandleGet(r) \/ HandleMessage(r) \/ HandleCollaboration(r)
  /\ UNCHANGED <<store, definitions, cache, initVars, documents, orphans, waiting, jobs, asked,
                 answers, rounds, adds, failedLoads>>

-----------------------------------------------------------------------------
\* A request arrives (a route's handler asks the manager), or the manager's owner adds a
\* definition.
Environment ==
  /\ UNCHANGED store
  /\ \/ \E r \in Requests : \E call \in Calls[r] : Ask(r, call)
     \/ \E n \in Names : AddDefinition(n)

Next ==
  \/ \E r \in Requests : Handle(r)
  \/ Unhandled = {} /\ LayerAnswers /\ UNCHANGED restVars
  \/ Unhandled = {} /\ Environment /\ UNCHANGED restVars

\* The program goes on with its own turn, and the persistency layer answers in the end;
\* nobody has to call anything.
Spec == /\ Init /\ [][Next]_vars
        /\ \A r \in Requests : WF_vars(Handle(r))
        /\ WF_vars(Unhandled = {} /\ LayerAnswers /\ UNCHANGED restVars)
===============================================================================
