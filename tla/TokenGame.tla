------------------------------ MODULE TokenGame ------------------------------
(****************************************************************************)
(* What executing a process definition means: tokens move over the flow     *)
(* objects, one step per object left.  No handlers, events, timers or saves *)
(* here; ProcessEngine is the machine that is supposed to play this game.   *)
(* The rules are the "Semantics" comments of the emitTokens methods.        *)
(****************************************************************************)
EXTENDS Naturals, Sequences, FiniteSets

CONSTANTS FlowObjects, Kind, Outgoing, Boundaries, Processes, Main, ProcessOf, CallOf, StartOf

VARIABLES
  started,  \* has the main process been started?
  marking,  \* [FlowObjects -> Nat]: how many tokens are at an object
  entered   \* called processes that have been started

vars == <<started, marking, entered>>

TypeOK ==
  /\ started \in BOOLEAN
  /\ marking \in [FlowObjects -> Nat]
  /\ entered \subseteq Processes

Init ==
  /\ started = FALSE
  /\ marking = [o \in FlowObjects |-> 0]
  /\ entered = {}

FlowsInto(o) ==
  UNION {{<<p, i>> : i \in {i \in DOMAIN Outgoing[p] : Outgoing[p][i] = o}} : p \in FlowObjects}

FlowsBetween(p, o) == Cardinality({i \in DOMAIN Outgoing[p] : Outgoing[p][i] = o})

\* The objects of the processes called, directly or not, by activity c.
Callers[p \in Processes] ==
  IF p = Main THEN {} ELSE {CallOf[p]} \cup Callers[ProcessOf[CallOf[p]]]
Inside(c) == {o \in FlowObjects : c \in Callers[ProcessOf[o]]}

\* n tokens leave o, one appears behind each of its flows.
Pass(o, n) ==
  /\ marking[o] >= n
  /\ marking' = [x \in FlowObjects |->
       (IF x = o THEN marking[x] - n ELSE marking[x]) + FlowsBetween(o, x)]
  /\ UNCHANGED <<started, entered>>

Start ==
  /\ ~started
  /\ started' = TRUE
  /\ marking' = [marking EXCEPT ![StartOf[Main]] = @ + 1]
  /\ UNCHANGED entered

\* "emit tokens along all outgoing flows": events, tasks and boundary events;
\* an end event has none and just takes the token.
Move(o) ==
  /\ Kind[o] \notin {"xor", "and", "call"}
  /\ Pass(o, 1)

\* "emit token along the first outgoing flow having an event handler that evaluates
\* to true"
Decide(o) ==
  /\ Kind[o] = "xor"
  /\ marking[o] > 0
  /\ \E i \in DOMAIN Outgoing[o] :
       marking' = [x \in FlowObjects |->
         (IF x = o THEN marking[x] - 1 ELSE marking[x])
           + (IF x = Outgoing[o][i] THEN 1 ELSE 0)]
  /\ UNCHANGED <<started, entered>>

\* "wait until all tokens arrive and then emit tokens along all outgoing flows"
Synchronise(o) ==
  /\ Kind[o] = "and"
  /\ Pass(o, Cardinality(FlowsInto(o)))

\* "the called process is created and a token is put onto its start state"
Enter(p) ==
  /\ p \notin entered \cup {Main}
  /\ marking[CallOf[p]] > 0
  /\ entered' = entered \cup {p}
  /\ marking' = [marking EXCEPT ![StartOf[p]] = @ + 1]
  /\ UNCHANGED started

\* The activity is left when the called process holds no token any more.
Return(p) ==
  /\ p \in entered
  /\ \A o \in Inside(CallOf[p]) : marking[o] = 0
  /\ Pass(CallOf[p], 1)

\* A boundary event takes the token of its activity.
Interrupt(o, b) ==
  /\ \E i \in DOMAIN Boundaries[o] : Boundaries[o][i] = b
  /\ marking[o] > 0
  /\ marking' = [marking EXCEPT ![o] = @ - 1, ![b] = @ + 1]
  /\ UNCHANGED <<started, entered>>

Next ==
  \/ Start
  \/ \E o \in FlowObjects : Move(o) \/ Decide(o) \/ Synchronise(o)
  \/ \E p \in Processes : Enter(p) \/ Return(p)
  \/ \E o, b \in FlowObjects : Interrupt(o, b)

Spec == Init /\ [][Next]_vars
=============================================================================
