--------------------------- MODULE ProcessDefinitions ---------------------------
(****************************************************************************)
(* lib/parsing/definitions.js and processDefinition.js: every definition of *)
(* a file is validated and gets its collaborations; then the engine looks   *)
(* things up in tables that are built when they are first asked for.        *)
(****************************************************************************)
EXTENDS Parser

IsProcess(t) == t.kind = "process"

Elements(d) == {flowObjects[d][i] : i \in DOMAIN flowObjects[d]}
Flows(d)    == {sequenceFlows[d][i] : i \in DOMAIN sequenceFlows[d]}
ElementIds(d) == {e.id : e \in Elements(d) \cup Flows(d)}
In(d, e)    == {f \in Flows(d) : f.target = e.id}
Out(d, e)   == {f \in Flows(d) : f.source = e.id}

-----------------------------------------------------------------------------
(****************************************************************************)
(* The tables: what each is built from, and when that throws.               *)
(****************************************************************************)
FlowIndex(flows, end) ==
  [ref \in {flows[i][end] : i \in DOMAIN flows} |->
     SelectSeq(flows, LAMBDA f : f[end] = ref)]

Build(d, k) ==
  CASE k = "elements"         -> ElementIds(d)
    [] k = "names"            -> {<<e.name, e.id>> : e \in Elements(d)}
    [] k = "boundaryEvents"   -> {<<e.attachedTo, e.id>> :
                                    e \in {b \in Elements(d) : b.kind = "boundaryEvent"}}
    [] k = "flowsBySource"    -> FlowIndex(sequenceFlows[d], "source")
    [] k = "flowsByTarget"    -> FlowIndex(sequenceFlows[d], "target")
    [] k = "messagesBySource" -> {<<f.source, f.id>> : f \in messageFlows[d]}
    [] k = "messagesByTarget" -> {<<f.target, f.id>> : f \in messageFlows[d]}

\* Names must be unique, and boundary events be attached to wait tasks.
CanBuild(d, k) ==
  CASE k = "names"          -> \A e, f \in Elements(d) : e.name = f.name => e = f
    [] k = "boundaryEvents" -> \A b \in Elements(d) : b.kind = "boundaryEvent" =>
                                 \E a \in Elements(d) : a.id = b.attachedTo /\ a.kind \in WaitTasks
    [] OTHER                -> TRUE

\* The tables ks of d are there after the step.
LookedUp(d, ks) ==
  [index EXCEPT ![d] = [k \in Indexes |-> IF k \in ks /\ @[k] = Null THEN Build(d, k) ELSE @[k]]]

-----------------------------------------------------------------------------
(****************************************************************************)
(* setCollaborationDefinitions: the process definitions in their order.     *)
(* What is in a sub-process is not validated, and gets no collaboration.    *)
(****************************************************************************)
FirstIn   == {"startEvent", "boundaryEvent"}
OneOut    == FirstIn \cup {"intermediateEvent"}

\* The errors of one flow object, but for GW1.
PlainErrors(d, e) ==
  {<<code, e.id>> : code \in
     {c \in {"FO1", "FO2", "FO3", "FO4", "FO5", "XG1", "CA1"} :
        \/ c = "FO1" /\ e.kind # "parallelGateway" /\ e.name = ""
        \/ c = "FO2" /\ e.kind \notin OneOut \cup {"endEvent"} /\ Out(d, e) = {}
        \/ c = "FO3" /\ e.kind \in OneOut /\ Cardinality(Out(d, e)) # 1
        \/ c = "FO4" /\ e.kind = "endEvent" /\ Out(d, e) # {}
        \/ c = "FO5" /\ (In(d, e) = {} <=> e.kind \notin FirstIn)
        \/ c = "XG1" /\ e.kind = "exclusiveGateway" /\ \E f \in Out(d, e) : f.name = ""
        \/ c = "CA1" /\ e.kind = "callActivity" /\ e.location = ""}}

Branches(d, e) == Cardinality(In(d, e)) > 1 \/ Cardinality(Out(d, e)) > 1

\* Mutant of GatewayErrors: only gateways without a way out are looked for.
GatewayErrorsMissed(d) ==
  LET Lacks(i) == flowObjects[d][i].kind \in Gateways /\ Out(d, flowObjects[d][i]) = {}
  IN  {<<"GW1", flowObjects[d][i].id>> : i \in {k \in DOMAIN flowObjects[d] : Lacks(k)}}

\* A gateway must split or join; that is not looked at once there are errors.
GatewayErrors(d) ==
  LET At(i)    == flowObjects[d][i]
      Lacks(i) == At(i).kind \in Gateways /\ ~Branches(d, At(i))
      First(i) == /\ Lacks(i) /\ \A k \in 1 .. i - 1 : ~Lacks(k)
                  /\ \A k \in 1 .. i : PlainErrors(d, At(k)) = {}
  IN  {<<"GW1", At(i).id>> : i \in {k \in DOMAIN flowObjects[d] : First(k)}}

ValidationErrors(d) == (UNION {PlainErrors(d, e) : e \in Elements(d)}) \cup GatewayErrors(d)

\* Collaborations of the file that d takes part in: participants of it, by its id.
PoolsOf(c, d)  == {i \in DOMAIN participants[c] : participants[c][i].processRef = d}
CollaborationsOf(d) == {i \in DOMAIN topLevel : ~IsProcess(topLevel[i]) /\ PoolsOf(topLevel[i].id, d) # {}}

\* The other participants, where the first of a name counts.
Partners(d) ==
  LET At(p)        == participants[topLevel[p[1]].id][p[2]]
      places       == UNION {{<<i, k>> : k \in DOMAIN participants[topLevel[i].id]} :
                               i \in CollaborationsOf(d)}
      others       == {p \in places : At(p).processRef # d}
      Before(p, q) == p[1] < q[1] \/ (p[1] = q[1] /\ p[2] < q[2])
  IN  {At(p) : p \in {q \in others : \A r \in others : Before(r, q) => At(r).name # At(q).name}}

FlowsAround(d) == UNION {collaborationFlows[topLevel[i].id] : i \in CollaborationsOf(d)}

\* The tables that validate (of any element) and addMessageFlows (of any flow) build.
TablesUsed(d) ==
  (IF Elements(d) = {} THEN {} ELSE {"flowsBySource", "flowsByTarget"})
    \cup (IF FlowsAround(d) = {} THEN {} ELSE {"elements"})

\* d gets the message flows `in', which end there, and `out'.
GetMessageFlows(d, in, out) ==
  /\ messageFlows' = [messageFlows EXCEPT ![d] = @ \cup in \cup out]
  /\ targetProcess' = [f \in Ids |-> IF \E g \in in : g.id = f THEN d ELSE targetProcess[f]]
  /\ sourceProcess' = [f \in Ids |-> IF \E g \in out : g.id = f THEN d ELSE sourceProcess[f]]

\* Mutant of AddMessageFlows: the flows d has already are looked up while it adds more.
AddMessageFlowsLookingUp(d) ==
  LET in  == {f \in FlowsAround(d) : f.target \in ElementIds(d)}
      out == {f \in FlowsAround(d) : f.source \in ElementIds(d)} \ in
  IN  /\ GetMessageFlows(d, in, out)
      /\ index' = LookedUp(d, TablesUsed(d) \cup {"messagesBySource"})

\* Mutant of AddMessageFlows: the start is looked at first.
AddMessageFlowsBySource(d) ==
  LET out == {f \in FlowsAround(d) : f.source \in ElementIds(d)}
      in  == {f \in FlowsAround(d) : f.target \in ElementIds(d)} \ out
  IN  /\ GetMessageFlows(d, in, out)
      /\ index' = LookedUp(d, TablesUsed(d))

\* addMessageFlows: those that end in d, and of the others those that start there.  The
\* tables of messages are not forgotten.
AddMessageFlows(d) ==
  LET in  == {f \in FlowsAround(d) : f.target \in ElementIds(d)}
      out == {f \in FlowsAround(d) : f.source \in ElementIds(d)} \ in
  IN  /\ GetMessageFlows(d, in, out)
      /\ index' = LookedUp(d, TablesUsed(d))

\* The next of topLevel: a collaboration is passed over, a process is validated and gets
\* its collaborations, unless it has errors or two pools in one.
Attach ==
  /\ phase = "attaching"
  /\ attached < Len(topLevel)
  /\ attached' = attached + 1
  /\ LET t == topLevel[attached + 1]
         d == t.id
     IN  IF ~IsProcess(t)
         THEN UNCHANGED <<phase, parseErrors, attachVars, index>>
         ELSE /\ parseErrors' = ValidationErrors(d)
              /\ IF parseErrors' = {} /\ \A i \in CollaborationsOf(d) :
                                           Cardinality(PoolsOf(topLevel[i].id, d)) = 1
                 THEN /\ partners' = [partners EXCEPT ![d] = Partners(d)]
                      /\ AddMessageFlows(d)
                      /\ UNCHANGED phase
                 ELSE phase' = "refused" /\ UNCHANGED <<attachVars, index>>
  /\ UNCHANGED <<document, position, parserVars, definitionVars, debuggerVars>>

AttachingEnds ==
  /\ phase = "attaching"
  /\ attached = Len(topLevel)
  /\ phase' = "ready"
  /\ UNCHANGED <<document, position, parserVars, definitionVars, debuggerVars, parseErrors,
                 attached, attachVars, index>>

-----------------------------------------------------------------------------
\* What the engine asks a definition for, by the tables it needs.
Lookups == {{"elements"}, {"elements", "names"}, {"elements", "boundaryEvents"},
            {"flowsBySource"}, {"flowsByTarget"}, {"messagesBySource"}, {"messagesByTarget"}}

\* The definitions that were read: of processes and of the sub-processes in them.
Definitions ==
  LET processes == {topLevel[i].id : i \in {k \in DOMAIN topLevel : IsProcess(topLevel[k])}}
  IN  processes \cup {e.id : e \in {s \in UNION {Elements(d) : d \in Ids} : s.kind = "subProcess"}}

\* A lookup that throws leaves everything as it is.
LookUp(d, ks) ==
  /\ phase = "ready"
  /\ \A k \in ks : CanBuild(d, k)
  /\ index' = LookedUp(d, ks)
  /\ UNCHANGED <<document, position, phase, parserVars, definitionVars, debuggerVars,
                 parseErrors, attached, attachVars>>

Next == \/ ParseTag \/ ParsingEnds
        \/ Attach \/ AttachingEnds
        \/ \E d \in Definitions, ks \in Lookups : LookUp(d, ks)

Spec == Init /\ [][Next]_vars
===============================================================================
