-------------------------- MODULE DefinitionProperties --------------------------
(****************************************************************************)
(* What the engine relies on when it runs a definition that was read.       *)
(****************************************************************************)
EXTENDS ProcessDefinitions

\* The tags of `kinds' that are open at place i of the document, and the innermost.
OpenAround(i, kinds) == Around(document, i, kinds)
Latest(S) == CHOOSE k \in S : \A l \in S : l <= k
Innermost(i, kinds) == Latest(OpenAround(i, kinds))

\* The same for what is read: not what is in processes that are not executable.
Read_(i) == \A k \in OpenAround(i, {"process"}) : document[k].executable
ContainedIn(i, d) == Read_(i) /\ document[Innermost(i, Containers)].id = d
Opened(kinds) == {i \in DOMAIN document : document[i].open /\ document[i].kind \in kinds}

\* However processes and sub-processes are nested and follow each other, every flow object
\* and sequence flow is in the innermost definition around it and in no other, and a timer
\* or message makes the element it is written in one (parser.js:140-191).
ElementsAreNested ==
  phase = "attaching" =>
    /\ \A d \in Ids :
         /\ Elements(d) = {document[i] : i \in {k \in Opened(FlowObjects \cup {"subProcess"}) :
                                                  ContainedIn(k, d)}}
         /\ Flows(d) = {document[i] : i \in {k \in Opened({"sequenceFlow"}) : ContainedIn(k, d)}}
    /\ marked = {<<document[Innermost(i, Events \cup Tasks)].id, document[i].kind>> :
                   i \in {k \in Opened(Marks) : Read_(k)}}

\* A table that was built earlier says what one that is built now would: nothing is added
\* behind it (processDefinition.js:270-295, 419-432, 456-462; addSequenceFlow forgets less
\* than addFlowObject, and addMessageFlows forgets nothing).
IndexesAreFresh ==
  \A d \in Ids, k \in Indexes : index[d][k] # Null => index[d][k] = Build(d, k)

\* When a file is accepted, each message flow between the processes that take part in its
\* collaboration knows the process it leads to, and is found at its source, in whatever
\* order collaborations and processes come (definitions.js:34-43, process.js:306-328).
MessageFlowsLead ==
  phase = "ready" =>
    \A i \in DOMAIN topLevel : ~IsProcess(topLevel[i]) =>
      \A f \in collaborationFlows[topLevel[i].id], d \in Ids :
        PoolsOf(topLevel[i].id, d) # {} =>
          /\ f.target \in ElementIds(d) => targetProcess[f.id] = d
          /\ f.source \in ElementIds(d) => f \in messageFlows[d]

\* The gateways of accepted processes split or join, although that is not looked at when
\* the errors of elements before have been found (gateways.js:32-52).
GatewaysBranch ==
  phase = "ready" =>
    \A i \in DOMAIN topLevel : IsProcess(topLevel[i]) =>
      \A e \in Elements(topLevel[i].id) : e.kind \in Gateways => Branches(topLevel[i].id, e)

\* processDefinition.js:466 says what a definition is given: a debugger interface or none.
\* The engine asks it with every token (process.js:719-722, 752).
DebuggersAreDebuggers ==
  phase = "ready" => \A d \in Definitions : debuggerOf[d] \in {Null, debuggerInterface}
===============================================================================
