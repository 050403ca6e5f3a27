--------------------------------- MODULE Parser ---------------------------------
(****************************************************************************)
(* lib/parsing/parser.js: the tags of a BPMN file, one after the other,     *)
(* become definitions of processes and collaborations.  The variables are   *)
(* those of the whole of lib/parsing; ProcessDefinitions goes on from here. *)
(****************************************************************************)
EXTENDS Naturals, Sequences, FiniteSets, TLC

CONSTANTS
  Documents,  \* files: sequences of tags
  Ids,        \* BPMN ids of all tags
  Null,       \* null
  ErrorQueue  \* the errorQueue of the parser

\* A tag is [open, kind, id] and, by its kind: name; source and target (flows);
\* attachedTo (boundary events); location (call activities); executable (processes);
\* processRef (participants).
WaitTasks    == {"userTask", "receiveTask"}
Tasks        == WaitTasks \cup {"serviceTask"}
Events       == {"startEvent", "endEvent", "boundaryEvent", "intermediateEvent"}
Gateways     == {"exclusiveGateway", "parallelGateway"}
FlowObjects  == Tasks \cup Events \cup Gateways \cup {"callActivity"}
Marks        == {"timerEventDefinition", "messageEventDefinition"}
Indexes      == {"elements", "names", "boundaryEvents", "flowsBySource", "flowsByTarget",
                 "messagesBySource", "messagesByTarget"}

Opens(t, kinds) == t.open /\ t.kind \in kinds

\* What is found by its id, unlike participants, timers and messages.
Identified == FlowObjects \cup {"otherGateway", "subProcess", "sequenceFlow", "messageFlow", "process",
                                "collaboration"}

\* The tags of `kinds' that are open at place i of a file.
Containers == {"process", "subProcess"}
Around(file, i, kinds) ==
  {k \in 1 .. i - 1 : /\ Opens(file[k], kinds)
                      /\ \A c \in k .. i - 1 : file[c].open \/ file[c].id # file[k].id}

\* Files are valid BPMN: their ids are unique, and a participant is one of a process, not
\* of a sub-process.
ASSUME DocumentsAssumption ==
  /\ Null \notin Ids
  /\ \A file \in Documents :
       /\ file \in Seq({file[i] : i \in DOMAIN file})
       /\ \A i \in DOMAIN file : file[i].id \in Ids
       /\ \A i, k \in DOMAIN file :
            /\ Opens(file[i], Identified) /\ Opens(file[k], Identified) /\ i # k
                 => file[i].id # file[k].id
            /\ Opens(file[i], {"participant"}) /\ Opens(file[k], {"subProcess"})
                 => file[i].processRef # file[k].id

\* They are well-formed, and flow elements are in processes: a closing tag of a container
\* closes the last one that was opened, and no other tag does; a process or collaboration
\* is in none, and a timer or message is in an event or task, without others between.
ASSUME NestingAssumption ==
  \A file \in Documents : \A i \in DOMAIN file :
    LET open == Around(file, i, Containers) IN
    /\ Opens(file[i], {"process", "collaboration"}) => open = {}
    /\ Opens(file[i], FlowObjects \cup Marks \cup {"otherGateway", "subProcess", "sequenceFlow"})
         => open # {}
    /\ ~file[i].open =>
         /\ \A k \in open : file[k].id = file[i].id =>
              file[k].kind = file[i].kind /\ \A l \in open : l <= k
         /\ file[i].kind \in Containers => \E k \in open : file[k].id = file[i].id
    /\ Opens(file[i], Marks) =>
         \E k \in Around(file, i, Events \cup Tasks) : \A c \in k + 1 .. i - 1 : file[c].kind \in Marks

VARIABLES
  document,         \* the file that is read
  position,         \* of the next tag
  phase,            \* "parsing", "attaching", "ready", "refused"
  topLevel,         \* topLevelDefinitions: tags of collaborations and processes
  processStack,     \* definitions around the current one
  currentProcess,   \* currentProcessDefinition or Null
  currentCollaboration,
  currentElement,   \* currentProcessElement or Null
  flowObjects,      \* [Ids -> Seq(tags)], of a definition
  sequenceFlows,    \* [Ids -> Seq(tags)], of a definition
  participants,     \* [Ids -> Seq(tags)], of a collaboration
  collaborationFlows, \* [Ids -> SUBSET tags]: messageFlows of a collaboration
  marked,           \* pairs of a flow object's id and what it is marked as
  debuggerInterface, \* id of the file's debugger element or Null
  debuggerOf,       \* [Ids -> ...]: debuggerInterface of a definition
  parseErrors,      \* bpmnParseErrors: pairs of a code and an id
  attached,         \* how many of topLevel are validated and attached
  messageFlows,     \* [Ids -> SUBSET tags], of a definition
  partners,         \* [Ids -> SUBSET tags]: collaboratingParticipants of a definition
  sourceProcess,    \* [Ids -> Ids \cup {Null}]: sourceProcessDefinitionId of a message flow
  targetProcess,    \* [Ids -> Ids \cup {Null}]: targetProcessDefinitionId
  index             \* [Ids -> [Indexes -> tables]]: Null where none is built

debuggerVars   == <<debuggerInterface, debuggerOf>>
parserVars     == <<topLevel, processStack, currentProcess, currentCollaboration, currentElement>>
definitionVars == <<flowObjects, sequenceFlows, participants, collaborationFlows, marked>>
attachVars     == <<messageFlows, partners, sourceProcess, targetProcess>>
vars == <<document, position, phase, parserVars, definitionVars, debuggerVars, parseErrors,
          attached, attachVars, index>>

NoTables == [d \in Ids |-> [k \in Indexes |-> Null]]

Init ==
  /\ document \in Documents
  /\ position = 1
  /\ phase = "parsing"
  /\ topLevel = << >>
  /\ processStack = << >>
  /\ currentProcess = Null
  /\ currentCollaboration = Null
  /\ currentElement = Null
  /\ flowObjects = [d \in Ids |-> << >>]
  /\ sequenceFlows = [d \in Ids |-> << >>]
  /\ participants = [c \in Ids |-> << >>]
  /\ collaborationFlows = [c \in Ids |-> {}]
  /\ marked = {}
  /\ debuggerInterface = Null
  /\ debuggerOf = [d \in Ids |-> Null]
  /\ parseErrors = {}
  /\ attached = 0
  /\ messageFlows = [d \in Ids |-> {}]
  /\ partners = [d \in Ids |-> {}]
  /\ sourceProcess = [f \in Ids |-> Null]
  /\ targetProcess = [f \in Ids |-> Null]
  /\ index = NoTables

-----------------------------------------------------------------------------
(****************************************************************************)
(* parser.js: onopentag and onclosetag.                                     *)
(****************************************************************************)
tag == document[position]

Read(open, kinds) ==
  /\ phase = "parsing"
  /\ position <= Len(document)
  /\ tag.open = open
  /\ tag.kind \in kinds
  /\ position' = position + 1
  /\ UNCHANGED <<document, phase, attached, attachVars>>

Contain(contents, container) == [contents EXCEPT ![container] = Append(@, tag)]

\* The first debugger element counts for the processes after it.
OpenDebugger ==
  /\ Read(TRUE, {"debugger"})
  /\ debuggerInterface' = IF debuggerInterface = Null THEN tag.id ELSE debuggerInterface
  /\ UNCHANGED <<debuggerOf, parserVars, definitionVars, parseErrors, index>>

OpenCollaboration ==
  /\ Read(TRUE, {"collaboration"})
  /\ topLevel' = Append(topLevel, tag)
  /\ currentCollaboration' = tag.id
  /\ currentProcess' = Null
  /\ UNCHANGED <<debuggerVars, processStack, currentElement, definitionVars, parseErrors, index>>

OpenParticipant ==
  /\ Read(TRUE, {"participant"})
  /\ currentCollaboration # Null
  /\ participants' = Contain(participants, currentCollaboration)
  /\ UNCHANGED <<debuggerVars, parserVars, flowObjects, sequenceFlows, collaborationFlows, marked,
                 parseErrors, index>>

OpenMessageFlow ==
  /\ Read(TRUE, {"messageFlow"})
  /\ currentCollaboration # Null
  /\ collaborationFlows' = [collaborationFlows EXCEPT ![currentCollaboration] = @ \cup {tag}]
  /\ UNCHANGED <<debuggerVars, parserVars, flowObjects, sequenceFlows, participants, marked, parseErrors,
                 index>>

\* A process that is not executable is skipped, with all that is in it.
OpenProcess ==
  /\ Read(TRUE, {"process"})
  /\ IF tag.executable
     THEN /\ topLevel' = Append(topLevel, tag)
          /\ currentProcess' = tag.id
          /\ currentCollaboration' = Null
          /\ debuggerOf' = [debuggerOf EXCEPT ![tag.id] = debuggerInterface]
     ELSE currentProcess' = Null /\ UNCHANGED <<topLevel, currentCollaboration, debuggerOf>>
  /\ UNCHANGED <<debuggerInterface, processStack, currentElement, definitionVars, parseErrors, index>>

\* addFlowObject forgets the tables that it makes stale.
AddFlowObject ==
  /\ flowObjects' = Contain(flowObjects, currentProcess)
  /\ currentElement' = tag.id
  /\ index' = [index EXCEPT ![currentProcess]["elements"] = Null,
                            ![currentProcess]["names"] = Null,
                            ![currentProcess]["boundaryEvents"] = Null]

OpenFlowObject ==
  /\ Read(TRUE, FlowObjects)
  /\ currentProcess # Null
  /\ AddFlowObject
  /\ UNCHANGED <<debuggerVars, topLevel, processStack, currentProcess, currentCollaboration, sequenceFlows,
                 participants, collaborationFlows, marked, parseErrors>>

\* A gateway of a kind that is not supported is an error; null is added for it.
OpenOtherGateway ==
  /\ Read(TRUE, {"otherGateway"})
  /\ currentProcess # Null
  /\ parseErrors' = parseErrors \cup {<<"UnsupportedGateway", tag.id>>}
  /\ AddFlowObject
  /\ UNCHANGED <<debuggerVars, topLevel, processStack, currentProcess, currentCollaboration, sequenceFlows,
                 participants, collaborationFlows, marked>>

\* addSequenceFlow: flows are process elements, too, but only the tables of flows are
\* forgotten.
OpenSequenceFlow ==
  /\ Read(TRUE, {"sequenceFlow"})
  /\ currentProcess # Null
  /\ sequenceFlows' = Contain(sequenceFlows, currentProcess)
  /\ currentElement' = tag.id
  /\ index' = [index EXCEPT ![currentProcess]["flowsBySource"] = Null,
                            ![currentProcess]["flowsByTarget"] = Null]
  /\ UNCHANGED <<debuggerVars, topLevel, processStack, currentProcess, currentCollaboration, flowObjects,
                 participants, collaborationFlows, marked, parseErrors>>

\* A timer or a message makes the element before it one.
OpenMark ==
  /\ Read(TRUE, Marks)
  /\ currentProcess # Null
  /\ marked' = marked \cup {<<currentElement, tag.kind>>}
  /\ UNCHANGED <<debuggerVars, parserVars, flowObjects, sequenceFlows, participants, collaborationFlows,
                 parseErrors, index>>

\* Mutant of OpenSubProcess: only the last definition around is remembered.
OpenSubProcessForgetting ==
  /\ Read(TRUE, {"subProcess"})
  /\ currentProcess # Null
  /\ AddFlowObject
  /\ processStack' = <<currentProcess>>
  /\ currentProcess' = tag.id
  /\ debuggerOf' = [debuggerOf EXCEPT ![tag.id] = ErrorQueue]
  /\ UNCHANGED <<debuggerInterface, topLevel, currentCollaboration, sequenceFlows, participants,
                 collaborationFlows, marked, parseErrors>>

\* The definition of a sub-process is given the queue of errors for a debugger.
OpenSubProcess ==
  /\ Read(TRUE, {"subProcess"})
  /\ currentProcess # Null
  /\ AddFlowObject
  /\ processStack' = Append(processStack, currentProcess)
  /\ currentProcess' = tag.id
  /\ debuggerOf' = [debuggerOf EXCEPT ![tag.id] = ErrorQueue]
  /\ UNCHANGED <<debuggerInterface, topLevel, currentCollaboration, sequenceFlows, participants,
                 collaborationFlows, marked, parseErrors>>

CloseSubProcess ==
  /\ Read(FALSE, {"subProcess"})
  /\ IF processStack = << >>
     THEN UNCHANGED <<processStack, currentProcess>>
     ELSE /\ currentProcess' = processStack[Len(processStack)]
          /\ processStack' = SubSeq(processStack, 1, Len(processStack) - 1)
  /\ UNCHANGED <<debuggerVars, topLevel, currentCollaboration, currentElement, definitionVars, parseErrors,
                 index>>

\* What the parser does not look at: other closing tags, and what is in processes that
\* are not executable.
SkipTag ==
  /\ \/ Read(FALSE, {document[i].kind : i \in DOMAIN document} \ {"subProcess"})
     \/ /\ Read(TRUE, FlowObjects \cup Marks \cup {"sequenceFlow", "subProcess", "otherGateway"})
        /\ currentProcess = Null
  /\ UNCHANGED <<debuggerVars, parserVars, definitionVars, parseErrors, index>>

ParseTag ==
  \/ OpenCollaboration \/ OpenParticipant \/ OpenMessageFlow \/ OpenProcess
  \/ OpenFlowObject \/ OpenOtherGateway \/ OpenSequenceFlow \/ OpenMark
  \/ OpenSubProcess \/ CloseSubProcess \/ OpenDebugger \/ SkipTag

\* errorQueue.check()
ParsingEnds ==
  /\ phase = "parsing"
  /\ position > Len(document)
  /\ phase' = IF parseErrors = {} THEN "attaching" ELSE "refused"
  /\ UNCHANGED <<document, position, parserVars, definitionVars, debuggerVars, parseErrors,
                 attached, attachVars, index>>
===============================================================================
