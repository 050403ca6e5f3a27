----------------------- MODULE ProcessDefinitions_proofs -----------------------
(****************************************************************************)
(* For all files: no table of a definition is ever stale (addSequenceFlow   *)
(* may forget less than addFlowObject because nothing is looked up while a  *)
(* file is read, and addMessageFlows may forget nothing because nobody asks *)
(* for the tables of messages before all definitions have theirs); message  *)
(* flows of accepted files lead to their processes, and gateways branch;    *)
(* elements are in the definition that they are written in.                 *)
(****************************************************************************)
EXTENDS DefinitionProperties, WellFoundedInduction, TLAPS

MessageIndexes == {"messagesBySource", "messagesByTarget"}

\* The inductive invariant.
TablesInv ==
  /\ phase \in {"parsing", "attaching", "ready", "refused"}
  /\ DOMAIN index = Ids
  /\ \A d \in Ids : DOMAIN index[d] = Indexes
  /\ phase = "parsing" => \A d \in Ids, k \in Indexes : index[d][k] = Null
  /\ phase = "attaching" => \A d \in Ids, k \in MessageIndexes : index[d][k] = Null
  /\ IndexesAreFresh

LEMMA MessageIndexesAreIndexes == MessageIndexes \subseteq Indexes
  BY DEF MessageIndexes, Indexes

\* What the tables are built from.
LEMMA BuildDependsOn ==
  ASSUME UNCHANGED <<flowObjects, sequenceFlows>>, NEW d \in Ids, NEW k \in Indexes,
         k \notin MessageIndexes \/ UNCHANGED messageFlows
  PROVE  Build(d, k)' = Build(d, k)
<1>1. CASE k \in {"elements", "names", "boundaryEvents"}
  BY <1>1 DEF Build, ElementIds, Elements, Flows
<1>2. CASE k = "flowsBySource"
  BY <1>2 DEF Build
<1>3. CASE k = "flowsByTarget"
  BY <1>3 DEF Build
<1>4. CASE k \in MessageIndexes
  BY <1>4 DEF Build, MessageIndexes
<1>5. QED
  BY <1>1, <1>2, <1>3, <1>4 DEF Indexes, MessageIndexes

\* Reading a tag can only forget tables.
LEMMA ReadingStep ==
  ASSUME TablesInv, phase = "parsing", UNCHANGED phase,
         \/ UNCHANGED index
         \/ AddFlowObject
         \/ index' = [index EXCEPT ![currentProcess]["flowsBySource"] = Null,
                                   ![currentProcess]["flowsByTarget"] = Null]
  PROVE  TablesInv'
<1>1. /\ DOMAIN index' = Ids
      /\ \A d \in Ids : DOMAIN index'[d] = Indexes
      /\ \A d \in Ids, k \in Indexes : index'[d][k] = Null
  BY DEF TablesInv, AddFlowObject
<1>2. QED
  BY <1>1 DEF TablesInv, IndexesAreFresh

LEMMA ParseTagStep ==
  ASSUME TablesInv, ParseTag
  PROVE  TablesInv'
<1>1. phase = "parsing" /\ UNCHANGED phase
  BY DEF ParseTag, OpenCollaboration, OpenParticipant, OpenMessageFlow, OpenProcess,
         OpenFlowObject, OpenOtherGateway, OpenSequenceFlow, OpenMark, OpenSubProcess,
         CloseSubProcess, OpenDebugger, SkipTag, Read
<1>2. CASE OpenFlowObject \/ OpenOtherGateway \/ OpenSubProcess
  <2>1. AddFlowObject
    BY <1>2 DEF OpenFlowObject, OpenOtherGateway, OpenSubProcess
  <2>2. QED
    BY <1>1, <2>1, ReadingStep
<1>3. CASE OpenSequenceFlow
  BY <1>1, <1>3, ReadingStep DEF OpenSequenceFlow
<1>4. CASE OpenCollaboration \/ OpenParticipant \/ OpenMessageFlow \/ OpenProcess \/ OpenMark
             \/ CloseSubProcess \/ OpenDebugger \/ SkipTag
  <2>1. UNCHANGED index
    BY <1>4 DEF OpenCollaboration, OpenParticipant, OpenMessageFlow, OpenProcess, OpenMark,
                CloseSubProcess, OpenDebugger, SkipTag
  <2>2. QED
    BY <1>1, <2>1, ReadingStep
<1>5. QED
  BY <1>2, <1>3, <1>4 DEF ParseTag

\* A step that changes phases only.
LEMMA PhaseStep ==
  ASSUME TablesInv, UNCHANGED <<index, flowObjects, sequenceFlows, messageFlows>>,
         phase' \in {"parsing", "attaching", "ready", "refused"},
         phase' = "parsing" => phase = "parsing",
         phase' = "attaching" => phase \in {"parsing", "attaching"}
  PROVE  TablesInv'
<1>1. IndexesAreFresh'
  BY BuildDependsOn DEF TablesInv, IndexesAreFresh
<1>2. QED
  BY <1>1, MessageIndexesAreIndexes DEF TablesInv

LEMMA LookedUpIsFresh ==
  ASSUME TablesInv, UNCHANGED <<flowObjects, sequenceFlows>>, NEW d, NEW ks,
         index' = LookedUp(d, ks),
         UNCHANGED messageFlows \/ (ks \cap MessageIndexes = {} /\ phase = "attaching")
  PROVE  /\ DOMAIN index' = Ids
         /\ \A e \in Ids : DOMAIN index'[e] = Indexes
         /\ ks \cap MessageIndexes = {} =>
              \A e \in Ids, k \in MessageIndexes : index'[e][k] = index[e][k]
         /\ IndexesAreFresh'
<1>1. index' = [index EXCEPT ![d] = [k \in Indexes |->
                  IF k \in ks /\ index[d][k] = Null THEN Build(d, k) ELSE index[d][k]]]
  BY DEF LookedUp
<1>2. DOMAIN index' = Ids /\ \A e \in Ids : DOMAIN index'[e] = Indexes
  BY <1>1 DEF TablesInv
<1>3. ASSUME NEW e \in Ids, NEW k \in Indexes
      PROVE  \/ index'[e][k] = index[e][k]
             \/ e = d /\ k \in ks /\ index'[e][k] = Build(e, k)
  BY <1>1 DEF TablesInv
<1>4. ks \cap MessageIndexes = {} =>
        \A e \in Ids, k \in MessageIndexes : index'[e][k] = index[e][k]
  BY <1>3, MessageIndexesAreIndexes
<1>5. ASSUME NEW e \in Ids, NEW k \in Indexes, index'[e][k] # Null
      PROVE  index'[e][k] = Build(e, k)'
  <2>1. index'[e][k] = Build(e, k)
    BY <1>3, <1>5 DEF TablesInv, IndexesAreFresh
  <2>2. k \notin MessageIndexes \/ UNCHANGED messageFlows
    BY <1>4, <1>5 DEF TablesInv
  <2>3. QED
    BY <2>1, <2>2, BuildDependsOn
<1>6. QED
  BY <1>2, <1>4, <1>5 DEF IndexesAreFresh

LEMMA AttachStep ==
  ASSUME TablesInv, Attach
  PROVE  TablesInv'
<1>1. phase = "attaching" /\ UNCHANGED <<flowObjects, sequenceFlows>>
  BY DEF Attach, definitionVars
<1>2. CASE UNCHANGED <<attachVars, index>> /\ phase' \in {phase, "refused"}
  BY <1>1, <1>2, PhaseStep DEF attachVars
<1>3. ASSUME NEW d, AddMessageFlows(d), UNCHANGED phase
      PROVE  TablesInv'
  <2>1. index' = LookedUp(d, TablesUsed(d))
    BY <1>3 DEF AddMessageFlows
  <2>2. TablesUsed(d) \cap MessageIndexes = {}
    BY DEF TablesUsed, MessageIndexes
  <2>3. QED
    BY <1>1, <1>3, <2>1, <2>2, LookedUpIsFresh DEF TablesInv
<1>4. QED
  BY <1>2, <1>3 DEF Attach

LEMMA LookUpStep ==
  ASSUME TablesInv, NEW d, NEW ks, LookUp(d, ks)
  PROVE  TablesInv'
<1>1. /\ phase = "ready" /\ UNCHANGED phase
      /\ UNCHANGED <<flowObjects, sequenceFlows, messageFlows>>
      /\ index' = LookedUp(d, ks)
  BY DEF LookUp, definitionVars, attachVars
<1>2. QED
  BY <1>1, LookedUpIsFresh DEF TablesInv

LEMMA TablesInvHolds == Spec => []TablesInv
<1>1. Init => TablesInv
  BY DEF Init, NoTables, TablesInv, IndexesAreFresh, MessageIndexes, Indexes
<1>2. TablesInv /\ [Next]_vars => TablesInv'
  <2> SUFFICES ASSUME TablesInv, [Next]_vars PROVE TablesInv'
    OBVIOUS
  <2>1. CASE ParsingEnds \/ AttachingEnds
    BY <2>1, PhaseStep DEF ParsingEnds, AttachingEnds, definitionVars, attachVars
  <2>2. CASE UNCHANGED vars
    <3>1. UNCHANGED <<phase, index, flowObjects, sequenceFlows, messageFlows>>
      BY <2>2 DEF vars, definitionVars, attachVars
    <3>2. QED
      BY <3>1, PhaseStep DEF TablesInv
  <2>3. QED
    BY <2>1, <2>2, ParseTagStep, AttachStep, LookUpStep DEF Next
<1>3. QED
  BY <1>1, <1>2, PTL DEF Spec

\* A table that was built earlier says what one that is built now would
\* (processDefinition.js:270-295, 419-432, 456-462).
THEOREM TablesAreFresh == Spec => []IndexesAreFresh
<1>1. TablesInv => IndexesAreFresh
  BY DEF TablesInv
<1>2. QED
  BY <1>1, TablesInvHolds, PTL

-----------------------------------------------------------------------------
(****************************************************************************)
(* What is read.  A tag that is read is added to one definition at most, at *)
(* its end, and definitions only know tags before the position.             *)
(****************************************************************************)
Content == {document[i] : i \in DOMAIN document}

ParserInv ==
  /\ document \in Documents
  /\ position \in Nat \ {0}
  /\ topLevel \in Seq(Content)
  /\ currentProcess \in Ids \cup {Null}
  /\ currentCollaboration \in Ids \cup {Null}
  /\ processStack \in Seq(Ids)
  /\ flowObjects \in [Ids -> Seq(Content)]
  /\ sequenceFlows \in [Ids -> Seq(Content)]
  /\ participants \in [Ids -> Seq(Content)]
  /\ collaborationFlows \in [Ids -> SUBSET Content]

FlowObjectTags == FlowObjects \cup {"otherGateway", "subProcess"}

\* What reading a tag does, by its kind.
Reads ==
  /\ position \in DOMAIN document
  /\ position' = position + 1
  /\ UNCHANGED <<document, phase, attached, attachVars>>
  /\ \/ UNCHANGED topLevel
     \/ Opens(tag, {"process", "collaboration"}) /\ topLevel' = Append(topLevel, tag)
  /\ \/ UNCHANGED <<flowObjects, sequenceFlows>>
     \/ /\ Opens(tag, FlowObjectTags)
        /\ currentProcess # Null
        /\ flowObjects' = Contain(flowObjects, currentProcess)
        /\ UNCHANGED sequenceFlows
     \/ /\ Opens(tag, {"sequenceFlow"})
        /\ currentProcess # Null
        /\ sequenceFlows' = Contain(sequenceFlows, currentProcess)
        /\ UNCHANGED flowObjects
  /\ \/ UNCHANGED participants
     \/ /\ Opens(tag, {"participant"})
        /\ currentCollaboration # Null
        /\ participants' = Contain(participants, currentCollaboration)
  /\ \/ UNCHANGED collaborationFlows
     \/ /\ Opens(tag, {"messageFlow"})
        /\ currentCollaboration # Null
        /\ collaborationFlows' = [collaborationFlows EXCEPT ![currentCollaboration] = @ \cup {tag}]
  /\ \/ UNCHANGED currentCollaboration
     \/ currentCollaboration' \in {tag.id, Null}
  /\ \/ UNCHANGED processStack /\ currentProcess' \in {currentProcess, Null}
     \/ /\ Opens(tag, {"process"}) /\ topLevel' = Append(topLevel, tag)
        /\ UNCHANGED processStack /\ currentProcess' = tag.id
     \/ /\ Opens(tag, {"subProcess"}) /\ currentProcess # Null
        /\ processStack' = Append(processStack, currentProcess) /\ currentProcess' = tag.id
     \/ /\ processStack # << >>
        /\ processStack' = SubSeq(processStack, 1, Len(processStack) - 1)
        /\ currentProcess' = processStack[Len(processStack)]

LEMMA DocumentType ==
  ASSUME ParserInv
  PROVE  /\ document \in Seq(Content) /\ Len(document) \in Nat
         /\ DOMAIN document = 1 .. Len(document)
         /\ \A t \in Content : t.id \in Ids
<1>1. /\ document \in Seq({document[i] : i \in DOMAIN document})
      /\ \A i \in DOMAIN document : document[i].id \in Ids
  BY DocumentsAssumption DEF ParserInv
<1>2. document \in Seq(Content)
  BY <1>1 DEF Content
<1>3. Len(document) \in Nat /\ DOMAIN document = 1 .. Len(document)
  BY <1>2
<1>4. QED
  BY <1>1, <1>2, <1>3 DEF Content

LEMMA ReadFacts ==
  ASSUME ParserInv, NEW open, NEW kinds, Read(open, kinds)
  PROVE  /\ position \in DOMAIN document /\ position' = position + 1
         /\ UNCHANGED <<document, phase, attached, attachVars>>
         /\ open = TRUE => Opens(tag, kinds)
  BY DocumentType DEF Read, ParserInv, Opens

LEMMA ParseTagReads ==
  ASSUME ParserInv, ParseTag
  PROVE  Reads
<1> USE DEF parserVars, definitionVars
<1>1. CASE OpenCollaboration \/ OpenProcess
  BY <1>1, ReadFacts DEF OpenCollaboration, OpenProcess, Reads, Opens
<1>2. CASE OpenParticipant \/ OpenMessageFlow
  BY <1>2, ReadFacts DEF OpenParticipant, OpenMessageFlow, Reads, Opens
<1>3. CASE OpenFlowObject \/ OpenOtherGateway
  BY <1>3, ReadFacts DEF OpenFlowObject, OpenOtherGateway, AddFlowObject, Reads, Opens, FlowObjectTags
<1>4. CASE OpenSequenceFlow
  BY <1>4, ReadFacts DEF OpenSequenceFlow, Reads, Opens
<1>5. CASE OpenSubProcess
  BY <1>5, ReadFacts DEF OpenSubProcess, AddFlowObject, Reads, Opens, FlowObjectTags
<1>6. CASE CloseSubProcess
  BY <1>6, ReadFacts DEF CloseSubProcess, Reads
<1>7. CASE OpenMark \/ OpenDebugger
  BY <1>7, ReadFacts DEF OpenMark, OpenDebugger, Reads
<1>8. CASE SkipTag
  BY <1>8, ReadFacts DEF SkipTag, Reads
<1>9. QED
  BY <1>1, <1>2, <1>3, <1>4, <1>5, <1>6, <1>7, <1>8 DEF ParseTag

LEMMA ContainType ==
  ASSUME NEW T, NEW f \in [Ids -> Seq(T)], NEW d \in Ids, tag \in T
  PROVE  /\ Contain(f, d) \in [Ids -> Seq(T)]
         /\ Contain(f, d)[d] = Append(f[d], tag)
         /\ \A e \in Ids : e # d => Contain(f, d)[e] = f[e]
  BY DEF Contain

LEMMA ParserInvReads ==
  ASSUME ParserInv, Reads
  PROVE  ParserInv'
<1>1. position \in DOMAIN document /\ UNCHANGED document /\ position' = position + 1
  BY DEF Reads
<1>2. tag \in Content
  BY <1>1 DEF Content, tag
<1>3. tag.id \in Ids
  BY <1>2, DocumentType
<1>4. Content' = Content
  BY <1>1 DEF Content
<1> HIDE DEF Content
<1>5. topLevel' \in Seq(Content)
  <2>1. topLevel' = topLevel \/ topLevel' = Append(topLevel, tag)
    BY DEF Reads
  <2>2. topLevel \in Seq(Content)
    BY DEF ParserInv
  <2>3. Append(topLevel, tag) \in Seq(Content)
    BY <1>2, <2>2
  <2>4. QED
    BY <2>1, <2>2, <2>3
<1>6. flowObjects' \in [Ids -> Seq(Content)] /\ sequenceFlows' \in [Ids -> Seq(Content)]
  <2>1. currentProcess # Null => currentProcess \in Ids
    BY DEF ParserInv
  <2>2. flowObjects' = flowObjects \/ (currentProcess # Null /\ flowObjects' = Contain(flowObjects, currentProcess))
    BY DEF Reads
  <2>3. \/ sequenceFlows' = sequenceFlows
        \/ currentProcess # Null /\ sequenceFlows' = Contain(sequenceFlows, currentProcess)
    BY DEF Reads
  <2>4. flowObjects \in [Ids -> Seq(Content)] /\ sequenceFlows \in [Ids -> Seq(Content)]
    BY DEF ParserInv
  <2>5. ASSUME currentProcess # Null
        PROVE  /\ Contain(flowObjects, currentProcess) \in [Ids -> Seq(Content)]
               /\ Contain(sequenceFlows, currentProcess) \in [Ids -> Seq(Content)]
    BY <1>2, <2>1, <2>4, <2>5, ContainType
  <2>6. QED
    BY <2>2, <2>3, <2>4, <2>5
<1>7. participants' \in [Ids -> Seq(Content)]
  <2>1. currentCollaboration # Null => currentCollaboration \in Ids
    BY DEF ParserInv
  <2>2. \/ participants' = participants
        \/ currentCollaboration # Null /\ participants' = Contain(participants, currentCollaboration)
    BY DEF Reads
  <2>3. participants \in [Ids -> Seq(Content)]
    BY DEF ParserInv
  <2>4. ASSUME currentCollaboration # Null
        PROVE  Contain(participants, currentCollaboration) \in [Ids -> Seq(Content)]
    BY <1>2, <2>1, <2>3, <2>4, ContainType
  <2>5. QED
    BY <2>2, <2>3, <2>4
<1>8. collaborationFlows' \in [Ids -> SUBSET Content]
  <2>1. \/ collaborationFlows' = collaborationFlows
        \/ collaborationFlows' = [collaborationFlows EXCEPT ![currentCollaboration] = @ \cup {tag}]
    BY DEF Reads
  <2>2. QED
    BY <1>2, <2>1 DEF ParserInv
<1>9. currentProcess' \in Ids \cup {Null} /\ processStack' \in Seq(Ids)
  <2>1. processStack \in Seq(Ids) /\ currentProcess \in Ids \cup {Null}
    BY DEF ParserInv
  <2>2. ASSUME processStack # << >>
        PROVE  /\ SubSeq(processStack, 1, Len(processStack) - 1) \in Seq(Ids)
               /\ processStack[Len(processStack)] \in Ids
    BY <2>1, <2>2
  <2>3. currentProcess # Null => Append(processStack, currentProcess) \in Seq(Ids)
    BY <2>1
  <2>4. QED
    BY <1>3, <2>1, <2>2, <2>3 DEF Reads
<1>10. currentCollaboration' \in Ids \cup {Null}
  BY <1>3 DEF Reads, ParserInv
<1>11. document' \in Documents /\ position' \in Nat \ {0}
  BY <1>1 DEF ParserInv
<1>12. QED
  BY <1>4, <1>5, <1>6, <1>7, <1>8, <1>9, <1>10, <1>11 DEF ParserInv

LEMMA ParserInvParseTag ==
  ASSUME ParserInv, ParseTag
  PROVE  ParserInv' /\ Reads
  BY ParseTagReads, ParserInvReads

\* The other steps leave what was read.
LEMMA ParserInvStays ==
  ASSUME ParserInv, UNCHANGED <<document, position, parserVars, definitionVars>>
  PROVE  ParserInv'
<1>1. Content' = Content
  BY DEF Content
<1>2. QED
  BY <1>1 DEF ParserInv, parserVars, definitionVars

-----------------------------------------------------------------------------
(****************************************************************************)
(* No two definitions have an element in common, and a definition with      *)
(* elements is one that was opened.                                         *)
(****************************************************************************)
ElementTags == FlowObjectTags \cup {"sequenceFlow"}

Before(kinds) == {document[i] : i \in {k \in 1 .. position - 1 : Opens(document[k], kinds)}}

Processes == {topLevel[i].id : i \in {k \in DOMAIN topLevel : IsProcess(topLevel[k])}}
Known     == Processes \cup {t.id : t \in Before({"subProcess"})}

FileInv ==
  /\ position \in 1 .. Len(document) + 1
  /\ \A d \in Ids : Elements(d) \cup Flows(d) \subseteq Before(ElementTags)
  /\ \A c \in Ids : collaborationFlows[c] \subseteq Before({"messageFlow"})
  /\ \A c \in Ids : \A i \in DOMAIN participants[c] : participants[c][i] \in Before({"participant"})
  /\ \A d, e \in Ids : d # e => ElementIds(d) \cap ElementIds(e) = {}
  /\ \A d \in Ids : ElementIds(d) # {} => d \in Known
  /\ currentProcess \in Known \cup {Null}
  /\ \A i \in DOMAIN processStack : processStack[i] \in Known

LEMMA BeforeGrows ==
  ASSUME ParserInv, Reads, NEW kinds
  PROVE  /\ Before(kinds) \subseteq Before(kinds)'
         /\ Opens(tag, kinds) => tag \in Before(kinds)'
<1>1. position \in Nat /\ position' = position + 1 /\ document' = document
  BY DEF ParserInv, Reads
<1>2. position \in 1 .. position' - 1 /\ 1 .. position - 1 \subseteq 1 .. position' - 1
  BY <1>1 DEF ParserInv
<1>3. Before(kinds)' = {document[i] : i \in {k \in 1 .. position' - 1 : Opens(document[k], kinds)}}
  BY <1>1 DEF Before, Opens
<1>4. QED
  BY <1>2, <1>3 DEF Before, tag

\* A tag that was read before has another id.
LEMMA TagIsNew ==
  ASSUME ParserInv, FileInv, Reads, Opens(tag, Identified), NEW t \in Before(Identified)
  PROVE  t.id # tag.id
<1>1. PICK i \in 1 .. position - 1 : t = document[i] /\ Opens(document[i], Identified)
  BY DEF Before
<1>2. position \in DOMAIN document /\ tag = document[position] /\ document \in Documents
  BY DEF Reads, tag, ParserInv
<1>3. i \in DOMAIN document /\ i # position
  <2>1. DOMAIN document = 1 .. Len(document) /\ Len(document) \in Nat
    BY DocumentType
  <2>2. QED
    BY <1>2, <2>1
<1>4. QED
  BY <1>1, <1>2, <1>3, DocumentsAssumption DEF DocumentsAssumption

LEMMA RangeOfAppend ==
  ASSUME NEW T, NEW s \in Seq(T), NEW t \in T
  PROVE  /\ \A i \in DOMAIN s : i \in DOMAIN Append(s, t) /\ Append(s, t)[i] = s[i]
         /\ \A i \in DOMAIN Append(s, t) : i \in DOMAIN s \/ Append(s, t)[i] = t
         /\ {Append(s, t)[i] : i \in DOMAIN Append(s, t)} = {s[i] : i \in DOMAIN s} \cup {t}
<1>1. /\ DOMAIN s = 1 .. Len(s) /\ DOMAIN Append(s, t) = 1 .. Len(s) + 1 /\ Len(s) \in Nat
      /\ Append(s, t)[Len(s) + 1] = t
      /\ \A i \in 1 .. Len(s) : Append(s, t)[i] = s[i]
  OBVIOUS
<1>2. Len(s) + 1 \in DOMAIN Append(s, t)
  BY <1>1
<1>3. \A i \in DOMAIN s : i \in DOMAIN Append(s, t) /\ Append(s, t)[i] = s[i]
  BY <1>1
<1>4. \A i \in DOMAIN Append(s, t) : i \in DOMAIN s \/ Append(s, t)[i] = t
  BY <1>1
<1>5. QED
  BY <1>1, <1>2, <1>3, <1>4

LEMMA TagIsContent ==
  ASSUME ParserInv, Reads
  PROVE  tag \in Content /\ tag.id \in Ids
  BY DocumentType DEF Reads, Content, tag

\* The elements that a definition gets.
LEMMA ElementsGrow ==
  ASSUME ParserInv, Reads, NEW d \in Ids
  PROVE  \/ Elements(d)' \cup Flows(d)' = Elements(d) \cup Flows(d)
         \/ /\ d = currentProcess /\ Opens(tag, ElementTags)
            /\ Elements(d)' \cup Flows(d)' = Elements(d) \cup Flows(d) \cup {tag}
<1>1. tag \in Content
  BY TagIsContent
<1> HIDE DEF Content
<1>2. flowObjects \in [Ids -> Seq(Content)] /\ sequenceFlows \in [Ids -> Seq(Content)]
  BY DEF ParserInv
<1>3. CASE flowObjects'[d] = flowObjects[d] /\ sequenceFlows'[d] = sequenceFlows[d]
  BY <1>3 DEF Elements, Flows
<1>4. ASSUME d = currentProcess, Opens(tag, FlowObjectTags),
             flowObjects' = Contain(flowObjects, currentProcess), UNCHANGED sequenceFlows
      PROVE  /\ Opens(tag, ElementTags)
             /\ Elements(d)' \cup Flows(d)' = Elements(d) \cup Flows(d) \cup {tag}
  <2>1. flowObjects'[d] = Append(flowObjects[d], tag)
    BY <1>1, <1>2, <1>4 DEF Contain
  <2>2. flowObjects[d] \in Seq(Content)
    BY <1>2
  <2>3. Elements(d)' = Elements(d) \cup {tag}
    BY <1>1, <2>1, <2>2, RangeOfAppend DEF Elements
  <2>4. QED
    BY <1>4, <2>3 DEF Flows, Opens, ElementTags
<1>5. ASSUME d = currentProcess, Opens(tag, {"sequenceFlow"}),
             sequenceFlows' = Contain(sequenceFlows, currentProcess), UNCHANGED flowObjects
      PROVE  /\ Opens(tag, ElementTags)
             /\ Elements(d)' \cup Flows(d)' = Elements(d) \cup Flows(d) \cup {tag}
  <2>1. sequenceFlows'[d] = Append(sequenceFlows[d], tag)
    BY <1>1, <1>2, <1>5 DEF Contain
  <2>2. sequenceFlows[d] \in Seq(Content)
    BY <1>2
  <2>3. Flows(d)' = Flows(d) \cup {tag}
    BY <1>1, <2>1, <2>2, RangeOfAppend DEF Flows
  <2>4. QED
    BY <1>5, <2>3 DEF Elements, Opens, ElementTags
<1>6. ASSUME d # currentProcess, currentProcess \in Ids
      PROVE  /\ Contain(flowObjects, currentProcess)[d] = flowObjects[d]
             /\ Contain(sequenceFlows, currentProcess)[d] = sequenceFlows[d]
  BY <1>2, <1>6 DEF Contain
<1>7. currentProcess \in Ids \cup {Null}
  BY DEF ParserInv
<1>8. \/ UNCHANGED <<flowObjects, sequenceFlows>>
      \/ /\ Opens(tag, FlowObjectTags) /\ currentProcess # Null
         /\ flowObjects' = Contain(flowObjects, currentProcess) /\ UNCHANGED sequenceFlows
      \/ /\ Opens(tag, {"sequenceFlow"}) /\ currentProcess # Null
         /\ sequenceFlows' = Contain(sequenceFlows, currentProcess) /\ UNCHANGED flowObjects
  BY DEF Reads
<1>9. QED
  BY <1>3, <1>4, <1>5, <1>6, <1>7, <1>8

LEMMA KnownGrows ==
  ASSUME ParserInv, Reads
  PROVE  /\ Known \subseteq Known'
         /\ Opens(tag, {"process"}) /\ topLevel' = Append(topLevel, tag) => tag.id \in Known'
         /\ Opens(tag, {"subProcess"}) => tag.id \in Known'
<1>1. /\ Before({"subProcess"}) \subseteq Before({"subProcess"})'
      /\ Opens(tag, {"subProcess"}) => tag \in Before({"subProcess"})'
  BY BeforeGrows
<1>2. tag \in Content
  BY TagIsContent
<1> HIDE DEF Content
<1>3. topLevel \in Seq(Content)
  BY DEF ParserInv
<1>4. topLevel' = topLevel \/ topLevel' = Append(topLevel, tag)
  BY DEF Reads
<1>5. \A i \in DOMAIN topLevel : i \in DOMAIN topLevel' /\ topLevel'[i] = topLevel[i]
  BY <1>2, <1>3, <1>4, RangeOfAppend
<1>6. Processes \subseteq Processes'
  BY <1>5 DEF Processes, IsProcess
<1>7. ASSUME Opens(tag, {"process"}), topLevel' = Append(topLevel, tag)
      PROVE  tag.id \in Processes'
  <2>1. Len(topLevel) + 1 \in DOMAIN topLevel' /\ topLevel'[Len(topLevel) + 1] = tag
    BY <1>2, <1>3, <1>7
  <2>2. QED
    BY <1>7, <2>1 DEF Processes, IsProcess, Opens
<1>8. QED
  BY <1>1, <1>6, <1>7 DEF Known

LEMMA TagsAreIdentified ==
  /\ ElementTags \subseteq Identified
  /\ Before(ElementTags) \subseteq Before(Identified)
  /\ Before({"messageFlow"}) \subseteq Before(Identified)
<1>1. ElementTags \subseteq Identified /\ {"messageFlow"} \subseteq Identified
  BY DEF ElementTags, FlowObjectTags, Identified
<1>2. QED
  BY <1>1 DEF Before, Opens

\* The ids of a definition are those it had and the one of a tag that is added to it.
LEMMA ElementIdsGrow ==
  ASSUME ParserInv, FileInv, Reads, NEW d \in Ids
  PROVE  \/ ElementIds(d)' = ElementIds(d)
         \/ /\ d = currentProcess /\ d \in Known
            /\ ElementIds(d)' = ElementIds(d) \cup {tag.id}
            /\ \A e \in Ids : tag.id \notin ElementIds(e)
<1>1. CASE Elements(d)' \cup Flows(d)' = Elements(d) \cup Flows(d)
  BY <1>1 DEF ElementIds
<1>2. CASE /\ d = currentProcess /\ Opens(tag, ElementTags)
           /\ Elements(d)' \cup Flows(d)' = Elements(d) \cup Flows(d) \cup {tag}
  <2>1. d # Null
    BY DocumentsAssumption DEF DocumentsAssumption
  <2>2. d \in Known
    BY <1>2, <2>1 DEF FileInv
  <2>3. ElementIds(d)' = ElementIds(d) \cup {tag.id}
    BY <1>2 DEF ElementIds, tag
  <2>4. Opens(tag, Identified)
    BY <1>2, TagsAreIdentified DEF Opens
  <2>5. \A e \in Ids : \A t \in Elements(e) \cup Flows(e) : t.id # tag.id
    BY <2>4, TagIsNew, TagsAreIdentified DEF FileInv
  <2>6. \A e \in Ids : tag.id \notin ElementIds(e)
    BY <2>5 DEF ElementIds
  <2>7. QED
    BY <1>2, <2>2, <2>3, <2>6
<1>3. QED
  BY <1>1, <1>2, ElementsGrow

LEMMA FileInvReads ==
  ASSUME ParserInv, FileInv, Reads
  PROVE  FileInv'
<1>1. position' \in 1 .. Len(document') + 1
  BY DocumentType DEF Reads, ParserInv
<1>2. ASSUME NEW d \in Ids
      PROVE  (Elements(d) \cup Flows(d) \subseteq Before(ElementTags))'
  <2>1. Elements(d) \cup Flows(d) \subseteq Before(ElementTags)
    BY DEF FileInv
  <2>2. /\ Before(ElementTags) \subseteq Before(ElementTags)'
        /\ Opens(tag, ElementTags) => tag \in Before(ElementTags)'
    BY BeforeGrows
  <2>3. QED
    BY <2>1, <2>2, ElementsGrow
<1>3. ASSUME NEW c \in Ids
      PROVE  (collaborationFlows[c] \subseteq Before({"messageFlow"}))'
  <2>1. /\ Before({"messageFlow"}) \subseteq Before({"messageFlow"})'
        /\ Opens(tag, {"messageFlow"}) => tag \in Before({"messageFlow"})'
    BY BeforeGrows
  <2>2. collaborationFlows[c] \subseteq Before({"messageFlow"})
    BY DEF FileInv
  <2>3. DOMAIN collaborationFlows = Ids
    BY DEF ParserInv
  <2>4. \/ collaborationFlows'[c] = collaborationFlows[c]
        \/ /\ Opens(tag, {"messageFlow"})
           /\ collaborationFlows'[c] \subseteq collaborationFlows[c] \cup {tag}
    BY <2>3 DEF Reads
  <2>5. QED
    BY <2>1, <2>2, <2>4
<1>4. ASSUME NEW c \in Ids
      PROVE  (\A i \in DOMAIN participants[c] : participants[c][i] \in Before({"participant"}))'
  <2>1. /\ Before({"participant"}) \subseteq Before({"participant"})'
        /\ Opens(tag, {"participant"}) => tag \in Before({"participant"})'
    BY BeforeGrows
  <2>2. \A i \in DOMAIN participants[c] : participants[c][i] \in Before({"participant"})
    BY DEF FileInv
  <2>3. tag \in Content
    BY TagIsContent
  <2> HIDE DEF Content
  <2>4. participants \in [Ids -> Seq(Content)]
    BY DEF ParserInv
  <2>5. \/ participants'[c] = participants[c]
        \/ Opens(tag, {"participant"}) /\ participants'[c] = Append(participants[c], tag)
    BY <2>4 DEF Reads, Contain
  <2>6. participants[c] \in Seq(Content)
    BY <2>4
  <2>7. CASE participants'[c] = participants[c]
    BY <2>1, <2>2, <2>7
  <2>8. CASE Opens(tag, {"participant"}) /\ participants'[c] = Append(participants[c], tag)
    BY <2>1, <2>2, <2>3, <2>6, <2>8, RangeOfAppend
  <2>9. QED
    BY <2>5, <2>7, <2>8
<1>5. ASSUME NEW d \in Ids, NEW e \in Ids, d # e
      PROVE  (ElementIds(d) \cap ElementIds(e) = {})'
  <2>1. ElementIds(d) \cap ElementIds(e) = {}
    BY <1>5 DEF FileInv
  <2>2. QED
    BY <1>5, <2>1, ElementIdsGrow
<1>6. Known \subseteq Known'
  BY KnownGrows
<1>7. ASSUME NEW d \in Ids, ElementIds(d)' # {}
      PROVE  d \in Known'
  <2>1. ElementIds(d) # {} => d \in Known
    BY DEF FileInv
  <2>2. QED
    BY <1>6, <1>7, <2>1, ElementIdsGrow
<1>8. currentProcess' \in Known' \cup {Null} /\ \A i \in DOMAIN processStack' : processStack'[i] \in Known'
  <2>1. currentProcess \in Known \cup {Null} /\ \A i \in DOMAIN processStack : processStack[i] \in Known
    BY DEF FileInv
  <2>2. processStack \in Seq(Ids) /\ currentProcess \in Ids \cup {Null}
    BY DEF ParserInv
  <2>3. CASE UNCHANGED processStack /\ currentProcess' \in {currentProcess, Null}
    BY <1>6, <2>1, <2>3
  <2>4. CASE /\ Opens(tag, {"process"}) /\ topLevel' = Append(topLevel, tag)
             /\ UNCHANGED processStack /\ currentProcess' = tag.id
    BY <1>6, <2>1, <2>4, KnownGrows
  <2>5. CASE /\ Opens(tag, {"subProcess"}) /\ currentProcess # Null
             /\ processStack' = Append(processStack, currentProcess) /\ currentProcess' = tag.id
    <3>1. tag.id \in Known'
      BY <2>5, KnownGrows
    <3>2. \A i \in DOMAIN processStack' :
             \/ i \in DOMAIN processStack /\ processStack'[i] = processStack[i]
             \/ processStack'[i] = currentProcess
      BY <2>2, <2>5, RangeOfAppend
    <3>3. QED
      BY <1>6, <2>1, <2>5, <3>1, <3>2
  <2>6. CASE /\ processStack # << >>
             /\ processStack' = SubSeq(processStack, 1, Len(processStack) - 1)
             /\ currentProcess' = processStack[Len(processStack)]
    <3>1. /\ Len(processStack) \in DOMAIN processStack
          /\ \A i \in DOMAIN processStack' :
               i \in DOMAIN processStack /\ processStack'[i] = processStack[i]
      BY <2>2, <2>6
    <3>2. QED
      BY <1>6, <2>1, <2>6, <3>1
  <2>7. QED
    BY <2>3, <2>4, <2>5, <2>6 DEF Reads
<1>9. QED
  BY <1>1, <1>2, <1>3, <1>4, <1>5, <1>7, <1>8 DEF FileInv

LEMMA FileInvStays ==
  ASSUME FileInv, UNCHANGED <<document, position, parserVars, definitionVars>>
  PROVE  FileInv'
<1>1. UNCHANGED <<topLevel, currentProcess, processStack, flowObjects, sequenceFlows, participants,
                  collaborationFlows>>
  BY DEF parserVars, definitionVars
<1>2. \A kinds : Before(kinds)' = Before(kinds)
  BY DEF Before, Opens
<1>3. Known' = Known
  BY <1>1, <1>2 DEF Known, Processes
<1>4. \A d : /\ Elements(d)' = Elements(d) /\ Flows(d)' = Flows(d)
             /\ ElementIds(d)' = ElementIds(d)
  BY <1>1 DEF ElementIds, Elements, Flows
<1>5. QED
  BY <1>1, <1>2, <1>3, <1>4 DEF FileInv

-----------------------------------------------------------------------------
(****************************************************************************)
(* What was attached stays: a message flow ends in one definition only, and *)
(* its id is no other's.                                                    *)
(****************************************************************************)
Joined(d) ==
  /\ ValidationErrors(d) = {}
  /\ \A f \in FlowsAround(d) :
       /\ f.target \in ElementIds(d) => targetProcess[f.id] = d
       /\ f.source \in ElementIds(d) => f \in messageFlows[d]

AttachedInv ==
  /\ attached \in 0 .. Len(topLevel)
  /\ DOMAIN messageFlows = Ids
  /\ phase = "parsing" => attached = 0
  /\ phase = "ready" => attached = Len(topLevel)
  /\ phase \in {"parsing", "attaching", "ready"} =>
       \A i \in 1 .. attached : IsProcess(topLevel[i]) => Joined(topLevel[i].id)

LEMMA FileStays ==
  ASSUME UNCHANGED <<topLevel, definitionVars>>, NEW d
  PROVE  /\ ElementIds(d)' = ElementIds(d)
         /\ FlowsAround(d)' = FlowsAround(d)
         /\ ValidationErrors(d)' = ValidationErrors(d)
<1>1. UNCHANGED <<topLevel, flowObjects, sequenceFlows, participants, collaborationFlows>>
  BY DEF definitionVars
<1>2. Elements(d)' = Elements(d) /\ Flows(d)' = Flows(d)
  BY <1>1 DEF Elements, Flows
<1>3. \A e : In(d, e)' = In(d, e) /\ Out(d, e)' = Out(d, e)
  BY <1>2 DEF In, Out
<1>4. \A e : PlainErrors(d, e)' = PlainErrors(d, e)
  <2> TAKE e
  <2>1. In(d, e)' = In(d, e) /\ Out(d, e)' = Out(d, e)
    BY <1>3
  <2>2. QED
    BY <2>1, Zenon DEF PlainErrors
<1>5. \A e : Branches(d, e)' <=> Branches(d, e)
  BY <1>3 DEF Branches
<1>6. GatewayErrors(d)' = GatewayErrors(d)
  BY <1>1, <1>4, <1>5 DEF GatewayErrors
<1>7. CollaborationsOf(d)' = CollaborationsOf(d)
  BY <1>1 DEF CollaborationsOf, PoolsOf, IsProcess
<1>8. QED
  BY <1>1, <1>2, <1>4, <1>6, <1>7 DEF ElementIds, FlowsAround, ValidationErrors

LEMMA OneTagOfAnId ==
  ASSUME ParserInv, FileInv, NEW f \in Before(Identified), NEW g \in Before(Identified), f.id = g.id
  PROVE  f = g
<1>1. PICK i \in 1 .. position - 1 : f = document[i] /\ Opens(document[i], Identified)
  BY DEF Before
<1>2. PICK k \in 1 .. position - 1 : g = document[k] /\ Opens(document[k], Identified)
  BY DEF Before
<1>3. document \in Documents /\ i \in DOMAIN document /\ k \in DOMAIN document
  <2>1. DOMAIN document = 1 .. Len(document) /\ Len(document) \in Nat
    BY DocumentType
  <2>2. position \in 1 .. Len(document) + 1 /\ document \in Documents
    BY DEF FileInv, ParserInv
  <2>3. QED
    BY <2>1, <2>2
<1>4. QED
  BY <1>1, <1>2, <1>3, DocumentsAssumption DEF DocumentsAssumption

LEMMA FlowsAroundAreTags ==
  ASSUME ParserInv, FileInv, NEW d
  PROVE  /\ FlowsAround(d) \subseteq Before(Identified)
         /\ \A f \in FlowsAround(d) : f.id \in Ids
<1>1. \A i \in DOMAIN topLevel : topLevel[i].id \in Ids
  <2>1. topLevel \in Seq(Content) /\ \A t \in Content : t.id \in Ids
    BY DocumentType DEF ParserInv
  <2> HIDE DEF Content
  <2>2. QED
    BY <2>1
<1>2. \A c \in Ids : collaborationFlows[c] \subseteq Before({"messageFlow"}) /\ collaborationFlows[c] \subseteq Content
  BY DEF FileInv, ParserInv
<1>3. FlowsAround(d) \subseteq Before(Identified) /\ FlowsAround(d) \subseteq Content
  BY <1>1, <1>2, TagsAreIdentified DEF FlowsAround, CollaborationsOf
<1>4. QED
  BY <1>3, DocumentType

LEMMA AddMessageFlowsJoins ==
  ASSUME ParserInv, FileInv, DOMAIN messageFlows = Ids, NEW d \in Ids, AddMessageFlows(d),
         UNCHANGED <<topLevel, definitionVars>>, ValidationErrors(d) = {}
  PROVE  /\ DOMAIN messageFlows' = Ids
         /\ Joined(d)'
         /\ \A e \in Ids : Joined(e) => Joined(e)'
<1> DEFINE in  == {f \in FlowsAround(d) : f.target \in ElementIds(d)}
           out == {f \in FlowsAround(d) : f.source \in ElementIds(d)} \ in
<1>1. /\ messageFlows' = [messageFlows EXCEPT ![d] = @ \cup in \cup out]
      /\ targetProcess' = [f \in Ids |-> IF \E g \in in : g.id = f THEN d ELSE targetProcess[f]]
  BY DEF AddMessageFlows, GetMessageFlows
<1>2. /\ DOMAIN messageFlows' = Ids
      /\ messageFlows'[d] = messageFlows[d] \cup in \cup out
      /\ \A e \in Ids : messageFlows[e] \subseteq messageFlows'[e]
  <2> HIDE DEF in, out
  <2>1. QED
    BY <1>1
<1>3. \A f \in FlowsAround(d) : /\ f.target \in ElementIds(d) => targetProcess'[f.id] = d
                                /\ f.source \in ElementIds(d) => f \in messageFlows'[d]
  <2>1. ASSUME NEW f \in FlowsAround(d), f.target \in ElementIds(d)
        PROVE  targetProcess'[f.id] = d
    <3>1. f \in in /\ f.id \in Ids
      BY <2>1, FlowsAroundAreTags
    <3> HIDE DEF in
    <3>2. QED
      BY <1>1, <3>1
  <2>2. ASSUME NEW f \in FlowsAround(d), f.source \in ElementIds(d)
        PROVE  f \in messageFlows'[d]
    BY <1>2, <2>2
  <2>3. QED
    BY <2>1, <2>2
<1>4. Joined(d)'
  BY <1>3, FileStays DEF Joined
<1>5. ASSUME NEW e \in Ids, Joined(e)
      PROVE  Joined(e)'
  <2>1. ASSUME NEW f \in FlowsAround(e), f.target \in ElementIds(e)
        PROVE  targetProcess'[f.id] = e
    <3>1. targetProcess[f.id] = e /\ f.id \in Ids /\ f \in Before(Identified)
      BY <1>5, <2>1, FlowsAroundAreTags DEF Joined
    <3>2. ASSUME NEW g \in in, g.id = f.id
          PROVE  d = e
      <4>1. g = f
        BY <3>1, <3>2, OneTagOfAnId, FlowsAroundAreTags
      <4>2. f.target \in ElementIds(d)
        BY <3>2, <4>1
      <4>3. QED
        BY <2>1, <4>2 DEF FileInv
    <3> HIDE DEF in
    <3>3. QED
      BY <1>1, <3>1, <3>2
  <2>2. ASSUME NEW f \in FlowsAround(e), f.source \in ElementIds(e)
        PROVE  f \in messageFlows'[e]
    BY <1>2, <1>5, <2>2 DEF Joined
  <2>3. ValidationErrors(e) = {}
    BY <1>5 DEF Joined
  <2>4. QED
    BY <2>1, <2>2, <2>3, FileStays DEF Joined
<1>6. QED
  BY <1>2, <1>4, <1>5

LEMMA AttachJoins ==
  ASSUME ParserInv, FileInv, AttachedInv, Attach
  PROVE  AttachedInv'
<1> DEFINE t == topLevel[attached + 1]
<1>1. /\ phase = "attaching" /\ attached \in 0 .. Len(topLevel) /\ attached < Len(topLevel)
      /\ attached' = attached + 1
      /\ UNCHANGED <<document, position, parserVars, definitionVars>>
      /\ topLevel' = topLevel /\ Len(topLevel) \in Nat
      /\ DOMAIN messageFlows = Ids
  BY DEF Attach, parserVars, AttachedInv, ParserInv
<1>2. t.id \in Ids
  <2>1. topLevel \in Seq(Content) /\ \A u \in Content : u.id \in Ids
    BY DocumentType DEF ParserInv
  <2> HIDE DEF Content
  <2>2. attached + 1 \in DOMAIN topLevel
    BY <1>1, <2>1
  <2>3. QED
    BY <2>1, <2>2
<1>3. \A i \in 1 .. attached : IsProcess(topLevel[i]) => Joined(topLevel[i].id)
  BY <1>1 DEF AttachedInv
<1>4. \A i \in 1 .. attached : topLevel[i].id \in Ids
  <2>1. topLevel \in Seq(Content) /\ \A u \in Content : u.id \in Ids
    BY DocumentType DEF ParserInv
  <2> HIDE DEF Content
  <2>2. 1 .. attached \subseteq DOMAIN topLevel
    BY <1>1, <2>1
  <2>3. QED
    BY <2>1, <2>2
<1>5. attached' \in 0 .. Len(topLevel') /\ 1 .. attached' = 1 .. attached \cup {attached + 1}
  BY <1>1
<1>6. CASE phase' = "refused" /\ UNCHANGED attachVars
  BY <1>1, <1>5, <1>6 DEF AttachedInv, attachVars
<1>7. CASE ~IsProcess(t) /\ UNCHANGED <<phase, attachVars>>
  <2>1. \A i \in 1 .. attached' : IsProcess(topLevel[i]) => i \in 1 .. attached /\ Joined(topLevel[i].id)
    BY <1>3, <1>5, <1>7
  <2>2. \A d : Joined(d) => Joined(d)'
    BY <1>1, <1>7, FileStays DEF Joined, attachVars
  <2>3. \A i \in 1 .. attached' : IsProcess(topLevel[i]) => Joined(topLevel[i].id)'
    BY <1>1, <2>1, <2>2
  <2>4. QED
    BY <1>1, <1>5, <1>7, <2>3 DEF AttachedInv, attachVars, IsProcess
<1>8. CASE AddMessageFlows(t.id) /\ ValidationErrors(t.id) = {} /\ UNCHANGED phase
  <2>1. PICK d \in Ids : d = topLevel[attached + 1].id
    BY <1>2
  <2>2. UNCHANGED <<topLevel, definitionVars>>
    BY <1>1
  <2>3. /\ DOMAIN messageFlows' = Ids
        /\ Joined(d)'
        /\ \A e \in Ids : Joined(e) => Joined(e)'
    BY <1>1, <1>8, <2>1, <2>2, AddMessageFlowsJoins
  <2>4. ASSUME NEW i \in 1 .. attached', IsProcess(topLevel[i])
        PROVE  Joined(topLevel[i].id)'
    <3>1. CASE i = attached + 1
      <4>1. topLevel'[i].id = d
        BY <1>1, <2>1, <3>1
      <4>2. QED
        BY <2>3, <4>1
    <3>2. CASE i \in 1 .. attached
      <4>1. PICK e \in Ids : e = topLevel[i].id
        BY <1>4, <3>2
      <4>2. Joined(e)' /\ topLevel'[i].id = e
        BY <1>1, <1>3, <2>3, <2>4, <3>2, <4>1
      <4>3. QED
        BY <4>2
    <3>3. QED
      BY <1>5, <3>1, <3>2
  <2>5. QED
    BY <1>1, <1>5, <1>8, <2>3, <2>4 DEF AttachedInv, IsProcess
<1>9. QED
  BY <1>6, <1>7, <1>8 DEF Attach

\* A step that leaves what was read and attached.
LEMMA AttachedStays ==
  ASSUME AttachedInv, UNCHANGED <<topLevel, definitionVars, attachVars, attached>>,
         phase' = "parsing" => phase = "parsing",
         phase' = "ready" => phase = "ready" \/ attached = Len(topLevel),
         phase' = "refused" \/ phase \in {"parsing", "attaching", "ready"}
  PROVE  AttachedInv'
<1>1. \A d : Joined(d) => Joined(d)'
  BY FileStays DEF Joined, attachVars
<1>2. QED
  BY <1>1 DEF AttachedInv, attachVars, IsProcess

LEMMA AttachedReads ==
  ASSUME ParserInv, AttachedInv, ParseTag
  PROVE  AttachedInv'
<1>1. /\ phase = "parsing" /\ UNCHANGED <<phase, attached, attachVars>>
      /\ topLevel' \in Seq(Content')
  <2>1. ParserInv' /\ Reads
    BY ParserInvParseTag
  <2>2. phase = "parsing"
    BY DEF ParseTag, OpenCollaboration, OpenParticipant, OpenMessageFlow, OpenProcess,
           OpenFlowObject, OpenOtherGateway, OpenSequenceFlow, OpenMark, OpenSubProcess,
           CloseSubProcess, OpenDebugger, SkipTag, Read
  <2>3. QED
    BY <2>1, <2>2 DEF Reads, ParserInv
<1>2. attached = 0 /\ Len(topLevel') \in Nat /\ DOMAIN messageFlows = Ids
  BY <1>1 DEF AttachedInv
<1>3. QED
  BY <1>1, <1>2 DEF AttachedInv, attachVars

LEMMA DefinitionsInvInit ==
  ASSUME Init
  PROVE  ParserInv /\ FileInv /\ AttachedInv
<1>1. document \in Documents /\ position = 1 /\ topLevel = << >> /\ attached = 0 /\ phase = "parsing"
  BY DEF Init
<1>2. ParserInv
  BY DEF Init, ParserInv
<1>3. FileInv
  <2>1. Len(document) \in Nat
    BY <1>2, DocumentType
  <2>2. \A d \in Ids : Elements(d) = {} /\ Flows(d) = {} /\ ElementIds(d) = {}
    BY DEF Init, Elements, Flows, ElementIds
  <2>3. \A c \in Ids : collaborationFlows[c] = {} /\ DOMAIN participants[c] = {}
    BY DEF Init
  <2>4. currentProcess = Null /\ DOMAIN processStack = {}
    BY DEF Init
  <2>5. QED
    BY <1>1, <2>1, <2>2, <2>3, <2>4 DEF FileInv
<1>4. AttachedInv
  BY <1>1 DEF Init, AttachedInv
<1>5. QED
  BY <1>2, <1>3, <1>4

LEMMA DefinitionsInvNext ==
  ASSUME ParserInv, FileInv, AttachedInv, TablesInv, [Next]_vars
  PROVE  ParserInv' /\ FileInv' /\ AttachedInv'
<1>1. CASE ParseTag
  BY <1>1, ParserInvParseTag, FileInvReads, AttachedReads
<1>2. CASE Attach
  <2>1. UNCHANGED <<document, position, parserVars, definitionVars>>
    BY <1>2 DEF Attach
  <2>2. QED
    BY <1>2, <2>1, ParserInvStays, FileInvStays, AttachJoins
<1>3. ASSUME \/ ParsingEnds \/ AttachingEnds
             \/ \E d \in Definitions, ks \in Lookups : LookUp(d, ks)
             \/ UNCHANGED vars
      PROVE  ParserInv' /\ FileInv' /\ AttachedInv'
  <2>1. /\ UNCHANGED <<document, position, parserVars, definitionVars, attachVars, attached>>
        /\ phase' = "parsing" => phase = "parsing"
        /\ phase' = "ready" => phase = "ready" \/ attached = Len(topLevel)
        /\ phase' = "refused" \/ phase \in {"parsing", "attaching", "ready"}
    BY <1>3 DEF ParsingEnds, AttachingEnds, LookUp, vars, TablesInv
  <2>2. UNCHANGED topLevel
    BY <2>1 DEF parserVars
  <2>3. QED
    BY <2>1, <2>2, ParserInvStays, FileInvStays, AttachedStays
<1>4. QED
  BY <1>1, <1>2, <1>3 DEF Next

LEMMA DefinitionsInvHolds == Spec => [](ParserInv /\ FileInv /\ AttachedInv)
<1>1. Init => ParserInv /\ FileInv /\ AttachedInv
  BY DefinitionsInvInit
<1>2. Spec => []TablesInv
  BY TablesInvHolds
<1>3. TablesInv /\ (ParserInv /\ FileInv /\ AttachedInv) /\ [Next]_vars
        => (ParserInv /\ FileInv /\ AttachedInv)'
  BY DefinitionsInvNext
<1>4. QED
  BY <1>1, <1>2, <1>3, PTL DEF Spec

LEMMA LeadsWhenReady ==
  ASSUME ParserInv, FileInv, AttachedInv
  PROVE  MessageFlowsLead
<1> SUFFICES ASSUME phase = "ready",
                    NEW i \in DOMAIN topLevel, ~IsProcess(topLevel[i]),
                    NEW f \in collaborationFlows[topLevel[i].id], NEW d \in Ids,
                    PoolsOf(topLevel[i].id, d) # {}, ElementIds(d) # {}
             PROVE  /\ f.target \in ElementIds(d) => targetProcess[f.id] = d
                    /\ f.source \in ElementIds(d) => f \in messageFlows[d]
  BY DEF MessageFlowsLead
<1>1. f \in FlowsAround(d)
  BY DEF FlowsAround, CollaborationsOf
<1>2. topLevel \in Seq(Content) /\ \A u \in Content : u.id \in Ids
  BY DocumentType DEF ParserInv
<1>3. DOMAIN topLevel = 1 .. attached
  <2> HIDE DEF Content
  <2>1. QED
    BY <1>2 DEF AttachedInv
<1>4. topLevel[i].id \in Ids
  <2> HIDE DEF Content
  <2>1. QED
    BY <1>2
<1>5. d \notin {u.id : u \in Before({"subProcess"})}
  <2>1. PICK k \in DOMAIN participants[topLevel[i].id] : participants[topLevel[i].id][k].processRef = d
    BY DEF PoolsOf
  <2>2. participants[topLevel[i].id][k] \in Before({"participant"})
    BY <1>4 DEF FileInv
  <2>3. PICK p \in 1 .. position - 1 :
          participants[topLevel[i].id][k] = document[p] /\ Opens(document[p], {"participant"})
    BY <2>2 DEF Before
  <2>4. 1 .. position - 1 \subseteq DOMAIN document /\ document \in Documents
    BY DocumentType DEF FileInv, ParserInv
  <2>5. ASSUME NEW s \in 1 .. position - 1, Opens(document[s], {"subProcess"})
        PROVE  document[s].id # d
    BY <2>1, <2>3, <2>4, <2>5, DocumentsAssumption DEF DocumentsAssumption
  <2>6. QED
    BY <2>5 DEF Before
<1>6. d \in Processes
  BY <1>5 DEF FileInv, Known
<1>7. Joined(d)
  BY <1>3, <1>6 DEF Processes, AttachedInv
<1>8. QED
  BY <1>1, <1>7 DEF Joined

\* When a file is accepted, a message flow between processes that take part in its
\* collaboration leads to the process it ends in, and is found where it starts, in
\* whatever order collaborations and processes come (definitions.js:34-43,
\* process.js:306-328).
THEOREM AcceptedFlowsLead == Spec => []MessageFlowsLead
  BY DefinitionsInvHolds, LeadsWhenReady, PTL

-----------------------------------------------------------------------------
(****************************************************************************)
(* A gateway that neither splits nor joins is found, although it is only    *)
(* looked for before the first error: there is a first one.                 *)
(****************************************************************************)
LEMMA FirstOf ==
  ASSUME NEW S \in SUBSET Nat, S # {}
  PROVE  \E n \in S : \A m \in S : n <= m
<1> DEFINE R == {p \in Nat \X Nat : p[1] < p[2]}
<1>1. IsWellFoundedOn(R, Nat)
  BY NatLessThanWellFounded DEF OpToRel
<1>2. PICK n \in S : \A m \in S : ~(<<m, n>> \in R)
  BY <1>1, WFMin
<1>3. ASSUME NEW m \in S
      PROVE  n <= m
  <2>1. ~(<<m, n>> \in R) /\ m \in Nat /\ n \in Nat
    BY <1>2
  <2>2. ~(m < n)
    BY <2>1
  <2>3. QED
    BY <2>1, <2>2
<1>4. QED
  BY <1>3

LEMMA GatewaysBranchWhenReady ==
  ASSUME ParserInv, AttachedInv
  PROVE  GatewaysBranch
<1> SUFFICES ASSUME phase = "ready",
                    NEW i \in DOMAIN topLevel, IsProcess(topLevel[i]),
                    NEW e \in Elements(topLevel[i].id), e.kind \in Gateways,
                    ~Branches(topLevel[i].id, e)
             PROVE  FALSE
  BY DEF GatewaysBranch
<1> DEFINE d        == topLevel[i].id
           At(k)    == flowObjects[d][k]
           Lacks(k) == At(k).kind \in Gateways /\ ~Branches(d, At(k))
           S        == {k \in DOMAIN flowObjects[d] : Lacks(k)}
<1>1. topLevel \in Seq(Content) /\ \A u \in Content : u.id \in Ids
  BY DocumentType DEF ParserInv
<1>2. DOMAIN topLevel = 1 .. attached /\ d \in Ids
  <2> HIDE DEF Content
  <2>1. QED
    BY <1>1 DEF AttachedInv
<1>3. ValidationErrors(d) = {}
  BY <1>2 DEF AttachedInv, Joined
<1>4. /\ \A k \in DOMAIN flowObjects[d] : PlainErrors(d, At(k)) = {}
      /\ GatewayErrors(d) = {}
  <2>1. ASSUME NEW u \in Elements(d)
        PROVE  PlainErrors(d, u) = {}
    <3>1. PlainErrors(d, u) \in {PlainErrors(d, v) : v \in Elements(d)}
      OBVIOUS
    <3>2. PlainErrors(d, u) \subseteq ValidationErrors(d)
      BY <3>1 DEF ValidationErrors
    <3>3. QED
      BY <1>3, <3>2
  <2>2. GatewayErrors(d) \subseteq ValidationErrors(d)
    BY DEF ValidationErrors
  <2>3. GatewayErrors(d) = {}
    BY <1>3, <2>2
  <2>4. QED
    BY <2>1, <2>3 DEF Elements
<1>5. DOMAIN flowObjects[d] = 1 .. Len(flowObjects[d]) /\ Len(flowObjects[d]) \in Nat
  <2>1. flowObjects \in [Ids -> Seq(Content)]
    BY DEF ParserInv
  <2> HIDE DEF Content
  <2>2. QED
    BY <1>2, <2>1
<1>6. S \in SUBSET Nat /\ S # {}
  BY <1>5 DEF Elements
<1>7. PICK n \in S : \A m \in S : n <= m
  BY <1>6, FirstOf
<1>8. Lacks(n) /\ n \in DOMAIN flowObjects[d]
  BY <1>7
<1>9. \A k \in 1 .. n - 1 : k \in DOMAIN flowObjects[d] /\ ~(n <= k)
  BY <1>5, <1>8
<1>10. \A k \in 1 .. n - 1 : ~Lacks(k)
  BY <1>7, <1>9
<1>11. \A k \in 1 .. n : PlainErrors(d, At(k)) = {}
  <2>1. 1 .. n \subseteq DOMAIN flowObjects[d]
    BY <1>5, <1>8
  <2>2. QED
    BY <1>4, <2>1
<1>12. <<"GW1", At(n).id>> \in GatewayErrors(d)
  BY <1>8, <1>10, <1>11 DEF GatewayErrors
<1>13. QED
  BY <1>4, <1>12

\* The gateways of accepted processes split or join, although they are looked at only as
\* long as there are no errors (gateways.js:32-52).
THEOREM AcceptedGatewaysBranch == Spec => []GatewaysBranch
  BY DefinitionsInvHolds, GatewaysBranchWhenReady, PTL

-----------------------------------------------------------------------------
(****************************************************************************)
(* Where the parser is: the containers around the next tag, outermost       *)
(* first, are the stack and the current definition, unless the process is   *)
(* one that is skipped.                                                     *)
(****************************************************************************)
IsPath(path) ==
  /\ {path[j] : j \in DOMAIN path} = OpenAround(position, Containers)
  /\ \A j, l \in DOMAIN path : j < l => path[j] < path[l]
  /\ \A j \in DOMAIN path : document[path[j]].kind = "process" <=> j = 1

Follows(path) ==
  IF path = << >> THEN processStack = << >>
  ELSE IF document[path[1]].executable
  THEN /\ Len(processStack) = Len(path) - 1
       /\ \A j \in 1 .. Len(path) - 1 : processStack[j] = document[path[j]].id
       /\ currentProcess = document[path[Len(path)]].id
  ELSE processStack = << >> /\ currentProcess = Null

StackInv == \E path \in Seq(Nat) : IsPath(path) /\ Follows(path)

\* What the next tag does to the tags that are open.
LEMMA AroundNext ==
  ASSUME ParserInv, position \in DOMAIN document, NEW kinds
  PROVE  OpenAround(position + 1, kinds) =
           IF Opens(tag, kinds) THEN OpenAround(position, kinds) \cup {position}
           ELSE IF tag.open THEN OpenAround(position, kinds)
           ELSE {k \in OpenAround(position, kinds) : document[k].id # tag.id}
<1>1. position \in Nat \ {0} /\ tag = document[position]
  BY DEF ParserInv, tag
<1>2. 1 .. position + 1 - 1 = 1 .. position - 1 \cup {position}
  BY <1>1
<1>3. \A k \in 1 .. position - 1 : k .. position + 1 - 1 = k .. position - 1 \cup {position}
  BY <1>1
<1>4. position .. position + 1 - 1 = {position}
  BY <1>1
<1>5. ASSUME NEW k
      PROVE  k \in OpenAround(position + 1, kinds) <=>
               \/ k \in OpenAround(position, kinds) /\ (tag.open \/ document[k].id # tag.id)
               \/ k = position /\ Opens(tag, kinds)
  BY <1>1, <1>2, <1>3, <1>4 DEF OpenAround, Around, Opens
<1>6. CASE Opens(tag, kinds)
  BY <1>5, <1>6 DEF Opens
<1>7. CASE tag.open /\ ~Opens(tag, kinds)
  BY <1>5, <1>7
<1>8. CASE ~tag.open
  <2>1. ~Opens(tag, kinds)
    BY <1>8 DEF Opens
  <2>2. QED
    BY <1>5, <1>8, <2>1
<1>9. QED
  BY <1>6, <1>7, <1>8

LEMMA AroundType ==
  ASSUME ParserInv, position \in DOMAIN document, NEW kinds
  PROVE  /\ OpenAround(position, kinds) \subseteq 1 .. position - 1
         /\ \A k \in OpenAround(position, kinds) : k \in DOMAIN document /\ Opens(document[k], kinds)
<1>1. DOMAIN document = 1 .. Len(document) /\ Len(document) \in Nat /\ position \in Nat
  BY DocumentType DEF ParserInv
<1>2. QED
  BY <1>1 DEF OpenAround, Around

LEMMA AroundStays ==
  ASSUME UNCHANGED document, NEW i, NEW kinds
  PROVE  OpenAround(i, kinds)' = OpenAround(i, kinds)
  BY DEF OpenAround, Around, Opens

\* A path that a container is added to, and one whose last container is closed.
LEMMA PathGrows ==
  ASSUME NEW path \in Seq(Nat), NEW p \in Nat, \A j \in DOMAIN path : path[j] < p,
         \A j, l \in DOMAIN path : j < l => path[j] < path[l]
  PROVE  /\ Append(path, p) \in Seq(Nat) /\ Len(Append(path, p)) = Len(path) + 1
         /\ Append(path, p)[Len(path) + 1] = p
         /\ \A j \in 1 .. Len(path) : Append(path, p)[j] = path[j]
         /\ {Append(path, p)[j] : j \in DOMAIN Append(path, p)} = {path[j] : j \in DOMAIN path} \cup {p}
         /\ \A j, l \in DOMAIN Append(path, p) : j < l => Append(path, p)[j] < Append(path, p)[l]
<1>1. /\ Append(path, p) \in Seq(Nat) /\ Len(Append(path, p)) = Len(path) + 1
      /\ Append(path, p)[Len(path) + 1] = p
      /\ \A j \in 1 .. Len(path) : Append(path, p)[j] = path[j]
      /\ DOMAIN path = 1 .. Len(path) /\ DOMAIN Append(path, p) = 1 .. Len(path) + 1 /\ Len(path) \in Nat
  OBVIOUS
<1>2. {Append(path, p)[j] : j \in DOMAIN Append(path, p)} = {path[j] : j \in DOMAIN path} \cup {p}
  <2>1. DOMAIN Append(path, p) = DOMAIN path \cup {Len(path) + 1}
    BY <1>1
  <2>2. QED
    BY <1>1, <2>1
<1>3. \A j, l \in DOMAIN Append(path, p) : j < l => Append(path, p)[j] < Append(path, p)[l]
  BY <1>1
<1>4. QED
  BY <1>1, <1>2, <1>3

LEMMA PathShrinks ==
  ASSUME NEW path \in Seq(Nat), path # << >>, NEW front, front = SubSeq(path, 1, Len(path) - 1),
         \A j, l \in DOMAIN path : j < l => path[j] < path[l]
  PROVE  /\ front \in Seq(Nat) /\ Len(front) = Len(path) - 1
         /\ \A j \in 1 .. Len(path) - 1 : front[j] = path[j]
         /\ {front[j] : j \in DOMAIN front} = {path[j] : j \in DOMAIN path} \ {path[Len(path)]}
         /\ \A j, l \in DOMAIN front : j < l => front[j] < front[l]
<1>1. /\ front \in Seq(Nat) /\ Len(front) = Len(path) - 1 /\ Len(path) \in Nat \ {0}
      /\ \A j \in 1 .. Len(path) - 1 : front[j] = path[j]
      /\ DOMAIN path = 1 .. Len(path) /\ DOMAIN front = 1 .. Len(path) - 1
      /\ \A j \in DOMAIN path : path[j] \in Nat
  <2>1. /\ front \in Seq(Nat) /\ Len(front) = Len(path) - 1 /\ Len(path) \in Nat \ {0}
        /\ DOMAIN path = 1 .. Len(path) /\ DOMAIN front = 1 .. Len(path) - 1
        /\ \A j \in 1 .. Len(path) - 1 : front[j] = path[j]
    <3>1. Len(path) \in Nat \ {0} /\ DOMAIN path = 1 .. Len(path)
      OBVIOUS
    <3>2. front \in Seq(Nat) /\ Len(front) = Len(path) - 1
      BY <3>1
    <3>3. \A j \in 1 .. Len(path) - 1 : front[j] = path[j]
      BY <3>1
    <3>4. DOMAIN front = 1 .. Len(path) - 1
      BY <3>1, <3>2
    <3>5. QED
      BY <3>1, <3>2, <3>3, <3>4
  <2>2. \A j \in DOMAIN path : path[j] \in Nat
    OBVIOUS
  <2>3. QED
    BY <2>1, <2>2
<1>2. ASSUME NEW j \in 1 .. Len(path) - 1
      PROVE  j \in DOMAIN path /\ path[j] # path[Len(path)]
  <2>1. j \in DOMAIN path /\ Len(path) \in DOMAIN path /\ j < Len(path)
    BY <1>1
  <2>2. path[j] < path[Len(path)] /\ path[j] \in Nat /\ path[Len(path)] \in Nat
    BY <1>1, <2>1
  <2>3. QED
    BY <2>1, <2>2
<1>3. {front[j] : j \in DOMAIN front} = {path[j] : j \in 1 .. Len(path) - 1}
  BY <1>1
<1>4. 1 .. Len(path) = 1 .. Len(path) - 1 \cup {Len(path)}
  BY <1>1
<1>5. {path[j] : j \in 1 .. Len(path) - 1} = {path[j] : j \in DOMAIN path} \ {path[Len(path)]}
  BY <1>1, <1>2, <1>4
<1>6. \A j, l \in DOMAIN front : j < l => front[j] < front[l]
  BY <1>1
<1>7. QED
  BY <1>1, <1>3, <1>5, <1>6

\* What the path says of the places on it.
LEMMA PathFacts ==
  ASSUME ParserInv, position \in DOMAIN document, NEW path \in Seq(Nat), IsPath(path)
  PROVE  /\ \A j \in DOMAIN path : /\ path[j] \in 1 .. position - 1 /\ path[j] \in DOMAIN document
                                   /\ Opens(document[path[j]], Containers)
                                   /\ document[path[j]].id \in Ids
         /\ path # << >> =>
              /\ 1 \in DOMAIN path /\ Len(path) \in DOMAIN path
              /\ OpenAround(position, {"process"}) = {path[1]}
              /\ \A k \in OpenAround(position, Containers) : k <= path[Len(path)]
         /\ path = << >> <=> OpenAround(position, Containers) = {}
<1>1. DOMAIN path = 1 .. Len(path) /\ Len(path) \in Nat /\ \A j \in DOMAIN path : path[j] \in Nat
  OBVIOUS
<1>2. {path[j] : j \in DOMAIN path} = OpenAround(position, Containers)
  BY DEF IsPath
<1>3. ASSUME NEW j \in DOMAIN path
      PROVE  /\ path[j] \in 1 .. position - 1 /\ path[j] \in DOMAIN document
             /\ Opens(document[path[j]], Containers) /\ document[path[j]].id \in Ids
  <2>1. path[j] \in OpenAround(position, Containers)
    BY <1>2
  <2>2. \A k \in DOMAIN document : document[k].id \in Ids
    BY DocumentsAssumption DEF ParserInv
  <2>3. QED
    BY <2>1, <2>2, AroundType
<1>4. ASSUME path # << >>
      PROVE  /\ 1 \in DOMAIN path /\ Len(path) \in DOMAIN path
             /\ OpenAround(position, {"process"}) = {path[1]}
             /\ \A k \in OpenAround(position, Containers) : k <= path[Len(path)]
  <2>1. Len(path) # 0 /\ 1 \in DOMAIN path /\ Len(path) \in DOMAIN path
    BY <1>1, <1>4
  <2>2. \A k : k \in OpenAround(position, {"process"}) <=>
               k \in OpenAround(position, Containers) /\ document[k].kind = "process"
    BY DEF OpenAround, Around, Opens, Containers
  <2>3. \A j \in DOMAIN path : document[path[j]].kind = "process" <=> j = 1
    BY DEF IsPath
  <2>4. OpenAround(position, {"process"}) = {path[1]}
    BY <1>2, <2>1, <2>2, <2>3
  <2>5. \A j \in DOMAIN path : path[j] <= path[Len(path)]
    BY <1>1, <2>1 DEF IsPath
  <2>6. QED
    BY <1>2, <2>1, <2>4, <2>5
<1>5. path = << >> <=> DOMAIN path = {}
  BY <1>1
<1>6. QED
  BY <1>2, <1>3, <1>4, <1>5

LEMMA TagIsNested ==
  ASSUME ParserInv, position \in DOMAIN document
  PROVE  LET open == OpenAround(position, Containers) IN
         /\ Opens(tag, {"process", "collaboration"}) => open = {}
         /\ Opens(tag, ElementTags \cup Marks) => open # {}
         /\ ~tag.open =>
              /\ \A k \in open : document[k].id = tag.id =>
                   document[k].kind = tag.kind /\ \A l \in open : l <= k
              /\ tag.kind \in Containers => \E k \in open : document[k].id = tag.id
         /\ Opens(tag, Marks) =>
              \E k \in OpenAround(position, Events \cup Tasks) :
                 \A c \in k + 1 .. position - 1 : document[c].kind \in Marks
<1>1. document \in Documents /\ tag = document[position]
  BY DEF ParserInv, tag
<1>2. ElementTags \cup Marks = FlowObjects \cup Marks \cup {"otherGateway", "subProcess", "sequenceFlow"}
  BY DEF ElementTags, FlowObjectTags
<1>3. QED
  BY <1>1, <1>2, NestingAssumption DEF NestingAssumption, OpenAround

\* A place on the path is no other's: ids of containers are unique.
LEMMA ContainersDiffer ==
  ASSUME ParserInv, position \in DOMAIN document,
         NEW k \in OpenAround(position, Containers), NEW l \in OpenAround(position, Containers),
         document[k].id = document[l].id
  PROVE  k = l
<1>1. /\ k \in DOMAIN document /\ l \in DOMAIN document
      /\ Opens(document[k], Identified) /\ Opens(document[l], Identified)
  BY AroundType DEF Opens, Containers, Identified
<1>2. QED
  BY <1>1, DocumentsAssumption DEF DocumentsAssumption, ParserInv

LEMMA PathOpens ==
  ASSUME ParserInv, position \in DOMAIN document, position' = position + 1, UNCHANGED document,
         NEW path \in Seq(Nat), IsPath(path),
         Opens(tag, Containers), tag.kind = "process" <=> path = << >>,
         NEW next, next = Append(path, position)
  PROVE  IsPath(next)'
<1>1. /\ position \in Nat /\ \A j \in DOMAIN path : path[j] < position /\ path[j] \in Nat
      /\ DOMAIN path = 1 .. Len(path) /\ Len(path) \in Nat
  BY PathFacts DEF ParserInv
<1>2. \A j, l \in DOMAIN path : j < l => path[j] < path[l]
  BY DEF IsPath
<1>3. /\ next \in Seq(Nat) /\ Len(next) = Len(path) + 1 /\ next[Len(path) + 1] = position
      /\ \A j \in 1 .. Len(path) : next[j] = path[j]
      /\ {next[j] : j \in DOMAIN next} = {path[j] : j \in DOMAIN path} \cup {position}
      /\ \A j, l \in DOMAIN next : j < l => next[j] < next[l]
  BY <1>1, <1>2, PathGrows
<1>4. DOMAIN next = 1 .. Len(path) + 1
  BY <1>1, <1>3
<1>5. OpenAround(position, Containers)' = OpenAround(position, Containers) \cup {position}
  BY AroundNext, AroundStays
<1>6. {next[j] : j \in DOMAIN next} = OpenAround(position, Containers)'
  BY <1>3, <1>5 DEF IsPath
<1>7. ASSUME NEW j \in DOMAIN next
      PROVE  document'[next[j]].kind = "process" <=> j = 1
  <2>1. CASE j \in DOMAIN path
    BY <1>1, <1>3, <2>1 DEF IsPath
  <2>2. CASE j = Len(path) + 1
    <3>1. document'[next[j]] = tag
      BY <1>3, <2>2 DEF tag
    <3>2. path = << >> <=> j = 1
      BY <1>1, <2>2
    <3>3. QED
      BY <3>1, <3>2
  <2>3. QED
    BY <1>1, <1>4, <2>1, <2>2
<1>8. QED
  BY <1>3, <1>6, <1>7 DEF IsPath

LEMMA PathCloses ==
  ASSUME ParserInv, position \in DOMAIN document, position' = position + 1, UNCHANGED document,
         NEW path \in Seq(Nat), IsPath(path),
         ~tag.open, tag.kind \in Containers
  PROVE  /\ path # << >>
         /\ tag.kind = "process" <=> Len(path) = 1
         /\ IsPath(SubSeq(path, 1, Len(path) - 1))'
<1> DEFINE front == SubSeq(path, 1, Len(path) - 1)
           around == OpenAround(position, Containers)
<1>1. PICK k \in around : document[k].id = tag.id /\ document[k].kind = tag.kind /\ \A l \in around : l <= k
  BY TagIsNested
<1>2. path # << >>
  BY <1>1, PathFacts
<1>3. {path[j] : j \in DOMAIN path} = around /\ \A j, l \in DOMAIN path : j < l => path[j] < path[l]
  BY DEF IsPath
<1>4. /\ Len(path) \in DOMAIN path /\ \A l \in around : l <= path[Len(path)]
      /\ around \subseteq 1 .. position - 1 /\ position \in Nat
  BY <1>2, PathFacts, AroundType DEF ParserInv
<1>5. k = path[Len(path)]
  <2>1. path[Len(path)] \in around
    BY <1>3, <1>4
  <2>2. k \in Nat /\ path[Len(path)] \in Nat /\ k <= path[Len(path)] /\ path[Len(path)] <= k
    BY <1>1, <1>4, <2>1
  <2>3. QED
    BY <2>2
<1>6. tag.kind = "process" <=> Len(path) = 1
  BY <1>1, <1>4, <1>5 DEF IsPath
<1>7. /\ front \in Seq(Nat) /\ Len(front) = Len(path) - 1
      /\ \A j \in 1 .. Len(path) - 1 : front[j] = path[j]
      /\ {front[j] : j \in DOMAIN front} = around \ {k}
      /\ \A j, l \in DOMAIN front : j < l => front[j] < front[l]
  <2>1. /\ front \in Seq(Nat) /\ Len(front) = Len(path) - 1
        /\ \A j \in 1 .. Len(path) - 1 : front[j] = path[j]
        /\ {front[j] : j \in DOMAIN front} = {path[j] : j \in DOMAIN path} \ {path[Len(path)]}
        /\ \A j, l \in DOMAIN front : j < l => front[j] < front[l]
    BY <1>2, <1>3, PathShrinks
  <2> HIDE DEF front, around
  <2>2. QED
    BY <1>3, <1>5, <2>1
<1>8. DOMAIN path = 1 .. Len(path) /\ DOMAIN front = 1 .. Len(path) - 1 /\ Len(path) \in Nat
  BY <1>7
<1> HIDE DEF front
<1>9. ~Opens(tag, Containers)
  BY DEF Opens
<1>10. OpenAround(position, Containers)' = {l \in around : document[l].id # tag.id}
  BY <1>9, AroundNext, AroundStays
<1>11. \A l \in around : document[l].id = tag.id <=> l = k
  BY <1>1, ContainersDiffer
<1>12. OpenAround(position, Containers)' = around \ {k}
  BY <1>10, <1>11
<1>13. \A j \in DOMAIN front : j \in DOMAIN path /\ front[j] = path[j]
  BY <1>7, <1>8
<1>14. \A j \in DOMAIN front : document'[front[j]].kind = "process" <=> j = 1
  BY <1>13 DEF IsPath
<1>15. IsPath(front)'
  BY <1>7, <1>12, <1>14 DEF IsPath
<1>16. QED
  BY <1>2, <1>6, <1>15 DEF front

LEMMA PathStays ==
  ASSUME ParserInv, position \in DOMAIN document, position' = position + 1, UNCHANGED document,
         NEW path \in Seq(Nat), IsPath(path), tag.kind \notin Containers
  PROVE  IsPath(path)'
<1>1. ~Opens(tag, Containers)
  BY DEF Opens
<1>2. ASSUME ~tag.open, NEW k \in OpenAround(position, Containers)
      PROVE  document[k].id # tag.id
  <2>1. document[k].kind \in Containers
    BY AroundType DEF Opens
  <2>2. QED
    BY <1>2, <2>1, TagIsNested
<1>3. OpenAround(position, Containers)' = OpenAround(position, Containers)
  BY <1>1, <1>2, AroundNext, AroundStays
<1>4. QED
  BY <1>3 DEF IsPath

\* The path of a process that is read is the stack and the current definition.
LEMMA PathIsRead ==
  ASSUME ParserInv, position \in DOMAIN document, NEW path \in Seq(Nat), IsPath(path), Follows(path),
         path # << >>
  PROVE  currentProcess # Null <=> document[path[1]].executable
<1>1. Len(path) \in DOMAIN path /\ document[path[Len(path)]].id \in Ids
  BY PathFacts
<1>2. document[path[Len(path)]].id # Null
  BY <1>1, DocumentsAssumption DEF DocumentsAssumption
<1>3. QED
  BY <1>2 DEF Follows

LEMMA StackOpensProcess ==
  ASSUME ParserInv, StackInv, OpenProcess
  PROVE  StackInv'
<1>1. /\ position \in DOMAIN document /\ position' = position + 1 /\ UNCHANGED document
      /\ Opens(tag, {"process"})
  BY ReadFacts DEF OpenProcess
<1>2. PICK path \in Seq(Nat) : IsPath(path) /\ Follows(path)
  BY DEF StackInv
<1>3. path = << >> /\ processStack = << >>
  BY <1>1, <1>2, TagIsNested, PathFacts DEF Follows, Opens
<1>4. PICK next : next = Append(path, position)
  OBVIOUS
<1>5. IsPath(next)'
  BY <1>1, <1>2, <1>3, <1>4, PathOpens DEF Opens, Containers
<1>6. next = <<position>> /\ position \in Nat /\ document'[position] = tag
  BY <1>1, <1>3, <1>4 DEF ParserInv, tag
<1>7. next \in Seq(Nat) /\ next # << >> /\ Len(next) = 1 /\ next[1] = position
  BY <1>6
<1>8. Follows(next)'
  <2>1. UNCHANGED processStack
    BY DEF OpenProcess
  <2>2. CASE tag.executable
    BY <1>3, <1>6, <1>7, <2>1, <2>2 DEF OpenProcess, Follows
  <2>3. CASE ~tag.executable
    BY <1>3, <1>6, <1>7, <2>1, <2>3 DEF OpenProcess, Follows
  <2>4. QED
    BY <2>2, <2>3
<1>9. QED
  BY <1>5, <1>7, <1>8 DEF StackInv

LEMMA StackOpensSubProcess ==
  ASSUME ParserInv, StackInv, ParseTag, Opens(tag, {"subProcess"}),
         position \in DOMAIN document, position' = position + 1, UNCHANGED document,
         \/ /\ currentProcess # Null
            /\ processStack' = Append(processStack, currentProcess)
            /\ currentProcess' = tag.id
         \/ currentProcess = Null /\ UNCHANGED <<processStack, currentProcess>>
  PROVE  StackInv'
<1>1. PICK path \in Seq(Nat) : IsPath(path) /\ Follows(path)
  BY DEF StackInv
<1>2. Opens(tag, ElementTags \cup Marks) /\ Opens(tag, Containers) /\ tag.kind # "process"
  BY DEF Opens, ElementTags, FlowObjectTags, Containers
<1>3. path # << >>
  BY <1>1, <1>2, TagIsNested, PathFacts
<1>4. PICK next : next = Append(path, position)
  OBVIOUS
<1>5. IsPath(next)'
  BY <1>1, <1>2, <1>3, <1>4, PathOpens
<1>6. /\ position \in Nat /\ \A j \in DOMAIN path : path[j] < position
      /\ \A j, l \in DOMAIN path : j < l => path[j] < path[l]
      /\ Len(path) \in Nat \ {0} /\ DOMAIN path = 1 .. Len(path)
  <2>1. position \in Nat /\ \A j \in DOMAIN path : path[j] \in 1 .. position - 1
    BY <1>1, PathFacts DEF ParserInv
  <2>2. Len(path) \in Nat \ {0} /\ DOMAIN path = 1 .. Len(path)
    BY <1>3
  <2>3. \A j, l \in DOMAIN path : j < l => path[j] < path[l]
    BY <1>1 DEF IsPath
  <2>4. QED
    BY <2>1, <2>2, <2>3
<1>7. /\ next \in Seq(Nat) /\ Len(next) = Len(path) + 1 /\ next[Len(path) + 1] = position
      /\ \A j \in 1 .. Len(path) : next[j] = path[j]
  BY <1>4, <1>6, PathGrows
<1>8. next # << >> /\ next[1] = path[1] /\ document'[position] = tag
  BY <1>6, <1>7 DEF tag
<1>9. CASE currentProcess = Null /\ UNCHANGED <<processStack, currentProcess>>
  <2>1. ~document[path[1]].executable /\ processStack = << >>
    BY <1>1, <1>3, <1>9, PathIsRead DEF Follows
  <2>2. QED
    BY <1>5, <1>7, <1>8, <1>9, <2>1 DEF Follows, StackInv
<1>10. CASE /\ currentProcess # Null
            /\ processStack' = Append(processStack, currentProcess)
            /\ currentProcess' = tag.id
  <2>1. /\ document[path[1]].executable
        /\ Len(processStack) = Len(path) - 1
        /\ \A j \in 1 .. Len(path) - 1 : processStack[j] = document[path[j]].id
        /\ currentProcess = document[path[Len(path)]].id
    BY <1>1, <1>3, <1>10, PathIsRead DEF Follows
  <2>2. /\ Len(processStack') = Len(processStack) + 1
        /\ processStack'[Len(processStack) + 1] = currentProcess
        /\ \A j \in 1 .. Len(processStack) : processStack'[j] = processStack[j]
    BY <1>10 DEF ParserInv
  <2>3. ASSUME NEW j \in 1 .. Len(path)
        PROVE  processStack'[j] = document'[next[j]].id
    <3>1. next[j] = path[j]
      BY <1>7
    <3>2. CASE j = Len(path)
      BY <1>6, <2>1, <2>2, <3>1, <3>2
    <3>3. CASE j # Len(path)
      <4>1. j \in 1 .. Len(path) - 1 /\ j \in 1 .. Len(processStack)
        BY <1>6, <2>1, <3>3
      <4>2. QED
        BY <2>1, <2>2, <3>1, <4>1
    <3>4. QED
      BY <3>2, <3>3
  <2>4. currentProcess' = document'[next[Len(next)]].id
    BY <1>7, <1>8, <1>10
  <2>5. Len(processStack') = Len(next) - 1 /\ Len(next) - 1 = Len(path)
    BY <1>6, <1>7, <2>1, <2>2
  <2>6. Follows(next)'
    BY <1>8, <2>1, <2>3, <2>4, <2>5 DEF Follows
  <2>7. QED
    BY <1>5, <1>7, <2>6 DEF StackInv
<1>11. QED
  BY <1>9, <1>10

LEMMA StackPops ==
  ASSUME NEW s \in Seq(Ids), s # << >>
  PROVE  /\ Len(SubSeq(s, 1, Len(s) - 1)) = Len(s) - 1
         /\ \A j \in 1 .. Len(s) - 1 : SubSeq(s, 1, Len(s) - 1)[j] = s[j]
<1>1. PICK rest : rest = SubSeq(s, 1, Len(s) - 1)
  OBVIOUS
<1>2. Len(s) \in Nat \ {0} /\ DOMAIN s = 1 .. Len(s)
  OBVIOUS
<1>3. rest \in Seq(Ids) /\ Len(rest) = Len(s) - 1
  BY <1>1, <1>2
<1>4. \A j \in 1 .. Len(s) - 1 : rest[j] = s[j]
  BY <1>1, <1>2
<1>5. QED
  BY <1>1, <1>3, <1>4

LEMMA StackCloses ==
  ASSUME ParserInv, StackInv, ~tag.open, tag.kind \in Containers,
         position \in DOMAIN document, position' = position + 1, UNCHANGED document,
         IF tag.kind = "process" \/ processStack = << >>
         THEN UNCHANGED <<processStack, currentProcess>>
         ELSE /\ currentProcess' = processStack[Len(processStack)]
              /\ processStack' = SubSeq(processStack, 1, Len(processStack) - 1)
  PROVE  StackInv'
<1>1. PICK path \in Seq(Nat) : IsPath(path) /\ Follows(path)
  BY DEF StackInv
<1>2. PICK front : front = SubSeq(path, 1, Len(path) - 1)
  OBVIOUS
<1>3. path # << >> /\ (tag.kind = "process" <=> Len(path) = 1) /\ IsPath(front)'
  BY <1>1, <1>2, PathCloses
<1>4. Len(path) \in Nat \ {0} /\ \A j, l \in DOMAIN path : j < l => path[j] < path[l]
  BY <1>1, <1>3 DEF IsPath
<1>5. /\ front \in Seq(Nat) /\ Len(front) = Len(path) - 1
      /\ \A j \in 1 .. Len(path) - 1 : front[j] = path[j]
  BY <1>2, <1>3, <1>4, PathShrinks
<1>6. front = << >> <=> Len(path) = 1
  BY <1>4, <1>5
<1>7. CASE ~document[path[1]].executable
  <2>1. processStack = << >> /\ currentProcess = Null /\ UNCHANGED <<processStack, currentProcess>>
    BY <1>1, <1>3, <1>7 DEF Follows
  <2>2. front # << >> => front[1] = path[1]
    BY <1>4, <1>5, <1>6
  <2>3. Follows(front)'
    BY <1>7, <2>1, <2>2 DEF Follows
  <2>4. QED
    BY <1>3, <1>5, <2>3 DEF StackInv
<1>8. CASE document[path[1]].executable
  <2>1. /\ Len(processStack) = Len(path) - 1
        /\ \A j \in 1 .. Len(path) - 1 : processStack[j] = document[path[j]].id
    BY <1>1, <1>3, <1>8 DEF Follows
  <2>2. CASE Len(path) = 1
    <3>1. processStack' = << >>
      BY <1>3, <2>1, <2>2 DEF ParserInv
    <3>2. Follows(front)'
      BY <1>6, <2>2, <3>1 DEF Follows
    <3>3. QED
      BY <1>3, <1>5, <3>2 DEF StackInv
  <2>3. CASE Len(path) # 1
    <3>1. processStack # << >> /\ front # << >> /\ front[1] = path[1] /\ tag.kind # "process"
      BY <1>3, <1>4, <1>5, <1>6, <2>1, <2>3
    <3>2. /\ currentProcess' = processStack[Len(processStack)]
          /\ processStack' = SubSeq(processStack, 1, Len(processStack) - 1)
      BY <3>1
    <3>3. /\ Len(processStack') = Len(processStack) - 1
          /\ \A j \in 1 .. Len(processStack) - 1 : processStack'[j] = processStack[j]
      <4>1. processStack \in Seq(Ids) /\ processStack # << >>
        BY <3>1 DEF ParserInv
      <4>2. QED
        BY <3>2, <4>1, StackPops
    <3>4. /\ Len(processStack') = Len(front) - 1
          /\ \A j \in 1 .. Len(front) - 1 : processStack'[j] = document'[front[j]].id
          /\ currentProcess' = document'[front[Len(front)]].id
      <4>1. /\ Len(front) - 1 = Len(processStack) - 1
            /\ Len(front) = Len(processStack) /\ Len(front) = Len(path) - 1 /\ Len(front) \in Nat \ {0}
        BY <1>4, <1>5, <2>1, <2>3
      <4>2. \A j \in 1 .. Len(front) : processStack[j] = document'[front[j]].id
        BY <1>5, <2>1, <4>1
      <4>3. 1 .. Len(front) - 1 \subseteq 1 .. Len(front) /\ Len(front) \in 1 .. Len(front)
        BY <4>1
      <4>4. currentProcess' = document'[front[Len(front)]].id
        BY <3>2, <4>1, <4>2, <4>3
      <4>5. ASSUME NEW j \in 1 .. Len(front) - 1 PROVE processStack'[j] = document'[front[j]].id
        BY <3>3, <4>1, <4>2, <4>3
      <4>6. QED
        BY <3>3, <4>1, <4>4, <4>5
    <3>5. Follows(front)'
      BY <1>8, <3>1, <3>4 DEF Follows
    <3>6. QED
      BY <1>3, <1>5, <3>5 DEF StackInv
  <2>4. QED
    BY <2>2, <2>3
<1>9. QED
  BY <1>7, <1>8

LEMMA StackStays ==
  ASSUME ParserInv, StackInv, position \in DOMAIN document, position' = position + 1, UNCHANGED document,
         tag.kind \notin Containers, UNCHANGED <<processStack, currentProcess>>
  PROVE  StackInv'
<1>1. PICK path \in Seq(Nat) : IsPath(path) /\ Follows(path)
  BY DEF StackInv
<1>2. IsPath(path)' /\ Follows(path)'
  BY <1>1, PathStays DEF Follows
<1>3. QED
  BY <1>2 DEF StackInv

\* A collaboration resets the current definition, which is none outside of processes.
LEMMA StackOpensCollaboration ==
  ASSUME ParserInv, StackInv, OpenCollaboration
  PROVE  StackInv'
<1>1. /\ position \in DOMAIN document /\ position' = position + 1 /\ UNCHANGED document
      /\ Opens(tag, {"collaboration"})
  BY ReadFacts DEF OpenCollaboration
<1>2. PICK path \in Seq(Nat) : IsPath(path) /\ Follows(path)
  BY DEF StackInv
<1>3. path = << >> /\ processStack = << >>
  BY <1>1, <1>2, TagIsNested, PathFacts DEF Follows, Opens
<1>4. IsPath(path)'
  BY <1>1, <1>2, PathStays DEF Opens, Containers
<1>5. Follows(path)'
  BY <1>3 DEF OpenCollaboration, Follows
<1>6. QED
  BY <1>2, <1>4, <1>5 DEF StackInv

LEMMA StackStep ==
  ASSUME ParserInv, StackInv, ParseTag
  PROVE  StackInv'
<1>1. position \in DOMAIN document /\ position' = position + 1 /\ UNCHANGED document
  BY ParseTagReads DEF Reads
<1>2. CASE OpenProcess \/ OpenCollaboration
  BY <1>2, StackOpensProcess, StackOpensCollaboration
<1>3. CASE OpenSubProcess
  BY <1>1, <1>3, ReadFacts, StackOpensSubProcess DEF OpenSubProcess
<1>4. CASE CloseSubProcess
  <2>1. ~tag.open /\ tag.kind = "subProcess"
    BY <1>4 DEF CloseSubProcess, Read
  <2>2. QED
    BY <1>1, <1>4, <2>1, StackCloses DEF CloseSubProcess, Containers
<1>5. CASE SkipTag
  <2>1. UNCHANGED <<processStack, currentProcess>>
    BY <1>5 DEF SkipTag, parserVars
  <2>2. \/ ~tag.open /\ tag.kind # "subProcess"
        \/ tag.open /\ tag.kind # "process" /\ currentProcess = Null
    BY <1>5 DEF SkipTag, Read, FlowObjects, Tasks, WaitTasks, Events, Gateways, Marks
  <2>3. CASE tag.kind \notin Containers
    BY <1>1, <2>1, <2>3, StackStays
  <2>4. CASE ~tag.open /\ tag.kind = "process"
    BY <1>1, <2>1, <2>4, StackCloses DEF Containers
  <2>5. CASE tag.open /\ tag.kind = "subProcess" /\ currentProcess = Null
    <3>1. Opens(tag, {"subProcess"})
      BY <2>5 DEF Opens
    <3>2. QED
      BY <1>1, <2>1, <2>5, <3>1, StackOpensSubProcess
  <2>6. QED
    BY <2>2, <2>3, <2>4, <2>5 DEF Containers
<1>6. CASE \/ OpenParticipant \/ OpenMessageFlow \/ OpenDebugger
           \/ OpenFlowObject \/ OpenOtherGateway \/ OpenSequenceFlow \/ OpenMark
  <2>1. UNCHANGED <<processStack, currentProcess>>
    BY <1>6 DEF OpenParticipant, OpenMessageFlow, OpenDebugger, OpenFlowObject, OpenOtherGateway,
                OpenSequenceFlow, OpenMark, parserVars
  <2>2. tag.kind \notin Containers
    BY <1>6 DEF OpenParticipant, OpenMessageFlow, OpenDebugger, OpenFlowObject, OpenOtherGateway,
                OpenSequenceFlow, OpenMark, Read, Containers, FlowObjects, Tasks, WaitTasks, Events,
                Gateways, Marks
  <2>3. QED
    BY <1>1, <2>1, <2>2, StackStays
<1>7. QED
  BY <1>2, <1>3, <1>4, <1>5, <1>6 DEF ParseTag

-----------------------------------------------------------------------------
(****************************************************************************)
(* What is read so far is where it was read.                                *)
(****************************************************************************)
PlacesIn(kinds, d) == {k \in DOMAIN document : Opens(document[k], kinds) /\ ContainedIn(k, d)}
MarkPlaces == {k \in DOMAIN document : Opens(document[k], Marks) /\ Read_(k)}
MarkAt(k) == <<document[Innermost(k, Events \cup Tasks)].id, document[k].kind>>

\* The event or task whose marks come next.
ElementInv ==
  currentProcess # Null =>
    \A k \in 1 .. position - 1 :
      Opens(document[k], Events \cup Tasks) /\ (\A c \in k + 1 .. position - 1 : document[c].kind \in Marks)
        => currentElement = document[k].id

ContentInv ==
  /\ \A d \in Ids :
       /\ Elements(d) = {document[i] : i \in PlacesIn(FlowObjectTags, d) \cap 1 .. position - 1}
       /\ Flows(d) = {document[i] : i \in PlacesIn({"sequenceFlow"}, d) \cap 1 .. position - 1}
  /\ marked = {MarkAt(i) : i \in MarkPlaces \cap 1 .. position - 1}
  /\ \A k \in 1 .. position - 1 : Opens(document[k], {"otherGateway"}) /\ Read_(k) => parseErrors # {}
  /\ ElementInv

LEMMA PlacesStay ==
  ASSUME UNCHANGED document
  PROVE  /\ \A k : Read_(k)' <=> Read_(k)
         /\ \A kinds, d : PlacesIn(kinds, d)' = PlacesIn(kinds, d)
         /\ MarkPlaces' = MarkPlaces
         /\ \A k : MarkAt(k)' = MarkAt(k)
<1>1. \A k, kinds : Innermost(k, kinds)' = Innermost(k, kinds)
  <2> TAKE k, kinds
  <2>1. OpenAround(k, kinds)' = OpenAround(k, kinds)
    BY AroundStays
  <2>2. QED
    BY <2>1 DEF Innermost
<1>2. \A k : Read_(k)' <=> Read_(k)
  <2> TAKE k
  <2>1. OpenAround(k, {"process"})' = OpenAround(k, {"process"})
    BY AroundStays
  <2>2. QED
    BY <2>1 DEF Read_
<1>3. \A k, d : ContainedIn(k, d)' <=> ContainedIn(k, d)
  BY <1>1, <1>2 DEF ContainedIn
<1>4. QED
  BY <1>1, <1>2, <1>3 DEF PlacesIn, MarkPlaces, MarkAt, Opens

\* The parser knows whether the next tag is read, and in which definition it is.
LEMMA PlaceIsKnown ==
  ASSUME ParserInv, StackInv, position \in DOMAIN document, Opens(tag, ElementTags \cup Marks)
  PROVE  /\ Read_(position) <=> currentProcess # Null
         /\ \A d \in Ids : ContainedIn(position, d) <=> d = currentProcess
<1>1. PICK path \in Seq(Nat) : IsPath(path) /\ Follows(path)
  BY DEF StackInv
<1>2. path # << >>
  BY <1>1, TagIsNested, PathFacts
<1>3. /\ OpenAround(position, {"process"}) = {path[1]}
      /\ Len(path) \in DOMAIN path /\ path[Len(path)] \in 1 .. position - 1 /\ position \in Nat
      /\ \A k \in OpenAround(position, Containers) : k <= path[Len(path)]
  BY <1>1, <1>2, PathFacts DEF ParserInv
<1>4. Read_(position) <=> document[path[1]].executable
  BY <1>3 DEF Read_
<1>5. currentProcess # Null <=> document[path[1]].executable
  BY <1>1, <1>2, PathIsRead
<1>6. Innermost(position, Containers) = path[Len(path)]
  <2>1. path[Len(path)] \in OpenAround(position, Containers)
    BY <1>1, <1>3 DEF IsPath
  <2>2. OpenAround(position, Containers) \subseteq 1 .. position - 1
    BY AroundType
  <2>3. \A k, l \in 1 .. position - 1 : k <= l /\ l <= k => k = l
    BY <1>3
  <2>4. \A k \in OpenAround(position, Containers) :
          (\A l \in OpenAround(position, Containers) : l <= k) => k = path[Len(path)]
    BY <1>3, <2>1, <2>2, <2>3
  <2>5. QED
    BY <1>3, <2>1, <2>4 DEF Innermost, Latest
<1>7. document[path[1]].executable => currentProcess = document[path[Len(path)]].id
  BY <1>1, <1>2 DEF Follows
<1>8. \A d \in Ids : d # Null
  BY DocumentsAssumption DEF DocumentsAssumption
<1>9. QED
  BY <1>4, <1>5, <1>6, <1>7, <1>8 DEF ContainedIn

\* What reading a tag adds.
Adds ==
  LET read(kinds) == Opens(tag, kinds) /\ currentProcess # Null IN
  /\ flowObjects' = IF read(FlowObjectTags) THEN Contain(flowObjects, currentProcess) ELSE flowObjects
  /\ sequenceFlows' = IF read({"sequenceFlow"}) THEN Contain(sequenceFlows, currentProcess) ELSE sequenceFlows
  /\ marked' = IF read(Marks) THEN marked \cup {<<currentElement, tag.kind>>} ELSE marked
  /\ read(ElementTags) => currentElement' = tag.id
  /\ tag.kind \in Marks => UNCHANGED <<currentElement, currentProcess>>
  /\ Opens(tag, Events \cup Tasks) => UNCHANGED currentProcess
  /\ parseErrors # {} \/ read({"otherGateway"}) => parseErrors' # {}

LEMMA ParseTagAdds ==
  ASSUME ParseTag
  PROVE  Adds
<1> USE DEF Adds, Opens, parserVars, definitionVars, Read, ElementTags, FlowObjectTags, FlowObjects,
            Tasks, WaitTasks, Events, Gateways, Marks
<1>1. CASE OpenCollaboration \/ OpenProcess
  BY <1>1 DEF OpenCollaboration, OpenProcess
<1>2. CASE OpenParticipant \/ OpenMessageFlow \/ OpenDebugger
  BY <1>2 DEF OpenParticipant, OpenMessageFlow, OpenDebugger
<1>3. CASE OpenFlowObject
  BY <1>3 DEF OpenFlowObject, AddFlowObject
<1>4. CASE OpenOtherGateway
  BY <1>4 DEF OpenOtherGateway, AddFlowObject
<1>5. CASE OpenSequenceFlow
  BY <1>5 DEF OpenSequenceFlow
<1>6. CASE OpenMark
  BY <1>6 DEF OpenMark
<1>7. CASE OpenSubProcess
  BY <1>7 DEF OpenSubProcess, AddFlowObject
<1>8. CASE CloseSubProcess
  BY <1>8 DEF CloseSubProcess
<1>9. CASE SkipTag
  BY <1>9 DEF SkipTag
<1>10. QED
  BY <1>1, <1>2, <1>3, <1>4, <1>5, <1>6, <1>7, <1>8, <1>9 DEF ParseTag

\* A place more.
LEMMA PlacesGrow ==
  ASSUME ParserInv, position' = position + 1, NEW S
  PROVE  /\ position \in S => S \cap 1 .. position' - 1 = (S \cap 1 .. position - 1) \cup {position}
         /\ position \notin S => S \cap 1 .. position' - 1 = S \cap 1 .. position - 1
<1>1. 1 .. position' - 1 = 1 .. position - 1 \cup {position}
  BY DEF ParserInv
<1>2. QED
  BY <1>1

LEMMA ElementsAreRead ==
  ASSUME ParserInv, StackInv, ContentInv, Reads, Adds, NEW d \in Ids
  PROVE  /\ Elements(d)' = {document[i] : i \in PlacesIn(FlowObjectTags, d) \cap 1 .. position' - 1}
         /\ Flows(d)' = {document[i] : i \in PlacesIn({"sequenceFlow"}, d) \cap 1 .. position' - 1}
<1>1. position \in DOMAIN document /\ position' = position + 1 /\ tag = document[position]
  BY DEF Reads, tag
<1>2. tag \in Content
  BY TagIsContent
<1>3. d # Null
  BY DocumentsAssumption DEF DocumentsAssumption
<1>4. ASSUME NEW kinds, kinds \subseteq ElementTags
      PROVE  position \in PlacesIn(kinds, d) <=> Opens(tag, kinds) /\ d = currentProcess
  <2>1. Opens(tag, kinds) => Opens(tag, ElementTags \cup Marks)
    BY <1>4 DEF Opens
  <2>2. QED
    BY <1>1, <2>1, PlaceIsKnown DEF PlacesIn
<1>5. /\ position \in PlacesIn(FlowObjectTags, d) <=> Opens(tag, FlowObjectTags) /\ d = currentProcess
      /\ position \in PlacesIn({"sequenceFlow"}, d) <=> Opens(tag, {"sequenceFlow"}) /\ d = currentProcess
  BY <1>4 DEF ElementTags
<1> HIDE DEF Content
<1>6. flowObjects \in [Ids -> Seq(Content)] /\ sequenceFlows \in [Ids -> Seq(Content)]
  BY DEF ParserInv
<1>7. currentProcess \in Ids \cup {Null}
  BY DEF ParserInv
<1>8. Elements(d)' = {document[i] : i \in PlacesIn(FlowObjectTags, d) \cap 1 .. position' - 1}
  <2>1. Elements(d) = {document[i] : i \in PlacesIn(FlowObjectTags, d) \cap 1 .. position - 1}
    BY DEF ContentInv
  <2>2. CASE Opens(tag, FlowObjectTags) /\ d = currentProcess
    <3>1. flowObjects'[d] = Append(flowObjects[d], tag)
      BY <1>3, <1>6, <2>2 DEF Adds, Contain
    <3>2. flowObjects[d] \in Seq(Content)
      BY <1>6
    <3>3. Elements(d)' = Elements(d) \cup {tag}
      BY <1>2, <3>1, <3>2, RangeOfAppend DEF Elements
    <3>4. PlacesIn(FlowObjectTags, d) \cap 1 .. position' - 1
            = (PlacesIn(FlowObjectTags, d) \cap 1 .. position - 1) \cup {position}
      BY <1>1, <1>5, <2>2, PlacesGrow
    <3>5. QED
      BY <1>1, <2>1, <3>3, <3>4
  <2>3. CASE ~(Opens(tag, FlowObjectTags) /\ d = currentProcess)
    <3>1. flowObjects'[d] = flowObjects[d]
      BY <1>6, <1>7, <2>3 DEF Adds, Contain
    <3>2. PlacesIn(FlowObjectTags, d) \cap 1 .. position' - 1
            = PlacesIn(FlowObjectTags, d) \cap 1 .. position - 1
      BY <1>1, <1>5, <2>3, PlacesGrow
    <3>3. QED
      BY <2>1, <3>1, <3>2 DEF Elements
  <2>4. QED
    BY <2>2, <2>3
<1>9. Flows(d)' = {document[i] : i \in PlacesIn({"sequenceFlow"}, d) \cap 1 .. position' - 1}
  <2>1. Flows(d) = {document[i] : i \in PlacesIn({"sequenceFlow"}, d) \cap 1 .. position - 1}
    BY DEF ContentInv
  <2>2. CASE Opens(tag, {"sequenceFlow"}) /\ d = currentProcess
    <3>1. sequenceFlows'[d] = Append(sequenceFlows[d], tag)
      BY <1>3, <1>6, <2>2 DEF Adds, Contain
    <3>2. sequenceFlows[d] \in Seq(Content)
      BY <1>6
    <3>3. Flows(d)' = Flows(d) \cup {tag}
      BY <1>2, <3>1, <3>2, RangeOfAppend DEF Flows
    <3>4. PlacesIn({"sequenceFlow"}, d) \cap 1 .. position' - 1
            = (PlacesIn({"sequenceFlow"}, d) \cap 1 .. position - 1) \cup {position}
      BY <1>1, <1>5, <2>2, PlacesGrow
    <3>5. QED
      BY <1>1, <2>1, <3>3, <3>4
  <2>3. CASE ~(Opens(tag, {"sequenceFlow"}) /\ d = currentProcess)
    <3>1. sequenceFlows'[d] = sequenceFlows[d]
      BY <1>6, <1>7, <2>3 DEF Adds, Contain
    <3>2. PlacesIn({"sequenceFlow"}, d) \cap 1 .. position' - 1
            = PlacesIn({"sequenceFlow"}, d) \cap 1 .. position - 1
      BY <1>1, <1>5, <2>3, PlacesGrow
    <3>3. QED
      BY <2>1, <3>1, <3>2 DEF Flows
  <2>4. QED
    BY <2>2, <2>3
<1>10. QED
  BY <1>8, <1>9

\* A mark is one of the current element.
LEMMA MarksAreRead ==
  ASSUME ParserInv, StackInv, ContentInv, Reads, Adds
  PROVE  marked' = {MarkAt(i) : i \in MarkPlaces \cap 1 .. position' - 1}
<1>1. /\ position \in DOMAIN document /\ position' = position + 1 /\ tag = document[position]
      /\ position \in Nat
  BY DEF Reads, tag, ParserInv
<1>2. marked = {MarkAt(i) : i \in MarkPlaces \cap 1 .. position - 1}
  BY DEF ContentInv
<1>3. position \in MarkPlaces <=> Opens(tag, Marks) /\ currentProcess # Null
  <2>1. Opens(tag, Marks) => Opens(tag, ElementTags \cup Marks)
    BY DEF Opens
  <2>2. QED
    BY <1>1, <2>1, PlaceIsKnown DEF MarkPlaces
<1>4. CASE ~(Opens(tag, Marks) /\ currentProcess # Null)
  <2>1. marked' = marked
    BY <1>4 DEF Adds
  <2>2. MarkPlaces \cap 1 .. position' - 1 = MarkPlaces \cap 1 .. position - 1
    BY <1>1, <1>3, <1>4, PlacesGrow
  <2>3. QED
    BY <1>2, <2>1, <2>2
<1>5. CASE Opens(tag, Marks) /\ currentProcess # Null
  <2>1. PICK k \in OpenAround(position, Events \cup Tasks) :
          \A c \in k + 1 .. position - 1 : document[c].kind \in Marks
    BY <1>1, <1>5, TagIsNested
  <2>2. /\ k \in 1 .. position - 1 /\ Opens(document[k], Events \cup Tasks)
        /\ \A l \in OpenAround(position, Events \cup Tasks) :
             l \in 1 .. position - 1 /\ Opens(document[l], Events \cup Tasks)
    BY <1>1, <2>1, AroundType
  <2>3. currentElement = document[k].id
    BY <1>5, <2>1, <2>2 DEF ContentInv, ElementInv
  <2>4. \A l \in OpenAround(position, Events \cup Tasks) : l <= k
    <3>1. Marks \cap (Events \cup Tasks) = {}
      BY DEF Marks, Events, Tasks, WaitTasks
    <3>2. \A l \in OpenAround(position, Events \cup Tasks) : l \notin k + 1 .. position - 1
      BY <2>1, <2>2, <3>1 DEF Opens
    <3>3. \A l \in 1 .. position - 1 : l \in k + 1 .. position - 1 \/ l <= k
      BY <1>1, <2>2
    <3>4. QED
      BY <2>2, <3>2, <3>3
  <2>5. Innermost(position, Events \cup Tasks) = k
    <3>1. \A l \in OpenAround(position, Events \cup Tasks) : l <= k /\ k <= l => l = k
      BY <1>1, <2>2
    <3>2. QED
      BY <2>1, <2>4, <3>1 DEF Innermost, Latest
  <2>6. MarkAt(position) = <<currentElement, tag.kind>>
    BY <1>1, <2>3, <2>5 DEF MarkAt
  <2>7. marked' = marked \cup {MarkAt(position)}
    BY <1>5, <2>6 DEF Adds
  <2>8. MarkPlaces \cap 1 .. position' - 1 = (MarkPlaces \cap 1 .. position - 1) \cup {position}
    BY <1>1, <1>3, <1>5, PlacesGrow
  <2>9. QED
    BY <1>2, <2>7, <2>8
<1>6. QED
  BY <1>4, <1>5

LEMMA ElementStep ==
  ASSUME ParserInv, ElementInv, Reads, Adds
  PROVE  ElementInv'
<1>1. /\ position' = position + 1 /\ position \in Nat \ {0} /\ UNCHANGED document
      /\ tag = document[position]
  BY DEF Reads, ParserInv, tag
<1> SUFFICES ASSUME currentProcess' # Null, NEW k \in 1 .. position' - 1,
                    Opens(document[k], Events \cup Tasks),
                    \A c \in k + 1 .. position' - 1 : document[c].kind \in Marks
             PROVE  currentElement' = document[k].id
  BY <1>1 DEF ElementInv, Opens
<1>2. CASE k = position
  <2>1. Opens(tag, Events \cup Tasks) /\ Opens(tag, ElementTags)
    BY <1>1, <1>2 DEF Opens, ElementTags, FlowObjectTags, FlowObjects
  <2>2. currentProcess # Null
    BY <2>1 DEF Adds
  <2>3. QED
    BY <1>1, <1>2, <2>1, <2>2 DEF Adds
<1>3. CASE k # position
  <2>1. k \in 1 .. position - 1 /\ position \in k + 1 .. position' - 1
    BY <1>1, <1>3
  <2>2. \A c \in k + 1 .. position - 1 : c \in k + 1 .. position' - 1
    BY <1>1
  <2>3. UNCHANGED <<currentElement, currentProcess>>
    BY <1>1, <2>1 DEF Adds
  <2>4. QED
    BY <2>1, <2>2, <2>3 DEF ElementInv
<1>4. QED
  BY <1>2, <1>3

LEMMA ContentStep ==
  ASSUME ParserInv, StackInv, ContentInv, ParseTag
  PROVE  ContentInv'
<1>1. Reads /\ Adds
  BY ParseTagReads, ParseTagAdds
<1>2. /\ position \in DOMAIN document /\ position' = position + 1 /\ UNCHANGED document
      /\ tag = document[position] /\ position \in Nat
  BY <1>1 DEF Reads, tag, ParserInv
<1>3. \A d \in Ids :
        /\ Elements(d)' = {document[i] : i \in PlacesIn(FlowObjectTags, d) \cap 1 .. position' - 1}
        /\ Flows(d)' = {document[i] : i \in PlacesIn({"sequenceFlow"}, d) \cap 1 .. position' - 1}
  BY <1>1, ElementsAreRead
<1>4. marked' = {MarkAt(i) : i \in MarkPlaces \cap 1 .. position' - 1}
  BY <1>1, MarksAreRead
<1>5. ASSUME NEW k \in 1 .. position' - 1, Opens(document[k], {"otherGateway"}), Read_(k)
      PROVE  parseErrors' # {}
  <2>1. CASE k = position
    <3>1. Opens(tag, {"otherGateway"}) /\ Opens(tag, ElementTags \cup Marks)
      BY <1>2, <1>5, <2>1 DEF Opens, ElementTags, FlowObjectTags
    <3>2. currentProcess # Null
      BY <1>2, <1>5, <2>1, <3>1, PlaceIsKnown
    <3>3. QED
      BY <1>1, <3>1, <3>2 DEF Adds
  <2>2. CASE k # position
    <3>1. k \in 1 .. position - 1
      BY <1>2, <2>2
    <3>2. QED
      BY <1>1, <1>5, <3>1 DEF ContentInv, Adds
  <2>3. QED
    BY <2>1, <2>2
<1>6. ElementInv'
  BY <1>1, ElementStep DEF ContentInv
<1>7. \A k \in 1 .. position' - 1 : Opens(document[k], {"otherGateway"})' /\ Read_(k)' => parseErrors' # {}
  BY <1>2, <1>5, PlacesStay DEF Opens
<1>8. /\ \A d \in Ids :
           /\ Elements(d)' = {document'[i] : i \in PlacesIn(FlowObjectTags, d)' \cap 1 .. position' - 1}
           /\ Flows(d)' = {document'[i] : i \in PlacesIn({"sequenceFlow"}, d)' \cap 1 .. position' - 1}
      /\ marked' = {MarkAt(i)' : i \in MarkPlaces' \cap 1 .. position' - 1}
  BY <1>2, <1>3, <1>4, PlacesStay
<1>9. QED
  BY <1>6, <1>7, <1>8 DEF ContentInv

\* The parser's place and what it has read, while it reads; what it has read when it is
\* done.
ReadInPlace ==
  /\ \A d \in Ids :
       /\ Elements(d) = {document[i] : i \in {k \in Opened(FlowObjects \cup {"subProcess"}) :
                                                ContainedIn(k, d)}}
       /\ Flows(d) = {document[i] : i \in {k \in Opened({"sequenceFlow"}) : ContainedIn(k, d)}}
  /\ marked = {MarkAt(i) : i \in {k \in Opened(Marks) : Read_(k)}}

NestingInv ==
  /\ phase = "parsing" => StackInv /\ ContentInv
  /\ phase = "attaching" => ReadInPlace

LEMMA NestingInit ==
  ASSUME Init
  PROVE  NestingInv
<1>1. /\ document \in Documents /\ position = 1 /\ processStack = << >> /\ currentProcess = Null
      /\ phase = "parsing"
  BY DEF Init
<1>2. 1 .. position - 1 = {}
  BY <1>1
<1>3. StackInv
  <2>1. OpenAround(position, Containers) = {}
    BY <1>2 DEF OpenAround, Around
  <2>2. << >> \in Seq(Nat) /\ DOMAIN << >> = {}
    OBVIOUS
  <2>3. IsPath(<< >>)
    BY <2>1, <2>2 DEF IsPath
  <2>4. Follows(<< >>)
    BY <1>1 DEF Follows
  <2>5. QED
    BY <2>2, <2>3, <2>4 DEF StackInv
<1>4. ContentInv
  <2>1. \A d \in Ids : Elements(d) = {} /\ Flows(d) = {}
    BY DEF Init, Elements, Flows
  <2>2. marked = {}
    BY DEF Init
  <2>3. QED
    BY <1>1, <1>2, <2>1, <2>2 DEF ContentInv, ElementInv
<1>5. QED
  BY <1>1, <1>3, <1>4 DEF NestingInv

\* When everything is read without an error, no place is left out.
LEMMA NestedWhenRead ==
  ASSUME ParserInv, ContentInv, position > Len(document), parseErrors = {}
  PROVE  ReadInPlace
<1>1. DOMAIN document \subseteq 1 .. position - 1
  BY DocumentType DEF ParserInv
<1>2. \A kinds, d : PlacesIn(kinds, d) \cap 1 .. position - 1 = {k \in Opened(kinds) : ContainedIn(k, d)}
  BY <1>1 DEF PlacesIn, Opened, Opens
<1>3. MarkPlaces \cap 1 .. position - 1 = {k \in Opened(Marks) : Read_(k)}
  BY <1>1 DEF MarkPlaces, Opened, Opens
<1>4. ASSUME NEW d
      PROVE  {k \in Opened(FlowObjectTags) : ContainedIn(k, d)}
               = {k \in Opened(FlowObjects \cup {"subProcess"}) : ContainedIn(k, d)}
  <2>1. \A k \in Opened({"otherGateway"}) : ~Read_(k)
    BY <1>1 DEF ContentInv, Opened, Opens
  <2>2. QED
    BY <2>1 DEF Opened, FlowObjectTags, ContainedIn
<1>5. \A d \in Ids :
        /\ Elements(d) = {document[i] : i \in {k \in Opened(FlowObjects \cup {"subProcess"}) :
                                                 ContainedIn(k, d)}}
        /\ Flows(d) = {document[i] : i \in {k \in Opened({"sequenceFlow"}) : ContainedIn(k, d)}}
  BY <1>2, <1>4 DEF ContentInv
<1>6. marked = {MarkAt(i) : i \in {k \in Opened(Marks) : Read_(k)}}
  BY <1>3 DEF ContentInv
<1>7. QED
  BY <1>5, <1>6 DEF ReadInPlace

LEMMA ReadStays ==
  ASSUME ReadInPlace, UNCHANGED <<document, definitionVars>>
  PROVE  ReadInPlace'
<1>1. UNCHANGED <<flowObjects, sequenceFlows, marked>>
  BY DEF definitionVars
<1>2. \A d : Elements(d)' = Elements(d) /\ Flows(d)' = Flows(d)
  BY <1>1 DEF Elements, Flows
<1>3. \A kinds, d : {k \in Opened(kinds) : ContainedIn(k, d)}' = {k \in Opened(kinds) : ContainedIn(k, d)}
  BY PlacesStay DEF PlacesIn, Opened, Opens
<1>4. {k \in Opened(Marks) : Read_(k)}' = {k \in Opened(Marks) : Read_(k)}
  BY PlacesStay DEF MarkPlaces, Opened, Opens
<1>5. \A k : MarkAt(k)' = MarkAt(k)
  BY PlacesStay
<1>6. QED
  BY <1>1, <1>2, <1>3, <1>4, <1>5 DEF ReadInPlace

LEMMA ParserStays ==
  ASSUME StackInv, ContentInv, UNCHANGED <<document, position, parserVars, definitionVars, parseErrors>>
  PROVE  StackInv' /\ ContentInv'
<1>1. UNCHANGED <<processStack, currentProcess, currentElement, flowObjects, sequenceFlows, marked>>
  BY DEF parserVars, definitionVars
<1>2. OpenAround(position, Containers)' = OpenAround(position, Containers)
  BY DEF OpenAround, Around, Opens
<1>3. PICK path \in Seq(Nat) : IsPath(path) /\ Follows(path)
  BY DEF StackInv
<1>4. IsPath(path)' /\ Follows(path)'
  BY <1>1, <1>2, <1>3 DEF IsPath, Follows
<1>5. StackInv'
  BY <1>3, <1>4 DEF StackInv
<1>6. \A d : Elements(d)' = Elements(d) /\ Flows(d)' = Flows(d)
  BY <1>1 DEF Elements, Flows
<1>7. ElementInv'
  BY <1>1 DEF ContentInv, ElementInv, Opens
<1>8. ContentInv'
  BY <1>1, <1>6, <1>7, PlacesStay DEF ContentInv, Opens
<1>9. QED
  BY <1>5, <1>8

LEMMA NestingNext ==
  ASSUME ParserInv, NestingInv, [Next]_vars
  PROVE  NestingInv'
<1>1. CASE ParseTag
  <2>1. phase = "parsing" /\ UNCHANGED phase
    <3>1. UNCHANGED phase
      BY <1>1, ParseTagReads DEF Reads
    <3>2. phase = "parsing"
      BY <1>1 DEF ParseTag, Read, OpenCollaboration, OpenParticipant, OpenMessageFlow, OpenProcess,
                  OpenFlowObject, OpenOtherGateway, OpenSequenceFlow, OpenMark, OpenSubProcess,
                  CloseSubProcess, OpenDebugger, SkipTag
    <3>3. QED
      BY <3>1, <3>2
  <2>2. QED
    BY <1>1, <2>1, StackStep, ContentStep DEF NestingInv
<1>2. CASE ParsingEnds
  <2>1. /\ phase = "parsing" /\ position > Len(document)
        /\ phase' = IF parseErrors = {} THEN "attaching" ELSE "refused"
        /\ UNCHANGED <<document, definitionVars>>
    BY <1>2, DocumentType DEF ParsingEnds, ParserInv
  <2>2. CASE parseErrors = {}
    <3>1. ContentInv
      BY <2>1 DEF NestingInv
    <3>2. ReadInPlace
      BY <2>1, <2>2, <3>1, NestedWhenRead
    <3>3. QED
      BY <2>1, <2>2, <3>2, ReadStays DEF NestingInv
  <2>3. CASE parseErrors # {}
    BY <2>1, <2>3 DEF NestingInv
  <2>4. QED
    BY <2>2, <2>3
<1>3. CASE UNCHANGED vars
  BY <1>3, ParserStays, ReadStays DEF NestingInv, vars
<1>4. ASSUME Attach \/ AttachingEnds \/ \E d \in Definitions, ks \in Lookups : LookUp(d, ks)
      PROVE  NestingInv'
  <2>1. /\ phase \in {"attaching", "ready"} /\ UNCHANGED <<document, definitionVars>>
        /\ phase' \in {phase, "ready", "refused"}
    BY <1>4 DEF Attach, AttachingEnds, LookUp
  <2>2. QED
    BY <2>1, ReadStays DEF NestingInv
<1>5. QED
  BY <1>1, <1>2, <1>3, <1>4 DEF Next

\* In every well-formed file, however processes and sub-processes are nested and follow
\* each other, what is read is in the innermost definition around it, and a timer or
\* message is one of the element it is written in (parser.js:140-191).
THEOREM ReadElementsAreNested == Spec => []ElementsAreNested
<1>1. Init => NestingInv
  BY NestingInit
<1>2. Spec => []ParserInv
  BY DefinitionsInvHolds, PTL
<1>3. ParserInv /\ NestingInv /\ [Next]_vars => NestingInv'
  BY NestingNext
<1>4. NestingInv => ElementsAreNested
  BY DEF NestingInv, ReadInPlace, ElementsAreNested, MarkAt
<1>5. QED
  BY <1>1, <1>2, <1>3, <1>4, PTL DEF Spec
===============================================================================
