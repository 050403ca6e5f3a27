-------------------------- MODULE Persistency_proofs --------------------------
(****************************************************************************)
(* Both persistency layers answer once, keep one document per process and   *)
(* implement DocumentStore, for any number of calls and processes.          *)
(****************************************************************************)
EXTENDS Persistency, FiniteSetTheorems, TLAPS

Documents   == [by : Calls, proc : Procs, state : Nat]
CallRecords == [op : Ops, proc : Procs, since : Nat]
Results     == {NoResult, Failure} \cup [tag : {"done"}, docs : SUBSET Documents]

TypeInv ==
  /\ live \in [Procs -> Nat]
  /\ documents \subseteq Documents
  /\ call \in [Calls -> {NotCalled} \cup CallRecords]
  /\ stage \in [Calls -> Stages]
  /\ answers \in [Calls -> Nat]
  /\ result \in [Calls -> Results]
  /\ trouble \subseteq Troubles
  /\ connection \in Calls \cup {Nobody}
  /\ emitter \in Calls \cup {Nobody}
  /\ listens \in [Calls -> Calls \cup {Nobody}]
  /\ closes \in [Calls -> Calls \cup {Nobody}]
  /\ onWire \subseteq [call : Calls, db : Calls, state : Nat]
  /\ found \in [Calls -> SUBSET Documents]
  /\ implementation \in {"mongodb", "file"}

\* What a stage says of the call.
StageInv ==
  /\ emitter # Nobody => call[emitter] # NotCalled
  /\ \A c \in Calls :
       /\ stage[c] = "none" <=> call[c] = NotCalled
       /\ call[c] # NotCalled => call[c].since <= live[call[c].proc]
       /\ stage[c] = "closing" => call[c].op = "close"
       /\ stage[c] \in {"inserting", "updating"} => call[c].op = "persist"
       /\ listens[c] # Nobody => call[c] # NotCalled /\ call[listens[c]] # NotCalled

\* Calls on their way to the server carry a state the process had since the call.
WireInv ==
  \A o \in onWire :
    /\ call[o.call] # NotCalled
    /\ call[o.call].since <= o.state
    /\ o.state <= live[call[o.call].proc]

\* Documents belong to the process of the call that inserted them.
OwnerInv ==
  /\ \A d \in documents : call[d.by] # NotCalled /\ d.proc = call[d.by].proc
  /\ \A c \in Calls : \A d \in found[c] :
       /\ call[d.by] # NotCalled /\ d.proc = call[d.by].proc
       /\ call[c] # NotCalled /\ d.proc = call[c].proc

CloseIsAlone == "close is not alone" \notin trouble

AnswerInv ==
  CloseIsAlone =>
    \A c \in Calls :
      /\ answers[c] = IF stage[c] = "answered" THEN 1 ELSE 0
      /\ stage[c] # "answered" => result[c] = NoResult

\* Who waits for a connection waits for one that is being opened.
EmitterOK ==
  /\ connection = Nobody /\ emitter # Nobody => stage[emitter] = "opening"
  /\ \A c \in Calls :
       /\ stage[c] = "opening" => emitter = c /\ connection = Nobody
       /\ stage[c] = "listening" <=>
            emitter # Nobody /\ listens[c] = emitter /\ stage[emitter] = "opening"

ClosingOK == \A c \in Calls : stage[c] = "closing" => \A d \in Calls \ {c} : ~InFlight(d)

WiredOK ==
  /\ \A o \in onWire : stage[o.call] = "sent"
  /\ \A o, q \in onWire : o.call = q.call => o = q

ConnectionInv ==
  CloseIsAlone /\ implementation = "mongodb" => EmitterOK /\ ClosingOK /\ WiredOK

SavesAreAlone == trouble \cap {"saves overlap", "find failed"} = {}

OneEach == \A d, e \in documents : d.proc = e.proc => d = e

\* Nobody inserts a document for a process that has one or is about to get one.
SavesApart ==
  \A c, d \in Calls :
    c # d /\ InFlight(c) /\ InFlight(d) /\ call[c].op = "persist" /\ call[d].op = "persist"
    => call[c].proc # call[d].proc

InsertsNew ==
  \A c \in Calls : stage[c] = "inserting" => \A d \in documents : d.proc # call[c].proc

SaveInv ==
  SavesAreAlone => OneEach /\ (implementation = "file" => SavesApart /\ InsertsNew)

Inv ==
  /\ TypeInv /\ StageInv /\ WireInv /\ OwnerInv
  /\ AnswerInv /\ ConnectionInv /\ SaveInv
-----------------------------------------------------------------------------
(****************************************************************************)
(* Types.                                                                   *)
(****************************************************************************)
PhaseType ==
  /\ stage \in [Calls -> Stages]
  /\ answers \in [Calls -> Nat]
  /\ result \in [Calls -> Results]

CallsType ==
  /\ live \in [Procs -> Nat]
  /\ documents \subseteq Documents
  /\ call \in [Calls -> {NotCalled} \cup CallRecords]
  /\ trouble \subseteq Troubles

MongoType ==
  /\ connection \in Calls \cup {Nobody}
  /\ emitter \in Calls \cup {Nobody}
  /\ listens \in [Calls -> Calls \cup {Nobody}]
  /\ closes \in [Calls -> Calls \cup {Nobody}]
  /\ onWire \subseteq [call : Calls, db : Calls, state : Nat]

LEMMA TypeParts ==
  TypeInv <=> /\ PhaseType /\ CallsType /\ MongoType
              /\ found \in [Calls -> SUBSET Documents]
              /\ implementation \in {"mongodb", "file"}
  BY DEF TypeInv, PhaseType, CallsType, MongoType

LEMMA TypePartsNext ==
  ASSUME PhaseType', CallsType', MongoType', found' \in [Calls -> SUBSET Documents],
         implementation' \in {"mongodb", "file"}
  PROVE  TypeInv'
  BY DEF TypeInv, PhaseType, CallsType, MongoType

LEMMA TypeInit == Init => TypeInv
<1> SUFFICES ASSUME Init PROVE TypeInv
  OBVIOUS
<1>1. PhaseType
  BY DEF Init, CallsInit, PhaseType, Stages, Results
<1>2. CallsType
  BY DEF Init, CallsInit, CallsType, Troubles
<1>3. MongoType
  BY DEF Init, MongoInit, MongoType
<1>4. found \in [Calls -> SUBSET Documents] /\ implementation \in {"mongodb", "file"}
  BY DEF Init, FileInit, Documents
<1>5. QED
  BY <1>1, <1>2, <1>3, <1>4, TypeParts

LEMMA StageNames ==
  {"none", "answered", "opening", "listening", "sent", "closing", "thrown", "connecting",
   "finding", "inserting", "updating", "unanswered"} = Stages
  BY DEF Stages

LEMMA DoneIsResult == ASSUME NEW D \in SUBSET Documents PROVE Done(D) \in Results
  BY DEF Done, Results

LEMMA FailureIsResult == Failure \in Results
  BY DEF Results

LEMMA FoundIsDocuments ==
  ASSUME CallsType, NEW c \in Calls
  PROVE  Found(c) \in SUBSET Documents /\ DocumentsOf(call[c].proc) \in SUBSET Documents
  BY DEF CallsType, Found, DocumentsOf

LEMMA BecomesType ==
  ASSUME PhaseType, NEW c \in Calls, NEW st \in Stages, Becomes(c, st)
  PROVE  PhaseType'
  BY DEF PhaseType, Becomes

LEMMA AnswerAllType ==
  ASSUME PhaseType, NEW cs, NEW res \in Results, AnswerAll(cs, res)
  PROVE  PhaseType'
<1>1. "answered" \in Stages
  BY DEF Stages
<1>2. QED
  BY <1>1 DEF PhaseType, AnswerAll

LEMMA AnswerType ==
  ASSUME PhaseType, NEW c, NEW res \in Results, Answer(c, res)
  PROVE  PhaseType'
  BY AnswerAllType DEF Answer

LEMMA RequestType ==
  ASSUME CallsType, NEW c \in Calls, NEW op \in Ops, NEW p \in Procs, Request(c, op, p)
  PROVE  CallsType'
<1>1. [op |-> op, proc |-> p, since |-> live[p]] \in CallRecords
  BY DEF CallsType, CallRecords
<1>2. TroubleOf(op, p) \subseteq Troubles
  BY DEF TroubleOf
<1>3. QED
  BY <1>1, <1>2 DEF CallsType, Request

LEMMA RecordOf ==
  ASSUME CallsType, NEW c \in Calls, call[c] # NotCalled
  PROVE  call[c] \in CallRecords /\ call[c].proc \in Procs /\ live[call[c].proc] \in Nat
  BY DEF CallsType, CallRecords

LEMMA InsertType ==
  ASSUME documents \subseteq Documents, NEW c \in Calls, call[c].proc \in Procs,
         NEW state \in Nat, Insert(c, state)
  PROVE  documents' \subseteq Documents
  BY DEF Insert, Documents

LEMMA UpdateType ==
  ASSUME documents \subseteq Documents, NEW d \in documents, NEW state \in Nat,
         Update(d, state)
  PROVE  documents' \subseteq Documents
  BY DEF Update, Documents

LEMMA TypeStep ==
  ASSUME TypeInv, StageInv, [Next]_vars
  PROVE  TypeInv'
<1>1. ASSUME NEW c \in Calls, NEW p \in Procs, NEW op \in Ops, Execute(c, op, p),
             implementation = "mongodb", UNCHANGED <<found, implementation>>
      PROVE  TypeInv'
  <2>1. PhaseType'
    BY <1>1, TypeParts, BecomesType, StageNames DEF Execute
  <2>2. CallsType'
    BY <1>1, RequestType, TypeParts DEF Execute
  <2>3. MongoType'
    BY <1>1, TypeParts DEF Execute, MongoType, CallsType
  <2>4. QED
    BY <1>1, <2>1, <2>2, <2>3, TypeParts, TypePartsNext DEF MongoType, mongoVars
<1>2. ASSUME NEW c \in Calls, NEW p \in Procs, Close(c, p),
             implementation = "mongodb", UNCHANGED <<found, implementation>>
      PROVE  TypeInv'
  <2>1. PhaseType'
    BY <1>2, TypeParts, BecomesType, AnswerType, DoneIsResult, StageNames DEF Close
  <2>2. CallsType'
    BY <1>2, RequestType, TypeParts DEF Close, Ops
  <2>3. MongoType'
    BY <1>2, TypeParts DEF Close, MongoType
  <2>4. QED
    BY <1>2, <2>1, <2>2, <2>3, TypeParts, TypePartsNext DEF MongoType, mongoVars
<1>3. ASSUME NEW c \in Calls, Connected(c),
             implementation = "mongodb", UNCHANGED <<found, implementation>>
      PROVE  TypeInv'
  <2>1. PhaseType'
    <3>1. CASE emitter # Nobody
      <4>1. "sent" \in Stages
        BY StageNames
      <4>2. QED
        BY <1>3, <3>1, <4>1, TypeParts DEF Connected, PhaseType
    <3>2. CASE emitter = Nobody
      BY <1>3, <3>2, TypeParts, BecomesType, StageNames DEF Connected
    <3>3. QED
      BY <3>1, <3>2
  <2>2. CallsType'
    BY <1>3, TypeParts DEF Connected, CallsType
  <2>3. MongoType'
    <3>1. ASSUME NEW cs \in SUBSET Calls, \A d \in cs : call[d] # NotCalled
          PROVE  Wire(cs, c) \subseteq [call : Calls, db : Calls, state : Nat]
      BY <3>1, TypeParts, RecordOf DEF Wire
    <3>2. \A d \in Listeners \cup {c} : d \in Calls /\ call[d] # NotCalled
      BY <1>3 DEF Connected, Listeners, StageInv
    <3>3. onWire' \subseteq [call : Calls, db : Calls, state : Nat]
      BY <1>3, <3>1, <3>2, TypeParts DEF Connected, MongoType
    <3>4. QED
      BY <1>3, <3>3, TypeParts DEF Connected, MongoType
  <2>4. QED
    BY <1>3, <2>1, <2>2, <2>3, TypeParts, TypePartsNext DEF MongoType, mongoVars
<1>4. ASSUME NEW c \in Calls, NotConnected(c),
             implementation = "mongodb", UNCHANGED <<found, implementation>>
      PROVE  TypeInv'
  <2>1. PhaseType'
    BY <1>4, TypeParts, BecomesType, AnswerAllType, FailureIsResult, StageNames
       DEF NotConnected
  <2>2. CallsType'
    BY <1>4, TypeParts DEF NotConnected, CallsType
  <2>3. MongoType'
    BY <1>4, TypeParts DEF NotConnected, MongoType, Reset
  <2>4. QED
    BY <1>4, <2>1, <2>2, <2>3, TypeParts, TypePartsNext DEF MongoType, mongoVars
<1>5. ASSUME NEW c \in Calls, Closed(c),
             implementation = "mongodb", UNCHANGED <<found, implementation>>
      PROVE  TypeInv'
  <2>1. PhaseType'
    BY <1>5, TypeParts, AnswerType, DoneIsResult DEF Closed
  <2>2. CallsType'
    BY <1>5, TypeParts DEF Closed, CallsType
  <2>3. MongoType'
    BY <1>5, TypeParts DEF Closed, MongoType, Reset
  <2>4. QED
    BY <1>5, <2>1, <2>2, <2>3, TypeParts, TypePartsNext DEF MongoType, mongoVars
<1>6. ASSUME NEW o \in onWire, FindAndModify(o),
             implementation = "mongodb", UNCHANGED <<found, implementation>>
      PROVE  TypeInv'
  <2>1. PhaseType'
    BY <1>6, TypeParts, AnswerType, DoneIsResult DEF FindAndModify
  <2>2. CallsType'
    <3>1. o.call \in Calls /\ o.state \in Nat /\ call[o.call].proc \in Procs
      BY <1>6, TypeParts, RecordOf DEF FindAndModify, MongoType, NotCalled
    <3>2. documents \subseteq Documents
      BY TypeParts DEF CallsType
    <3>3. documents' \subseteq Documents
      BY <1>6, <3>1, <3>2, InsertType, UpdateType DEF FindAndModify, DocumentsOf
    <3>4. QED
      BY <1>6, <3>3, TypeParts DEF FindAndModify, CallsType
  <2>3. MongoType'
    BY <1>6, TypeParts DEF FindAndModify, MongoType
  <2>4. QED
    BY <1>6, <2>1, <2>2, <2>3, TypeParts, TypePartsNext DEF MongoType, mongoVars
<1>7. ASSUME NEW o \in onWire, Find(o),
             implementation = "mongodb", UNCHANGED <<found, implementation>>
      PROVE  TypeInv'
  <2>1. PhaseType'
    BY <1>7, TypeParts, AnswerType, DoneIsResult, FailureIsResult, FoundIsDocuments
       DEF Find, MongoType
  <2>2. CallsType'
    BY <1>7, TypeParts DEF Find, CallsType
  <2>3. MongoType'
    BY <1>7, TypeParts DEF Find, MongoType
  <2>4. QED
    BY <1>7, <2>1, <2>2, <2>3, TypeParts, TypePartsNext DEF MongoType, mongoVars
<1>8. ASSUME NEW o \in onWire, DriverFails(o),
             implementation = "mongodb", UNCHANGED <<found, implementation>>
      PROVE  TypeInv'
  <2>1. PhaseType'
    BY <1>8, TypeParts, AnswerType, FailureIsResult DEF DriverFails
  <2>2. CallsType'
    BY <1>8, TypeParts DEF DriverFails, CallsType
  <2>3. MongoType'
    BY <1>8, TypeParts DEF DriverFails, MongoType
  <2>4. QED
    BY <1>8, <2>1, <2>2, <2>3, TypeParts, TypePartsNext DEF MongoType, mongoVars
<1>9. ASSUME NEW c \in Calls, NEW p \in Procs, NEW op \in Ops, FileRequest(c, op, p),
             implementation = "file", UNCHANGED <<mongoVars, implementation>>
      PROVE  TypeInv'
  <2>1. PhaseType'
    BY <1>9, TypeParts, BecomesType, StageNames DEF FileRequest
  <2>2. CallsType'
    BY <1>9, RequestType, TypeParts DEF FileRequest
  <2>3. found' \in [Calls -> SUBSET Documents]
    BY <1>9, TypeParts DEF FileRequest
  <2>4. QED
    BY <1>9, <2>1, <2>2, <2>3, TypeParts, TypePartsNext DEF MongoType, mongoVars
<1>10. ASSUME NEW c \in Calls, NEW p \in Procs, FileClose(c, p),
             implementation = "file", UNCHANGED <<mongoVars, implementation>>
      PROVE  TypeInv'
  <2>1. PhaseType'
    BY <1>10, TypeParts, BecomesType, StageNames DEF FileClose
  <2>2. CallsType'
    BY <1>10, RequestType, TypeParts DEF FileClose, Ops
  <2>3. found' \in [Calls -> SUBSET Documents]
    BY <1>10, TypeParts DEF FileClose
  <2>4. QED
    BY <1>10, <2>1, <2>2, <2>3, TypeParts, TypePartsNext DEF MongoType, mongoVars
<1>11. ASSUME NEW c \in Calls, DbConnected(c),
             implementation = "file", UNCHANGED <<mongoVars, implementation>>
      PROVE  TypeInv'
  <2>1. PhaseType'
    BY <1>11, TypeParts, BecomesType, AnswerType, FailureIsResult, StageNames
       DEF DbConnected
  <2>2. CallsType'
    BY <1>11, TypeParts DEF DbConnected, CallsType
  <2>3. found' \in [Calls -> SUBSET Documents]
    BY <1>11, TypeParts, FoundIsDocuments DEF DbConnected
  <2>4. QED
    BY <1>11, <2>1, <2>2, <2>3, TypeParts, TypePartsNext DEF MongoType, mongoVars
<1>12. ASSUME NEW c \in Calls, FoundForSave(c),
             implementation = "file", UNCHANGED <<mongoVars, implementation>>
      PROVE  TypeInv'
  <2>1. PhaseType'
    BY <1>12, TypeParts, BecomesType, AnswerType, FailureIsResult, StageNames
       DEF FoundForSave
  <2>2. CallsType'
    BY <1>12, TypeParts DEF FoundForSave, CallsType
  <2>3. found' \in [Calls -> SUBSET Documents]
    BY <1>12, TypeParts, FoundIsDocuments DEF FoundForSave
  <2>4. QED
    BY <1>12, <2>1, <2>2, <2>3, TypeParts, TypePartsNext DEF MongoType, mongoVars
<1>13. ASSUME NEW c \in Calls, FoundForLoad(c),
             implementation = "file", UNCHANGED <<mongoVars, implementation>>
      PROVE  TypeInv'
  <2>1. PhaseType'
    BY <1>13, TypeParts, AnswerType, DoneIsResult, FailureIsResult, FoundIsDocuments
       DEF FoundForLoad
  <2>2. CallsType'
    BY <1>13, TypeParts DEF FoundForLoad, CallsType
  <2>3. found' \in [Calls -> SUBSET Documents]
    BY <1>13, TypeParts, FoundIsDocuments DEF FoundForLoad
  <2>4. QED
    BY <1>13, <2>1, <2>2, <2>3, TypeParts, TypePartsNext DEF MongoType, mongoVars
<1>14. ASSUME NEW c \in Calls, FindFails(c),
             implementation = "file", UNCHANGED <<mongoVars, implementation>>
      PROVE  TypeInv'
  <2>1. PhaseType'
    BY <1>14, TypeParts, BecomesType, AnswerType, AnswerAllType, DoneIsResult,
       FailureIsResult, FoundIsDocuments, StageNames DEF FindFails
  <2>2. CallsType'
    BY <1>14, TypeParts DEF FindFails, CallsType, Troubles
  <2>3. found' \in [Calls -> SUBSET Documents]
    BY <1>14, TypeParts, FoundIsDocuments DEF FindFails
  <2>4. QED
    BY <1>14, <2>1, <2>2, <2>3, TypeParts, TypePartsNext DEF MongoType, mongoVars
<1>15. ASSUME NEW c \in Calls, DbInserted(c),
             implementation = "file", UNCHANGED <<mongoVars, implementation>>
      PROVE  TypeInv'
  <2>1. PhaseType'
    BY <1>15, TypeParts, AnswerType, DoneIsResult, FailureIsResult DEF DbInserted
  <2>2. CallsType'
    <3>1. call[c] # NotCalled
      BY <1>15 DEF DbInserted, StageInv
    <3>2. documents' \subseteq Documents
      BY <1>15, <3>1, TypeParts, RecordOf, InsertType DEF DbInserted, CallsType
    <3>3. QED
      BY <1>15, <3>2, TypeParts DEF DbInserted, CallsType
  <2>3. found' \in [Calls -> SUBSET Documents]
    BY <1>15, TypeParts, FoundIsDocuments DEF DbInserted
  <2>4. QED
    BY <1>15, <2>1, <2>2, <2>3, TypeParts, TypePartsNext DEF MongoType, mongoVars
<1>16. ASSUME NEW c \in Calls, DbUpdated(c),
             implementation = "file", UNCHANGED <<mongoVars, implementation>>
      PROVE  TypeInv'
  <2>1. PhaseType'
    BY <1>16, TypeParts, AnswerType, DoneIsResult, FailureIsResult DEF DbUpdated
  <2>2. CallsType'
    <3>1. call[c] # NotCalled
      BY <1>16 DEF DbUpdated, StageInv
    <3>2. documents' \subseteq Documents
      BY <1>16, <3>1, TypeParts, RecordOf, UpdateType DEF DbUpdated, CallsType
    <3>3. QED
      BY <1>16, <3>2, TypeParts DEF DbUpdated, CallsType
  <2>3. found' \in [Calls -> SUBSET Documents]
    BY <1>16, TypeParts, FoundIsDocuments DEF DbUpdated
  <2>4. QED
    BY <1>16, <2>1, <2>2, <2>3, TypeParts, TypePartsNext DEF MongoType, mongoVars
<1>17. ASSUME NEW p \in Procs, Change(p), UNCHANGED <<mongoVars, found, implementation>>
      PROVE  TypeInv'
  BY <1>17 DEF TypeInv, Change, mongoVars
<1>18. CASE UNCHANGED vars
  BY <1>18 DEF TypeInv, vars, callVars, mongoVars
<1>19. QED
  BY <1>1, <1>2, <1>3, <1>4, <1>5, <1>6, <1>7, <1>8, <1>9, <1>10,
     <1>11, <1>12, <1>13, <1>14, <1>15, <1>16, <1>17, <1>18
     DEF Next, MongoNext, FileNext, DriverAnswers, DbAnswers, Idle

-----------------------------------------------------------------------------
(****************************************************************************)
(* Stages of calls.                                                         *)
(****************************************************************************)
LEMMA RequestCalls ==
  ASSUME TypeInv, NEW c \in Calls, NEW op \in Ops, NEW p \in Procs, Request(c, op, p)
  PROVE  /\ call[c] = NotCalled
         /\ call'[c] \in CallRecords
         /\ call'[c].op = op /\ call'[c].proc = p /\ call'[c].since = live[p]
         /\ \A d \in Calls : d # c => call'[d] = call[d]
         /\ live' = live /\ documents' = documents
         /\ live \in [Procs -> Nat]
         /\ trouble \subseteq trouble'
<1>1. live \in [Procs -> Nat] /\ call \in [Calls -> {NotCalled} \cup CallRecords]
  BY DEF TypeInv
<1>2. QED
  BY <1>1 DEF Request, CallRecords

LEMMA CalledIsRecord == \A r \in CallRecords : r # NotCalled
  BY DEF CallRecords, NotCalled, Ops

LEMMA StagesAfterRequest ==
  ASSUME TypeInv, StageInv, NEW c \in Calls, NEW op \in Ops, NEW p \in Procs, Request(c, op, p),
         NEW st, stage' = [d \in Calls |-> IF d = c THEN st ELSE stage[d]],
         st \notin {"none", "inserting", "updating"}, st = "closing" => op = "close",
         NEW e \in Calls \cup {Nobody}, e = Nobody \/ call[e] # NotCalled,
         \A d \in Calls : listens'[d] = IF d = c THEN e ELSE listens[d],
         emitter' \in {emitter, c}
  PROVE  StageInv'
<1> SUFFICES ASSUME NEW d \in Calls
    PROVE  /\ stage'[d] = "none" <=> call'[d] = NotCalled
           /\ call'[d] # NotCalled => call'[d].since <= live'[call'[d].proc]
           /\ stage'[d] = "closing" => call'[d].op = "close"
           /\ stage'[d] \in {"inserting", "updating"} => call'[d].op = "persist"
           /\ listens'[d] # Nobody => call'[d] # NotCalled /\ call'[listens'[d]] # NotCalled
  <2>1. emitter' # Nobody => call'[emitter'] # NotCalled
    BY RequestCalls, CalledIsRecord DEF StageInv, TypeInv
  <2>2. QED
    BY <2>1 DEF StageInv
<1> USE RequestCalls, CalledIsRecord
<1>1. CASE d = c
  BY <1>1
<1>2. CASE d # c
  BY <1>2 DEF StageInv, TypeInv
<1>3. QED
  BY <1>1, <1>2

LEMMA StageStep ==
  ASSUME TypeInv, StageInv, WireInv, ConnectionInv, [Next]_vars
  PROVE  StageInv'
<1>1. ASSUME NEW c \in Calls, NEW p \in Procs, NEW op \in Ops, Execute(c, op, p),
             implementation = "mongodb", UNCHANGED <<found, implementation>>
      PROVE  StageInv'
  <2>1. /\ listens[c] = Nobody /\ stage \in [Calls -> Stages]
        /\ listens \in [Calls -> Calls \cup {Nobody}] /\ emitter \in Calls \cup {Nobody}
    BY <1>1, RequestCalls DEF Execute, StageInv, TypeInv
  <2>2. PICK st \in {"sent", "listening", "opening"} :
          stage' = [d \in Calls |-> IF d = c THEN st ELSE stage[d]]
    BY <1>1, <2>1 DEF Execute, Becomes
  <2>3. PICK e \in {Nobody, emitter} : \A d \in Calls : listens'[d] = IF d = c THEN e ELSE listens[d]
    BY <1>1, <2>1 DEF Execute
  <2>4. Request(c, op, p) /\ emitter' \in {emitter, c}
    BY <1>1 DEF Execute
  <2>5. e \in Calls \cup {Nobody} /\ (e = Nobody \/ call[e] # NotCalled)
    BY <2>1 DEF StageInv
  <2>6. QED
    BY <2>2, <2>3, <2>4, <2>5, StagesAfterRequest
<1>2. ASSUME NEW c \in Calls, NEW p \in Procs, Close(c, p),
             implementation = "mongodb", UNCHANGED <<found, implementation>>
      PROVE  StageInv'
  <2>1. listens[c] = Nobody /\ stage \in [Calls -> Stages] /\ listens \in [Calls -> Calls \cup {Nobody}]
    BY <1>2, RequestCalls DEF Close, StageInv, TypeInv, Ops
  <2>2. PICK st \in {"closing", "answered"} :
          stage' = [d \in Calls |-> IF d = c THEN st ELSE stage[d]]
    BY <1>2, <2>1 DEF Close, Becomes, Answer, AnswerAll
  <2>3. Request(c, "close", p) /\ emitter' \in {emitter, c} /\ "close" \in Ops
    BY <1>2 DEF Close, Ops
  <2>4. \A d \in Calls : listens'[d] = IF d = c THEN Nobody ELSE listens[d]
    BY <1>2, <2>1 DEF Close
  <2>5. QED
    BY <2>2, <2>3, <2>4, StagesAfterRequest
<1>3. ASSUME NEW c \in Calls, Connected(c),
             implementation = "mongodb", UNCHANGED <<found, implementation>>
      PROVE  StageInv'
  BY <1>3, TypeParts DEF StageInv, PhaseType, Connected, Listeners, Becomes
<1>4. ASSUME NEW c \in Calls, NotConnected(c),
             implementation = "mongodb", UNCHANGED <<found, implementation>>
      PROVE  StageInv'
  BY <1>4, TypeParts
     DEF StageInv, PhaseType, NotConnected, Reset, Listeners, AnswerAll, Becomes
<1>5. ASSUME NEW c \in Calls, Closed(c),
             implementation = "mongodb", UNCHANGED <<found, implementation>>
      PROVE  StageInv'
  BY <1>5 DEF StageInv, Closed, Reset, Answer, AnswerAll
<1>6. ASSUME NEW o \in onWire, FindAndModify(o),
             implementation = "mongodb", UNCHANGED <<found, implementation>>
      PROVE  StageInv'
  BY <1>6 DEF StageInv, NotCalled, FindAndModify, Answer, AnswerAll
<1>7. ASSUME NEW o \in onWire, Find(o),
             implementation = "mongodb", UNCHANGED <<found, implementation>>
      PROVE  StageInv'
  BY <1>7 DEF StageInv, WireInv, Find, Answer, AnswerAll
<1>8. ASSUME NEW o \in onWire, DriverFails(o),
             implementation = "mongodb", UNCHANGED <<found, implementation>>
      PROVE  StageInv'
  BY <1>8 DEF StageInv, WireInv, DriverFails, Answer, AnswerAll
<1>9. ASSUME NEW c \in Calls, NEW p \in Procs, NEW op \in Ops, FileRequest(c, op, p),
             implementation = "file", UNCHANGED <<mongoVars, implementation>>
      PROVE  StageInv'
  <2>1. listens[c] = Nobody /\ stage \in [Calls -> Stages] /\ listens \in [Calls -> Calls \cup {Nobody}]
    BY <1>9, RequestCalls DEF FileRequest, StageInv, TypeInv
  <2>2. \A d \in Calls : listens'[d] = IF d = c THEN Nobody ELSE listens[d]
    BY <1>9, <2>1 DEF mongoVars
  <2>3. PICK st \in {"connecting", "unanswered"} :
          stage' = [d \in Calls |-> IF d = c THEN st ELSE stage[d]]
    BY <1>9, <2>1 DEF FileRequest, Becomes
  <2>4. emitter' = emitter
    BY <1>9 DEF mongoVars
  <2>5. QED
    BY <1>9, <2>1, <2>2, <2>3, <2>4, StagesAfterRequest DEF FileRequest
<1>10. ASSUME NEW c \in Calls, NEW p \in Procs, FileClose(c, p),
             implementation = "file", UNCHANGED <<mongoVars, implementation>>
      PROVE  StageInv'
  <2>1. listens[c] = Nobody /\ stage \in [Calls -> Stages] /\ listens \in [Calls -> Calls \cup {Nobody}]
    BY <1>10, RequestCalls DEF FileClose, StageInv, TypeInv, Ops
  <2>2. \A d \in Calls : listens'[d] = IF d = c THEN Nobody ELSE listens[d]
    BY <1>10, <2>1 DEF mongoVars
  <2>3. PICK st \in {"connecting", "unanswered"} :
          stage' = [d \in Calls |-> IF d = c THEN st ELSE stage[d]]
    BY <1>10, <2>1 DEF FileClose, Becomes
  <2>4. emitter' = emitter
    BY <1>10 DEF mongoVars
  <2>5. QED
    BY <1>10, <2>1, <2>2, <2>3, <2>4, StagesAfterRequest DEF FileClose, Ops
<1>11. ASSUME NEW c \in Calls, DbConnected(c),
             implementation = "file", UNCHANGED <<mongoVars, implementation>>
      PROVE  StageInv'
  BY <1>11, TypeParts
     DEF StageInv, PhaseType, DbConnected, Becomes, Answer, AnswerAll, mongoVars
<1>12. ASSUME NEW c \in Calls, FoundForSave(c),
             implementation = "file", UNCHANGED <<mongoVars, implementation>>
      PROVE  StageInv'
  BY <1>12, TypeParts
     DEF StageInv, PhaseType, FoundForSave, Becomes, Answer, AnswerAll, mongoVars
<1>13. ASSUME NEW c \in Calls, FoundForLoad(c),
             implementation = "file", UNCHANGED <<mongoVars, implementation>>
      PROVE  StageInv'
  BY <1>13 DEF StageInv, FoundForLoad, Answer, AnswerAll, mongoVars
<1>14. ASSUME NEW c \in Calls, FindFails(c),
             implementation = "file", UNCHANGED <<mongoVars, implementation>>
      PROVE  StageInv'
  <2>1. call[c] # NotCalled /\ stage[c] = "finding"
    BY <1>14 DEF FindFails, StageInv
  <2>2. CASE call[c].op = "persist"
    BY <1>14, <2>1, <2>2, TypeParts DEF StageInv, PhaseType, FindFails, Becomes, mongoVars
  <2>3. CASE call[c].op # "persist"
    <3>1. stage' = [d \in Calls |-> IF d = c THEN "answered" ELSE stage[d]]
      BY <1>14, <2>3 DEF FindFails, Answer, AnswerAll
    <3>2. QED
      BY <1>14, <2>1, <3>1, TypeParts DEF StageInv, PhaseType, FindFails, mongoVars
  <2>4. QED
    BY <2>2, <2>3
<1>15. ASSUME NEW c \in Calls, DbInserted(c),
             implementation = "file", UNCHANGED <<mongoVars, implementation>>
      PROVE  StageInv'
  BY <1>15 DEF StageInv, DbInserted, Answer, AnswerAll, mongoVars
<1>16. ASSUME NEW c \in Calls, DbUpdated(c),
             implementation = "file", UNCHANGED <<mongoVars, implementation>>
      PROVE  StageInv'
  BY <1>16 DEF StageInv, DbUpdated, Answer, AnswerAll, mongoVars
<1>17. ASSUME NEW p \in Procs, Change(p), UNCHANGED <<mongoVars, found, implementation>>
      PROVE  StageInv'
  BY <1>17, TypeParts DEF StageInv, CallsType, CallRecords, Change, mongoVars
<1>18. CASE UNCHANGED vars
  BY <1>18 DEF StageInv, vars, callVars, mongoVars
<1>19. QED
  BY <1>1, <1>2, <1>3, <1>4, <1>5, <1>6, <1>7, <1>8, <1>9, <1>10,
     <1>11, <1>12, <1>13, <1>14, <1>15, <1>16, <1>17, <1>18
     DEF Next, MongoNext, FileNext, DriverAnswers, DbAnswers, Idle

-----------------------------------------------------------------------------
(****************************************************************************)
(* Calls on their way to the server.                                        *)
(****************************************************************************)
LEMMA WireStep ==
  ASSUME TypeInv, StageInv, WireInv, [Next]_vars
  PROVE  WireInv'
<1>1. ASSUME NEW c \in Calls, NEW p \in Procs, NEW op \in Ops, Execute(c, op, p),
             implementation = "mongodb", UNCHANGED <<found, implementation>>
      PROVE  WireInv'
  <2>1. \A q \in onWire : call[q.call] # NotCalled /\ q.call \in Calls
    BY TypeParts DEF WireInv, MongoType
  <2>2. ASSUME NEW q \in onWire'
        PROVE  /\ call'[q.call] # NotCalled
               /\ call'[q.call].since <= q.state
               /\ q.state <= live'[call'[q.call].proc]
    <3>1. CASE q \in onWire
      BY <1>1, <2>1, <3>1, RequestCalls DEF Execute, WireInv
    <3>2. CASE q = [call |-> c, db |-> connection, state |-> live[p]]
      BY <1>1, <3>2, RequestCalls, CalledIsRecord DEF Execute
    <3>3. QED
      BY <1>1, <2>2, <3>1, <3>2 DEF Execute
  <2>3. QED
    BY <2>2 DEF WireInv
<1>2. ASSUME NEW c \in Calls, NEW p \in Procs, Close(c, p),
             implementation = "mongodb", UNCHANGED <<found, implementation>>
      PROVE  WireInv'
  BY <1>2, TypeParts DEF WireInv, PhaseType, CallsType, MongoType, CallRecords, NotCalled,
         Close, Request, TroubleOf, Becomes, Answer, AnswerAll, Done, mongoVars
<1>3. ASSUME NEW c \in Calls, Connected(c),
             implementation = "mongodb", UNCHANGED <<found, implementation>>
      PROVE  WireInv'
  <2>1. \A d \in Listeners \cup {c} : d \in Calls /\ call[d] # NotCalled
    BY <1>3 DEF Connected, Listeners, StageInv
  <2>2. ASSUME NEW q \in onWire'
        PROVE  /\ call'[q.call] # NotCalled
               /\ call'[q.call].since <= q.state
               /\ q.state <= live'[call'[q.call].proc]
    <3>1. CASE q \in onWire
      BY <1>3, <3>1 DEF Connected, WireInv
    <3>2. CASE q \notin onWire
      <4>1. PICK d \in Listeners \cup {c} : q = [call |-> d, db |-> c, state |-> live[call[d].proc]]
        BY <1>3, <2>2, <3>2 DEF Connected, Wire
      <4>2. call[d].since <= live[call[d].proc] /\ live[call[d].proc] \in Nat
        BY <2>1, <4>1, TypeParts, RecordOf DEF StageInv
      <4>3. QED
        BY <1>3, <2>1, <4>1, <4>2 DEF Connected
    <3>3. QED
      BY <3>1, <3>2
  <2>3. QED
    BY <2>2 DEF WireInv
<1>4. ASSUME NEW c \in Calls, NotConnected(c),
             implementation = "mongodb", UNCHANGED <<found, implementation>>
      PROVE  WireInv'
  BY <1>4 DEF WireInv, NotConnected
<1>5. ASSUME NEW c \in Calls, Closed(c),
             implementation = "mongodb", UNCHANGED <<found, implementation>>
      PROVE  WireInv'
  BY <1>5 DEF WireInv, Closed
<1>6. ASSUME NEW o \in onWire, FindAndModify(o),
             implementation = "mongodb", UNCHANGED <<found, implementation>>
      PROVE  WireInv'
  BY <1>6 DEF WireInv, FindAndModify
<1>7. ASSUME NEW o \in onWire, Find(o),
             implementation = "mongodb", UNCHANGED <<found, implementation>>
      PROVE  WireInv'
  BY <1>7 DEF WireInv, Find
<1>8. ASSUME NEW o \in onWire, DriverFails(o),
             implementation = "mongodb", UNCHANGED <<found, implementation>>
      PROVE  WireInv'
  BY <1>8 DEF WireInv, DriverFails
<1>9. ASSUME NEW c \in Calls, NEW p \in Procs, NEW op \in Ops, FileRequest(c, op, p),
             implementation = "file", UNCHANGED <<mongoVars, implementation>>
      PROVE  WireInv'
  BY <1>9, TypeParts DEF WireInv, PhaseType, CallsType, MongoType, CallRecords, NotCalled,
         FileRequest, Request, TroubleOf, Becomes, mongoVars
<1>10. ASSUME NEW c \in Calls, NEW p \in Procs, FileClose(c, p),
             implementation = "file", UNCHANGED <<mongoVars, implementation>>
      PROVE  WireInv'
  BY <1>10, TypeParts DEF WireInv, PhaseType, CallsType, MongoType, CallRecords, NotCalled,
         FileClose, Request, TroubleOf, Becomes, mongoVars
<1>11. ASSUME NEW c \in Calls, DbConnected(c),
             implementation = "file", UNCHANGED <<mongoVars, implementation>>
      PROVE  WireInv'
  BY <1>11 DEF WireInv, DbConnected, mongoVars
<1>12. ASSUME NEW c \in Calls, FoundForSave(c),
             implementation = "file", UNCHANGED <<mongoVars, implementation>>
      PROVE  WireInv'
  BY <1>12 DEF WireInv, FoundForSave, mongoVars
<1>13. ASSUME NEW c \in Calls, FoundForLoad(c),
             implementation = "file", UNCHANGED <<mongoVars, implementation>>
      PROVE  WireInv'
  BY <1>13 DEF WireInv, FoundForLoad, mongoVars
<1>14. ASSUME NEW c \in Calls, FindFails(c),
             implementation = "file", UNCHANGED <<mongoVars, implementation>>
      PROVE  WireInv'
  BY <1>14, TypeParts DEF WireInv, PhaseType, CallsType, MongoType, CallRecords, NotCalled,
         FindFails, Becomes, Answer, AnswerAll, Done, mongoVars
<1>15. ASSUME NEW c \in Calls, DbInserted(c),
             implementation = "file", UNCHANGED <<mongoVars, implementation>>
      PROVE  WireInv'
  BY <1>15 DEF WireInv, DbInserted, mongoVars
<1>16. ASSUME NEW c \in Calls, DbUpdated(c),
             implementation = "file", UNCHANGED <<mongoVars, implementation>>
      PROVE  WireInv'
  BY <1>16 DEF WireInv, DbUpdated, mongoVars
<1>17. ASSUME NEW p \in Procs, Change(p), UNCHANGED <<mongoVars, found, implementation>>
      PROVE  WireInv'
  BY <1>17, TypeParts DEF WireInv, CallsType, MongoType, Change, mongoVars
<1>18. CASE UNCHANGED vars
  BY <1>18 DEF WireInv, vars, callVars, mongoVars
<1>19. QED
  BY <1>1, <1>2, <1>3, <1>4, <1>5, <1>6, <1>7, <1>8, <1>9, <1>10,
     <1>11, <1>12, <1>13, <1>14, <1>15, <1>16, <1>17, <1>18
     DEF Next, MongoNext, FileNext, DriverAnswers, DbAnswers, Idle

-----------------------------------------------------------------------------
(****************************************************************************)
(* Documents and the calls that inserted them.                              *)
(****************************************************************************)
LEMMA OwnerStep ==
  ASSUME TypeInv, StageInv, WireInv, OwnerInv, [Next]_vars
  PROVE  OwnerInv'
<1>1. ASSUME NEW c \in Calls, NEW p \in Procs, NEW op \in Ops, Execute(c, op, p),
             implementation = "mongodb", UNCHANGED <<found, implementation>>
      PROVE  OwnerInv'
  <2>1. /\ \A d \in documents : d.by \in Calls
        /\ \A d \in Calls : \A f \in found[d] : f.by \in Calls
    BY TypeParts DEF CallsType, Documents
  <2>2. found' = found
    BY <1>1 DEF Execute
  <2>3. QED
    BY <1>1, <2>1, <2>2, RequestCalls DEF OwnerInv, Execute, Ops
<1>2. ASSUME NEW c \in Calls, NEW p \in Procs, Close(c, p),
             implementation = "mongodb", UNCHANGED <<found, implementation>>
      PROVE  OwnerInv'
  <2>1. /\ \A d \in documents : d.by \in Calls
        /\ \A d \in Calls : \A f \in found[d] : f.by \in Calls
    BY TypeParts DEF CallsType, Documents
  <2>2. found' = found
    BY <1>2 DEF Close
  <2>3. QED
    BY <1>2, <2>1, <2>2, RequestCalls DEF OwnerInv, Close, Ops
<1>3. ASSUME NEW c \in Calls, Connected(c),
             implementation = "mongodb", UNCHANGED <<found, implementation>>
      PROVE  OwnerInv'
  BY <1>3 DEF OwnerInv, Connected
<1>4. ASSUME NEW c \in Calls, NotConnected(c),
             implementation = "mongodb", UNCHANGED <<found, implementation>>
      PROVE  OwnerInv'
  BY <1>4 DEF OwnerInv, NotConnected
<1>5. ASSUME NEW c \in Calls, Closed(c),
             implementation = "mongodb", UNCHANGED <<found, implementation>>
      PROVE  OwnerInv'
  BY <1>5 DEF OwnerInv, Closed
<1>6. ASSUME NEW o \in onWire, FindAndModify(o),
             implementation = "mongodb", UNCHANGED <<found, implementation>>
      PROVE  OwnerInv'
  BY <1>6, TypeParts DEF OwnerInv, CallsType, NotCalled, Documents, FindAndModify, Insert,
         Update, DocumentsOf
<1>7. ASSUME NEW o \in onWire, Find(o),
             implementation = "mongodb", UNCHANGED <<found, implementation>>
      PROVE  OwnerInv'
  BY <1>7 DEF OwnerInv, Find, DocumentsOf
<1>8. ASSUME NEW o \in onWire, DriverFails(o),
             implementation = "mongodb", UNCHANGED <<found, implementation>>
      PROVE  OwnerInv'
  BY <1>8 DEF OwnerInv, DriverFails
<1>9. ASSUME NEW c \in Calls, NEW p \in Procs, NEW op \in Ops, FileRequest(c, op, p),
             implementation = "file", UNCHANGED <<mongoVars, implementation>>
      PROVE  OwnerInv'
  <2>1. /\ \A d \in documents : d.by \in Calls
        /\ \A d \in Calls : \A f \in found[d] : f.by \in Calls
    BY TypeParts DEF CallsType, Documents
  <2>2. found' = found
    BY <1>9 DEF FileRequest
  <2>3. QED
    BY <1>9, <2>1, <2>2, RequestCalls DEF OwnerInv, FileRequest, Ops
<1>10. ASSUME NEW c \in Calls, NEW p \in Procs, FileClose(c, p),
             implementation = "file", UNCHANGED <<mongoVars, implementation>>
      PROVE  OwnerInv'
  <2>1. /\ \A d \in documents : d.by \in Calls
        /\ \A d \in Calls : \A f \in found[d] : f.by \in Calls
    BY TypeParts DEF CallsType, Documents
  <2>2. found' = found
    BY <1>10 DEF FileClose
  <2>3. QED
    BY <1>10, <2>1, <2>2, RequestCalls DEF OwnerInv, FileClose, Ops
<1>11. ASSUME NEW c \in Calls, DbConnected(c),
             implementation = "file", UNCHANGED <<mongoVars, implementation>>
      PROVE  OwnerInv'
  BY <1>11 DEF OwnerInv, DbConnected
<1>12. ASSUME NEW c \in Calls, FoundForSave(c),
             implementation = "file", UNCHANGED <<mongoVars, implementation>>
      PROVE  OwnerInv'
  BY <1>12 DEF OwnerInv, NotCalled, FoundForSave, DocumentsOf
<1>13. ASSUME NEW c \in Calls, FoundForLoad(c),
             implementation = "file", UNCHANGED <<mongoVars, implementation>>
      PROVE  OwnerInv'
  BY <1>13 DEF OwnerInv, FoundForLoad, DocumentsOf
<1>14. ASSUME NEW c \in Calls, FindFails(c),
             implementation = "file", UNCHANGED <<mongoVars, implementation>>
      PROVE  OwnerInv'
  BY <1>14, TypeParts DEF OwnerInv, PhaseType, CallsType, MongoType, CallRecords, NotCalled,
         Documents, DocumentsOf, Insert, Update, FindFails, Becomes, Answer, AnswerAll,
         Done, mongoVars
<1>15. ASSUME NEW c \in Calls, DbInserted(c),
             implementation = "file", UNCHANGED <<mongoVars, implementation>>
      PROVE  OwnerInv'
  <2>1. call[c] # NotCalled
    BY <1>15 DEF DbInserted, StageInv
  <2>2. QED
    BY <1>15, <2>1, TypeParts DEF OwnerInv, DbInserted, Insert
<1>16. ASSUME NEW c \in Calls, DbUpdated(c),
             implementation = "file", UNCHANGED <<mongoVars, implementation>>
      PROVE  OwnerInv'
  BY <1>16, TypeParts DEF OwnerInv, CallsType, Documents, DbUpdated, Update
<1>17. ASSUME NEW p \in Procs, Change(p), UNCHANGED <<mongoVars, found, implementation>>
      PROVE  OwnerInv'
  BY <1>17 DEF OwnerInv, Change
<1>18. CASE UNCHANGED vars
  BY <1>18 DEF OwnerInv, vars, callVars
<1>19. QED
  BY <1>1, <1>2, <1>3, <1>4, <1>5, <1>6, <1>7, <1>8, <1>9, <1>10,
     <1>11, <1>12, <1>13, <1>14, <1>15, <1>16, <1>17, <1>18
     DEF Next, MongoNext, FileNext, DriverAnswers, DbAnswers, Idle

-----------------------------------------------------------------------------
(****************************************************************************)
(* One answer.                                                              *)
(****************************************************************************)
LEMMA AnswersAdded ==
  ASSUME AnswerInv, PhaseType, trouble \subseteq trouble', NEW cs, NEW res, AnswerAll(cs, res),
         CloseIsAlone => \A d \in cs : stage[d] # "answered"
  PROVE  AnswerInv'
<1> SUFFICES ASSUME CloseIsAlone', NEW d \in Calls
    PROVE  /\ answers'[d] = IF stage'[d] = "answered" THEN 1 ELSE 0
           /\ stage'[d] # "answered" => result'[d] = NoResult
  BY DEF AnswerInv
<1>1. /\ stage'[d] = IF d \in cs THEN "answered" ELSE stage[d]
      /\ answers'[d] = IF d \in cs THEN answers[d] + 1 ELSE answers[d]
      /\ result'[d] = IF d \in cs THEN res ELSE result[d]
  BY DEF AnswerAll
<1>2. CloseIsAlone
  BY DEF CloseIsAlone
<1>3. CASE d \in cs
  BY <1>1, <1>2, <1>3 DEF AnswerInv
<1>4. CASE d \notin cs
  BY <1>1, <1>2, <1>4 DEF AnswerInv
<1>5. QED
  BY <1>3, <1>4

LEMMA AnswerGiven ==
  ASSUME AnswerInv, PhaseType, trouble \subseteq trouble', NEW c \in Calls, NEW res, Answer(c, res),
         CloseIsAlone => stage[c] # "answered"
  PROVE  AnswerInv'
  BY AnswersAdded DEF Answer

LEMMA AnswersKept ==
  ASSUME AnswerInv, PhaseType, trouble \subseteq trouble', UNCHANGED <<answers, result>>,
         CloseIsAlone => \A d \in Calls : stage'[d] = "answered" <=> stage[d] = "answered"
  PROVE  AnswerInv'
  BY DEF AnswerInv, PhaseType, CloseIsAlone

LEMMA AnswersAwaited ==
  ASSUME AnswerInv, PhaseType, trouble \subseteq trouble', NEW c \in Calls, NEW st, Becomes(c, st),
         st # "answered", CloseIsAlone => stage[c] # "answered"
  PROVE  AnswerInv'
  BY AnswersKept DEF Becomes, PhaseType

LEMMA AnswerStep ==
  ASSUME TypeInv, StageInv, WireInv, ConnectionInv, AnswerInv, [Next]_vars
  PROVE  AnswerInv'
<1>1. ASSUME NEW c \in Calls, NEW p \in Procs, NEW op \in Ops, Execute(c, op, p),
             implementation = "mongodb", UNCHANGED <<found, implementation>>
      PROVE  AnswerInv'
  BY <1>1, RequestCalls, AnswersAwaited, TypeParts DEF Execute, StageInv
<1>2. ASSUME NEW c \in Calls, NEW p \in Procs, Close(c, p),
             implementation = "mongodb", UNCHANGED <<found, implementation>>
      PROVE  AnswerInv'
  <2>1. stage[c] = "none" /\ trouble \subseteq trouble'
    BY <1>2, RequestCalls DEF Close, Ops, StageInv
  <2>2. QED
    BY <1>2, <2>1, AnswersAwaited, AnswerGiven, TypeParts DEF Close
<1>3. ASSUME NEW c \in Calls, Connected(c),
             implementation = "mongodb", UNCHANGED <<found, implementation>>
      PROVE  AnswerInv'
  <2>1. CASE emitter # Nobody
    <3>1. CloseIsAlone => \A d \in Listeners \cup {c} : stage[d] # "answered"
      BY <1>3, <2>1 DEF Connected, ConnectionInv, EmitterOK, Listeners
    <3>2. QED
      BY <1>3, <2>1, <3>1, AnswersKept, TypeParts DEF Connected, PhaseType
  <2>2. CASE emitter = Nobody
    BY <1>3, <2>2, AnswersAwaited, TypeParts DEF Connected
  <2>3. QED
    BY <2>1, <2>2
<1>4. ASSUME NEW c \in Calls, NotConnected(c),
             implementation = "mongodb", UNCHANGED <<found, implementation>>
      PROVE  AnswerInv'
  <2>1. CASE emitter # Nobody
    <3>1. CloseIsAlone => \A d \in Listeners \cup {c} : stage[d] # "answered"
      BY <1>4, <2>1 DEF NotConnected, ConnectionInv, EmitterOK, Listeners
    <3>2. QED
      BY <1>4, <2>1, <3>1, AnswersAdded, TypeParts DEF NotConnected
  <2>2. CASE emitter = Nobody
    BY <1>4, <2>2, AnswersAwaited, TypeParts DEF NotConnected
  <2>3. QED
    BY <2>1, <2>2
<1>5. ASSUME NEW c \in Calls, Closed(c),
             implementation = "mongodb", UNCHANGED <<found, implementation>>
      PROVE  AnswerInv'
  BY <1>5, AnswerGiven, TypeParts DEF Closed
<1>6. ASSUME NEW o \in onWire, FindAndModify(o),
             implementation = "mongodb", UNCHANGED <<found, implementation>>
      PROVE  AnswerInv'
  BY <1>6, AnswerGiven, TypeParts DEF FindAndModify, ConnectionInv, WiredOK, MongoType
<1>7. ASSUME NEW o \in onWire, Find(o),
             implementation = "mongodb", UNCHANGED <<found, implementation>>
      PROVE  AnswerInv'
  BY <1>7, AnswerGiven, TypeParts DEF Find, ConnectionInv, WiredOK, MongoType
<1>8. ASSUME NEW o \in onWire, DriverFails(o),
             implementation = "mongodb", UNCHANGED <<found, implementation>>
      PROVE  AnswerInv'
  BY <1>8, AnswerGiven, TypeParts DEF DriverFails, ConnectionInv, WiredOK, MongoType
<1>9. ASSUME NEW c \in Calls, NEW p \in Procs, NEW op \in Ops, FileRequest(c, op, p),
             implementation = "file", UNCHANGED <<mongoVars, implementation>>
      PROVE  AnswerInv'
  BY <1>9, RequestCalls, AnswersAwaited, TypeParts DEF FileRequest, StageInv
<1>10. ASSUME NEW c \in Calls, NEW p \in Procs, FileClose(c, p),
             implementation = "file", UNCHANGED <<mongoVars, implementation>>
      PROVE  AnswerInv'
  BY <1>10, RequestCalls, AnswersAwaited, TypeParts DEF FileClose, StageInv, Ops
<1>11. ASSUME NEW c \in Calls, DbConnected(c),
             implementation = "file", UNCHANGED <<mongoVars, implementation>>
      PROVE  AnswerInv'
  BY <1>11, AnswerGiven, AnswersAwaited, TypeParts DEF DbConnected
<1>12. ASSUME NEW c \in Calls, FoundForSave(c),
             implementation = "file", UNCHANGED <<mongoVars, implementation>>
      PROVE  AnswerInv'
  BY <1>12, AnswerGiven, AnswersAwaited, TypeParts DEF FoundForSave
<1>13. ASSUME NEW c \in Calls, FoundForLoad(c),
             implementation = "file", UNCHANGED <<mongoVars, implementation>>
      PROVE  AnswerInv'
  BY <1>13, AnswerGiven, TypeParts DEF FoundForLoad
<1>14. ASSUME NEW c \in Calls, FindFails(c),
             implementation = "file", UNCHANGED <<mongoVars, implementation>>
      PROVE  AnswerInv'
  BY <1>14, AnswerGiven, AnswersAwaited, TypeParts DEF FindFails
<1>15. ASSUME NEW c \in Calls, DbInserted(c),
             implementation = "file", UNCHANGED <<mongoVars, implementation>>
      PROVE  AnswerInv'
  BY <1>15, AnswerGiven, TypeParts DEF DbInserted
<1>16. ASSUME NEW c \in Calls, DbUpdated(c),
             implementation = "file", UNCHANGED <<mongoVars, implementation>>
      PROVE  AnswerInv'
  BY <1>16, AnswerGiven, TypeParts DEF DbUpdated
<1>17. ASSUME NEW p \in Procs, Change(p), UNCHANGED <<mongoVars, found, implementation>>
      PROVE  AnswerInv'
  BY <1>17, AnswersKept, TypeParts DEF Change
<1>18. CASE UNCHANGED vars
  BY <1>18, AnswersKept, TypeParts DEF vars, callVars
<1>19. QED
  BY <1>1, <1>2, <1>3, <1>4, <1>5, <1>6, <1>7, <1>8, <1>9, <1>10,
     <1>11, <1>12, <1>13, <1>14, <1>15, <1>16, <1>17, <1>18
     DEF Next, MongoNext, FileNext, DriverAnswers, DbAnswers, Idle

-----------------------------------------------------------------------------
(****************************************************************************)
(* The connection and those who wait for it.                                *)
(****************************************************************************)
LEMMA WireAnswered ==
  ASSUME TypeInv, EmitterOK, ClosingOK, WiredOK, NEW o \in onWire,
         \A d \in Calls : stage'[d] = IF d = o.call THEN "answered" ELSE stage[d],
         onWire' = onWire \ {o}, UNCHANGED <<connection, emitter, listens>>
  PROVE  EmitterOK' /\ ClosingOK' /\ WiredOK'
<1>1. o.call \in Calls /\ stage[o.call] = "sent" /\ (\A q \in onWire : q.call \in Calls)
  BY TypeParts DEF WiredOK, MongoType
<1>2. emitter # Nobody => emitter \in Calls
  BY TypeParts DEF MongoType
<1>3. EmitterOK'
  BY <1>1, <1>2 DEF EmitterOK
<1>4. ClosingOK'
  BY <1>1 DEF ClosingOK, InFlight
<1>5. WiredOK'
  BY <1>1 DEF WiredOK
<1>6. QED
  BY <1>3, <1>4, <1>5

LEMMA ConnectionStep ==
  ASSUME TypeInv, StageInv, ConnectionInv, [Next]_vars
  PROVE  ConnectionInv'
<1>1. ASSUME NEW c \in Calls, NEW p \in Procs, NEW op \in Ops, Execute(c, op, p),
             implementation = "mongodb", UNCHANGED <<found, implementation>>
      PROVE  ConnectionInv'
  <2> SUFFICES ASSUME CloseIsAlone' PROVE EmitterOK' /\ ClosingOK' /\ WiredOK'
    BY DEF ConnectionInv
  <2>1. ClosingOK /\ WiredOK /\ EmitterOK
    BY <1>1, RequestCalls DEF Execute, ConnectionInv, CloseIsAlone
  <2>2. Request(c, op, p) /\ stage[c] = "none" /\ listens[c] = Nobody
    BY <1>1, RequestCalls DEF Execute, StageInv
  <2>3. ClosingOK'
    <3>1. PICK st \in {"sent", "listening", "opening"} :
            \A d \in Calls : stage'[d] = IF d = c THEN st ELSE stage[d]
      BY <1>1, TypeParts DEF Execute, Becomes, PhaseType
    <3>2. \A d \in Calls : stage[d] # "closing"
      BY <2>2 DEF Request, TroubleOf, Troubles, CloseIsAlone, StageInv, InFlight
    <3>3. QED
      BY <3>1, <3>2 DEF ClosingOK
  <2>4. c # emitter /\ (emitter # Nobody => emitter \in Calls) /\ \A d \in Calls : listens[d] # c
    BY <1>1, <2>2, TypeParts, CallsAssumption DEF StageInv, MongoType, Request
  <2>5. CASE connection # Nobody
    <3>1. /\ UNCHANGED <<connection, emitter, listens>>
          /\ onWire' = onWire \cup {[call |-> c, db |-> connection, state |-> live[p]]}
          /\ \A d \in Calls : stage'[d] = IF d = c THEN "sent" ELSE stage[d]
      BY <1>1, <2>5, TypeParts DEF Execute, Becomes, PhaseType
    <3>2. EmitterOK'
      BY <2>1, <2>2, <2>4, <3>1 DEF EmitterOK
    <3>3. \A q \in onWire : q.call \in Calls \ {c}
      BY <2>1, <2>2, TypeParts DEF WiredOK, MongoType
    <3>4. WiredOK'
      BY <2>1, <3>1, <3>3 DEF WiredOK
    <3>5. QED
      BY <2>3, <3>2, <3>4
  <2>6. CASE connection = Nobody /\ emitter # Nobody
    <3>1. /\ UNCHANGED <<connection, emitter, onWire>>
          /\ \A d \in Calls : listens'[d] = IF d = c THEN emitter ELSE listens[d]
          /\ \A d \in Calls : stage'[d] = IF d = c THEN "listening" ELSE stage[d]
      BY <1>1, <2>6, TypeParts DEF Execute, Becomes, PhaseType, MongoType
    <3>2. EmitterOK'
      BY <2>1, <2>2, <2>4, <2>6, <3>1 DEF EmitterOK
    <3>3. WiredOK'
      BY <2>1, <2>2, <3>1, TypeParts DEF WiredOK, MongoType
    <3>4. QED
      BY <2>3, <3>2, <3>3
  <2>7. CASE connection = Nobody /\ emitter = Nobody
    <3>1. /\ UNCHANGED <<connection, listens, onWire>>
          /\ emitter' = c
          /\ \A d \in Calls : stage'[d] = IF d = c THEN "opening" ELSE stage[d]
      BY <1>1, <2>7, TypeParts DEF Execute, Becomes, PhaseType
    <3>2. EmitterOK'
      BY <2>1, <2>2, <2>4, <2>7, <3>1, CallsAssumption DEF EmitterOK
    <3>3. WiredOK'
      BY <2>1, <2>2, <3>1, TypeParts DEF WiredOK, MongoType
    <3>4. QED
      BY <2>3, <3>2, <3>3
  <2>8. QED
    BY <2>5, <2>6, <2>7
<1>2. ASSUME NEW c \in Calls, NEW p \in Procs, Close(c, p),
             implementation = "mongodb", UNCHANGED <<found, implementation>>
      PROVE  ConnectionInv'
  <2> SUFFICES ASSUME CloseIsAlone' PROVE EmitterOK' /\ ClosingOK' /\ WiredOK'
    BY DEF ConnectionInv
  <2>1. ClosingOK /\ WiredOK /\ EmitterOK
    BY <1>2, RequestCalls DEF Close, Ops, ConnectionInv, CloseIsAlone
  <2>2. "close" \in Ops /\ Request(c, "close", p) /\ stage[c] = "none"
    BY <1>2, RequestCalls DEF Close, Ops, StageInv
  <2>3. UNCHANGED <<connection, emitter, listens, onWire>>
    BY <1>2 DEF Close
  <2>4. PICK st \in {"closing", "answered"} :
          \A d \in Calls : stage'[d] = IF d = c THEN st ELSE stage[d]
    BY <1>2, TypeParts DEF Close, Becomes, Answer, AnswerAll, PhaseType
  <2>5. \A d \in Calls : ~InFlight(d)
    BY <2>2 DEF Request, TroubleOf, Troubles, CloseIsAlone
  <2>6. c # emitter /\ (emitter # Nobody => emitter \in Calls)
    BY <1>2, <2>2, TypeParts, CallsAssumption DEF StageInv, MongoType
  <2>7. EmitterOK'
    BY <2>1, <2>2, <2>3, <2>4, <2>6 DEF EmitterOK
  <2>8. ClosingOK'
    BY <2>4, <2>5 DEF ClosingOK, InFlight
  <2>9. WiredOK'
    BY <2>1, <2>2, <2>3, <2>4, TypeParts DEF WiredOK, MongoType
  <2>10. QED
    BY <2>7, <2>8, <2>9
<1>3. ASSUME NEW c \in Calls, Connected(c),
             implementation = "mongodb", UNCHANGED <<found, implementation>>
      PROVE  ConnectionInv'
  <2> SUFFICES ASSUME CloseIsAlone' PROVE EmitterOK' /\ ClosingOK' /\ WiredOK'
    BY DEF ConnectionInv
  <2>1. ClosingOK /\ WiredOK /\ EmitterOK
    BY <1>3 DEF Connected, ConnectionInv, CloseIsAlone
  <2>2. emitter = c /\ c # Nobody
    BY <1>3, <2>1, CallsAssumption DEF Connected, EmitterOK
  <2>3. /\ connection' = c /\ emitter' = c /\ UNCHANGED listens
        /\ onWire' = onWire \cup Wire(Listeners \cup {c}, c)
    BY <1>3, <2>2 DEF Connected
  <2>4. \A d \in Calls : stage'[d] = IF d \in Listeners \cup {c} THEN "sent" ELSE stage[d]
    BY <1>3, <2>2 DEF Connected
  <2>5. \A d \in Calls : stage[d] \in {"opening", "listening"} <=> d \in Listeners \cup {c}
    BY <1>3, <2>1, <2>2 DEF Connected, EmitterOK, Listeners
  <2>6. EmitterOK'
    BY <2>2, <2>3, <2>4, <2>5 DEF EmitterOK
  <2>7. ClosingOK'
    BY <2>1, <2>4, <2>5 DEF ClosingOK, InFlight
  <2>8. \A q \in onWire : q.call \in Calls \ (Listeners \cup {c}) /\ stage[q.call] = "sent"
    BY <2>1, <2>5, TypeParts DEF WiredOK, MongoType
  <2>9. \A q \in Wire(Listeners \cup {c}, c) :
          /\ q.call \in Listeners \cup {c}
          /\ q = [call |-> q.call, db |-> c, state |-> live[call[q.call].proc]]
    BY DEF Wire
  <2>10. Listeners \cup {c} \subseteq Calls
    BY <1>3 DEF Listeners
  <2>11. WiredOK'
    <3>1. \A q \in onWire' : stage'[q.call] = "sent"
      BY <2>3, <2>4, <2>8, <2>9, <2>10
    <3>2. \A q, w \in onWire' : q.call = w.call => q = w
      BY <2>1, <2>3, <2>8, <2>9 DEF WiredOK
    <3>3. QED
      BY <3>1, <3>2 DEF WiredOK
  <2>12. QED
    BY <2>6, <2>7, <2>11
<1>4. ASSUME NEW c \in Calls, NotConnected(c),
             implementation = "mongodb", UNCHANGED <<found, implementation>>
      PROVE  ConnectionInv'
  <2> SUFFICES ASSUME CloseIsAlone' PROVE EmitterOK' /\ ClosingOK' /\ WiredOK'
    BY DEF ConnectionInv
  <2>1. ClosingOK /\ WiredOK /\ EmitterOK
    BY <1>4 DEF NotConnected, ConnectionInv, CloseIsAlone
  <2>2. emitter = c /\ c # Nobody
    BY <1>4, <2>1, CallsAssumption DEF NotConnected, EmitterOK
  <2>3. connection' = Nobody /\ emitter' = Nobody /\ UNCHANGED <<listens, onWire>>
    BY <1>4, <2>2 DEF NotConnected, Reset
  <2>4. \A d \in Calls : stage'[d] = IF d \in Listeners \cup {c} THEN "answered" ELSE stage[d]
    BY <1>4, <2>2 DEF NotConnected, AnswerAll
  <2>5. \A d \in Calls : stage[d] \in {"opening", "listening"} <=> d \in Listeners \cup {c}
    BY <1>4, <2>1, <2>2 DEF NotConnected, EmitterOK, Listeners
  <2>6. EmitterOK'
    BY <2>3, <2>4, <2>5 DEF EmitterOK
  <2>7. ClosingOK'
    BY <2>1, <2>4 DEF ClosingOK, InFlight
  <2>8. WiredOK'
    BY <2>1, <2>3, <2>4, <2>5, TypeParts DEF WiredOK, MongoType
  <2>9. QED
    BY <2>6, <2>7, <2>8
<1>5. ASSUME NEW c \in Calls, Closed(c),
             implementation = "mongodb", UNCHANGED <<found, implementation>>
      PROVE  ConnectionInv'
  <2> SUFFICES ASSUME CloseIsAlone' PROVE EmitterOK' /\ ClosingOK' /\ WiredOK'
    BY DEF ConnectionInv
  <2>1. ClosingOK /\ WiredOK /\ EmitterOK
    BY <1>5 DEF Closed, ConnectionInv, CloseIsAlone
  <2>2. connection' = Nobody /\ emitter' = Nobody /\ UNCHANGED <<listens, onWire>>
    BY <1>5 DEF Closed, Reset
  <2>3. \A d \in Calls : stage'[d] = IF d = c THEN "answered" ELSE stage[d]
    BY <1>5 DEF Closed, Answer, AnswerAll
  <2>4. \A d \in Calls : ~InFlight(d)' /\ stage'[d] \notin {"sent", "opening", "listening", "closing"}
    BY <1>5, <2>1, <2>3 DEF Closed, ClosingOK, InFlight
  <2>5. onWire = {}
    BY <1>5, <2>1, TypeParts DEF Closed, ClosingOK, WiredOK, InFlight, MongoType
  <2>6. QED
    BY <2>2, <2>4, <2>5 DEF EmitterOK, ClosingOK, WiredOK
<1>6. ASSUME NEW o \in onWire, FindAndModify(o),
             implementation = "mongodb", UNCHANGED <<found, implementation>>
      PROVE  ConnectionInv'
  <2> SUFFICES ASSUME CloseIsAlone' PROVE EmitterOK' /\ ClosingOK' /\ WiredOK'
    BY DEF ConnectionInv
  <2>1. EmitterOK /\ ClosingOK /\ WiredOK
    BY <1>6 DEF FindAndModify, ConnectionInv, CloseIsAlone
  <2>2. \A d \in Calls : stage'[d] = IF d = o.call THEN "answered" ELSE stage[d]
    BY <1>6 DEF FindAndModify, Answer, AnswerAll
  <2>3. onWire' = onWire \ {o} /\ UNCHANGED <<connection, emitter, listens>>
    BY <1>6 DEF FindAndModify
  <2>4. QED
    BY <2>1, <2>2, <2>3, WireAnswered
<1>7. ASSUME NEW o \in onWire, Find(o),
             implementation = "mongodb", UNCHANGED <<found, implementation>>
      PROVE  ConnectionInv'
  <2> SUFFICES ASSUME CloseIsAlone' PROVE EmitterOK' /\ ClosingOK' /\ WiredOK'
    BY DEF ConnectionInv
  <2>1. EmitterOK /\ ClosingOK /\ WiredOK
    BY <1>7 DEF Find, ConnectionInv, CloseIsAlone
  <2>2. \A d \in Calls : stage'[d] = IF d = o.call THEN "answered" ELSE stage[d]
    BY <1>7 DEF Find, Answer, AnswerAll
  <2>3. onWire' = onWire \ {o} /\ UNCHANGED <<connection, emitter, listens>>
    BY <1>7 DEF Find
  <2>4. QED
    BY <2>1, <2>2, <2>3, WireAnswered
<1>8. ASSUME NEW o \in onWire, DriverFails(o),
             implementation = "mongodb", UNCHANGED <<found, implementation>>
      PROVE  ConnectionInv'
  <2> SUFFICES ASSUME CloseIsAlone' PROVE EmitterOK' /\ ClosingOK' /\ WiredOK'
    BY DEF ConnectionInv
  <2>1. EmitterOK /\ ClosingOK /\ WiredOK
    BY <1>8 DEF DriverFails, ConnectionInv, CloseIsAlone
  <2>2. \A d \in Calls : stage'[d] = IF d = o.call THEN "answered" ELSE stage[d]
    BY <1>8 DEF DriverFails, Answer, AnswerAll
  <2>3. onWire' = onWire \ {o} /\ UNCHANGED <<connection, emitter, listens>>
    BY <1>8 DEF DriverFails
  <2>4. QED
    BY <2>1, <2>2, <2>3, WireAnswered
<1>9. ASSUME NEW c \in Calls, NEW p \in Procs, NEW op \in Ops, FileRequest(c, op, p),
             implementation = "file", UNCHANGED <<mongoVars, implementation>>
      PROVE  ConnectionInv'
  BY <1>9 DEF ConnectionInv
<1>10. ASSUME NEW c \in Calls, NEW p \in Procs, FileClose(c, p),
             implementation = "file", UNCHANGED <<mongoVars, implementation>>
      PROVE  ConnectionInv'
  BY <1>10 DEF ConnectionInv
<1>11. ASSUME NEW c \in Calls, DbConnected(c),
             implementation = "file", UNCHANGED <<mongoVars, implementation>>
      PROVE  ConnectionInv'
  BY <1>11 DEF ConnectionInv
<1>12. ASSUME NEW c \in Calls, FoundForSave(c),
             implementation = "file", UNCHANGED <<mongoVars, implementation>>
      PROVE  ConnectionInv'
  BY <1>12 DEF ConnectionInv
<1>13. ASSUME NEW c \in Calls, FoundForLoad(c),
             implementation = "file", UNCHANGED <<mongoVars, implementation>>
      PROVE  ConnectionInv'
  BY <1>13 DEF ConnectionInv
<1>14. ASSUME NEW c \in Calls, FindFails(c),
             implementation = "file", UNCHANGED <<mongoVars, implementation>>
      PROVE  ConnectionInv'
  BY <1>14 DEF ConnectionInv
<1>15. ASSUME NEW c \in Calls, DbInserted(c),
             implementation = "file", UNCHANGED <<mongoVars, implementation>>
      PROVE  ConnectionInv'
  BY <1>15 DEF ConnectionInv
<1>16. ASSUME NEW c \in Calls, DbUpdated(c),
             implementation = "file", UNCHANGED <<mongoVars, implementation>>
      PROVE  ConnectionInv'
  BY <1>16 DEF ConnectionInv
<1>17. ASSUME NEW p \in Procs, Change(p), UNCHANGED <<mongoVars, found, implementation>>
      PROVE  ConnectionInv'
  BY <1>17 DEF Change, mongoVars, ConnectionInv, EmitterOK, ClosingOK, WiredOK,
         CloseIsAlone, InFlight
<1>18. CASE UNCHANGED vars
  BY <1>18 DEF vars, callVars, mongoVars, ConnectionInv, EmitterOK, ClosingOK, WiredOK,
         CloseIsAlone, InFlight
<1>19. QED
  BY <1>1, <1>2, <1>3, <1>4, <1>5, <1>6, <1>7, <1>8, <1>9, <1>10,
     <1>11, <1>12, <1>13, <1>14, <1>15, <1>16, <1>17, <1>18
     DEF Next, MongoNext, FileNext, DriverAnswers, DbAnswers, Idle

-----------------------------------------------------------------------------
(****************************************************************************)
(* One document for each process.                                           *)
(****************************************************************************)
LEMMA OneEachCounts ==
  ASSUME OneEach, NEW p
  PROVE  /\ Cardinality(DocumentsOf(p)) <= 1
         /\ Cardinality(DocumentsOf(p)) = 0 <=> DocumentsOf(p) = {}
<1>1. CASE DocumentsOf(p) = {}
  BY <1>1, FS_EmptySet
<1>2. ASSUME NEW d \in DocumentsOf(p) PROVE DocumentsOf(p) = {d}
  BY DEF OneEach, DocumentsOf
<1>3. CASE DocumentsOf(p) # {}
  <2>1. PICK d \in DocumentsOf(p) : DocumentsOf(p) = {d}
    BY <1>2, <1>3
  <2>2. Cardinality({d}) = 1
    BY FS_Singleton
  <2>3. QED
    BY <1>3, <2>1, <2>2
<1>4. QED
  BY <1>1, <1>3

LEMMA InsertKeepsOne ==
  ASSUME OneEach, NEW c, NEW state, Insert(c, state), \A d \in documents : d.proc # call[c].proc
  PROVE  OneEach'
  BY DEF OneEach, Insert

LEMMA UpdateKeepsOne ==
  ASSUME TypeInv, OneEach, NEW d \in documents, NEW state, Update(d, state)
  PROVE  OneEach'
  BY TypeParts DEF OneEach, Update, CallsType, Documents

LEMMA DocumentsKept ==
  ASSUME SaveInv, UNCHANGED <<documents, implementation>>, implementation = "mongodb",
         trouble \subseteq trouble'
  PROVE  SaveInv'
  BY DEF SaveInv, SavesAreAlone, OneEach

LEMMA FileGoesOn ==
  ASSUME SaveInv, UNCHANGED <<call, documents, trouble, implementation>>,
         NEW c \in Calls, InFlight(c), \A d \in Calls \ {c} : stage'[d] = stage[d],
         SavesAreAlone /\ stage'[c] = "inserting" => \A d \in documents : d.proc # call[c].proc
  PROVE  SaveInv'
  BY DEF SaveInv, SavesAreAlone, OneEach, SavesApart, InsertsNew, InFlight

LEMMA SaveStep ==
  ASSUME TypeInv, StageInv, SaveInv, [Next]_vars
  PROVE  SaveInv'
<1>1. ASSUME NEW c \in Calls, NEW p \in Procs, NEW op \in Ops, Execute(c, op, p),
             implementation = "mongodb", UNCHANGED <<found, implementation>>
      PROVE  SaveInv'
  BY <1>1, RequestCalls, DocumentsKept DEF Execute
<1>2. ASSUME NEW c \in Calls, NEW p \in Procs, Close(c, p),
             implementation = "mongodb", UNCHANGED <<found, implementation>>
      PROVE  SaveInv'
  BY <1>2, RequestCalls, DocumentsKept DEF Close, Ops
<1>3. ASSUME NEW c \in Calls, Connected(c),
             implementation = "mongodb", UNCHANGED <<found, implementation>>
      PROVE  SaveInv'
  BY <1>3, DocumentsKept DEF Connected
<1>4. ASSUME NEW c \in Calls, NotConnected(c),
             implementation = "mongodb", UNCHANGED <<found, implementation>>
      PROVE  SaveInv'
  BY <1>4, DocumentsKept DEF NotConnected
<1>5. ASSUME NEW c \in Calls, Closed(c),
             implementation = "mongodb", UNCHANGED <<found, implementation>>
      PROVE  SaveInv'
  BY <1>5, DocumentsKept DEF Closed
<1>6. ASSUME NEW o \in onWire, FindAndModify(o),
             implementation = "mongodb", UNCHANGED <<found, implementation>>
      PROVE  SaveInv'
  <2>1. SavesAreAlone => OneEach'
    <3>1. SUFFICES ASSUME SavesAreAlone PROVE OneEach'
      OBVIOUS
    <3>2. OneEach
      BY <3>1 DEF SaveInv
    <3>3. CASE DocumentsOf(call[o.call].proc) = {} /\ Insert(o.call, o.state)
      BY <3>2, <3>3, InsertKeepsOne DEF DocumentsOf
    <3>4. ASSUME NEW d \in DocumentsOf(call[o.call].proc), Update(d, o.state) PROVE OneEach'
      BY <3>2, <3>4, UpdateKeepsOne DEF DocumentsOf
    <3>5. QED
      BY <1>6, <3>3, <3>4 DEF FindAndModify
  <2>2. QED
    BY <1>6, <2>1 DEF FindAndModify, SaveInv, SavesAreAlone
<1>7. ASSUME NEW o \in onWire, Find(o),
             implementation = "mongodb", UNCHANGED <<found, implementation>>
      PROVE  SaveInv'
  BY <1>7, DocumentsKept DEF Find
<1>8. ASSUME NEW o \in onWire, DriverFails(o),
             implementation = "mongodb", UNCHANGED <<found, implementation>>
      PROVE  SaveInv'
  BY <1>8, DocumentsKept DEF DriverFails
<1>9. ASSUME NEW c \in Calls, NEW p \in Procs, NEW op \in Ops, FileRequest(c, op, p),
             implementation = "file", UNCHANGED <<mongoVars, implementation>>
      PROVE  SaveInv'
  <2> SUFFICES ASSUME SavesAreAlone' PROVE OneEach' /\ SavesApart' /\ InsertsNew'
    BY <1>9 DEF SaveInv
  <2>1. OneEach /\ SavesApart /\ InsertsNew /\ stage[c] = "none"
    BY <1>9, RequestCalls DEF FileRequest, SaveInv, SavesAreAlone, StageInv
  <2>2. Request(c, op, p) /\ (\A d \in Calls : stage'[d] = IF d = c THEN "connecting" ELSE stage[d])
    BY <1>9, TypeParts DEF FileRequest, Becomes, PhaseType
  <2>3. op = "persist" => ~\E d \in Calls : InFlight(d) /\ call[d].op = "persist" /\ call[d].proc = p
    BY <2>2 DEF Request, TroubleOf, Troubles, SavesAreAlone
  <2>4. SavesApart'
    BY <2>1, <2>2, <2>3, RequestCalls DEF SavesApart, InFlight
  <2>5. OneEach' /\ InsertsNew'
    BY <2>1, <2>2, RequestCalls DEF OneEach, InsertsNew
  <2>6. QED
    BY <2>4, <2>5
<1>10. ASSUME NEW c \in Calls, NEW p \in Procs, FileClose(c, p),
             implementation = "file", UNCHANGED <<mongoVars, implementation>>
      PROVE  SaveInv'
  <2> SUFFICES ASSUME SavesAreAlone' PROVE OneEach' /\ SavesApart' /\ InsertsNew'
    BY <1>10 DEF SaveInv
  <2>1. Request(c, "close", p) /\ "close" \in Ops
    BY <1>10 DEF FileClose, Ops
  <2>2. OneEach /\ SavesApart /\ InsertsNew /\ stage[c] = "none"
    BY <1>10, <2>1, RequestCalls DEF SaveInv, SavesAreAlone, StageInv
  <2>3. \A d \in Calls : stage'[d] = IF d = c THEN "unanswered" ELSE stage[d]
    BY <1>10, TypeParts DEF FileClose, Becomes, PhaseType
  <2>4. SavesApart'
    BY <2>1, <2>2, <2>3, RequestCalls DEF SavesApart, InFlight
  <2>5. OneEach' /\ InsertsNew'
    BY <2>1, <2>2, <2>3, RequestCalls DEF OneEach, InsertsNew
  <2>6. QED
    BY <2>4, <2>5
<1>11. ASSUME NEW c \in Calls, DbConnected(c),
             implementation = "file", UNCHANGED <<mongoVars, implementation>>
      PROVE  SaveInv'
  <2>1. InFlight(c) /\ \A d \in Calls \ {c} : stage'[d] = stage[d]
    BY <1>11, TypeParts DEF DbConnected, InFlight, Becomes, Answer, AnswerAll, PhaseType
  <2>2. stage'[c] # "inserting"
    BY <1>11, TypeParts DEF DbConnected, Becomes, Answer, AnswerAll, PhaseType
  <2>3. QED
    BY <1>11, <2>1, <2>2, FileGoesOn DEF DbConnected
<1>12. ASSUME NEW c \in Calls, FoundForSave(c),
             implementation = "file", UNCHANGED <<mongoVars, implementation>>
      PROVE  SaveInv'
  <2>1. InFlight(c) /\ \A d \in Calls \ {c} : stage'[d] = stage[d]
    BY <1>12, TypeParts DEF FoundForSave, InFlight, Becomes, Answer, AnswerAll, PhaseType
  <2>2. SavesAreAlone /\ stage'[c] = "inserting" => \A d \in documents : d.proc # call[c].proc
    <3>1. SUFFICES ASSUME SavesAreAlone, stage'[c] = "inserting"
                   PROVE  DocumentsOf(call[c].proc) = {}
      BY DEF DocumentsOf
    <3>2. Cardinality(DocumentsOf(call[c].proc)) = 0
      BY <1>12, <3>1, TypeParts DEF FoundForSave, Becomes, Answer, AnswerAll, PhaseType
    <3>3. QED
      BY <3>1, <3>2, OneEachCounts DEF SaveInv
  <2>3. QED
    BY <1>12, <2>1, <2>2, FileGoesOn DEF FoundForSave
<1>13. ASSUME NEW c \in Calls, FoundForLoad(c),
             implementation = "file", UNCHANGED <<mongoVars, implementation>>
      PROVE  SaveInv'
  <2>1. InFlight(c) /\ \A d \in Calls \ {c} : stage'[d] = stage[d]
    BY <1>13 DEF FoundForLoad, InFlight, Answer, AnswerAll
  <2>2. stage'[c] # "inserting"
    BY <1>13, TypeParts DEF FoundForLoad, Answer, AnswerAll
  <2>3. QED
    BY <1>13, <2>1, <2>2, FileGoesOn DEF FoundForLoad
<1>14. ASSUME NEW c \in Calls, FindFails(c),
             implementation = "file", UNCHANGED <<mongoVars, implementation>>
      PROVE  SaveInv'
  BY <1>14 DEF FindFails, SaveInv, SavesAreAlone
<1>15. ASSUME NEW c \in Calls, DbInserted(c),
             implementation = "file", UNCHANGED <<mongoVars, implementation>>
      PROVE  SaveInv'
  <2>1. InFlight(c) /\ \A d \in Calls \ {c} : stage'[d] = stage[d]
    BY <1>15 DEF DbInserted, InFlight, Answer, AnswerAll
  <2>2. stage'[c] = "answered" /\ stage[c] = "inserting" /\ call[c].op = "persist"
    BY <1>15 DEF DbInserted, Answer, AnswerAll, StageInv
  <2>3. CASE UNCHANGED documents
    BY <1>15, <2>1, <2>2, <2>3, FileGoesOn DEF DbInserted
  <2>4. CASE Insert(c, live[call[c].proc])
    <3>1. SUFFICES ASSUME SavesAreAlone' PROVE OneEach' /\ SavesApart' /\ InsertsNew'
      BY <1>15 DEF SaveInv
    <3>2. OneEach /\ SavesApart /\ InsertsNew
      BY <1>15, <3>1 DEF SaveInv, SavesAreAlone, DbInserted
    <3>3. OneEach'
      BY <2>2, <2>4, <3>2, InsertKeepsOne DEF InsertsNew
    <3>4. SavesApart'
      BY <1>15, <2>1, <2>2, <3>2 DEF DbInserted, SavesApart, InFlight
    <3>5. ASSUME NEW d \in Calls, stage'[d] = "inserting", NEW e \in documents'
          PROVE  e.proc # call'[d].proc
      <4>1. d # c /\ stage[d] = "inserting" /\ call[d].op = "persist" /\ call' = call
        BY <1>15, <2>1, <2>2, <3>5 DEF DbInserted, StageInv
      <4>2. call[d].proc # call[c].proc
        BY <2>1, <2>2, <3>2, <4>1 DEF SavesApart, InFlight
      <4>3. QED
        BY <2>4, <3>2, <4>1, <4>2 DEF InsertsNew, Insert
    <3>6. QED
      BY <3>3, <3>4, <3>5 DEF InsertsNew
  <2>5. QED
    BY <1>15, <2>3, <2>4 DEF DbInserted
<1>16. ASSUME NEW c \in Calls, DbUpdated(c),
             implementation = "file", UNCHANGED <<mongoVars, implementation>>
      PROVE  SaveInv'
  <2>1. InFlight(c) /\ \A d \in Calls \ {c} : stage'[d] = stage[d]
    BY <1>16 DEF DbUpdated, InFlight, Answer, AnswerAll
  <2>2. stage'[c] = "answered"
    BY <1>16 DEF DbUpdated, Answer, AnswerAll
  <2>3. CASE UNCHANGED documents
    BY <1>16, <2>1, <2>2, <2>3, FileGoesOn DEF DbUpdated
  <2>4. ASSUME NEW d \in documents, Update(d, live[call[c].proc]) PROVE SaveInv'
    <3>1. SUFFICES ASSUME SavesAreAlone' PROVE OneEach' /\ SavesApart' /\ InsertsNew'
      BY <1>16 DEF SaveInv
    <3>2. OneEach /\ SavesApart /\ InsertsNew
      BY <1>16, <3>1 DEF SaveInv, SavesAreAlone, DbUpdated
    <3>3. OneEach'
      BY <2>4, <3>2, UpdateKeepsOne
    <3>4. SavesApart'
      BY <1>16, <2>1, <2>2, <3>2 DEF DbUpdated, SavesApart, InFlight
    <3>5. \A e \in documents' : \E f \in documents : f.proc = e.proc
      BY <2>4, TypeParts DEF Update, CallsType, Documents
    <3>6. InsertsNew'
      BY <1>16, <2>1, <2>2, <3>2, <3>5 DEF DbUpdated, InsertsNew
    <3>7. QED
      BY <3>3, <3>4, <3>6
  <2>5. QED
    BY <1>16, <2>3, <2>4 DEF DbUpdated
<1>17. ASSUME NEW p \in Procs, Change(p), UNCHANGED <<mongoVars, found, implementation>>
      PROVE  SaveInv'
  BY <1>17 DEF Change, SaveInv, SavesAreAlone, OneEach, SavesApart, InsertsNew, InFlight
<1>18. CASE UNCHANGED vars
  BY <1>18
     DEF vars, callVars, SaveInv, SavesAreAlone, OneEach, SavesApart, InsertsNew, InFlight
<1>19. QED
  BY <1>1, <1>2, <1>3, <1>4, <1>5, <1>6, <1>7, <1>8, <1>9, <1>10,
     <1>11, <1>12, <1>13, <1>14, <1>15, <1>16, <1>17, <1>18
     DEF Next, MongoNext, FileNext, DriverAnswers, DbAnswers, Idle

-----------------------------------------------------------------------------
(****************************************************************************)
(* Theorems.                                                                *)
(****************************************************************************)
LEMMA InvInit == Init => Inv
<1> SUFFICES ASSUME Init PROVE Inv
  OBVIOUS
<1>1. /\ \A c \in Calls : stage[c] = "none" /\ call[c] = NotCalled /\ listens[c] = Nobody
      /\ \A c \in Calls : answers[c] = 0 /\ result[c] = NoResult /\ found[c] = {}
      /\ documents = {} /\ onWire = {} /\ emitter = Nobody /\ connection = Nobody
  BY DEF Init, CallsInit, MongoInit, FileInit
<1>2. StageInv /\ WireInv /\ OwnerInv
  BY <1>1 DEF StageInv, WireInv, OwnerInv
<1>3. AnswerInv
  BY <1>1 DEF AnswerInv
<1>4. EmitterOK /\ ClosingOK /\ WiredOK
  BY <1>1 DEF EmitterOK, ClosingOK, WiredOK
<1>5. OneEach /\ SavesApart /\ InsertsNew
  BY <1>1 DEF OneEach, SavesApart, InsertsNew, InFlight
<1>6. QED
  BY <1>2, <1>3, <1>4, <1>5, TypeInit DEF Inv, ConnectionInv, SaveInv

LEMMA InvStep == Inv /\ [Next]_vars => Inv'
  BY TypeStep, StageStep, WireStep, OwnerStep, AnswerStep, ConnectionStep, SaveStep DEF Inv

LEMMA Invariance == Spec => []Inv
  BY InvInit, InvStep, PTL DEF Spec

\* persist and load call back at most once, whoever opens the connection they wait for
\* (mongodb.js:59-149, file.js:21-123), unless a close comes beside other calls.
THEOREM CallsAreAnsweredOnce == Spec => []AnsweredOnce
<1>1. Inv => AnsweredOnce
  <2> SUFFICES ASSUME Inv, CloseIsAlone, NEW c \in Calls PROVE answers[c] <= 1
    BY DEF AnsweredOnce, CloseIsAlone
  <2>1. answers[c] = IF stage[c] = "answered" THEN 1 ELSE 0
    BY DEF Inv, AnswerInv
  <2>2. answers[c] = 0 \/ answers[c] = 1
    BY <2>1
  <2>3. QED
    BY <2>2
<1>2. QED
  BY <1>1, Invariance, PTL

\* A process has one document in either layer (mongodb.js:266-291, file.js:21-65), unless its
\* saves overlap or a find fails.
THEOREM ProcessesHaveOneDocument == Spec => []OneDocument
<1>1. Inv => OneDocument
  BY OneEachCounts DEF Inv, OneDocument, SaveInv, SavesAreAlone
<1>2. QED
  BY <1>1, Invariance, PTL

-----------------------------------------------------------------------------
(****************************************************************************)
(* The layers implement the store.                                          *)
(****************************************************************************)
LEMMA StateOfOne ==
  ASSUME NEW D, NEW d \in D, \A e \in D : e.proc = d.proc => e = d
  PROVE  StateIn(D, d.proc) = d.state
  BY DEF StateIn

LEMMA AnswerIsOpen ==
  ASSUME Inv, trouble = {}, NEW c \in Calls, stage[c] # "answered"
  PROVE  AnswerOf(c) = Store!NoAnswer /\ result[c] = NoResult
  BY DEF Inv, AnswerInv, CloseIsAlone, AnswerOf, NoResult, Store!NoAnswer

LEMMA StutteringStep ==
  ASSUME UNCHANGED <<live, documents, call, result>>
  PROVE  UNCHANGED Store!storeVars
  BY DEF Store!storeVars, AnswerOf, StateIn

LEMMA ChangeStep ==
  ASSUME NEW p \in Procs, Change(p)
  PROVE  Store!StoreNext
  BY DEF Change, Store!StoreNext, Store!Change, AnswerOf, StateIn

LEMMA AskStep ==
  ASSUME Inv, trouble = {}, NEW c \in Calls, NEW op \in Ops, NEW p \in Procs, Request(c, op, p),
         UNCHANGED result
  PROVE  Store!StoreNext
<1>1. call[c] = NotCalled /\ stage[c] # "answered"
  BY RequestCalls DEF Inv, StageInv
<1>2. call' = [call EXCEPT ![c] = [op |-> op, proc |-> p, since |-> live[p]]]
      /\ UNCHANGED <<live, documents>>
  BY DEF Request
<1>3. \A d \in Calls : AnswerOf(d)' = AnswerOf(d)
  <2>1. ASSUME NEW d \in Calls, d # c PROVE AnswerOf(d)' = AnswerOf(d)
    BY <1>2, <2>1 DEF AnswerOf, StateIn, Inv, TypeInv
  <2>2. AnswerOf(c)' = AnswerOf(c)
    BY <1>1, AnswerIsOpen DEF AnswerOf, NoResult
  <2>3. QED
    BY <2>1, <2>2
<1>4. Store!Ask(c)
  BY <1>1, <1>2, <1>3 DEF Store!Ask, Store!NotAsked, NotCalled, Store!Ops, Ops
<1>5. QED
  BY <1>4 DEF Store!StoreNext

LEMMA FailStep ==
  ASSUME Inv, trouble = {}, NEW cs \in SUBSET Calls, AnswerAll(cs, Failure),
         \A d \in cs : call[d] # NotCalled /\ stage[d] # "answered",
         UNCHANGED <<live, documents, call>>
  PROVE  Store!StoreNext
<1>1. \A d \in Calls : AnswerOf(d)' = IF d \in cs THEN Store!Failure ELSE AnswerOf(d)
  BY DEF AnswerAll, AnswerOf, Failure, Store!Failure, StateIn
<1>2. Store!Fail(cs)
  BY <1>1, AnswerIsOpen DEF Store!Fail, Store!NotAsked, NotCalled, StateIn
<1>3. QED
  BY <1>2 DEF Store!StoreNext

\* The processes an answer tells of.
Scope(r) == IF r.op = "loadAll" THEN Procs ELSE IF r.op = "load" THEN {r.proc} ELSE {}

LEMMA ServeStep ==
  ASSUME Inv, trouble = {}, NEW c \in Calls, NEW D, Answer(c, Done(D)),
         call[c] # NotCalled, stage[c] # "answered", UNCHANGED <<live, call>>,
         \A p \in Scope(call[c]) : p \in Procs /\ StateIn(D, p) = StateIn(documents, p),
         IF call[c].op = "persist"
         THEN \E state \in call[c].since .. live[call[c].proc] :
                \A p \in Procs : StateIn(documents', p) =
                                   IF p = call[c].proc THEN state ELSE StateIn(documents, p)
         ELSE documents' = documents
  PROVE  Store!StoreNext
<1>1. \A d \in Calls \ {c} : AnswerOf(d)' = AnswerOf(d)
  BY DEF Answer, AnswerAll, AnswerOf, StateIn
<1>2. AnswerOf(c)' = Store!Done(Store!Found(call[c]))
  <2>1. result'[c] = Done(D)
    BY DEF Answer, AnswerAll
  <2>2. AnswerOf(c)' = [tag |-> "done", found |-> [p \in Scope(call[c]) |-> StateIn(D, p)]]
    BY <2>1 DEF AnswerOf, Done, Scope, StateIn
  <2>3. Store!Found(call[c]) = [p \in Scope(call[c]) |-> StateIn(documents, p)]
    BY DEF Store!Found, Scope
  <2>4. QED
    BY <2>2, <2>3 DEF Store!Done
<1>3. Store!Serve(c)
  <2>1. [d \in Calls |-> AnswerOf(d)]' =
          [[d \in Calls |-> AnswerOf(d)] EXCEPT ![c] = Store!Done(Store!Found(call[c]))]
    BY <1>1, <1>2
  <2>2. [d \in Calls |-> AnswerOf(d)][c] = Store!NoAnswer
    BY AnswerIsOpen
  <2>3. CASE call[c].op = "persist"
    BY <2>1, <2>2, <2>3 DEF Store!Serve, Store!NotAsked, NotCalled
  <2>4. CASE call[c].op # "persist"
    BY <2>1, <2>2, <2>4 DEF Store!Serve, Store!NotAsked, NotCalled, StateIn
  <2>5. QED
    BY <2>3, <2>4
<1>4. QED
  BY <1>3 DEF Store!StoreNext

\* The state of a process in a set of documents with one for each.
LEMMA StateOfProcess ==
  ASSUME OneEach, NEW p
  PROVE  StateIn(DocumentsOf(p), p) = StateIn(documents, p)
<1>1. CASE DocumentsOf(p) = {}
  BY <1>1 DEF StateIn, DocumentsOf
<1>2. ASSUME NEW d \in DocumentsOf(p)
      PROVE  StateIn(DocumentsOf(p), p) = StateIn(documents, p)
  <2>1. d \in documents /\ d.proc = p
    BY <1>2 DEF DocumentsOf
  <2>2. StateIn(documents, p) = d.state
    BY <2>1, StateOfOne DEF OneEach
  <2>3. \A e \in DocumentsOf(p) : e.proc = d.proc => e = d
    BY <2>1 DEF OneEach, DocumentsOf
  <2>4. StateIn(DocumentsOf(p), d.proc) = d.state
    BY <1>2, <2>3, StateOfOne
  <2>5. QED
    BY <2>1, <2>2, <2>4
<1>3. QED
  BY <1>1, <1>2

LEMMA StatesAfterSave ==
  ASSUME OneEach, OneEach', NEW q, NEW state, NEW e \in documents', e.proc = q, e.state = state,
         \A d \in documents : d.proc # q => d \in documents',
         \A d \in documents' : d.proc # q => d \in documents,
         NEW p
  PROVE  StateIn(documents', p) = IF p = q THEN state ELSE StateIn(documents, p)
<1>1. CASE p = q
  <2>1. \A d \in documents' : d.proc = e.proc => d = e
    BY DEF OneEach
  <2>2. StateIn(documents', e.proc) = e.state
    BY <2>1, StateOfOne
  <2>3. QED
    BY <1>1, <2>2
<1>2. ASSUME p # q, NEW d \in documents, d.proc = p
      PROVE  StateIn(documents', p) = StateIn(documents, p)
  <2>1. d \in documents'
    BY <1>2
  <2>2. StateIn(documents, d.proc) = d.state
    BY <1>2, StateOfOne DEF OneEach
  <2>3. \A f \in documents' : f.proc = d.proc => f = d
    BY <2>1 DEF OneEach
  <2>4. StateIn(documents', d.proc) = d.state
    BY <2>1, <2>3, StateOfOne
  <2>5. QED
    BY <1>2, <2>2, <2>4
<1>3. CASE p # q /\ \A d \in documents : d.proc # p
  BY <1>3 DEF StateIn
<1>4. QED
  BY <1>1, <1>2, <1>3

LEMMA OneEachOf == ASSUME Inv, trouble = {} PROVE OneEach
  BY DEF Inv, SaveInv, SavesAreAlone

\* A save that is done: the state it stored is one the process had since the call.
LEMMA SaveServed ==
  ASSUME Inv, trouble = {}, NEW c \in Calls, call[c] # NotCalled, stage[c] # "answered",
         call[c].op = "persist", Answer(c, Done({})), UNCHANGED <<live, call>>,
         NEW state \in call[c].since .. live[call[c].proc],
         \/ DocumentsOf(call[c].proc) = {} /\ Insert(c, state)
         \/ \E d \in DocumentsOf(call[c].proc) : Update(d, state)
  PROVE  Store!StoreNext
<1>1. OneEach
  BY OneEachOf
<1>2. \A p \in Procs : StateIn(documents', p) =
                         IF p = call[c].proc THEN state ELSE StateIn(documents, p)
  <2>1. CASE DocumentsOf(call[c].proc) = {} /\ Insert(c, state)
    <3>1. OneEach'
      BY <1>1, <2>1, InsertKeepsOne DEF DocumentsOf
    <3> DEFINE e == [by |-> c, proc |-> call[c].proc, state |-> state]
    <3>2. e \in documents' /\ e.proc = call[c].proc /\ e.state = state
      BY <2>1 DEF Insert
    <3>3. \A f \in documents : f.proc # call[c].proc => f \in documents'
      BY <2>1 DEF Insert
    <3>4. \A f \in documents' : f.proc # call[c].proc => f \in documents
      BY <2>1 DEF Insert
    <3>5. QED
      BY <1>1, <3>1, <3>2, <3>3, <3>4, StatesAfterSave
  <2>2. ASSUME NEW d \in DocumentsOf(call[c].proc), Update(d, state), NEW p \in Procs
        PROVE  StateIn(documents', p) = IF p = call[c].proc THEN state ELSE StateIn(documents, p)
    <3> DEFINE e == [d EXCEPT !.state = state]
    <3>1. OneEach'
      BY <1>1, <2>2, UpdateKeepsOne DEF DocumentsOf, Inv
    <3>2. d \in Documents /\ d \in documents /\ d.proc = call[c].proc
      BY <2>2 DEF DocumentsOf, Inv, TypeInv
    <3>3. e \in documents' /\ e.proc = call[c].proc /\ e.state = state
      BY <2>2, <3>2 DEF Update, Documents
    <3>4. \A f \in documents : f.proc # call[c].proc => f \in documents'
      BY <2>2, <3>2 DEF Update
    <3>5. \A f \in documents' : f.proc # call[c].proc => f \in documents
      BY <2>2, <3>3 DEF Update
    <3>6. QED
      BY <1>1, <3>1, <3>3, <3>4, <3>5, StatesAfterSave
  <2>3. QED
    BY <2>1, <2>2
<1>3. Scope(call[c]) = {}
  BY DEF Scope
<1>4. QED
  BY <1>2, <1>3, ServeStep

\* A load, or a close, that is done.
LEMMA LoadServed ==
  ASSUME Inv, trouble = {}, NEW c \in Calls, call[c] # NotCalled, stage[c] # "answered",
         call[c].op # "persist", Answer(c, Done(Found(c))), UNCHANGED <<live, call, documents>>
  PROVE  Store!StoreNext
<1>1. OneEach
  BY OneEachOf
<1>2. call[c].proc \in Procs
  BY RecordOf, TypeParts DEF Inv
<1>3. \A p \in Scope(call[c]) : p \in Procs /\ StateIn(Found(c), p) = StateIn(documents, p)
  <2>1. CASE call[c].op = "load"
    BY <1>1, <1>2, <2>1, StateOfProcess DEF Scope, Found
  <2>2. CASE call[c].op # "load"
    BY <2>2 DEF Scope, Found
  <2>3. QED
    BY <2>1, <2>2
<1>4. QED
  BY <1>3, ServeStep

LEMMA LoadSucceeds ==
  ASSUME Inv, trouble = {}, NEW c \in Calls
  PROVE  ~(call[c].op = "load" /\ Cardinality(Found(c)) > 1)
<1>1. Cardinality(DocumentsOf(call[c].proc)) <= 1
  BY OneEachOf, OneEachCounts
<1>2. ~(Cardinality(DocumentsOf(call[c].proc)) > 1)
  <2>1. DocumentsOf(call[c].proc) = {} \/ \E d : DocumentsOf(call[c].proc) = {d}
    BY OneEachOf DEF OneEach, DocumentsOf
  <2>2. Cardinality(DocumentsOf(call[c].proc)) \in {0, 1}
    BY <2>1, FS_EmptySet, FS_Singleton
  <2>3. QED
    BY <2>2
<1>3. QED
  BY <1>2 DEF Found

LEMMA NothingClosed ==
  ASSUME Inv, trouble = {}, NEW c \in Calls, NEW p \in Procs, Request(c, "close", p),
         Answer(c, Done({}))
  PROVE  Store!StoreNext
<1>1. call[c] = NotCalled
      /\ call' = [call EXCEPT ![c] = [op |-> "close", proc |-> p, since |-> live[p]]]
      /\ call'[c] = [op |-> "close", proc |-> p, since |-> live[p]]
      /\ UNCHANGED <<live, documents>>
  BY DEF Request, Inv, TypeInv
<1>2. \A d \in Calls \ {c} : AnswerOf(d)' = AnswerOf(d)
  BY <1>1 DEF Answer, AnswerAll, AnswerOf
<1>3. AnswerOf(c)' = Store!Done(Store!Found(call'[c]))
  <2>1. result'[c] = Done({}) /\ call'[c].op = "close"
    BY <1>1 DEF Answer, AnswerAll
  <2>2. AnswerOf(c)' = [tag |-> "done", found |-> [q \in {} |-> 0]]
    BY <2>1 DEF AnswerOf, Done
  <2>3. Store!Found(call'[c]) = [q \in {} |-> 0]
    BY <2>1 DEF Store!Found
  <2>4. QED
    BY <2>2, <2>3 DEF Store!Done
<1>4. [d \in Calls |-> AnswerOf(d)]' =
        [[d \in Calls |-> AnswerOf(d)] EXCEPT ![c] = Store!Done(Store!Found(call'[c]))]
  BY <1>2, <1>3
<1>5. [q \in Procs |-> StateIn(documents, q)]' = [q \in Procs |-> StateIn(documents, q)]
  BY <1>1 DEF StateIn
<1>6. Store!CloseNothing(c)
  BY <1>1, <1>4, <1>5 DEF Store!CloseNothing, Store!NotAsked, NotCalled
<1>7. QED
  BY <1>6 DEF Store!StoreNext

LEMMA Called ==
  ASSUME Inv, NEW c \in Calls, stage[c] # "none"
  PROVE  call[c] # NotCalled
  BY DEF Inv, StageInv

LEMMA Wired ==
  ASSUME Inv, trouble = {}, implementation = "mongodb", NEW o \in onWire
  PROVE  /\ o.call \in Calls /\ call[o.call] # NotCalled /\ stage[o.call] = "sent"
         /\ o.state \in call[o.call].since .. live[call[o.call].proc]
<1>1. o.call \in Calls /\ o.state \in Nat
  BY DEF Inv, TypeInv
<1>2. stage[o.call] = "sent" /\ call[o.call] # NotCalled
  BY DEF Inv, ConnectionInv, CloseIsAlone, WiredOK, WireInv
<1>3. call[o.call].since <= o.state /\ o.state <= live[call[o.call].proc]
  BY DEF Inv, WireInv
<1>4. call[o.call].since \in Nat /\ live[call[o.call].proc] \in Nat
  BY <1>1, <1>2, RecordOf, TypeParts DEF Inv, CallRecords
<1>5. QED
  BY <1>1, <1>2, <1>3, <1>4

\* A step of the layers that brings no trouble is a step of the store, or none.
LEMMA StepRefines ==
  ASSUME Inv, trouble = {}, trouble' = {}, [Next]_vars
  PROVE  Store!StoreNext \/ UNCHANGED Store!storeVars
<1>1. ASSUME NEW c \in Calls, NEW p \in Procs, NEW op \in Ops, Execute(c, op, p)
      PROVE  Store!StoreNext
  BY <1>1, AskStep DEF Execute, Becomes
<1>2. ASSUME NEW c \in Calls, NEW p \in Procs, Close(c, p)
      PROVE  Store!StoreNext
  <2>1. CASE connection # Nobody
    BY <1>2, <2>1, AskStep DEF Close, Becomes, Ops
  <2>2. CASE connection = Nobody
    BY <1>2, <2>2, NothingClosed DEF Close
  <2>3. QED
    BY <2>1, <2>2
<1>3. ASSUME NEW c \in Calls, Connected(c) PROVE UNCHANGED Store!storeVars
  BY <1>3, StutteringStep DEF Connected, Becomes
<1>4. ASSUME NEW c \in Calls, NotConnected(c), implementation = "mongodb"
      PROVE  Store!StoreNext \/ UNCHANGED Store!storeVars
  <2>1. CASE emitter # Nobody
    <3>1. \A d \in Listeners \cup {c} : d \in Calls /\ stage[d] \in {"listening", "opening"}
      BY <1>4 DEF NotConnected, Listeners, Inv, ConnectionInv, CloseIsAlone, EmitterOK
    <3>2. \A d \in Listeners \cup {c} : call[d] # NotCalled /\ stage[d] # "answered"
      BY <3>1, Called
    <3>3. QED
      BY <1>4, <2>1, <3>1, <3>2, FailStep DEF NotConnected
  <2>2. CASE emitter = Nobody
    BY <1>4, <2>2, StutteringStep DEF NotConnected, Becomes
  <2>3. QED
    BY <2>1, <2>2
<1>5. ASSUME NEW c \in Calls, Closed(c) PROVE Store!StoreNext
  <2>1. call[c] # NotCalled /\ stage[c] # "answered" /\ call[c].op = "close"
    BY <1>5, Called DEF Closed, Inv, StageInv
  <2>2. Found(c) = {}
    BY <2>1 DEF Found
  <2>3. QED
    BY <1>5, <2>1, <2>2, LoadServed DEF Closed
<1>6. ASSUME NEW o \in onWire, FindAndModify(o), implementation = "mongodb"
      PROVE  Store!StoreNext
  BY <1>6, Wired, SaveServed DEF FindAndModify
<1>7. ASSUME NEW o \in onWire, Find(o), implementation = "mongodb"
      PROVE  Store!StoreNext
  <2>1. o.call \in Calls /\ call[o.call] # NotCalled /\ stage[o.call] # "answered"
    BY <1>7, Wired
  <2>2. QED
    BY <1>7, <2>1, LoadSucceeds, LoadServed DEF Find
<1>8. ASSUME NEW c \in Calls, Answer(c, Failure), UNCHANGED <<live, documents, call>>,
             call[c] # NotCalled, stage[c] # "answered"
      PROVE  Store!StoreNext
  BY <1>8, FailStep DEF Answer
<1>9. ASSUME NEW o \in onWire, DriverFails(o), implementation = "mongodb"
      PROVE  Store!StoreNext
  BY <1>8, <1>9, Wired DEF DriverFails
<1>10. ASSUME NEW c \in Calls, NEW p \in Procs, NEW op \in Ops, FileRequest(c, op, p)
       PROVE  Store!StoreNext
  BY <1>10, AskStep DEF FileRequest, Becomes
<1>11. ASSUME NEW c \in Calls, NEW p \in Procs, FileClose(c, p) PROVE Store!StoreNext
  BY <1>11, AskStep DEF FileClose, Becomes, Ops
<1>12. ASSUME NEW c \in Calls, DbConnected(c)
       PROVE  Store!StoreNext \/ UNCHANGED Store!storeVars
  <2>1. CASE Becomes(c, "finding")
    BY <1>12, <2>1, StutteringStep DEF DbConnected, Becomes
  <2>2. CASE Answer(c, Failure)
    BY <1>8, <1>12, <2>2, Called DEF DbConnected
  <2>3. QED
    BY <1>12, <2>1, <2>2 DEF DbConnected
<1>13. ASSUME NEW c \in Calls, FoundForSave(c)
       PROVE  Store!StoreNext \/ UNCHANGED Store!storeVars
  <2>1. CASE UNCHANGED result
    BY <1>13, <2>1, StutteringStep DEF FoundForSave
  <2>2. CASE Answer(c, Failure)
    BY <1>8, <1>13, <2>2, Called DEF FoundForSave
  <2>3. QED
    BY <1>13, <2>1, <2>2 DEF FoundForSave, Becomes
<1>14. ASSUME NEW c \in Calls, FoundForLoad(c) PROVE Store!StoreNext
  BY <1>14, Called, LoadSucceeds, LoadServed DEF FoundForLoad
<1>15. ASSUME NEW c \in Calls, FindFails(c) PROVE FALSE
  BY <1>15 DEF FindFails
<1>16. ASSUME NEW c \in Calls, DbInserted(c), implementation = "file"
       PROVE  Store!StoreNext
  <2>1. call[c] # NotCalled /\ stage[c] # "answered" /\ call[c].op = "persist"
    BY <1>16, Called DEF DbInserted, Inv, StageInv
  <2>2. CASE Insert(c, live[call[c].proc]) /\ Answer(c, Done({}))
    <3>1. DocumentsOf(call[c].proc) = {}
      BY <1>16 DEF DbInserted, Inv, SaveInv, SavesAreAlone, InsertsNew, DocumentsOf
    <3>2. live[call[c].proc] \in call[c].since .. live[call[c].proc]
      <4>1. call[c].since \in Nat /\ live[call[c].proc] \in Nat
        BY <2>1, RecordOf, TypeParts DEF Inv, CallRecords
      <4>2. call[c].since <= live[call[c].proc]
        BY <2>1 DEF Inv, StageInv
      <4>3. QED
        BY <4>1, <4>2
    <3>3. QED
      BY <1>16, <2>1, <2>2, <3>1, <3>2, SaveServed DEF DbInserted
  <2>3. CASE UNCHANGED documents /\ Answer(c, Failure)
    BY <1>8, <1>16, <2>1, <2>3 DEF DbInserted
  <2>4. QED
    BY <1>16, <2>2, <2>3 DEF DbInserted
<1>17. ASSUME NEW c \in Calls, DbUpdated(c) PROVE Store!StoreNext
  <2>1. call[c] # NotCalled /\ stage[c] # "answered" /\ call[c].op = "persist"
    BY <1>17, Called DEF DbUpdated, Inv, StageInv
  <2>2. ASSUME NEW d \in documents, NEW f \in found[c], f.by = d.by,
               Update(d, live[call[c].proc]), Answer(c, Done({}))
        PROVE  Store!StoreNext
    <3>1. d.proc = call[c].proc
      BY <2>2 DEF Inv, OwnerInv
    <3>2. live[call[c].proc] \in call[c].since .. live[call[c].proc]
      <4>1. call[c].since \in Nat /\ live[call[c].proc] \in Nat
        BY <2>1, RecordOf, TypeParts DEF Inv, CallRecords
      <4>2. call[c].since <= live[call[c].proc]
        BY <2>1 DEF Inv, StageInv
      <4>3. QED
        BY <4>1, <4>2
    <3>3. d \in DocumentsOf(call[c].proc)
      BY <2>2, <3>1 DEF DocumentsOf
    <3>4. QED
      BY <1>17, <2>1, <2>2, <3>2, <3>3, SaveServed DEF DbUpdated
  <2>3. CASE UNCHANGED documents /\ Answer(c, Failure)
    BY <1>8, <1>17, <2>1, <2>3 DEF DbUpdated
  <2>4. QED
    BY <1>17, <2>2, <2>3 DEF DbUpdated
<1>18. ASSUME NEW p \in Procs, Change(p) PROVE Store!StoreNext
  BY <1>18, ChangeStep
<1>19. CASE UNCHANGED vars
  BY <1>19, StutteringStep DEF vars, callVars
<1>20. CASE implementation = "mongodb" /\ MongoNext
  BY <1>1, <1>2, <1>3, <1>4, <1>5, <1>6, <1>7, <1>9, <1>20 DEF MongoNext, DriverAnswers
<1>21. CASE implementation = "file" /\ FileNext
  BY <1>10, <1>11, <1>12, <1>13, <1>14, <1>15, <1>16, <1>17, <1>21 DEF FileNext, DbAnswers
<1>22. QED
  BY <1>18, <1>19, <1>20, <1>21 DEF Next, Idle

LEMMA TroubleStays == ASSUME [Next]_vars, trouble' = {} PROVE trouble = {}
<1>1. trouble \subseteq trouble'
  BY DEF Next, MongoNext, DriverAnswers, FileNext, DbAnswers, Idle, vars, callVars,
     Execute, Close, Request, Connected, NotConnected, Closed, FindAndModify, Find, DriverFails,
     FileRequest, FileClose, DbConnected, FoundForSave, FoundForLoad, FindFails, DbInserted,
     DbUpdated, Change
<1>2. QED
  BY <1>1

\* Until there is trouble both layers are the store of DocumentStore: a save stores a state
\* the process had between the call and its answer, a load answers what is stored, an error
\* changes nothing (mongodb.js:59-291, file.js:21-126).
THEOREM LayersImplementStore == Spec => ImplementsStore
<1>1. Init => Store!StoreInit
  <2> SUFFICES ASSUME Init PROVE Store!StoreInit
    OBVIOUS
  <2>1. \A c \in Calls : result[c] = NoResult
    BY DEF Init, CallsInit
  <2>2. \A c \in Calls : AnswerOf(c) = Store!NoAnswer
    BY <2>1 DEF AnswerOf, NoResult, Store!NoAnswer
  <2>3. \A p \in Procs : StateIn(documents, p) = Nobody
    BY DEF Init, CallsInit, StateIn
  <2>4. QED
    BY <2>2, <2>3 DEF Init, CallsInit, Store!StoreInit, NotCalled, Store!NotAsked
<1>2. Inv /\ [Next]_vars => [Store!StoreNext \/ trouble' # {}]_(Store!storeVars)
  BY StepRefines, TroubleStays
<1>3. QED
  BY <1>1, <1>2, Invariance, PTL DEF Spec, ImplementsStore
===============================================================================
