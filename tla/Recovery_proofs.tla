---------------------------- MODULE Recovery_proofs ----------------------------
(****************************************************************************)
(* What was acknowledged as saved is not lost, for every definition, every  *)
(* order in which the persistency layer reads, stores and answers, and any  *)
(* number of restarts.  A process that saves while it waits is stored       *)
(* waiting, and its timers run again after every restart.                   *)
(****************************************************************************)
EXTENDS RecoveryProperties, TokenAccounting_proofs

\* The steps of a running or loading process are steps of the engine.
LEMMA EngineStep ==
  ASSUME RecoveryNext
  PROVE  \/ /\ [Next]_vars
            /\ UNCHANGED <<phase, stored, restoring, asked, written, acked, refused, restarts>>
         \/ RequestSave \/ WriteDocument \/ SaveAnswered \/ SaveRefused
         \/ Restart \/ Loading
<1> DEFINE kept == UNCHANGED <<phase, stored, restoring, asked, written, acked, refused, restarts>>
<1>1. CASE Run
  BY <1>1 DEF Run, Next, RunStep, storeVars
<1>2. ASSUME NEW t \in TimerEvents, Timer(t) PROVE Next /\ kept
  BY <1>2 DEF Timer, Outside, Next, TimerEvent, storeVars
<1>3. ASSUME Closed PROVE Next /\ kept
  BY <1>3 DEF Closed, Outside, Next, IoEvent, storeVars
<1>4. ASSUME NEW c \in Late, Answer(c) PROVE Next /\ kept
  BY <1>4 DEF Answer, Outside, Next, storeVars
<1>5. ASSUME Start PROVE Next /\ kept
  BY <1>5 DEF Start, Outside, Next, ClientStep, storeVars
<1>6. ASSUME NEW o \in FlowObjects, Report(o) \/ Interrupt(o) PROVE Next /\ kept
  BY <1>6 DEF Report, Interrupt, Outside, Next, ClientStep, storeVars
<1>7. ASSUME Resting PROVE Next /\ kept
  BY <1>7 DEF Resting, Outside, Next, storeVars
<1>8. QED
  BY <1>1, <1>2, <1>3, <1>4, <1>5, <1>6, <1>7 DEF RecoveryNext

-----------------------------------------------------------------------------
(****************************************************************************)
(* Types.                                                                   *)
(****************************************************************************)
LEMMA DocumentType ==
  ASSUME TypeOK
  PROVE  Document \in Documents /\ Document.visited = visited
  BY DEF TypeOK, Document, Documents

LEMMA NoDocumentType == NoDocument \in Documents /\ NoDocument.visited = {}
  BY DEF NoDocument, Documents

\* What the store holds and what is asked of it.
StoreTypeOK ==
  /\ stored \in Documents
  /\ asked \in Seq(SaveRequests)
  /\ written \in 0 .. Len(asked)
  /\ acked \subseteq FlowObjects
  /\ refused \in BOOLEAN

LEMMA StoreTypes ==
  RecoveryTypeOK <=> /\ TypeOK /\ StoreTypeOK
                     /\ phase \in {"running", "loading", "restoring"}
                     /\ restoring \subseteq FlowObjects
                     /\ restarts \in Nat
  BY DEF RecoveryTypeOK, StoreTypeOK

\* The next save is asked for: the last of the sequence.
LEMMA RequestSaveAppends ==
  ASSUME TypeOK, StoreTypeOK, RequestSave
  PROVE  /\ asked' \in Seq(SaveRequests)
         /\ Len(asked') = Len(asked) + 1
         /\ \A i \in 1 .. Len(asked) : asked'[i] = asked[i]
         /\ asked'[Len(asked) + 1].visited = visited
         /\ UNCHANGED visited
<1> DEFINE new == [final |-> Running("persistAndClose"), visited |-> visited]
<1>1. new \in SaveRequests /\ new.visited = visited
  BY DEF SaveRequests, TypeOK, Running
<1>2. asked' = Append(asked, new) /\ UNCHANGED visited
  BY DEF RequestSave, Persist
<1> HIDE DEF new
<1>3. QED
  BY <1>1, <1>2 DEF StoreTypeOK

\* The oldest save is answered.
LEMMA AnswerTakesHead ==
  ASSUME StoreTypeOK, asked # << >>, asked' = Tail(asked)
  PROVE  /\ Head(asked) \in SaveRequests /\ Head(asked) = asked[1]
         /\ asked' \in Seq(SaveRequests)
         /\ Len(asked') = Len(asked) - 1 /\ Len(asked) \in Nat \ {0}
         /\ \A i \in 1 .. Len(asked') : asked'[i] = asked[i + 1]
  BY DEF StoreTypeOK

LEMMA RestartType ==
  ASSUME RecoveryTypeOK, Restart
  PROVE  RecoveryTypeOK'
<1>1. << >> \in Seq(Items) /\ << >> \in Seq(Events) /\ << >> \in Seq(SaveRequests)
      /\ Len(<< >>) = 0
  OBVIOUS
<1>2. TypeOK'
  <2>1. /\ tokens' \in [FlowObjects -> Nat] /\ leaked' \in [FlowObjects -> Nat]
        /\ pending' \in [Late -> Nat] /\ io' \in [IoOps -> Nat]
    BY DEF Restart
  <2>2. agenda' \in Seq(Items) /\ deferred' \in [Processes -> Seq(Events)]
    BY <1>1 DEF Restart
  <2>3. QED
    BY <2>1, <2>2 DEF Restart, RecoveryTypeOK, TypeOK
<1>3. StoreTypeOK'
  <2>1. asked' = << >> /\ written' = 0 /\ refused' = FALSE /\ UNCHANGED <<stored, acked>>
    BY DEF Restart
  <2>2. asked' \in Seq(SaveRequests) /\ Len(asked') = 0
    BY <1>1, <2>1
  <2>3. written' \in 0 .. Len(asked')
    BY <2>1, <2>2
  <2>4. QED
    BY <2>1, <2>2, <2>3 DEF RecoveryTypeOK, StoreTypeOK
<1>4. QED
  BY <1>2, <1>3, StoreTypes DEF Restart, RecoveryTypeOK, StoreTypeOK

LEMMA LoadingType ==
  ASSUME RecoveryTypeOK, Loading
  PROVE  RecoveryTypeOK'
<1>1. TypeOK /\ StoreTypeOK
  BY StoreTypes
<1>2. UNCHANGED storeVars /\ UNCHANGED restarts
  BY DEF Loading, Load, RestoreTimer, FinishLoading
<1>3. StoreTypeOK'
  BY <1>1, <1>2 DEF StoreTypeOK, storeVars
<1>4. CASE Load
  <2>1. TypeOK'
    BY <1>1, <1>4 DEF Load, TypeOK, StoreTypeOK, Documents
  <2>2. restoring' \subseteq FlowObjects
    BY <1>1, <1>4 DEF Load, StoreTypeOK, Documents
  <2>3. QED
    BY <1>2, <1>3, <1>4, <2>1, <2>2 DEF Load, RecoveryTypeOK, StoreTypeOK
<1>5. ASSUME NEW t \in TimerEvents, RestoreTimer(t) PROVE RecoveryTypeOK'
  <2>1. t \in FlowObjects /\ << >> \in Seq(Items)
    BY DEF TimerEvents, OfKind
  <2>2. TypeOK'
    <3>1. CASE timers' = timers \cup {t} /\ UNCHANGED <<tokens, visited, called, agenda, pending,
                  deferEvents, deferred, io, leaked, calls>>
      BY <1>1, <2>1, <3>1 DEF TypeOK
    <3>2. CASE Expire(t, << >>) /\ UNCHANGED leaked
      <4>1. leaked' \in [FlowObjects -> Nat]
        BY <1>1, <3>2 DEF TypeOK
      <4>2. QED
        BY <1>1, <2>1, <3>2, <4>1, ExpireType
    <3>3. QED
      BY <1>5, <3>1, <3>2 DEF RestoreTimer
  <2>3. QED
    BY <1>2, <1>3, <1>5, <2>2 DEF RestoreTimer, RecoveryTypeOK, StoreTypeOK
<1>6. CASE FinishLoading
  <2>1. called' \subseteq Processes
    BY <1>1, <1>6 DEF FinishLoading, StoreTypeOK, Documents
  <2>2. TypeOK'
    BY <1>1, <1>6, <2>1, EmitDeferredEventsType DEF FinishLoading, TypeOK
  <2>3. QED
    BY <1>2, <1>3, <1>6, <2>2 DEF FinishLoading, RecoveryTypeOK, StoreTypeOK
<1>7. QED
  BY <1>4, <1>5, <1>6 DEF Loading

LEMMA SavingType ==
  ASSUME RecoveryTypeOK, RequestSave \/ WriteDocument \/ SaveAnswered \/ SaveRefused
  PROVE  RecoveryTypeOK'
<1>1. TypeOK /\ StoreTypeOK
  BY StoreTypes
<1>2. TypeOK'
  <2>1. [Next]_vars
    BY DEF RequestSave, WriteDocument, SaveAnswered, SaveRefused, engineVars, Next, RunStep, IoEvent
  <2>2. QED
    BY <1>1, <2>1, NextType
<1>3. UNCHANGED <<phase, restoring, restarts>>
  BY DEF RequestSave, WriteDocument, SaveAnswered, SaveRefused
<1>4. Len(asked) \in Nat
  BY <1>1 DEF StoreTypeOK
<1>5. StoreTypeOK'
  <2>1. CASE RequestSave
    <3>1. written' \in {written, written + 1} /\ stored' \in {stored, Document}
      BY <2>1 DEF RequestSave
    <3>2. QED
      BY <1>1, <1>4, <2>1, <3>1, RequestSaveAppends, DocumentType DEF RequestSave, StoreTypeOK
  <2>2. CASE WriteDocument
    BY <1>1, <1>4, <2>2, DocumentType DEF WriteDocument, StoreTypeOK
  <2>3. CASE SaveAnswered
    <3>1. asked # << >> /\ asked' = Tail(asked)
      BY <1>1, <2>3 DEF SaveAnswered, StoreTypeOK
    <3>2. acked' \subseteq FlowObjects
      BY <1>1, <2>3, <3>1, AnswerTakesHead DEF SaveAnswered, StoreTypeOK, SaveRequests
    <3>3. QED
      BY <1>1, <2>3, <3>1, <3>2, AnswerTakesHead DEF SaveAnswered, StoreTypeOK
  <2>4. CASE SaveRefused
    <3>1. asked # << >> /\ asked' = Tail(asked)
      BY <2>4 DEF SaveRefused
    <3>2. QED
      BY <1>1, <2>4, <3>1, AnswerTakesHead DEF SaveRefused, StoreTypeOK
  <2>5. QED
    BY <2>1, <2>2, <2>3, <2>4
<1>6. QED
  BY <1>2, <1>3, <1>5 DEF RecoveryTypeOK, StoreTypeOK

LEMMA RecoveryNextType ==
  ASSUME RecoveryTypeOK, [RecoveryNext]_recoveryVars
  PROVE  RecoveryTypeOK'
<1>1. ASSUME [Next]_vars,
             UNCHANGED <<phase, stored, restoring, asked, written, acked, refused, restarts>>
      PROVE  RecoveryTypeOK'
  BY <1>1, NextType DEF RecoveryTypeOK
<1>2. CASE UNCHANGED recoveryVars
  BY <1>1, <1>2 DEF recoveryVars, engineVars, storeVars
<1>3. QED
  BY <1>1, <1>2, EngineStep, SavingType, RestartType, LoadingType

\* The engine, the store and the saves in flight have their types, whatever is stopped and
\* loaded when (process.js:453-498, 543-650): a document that is loaded is a state.
THEOREM RecoveryTypeCorrectness == RecoverySpec => []RecoveryTypeOK
<1>1. RecoveryInit => RecoveryTypeOK
  <2> SUFFICES ASSUME RecoveryInit PROVE RecoveryTypeOK
    OBVIOUS
  <2>1. << >> \in Seq(Items) /\ << >> \in Seq(Events) /\ << >> \in Seq(SaveRequests)
        /\ Len(<< >>) = 0
    OBVIOUS
  <2>2. TypeOK
    <3>1. Init => /\ tokens \in [FlowObjects -> Nat] /\ leaked \in [FlowObjects -> Nat]
                  /\ calls \in [FlowObjects -> Nat]
                  /\ pending \in [Late -> Nat] /\ io \in [IoOps -> Nat]
      BY DEF Init
    <3>2. Init => agenda \in Seq(Items) /\ deferred \in [Processes -> Seq(Events)]
      BY <2>1 DEF Init
    <3>3. QED
      BY <3>1, <3>2 DEF RecoveryInit, Init, TypeOK
  <2>3. asked \in Seq(SaveRequests) /\ Len(asked) = 0 /\ written = 0
    BY <2>1 DEF RecoveryInit
  <2>4. written \in 0 .. Len(asked)
    BY <2>3
  <2>5. QED
    BY <2>2, <2>3, <2>4, NoDocumentType DEF RecoveryInit, RecoveryTypeOK
<1>2. RecoveryTypeOK /\ [RecoveryNext]_recoveryVars => RecoveryTypeOK'
  BY RecoveryNextType
<1>3. QED
  BY <1>1, <1>2, PTL DEF RecoverySpec

-----------------------------------------------------------------------------
(****************************************************************************)
(* The history only grows while a process runs; a document holds the whole  *)
(* of it.  So every document that is written holds what any earlier save    *)
(* was asked for.                                                           *)
(****************************************************************************)
HistoryInv ==
  /\ acked \subseteq stored.visited
  /\ \A i \in 1 .. Len(asked) : asked[i].visited \subseteq visited
  /\ \A i \in 1 .. written : asked[i].visited \subseteq stored.visited
  /\ phase # "loading" => stored.visited \subseteq visited
  /\ phase = "loading" => agenda = << >> /\ asked = << >>

LEMMA HistoryGrows ==
  ASSUME [Next]_vars
  PROVE  visited \subseteq visited'
<1>1. CASE TokenStep
  <2>1. CASE PutToken
    BY <2>1 DEF PutToken
  <2>2. CASE TokenStep /\ ~PutToken
    BY <2>2 DEF TokenStep, AnnounceToken, ArriveAtCatchEvent, ArriveAtFlowObject, WaitTaskHandled,
       FlowObjectHandled, Leave, JoinCompletes, JoinWaits, EmitAlongAll, EmitAlongOne, Fork,
       EndMainProcess, EndCalledProcess, EnterCall, StartCalledProcess
  <2>3. QED
    BY <1>1, <2>1, <2>2
<1>2. CASE EventStep
  BY <1>2 DEF EventStep, ActivityEnds, ActivityLeft, EmitCatchEvent, CatchEvent, EventCaught, Leave,
     CatchBoundaryEvent, UnhandledEvent
<1>3. CASE TimerStep \/ TimerEvent
  BY <1>3 DEF TimerStep, TimerEvent, ArmTimer, ArmExpiredTimer, TimerHandled, TimerFires,
     LeakedTimerFires, Expire
<1>4. CASE Persist \/ IoEvent
  BY <1>4 DEF Persist, IoEvent, SaveDone, FinalSaveDone, SaveFails, ConnectionClosed
<1>5. CASE ClientStep
  BY <1>5 DEF ClientStep, TriggerStart, TaskDone, TriggerCatchEvent, TriggerBoundaryEvent, ClientCalls
<1>6. CASE (\E c \in Late : HandlerAnswers(c)) \/ Idle \/ UNCHANGED vars
  BY <1>6 DEF HandlerAnswers, Idle, vars
<1>7. QED
  BY <1>1, <1>2, <1>3, <1>4, <1>5, <1>6 DEF Next, RunStep

\* While the document is loaded nothing else happens.
LEMMA LoadingIsAlone ==
  ASSUME phase = "loading", agenda = << >>, RecoveryNext
  PROVE  Restart \/ Load
<1>1. ~Run
  BY DEF Run, RequestSave, Persist, Running, TokenStep, PutToken, AnnounceToken, ArriveAtCatchEvent,
     ArriveAtFlowObject, WaitTaskHandled, FlowObjectHandled, JoinCompletes, JoinWaits, EmitAlongAll,
     EmitAlongOne, Fork, EndMainProcess, EndCalledProcess, EnterCall, StartCalledProcess, EventStep,
     ActivityEnds, ActivityLeft, EmitCatchEvent, CatchEvent, EventCaught, CatchBoundaryEvent,
     UnhandledEvent, TimerStep, ArmTimer, ArmExpiredTimer, TimerHandled
<1>2. QED
  BY <1>1 DEF RecoveryNext, WriteDocument, SaveAnswered, SaveRefused, Closed, Timer, Answer, Start,
     Resting, Report, Interrupt, Outside, Loading, RestoreTimer, FinishLoading

LEMMA HistoryStep ==
  ASSUME RecoveryTypeOK, HistoryInv, [RecoveryNext]_recoveryVars
  PROVE  HistoryInv'
<1>0. TypeOK /\ StoreTypeOK /\ written \in Nat /\ Len(asked) \in Nat /\ written <= Len(asked)
  BY StoreTypes DEF StoreTypeOK
<1>1. CASE UNCHANGED recoveryVars
  BY <1>1 DEF HistoryInv, recoveryVars, engineVars, storeVars, vars
<1>2. CASE Restart
  <2>1. asked' = << >> /\ written' = 0 /\ phase' = "loading" /\ agenda' = << >>
        /\ UNCHANGED <<stored, acked>>
    BY <1>2 DEF Restart
  <2>2. QED
    BY <2>1 DEF HistoryInv
<1>3. CASE Load
  <2>1. visited' = stored.visited /\ phase' = "restoring" /\ phase = "loading"
        /\ UNCHANGED <<stored, asked, written, acked>>
    BY <1>3 DEF Load, storeVars
  <2>2. Len(asked) = 0
    BY <2>1 DEF HistoryInv
  <2>3. QED
    BY <1>0, <2>1, <2>2 DEF HistoryInv
<1>4. CASE ~Load /\ ~Restart /\ RecoveryNext
  <2>1. phase # "loading"
    BY <1>4, LoadingIsAlone DEF HistoryInv
  <2>2. phase' # "loading"
    BY <1>4, <2>1, EngineStep DEF RequestSave, WriteDocument, SaveAnswered, SaveRefused, Loading,
       RestoreTimer, FinishLoading
  <2>3. visited \subseteq visited'
    <3>1. CASE [Next]_vars
      BY <3>1, HistoryGrows
    <3>2. CASE WriteDocument \/ Loading
      BY <1>4, <3>2 DEF WriteDocument, Loading, RestoreTimer, FinishLoading, Expire, engineVars, vars
    <3>3. CASE RequestSave \/ SaveAnswered \/ SaveRefused
      BY <3>3 DEF RequestSave, Persist, SaveAnswered, SaveDone, FinalSaveDone, SaveRefused, SaveFails
    <3>4. QED
      BY <1>4, <3>1, <3>2, <3>3, EngineStep
  <2>4. stored' = stored \/ (stored' = Document /\ Document.visited = visited)
    BY <1>0, <1>4, EngineStep, DocumentType DEF RequestSave, WriteDocument, SaveAnswered, SaveRefused,
       Loading, RestoreTimer, FinishLoading, storeVars
  <2>5. /\ stored.visited \subseteq stored'.visited
        /\ stored'.visited \subseteq visited'
    BY <2>1, <2>3, <2>4 DEF HistoryInv
  <2>6. CASE RequestSave
    <3>1. \A i \in 1 .. Len(asked') : asked'[i].visited \subseteq visited
      BY <1>0, <2>6, RequestSaveAppends DEF HistoryInv
    <3>2. \A i \in 1 .. written' : asked'[i].visited \subseteq stored'.visited
      <4>1. CASE UNCHANGED <<stored, written>>
        BY <1>0, <2>6, <4>1, RequestSaveAppends DEF HistoryInv
      <4>2. CASE stored' = Document /\ written' = Len(asked) + 1
        BY <1>0, <2>6, <3>1, <4>2, DocumentType, RequestSaveAppends
      <4>3. QED
        BY <2>6, <4>1, <4>2 DEF RequestSave
    <3>3. acked' = acked
      BY <2>6 DEF RequestSave
    <3>4. QED
      BY <2>2, <2>3, <2>5, <3>1, <3>2, <3>3 DEF HistoryInv
  <2>7. CASE WriteDocument
    <3>1. stored' = Document /\ written' = written + 1 /\ written < Len(asked)
          /\ UNCHANGED <<asked, acked, visited>>
      BY <2>7 DEF WriteDocument, engineVars, vars
    <3>2. \A i \in 1 .. written' : asked'[i].visited \subseteq stored'.visited
      BY <1>0, <3>1, DocumentType DEF HistoryInv
    <3>3. QED
      BY <2>2, <2>5, <3>1, <3>2 DEF HistoryInv
  <2>8. CASE SaveAnswered
    <3>1. /\ written > 0 /\ written' = written - 1 /\ asked # << >> /\ asked' = Tail(asked)
          /\ acked' = acked \cup Head(asked).visited /\ UNCHANGED stored
      BY <1>0, <2>8 DEF SaveAnswered
    <3>2. Head(asked).visited \subseteq stored.visited
      BY <1>0, <3>1, AnswerTakesHead DEF HistoryInv
    <3>3. \A i \in 1 .. written' : asked'[i].visited \subseteq stored'.visited
      BY <1>0, <3>1, AnswerTakesHead DEF HistoryInv
    <3>4. \A i \in 1 .. Len(asked') : asked'[i].visited \subseteq visited
      BY <1>0, <3>1, AnswerTakesHead DEF HistoryInv
    <3>5. QED
      BY <2>2, <2>3, <2>5, <3>1, <3>2, <3>3, <3>4 DEF HistoryInv
  <2>9. CASE SaveRefused
    <3>1. /\ written' = (IF written > 0 THEN written - 1 ELSE 0)
          /\ asked # << >> /\ asked' = Tail(asked) /\ UNCHANGED <<stored, acked>>
      BY <2>9 DEF SaveRefused
    <3>2. \A i \in 1 .. written' : asked'[i].visited \subseteq stored'.visited
      BY <1>0, <3>1, AnswerTakesHead DEF HistoryInv
    <3>3. \A i \in 1 .. Len(asked') : asked'[i].visited \subseteq visited
      BY <1>0, <3>1, AnswerTakesHead DEF HistoryInv
    <3>4. QED
      BY <2>2, <2>3, <2>5, <3>1, <3>2, <3>3 DEF HistoryInv
  <2>10. CASE UNCHANGED <<stored, asked, written, acked>>
    BY <2>2, <2>3, <2>5, <2>10 DEF HistoryInv
  <2>11. QED
    BY <1>4, <2>6, <2>7, <2>8, <2>9, <2>10, EngineStep DEF Loading, RestoreTimer, FinishLoading,
       storeVars
<1>5. QED
  BY <1>1, <1>2, <1>3, <1>4

\* What the client was told is saved survives every restart (process.js:453-498, 543-616):
\* the document that the save was answered for, or a later one, is what is loaded.
THEOREM AcknowledgedIsNotLost == RecoverySpec => []AckedNotLost
<1>1. RecoveryInit => HistoryInv
  BY NoDocumentType DEF RecoveryInit, HistoryInv
<1>2. RecoverySpec => []HistoryInv
  BY <1>1, HistoryStep, RecoveryTypeCorrectness, PTL DEF RecoverySpec
<1>3. HistoryInv => AckedNotLost
  BY DEF HistoryInv, AckedNotLost
<1>4. QED
  BY <1>2, <1>3, PTL
-----------------------------------------------------------------------------
(****************************************************************************)
(* A process that saves while it waits is stored with waiting tokens only.  *)
(* The accounts of TokenAccounting_proofs are kept through restarts too.    *)
(****************************************************************************)

\* Nothing is outstanding when nothing is under way.
LEMMA QuietAccounts ==
  ASSUME TypeOK, Quiet
  PROVE  /\ \A e \in Items : Outstanding(e) = 0
         /\ \A o \in FlowObjects : WorkAt(o) = 0
<1>1. ASSUME NEW e \in Items PROVE Outstanding(e) = 0
  <2>1. agenda = << >> /\ deferred[Receiver(e)] = << >>
    BY ReceiverType DEF Quiet
  <2>2. OnAgenda(e) = 0 /\ Deferred(Receiver(e), e) = 0
    BY <2>1, OccurrencesFew, Zenon DEF OnAgenda, Deferred
  <2>3. Held(e) = 0
    BY DEF Quiet, Held
  <2> QED
    BY <2>2, <2>3 DEF Outstanding
<1>2. ASSUME NEW o \in FlowObjects PROVE WorkAt(o) = 0
  BY <1>1, WorkItems, WorkOutstanding
<1> QED
  BY <1>1, <1>2

LEMMA NextQuietAccounts ==
  TypeOK' /\ Quiet' => /\ \A e \in Items : Outstanding(e)' = 0
                       /\ \A o \in FlowObjects : WorkAt(o)' = 0
<1>1. TypeOK /\ Quiet => /\ \A e \in Items : Outstanding(e) = 0
                         /\ \A o \in FlowObjects : WorkAt(o) = 0
  BY QuietAccounts
<1>2. TypeOK' /\ Quiet' => (/\ \A e \in Items : Outstanding(e) = 0
                            /\ \A o \in FlowObjects : WorkAt(o) = 0)'
  BY <1>1, PTL
<1>3. Items' = Items
  BY DEF Items, EventOps, ContinuationOps, CallOps
<1> QED
  BY <1>2, <1>3

\* What is stored, and what a process that waits for its document looks like.
SavingInv ==
  /\ AccountInv
  /\ SavedTokensWait
  /\ phase = "loading" => Quiet /\ asked = << >>

\* The document of a process that waits has waiting tokens only.
LEMMA WaitingDocument ==
  ASSUME TypeOK, TokensHaveWork, Quiet, NEW o \in FlowObjects, Document.tokens[o] > 0
  PROVE  Kind[o] \in {"waitTask", "catch", "timerCatch", "call", "and"}
<1>1. tokens[o] > 0
  BY DEF Document, HasTokens
<1>2. o \notin Automatic
  BY <1>1, QuietAccounts DEF TokensHaveWork, Automatic, OfKind
<1> QED
  BY <1>2, DefinitionAssumption, AutomaticFacts DEF Kinds

LEMMA SavingKept ==
  ASSUME SavedTokensWait, UNCHANGED stored
  PROVE  SavedTokensWait'
  BY DEF SavedTokensWait

LEMMA DocumentStored ==
  ASSUME SavedTokensWait, TypeOK, TokensHaveWork, Quiet, stored' \in {stored, Document}
  PROVE  SavedTokensWait'
  BY WaitingDocument DEF SavedTokensWait

\* A document that is loaded is a state whose tokens wait: nothing is under way yet, and
\* nothing needs to be.
LEMMA LoadAccount ==
  ASSUME RecoveryTypeOK, SavingInv, Load
  PROVE  AccountInv'
<1>1. TypeOK /\ stored \in Documents
  BY StoreTypes DEF StoreTypeOK
<1>2. Quiet /\ tokens' = stored.tokens /\ UNCHANGED <<agenda, pending, deferred>>
  BY DEF Load, SavingInv
<1>3. \A e : Outstanding(e)' = Outstanding(e)
  BY <1>2 DEF Outstanding, OnAgenda, Held, Deferred, Occurrences, Receiver
<1>4. \A o : WorkAt(o)' = WorkAt(o)
  BY <1>2 DEF WorkAt, OnAgenda, Held, Deferred, Occurrences
<1>5. WellPlaced'
  BY <1>3 DEF SavingInv, AccountInv, WellPlaced, Placed
<1>6. Received'
  BY <1>2, SameReceived DEF SavingInv, AccountInv
<1>7. ASSUME NEW o \in Automatic PROVE tokens'[o] = WorkAt(o)'
  <2>1. o \in FlowObjects /\ WorkAt(o) = 0
    BY <1>1, <1>2, QuietAccounts, AutomaticFacts
  <2>2. stored.tokens[o] \in Nat
    BY <1>1, <2>1 DEF Documents
  <2>3. ~(stored.tokens[o] > 0)
    BY <2>1, AutomaticFacts DEF SavingInv, SavedTokensWait
  <2> QED
    BY <1>2, <1>4, <2>1, <2>2, <2>3
<1> QED
  BY <1>5, <1>6, <1>7 DEF AccountInv, TokensHaveWork

\* A new process object has no tokens and nothing under way.
LEMMA RestartAccount ==
  ASSUME RecoveryTypeOK', Restart
  PROVE  AccountInv' /\ Quiet'
<1>1. TypeOK' /\ Quiet'
  <2>1. Quiet'
    BY DEF Restart, Quiet
  <2> QED
    BY <2>1 DEF RecoveryTypeOK
<1>2. /\ \A e \in Items : Outstanding(e)' = 0
      /\ \A o \in FlowObjects : WorkAt(o)' = 0
  BY <1>1, NextQuietAccounts
<1>3. WellPlaced'
  <2>1. Items' = Items
    BY DEF Items, EventOps, ContinuationOps, CallOps
  <2> QED
    BY <1>2, <2>1 DEF WellPlaced
<1>4. Received'
  BY DEF Restart, Received
<1>5. TokensHaveWork'
  BY <1>2, AutomaticFacts DEF Restart, TokensHaveWork, Automatic, OfKind
<1> QED
  BY <1>1, <1>3, <1>4, <1>5 DEF AccountInv

\* A loaded timeout that is armed or expires, and the events deferred meanwhile.
LEMMA LoadingAccount ==
  ASSUME RecoveryTypeOK, RecoveryTypeOK', SavingInv, Loading
  PROVE  AccountInv'
<1>1. TypeOK /\ TypeOK' /\ AccountInv
  BY DEF RecoveryTypeOK, SavingInv
<1>2. ASSUME NEW t \in TimerEvents, RestoreTimer(t) PROVE AccountInv'
  <2>1. CASE Expire(t, << >>)
    <3>1. Rest = << >> /\ \A o \in Automatic : WorkTaken(o) = 0
      BY <1>2, NothingRuns DEF RestoreTimer
    <3>2. Expire(t, Rest)
      BY <2>1, <3>1, Zenon
    <3> QED
      BY <1>1, <3>1, <3>2, ExpireAccount
  <2>2. CASE UNCHANGED <<tokens, agenda, pending, deferred>>
    BY <1>1, <2>2, AccountUntouched
  <2> QED
    BY <1>2, <2>1, <2>2 DEF RestoreTimer
<1>3. CASE FinishLoading
  <2>1. agenda = << >> /\ EmitDeferredEvents /\ UNCHANGED <<tokens, pending>>
    BY <1>3 DEF FinishLoading
  <2>2. Moves(<< >>)
    BY <1>1, <2>1, EmitDeferredEventsMoves DEF AccountInv
  <2>3. Received'
    <3>1. deferred \in [Processes -> Seq(Events)] /\ deferred' = [deferred EXCEPT ![Main] = << >>]
      BY <1>1, <2>1 DEF TypeOK, EmitDeferredEvents
    <3> QED
      BY <1>1, <3>1 DEF AccountInv, Received, Receiver
  <2> QED
    BY <1>1, <2>1, <2>2, <2>3, NothingAdded
<1> QED
  BY <1>2, <1>3, LoadAccount DEF Loading

LEMMA SavingStep ==
  ASSUME RecoveryTypeOK, RecoveryTypeOK', SavingInv, SavesAreAlone, SavesAreAlone',
         [RecoveryNext]_recoveryVars
  PROVE  SavingInv'
<1>1. TypeOK /\ TypeOK' /\ AccountInv /\ SavedTokensWait /\ TokensHaveWork
  BY DEF RecoveryTypeOK, SavingInv, AccountInv
<1>2. CASE UNCHANGED recoveryVars
  <2>1. UNCHANGED <<tokens, agenda, pending, deferred, stored, phase, asked>>
    BY <1>2 DEF recoveryVars, engineVars, vars, storeVars
  <2> QED
    BY <1>1, <2>1, AccountUntouched, SavingKept DEF SavingInv, Quiet
<1>3. CASE Restart
  <2>1. UNCHANGED stored /\ asked' = << >>
    BY <1>3 DEF Restart
  <2> QED
    BY <1>1, <1>3, <2>1, RestartAccount, SavingKept DEF SavingInv
<1>4. CASE Loading
  <2>1. UNCHANGED stored /\ phase' # "loading"
    BY <1>4 DEF Loading, Load, RestoreTimer, FinishLoading, storeVars
  <2> QED
    BY <1>1, <1>4, <2>1, LoadingAccount, SavingKept DEF SavingInv
<1>5. CASE RecoveryNext /\ ~Restart /\ ~Loading
  <2>1. phase # "loading" /\ phase' = phase
    <3>1. phase # "loading"
      BY <1>5, LoadingIsAlone DEF Loading, SavingInv, Quiet
    <3> QED
      BY <1>5, <3>1, EngineStep DEF RequestSave, WriteDocument, SaveAnswered, SaveRefused
  <2>2. CASE WriteDocument
    <3>1. Quiet
      BY <1>1, <2>2 DEF WriteDocument, SavesAreAlone, RecoveryTypeOK
    <3>2. stored' = Document /\ UNCHANGED <<tokens, agenda, pending, deferred>>
      BY <2>2 DEF WriteDocument, engineVars, vars
    <3> QED
      BY <1>1, <2>1, <3>1, <3>2, DocumentStored, AccountUntouched DEF SavingInv
  <2>3. CASE RequestSave
    <3>1. asked' # << >>
      BY <2>3, RequestSaveAppends, StoreTypes DEF RequestSave, StoreTypeOK
    <3>2. Quiet' /\ AccountInv'
      <4>1. [Next]_vars
        BY <2>3 DEF RequestSave, Next, RunStep
      <4> QED
        BY <1>1, <3>1, <4>1, AccountStep DEF SavesAreAlone
    <3>3. /\ tokens' = tokens /\ stored' \in {stored, Document}
      BY <2>3 DEF RequestSave, Persist
    <3>4. ASSUME NEW o \in FlowObjects, Document.tokens[o] > 0
          PROVE  Kind[o] \in {"waitTask", "catch", "timerCatch", "call", "and"}
      <4>1. tokens'[o] > 0
        BY <3>3, <3>4 DEF Document, HasTokens
      <4>2. o \notin Automatic
        BY <1>1, <3>2, <4>1, NextQuietAccounts DEF AccountInv, TokensHaveWork, Automatic, OfKind
      <4> QED
        BY <4>2, DefinitionAssumption, AutomaticFacts DEF Kinds
    <3> QED
      BY <1>1, <2>1, <3>2, <3>3, <3>4 DEF SavingInv, SavedTokensWait
  <2>4. CASE [Next]_vars /\ UNCHANGED stored
    BY <1>1, <2>1, <2>4, AccountStep, SavingKept DEF SavingInv
  <2>5. SaveAnswered \/ SaveRefused => [Next]_vars /\ UNCHANGED stored
    BY DEF SaveAnswered, SaveRefused, Next, IoEvent
  <2> QED
    BY <1>5, <2>2, <2>3, <2>4, <2>5, EngineStep
<1> QED
  BY <1>2, <1>3, <1>4, <1>5

\* A process that saves while it waits is never stored with a token on its way
\* (process.js:453-498): whoever loads it finds only tokens that some later event, timer
\* or process takes further.  It holds however often it is stopped and loaded again.
THEOREM WaitingIsSaved == RecoverySpec /\ []SavesAreAlone => []SavedTokensWait
<1>1. RecoveryInit => SavingInv
  <2>1. RecoveryInit => AccountInv
    BY AccountInit DEF RecoveryInit
  <2>2. RecoveryInit => SavedTokensWait /\ phase = "running"
    BY DEF RecoveryInit, NoDocument, SavedTokensWait
  <2> QED
    BY <2>1, <2>2 DEF SavingInv
<1>2. RecoveryTypeOK /\ RecoveryTypeOK' /\ SavingInv /\ SavesAreAlone /\ SavesAreAlone'
      /\ [RecoveryNext]_recoveryVars => SavingInv'
  BY SavingStep
<1>3. RecoverySpec /\ []SavesAreAlone => []SavingInv
  BY <1>1, <1>2, RecoveryTypeCorrectness, PTL DEF RecoverySpec
<1>4. SavingInv => SavedTokensWait
  BY DEF SavingInv
<1> QED
  BY <1>3, <1>4, PTL

-----------------------------------------------------------------------------
(****************************************************************************)
(* A token that waits for time to pass has its timer, before a restart and  *)
(* after it.                                                                *)
(****************************************************************************)

\* An intermediate timer event is attached to nothing, and nothing is attached to it.
LEMMA IntermediateTimer ==
  ASSUME NEW t \in OfKind({"timerCatch"})
  PROVE  /\ t \in FlowObjects /\ Kind[t] = "timerCatch"
         /\ t \in TimerEvents /\ t \in CatchEvents /\ t \notin BoundaryEvents
         /\ \A b \in BoundaryEvents : Host(b) # t
         /\ \A o \in FlowObjects : t \notin ClearedBy(o)
<1>1. /\ t \in FlowObjects /\ Kind[t] = "timerCatch"
      /\ t \in TimerEvents /\ t \in CatchEvents /\ t \notin BoundaryEvents
  BY DEF OfKind, TimerEvents, CatchEvents, BoundaryEvents
<1>2. ASSUME NEW b \in BoundaryEvents PROVE Host(b) # t
  <2>1. \E o \in FlowObjects : \E i \in DOMAIN Boundaries[o] : Boundaries[o][i] = b
    BY DefinitionAssumption
  <2>2. Host(b) \in FlowObjects /\ \E i \in DOMAIN Boundaries[Host(b)] : Boundaries[Host(b)][i] = b
    BY <2>1 DEF Host
  <2>3. Boundaries[Host(b)] # << >>
    BY <2>2
  <2>4. Kind[Host(b)] = "waitTask"
    BY <2>2, <2>3, DefinitionAssumption
  <2> QED
    BY <1>1, <2>4
<1>3. ASSUME NEW o \in FlowObjects PROVE t \notin ClearedBy(o)
  <2>1. Boundaries[o] \in Seq(BoundaryEvents)
    BY DefinitionAssumption
  <2>2. \A i \in DOMAIN Boundaries[o] : Boundaries[o][i] \in BoundaryEvents
    BY <2>1
  <2> QED
    BY <1>1, <2>2 DEF ClearedBy
<1> QED
  BY <1>1, <1>2, <1>3

\* While a call chain runs nothing starts from outside.
LEMMA ChainRuns ==
  ASSUME Next, agenda # << >>
  PROVE  RunStep
  BY DEF Next, TimerEvent, TimerFires, LeakedTimerFires, IoEvent, SaveDone, FinalSaveDone, SaveFails,
     ConnectionClosed, ClientStep, TriggerStart, TaskDone, TriggerCatchEvent, TriggerBoundaryEvent,
     ClientCalls, HandlerAnswers, Idle

\* What runs for a token on its way to an intermediate timer event.
LEMMA TimerTokenRuns ==
  ASSUME Next, NEW t \in OfKind({"timerCatch"}), agenda # << >>, NEW op, Head(agenda) = Item(op, t)
  PROVE  /\ op = "begun" => AnnounceToken
         /\ op = "arrived" => ArriveAtCatchEvent
         /\ op = "arm" => ArmTimer \/ ArmExpiredTimer
<1>1. RunStep /\ Head(agenda).op = op /\ Current = t /\ t \in CatchEvents
  BY ChainRuns, IntermediateTimer DEF Item, Current
<1>2. ASSUME op = "begun" PROVE AnnounceToken
  BY <1>1, <1>2 DEF RunStep, Running, TokenStep, PutToken, ArriveAtCatchEvent, ArriveAtFlowObject,
       WaitTaskHandled, FlowObjectHandled, JoinCompletes, JoinWaits, EmitAlongAll, EmitAlongOne,
       Fork, EndMainProcess, EndCalledProcess, EnterCall, StartCalledProcess, EventStep,
       ActivityEnds, ActivityLeft, EmitCatchEvent, CatchEvent, EventCaught, CatchBoundaryEvent,
       UnhandledEvent, TimerStep, ArmTimer, ArmExpiredTimer, TimerHandled, Persist
<1>3. ASSUME op = "arrived" PROVE ArriveAtCatchEvent
  BY <1>1, <1>3 DEF RunStep, Running, TokenStep, PutToken, AnnounceToken, ArriveAtFlowObject,
       WaitTaskHandled, FlowObjectHandled, JoinCompletes, JoinWaits, EmitAlongAll, EmitAlongOne,
       Fork, EndMainProcess, EndCalledProcess, EnterCall, StartCalledProcess, EventStep,
       ActivityEnds, ActivityLeft, EmitCatchEvent, CatchEvent, EventCaught, CatchBoundaryEvent,
       UnhandledEvent, TimerStep, ArmTimer, ArmExpiredTimer, TimerHandled, Persist
<1>4. ASSUME op = "arm" PROVE ArmTimer \/ ArmExpiredTimer
  BY <1>1, <1>4 DEF RunStep, Running, TokenStep, PutToken, AnnounceToken, ArriveAtCatchEvent,
       ArriveAtFlowObject,
       WaitTaskHandled, FlowObjectHandled, JoinCompletes, JoinWaits, EmitAlongAll, EmitAlongOne,
       Fork, EndMainProcess, EndCalledProcess, EnterCall, StartCalledProcess, EventStep,
       ActivityEnds, ActivityLeft, EmitCatchEvent, CatchEvent, EventCaught, CatchBoundaryEvent,
       UnhandledEvent, TimerStep, TimerHandled, Persist
<1> QED
  BY <1>2, <1>3, <1>4

\* Only _putTokenAt gives a token to a timer event or a user task.
LEMMA TokenPut ==
  ASSUME TypeOK, [Next]_vars, NEW t \in OfKind({"timerCatch", "waitTask"}), tokens'[t] > tokens[t]
  PROVE  PutToken /\ Current = t
<1>1. /\ tokens \in [FlowObjects -> Nat] /\ tokens[t] \in Nat /\ t \in FlowObjects
      /\ Kind[t] \in {"timerCatch", "waitTask"} /\ tokens'[t] \in Nat
  BY NextType DEF TypeOK, OfKind
<1>2. ~(tokens' = tokens)
  BY <1>1
<1>3. ASSUME NEW o, tokens' = Remove(o) PROVE FALSE
  BY <1>1, <1>3 DEF Remove
<1>4. ASSUME NEW o \in FlowObjects, Leave(o) PROVE FALSE
  <2>1. CASE o \notin BoundaryEvents
    BY <1>3, <1>4, <2>1 DEF Leave
  <2>2. CASE o \in BoundaryEvents
    <3>1. tokens' = [Remove(o) EXCEPT ![Host(o)] = IF @ > 0 THEN @ - 1 ELSE 0]
      BY <1>4, <2>2 DEF Leave
    <3>2. Remove(o) \in [FlowObjects -> Nat]
      BY TokenTypes
    <3>3. tokens'[t] <= Remove(o)[t]
      BY <1>1, <3>1, <3>2
    <3>4. Remove(o)[t] <= tokens[t]
      BY <1>1 DEF Remove
    <3> QED
      BY <1>1, <3>2, <3>3, <3>4
  <2> QED
    BY <2>1, <2>2
<1>5. ASSUME NEW o, Expire(o, Rest) \/ Expire(o, << >>) \/ Expire(o, Tail(agenda)) PROVE FALSE
  <2>1. tokens' = tokens \/ tokens' = Remove(o)
    BY <1>5 DEF Expire
  <2> QED
    BY <1>2, <1>3, <2>1
<1>6. ~(IoEvent \/ ClientStep \/ (\E k \in Late : HandlerAnswers(k)) \/ Idle \/ UNCHANGED vars)
  BY <1>2 DEF IoEvent, SaveDone, FinalSaveDone, SaveFails, ConnectionClosed, ClientStep, TriggerStart,
     TaskDone, TriggerCatchEvent, TriggerBoundaryEvent, ClientCalls, HandlerAnswers, Idle, vars
<1>7. ~TimerEvent
  BY <1>5 DEF TimerEvent, TimerFires, LeakedTimerFires
<1>8. RunStep
  BY <1>6, <1>7 DEF Next
<1>9. ~(TimerStep \/ Persist)
  BY <1>2, <1>5 DEF TimerStep, ArmTimer, ArmExpiredTimer, TimerHandled, Persist
<1>10. ASSUME EventStep PROVE FALSE
  <2>1. Current \in FlowObjects
    BY <1>10, RunningType DEF EventStep, ActivityEnds, ActivityLeft, EmitCatchEvent, CatchEvent,
       EventCaught, CatchBoundaryEvent, UnhandledEvent
  <2> QED
    BY <1>2, <1>3, <1>4, <1>10, <2>1 DEF EventStep, ActivityEnds, ActivityLeft, EmitCatchEvent, CatchEvent,
       EventCaught, CatchBoundaryEvent, UnhandledEvent
<1>11. TokenStep
  BY <1>8, <1>9, <1>10 DEF RunStep
<1>12. ASSUME FlowObjectHandled PROVE FALSE
  BY <1>4, <1>12, RunningType DEF FlowObjectHandled
<1>13. ASSUME NEW v, tokens' = [tokens EXCEPT ![Current] = v], Kind[Current] \notin {"timerCatch", "waitTask"} PROVE FALSE
  BY <1>1, <1>13
<1>14. PutToken
  BY <1>2, <1>11, <1>12, <1>13 DEF TokenStep, AnnounceToken, ArriveAtCatchEvent, ArriveAtFlowObject,
     WaitTaskHandled, JoinCompletes, JoinWaits, Renewed, EmitAlongAll, EmitAlongOne, Fork,
     EndMainProcess, EndCalledProcess, EnterCall, StartCalledProcess
<1>15. Current = t
  BY <1>1, <1>14 DEF PutToken, Add
<1> QED
  BY <1>14, <1>15

\* Its timer stops only when it expires.
LEMMA TimerStops ==
  ASSUME TypeOK, [Next]_vars, NEW t \in OfKind({"timerCatch"}), t \in timers, t \notin timers'
  PROVE  tokens' = Remove(t)
<1>1. ASSUME NEW o \in FlowObjects, Leave(o) PROVE FALSE
  <2>1. o \in BoundaryEvents => Host(o) \in FlowObjects
    BY HostType
  <2> QED
    BY <1>1, <2>1, IntermediateTimer DEF Leave
<1>2. ASSUME NEW o, NEW rest, Expire(o, rest) PROVE tokens' = Remove(t)
  <2>1. o = t
    BY <1>2 DEF Expire
  <2> QED
    BY <1>2, <2>1, IntermediateTimer DEF Expire
<1>3. ~(IoEvent \/ ClientStep \/ (\E k \in Late : HandlerAnswers(k)) \/ Idle \/ UNCHANGED vars)
  BY DEF IoEvent, SaveDone, FinalSaveDone, SaveFails, ConnectionClosed, ClientStep, TriggerStart,
     TaskDone, TriggerCatchEvent, TriggerBoundaryEvent, ClientCalls, HandlerAnswers, Idle, vars
<1>4. CASE TimerEvent
  BY <1>2, <1>4 DEF TimerEvent, TimerFires, LeakedTimerFires
<1>5. CASE TimerStep \/ Persist
  BY <1>2, <1>5 DEF TimerStep, ArmTimer, ArmExpiredTimer, TimerHandled, Persist
<1>6. ASSUME EventStep PROVE FALSE
  <2>1. Current \in FlowObjects
    BY <1>6, RunningType DEF EventStep, ActivityEnds, ActivityLeft, EmitCatchEvent, CatchEvent,
       EventCaught, CatchBoundaryEvent, UnhandledEvent
  <2> QED
    BY <1>1, <1>6, <2>1 DEF EventStep, ActivityEnds, ActivityLeft, EmitCatchEvent, CatchEvent,
       EventCaught, CatchBoundaryEvent, UnhandledEvent
<1>7. ASSUME TokenStep PROVE FALSE
  <2>1. ~FlowObjectHandled
    BY <1>1, RunningType DEF FlowObjectHandled
  <2> QED
    BY <1>7, <2>1 DEF TokenStep, PutToken, AnnounceToken, ArriveAtCatchEvent, ArriveAtFlowObject,
     WaitTaskHandled, JoinCompletes, JoinWaits, EmitAlongAll, EmitAlongOne, Fork,
     EndMainProcess, EndCalledProcess, EnterCall, StartCalledProcess
<1> QED
  BY <1>3, <1>4, <1>5, <1>6, <1>7 DEF Next, RunStep

\* The token is on its way to where its timer is armed.
OnItsWay(t) == \E op \in {"begun", "arrived", "arm"} : Outstanding(Item(op, t)) > 0

LEMMA TimerItems ==
  ASSUME NEW t \in FlowObjects
  PROVE  /\ Item("begun", t) \in Items /\ Item("arrived", t) \in Events
         /\ Item("arrived", t) \in Items /\ Item("arm", t) \in Items
         /\ Item("persist", t) \in Items
  BY ItemType DEF EventOps, ContinuationOps, CallOps

\* An engine step takes the token on, arms its timer, or leaves both alone.
LEMMA TimerWaits ==
  ASSUME TypeOK, Received, [Next]_vars, NEW t \in OfKind({"timerCatch"}), tokens[t] <= 1,
         tokens[t] > 0 => t \in timers \/ OnItsWay(t), tokens'[t] > 0
  PROVE  t \in timers' \/ OnItsWay(t)'
<1>1. TypeOK' /\ t \in FlowObjects /\ tokens[t] \in Nat
  BY NextType, IntermediateTimer DEF TypeOK
<1>2. CASE tokens[t] = 0
  <2>1. PutToken /\ Current = t
    BY <1>1, <1>2, TokenPut DEF OfKind
  <2>2. Rest = Tail(agenda) /\ Item("begun", t) \in Items
    BY <1>1, <2>1, TimerItems DEF PutToken, Running, Rest
  <2>3. Moves(<<Item("begun", t)>>)
    BY <2>1, <2>2, CallHandlerMoves DEF PutToken
  <2>4. <<Item("begun", t)>> \in Seq(Items) /\ 1 \in DOMAIN <<Item("begun", t)>>
        /\ <<Item("begun", t)>>[1] = Item("begun", t)
    BY <2>2
  <2>5. Outstanding(Item("begun", t))' > 0
    <3>1. \A e \in Items : Moves(<<e>>) => Outstanding(e)' > 0
      <4> SUFFICES ASSUME NEW e \in Items, Moves(<<e>>) PROVE Outstanding(e)' > 0
        OBVIOUS
      <4>1. <<e>> \in Seq(Items) /\ 1 \in DOMAIN <<e>> /\ <<e>>[1] = e
        OBVIOUS
      <4> QED
        BY <1>1, <4>1, AddedOutstanding
    <3> QED
      BY <2>2, <2>3, <3>1
  <2> QED
    BY <2>5 DEF OnItsWay
<1>3. CASE tokens[t] = 1 /\ t \in timers
  <2>1. tokens' = Remove(t) => tokens'[t] = 0
    BY <1>1, <1>3 DEF Remove, TypeOK
  <2> QED
    BY <1>1, <1>3, <2>1, TimerStops
<1>4. CASE tokens[t] = 1 /\ OnItsWay(t)
  <2>1. PICK op \in {"begun", "arrived", "arm"} : Outstanding(Item(op, t)) > 0
    BY <1>4 DEF OnItsWay
  <2>2. Item(op, t) \in Items
    BY <1>1, <2>1, TimerItems
  <2>3. CASE agenda = << >> \/ Head(agenda) # Item(op, t)
    <3>1. Outstanding(Item(op, t))' > 0
      BY <2>1, <2>2, <2>3, StaysOutstanding
    <3> QED
      BY <2>1, <3>1 DEF OnItsWay
  <2>4. CASE UNCHANGED vars
    <3>1. Outstanding(Item(op, t))' = Outstanding(Item(op, t))
      BY <2>4 DEF vars, Outstanding, OnAgenda, Held, Deferred, Occurrences, Receiver, Item
    <3> QED
      BY <2>1, <3>1 DEF OnItsWay
  <2>5. CASE Next /\ agenda # << >> /\ Head(agenda) = Item(op, t)
    <3>1. Rest = Tail(agenda) /\ Current = t
      BY <2>5 DEF Rest, Current, Item
    <3>2. CASE op = "begun"
      <4>1. EmitEvent(Item("arrived", t), Rest) /\ UNCHANGED pending
        BY <2>5, <3>1, <3>2, TimerTokenRuns DEF AnnounceToken
      <4>2. Moves(<<Item("arrived", t)>>)
        BY <1>1, <4>1, TimerItems, EmitEventMoves
      <4>3. Outstanding(Item("arrived", t))' > 0
        <5>1. \A e \in Items : Moves(<<e>>) => Outstanding(e)' > 0
          <6> SUFFICES ASSUME NEW e \in Items, Moves(<<e>>) PROVE Outstanding(e)' > 0
            OBVIOUS
          <6>1. <<e>> \in Seq(Items) /\ 1 \in DOMAIN <<e>> /\ <<e>>[1] = e
            OBVIOUS
          <6> QED
            BY <1>1, <6>1, AddedOutstanding
        <5> QED
          BY <1>1, <4>2, <5>1, TimerItems
      <4> QED
        BY <4>3 DEF OnItsWay
    <3>3. CASE op = "arrived"
      <4>1. /\ agenda' = <<Item("arm", t), Item("persist", t)>> \o Rest
            /\ UNCHANGED <<pending, deferred>>
        BY <2>5, <3>1, <3>3, TimerTokenRuns, IntermediateTimer DEF ArriveAtCatchEvent, Proceed
      <4>2. \A x, y \in Items : agenda' = <<x, y>> \o Rest => Outstanding(x)' > 0
        <5> SUFFICES ASSUME NEW x \in Items, NEW y \in Items, agenda' = <<x, y>> \o Rest
                     PROVE  Outstanding(x)' > 0
          OBVIOUS
        <5>1. <<x, y>> \in Seq(Items) /\ 1 \in DOMAIN <<x, y>> /\ <<x, y>>[1] = x
          OBVIOUS
        <5>2. Moves(<<x, y>>)
          BY <4>1, <5>1, ProceedMoves
        <5> QED
          BY <1>1, <5>1, <5>2, AddedOutstanding
      <4>3. Outstanding(Item("arm", t))' > 0
        BY <1>1, <4>1, <4>2, TimerItems
      <4> QED
        BY <4>3 DEF OnItsWay
    <3>4. CASE op = "arm"
      <4>1. CASE ArmTimer
        BY <3>1, <4>1, IntermediateTimer DEF ArmTimer
      <4>2. CASE ArmExpiredTimer
        <5>1. tokens' = Remove(t)
          BY <3>1, <4>2, IntermediateTimer DEF ArmExpiredTimer, Expire
        <5>2. tokens'[t] = 0
          BY <1>1, <1>4, <5>1 DEF Remove, TypeOK
        <5> QED
          BY <5>2
      <4> QED
        BY <2>5, <3>4, <4>1, <4>2, TimerTokenRuns
    <3> QED
      BY <2>1, <3>2, <3>3, <3>4
  <2> QED
    BY <2>3, <2>4, <2>5
<1> QED
  BY <1>1, <1>2, <1>3, <1>4

\* A timeout is attached to one activity, a user task, and whatever clears its timer
\* leaves that one.
LEMMA BoundaryTimer ==
  ASSUME NEW t \in OfKind({"timeout"})
  PROVE  /\ t \in FlowObjects /\ Kind[t] = "timeout" /\ t \in TimerEvents /\ t \in BoundaryEvents
         /\ Host(t) \in OfKind({"waitTask"}) /\ Host(t) \in FlowObjects
         /\ Kind[Host(t)] = "waitTask" /\ Host(t) # t /\ Host(t) \notin BoundaryEvents
         /\ Host(t) \notin CatchEvents /\ Host(t) \notin TimerEvents
         /\ ProcessOf[Host(t)] = ProcessOf[t]
         /\ \E i \in DOMAIN Boundaries[Host(t)] : Boundaries[Host(t)][i] = t
         /\ \A o \in FlowObjects : t \in ClearedBy(o) => o = Host(t)
<1>1. t \in FlowObjects /\ Kind[t] = "timeout" /\ t \in TimerEvents /\ t \in BoundaryEvents
  BY DEF OfKind, TimerEvents, BoundaryEvents
<1>2. \E o \in FlowObjects : \E i \in DOMAIN Boundaries[o] : Boundaries[o][i] = t
  BY <1>1, DefinitionAssumption
<1>3. Host(t) \in FlowObjects /\ \E i \in DOMAIN Boundaries[Host(t)] : Boundaries[Host(t)][i] = t
  BY <1>2 DEF Host
<1>4. Boundaries[Host(t)] # << >>
  BY <1>3
<1>5. Kind[Host(t)] = "waitTask"
  BY <1>3, <1>4, DefinitionAssumption
<1>6. t \in BoundaryEventsOf(Host(t))
  BY <1>3 DEF BoundaryEventsOf
<1>7. ASSUME NEW o \in FlowObjects, t \in ClearedBy(o) PROVE o = Host(t)
  <2>1. t \in BoundaryEventsOf(o)
    BY <1>7 DEF ClearedBy, BoundaryEventsOf
  <2> QED
    BY <1>3, <1>6, <2>1, ValidationAssumption
<1>8. ProcessOf[Host(t)] = ProcessOf[t]
  BY <1>3, <1>6, ValidationAssumption
<1> QED
  BY <1>1, <1>3, <1>5, <1>7, <1>8 DEF OfKind, TimerEvents, BoundaryEvents, CatchEvents

\* Who leaves the activity takes its only token.
LEMMA HostLeft ==
  ASSUME TypeOK, NEW t \in OfKind({"timeout"}), tokens[Host(t)] <= 1, NEW o \in FlowObjects, Leave(o),
         o = Host(t) \/ (o \in BoundaryEvents /\ Host(o) = Host(t))
  PROVE  tokens'[Host(t)] = 0
<1> DEFINE h == Host(t)
<1>1. h \in FlowObjects /\ h \notin BoundaryEvents /\ tokens \in [FlowObjects -> Nat] /\ tokens[h] \in {0, 1}
  <2>1. h \in FlowObjects /\ h \notin BoundaryEvents /\ tokens \in [FlowObjects -> Nat]
    BY BoundaryTimer DEF TypeOK
  <2> QED
    BY <2>1
<1>2. CASE o = h
  <2>1. tokens' = Remove(h)
    BY <1>1, <1>2 DEF Leave
  <2> QED
    BY <1>1, <2>1 DEF Remove
<1>3. CASE o \in BoundaryEvents /\ Host(o) = h
  <2>1. tokens' = [Remove(o) EXCEPT ![h] = IF @ > 0 THEN @ - 1 ELSE 0]
    BY <1>3 DEF Leave
  <2>2. Remove(o) \in [FlowObjects -> Nat] /\ o # h
    BY <1>1, <1>3, TokenTypes
  <2>3. Remove(o)[h] = tokens[h]
    BY <1>1, <2>2 DEF Remove
  <2> QED
    BY <1>1, <2>1, <2>2, <2>3
<1> QED
  BY <1>2, <1>3

\* A boundary event loses a token only when it is left.
LEMMA TimeoutTokenTaken ==
  ASSUME TypeOK, AccountInv, [Next]_vars, NEW t \in OfKind({"timeout"}), tokens'[t] < tokens[t]
  PROVE  Leave(t)
<1>1. /\ tokens \in [FlowObjects -> Nat] /\ tokens[t] \in Nat /\ tokens'[t] \in Nat
      /\ t \in FlowObjects /\ Kind[t] = "timeout" /\ t \in BoundaryEvents
  BY NextType, BoundaryTimer DEF TypeOK
<1>2. tokens'[t] # tokens[t]
  BY <1>1
<1>3. ASSUME NEW o, o # t, tokens' = Remove(o) PROVE FALSE
  BY <1>1, <1>3 DEF Remove
<1>4. ASSUME NEW o \in FlowObjects, Leave(o) PROVE o = t
  <2> SUFFICES ASSUME o # t PROVE FALSE
    OBVIOUS
  <2>1. CASE o \notin BoundaryEvents
    BY <1>3, <1>4, <2>1 DEF Leave
  <2>2. CASE o \in BoundaryEvents
    <3>1. tokens' = [Remove(o) EXCEPT ![Host(o)] = IF @ > 0 THEN @ - 1 ELSE 0]
      BY <1>4, <2>2 DEF Leave
    <3>2. Remove(o) \in [FlowObjects -> Nat] /\ Host(o) # t
      <4>1. Host(o) \notin Automatic /\ t \in Automatic
        BY <1>1, <2>2, HostWaits, AutomaticFacts
      <4> QED
        BY <4>1, TokenTypes
    <3>3. tokens'[t] = Remove(o)[t]
      BY <1>1, <3>1, <3>2
    <3> QED
      BY <1>1, <3>3 DEF Remove
  <2> QED
    BY <2>1, <2>2
<1>5. ASSUME NEW o, NEW rest, Expire(o, rest) PROVE FALSE
  <2>1. tokens' = tokens \/ (o # t /\ tokens' = Remove(o))
    BY <1>1, <1>5 DEF Expire
  <2> QED
    BY <1>2, <1>3, <2>1
<1>6. ~(IoEvent \/ ClientStep \/ (\E k \in Late : HandlerAnswers(k)) \/ Idle \/ UNCHANGED vars)
  BY <1>2 DEF IoEvent, SaveDone, FinalSaveDone, SaveFails, ConnectionClosed, ClientStep, TriggerStart,
     TaskDone, TriggerCatchEvent, TriggerBoundaryEvent, ClientCalls, HandlerAnswers, Idle, vars
<1>7. ~TimerEvent
  BY <1>5 DEF TimerEvent, TimerFires, LeakedTimerFires
<1>8. RunStep
  BY <1>6, <1>7 DEF Next
<1>9. ~(TimerStep \/ Persist)
  BY <1>2, <1>5 DEF TimerStep, ArmTimer, ArmExpiredTimer, TimerHandled, Persist
<1>10. Current \in FlowObjects
  BY <1>8, HeadType DEF RunStep, Running, TokenStep, PutToken, AnnounceToken, ArriveAtCatchEvent,
       ArriveAtFlowObject, WaitTaskHandled, FlowObjectHandled, JoinCompletes, JoinWaits, EmitAlongAll,
       EmitAlongOne, Fork, EndMainProcess, EndCalledProcess, EnterCall, StartCalledProcess, EventStep,
       ActivityEnds, ActivityLeft, EmitCatchEvent, CatchEvent, EventCaught, CatchBoundaryEvent,
       UnhandledEvent, TimerStep, ArmTimer, ArmExpiredTimer, TimerHandled, Persist
<1>11. CASE EventStep
  <2>1. ~CatchBoundaryEvent
    <3> SUFFICES ASSUME CatchBoundaryEvent PROVE FALSE
      OBVIOUS
    <3>1. tokens' = Remove(Host(Current)) /\ Running("boundaryCatch")
      BY DEF CatchBoundaryEvent
    <3>2. Current \in BoundaryEvents
      BY <3>1, HeadPlaced DEF Placed, Running, Current
    <3>3. Host(Current) # t
      BY <1>1, <3>2, HostWaits, AutomaticFacts
    <3> QED
      BY <1>3, <3>1, <3>3
  <2> QED
    BY <1>2, <1>4, <1>10, <1>11, <2>1 DEF EventStep, ActivityEnds, ActivityLeft, EmitCatchEvent,
       CatchEvent, EventCaught, UnhandledEvent
<1>12. CASE TokenStep
  <2>1. ASSUME NEW v, tokens' = [tokens EXCEPT ![Current] = v], Kind[Current] # "timeout" PROVE FALSE
    BY <1>1, <2>1
  <2>2. ~PutToken
    <3> SUFFICES ASSUME PutToken PROVE FALSE
      OBVIOUS
    <3>1. tokens' = Add(Current)
      BY DEF PutToken
    <3>2. tokens'[t] >= tokens[t]
      BY <1>1, <3>1 DEF Add
    <3> QED
      BY <1>1, <3>2
  <2>3. FlowObjectHandled
    BY <1>2, <1>12, <2>1, <2>2 DEF TokenStep, AnnounceToken, ArriveAtCatchEvent, ArriveAtFlowObject,
     WaitTaskHandled, JoinCompletes, JoinWaits, Renewed, EmitAlongAll, EmitAlongOne, Fork,
     EndMainProcess, EndCalledProcess, EnterCall, StartCalledProcess
  <2> QED
    BY <1>4, <1>10, <2>3 DEF FlowObjectHandled
<1> QED
  BY <1>8, <1>9, <1>11, <1>12 DEF RunStep

LEMMA OneMoves ==
  ASSUME TypeOK, NEW e \in Items, agenda' = <<e>> \o Rest, UNCHANGED <<pending, deferred>>
  PROVE  Moves(<<e>>)
<1>1. <<e>> \in Seq(Items)
  OBVIOUS
<1> QED
  BY <1>1, ProceedMoves

\* Its timer stops only when the activity is left, or when it expires and puts a token
\* on the boundary event.
LEMMA TimeoutStops ==
  ASSUME TypeOK, [Next]_vars, NEW t \in OfKind({"timeout"}), tokens[Host(t)] <= 1,
         t \in timers, t \notin timers'
  PROVE  tokens'[Host(t)] = 0 \/ Moves(<<Item("put", t)>>)
<1>1. t \in FlowObjects /\ t \in BoundaryEvents
  BY BoundaryTimer
<1>2. ASSUME NEW o \in FlowObjects, Leave(o) PROVE tokens'[Host(t)] = 0
  <2>1. CASE o \notin BoundaryEvents
    <3>1. t \in ClearedBy(o)
      BY <1>2, <2>1 DEF Leave
    <3>2. o = Host(t)
      BY <3>1, BoundaryTimer
    <3> QED
      BY <1>2, <3>2, HostLeft
  <2>2. CASE o \in BoundaryEvents
    <3>1. t \in ClearedBy(Host(o)) /\ Host(o) \in FlowObjects
      BY <1>2, <2>2, HostType DEF Leave
    <3>2. Host(o) = Host(t)
      BY <3>1, BoundaryTimer
    <3> QED
      BY <1>2, <2>2, <3>2, HostLeft
  <2> QED
    BY <2>1, <2>2
<1>3. ASSUME NEW o, Expire(o, Rest) PROVE Moves(<<Item("put", t)>>)
  <2>1. o = t
    BY <1>3 DEF Expire
  <2>2. agenda' = <<Item("put", t)>> \o Rest /\ UNCHANGED <<pending, deferred>>
    BY <1>1, <1>3, <2>1 DEF Expire
  <2>3. Item("put", t) \in Items
    BY <1>1, ItemType DEF CallOps
  <2> QED
    BY <2>2, <2>3, OneMoves
<1>4. ~(IoEvent \/ ClientStep \/ (\E k \in Late : HandlerAnswers(k)) \/ Idle \/ UNCHANGED vars)
  BY DEF IoEvent, SaveDone, FinalSaveDone, SaveFails, ConnectionClosed, ClientStep, TriggerStart,
     TaskDone, TriggerCatchEvent, TriggerBoundaryEvent, ClientCalls, HandlerAnswers, Idle, vars
<1>5. CASE TimerEvent
  <2>1. PICK o \in TimerEvents : agenda = << >> /\ Expire(o, << >>)
    BY <1>5 DEF TimerEvent, TimerFires, LeakedTimerFires
  <2>2. Rest = << >>
    BY <2>1, NothingRuns
  <2>3. Expire(o, Rest)
    BY <2>1, <2>2, Zenon
  <2> QED
    BY <1>3, <2>3
<1>6. CASE TimerStep \/ Persist
  <2>1. agenda # << >> /\ Expire(Current, Tail(agenda))
    BY <1>6 DEF TimerStep, ArmTimer, ArmExpiredTimer, TimerHandled, Persist, Running
  <2>2. Rest = Tail(agenda)
    BY <2>1 DEF Rest
  <2>3. Expire(Current, Rest)
    BY <2>1, <2>2, Zenon
  <2> QED
    BY <1>3, <2>3
<1>7. CASE EventStep
  <2>1. Current \in FlowObjects
    BY <1>7, RunningType DEF EventStep, ActivityEnds, ActivityLeft, EmitCatchEvent, CatchEvent,
       EventCaught, CatchBoundaryEvent, UnhandledEvent
  <2> QED
    BY <1>2, <1>7, <2>1 DEF EventStep, ActivityEnds, ActivityLeft, EmitCatchEvent, CatchEvent,
       EventCaught, CatchBoundaryEvent, UnhandledEvent
<1>8. CASE TokenStep
  <2>1. FlowObjectHandled
    BY <1>8 DEF TokenStep, PutToken, AnnounceToken, ArriveAtCatchEvent, ArriveAtFlowObject,
     WaitTaskHandled, JoinCompletes, JoinWaits, EmitAlongAll, EmitAlongOne, Fork,
     EndMainProcess, EndCalledProcess, EnterCall, StartCalledProcess
  <2>2. Current \in FlowObjects
    BY <2>1, RunningType DEF FlowObjectHandled
  <2> QED
    BY <1>2, <2>1, <2>2 DEF FlowObjectHandled
<1> QED
  BY <1>4, <1>5, <1>6, <1>7, <1>8 DEF Next, RunStep

\* A token is on its way to the activity, its timer is about to be armed, or it has
\* expired and its boundary event is about to get a token.
TimeoutItems(t) ==
  {Item("begun", Host(t)), Item("arrived", Host(t)), Item("handled", Host(t)),
   Item("arm", t), Item("put", t)}

TimeoutOnItsWay(t) == \E e \in TimeoutItems(t) : Outstanding(e) > 0

LEMMA TimeoutItemsType ==
  ASSUME NEW t \in OfKind({"timeout"})
  PROVE  TimeoutItems(t) \subseteq Items
<1>1. t \in FlowObjects /\ Host(t) \in FlowObjects
  BY BoundaryTimer
<1> QED
  BY <1>1, ItemType DEF TimeoutItems, EventOps, ContinuationOps, CallOps

\* What a step adds is outstanding.
LEMMA AddedIsOnItsWay ==
  ASSUME TypeOK, TypeOK', NEW t \in OfKind({"timeout"}), NEW e \in TimeoutItems(t), Moves(<<e>>)
  PROVE  TimeoutOnItsWay(t)'
<1>1. e \in Items
  BY TimeoutItemsType
<1> HIDE DEF TimeoutItems
<1>2. <<e>> \in Seq(Items) /\ 1 \in DOMAIN <<e>> /\ <<e>>[1] = e
  BY <1>1
<1>3. Outstanding(e)' > 0
  BY <1>2, AddedOutstanding
<1>4. TimeoutItems(t)' = TimeoutItems(t)
  BY DEF TimeoutItems, Item
<1> QED
  BY <1>3, <1>4 DEF TimeoutOnItsWay

\* What runs for a token on its way to a user task.
LEMMA HostTokenRuns ==
  ASSUME Next, NEW h \in OfKind({"waitTask"}), agenda # << >>, NEW op, Head(agenda) = Item(op, h)
  PROVE  /\ op = "begun" => AnnounceToken
         /\ op = "arrived" => ArriveAtFlowObject
         /\ op = "handled" => WaitTaskHandled
<1>1. /\ RunStep /\ Head(agenda).op = op /\ Current = h /\ h \notin CatchEvents
      /\ Kind[Current] = "waitTask"
  BY ChainRuns DEF Item, Current, OfKind, CatchEvents
<1>2. ASSUME op = "begun" PROVE AnnounceToken
  BY <1>1, <1>2 DEF RunStep, Running, TokenStep, PutToken, ArriveAtCatchEvent, ArriveAtFlowObject,
       WaitTaskHandled, FlowObjectHandled, JoinCompletes, JoinWaits, EmitAlongAll, EmitAlongOne,
       Fork, EndMainProcess, EndCalledProcess, EnterCall, StartCalledProcess, EventStep,
       ActivityEnds, ActivityLeft, EmitCatchEvent, CatchEvent, EventCaught, CatchBoundaryEvent,
       UnhandledEvent, TimerStep, ArmTimer, ArmExpiredTimer, TimerHandled, Persist
<1>3. ASSUME op = "arrived" PROVE ArriveAtFlowObject
  BY <1>1, <1>3 DEF RunStep, Running, TokenStep, PutToken, AnnounceToken, ArriveAtCatchEvent,
       WaitTaskHandled, FlowObjectHandled, JoinCompletes, JoinWaits, EmitAlongAll, EmitAlongOne,
       Fork, EndMainProcess, EndCalledProcess, EnterCall, StartCalledProcess, EventStep,
       ActivityEnds, ActivityLeft, EmitCatchEvent, CatchEvent, EventCaught, CatchBoundaryEvent,
       UnhandledEvent, TimerStep, ArmTimer, ArmExpiredTimer, TimerHandled, Persist
<1>4. ASSUME op = "handled" PROVE WaitTaskHandled
  BY <1>1, <1>4 DEF RunStep, Running, TokenStep, PutToken, AnnounceToken, ArriveAtCatchEvent,
       ArriveAtFlowObject, FlowObjectHandled, JoinCompletes, JoinWaits, EmitAlongAll, EmitAlongOne,
       Fork, EndMainProcess, EndCalledProcess, EnterCall, StartCalledProcess, EventStep,
       ActivityEnds, ActivityLeft, EmitCatchEvent, CatchEvent, EventCaught, CatchBoundaryEvent,
       UnhandledEvent, TimerStep, ArmTimer, ArmExpiredTimer, TimerHandled, Persist
<1> QED
  BY <1>2, <1>3, <1>4

\* What runs for the timer and for the boundary event.
LEMMA TimeoutRuns ==
  ASSUME Next, NEW t \in OfKind({"timeout"}), agenda # << >>, NEW op, Head(agenda) = Item(op, t)
  PROVE  /\ op = "arm" => ArmTimer \/ ArmExpiredTimer
         /\ op = "put" => PutToken
<1>1. RunStep /\ Head(agenda).op = op
  BY ChainRuns DEF Item
<1>2. ASSUME op = "arm" PROVE ArmTimer \/ ArmExpiredTimer
  BY <1>1, <1>2 DEF RunStep, Running, TokenStep, PutToken, AnnounceToken, ArriveAtCatchEvent,
       ArriveAtFlowObject, WaitTaskHandled, FlowObjectHandled, JoinCompletes, JoinWaits, EmitAlongAll,
       EmitAlongOne, Fork, EndMainProcess, EndCalledProcess, EnterCall, StartCalledProcess, EventStep,
       ActivityEnds, ActivityLeft, EmitCatchEvent, CatchEvent, EventCaught, CatchBoundaryEvent,
       UnhandledEvent, TimerStep, TimerHandled, Persist
<1>3. ASSUME op = "put" PROVE PutToken
  BY <1>1, <1>3 DEF RunStep, Running, TokenStep, AnnounceToken, ArriveAtCatchEvent,
       ArriveAtFlowObject, WaitTaskHandled, FlowObjectHandled, JoinCompletes, JoinWaits, EmitAlongAll,
       EmitAlongOne, Fork, EndMainProcess, EndCalledProcess, EnterCall, StartCalledProcess, EventStep,
       ActivityEnds, ActivityLeft, EmitCatchEvent, CatchEvent, EventCaught, CatchBoundaryEvent,
       UnhandledEvent, TimerStep, ArmTimer, ArmExpiredTimer, TimerHandled, Persist
<1> QED
  BY <1>2, <1>3

\* The step that runs what is on its way takes it on, arms the timer, or puts the token.
LEMMA TimeoutItemRuns ==
  ASSUME TypeOK, Received, Next, NEW t \in OfKind({"timeout"}), agenda # << >>,
         Head(agenda) \in TimeoutItems(t)
  PROVE  t \in timers' \/ tokens'[t] > 0 \/ TimeoutOnItsWay(t)'
<1> DEFINE h == Host(t)
<1>1. /\ TypeOK' /\ t \in FlowObjects /\ h \in FlowObjects /\ h \in OfKind({"waitTask"})
      /\ Kind[h] = "waitTask" /\ t \in TimerEvents /\ t \in BoundaryEvents
  BY NextType, BoundaryTimer
<1>2. Rest = Tail(agenda)
  BY DEF Rest
<1>3. TimeoutItems(t) \subseteq Items /\ TimeoutItems(t)' = TimeoutItems(t)
  BY TimeoutItemsType DEF TimeoutItems, Item
<1>4. CASE Head(agenda) = Item("begun", h)
  <2>1. AnnounceToken /\ Current = h
    BY <1>1, <1>4, HostTokenRuns DEF Current, Item
  <2>2. EmitEvent(Item("arrived", h), Rest) /\ UNCHANGED pending
    BY <1>2, <2>1 DEF AnnounceToken
  <2>3. Moves(<<Item("arrived", h)>>)
    BY <1>1, <2>2, TimerItems, EmitEventMoves
  <2> QED
    BY <1>1, <2>3, AddedIsOnItsWay DEF TimeoutItems
<1>5. CASE Head(agenda) = Item("arrived", h)
  <2>1. ArriveAtFlowObject /\ Current = h
    BY <1>1, <1>5, HostTokenRuns DEF Current, Item
  <2>2. CallHandler(Item("handled", h), Rest) /\ UNCHANGED deferred
    BY <1>2, <2>1 DEF ArriveAtFlowObject
  <2>3. Item("handled", h) \in Items
    BY <1>1, WorkItems
  <2>4. Moves(<<Item("handled", h)>>)
    BY <2>2, <2>3, CallHandlerMoves
  <2> QED
    BY <1>1, <2>4, AddedIsOnItsWay DEF TimeoutItems
<1>6. CASE Head(agenda) = Item("handled", h)
  <2> DEFINE new == Arms(h) \o <<Item("persist", h)>>
  <2>1. WaitTaskHandled /\ Current = h
    BY <1>1, <1>6, HostTokenRuns DEF Current, Item
  <2>2. agenda' = new \o Rest /\ UNCHANGED <<pending, deferred>>
    BY <1>2, <2>1 DEF WaitTaskHandled, Proceed
  <2>3. Arms(h) \in Seq(Items) /\ <<Item("persist", h)>> \in Seq(Items)
    <3>1. Item("persist", h) \in Items
      BY <1>1, TimerItems
    <3> QED
      BY <1>1, <3>1, PutsAndArms
  <2>4. PICK i \in DOMAIN Boundaries[h] : Boundaries[h][i] = t
    BY BoundaryTimer
  <2>5. i \in DOMAIN Arms(h) /\ Arms(h)[i] = Item("arm", t)
    BY <2>4 DEF Arms
  <2>6. new \in Seq(Items) /\ i \in DOMAIN new /\ new[i] = Item("arm", t)
    <3> DEFINE a == Arms(h)
               p == <<Item("persist", h)>>
    <3>1. a \in Seq(Items) /\ p \in Seq(Items) /\ i \in DOMAIN a /\ a[i] = Item("arm", t)
      BY <2>3, <2>5
    <3> HIDE DEF a, p
    <3>2. (a \o p) \in Seq(Items) /\ i \in DOMAIN (a \o p) /\ (a \o p)[i] = a[i]
      BY <3>1
    <3> QED
      BY <3>1, <3>2 DEF a, p
  <2> HIDE DEF new
  <2>7. Moves(new)
    BY <2>2, <2>6, ProceedMoves
  <2>8. Outstanding(new[i])' > 0
    BY <1>1, <2>6, <2>7, AddedOutstanding
  <2>9. Outstanding(Item("arm", t))' > 0
    <3>1. Outstanding(new[i])' = Outstanding(Item("arm", t))'
      BY <2>6 DEF Outstanding, OnAgenda, Held, Deferred, Occurrences, Receiver, Item
    <3> QED
      BY <2>8, <3>1
  <2> QED
    BY <1>3, <2>9 DEF TimeoutOnItsWay, TimeoutItems
<1>7. CASE Head(agenda) = Item("arm", t)
  <2>1. (ArmTimer \/ ArmExpiredTimer) /\ Current = t
    BY <1>7, TimeoutRuns DEF Current, Item
  <2>2. CASE ArmTimer
    BY <1>1, <2>1, <2>2 DEF ArmTimer
  <2>3. CASE ArmExpiredTimer
    <3>1. agenda' = <<Item("put", t)>> \o Rest /\ UNCHANGED <<pending, deferred>>
      BY <1>1, <1>2, <2>1, <2>3 DEF ArmExpiredTimer, Expire
    <3>2. Item("put", t) \in TimeoutItems(t)
      BY DEF TimeoutItems
    <3>3. Moves(<<Item("put", t)>>)
      BY <1>3, <3>1, <3>2, OneMoves
    <3> QED
      BY <1>1, <3>2, <3>3, AddedIsOnItsWay
  <2> QED
    BY <2>1, <2>2, <2>3
<1>8. CASE Head(agenda) = Item("put", t)
  <2>1. PutToken /\ Current = t
    BY <1>8, TimeoutRuns DEF Current, Item
  <2>2. tokens'[t] = tokens[t] + 1 /\ tokens[t] \in Nat
    BY <1>1, <2>1 DEF PutToken, Add, TypeOK
  <2> QED
    BY <2>2
<1> QED
  BY <1>4, <1>5, <1>6, <1>7, <1>8 DEF TimeoutItems

\* An engine step takes a token at an activity with a timeout on, arms the timer, lets it
\* expire, or leaves all of them alone.
LEMMA TimeoutWaits ==
  ASSUME TypeOK, AccountInv, [Next]_vars, NEW t \in OfKind({"timeout"}), tokens[Host(t)] <= 1,
         tokens[Host(t)] > 0 => t \in timers \/ tokens[t] > 0 \/ TimeoutOnItsWay(t),
         tokens'[Host(t)] > 0
  PROVE  t \in timers' \/ tokens'[t] > 0 \/ TimeoutOnItsWay(t)'
<1> DEFINE h == Host(t)
<1>1. /\ TypeOK' /\ t \in FlowObjects /\ h \in FlowObjects /\ h \in OfKind({"waitTask"})
      /\ tokens[h] \in Nat /\ tokens[t] \in Nat /\ tokens'[t] \in Nat
      /\ h \in OfKind({"timerCatch", "waitTask"}) /\ Received
  <2>1. TypeOK' /\ t \in FlowObjects /\ h \in FlowObjects /\ h \in OfKind({"waitTask"})
    BY NextType, BoundaryTimer
  <2> QED
    BY <2>1 DEF TypeOK, OfKind, AccountInv
<1>2. CASE tokens[h] = 0
  <2>1. PutToken /\ Current = h
    BY <1>1, <1>2, TokenPut
  <2>2. Rest = Tail(agenda) /\ Item("begun", h) \in Items
    BY <1>1, <2>1, TimerItems DEF PutToken, Running, Rest
  <2>3. Moves(<<Item("begun", h)>>)
    BY <2>1, <2>2, CallHandlerMoves DEF PutToken
  <2> QED
    BY <1>1, <2>3, AddedIsOnItsWay DEF TimeoutItems
<1>3. CASE t \in timers
  <2>1. CASE t \notin timers'
    <3>1. Moves(<<Item("put", t)>>)
      BY <1>3, <2>1, TimeoutStops
    <3> QED
      BY <1>1, <3>1, AddedIsOnItsWay DEF TimeoutItems
  <2> QED
    BY <2>1
<1>4. CASE tokens[t] > 0
  <2>1. CASE tokens'[t] < tokens[t]
    <3>1. Leave(t)
      BY <2>1, TimeoutTokenTaken
    <3>2. tokens'[h] = 0
      BY <1>1, <3>1, HostLeft, BoundaryTimer
    <3> QED
      BY <3>2
  <2> QED
    BY <1>1, <1>4, <2>1
<1>5. CASE TimeoutOnItsWay(t)
  <2>1. PICK e \in TimeoutItems(t) : Outstanding(e) > 0
    BY <1>5 DEF TimeoutOnItsWay
  <2>2. e \in Items /\ TimeoutItems(t)' = TimeoutItems(t)
    BY TimeoutItemsType DEF TimeoutItems, Item
  <2>3. CASE agenda = << >> \/ Head(agenda) # e
    <3>1. Outstanding(e)' > 0
      BY <1>1, <2>1, <2>2, <2>3, StaysOutstanding
    <3> QED
      BY <2>1, <2>2, <3>1 DEF TimeoutOnItsWay
  <2>4. CASE UNCHANGED vars
    <3>1. Outstanding(e)' = Outstanding(e)
      BY <2>4 DEF vars, Outstanding, OnAgenda, Held, Deferred, Occurrences, Receiver
    <3> QED
      BY <2>1, <2>2, <3>1 DEF TimeoutOnItsWay
  <2>5. CASE Next /\ agenda # << >> /\ Head(agenda) = e
    BY <1>1, <2>1, <2>5, TimeoutItemRuns
  <2> QED
    BY <2>3, <2>4, <2>5
<1> QED
  BY <1>1, <1>2, <1>3, <1>4, <1>5

\* While timeouts are restored only their handlers run: events are deferred, so that no
\* object is entered, and nothing is saved.
ByTimer(x) == \/ x.op \in {"put", "begun"}
              \/ x.op \in {"timerHandled", "ended"} /\ Kind[x.at] = "timerCatch"

LoadingInv ==
  /\ phase = "running" => restoring = {}
  /\ phase # "running" => deferEvents /\ asked = << >> /\ \A i \in DOMAIN agenda : ByTimer(agenda[i])

LEMMA ByTimerJoined ==
  ASSUME NEW s \in Seq(Items), NEW r \in Seq(Items), \A i \in DOMAIN s : ByTimer(s[i]),
         \A i \in DOMAIN r : ByTimer(r[i])
  PROVE  \A i \in DOMAIN (s \o r) : ByTimer((s \o r)[i])
<1> SUFFICES ASSUME NEW i \in DOMAIN (s \o r) PROVE ByTimer((s \o r)[i])
  OBVIOUS
<1>1. (s \o r)[i] \in {s[j] : j \in DOMAIN s} \cup {r[j] : j \in DOMAIN r}
  OBVIOUS
<1> QED
  BY <1>1

LEMMA ByTimerOne ==
  ASSUME NEW x \in Items, ByTimer(x), NEW r \in Seq(Items), \A i \in DOMAIN r : ByTimer(r[i])
  PROVE  \A i \in DOMAIN (<<x>> \o r) : ByTimer((<<x>> \o r)[i])
<1>1. <<x>> \in Seq(Items) /\ \A i \in DOMAIN <<x>> : ByTimer(<<x>>[i])
  OBVIOUS
<1> QED
  BY <1>1, ByTimerJoined

\* A step of the call chain of a timeout that is restored.
LEMMA RestoringRuns ==
  ASSUME TypeOK, TokenStep \/ EventStep \/ TimerStep, deferEvents,
         \A i \in DOMAIN agenda : ByTimer(agenda[i])
  PROVE  \A i \in DOMAIN agenda' : ByTimer(agenda'[i])
<1> DEFINE c == Current
<1>1. agenda # << >>
  BY DEF RunStep, TokenStep, PutToken, AnnounceToken, ArriveAtCatchEvent, ArriveAtFlowObject,
       WaitTaskHandled, FlowObjectHandled, JoinCompletes, JoinWaits, EmitAlongAll, EmitAlongOne,
       Fork, EndMainProcess, EndCalledProcess, EnterCall, StartCalledProcess, EventStep,
       ActivityEnds, ActivityLeft, EmitCatchEvent, CatchEvent, EventCaught, CatchBoundaryEvent,
       UnhandledEvent, TimerStep, ArmTimer, ArmExpiredTimer, TimerHandled, Running
<1>2. agenda \in Seq(Items) /\ Tail(agenda) \in Seq(Items) /\ c \in FlowObjects
  BY <1>1, HeadType DEF TypeOK, Current
<1>3. ByTimer(Head(agenda)) /\ \A i \in DOMAIN Tail(agenda) : ByTimer(Tail(agenda)[i])
  BY <1>1, <1>2
<1>4. PutToken \/ AnnounceToken \/ TimerHandled \/ EmitAlongAll
  BY <1>3 DEF ByTimer, Running, Current, TokenStep, PutToken, AnnounceToken, ArriveAtCatchEvent, ArriveAtFlowObject,
       WaitTaskHandled, FlowObjectHandled, JoinCompletes, JoinWaits, EmitAlongAll, EmitAlongOne,
       Fork, EndMainProcess, EndCalledProcess, EnterCall, StartCalledProcess, EventStep,
       ActivityEnds, ActivityLeft, EmitCatchEvent, CatchEvent, EventCaught, CatchBoundaryEvent,
       UnhandledEvent, TimerStep, ArmTimer, ArmExpiredTimer, TimerHandled
<1>5. CASE PutToken \/ TimerHandled
  <2>1. PICK op \in {"begun", "ended"} : /\ CallHandler(Item(op, c), Tail(agenda))
                                         /\ op = "ended" => Running("timerHandled")
    BY <1>5 DEF PutToken, TimerHandled
  <2> DEFINE x == Item(op, c)
  <2>2. x \in Items
    BY <1>2, ItemType DEF ContinuationOps
  <2>3. ByTimer(x)
    <3>1. op = "ended" => Kind[c] = "timerCatch"
      <4>1. op = "ended" => Head(agenda).op = "timerHandled"
        BY <2>1 DEF Running
      <4> QED
        BY <1>3, <4>1 DEF ByTimer, Current
    <3>2. x.op = op /\ x.at = c
      BY DEF Item
    <3> HIDE DEF x, c
    <3> QED
      BY <2>1, <3>1, <3>2 DEF ByTimer
  <2>4. agenda' = <<x>> \o Tail(agenda) \/ agenda' = Tail(agenda)
    <3>1. CallHandler(x, Tail(agenda))
      BY <2>1
    <3> HIDE DEF x
    <3> QED
      BY <3>1 DEF CallHandler
  <2> QED
    BY <1>2, <1>3, <2>2, <2>3, <2>4, ByTimerOne
<1>6. CASE AnnounceToken
  <2>1. agenda' = Tail(agenda)
    BY <1>6 DEF AnnounceToken, EmitEvent
  <2> QED
    BY <1>3, <2>1
<1>7. CASE EmitAlongAll
  <2>1. agenda' = Puts(c) \o Tail(agenda) /\ Puts(c) \in Seq(Items)
    BY <1>2, <1>7, PutsAndArms DEF EmitAlongAll, Proceed
  <2>2. \A i \in DOMAIN Puts(c) : ByTimer(Puts(c)[i])
    BY DEF Puts, ByTimer, Item
  <2> QED
    BY <1>2, <1>3, <2>1, <2>2, ByTimerJoined
<1> QED
  BY <1>4, <1>5, <1>6, <1>7

LEMMA LoadingInvStep ==
  ASSUME RecoveryTypeOK, SavingInv, LoadingInv, [RecoveryNext]_recoveryVars
  PROVE  LoadingInv'
<1>1. TypeOK
  BY DEF RecoveryTypeOK
<1>2. CASE UNCHANGED recoveryVars
  BY <1>2 DEF LoadingInv, ByTimer, recoveryVars, engineVars, vars, storeVars
<1>3. CASE Restart
  <2>1. phase' = "loading" /\ deferEvents' = TRUE /\ asked' = << >> /\ agenda' = << >>
    BY <1>3 DEF Restart
  <2> QED
    BY <2>1 DEF LoadingInv
<1>4. CASE Load
  <2>1. phase = "loading" /\ phase' = "restoring" /\ UNCHANGED <<deferEvents, asked, agenda>>
    BY <1>4 DEF Load, storeVars
  <2> QED
    BY <2>1 DEF LoadingInv, ByTimer
<1>5. ASSUME NEW t \in TimerEvents, RestoreTimer(t) PROVE LoadingInv'
  <2>1. /\ phase = "restoring" /\ agenda = << >> /\ UNCHANGED <<phase, asked, deferEvents>>
    BY <1>5 DEF RestoreTimer, storeVars, Expire
  <2>2. t \in FlowObjects /\ (t \notin BoundaryEvents => Kind[t] = "timerCatch")
    BY DEF TimerEvents, BoundaryEvents, OfKind
  <2>3. CASE Expire(t, << >>)
    <3>1. PICK op \in {"put", "timerHandled"} :
                 /\ agenda' = <<Item(op, t)>> \o << >> \/ agenda' = << >>
                 /\ op = "timerHandled" => t \notin BoundaryEvents
      BY <2>3 DEF Expire, CallHandler
    <3> DEFINE x == Item(op, t)
    <3>2. x \in Items /\ ByTimer(x)
      BY <2>2, <3>1, ItemType DEF CallOps, ContinuationOps, ByTimer, Item
    <3>3. << >> \in Seq(Items) /\ \A i \in DOMAIN << >> : ByTimer(<< >>[i])
      OBVIOUS
    <3>4. \A i \in DOMAIN agenda' : ByTimer(agenda'[i])
      BY <3>1, <3>2, <3>3, ByTimerOne, Zenon
    <3> QED
      BY <2>1, <3>4 DEF LoadingInv, ByTimer
  <2>4. CASE UNCHANGED agenda
    BY <2>1, <2>4 DEF LoadingInv, ByTimer
  <2> QED
    BY <1>5, <2>3, <2>4 DEF RestoreTimer
<1>6. CASE FinishLoading
  BY <1>6 DEF FinishLoading, LoadingInv
<1>7. CASE phase = "running" /\ RecoveryNext /\ ~Restart /\ ~Loading
  BY <1>7, EngineStep DEF LoadingInv, RequestSave, WriteDocument, SaveAnswered, SaveRefused
<1>8. CASE phase # "running" /\ RecoveryNext /\ ~Restart /\ ~Loading
  <2>1. phase # "loading"
    BY <1>8, LoadingIsAlone DEF Loading, SavingInv, Quiet
  <2>2. Run
    BY <1>8 DEF RecoveryNext, WriteDocument, SaveAnswered, SaveRefused, Closed, Timer, Answer, Start,
       Resting, Report, Interrupt, Outside
  <2>3. ~RequestSave
    <3>1. agenda # << >> => ByTimer(Head(agenda))
      BY <1>1, <1>8 DEF LoadingInv, TypeOK
    <3> QED
      BY <3>1 DEF RequestSave, Persist, Running, ByTimer
  <2>4. TokenStep \/ EventStep \/ TimerStep
    BY <2>2, <2>3 DEF Run
  <2>5. UNCHANGED <<phase, asked, deferEvents>>
    <3>1. UNCHANGED <<phase, asked>>
      BY <2>2, <2>3 DEF Run, storeVars
    <3>2. UNCHANGED deferEvents
      BY <2>4 DEF TokenStep, PutToken, AnnounceToken, ArriveAtCatchEvent, ArriveAtFlowObject,
       WaitTaskHandled, FlowObjectHandled, JoinCompletes, JoinWaits, EmitAlongAll, EmitAlongOne,
       Fork, EndMainProcess, EndCalledProcess, EnterCall, StartCalledProcess, EventStep,
       ActivityEnds, ActivityLeft, EmitCatchEvent, CatchEvent, EventCaught, CatchBoundaryEvent,
       UnhandledEvent, TimerStep, ArmTimer, ArmExpiredTimer, TimerHandled, Leave, Expire
    <3> QED
      BY <3>1, <3>2
  <2>6. \A i \in DOMAIN agenda' : ByTimer(agenda'[i])
    BY <1>1, <1>8, <2>4, RestoringRuns DEF LoadingInv
  <2>7. /\ phase' # "running" /\ deferEvents' /\ asked' = << >>
    BY <1>8, <2>5 DEF LoadingInv
  <2> QED
    BY <2>6, <2>7 DEF LoadingInv, ByTimer
<1> QED
  BY <1>2, <1>3, <1>4, <1>5, <1>6, <1>7, <1>8 DEF Loading

\* A timer event of the main process that holds a token: its timer runs or is still to be
\* restored, or the token has not come so far; and in the store it has its timeout.
TimerIsKept(t) ==
  /\ tokens[t] > 0 => t \in timers \/ t \in restoring \/ OnItsWay(t)
  /\ stored.tokens[t] > 0 => t \in stored.timeouts

MainTimers == {t \in OfKind({"timerCatch"}) : ProcessOf[t] = Main}

\* The same for a timeout and the token of its activity; it may have expired, too, and
\* then its boundary event has a token or is about to get one.
TimeoutIsKept(t) ==
  /\ tokens[Host(t)] > 0 =>
       t \in timers \/ t \in restoring \/ tokens[t] > 0 \/ TimeoutOnItsWay(t)
  /\ stored.tokens[Host(t)] > 0 => t \in stored.timeouts

MainTimeouts == {t \in OfKind({"timeout"}) : ProcessOf[t] = Main}

WaitingInv == /\ SavingInv
              /\ LoadingInv
              /\ \A t \in MainTimers : TimerIsKept(t)
              /\ \A t \in MainTimeouts : TimeoutIsKept(t)

LEMMA NotOnItsWay ==
  ASSUME NEW t \in FlowObjects
  PROVE  /\ TypeOK /\ Quiet => ~OnItsWay(t)
         /\ TypeOK' /\ Quiet' => ~OnItsWay(t)'
<1>1. Item("begun", t) \in Items /\ Item("arrived", t) \in Items /\ Item("arm", t) \in Items
  BY TimerItems
<1>2. ASSUME TypeOK, Quiet PROVE ~OnItsWay(t)
  BY <1>1, <1>2, QuietAccounts DEF OnItsWay
<1>3. ASSUME TypeOK', Quiet' PROVE ~OnItsWay(t)'
  <2>1. \A op \in {"begun", "arrived", "arm"} : Outstanding(Item(op, t))' = 0
    BY <1>1, <1>3, NextQuietAccounts
  <2> QED
    BY <2>1 DEF OnItsWay
<1> QED
  BY <1>2, <1>3

LEMMA OnItsWayKept ==
  ASSUME NEW t \in FlowObjects, UNCHANGED <<agenda, pending, deferred>>
  PROVE  OnItsWay(t)' <=> OnItsWay(t)
<1>1. \A e : Outstanding(e)' = Outstanding(e)
  BY DEF Outstanding, OnAgenda, Held, Deferred, Occurrences, Receiver
<1> QED
  BY <1>1 DEF OnItsWay, Item

\* Steps of the engine between two chains.
LEMMA OnItsWayMoves ==
  ASSUME TypeOK, TypeOK', NEW t \in FlowObjects, agenda = << >>, NEW new \in Seq(Items), Moves(new),
         OnItsWay(t)
  PROVE  OnItsWay(t)'
<1>1. PICK op \in {"begun", "arrived", "arm"} : Outstanding(Item(op, t)) > 0
  BY DEF OnItsWay
<1>2. Item(op, t) \in Items
  BY <1>1, TimerItems
<1>3. Outstanding(Item(op, t))' > 0
  BY <1>1, <1>2, MovesKeep
<1> QED
  BY <1>1, <1>3 DEF OnItsWay

\* The engine's own steps leave the store and the timeouts to be restored alone.
LEMMA EngineKeepsTimer ==
  ASSUME RecoveryTypeOK, WaitingInv, OneAtATime, [Next]_vars, NEW t \in MainTimers,
         UNCHANGED restoring
  PROVE  tokens'[t] > 0 => t \in timers' \/ t \in restoring' \/ OnItsWay(t)'
<1> SUFFICES ASSUME tokens'[t] > 0, t \notin restoring PROVE t \in timers' \/ OnItsWay(t)'
  OBVIOUS
<1>1. TypeOK /\ Received
  BY DEF RecoveryTypeOK, WaitingInv, SavingInv, AccountInv
<1>2. t \in OfKind({"timerCatch"}) /\ tokens[t] <= 1 /\ (tokens[t] > 0 => t \in timers \/ OnItsWay(t))
  BY DEF MainTimers, OneAtATime, WaitingInv, TimerIsKept
<1> QED
  BY <1>1, <1>2, TimerWaits

\* Restoring and loading.
LEMMA LoadingKeepsTimer ==
  ASSUME RecoveryTypeOK, RecoveryTypeOK', WaitingInv, OneAtATime, Loading, NEW t \in MainTimers
  PROVE  TimerIsKept(t)'
<1>1. /\ TypeOK /\ TypeOK' /\ t \in FlowObjects /\ t \in OfKind({"timerCatch"})
      /\ tokens[t] \in Nat /\ tokens[t] <= 1 /\ TimerIsKept(t) /\ Received
  <2>1. TypeOK /\ TypeOK' /\ t \in FlowObjects /\ t \in OfKind({"timerCatch"})
    BY DEF RecoveryTypeOK, MainTimers, OfKind
  <2>2. tokens[t] <= 1
    BY <2>1 DEF OneAtATime
  <2>3. TimerIsKept(t) /\ Received
    BY DEF WaitingInv, SavingInv, AccountInv
  <2> QED
    BY <2>1, <2>2, <2>3 DEF TypeOK
<1>2. stored' = stored
  BY DEF Loading, Load, RestoreTimer, FinishLoading, storeVars
<1>3. CASE Load
  <2>1. tokens' = stored.tokens /\ restoring' = stored.timeouts
    BY <1>3 DEF Load
  <2> QED
    BY <1>1, <1>2, <2>1 DEF TimerIsKept
<1>4. CASE FinishLoading
  <2>1. /\ agenda = << >> /\ EmitDeferredEvents
        /\ UNCHANGED <<tokens, timers, restoring, pending>>
    BY <1>4 DEF FinishLoading
  <2>2. Moves(<< >>) /\ << >> \in Seq(Items)
    BY <1>1, <2>1, EmitDeferredEventsMoves
  <2>3. OnItsWay(t) => OnItsWay(t)'
    BY <1>1, <2>1, <2>2, OnItsWayMoves
  <2> QED
    BY <1>1, <1>2, <2>1, <2>3 DEF TimerIsKept
<1>5. ASSUME NEW u \in TimerEvents, RestoreTimer(u) PROVE TimerIsKept(t)'
  <2>1. agenda = << >> /\ restoring' = restoring \ {u} /\ u \in FlowObjects
    BY <1>5 DEF RestoreTimer, TimerEvents, OfKind
  <2>2. CASE timers' = timers \cup {u} /\ UNCHANGED <<tokens, agenda, pending, deferred>>
    BY <1>1, <1>2, <2>1, <2>2, OnItsWayKept DEF TimerIsKept
  <2>3. CASE Expire(u, << >>)
    <3>1. Rest = << >>
      BY <2>1, NothingRuns
    <3>2. Expire(u, Rest)
      BY <2>3, <3>1, Zenon
    <3>3. PICK new \in Seq(Items) : Moves(new)
      BY <1>1, <2>1, <3>2, ExpireMoves
    <3>4. OnItsWay(t) => OnItsWay(t)'
      BY <1>1, <2>1, <3>3, OnItsWayMoves
    <3>5. CASE u = t
      <4>1. tokens' = Remove(t)
        BY <1>1, <2>3, <3>5, IntermediateTimer DEF Expire
      <4>2. tokens'[t] = 0
        BY <1>1, <4>1 DEF Remove, TypeOK
      <4> QED
        BY <1>1, <1>2, <4>2 DEF TimerIsKept
    <3>6. CASE u # t
      <4>1. tokens' = tokens \/ tokens' = Remove(u)
        BY <2>3 DEF Expire
      <4>2. tokens'[t] = tokens[t]
        BY <1>1, <3>6, <4>1 DEF Remove, TypeOK
      <4>3. t \in timers => t \in timers'
        BY <2>3, <3>6 DEF Expire
      <4> QED
        BY <1>1, <1>2, <2>1, <3>4, <3>6, <4>2, <4>3 DEF TimerIsKept
    <3> QED
      BY <3>5, <3>6
  <2> QED
    BY <1>5, <2>2, <2>3 DEF RestoreTimer
<1> QED
  BY <1>3, <1>4, <1>5 DEF Loading

LEMMA TimeoutNotOnItsWay ==
  ASSUME NEW t \in OfKind({"timeout"})
  PROVE  /\ TypeOK /\ Quiet => ~TimeoutOnItsWay(t)
         /\ TypeOK' /\ Quiet' => ~TimeoutOnItsWay(t)'
<1>1. TimeoutItems(t) \subseteq Items /\ TimeoutItems(t)' = TimeoutItems(t)
  BY TimeoutItemsType DEF TimeoutItems, Item
<1>2. TypeOK /\ Quiet => \A e \in TimeoutItems(t) : Outstanding(e) = 0
  BY <1>1, QuietAccounts
<1>3. TypeOK' /\ Quiet' => \A e \in TimeoutItems(t) : Outstanding(e)' = 0
  BY <1>1, NextQuietAccounts
<1> QED
  BY <1>1, <1>2, <1>3 DEF TimeoutOnItsWay

LEMMA TimeoutOnItsWayKept ==
  ASSUME NEW t \in FlowObjects, UNCHANGED <<agenda, pending, deferred>>
  PROVE  TimeoutOnItsWay(t)' <=> TimeoutOnItsWay(t)
<1>1. \A e : Outstanding(e)' = Outstanding(e)
  BY DEF Outstanding, OnAgenda, Held, Deferred, Occurrences, Receiver
<1>2. TimeoutItems(t)' = TimeoutItems(t)
  BY DEF TimeoutItems, Item
<1> QED
  BY <1>1, <1>2 DEF TimeoutOnItsWay

LEMMA TimeoutOnItsWayMoves ==
  ASSUME TypeOK, TypeOK', NEW t \in OfKind({"timeout"}), agenda = << >>, NEW new \in Seq(Items),
         Moves(new), TimeoutOnItsWay(t)
  PROVE  TimeoutOnItsWay(t)'
<1>1. PICK e \in TimeoutItems(t) : Outstanding(e) > 0
  BY DEF TimeoutOnItsWay
<1>2. e \in Items /\ TimeoutItems(t)' = TimeoutItems(t)
  BY TimeoutItemsType DEF TimeoutItems, Item
<1>3. Outstanding(e)' > 0
  BY <1>1, <1>2, MovesKeep
<1> QED
  BY <1>1, <1>2, <1>3 DEF TimeoutOnItsWay

LEMMA EngineKeepsTimeout ==
  ASSUME RecoveryTypeOK, WaitingInv, OneAtATime, [Next]_vars, NEW t \in MainTimeouts,
         UNCHANGED restoring
  PROVE  tokens'[Host(t)] > 0 =>
           t \in timers' \/ t \in restoring' \/ tokens'[t] > 0 \/ TimeoutOnItsWay(t)'
<1> SUFFICES ASSUME tokens'[Host(t)] > 0, t \notin restoring
             PROVE  t \in timers' \/ tokens'[t] > 0 \/ TimeoutOnItsWay(t)'
  OBVIOUS
<1>1. TypeOK /\ AccountInv
  BY DEF RecoveryTypeOK, WaitingInv, SavingInv
<1>2. t \in OfKind({"timeout"}) /\ tokens[Host(t)] <= 1
      /\ (tokens[Host(t)] > 0 => t \in timers \/ tokens[t] > 0 \/ TimeoutOnItsWay(t))
  BY DEF MainTimeouts, OneAtATime, WaitingInv, TimeoutIsKept
<1> QED
  BY <1>1, <1>2, TimeoutWaits

\* A timeout that is restored is armed, or puts a token on its boundary event.
LEMMA RestoringKeepsTimeout ==
  ASSUME RecoveryTypeOK, RecoveryTypeOK', WaitingInv, NEW u \in TimerEvents, RestoreTimer(u),
         NEW t \in MainTimeouts
  PROVE  TimeoutIsKept(t)'
<1> DEFINE h == Host(t)
<1>1. /\ TypeOK /\ TypeOK' /\ t \in OfKind({"timeout"}) /\ t \in FlowObjects /\ h \in FlowObjects
      /\ h # t /\ h \notin TimerEvents /\ t \in BoundaryEvents /\ TimeoutIsKept(t)
      /\ tokens \in [FlowObjects -> Nat]
  <2>1. TypeOK /\ TypeOK' /\ t \in OfKind({"timeout"}) /\ TimeoutIsKept(t)
    BY DEF RecoveryTypeOK, MainTimeouts, WaitingInv
  <2> QED
    BY <2>1, BoundaryTimer DEF TypeOK
<1>2. /\ agenda = << >> /\ restoring' = restoring \ {u} /\ u \in FlowObjects /\ u # h
      /\ stored' = stored
  BY <1>1 DEF RestoreTimer, TimerEvents, OfKind, storeVars
<1>3. CASE timers' = timers \cup {u} /\ UNCHANGED <<tokens, agenda, pending, deferred>>
  <2>1. TimeoutOnItsWay(t)' <=> TimeoutOnItsWay(t)
    BY <1>1, <1>3, TimeoutOnItsWayKept
  <2> QED
    BY <1>1, <1>2, <1>3, <2>1 DEF TimeoutIsKept
<1>4. CASE Expire(u, << >>)
  <2>1. Rest = << >>
    BY <1>2, NothingRuns
  <2>2. Expire(u, Rest)
    BY <1>4, <2>1, Zenon
  <2>3. CASE u = t
    <3>1. agenda' = <<Item("put", t)>> \o Rest /\ UNCHANGED <<pending, deferred>>
      BY <1>1, <2>2, <2>3 DEF Expire
    <3>2. Item("put", t) \in TimeoutItems(t) /\ TimeoutItems(t) \subseteq Items
      BY <1>1, TimeoutItemsType DEF TimeoutItems
    <3>3. Moves(<<Item("put", t)>>)
      BY <1>1, <3>1, <3>2, OneMoves
    <3>4. TimeoutOnItsWay(t)'
      BY <1>1, <3>2, <3>3, AddedIsOnItsWay
    <3> QED
      BY <1>1, <1>2, <3>4 DEF TimeoutIsKept
  <2>4. CASE u # t
    <3>1. PICK new \in Seq(Items) : Moves(new)
      BY <1>1, <1>2, <2>2, ExpireMoves
    <3>2. TimeoutOnItsWay(t) => TimeoutOnItsWay(t)'
      BY <1>1, <1>2, <3>1, TimeoutOnItsWayMoves
    <3>3. tokens' = tokens \/ tokens' = Remove(u)
      BY <1>4 DEF Expire
    <3>4. tokens'[h] = tokens[h] /\ tokens'[t] = tokens[t]
      BY <1>1, <1>2, <2>4, <3>3 DEF Remove
    <3>5. t \in timers => t \in timers'
      BY <1>4, <2>4 DEF Expire
    <3> QED
      BY <1>1, <1>2, <2>4, <3>2, <3>4, <3>5 DEF TimeoutIsKept
  <2> QED
    BY <2>3, <2>4
<1> QED
  BY <1>3, <1>4 DEF RestoreTimer

LEMMA LoadingKeepsTimeout ==
  ASSUME RecoveryTypeOK, RecoveryTypeOK', WaitingInv, Loading, NEW t \in MainTimeouts
  PROVE  TimeoutIsKept(t)'
<1>1. /\ TypeOK /\ TypeOK' /\ t \in OfKind({"timeout"}) /\ TimeoutIsKept(t) /\ Received
  BY DEF RecoveryTypeOK, MainTimeouts, WaitingInv, SavingInv, AccountInv
<1>2. stored' = stored
  BY DEF Loading, Load, RestoreTimer, FinishLoading, storeVars
<1>3. CASE Load
  <2>1. tokens' = stored.tokens /\ restoring' = stored.timeouts
    BY <1>3 DEF Load
  <2> QED
    BY <1>1, <1>2, <2>1 DEF TimeoutIsKept
<1>4. CASE FinishLoading
  <2>1. /\ agenda = << >> /\ EmitDeferredEvents
        /\ UNCHANGED <<tokens, timers, restoring, pending>>
    BY <1>4 DEF FinishLoading
  <2>2. Moves(<< >>) /\ << >> \in Seq(Items)
    BY <1>1, <2>1, EmitDeferredEventsMoves
  <2>3. TimeoutOnItsWay(t) => TimeoutOnItsWay(t)'
    BY <1>1, <2>1, <2>2, TimeoutOnItsWayMoves
  <2> QED
    BY <1>1, <1>2, <2>1, <2>3 DEF TimeoutIsKept
<1>5. ASSUME NEW u \in TimerEvents, RestoreTimer(u) PROVE TimeoutIsKept(t)'
  BY <1>5, RestoringKeepsTimeout
<1> QED
  BY <1>3, <1>4, <1>5 DEF Loading

LEMMA TimersStep ==
  ASSUME RecoveryTypeOK, RecoveryTypeOK', WaitingInv, OneAtATime, OneAtATime',
         [RecoveryNext]_recoveryVars
  PROVE  \A t \in MainTimers : TimerIsKept(t)'
<1>2. TypeOK /\ TypeOK'
  BY DEF RecoveryTypeOK
<1> SUFFICES ASSUME NEW t \in MainTimers PROVE TimerIsKept(t)'
  OBVIOUS
<1>3. /\ t \in FlowObjects /\ ProcessOf[t] = Main /\ TimerIsKept(t)
  BY DEF MainTimers, OfKind, WaitingInv
<1>4. CASE [Next]_vars /\ UNCHANGED <<restoring, stored>>
  BY <1>3, <1>4, EngineKeepsTimer DEF TimerIsKept
<1>5. CASE Restart
  <2>1. tokens'[t] = 0 /\ stored' = stored
    BY <1>3, <1>5 DEF Restart
  <2> QED
    BY <1>3, <2>1 DEF TimerIsKept
<1>6. CASE Loading
  BY <1>6, LoadingKeepsTimer
<1>7. CASE WriteDocument
  <2>1. Quiet /\ phase = "running"
    BY <1>7 DEF WriteDocument, OneAtATime, SavesAreAlone, RecoveryTypeOK
  <2>2. restoring = {} /\ ~OnItsWay(t)
    BY <1>2, <1>3, <2>1, NotOnItsWay DEF WaitingInv, LoadingInv
  <2>3. UNCHANGED <<tokens, timers, restoring, agenda, pending, deferred>> /\ stored' = Document
    BY <1>7 DEF WriteDocument, engineVars, vars
  <2>4. Document.tokens[t] > 0 => t \in Document.timeouts
    <3>1. Document.tokens[t] > 0 => tokens[t] > 0
      BY <1>3 DEF Document, HasTokens
    <3>2. t \in timers => t \in Document.timeouts
      BY <1>3 DEF Document
    <3> QED
      BY <1>3, <2>2, <3>1, <3>2 DEF TimerIsKept
  <2> QED
    BY <1>3, <2>2, <2>3, <2>4 DEF TimerIsKept
<1>8. CASE RequestSave
  <2>1. phase = "running"
    <3>1. agenda # << >> => ByTimer(Head(agenda)) \/ phase = "running"
      BY <1>2 DEF WaitingInv, LoadingInv, TypeOK
    <3> QED
      BY <1>8, <3>1 DEF RequestSave, Persist, Running, ByTimer
  <2>2. asked' # << >>
    BY <1>8, RequestSaveAppends, StoreTypes DEF RequestSave, StoreTypeOK
  <2>3. ~OnItsWay(t)'
    BY <1>2, <1>3, <2>2, NotOnItsWay DEF OneAtATime, SavesAreAlone
  <2>4. /\ restoring' = {} /\ UNCHANGED <<tokens, timers>> /\ stored' \in {stored, Document}
    BY <1>8, <2>1 DEF RequestSave, Persist, WaitingInv, LoadingInv
  <2>5. tokens[t] > 0 => t \in timers
    <3>1. [Next]_vars /\ UNCHANGED restoring
      BY <1>8 DEF RequestSave, Next, RunStep
    <3> QED
      BY <2>3, <2>4, <3>1, EngineKeepsTimer
  <2>6. Document.tokens[t] > 0 => t \in Document.timeouts
    <3>1. Document.tokens[t] > 0 => tokens[t] > 0
      BY <1>3 DEF Document, HasTokens
    <3>2. t \in timers => t \in Document.timeouts
      BY <1>3 DEF Document
    <3> QED
      BY <2>5, <3>1, <3>2
  <2> QED
    BY <1>3, <2>4, <2>5, <2>6 DEF TimerIsKept
<1>9. SaveAnswered \/ SaveRefused => [Next]_vars /\ UNCHANGED <<restoring, stored>>
  BY DEF SaveAnswered, SaveRefused, Next, IoEvent
<1>10. UNCHANGED recoveryVars => [Next]_vars /\ UNCHANGED <<restoring, stored>>
  BY DEF recoveryVars, engineVars, storeVars
<1> QED
  BY <1>4, <1>5, <1>6, <1>7, <1>8, <1>9, <1>10, EngineStep

\* At rest, when a process is saved, the token of a user task has no work left to do and
\* that of a boundary event is gone, so the timer runs and is part of the document.
LEMMA TimeoutsStep ==
  ASSUME RecoveryTypeOK, RecoveryTypeOK', WaitingInv, SavingInv', OneAtATime, OneAtATime',
         [RecoveryNext]_recoveryVars
  PROVE  \A t \in MainTimeouts : TimeoutIsKept(t)'
<1> SUFFICES ASSUME NEW t \in MainTimeouts PROVE TimeoutIsKept(t)'
  OBVIOUS
<1> DEFINE h == Host(t)
<1>1. /\ TypeOK /\ TypeOK' /\ AccountInv /\ AccountInv'
  BY DEF RecoveryTypeOK, WaitingInv, SavingInv
<1>2. /\ t \in FlowObjects /\ h \in FlowObjects /\ t \in OfKind({"timeout"})
      /\ ProcessOf[t] = Main /\ ProcessOf[h] = Main /\ t \in Automatic /\ TimeoutIsKept(t)
      /\ tokens[t] \in Nat /\ tokens'[t] \in Nat /\ tokens[h] \in Nat
  <2>1. t \in OfKind({"timeout"}) /\ ProcessOf[t] = Main /\ TimeoutIsKept(t)
    BY DEF MainTimeouts, WaitingInv
  <2> QED
    BY <1>1, <2>1, BoundaryTimer, AutomaticFacts DEF TypeOK
<1>3. CASE [Next]_vars /\ UNCHANGED <<restoring, stored>>
  BY <1>2, <1>3, EngineKeepsTimeout DEF TimeoutIsKept
<1>4. CASE Restart
  <2>1. tokens'[h] = 0 /\ stored' = stored
    BY <1>2, <1>4 DEF Restart
  <2> QED
    BY <1>2, <2>1 DEF TimeoutIsKept
<1>5. CASE Loading
  BY <1>5, LoadingKeepsTimeout
<1>6. Document.tokens[h] > 0 => tokens[h] > 0
  BY <1>2 DEF Document, HasTokens
<1>7. t \in timers => t \in Document.timeouts
  BY <1>2 DEF Document
<1>8. CASE WriteDocument
  <2>1. Quiet /\ phase = "running"
    BY <1>8 DEF WriteDocument, OneAtATime, SavesAreAlone, RecoveryTypeOK
  <2>2. restoring = {} /\ ~TimeoutOnItsWay(t)
    BY <1>1, <1>2, <2>1, TimeoutNotOnItsWay DEF WaitingInv, LoadingInv
  <2>3. tokens[t] = 0
    <3>1. WorkAt(t) = 0
      BY <1>1, <1>2, <2>1, QuietAccounts
    <3> QED
      BY <1>1, <1>2, <3>1 DEF AccountInv, TokensHaveWork
  <2>4. UNCHANGED <<tokens, timers, restoring, agenda, pending, deferred>> /\ stored' = Document
    BY <1>8 DEF WriteDocument, engineVars, vars
  <2>5. tokens[h] > 0 => t \in timers
    BY <1>2, <2>2, <2>3 DEF TimeoutIsKept
  <2> QED
    BY <1>6, <1>7, <2>4, <2>5 DEF TimeoutIsKept
<1>9. CASE RequestSave
  <2>1. phase = "running"
    <3>1. agenda # << >> => ByTimer(Head(agenda)) \/ phase = "running"
      BY <1>1 DEF WaitingInv, LoadingInv, TypeOK
    <3> QED
      BY <1>9, <3>1 DEF RequestSave, Persist, Running, ByTimer
  <2>2. asked' # << >>
    BY <1>9, RequestSaveAppends, StoreTypes DEF RequestSave, StoreTypeOK
  <2>3. ~TimeoutOnItsWay(t)' /\ tokens'[t] = 0
    <3>1. Quiet'
      BY <2>2 DEF OneAtATime, SavesAreAlone
    <3>2. WorkAt(t)' = 0
      BY <1>1, <1>2, <3>1, NextQuietAccounts
    <3>3. tokens'[t] = WorkAt(t)'
      BY <1>1, <1>2 DEF AccountInv, TokensHaveWork
    <3> QED
      BY <1>1, <1>2, <3>1, <3>2, <3>3, TimeoutNotOnItsWay
  <2>4. /\ restoring' = {} /\ UNCHANGED <<tokens, timers>> /\ stored' \in {stored, Document}
    BY <1>9, <2>1 DEF RequestSave, Persist, WaitingInv, LoadingInv
  <2>5. tokens[h] > 0 => t \in timers
    <3>1. [Next]_vars /\ UNCHANGED restoring
      BY <1>9 DEF RequestSave, Next, RunStep
    <3>2. tokens'[h] > 0 =>
            t \in timers' \/ t \in restoring' \/ tokens'[t] > 0 \/ TimeoutOnItsWay(t)'
      BY <3>1, EngineKeepsTimeout
    <3> QED
      BY <2>3, <2>4, <3>2
  <2> QED
    BY <1>2, <1>6, <1>7, <2>4, <2>5 DEF TimeoutIsKept
<1>10. SaveAnswered \/ SaveRefused => [Next]_vars /\ UNCHANGED <<restoring, stored>>
  BY DEF SaveAnswered, SaveRefused, Next, IoEvent
<1>11. UNCHANGED recoveryVars => [Next]_vars /\ UNCHANGED <<restoring, stored>>
  BY DEF recoveryVars, engineVars, storeVars
<1> QED
  BY <1>3, <1>4, <1>5, <1>8, <1>9, <1>10, <1>11, EngineStep

LEMMA WaitingStep ==
  ASSUME RecoveryTypeOK, RecoveryTypeOK', WaitingInv, OneAtATime, OneAtATime',
         [RecoveryNext]_recoveryVars
  PROVE  WaitingInv'
<1>1. SavingInv' /\ LoadingInv'
  BY SavingStep, LoadingInvStep DEF WaitingInv, OneAtATime
<1>2. \A t \in MainTimers : TimerIsKept(t)'
  BY TimersStep
<1>3. \A t \in MainTimeouts : TimeoutIsKept(t)'
  BY <1>1, TimeoutsStep
<1>4. MainTimers' = MainTimers /\ MainTimeouts' = MainTimeouts
  BY DEF MainTimers, MainTimeouts, OfKind
<1> QED
  BY <1>1, <1>2, <1>3, <1>4 DEF WaitingInv

\* An arm or a put is a call: nothing keeps it while no chain runs.
LEMMA CallsAreOnAgenda ==
  ASSUME TypeOK, agenda = << >>, NEW e \in Items, e.op \in CallOps
  PROVE  Outstanding(e) = 0
<1>1. e \notin Late /\ e \notin Events
  BY EnvironmentAssumption DEF CallOps, Events, EventOps, Continuations, ContinuationOps
<1>2. OnAgenda(e) = 0
  BY OccurrencesFew, Zenon DEF OnAgenda
<1>3. Held(e) = 0
  BY <1>1 DEF Held
<1>4. Deferred(Receiver(e), e) = 0
  <2>1. deferred[Receiver(e)] \in Seq(Events)
    BY ReceiverType DEF TypeOK
  <2>2. \A i \in DOMAIN deferred[Receiver(e)] : deferred[Receiver(e)][i] # e
    BY <1>1, <2>1
  <2> QED
    BY <2>1, <2>2, NoOccurrence DEF Deferred
<1> QED
  BY <1>2, <1>3, <1>4 DEF Outstanding

\* A token that waits at an object, and no more than that, is not on its way.
LEMMA NoWorkThere ==
  ASSUME TypeOK, NEW o \in FlowObjects, tokens[o] <= 1, tokens[o] > WorkAt(o)
  PROVE  /\ tokens[o] > 0
         /\ \A op \in {"begun", "arrived", "handled"} : Outstanding(Item(op, o)) = 0
<1>1. WorkAt(o) = Outstanding(Item("begun", o)) + Outstanding(Item("arrived", o))
                    + Outstanding(Item("handled", o))
  BY WorkOutstanding
<1>2. /\ Outstanding(Item("begun", o)) \in Nat /\ Outstanding(Item("arrived", o)) \in Nat
      /\ Outstanding(Item("handled", o)) \in Nat
  BY WorkItems, OutstandingType
<1>3. tokens[o] \in Nat
  BY DEF TypeOK
<1>4. WorkAt(o) = 0 /\ tokens[o] > 0
  <2>1. WorkAt(o) \in Nat
    BY <1>1, <1>2
  <2> QED
    BY <1>3, <2>1
<1>5. /\ Outstanding(Item("begun", o)) = 0 /\ Outstanding(Item("arrived", o)) = 0
      /\ Outstanding(Item("handled", o)) = 0
  BY <1>1, <1>2, <1>4
<1> QED
  BY <1>4, <1>5

\* A main process that was stopped and loaded again any number of times has the timer of
\* every token that waits at a timer event, and those timers of an activity with a token
\* that have not expired (timeouts.js:64-136, process.js:543-616): none is lost between the
\* state and the timeouts of a document, nor while they are restored.
THEOREM WaitingHasTimers == RecoverySpec /\ []OneAtATime => []WaitingTimersRun
<1>1. RecoveryInit => WaitingInv
  <2>1. RecoveryInit => SavingInv
    <3>1. RecoveryInit => AccountInv
      BY AccountInit DEF RecoveryInit
    <3> QED
      BY <3>1 DEF RecoveryInit, NoDocument, SavedTokensWait, SavingInv
  <2>2. RecoveryInit => LoadingInv
    BY DEF RecoveryInit, LoadingInv
  <2>3. RecoveryInit => \A t \in MainTimers : TimerIsKept(t)
    BY DEF RecoveryInit, Init, NoDocument, TimerIsKept, MainTimers, OfKind
  <2>4. RecoveryInit => \A t \in MainTimeouts : TimeoutIsKept(t)
    <3> SUFFICES ASSUME RecoveryInit, NEW t \in MainTimeouts PROVE TimeoutIsKept(t)
      OBVIOUS
    <3>1. Host(t) \in FlowObjects
      BY BoundaryTimer DEF MainTimeouts
    <3> QED
      BY <3>1 DEF RecoveryInit, Init, NoDocument, TimeoutIsKept
  <2> QED
    BY <2>1, <2>2, <2>3, <2>4 DEF WaitingInv
<1>2. RecoveryTypeOK /\ RecoveryTypeOK' /\ WaitingInv /\ OneAtATime /\ OneAtATime'
      /\ [RecoveryNext]_recoveryVars => WaitingInv'
  BY WaitingStep
<1>3. RecoverySpec /\ []OneAtATime => []WaitingInv
  BY <1>1, <1>2, RecoveryTypeCorrectness, PTL DEF RecoverySpec
<1>4. RecoveryTypeOK /\ WaitingInv /\ OneAtATime => WaitingTimersRun
  <2> SUFFICES ASSUME RecoveryTypeOK, WaitingInv, OneAtATime, phase = "running", agenda = << >>
               PROVE  WaitingTimersRun
    BY DEF WaitingTimersRun
  <2>1. TypeOK /\ restoring = {}
    BY DEF RecoveryTypeOK, WaitingInv, LoadingInv
  <2>2. ASSUME NEW t \in OfKind({"timerCatch"}), ProcessOf[t] = Main, tokens[t] > WorkAt(t)
        PROVE  t \in timers
    <3>1. t \in FlowObjects /\ t \in MainTimers /\ tokens[t] <= 1
      BY <2>2 DEF MainTimers, OfKind, OneAtATime
    <3>2. tokens[t] > 0 /\ Outstanding(Item("begun", t)) = 0 /\ Outstanding(Item("arrived", t)) = 0
      BY <2>1, <2>2, <3>1, NoWorkThere
    <3>3. Outstanding(Item("arm", t)) = 0
      BY <2>1, <3>1, TimerItems, CallsAreOnAgenda DEF Item, CallOps
    <3> QED
      BY <2>1, <3>1, <3>2, <3>3 DEF WaitingInv, TimerIsKept, OnItsWay
  <2>3. ASSUME NEW t \in OfKind({"timeout"}), ProcessOf[t] = Main,
               tokens[Host(t)] > WorkAt(Host(t))
        PROVE  t \in timers \/ tokens[t] > 0
    <3>1. /\ t \in FlowObjects /\ t \in MainTimeouts /\ Host(t) \in FlowObjects
          /\ tokens[Host(t)] <= 1
      BY <2>3, BoundaryTimer DEF MainTimeouts, OneAtATime
    <3>2. /\ tokens[Host(t)] > 0 /\ Outstanding(Item("begun", Host(t))) = 0
          /\ Outstanding(Item("arrived", Host(t))) = 0 /\ Outstanding(Item("handled", Host(t))) = 0
      BY <2>1, <2>3, <3>1, NoWorkThere
    <3>3. Outstanding(Item("arm", t)) = 0 /\ Outstanding(Item("put", t)) = 0
      <4>1. Item("arm", t) \in Items /\ Item("put", t) \in Items
        BY <3>1, ItemType DEF CallOps
      <4> QED
        BY <2>1, <4>1, CallsAreOnAgenda DEF Item, CallOps
    <3>4. ~TimeoutOnItsWay(t)
      BY <3>2, <3>3 DEF TimeoutOnItsWay, TimeoutItems
    <3> QED
      BY <2>1, <3>1, <3>2, <3>4 DEF WaitingInv, TimeoutIsKept
  <2> QED
    BY <2>2, <2>3 DEF WaitingTimersRun
<1> QED
  BY <1>3, <1>4, RecoveryTypeCorrectness, PTL

===============================================================================
