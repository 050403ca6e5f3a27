------------------------- MODULE ProcessEngine_proofs -------------------------
(****************************************************************************)
(* Theorems about ProcessEngine, for every process definition and every     *)
(* environment that its assumptions allow, and their proofs.                *)
(****************************************************************************)
EXTENDS EngineProperties, TLAPS

(****************************************************************************)
(* The parts of the state.                                                  *)
(****************************************************************************)

\* An entry of the agenda with a known operation is an item.
LEMMA ItemType ==
  ASSUME NEW o \in FlowObjects
  PROVE  /\ \A op \in EventOps \cup ContinuationOps \cup CallOps : Item(op, o) \in Items
         /\ \A op \in EventOps : Item(op, o) \in Events
  BY DEF Item, Items, Events

\* Events and continuations are items; sequences of them are pieces of an agenda.
LEMMA EventsAreItems == Seq(Events) \subseteq Seq(Items)
<1>1. Events \subseteq Items
  BY DEF Events, Items
<1> QED
  BY <1>1

\* What is at the head of the agenda, and what is behind it.
LEMMA HeadType ==
  ASSUME TypeOK, agenda # << >>
  PROVE  /\ Current \in FlowObjects
         /\ Head(agenda) \in Items
         /\ Tail(agenda) \in Seq(Items)
<1>1. agenda \in Seq(Items)
  BY DEF TypeOK
<1>2. Head(agenda) \in Items /\ Tail(agenda) \in Seq(Items)
  BY <1>1
<1> QED
  BY <1>2 DEF Items, Current

\* Calls made in front of the rest of the agenda.
LEMMA ProceedType ==
  ASSUME TypeOK, agenda # << >>, NEW items \in Seq(Items), Proceed(items)
  PROVE  agenda' \in Seq(Items)
  BY HeadType DEF Proceed

LEMMA ProceedFew ==
  ASSUME TypeOK, agenda # << >>, NEW x \in Items, NEW y \in Items,
         Proceed(<< >>) \/ Proceed(<<x>>) \/ Proceed(<<x, y>>)
  PROVE  agenda' \in Seq(Items)
<1>1. << >> \in Seq(Items) /\ <<x>> \in Seq(Items) /\ <<x, y>> \in Seq(Items)
  OBVIOUS
<1> QED
  BY <1>1, ProceedType

LEMMA CallHandlerType ==
  ASSUME TypeOK, NEW c \in Items, NEW rest \in Seq(Items), CallHandler(c, rest)
  PROVE  agenda' \in Seq(Items) /\ pending' \in [Late -> Nat]
<1>1. pending \in [Late -> Nat]
  BY DEF TypeOK
<1>2. CASE agenda' = <<c>> \o rest /\ UNCHANGED pending
  BY <1>1, <1>2
<1>3. CASE /\ c \in Late
           /\ agenda' = rest
           /\ pending' = [pending EXCEPT ![c] = @ + 1]
  BY <1>1, <1>3
<1> QED
  BY <1>2, <1>3 DEF CallHandler

LEMMA EmitEventType ==
  ASSUME TypeOK, NEW e \in Events, NEW rest \in Seq(Items), EmitEvent(e, rest)
  PROVE  agenda' \in Seq(Items) /\ deferred' \in [Processes -> Seq(Events)]
<1>1. deferred \in [Processes -> Seq(Events)] /\ e \in Items
  BY DEF TypeOK, Events, Items
<1>2. CASE deferEvents
  BY <1>1, <1>2 DEF EmitEvent
<1>3. CASE ~deferEvents
  <2>1. agenda' = <<e>> \o rest /\ deferred' = deferred
    BY <1>3 DEF EmitEvent
  <2>2. <<e>> \in Seq(Items)
    BY <1>1
  <2> QED
    BY <1>1, <2>1, <2>2
<1> QED
  BY <1>2, <1>3

\* Changing one value of a function: outside its domain there is nothing to change.
LEMMA ExceptType ==
  ASSUME NEW f \in [FlowObjects -> Nat], NEW h, NEW v, h \in FlowObjects => v \in Nat
  PROVE  [f EXCEPT ![h] = v] \in [FlowObjects -> Nat]
  OBVIOUS

LEMMA TokenTypes ==
  ASSUME TypeOK, NEW o \in FlowObjects
  PROVE  /\ Add(o) \in [FlowObjects -> Nat]
         /\ Remove(o) \in [FlowObjects -> Nat]
         /\ Renewed(o) \in [FlowObjects -> Nat]
  BY DEF TypeOK, Add, Remove, Renewed

LEMMA PutsAndArms ==
  ASSUME NEW o \in FlowObjects
  PROVE  Puts(o) \in Seq(Items) /\ Arms(o) \in Seq(Items)
<1>1. Outgoing[o] \in Seq(FlowObjects) /\ Boundaries[o] \in Seq(FlowObjects)
  <2>1. BoundaryEvents \subseteq FlowObjects
    BY DEF BoundaryEvents, OfKind
  <2>2. Seq(BoundaryEvents) \subseteq Seq(FlowObjects)
    BY <2>1
  <2>3. Outgoing[o] \in Seq(FlowObjects) /\ Boundaries[o] \in Seq(BoundaryEvents)
    BY DefinitionAssumption
  <2> QED
    BY <2>2, <2>3
<1>2. Puts(o) \in Seq(Items)
  <2>1. DOMAIN Outgoing[o] = 1 .. Len(Outgoing[o]) /\ Len(Outgoing[o]) \in Nat
    BY <1>1
  <2>2. \A i \in DOMAIN Outgoing[o] : Item("put", Outgoing[o][i]) \in Items
    BY <1>1, ItemType DEF CallOps
  <2> QED
    BY <2>1, <2>2 DEF Puts
<1>3. Arms(o) \in Seq(Items)
  <2>1. DOMAIN Boundaries[o] = 1 .. Len(Boundaries[o]) /\ Len(Boundaries[o]) \in Nat
    BY <1>1
  <2>2. \A i \in DOMAIN Boundaries[o] : Item("arm", Boundaries[o][i]) \in Items
    BY <1>1, ItemType DEF CallOps
  <2> QED
    BY <2>1, <2>2 DEF Arms
<1> QED
  BY <1>2, <1>3

LEMMA RunningType ==
  ASSUME TypeOK, NEW op, Running(op)
  PROVE  agenda # << >> /\ Current \in FlowObjects /\ Tail(agenda) \in Seq(Items)
  BY HeadType DEF Running

\* Every boundary event is attached to an activity.
LEMMA HostType == ASSUME NEW b \in BoundaryEvents PROVE Host(b) \in FlowObjects
<1>1. \E o \in FlowObjects : \E i \in DOMAIN Boundaries[o] : Boundaries[o][i] = b
  BY DefinitionAssumption
<1> QED
  BY <1>1 DEF Host

LEMMA LeaveType ==
  ASSUME TypeOK, agenda # << >>, NEW o \in FlowObjects, Leave(o)
  PROVE  TypeOK'
<1>1. Item("ended", o) \in Items
  BY ItemType DEF ContinuationOps
<1>2. agenda' \in Seq(Items) /\ pending' \in [Late -> Nat]
  BY <1>1, HeadType, CallHandlerType DEF Leave
<1>3. tokens' \in [FlowObjects -> Nat]
  <2>1. Remove(o) \in [FlowObjects -> Nat]
    BY TokenTypes
  <2>2. CASE o \in BoundaryEvents
    <3>1. \A f \in [FlowObjects -> Nat], h \in FlowObjects :
            [f EXCEPT ![h] = IF @ > 0 THEN @ - 1 ELSE 0] \in [FlowObjects -> Nat]
      OBVIOUS
    <3>2. tokens' = [Remove(o) EXCEPT ![Host(o)] = IF @ > 0 THEN @ - 1 ELSE 0]
      BY <2>2 DEF Leave
    <3> QED
      BY <2>1, <2>2, <3>1, <3>2, HostType
  <2>3. CASE o \notin BoundaryEvents
    BY <2>1, <2>3 DEF Leave
  <2> QED
    BY <2>2, <2>3
<1>4. timers' \subseteq FlowObjects
  BY DEF Leave, TypeOK
<1> QED
  BY <1>2, <1>3, <1>4 DEF Leave, TypeOK

LEMMA ExpireType ==
  ASSUME TypeOK, NEW t \in TimerEvents, NEW rest \in Seq(Items), Expire(t, rest),
         leaked' \in [FlowObjects -> Nat]
  PROVE  TypeOK'
<1>1. t \in FlowObjects
  BY DEF TimerEvents, OfKind
<1>2. Item("timerHandled", t) \in Items /\ Item("put", t) \in Items
  BY <1>1, ItemType DEF ContinuationOps, CallOps
<1>3. timers' \subseteq FlowObjects
  BY DEF Expire, TypeOK
<1>4. CASE t \in BoundaryEvents
  <2>1. agenda' \in Seq(Items)
    <3>1. <<Item("put", t)>> \in Seq(Items)
      BY <1>2
    <3> QED
      BY <3>1, <1>4 DEF Expire
  <2> QED
    BY <1>3, <1>4, <2>1 DEF Expire, TypeOK
<1>5. CASE t \notin BoundaryEvents
  <2>1. agenda' \in Seq(Items) /\ pending' \in [Late -> Nat]
    BY <1>2, <1>5, CallHandlerType DEF Expire
  <2>2. tokens' \in [FlowObjects -> Nat]
    BY <1>1, <1>5, TokenTypes DEF Expire
  <2> QED
    BY <1>3, <2>1, <2>2 DEF Expire, TypeOK
<1> QED
  BY <1>4, <1>5

LEMMA EmitDeferredEventsType ==
  ASSUME TypeOK, EmitDeferredEvents
  PROVE  /\ agenda' \in Seq(Items)
         /\ deferred' \in [Processes -> Seq(Events)]
         /\ deferEvents' \in BOOLEAN
<1>1. deferred[Main] \in Seq(Events)
  BY DefinitionAssumption DEF TypeOK
<1>2. agenda' \in Seq(Items)
  BY <1>1, EventsAreItems DEF EmitDeferredEvents
<1>3. deferred' \in [Processes -> Seq(Events)]
  <2>1. << >> \in Seq(Events)
    OBVIOUS
  <2> QED
    BY <2>1 DEF TypeOK, EmitDeferredEvents
<1> QED
  BY <1>2, <1>3 DEF EmitDeferredEvents

LEMMA ClientCallsType ==
  ASSUME TypeOK, NEW o \in FlowObjects, NEW expected, ClientCalls(o, expected),
         agenda' \in Seq(Items), deferred' \in [Processes -> Seq(Events)]
  PROVE  TypeOK'
<1>1. calls' \in [FlowObjects -> Nat]
  BY DEF TypeOK, ClientCalls
<1> QED
  BY <1>1 DEF TypeOK, ClientCalls

(****************************************************************************)
(* Every step keeps the types.                                              *)
(****************************************************************************)

LEMMA TokenStepType == TypeOK /\ TokenStep => TypeOK'
<1> SUFFICES ASSUME TypeOK, TokenStep PROVE TypeOK'
  OBVIOUS
<1>1. CASE PutToken
  <2>1. agenda # << >> /\ Current \in FlowObjects /\ Tail(agenda) \in Seq(Items)
    BY <1>1, RunningType DEF PutToken
  <2>2. agenda' \in Seq(Items) /\ pending' \in [Late -> Nat]
    BY <1>1, <2>1, ItemType, CallHandlerType DEF PutToken, ContinuationOps
  <2>3. tokens' \in [FlowObjects -> Nat] /\ visited' \subseteq FlowObjects
    BY <1>1, <2>1, TokenTypes DEF PutToken, TypeOK
  <2> QED
    BY <1>1, <2>2, <2>3 DEF PutToken, TypeOK
<1>2. CASE AnnounceToken
  <2>1. Current \in FlowObjects /\ Tail(agenda) \in Seq(Items)
    BY <1>2, RunningType DEF AnnounceToken
  <2>2. agenda' \in Seq(Items) /\ deferred' \in [Processes -> Seq(Events)]
    BY <1>2, <2>1, ItemType, EmitEventType DEF AnnounceToken, EventOps
  <2> QED
    BY <1>2, <2>2 DEF AnnounceToken, TypeOK
<1>3. CASE ArriveAtCatchEvent
  <2>1. agenda # << >> /\ Current \in FlowObjects
    BY <1>3, RunningType DEF ArriveAtCatchEvent
  <2>2. Item("arm", Current) \in Items /\ Item("persist", Current) \in Items
    BY <2>1, ItemType DEF CallOps
  <2>3. agenda' \in Seq(Items)
    BY <1>3, <2>1, <2>2, ProceedFew DEF ArriveAtCatchEvent
  <2> QED
    BY <1>3, <2>3 DEF ArriveAtCatchEvent, TypeOK
<1>4. CASE ArriveAtFlowObject
  <2>1. Current \in FlowObjects /\ Tail(agenda) \in Seq(Items)
    BY <1>4, RunningType DEF ArriveAtFlowObject
  <2>2. agenda' \in Seq(Items) /\ pending' \in [Late -> Nat]
    BY <1>4, <2>1, ItemType, CallHandlerType DEF ArriveAtFlowObject, ContinuationOps
  <2> QED
    BY <1>4, <2>2 DEF ArriveAtFlowObject, TypeOK
<1>5. CASE WaitTaskHandled
  <2>1. agenda # << >> /\ Current \in FlowObjects
    BY <1>5, RunningType DEF WaitTaskHandled
  <2>2. Arms(Current) \in Seq(Items) /\ <<Item("persist", Current)>> \in Seq(Items)
    BY <2>1, PutsAndArms, ItemType DEF CallOps
  <2>3. Arms(Current) \o <<Item("persist", Current)>> \in Seq(Items)
    BY <2>2
  <2>4. agenda' \in Seq(Items)
    BY <1>5, <2>1, <2>3, ProceedType DEF WaitTaskHandled
  <2> QED
    BY <1>5, <2>4 DEF WaitTaskHandled, TypeOK
<1>6. CASE FlowObjectHandled
  BY <1>6, RunningType, LeaveType DEF FlowObjectHandled
<1>7. CASE JoinCompletes
  <2>1. Current \in FlowObjects /\ Tail(agenda) \in Seq(Items)
    BY <1>7, RunningType DEF JoinCompletes
  <2>2. agenda' \in Seq(Items) /\ pending' \in [Late -> Nat]
    BY <1>7, <2>1, ItemType, CallHandlerType DEF JoinCompletes, ContinuationOps
  <2>3. tokens' \in [FlowObjects -> Nat]
    BY <1>7, <2>1, TokenTypes DEF JoinCompletes
  <2> QED
    BY <1>7, <2>2, <2>3 DEF JoinCompletes, TypeOK
<1>8. CASE JoinWaits
  <2>1. agenda # << >> /\ Current \in FlowObjects
    BY <1>8, RunningType DEF JoinWaits
  <2>2. Item("persist", Current) \in Items
    BY <2>1, ItemType DEF CallOps
  <2>3. agenda' \in Seq(Items)
    BY <1>8, <2>1, <2>2, ProceedFew DEF JoinWaits
  <2>4. tokens' \in [FlowObjects -> Nat]
    BY <1>8, <2>1, TokenTypes DEF JoinWaits
  <2> QED
    BY <1>8, <2>3, <2>4 DEF JoinWaits, TypeOK
<1>9. CASE EmitAlongAll
  <2>1. agenda' \in Seq(Items)
    BY <1>9, RunningType, PutsAndArms, ProceedType DEF EmitAlongAll
  <2> QED
    BY <1>9, <2>1 DEF EmitAlongAll, TypeOK
<1>10. CASE EmitAlongOne
  <2>1. agenda # << >> /\ Current \in FlowObjects
    BY <1>10, RunningType DEF EmitAlongOne
  <2>2. \A i \in DOMAIN Outgoing[Current] : Puts(Current)[i] \in Items
    <3>1. DOMAIN Puts(Current) = DOMAIN Outgoing[Current]
      BY DEF Puts
    <3>2. Puts(Current) \in Seq(Items)
      BY <2>1, PutsAndArms
    <3> QED
      BY <3>1, <3>2
  <2>3. ASSUME NEW i \in DOMAIN Outgoing[Current], Proceed(<<Puts(Current)[i]>>)
        PROVE  agenda' \in Seq(Items)
    BY <2>1, <2>2, <2>3, ProceedFew
  <2>4. ASSUME Proceed(<< >>) PROVE agenda' \in Seq(Items)
    BY <2>1, <2>4, ItemType, ProceedFew DEF CallOps
  <2>5. agenda' \in Seq(Items)
    BY <1>10, <2>3, <2>4 DEF EmitAlongOne
  <2> QED
    BY <1>10, <2>5 DEF EmitAlongOne, TypeOK
<1>11. CASE Fork
  <2>1. agenda # << >> /\ Current \in FlowObjects
    BY <1>11, RunningType DEF Fork
  <2>2. agenda' \in Seq(Items)
    BY <1>11, <2>1, PutsAndArms, ProceedType DEF Fork
  <2>3. tokens' \in [FlowObjects -> Nat]
    BY <1>11 DEF Fork, TypeOK
  <2> QED
    BY <1>11, <2>2, <2>3 DEF Fork, TypeOK
<1>12. CASE EndMainProcess
  <2>1. agenda # << >> /\ Item("persistAndClose", Current) \in Items
    BY <1>12, RunningType, ItemType DEF EndMainProcess, CallOps
  <2>2. agenda' \in Seq(Items)
    BY <1>12, <2>1, ProceedFew DEF EndMainProcess
  <2> QED
    BY <1>12, <2>2 DEF EndMainProcess, TypeOK
<1>13. CASE EndCalledProcess
  <2>1. Current \in FlowObjects /\ Tail(agenda) \in Seq(Items)
    BY <1>13, RunningType DEF EndCalledProcess
  <2>2. CallOf[ProcessOf[Current]] \in FlowObjects
    BY <1>13, <2>1, DefinitionAssumption DEF EndCalledProcess, OfKind
  <2>3. agenda' \in Seq(Items) /\ deferred' \in [Processes -> Seq(Events)]
    BY <1>13, <2>1, <2>2, ItemType, EmitEventType DEF EndCalledProcess, EventOps
  <2> QED
    BY <1>13, <2>3 DEF EndCalledProcess, TypeOK
<1>14. CASE EnterCall
  <2>1. Current \in FlowObjects /\ Tail(agenda) \in Seq(Items)
    BY <1>14, RunningType DEF EnterCall
  <2>2. agenda' \in Seq(Items)
    BY <1>14, <2>1, ItemType DEF EnterCall, CallOps
  <2>3. tokens' \in [FlowObjects -> Nat] /\ called' \subseteq Processes
    BY <1>14, <2>1, TokenTypes DEF EnterCall, TypeOK
  <2> QED
    BY <1>14, <2>2, <2>3 DEF EnterCall, TypeOK
<1>15. CASE StartCalledProcess
  <2>1. PICK p \in called : Proceed(<<Item("put", StartOf[p])>>)
    BY <1>15 DEF StartCalledProcess
  <2>2. StartOf[p] \in FlowObjects
    BY DefinitionAssumption DEF TypeOK, OfKind
  <2>3. agenda' \in Seq(Items)
    BY <1>15, <2>1, <2>2, RunningType, ItemType, ProceedType DEF StartCalledProcess, CallOps
  <2> QED
    BY <1>15, <2>3 DEF StartCalledProcess, TypeOK
<1> QED
  BY <1>1, <1>2, <1>3, <1>4, <1>5, <1>6, <1>7, <1>8, <1>9, <1>10, <1>11, <1>12, <1>13,
     <1>14, <1>15 DEF TokenStep

LEMMA EventStepType == TypeOK /\ EventStep => TypeOK'
<1> SUFFICES ASSUME TypeOK, EventStep PROVE TypeOK'
  OBVIOUS
<1>1. CASE ActivityEnds
  <2>1. Current \in FlowObjects /\ Tail(agenda) \in Seq(Items)
    BY <1>1, RunningType DEF ActivityEnds
  <2>2. agenda' \in Seq(Items) /\ pending' \in [Late -> Nat]
    BY <1>1, <2>1, ItemType, CallHandlerType DEF ActivityEnds, ContinuationOps
  <2> QED
    BY <1>1, <2>2 DEF ActivityEnds, TypeOK
<1>2. CASE ActivityLeft
  BY <1>2, RunningType, LeaveType DEF ActivityLeft
<1>3. CASE EmitCatchEvent
  <2>1. Current \in FlowObjects /\ Tail(agenda) \in Seq(Items)
    BY <1>3, RunningType DEF EmitCatchEvent
  <2>2. agenda' \in Seq(Items) /\ deferred' \in [Processes -> Seq(Events)]
    BY <1>3, <2>1, ItemType, EmitEventType DEF EmitCatchEvent, EventOps
  <2> QED
    BY <1>3, <2>2 DEF EmitCatchEvent, TypeOK
<1>4. CASE CatchEvent
  <2>1. Current \in FlowObjects /\ Tail(agenda) \in Seq(Items)
    BY <1>4, RunningType DEF CatchEvent
  <2>2. agenda' \in Seq(Items) /\ pending' \in [Late -> Nat]
    BY <1>4, <2>1, ItemType, CallHandlerType DEF CatchEvent, ContinuationOps
  <2> QED
    BY <1>4, <2>2 DEF CatchEvent, TypeOK
<1>5. CASE EventCaught
  BY <1>5, RunningType, LeaveType DEF EventCaught
<1>6. CASE CatchBoundaryEvent
  <2>1. agenda # << >> /\ Current \in FlowObjects
    BY <1>6, RunningType DEF CatchBoundaryEvent
  <2>2. Item("put", Current) \in Items
    BY <2>1, ItemType DEF CallOps
  <2>3. agenda' \in Seq(Items)
    BY <1>6, <2>1, <2>2, ProceedFew DEF CatchBoundaryEvent
  <2>4. tokens' \in [FlowObjects -> Nat]
    <3> DEFINE h == Host(Current)
    <3>1. tokens \in [FlowObjects -> Nat]
      BY DEF TypeOK
    <3>2. h \in FlowObjects => (IF tokens[h] > 0 THEN tokens[h] - 1 ELSE 0) \in Nat
      BY <3>1
    <3>3. tokens' = [tokens EXCEPT ![h] = IF tokens[h] > 0 THEN tokens[h] - 1 ELSE 0]
      BY <1>6 DEF CatchBoundaryEvent, Remove
    <3> HIDE DEF h
    <3> QED
      BY <3>1, <3>2, <3>3, ExceptType
  <2> QED
    BY <1>6, <2>3, <2>4 DEF CatchBoundaryEvent, TypeOK
<1>7. CASE UnhandledEvent
  <2>1. agenda # << >> /\ Head(agenda) \in Items
    BY <1>7, HeadType DEF UnhandledEvent, Running
  <2>2. agenda' \in Seq(Items)
    BY <1>7, <2>1, ProceedFew DEF UnhandledEvent
  <2> QED
    BY <1>7, <2>2 DEF UnhandledEvent, TypeOK
<1> QED
  BY <1>1, <1>2, <1>3, <1>4, <1>5, <1>6, <1>7 DEF EventStep

LEMMA TimerStepType == TypeOK /\ TimerStep => TypeOK'
<1> SUFFICES ASSUME TypeOK, TimerStep PROVE TypeOK'
  OBVIOUS
<1>1. CASE ArmTimer
  <2>1. agenda # << >> /\ Current \in FlowObjects /\ Head(agenda) \in Items
    BY <1>1, RunningType, HeadType DEF ArmTimer
  <2>2. agenda' \in Seq(Items)
    BY <1>1, <2>1, ProceedFew DEF ArmTimer
  <2>3. timers' \subseteq FlowObjects /\ leaked' \in [FlowObjects -> Nat]
    BY <1>1, <2>1 DEF ArmTimer, TypeOK
  <2> QED
    BY <1>1, <2>2, <2>3 DEF ArmTimer, TypeOK
<1>2. CASE ArmExpiredTimer
  <2>1. Current \in TimerEvents /\ Tail(agenda) \in Seq(Items)
    BY <1>2, RunningType, EnvironmentAssumption DEF ArmExpiredTimer
  <2>2. leaked' \in [FlowObjects -> Nat]
    BY <1>2 DEF ArmExpiredTimer, TypeOK
  <2> QED
    BY <1>2, <2>1, <2>2, ExpireType DEF ArmExpiredTimer
<1>3. CASE TimerHandled
  <2>1. Current \in FlowObjects /\ Tail(agenda) \in Seq(Items)
    BY <1>3, RunningType DEF TimerHandled
  <2>2. agenda' \in Seq(Items) /\ pending' \in [Late -> Nat]
    BY <1>3, <2>1, ItemType, CallHandlerType DEF TimerHandled, ContinuationOps
  <2> QED
    BY <1>3, <2>2 DEF TimerHandled, TypeOK
<1> QED
  BY <1>1, <1>2, <1>3 DEF TimerStep

LEMMA PersistType == TypeOK /\ Persist => TypeOK'
<1> SUFFICES ASSUME TypeOK, Persist PROVE TypeOK'
  OBVIOUS
<1>1. agenda # << >> /\ Head(agenda) \in Items
  BY HeadType DEF Persist, Running
<1>2. agenda' \in Seq(Items)
  BY <1>1, ProceedFew DEF Persist
<1>3. io' \in [IoOps -> Nat]
  BY DEF Persist, TypeOK, IoOps
<1> QED
  BY <1>2, <1>3 DEF Persist, TypeOK

LEMMA TimerEventType == TypeOK /\ TimerEvent => TypeOK'
<1> SUFFICES ASSUME TypeOK, NEW t \in TimerEvents, TimerFires(t) \/ LeakedTimerFires(t)
             PROVE  TypeOK'
  BY DEF TimerEvent
<1>1. << >> \in Seq(Items)
  OBVIOUS
<1>2. leaked' \in [FlowObjects -> Nat]
  <2>1. t \in FlowObjects /\ leaked \in [FlowObjects -> Nat]
    BY DEF TypeOK, TimerEvents, OfKind
  <2>2. CASE TimerFires(t)
    BY <2>1, <2>2 DEF TimerFires
  <2>3. CASE LeakedTimerFires(t)
    BY <2>1, <2>3 DEF LeakedTimerFires
  <2> QED
    BY <2>2, <2>3
<1> QED
  BY <1>1, <1>2, ExpireType DEF TimerFires, LeakedTimerFires

LEMMA IoEventType == TypeOK /\ IoEvent => TypeOK'
<1> SUFFICES ASSUME TypeOK, IoEvent PROVE TypeOK'
  OBVIOUS
<1>1. io' \in [IoOps -> Nat]
  <2>1. io \in [IoOps -> Nat]
    BY DEF TypeOK
  <2>2. CASE SaveDone \/ ConnectionClosed
    BY <2>1, <2>2 DEF SaveDone, ConnectionClosed, IoOps
  <2>3. CASE FinalSaveDone
    BY <2>1, <2>3 DEF FinalSaveDone, IoOps
  <2>4. CASE SaveFails
    BY <2>1, <2>4 DEF SaveFails, IoOps
  <2> QED
    BY <2>2, <2>3, <2>4 DEF IoEvent
<1>2. CASE SaveDone
  BY <1>1, <1>2, EmitDeferredEventsType DEF SaveDone, TypeOK
<1>3. CASE FinalSaveDone
  BY <1>1, <1>3 DEF FinalSaveDone, TypeOK
<1>4. CASE SaveFails
  BY <1>1, <1>4 DEF SaveFails, TypeOK
<1>5. CASE ConnectionClosed
  BY <1>1, <1>5, EmitDeferredEventsType DEF ConnectionClosed, TypeOK
<1> QED
  BY <1>2, <1>3, <1>4, <1>5 DEF IoEvent

LEMMA ClientStepType == TypeOK /\ ClientStep => TypeOK'
<1> SUFFICES ASSUME TypeOK, ClientStep PROVE TypeOK'
  OBVIOUS
<1>1. << >> \in Seq(Items)
  OBVIOUS
<1>2. CASE TriggerStart
  <2>1. StartOf[Main] \in FlowObjects
    BY DefinitionAssumption DEF OfKind
  <2>2. Item("put", StartOf[Main]) \in Items
    BY <2>1, ItemType DEF CallOps
  <2>3. agenda' \in Seq(Items) /\ deferred' \in [Processes -> Seq(Events)]
    BY <1>2, <2>2 DEF TriggerStart, TypeOK
  <2> QED
    BY <1>2, <2>1, <2>3, ClientCallsType DEF TriggerStart
<1>3. ASSUME NEW o \in FlowObjects, TaskDone(o) PROVE TypeOK'
  <2>1. agenda' \in Seq(Items) /\ deferred' \in [Processes -> Seq(Events)]
    BY <1>1, <1>3, ItemType, EmitEventType DEF TaskDone, EventOps
  <2> QED
    BY <1>3, <2>1, ClientCallsType DEF TaskDone
<1>4. ASSUME NEW o \in FlowObjects, TriggerCatchEvent(o) PROVE TypeOK'
  <2>1. Item("emitCatch", o) \in Items
    BY ItemType DEF CallOps
  <2>2. agenda' \in Seq(Items) /\ deferred' \in [Processes -> Seq(Events)]
    BY <1>4, <2>1 DEF TriggerCatchEvent, TypeOK
  <2> QED
    BY <1>4, <2>2, ClientCallsType DEF TriggerCatchEvent
<1>5. ASSUME NEW b \in FlowObjects, TriggerBoundaryEvent(b) PROVE TypeOK'
  <2>1. agenda' \in Seq(Items) /\ deferred' \in [Processes -> Seq(Events)]
    BY <1>1, <1>5, ItemType, EmitEventType DEF TriggerBoundaryEvent, EventOps
  <2> QED
    BY <1>5, <2>1, ClientCallsType DEF TriggerBoundaryEvent
<1> QED
  BY <1>2, <1>3, <1>4, <1>5 DEF ClientStep

LEMMA HandlerAnswersType ==
  ASSUME TypeOK, NEW c \in Late, HandlerAnswers(c)
  PROVE  TypeOK'
<1>1. c \in Items
  BY EnvironmentAssumption DEF Continuations, Items
<1>2. agenda' \in Seq(Items)
  BY <1>1 DEF HandlerAnswers
<1>3. pending' \in [Late -> Nat]
  BY DEF HandlerAnswers, TypeOK
<1> QED
  BY <1>2, <1>3 DEF HandlerAnswers, TypeOK

LEMMA NextType == TypeOK /\ [Next]_vars => TypeOK'
<1> SUFFICES ASSUME TypeOK, [Next]_vars PROVE TypeOK'
  OBVIOUS
<1>1. CASE RunStep
  BY <1>1, TokenStepType, EventStepType, TimerStepType, PersistType DEF RunStep
<1>2. CASE \E c \in Late : HandlerAnswers(c)
  BY <1>2, HandlerAnswersType
<1>3. CASE Idle \/ UNCHANGED vars
  BY <1>3 DEF Idle, vars, TypeOK
<1> QED
  BY <1>1, <1>2, <1>3, TimerEventType, IoEventType, ClientStepType DEF Next

\* The state has its types in every run of the engine, whatever the definition, the
\* handlers, the client and the persistency layer: numbers of tokens, of pending answers
\* and of saves in flight never drop below zero, and the flag's queues hold events only.
THEOREM TypeCorrectness == Spec => []TypeOK
<1>1. Init => TypeOK
  <2> SUFFICES ASSUME Init PROVE TypeOK
    OBVIOUS
  <2>1. << >> \in Seq(Items) /\ << >> \in Seq(Events)
    OBVIOUS
  <2> QED
    BY <2>1 DEF Init, TypeOK
<1> QED
  BY <1>1, NextType, PTL DEF Spec

(****************************************************************************)
(* NoEventStranded.  It is not inductive: it says nothing of the flag while *)
(* the main process keeps no event, and the next event to be kept needs a   *)
(* save in flight from the start.  The flag has to imply one.               *)
(****************************************************************************)

\* The flag is up while the main process keeps events, and a persistency layer that
\* answers leaves it up only while a save is in flight.
FlagInv ==
  /\ deferred[Main] # << >> => deferEvents
  /\ ~SavesMayFail /\ CloseAnswers /\ deferEvents => SavesInFlight > 0

LEMMA FlagInvImplies == FlagInv => NoEventStranded
  BY DEF FlagInv, NoEventStranded

\* A step that leaves the flag, the queues and the calls in flight alone keeps FlagInv.
LEMMA FlagUntouched ==
  ASSUME FlagInv, UNCHANGED <<deferEvents, deferred, io>>
  PROVE  FlagInv'
  BY DEF FlagInv, SavesInFlight

\* _emitEvent keeps an event only while the flag is up.
LEMMA EmitEventFlag ==
  ASSUME TypeOK, FlagInv, NEW e, NEW rest, EmitEvent(e, rest), UNCHANGED <<deferEvents, io>>
  PROVE  FlagInv'
<1>1. CASE deferEvents
  BY <1>1 DEF FlagInv, SavesInFlight
<1>2. CASE ~deferEvents
  BY <1>2 DEF EmitEvent, FlagInv, SavesInFlight
<1> QED
  BY <1>1, <1>2

\* _emitDeferredEvents resets the flag and empties the queue of the main process.
LEMMA EmitDeferredEventsFlag ==
  ASSUME TypeOK, EmitDeferredEvents
  PROVE  FlagInv'
<1>1. deferred'[Main] = << >> /\ deferEvents' = FALSE
  BY DefinitionAssumption DEF TypeOK, EmitDeferredEvents
<1> QED
  BY <1>1 DEF FlagInv

LEMMA FlagStep == TypeOK /\ FlagInv /\ [Next]_vars => FlagInv'
<1> SUFFICES ASSUME TypeOK, FlagInv, [Next]_vars PROVE FlagInv'
  OBVIOUS
<1>1. CASE TokenStep
  <2>1. CASE AnnounceToken \/ EndCalledProcess
    BY <2>1, EmitEventFlag DEF AnnounceToken, EndCalledProcess
  <2>2. CASE PutToken \/ ArriveAtCatchEvent \/ ArriveAtFlowObject \/ WaitTaskHandled
    BY <2>2, FlagUntouched
       DEF PutToken, ArriveAtCatchEvent, ArriveAtFlowObject, WaitTaskHandled
  <2>3. CASE FlowObjectHandled \/ JoinCompletes \/ JoinWaits
    BY <2>3, FlagUntouched DEF FlowObjectHandled, Leave, JoinCompletes, JoinWaits
  <2>4. CASE EmitAlongAll \/ EmitAlongOne \/ Fork \/ EndMainProcess
    BY <2>4, FlagUntouched DEF EmitAlongAll, EmitAlongOne, Fork, EndMainProcess
  <2>5. CASE EnterCall \/ StartCalledProcess
    BY <2>5, FlagUntouched DEF EnterCall, StartCalledProcess
  <2> QED
    BY <1>1, <2>1, <2>2, <2>3, <2>4, <2>5 DEF TokenStep
<1>2. CASE EventStep
  <2>1. CASE EmitCatchEvent
    BY <2>1, EmitEventFlag DEF EmitCatchEvent
  <2>2. CASE ActivityEnds \/ ActivityLeft \/ CatchEvent \/ EventCaught
    BY <2>2, FlagUntouched DEF ActivityEnds, ActivityLeft, CatchEvent, EventCaught, Leave
  <2>3. CASE CatchBoundaryEvent \/ UnhandledEvent
    BY <2>3, FlagUntouched DEF CatchBoundaryEvent, UnhandledEvent
  <2> QED
    BY <1>2, <2>1, <2>2, <2>3 DEF EventStep
<1>3. CASE TimerStep \/ TimerEvent
  BY <1>3, FlagUntouched DEF TimerStep, TimerEvent, ArmTimer, ArmExpiredTimer, TimerHandled,
     TimerFires, LeakedTimerFires, Expire
<1>4. CASE Persist
  <2>1. SavesInFlight' > 0
    BY <1>4 DEF Persist, TypeOK, IoOps, SavesInFlight
  <2> QED
    BY <1>4, <2>1 DEF Persist, FlagInv
<1>5. CASE IoEvent
  <2>1. CASE SaveDone \/ ConnectionClosed
    BY <2>1, EmitDeferredEventsFlag DEF SaveDone, ConnectionClosed
  <2>2. CASE FinalSaveDone
    <3>1. SavesInFlight' > 0
      <4>1. io \in [{"save", "saveAndClose", "close"} -> Nat]
        BY DEF TypeOK, IoOps
      <4>2. /\ io'["save"] = io["save"]
            /\ io'["saveAndClose"] = io["saveAndClose"] - 1
            /\ io'["close"] = io["close"] + 1
            /\ io["saveAndClose"] > 0
        BY <2>2, <4>1 DEF FinalSaveDone
      <4> QED
        BY <4>1, <4>2 DEF SavesInFlight
    <3> QED
      BY <2>2, <3>1 DEF FinalSaveDone, FlagInv
  <2>3. CASE SaveFails
    BY <2>3 DEF SaveFails, FlagInv
  <2> QED
    BY <1>5, <2>1, <2>2, <2>3 DEF IoEvent
<1>6. CASE ClientStep
  <2>1. CASE TriggerStart
    BY <2>1, FlagUntouched DEF TriggerStart, ClientCalls
  <2>2. ASSUME NEW o \in FlowObjects, TaskDone(o) \/ TriggerBoundaryEvent(o)
        PROVE  FlagInv'
    BY <2>2, EmitEventFlag DEF TaskDone, TriggerBoundaryEvent, ClientCalls
  <2>3. ASSUME NEW o \in FlowObjects, TriggerCatchEvent(o) PROVE FlagInv'
    BY <2>3, FlagUntouched DEF TriggerCatchEvent, ClientCalls
  <2> QED
    BY <1>6, <2>1, <2>2, <2>3 DEF ClientStep
<1>7. CASE \E c \in Late : HandlerAnswers(c)
  BY <1>7, FlagUntouched DEF HandlerAnswers
<1>8. CASE Idle \/ UNCHANGED vars
  BY <1>8, FlagUntouched DEF Idle, vars
<1> QED
  BY <1>1, <1>2, <1>3, <1>4, <1>5, <1>6, <1>7, <1>8 DEF Next, RunStep

\* An event that the main process keeps back is never left to itself, for every
\* definition, every client, and every order in which saves answer, overlapping ones
\* included: the flag is up, and if the persistency layer answers without errors, a
\* call of it is in flight whose answer emits the event.
THEOREM EventsAreNotStranded == Spec => []NoEventStranded
<1>1. Init => FlagInv
  BY DefinitionAssumption DEF Init, FlagInv
<1>2. Spec => []FlagInv
  BY <1>1, FlagStep, TypeCorrectness, PTL DEF Spec
<1> QED
  BY <1>2, FlagInvImplies, PTL
===============================================================================
