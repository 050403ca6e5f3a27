------------------------ MODULE TokenAccounting_proofs ------------------------
(****************************************************************************)
(* TokensHaveWork for every process definition and every environment: the   *)
(* engine neither loses nor doubles the token of an automatic object.       *)
(****************************************************************************)
EXTENDS ProcessEngine_proofs, FiniteSetTheorems, SequenceTheorems

(****************************************************************************)
(* Counting an entry in a sequence.                                         *)
(****************************************************************************)

Places(s, e) == {i \in DOMAIN s : s[i] = e}

\* The number of occurrences is a number.
LEMMA OccurrencesType ==
  ASSUME NEW S, NEW s \in Seq(S), NEW e
  PROVE  IsFiniteSet(Places(s, e)) /\ Occurrences(s, e) \in Nat
<1>1. DOMAIN s = 1 .. Len(s) /\ Len(s) \in Nat
  OBVIOUS
<1>2. IsFiniteSet(1 .. Len(s))
  BY <1>1, FS_Interval
<1>3. Places(s, e) \subseteq 1 .. Len(s)
  BY <1>1 DEF Places
<1>4. IsFiniteSet(Places(s, e))
  BY <1>2, <1>3, FS_Subset
<1>5. Occurrences(s, e) = Cardinality(Places(s, e))
  BY DEF Occurrences, Places
<1> QED
  BY <1>4, <1>5, FS_CardinalityType

\* What does not occur is counted as zero.
LEMMA NoOccurrence ==
  ASSUME NEW S, NEW s \in Seq(S), NEW e, \A i \in DOMAIN s : s[i] # e
  PROVE  Occurrences(s, e) = 0
<1>1. {i \in DOMAIN s : s[i] = e} = {}
  OBVIOUS
<1> QED
  BY <1>1, FS_EmptySet DEF Occurrences

\* The occurrences in two sequences, one behind the other, add up.
LEMMA OccurrencesConcat ==
  ASSUME NEW S, NEW s \in Seq(S), NEW t \in Seq(S), NEW e
  PROVE  Occurrences(s \o t, e) = Occurrences(s, e) + Occurrences(t, e)
<1> DEFINE A == Places(s, e)
           B == Places(t, e)
           C == {i \in DOMAIN (s \o t) : i > Len(s) /\ (s \o t)[i] = e}
<1>1. IsFiniteSet(A) /\ IsFiniteSet(B)
  BY OccurrencesType
<1>2. /\ Len(s) \in Nat /\ DOMAIN s = 1 .. Len(s)
      /\ Len(t) \in Nat /\ DOMAIN t = 1 .. Len(t)
      /\ s \o t \in Seq(S) /\ DOMAIN (s \o t) = 1 .. (Len(s) + Len(t))
  OBVIOUS
<1>3. \A i \in 1 .. (Len(s) + Len(t)) :
        (s \o t)[i] = IF i <= Len(s) THEN s[i] ELSE t[i - Len(s)]
  OBVIOUS
<1>4. IsFiniteSet(C) /\ Cardinality(C) = Cardinality(B)
  <2> DEFINE f == [i \in B |-> i + Len(s)]
  <2>1. \A i \in B : f[i] \in C
    BY <1>2, <1>3 DEF Places
  <2>2. \A i, j \in B : f[i] = f[j] => i = j
    BY <1>2 DEF Places
  <2>3. \A k \in C : \E i \in B : f[i] = k
    <3> TAKE k \in C
    <3>1. k - Len(s) \in B
      BY <1>2, <1>3 DEF Places
    <3>2. f[k - Len(s)] = k
      BY <1>2, <3>1
    <3> QED
      BY <3>1, <3>2
  <2>4. f \in Bijection(B, C)
    BY <2>1, <2>2, <2>3 DEF Bijection, Injection, Surjection, IsInjective
  <2> QED
    BY <1>1, <2>4, FS_Bijection DEF ExistsBijection
<1>5. Places(s \o t, e) = A \cup C
  BY <1>2, <1>3 DEF Places
<1>6. A \cap C = {}
  BY <1>2 DEF Places
<1>7. Cardinality(A \cup C) = Cardinality(A) + Cardinality(C)
  <2> HIDE DEF A, C
  <2>1. Cardinality(A \cap C) = 0
    BY <1>6, FS_EmptySet
  <2>2. Cardinality(A \cup C) = Cardinality(A) + Cardinality(C) - Cardinality(A \cap C)
    BY <1>1, <1>4, FS_Union
  <2>3. Cardinality(A) \in Nat /\ Cardinality(C) \in Nat
    BY <1>1, <1>4, FS_CardinalityType
  <2> QED
    BY <2>1, <2>2, <2>3
<1> QED
  BY <1>4, <1>5, <1>7 DEF Occurrences, Places

\* One for an entry that is looked for, none for another.
One(x, e) == IF x = e THEN 1 ELSE 0

LEMMA OccurrencesFew ==
  ASSUME NEW x, NEW e
  PROVE  Occurrences(<<x>>, e) = One(x, e) /\ Occurrences(<< >>, e) = 0
<1>1. Occurrences(<< >>, e) = 0
  <2>1. {i \in DOMAIN << >> : << >>[i] = e} = {}
    OBVIOUS
  <2> QED
    BY <2>1, FS_EmptySet DEF Occurrences
<1>2. DOMAIN <<x>> = {1} /\ <<x>>[1] = x
  OBVIOUS
<1>3. CASE x = e
  <2>1. {i \in DOMAIN <<x>> : <<x>>[i] = e} = {1}
    BY <1>2, <1>3
  <2> QED
    BY <1>1, <1>3, <2>1, FS_Singleton DEF Occurrences, One
<1>4. CASE x # e
  <2>1. {i \in DOMAIN <<x>> : <<x>>[i] = e} = {}
    BY <1>2, <1>4
  <2> QED
    BY <1>1, <1>4, <2>1, FS_EmptySet DEF Occurrences, One
<1> QED
  BY <1>3, <1>4

\* One entry more at the front, and one entry more at the end.
LEMMA OccurrencesCons ==
  ASSUME NEW S, NEW x \in S, NEW s \in Seq(S), NEW e
  PROVE  /\ Occurrences(<<x>> \o s, e) = One(x, e) + Occurrences(s, e)
         /\ Occurrences(s \o <<x>>, e) = Occurrences(s, e) + One(x, e)
<1>1. Occurrences(<<x>>, e) = One(x, e)
  BY OccurrencesFew
<1>2. <<x>> \in Seq(S)
  OBVIOUS
<1>3. /\ Occurrences(<<x>> \o s, e) = Occurrences(<<x>>, e) + Occurrences(s, e)
      /\ Occurrences(s \o <<x>>, e) = Occurrences(s, e) + Occurrences(<<x>>, e)
  BY <1>2, OccurrencesConcat, Zenon
<1> QED
  BY <1>1, <1>3, Zenon

LEMMA OccurrencesAppend ==
  ASSUME NEW S, NEW x \in S, NEW s \in Seq(S), NEW e
  PROVE  Occurrences(Append(s, x), e) = Occurrences(s, e) + One(x, e)
<1>1. Append(s, x) = s \o <<x>>
  BY AppendIsConcat
<1> QED
  BY <1>1, OccurrencesCons, Zenon

\* The entry at the head and those behind it.
LEMMA OccurrencesHead ==
  ASSUME NEW S, NEW s \in Seq(S), s # << >>, NEW e
  PROVE  Occurrences(s, e) = One(Head(s), e) + Occurrences(Tail(s), e)
<1>1. Head(s) \in S /\ Tail(s) \in Seq(S)
  BY HeadTailProperties
<1>2. s = <<Head(s)>> \o Tail(s)
  <2>1. s \in Seq(S) /\ Len(s) \in Nat /\ Len(s) > 0
    OBVIOUS
  <2>2. SubSeq(s, 1, Len(s)) = <<s[1]>> \o SubSeq(s, 2, Len(s))
    BY <2>1, SubSeqRecursiveFirst
  <2>3. SubSeq(s, 1, Len(s)) = s
    BY SubSeqFull
  <2>4. SubSeq(s, 2, Len(s)) = Tail(s)
    BY TailIsSubSeq
  <2>5. s[1] = Head(s)
    BY <2>1
  <2> QED
    BY <2>2, <2>3, <2>4, <2>5, Zenon
<1>3. \A h \in S, t \in Seq(S) :
        Occurrences(<<h>> \o t, e) = One(h, e) + Occurrences(t, e)
  <2> TAKE h \in S, t \in Seq(S)
  <2> QED
    BY OccurrencesCons
<1> QED
  BY <1>1, <1>2, <1>3, Zenon
(****************************************************************************)
(* The accounts: what every step takes from the entries outstanding and     *)
(* what it adds to them.                                                    *)
(****************************************************************************)

\* How often an entry is outstanding: about to run, with a handler, or kept back.
Outstanding(e) == OnAgenda(e) + Held(e) + Deferred(Receiver(e), e)

\* The step takes the head of the agenda, if there is one, and adds the entries `new'.
Taken(e)   == IF agenda = << >> THEN 0 ELSE One(Head(agenda), e)
Moves(new) ==
  \A e \in Items : Outstanding(e)' + Taken(e) = Outstanding(e) + Occurrences(new, e)

\* What is left on the agenda when its head is taken.
Rest == IF agenda = << >> THEN << >> ELSE Tail(agenda)

LEMMA ReceiverType ==
  ASSUME NEW e \in Items
  PROVE  Receiver(e) \in Processes /\ Receiver(e)' = Receiver(e)
  BY DefinitionAssumption DEF Items, Receiver

LEMMA RestType ==
  ASSUME TypeOK
  PROVE  /\ Rest \in Seq(Items)
         /\ \A e : OnAgenda(e) = Occurrences(Rest, e) + Taken(e)
         /\ \A e : Occurrences(Rest, e) \in Nat /\ Taken(e) \in Nat
<1>1. agenda \in Seq(Items)
  BY DEF TypeOK
<1>2. \A e : Taken(e) \in Nat
  BY DEF Taken, One
<1>3. CASE agenda = << >>
  <2>1. Rest \in Seq(Items) /\ \A e : Occurrences(Rest, e) = 0 /\ OnAgenda(e) = 0
    <3>1. Rest = agenda
      BY <1>3 DEF Rest
    <3>2. \A e : Occurrences(agenda, e) = 0
      BY <1>3, OccurrencesFew, Zenon
    <3> QED
      BY <1>1, <3>1, <3>2, Zenon DEF OnAgenda
  <2>2. \A e : Taken(e) = 0
    BY <1>3 DEF Taken
  <2> QED
    BY <2>1, <2>2
<1>4. CASE agenda # << >>
  <2>1. Rest = Tail(agenda) /\ Rest \in Seq(Items)
    BY <1>1, <1>4 DEF Rest
  <2>2. \A e : OnAgenda(e) = Taken(e) + Occurrences(Rest, e)
    BY <1>1, <1>4, <2>1, OccurrencesHead DEF OnAgenda, Taken
  <2>3. \A e : Occurrences(Rest, e) \in Nat
    BY <2>1, OccurrencesType
  <2> QED
    BY <1>2, <2>1, <2>2, <2>3
<1> QED
  BY <1>3, <1>4

\* Every part of an account is a number.
LEMMA AccountTypes ==
  ASSUME TypeOK, NEW e \in Items
  PROVE  OnAgenda(e) \in Nat /\ Held(e) \in Nat /\ \A p \in Processes : Deferred(p, e) \in Nat
<1>1. OnAgenda(e) \in Nat
  BY OccurrencesType DEF TypeOK, OnAgenda
<1>2. Held(e) \in Nat
  BY DEF TypeOK, Held
<1>3. ASSUME NEW p \in Processes PROVE Deferred(p, e) \in Nat
  <2>1. deferred[p] \in Seq(Events)
    BY DEF TypeOK
  <2> QED
    BY <2>1, OccurrencesType DEF Deferred
<1> QED
  BY <1>1, <1>2, <1>3

\* Calls made in order, and nothing else.
LEMMA ProceedMoves ==
  ASSUME TypeOK, NEW new \in Seq(Items), agenda' = new \o Rest, UNCHANGED <<pending, deferred>>
  PROVE  Moves(new)
<1> SUFFICES ASSUME NEW e \in Items
             PROVE  Outstanding(e)' + Taken(e) = Outstanding(e) + Occurrences(new, e)
  BY DEF Moves
<1> DEFINE d == Deferred(Receiver(e), e)
<1>1. Occurrences(new \o Rest, e) = Occurrences(new, e) + Occurrences(Rest, e)
  BY RestType, OccurrencesConcat
<1>2. OnAgenda(e)' = Occurrences(new, e) + Occurrences(Rest, e)
  BY <1>1 DEF OnAgenda, Occurrences
<1>3. Held(e)' = Held(e) /\ Deferred(Receiver(e), e)' = d
  BY DEF Held, Deferred, Occurrences, Receiver
<1>4. Outstanding(e)' = OnAgenda(e)' + Held(e)' + Deferred(Receiver(e), e)'
  BY DEF Outstanding
<1>5. Outstanding(e) = OnAgenda(e) + Held(e) + d
  BY DEF Outstanding
<1>6. Held(e) \in Nat /\ d \in Nat /\ Occurrences(new, e) \in Nat
  BY AccountTypes, ReceiverType, OccurrencesType
<1>7. OnAgenda(e) = Occurrences(Rest, e) + Taken(e) /\ Occurrences(Rest, e) \in Nat /\ Taken(e) \in Nat
  BY RestType
<1> HIDE DEF d
<1> QED
  BY <1>2, <1>3, <1>4, <1>5, <1>6, <1>7
\* A handler is called whose done callback is c.
LEMMA CallHandlerMoves ==
  ASSUME TypeOK, NEW c \in Items, CallHandler(c, Rest), UNCHANGED deferred
  PROVE  Moves(<<c>>)
<1>0. <<c>> \in Seq(Items)
  OBVIOUS
<1>1. CASE agenda' = <<c>> \o Rest /\ UNCHANGED pending
  BY <1>0, <1>1, ProceedMoves
<1>2. CASE /\ c \in Late
           /\ agenda' = Rest
           /\ pending' = [pending EXCEPT ![c] = @ + 1]
  <2> SUFFICES ASSUME NEW e \in Items
               PROVE  Outstanding(e)' + Taken(e) = Outstanding(e) + Occurrences(<<c>>, e)
    BY DEF Moves
  <2> DEFINE d == Deferred(Receiver(e), e)
  <2>1. OnAgenda(e)' = Occurrences(Rest, e)
    BY <1>2 DEF OnAgenda, Occurrences
  <2>2. Deferred(Receiver(e), e)' = d
    BY DEF Deferred, Occurrences, Receiver
  <2>3. Held(e)' = Held(e) + One(c, e)
    BY <1>2 DEF Held, One, TypeOK
  <2>4. Outstanding(e)' = OnAgenda(e)' + Held(e)' + Deferred(Receiver(e), e)'
    BY DEF Outstanding
  <2>5. Outstanding(e) = OnAgenda(e) + Held(e) + d
    BY DEF Outstanding
  <2>6. Held(e) \in Nat /\ d \in Nat /\ One(c, e) \in Nat
    BY AccountTypes, ReceiverType DEF One
  <2>7. OnAgenda(e) = Occurrences(Rest, e) + Taken(e) /\ Occurrences(Rest, e) \in Nat /\ Taken(e) \in Nat
    BY RestType
  <2>8. Occurrences(<<c>>, e) = One(c, e)
    BY OccurrencesFew
  <2> HIDE DEF d
  <2> QED
    BY <2>1, <2>2, <2>3, <2>4, <2>5, <2>6, <2>7, <2>8
<1> QED
  BY <1>1, <1>2 DEF CallHandler

\* An event is emitted or kept by its receiver.
LEMMA EmitEventMoves ==
  ASSUME TypeOK, NEW x \in Events, EmitEvent(x, Rest), UNCHANGED pending
  PROVE  Moves(<<x>>)
<1>0. x \in Items /\ <<x>> \in Seq(Items)
  BY DEF Events, Items
<1>1. CASE ~deferEvents
  BY <1>0, <1>1, ProceedMoves DEF EmitEvent
<1>2. CASE deferEvents
  <2> SUFFICES ASSUME NEW e \in Items
               PROVE  Outstanding(e)' + Taken(e) = Outstanding(e) + Occurrences(<<x>>, e)
    BY DEF Moves
  <2> DEFINE d == Deferred(Receiver(e), e)
  <2>1. OnAgenda(e)' = Occurrences(Rest, e)
    BY <1>2 DEF EmitEvent, OnAgenda, Occurrences
  <2>2. Deferred(Receiver(e), e)' = d + One(x, e)
    <3>1. deferred \in [Processes -> Seq(Events)] /\ Receiver(e) \in Processes
      BY ReceiverType DEF TypeOK
    <3>2. deferred' = [deferred EXCEPT ![Receiver(x)] = Append(@, x)]
      BY <1>2 DEF EmitEvent
    <3>3. Deferred(Receiver(e), e)' = Occurrences(deferred'[Receiver(e)], e)
      BY DEF Deferred, Occurrences, Receiver
    <3>4. d = Occurrences(deferred[Receiver(e)], e) /\ d \in Nat
      BY AccountTypes, ReceiverType DEF Deferred
    <3>5. CASE Receiver(e) = Receiver(x)
      <4>1. deferred'[Receiver(e)] = Append(deferred[Receiver(e)], x)
        BY <3>1, <3>2, <3>5
      <4> QED
        BY <3>1, <3>3, <3>4, <4>1, OccurrencesAppend
    <3>6. CASE Receiver(e) # Receiver(x)
      <4>1. deferred'[Receiver(e)] = deferred[Receiver(e)] /\ One(x, e) = 0
        BY <3>1, <3>2, <3>6 DEF One
      <4> QED
        BY <3>3, <3>4, <4>1
    <3> QED
      BY <3>5, <3>6
  <2>3. Held(e)' = Held(e)
    BY DEF Held
  <2>4. Outstanding(e)' = OnAgenda(e)' + Held(e)' + Deferred(Receiver(e), e)'
    BY DEF Outstanding
  <2>5. Outstanding(e) = OnAgenda(e) + Held(e) + d
    BY DEF Outstanding
  <2>6. Held(e) \in Nat /\ d \in Nat /\ One(x, e) \in Nat
    BY AccountTypes, ReceiverType DEF One
  <2>7. OnAgenda(e) = Occurrences(Rest, e) + Taken(e) /\ Occurrences(Rest, e) \in Nat /\ Taken(e) \in Nat
    BY RestType
  <2>8. Occurrences(<<x>>, e) = One(x, e)
    BY OccurrencesFew
  <2> HIDE DEF d
  <2> QED
    BY <2>1, <2>2, <2>3, <2>4, <2>5, <2>6, <2>7, <2>8
<1> QED
  BY <1>1, <1>2

\* A process keeps the events only that were emitted on it.
Received == \A p \in Processes : \A i \in DOMAIN deferred[p] : Receiver(deferred[p][i]) = p

\* The events the main process kept go to the agenda: none is new, none is lost.
LEMMA EmitDeferredEventsMoves ==
  ASSUME TypeOK, Received, agenda = << >>, EmitDeferredEvents, UNCHANGED pending
  PROVE  Moves(<< >>)
<1> SUFFICES ASSUME NEW e \in Items
             PROVE  Outstanding(e)' + Taken(e) = Outstanding(e) + Occurrences(<< >>, e)
  BY DEF Moves
<1> DEFINE d == Deferred(Receiver(e), e)
           k == Occurrences(deferred[Main], e)
<1>1. /\ deferred \in [Processes -> Seq(Events)]
      /\ Main \in Processes
      /\ Receiver(e) \in Processes
  BY ReceiverType, DefinitionAssumption DEF TypeOK
<1>2. OnAgenda(e)' = k
  BY DEF EmitDeferredEvents, OnAgenda, Occurrences
<1>3. Deferred(Receiver(e), e)' = Occurrences(deferred'[Receiver(e)], e)
  BY DEF Deferred, Occurrences, Receiver
<1>4. deferred' = [deferred EXCEPT ![Main] = << >>]
  BY DEF EmitDeferredEvents
<1>5. k + Deferred(Receiver(e), e)' = d
  <2>1. CASE Receiver(e) = Main
    <3>1. deferred'[Receiver(e)] = << >>
      BY <1>1, <1>4, <2>1
    <3>2. Deferred(Receiver(e), e)' = 0
      BY <1>3, <3>1, OccurrencesFew, Zenon
    <3>3. d = k /\ d \in Nat
      BY <1>1, <2>1, AccountTypes DEF Deferred
    <3> QED
      BY <3>2, <3>3
  <2>2. CASE Receiver(e) # Main
    <3>1. deferred'[Receiver(e)] = deferred[Receiver(e)]
      BY <1>1, <1>4, <2>2
    <3>2. \A i \in DOMAIN deferred[Main] : deferred[Main][i] # e
      BY <1>1, <2>2 DEF Received
    <3>3. k = 0
      BY <1>1, <3>2, NoOccurrence
    <3>4. Deferred(Receiver(e), e)' = d /\ d \in Nat
      BY <1>1, <1>3, <3>1, AccountTypes DEF Deferred
    <3> QED
      BY <3>3, <3>4
  <2> QED
    BY <2>1, <2>2
<1>6. Held(e)' = Held(e)
  BY DEF Held
<1>7. Outstanding(e)' = OnAgenda(e)' + Held(e)' + Deferred(Receiver(e), e)'
  BY DEF Outstanding
<1>8. Outstanding(e) = OnAgenda(e) + Held(e) + d
  BY DEF Outstanding
<1>9. /\ OnAgenda(e) = 0 /\ Taken(e) = 0 /\ Occurrences(<< >>, e) = 0
      /\ Held(e) \in Nat /\ d \in Nat /\ k \in Nat
  <2>1. Occurrences(<< >>, e) = 0
    BY OccurrencesFew, Zenon
  <2>2. OnAgenda(e) = 0
    BY <2>1, Zenon DEF OnAgenda
  <2>3. Taken(e) = 0
    BY DEF Taken
  <2>4. k \in Nat
    BY <1>1, OccurrencesType
  <2> QED
    BY <1>1, <2>1, <2>2, <2>3, <2>4, AccountTypes
<1>10. Deferred(Receiver(e), e)' \in Nat
  <2>1. deferred'[Receiver(e)] \in Seq(Events)
    BY <1>1, EmitDeferredEventsType
  <2> QED
    BY <1>3, <2>1, OccurrencesType
<1> HIDE DEF d, k
<1> QED
  BY <1>2, <1>5, <1>6, <1>7, <1>8, <1>9, <1>10

\* A handler that answers late passes its entry on to the agenda.
LEMMA HandlerAnswersMoves ==
  ASSUME TypeOK, NEW c \in Late, HandlerAnswers(c)
  PROVE  Moves(<< >>)
<1> SUFFICES ASSUME NEW e \in Items
             PROVE  Outstanding(e)' + Taken(e) = Outstanding(e) + Occurrences(<< >>, e)
  BY DEF Moves
<1> DEFINE d == Deferred(Receiver(e), e)
<1>1. agenda = << >> /\ agenda' = <<c>>
  BY DEF HandlerAnswers
<1>2. Occurrences(<< >>, e) = 0 /\ Occurrences(<<c>>, e) = One(c, e)
  BY OccurrencesFew
<1>3. OnAgenda(e) = 0
  BY <1>1, <1>2, Zenon DEF OnAgenda
<1>4. OnAgenda(e)' = One(c, e)
  <2>1. OnAgenda(e)' = Occurrences(agenda', e)
    BY DEF OnAgenda, Occurrences
  <2> QED
    BY <1>1, <1>2, <2>1, Zenon
<1>5. Held(e) = Held(e)' + One(c, e)
  BY DEF HandlerAnswers, Held, One, TypeOK
<1>6. Deferred(Receiver(e), e)' = d
  BY DEF HandlerAnswers, Deferred, Occurrences, Receiver
<1>7. Taken(e) = 0
  BY <1>1 DEF Taken
<1>8. Outstanding(e)' = OnAgenda(e)' + Held(e)' + Deferred(Receiver(e), e)'
  BY DEF Outstanding
<1>9. Outstanding(e) = OnAgenda(e) + Held(e) + d
  BY DEF Outstanding
<1>10. Held(e) \in Nat /\ Held(e)' \in Nat /\ d \in Nat /\ One(c, e) \in Nat
  <2>1. TypeOK'
    BY HandlerAnswersType
  <2>2. Held(e)' \in Nat
    BY <2>1 DEF TypeOK, Held
  <2> QED
    BY <2>2, AccountTypes, ReceiverType DEF One
<1> HIDE DEF d
<1> QED
  BY <1>2, <1>3, <1>4, <1>5, <1>6, <1>7, <1>8, <1>9, <1>10

\* Entries are outstanding only for objects whose handlers they are made for.
Placed(e) ==
  /\ e.op \in {"activityEnd", "activityDone"} => Kind[e.at] \in {"waitTask", "call"}
  /\ e.op \in {"emitCatch", "catch", "caught"} => e.at \in CatchEvents
  /\ e.op = "boundaryCatch" => e.at \in BoundaryEvents

WellPlaced == \A e \in Items : Outstanding(e) > 0 => Placed(e)

\* What TokensHaveWork needs to be inductive.
AccountInv == WellPlaced /\ Received /\ TokensHaveWork

\* The work among the entries that a step adds, and what it takes from it.
Work(x, o)     == IF x.op \in {"begun", "arrived", "handled"} /\ x.at = o THEN 1 ELSE 0
WorkIn(new, o) == Occurrences(new, Item("begun", o)) + Occurrences(new, Item("arrived", o))
                    + Occurrences(new, Item("handled", o))
WorkTaken(o)   == IF agenda = << >> THEN 0 ELSE Work(Head(agenda), o)

LEMMA WorkItems ==
  ASSUME NEW o \in FlowObjects
  PROVE  /\ Item("begun", o) \in Items /\ Item("begun", o) \notin Events
         /\ Item("arrived", o) \in Items /\ Item("arrived", o) \notin Late
         /\ Item("handled", o) \in Items /\ Item("handled", o) \notin Events
         /\ Receiver(Item("arrived", o)) = ProcessOf[o]
<1>1. Late \subseteq Continuations
  BY EnvironmentAssumption
<1> QED
  BY <1>1 DEF Item, Items, Events, EventOps, Continuations, ContinuationOps, Receiver

\* The work at an object is what is outstanding of its three kinds.
LEMMA WorkOutstanding ==
  ASSUME TypeOK, NEW o \in FlowObjects
  PROVE  WorkAt(o) = Outstanding(Item("begun", o)) + Outstanding(Item("arrived", o))
                       + Outstanding(Item("handled", o))
<1> DEFINE b == Item("begun", o)
           a == Item("arrived", o)
           h == Item("handled", o)
<1>1. Held(a) = 0
  BY WorkItems DEF Held
<1>2. ASSUME NEW e \in Items, e \notin Events PROVE Deferred(Receiver(e), e) = 0
  <2>1. deferred[Receiver(e)] \in Seq(Events)
    BY ReceiverType DEF TypeOK
  <2>2. \A i \in DOMAIN deferred[Receiver(e)] : deferred[Receiver(e)][i] # e
    BY <1>2, <2>1
  <2> QED
    BY <2>1, <2>2, NoOccurrence DEF Deferred
<1>3. Deferred(Receiver(b), b) = 0 /\ Deferred(Receiver(h), h) = 0
  BY <1>2, WorkItems
<1>4. WorkAt(o) = OnAgenda(b) + Held(b) + OnAgenda(a) + Deferred(ProcessOf[o], a)
                    + OnAgenda(h) + Held(h)
  BY DEF WorkAt
<1>5. /\ Outstanding(b) = OnAgenda(b) + Held(b) + Deferred(Receiver(b), b)
      /\ Outstanding(a) = OnAgenda(a) + Held(a) + Deferred(Receiver(a), a)
      /\ Outstanding(h) = OnAgenda(h) + Held(h) + Deferred(Receiver(h), h)
  BY DEF Outstanding
<1>6. Receiver(a) = ProcessOf[o] /\ ProcessOf[o] \in Processes
  BY WorkItems, DefinitionAssumption
<1>7. /\ OnAgenda(b) \in Nat /\ Held(b) \in Nat
      /\ OnAgenda(a) \in Nat /\ Deferred(ProcessOf[o], a) \in Nat
      /\ OnAgenda(h) \in Nat /\ Held(h) \in Nat
  BY <1>6, WorkItems, AccountTypes
<1>8. WorkAt(o) = Outstanding(b) + Outstanding(a) + Outstanding(h)
  <2> HIDE DEF a, b, h
  <2> QED
    BY <1>1, <1>3, <1>4, <1>5, <1>6, <1>7
<1> QED
  BY <1>8, Zenon

\* The work in one entry, and in entries that are no work.
LEMMA WorkInOne ==
  ASSUME NEW x \in Items, NEW o \in FlowObjects
  PROVE  WorkIn(<<x>>, o) = Work(x, o)
<1>1. \A op : One(x, Item(op, o)) = IF x.op = op /\ x.at = o THEN 1 ELSE 0
  BY DEF One, Item, Items
<1>2. /\ Occurrences(<<x>>, Item("begun", o)) = One(x, Item("begun", o))
      /\ Occurrences(<<x>>, Item("arrived", o)) = One(x, Item("arrived", o))
      /\ Occurrences(<<x>>, Item("handled", o)) = One(x, Item("handled", o))
  BY OccurrencesFew
<1>3. WorkIn(<<x>>, o) = One(x, Item("begun", o)) + One(x, Item("arrived", o))
                           + One(x, Item("handled", o))
  BY <1>2 DEF WorkIn
<1> QED
  BY <1>1, <1>3 DEF Work

LEMMA NoWorkIn ==
  ASSUME NEW new \in Seq(Items), NEW o \in FlowObjects,
         \A i \in DOMAIN new : new[i].op \notin {"begun", "arrived", "handled"}
  PROVE  WorkIn(new, o) = 0
<1>1. ASSUME NEW op \in {"begun", "arrived", "handled"}
      PROVE  Occurrences(new, Item(op, o)) = 0
  <2>1. \A i \in DOMAIN new : new[i] # Item(op, o)
    BY <1>1 DEF Item
  <2> QED
    BY <2>1, NoOccurrence
<1> QED
  BY <1>1 DEF WorkIn

LEMMA WorkTakenSum ==
  ASSUME TypeOK, NEW o \in FlowObjects
  PROVE  WorkTaken(o) = Taken(Item("begun", o)) + Taken(Item("arrived", o))
                          + Taken(Item("handled", o))
<1>1. CASE agenda = << >>
  BY <1>1 DEF WorkTaken, Taken
<1>2. CASE agenda # << >>
  <2>1. Head(agenda) \in Items
    BY <1>2, HeadType
  <2>2. \A op : Taken(Item(op, o)) = IF Head(agenda).op = op /\ Head(agenda).at = o THEN 1 ELSE 0
    BY <1>2, <2>1 DEF Taken, One, Item, Items
  <2> QED
    BY <1>2, <2>2 DEF WorkTaken, Work
<1> QED
  BY <1>1, <1>2

(****************************************************************************)
(* What is left to show of a step: it adds entries that are well placed,    *)
(* and the tokens it puts and removes match the work it adds and takes.     *)
(****************************************************************************)

\* An account is a number, before a step and after it, and so is the work it stands for.
LEMMA OutstandingType ==
  /\ TypeOK => \A e \in Items : Outstanding(e) \in Nat
  /\ TypeOK' => \A e \in Items : Outstanding(e)' \in Nat
<1>1. TypeOK => \A e \in Items : Outstanding(e) \in Nat
  <2> SUFFICES ASSUME TypeOK, NEW e \in Items PROVE Outstanding(e) \in Nat
    OBVIOUS
  <2>1. OnAgenda(e) \in Nat /\ Held(e) \in Nat /\ Deferred(Receiver(e), e) \in Nat
    BY AccountTypes, ReceiverType
  <2> QED
    BY <2>1 DEF Outstanding
<1>2. TypeOK' => (\A e \in Items : Outstanding(e) \in Nat)'
  BY <1>1, PTL
<1>3. Items' = Items
  BY DEF Items, EventOps, ContinuationOps, CallOps
<1> QED
  BY <1>1, <1>2, <1>3

LEMMA NextWorkOutstanding ==
  TypeOK' => \A o \in FlowObjects :
    WorkAt(o)' = Outstanding(Item("begun", o))' + Outstanding(Item("arrived", o))'
                   + Outstanding(Item("handled", o))'
<1>1. TypeOK => \A o \in FlowObjects :
        WorkAt(o) = Outstanding(Item("begun", o)) + Outstanding(Item("arrived", o))
                      + Outstanding(Item("handled", o))
  BY WorkOutstanding
<1>2. TypeOK' => (\A o \in FlowObjects :
        WorkAt(o) = Outstanding(Item("begun", o)) + Outstanding(Item("arrived", o))
                      + Outstanding(Item("handled", o)))'
  BY <1>1, PTL
<1> QED
  BY <1>2

LEMMA PlacedStep ==
  ASSUME TypeOK, TypeOK', WellPlaced, NEW new \in Seq(Items), Moves(new),
         \A i \in DOMAIN new : Placed(new[i])
  PROVE  WellPlaced'
<1> SUFFICES ASSUME NEW e \in Items, Outstanding(e)' > 0 PROVE Placed(e)
  BY DEF WellPlaced, Placed
<1>1. CASE \E i \in DOMAIN new : new[i] = e
  BY <1>1
<1>2. CASE \A i \in DOMAIN new : new[i] # e
  <2>1. Occurrences(new, e) = 0
    BY <1>2, NoOccurrence
  <2>2. Outstanding(e)' + Taken(e) = Outstanding(e) + Occurrences(new, e)
    BY DEF Moves
  <2>3. Outstanding(e) \in Nat /\ Outstanding(e)' \in Nat /\ Taken(e) \in Nat
    BY OutstandingType, RestType
  <2>4. Outstanding(e) > 0
    BY <2>1, <2>2, <2>3
  <2> QED
    BY <2>4 DEF WellPlaced
<1> QED
  BY <1>1, <1>2

\* The work at an object after a step, from the entries it takes and adds.
LEMMA WorkMoves ==
  ASSUME TypeOK, TypeOK', NEW new \in Seq(Items), Moves(new), NEW o \in FlowObjects
  PROVE  /\ WorkAt(o)' \in Nat /\ WorkTaken(o) \in Nat /\ WorkIn(new, o) \in Nat
         /\ WorkAt(o) \in Nat /\ WorkAt(o)' + WorkTaken(o) = WorkAt(o) + WorkIn(new, o)
<1> DEFINE b == Item("begun", o)
           a == Item("arrived", o)
           h == Item("handled", o)
<1>1. b \in Items /\ a \in Items /\ h \in Items
  BY WorkItems
<1>2. WorkAt(o) = Outstanding(b) + Outstanding(a) + Outstanding(h)
  BY WorkOutstanding
<1>3. WorkAt(o)' = Outstanding(b)' + Outstanding(a)' + Outstanding(h)'
  BY NextWorkOutstanding
<1>4. WorkTaken(o) = Taken(b) + Taken(a) + Taken(h)
  BY WorkTakenSum
<1>5. WorkIn(new, o) = Occurrences(new, b) + Occurrences(new, a) + Occurrences(new, h)
  BY DEF WorkIn
<1>6. /\ Outstanding(b)' + Taken(b) = Outstanding(b) + Occurrences(new, b)
      /\ Outstanding(a)' + Taken(a) = Outstanding(a) + Occurrences(new, a)
      /\ Outstanding(h)' + Taken(h) = Outstanding(h) + Occurrences(new, h)
  BY <1>1 DEF Moves
<1>7. /\ Outstanding(b) \in Nat /\ Outstanding(a) \in Nat /\ Outstanding(h) \in Nat
      /\ Outstanding(b)' \in Nat /\ Outstanding(a)' \in Nat /\ Outstanding(h)' \in Nat
  BY <1>1, OutstandingType
<1>8. /\ Taken(b) \in Nat /\ Taken(a) \in Nat /\ Taken(h) \in Nat
       /\ Occurrences(new, b) \in Nat /\ Occurrences(new, a) \in Nat
       /\ Occurrences(new, h) \in Nat
  BY RestType, OccurrencesType
<1> DEFINE after == WorkAt(o)'
           b1 == Outstanding(b)'
           a1 == Outstanding(a)'
           h1 == Outstanding(h)'
<1>9. after = b1 + a1 + h1 /\ b1 \in Nat /\ a1 \in Nat /\ h1 \in Nat
  BY <1>3, <1>7
<1>10. /\ b1 + Taken(b) = Outstanding(b) + Occurrences(new, b)
      /\ a1 + Taken(a) = Outstanding(a) + Occurrences(new, a)
      /\ h1 + Taken(h) = Outstanding(h) + Occurrences(new, h)
  BY <1>6
<1>11. /\ after \in Nat /\ WorkTaken(o) \in Nat /\ WorkIn(new, o) \in Nat
      /\ WorkAt(o) \in Nat
  <2> HIDE DEF b, a, h, after, b1, a1, h1
  <2>1. WorkTaken(o) \in Nat
    BY <1>4, <1>8
  <2>2. WorkIn(new, o) \in Nat
    BY <1>5, <1>8
  <2>3. WorkAt(o) \in Nat
    BY <1>2, <1>7
  <2>4. after \in Nat
    BY <1>9
  <2> QED
    BY <2>1, <2>2, <2>3, <2>4
<1>12. after + WorkTaken(o) = WorkAt(o) + WorkIn(new, o)
  <2> HIDE DEF b, a, h, after, b1, a1, h1
  <2>1. (b1 + a1 + h1) + (Taken(b) + Taken(a) + Taken(h))
          = (b1 + Taken(b)) + (a1 + Taken(a)) + (h1 + Taken(h))
    BY <1>8, <1>9
  <2>2. (Outstanding(b) + Occurrences(new, b)) + (Outstanding(a) + Occurrences(new, a))
            + (Outstanding(h) + Occurrences(new, h))
          = (Outstanding(b) + Outstanding(a) + Outstanding(h))
            + (Occurrences(new, b) + Occurrences(new, a) + Occurrences(new, h))
    BY <1>7, <1>8
  <2> QED
    BY <1>2, <1>4, <1>5, <1>9, <1>10, <2>1, <2>2, Zenon
<1> QED
  BY <1>11, <1>12

LEMMA WorkStep ==
  ASSUME TypeOK, TypeOK', TokensHaveWork, NEW new \in Seq(Items), Moves(new),
         \A o \in Automatic : tokens'[o] + WorkTaken(o) = tokens[o] + WorkIn(new, o)
  PROVE  TokensHaveWork'
<1> SUFFICES ASSUME NEW o \in Automatic PROVE tokens'[o] = WorkAt(o)'
  BY DEF TokensHaveWork, Automatic, OfKind
<1>1. o \in FlowObjects
  BY DEF Automatic, OfKind
<1>2. tokens[o] = WorkAt(o) /\ tokens'[o] \in Nat
  BY <1>1 DEF TokensHaveWork, TypeOK
<1>3. /\ WorkAt(o)' \in Nat /\ WorkTaken(o) \in Nat /\ WorkIn(new, o) \in Nat
      /\ WorkAt(o) \in Nat /\ WorkAt(o)' + WorkTaken(o) = WorkAt(o) + WorkIn(new, o)
  BY <1>1, WorkMoves
<1>4. tokens'[o] + WorkTaken(o) = tokens[o] + WorkIn(new, o)
  OBVIOUS
<1> QED
  BY <1>2, <1>3, <1>4

\* Entries that are neither work nor made for some kinds of objects only.
PlainOps == {"put", "arm", "persist", "persistAndClose", "startCall", "ended", "timerHandled"}

\* A step that adds one entry, and a step that adds plain ones.
LEMMA OneAdded ==
  ASSUME TypeOK, TypeOK', AccountInv, NEW x \in Items, Moves(<<x>>), Placed(x), Received',
         \A o \in Automatic : tokens'[o] + WorkTaken(o) = tokens[o] + Work(x, o)
  PROVE  AccountInv'
<1>1. <<x>> \in Seq(Items) /\ \A i \in DOMAIN <<x>> : <<x>>[i] = x
  OBVIOUS
<1>2. \A o \in Automatic : WorkIn(<<x>>, o) = Work(x, o)
  BY WorkInOne DEF Automatic, OfKind
<1>3. WellPlaced'
  BY <1>1, PlacedStep DEF AccountInv
<1>4. TokensHaveWork'
  <2>1. \A o \in Automatic : tokens'[o] + WorkTaken(o) = tokens[o] + WorkIn(<<x>>, o)
    BY <1>2
  <2>2. <<x>> \in Seq(Items) /\ TokensHaveWork
    BY <1>1 DEF AccountInv
  <2> QED
    BY <2>1, <2>2, WorkStep
<1> QED
  BY <1>3, <1>4 DEF AccountInv

LEMMA PlainAdded ==
  ASSUME TypeOK, TypeOK', AccountInv, NEW new \in Seq(Items), Moves(new), Received',
         \A i \in DOMAIN new : new[i].op \in PlainOps,
         \A o \in Automatic : tokens'[o] + WorkTaken(o) = tokens[o]
  PROVE  AccountInv'
<1>1. \A i \in DOMAIN new : Placed(new[i])
  BY DEF PlainOps, Placed
<1>2. WellPlaced'
  BY <1>1, PlacedStep DEF AccountInv
<1>3. \A i \in DOMAIN new : new[i].op \notin {"begun", "arrived", "handled"}
  BY DEF PlainOps
<1>4. \A o \in Automatic : WorkIn(new, o) = 0
  BY <1>3, NoWorkIn DEF Automatic, OfKind
<1>5. \A o \in Automatic : tokens'[o] + WorkTaken(o) = tokens[o] + WorkIn(new, o)
  <2> TAKE o \in Automatic
  <2>1. tokens[o] \in Nat
    BY DEF TypeOK, Automatic, OfKind
  <2> QED
    BY <1>4, <2>1
<1>6. TokensHaveWork'
  BY <1>5, WorkStep DEF AccountInv
<1> QED
  BY <1>2, <1>6 DEF AccountInv

\* The head of the agenda is one of the entries outstanding.
LEMMA HeadPlaced ==
  ASSUME TypeOK, AccountInv, agenda # << >>
  PROVE  Placed(Head(agenda)) /\ Head(agenda) = Item(Head(agenda).op, Current)
<1>1. Head(agenda) \in Items
  BY HeadType
<1>2. Taken(Head(agenda)) = 1
  BY DEF Taken, One
<1>3. OnAgenda(Head(agenda)) > 0
  BY <1>2, RestType
<1>4. Outstanding(Head(agenda)) > 0
  <2>1. /\ Held(Head(agenda)) \in Nat
        /\ Deferred(Receiver(Head(agenda)), Head(agenda)) \in Nat
        /\ OnAgenda(Head(agenda)) \in Nat
    BY <1>1, AccountTypes, ReceiverType
  <2> QED
    BY <1>3, <2>1 DEF Outstanding
<1> QED
  BY <1>1, <1>4 DEF AccountInv, WellPlaced, Item, Items, Current

\* Work that is taken stood for a token.
LEMMA TakenHasToken ==
  ASSUME TypeOK, AccountInv, NEW o \in Automatic
  PROVE  WorkTaken(o) \in Nat /\ tokens[o] \in Nat /\ tokens[o] >= WorkTaken(o)
<1> DEFINE b == Item("begun", o)
           a == Item("arrived", o)
           h == Item("handled", o)
<1>1. o \in FlowObjects
  BY DEF Automatic, OfKind
<1>2. b \in Items /\ a \in Items /\ h \in Items
  BY <1>1, WorkItems
<1>3. ASSUME NEW e \in Items
      PROVE  Taken(e) \in Nat /\ Outstanding(e) \in Nat /\ Outstanding(e) >= Taken(e)
  <2>1. OnAgenda(e) = Occurrences(Rest, e) + Taken(e) /\ Occurrences(Rest, e) \in Nat /\ Taken(e) \in Nat
    BY RestType
  <2>2. Held(e) \in Nat /\ Deferred(Receiver(e), e) \in Nat
    BY AccountTypes, ReceiverType
  <2> QED
    BY <2>1, <2>2 DEF Outstanding
<1>4. /\ Taken(b) \in Nat /\ Outstanding(b) \in Nat /\ Outstanding(b) >= Taken(b)
      /\ Taken(a) \in Nat /\ Outstanding(a) \in Nat /\ Outstanding(a) >= Taken(a)
      /\ Taken(h) \in Nat /\ Outstanding(h) \in Nat /\ Outstanding(h) >= Taken(h)
  BY <1>2, <1>3
<1>5. tokens[o] = Outstanding(b) + Outstanding(a) + Outstanding(h)
  BY <1>1, WorkOutstanding DEF AccountInv, TokensHaveWork
<1>6. WorkTaken(o) = Taken(b) + Taken(a) + Taken(h)
  BY <1>1, WorkTakenSum
<1>7. tokens[o] >= WorkTaken(o)
  <2> HIDE DEF b, a, h
  <2> QED
    BY <1>4, <1>5, <1>6
<1> QED
  BY <1>1, <1>7 DEF TypeOK, WorkTaken, Work

LEMMA EmitEventReceived ==
  ASSUME TypeOK, Received, NEW x \in Events, NEW rest, EmitEvent(x, rest)
  PROVE  Received'
<1>1. deferred \in [Processes -> Seq(Events)]
  BY DEF TypeOK
<1>2. CASE ~deferEvents
  BY <1>2 DEF EmitEvent, Received, Receiver
<1>3. CASE deferEvents
  <2>1. deferred' = [deferred EXCEPT ![Receiver(x)] = Append(@, x)]
    BY <1>3 DEF EmitEvent
  <2> SUFFICES ASSUME NEW p \in Processes, NEW i \in DOMAIN deferred'[p]
               PROVE  Receiver(deferred'[p][i]) = p
    BY DEF Received, Receiver
  <2>2. CASE p # Receiver(x)
    BY <1>1, <2>1, <2>2 DEF Received
  <2>3. CASE p = Receiver(x)
    <3>1. deferred'[p] = Append(deferred[p], x)
      BY <1>1, <2>1, <2>3
    <3>2. deferred'[p][i] = x \/ (i \in DOMAIN deferred[p] /\ deferred'[p][i] = deferred[p][i])
      BY <1>1, <3>1
    <3> QED
      BY <2>3, <3>2 DEF Received
  <2> QED
    BY <2>2, <2>3
<1> QED
  BY <1>2, <1>3

LEMMA SameReceived == Received /\ UNCHANGED deferred => Received'
  BY DEF Received, Receiver

(****************************************************************************)
(* Every step keeps the accounts.                                           *)
(****************************************************************************)

LEMMA RunningFacts ==
  ASSUME TypeOK, AccountInv, NEW op, Running(op)
  PROVE  /\ agenda # << >> /\ Current \in FlowObjects /\ Rest = Tail(agenda)
         /\ Placed(Item(op, Current))
         /\ \A o : WorkTaken(o) = IF op \in {"begun", "arrived", "handled"} /\ Current = o
                                  THEN 1 ELSE 0
<1>1. agenda # << >> /\ Head(agenda).op = op
  BY DEF Running
<1>2. Placed(Head(agenda)) /\ Head(agenda) = Item(op, Current)
  BY <1>1, HeadPlaced
<1> QED
  BY <1>1, <1>2, HeadType DEF Rest, WorkTaken, Work, Current

LEMMA NothingRuns ==
  ASSUME agenda = << >>
  PROVE  Rest = << >> /\ \A o : WorkTaken(o) = 0
  BY DEF Rest, WorkTaken

\* A boundary event is attached to an activity that waits for an event itself.
LEMMA HostWaits ==
  ASSUME NEW b \in BoundaryEvents
  PROVE  Host(b) \in FlowObjects /\ Host(b) \notin Automatic
<1>1. \E o \in FlowObjects : \E i \in DOMAIN Boundaries[o] : Boundaries[o][i] = b
  BY DefinitionAssumption
<1>2. Host(b) \in FlowObjects /\ \E i \in DOMAIN Boundaries[Host(b)] : Boundaries[Host(b)][i] = b
  BY <1>1 DEF Host
<1>3. Boundaries[Host(b)] # << >>
  BY <1>2
<1>4. Kind[Host(b)] = "waitTask"
  BY <1>2, <1>3, DefinitionAssumption
<1> QED
  BY <1>2, <1>4 DEF Automatic, OfKind

LEMMA AutomaticFacts ==
  /\ Automatic \subseteq FlowObjects
  /\ \A o \in FlowObjects :
       o \in Automatic <=> Kind[o] \in {"start", "end", "task", "xor", "message", "timeout"}
  /\ CatchEvents \cap Automatic = {}
  /\ BoundaryEvents \subseteq Automatic
  /\ \A t \in TimerEvents \ BoundaryEvents : t \in CatchEvents
  BY DEF Automatic, CatchEvents, BoundaryEvents, TimerEvents, OfKind

\* Leaving an object takes a token from it, and from no other automatic one.
LEMMA LeaveAccount ==
  ASSUME TypeOK, TypeOK', AccountInv, agenda # << >>, NEW o \in FlowObjects, Leave(o),
         \A a \in Automatic : WorkTaken(a) = IF a = o THEN 1 ELSE 0
  PROVE  AccountInv'
<1>1. Item("ended", o) \in Items /\ Placed(Item("ended", o))
  BY ItemType DEF ContinuationOps, Placed, Item
<1>2. Moves(<<Item("ended", o)>>)
  BY <1>1, CallHandlerMoves DEF Leave, Rest
<1>3. Received'
  BY SameReceived DEF Leave, AccountInv
<1>4. tokens \in [FlowObjects -> Nat] /\ Automatic \subseteq FlowObjects
  BY AutomaticFacts DEF TypeOK
<1>5. ASSUME NEW a \in Automatic
      PROVE  tokens'[a] = IF a = o THEN (IF tokens[a] > 0 THEN tokens[a] - 1 ELSE 0) ELSE tokens[a]
  <2>1. Remove(o) \in [FlowObjects -> Nat]
    BY TokenTypes
  <2>2. Remove(o)[a] = IF a = o THEN (IF tokens[a] > 0 THEN tokens[a] - 1 ELSE 0) ELSE tokens[a]
    BY <1>4 DEF Remove
  <2>3. CASE o \in BoundaryEvents
    <3>1. tokens' = [Remove(o) EXCEPT ![Host(o)] = IF @ > 0 THEN @ - 1 ELSE 0]
      BY <2>3 DEF Leave
    <3>2. Host(o) \in FlowObjects /\ a # Host(o)
      BY <2>3, HostWaits
    <3>3. tokens'[a] = Remove(o)[a]
      BY <1>4, <2>1, <3>1, <3>2
    <3> QED
      BY <2>2, <3>3
  <2>4. CASE o \notin BoundaryEvents
    BY <2>2, <2>4 DEF Leave
  <2> QED
    BY <2>3, <2>4
<1>6. ASSUME NEW a \in Automatic
      PROVE  tokens'[a] + WorkTaken(a) = tokens[a] + Work(Item("ended", o), a)
  <2>1. tokens[a] \in Nat /\ tokens[a] >= WorkTaken(a)
    BY TakenHasToken
  <2>2. Work(Item("ended", o), a) = 0
    BY DEF Work, Item
  <2> QED
    BY <1>5, <2>1, <2>2
<1> QED
  BY <1>1, <1>2, <1>3, <1>6, OneAdded

\* A handler is called for an entry that is no work, and the automatic objects keep
\* their tokens.
LEMMA HandlerAccount ==
  ASSUME TypeOK, TypeOK', AccountInv, NEW op \in ContinuationOps \ {"begun", "handled"},
         NEW c \in FlowObjects, CallHandler(Item(op, c), Rest), UNCHANGED deferred,
         Placed(Item(op, c)),
         \A o \in Automatic : WorkTaken(o) = 0 /\ tokens'[o] = tokens[o]
  PROVE  AccountInv'
<1>1. Item(op, c) \in Items
  BY ItemType
<1>2. Moves(<<Item(op, c)>>)
  BY <1>1, CallHandlerMoves
<1>3. Received'
  BY SameReceived DEF AccountInv
<1>4. ASSUME NEW o \in Automatic
      PROVE  tokens'[o] + WorkTaken(o) = tokens[o] + Work(Item(op, c), o)
  BY DEF Work, Item, ContinuationOps
<1> QED
  BY <1>1, <1>2, <1>3, <1>4, OneAdded

\* Calls are made that are no work, and the automatic objects keep their tokens.
LEMMA PlainAccount ==
  ASSUME TypeOK, TypeOK', AccountInv, NEW new \in Seq(Items), agenda' = new \o Rest,
         UNCHANGED <<pending, deferred>>,
         \A i \in DOMAIN new : new[i].op \in PlainOps,
         \A o \in Automatic : WorkTaken(o) = 0 /\ tokens'[o] = tokens[o]
  PROVE  AccountInv'
<1>1. Moves(new)
  BY ProceedMoves
<1>2. Received'
  BY SameReceived DEF AccountInv
<1>3. \A o \in Automatic : tokens'[o] + WorkTaken(o) = tokens[o]
  BY DEF TypeOK, Automatic, OfKind
<1> QED
  BY <1>1, <1>2, <1>3, PlainAdded

\* None, one or two plain calls.
LEMMA PlainCalls ==
  ASSUME TypeOK, TypeOK', AccountInv, NEW op, NEW c \in FlowObjects,
         op \in PlainOps, NEW d \in FlowObjects, NEW eop \in PlainOps,
         \/ agenda' = << >> \o Rest
         \/ agenda' = <<Item(op, c)>> \o Rest
         \/ agenda' = <<Item(op, c), Item(eop, d)>> \o Rest,
         UNCHANGED <<pending, deferred>>,
         \A o \in Automatic : WorkTaken(o) = 0 /\ tokens'[o] = tokens[o]
  PROVE  AccountInv'
<1> DEFINE x == Item(op, c)
           y == Item(eop, d)
<1>1. x \in Items /\ y \in Items /\ x.op \in PlainOps /\ y.op \in PlainOps
  BY DEF PlainOps, Item, Items, CallOps, ContinuationOps
<1> HIDE DEF x, y
<1>2. CASE agenda' = << >> \o Rest
  <2>1. << >> \in Seq(Items) /\ \A i \in DOMAIN << >> : << >>[i].op \in PlainOps
    OBVIOUS
  <2> QED
    BY <1>2, <2>1, PlainAccount, Zenon
<1>3. CASE agenda' = <<x>> \o Rest
  <2>1. <<x>> \in Seq(Items) /\ \A i \in DOMAIN <<x>> : <<x>>[i].op \in PlainOps
    BY <1>1
  <2> QED
    BY <1>3, <2>1, PlainAccount, Zenon
<1>4. CASE agenda' = <<x, y>> \o Rest
  <2>1. <<x, y>> \in Seq(Items) /\ \A i \in DOMAIN <<x, y>> : <<x, y>>[i].op \in PlainOps
    BY <1>1
  <2> QED
    BY <1>4, <2>1, PlainAccount, Zenon
<1> QED
  BY <1>2, <1>3, <1>4 DEF x, y

\* The tokens of an object that is not automatic do not count.
LEMMA OtherTokens ==
  ASSUME TypeOK, NEW c, c \notin Automatic, NEW v,
         tokens' = [tokens EXCEPT ![c] = v]
  PROVE  \A o \in Automatic : tokens'[o] = tokens[o]
  BY DEF TypeOK, Automatic, OfKind

\* The calls for the outgoing flows and for the boundary events are plain.
LEMMA PutsArePlain ==
  ASSUME NEW c \in FlowObjects
  PROVE  /\ \A i \in DOMAIN Puts(c) : Puts(c)[i].op \in PlainOps
         /\ \A i \in DOMAIN (Arms(c) \o <<Item("persist", c)>>) :
              (Arms(c) \o <<Item("persist", c)>>)[i].op \in PlainOps
         /\ Arms(c) \o <<Item("persist", c)>> \in Seq(Items)
<1>1. \A i \in DOMAIN Puts(c) : Puts(c)[i].op \in PlainOps
  BY DEF Puts, Item, PlainOps
<1>2. \A i \in DOMAIN Arms(c) : Arms(c)[i].op \in PlainOps
  BY DEF Arms, Item, PlainOps
<1>3. Item("persist", c) \in Items /\ Item("persist", c).op \in PlainOps
  BY ItemType DEF Item, PlainOps, CallOps
<1>4. ASSUME NEW s \in Seq(Items), NEW x \in Items, x.op \in PlainOps,
             \A i \in DOMAIN s : s[i].op \in PlainOps
      PROVE  \A i \in DOMAIN (s \o <<x>>) : (s \o <<x>>)[i].op \in PlainOps
  BY <1>4
<1>5. Arms(c) \in Seq(Items) /\ <<Item("persist", c)>> \in Seq(Items)
  BY <1>3, PutsAndArms
<1>6. \A i \in DOMAIN (Arms(c) \o <<Item("persist", c)>>) :
        (Arms(c) \o <<Item("persist", c)>>)[i].op \in PlainOps
  BY <1>2, <1>3, <1>4, <1>5, Zenon
<1> QED
  BY <1>1, <1>5, <1>6

\* A call handed to process.nextTick goes to the end of the agenda.
LEMMA AppendMoves ==
  ASSUME TypeOK, agenda # << >>, NEW c \in FlowObjects,
         agenda' = Append(Tail(agenda), Item("startCall", c)),
         UNCHANGED <<pending, deferred>>
  PROVE  Moves(<<Item("startCall", c)>>)
<1> DEFINE x == Item("startCall", c)
<1>1. x \in Items
  BY ItemType DEF CallOps
<1>2. Tail(agenda) \in Seq(Items) /\ Rest = Tail(agenda)
  BY HeadType DEF Rest
<1>3. ASSUME NEW e \in Items
      PROVE  Outstanding(e)' + Taken(e) = Outstanding(e) + Occurrences(<<x>>, e)
  <2>1. OnAgenda(e)' = Occurrences(Tail(agenda), e) + One(x, e)
    <3>1. OnAgenda(e)' = Occurrences(agenda', e)
      BY DEF OnAgenda, Occurrences
    <3> QED
      BY <1>1, <1>2, <3>1, OccurrencesAppend, Zenon
  <2>2. Held(e)' = Held(e) /\ Deferred(Receiver(e), e)' = Deferred(Receiver(e), e)
    BY DEF Held, Deferred, Occurrences, Receiver
  <2>3. OnAgenda(e) = Occurrences(Tail(agenda), e) + Taken(e)
        /\ Occurrences(Tail(agenda), e) \in Nat /\ Taken(e) \in Nat
    BY <1>2, RestType
  <2>4. Held(e) \in Nat /\ Deferred(Receiver(e), e) \in Nat /\ One(x, e) \in Nat
    BY AccountTypes, ReceiverType DEF One
  <2>5. Outstanding(e)' = OnAgenda(e)' + Held(e)' + Deferred(Receiver(e), e)'
    BY DEF Outstanding
  <2>6. Outstanding(e) = OnAgenda(e) + Held(e) + Deferred(Receiver(e), e)
    BY DEF Outstanding
  <2>7. Occurrences(<<x>>, e) = One(x, e)
    BY OccurrencesFew
  <2> HIDE DEF x
  <2> QED
    BY <2>1, <2>2, <2>3, <2>4, <2>5, <2>6, <2>7
<1> QED
  BY <1>3 DEF Moves

\* A call handed to process.nextTick is one of the plain ones.
LEMMA AppendAccount ==
  ASSUME TypeOK, TypeOK', AccountInv, agenda # << >>, NEW c \in FlowObjects,
         agenda' = Append(Tail(agenda), Item("startCall", c)),
         UNCHANGED <<pending, deferred>>,
         \A o \in Automatic : WorkTaken(o) = 0 /\ tokens'[o] = tokens[o]
  PROVE  AccountInv'
<1> DEFINE x == Item("startCall", c)
<1>1. x \in Items /\ x.op \in PlainOps
  BY ItemType DEF CallOps, PlainOps, Item
<1>2. Moves(<<x>>)
  BY AppendMoves
<1>3. <<x>> \in Seq(Items) /\ \A i \in DOMAIN <<x>> : <<x>>[i].op \in PlainOps
  BY <1>1
<1>4. Received'
  BY SameReceived DEF AccountInv
<1> HIDE DEF x
<1>5. ASSUME NEW o \in Automatic PROVE tokens'[o] + WorkTaken(o) = tokens[o]
  <2>1. tokens[o] \in Nat
    BY DEF TypeOK, Automatic, OfKind
  <2> QED
    BY <2>1
<1> QED
  BY <1>1, <1>2, <1>3, <1>4, <1>5, PlainAdded

LEMMA TokenStepAccount == TypeOK /\ TypeOK' /\ AccountInv /\ TokenStep => AccountInv'
<1> SUFFICES ASSUME TypeOK, TypeOK', AccountInv, TokenStep PROVE AccountInv'
  OBVIOUS
<1> DEFINE c == Current
<1> USE AutomaticFacts
<1>1. CASE PutToken
  <2>1. /\ c \in FlowObjects /\ Rest = Tail(agenda)
        /\ \A o \in Automatic : WorkTaken(o) = 0
    BY <1>1, RunningFacts DEF PutToken
  <2>2. Item("begun", c) \in Items /\ Placed(Item("begun", c))
    BY <2>1, ItemType DEF ContinuationOps, Placed, Item
  <2>3. Moves(<<Item("begun", c)>>)
    BY <1>1, <2>1, <2>2, CallHandlerMoves DEF PutToken
  <2>4. Received'
    BY <1>1, SameReceived DEF PutToken, AccountInv
  <2>5. ASSUME NEW o \in Automatic
        PROVE  tokens'[o] + WorkTaken(o) = tokens[o] + Work(Item("begun", c), o)
    <3>1. tokens[o] \in Nat /\ tokens'[o] = IF o = c THEN tokens[o] + 1 ELSE tokens[o]
      BY <1>1, <2>1 DEF PutToken, Add, TypeOK
    <3>2. Work(Item("begun", c), o) = IF o = c THEN 1 ELSE 0
      BY DEF Work, Item
    <3> QED
      BY <2>1, <3>1, <3>2
  <2> QED
    BY <2>2, <2>3, <2>4, <2>5, OneAdded
<1>2. CASE AnnounceToken
  <2>1. /\ c \in FlowObjects /\ Rest = Tail(agenda)
        /\ \A o \in Automatic : WorkTaken(o) = IF c = o THEN 1 ELSE 0
    BY <1>2, RunningFacts DEF AnnounceToken
  <2>2. /\ Item("arrived", c) \in Events /\ Item("arrived", c) \in Items
        /\ Placed(Item("arrived", c))
    BY <2>1, ItemType DEF EventOps, Placed, Item
  <2>3. Moves(<<Item("arrived", c)>>)
    BY <1>2, <2>1, <2>2, EmitEventMoves DEF AnnounceToken
  <2>4. Received'
    BY <1>2, <2>2, EmitEventReceived DEF AnnounceToken, AccountInv
  <2>5. ASSUME NEW o \in Automatic
        PROVE  tokens'[o] + WorkTaken(o) = tokens[o] + Work(Item("arrived", c), o)
    <3>1. tokens'[o] = tokens[o]
      BY <1>2 DEF AnnounceToken
    <3>2. Work(Item("arrived", c), o) = IF o = c THEN 1 ELSE 0
      BY DEF Work, Item
    <3> QED
      BY <2>1, <3>1, <3>2
  <2> QED
    BY <2>2, <2>3, <2>4, <2>5, OneAdded
<1>3. CASE ArriveAtCatchEvent
  <2>1. c \in FlowObjects /\ Rest = Tail(agenda) /\ \A o \in Automatic : WorkTaken(o) = 0
    BY <1>3, RunningFacts DEF ArriveAtCatchEvent
  <2>2. \/ agenda' = <<Item("persist", c)>> \o Rest
        \/ agenda' = <<Item("arm", c), Item("persist", c)>> \o Rest
    BY <1>3, <2>1 DEF ArriveAtCatchEvent, Proceed
  <2>3. "arm" \in PlainOps /\ "persist" \in PlainOps
    BY DEF PlainOps
  <2> QED
    BY <1>3, <2>1, <2>2, <2>3, PlainCalls DEF ArriveAtCatchEvent
<1>4. CASE ArriveAtFlowObject
  <2>1. /\ c \in FlowObjects /\ Rest = Tail(agenda)
        /\ \A o \in Automatic : WorkTaken(o) = IF c = o THEN 1 ELSE 0
    BY <1>4, RunningFacts DEF ArriveAtFlowObject
  <2>2. Item("handled", c) \in Items /\ Placed(Item("handled", c))
    BY <2>1, ItemType DEF ContinuationOps, Placed, Item
  <2>3. Moves(<<Item("handled", c)>>)
    BY <1>4, <2>1, <2>2, CallHandlerMoves DEF ArriveAtFlowObject
  <2>4. Received'
    BY <1>4, SameReceived DEF ArriveAtFlowObject, AccountInv
  <2>5. ASSUME NEW o \in Automatic
        PROVE  tokens'[o] + WorkTaken(o) = tokens[o] + Work(Item("handled", c), o)
    <3>1. tokens'[o] = tokens[o]
      BY <1>4 DEF ArriveAtFlowObject
    <3>2. Work(Item("handled", c), o) = IF o = c THEN 1 ELSE 0
      BY DEF Work, Item
    <3> QED
      BY <2>1, <3>1, <3>2
  <2> QED
    BY <2>2, <2>3, <2>4, <2>5, OneAdded
<1>5. CASE WaitTaskHandled
  <2>1. c \in FlowObjects /\ Rest = Tail(agenda) /\ \A o \in Automatic : WorkTaken(o) = 0
    BY <1>5, RunningFacts DEF WaitTaskHandled
  <2>2. agenda' = (Arms(c) \o <<Item("persist", c)>>) \o Rest
    BY <1>5, <2>1 DEF WaitTaskHandled, Proceed
  <2> QED
    BY <1>5, <2>1, <2>2, PutsArePlain, PlainAccount DEF WaitTaskHandled
<1>6. CASE FlowObjectHandled
  <2>1. /\ c \in FlowObjects /\ agenda # << >>
        /\ \A o \in Automatic : WorkTaken(o) = IF o = c THEN 1 ELSE 0
    BY <1>6, RunningFacts DEF FlowObjectHandled
  <2> QED
    BY <1>6, <2>1, LeaveAccount DEF FlowObjectHandled
<1>7. CASE JoinCompletes
  <2>1. c \in FlowObjects /\ Rest = Tail(agenda) /\ \A o \in Automatic : WorkTaken(o) = 0
    BY <1>7, RunningFacts DEF JoinCompletes
  <2>2. \A o \in Automatic : tokens'[o] = tokens[o]
    BY <1>7, <2>1, OtherTokens DEF JoinCompletes, Renewed
  <2>3. Placed(Item("ended", c)) /\ "ended" \in ContinuationOps \ {"begun", "handled"}
    BY DEF Placed, Item, ContinuationOps
  <2> QED
    BY <1>7, <2>1, <2>2, <2>3, HandlerAccount DEF JoinCompletes
<1>8. CASE JoinWaits
  <2>1. c \in FlowObjects /\ Rest = Tail(agenda) /\ \A o \in Automatic : WorkTaken(o) = 0
    BY <1>8, RunningFacts DEF JoinWaits
  <2>2. \A o \in Automatic : tokens'[o] = tokens[o]
    BY <1>8, <2>1, OtherTokens DEF JoinWaits, Renewed
  <2>3. agenda' = <<Item("persist", c)>> \o Rest /\ "persist" \in PlainOps
    BY <1>8, <2>1 DEF JoinWaits, Proceed, PlainOps
  <2> QED
    BY <1>8, <2>1, <2>2, <2>3, PlainCalls DEF JoinWaits
<1>9. CASE EmitAlongAll
  <2>1. c \in FlowObjects /\ Rest = Tail(agenda) /\ \A o \in Automatic : WorkTaken(o) = 0
    BY <1>9, RunningFacts DEF EmitAlongAll
  <2>2. agenda' = Puts(c) \o Rest /\ Puts(c) \in Seq(Items)
    BY <1>9, <2>1, PutsAndArms DEF EmitAlongAll, Proceed
  <2> QED
    BY <1>9, <2>1, <2>2, PutsArePlain, PlainAccount DEF EmitAlongAll
<1>10. CASE EmitAlongOne
  <2>1. c \in FlowObjects /\ Rest = Tail(agenda) /\ \A o \in Automatic : WorkTaken(o) = 0
    BY <1>10, RunningFacts DEF EmitAlongOne
  <2>2. "put" \in PlainOps
    BY DEF PlainOps
  <2>3. ASSUME NEW i \in DOMAIN Outgoing[c], Proceed(<<Puts(c)[i]>>)
        PROVE  AccountInv'
    <3>1. Outgoing[c][i] \in FlowObjects
      BY <2>1, DefinitionAssumption
    <3>2. agenda' = <<Item("put", Outgoing[c][i])>> \o Rest
      BY <2>1, <2>3 DEF Proceed, Puts
    <3> QED
      BY <1>10, <2>1, <2>2, <3>1, <3>2, PlainCalls DEF EmitAlongOne
  <2>4. ASSUME Proceed(<< >>) PROVE AccountInv'
    <3>1. agenda' = << >> \o Rest
      BY <2>1, <2>4 DEF Proceed
    <3> QED
      BY <1>10, <2>1, <2>2, <3>1, PlainCalls DEF EmitAlongOne
  <2> QED
    BY <1>10, <2>3, <2>4 DEF EmitAlongOne
<1>11. CASE Fork
  <2>1. c \in FlowObjects /\ Rest = Tail(agenda) /\ \A o \in Automatic : WorkTaken(o) = 0
    BY <1>11, RunningFacts DEF Fork
  <2>2. \A o \in Automatic : tokens'[o] = tokens[o]
    BY <1>11, <2>1, OtherTokens DEF Fork
  <2>3. agenda' = Puts(c) \o Rest /\ Puts(c) \in Seq(Items)
    BY <1>11, <2>1, PutsAndArms DEF Fork, Proceed
  <2> QED
    BY <1>11, <2>1, <2>2, <2>3, PutsArePlain, PlainAccount DEF Fork
<1>12. CASE EndMainProcess
  <2>1. c \in FlowObjects /\ Rest = Tail(agenda) /\ \A o \in Automatic : WorkTaken(o) = 0
    BY <1>12, RunningFacts DEF EndMainProcess
  <2>2. agenda' = <<Item("persistAndClose", c)>> \o Rest /\ "persistAndClose" \in PlainOps
    BY <1>12, <2>1 DEF EndMainProcess, Proceed, PlainOps
  <2> QED
    BY <1>12, <2>1, <2>2, PlainCalls DEF EndMainProcess
<1>13. CASE EndCalledProcess
  <2> DEFINE a == CallOf[ProcessOf[c]]
  <2>1. c \in FlowObjects /\ Rest = Tail(agenda) /\ \A o \in Automatic : WorkTaken(o) = 0
    BY <1>13, RunningFacts DEF EndCalledProcess
  <2>2. a \in FlowObjects /\ Kind[a] = "call"
    BY <1>13, <2>1, DefinitionAssumption DEF EndCalledProcess, OfKind
  <2> HIDE DEF a
  <2>3. /\ Item("activityEnd", a) \in Events /\ Item("activityEnd", a) \in Items
        /\ Placed(Item("activityEnd", a))
    BY <2>2, ItemType DEF EventOps, Placed, Item
  <2>4. EmitEvent(Item("activityEnd", a), Rest) /\ UNCHANGED <<tokens, pending>>
    BY <1>13, <2>1 DEF EndCalledProcess, a
  <2>5. Moves(<<Item("activityEnd", a)>>) /\ Received'
    BY <2>3, <2>4, EmitEventMoves, EmitEventReceived DEF AccountInv
  <2>6. ASSUME NEW o \in Automatic
        PROVE  tokens'[o] + WorkTaken(o) = tokens[o] + Work(Item("activityEnd", a), o)
    BY <2>1, <2>4 DEF Work, Item
  <2> QED
    BY <2>3, <2>5, <2>6, OneAdded
<1>14. CASE EnterCall
  <2>1. /\ c \in FlowObjects /\ agenda # << >>
        /\ \A o \in Automatic : WorkTaken(o) = 0
    BY <1>14, RunningFacts DEF EnterCall
  <2>2. \A o \in Automatic : tokens'[o] = tokens[o]
    BY <1>14, <2>1, OtherTokens DEF EnterCall, Renewed
  <2>3. agenda' = Append(Tail(agenda), Item("startCall", c)) /\ UNCHANGED <<pending, deferred>>
    BY <1>14 DEF EnterCall
  <2> QED
    BY <2>1, <2>2, <2>3, AppendAccount
<1>15. CASE StartCalledProcess
  <2>1. Rest = Tail(agenda) /\ \A o \in Automatic : WorkTaken(o) = 0
    BY <1>15, RunningFacts DEF StartCalledProcess
  <2>2. PICK p \in called : Proceed(<<Item("put", StartOf[p])>>)
    BY <1>15 DEF StartCalledProcess
  <2>3. StartOf[p] \in FlowObjects
    BY DefinitionAssumption DEF TypeOK, OfKind
  <2>4. agenda' = <<Item("put", StartOf[p])>> \o Rest /\ "put" \in PlainOps
    BY <2>1, <2>2 DEF Proceed, PlainOps
  <2>5. UNCHANGED <<tokens, pending, deferred>>
    BY <1>15 DEF StartCalledProcess
  <2> QED
    BY <2>1, <2>3, <2>4, <2>5, PlainCalls
<1> QED
  BY <1>1, <1>2, <1>3, <1>4, <1>5, <1>6, <1>7, <1>8, <1>9, <1>10, <1>11, <1>12, <1>13,
     <1>14, <1>15 DEF TokenStep

LEMMA EventStepAccount == TypeOK /\ TypeOK' /\ AccountInv /\ EventStep => AccountInv'
<1> SUFFICES ASSUME TypeOK, TypeOK', AccountInv, EventStep PROVE AccountInv'
  OBVIOUS
<1> DEFINE c == Current
<1> USE AutomaticFacts
<1>1. CASE ActivityEnds
  <2>1. /\ c \in FlowObjects /\ Rest = Tail(agenda) /\ Placed(Item("activityEnd", c))
        /\ \A o \in Automatic : WorkTaken(o) = 0
    BY <1>1, RunningFacts DEF ActivityEnds
  <2>2. Placed(Item("activityDone", c)) /\ "activityDone" \in ContinuationOps \ {"begun", "handled"}
    BY <2>1 DEF Placed, Item, ContinuationOps
  <2> QED
    BY <1>1, <2>1, <2>2, HandlerAccount DEF ActivityEnds
<1>2. CASE ActivityLeft
  <2>1. /\ c \in FlowObjects /\ agenda # << >> /\ Placed(Item("activityDone", c))
        /\ \A o \in Automatic : WorkTaken(o) = 0
    BY <1>2, RunningFacts DEF ActivityLeft
  <2>2. c \notin Automatic
    BY <2>1 DEF Placed, Item
  <2> QED
    BY <1>2, <2>1, <2>2, LeaveAccount DEF ActivityLeft
<1>3. CASE EmitCatchEvent
  <2>1. /\ c \in FlowObjects /\ Rest = Tail(agenda) /\ Placed(Item("emitCatch", c))
        /\ \A o \in Automatic : WorkTaken(o) = 0
    BY <1>3, RunningFacts DEF EmitCatchEvent
  <2>2. /\ Item("catch", c) \in Events /\ Item("catch", c) \in Items
        /\ Placed(Item("catch", c))
    BY <2>1, ItemType DEF EventOps, Placed, Item
  <2>3. EmitEvent(Item("catch", c), Rest) /\ UNCHANGED <<tokens, pending>>
    BY <1>3, <2>1 DEF EmitCatchEvent
  <2>4. Moves(<<Item("catch", c)>>) /\ Received'
    BY <2>2, <2>3, EmitEventMoves, EmitEventReceived DEF AccountInv
  <2>5. ASSUME NEW o \in Automatic
        PROVE  tokens'[o] + WorkTaken(o) = tokens[o] + Work(Item("catch", c), o)
    BY <2>1, <2>3 DEF Work, Item
  <2> QED
    BY <2>2, <2>4, <2>5, OneAdded
<1>4. CASE CatchEvent
  <2>1. /\ c \in FlowObjects /\ Rest = Tail(agenda) /\ Placed(Item("catch", c))
        /\ \A o \in Automatic : WorkTaken(o) = 0
    BY <1>4, RunningFacts DEF CatchEvent
  <2>2. Placed(Item("caught", c)) /\ "caught" \in ContinuationOps \ {"begun", "handled"}
    BY <2>1 DEF Placed, Item, ContinuationOps
  <2> QED
    BY <1>4, <2>1, <2>2, HandlerAccount DEF CatchEvent
<1>5. CASE EventCaught
  <2>1. /\ c \in FlowObjects /\ agenda # << >> /\ Placed(Item("caught", c))
        /\ \A o \in Automatic : WorkTaken(o) = 0
    BY <1>5, RunningFacts DEF EventCaught
  <2>2. c \notin Automatic
    BY <2>1 DEF Placed, Item
  <2> QED
    BY <1>5, <2>1, <2>2, LeaveAccount DEF EventCaught
<1>6. CASE CatchBoundaryEvent
  <2>1. /\ c \in FlowObjects /\ Rest = Tail(agenda) /\ Placed(Item("boundaryCatch", c))
        /\ \A o \in Automatic : WorkTaken(o) = 0
    BY <1>6, RunningFacts DEF CatchBoundaryEvent
  <2>2. Host(c) \notin Automatic
    BY <2>1, HostWaits DEF Placed, Item
  <2>3. \A o \in Automatic : tokens'[o] = tokens[o]
    <3> DEFINE h == Host(c)
    <3>1. tokens' = [tokens EXCEPT ![h] = IF tokens[h] > 0 THEN tokens[h] - 1 ELSE 0]
      BY <1>6 DEF CatchBoundaryEvent, Remove
    <3> HIDE DEF h
    <3>2. h \notin Automatic
      BY <2>2 DEF h
    <3> QED
      BY <3>1, <3>2, OtherTokens
  <2>4. agenda' = <<Item("put", c)>> \o Rest /\ "put" \in PlainOps
    BY <1>6, <2>1 DEF CatchBoundaryEvent, Proceed, PlainOps
  <2>5. UNCHANGED <<pending, deferred>>
    BY <1>6 DEF CatchBoundaryEvent
  <2> QED
    BY <2>1, <2>3, <2>4, <2>5, PlainCalls
<1>7. CASE UnhandledEvent
  <2>1. PICK op \in {"activityEnd", "catch", "boundaryCatch"} : Running(op)
    BY <1>7 DEF UnhandledEvent
  <2>2. /\ c \in FlowObjects /\ Rest = Tail(agenda)
        /\ \A o \in Automatic : WorkTaken(o) = 0
    BY <2>1, RunningFacts
  <2>3. agenda' = << >> \o Rest /\ "put" \in PlainOps
    BY <1>7, <2>2 DEF UnhandledEvent, Proceed, PlainOps
  <2>4. UNCHANGED <<tokens, pending, deferred>>
    BY <1>7 DEF UnhandledEvent
  <2> QED
    BY <2>2, <2>3, <2>4, PlainCalls
<1> QED
  BY <1>1, <1>2, <1>3, <1>4, <1>5, <1>6, <1>7 DEF EventStep

\* A timer that expires takes the token of a catch event, which is not automatic, or
\* starts a boundary event.
LEMMA ExpireAccount ==
  ASSUME TypeOK, TypeOK', AccountInv, NEW t \in TimerEvents, Expire(t, Rest),
         \A o \in Automatic : WorkTaken(o) = 0
  PROVE  AccountInv'
<1>1. t \in FlowObjects
  BY DEF TimerEvents, OfKind
<1>2. CASE t \in BoundaryEvents
  <2>1. /\ agenda' = <<Item("put", t)>> \o Rest /\ UNCHANGED <<tokens, pending, deferred>>
        /\ "put" \in PlainOps
    BY <1>2 DEF Expire, PlainOps
  <2> QED
    BY <1>1, <2>1, PlainCalls
<1>3. CASE t \notin BoundaryEvents
  <2>1. /\ CallHandler(Item("timerHandled", t), Rest) /\ UNCHANGED deferred
        /\ tokens' = Remove(t)
    BY <1>3 DEF Expire
  <2>2. \A o \in Automatic : tokens'[o] = tokens[o]
    BY <1>3, <2>1, AutomaticFacts, OtherTokens DEF Remove
  <2>3. Placed(Item("timerHandled", t)) /\ "timerHandled" \in ContinuationOps \ {"begun", "handled"}
    BY DEF Placed, Item, ContinuationOps
  <2> QED
    BY <1>1, <2>1, <2>2, <2>3, HandlerAccount
<1> QED
  BY <1>2, <1>3

LEMMA TimerStepAccount == TypeOK /\ TypeOK' /\ AccountInv /\ (TimerStep \/ Persist) => AccountInv'
<1> SUFFICES ASSUME TypeOK, TypeOK', AccountInv, TimerStep \/ Persist PROVE AccountInv'
  OBVIOUS
<1> DEFINE c == Current
<1>1. CASE ArmTimer \/ Persist
  <2>1. PICK op \in {"arm", "persist", "persistAndClose"} : Running(op)
    BY <1>1 DEF ArmTimer, Persist
  <2>2. c \in FlowObjects /\ Rest = Tail(agenda) /\ \A o \in Automatic : WorkTaken(o) = 0
    BY <2>1, RunningFacts
  <2>3. agenda' = << >> \o Rest /\ "put" \in PlainOps
    BY <1>1, <2>2 DEF ArmTimer, Persist, Proceed, PlainOps
  <2>4. UNCHANGED <<tokens, pending, deferred>>
    BY <1>1 DEF ArmTimer, Persist
  <2> QED
    BY <2>2, <2>3, <2>4, PlainCalls
<1>2. CASE ArmExpiredTimer
  <2>1. Rest = Tail(agenda) /\ \A o \in Automatic : WorkTaken(o) = 0
    BY <1>2, RunningFacts DEF ArmExpiredTimer
  <2>2. c \in TimerEvents
    BY <1>2, EnvironmentAssumption DEF ArmExpiredTimer
  <2>3. Expire(c, Rest)
    BY <1>2, <2>1 DEF ArmExpiredTimer
  <2> QED
    BY <2>1, <2>2, <2>3, ExpireAccount
<1>3. CASE TimerHandled
  <2>1. c \in FlowObjects /\ Rest = Tail(agenda) /\ \A o \in Automatic : WorkTaken(o) = 0
    BY <1>3, RunningFacts DEF TimerHandled
  <2>2. Placed(Item("ended", c)) /\ "ended" \in ContinuationOps \ {"begun", "handled"}
    BY DEF Placed, Item, ContinuationOps
  <2> QED
    BY <1>3, <2>1, <2>2, HandlerAccount DEF TimerHandled
<1> QED
  BY <1>1, <1>2, <1>3 DEF TimerStep

LEMMA TimerEventAccount == TypeOK /\ TypeOK' /\ AccountInv /\ TimerEvent => AccountInv'
<1> SUFFICES ASSUME TypeOK, TypeOK', AccountInv, NEW t \in TimerEvents,
                    TimerFires(t) \/ LeakedTimerFires(t)
             PROVE  AccountInv'
  BY DEF TimerEvent
<1>1. agenda = << >> /\ Expire(t, << >>)
  BY DEF TimerFires, LeakedTimerFires
<1>2. Rest = << >> /\ \A o \in Automatic : WorkTaken(o) = 0
  BY <1>1, NothingRuns
<1>3. Expire(t, Rest)
  BY <1>1, <1>2, Zenon
<1> QED
  BY <1>2, <1>3, ExpireAccount

LEMMA AccountUntouched ==
  ASSUME AccountInv, UNCHANGED <<tokens, agenda, pending, deferred>>
  PROVE  AccountInv'
<1>1. \A e : Outstanding(e)' = Outstanding(e)
  BY DEF Outstanding, OnAgenda, Held, Deferred, Occurrences, Receiver
<1>2. WellPlaced'
  BY <1>1 DEF AccountInv, WellPlaced, Placed
<1>3. Received'
  BY SameReceived DEF AccountInv
<1>4. TokensHaveWork'
  BY DEF AccountInv, TokensHaveWork, WorkAt, OnAgenda, Held, Deferred, Occurrences
<1> QED
  BY <1>2, <1>3, <1>4 DEF AccountInv

\* Entries change hands, and nothing else happens.
LEMMA NothingAdded ==
  ASSUME TypeOK, TypeOK', AccountInv, agenda = << >>, Moves(<< >>), Received', UNCHANGED tokens
  PROVE  AccountInv'
<1>1. << >> \in Seq(Items) /\ \A i \in DOMAIN << >> : << >>[i].op \in PlainOps
  OBVIOUS
<1>2. \A o \in Automatic : tokens'[o] + WorkTaken(o) = tokens[o]
  BY NothingRuns DEF TypeOK, Automatic, OfKind
<1> QED
  BY <1>1, <1>2, PlainAdded, Zenon

LEMMA IoEventAccount == TypeOK /\ TypeOK' /\ AccountInv /\ IoEvent => AccountInv'
<1> SUFFICES ASSUME TypeOK, TypeOK', AccountInv, IoEvent PROVE AccountInv'
  OBVIOUS
<1>1. CASE SaveDone \/ ConnectionClosed
  <2>1. agenda = << >> /\ EmitDeferredEvents /\ UNCHANGED <<tokens, pending>>
    BY <1>1 DEF SaveDone, ConnectionClosed
  <2>2. Moves(<< >>)
    BY <2>1, EmitDeferredEventsMoves DEF AccountInv
  <2>3. Received'
    <3>1. deferred \in [Processes -> Seq(Events)] /\ deferred' = [deferred EXCEPT ![Main] = << >>]
      BY <2>1 DEF TypeOK, EmitDeferredEvents
    <3> QED
      BY <3>1 DEF AccountInv, Received, Receiver
  <2> QED
    BY <2>1, <2>2, <2>3, NothingAdded
<1>2. CASE FinalSaveDone \/ SaveFails
  BY <1>2, AccountUntouched DEF FinalSaveDone, SaveFails
<1> QED
  BY <1>1, <1>2 DEF IoEvent

LEMMA HandlerAnswersAccount ==
  ASSUME TypeOK, TypeOK', AccountInv, NEW k \in Late, HandlerAnswers(k)
  PROVE  AccountInv'
<1>1. Received'
  BY SameReceived DEF HandlerAnswers, AccountInv
<1> QED
  BY <1>1, HandlerAnswersMoves, NothingAdded DEF HandlerAnswers

LEMMA ClientStepAccount == TypeOK /\ TypeOK' /\ AccountInv /\ ClientStep => AccountInv'
<1> SUFFICES ASSUME TypeOK, TypeOK', AccountInv, ClientStep PROVE AccountInv'
  OBVIOUS
<1>1. ASSUME NEW op \in {"activityEnd", "boundaryCatch"}, NEW o \in FlowObjects,
             Placed(Item(op, o)), agenda = << >>, EmitEvent(Item(op, o), << >>),
             UNCHANGED <<tokens, pending>>
      PROVE  AccountInv'
  <2>1. Item(op, o) \in Events /\ Item(op, o) \in Items
    BY ItemType DEF EventOps
  <2>2. Rest = << >> /\ \A a : WorkTaken(a) = 0
    BY <1>1, NothingRuns
  <2>3. EmitEvent(Item(op, o), Rest)
    BY <1>1, <2>2, Zenon
  <2>4. Moves(<<Item(op, o)>>) /\ Received'
    BY <1>1, <2>1, <2>3, EmitEventMoves, EmitEventReceived DEF AccountInv
  <2>5. ASSUME NEW a \in Automatic
        PROVE  tokens'[a] + WorkTaken(a) = tokens[a] + Work(Item(op, o), a)
    BY <1>1, <2>2 DEF Work, Item
  <2> QED
    BY <1>1, <2>1, <2>4, <2>5, OneAdded
<1>2. ASSUME NEW op \in {"put", "emitCatch"}, NEW o \in FlowObjects, Placed(Item(op, o)),
             agenda = << >>, agenda' = <<Item(op, o)>>, UNCHANGED <<tokens, pending, deferred>>
      PROVE  AccountInv'
  <2> DEFINE x == Item(op, o)
  <2>1. x \in Items /\ <<x>> \in Seq(Items)
    BY ItemType DEF CallOps
  <2>2. Rest = << >> /\ \A a : WorkTaken(a) = 0
    BY <1>2, NothingRuns
  <2>3. agenda' = <<x>> \o Rest
    <3>1. <<x>> \o << >> = <<x>>
      BY <2>1
    <3> QED
      BY <1>2, <2>2, <3>1, Zenon
  <2>4. Moves(<<x>>) /\ Received'
    BY <1>2, <2>1, <2>3, ProceedMoves, SameReceived DEF AccountInv
  <2>5. ASSUME NEW a \in Automatic
        PROVE  tokens'[a] + WorkTaken(a) = tokens[a] + Work(x, a)
    BY <1>2, <2>2 DEF Work, Item
  <2> QED
    BY <1>2, <2>1, <2>4, <2>5, OneAdded
<1>3. CASE TriggerStart
  <2>1. StartOf[Main] \in FlowObjects
    BY DefinitionAssumption DEF OfKind
  <2>2. Placed(Item("put", StartOf[Main]))
    BY DEF Placed, Item
  <2> QED
    BY <1>2, <1>3, <2>1, <2>2 DEF TriggerStart, ClientCalls
<1>4. ASSUME NEW o \in FlowObjects, TaskDone(o) PROVE AccountInv'
  <2>1. Placed(Item("activityEnd", o))
    BY <1>4 DEF TaskDone, Placed, Item
  <2> QED
    BY <1>1, <1>4, <2>1 DEF TaskDone, ClientCalls
<1>5. ASSUME NEW o \in FlowObjects, TriggerCatchEvent(o) PROVE AccountInv'
  <2>1. Placed(Item("emitCatch", o))
    BY <1>5 DEF TriggerCatchEvent, Placed, Item
  <2> QED
    BY <1>2, <1>5, <2>1 DEF TriggerCatchEvent, ClientCalls
<1>6. ASSUME NEW b \in FlowObjects, TriggerBoundaryEvent(b) PROVE AccountInv'
  <2>1. Placed(Item("boundaryCatch", b))
    BY <1>6 DEF TriggerBoundaryEvent, Placed, Item
  <2> QED
    BY <1>1, <1>6, <2>1 DEF TriggerBoundaryEvent, ClientCalls
<1> QED
  BY <1>3, <1>4, <1>5, <1>6 DEF ClientStep

LEMMA AccountStep == TypeOK /\ AccountInv /\ [Next]_vars => AccountInv'
<1> SUFFICES ASSUME TypeOK, AccountInv, [Next]_vars PROVE AccountInv'
  OBVIOUS
<1>1. TypeOK'
  BY NextType
<1>2. CASE RunStep
  BY <1>1, <1>2, TokenStepAccount, EventStepAccount, TimerStepAccount DEF RunStep
<1>3. CASE \E k \in Late : HandlerAnswers(k)
  BY <1>1, <1>3, HandlerAnswersAccount
<1>4. CASE Idle \/ UNCHANGED vars
  BY <1>4, AccountUntouched DEF Idle, vars
<1> QED
  BY <1>1, <1>2, <1>3, <1>4, TimerEventAccount, IoEventAccount, ClientStepAccount DEF Next

LEMMA AccountInit == Init => AccountInv
<1> SUFFICES ASSUME Init PROVE AccountInv
  OBVIOUS
<1>1. \A e \in Items : Outstanding(e) = 0
  <2> TAKE e \in Items
  <2>1. agenda = << >> /\ deferred[Receiver(e)] = << >>
    BY ReceiverType DEF Init
  <2>2. OnAgenda(e) = 0 /\ Deferred(Receiver(e), e) = 0
    BY <2>1, OccurrencesFew, Zenon DEF OnAgenda, Deferred
  <2>3. Held(e) = 0
    BY DEF Init, Held
  <2> QED
    BY <2>2, <2>3 DEF Outstanding
<1>2. Received
  BY DEF Init, Received
<1>3. TokensHaveWork
  <2> SUFFICES ASSUME NEW o \in Automatic PROVE tokens[o] = WorkAt(o)
    BY DEF TokensHaveWork
  <2>1. TypeOK
    <3>1. << >> \in Seq(Items) /\ << >> \in Seq(Events)
      OBVIOUS
    <3> QED
      BY <3>1 DEF Init, TypeOK
  <2>2. o \in FlowObjects
    BY AutomaticFacts
  <2>3. WorkAt(o) = Outstanding(Item("begun", o)) + Outstanding(Item("arrived", o))
                      + Outstanding(Item("handled", o))
    BY <2>1, <2>2, WorkOutstanding
  <2>4. WorkAt(o) = 0
    BY <1>1, <2>2, <2>3, WorkItems
  <2> QED
    BY <2>2, <2>4 DEF Init
<1> QED
  BY <1>1, <1>2, <1>3 DEF AccountInv, WellPlaced

\* No token of an automatic object is lost or doubled, for every definition, every
\* number of tokens, every client, and handlers and saves that answer in any order: as
\* many pieces of work that will take it further are on the agenda, with a handler, or
\* among the events that _emitEvent keeps while the engine saves.
THEOREM TokensAreAccountedFor == Spec => []TokensHaveWork
<1>1. Spec => []AccountInv
  BY AccountInit, AccountStep, TypeCorrectness, PTL DEF Spec
<1>2. AccountInv => TokensHaveWork
  BY DEF AccountInv
<1> QED
  BY <1>1, <1>2, PTL

-----------------------------------------------------------------------------
(****************************************************************************)
(* What is outstanding stays so until it is the head of the agenda.         *)
(****************************************************************************)

WorkOps == {"begun", "arrived", "handled"}

\* Work is added where a token is put, and where the work before it is done.
Follows(new) ==
  \A i \in DOMAIN new :
    new[i].op \in WorkOps =>
      new[i].at = Current /\ (PutToken \/ Running("begun") \/ Running("arrived"))

LEMMA FollowsOne ==
  ASSUME NEW x, x.op \notin WorkOps
  PROVE  Follows(<<x>>)
  BY DEF Follows

LEMMA ExpireMoves ==
  ASSUME TypeOK, NEW t \in FlowObjects, Expire(t, Rest)
  PROVE  \E new \in Seq(Items) : Moves(new) /\ Follows(new)
<1>1. Item("put", t) \in Items /\ Item("timerHandled", t) \in Items
  BY ItemType DEF CallOps, ContinuationOps
<1>2. <<Item("put", t)>> \in Seq(Items) /\ <<Item("timerHandled", t)>> \in Seq(Items)
  BY <1>1
<1>3. CASE t \in BoundaryEvents
  <2>1. Moves(<<Item("put", t)>>)
    BY <1>2, <1>3, ProceedMoves DEF Expire
  <2>2. Follows(<<Item("put", t)>>)
    BY FollowsOne DEF Item, WorkOps
  <2> QED
    BY <1>2, <2>1, <2>2, Zenon
<1>4. CASE t \notin BoundaryEvents
  <2>1. Moves(<<Item("timerHandled", t)>>)
    BY <1>1, <1>4, CallHandlerMoves DEF Expire
  <2>2. Follows(<<Item("timerHandled", t)>>)
    BY FollowsOne DEF Item, WorkOps
  <2> QED
    BY <1>2, <2>1, <2>2, Zenon
<1> QED
  BY <1>3, <1>4

\* The ways in which a step ends: it calls handlers, makes calls, or emits an event.
LEMMA RunMoves ==
  ASSUME TypeOK, RunStep
  PROVE  \E new \in Seq(Items) : Moves(new) /\ Follows(new)
<1> DEFINE c == Current
           done == \E new \in Seq(Items) : Moves(new) /\ Follows(new)
<1>1. agenda # << >> /\ c \in FlowObjects /\ Rest = Tail(agenda)
  <2>1. agenda # << >>
    BY DEF RunStep, TokenStep, PutToken, AnnounceToken, ArriveAtCatchEvent, ArriveAtFlowObject,
       WaitTaskHandled, FlowObjectHandled, JoinCompletes, JoinWaits, EmitAlongAll, EmitAlongOne,
       Fork, EndMainProcess, EndCalledProcess, EnterCall, StartCalledProcess, EventStep,
       ActivityEnds, ActivityLeft, EmitCatchEvent, CatchEvent, EventCaught, CatchBoundaryEvent,
       UnhandledEvent, TimerStep, ArmTimer, ArmExpiredTimer, TimerHandled, Persist, Running
  <2> QED
    BY <2>1, HeadType DEF Rest, Current
<1>2. ASSUME NEW x \in Items, CallHandler(x, Rest), UNCHANGED deferred, Follows(<<x>>) PROVE done
  <2>1. <<x>> \in Seq(Items) /\ Moves(<<x>>)
    BY <1>2, CallHandlerMoves
  <2> QED
    BY <1>2, <2>1, Zenon
<1>3. ASSUME NEW x \in Events, EmitEvent(x, Rest), UNCHANGED pending, Follows(<<x>>) PROVE done
  <2>1. <<x>> \in Seq(Items)
    BY DEF Events, Items
  <2>2. Moves(<<x>>)
    BY <1>3, EmitEventMoves
  <2> QED
    BY <1>3, <2>1, <2>2, Zenon
<1>4. ASSUME NEW new \in Seq(Items), agenda' = new \o Rest, UNCHANGED <<pending, deferred>>,
             \A i \in DOMAIN new : new[i].op \notin WorkOps
      PROVE  done
  <2>1. Moves(new)
    BY <1>4, ProceedMoves
  <2>2. Follows(new)
    BY <1>4 DEF Follows
  <2> QED
    BY <2>1, <2>2, Zenon
<1>5. /\ \A op \in EventOps : Item(op, c) \in Events
      /\ \A op \in ContinuationOps \cup CallOps : Item(op, c) \in Items
  BY <1>1, ItemType
<1>6. /\ << >> \in Seq(Items) /\ \A x \in Items : <<x>> \in Seq(Items)
      /\ \A x, y \in Items : <<x, y>> \in Seq(Items)
      /\ Puts(c) \in Seq(Items) /\ Arms(c) \o <<Item("persist", c)>> \in Seq(Items)
  <2>1. << >> \in Seq(Items) /\ \A x \in Items : <<x>> \in Seq(Items)
    OBVIOUS
  <2>2. \A x, y \in Items : <<x, y>> \in Seq(Items)
    OBVIOUS
  <2>3. Puts(c) \in Seq(Items) /\ Arms(c) \o <<Item("persist", c)>> \in Seq(Items)
    BY <1>1, PutsAndArms, PutsArePlain, Zenon
  <2> QED
    BY <2>1, <2>2, <2>3
<1>7. CASE PutToken \/ ArriveAtFlowObject \/ JoinCompletes \/ ActivityEnds \/ CatchEvent \/ TimerHandled
  <2>1. PICK o \in {"begun", "handled", "ended", "activityDone", "caught"} :
               /\ CallHandler(Item(o, c), Rest) /\ UNCHANGED deferred
               /\ o = "begun" => PutToken
               /\ o = "handled" => JoinCompletes \/ Running("arrived")
    BY <1>1, <1>7 DEF PutToken, ArriveAtFlowObject, JoinCompletes, ActivityEnds, CatchEvent, TimerHandled
  <2>2. Item(o, c) \in Items
    BY <1>5 DEF ContinuationOps
  <2>3. CASE JoinCompletes
    <3>1. CallHandler(Item("ended", c), Rest) /\ UNCHANGED deferred
      BY <1>1, <2>3 DEF JoinCompletes
    <3>2. Follows(<<Item("ended", c)>>) /\ Item("ended", c) \in Items
      BY <1>5, FollowsOne DEF Item, WorkOps, ContinuationOps
    <3> QED
      BY <1>2, <3>1, <3>2
  <2>4. CASE ~JoinCompletes
    <3>1. Follows(<<Item(o, c)>>)
      BY <2>1, <2>4 DEF Follows, Item, WorkOps
    <3> QED
      BY <1>2, <2>1, <2>2, <3>1
  <2> QED
    BY <2>3, <2>4
<1>8. CASE FlowObjectHandled \/ ActivityLeft \/ EventCaught
  <2>1. CallHandler(Item("ended", c), Rest) /\ UNCHANGED deferred
    BY <1>1, <1>8 DEF FlowObjectHandled, ActivityLeft, EventCaught, Leave
  <2>2. Item("ended", c) \in Items /\ Follows(<<Item("ended", c)>>)
    BY <1>5, FollowsOne DEF ContinuationOps, Item, WorkOps
  <2> QED
    BY <1>2, <2>1, <2>2
<1>9. CASE AnnounceToken \/ EmitCatchEvent
  <2>1. PICK o \in {"arrived", "catch"} :
               /\ EmitEvent(Item(o, c), Rest) /\ UNCHANGED pending
               /\ o = "arrived" => Running("begun")
    BY <1>1, <1>9 DEF AnnounceToken, EmitCatchEvent
  <2>2. Item(o, c) \in Events /\ Follows(<<Item(o, c)>>)
    BY <1>5, <2>1 DEF EventOps, Follows, Item, WorkOps
  <2> QED
    BY <1>3, <2>1, <2>2
<1>10. CASE EndCalledProcess
  <2> DEFINE a == CallOf[ProcessOf[c]]
  <2>1. a \in FlowObjects
    BY <1>1, <1>10, DefinitionAssumption DEF EndCalledProcess, OfKind
  <2>2. Item("activityEnd", a) \in Events /\ Follows(<<Item("activityEnd", a)>>)
    BY <2>1, ItemType, FollowsOne DEF EventOps, Item, WorkOps
  <2>3. EmitEvent(Item("activityEnd", a), Rest) /\ UNCHANGED pending
    BY <1>1, <1>10 DEF EndCalledProcess
  <2> QED
    BY <1>3, <2>2, <2>3
<1>11. CASE \/ ArriveAtCatchEvent \/ WaitTaskHandled \/ JoinWaits \/ EmitAlongAll \/ Fork
            \/ EndMainProcess \/ CatchBoundaryEvent \/ UnhandledEvent \/ ArmTimer \/ Persist
  <2>1. UNCHANGED <<pending, deferred>>
    BY <1>11 DEF ArriveAtCatchEvent, WaitTaskHandled, JoinWaits, EmitAlongAll, Fork, EndMainProcess,
       CatchBoundaryEvent, UnhandledEvent, ArmTimer, Persist
  <2>2. \/ agenda' = << >> \o Rest
        \/ agenda' = <<Item("persist", c)>> \o Rest
        \/ agenda' = <<Item("arm", c), Item("persist", c)>> \o Rest
        \/ agenda' = <<Item("persistAndClose", c)>> \o Rest
        \/ agenda' = <<Item("put", c)>> \o Rest
        \/ agenda' = Puts(c) \o Rest
        \/ agenda' = (Arms(c) \o <<Item("persist", c)>>) \o Rest
    BY <1>1, <1>11 DEF ArriveAtCatchEvent, WaitTaskHandled, JoinWaits, EmitAlongAll, Fork, EndMainProcess,
       CatchBoundaryEvent, UnhandledEvent, ArmTimer, Persist, Proceed
  <2>3. /\ Item("persist", c) \in Items /\ Item("arm", c) \in Items
        /\ Item("persistAndClose", c) \in Items /\ Item("put", c) \in Items
    BY <1>5 DEF CallOps
  <2>4. \E new \in Seq(Items) :
          agenda' = new \o Rest /\ \A i \in DOMAIN new : new[i].op \notin WorkOps
    <3>1. /\ \A i \in DOMAIN << >> : << >>[i].op \notin WorkOps
          /\ \A op \in PlainOps : \A i \in DOMAIN <<Item(op, c)>> : <<Item(op, c)>>[i].op \notin WorkOps
          /\ \A i \in DOMAIN <<Item("arm", c), Item("persist", c)>> :
               <<Item("arm", c), Item("persist", c)>>[i].op \notin WorkOps
      BY DEF Item, WorkOps, PlainOps
    <3>2. /\ \A i \in DOMAIN Puts(c) : Puts(c)[i].op \notin WorkOps
          /\ \A i \in DOMAIN (Arms(c) \o <<Item("persist", c)>>) :
               (Arms(c) \o <<Item("persist", c)>>)[i].op \notin WorkOps
      <4>1. PlainOps \cap WorkOps = {}
        BY DEF PlainOps, WorkOps
      <4> QED
        BY <1>1, <4>1, PutsArePlain, Zenon
    <3>3. {"persist", "persistAndClose", "put"} \subseteq PlainOps
      BY DEF PlainOps
    <3> QED
      BY <1>6, <2>2, <2>3, <3>1, <3>2, <3>3, Zenon
  <2> QED
    BY <1>4, <2>1, <2>4, Zenon
<1>12. CASE EmitAlongOne
  <2>1. UNCHANGED <<pending, deferred>>
    BY <1>12 DEF EmitAlongOne
  <2>2. agenda' = << >> \o Rest \/ \E i \in DOMAIN Outgoing[c] : agenda' = <<Puts(c)[i]>> \o Rest
    BY <1>1, <1>12 DEF EmitAlongOne, Proceed
  <2>3. \A i \in DOMAIN Outgoing[c] : Puts(c)[i] \in Items
    <3>1. \A i \in DOMAIN Outgoing[c] : Outgoing[c][i] \in FlowObjects
      BY <1>1, DefinitionAssumption
    <3> QED
      BY <3>1, ItemType DEF Puts, CallOps
  <2>4. \E new \in Seq(Items) :
          agenda' = new \o Rest /\ \A i \in DOMAIN new : new[i].op \notin WorkOps
    <3>1. \A i \in DOMAIN << >> : << >>[i].op \notin WorkOps
      OBVIOUS
    <3>2. \A i \in DOMAIN Outgoing[c] : \A k \in DOMAIN <<Puts(c)[i]>> : <<Puts(c)[i]>>[k].op \notin WorkOps
      BY DEF Puts, Item, WorkOps
    <3> QED
      BY <1>6, <2>2, <2>3, <3>1, <3>2, Zenon
  <2> QED
    BY <1>4, <2>1, <2>4, Zenon
<1>13. CASE StartCalledProcess
  <2>1. UNCHANGED <<pending, deferred>>
    BY <1>13 DEF StartCalledProcess
  <2>2. PICK p \in called : agenda' = <<Item("put", StartOf[p])>> \o Rest
    BY <1>1, <1>13 DEF StartCalledProcess, Proceed
  <2>3. StartOf[p] \in FlowObjects
    BY DefinitionAssumption DEF TypeOK, OfKind
  <2>4. Item("put", StartOf[p]) \in Items
    BY <2>3, ItemType DEF CallOps
  <2>5. \E new \in Seq(Items) :
          agenda' = new \o Rest /\ \A i \in DOMAIN new : new[i].op \notin WorkOps
    <3>1. \A i \in DOMAIN <<Item("put", StartOf[p])>> : <<Item("put", StartOf[p])>>[i].op \notin WorkOps
      BY DEF Item, WorkOps
    <3> QED
      BY <1>6, <2>2, <2>4, <3>1, Zenon
  <2> QED
    BY <1>4, <2>1, <2>5, Zenon
<1>14. CASE ArmExpiredTimer
  <2>1. Expire(c, Rest)
    BY <1>1, <1>14 DEF ArmExpiredTimer
  <2> QED
    BY <1>1, <2>1, ExpireMoves
<1>15. CASE EnterCall
  <2>1. agenda' = Append(Tail(agenda), Item("startCall", c)) /\ UNCHANGED <<pending, deferred>>
    BY <1>15 DEF EnterCall
  <2>2. Moves(<<Item("startCall", c)>>)
    BY <1>1, <2>1, AppendMoves
  <2>3. <<Item("startCall", c)>> \in Seq(Items) /\ Follows(<<Item("startCall", c)>>)
    BY <1>5, <1>6, FollowsOne DEF CallOps, Item, WorkOps
  <2> QED
    BY <2>2, <2>3, Zenon
<1> QED
  BY <1>7, <1>8, <1>9, <1>10, <1>11, <1>12, <1>13, <1>14, <1>15
     DEF RunStep, TokenStep, EventStep, TimerStep

\* An event from outside starts with an empty agenda and adds what it brings.
LEMMA OutsideMoves ==
  ASSUME TypeOK, Received, agenda = << >>, Next, ~Idle, ~FinalSaveDone, ~SaveFails, ~RunStep
  PROVE  \E new \in Seq(Items) : Moves(new) /\ Follows(new)
<1> DEFINE done == \E new \in Seq(Items) : Moves(new) /\ Follows(new)
<1>1. Rest = << >> /\ << >> \in Seq(Items) /\ Follows(<< >>)
  BY NothingRuns DEF Follows
<1>2. CASE TimerEvent
  <2>1. PICK t \in TimerEvents : Expire(t, << >>)
    BY <1>2 DEF TimerEvent, TimerFires, LeakedTimerFires
  <2>2. Expire(t, Rest) /\ t \in FlowObjects
    BY <1>1, <2>1, Zenon DEF TimerEvents, OfKind
  <2> QED
    BY <2>2, ExpireMoves
<1>3. CASE SaveDone \/ ConnectionClosed
  <2>1. EmitDeferredEvents /\ UNCHANGED pending
    BY <1>3 DEF SaveDone, ConnectionClosed
  <2>2. Moves(<< >>)
    BY <2>1, EmitDeferredEventsMoves
  <2> QED
    BY <1>1, <2>2, Zenon
<1>4. ASSUME NEW k \in Late, HandlerAnswers(k) PROVE done
  <2>1. Moves(<< >>)
    BY <1>4, HandlerAnswersMoves
  <2> QED
    BY <1>1, <2>1, Zenon
<1>5. ASSUME NEW x \in Events, EmitEvent(x, << >>), UNCHANGED pending, Follows(<<x>>) PROVE done
  <2>1. EmitEvent(x, Rest)
    BY <1>1, <1>5, Zenon
  <2>2. Moves(<<x>>) /\ <<x>> \in Seq(Items)
    BY <1>5, <2>1, EmitEventMoves DEF Events, Items
  <2> QED
    BY <1>5, <2>2, Zenon
<1>6. ASSUME NEW x \in Items, agenda' = <<x>>, UNCHANGED <<pending, deferred>>, Follows(<<x>>)
      PROVE  done
  <2>1. <<x>> \in Seq(Items) /\ <<x>> \o << >> = <<x>>
    OBVIOUS
  <2>2. agenda' = <<x>> \o Rest
    BY <1>1, <1>6, <2>1, Zenon
  <2>3. Moves(<<x>>)
    BY <1>6, <2>1, <2>2, ProceedMoves
  <2> QED
    BY <1>6, <2>1, <2>3, Zenon
<1>7. CASE TriggerStart
  <2>1. Item("put", StartOf[Main]) \in Items /\ Follows(<<Item("put", StartOf[Main])>>)
    BY ItemType, DefinitionAssumption, FollowsOne DEF OfKind, CallOps, Item, WorkOps
  <2> QED
    BY <1>6, <1>7, <2>1 DEF TriggerStart, ClientCalls
<1>8. ASSUME NEW o \in FlowObjects, TaskDone(o) \/ TriggerBoundaryEvent(o) PROVE done
  <2>1. PICK op \in {"activityEnd", "boundaryCatch"} :
               EmitEvent(Item(op, o), << >>) /\ UNCHANGED pending
    BY <1>8 DEF TaskDone, TriggerBoundaryEvent, ClientCalls
  <2>2. Item(op, o) \in Events /\ Follows(<<Item(op, o)>>)
    BY ItemType, FollowsOne DEF EventOps, Item, WorkOps
  <2> QED
    BY <1>5, <2>1, <2>2
<1>9. ASSUME NEW o \in FlowObjects, TriggerCatchEvent(o) PROVE done
  <2>1. Item("emitCatch", o) \in Items /\ Follows(<<Item("emitCatch", o)>>)
    BY ItemType, FollowsOne DEF CallOps, Item, WorkOps
  <2> QED
    BY <1>6, <1>9, <2>1 DEF TriggerCatchEvent, ClientCalls
<1> QED
  BY <1>2, <1>3, <1>4, <1>7, <1>8, <1>9 DEF Next, IoEvent, ClientStep

\* A step takes nothing but the head of the agenda.
LEMMA MovesKeep ==
  ASSUME TypeOK, TypeOK', NEW new \in Seq(Items), Moves(new), NEW e \in Items,
         Outstanding(e) > 0, agenda = << >> \/ Head(agenda) # e
  PROVE  Outstanding(e)' > 0
<1>1. Outstanding(e)' + Taken(e) = Outstanding(e) + Occurrences(new, e)
  BY DEF Moves
<1>2. Taken(e) = 0
  BY DEF Taken, One
<1>3. Occurrences(new, e) \in Nat
  BY OccurrencesType
<1>4. Outstanding(e) \in Nat /\ Outstanding(e)' \in Nat
  BY OutstandingType
<1> QED
  BY <1>1, <1>2, <1>3, <1>4

\* A step adds entries, or the agenda, the handlers and the deferred events are what they were.
LEMMA StepMoves ==
  ASSUME TypeOK, Received, [Next]_vars
  PROVE  \/ \E new \in Seq(Items) : Moves(new) /\ Follows(new)
         \/ UNCHANGED <<agenda, pending, deferred>>
<1>1. Idle \/ FinalSaveDone \/ SaveFails \/ UNCHANGED vars => UNCHANGED <<agenda, pending, deferred>>
  BY DEF Idle, FinalSaveDone, SaveFails, vars
<1>2. RunStep \/ agenda = << >> \/ UNCHANGED vars
  BY DEF Next, TimerEvent, TimerFires, LeakedTimerFires, IoEvent, SaveDone, FinalSaveDone, SaveFails,
     ConnectionClosed, ClientStep, TriggerStart, TaskDone, TriggerCatchEvent, TriggerBoundaryEvent,
     ClientCalls, HandlerAnswers, Idle
<1> QED
  BY <1>1, <1>2, RunMoves, OutsideMoves

\* An entry stays outstanding until it is at the head of the agenda and runs.
LEMMA StaysOutstanding ==
  ASSUME TypeOK, Received, [Next]_vars, NEW e \in Items, Outstanding(e) > 0,
         agenda = << >> \/ Head(agenda) # e
  PROVE  Outstanding(e)' > 0
<1>1. CASE \E new \in Seq(Items) : Moves(new)
  BY <1>1, NextType, MovesKeep
<1>2. CASE UNCHANGED <<agenda, pending, deferred>>
  <2>1. Outstanding(e)' = Outstanding(e)
    BY <1>2 DEF Outstanding, OnAgenda, Held, Deferred, Occurrences, Receiver
  <2> QED
    BY <2>1
<1> QED
  BY <1>1, <1>2, StepMoves

\* An entry that a step adds is outstanding after it.
LEMMA AddedOutstanding ==
  ASSUME TypeOK, TypeOK', NEW new \in Seq(Items), Moves(new), NEW i \in DOMAIN new
  PROVE  Outstanding(new[i])' > 0
<1> DEFINE e == new[i]
<1>1. e \in Items
  OBVIOUS
<1>2. Outstanding(e)' + Taken(e) = Outstanding(e) + Occurrences(new, e)
  BY <1>1 DEF Moves
<1>3. Taken(e) \in Nat /\ Outstanding(e) >= Taken(e)
  <2>1. OnAgenda(e) = Occurrences(Rest, e) + Taken(e) /\ Occurrences(Rest, e) \in Nat /\ Taken(e) \in Nat
    BY RestType
  <2>2. Held(e) \in Nat /\ Deferred(Receiver(e), e) \in Nat
    BY <1>1, AccountTypes, ReceiverType
  <2> HIDE DEF e
  <2> QED
    BY <2>1, <2>2 DEF Outstanding
<1>4. Occurrences(new, e) \in Nat /\ Occurrences(new, e) > 0
  <2>1. IsFiniteSet(Places(new, e)) /\ Occurrences(new, e) \in Nat
    BY OccurrencesType
  <2>2. i \in Places(new, e) /\ Occurrences(new, e) = Cardinality(Places(new, e))
    BY DEF Places, Occurrences
  <2>3. Cardinality(Places(new, e)) # 0
    BY <2>1, <2>2, FS_EmptySet
  <2> HIDE DEF e
  <2> QED
    BY <2>1, <2>2, <2>3
<1>5. Outstanding(e) \in Nat /\ Outstanding(e)' \in Nat
  BY <1>1, OutstandingType
<1> HIDE DEF e
<1>6. Outstanding(e)' > 0
  BY <1>2, <1>3, <1>4, <1>5
<1> QED
  BY <1>6 DEF e

===============================================================================
