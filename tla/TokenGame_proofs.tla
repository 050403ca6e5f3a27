--------------------------- MODULE TokenGame_proofs ---------------------------
(****************************************************************************)
(* For every process definition and every environment: as long as every     *)
(* token has one owner, the engine plays the token game; when tokens pass   *)
(* an object once, a join waits for all its branches, and an activity with  *)
(* boundary events is left on one way; and no token is ever forgotten.      *)
(****************************************************************************)
EXTENDS TokenAccounting_proofs

(****************************************************************************)
(* The engine as the game sees it: how many tokens are about to be put at   *)
(* an object, how many are leaving it, and the called processes about to    *)
(* start.                                                                   *)
(****************************************************************************)

puts     == [o \in FlowObjects |-> OnAgenda(Item("put", o))]
starts   == [o \in FlowObjects |-> OnAgenda(Item("startCall", o))]
leavings == [o \in FlowObjects |-> Leaving(o)]

Ops == EventOps \cup ContinuationOps \cup CallOps

\* The entries that are counted.
CountedOps == {"put", "startCall", "ended", "timerHandled"}

LEMMA CountedItems ==
  ASSUME NEW op \in CountedOps, NEW o \in FlowObjects
  PROVE  /\ Item(op, o) \in Items
         /\ Item(op, o) \notin Events
         /\ op \in {"put", "startCall"} => Item(op, o) \notin Late
<1>1. Late \subseteq Continuations
  BY EnvironmentAssumption
<1> QED
  BY <1>1 DEF CountedOps, Item, Items, Events, EventOps, Continuations, ContinuationOps, CallOps

\* An entry is given by its call and its object.
LEMMA ItemEquality ==
  \A op, o, q, x : Item(op, o) = Item(q, x) <=> op = q /\ o = x
<1> TAKE op, o, q, x
<1>1. Item(op, o).op = op /\ Item(op, o).at = o /\ Item(q, x).op = q /\ Item(q, x).at = x
  BY DEF Item
<1>2. op = q /\ o = x => Item(op, o) = Item(q, x)
  OBVIOUS
<1> QED
  BY <1>1, <1>2, Zenon

\* The game counts as the engine does.
LEMMA GameCardinality == \A S : Game!Cardinality(S) = Cardinality(S)
  BY DEF Game!Cardinality, Cardinality

\* None of them is kept by a process, and no handler holds a put or the start of a call.
LEMMA CountsAreOutstanding ==
  ASSUME TypeOK, NEW o \in FlowObjects
  PROVE  /\ puts[o] = Outstanding(Item("put", o))
         /\ starts[o] = Outstanding(Item("startCall", o))
         /\ leavings[o] = Outstanding(Item("ended", o)) + Outstanding(Item("timerHandled", o))
<1>1. ASSUME NEW op \in CountedOps
      PROVE  /\ Deferred(Receiver(Item(op, o)), Item(op, o)) = 0
             /\ OnAgenda(Item(op, o)) \in Nat /\ Held(Item(op, o)) \in Nat
  <2> DEFINE e == Item(op, o)
  <2>1. e \in Items /\ e \notin Events
    BY <1>1, CountedItems
  <2> HIDE DEF e
  <2>2. deferred[Receiver(e)] \in Seq(Events)
    BY <2>1, ReceiverType DEF TypeOK
  <2>3. \A i \in DOMAIN deferred[Receiver(e)] : deferred[Receiver(e)][i] # e
    BY <2>1, <2>2
  <2>4. Deferred(Receiver(e), e) = 0
    BY <2>2, <2>3, NoOccurrence DEF Deferred
  <2>5. OnAgenda(e) \in Nat /\ Held(e) \in Nat
    BY <2>1, AccountTypes
  <2> QED
    BY <2>4, <2>5 DEF e
<1>2. ASSUME NEW op \in CountedOps
      PROVE  Outstanding(Item(op, o)) = OnAgenda(Item(op, o)) + Held(Item(op, o))
  BY <1>1, <1>2 DEF Outstanding
<1>3. ASSUME NEW op \in {"put", "startCall"} PROVE Held(Item(op, o)) = 0
  BY <1>3, CountedItems DEF Held, CountedOps
<1>4. /\ "put" \in CountedOps /\ "startCall" \in CountedOps
      /\ "ended" \in CountedOps /\ "timerHandled" \in CountedOps
  BY DEF CountedOps
<1>5. puts[o] = Outstanding(Item("put", o)) /\ starts[o] = Outstanding(Item("startCall", o))
  BY <1>1, <1>2, <1>3, <1>4 DEF puts, starts
<1>6. Leaving(o) = Outstanding(Item("ended", o)) + Outstanding(Item("timerHandled", o))
  <2> DEFINE x == Item("ended", o)
             y == Item("timerHandled", o)
  <2>1. /\ Outstanding(x) = OnAgenda(x) + Held(x) /\ Outstanding(y) = OnAgenda(y) + Held(y)
        /\ OnAgenda(x) \in Nat /\ Held(x) \in Nat /\ OnAgenda(y) \in Nat /\ Held(y) \in Nat
    BY <1>1, <1>2, <1>4
  <2>2. Leaving(o) = OnAgenda(x) + Held(x) + OnAgenda(y) + Held(y)
    BY DEF Leaving
  <2> HIDE DEF x, y
  <2>3. Leaving(o) = Outstanding(x) + Outstanding(y)
    BY <2>1, <2>2
  <2> QED
    BY <2>3 DEF x, y
<1> QED
  BY <1>5, <1>6 DEF leavings

CountsType ==
  /\ puts \in [FlowObjects -> Nat]
  /\ starts \in [FlowObjects -> Nat]
  /\ leavings \in [FlowObjects -> Nat]

LEMMA CountTypes == TypeOK => CountsType
<1> SUFFICES ASSUME TypeOK PROVE CountsType
  OBVIOUS
<1>1. ASSUME NEW o \in FlowObjects
      PROVE  puts[o] \in Nat /\ starts[o] \in Nat /\ leavings[o] \in Nat
  <2>1. ASSUME NEW op \in CountedOps PROVE Outstanding(Item(op, o)) \in Nat
    BY <2>1, CountedItems, OutstandingType
  <2>2. /\ Outstanding(Item("put", o)) \in Nat /\ Outstanding(Item("startCall", o)) \in Nat
        /\ Outstanding(Item("ended", o)) \in Nat /\ Outstanding(Item("timerHandled", o)) \in Nat
    BY <2>1 DEF CountedOps
  <2> QED
    BY <2>2, CountsAreOutstanding
<1> QED
  BY <1>1 DEF CountsType, puts, starts, leavings

SameCounts ==
  \A o \in FlowObjects :
    /\ puts[o] = Outstanding(Item("put", o))
    /\ starts[o] = Outstanding(Item("startCall", o))
    /\ leavings[o] = Outstanding(Item("ended", o)) + Outstanding(Item("timerHandled", o))

LEMMA NextCounts == TypeOK' => CountsType' /\ SameCounts'
<1>1. TypeOK => SameCounts
  BY CountsAreOutstanding DEF SameCounts
<1>2. TypeOK' => SameCounts'
  BY <1>1, PTL
<1>3. TypeOK' => CountsType'
  BY CountTypes, PTL
<1> QED
  BY <1>2, <1>3

\* What a step that adds the entries `new' does to the counts.
CountsMove(new) ==
  \A o \in FlowObjects :
    /\ puts'[o] + Taken(Item("put", o)) = puts[o] + Occurrences(new, Item("put", o))
    /\ starts'[o] + Taken(Item("startCall", o))
         = starts[o] + Occurrences(new, Item("startCall", o))
    /\ leavings'[o] + (Taken(Item("ended", o)) + Taken(Item("timerHandled", o)))
         = leavings[o] + (Occurrences(new, Item("ended", o))
                            + Occurrences(new, Item("timerHandled", o)))

LEMMA MovesCount ==
  ASSUME TypeOK, TypeOK', NEW new \in Seq(Items), Moves(new)
  PROVE  CountsMove(new)
<1> SUFFICES ASSUME NEW o \in FlowObjects
    PROVE /\ puts'[o] + Taken(Item("put", o)) = puts[o] + Occurrences(new, Item("put", o))
          /\ starts'[o] + Taken(Item("startCall", o))
               = starts[o] + Occurrences(new, Item("startCall", o))
          /\ leavings'[o] + (Taken(Item("ended", o)) + Taken(Item("timerHandled", o)))
               = leavings[o] + (Occurrences(new, Item("ended", o))
                                  + Occurrences(new, Item("timerHandled", o)))
  BY DEF CountsMove
<1>1. ASSUME NEW op \in CountedOps
      PROVE  /\ Outstanding(Item(op, o))' + Taken(Item(op, o))
                  = Outstanding(Item(op, o)) + Occurrences(new, Item(op, o))
             /\ Outstanding(Item(op, o))' \in Nat /\ Outstanding(Item(op, o)) \in Nat
             /\ Taken(Item(op, o)) \in Nat /\ Occurrences(new, Item(op, o)) \in Nat
  <2>1. Item(op, o) \in Items
    BY <1>1, CountedItems
  <2> QED
    BY <2>1, OutstandingType, RestType, OccurrencesType DEF Moves
<1>2. /\ "put" \in CountedOps /\ "startCall" \in CountedOps
      /\ "ended" \in CountedOps /\ "timerHandled" \in CountedOps
  BY DEF CountedOps
<1>3. puts'[o] + Taken(Item("put", o)) = puts[o] + Occurrences(new, Item("put", o))
  BY <1>1, <1>2, CountsAreOutstanding, NextCounts DEF SameCounts
<1>4. starts'[o] + Taken(Item("startCall", o))
        = starts[o] + Occurrences(new, Item("startCall", o))
  BY <1>1, <1>2, CountsAreOutstanding, NextCounts DEF SameCounts
<1>5. leavings'[o] + (Taken(Item("ended", o)) + Taken(Item("timerHandled", o)))
        = leavings[o] + (Occurrences(new, Item("ended", o))
                           + Occurrences(new, Item("timerHandled", o)))
  <2> DEFINE x == Item("ended", o)
             y == Item("timerHandled", o)
             x1 == Outstanding(x)'
             y1 == Outstanding(y)'
  <2>1. /\ x1 + Taken(x) = Outstanding(x) + Occurrences(new, x)
        /\ y1 + Taken(y) = Outstanding(y) + Occurrences(new, y)
        /\ x1 \in Nat /\ y1 \in Nat /\ Outstanding(x) \in Nat /\ Outstanding(y) \in Nat
        /\ Taken(x) \in Nat /\ Occurrences(new, x) \in Nat
        /\ Taken(y) \in Nat /\ Occurrences(new, y) \in Nat
    BY <1>1, <1>2
  <2>2. leavings[o] = Outstanding(x) + Outstanding(y) /\ leavings'[o] = x1 + y1
    BY CountsAreOutstanding, NextCounts DEF SameCounts
  <2> HIDE DEF x, y, x1, y1
  <2>3. leavings'[o] + (Taken(x) + Taken(y))
          = leavings[o] + (Occurrences(new, x) + Occurrences(new, y))
    <3>1. (x1 + y1) + (Taken(x) + Taken(y)) = (x1 + Taken(x)) + (y1 + Taken(y))
      BY <2>1
    <3>2. (Outstanding(x) + Occurrences(new, x)) + (Outstanding(y) + Occurrences(new, y))
            = (Outstanding(x) + Outstanding(y)) + (Occurrences(new, x) + Occurrences(new, y))
      BY <2>1
    <3> QED
      BY <2>1, <2>2, <3>1, <3>2, Zenon
  <2> QED
    BY <2>3 DEF x, y
<1> QED
  BY <1>3, <1>4, <1>5

\* What the head of the agenda counts for, and what a single entry does.
LEMMA RunningTaken ==
  ASSUME TypeOK, NEW op, Running(op)
  PROVE  \A q, o : Taken(Item(q, o)) = IF q = op /\ o = Current THEN 1 ELSE 0
<1>1. agenda # << >> /\ Head(agenda) \in Items /\ Head(agenda).op = op
  BY HeadType DEF Running
<1> QED
  BY <1>1 DEF Taken, One, Item, Items, Current

LEMMA NothingTaken ==
  ASSUME agenda = << >>
  PROVE  \A e : Taken(e) = 0
  BY DEF Taken

LEMMA SingleOccurrence ==
  ASSUME NEW op, NEW c
  PROVE  /\ \A q, o : Occurrences(<<Item(op, c)>>, Item(q, o)) = IF q = op /\ o = c THEN 1 ELSE 0
         /\ \A e : Occurrences(<< >>, e) = 0
<1>1. \A q, o : Occurrences(<<Item(op, c)>>, Item(q, o)) = One(Item(op, c), Item(q, o))
  BY OccurrencesFew
<1>2. \A q, o : One(Item(op, c), Item(q, o)) = IF q = op /\ o = c THEN 1 ELSE 0
  BY DEF One, Item
<1>3. \A e : Occurrences(<< >>, e) = 0
  BY OccurrencesFew
<1> QED
  BY <1>1, <1>2, <1>3

\* Entries that are not counted.
LEMMA UncountedOccurrences ==
  ASSUME NEW new \in Seq(Items), \A i \in DOMAIN new : new[i].op \notin CountedOps
  PROVE  \A q \in CountedOps, o \in FlowObjects : Occurrences(new, Item(q, o)) = 0
<1> TAKE q \in CountedOps, o \in FlowObjects
<1>1. \A i \in DOMAIN new : new[i] # Item(q, o)
  BY DEF Item
<1> QED
  BY <1>1, NoOccurrence

\* One token is put behind each outgoing flow.
LEMMA PutsOccurrences ==
  ASSUME NEW c \in FlowObjects
  PROVE  /\ \A o : Occurrences(Puts(c), Item("put", o)) = Game!FlowsBetween(c, o)
         /\ \A q \in CountedOps \ {"put"}, o \in FlowObjects : Occurrences(Puts(c), Item(q, o)) = 0
<1>1. DOMAIN Puts(c) = DOMAIN Outgoing[c]
  BY DEF Puts
<1>2. \A i \in DOMAIN Outgoing[c] : Puts(c)[i] = Item("put", Outgoing[c][i])
  BY DEF Puts
<1>3. ASSUME NEW o PROVE Occurrences(Puts(c), Item("put", o)) = Game!FlowsBetween(c, o)
  <2>1. {i \in DOMAIN Puts(c) : Puts(c)[i] = Item("put", o)}
          = {i \in DOMAIN Outgoing[c] : Outgoing[c][i] = o}
    <3>1. \A i \in DOMAIN Outgoing[c] : Puts(c)[i] = Item("put", o) <=> Outgoing[c][i] = o
      <4> TAKE i \in DOMAIN Outgoing[c]
      <4>1. Puts(c)[i] = Item("put", Outgoing[c][i])
        BY <1>2
      <4> QED
        BY <4>1, ItemEquality
    <3> QED
      BY <1>1, <3>1
  <2> QED
    BY <2>1, GameCardinality DEF Occurrences, Game!FlowsBetween
<1>4. ASSUME NEW q \in CountedOps \ {"put"}, NEW o \in FlowObjects PROVE Occurrences(Puts(c), Item(q, o)) = 0
  <2>1. \A i \in DOMAIN Puts(c) : Puts(c)[i] # Item(q, o)
    <3> TAKE i \in DOMAIN Puts(c)
    <3>1. Puts(c)[i] = Item("put", Outgoing[c][i]) /\ q # "put"
      BY <1>1, <1>2, <1>4
    <3> QED
      BY <3>1, ItemEquality
  <2>2. Puts(c) \in Seq(Items)
    BY PutsAndArms
  <2> QED
    BY <2>1, <2>2, NoOccurrence
<1> QED
  BY <1>3, <1>4

\* A step that adds one entry and takes none of those counted.
LEMMA AddsOne ==
  ASSUME TypeOK, TypeOK', NEW op, NEW c \in FlowObjects, Item(op, c) \in Items,
         Moves(<<Item(op, c)>>),
         \A q \in CountedOps, o \in FlowObjects : Taken(Item(q, o)) = 0
  PROVE  /\ puts' = IF op = "put" THEN [puts EXCEPT ![c] = @ + 1] ELSE puts
         /\ starts' = IF op = "startCall" THEN [starts EXCEPT ![c] = @ + 1] ELSE starts
         /\ leavings' = IF op \in {"ended", "timerHandled"}
                        THEN [leavings EXCEPT ![c] = @ + 1] ELSE leavings
<1>1. <<Item(op, c)>> \in Seq(Items)
  OBVIOUS
<1>2. CountsMove(<<Item(op, c)>>)
  BY <1>1, MovesCount
<1>3. CountsType /\ CountsType'
  BY CountTypes, NextCounts
<1>4. \A o \in FlowObjects :
        /\ Taken(Item("put", o)) = 0 /\ Taken(Item("startCall", o)) = 0
        /\ Taken(Item("ended", o)) = 0 /\ Taken(Item("timerHandled", o)) = 0
  BY DEF CountedOps
<1>5. ASSUME NEW o \in FlowObjects
      PROVE  /\ puts'[o] = puts[o] + (IF op = "put" /\ o = c THEN 1 ELSE 0)
             /\ starts'[o] = starts[o] + (IF op = "startCall" /\ o = c THEN 1 ELSE 0)
             /\ leavings'[o]
                  = leavings[o] + (IF op \in {"ended", "timerHandled"} /\ o = c THEN 1 ELSE 0)
  <2>1. /\ Occurrences(<<Item(op, c)>>, Item("put", o)) = IF op = "put" /\ o = c THEN 1 ELSE 0
        /\ Occurrences(<<Item(op, c)>>, Item("startCall", o))
             = IF op = "startCall" /\ o = c THEN 1 ELSE 0
        /\ Occurrences(<<Item(op, c)>>, Item("ended", o)) = IF op = "ended" /\ o = c THEN 1 ELSE 0
        /\ Occurrences(<<Item(op, c)>>, Item("timerHandled", o))
             = IF op = "timerHandled" /\ o = c THEN 1 ELSE 0
    BY SingleOccurrence
  <2>2. /\ puts[o] \in Nat /\ starts[o] \in Nat /\ leavings[o] \in Nat
        /\ puts'[o] \in Nat /\ starts'[o] \in Nat /\ leavings'[o] \in Nat
    BY <1>3 DEF CountsType
  <2> QED
    BY <1>2, <1>4, <2>1, <2>2 DEF CountsMove
<1>6. puts' = IF op = "put" THEN [puts EXCEPT ![c] = @ + 1] ELSE puts
  BY <1>3, <1>5 DEF CountsType
<1>7. starts' = IF op = "startCall" THEN [starts EXCEPT ![c] = @ + 1] ELSE starts
  BY <1>3, <1>5 DEF CountsType
<1>8. leavings' = IF op \in {"ended", "timerHandled"} THEN [leavings EXCEPT ![c] = @ + 1] ELSE leavings
  BY <1>3, <1>5 DEF CountsType
<1> QED
  BY <1>6, <1>7, <1>8

\* A step that neither adds nor takes any of those counted.
LEMMA AddsNone ==
  ASSUME TypeOK, TypeOK', NEW new \in Seq(Items), Moves(new),
         \A i \in DOMAIN new : new[i].op \notin CountedOps,
         \A q \in CountedOps, o \in FlowObjects : Taken(Item(q, o)) = 0
  PROVE  UNCHANGED <<puts, starts, leavings>>
<1>1. CountsMove(new)
  BY MovesCount
<1>2. CountsType /\ CountsType'
  BY CountTypes, NextCounts
<1>3. \A q \in CountedOps, o \in FlowObjects : Occurrences(new, Item(q, o)) = 0
  BY UncountedOccurrences
<1>4. \A o \in FlowObjects :
        puts'[o] = puts[o] /\ starts'[o] = starts[o] /\ leavings'[o] = leavings[o]
  <2> TAKE o \in FlowObjects
  <2>1. \A q \in CountedOps : Occurrences(new, Item(q, o)) = 0 /\ Taken(Item(q, o)) = 0
    BY <1>3
  <2>2. /\ puts[o] \in Nat /\ starts[o] \in Nat /\ leavings[o] \in Nat
        /\ puts'[o] \in Nat /\ starts'[o] \in Nat /\ leavings'[o] \in Nat
    BY <1>2 DEF CountsType
  <2> QED
    BY <1>1, <2>1, <2>2 DEF CountsMove, CountedOps
<1> QED
  BY <1>2, <1>4 DEF CountsType

\* A step that only passes entries on.
LEMMA CountsSame ==
  ASSUME UNCHANGED <<agenda, pending>>
  PROVE  UNCHANGED <<puts, starts, leavings>>
  BY DEF puts, starts, leavings, Leaving, OnAgenda, Held, Occurrences

\* No entry counted is at the head of the agenda.
LEMMA UncountedHead ==
  ASSUME TypeOK, \/ agenda = << >>
                 \/ \E op : Running(op) /\ op \notin CountedOps
  PROVE  \A q \in CountedOps, o \in FlowObjects : Taken(Item(q, o)) = 0
<1>1. CASE agenda = << >>
  BY <1>1, NothingTaken
<1>2. CASE \E op : Running(op) /\ op \notin CountedOps
  <2>1. PICK op : Running(op) /\ op \notin CountedOps
    BY <1>2
  <2> QED
    BY <2>1, RunningTaken
<1> QED
  BY <1>1, <1>2

(****************************************************************************)
(* What a step does to the tokens.                                          *)
(****************************************************************************)

Keeps == UNCHANGED <<puts, starts, leavings, tokens, called, visited>>

\* The client starts the main process.
Begins ==
  /\ agenda = << >>
  /\ StartOf[Main] \notin visited
  /\ puts' = [puts EXCEPT ![StartOf[Main]] = @ + 1]
  /\ UNCHANGED <<starts, leavings, tokens, called, visited>>

\* A token is put at c.
Arrives(c) ==
  /\ puts[c] > 0
  /\ puts' = [puts EXCEPT ![c] = @ - 1]
  /\ tokens' = Add(c)
  /\ visited' = visited \cup {c}
  /\ UNCHANGED <<starts, leavings, called>>

\* A token is taken from c and starts to leave it.
MayLeave(c) ==
  \/ c \in Automatic /\ tokens[c] > 0 /\ Running("handled") /\ Current = c
  \/ Running("activityDone") /\ Current = c /\ Kind[c] \in {"waitTask", "call"}
  \/ Running("caught") /\ Current = c /\ c \in CatchEvents
  \/ c \in TimerEvents /\ CanExpire(c)

IsLeft(c) ==
  /\ MayLeave(c) /\ c \notin BoundaryEvents
  /\ tokens' = Remove(c)
  /\ leavings' = [leavings EXCEPT ![c] = @ + 1]
  /\ UNCHANGED <<puts, starts, called, visited>>

\* A boundary event is left, and its activity with it.
TakesActivity(b) ==
  /\ Running("handled") /\ Current = b
  /\ b \in BoundaryEvents /\ tokens[b] > 0
  /\ tokens' = [Remove(b) EXCEPT ![Host(b)] = IF @ > 0 THEN @ - 1 ELSE 0]
  /\ leavings' = [leavings EXCEPT ![b] = @ + 1]
  /\ UNCHANGED <<puts, starts, called, visited>>

\* A parallel gateway is handled.
Renews(c) ==
  /\ Running("handled") /\ Current = c /\ Kind[c] = "and"
  /\ tokens' = Renewed(c)
  /\ \/ tokens'[c] = Incoming(c) /\ leavings' = [leavings EXCEPT ![c] = @ + 1]
     \/ tokens'[c] # Incoming(c) /\ UNCHANGED leavings
  /\ UNCHANGED <<puts, starts, called, visited>>

\* A message boundary event takes the token of its activity.
Interrupts(b) ==
  /\ Running("boundaryCatch") /\ Current = b
  /\ b \in BoundaryEvents /\ tokens[Host(b)] > 0
  /\ tokens' = Remove(Host(b))
  /\ puts' = [puts EXCEPT ![b] = @ + 1]
  /\ UNCHANGED <<starts, leavings, called, visited>>

\* A timeout expires.
TimesOut(b) ==
  /\ b \in TimerEvents \cap BoundaryEvents /\ CanExpire(b)
  /\ puts' = [puts EXCEPT ![b] = @ + 1]
  /\ UNCHANGED <<starts, leavings, tokens, called, visited>>

\* The end handler of c is done.
GoesOn(c) ==
  /\ Running("ended") /\ Current = c
  /\ leavings[c] > 0
  /\ leavings' = [leavings EXCEPT ![c] = @ - 1]
  /\ UNCHANGED <<starts, called, visited>>

Passes(c) ==
  /\ GoesOn(c)
  /\ Kind[c] \notin {"xor", "and"}
  /\ puts' = [x \in FlowObjects |-> puts[x] + Game!FlowsBetween(c, x)]
  /\ UNCHANGED tokens

Decides(c) ==
  /\ GoesOn(c)
  /\ Kind[c] = "xor"
  /\ \/ \E i \in DOMAIN Outgoing[c] : puts' = [puts EXCEPT ![Outgoing[c][i]] = @ + 1]
     \/ c \in Undecided /\ UNCHANGED puts
  /\ UNCHANGED tokens

Forks(c) ==
  /\ GoesOn(c)
  /\ Kind[c] = "and"
  /\ puts' = [x \in FlowObjects |-> puts[x] + Game!FlowsBetween(c, x)]
  /\ tokens' = [tokens EXCEPT ![c] = 0]

\* A called process is created, and started.
Calls(p) ==
  /\ p \in Processes \ ({Main} \cup called)
  /\ Running("handled") /\ Current = CallOf[p] /\ Kind[Current] = "call"
  /\ called' = called \cup {p}
  /\ starts' = [starts EXCEPT ![CallOf[p]] = @ + 1]
  /\ tokens' = Renewed(CallOf[p])
  /\ UNCHANGED <<puts, leavings, visited>>

Enters(p) ==
  /\ p \in called
  /\ Running("startCall") /\ Current = CallOf[p]
  /\ starts[Current] > 0
  /\ starts' = [starts EXCEPT ![Current] = @ - 1]
  /\ puts' = [puts EXCEPT ![StartOf[p]] = @ + 1]
  /\ UNCHANGED <<leavings, tokens, called, visited>>

Effect ==
  \/ Keeps \/ Begins
  \/ \E c \in FlowObjects :
       \/ Arrives(c) \/ IsLeft(c) \/ TakesActivity(c) \/ Renews(c) \/ Interrupts(c)
       \/ TimesOut(c) \/ Passes(c) \/ Decides(c) \/ Forks(c)
  \/ \E p \in Processes : Calls(p) \/ Enters(p)

(****************************************************************************)
(* Every step has one of these effects.                                     *)
(****************************************************************************)

\* Entries that are in the state, or not.
LEMMA HeadCounted ==
  ASSUME TypeOK, NEW op \in CountedOps, Running(op)
  PROVE  /\ Current \in FlowObjects /\ Rest = Tail(agenda)
         /\ op = "put" => puts[Current] > 0
         /\ op = "startCall" => starts[Current] > 0
         /\ op \in {"ended", "timerHandled"} => leavings[Current] > 0
<1>1. agenda # << >> /\ Current \in FlowObjects /\ Rest = Tail(agenda)
  BY HeadType DEF Running, Current, Rest
<1>2. Taken(Item(op, Current)) = 1 /\ Item(op, Current) \in Items
  BY <1>1, RunningTaken, CountedItems
<1>3. OnAgenda(Item(op, Current)) > 0
  BY <1>2, RestType
<1>4. /\ op = "put" => puts[Current] > 0
      /\ op = "startCall" => starts[Current] > 0
  BY <1>1, <1>3 DEF puts, starts
<1>5. ASSUME op \in {"ended", "timerHandled"} PROVE Leaving(Current) > 0
  <2>1. ASSUME NEW q \in {"ended", "timerHandled"}
        PROVE  OnAgenda(Item(q, Current)) \in Nat /\ Held(Item(q, Current)) \in Nat
    <3>1. Item(q, Current) \in Items
      BY <1>1, <2>1, CountedItems DEF CountedOps
    <3> QED
      BY <3>1, AccountTypes
  <2> QED
    BY <1>3, <1>5, <2>1 DEF Leaving
<1> QED
  BY <1>1, <1>4, <1>5 DEF leavings

\* Steps that only pass an entry on, or add entries that are not counted.
LEMMA KeepsOne ==
  ASSUME TypeOK, TypeOK', NEW op, NEW c \in FlowObjects, Item(op, c) \in Items,
         op \notin CountedOps, Moves(<<Item(op, c)>>),
         agenda = << >> \/ \E q : Running(q) /\ q \notin CountedOps
  PROVE  UNCHANGED <<puts, starts, leavings>>
<1>1. <<Item(op, c)>> \in Seq(Items) /\ \A i \in DOMAIN <<Item(op, c)>> : <<Item(op, c)>>[i].op = op
  BY DEF Item
<1>2. \A q \in CountedOps, o \in FlowObjects : Taken(Item(q, o)) = 0
  BY UncountedHead
<1> QED
  BY <1>1, <1>2, AddsNone

LEMMA KeepsFew ==
  ASSUME TypeOK, TypeOK', NEW new \in Seq(Items), agenda' = new \o Rest,
         UNCHANGED <<pending, deferred>>,
         \A i \in DOMAIN new : new[i].op \notin CountedOps,
         agenda = << >> \/ \E q : Running(q) /\ q \notin CountedOps
  PROVE  UNCHANGED <<puts, starts, leavings>>
<1>1. Moves(new)
  BY ProceedMoves
<1>2. \A q \in CountedOps, o \in FlowObjects : Taken(Item(q, o)) = 0
  BY UncountedHead
<1> QED
  BY <1>1, <1>2, AddsNone

\* The end handler of an object is done, and its tokens go on.
LEMMA GoesOnWith ==
  ASSUME TypeOK, TypeOK', Running("ended"), NEW new \in Seq(Items), Moves(new),
         UNCHANGED <<called, visited>>,
         \A q \in CountedOps \ {"put"}, o \in FlowObjects : Occurrences(new, Item(q, o)) = 0
  PROVE  /\ GoesOn(Current)
         /\ \A o \in FlowObjects : puts'[o] = puts[o] + Occurrences(new, Item("put", o))
<1> DEFINE c == Current
<1>1. CountsMove(new)
  BY MovesCount
<1>2. CountsType /\ CountsType'
  BY CountTypes, NextCounts
<1>3. c \in FlowObjects /\ leavings[c] > 0
  BY HeadCounted DEF CountedOps
<1>4. \A q, o : Taken(Item(q, o)) = IF q = "ended" /\ o = c THEN 1 ELSE 0
  BY RunningTaken
<1>5. ASSUME NEW o \in FlowObjects
      PROVE  /\ puts'[o] = puts[o] + Occurrences(new, Item("put", o))
             /\ starts'[o] = starts[o]
             /\ leavings'[o] = IF o = c THEN leavings[o] - 1 ELSE leavings[o]
  <2>1. /\ Occurrences(new, Item("startCall", o)) = 0
        /\ Occurrences(new, Item("ended", o)) = 0
        /\ Occurrences(new, Item("timerHandled", o)) = 0
    BY DEF CountedOps
  <2>2. Occurrences(new, Item("put", o)) \in Nat
    BY OccurrencesType
  <2>3. /\ puts[o] \in Nat /\ starts[o] \in Nat /\ leavings[o] \in Nat
        /\ puts'[o] \in Nat /\ starts'[o] \in Nat /\ leavings'[o] \in Nat
    BY <1>2 DEF CountsType
  <2>4. /\ Taken(Item("put", o)) = 0 /\ Taken(Item("startCall", o)) = 0
        /\ Taken(Item("timerHandled", o)) = 0
        /\ Taken(Item("ended", o)) = IF o = c THEN 1 ELSE 0
    BY <1>4
  <2>5. /\ puts'[o] + Taken(Item("put", o)) = puts[o] + Occurrences(new, Item("put", o))
        /\ starts'[o] + Taken(Item("startCall", o))
             = starts[o] + Occurrences(new, Item("startCall", o))
        /\ leavings'[o] + (Taken(Item("ended", o)) + Taken(Item("timerHandled", o)))
             = leavings[o] + (Occurrences(new, Item("ended", o))
                                + Occurrences(new, Item("timerHandled", o)))
    BY <1>1 DEF CountsMove
  <2> HIDE DEF c
  <2>6. puts'[o] = puts[o] + Occurrences(new, Item("put", o))
    BY <2>2, <2>3, <2>4, <2>5
  <2>7. starts'[o] = starts[o]
    BY <2>1, <2>3, <2>4, <2>5
  <2>8. leavings'[o] = IF o = c THEN leavings[o] - 1 ELSE leavings[o]
    BY <2>1, <2>3, <2>4, <2>5
  <2> QED
    BY <2>6, <2>7, <2>8
<1>6. starts' = starts
  BY <1>2, <1>5 DEF CountsType
<1>7. leavings' = [leavings EXCEPT ![c] = @ - 1]
  BY <1>2, <1>3, <1>5 DEF CountsType
<1> QED
  BY <1>3, <1>5, <1>6, <1>7 DEF GoesOn

LEMMA PutTokenEffect ==
  ASSUME TypeOK, TypeOK', PutToken
  PROVE  Arrives(Current) /\ Current \in FlowObjects
<1> DEFINE c == Current
<1>1. Running("put") /\ c \in FlowObjects /\ Rest = Tail(agenda) /\ puts[c] > 0
  BY HeadCounted DEF PutToken, CountedOps
<1>2. Item("begun", c) \in Items
  BY <1>1, ItemType DEF ContinuationOps
<1>3. <<Item("begun", c)>> \in Seq(Items) /\ Moves(<<Item("begun", c)>>)
  BY <1>1, <1>2, CallHandlerMoves DEF PutToken
<1>4. CountsMove(<<Item("begun", c)>>)
  BY <1>3, MovesCount
<1>5. CountsType /\ CountsType'
  BY CountTypes, NextCounts
<1>6. \A q, o : Taken(Item(q, o)) = IF q = "put" /\ o = c THEN 1 ELSE 0
  BY <1>1, RunningTaken
<1>7. \A q, o : Occurrences(<<Item("begun", c)>>, Item(q, o)) = IF q = "begun" /\ o = c THEN 1 ELSE 0
  BY SingleOccurrence
<1>8. ASSUME NEW o \in FlowObjects
      PROVE  /\ puts'[o] = IF o = c THEN puts[o] - 1 ELSE puts[o]
             /\ starts'[o] = starts[o]
             /\ leavings'[o] = leavings[o]
  <2>1. /\ Taken(Item("put", o)) = IF o = c THEN 1 ELSE 0
        /\ Taken(Item("startCall", o)) = 0 /\ Taken(Item("ended", o)) = 0
        /\ Taken(Item("timerHandled", o)) = 0
    BY <1>6
  <2>2. /\ Occurrences(<<Item("begun", c)>>, Item("put", o)) = 0
        /\ Occurrences(<<Item("begun", c)>>, Item("startCall", o)) = 0
        /\ Occurrences(<<Item("begun", c)>>, Item("ended", o)) = 0
        /\ Occurrences(<<Item("begun", c)>>, Item("timerHandled", o)) = 0
    BY <1>7
  <2>3. /\ puts[o] \in Nat /\ starts[o] \in Nat /\ leavings[o] \in Nat
        /\ puts'[o] \in Nat /\ starts'[o] \in Nat /\ leavings'[o] \in Nat
    BY <1>5 DEF CountsType
  <2> HIDE DEF c
  <2> QED
    BY <1>4, <2>1, <2>2, <2>3 DEF CountsMove
<1>9. puts' = [puts EXCEPT ![c] = @ - 1] /\ UNCHANGED <<starts, leavings>>
  BY <1>1, <1>5, <1>8 DEF CountsType
<1> QED
  BY <1>1, <1>9 DEF PutToken, Arrives

\* _emitTokens of an object that is not a parallel gateway.
LEMMA LeaveEffect ==
  ASSUME TypeOK, TypeOK', NEW op \in {"handled", "activityDone", "caught"}, Running(op),
         Leave(Current)
  PROVE  /\ Current \in FlowObjects
         /\ leavings' = [leavings EXCEPT ![Current] = @ + 1]
         /\ UNCHANGED <<puts, starts, called, visited>>
<1> DEFINE c == Current
<1>1. c \in FlowObjects /\ Rest = Tail(agenda)
  BY HeadType DEF Running, Current, Rest
<1>2. Item("ended", c) \in Items
  BY <1>1, ItemType DEF ContinuationOps
<1>3. Moves(<<Item("ended", c)>>)
  BY <1>1, <1>2, CallHandlerMoves DEF Leave
<1>4. \A q \in CountedOps, o \in FlowObjects : Taken(Item(q, o)) = 0
  <2>1. op \notin CountedOps
    BY DEF CountedOps
  <2> QED
    BY <2>1, UncountedHead
<1> QED
  BY <1>1, <1>2, <1>3, <1>4, AddsOne DEF Leave

LEMMA TimeoutEffect ==
  ASSUME TypeOK, TypeOK', NEW t \in TimerEvents, Expire(t, Rest), CanExpire(t),
         agenda = << >> \/ Running("arm")
  PROVE  TimesOut(t) \/ IsLeft(t)
<1>1. t \in FlowObjects
  BY DEF TimerEvents, OfKind
<1>2. \A q \in CountedOps, o \in FlowObjects : Taken(Item(q, o)) = 0
  <2>1. "arm" \notin CountedOps
    BY DEF CountedOps
  <2> QED
    BY <2>1, UncountedHead
<1>3. Item("put", t) \in Items /\ Item("timerHandled", t) \in Items
  BY <1>1, ItemType DEF CallOps, ContinuationOps
<1>4. CASE t \in BoundaryEvents
  <2>1. <<Item("put", t)>> \in Seq(Items)
    BY <1>3
  <2>2. Moves(<<Item("put", t)>>)
    BY <1>4, <2>1, ProceedMoves DEF Expire
  <2> QED
    BY <1>1, <1>2, <1>3, <1>4, <2>2, AddsOne DEF Expire, TimesOut
<1>5. CASE t \notin BoundaryEvents
  <2>1. Moves(<<Item("timerHandled", t)>>)
    BY <1>3, <1>5, CallHandlerMoves DEF Expire
  <2>2. /\ leavings' = [leavings EXCEPT ![t] = @ + 1]
        /\ UNCHANGED <<puts, starts>>
    BY <1>1, <1>2, <1>3, <2>1, AddsOne
  <2> QED
    BY <1>5, <2>2 DEF Expire, IsLeft, MayLeave
<1> QED
  BY <1>4, <1>5

\* Steps that put no token, take none, and let none go on.
LEMMA KeepsEffect ==
  ASSUME TypeOK, TypeOK', AccountInv,
         \/ AnnounceToken \/ ArriveAtCatchEvent \/ ArriveAtFlowObject \/ WaitTaskHandled
         \/ ActivityEnds \/ EmitCatchEvent \/ CatchEvent \/ UnhandledEvent
         \/ ArmTimer \/ Persist
  PROVE  Keeps
<1> DEFINE c == Current
<1>1. PICK op \in {"begun", "arrived", "handled", "activityEnd", "emitCatch", "catch",
                   "boundaryCatch", "arm", "persist", "persistAndClose"} : Running(op)
  BY DEF AnnounceToken, ArriveAtCatchEvent, ArriveAtFlowObject, WaitTaskHandled, ActivityEnds,
     EmitCatchEvent, CatchEvent, UnhandledEvent, ArmTimer, Persist
<1>2. c \in FlowObjects /\ Rest = Tail(agenda)
  BY <1>1, HeadType DEF Running, Current, Rest
<1>3. \E q : Running(q) /\ q \notin CountedOps
  <2>1. op \notin CountedOps
    BY DEF CountedOps
  <2> QED
    BY <1>1, <2>1
<1>4. UNCHANGED <<tokens, called>>
  BY DEF AnnounceToken, ArriveAtCatchEvent, ArriveAtFlowObject, WaitTaskHandled, ActivityEnds,
     EmitCatchEvent, CatchEvent, UnhandledEvent, ArmTimer, Persist
<1>5. UNCHANGED visited
  BY DEF AnnounceToken, ArriveAtCatchEvent, ArriveAtFlowObject, WaitTaskHandled, ActivityEnds,
     EmitCatchEvent, CatchEvent, UnhandledEvent, ArmTimer, Persist
<1>6. ASSUME UNCHANGED <<puts, starts, leavings>> PROVE Keeps
  BY <1>4, <1>5, <1>6 DEF Keeps
<1>7. CASE AnnounceToken \/ EmitCatchEvent
  <2>1. PICK q \in {"arrived", "catch"} : EmitEvent(Item(q, c), Rest) /\ UNCHANGED pending
    BY <1>2, <1>7 DEF AnnounceToken, EmitCatchEvent
  <2>2. Item(q, c) \in Events /\ Item(q, c) \in Items
    BY <1>2, ItemType DEF EventOps
  <2>3. Moves(<<Item(q, c)>>) /\ q \notin CountedOps
    BY <2>1, <2>2, EmitEventMoves DEF CountedOps
  <2> QED
    BY <1>2, <1>3, <1>6, <2>2, <2>3, KeepsOne
<1>8. CASE ArriveAtFlowObject \/ ActivityEnds \/ CatchEvent
  <2>1. PICK q \in {"handled", "activityDone", "caught"} :
               CallHandler(Item(q, c), Rest) /\ UNCHANGED deferred
    BY <1>2, <1>8 DEF ArriveAtFlowObject, ActivityEnds, CatchEvent
  <2>2. Item(q, c) \in Items
    BY <1>2, ItemType DEF ContinuationOps
  <2>3. Moves(<<Item(q, c)>>) /\ q \notin CountedOps
    BY <2>1, <2>2, CallHandlerMoves DEF CountedOps
  <2> QED
    BY <1>2, <1>3, <1>6, <2>2, <2>3, KeepsOne
<1>9. CASE ArriveAtCatchEvent \/ WaitTaskHandled \/ UnhandledEvent \/ ArmTimer \/ Persist
  <2>1. UNCHANGED <<pending, deferred>>
    BY <1>9 DEF ArriveAtCatchEvent, WaitTaskHandled, UnhandledEvent, ArmTimer, Persist
  <2>2. \/ agenda' = << >> \o Rest
        \/ agenda' = <<Item("persist", c)>> \o Rest
        \/ agenda' = <<Item("arm", c), Item("persist", c)>> \o Rest
        \/ agenda' = (Arms(c) \o <<Item("persist", c)>>) \o Rest
    BY <1>2, <1>9 DEF ArriveAtCatchEvent, WaitTaskHandled, UnhandledEvent, ArmTimer, Persist, Proceed
  <2>3. ASSUME NEW new \in Seq(Items), agenda' = new \o Rest,
               \A i \in DOMAIN new : new[i].op \in {"arm", "persist"}
        PROVE  Keeps
    <3>1. \A i \in DOMAIN new : new[i].op \notin CountedOps
      BY <2>3 DEF CountedOps
    <3> QED
      BY <1>3, <1>6, <2>1, <2>3, <3>1, KeepsFew
  <2>4. CASE agenda' = << >> \o Rest
    <3>1. << >> \in Seq(Items) /\ \A i \in DOMAIN << >> : << >>[i].op \in {"arm", "persist"}
      OBVIOUS
    <3> QED
      BY <2>3, <2>4, <3>1, Zenon
  <2>5. /\ Item("persist", c) \in Items /\ Item("arm", c) \in Items
        /\ Item("persist", c).op = "persist" /\ Item("arm", c).op = "arm"
    BY <1>2, ItemType DEF CallOps, Item
  <2>6. CASE agenda' = <<Item("persist", c)>> \o Rest
    <3> DEFINE s == <<Item("persist", c)>>
    <3>1. s \in Seq(Items) /\ \A i \in DOMAIN s : s[i].op \in {"arm", "persist"}
      BY <2>5
    <3> QED
      BY <2>3, <2>6, <3>1, Zenon
  <2>7. CASE agenda' = <<Item("arm", c), Item("persist", c)>> \o Rest
    <3> DEFINE s == <<Item("arm", c), Item("persist", c)>>
    <3>1. s \in Seq(Items) /\ \A i \in DOMAIN s : s[i].op \in {"arm", "persist"}
      BY <2>5
    <3> QED
      BY <2>3, <2>7, <3>1, Zenon
  <2>8. CASE agenda' = (Arms(c) \o <<Item("persist", c)>>) \o Rest
    <3> DEFINE s == Arms(c) \o <<Item("persist", c)>>
    <3>1. s \in Seq(Items)
      BY <1>2, PutsArePlain
    <3>2. \A i \in DOMAIN s : s[i].op \in {"arm", "persist"}
      <4>1. \A i \in DOMAIN Arms(c) : Arms(c)[i].op = "arm"
        BY DEF Arms, Item
      <4>2. ASSUME NEW a \in Seq(Items), NEW x \in Items, x.op = "persist",
                   \A i \in DOMAIN a : a[i].op = "arm"
            PROVE  \A i \in DOMAIN (a \o <<x>>) : (a \o <<x>>)[i].op \in {"arm", "persist"}
        BY <4>2
      <4>3. Arms(c) \in Seq(Items)
        BY <1>2, PutsAndArms
      <4> QED
        BY <2>5, <4>1, <4>2, <4>3
    <3> QED
      BY <2>3, <2>8, <3>1, <3>2, Zenon
  <2> QED
    BY <2>2, <2>4, <2>6, <2>7, <2>8
<1> QED
  BY <1>7, <1>8, <1>9

\* Handlers of objects are done, and a token starts to leave.
LEMMA HandledEffect ==
  ASSUME TypeOK, TypeOK', AccountInv,
         FlowObjectHandled \/ ActivityLeft \/ EventCaught
  PROVE  Current \in FlowObjects /\ (IsLeft(Current) \/ TakesActivity(Current))
<1> DEFINE c == Current
<1>1. PICK op \in {"handled", "activityDone", "caught"} :
             /\ Running(op) /\ Leave(c)
             /\ op = "handled" => FlowObjectHandled
  BY DEF FlowObjectHandled, ActivityLeft, EventCaught
<1>2. c \in FlowObjects /\ Placed(Item(op, c))
      /\ \A o : WorkTaken(o) = IF op \in {"begun", "arrived", "handled"} /\ c = o THEN 1 ELSE 0
  BY <1>1, RunningFacts
<1>3. leavings' = [leavings EXCEPT ![c] = @ + 1] /\ UNCHANGED <<puts, starts, called, visited>>
  BY <1>1, LeaveEffect
<1>4. CASE op = "handled"
  <2>1. Kind[c] \in {"start", "end", "task", "xor", "message", "timeout"}
    BY <1>1, <1>4 DEF FlowObjectHandled
  <2>2. c \in Automatic /\ tokens[c] > 0
    <3>1. c \in Automatic
      BY <1>2, <2>1, AutomaticFacts
    <3> QED
      BY <1>2, <1>4, <3>1, TakenHasToken
  <2>3. CASE c \in BoundaryEvents
    BY <1>1, <1>2, <1>3, <1>4, <2>2, <2>3 DEF Leave, TakesActivity
  <2>4. CASE c \notin BoundaryEvents
    BY <1>1, <1>2, <1>3, <1>4, <2>2, <2>4 DEF Leave, IsLeft, MayLeave
  <2> QED
    BY <1>2, <2>3, <2>4
<1>5. CASE op # "handled"
  <2>1. c \notin BoundaryEvents
    BY <1>2, <1>5 DEF Placed, Item, CatchEvents, BoundaryEvents, OfKind
  <2>2. MayLeave(c)
    BY <1>1, <1>2, <1>5 DEF MayLeave, Placed, Item
  <2> QED
    BY <1>1, <1>2, <1>3, <2>1, <2>2 DEF Leave, IsLeft
<1> QED
  BY <1>4, <1>5

LEMMA GatewayEffect ==
  ASSUME TypeOK, TypeOK', JoinCompletes \/ JoinWaits
  PROVE  Current \in FlowObjects /\ Renews(Current)
<1> DEFINE c == Current
<1>1. Running("handled") /\ Kind[c] = "and" /\ tokens' = Renewed(c)
  BY DEF JoinCompletes, JoinWaits
<1>2. c \in FlowObjects /\ Rest = Tail(agenda)
  BY <1>1, HeadType DEF Running, Current, Rest
<1>3. "handled" \notin CountedOps /\ "persist" \notin CountedOps
  BY DEF CountedOps
<1>4. \A q \in CountedOps, o \in FlowObjects : Taken(Item(q, o)) = 0
  BY <1>1, <1>3, UncountedHead
<1>5. Item("ended", c) \in Items /\ Item("persist", c) \in Items
  BY <1>2, ItemType DEF ContinuationOps, CallOps
<1>6. CASE JoinCompletes
  <2>1. Moves(<<Item("ended", c)>>)
    BY <1>2, <1>5, <1>6, CallHandlerMoves DEF JoinCompletes
  <2>2. leavings' = [leavings EXCEPT ![c] = @ + 1] /\ UNCHANGED <<puts, starts>>
    BY <1>2, <1>4, <1>5, <2>1, AddsOne
  <2> QED
    BY <1>1, <1>2, <1>6, <2>2 DEF JoinCompletes, Renews
<1>7. CASE JoinWaits
  <2>1. agenda' = <<Item("persist", c)>> \o Rest /\ UNCHANGED <<pending, deferred>>
    BY <1>2, <1>7 DEF JoinWaits, Proceed
  <2>2. <<Item("persist", c)>> \in Seq(Items)
    BY <1>5
  <2>3. Moves(<<Item("persist", c)>>)
    BY <2>1, <2>2, ProceedMoves
  <2>4. UNCHANGED <<puts, starts, leavings>>
    BY <1>1, <1>2, <1>3, <1>5, <2>3, KeepsOne
  <2> QED
    BY <1>1, <1>2, <1>7, <2>4 DEF JoinWaits, Renews
<1> QED
  BY <1>6, <1>7

\* The end handler of an object is done.
LEMMA EndedEffect ==
  ASSUME TypeOK, TypeOK', AccountInv,
         EmitAlongAll \/ EmitAlongOne \/ Fork \/ EndMainProcess \/ EndCalledProcess
  PROVE  /\ Current \in FlowObjects
         /\ Passes(Current) \/ Decides(Current) \/ Forks(Current)
<1> DEFINE c == Current
<1>1. Running("ended") /\ UNCHANGED <<called, visited>>
  BY DEF EmitAlongAll, EmitAlongOne, Fork, EndMainProcess, EndCalledProcess
<1>2. c \in FlowObjects /\ Rest = Tail(agenda)
  BY <1>1, HeadType DEF Running, Current, Rest
<1>3. CountsType /\ CountsType'
  BY CountTypes, NextCounts
<1>4. Outgoing[c] \in Seq(FlowObjects)
  BY <1>2, DefinitionAssumption
<1>5. CASE EmitAlongAll \/ Fork
  <2>1. /\ agenda' = Puts(c) \o Rest /\ Puts(c) \in Seq(Items)
        /\ UNCHANGED <<pending, deferred>>
    BY <1>2, <1>5, PutsAndArms DEF EmitAlongAll, Fork, Proceed
  <2>2. Moves(Puts(c))
    BY <2>1, ProceedMoves
  <2>3. /\ \A o : Occurrences(Puts(c), Item("put", o)) = Game!FlowsBetween(c, o)
        /\ \A q \in CountedOps \ {"put"}, o \in FlowObjects : Occurrences(Puts(c), Item(q, o)) = 0
    BY <1>2, PutsOccurrences
  <2>4. /\ GoesOn(c)
        /\ \A o \in FlowObjects : puts'[o] = puts[o] + Occurrences(Puts(c), Item("put", o))
    BY <1>1, <2>1, <2>2, <2>3, GoesOnWith
  <2>5. puts' = [x \in FlowObjects |-> puts[x] + Game!FlowsBetween(c, x)]
    BY <1>3, <2>3, <2>4 DEF CountsType
  <2>6. CASE Fork
    BY <1>2, <2>4, <2>5, <2>6 DEF Fork, Forks
  <2>7. CASE EmitAlongAll /\ Kind[c] \notin {"xor", "and", "end"}
    BY <1>2, <2>4, <2>5, <2>7 DEF EmitAlongAll, Passes
  <2>8. CASE EmitAlongAll /\ Kind[c] = "xor" /\ Len(Outgoing[c]) = 1
    <3> DEFINE t == Outgoing[c][1]
    <3>1. DOMAIN Outgoing[c] = {1} /\ t \in FlowObjects
      BY <1>4, <2>8
    <3>2. Puts(c) = <<Item("put", t)>>
      BY <3>1 DEF Puts
    <3>3. \A o : Occurrences(Puts(c), Item("put", o)) = IF o = t THEN 1 ELSE 0
      BY <3>2, SingleOccurrence
    <3>4. \A o \in FlowObjects : puts[o] \in Nat /\ puts'[o] = puts[o] + (IF o = t THEN 1 ELSE 0)
      BY <1>3, <2>4, <3>3 DEF CountsType
    <3>5. puts' = [puts EXCEPT ![t] = @ + 1]
      BY <1>3, <3>1, <3>4 DEF CountsType
    <3> QED
      BY <1>2, <2>4, <2>8, <3>1, <3>5 DEF EmitAlongAll, Decides
  <2> QED
    BY <1>5, <2>6, <2>7, <2>8 DEF EmitAlongAll
<1>6. CASE EmitAlongOne
  <2>0. UNCHANGED <<tokens, pending, deferred>> /\ Kind[c] = "xor"
    BY <1>6 DEF EmitAlongOne
  <2>1. ASSUME NEW i \in DOMAIN Outgoing[c], Proceed(<<Puts(c)[i]>>)
        PROVE  Decides(c)
    <3> DEFINE t == Outgoing[c][i]
    <3>1. t \in FlowObjects
      BY <1>4
    <3>2. agenda' = <<Item("put", t)>> \o Rest
      BY <1>2, <2>1 DEF Proceed, Puts
    <3>3. Item("put", t) \in Items
      BY <3>1, ItemType DEF CallOps
    <3> HIDE DEF t
    <3>4. <<Item("put", t)>> \in Seq(Items)
      BY <3>3
    <3>5. Moves(<<Item("put", t)>>)
      BY <2>0, <3>2, <3>4, ProceedMoves
    <3>6. \A q, o : Occurrences(<<Item("put", t)>>, Item(q, o)) = IF q = "put" /\ o = t THEN 1 ELSE 0
      BY SingleOccurrence
    <3>7. \A q \in CountedOps \ {"put"}, o \in FlowObjects : Occurrences(<<Item("put", t)>>, Item(q, o)) = 0
      BY <3>6
    <3>8. /\ GoesOn(c)
          /\ \A o \in FlowObjects :
               puts'[o] = puts[o] + Occurrences(<<Item("put", t)>>, Item("put", o))
      BY <1>1, <3>4, <3>5, <3>7, GoesOnWith
    <3>9. \A o \in FlowObjects : puts[o] \in Nat /\ puts'[o] = puts[o] + (IF o = t THEN 1 ELSE 0)
      BY <1>3, <3>6, <3>8 DEF CountsType
    <3>10. puts' = [puts EXCEPT ![t] = @ + 1]
      BY <1>3, <3>1, <3>9 DEF CountsType
    <3> QED
      BY <2>0, <3>8, <3>10 DEF Decides, t
  <2>2. ASSUME c \in Undecided, Proceed(<< >>) PROVE Decides(c)
    <3>1. agenda' = << >> \o Rest /\ << >> \in Seq(Items)
      BY <1>2, <2>2 DEF Proceed
    <3>2. Moves(<< >>)
      BY <2>0, <3>1, ProceedMoves
    <3>3. \A e : Occurrences(<< >>, e) = 0
      BY SingleOccurrence
    <3>4. GoesOn(c) /\ \A o \in FlowObjects : puts'[o] = puts[o] + Occurrences(<< >>, Item("put", o))
      BY <1>1, <3>1, <3>2, <3>3, GoesOnWith
    <3>5. \A o \in FlowObjects : puts'[o] = puts[o] + 0
      <4> TAKE o \in FlowObjects
      <4>1. Occurrences(<< >>, Item("put", o)) = 0
        BY <3>3, Zenon
      <4> QED
        BY <3>4, <4>1
    <3>6. UNCHANGED puts
      BY <1>3, <3>5 DEF CountsType
    <3> QED
      BY <2>0, <2>2, <3>4, <3>6 DEF Decides
  <2> QED
    BY <1>2, <1>6, <2>1, <2>2 DEF EmitAlongOne
<1>7. ASSUME Kind[c] = "end", UNCHANGED tokens, NEW op, op \notin CountedOps, NEW x \in FlowObjects,
             Item(op, x) \in Items, Moves(<<Item(op, x)>>)
      PROVE  Passes(c)
  <2>1. <<Item(op, x)>> \in Seq(Items)
    BY <1>7
  <2>2. \A q \in CountedOps, o \in FlowObjects : Occurrences(<<Item(op, x)>>, Item(q, o)) = 0
    BY <1>7, SingleOccurrence
  <2>3. /\ GoesOn(c)
        /\ \A o \in FlowObjects : puts'[o] = puts[o] + Occurrences(<<Item(op, x)>>, Item("put", o))
    BY <1>1, <1>7, <2>1, <2>2, GoesOnWith
  <2>4. ASSUME NEW o \in FlowObjects PROVE Game!FlowsBetween(c, o) = 0
    <3>1. {i \in DOMAIN Outgoing[c] : Outgoing[c][i] = o} = {}
      BY <1>2, <1>7, ValidationAssumption DEF OfKind
    <3> QED
      BY <3>1, GameCardinality, FS_EmptySet DEF Game!FlowsBetween
  <2>5. "put" \in CountedOps
    BY DEF CountedOps
  <2>6. \A o \in FlowObjects : puts'[o] = puts[o] + Game!FlowsBetween(c, o)
    BY <2>2, <2>3, <2>4, <2>5
  <2>7. puts' = [o \in FlowObjects |-> puts[o] + Game!FlowsBetween(c, o)]
    BY <1>3, <2>6 DEF CountsType
  <2> QED
    BY <1>7, <2>3, <2>7 DEF Passes
<1>8. CASE EndMainProcess
  <2>1. Item("persistAndClose", c) \in Items /\ "persistAndClose" \notin CountedOps
    BY <1>2, ItemType DEF CallOps, CountedOps
  <2>2. <<Item("persistAndClose", c)>> \in Seq(Items)
    BY <2>1
  <2>3. agenda' = <<Item("persistAndClose", c)>> \o Rest /\ UNCHANGED <<pending, deferred>>
    BY <1>2, <1>8 DEF EndMainProcess, Proceed
  <2>4. Moves(<<Item("persistAndClose", c)>>)
    BY <2>2, <2>3, ProceedMoves
  <2> QED
    BY <1>2, <1>7, <1>8, <2>1, <2>4 DEF EndMainProcess
<1>9. CASE EndCalledProcess
  <2> DEFINE a == CallOf[ProcessOf[c]]
  <2>1. a \in FlowObjects
    BY <1>2, <1>9, DefinitionAssumption DEF EndCalledProcess, OfKind
  <2>2. EmitEvent(Item("activityEnd", a), Rest) /\ UNCHANGED <<pending, tokens>> /\ Kind[c] = "end"
    BY <1>2, <1>9 DEF EndCalledProcess
  <2> HIDE DEF a
  <2>3. Item("activityEnd", a) \in Events /\ Item("activityEnd", a) \in Items /\ "activityEnd" \notin CountedOps
    BY <2>1, ItemType DEF EventOps, CountedOps
  <2>4. Moves(<<Item("activityEnd", a)>>)
    BY <2>2, <2>3, EmitEventMoves
  <2> QED
    BY <1>2, <1>7, <2>1, <2>2, <2>3, <2>4
<1> QED
  BY <1>5, <1>6, <1>8, <1>9

LEMMA CallEffect ==
  ASSUME TypeOK, TypeOK', Main \notin called, EnterCall \/ StartCalledProcess
  PROVE  \E p \in Processes : Calls(p) \/ Enters(p)
<1> DEFINE c == Current
<1>1. PICK op \in {"handled", "startCall"} : Running(op)
  BY DEF EnterCall, StartCalledProcess
<1>2. agenda # << >> /\ c \in FlowObjects /\ Rest = Tail(agenda)
  BY <1>1, HeadType DEF Running, Current, Rest
<1>3. CASE EnterCall
  <2>1. PICK p \in Processes \ ({Main} \cup called) :
               CallOf[p] = c /\ called' = called \cup {p}
    BY <1>3 DEF EnterCall
  <2>2. agenda' = Append(Tail(agenda), Item("startCall", c)) /\ UNCHANGED <<pending, deferred>>
    BY <1>3 DEF EnterCall
  <2>3. Moves(<<Item("startCall", c)>>)
    BY <1>2, <2>2, AppendMoves
  <2>4. Item("startCall", c) \in Items
    BY <1>2, ItemType DEF CallOps
  <2>5. \A q \in CountedOps, o \in FlowObjects : Taken(Item(q, o)) = 0
    <3>1. Running("handled") /\ "handled" \notin CountedOps
      BY <1>3 DEF EnterCall, CountedOps
    <3> QED
      BY <3>1, UncountedHead
  <2>6. starts' = [starts EXCEPT ![c] = @ + 1] /\ UNCHANGED <<puts, leavings>>
    BY <1>2, <2>3, <2>4, <2>5, AddsOne
  <2>7. Calls(p)
    BY <1>3, <2>1, <2>6 DEF EnterCall, Calls
  <2> QED
    BY <2>1, <2>7
<1>4. CASE StartCalledProcess
  <2>1. PICK p \in called : CallOf[p] = c /\ Proceed(<<Item("put", StartOf[p])>>)
    BY <1>4 DEF StartCalledProcess
  <2> DEFINE s == StartOf[p]
  <2>2. p \in Processes /\ s \in FlowObjects
    BY DefinitionAssumption DEF TypeOK, OfKind
  <2>3. Running("startCall") /\ UNCHANGED <<tokens, visited, called, pending, deferred>>
    BY <1>4 DEF StartCalledProcess
  <2>4. starts[c] > 0
    BY <2>3, HeadCounted DEF CountedOps
  <2>5. agenda' = <<Item("put", s)>> \o Rest
    BY <1>2, <2>1 DEF Proceed
  <2> HIDE DEF s
  <2>6. Item("put", s) \in Items
    BY <2>2, ItemType DEF CallOps
  <2>7. <<Item("put", s)>> \in Seq(Items)
    BY <2>6
  <2>8. Moves(<<Item("put", s)>>)
    BY <2>3, <2>5, <2>7, ProceedMoves
  <2>9. CountsMove(<<Item("put", s)>>)
    BY <2>7, <2>8, MovesCount
  <2>10. CountsType /\ CountsType'
    BY CountTypes, NextCounts
  <2>11. \A q, o : Taken(Item(q, o)) = IF q = "startCall" /\ o = c THEN 1 ELSE 0
    BY <2>3, RunningTaken
  <2>12. \A q, o : Occurrences(<<Item("put", s)>>, Item(q, o)) = IF q = "put" /\ o = s THEN 1 ELSE 0
    BY SingleOccurrence
  <2>13. ASSUME NEW o \in FlowObjects
         PROVE  /\ puts'[o] = IF o = s THEN puts[o] + 1 ELSE puts[o]
                /\ starts'[o] = IF o = c THEN starts[o] - 1 ELSE starts[o]
                /\ leavings'[o] = leavings[o]
    <3>1. /\ Taken(Item("startCall", o)) = IF o = c THEN 1 ELSE 0
          /\ Taken(Item("put", o)) = 0 /\ Taken(Item("ended", o)) = 0
          /\ Taken(Item("timerHandled", o)) = 0
      BY <2>11
    <3>2. /\ Occurrences(<<Item("put", s)>>, Item("put", o)) = IF o = s THEN 1 ELSE 0
          /\ Occurrences(<<Item("put", s)>>, Item("startCall", o)) = 0
          /\ Occurrences(<<Item("put", s)>>, Item("ended", o)) = 0
          /\ Occurrences(<<Item("put", s)>>, Item("timerHandled", o)) = 0
      BY <2>12
    <3>3. /\ puts[o] \in Nat /\ starts[o] \in Nat /\ leavings[o] \in Nat
          /\ puts'[o] \in Nat /\ starts'[o] \in Nat /\ leavings'[o] \in Nat
      BY <2>10 DEF CountsType
    <3> HIDE DEF c
    <3> QED
      BY <2>9, <3>1, <3>2, <3>3 DEF CountsMove
  <2>14. puts' = [puts EXCEPT ![s] = @ + 1]
    BY <2>2, <2>10, <2>13 DEF CountsType
  <2>15. starts' = [starts EXCEPT ![c] = @ - 1]
    BY <1>2, <2>10, <2>13 DEF CountsType
  <2>16. leavings' = leavings
    BY <2>10, <2>13 DEF CountsType
  <2>17. Enters(p)
    BY <2>1, <2>3, <2>4, <2>14, <2>15, <2>16 DEF Enters, s
  <2> QED
    BY <2>2, <2>17
<1> QED
  BY <1>3, <1>4

LEMMA CatchBoundaryEffect ==
  ASSUME TypeOK, TypeOK', AccountInv, CatchBoundaryEvent
  PROVE  Current \in FlowObjects /\ Interrupts(Current)
<1> DEFINE c == Current
<1>1. Running("boundaryCatch") /\ UNCHANGED <<pending, deferred>>
  BY DEF CatchBoundaryEvent
<1>2. c \in FlowObjects /\ Rest = Tail(agenda) /\ Placed(Item("boundaryCatch", c))
  BY <1>1, RunningFacts
<1>3. c \in BoundaryEvents
  BY <1>2 DEF Placed, Item
<1>4. Item("put", c) \in Items
  BY <1>2, ItemType DEF CallOps
<1>5. <<Item("put", c)>> \in Seq(Items)
  BY <1>4
<1>6. agenda' = <<Item("put", c)>> \o Rest
  BY <1>2 DEF CatchBoundaryEvent, Proceed
<1>7. Moves(<<Item("put", c)>>)
  BY <1>1, <1>5, <1>6, ProceedMoves
<1>8. \A q \in CountedOps, o \in FlowObjects : Taken(Item(q, o)) = 0
  <2>1. "boundaryCatch" \notin CountedOps
    BY DEF CountedOps
  <2> QED
    BY <1>1, <2>1, UncountedHead
<1>9. puts' = [puts EXCEPT ![c] = @ + 1] /\ UNCHANGED <<starts, leavings>>
  BY <1>2, <1>4, <1>7, <1>8, AddsOne
<1> QED
  BY <1>2, <1>3, <1>9 DEF CatchBoundaryEvent, Interrupts

LEMMA TimerHandledEffect ==
  ASSUME TypeOK, TypeOK', TimerHandled
  PROVE  Keeps
<1> DEFINE c == Current
<1>1. Running("timerHandled") /\ c \in FlowObjects /\ Rest = Tail(agenda)
  BY HeadCounted DEF TimerHandled, CountedOps
<1>2. Item("ended", c) \in Items
  BY <1>1, ItemType DEF ContinuationOps
<1>3. <<Item("ended", c)>> \in Seq(Items) /\ Moves(<<Item("ended", c)>>)
  BY <1>1, <1>2, CallHandlerMoves DEF TimerHandled
<1>4. CountsMove(<<Item("ended", c)>>)
  BY <1>3, MovesCount
<1>5. CountsType /\ CountsType'
  BY CountTypes, NextCounts
<1>6. \A q, o : Taken(Item(q, o)) = IF q = "timerHandled" /\ o = c THEN 1 ELSE 0
  BY <1>1, RunningTaken
<1>7. \A q, o : Occurrences(<<Item("ended", c)>>, Item(q, o)) = IF q = "ended" /\ o = c THEN 1 ELSE 0
  BY SingleOccurrence
<1>8. ASSUME NEW o \in FlowObjects
      PROVE  puts'[o] = puts[o] /\ starts'[o] = starts[o] /\ leavings'[o] = leavings[o]
  <2>1. /\ Taken(Item("timerHandled", o)) = IF o = c THEN 1 ELSE 0
        /\ Taken(Item("put", o)) = 0 /\ Taken(Item("startCall", o)) = 0
        /\ Taken(Item("ended", o)) = 0
    BY <1>6
  <2>2. /\ Occurrences(<<Item("ended", c)>>, Item("ended", o)) = IF o = c THEN 1 ELSE 0
        /\ Occurrences(<<Item("ended", c)>>, Item("put", o)) = 0
        /\ Occurrences(<<Item("ended", c)>>, Item("startCall", o)) = 0
        /\ Occurrences(<<Item("ended", c)>>, Item("timerHandled", o)) = 0
    BY <1>7
  <2>3. /\ puts[o] \in Nat /\ starts[o] \in Nat /\ leavings[o] \in Nat
        /\ puts'[o] \in Nat /\ starts'[o] \in Nat /\ leavings'[o] \in Nat
    BY <1>5 DEF CountsType
  <2> HIDE DEF c
  <2> QED
    BY <1>4, <2>1, <2>2, <2>3 DEF CountsMove
<1>9. UNCHANGED <<puts, starts, leavings>>
  BY <1>5, <1>8 DEF CountsType
<1> QED
  BY <1>9 DEF TimerHandled, Keeps

\* Events from outside.
LEMMA OutsideEffect ==
  ASSUME TypeOK, TypeOK', Received, agenda = << >>,
         IoEvent \/ ClientStep \/ (\E k \in Late : HandlerAnswers(k)) \/ Idle
  PROVE  Keeps \/ Begins
<1>1. ASSUME Moves(<< >>), UNCHANGED <<tokens, called, visited>> PROVE Keeps
  <2>1. << >> \in Seq(Items) /\ \A i \in DOMAIN << >> : << >>[i].op \notin CountedOps
    OBVIOUS
  <2>2. \A q \in CountedOps, o \in FlowObjects : Taken(Item(q, o)) = 0
    BY UncountedHead
  <2>3. UNCHANGED <<puts, starts, leavings>>
    BY <1>1, <2>1, <2>2, AddsNone
  <2> QED
    BY <1>1, <2>3 DEF Keeps
<1>2. ASSUME UNCHANGED <<agenda, pending, tokens, called, visited>> PROVE Keeps
  BY <1>2, CountsSame DEF Keeps
<1>3. CASE IoEvent
  <2>1. CASE SaveDone \/ ConnectionClosed
    <3>1. EmitDeferredEvents /\ UNCHANGED <<tokens, pending, called, visited>>
      BY <2>1 DEF SaveDone, ConnectionClosed
    <3> QED
      BY <1>1, <3>1, EmitDeferredEventsMoves
  <2>2. CASE FinalSaveDone \/ SaveFails
    BY <1>2, <2>2 DEF FinalSaveDone, SaveFails
  <2> QED
    BY <1>3, <2>1, <2>2 DEF IoEvent
<1>4. ASSUME NEW k \in Late, HandlerAnswers(k) PROVE Keeps
  <2>1. Moves(<< >>)
    BY <1>4, HandlerAnswersMoves
  <2> QED
    BY <1>1, <1>4, <2>1 DEF HandlerAnswers
<1>5. Rest = << >> /\ \A e : Taken(e) = 0
  BY NothingTaken, NothingRuns
<1>6. CASE TriggerStart
  <2> DEFINE s == StartOf[Main]
  <2>1. s \in FlowObjects
    BY DefinitionAssumption DEF OfKind
  <2>2. /\ s \notin visited /\ agenda' = <<Item("put", s)>>
        /\ UNCHANGED <<tokens, visited, called, pending, deferred>>
    BY <1>6 DEF TriggerStart, ClientCalls
  <2>3. Item("put", s) \in Items
    BY <2>1, ItemType DEF CallOps
  <2> HIDE DEF s
  <2>4. <<Item("put", s)>> \in Seq(Items) /\ <<Item("put", s)>> \o << >> = <<Item("put", s)>>
    BY <2>3
  <2>5. agenda' = <<Item("put", s)>> \o Rest
    BY <1>5, <2>2, <2>4, Zenon
  <2>6. Moves(<<Item("put", s)>>)
    BY <2>2, <2>4, <2>5, ProceedMoves
  <2>7. puts' = [puts EXCEPT ![s] = @ + 1] /\ UNCHANGED <<starts, leavings>>
    BY <1>5, <2>1, <2>3, <2>6, AddsOne
  <2> QED
    BY <2>2, <2>7 DEF Begins, s
<1>7. ASSUME NEW op \in {"activityEnd", "boundaryCatch"}, NEW o \in FlowObjects,
             EmitEvent(Item(op, o), << >>), UNCHANGED <<tokens, visited, called, pending>>
      PROVE  Keeps
  <2>1. Item(op, o) \in Events /\ Item(op, o) \in Items /\ op \notin CountedOps
    BY ItemType DEF EventOps, CountedOps
  <2>2. EmitEvent(Item(op, o), Rest)
    BY <1>5, <1>7, Zenon
  <2>3. Moves(<<Item(op, o)>>)
    BY <1>7, <2>1, <2>2, EmitEventMoves
  <2>4. UNCHANGED <<puts, starts, leavings>>
    BY <2>1, <2>3, KeepsOne
  <2> QED
    BY <1>7, <2>4 DEF Keeps
<1>8. ASSUME NEW o \in FlowObjects, TriggerCatchEvent(o) PROVE Keeps
  <2>1. Item("emitCatch", o) \in Items /\ "emitCatch" \notin CountedOps
    BY ItemType DEF CallOps, CountedOps
  <2>2. <<Item("emitCatch", o)>> \in Seq(Items)
        /\ <<Item("emitCatch", o)>> \o << >> = <<Item("emitCatch", o)>>
    BY <2>1
  <2>3. /\ agenda' = <<Item("emitCatch", o)>>
        /\ UNCHANGED <<tokens, visited, called, pending, deferred>>
    BY <1>8 DEF TriggerCatchEvent, ClientCalls
  <2>4. agenda' = <<Item("emitCatch", o)>> \o Rest
    BY <1>5, <2>2, <2>3, Zenon
  <2>5. Moves(<<Item("emitCatch", o)>>)
    BY <2>2, <2>3, <2>4, ProceedMoves
  <2>6. UNCHANGED <<puts, starts, leavings>>
    BY <2>1, <2>5, KeepsOne
  <2> QED
    BY <2>3, <2>6 DEF Keeps
<1>9. CASE ClientStep
  <2>1. ASSUME NEW o \in FlowObjects, TaskDone(o) \/ TriggerBoundaryEvent(o) PROVE Keeps
    BY <1>7, <2>1 DEF TaskDone, TriggerBoundaryEvent, ClientCalls
  <2> QED
    BY <1>6, <1>8, <1>9, <2>1 DEF ClientStep
<1> QED
  BY <1>2, <1>3, <1>4, <1>9 DEF Idle, vars

LEMMA StepEffect ==
  ASSUME TypeOK, AccountInv, Main \notin called, [Next]_vars
  PROVE  Effect
<1>1. TypeOK'
  BY NextType
<1>2. CASE TokenStep
  <2>1. CASE PutToken
    BY <1>1, <2>1, PutTokenEffect DEF Effect
  <2>2. CASE AnnounceToken \/ ArriveAtCatchEvent \/ ArriveAtFlowObject \/ WaitTaskHandled
    BY <1>1, <2>2, KeepsEffect DEF Effect
  <2>3. CASE FlowObjectHandled
    BY <1>1, <2>3, HandledEffect DEF Effect
  <2>4. CASE JoinCompletes \/ JoinWaits
    BY <1>1, <2>4, GatewayEffect DEF Effect
  <2>5. CASE EmitAlongAll \/ EmitAlongOne \/ Fork \/ EndMainProcess \/ EndCalledProcess
    BY <1>1, <2>5, EndedEffect DEF Effect
  <2>6. CASE EnterCall \/ StartCalledProcess
    BY <1>1, <2>6, CallEffect DEF Effect
  <2> QED
    BY <1>2, <2>1, <2>2, <2>3, <2>4, <2>5, <2>6 DEF TokenStep
<1>3. CASE EventStep
  <2>1. CASE ActivityEnds \/ EmitCatchEvent \/ CatchEvent \/ UnhandledEvent
    BY <1>1, <2>1, KeepsEffect DEF Effect
  <2>2. CASE ActivityLeft \/ EventCaught
    BY <1>1, <2>2, HandledEffect DEF Effect
  <2>3. CASE CatchBoundaryEvent
    BY <1>1, <2>3, CatchBoundaryEffect DEF Effect
  <2> QED
    BY <1>3, <2>1, <2>2, <2>3 DEF EventStep
<1>4. CASE TimerStep
  <2>1. CASE ArmTimer
    BY <1>1, <2>1, KeepsEffect DEF Effect
  <2>2. CASE ArmExpiredTimer
    <3>1. Running("arm") /\ Current \in PastDue /\ Expire(Current, Tail(agenda))
      BY <2>2 DEF ArmExpiredTimer
    <3>2. Current \in TimerEvents /\ Rest = Tail(agenda) /\ CanExpire(Current)
      BY <3>1, EnvironmentAssumption DEF CanExpire, Running, Rest
    <3>3. Current \in FlowObjects
      BY <3>2 DEF TimerEvents, OfKind
    <3>4. TimesOut(Current) \/ IsLeft(Current)
      BY <1>1, <3>1, <3>2, TimeoutEffect
    <3> QED
      BY <3>3, <3>4 DEF Effect
  <2>3. CASE TimerHandled
    BY <1>1, <2>3, TimerHandledEffect DEF Effect
  <2> QED
    BY <1>4, <2>1, <2>2, <2>3 DEF TimerStep
<1>5. CASE Persist
  BY <1>1, <1>5, KeepsEffect DEF Effect
<1>6. CASE TimerEvent
  <2>1. PICK t \in TimerEvents : TimerFires(t) \/ LeakedTimerFires(t)
    BY <1>6 DEF TimerEvent
  <2>2. agenda = << >> /\ Expire(t, << >>) /\ CanExpire(t) /\ t \in FlowObjects
    BY <2>1 DEF TimerFires, LeakedTimerFires, CanExpire, TimerEvents, OfKind
  <2>3. Expire(t, Rest)
    BY <2>2, NothingRuns, Zenon
  <2>4. TimesOut(t) \/ IsLeft(t)
    BY <1>1, <2>2, <2>3, TimeoutEffect
  <2> QED
    BY <2>2, <2>4 DEF Effect
<1>7. CASE IoEvent \/ ClientStep \/ (\E k \in Late : HandlerAnswers(k)) \/ Idle
  <2>1. agenda = << >>
    BY <1>7 DEF IoEvent, SaveDone, FinalSaveDone, SaveFails, ConnectionClosed, ClientStep,
       TriggerStart, TaskDone, TriggerCatchEvent, TriggerBoundaryEvent, ClientCalls,
       HandlerAnswers, Idle
  <2> QED
    BY <1>1, <1>7, <2>1, OutsideEffect DEF Effect, AccountInv
<1>8. CASE UNCHANGED vars
  BY <1>8, CountsSame DEF vars, Effect, Keeps
<1> QED
  BY <1>2, <1>3, <1>4, <1>5, <1>6, <1>7, <1>8 DEF Next, RunStep

(****************************************************************************)
(* The state of the game that the engine plays.                             *)
(****************************************************************************)

begun == StartOf[Main] \in visited \/ puts[StartOf[Main]] > 0
marks == [o \in FlowObjects |-> MarkingOf(o)]
inside == {p \in called : starts[CallOf[p]] = 0}

Timeouts    == TimerEvents \cap BoundaryEvents
TimedOut(o) == {b \in BoundaryEventsOf(o) : Kind[b] = "timeout" /\ puts[b] + tokens[b] > 0}

\* What the engine keeps so that a token that a timeout has taken is not one of the game:
\* the activity still has it, and the timeout has one token only.  A called process is
\* started once.
OwnersInv ==
  /\ \A o \in FlowObjects : Expired(o) <= tokens[o]
  /\ \A b \in Timeouts : puts[b] + tokens[b] <= 1
  /\ Main \notin called
  /\ \A p \in Processes \ {Main} : starts[CallOf[p]] <= (IF p \in called THEN 1 ELSE 0)

LEMMA BoundaryFacts ==
  /\ \A o \in FlowObjects : BoundaryEventsOf(o) \subseteq BoundaryEvents
  /\ BoundaryEvents \subseteq FlowObjects
  /\ \A b \in BoundaryEvents : Kind[b] \in {"message", "timeout"}
  /\ \A b \in FlowObjects : b \in Timeouts <=> Kind[b] = "timeout"
  /\ \A b \in FlowObjects : b \in BoundaryEvents <=> Kind[b] \in {"message", "timeout"}
  /\ \A b \in BoundaryEvents :
       /\ Host(b) \in FlowObjects /\ b \in BoundaryEventsOf(Host(b))
       /\ Kind[Host(b)] = "waitTask" /\ Host(b) # b
  /\ \A b \in BoundaryEvents, o \in FlowObjects : b \in BoundaryEventsOf(o) => o = Host(b)
<1>1. ASSUME NEW o \in FlowObjects PROVE BoundaryEventsOf(o) \subseteq BoundaryEvents
  <2>1. Boundaries[o] \in Seq(BoundaryEvents)
    BY DefinitionAssumption
  <2> QED
    BY <2>1 DEF BoundaryEventsOf
<1>2. /\ BoundaryEvents \subseteq FlowObjects
      /\ \A b \in BoundaryEvents : Kind[b] \in {"message", "timeout"}
      /\ \A b \in FlowObjects : b \in Timeouts <=> Kind[b] = "timeout"
      /\ \A b \in FlowObjects : b \in BoundaryEvents <=> Kind[b] \in {"message", "timeout"}
  BY DEF BoundaryEvents, Timeouts, TimerEvents, OfKind
<1>3. ASSUME NEW b \in BoundaryEvents
      PROVE  /\ Host(b) \in FlowObjects /\ b \in BoundaryEventsOf(Host(b))
             /\ Kind[Host(b)] = "waitTask" /\ Host(b) # b
  <2>1. \E o \in FlowObjects : \E i \in DOMAIN Boundaries[o] : Boundaries[o][i] = b
    BY DefinitionAssumption
  <2>2. Host(b) \in FlowObjects /\ \E i \in DOMAIN Boundaries[Host(b)] : Boundaries[Host(b)][i] = b
    BY <2>1 DEF Host
  <2>3. Boundaries[Host(b)] # << >>
    BY <2>2
  <2>4. Kind[Host(b)] = "waitTask"
    BY <2>2, <2>3, DefinitionAssumption
  <2>5. Kind[b] # "waitTask"
    BY <1>2
  <2> QED
    BY <2>2, <2>4, <2>5 DEF BoundaryEventsOf
<1>4. ASSUME NEW b \in BoundaryEvents, NEW o \in FlowObjects, b \in BoundaryEventsOf(o)
      PROVE  o = Host(b)
  <2>1. Host(b) \in FlowObjects /\ b \in BoundaryEventsOf(Host(b))
    BY <1>3
  <2>2. BoundaryEventsOf(o) \cap BoundaryEventsOf(Host(b)) # {}
    BY <1>4, <2>1
  <2> QED
    BY <2>1, <2>2, ValidationAssumption
<1> QED
  BY <1>1, <1>2, <1>3, <1>4

ExpiredFacts ==
  \A o \in FlowObjects :
    /\ IsFiniteSet(TimedOut(o))
    /\ Expired(o) = Cardinality(TimedOut(o))
    /\ Expired(o) \in Nat
    /\ Kind[o] # "waitTask" => Expired(o) = 0

LEMMA TimedOutFacts == ExpiredFacts
<1> SUFFICES ASSUME NEW o \in FlowObjects
             PROVE  /\ IsFiniteSet(TimedOut(o))
                    /\ Expired(o) = Cardinality(TimedOut(o))
                    /\ Expired(o) \in Nat
                    /\ Kind[o] # "waitTask" => Expired(o) = 0
  BY DEF ExpiredFacts
<1>1. BoundaryEventsOf(o) \subseteq FlowObjects
  BY BoundaryFacts
<1>2. IsFiniteSet(TimedOut(o))
  BY <1>1, DefinitionAssumption, FS_Subset DEF TimedOut
<1>3. Expired(o) = Cardinality(TimedOut(o))
  <2>1. TimedOut(o) = {b \in BoundaryEventsOf(o) :
                         Kind[b] = "timeout" /\ OnAgenda(Item("put", b)) + tokens[b] > 0}
    BY <1>1 DEF TimedOut, puts
  <2> QED
    BY <2>1 DEF Expired
<1>4. ASSUME Kind[o] # "waitTask" PROVE Expired(o) = 0
  <2>1. Boundaries[o] = << >>
    BY <1>4, DefinitionAssumption
  <2>2. TimedOut(o) = {}
    BY <2>1 DEF TimedOut, BoundaryEventsOf
  <2> QED
    BY <1>3, <2>2, FS_EmptySet
<1> QED
  BY <1>2, <1>3, <1>4, FS_CardinalityType

\* The engine's markings are those of a game.
MarksType ==
  /\ marks \in [FlowObjects -> Nat]
  /\ \A o \in FlowObjects :
       marks[o] = puts[o] + (tokens[o] - Expired(o)) + (IF Kind[o] = "and" THEN 0 ELSE leavings[o])

LEMMA MarksTypes == TypeOK /\ OwnersInv => MarksType
<1> SUFFICES ASSUME TypeOK, OwnersInv PROVE MarksType
  OBVIOUS
<1>1. ASSUME NEW o \in FlowObjects
      PROVE  /\ marks[o] = puts[o] + (tokens[o] - Expired(o))
                             + (IF Kind[o] = "and" THEN 0 ELSE leavings[o])
             /\ marks[o] \in Nat
  <2>1. puts[o] \in Nat /\ leavings[o] \in Nat /\ tokens[o] \in Nat
    BY CountTypes DEF CountsType, TypeOK
  <2>2. Expired(o) \in Nat /\ Expired(o) <= tokens[o]
    BY TimedOutFacts DEF ExpiredFacts, OwnersInv
  <2>3. marks[o] = puts[o] + (tokens[o] - Expired(o)) + (IF Kind[o] = "and" THEN 0 ELSE leavings[o])
    BY DEF marks, MarkingOf, puts, leavings
  <2> QED
    BY <2>1, <2>2, <2>3
<1> QED
  BY <1>1 DEF MarksType, marks

LEMMA NextMarks == (TypeOK' /\ OwnersInv' => MarksType') /\ ExpiredFacts'
  BY MarksTypes, TimedOutFacts, PTL

\* As long as no timeout gets its token or loses it, the activities keep their tokens.
LEMMA SameTimedOut ==
  ASSUME \A b \in Timeouts : puts'[b] + tokens'[b] > 0 <=> puts[b] + tokens[b] > 0
  PROVE  \A o \in FlowObjects : Expired(o)' = Expired(o)
<1> SUFFICES ASSUME NEW o \in FlowObjects PROVE Expired(o)' = Expired(o)
  OBVIOUS
<1>1. TimedOut(o)' = TimedOut(o)
  <2>1. \A b \in BoundaryEventsOf(o) : Kind[b] = "timeout" => b \in Timeouts
    BY BoundaryFacts
  <2> QED
    BY <2>1 DEF TimedOut, BoundaryEventsOf
<1>2. Expired(o) = Cardinality(TimedOut(o))
  BY TimedOutFacts DEF ExpiredFacts
<1>3. Expired(o)' = Cardinality(TimedOut(o)')
  BY NextMarks DEF ExpiredFacts
<1> QED
  BY <1>1, <1>2, <1>3

\* A timeout that gets its token takes one of the activity's.
LEMMA OneMoreTimedOut ==
  ASSUME NEW b \in Timeouts, puts[b] + tokens[b] = 0, puts'[b] + tokens'[b] > 0,
         \A x \in Timeouts \ {b} : puts'[x] + tokens'[x] > 0 <=> puts[x] + tokens[x] > 0
  PROVE  \A o \in FlowObjects : Expired(o)' = IF o = Host(b) THEN Expired(o) + 1 ELSE Expired(o)
<1> SUFFICES ASSUME NEW o \in FlowObjects
             PROVE  Expired(o)' = IF o = Host(b) THEN Expired(o) + 1 ELSE Expired(o)
  OBVIOUS
<1>0. b \in BoundaryEvents /\ Kind[b] = "timeout"
  BY BoundaryFacts DEF Timeouts
<1>1. \A x \in BoundaryEventsOf(o) : Kind[x] = "timeout" => x \in Timeouts
  BY BoundaryFacts
<1>2. Expired(o) = Cardinality(TimedOut(o)) /\ IsFiniteSet(TimedOut(o))
  BY TimedOutFacts DEF ExpiredFacts
<1>3. Expired(o)' = Cardinality(TimedOut(o)')
  BY NextMarks DEF ExpiredFacts
<1>4. CASE o = Host(b)
  <2>1. b \in BoundaryEventsOf(o)
    BY <1>0, <1>4, BoundaryFacts
  <2>2. TimedOut(o)' = TimedOut(o) \cup {b} /\ b \notin TimedOut(o)
    BY <1>0, <1>1, <2>1 DEF TimedOut, BoundaryEventsOf
  <2>3. Cardinality(TimedOut(o) \cup {b}) = Cardinality(TimedOut(o)) + 1
    BY <1>2, <2>2, FS_AddElement
  <2> QED
    BY <1>2, <1>3, <1>4, <2>2, <2>3
<1>5. CASE o # Host(b)
  <2>1. b \notin BoundaryEventsOf(o)
    BY <1>0, <1>5, BoundaryFacts
  <2>2. TimedOut(o)' = TimedOut(o)
    BY <1>1, <2>1 DEF TimedOut, BoundaryEventsOf
  <2> QED
    BY <1>2, <1>3, <1>5, <2>2
<1> QED
  BY <1>4, <1>5

LEMMA OneLessTimedOut ==
  ASSUME NEW b \in Timeouts, puts[b] + tokens[b] > 0, ~(puts'[b] + tokens'[b] > 0),
         \A x \in Timeouts \ {b} : puts'[x] + tokens'[x] > 0 <=> puts[x] + tokens[x] > 0
  PROVE  \A o \in FlowObjects :
           /\ Expired(o)' = IF o = Host(b) THEN Expired(o) - 1 ELSE Expired(o)
           /\ o = Host(b) => Expired(o) > 0
<1> SUFFICES ASSUME NEW o \in FlowObjects
             PROVE  /\ Expired(o)' = IF o = Host(b) THEN Expired(o) - 1 ELSE Expired(o)
                    /\ o = Host(b) => Expired(o) > 0
  OBVIOUS
<1>0. b \in BoundaryEvents /\ Kind[b] = "timeout"
  BY BoundaryFacts DEF Timeouts
<1>1. \A x \in BoundaryEventsOf(o) : Kind[x] = "timeout" => x \in Timeouts
  BY BoundaryFacts
<1>2. Expired(o) = Cardinality(TimedOut(o)) /\ IsFiniteSet(TimedOut(o)) /\ Expired(o) \in Nat
  BY TimedOutFacts DEF ExpiredFacts
<1>3. Expired(o)' = Cardinality(TimedOut(o)')
  BY NextMarks DEF ExpiredFacts
<1>4. CASE o = Host(b)
  <2>1. b \in BoundaryEventsOf(o)
    BY <1>0, <1>4, BoundaryFacts
  <2>2. TimedOut(o)' = TimedOut(o) \ {b} /\ b \in TimedOut(o)
    BY <1>0, <1>1, <2>1 DEF TimedOut, BoundaryEventsOf
  <2>3. Cardinality(TimedOut(o) \ {b}) = Cardinality(TimedOut(o)) - 1
    BY <1>2, <2>2, FS_RemoveElement
  <2>4. Cardinality(TimedOut(o)) # 0
    BY <1>2, <2>2, FS_EmptySet
  <2> QED
    BY <1>2, <1>3, <1>4, <2>2, <2>3, <2>4
<1>5. CASE o # Host(b)
  <2>1. b \notin BoundaryEventsOf(o)
    BY <1>0, <1>5, BoundaryFacts
  <2>2. TimedOut(o)' = TimedOut(o)
    BY <1>1, <2>1 DEF TimedOut, BoundaryEventsOf
  <2> QED
    BY <1>2, <1>3, <1>5, <2>2
<1> QED
  BY <1>4, <1>5

(****************************************************************************)
(* What each effect is in the game.                                         *)
(****************************************************************************)

\* The parts of the state are what they should be, before the step and after it.
Playing == TypeOK /\ TypeOK' /\ OwnersInv

LEMMA PlayingFacts ==
  ASSUME Playing
  PROVE  /\ CountsType /\ CountsType' /\ MarksType
         /\ tokens \in [FlowObjects -> Nat] /\ tokens' \in [FlowObjects -> Nat]
         /\ \A o \in FlowObjects :
              /\ Expired(o) \in Nat /\ Expired(o) <= tokens[o] /\ Expired(o)' \in Nat
              /\ Kind[o] # "waitTask" => Expired(o) = 0 /\ Expired(o)' = 0
         /\ OwnersInv' => MarksType'
<1>1. CountsType /\ CountsType' /\ MarksType
  BY CountTypes, NextCounts, MarksTypes DEF Playing
<1>2. tokens \in [FlowObjects -> Nat] /\ tokens' \in [FlowObjects -> Nat]
  BY DEF Playing, TypeOK
<1>3. \A o \in FlowObjects :
        /\ Expired(o) \in Nat /\ Expired(o) <= tokens[o]
        /\ Kind[o] # "waitTask" => Expired(o) = 0
  BY TimedOutFacts DEF Playing, OwnersInv, ExpiredFacts
<1>4. \A o \in FlowObjects :
        /\ Expired(o)' \in Nat
        /\ Kind[o] # "waitTask" => Expired(o)' = 0
  BY NextMarks DEF ExpiredFacts
<1>5. OwnersInv' => MarksType'
  BY NextMarks DEF Playing
<1> QED
  BY <1>1, <1>2, <1>3, <1>4, <1>5

GameStays == begun' = begun /\ marks' = marks /\ inside' = inside

LEMMA KeepsGame == Playing /\ Keeps => OwnersInv' /\ GameStays
<1> SUFFICES ASSUME Playing, Keeps PROVE OwnersInv' /\ GameStays
  OBVIOUS
<1>1. \A o \in FlowObjects : Expired(o)' = Expired(o)
  BY SameTimedOut DEF Keeps
<1>2. OwnersInv'
  BY <1>1 DEF Playing, OwnersInv, Keeps
<1>3. MarksType /\ MarksType'
  BY <1>2, PlayingFacts
<1>4. marks' = marks
  BY <1>1, <1>3 DEF MarksType, Keeps
<1> QED
  BY <1>2, <1>4 DEF Keeps, GameStays, begun, inside

\* The marking after a step, from the tokens after it.
Gone(o) == IF Kind[o] = "and" THEN 0 ELSE leavings[o]

LEMMA MarkingAfter ==
  ASSUME Playing, OwnersInv', NEW o \in FlowObjects
  PROVE  /\ marks[o] + Expired(o) = puts[o] + tokens[o] + Gone(o)
         /\ marks'[o] + Expired(o)' = puts'[o] + tokens'[o] + Gone(o)'
         /\ marks[o] \in Nat /\ marks'[o] \in Nat
         /\ puts[o] \in Nat /\ puts'[o] \in Nat /\ Gone(o) \in Nat /\ Gone(o)' \in Nat
         /\ tokens[o] \in Nat /\ tokens'[o] \in Nat
         /\ Expired(o) \in Nat /\ Expired(o)' \in Nat
<1>1. /\ marks[o] = puts[o] + (tokens[o] - Expired(o)) + Gone(o)
      /\ marks'[o] = puts'[o] + (tokens'[o] - Expired(o)') + Gone(o)'
  BY PlayingFacts DEF MarksType, Gone
<1>2. /\ marks[o] \in Nat /\ marks'[o] \in Nat
      /\ puts[o] \in Nat /\ puts'[o] \in Nat /\ Gone(o) \in Nat /\ Gone(o)' \in Nat
      /\ tokens[o] \in Nat /\ tokens'[o] \in Nat
      /\ Expired(o) \in Nat /\ Expired(o)' \in Nat
  BY PlayingFacts DEF MarksType, CountsType, Gone
<1> QED
  BY <1>1, <1>2

\* The marking changes as the parts it is made of do.
LEMMA MarkingMoves ==
  ASSUME Playing, OwnersInv', NEW o \in FlowObjects, NEW less \in Nat, NEW more \in Nat,
         puts'[o] + tokens'[o] + Gone(o)' + Expired(o) + less
           = puts[o] + tokens[o] + Gone(o) + Expired(o)' + more
  PROVE  marks'[o] + less = marks[o] + more
<1> DEFINE m == marks[o]
           n == marks'[o]
           x == Expired(o)
           y == Expired(o)'
           before == puts[o] + tokens[o] + Gone(o)
           after == puts'[o] + tokens'[o] + Gone(o)'
<1>1. /\ m + x = before /\ n + y = after
      /\ m \in Nat /\ n \in Nat /\ x \in Nat /\ y \in Nat /\ before \in Nat /\ after \in Nat
  BY MarkingAfter
<1>2. after + x + less = before + y + more
  OBVIOUS
<1> HIDE DEF m, n, x, y, before, after
<1>3. n + less = m + more
  BY <1>1, <1>2
<1> QED
  BY <1>3 DEF m, n

LEMMA MarkingStays ==
  ASSUME Playing, OwnersInv', NEW o \in FlowObjects,
         puts'[o] = puts[o], Expired(o)' = Expired(o),
         tokens'[o] + Gone(o)' = tokens[o] + Gone(o)
  PROVE  marks'[o] = marks[o]
<1> DEFINE m == marks[o]
           n == marks'[o]
           x == Expired(o)
           before == tokens[o] + Gone(o)
           after == tokens'[o] + Gone(o)'
<1>1. m + x = puts[o] + before /\ n + x = puts[o] + after
  <2>1. /\ m + x = puts[o] + tokens[o] + Gone(o)
        /\ n + x = puts[o] + tokens'[o] + Gone(o)'
    BY MarkingAfter
  <2> QED
    BY <2>1, MarkingAfter
<1>2. m \in Nat /\ n \in Nat /\ x \in Nat /\ before \in Nat /\ after = before /\ puts[o] \in Nat
  BY MarkingAfter
<1> HIDE DEF m, n, x, before, after
<1>3. n = m
  BY <1>1, <1>2
<1> QED
  BY <1>3 DEF m, n

\* A step that changes the marking of no object.
LEMMA MarksStay ==
  ASSUME Playing, OwnersInv', \A o \in FlowObjects : marks'[o] = marks[o]
  PROVE  marks' = marks
  BY PlayingFacts DEF MarksType

LEMMA BeginsGame ==
  ASSUME Playing, Begins
  PROVE  /\ OwnersInv' /\ ~begun /\ begun' /\ inside' = inside
         /\ marks' = [marks EXCEPT ![StartOf[Main]] = @ + 1]
<1> DEFINE s == StartOf[Main]
<1>1. s \in FlowObjects /\ s \notin BoundaryEvents
  BY DefinitionAssumption DEF OfKind, BoundaryEvents
<1>2. puts \in [FlowObjects -> Nat] /\ puts' = [puts EXCEPT ![s] = @ + 1]
  BY CountTypes DEF CountsType, Playing, Begins
<1>3. \A o \in FlowObjects : Expired(o)' = Expired(o)
  <2>1. \A b \in Timeouts : b \in FlowObjects /\ b # s
    BY <1>1, BoundaryFacts DEF Timeouts
  <2>2. \A b \in Timeouts : puts'[b] = puts[b] /\ tokens'[b] = tokens[b]
    BY <1>1, <1>2, <2>1 DEF Begins
  <2> QED
    BY <2>2, SameTimedOut
<1>4. OwnersInv'
  <2>1. \A b \in Timeouts : puts'[b] = puts[b] /\ tokens'[b] = tokens[b]
    BY <1>1, <1>2, BoundaryFacts DEF Begins, Timeouts
  <2> QED
    BY <1>3, <2>1 DEF Playing, OwnersInv, Begins
<1>5. ASSUME NEW o \in FlowObjects
      PROVE  marks'[o] = IF o = s THEN marks[o] + 1 ELSE marks[o]
  <2> DEFINE more == IF o = s THEN 1 ELSE 0
  <2>1. puts'[o] = puts[o] + more /\ tokens'[o] = tokens[o] /\ Expired(o)' = Expired(o)
    BY <1>2, <1>3, <1>4, MarkingAfter DEF Begins
  <2>2. Gone(o)' = Gone(o)
    BY DEF Begins, Gone
  <2>3. more \in Nat
    OBVIOUS
  <2> HIDE DEF more
  <2>4. marks'[o] + 0 = marks[o] + more
    BY <1>4, <2>1, <2>2, <2>3, MarkingAfter, MarkingMoves
  <2> QED
    BY <1>4, <2>4, MarkingAfter DEF more
<1>6. marks' = [marks EXCEPT ![s] = @ + 1]
  BY <1>1, <1>4, <1>5, PlayingFacts DEF MarksType
<1>7. ~begun
  <2>1. OnAgenda(Item("put", s)) = 0
    BY OccurrencesFew, Zenon DEF OnAgenda, Begins
  <2> QED
    BY <1>1, <2>1 DEF begun, puts, Begins
<1>8. begun'
  BY <1>1, <1>2 DEF begun
<1> QED
  BY <1>4, <1>6, <1>7, <1>8 DEF Begins, inside

LEMMA ArrivesGame ==
  ASSUME Playing, NEW c \in FlowObjects, Arrives(c)
  PROVE  OwnersInv' /\ GameStays
<1>1. /\ puts \in [FlowObjects -> Nat] /\ puts' = [puts EXCEPT ![c] = @ - 1] /\ puts[c] > 0
      /\ tokens \in [FlowObjects -> Nat] /\ tokens' = [tokens EXCEPT ![c] = @ + 1]
      /\ UNCHANGED <<starts, leavings, called>>
  BY PlayingFacts DEF CountsType, Arrives, Add
<1>2. \A o \in FlowObjects : puts'[o] + tokens'[o] = puts[o] + tokens[o] /\ tokens'[o] >= tokens[o]
  BY <1>1
<1>3. \A o \in FlowObjects : Expired(o)' = Expired(o)
  BY <1>2, BoundaryFacts, SameTimedOut DEF Timeouts
<1>4. OwnersInv'
  <2>1. \A o \in FlowObjects : Expired(o)' <= tokens'[o]
    BY <1>1, <1>2, <1>3, PlayingFacts
  <2>2. \A b \in Timeouts : puts'[b] + tokens'[b] <= 1
    BY <1>2, BoundaryFacts DEF Playing, OwnersInv, Timeouts
  <2> QED
    BY <1>1, <2>1, <2>2 DEF Playing, OwnersInv
<1>5. ASSUME NEW o \in FlowObjects PROVE marks'[o] = marks[o]
  <2>1. leavings'[o] = leavings[o] /\ puts'[o] + tokens'[o] = puts[o] + tokens[o]
    BY <1>1, <1>2
  <2> QED
    <3>1. Gone(o)' = Gone(o)
      BY <1>1 DEF Gone
    <3> QED
      BY <1>3, <1>4, <2>1, <3>1, MarkingAfter, MarkingMoves
<1>6. marks' = marks
  BY <1>4, <1>5, MarksStay
<1>7. begun' = begun
  <2>1. StartOf[Main] \in FlowObjects
    BY DefinitionAssumption DEF OfKind
  <2>2. CASE c = StartOf[Main]
    BY <1>1, <2>1, <2>2 DEF begun, Arrives
  <2>3. CASE c # StartOf[Main]
    BY <1>1, <2>1, <2>3 DEF begun, Arrives
  <2> QED
    BY <2>2, <2>3
<1> QED
  BY <1>1, <1>4, <1>6, <1>7 DEF GameStays, inside

LEMMA IsLeftGame ==
  ASSUME Playing, TokensHaveOneOwner, NEW c \in FlowObjects, IsLeft(c)
  PROVE  OwnersInv' /\ GameStays
<1>1. /\ tokens \in [FlowObjects -> Nat] /\ leavings \in [FlowObjects -> Nat]
      /\ tokens' = [tokens EXCEPT ![c] = IF @ > 0 THEN @ - 1 ELSE 0]
      /\ leavings' = [leavings EXCEPT ![c] = @ + 1]
      /\ UNCHANGED <<puts, starts, called, visited>> /\ c \notin BoundaryEvents
  BY PlayingFacts DEF CountsType, IsLeft, Remove
<1>2. tokens[c] > Expired(c) /\ Kind[c] # "and"
  <2>1. Expired(c) \in Nat /\ (Kind[c] # "waitTask" => Expired(c) = 0)
    BY PlayingFacts
  <2>2. CASE c \in Automatic /\ tokens[c] > 0 /\ Running("handled") /\ Current = c
    BY <2>1, <2>2 DEF Automatic, OfKind
  <2>3. CASE Running("activityDone") /\ Current = c /\ Kind[c] \in {"waitTask", "call"}
    BY <2>3 DEF TokensHaveOneOwner, InterruptsAreAlone, HasFreeToken
  <2>4. CASE Running("caught") /\ Current = c /\ c \in CatchEvents
    <3>1. Kind[c] \in {"catch", "timerCatch"}
      BY <2>4 DEF CatchEvents, OfKind
    <3>2. tokens[c] > 0
      BY <2>4 DEF TokensHaveOneOwner, HandlersHaveTokens
    <3> QED
      BY <2>1, <3>1, <3>2
  <2>5. CASE c \in TimerEvents /\ CanExpire(c)
    <3>1. Kind[c] = "timerCatch"
      BY <1>1, <2>5 DEF TimerEvents, BoundaryEvents, OfKind
    <3>2. tokens[c] > 0
      BY <1>1, <2>5 DEF TokensHaveOneOwner, HandlersHaveTokens
    <3> QED
      BY <2>1, <3>1, <3>2
  <2> QED
    BY <2>2, <2>3, <2>4, <2>5 DEF IsLeft, MayLeave
<1>3. Expired(c) \in Nat
  BY PlayingFacts
<1>4. \A o \in FlowObjects :
        /\ tokens'[o] = IF o = c THEN tokens[o] - 1 ELSE tokens[o]
        /\ leavings'[o] = IF o = c THEN leavings[o] + 1 ELSE leavings[o]
  BY <1>1, <1>2, <1>3
<1>5. \A b \in Timeouts : puts'[b] = puts[b] /\ tokens'[b] = tokens[b]
  BY <1>1, <1>4, BoundaryFacts DEF Timeouts
<1>6. \A o \in FlowObjects : Expired(o)' = Expired(o)
  BY <1>5, SameTimedOut
<1>7. OwnersInv'
  <2>1. \A o \in FlowObjects : Expired(o)' <= tokens'[o]
    <3> TAKE o \in FlowObjects
    <3>1. Expired(o) \in Nat /\ Expired(o) <= tokens[o] /\ tokens[o] \in Nat
      BY PlayingFacts
    <3> QED
      BY <1>2, <1>4, <1>6, <3>1
  <2> QED
    BY <1>1, <1>5, <2>1 DEF Playing, OwnersInv
<1>8. ASSUME NEW o \in FlowObjects PROVE marks'[o] = marks[o]
  <2>1. puts'[o] = puts[o] /\ Expired(o)' = Expired(o)
    BY <1>1, <1>6
  <2> QED
    <3>1. tokens'[o] + Gone(o)' = tokens[o] + Gone(o)
      BY <1>2, <1>3, <1>4, <1>7, MarkingAfter DEF Gone
    <3> QED
      BY <1>7, <2>1, <3>1, MarkingAfter, MarkingStays
<1>9. marks' = marks
  BY <1>7, <1>8, MarksStay
<1> QED
  BY <1>1, <1>7, <1>9 DEF GameStays, begun, inside

LEMMA TakesActivityGame ==
  ASSUME Playing, TokensHaveOneOwner, NEW c \in FlowObjects, TakesActivity(c)
  PROVE  OwnersInv' /\ GameStays
<1> DEFINE h == Host(c)
<1>1. /\ c \in BoundaryEvents /\ h \in FlowObjects /\ Kind[h] = "waitTask" /\ h # c
      /\ Kind[c] \in {"message", "timeout"} /\ tokens[c] > 0
  BY BoundaryFacts DEF TakesActivity
<1>2. /\ tokens \in [FlowObjects -> Nat] /\ leavings \in [FlowObjects -> Nat]
      /\ puts \in [FlowObjects -> Nat]
      /\ leavings' = [leavings EXCEPT ![c] = @ + 1]
      /\ UNCHANGED <<puts, starts, called, visited>>
  BY PlayingFacts DEF CountsType, TakesActivity
<1>3. \A o \in FlowObjects :
        /\ tokens'[o] = IF o = c THEN tokens[o] - 1
                        ELSE IF o = h THEN (IF tokens[o] > 0 THEN tokens[o] - 1 ELSE 0)
                        ELSE tokens[o]
        /\ leavings'[o] = IF o = c THEN leavings[o] + 1 ELSE leavings[o]
  <2>1. /\ Remove(c) \in [FlowObjects -> Nat]
        /\ \A o \in FlowObjects : Remove(c)[o] = IF o = c THEN tokens[o] - 1 ELSE tokens[o]
    BY <1>1, <1>2, TokenTypes DEF Remove, Playing
  <2>2. tokens' = [Remove(c) EXCEPT ![h] = IF @ > 0 THEN @ - 1 ELSE 0]
    BY DEF TakesActivity
  <2> HIDE DEF h
  <2>3. \A o \in FlowObjects : tokens'[o] = IF o = h THEN (IF Remove(c)[o] > 0 THEN Remove(c)[o] - 1 ELSE 0)
                                            ELSE Remove(c)[o]
    BY <2>1, <2>2
  <2> QED
    BY <1>1, <1>2, <2>1, <2>3
<1>4. CASE Kind[c] = "message"
  <2>1. tokens[h] = 0
    BY <1>4 DEF TokensHaveOneOwner, InterruptsAreAlone, TakesActivity
  <2>2. \A b \in Timeouts : puts'[b] = puts[b] /\ tokens'[b] = tokens[b]
    <3>1. \A b \in Timeouts : b \in FlowObjects /\ b # c /\ b # h
      BY <1>1, <1>4, BoundaryFacts DEF Timeouts
    <3> HIDE DEF h
    <3> QED
      BY <1>2, <1>3, <3>1
  <2>3. \A o \in FlowObjects : Expired(o)' = Expired(o)
    BY <2>2, SameTimedOut
  <2> HIDE DEF h
  <2>4. OwnersInv'
    <3>1. \A o \in FlowObjects : Expired(o)' <= tokens'[o]
      <4> TAKE o \in FlowObjects
      <4>1. /\ Expired(o) \in Nat /\ Expired(o) <= tokens[o] /\ tokens[o] \in Nat
            /\ Kind[o] # "waitTask" => Expired(o) = 0
        BY PlayingFacts
      <4> QED
        BY <1>1, <1>3, <2>1, <2>3, <4>1
    <3> QED
      BY <1>2, <2>2, <3>1 DEF Playing, OwnersInv
  <2>5. ASSUME NEW o \in FlowObjects PROVE marks'[o] = marks[o]
    <3>1. puts'[o] = puts[o] /\ Expired(o)' = Expired(o)
      BY <1>2, <2>3
    <3>2. tokens'[o] + Gone(o)' = tokens[o] + Gone(o)
      BY <1>1, <1>2, <1>3, <2>1, <2>4, MarkingAfter DEF Gone
    <3> QED
      BY <2>4, <3>1, <3>2, MarkingAfter, MarkingStays
  <2>6. marks' = marks
    BY <2>4, <2>5, MarksStay
  <2> QED
    BY <1>2, <2>4, <2>6 DEF GameStays, begun, inside
<1>5. CASE Kind[c] = "timeout"
  <2>1. c \in Timeouts
    BY <1>5, BoundaryFacts
  <2>2. puts[c] = 0 /\ tokens[c] = 1
    BY <1>1, <1>2, <2>1 DEF Playing, OwnersInv
  <2>3. \A b \in Timeouts \ {c} : puts'[b] = puts[b] /\ tokens'[b] = tokens[b]
    <3>1. \A b \in Timeouts : b \in FlowObjects /\ b # h
      BY <1>1, BoundaryFacts DEF Timeouts
    <3> HIDE DEF h
    <3> QED
      BY <1>2, <1>3, <3>1
  <2>4. puts'[c] = 0 /\ tokens'[c] = 0
    BY <1>2, <1>3, <2>2
  <2>5. \A o \in FlowObjects :
          /\ Expired(o)' = IF o = h THEN Expired(o) - 1 ELSE Expired(o)
          /\ o = h => Expired(o) > 0
    BY <2>1, <2>2, <2>3, <2>4, OneLessTimedOut
  <2> HIDE DEF h
  <2>6. tokens[h] > 0
    <3>1. Expired(h) \in Nat /\ Expired(h) <= tokens[h] /\ tokens[h] \in Nat
      BY <1>1, PlayingFacts
    <3> QED
      BY <1>1, <2>5, <3>1
  <2>7. OwnersInv'
    <3>1. \A o \in FlowObjects : Expired(o)' <= tokens'[o]
      <4> TAKE o \in FlowObjects
      <4>1. /\ Expired(o) \in Nat /\ Expired(o) <= tokens[o] /\ tokens[o] \in Nat
            /\ Kind[o] # "waitTask" => Expired(o) = 0
        BY PlayingFacts
      <4> QED
        BY <1>1, <1>3, <2>5, <2>6, <4>1
    <3>2. \A b \in Timeouts : puts'[b] + tokens'[b] <= 1
      BY <2>3, <2>4 DEF Playing, OwnersInv
    <3> QED
      BY <1>2, <3>1, <3>2 DEF Playing, OwnersInv
  <2>8. ASSUME NEW o \in FlowObjects PROVE marks'[o] = marks[o]
    <3>1. puts'[o] = puts[o] /\ (Expired(o)' = IF o = h THEN Expired(o) - 1 ELSE Expired(o))
      BY <1>2, <2>5
    <3>2. /\ tokens'[o] = IF o = c \/ o = h THEN tokens[o] - 1 ELSE tokens[o]
          /\ leavings'[o] = IF o = c THEN leavings[o] + 1 ELSE leavings[o]
      BY <1>1, <1>2, <1>3, <2>6
    <3>3. Kind[c] # "and" /\ Kind[h] # "and" /\ h # c
      BY <1>1
    <3>4. CASE o = h
      <4>1. Gone(o)' = Gone(o)
        BY <3>2, <3>3, <3>4 DEF Gone
      <4>2. tokens'[o] = tokens[o] - 1 /\ Expired(o)' = Expired(o) - 1
        BY <3>1, <3>2, <3>4
      <4>3. puts'[o] = puts[o]
        BY <3>1
      <4>4. puts'[o] + tokens'[o] + Gone(o)' + Expired(o) + 0
              = puts[o] + tokens[o] + Gone(o) + Expired(o)' + 0
        BY <2>7, <4>1, <4>2, <4>3, MarkingAfter
      <4>5. marks'[o] + 0 = marks[o] + 0
        BY <2>7, <4>4, MarkingMoves
      <4> QED
        BY <2>7, <4>5, MarkingAfter
    <3>5. CASE o # h
      <4>1. tokens'[o] + Gone(o)' = tokens[o] + Gone(o)
        BY <2>7, <3>2, <3>3, <3>5, MarkingAfter DEF Gone
      <4> QED
        BY <2>7, <3>1, <3>5, <4>1, MarkingAfter, MarkingStays
    <3> QED
      BY <3>4, <3>5
  <2>9. marks' = marks
    BY <2>7, <2>8, MarksStay
  <2> QED
    BY <1>2, <2>7, <2>9 DEF GameStays, begun, inside
<1> QED
  BY <1>1, <1>4, <1>5


LEMMA RenewsGame ==
  ASSUME Playing, TokensHaveOneOwner, NEW c \in FlowObjects, Renews(c)
  PROVE  OwnersInv' /\ GameStays
<1>1. Kind[c] = "and" /\ tokens[c] > 0
  BY DEF Renews, TokensHaveOneOwner, GatewaysTakeTheirTokens
<1>2. tokens' = tokens
  BY <1>1, PlayingFacts DEF Renews, Renewed
<1>3. UNCHANGED <<puts, starts, called, visited>>
  BY DEF Renews
<1>4. \A o \in FlowObjects : Expired(o)' = Expired(o)
  BY <1>2, <1>3, SameTimedOut
<1>5. OwnersInv'
  BY <1>2, <1>3, <1>4 DEF Playing, OwnersInv
<1>6. ASSUME NEW o \in FlowObjects PROVE marks'[o] = marks[o]
  <2>1. Gone(o)' = Gone(o)
    BY <1>1, PlayingFacts DEF Renews, Gone, CountsType
  <2>2. puts'[o] = puts[o] /\ Expired(o)' = Expired(o) /\ tokens'[o] + Gone(o)' = tokens[o] + Gone(o)
    BY <1>2, <1>3, <1>4, <2>1
  <2> QED
    BY <1>5, <2>2, MarkingStays
<1>7. marks' = marks
  BY <1>5, <1>6, MarksStay
<1> QED
  BY <1>3, <1>5, <1>7 DEF GameStays, begun, inside

\* A boundary event b takes the token of its activity in the game.
IsInterrupted(b) ==
  /\ begun' = begun /\ inside' = inside
  /\ marks[Host(b)] > 0
  /\ marks' = [marks EXCEPT ![Host(b)] = @ - 1, ![b] = @ + 1]

LEMMA InterruptedMarks ==
  ASSUME Playing, OwnersInv', NEW b \in BoundaryEvents, HasFreeToken(Host(b)),
         \A o \in FlowObjects :
           LET less == IF o = Host(b) THEN 1 ELSE 0
               more == IF o = b THEN 1 ELSE 0
           IN  marks'[o] + less = marks[o] + more
  PROVE  marks[Host(b)] > 0 /\ marks' = [marks EXCEPT ![Host(b)] = @ - 1, ![b] = @ + 1]
<1> DEFINE h == Host(b)
<1>1. h \in FlowObjects /\ b \in FlowObjects /\ h # b
  BY BoundaryFacts
<1>2. marks \in [FlowObjects -> Nat] /\ marks' \in [FlowObjects -> Nat]
  BY PlayingFacts DEF MarksType
<1>3. marks[h] > 0
  <2>1. tokens[h] > Expired(h)
    BY DEF HasFreeToken
  <2>2. marks[h] + Expired(h) = puts[h] + tokens[h] + Gone(h)
    BY <1>1, MarkingAfter
  <2>3. /\ marks[h] \in Nat /\ Expired(h) \in Nat /\ puts[h] \in Nat
        /\ tokens[h] \in Nat /\ Gone(h) \in Nat
    BY <1>1, MarkingAfter
  <2> QED
    BY <2>1, <2>2, <2>3
<1>4. \A o \in FlowObjects :
        marks'[o] + (IF o = h THEN 1 ELSE 0) = marks[o] + (IF o = b THEN 1 ELSE 0)
  OBVIOUS
<1> HIDE DEF h
<1>5. \A o \in FlowObjects :
        marks'[o] = IF o = b THEN marks[o] + 1 ELSE IF o = h THEN marks[o] - 1 ELSE marks[o]
  BY <1>1, <1>2, <1>4
<1>6. marks' = [marks EXCEPT ![h] = @ - 1, ![b] = @ + 1]
  BY <1>1, <1>2, <1>5
<1> QED
  BY <1>3, <1>6 DEF h

LEMMA InterruptsGame ==
  ASSUME Playing, TokensHaveOneOwner, NEW c \in FlowObjects, Interrupts(c)
  PROVE  OwnersInv' /\ IsInterrupted(c)
<1> DEFINE h == Host(c)
<1>1. /\ c \in BoundaryEvents /\ h \in FlowObjects /\ Kind[h] = "waitTask" /\ h # c
  BY BoundaryFacts DEF Interrupts
<1>2. Kind[c] = "message" /\ HasFreeToken(h)
  BY DEF Interrupts, TokensHaveOneOwner, InterruptsAreAlone
<1> HIDE DEF h
<1>3. tokens[h] > Expired(h) /\ Expired(h) \in Nat /\ tokens[h] \in Nat
  BY <1>1, <1>2, PlayingFacts DEF HasFreeToken
<1>4. /\ puts \in [FlowObjects -> Nat] /\ tokens \in [FlowObjects -> Nat]
      /\ tokens' = [tokens EXCEPT ![h] = IF @ > 0 THEN @ - 1 ELSE 0]
      /\ puts' = [puts EXCEPT ![c] = @ + 1]
      /\ UNCHANGED <<starts, leavings, called, visited>>
  BY PlayingFacts DEF CountsType, Interrupts, Remove, h
<1>5. \A o \in FlowObjects :
        /\ tokens'[o] = IF o = h THEN tokens[o] - 1 ELSE tokens[o]
        /\ puts'[o] = IF o = c THEN puts[o] + 1 ELSE puts[o]
  BY <1>1, <1>3, <1>4
<1>6. \A b \in Timeouts : puts'[b] = puts[b] /\ tokens'[b] = tokens[b]
  <2>1. \A b \in Timeouts : b \in FlowObjects /\ b # c /\ b # h
    BY <1>1, <1>2, BoundaryFacts DEF Timeouts
  <2> QED
    BY <1>5, <2>1
<1>7. \A o \in FlowObjects : Expired(o)' = Expired(o)
  BY <1>6, SameTimedOut
<1>8. OwnersInv'
  <2>1. \A o \in FlowObjects : Expired(o)' <= tokens'[o]
    <3> TAKE o \in FlowObjects
    <3>1. Expired(o) \in Nat /\ Expired(o) <= tokens[o] /\ tokens[o] \in Nat
      BY PlayingFacts
    <3> QED
      BY <1>3, <1>5, <1>7, <3>1
  <2> QED
    BY <1>4, <1>6, <2>1 DEF Playing, OwnersInv
<1>9. ASSUME NEW o \in FlowObjects
      PROVE  LET less == IF o = h THEN 1 ELSE 0
                 more == IF o = c THEN 1 ELSE 0
             IN  marks'[o] + less = marks[o] + more
  <2> DEFINE less == IF o = h THEN 1 ELSE 0
             more == IF o = c THEN 1 ELSE 0
  <2>1. less \in Nat /\ more \in Nat
    OBVIOUS
  <2>2. tokens'[o] + less = tokens[o] /\ puts'[o] = puts[o] + more
    BY <1>5, <1>8, MarkingAfter
  <2>3. Gone(o)' = Gone(o) /\ Expired(o)' = Expired(o)
    BY <1>4, <1>7 DEF Gone
  <2> HIDE DEF less, more
  <2>4. puts'[o] + tokens'[o] + Gone(o)' + Expired(o) + less
          = puts[o] + tokens[o] + Gone(o) + Expired(o)' + more
    BY <1>8, <2>1, <2>2, <2>3, MarkingAfter
  <2>5. marks'[o] + less = marks[o] + more
    BY <1>8, <2>1, <2>4, MarkingMoves
  <2> QED
    BY <2>5 DEF less, more
<1>10. marks[Host(c)] > 0 /\ marks' = [marks EXCEPT ![Host(c)] = @ - 1, ![c] = @ + 1]
  BY <1>1, <1>2, <1>8, <1>9, InterruptedMarks DEF h
<1>11. begun' = begun
  <2>1. StartOf[Main] \in FlowObjects /\ StartOf[Main] # c
    BY <1>2, DefinitionAssumption DEF OfKind
  <2> QED
    BY <1>4, <1>5, <2>1 DEF begun
<1> QED
  BY <1>4, <1>8, <1>10, <1>11 DEF IsInterrupted, inside

LEMMA TimesOutGame ==
  ASSUME Playing, TokensHaveOneOwner, NEW c \in FlowObjects, TimesOut(c)
  PROVE  OwnersInv' /\ IsInterrupted(c)
<1> DEFINE h == Host(c)
<1>1. /\ c \in BoundaryEvents /\ h \in FlowObjects /\ Kind[h] = "waitTask" /\ h # c
      /\ c \in Timeouts /\ Kind[c] = "timeout"
  BY BoundaryFacts DEF TimesOut, Timeouts
<1>2. HasFreeToken(h) /\ tokens[c] + puts[c] = 0
  BY DEF TimesOut, TokensHaveOneOwner, InterruptsAreAlone, puts
<1>3. tokens[h] > Expired(h) /\ Expired(h) \in Nat /\ tokens[h] \in Nat
  BY <1>1, <1>2, PlayingFacts DEF HasFreeToken
<1>4. /\ puts \in [FlowObjects -> Nat] /\ tokens \in [FlowObjects -> Nat]
      /\ puts' = [puts EXCEPT ![c] = @ + 1]
      /\ UNCHANGED <<starts, leavings, tokens, called, visited>>
  BY PlayingFacts DEF CountsType, TimesOut
<1>5. \A o \in FlowObjects : puts'[o] = IF o = c THEN puts[o] + 1 ELSE puts[o]
  BY <1>4
<1>6. puts[c] = 0 /\ tokens[c] = 0 /\ puts'[c] = 1 /\ tokens'[c] = 0
  BY <1>2, <1>4, <1>5
<1>7. \A b \in Timeouts \ {c} : puts'[b] = puts[b] /\ tokens'[b] = tokens[b]
  BY <1>4, <1>5, BoundaryFacts DEF Timeouts
<1>8. \A o \in FlowObjects : Expired(o)' = IF o = h THEN Expired(o) + 1 ELSE Expired(o)
  BY <1>1, <1>6, <1>7, OneMoreTimedOut
<1> HIDE DEF h
<1>9. OwnersInv'
  <2>1. \A o \in FlowObjects : Expired(o)' <= tokens'[o]
    <3> TAKE o \in FlowObjects
    <3>1. Expired(o) \in Nat /\ Expired(o) <= tokens[o] /\ tokens[o] \in Nat
      BY PlayingFacts
    <3> QED
      BY <1>3, <1>4, <1>8, <3>1
  <2>2. \A b \in Timeouts : puts'[b] + tokens'[b] <= 1
    BY <1>6, <1>7 DEF Playing, OwnersInv
  <2> QED
    BY <1>4, <2>1, <2>2 DEF Playing, OwnersInv
<1>10. ASSUME NEW o \in FlowObjects
       PROVE  LET less == IF o = h THEN 1 ELSE 0
                  more == IF o = c THEN 1 ELSE 0
              IN  marks'[o] + less = marks[o] + more
  <2> DEFINE less == IF o = h THEN 1 ELSE 0
             more == IF o = c THEN 1 ELSE 0
  <2>1. less \in Nat /\ more \in Nat
    OBVIOUS
  <2>2. puts'[o] = puts[o] + more /\ Expired(o)' = Expired(o) + less
    BY <1>5, <1>8, <1>9, MarkingAfter
  <2>3. Gone(o)' = Gone(o) /\ tokens'[o] = tokens[o]
    BY <1>4 DEF Gone
  <2> HIDE DEF less, more
  <2>4. puts'[o] + tokens'[o] + Gone(o)' + Expired(o) + less
          = puts[o] + tokens[o] + Gone(o) + Expired(o)' + more
    BY <1>9, <2>1, <2>2, <2>3, MarkingAfter
  <2>5. marks'[o] + less = marks[o] + more
    BY <1>9, <2>1, <2>4, MarkingMoves
  <2> QED
    BY <2>5 DEF less, more
<1>11. marks[Host(c)] > 0 /\ marks' = [marks EXCEPT ![Host(c)] = @ - 1, ![c] = @ + 1]
  BY <1>1, <1>2, <1>9, <1>10, InterruptedMarks DEF h
<1>12. begun' = begun
  <2>1. StartOf[Main] \in FlowObjects /\ StartOf[Main] # c
    BY <1>1, DefinitionAssumption DEF OfKind
  <2> QED
    BY <1>4, <1>5, <2>1 DEF begun
<1> QED
  BY <1>4, <1>9, <1>11, <1>12 DEF IsInterrupted, inside


\* The flows of the game are those of the definition.
LEMMA GameFlows ==
  ASSUME NEW c \in FlowObjects
  PROVE  /\ \A x \in FlowObjects : Game!FlowsBetween(c, x) \in Nat
         /\ \A x \in OfKind({"start", "message", "timeout"}) : Game!FlowsBetween(c, x) = 0
         /\ Game!Cardinality(Game!FlowsInto(c)) = Incoming(c)
<1>1. Outgoing[c] \in Seq(FlowObjects)
  BY DefinitionAssumption
<1>2. ASSUME NEW x PROVE IsFiniteSet({i \in DOMAIN Outgoing[c] : Outgoing[c][i] = x})
  <2>1. DOMAIN Outgoing[c] = 1 .. Len(Outgoing[c]) /\ Len(Outgoing[c]) \in Nat
    BY <1>1
  <2>2. IsFiniteSet(DOMAIN Outgoing[c])
    BY <2>1, FS_Interval
  <2> QED
    BY <2>2, FS_Subset
<1>3. \A x \in FlowObjects : Game!FlowsBetween(c, x) \in Nat
  BY <1>2, FS_CardinalityType, GameCardinality DEF Game!FlowsBetween
<1>4. ASSUME NEW x \in OfKind({"start", "message", "timeout"})
      PROVE  Game!FlowsBetween(c, x) = 0
  <2>1. \A i \in DOMAIN Outgoing[c] : Outgoing[c][i] # x
    BY ValidationAssumption DEF OfKind
  <2>2. {i \in DOMAIN Outgoing[c] : Outgoing[c][i] = x} = {}
    BY <2>1
  <2> QED
    BY <2>2, FS_EmptySet, GameCardinality DEF Game!FlowsBetween
<1>5. Game!FlowsInto(c)
        = {f \in UNION {{p} \X DOMAIN Outgoing[p] : p \in FlowObjects} : Outgoing[f[1]][f[2]] = c}
  <2> DEFINE S == {f \in UNION {{p} \X DOMAIN Outgoing[p] : p \in FlowObjects} :
                     Outgoing[f[1]][f[2]] = c}
  <2>1. ASSUME NEW f \in Game!FlowsInto(c) PROVE f \in S
    <3>1. PICK p \in FlowObjects :
            f \in {<<p, i>> : i \in {i \in DOMAIN Outgoing[p] : Outgoing[p][i] = c}}
      BY <2>1 DEF Game!FlowsInto
    <3>2. PICK i \in DOMAIN Outgoing[p] : f = <<p, i>> /\ Outgoing[p][i] = c
      BY <3>1
    <3> QED
      BY <3>2
  <2>2. ASSUME NEW f \in S PROVE f \in Game!FlowsInto(c)
    <3>1. PICK p \in FlowObjects : f \in {p} \X DOMAIN Outgoing[p]
      BY <2>2
    <3>2. PICK i \in DOMAIN Outgoing[p] : f = <<p, i>>
      BY <3>1
    <3>3. Outgoing[p][i] = c
      BY <2>2, <3>2
    <3>4. f \in {<<p, k>> : k \in {k \in DOMAIN Outgoing[p] : Outgoing[p][k] = c}}
      BY <3>2, <3>3
    <3> QED
      BY <3>4 DEF Game!FlowsInto
  <2> QED
    BY <2>1, <2>2
<1> QED
  BY <1>3, <1>4, <1>5, GameCardinality DEF Incoming

\* A token leaves c in the game, and tokens appear behind it.
IsPassed(c, more) ==
  /\ begun' = begun /\ inside' = inside
  /\ marks' = [x \in FlowObjects |-> (IF x = c THEN marks[x] - 1 ELSE marks[x]) + more[x]]

LEMMA GoesOnGame ==
  ASSUME Playing, NEW c \in FlowObjects, GoesOn(c), Kind[c] # "and", UNCHANGED tokens,
         NEW more \in [FlowObjects -> Nat],
         puts' = [x \in FlowObjects |-> puts[x] + more[x]],
         \A x \in OfKind({"start", "message", "timeout"}) : more[x] = 0
  PROVE  OwnersInv' /\ marks[c] > 0 /\ IsPassed(c, more)
<1>1. /\ puts \in [FlowObjects -> Nat] /\ leavings \in [FlowObjects -> Nat]
      /\ leavings[c] > 0 /\ leavings' = [leavings EXCEPT ![c] = @ - 1]
      /\ UNCHANGED <<starts, called, visited, tokens>>
  BY PlayingFacts DEF CountsType, GoesOn
<1>2. \A x \in FlowObjects : puts'[x] = puts[x] + more[x] /\ more[x] \in Nat
  OBVIOUS
<1>3. \A b \in Timeouts : puts'[b] = puts[b] /\ tokens'[b] = tokens[b]
  <2>1. \A b \in Timeouts : b \in FlowObjects /\ more[b] = 0
    BY BoundaryFacts DEF Timeouts, OfKind
  <2> QED
    BY <1>1, <1>2, <2>1
<1>4. \A o \in FlowObjects : Expired(o)' = Expired(o)
  BY <1>3, SameTimedOut
<1>5. OwnersInv'
  BY <1>1, <1>3, <1>4 DEF Playing, OwnersInv
<1>6. begun' = begun
  <2>1. StartOf[Main] \in FlowObjects /\ more[StartOf[Main]] = 0
    BY DefinitionAssumption DEF OfKind
  <2> QED
    BY <1>1, <1>2, <2>1 DEF begun
<1>7. ASSUME NEW o \in FlowObjects
      PROVE  marks'[o] + (IF o = c THEN 1 ELSE 0) = marks[o] + more[o]
  <2> DEFINE less == IF o = c THEN 1 ELSE 0
  <2>1. less \in Nat
    OBVIOUS
  <2>2. Gone(o)' + less = Gone(o)
    <3>1. leavings'[o] + less = leavings[o]
      BY <1>1
    <3> QED
      BY <1>1, <3>1 DEF Gone
  <2> HIDE DEF less
  <2>3. puts'[o] + tokens'[o] + Gone(o)' + Expired(o) + less
          = puts[o] + tokens[o] + Gone(o) + Expired(o)' + more[o]
    <3>1. puts'[o] = puts[o] + more[o] /\ tokens'[o] = tokens[o] /\ Expired(o)' = Expired(o)
      BY <1>1, <1>2, <1>4
    <3> QED
      BY <1>2, <1>5, <2>1, <2>2, <3>1, MarkingAfter
  <2>4. marks'[o] + less = marks[o] + more[o]
    BY <1>2, <1>5, <2>1, <2>3, MarkingMoves
  <2> QED
    BY <2>4 DEF less
<1>8. marks[c] > 0
  <2>1. Gone(c) > 0
    BY <1>1 DEF Gone
  <2>2. tokens[c] >= Expired(c)
    BY PlayingFacts
  <2>3. marks[c] + Expired(c) = puts[c] + tokens[c] + Gone(c)
    BY <1>5, MarkingAfter
  <2>4. /\ marks[c] \in Nat /\ Expired(c) \in Nat /\ puts[c] \in Nat
        /\ tokens[c] \in Nat /\ Gone(c) \in Nat
    BY <1>5, MarkingAfter
  <2> QED
    BY <2>1, <2>2, <2>3, <2>4
<1>9. marks' = [x \in FlowObjects |-> (IF x = c THEN marks[x] - 1 ELSE marks[x]) + more[x]]
  <2>1. marks \in [FlowObjects -> Nat] /\ marks' \in [FlowObjects -> Nat]
    BY <1>5, PlayingFacts DEF MarksType
  <2>2. \A x \in FlowObjects :
          marks'[x] = (IF x = c THEN marks[x] - 1 ELSE marks[x]) + more[x]
    BY <1>2, <1>7, <1>8, <2>1
  <2> QED
    BY <2>1, <2>2
<1> QED
  BY <1>1, <1>5, <1>6, <1>8, <1>9 DEF IsPassed, inside

FlowsFrom(c) == [x \in FlowObjects |-> Game!FlowsBetween(c, x)]

LEMMA PassesGame ==
  ASSUME Playing, NEW c \in FlowObjects, Passes(c)
  PROVE  OwnersInv' /\ marks[c] > 0 /\ IsPassed(c, FlowsFrom(c))
<1> DEFINE more == FlowsFrom(c)
<1>1. more \in [FlowObjects -> Nat]
  BY GameFlows DEF FlowsFrom
<1>2. \A x \in OfKind({"start", "message", "timeout"}) : more[x] = 0
  BY GameFlows DEF FlowsFrom, OfKind
<1>3. GoesOn(c) /\ Kind[c] # "and" /\ UNCHANGED tokens
  BY DEF Passes
<1>4. puts' = [x \in FlowObjects |-> puts[x] + more[x]]
  BY DEF Passes, FlowsFrom
<1> HIDE DEF more
<1>5. OwnersInv' /\ marks[c] > 0 /\ IsPassed(c, more)
  BY <1>1, <1>2, <1>3, <1>4, GoesOnGame
<1> QED
  BY <1>5 DEF more

LEMMA DecidesGame ==
  ASSUME Playing, TokensHaveOneOwner, NEW c \in FlowObjects, Decides(c)
  PROVE  /\ OwnersInv' /\ marks[c] > 0
         /\ \E i \in DOMAIN Outgoing[c] :
              IsPassed(c, [x \in FlowObjects |-> IF x = Outgoing[c][i] THEN 1 ELSE 0])
<1>1. c \notin Undecided
  BY DEF Decides, GoesOn, TokensHaveOneOwner, GatewaysTakeTheirTokens
<1>2. PICK i \in DOMAIN Outgoing[c] : puts' = [puts EXCEPT ![Outgoing[c][i]] = @ + 1]
  BY <1>1 DEF Decides
<1> DEFINE d == Outgoing[c][i]
           more == [x \in FlowObjects |-> IF x = d THEN 1 ELSE 0]
<1>3. d \in FlowObjects /\ d \notin OfKind({"start", "message", "timeout"})
  BY DefinitionAssumption, ValidationAssumption DEF OfKind
<1>4. GoesOn(c) /\ Kind[c] # "and" /\ UNCHANGED tokens
  BY DEF Decides
<1>5. puts \in [FlowObjects -> Nat] /\ puts' = [puts EXCEPT ![d] = @ + 1]
  BY <1>2, PlayingFacts DEF CountsType
<1> HIDE DEF d
<1>6. more \in [FlowObjects -> Nat]
  OBVIOUS
<1>7. \A x \in OfKind({"start", "message", "timeout"}) : more[x] = 0
  BY <1>3 DEF OfKind
<1>8. puts' = [x \in FlowObjects |-> puts[x] + more[x]]
  <2>1. \A x \in FlowObjects : puts'[x] = IF x = d THEN puts[x] + 1 ELSE puts[x]
    BY <1>5
  <2>2. \A x \in FlowObjects : puts'[x] = puts[x] + more[x]
    BY <1>5, <2>1
  <2>3. puts' = [x \in FlowObjects |-> puts'[x]]
    BY <1>5
  <2> QED
    BY <2>2, <2>3
<1> HIDE DEF more
<1>9. OwnersInv' /\ marks[c] > 0 /\ IsPassed(c, more)
  BY <1>4, <1>6, <1>7, <1>8, GoesOnGame
<1> QED
  BY <1>9 DEF more, d

LEMMA ForksGame ==
  ASSUME Playing, TokensHaveOneOwner, NEW c \in FlowObjects, Forks(c)
  PROVE  /\ OwnersInv' /\ begun' = begun /\ inside' = inside
         /\ marks[c] >= Incoming(c)
         /\ marks' = [x \in FlowObjects |->
              (IF x = c THEN marks[x] - Incoming(c) ELSE marks[x]) + Game!FlowsBetween(c, x)]
<1> DEFINE n == tokens[c]
           more == FlowsFrom(c)
<1>1. Kind[c] = "and" /\ n = Incoming(c) /\ n \in Nat
  BY PlayingFacts DEF Forks, GoesOn, TokensHaveOneOwner, GatewaysTakeTheirTokens
<1>2. /\ puts \in [FlowObjects -> Nat] /\ tokens \in [FlowObjects -> Nat]
      /\ puts' = [x \in FlowObjects |-> puts[x] + more[x]]
      /\ tokens' = [tokens EXCEPT ![c] = 0]
      /\ leavings \in [FlowObjects -> Nat] /\ leavings' = [leavings EXCEPT ![c] = @ - 1]
      /\ UNCHANGED <<starts, called, visited>>
  BY PlayingFacts DEF CountsType, Forks, GoesOn, FlowsFrom
<1>3. more \in [FlowObjects -> Nat] /\ \A x \in OfKind({"start", "message", "timeout"}) : more[x] = 0
  BY GameFlows DEF FlowsFrom, OfKind
<1> HIDE DEF n, more
<1>4. \A x \in FlowObjects :
        /\ puts'[x] = puts[x] + more[x] /\ more[x] \in Nat
        /\ tokens'[x] = IF x = c THEN 0 ELSE tokens[x]
  BY <1>2, <1>3
<1>5. \A b \in Timeouts : puts'[b] = puts[b] /\ tokens'[b] = tokens[b]
  <2>1. \A b \in Timeouts : b \in FlowObjects /\ b # c /\ more[b] = 0
    BY <1>1, <1>3, BoundaryFacts DEF Timeouts, OfKind
  <2> QED
    BY <1>2, <1>4, <2>1
<1>6. \A o \in FlowObjects : Expired(o)' = Expired(o)
  BY <1>5, SameTimedOut
<1>7. OwnersInv'
  <2>1. \A o \in FlowObjects : Expired(o)' <= tokens'[o]
    <3> TAKE o \in FlowObjects
    <3>1. /\ Expired(o) \in Nat /\ Expired(o) <= tokens[o] /\ tokens[o] \in Nat
          /\ Kind[o] # "waitTask" => Expired(o) = 0
      BY PlayingFacts
    <3> QED
      BY <1>1, <1>4, <1>6, <3>1
  <2> QED
    BY <1>2, <1>5, <2>1 DEF Playing, OwnersInv
<1>8. begun' = begun
  <2>1. StartOf[Main] \in FlowObjects /\ more[StartOf[Main]] = 0
    BY <1>3, DefinitionAssumption DEF OfKind
  <2> QED
    BY <1>2, <1>4, <2>1 DEF begun
<1>9. ASSUME NEW o \in FlowObjects
      PROVE  marks'[o] + (IF o = c THEN n ELSE 0) = marks[o] + more[o]
  <2> DEFINE less == IF o = c THEN n ELSE 0
  <2>1. less \in Nat
    BY <1>1
  <2>2. Gone(o)' = Gone(o)
    BY <1>1, <1>2 DEF Gone
  <2>3. tokens'[o] + less = tokens[o]
    BY <1>4, <1>7, MarkingAfter DEF n
  <2> HIDE DEF less
  <2>4. puts'[o] + tokens'[o] + Gone(o)' + Expired(o) + less
          = puts[o] + tokens[o] + Gone(o) + Expired(o)' + more[o]
    BY <1>4, <1>6, <1>7, <2>1, <2>2, <2>3, MarkingAfter
  <2>5. marks'[o] + less = marks[o] + more[o]
    BY <1>4, <1>7, <2>1, <2>4, MarkingMoves
  <2> QED
    BY <2>5 DEF less
<1>10. marks[c] >= n
  <2>1. marks[c] + Expired(c) = puts[c] + n + Gone(c)
    BY <1>7, MarkingAfter DEF n
  <2>2. Expired(c) = 0 /\ marks[c] \in Nat /\ puts[c] \in Nat /\ Gone(c) \in Nat
    BY <1>1, <1>7, PlayingFacts, MarkingAfter
  <2> QED
    BY <1>1, <2>1, <2>2
<1>11. marks' = [x \in FlowObjects |-> (IF x = c THEN marks[x] - n ELSE marks[x]) + more[x]]
  <2>1. marks \in [FlowObjects -> Nat] /\ marks' \in [FlowObjects -> Nat]
    BY <1>7, PlayingFacts DEF MarksType
  <2>2. \A x \in FlowObjects :
          marks'[x] = (IF x = c THEN marks[x] - n ELSE marks[x]) + more[x]
    BY <1>1, <1>4, <1>9, <1>10, <2>1
  <2> QED
    BY <2>1, <2>2
<1>12. marks' = [x \in FlowObjects |->
         (IF x = c THEN marks[x] - Incoming(c) ELSE marks[x]) + Game!FlowsBetween(c, x)]
  <2>1. \A x \in FlowObjects : more[x] = Game!FlowsBetween(c, x)
    BY DEF more, FlowsFrom
  <2> QED
    BY <1>1, <1>11, <2>1
<1> QED
  BY <1>1, <1>2, <1>7, <1>8, <1>10, <1>12 DEF inside


LEMMA CallsGame ==
  ASSUME Playing, TokensHaveOneOwner, NEW p \in Processes, Calls(p)
  PROVE  OwnersInv' /\ GameStays
<1> DEFINE c == CallOf[p]
<1>1. c \in FlowObjects /\ Kind[c] = "call" /\ p \in Processes \ {Main} /\ p \notin called
  BY DefinitionAssumption DEF Calls, OfKind
<1>2. tokens[c] > 0
  BY DEF Calls, TokensHaveOneOwner, HandlersHaveTokens
<1>3. tokens' = tokens
  BY <1>1, <1>2, PlayingFacts DEF Calls, Renewed
<1>4. /\ starts \in [FlowObjects -> Nat] /\ starts' = [starts EXCEPT ![c] = @ + 1]
      /\ called' = called \cup {p}
      /\ UNCHANGED <<puts, leavings, visited>>
  BY PlayingFacts DEF CountsType, Calls
<1>5. \A q \in Processes \ {Main} : CallOf[q] = c => q = p
  BY <1>1, ValidationAssumption
<1>6. starts[c] = 0 /\ \A q \in called : CallOf[q] # c /\ CallOf[q] \in FlowObjects
  <2>0. Main \notin called /\ called \subseteq Processes
    BY DEF Playing, OwnersInv, TypeOK
  <2>1. starts[c] <= 0
    <3> DEFINE most == IF p \in called THEN 1 ELSE 0
    <3>1. starts[c] <= most
      BY <1>1 DEF Playing, OwnersInv
    <3>2. most = 0
      BY <1>1
    <3> HIDE DEF most, c
    <3> QED
      BY <3>1, <3>2
  <2>2. \A q \in called : CallOf[q] \in FlowObjects
    BY <2>0, DefinitionAssumption DEF OfKind
  <2> HIDE DEF c
  <2>3. starts[c] = 0
    BY <1>1, <1>4, <2>1
  <2> QED
    BY <1>1, <1>5, <2>0, <2>2, <2>3
<1>7. \A o \in FlowObjects : Expired(o)' = Expired(o)
  BY <1>3, <1>4, SameTimedOut
<1>8. OwnersInv'
  <2>1. ASSUME NEW q \in Processes \ {Main}
        PROVE  starts'[CallOf[q]] <= (IF q \in called' THEN 1 ELSE 0)
    <3>1. starts[CallOf[q]] <= (IF q \in called THEN 1 ELSE 0) /\ CallOf[q] \in FlowObjects
      BY <2>1, DefinitionAssumption DEF Playing, OwnersInv, OfKind
    <3> HIDE DEF c
    <3>2. CASE q = p
      BY <1>1, <1>4, <1>6, <3>2 DEF c
    <3>3. CASE q # p
      BY <1>4, <1>5, <3>1, <3>3
    <3> QED
      BY <3>2, <3>3
  <2>2. Main \notin called'
    BY <1>1, <1>4 DEF Playing, OwnersInv
  <2> QED
    BY <1>3, <1>4, <1>7, <2>1, <2>2 DEF Playing, OwnersInv
<1>9. ASSUME NEW o \in FlowObjects PROVE marks'[o] = marks[o]
  <2>1. /\ puts'[o] = puts[o] /\ Expired(o)' = Expired(o)
        /\ tokens'[o] + Gone(o)' = tokens[o] + Gone(o)
    BY <1>3, <1>4, <1>7 DEF Gone
  <2> QED
    BY <1>8, <2>1, MarkingStays
<1>10. marks' = marks
  BY <1>8, <1>9, MarksStay
<1>11. inside' = inside
  <2>1. starts'[c] = 1
    BY <1>1, <1>4, <1>6
  <2>2. \A q \in called : starts'[CallOf[q]] = starts[CallOf[q]] /\ q # p
    BY <1>1, <1>4, <1>6
  <2>3. inside' = {q \in called \cup {p} : starts'[CallOf[q]] = 0}
    BY <1>4 DEF inside
  <2> QED
    BY <2>1, <2>2, <2>3 DEF inside
<1> QED
  BY <1>3, <1>4, <1>8, <1>10, <1>11 DEF GameStays, begun

\* A called process starts in the game.
IsEntered(p) ==
  /\ p \in Processes \ (inside \cup {Main})
  /\ marks[CallOf[p]] > 0
  /\ begun' = begun
  /\ inside' = inside \cup {p}
  /\ marks' = [marks EXCEPT ![StartOf[p]] = @ + 1]

LEMMA EntersGame ==
  ASSUME Playing, TokensHaveOneOwner, NEW p \in Processes, Enters(p)
  PROVE  OwnersInv' /\ IsEntered(p)
<1> DEFINE c == CallOf[p]
           s == StartOf[p]
<1>1. Main \notin called /\ called \subseteq Processes /\ p \in called /\ p # Main
  BY DEF Playing, OwnersInv, TypeOK, Enters
<1>2. c \in FlowObjects /\ Kind[c] = "call"
  BY <1>1, DefinitionAssumption DEF OfKind
<1>3. s \in FlowObjects /\ s \notin BoundaryEvents /\ StartOf[Main] \in FlowObjects
  BY DefinitionAssumption DEF OfKind, BoundaryEvents
<1>4. s # StartOf[Main]
  <2>1. ProcessOf[StartOf[p]] = p /\ ProcessOf[StartOf[Main]] = Main
    BY DefinitionAssumption, ValidationAssumption
  <2> QED
    BY <1>1, <2>1
<1>5. tokens[c] > 0
  BY DEF Enters, TokensHaveOneOwner, HandlersHaveTokens
<1>6. /\ starts \in [FlowObjects -> Nat] /\ puts \in [FlowObjects -> Nat]
      /\ starts[c] > 0 /\ starts' = [starts EXCEPT ![c] = @ - 1]
      /\ puts' = [puts EXCEPT ![s] = @ + 1]
      /\ UNCHANGED <<leavings, tokens, called, visited>>
  BY PlayingFacts DEF CountsType, Enters
<1>7. \A q \in Processes \ {Main} : CallOf[q] \in FlowObjects /\ (CallOf[q] = c => q = p)
  BY <1>1, DefinitionAssumption, ValidationAssumption DEF OfKind
<1>8. starts[c] = 1
  BY <1>1, <1>2, <1>6 DEF Playing, OwnersInv
<1> HIDE DEF c, s
<1>9. \A b \in Timeouts : puts'[b] = puts[b] /\ tokens'[b] = tokens[b]
  <2>1. \A b \in Timeouts : b \in FlowObjects /\ b # s
    BY <1>3, BoundaryFacts DEF Timeouts
  <2> QED
    BY <1>6, <2>1
<1>10. \A o \in FlowObjects : Expired(o)' = Expired(o)
  BY <1>9, SameTimedOut
<1>11. OwnersInv'
  <2>1. ASSUME NEW q \in Processes \ {Main}
        PROVE  starts'[CallOf[q]] <= (IF q \in called THEN 1 ELSE 0)
    <3>1. starts[CallOf[q]] <= (IF q \in called THEN 1 ELSE 0) /\ CallOf[q] \in FlowObjects
      BY <1>7 DEF Playing, OwnersInv
    <3>2. CASE CallOf[q] = c
      BY <1>1, <1>6, <1>7, <1>8, <3>1, <3>2
    <3>3. CASE CallOf[q] # c
      BY <1>6, <3>1, <3>3
    <3> QED
      BY <3>2, <3>3
  <2> QED
    BY <1>6, <1>9, <1>10, <2>1 DEF Playing, OwnersInv
<1>12. ASSUME NEW o \in FlowObjects
       PROVE  marks'[o] = IF o = s THEN marks[o] + 1 ELSE marks[o]
  <2> DEFINE more == IF o = s THEN 1 ELSE 0
  <2>1. puts'[o] = puts[o] + more /\ tokens'[o] = tokens[o] /\ Expired(o)' = Expired(o)
    BY <1>6, <1>10, <1>11, MarkingAfter
  <2>2. Gone(o)' = Gone(o)
    BY <1>6 DEF Gone
  <2>3. more \in Nat
    OBVIOUS
  <2> HIDE DEF more
  <2>4. marks'[o] + 0 = marks[o] + more
    BY <1>11, <2>1, <2>2, <2>3, MarkingAfter, MarkingMoves
  <2> QED
    BY <1>11, <2>4, MarkingAfter DEF more
<1>13. marks' = [marks EXCEPT ![s] = @ + 1]
  BY <1>3, <1>11, <1>12, PlayingFacts DEF MarksType
<1>14. marks[c] > 0
  <2>1. Expired(c) = 0 /\ marks[c] + Expired(c) = puts[c] + tokens[c] + Gone(c)
    BY <1>2, <1>11, PlayingFacts, MarkingAfter
  <2>2. marks[c] \in Nat /\ puts[c] \in Nat /\ tokens[c] \in Nat /\ Gone(c) \in Nat
    BY <1>2, <1>11, MarkingAfter
  <2> QED
    BY <1>5, <2>1, <2>2 DEF c
<1>15. begun' = begun
  BY <1>3, <1>4, <1>6 DEF begun
<1>16. inside' = inside \cup {p} /\ p \notin inside
  <2>1. starts'[c] = 0
    BY <1>2, <1>6, <1>8
  <2>2. \A q \in called \ {p} : starts'[CallOf[q]] = starts[CallOf[q]]
    BY <1>1, <1>6, <1>7
  <2>3. inside' = {q \in called : starts'[CallOf[q]] = 0}
    BY <1>6 DEF inside
  <2> QED
    BY <1>1, <1>8, <2>1, <2>2, <2>3 DEF inside, c
<1> QED
  BY <1>1, <1>11, <1>13, <1>14, <1>15, <1>16 DEF IsEntered, c, s


(****************************************************************************)
(* The game itself.                                                         *)
(****************************************************************************)

\* The state the game is instantiated with is the one above.
Face ==
  /\ (StartOf[Main] \in visited \/ OnAgenda(Item("put", StartOf[Main])) > 0) = begun
  /\ [o \in FlowObjects |-> MarkingOf(o)] = marks
  /\ {p \in called : OnAgenda(Item("startCall", CallOf[p])) = 0} = inside

LEMMA GameFace == TypeOK /\ OwnersInv => Face
<1> SUFFICES ASSUME TypeOK, OwnersInv PROVE Face
  OBVIOUS
<1>1. StartOf[Main] \in FlowObjects
  BY DefinitionAssumption DEF OfKind
<1>2. \A p \in called : CallOf[p] \in FlowObjects
  <2>1. Main \notin called /\ called \subseteq Processes
    BY DEF TypeOK, OwnersInv
  <2> QED
    BY <2>1, DefinitionAssumption DEF OfKind
<1>3. puts[StartOf[Main]] = OnAgenda(Item("put", StartOf[Main]))
  BY <1>1 DEF puts
<1>4. \A p \in called : starts[CallOf[p]] = OnAgenda(Item("startCall", CallOf[p]))
  BY <1>2 DEF starts
<1>5. (StartOf[Main] \in visited \/ OnAgenda(Item("put", StartOf[Main])) > 0) = begun
  BY <1>3 DEF begun
<1>6. {p \in called : OnAgenda(Item("startCall", CallOf[p])) = 0} = inside
  BY <1>4 DEF inside
<1> QED
  BY <1>5, <1>6 DEF Face, marks

LEMMA NextFace == TypeOK' /\ OwnersInv' => Face'
  BY GameFace, PTL

\* Both before a step and after it.
Seen == Face /\ Face'

LEMMA PlayingIsSeen == Playing /\ OwnersInv' => Seen
  BY GameFace, NextFace DEF Playing, Seen

LEMMA StaysInGame == Seen /\ GameStays => UNCHANGED Game!vars
<1> SUFFICES ASSUME Seen, GameStays PROVE UNCHANGED Game!vars
  OBVIOUS
<1>1. begun' = begun /\ marks' = marks /\ inside' = inside
  BY DEF GameStays
<1> QED
  BY <1>1 DEF Game!vars, Seen, Face

LEMMA StartsGame ==
  ASSUME Seen, ~begun, begun', inside' = inside,
         marks' = [marks EXCEPT ![StartOf[Main]] = @ + 1]
  PROVE  Game!Start
  BY DEF Game!Start, Seen, Face, begun

LEMMA MovesInGame ==
  ASSUME Seen, NEW c \in FlowObjects, marks[c] \in Nat, marks[c] > 0, IsPassed(c, FlowsFrom(c))
  PROVE  Game!Pass(c, 1)
<1>1. marks[c] >= 1
  OBVIOUS
<1>2. marks' = [x \in FlowObjects |->
                  (IF x = c THEN marks[x] - 1 ELSE marks[x]) + Game!FlowsBetween(c, x)]
  <2>1. \A x \in FlowObjects : FlowsFrom(c)[x] = Game!FlowsBetween(c, x)
    BY DEF FlowsFrom
  <2> QED
    BY <2>1 DEF IsPassed
<1>3. begun' = begun /\ inside' = inside
  BY DEF IsPassed
<1> QED
  BY <1>1, <1>2, <1>3 DEF Game!Pass, Seen, Face

LEMMA DecidesInGame ==
  ASSUME Seen, NEW c \in FlowObjects, marks[c] > 0, Kind[c] = "xor", NEW i \in DOMAIN Outgoing[c],
         IsPassed(c, [x \in FlowObjects |-> IF x = Outgoing[c][i] THEN 1 ELSE 0])
  PROVE  Game!Decide(c)
<1>1. marks' = [x \in FlowObjects |-> (IF x = c THEN marks[x] - 1 ELSE marks[x])
                                        + (IF x = Outgoing[c][i] THEN 1 ELSE 0)]
  BY DEF IsPassed
<1>2. begun' = begun /\ inside' = inside
  BY DEF IsPassed
<1> QED
  BY <1>1, <1>2 DEF Game!Decide, Seen, Face

LEMMA SynchronisesInGame ==
  ASSUME Seen, NEW c \in FlowObjects, Kind[c] = "and", marks[c] >= Incoming(c),
         begun' = begun, inside' = inside,
         marks' = [x \in FlowObjects |->
           (IF x = c THEN marks[x] - Incoming(c) ELSE marks[x]) + Game!FlowsBetween(c, x)]
  PROVE  Game!Synchronise(c)
<1>1. Game!Cardinality(Game!FlowsInto(c)) = Incoming(c)
  BY GameFlows
<1>2. Game!Pass(c, Incoming(c))
  BY DEF Game!Pass, Seen, Face
<1> QED
  BY <1>1, <1>2 DEF Game!Synchronise

LEMMA EntersInGame ==
  ASSUME Seen, NEW p \in Processes, IsEntered(p)
  PROVE  Game!Enter(p)
  BY DEF Game!Enter, Seen, Face, IsEntered

LEMMA InterruptsInGame ==
  ASSUME Seen, NEW b \in BoundaryEvents, IsInterrupted(b)
  PROVE  Game!Interrupt(Host(b), b)
<1>1. \E i \in DOMAIN Boundaries[Host(b)] : Boundaries[Host(b)][i] = b
  BY BoundaryFacts DEF BoundaryEventsOf
<1> QED
  BY <1>1 DEF Game!Interrupt, Seen, Face, IsInterrupted

\* The activity is left when its process holds no token any more.
LEMMA ReturnsInGame ==
  ASSUME Playing, Seen, TokensHaveOneOwner, NEW c \in FlowObjects, Passes(c), Kind[c] = "call",
         Game!Pass(c, 1)
  PROVE  \E p \in Processes : Game!Return(p)
<1>1. Running("ended") /\ Current = c
  BY DEF Passes, GoesOn
<1>2. PICK p \in called :
        /\ CallOf[p] = c /\ OnAgenda(Item("startCall", c)) = 0
        /\ \A o \in Game!Inside(c) : MarkingOf(o) = 0
  BY <1>1 DEF TokensHaveOneOwner, CallsEndEmpty
<1>3. p \in {q \in called : OnAgenda(Item("startCall", CallOf[q])) = 0} /\ p \in Processes
  BY <1>2 DEF Playing, TypeOK
<1>4. \A o \in Game!Inside(c) : o \in FlowObjects
  BY DEF Game!Inside
<1>5. \A o \in Game!Inside(CallOf[p]) : [x \in FlowObjects |-> MarkingOf(x)][o] = 0
  BY <1>2, <1>4
<1>6. Game!Return(p)
  BY <1>2, <1>3, <1>5 DEF Game!Return
<1> QED
  BY <1>3, <1>6


\* Whatever a step does is a step of the game or none at all.
LEMMA EffectInGame ==
  ASSUME Playing, TokensHaveOneOwner, Effect
  PROVE  OwnersInv' /\ [Game!Next]_(Game!vars)
<1>1. ASSUME OwnersInv', GameStays PROVE [Game!Next]_(Game!vars)
  BY <1>1, PlayingIsSeen, StaysInGame
<1>2. CASE Keeps
  BY <1>1, <1>2, KeepsGame
<1>3. CASE Begins
  BY <1>3, BeginsGame, PlayingIsSeen, StartsGame DEF Game!Next
<1>4. ASSUME NEW c \in FlowObjects,
             Arrives(c) \/ IsLeft(c) \/ TakesActivity(c) \/ Renews(c)
      PROVE  OwnersInv' /\ [Game!Next]_(Game!vars)
  BY <1>1, <1>4, ArrivesGame, IsLeftGame, TakesActivityGame, RenewsGame
<1>5. ASSUME NEW c \in FlowObjects, Interrupts(c) \/ TimesOut(c)
      PROVE  OwnersInv' /\ [Game!Next]_(Game!vars)
  <2>1. OwnersInv' /\ IsInterrupted(c)
    BY <1>5, InterruptsGame, TimesOutGame
  <2>2. c \in BoundaryEvents /\ Host(c) \in FlowObjects
    BY <1>5, BoundaryFacts DEF Interrupts, TimesOut
  <2>3. Game!Interrupt(Host(c), c)
    BY <2>1, <2>2, PlayingIsSeen, InterruptsInGame
  <2> QED
    BY <2>1, <2>2, <2>3 DEF Game!Next
<1>6. ASSUME NEW c \in FlowObjects, Passes(c)
      PROVE  OwnersInv' /\ [Game!Next]_(Game!vars)
  <2>1. OwnersInv' /\ marks[c] > 0 /\ IsPassed(c, FlowsFrom(c)) /\ marks[c] \in Nat
    BY <1>6, PassesGame, PlayingFacts DEF MarksType
  <2>2. Seen
    BY <2>1, PlayingIsSeen
  <2>3. Game!Pass(c, 1)
    BY <2>1, <2>2, MovesInGame
  <2>4. CASE Kind[c] = "call"
    BY <1>6, <2>1, <2>2, <2>3, <2>4, ReturnsInGame DEF Game!Next
  <2>5. CASE Kind[c] # "call"
    <3>1. Game!Move(c)
      BY <1>6, <2>3, <2>5 DEF Game!Move, Passes
    <3> QED
      BY <2>1, <3>1 DEF Game!Next
  <2> QED
    BY <2>4, <2>5
<1>7. ASSUME NEW c \in FlowObjects, Decides(c)
      PROVE  OwnersInv' /\ [Game!Next]_(Game!vars)
  <2>1. OwnersInv' /\ marks[c] > 0
    BY <1>7, DecidesGame
  <2>2. PICK i \in DOMAIN Outgoing[c] :
          IsPassed(c, [x \in FlowObjects |-> IF x = Outgoing[c][i] THEN 1 ELSE 0])
    BY <1>7, DecidesGame
  <2>3. Game!Decide(c)
    BY <1>7, <2>1, <2>2, PlayingIsSeen, DecidesInGame DEF Decides
  <2> QED
    BY <2>1, <2>3 DEF Game!Next
<1>8. ASSUME NEW c \in FlowObjects, Forks(c)
      PROVE  OwnersInv' /\ [Game!Next]_(Game!vars)
  <2>1. Kind[c] = "and"
    BY <1>8 DEF Forks
  <2>2. OwnersInv' /\ Game!Synchronise(c)
    BY <1>8, <2>1, ForksGame, PlayingIsSeen, SynchronisesInGame
  <2> QED
    BY <2>2 DEF Game!Next
<1>9. ASSUME NEW p \in Processes, Calls(p) \/ Enters(p)
      PROVE  OwnersInv' /\ [Game!Next]_(Game!vars)
  <2>1. CASE Calls(p)
    BY <1>1, <2>1, CallsGame
  <2>2. CASE Enters(p)
    BY <2>2, EntersGame, PlayingIsSeen, EntersInGame DEF Game!Next
  <2> QED
    BY <1>9, <2>1, <2>2
<1> QED
  BY <1>2, <1>3, <1>4, <1>5, <1>6, <1>7, <1>8, <1>9 DEF Effect

LEMMA GameStep ==
  TypeOK /\ AccountInv /\ OwnersInv /\ TokensHaveOneOwner /\ [Next]_vars
    => OwnersInv' /\ [Game!Next]_(Game!vars)
<1> SUFFICES ASSUME TypeOK, AccountInv, OwnersInv, TokensHaveOneOwner, [Next]_vars
             PROVE  OwnersInv' /\ [Game!Next]_(Game!vars)
  OBVIOUS
<1>1. Effect
  BY StepEffect DEF OwnersInv
<1>2. Playing
  BY NextType DEF Playing
<1> QED
  BY <1>1, <1>2, EffectInGame

LEMMA GameInit == Init /\ TypeOK => OwnersInv /\ Game!Init
<1> SUFFICES ASSUME Init, TypeOK PROVE OwnersInv /\ Game!Init
  OBVIOUS
<1>1. \A e : OnAgenda(e) = 0
  BY OccurrencesFew, Zenon DEF OnAgenda, Init
<1>2. \A o \in FlowObjects : puts[o] = 0 /\ starts[o] = 0
  BY <1>1 DEF puts, starts
<1>3. \A o \in FlowObjects : leavings[o] = 0
  <2> TAKE o \in FlowObjects
  <2>1. Item("ended", o) \in Items /\ Item("timerHandled", o) \in Items
    BY CountedItems DEF CountedOps
  <2>2. \A e \in Items : Held(e) = 0
    BY DEF Init, Held
  <2> QED
    BY <1>1, <2>1, <2>2 DEF leavings, Leaving
<1>4. \A o \in FlowObjects : tokens[o] = 0
  BY DEF Init
<1>5. \A o \in FlowObjects : Expired(o) = 0
  <2> TAKE o \in FlowObjects
  <2>1. \A b \in BoundaryEventsOf(o) : b \in FlowObjects
    BY BoundaryFacts
  <2>2. TimedOut(o) = {}
    BY <1>2, <1>4, <2>1 DEF TimedOut
  <2> QED
    BY <2>2, TimedOutFacts, FS_EmptySet DEF ExpiredFacts
<1>6. OwnersInv
  <2>1. \A p \in Processes \ {Main} : CallOf[p] \in FlowObjects
    BY DefinitionAssumption DEF OfKind
  <2>2. \A b \in Timeouts : puts[b] + tokens[b] <= 1
    BY <1>2, <1>4, BoundaryFacts DEF Timeouts
  <2>3. \A p \in Processes \ {Main} : starts[CallOf[p]] <= (IF p \in called THEN 1 ELSE 0)
    BY <1>2, <2>1
  <2> QED
    BY <1>4, <1>5, <2>2, <2>3 DEF OwnersInv, Init
<1>7. ~begun /\ inside = {}
  BY <1>2, DefinitionAssumption DEF begun, inside, Init, OfKind
<1>8. \A o \in FlowObjects : marks[o] = 0
  BY <1>2, <1>3, <1>4, <1>5, <1>6, MarksTypes DEF MarksType
<1>9. marks = [o \in FlowObjects |-> 0]
  BY <1>6, <1>8, MarksTypes DEF MarksType
<1>10. Face
  BY <1>6, GameFace
<1>11. begun = FALSE
  BY <1>7 DEF begun
<1> QED
  BY <1>6, <1>7, <1>9, <1>10, <1>11 DEF Game!Init, Face

\* As long as every token has one owner, the engine plays the token game: every step of it, with
\* its handlers, deferred events, timers and saves, is one of the rules of the BPMN
\* semantics stated in the emitTokens methods (start, move, decide, synchronise, call, return,
\* interrupt), or changes no token of the game at all.
THEOREM EngineImplementsTokenGame == Spec /\ []TokensHaveOneOwner => TokenGameIsPlayed
<1>1. Spec => [](TypeOK /\ AccountInv)
  BY AccountInit, AccountStep, TypeCorrectness, PTL DEF Spec
<1>2. Spec /\ []TokensHaveOneOwner => Game!Init /\ [][Game!Next]_(Game!vars)
  BY <1>1, GameInit, GameStep, PTL DEF Spec
<1> QED
  BY <1>2 DEF TokenGameIsPlayed, Game!Spec


-----------------------------------------------------------------------------
(****************************************************************************)
(* Tokens that pass once.                                                   *)
(****************************************************************************)

\* What is under way at an object is there because a token was put at it.
WorkVisited ==
  \A op \in WorkOps, o \in FlowObjects : Outstanding(Item(op, o)) > 0 => o \in visited

LEMMA WorkItemTypes ==
  \A op \in WorkOps, o \in FlowObjects : Item(op, o) \in Items
  BY ItemType DEF WorkOps, EventOps, ContinuationOps

LEMMA VisitedGrows == Effect => visited \subseteq visited'
  BY DEF Effect, Keeps, Begins, Arrives, IsLeft, TakesActivity, Renews, Interrupts, TimesOut, Passes,
         Decides, Forks, GoesOn, Calls, Enters

LEMMA HeadOutstanding ==
  ASSUME TypeOK, NEW op, Running(op)
  PROVE  Outstanding(Item(op, Current)) > 0
<1>1. Head(agenda) \in Items /\ Head(agenda) = Item(op, Current) /\ agenda # << >>
  BY HeadType DEF Running, Item, Items, Current
<1> DEFINE e == Item(op, Current)
<1>2. Taken(e) = 1
  BY <1>1 DEF Taken, One
<1>3. OnAgenda(e) > 0
  BY <1>2, RestType
<1>4. Held(e) \in Nat /\ Deferred(Receiver(e), e) \in Nat /\ OnAgenda(e) \in Nat
  BY <1>1, AccountTypes, ReceiverType
<1> HIDE DEF e
<1>5. Outstanding(e) > 0
  BY <1>3, <1>4 DEF Outstanding
<1> QED
  BY <1>5 DEF e

LEMMA WorkVisitedStep ==
  ASSUME TypeOK, AccountInv, WorkVisited, Effect, [Next]_vars
  PROVE  WorkVisited'
<1> SUFFICES ASSUME NEW op \in WorkOps, NEW o \in FlowObjects, Outstanding(Item(op, o))' > 0
             PROVE  o \in visited'
  BY DEF WorkVisited
<1> DEFINE e == Item(op, o)
<1>1. e \in Items /\ visited \subseteq visited' /\ TypeOK'
  BY WorkItemTypes, VisitedGrows, NextType
<1>2. Outstanding(e) > 0 => o \in visited
  BY DEF WorkVisited
<1>3. CASE UNCHANGED <<agenda, pending, deferred>>
  <2>1. Outstanding(e)' = Outstanding(e)
    BY <1>3 DEF Outstanding, OnAgenda, Held, Deferred, Occurrences, Receiver
  <2> QED
    BY <1>1, <1>2, <2>1
<1>4. ASSUME NEW new \in Seq(Items), Moves(new), Follows(new) PROVE o \in visited'
  <2>1. CASE \E i \in DOMAIN new : new[i] = e
    <3>1. PICK i \in DOMAIN new : new[i] = e
      BY <2>1
    <3>2. new[i].op = op /\ new[i].at = o
      BY <3>1 DEF Item
    <3>3. o = Current /\ (PutToken \/ Running("begun") \/ Running("arrived"))
      BY <1>4, <3>2 DEF Follows
    <3>4. CASE PutToken
      BY <3>3, <3>4 DEF PutToken
    <3>5. ASSUME NEW q \in {"begun", "arrived"}, Running(q) PROVE o \in visited'
      <4>1. Outstanding(Item(q, o)) > 0
        BY <3>3, <3>5, HeadOutstanding
      <4> QED
        BY <1>1, <4>1 DEF WorkVisited, WorkOps
    <3> QED
      BY <3>3, <3>4, <3>5
  <2>2. CASE \A i \in DOMAIN new : new[i] # e
    <3>1. Occurrences(new, e) = 0
      BY <2>2, NoOccurrence
    <3>2. Outstanding(e)' + Taken(e) = Outstanding(e) + Occurrences(new, e)
      BY <1>1, <1>4 DEF Moves
    <3>3. Outstanding(e) \in Nat /\ Outstanding(e)' \in Nat /\ Taken(e) \in Nat /\ Outstanding(e)' > 0
      BY <1>1, OutstandingType, RestType
    <3> HIDE DEF e
    <3>4. Outstanding(e) > 0
      BY <3>1, <3>2, <3>3
    <3> QED
      BY <1>1, <1>2, <3>4
  <2> QED
    BY <2>1, <2>2
<1>5. Received
  BY DEF AccountInv
<1> QED
  BY <1>3, <1>4, <1>5, StepMoves


\* The sequence flows into an object, and those that come from c.
FlowsTo(j) ==
  {f \in UNION {{p} \X DOMAIN Outgoing[p] : p \in FlowObjects} : Outgoing[f[1]][f[2]] = j}
FlowsOf(c, j) == {c} \X {i \in DOMAIN Outgoing[c] : Outgoing[c][i] = j}

LEMMA FlowsAreFinite ==
  ASSUME NEW c \in FlowObjects
  PROVE  IsFiniteSet(DOMAIN Outgoing[c])
<1>1. Outgoing[c] \in Seq(FlowObjects)
  BY DefinitionAssumption
<1>2. DOMAIN Outgoing[c] = 1 .. Len(Outgoing[c]) /\ Len(Outgoing[c]) \in Nat
  BY <1>1
<1> QED
  BY <1>2, FS_Interval

LEMMA FlowsToFacts ==
  ASSUME NEW j
  PROVE  IsFiniteSet(FlowsTo(j)) /\ Cardinality(FlowsTo(j)) = Incoming(j) /\ Incoming(j) \in Nat
<1> DEFINE All == {{p} \X DOMAIN Outgoing[p] : p \in FlowObjects}
           f == [p \in FlowObjects |-> {p} \X DOMAIN Outgoing[p]]
<1>1. f \in Surjection(FlowObjects, All)
  BY DEF Surjection
<1>2. IsFiniteSet(All)
  BY <1>1, DefinitionAssumption, FS_Surjection
<1>3. ASSUME NEW S \in All PROVE IsFiniteSet(S)
  <2>1. PICK p \in FlowObjects : S = {p} \X DOMAIN Outgoing[p]
    BY <1>3
  <2>3. IsFiniteSet(DOMAIN Outgoing[p])
    BY FlowsAreFinite
  <2>4. IsFiniteSet({p})
    BY FS_Singleton
  <2> QED
    BY <2>1, <2>3, <2>4, FS_Product
<1>4. IsFiniteSet(UNION All)
  BY <1>2, <1>3, FS_UNION
<1>5. IsFiniteSet(FlowsTo(j))
  BY <1>4, FS_Subset DEF FlowsTo
<1> QED
  BY <1>5, FS_CardinalityType DEF FlowsTo, Incoming

LEMMA FlowsOfFacts ==
  ASSUME NEW c \in FlowObjects, NEW j \in FlowObjects
  PROVE  /\ FlowsOf(c, j) \subseteq FlowsTo(j) /\ IsFiniteSet(FlowsOf(c, j))
         /\ Cardinality(FlowsOf(c, j)) = Game!FlowsBetween(c, j)
         /\ Game!FlowsBetween(c, j) \in Nat
         /\ Game!FlowsBetween(c, j) > 0 <=> \E i \in DOMAIN Outgoing[c] : Outgoing[c][i] = j
         /\ Game!FlowsBetween(c, j) > 0 => Incoming(j) > 0
         /\ \A f \in FlowsOf(c, j) : f[1] = c
<1> DEFINE S == {i \in DOMAIN Outgoing[c] : Outgoing[c][i] = j}
<1>2. IsFiniteSet(S)
  BY FlowsAreFinite, FS_Subset
<1>3. IsFiniteSet({c}) /\ Cardinality({c}) = 1
  BY FS_Singleton
<1>4. Game!FlowsBetween(c, j) = Cardinality(S) /\ Cardinality(S) \in Nat
  BY <1>2, GameCardinality, FS_CardinalityType DEF Game!FlowsBetween
<1>5. IsFiniteSet(FlowsOf(c, j)) /\ Cardinality(FlowsOf(c, j)) = Cardinality({c}) * Cardinality(S)
  BY <1>2, <1>3, FS_Product DEF FlowsOf
<1>6. Cardinality(FlowsOf(c, j)) = Cardinality(S)
  BY <1>3, <1>4, <1>5
<1>7. FlowsOf(c, j) \subseteq FlowsTo(j)
  <2> SUFFICES ASSUME NEW f \in FlowsOf(c, j) PROVE f \in FlowsTo(j)
    OBVIOUS
  <2>1. PICK i \in S : f = <<c, i>>
    BY DEF FlowsOf
  <2>2. f \in {c} \X DOMAIN Outgoing[c] /\ f[1] = c /\ f[2] = i
    BY <2>1
  <2> QED
    BY <2>2 DEF FlowsTo
<1>8. Cardinality(S) > 0 <=> S # {}
  BY <1>2, <1>4, FS_EmptySet
<1>9. ASSUME Cardinality(S) > 0 PROVE Incoming(j) > 0
  <2>1. Cardinality(FlowsOf(c, j)) <= Cardinality(FlowsTo(j))
    BY <1>7, FlowsToFacts, FS_Subset
  <2> QED
    BY <1>4, <1>6, <1>9, <2>1, FlowsToFacts
<1>10. \A f \in FlowsOf(c, j) : f[1] = c
  BY DEF FlowsOf
<1> QED
  BY <1>4, <1>5, <1>6, <1>7, <1>8, <1>9, <1>10

LEMMA FlowsToSources ==
  ASSUME NEW j, NEW f \in FlowsTo(j)
  PROVE  f[1] \in FlowObjects /\ f[2] \in DOMAIN Outgoing[f[1]] /\ Outgoing[f[1]][f[2]] = j
         /\ f = <<f[1], f[2]>>
  BY DEF FlowsTo

\* An object with one flow into it has one object before it.
LEMMA OneSource ==
  ASSUME NEW c \in FlowObjects, NEW x \in FlowObjects, NEW i \in DOMAIN Outgoing[c],
         NEW k \in DOMAIN Outgoing[x], Outgoing[x][k] = Outgoing[c][i],
         Incoming(Outgoing[c][i]) = 1
  PROVE  x = c
<1> DEFINE d == Outgoing[c][i]
<1>1. <<c, i>> \in FlowsTo(d)
  <2>1. <<c, i>> \in {c} \X DOMAIN Outgoing[c]
    OBVIOUS
  <2> QED
    BY <2>1 DEF FlowsTo
<1>2. <<x, k>> \in FlowsTo(d)
  <2>1. <<x, k>> \in {x} \X DOMAIN Outgoing[x]
    OBVIOUS
  <2> QED
    BY <2>1 DEF FlowsTo
<1>3. \E f : FlowsTo(d) = {f}
  BY FlowsToFacts, FS_Singleton
<1>4. <<c, i>> = <<x, k>>
  BY <1>1, <1>2, <1>3
<1> QED
  BY <1>4

\* A token has been put at the object, or is about to be.
Reached(o) == o \in visited \/ puts[o] > 0

\* The tokens of a gateway have gone on; the token of another object has left it.
HasForked(j) == \E i \in DOMAIN Outgoing[j] : Reached(Outgoing[j][i])
IsPast(o) ==
  IF Kind[o] = "and" THEN HasForked(o)
                     ELSE o \in visited /\ tokens[o] = 0 /\ leavings[o] = 0

Crossed(j) == {f \in FlowsTo(j) : IsPast(f[1])}

LEMMA CrossedFacts ==
  \A j : /\ IsFiniteSet(Crossed(j)) /\ Cardinality(Crossed(j)) \in Nat
         /\ Cardinality(Crossed(j)) <= Incoming(j)
         /\ Cardinality(Crossed(j)) = Incoming(j) => Crossed(j) = FlowsTo(j)
<1> TAKE j
<1>1. Crossed(j) \in SUBSET FlowsTo(j)
  BY DEF Crossed
<1>2. IsFiniteSet(FlowsTo(j)) /\ Cardinality(FlowsTo(j)) = Incoming(j)
  BY FlowsToFacts
<1> QED
  BY <1>1, <1>2, FS_Subset, FS_CardinalityType

NextCrossedFacts ==
  \A j : /\ IsFiniteSet(Crossed(j)') /\ Cardinality(Crossed(j)') \in Nat
         /\ Cardinality(Crossed(j)') <= Incoming(j)
         /\ Cardinality(Crossed(j)') = Incoming(j) => Crossed(j)' = FlowsTo(j)

LEMMA NextCrossed == NextCrossedFacts
<1> SUFFICES ASSUME NEW j
             PROVE  /\ IsFiniteSet(Crossed(j)') /\ Cardinality(Crossed(j)') \in Nat
                    /\ Cardinality(Crossed(j)') <= Incoming(j)
                    /\ Cardinality(Crossed(j)') = Incoming(j) => Crossed(j)' = FlowsTo(j)
  BY DEF NextCrossedFacts
<1>1. Crossed(j)' \in SUBSET FlowsTo(j)
  BY DEF Crossed, FlowsTo
<1>2. IsFiniteSet(FlowsTo(j)) /\ Cardinality(FlowsTo(j)) = Incoming(j)
  BY FlowsToFacts
<1> QED
  BY <1>1, <1>2, FS_Subset, FS_CardinalityType

\* The flows from c are crossed when its token leaves.
LEMMA CrossedGrows ==
  ASSUME NEW c \in FlowObjects, NEW j \in FlowObjects, Crossed(j) \subseteq Crossed(j)',
         ~IsPast(c), IsPast(c)'
  PROVE  Cardinality(Crossed(j)') >= Cardinality(Crossed(j)) + Game!FlowsBetween(c, j)
<1> DEFINE S == Crossed(j)
           T == FlowsOf(c, j)
           U == Crossed(j)'
<1>1. S \cap T = {}
  BY FlowsOfFacts DEF Crossed
<1>2. T \subseteq U
  <2> SUFFICES ASSUME NEW f \in T PROVE f \in U
    OBVIOUS
  <2>1. f \in FlowsTo(j) /\ f[1] = c
    BY FlowsOfFacts
  <2> QED
    BY <2>1 DEF Crossed, FlowsTo
<1>3. /\ IsFiniteSet(S) /\ IsFiniteSet(T) /\ IsFiniteSet(U)
      /\ Cardinality(T) = Game!FlowsBetween(c, j)
  BY CrossedFacts, NextCrossed, FlowsOfFacts DEF NextCrossedFacts
<1>4. S \cup T \in SUBSET U
  BY <1>2
<1> HIDE DEF S, T, U
<1>5. Cardinality(S \cup T) = Cardinality(S) + Cardinality(T) - Cardinality({})
  BY <1>1, <1>3, FS_Union
<1>6. Cardinality(S \cup T) <= Cardinality(U)
  BY <1>3, <1>4, FS_Subset
<1>7. /\ Cardinality(S) \in Nat /\ Cardinality(T) \in Nat /\ Cardinality(U) \in Nat
      /\ Cardinality({}) = 0
  BY <1>3, FS_CardinalityType, FS_EmptySet
<1>8. Cardinality(U) >= Cardinality(S) + Cardinality(T)
  BY <1>5, <1>6, <1>7
<1> QED
  BY <1>3, <1>8 DEF S, U


\* Nothing but a parallel gateway gets a second token ...
PutOnce ==
  \A o \in FlowObjects : Kind[o] # "and" => puts[o] <= 1 /\ (o \in visited => puts[o] = 0)

\* ... so that there is one token at most where one was put, and none elsewhere.
OnceInv ==
  \A o \in FlowObjects :
    /\ o \notin visited => tokens[o] = 0 /\ leavings[o] = 0
    /\ Kind[o] # "and" => tokens[o] + leavings[o] <= 1

LEMMA PutsOnce == TypeOK /\ TokensPassOnce => PutOnce
<1> SUFFICES ASSUME TypeOK, TokensPassOnce, NEW o \in FlowObjects, Kind[o] # "and"
             PROVE  puts[o] <= 1 /\ (o \in visited => puts[o] = 0)
  BY DEF PutOnce
<1>1. OnAgenda(Item("put", o)) + (IF o \in visited THEN 1 ELSE 0) <= 1
  BY DEF TokensPassOnce
<1>2. puts[o] = OnAgenda(Item("put", o)) /\ puts[o] \in Nat
  BY CountTypes DEF CountsType, puts
<1> QED
  BY <1>1, <1>2

LEMMA NextPutsOnce == TypeOK' /\ TokensPassOnce' => PutOnce'
  BY PutsOnce, PTL

\* Before a step and after it.
Passing ==
  /\ TypeOK /\ TypeOK' /\ TokensPassOnce /\ PutOnce /\ PutOnce'
  /\ WorkVisited /\ OnceInv

LEMMA PassingFacts ==
  ASSUME Passing
  PROVE  /\ CountsType /\ CountsType'
         /\ tokens \in [FlowObjects -> Nat] /\ tokens' \in [FlowObjects -> Nat]
  BY CountTypes, NextCounts DEF Passing, TypeOK

\* What a step does to the tokens at one object.
Quiets(o) == tokens'[o] <= tokens[o] /\ leavings'[o] <= leavings[o]
Goes(o)   == tokens[o] > 0 /\ tokens'[o] = tokens[o] - 1 /\ leavings'[o] = leavings[o] + 1

LEMMA LeavingHasToken ==
  ASSUME TypeOK, HandlersHaveTokens, NEW c \in FlowObjects, IsLeft(c)
  PROVE  tokens[c] > 0 /\ Kind[c] # "and"
<1>1. CASE c \in Automatic /\ tokens[c] > 0 /\ Running("handled") /\ Current = c
  BY <1>1 DEF Automatic, OfKind
<1>2. CASE Running("activityDone") /\ Current = c /\ Kind[c] \in {"waitTask", "call"}
  BY <1>2 DEF HandlersHaveTokens
<1>3. CASE Running("caught") /\ Current = c /\ c \in CatchEvents
  BY <1>3 DEF HandlersHaveTokens, CatchEvents, OfKind
<1>4. CASE c \in TimerEvents /\ CanExpire(c)
  BY <1>4 DEF HandlersHaveTokens, IsLeft, TimerEvents, OfKind
<1> QED
  BY <1>1, <1>2, <1>3, <1>4 DEF IsLeft, MayLeave

LEMMA RemoveQuiets ==
  ASSUME Passing, NEW h, tokens' = Remove(h), NEW o \in FlowObjects
  PROVE  tokens'[o] <= tokens[o]
<1>1. tokens \in [FlowObjects -> Nat]
  BY PassingFacts
<1>2. tokens' = [tokens EXCEPT ![h] = IF @ > 0 THEN @ - 1 ELSE 0]
  BY DEF Remove
<1> QED
  BY <1>1, <1>2

LEMMA Movement ==
  ASSUME Passing, Effect, NEW o \in FlowObjects
  PROVE  Quiets(o) \/ Goes(o) \/ Arrives(o) \/ Renews(o)
<1>1. /\ puts \in [FlowObjects -> Nat] /\ leavings \in [FlowObjects -> Nat]
      /\ tokens \in [FlowObjects -> Nat] /\ HandlersHaveTokens
  BY PassingFacts DEF CountsType, Passing, TokensPassOnce
<1>2. ASSUME tokens'[o] = tokens[o], leavings'[o] = leavings[o] PROVE Quiets(o)
  BY <1>1, <1>2 DEF Quiets
<1>3. CASE Keeps \/ Begins
  BY <1>2, <1>3 DEF Keeps, Begins
<1>4. ASSUME NEW c \in FlowObjects, Arrives(c)
      PROVE  Quiets(o) \/ Arrives(o)
  <2>1. o # c => tokens'[o] = tokens[o] /\ leavings'[o] = leavings[o]
    BY <1>1, <1>4 DEF Arrives, Add
  <2> QED
    BY <1>2, <1>4, <2>1
<1>5. ASSUME NEW c \in FlowObjects, IsLeft(c)
      PROVE  Quiets(o) \/ Goes(o)
  <2>1. tokens[c] > 0
    BY <1>1, <1>5, LeavingHasToken DEF Passing
  <2>2. /\ tokens' = [tokens EXCEPT ![c] = IF @ > 0 THEN @ - 1 ELSE 0]
        /\ leavings' = [leavings EXCEPT ![c] = @ + 1]
    BY <1>5 DEF IsLeft, Remove
  <2>3. CASE o = c
    BY <1>1, <2>1, <2>2, <2>3 DEF Goes
  <2>4. CASE o # c
    BY <1>1, <1>2, <2>2, <2>4
  <2> QED
    BY <2>3, <2>4
<1>6. ASSUME NEW c \in FlowObjects, TakesActivity(c)
      PROVE  Quiets(o) \/ Goes(o)
  <2> DEFINE h == Host(c)
  <2>1. h # c /\ tokens[c] > 0
    BY <1>6, BoundaryFacts DEF TakesActivity
  <2>2. /\ tokens' = [[tokens EXCEPT ![c] = IF @ > 0 THEN @ - 1 ELSE 0]
                        EXCEPT ![h] = IF @ > 0 THEN @ - 1 ELSE 0]
        /\ leavings' = [leavings EXCEPT ![c] = @ + 1]
    BY <1>6 DEF TakesActivity, Remove
  <2> HIDE DEF h
  <2>3. CASE o = c
    BY <1>1, <2>1, <2>2, <2>3 DEF Goes
  <2>4. CASE o # c
    <3>1. leavings'[o] = leavings[o] /\ leavings[o] \in Nat
      BY <1>1, <2>2, <2>4
    <3>2. tokens'[o] = IF o = h THEN (IF tokens[o] > 0 THEN tokens[o] - 1 ELSE 0) ELSE tokens[o]
      BY <1>1, <2>2, <2>4
    <3> QED
      BY <1>1, <3>1, <3>2 DEF Quiets
  <2> QED
    BY <2>3, <2>4
<1>7. ASSUME NEW c \in FlowObjects, Renews(c)
      PROVE  Quiets(o) \/ Renews(o)
  <2>1. o # c => tokens'[o] = tokens[o] /\ leavings'[o] = leavings[o]
    BY <1>1, <1>7 DEF Renews, Renewed
  <2> QED
    BY <1>2, <1>7, <2>1
<1>8. ASSUME NEW c \in FlowObjects, Interrupts(c) \/ TimesOut(c)
      PROVE  Quiets(o)
  <2>1. leavings'[o] = leavings[o] /\ leavings[o] \in Nat
    BY <1>1, <1>8 DEF Interrupts, TimesOut
  <2>2. tokens'[o] <= tokens[o]
    BY <1>1, <1>8, RemoveQuiets DEF Interrupts, TimesOut
  <2> QED
    BY <2>1, <2>2 DEF Quiets
<1>9. ASSUME NEW c \in FlowObjects, Passes(c) \/ Decides(c) \/ Forks(c)
      PROVE  Quiets(o)
  <2>1. leavings' = [leavings EXCEPT ![c] = @ - 1] /\ leavings[c] > 0
    BY <1>9 DEF Passes, Decides, Forks, GoesOn
  <2>2. leavings'[o] <= leavings[o]
    BY <1>1, <2>1
  <2>3. tokens' = tokens \/ tokens' = [tokens EXCEPT ![c] = 0]
    BY <1>9 DEF Passes, Decides, Forks
  <2>4. tokens'[o] <= tokens[o]
    BY <1>1, <2>3
  <2> QED
    BY <2>2, <2>4 DEF Quiets
<1>10. ASSUME NEW p \in Processes, Calls(p) \/ Enters(p)
       PROVE  Quiets(o)
  <2>1. leavings'[o] = leavings[o]
    BY <1>10 DEF Calls, Enters
  <2>2. tokens' = tokens
    <3>1. CASE Calls(p)
      <4>1. tokens[CallOf[p]] > 0
        BY <1>1, <3>1 DEF Calls, HandlersHaveTokens
      <4> QED
        BY <1>1, <3>1, <4>1 DEF Calls, Renewed
    <3> QED
      BY <1>10, <3>1 DEF Enters
  <2> QED
    BY <1>2, <2>1, <2>2
<1> QED
  BY <1>3, <1>4, <1>5, <1>6, <1>7, <1>8, <1>9, <1>10 DEF Effect

\* What runs at a gateway runs for a token that was put there.
LEMMA RenewsVisited ==
  ASSUME Passing, NEW c \in FlowObjects, Renews(c)
  PROVE  c \in visited
<1>1. Outstanding(Item("handled", c)) > 0
  BY HeadOutstanding DEF Renews, Passing
<1> QED
  BY <1>1 DEF Passing, WorkVisited, WorkOps

LEMMA OnceStep == Passing /\ Effect => OnceInv'
<1> SUFFICES ASSUME Passing, Effect, NEW o \in FlowObjects
             PROVE  /\ o \notin visited' => tokens'[o] = 0 /\ leavings'[o] = 0
                    /\ Kind[o] # "and" => tokens'[o] + leavings'[o] <= 1
  BY DEF OnceInv
<1>1. /\ tokens[o] \in Nat /\ leavings[o] \in Nat /\ tokens'[o] \in Nat /\ leavings'[o] \in Nat
      /\ visited \subseteq visited'
  BY PassingFacts, VisitedGrows DEF CountsType
<1>2. /\ o \notin visited => tokens[o] = 0 /\ leavings[o] = 0
      /\ Kind[o] # "and" => tokens[o] + leavings[o] <= 1
  BY DEF Passing, OnceInv
<1>3. CASE Quiets(o)
  BY <1>1, <1>2, <1>3 DEF Quiets
<1>4. CASE Goes(o)
  BY <1>1, <1>2, <1>4 DEF Goes
<1>5. CASE Arrives(o)
  <2>1. /\ puts[o] > 0 /\ o \in visited'
        /\ tokens'[o] = tokens[o] + 1 /\ leavings'[o] = leavings[o]
    BY <1>5, PassingFacts DEF Arrives, Add
  <2>2. Kind[o] # "and" => o \notin visited
    BY <2>1 DEF Passing, PutOnce
  <2> QED
    BY <1>1, <1>2, <2>1, <2>2
<1>6. CASE Renews(o)
  BY <1>1, <1>6, RenewsVisited DEF Renews
<1> QED
  BY <1>3, <1>4, <1>5, <1>6, Movement

\* What was reached stays reached.
LEMMA ReachedStays ==
  ASSUME Passing, Effect, NEW d \in FlowObjects, Reached(d)
  PROVE  Reached(d)'
<1>1. puts \in [FlowObjects -> Nat] /\ visited \subseteq visited'
  BY PassingFacts, VisitedGrows DEF CountsType
<1>2. CASE d \in visited
  BY <1>1, <1>2 DEF Reached
<1>3. CASE d \notin visited
  <2>0. puts[d] > 0
    BY <1>3 DEF Reached
  <2>1. CASE Keeps
    BY <2>0, <2>1 DEF Keeps, Reached
  <2>2. ASSUME NEW c, puts' = [puts EXCEPT ![c] = @ + 1] PROVE Reached(d)'
    <3>1. puts'[d] > 0
      BY <1>1, <2>0, <2>2
    <3> QED
      BY <3>1 DEF Reached
  <2>3. CASE Begins
    BY <2>2, <2>3 DEF Begins
  <2>4. ASSUME NEW c \in FlowObjects, Arrives(c) PROVE Reached(d)'
    BY <1>1, <2>0, <2>4 DEF Arrives, Reached
  <2>5. ASSUME NEW c \in FlowObjects, IsLeft(c) \/ TakesActivity(c) \/ Renews(c) PROVE Reached(d)'
    BY <2>0, <2>5 DEF IsLeft, TakesActivity, Renews, Reached
  <2>6. ASSUME NEW c \in FlowObjects, Interrupts(c) \/ TimesOut(c) PROVE Reached(d)'
    BY <2>2, <2>6 DEF Interrupts, TimesOut
  <2>7. ASSUME NEW c \in FlowObjects, Passes(c) \/ Forks(c) PROVE Reached(d)'
    <3>1. puts'[d] = puts[d] + Game!FlowsBetween(c, d)
      BY <2>7 DEF Passes, Forks
    <3>2. puts'[d] > 0
      BY <1>1, <2>0, <3>1, GameFlows
    <3> QED
      BY <3>2 DEF Reached
  <2>8. ASSUME NEW c \in FlowObjects, Decides(c) PROVE Reached(d)'
    BY <2>0, <2>2, <2>8 DEF Decides, Reached
  <2>9. ASSUME NEW p \in Processes, Calls(p) \/ Enters(p) PROVE Reached(d)'
    BY <2>0, <2>2, <2>9 DEF Calls, Enters, Reached
  <2> QED
    BY <2>1, <2>3, <2>4, <2>5, <2>6, <2>7, <2>8, <2>9 DEF Effect
<1> QED
  BY <1>2, <1>3

\* What is past stays past.
LEMMA PastStays ==
  ASSUME Passing, Effect, NEW o \in FlowObjects, IsPast(o)
  PROVE  IsPast(o)'
<1>1. CASE Kind[o] = "and"
  <2>1. PICK i \in DOMAIN Outgoing[o] : Reached(Outgoing[o][i])
    BY <1>1 DEF IsPast, HasForked
  <2>2. Outgoing[o][i] \in FlowObjects
    BY DefinitionAssumption
  <2>3. Reached(Outgoing[o][i])'
    BY <2>1, <2>2, ReachedStays
  <2> QED
    BY <1>1, <2>3 DEF IsPast, HasForked
<1>2. CASE Kind[o] # "and"
  <2>1. o \in visited /\ tokens[o] = 0 /\ leavings[o] = 0
    BY <1>2 DEF IsPast
  <2>2. o \in visited' /\ puts[o] = 0
    BY <1>2, <2>1, VisitedGrows DEF Passing, PutOnce
  <2>3. Quiets(o)
    BY <1>2, <2>1, <2>2, Movement DEF Goes, Arrives, Renews
  <2>4. tokens'[o] = 0 /\ leavings'[o] = 0
    BY <2>1, <2>3, PassingFacts DEF Quiets, CountsType
  <2> QED
    BY <1>2, <2>2, <2>4 DEF IsPast
<1> QED
  BY <1>1, <1>2

(****************************************************************************)
(* Where new tokens come from, and how parallel gateways wait for them.     *)
(****************************************************************************)

\* The token of c goes on.
Emits(c) == Passes(c) \/ Decides(c) \/ Forks(c)

\* A token is put behind a flow, when it is not put at a start or boundary event.
LEMMA PutsFrom ==
  ASSUME Passing, Effect, NEW d \in FlowObjects, puts'[d] > puts[d],
         Kind[d] \notin {"start", "message", "timeout"}
  PROVE  \E c \in FlowObjects :
           /\ Emits(c) /\ \E i \in DOMAIN Outgoing[c] : Outgoing[c][i] = d
           /\ puts'[d] <= puts[d] + Game!FlowsBetween(c, d)
<1>1. puts \in [FlowObjects -> Nat] /\ puts' \in [FlowObjects -> Nat]
  BY PassingFacts DEF CountsType
<1>2. ASSUME puts' = puts PROVE FALSE
  BY <1>1, <1>2
<1>3. ASSUME NEW c \in FlowObjects, Kind[c] \in {"start", "message", "timeout"},
             puts' = [puts EXCEPT ![c] = @ + 1]
      PROVE  FALSE
  <2>1. c # d
    BY <1>3
  <2> QED
    BY <1>1, <1>3, <2>1
<1>4. \A p \in Processes : StartOf[p] \in FlowObjects /\ Kind[StartOf[p]] = "start"
  BY DefinitionAssumption DEF OfKind
<1>5. Main \in Processes
  BY DefinitionAssumption
<1>6. ~Keeps /\ ~Begins
  BY <1>2, <1>3, <1>4, <1>5 DEF Keeps, Begins
<1>7. ASSUME NEW c \in FlowObjects, Arrives(c) PROVE FALSE
  <2>1. puts' = [puts EXCEPT ![c] = @ - 1]
    BY <1>7 DEF Arrives
  <2> QED
    BY <1>1, <2>1
<1>8. ASSUME NEW c \in FlowObjects, IsLeft(c) \/ TakesActivity(c) \/ Renews(c) PROVE FALSE
  BY <1>2, <1>8 DEF IsLeft, TakesActivity, Renews
<1>9. ASSUME NEW c \in FlowObjects, Interrupts(c) \/ TimesOut(c) PROVE FALSE
  <2>1. puts' = [puts EXCEPT ![c] = @ + 1] /\ c \in BoundaryEvents
    BY <1>9 DEF Interrupts, TimesOut
  <2> QED
    BY <1>3, <2>1, BoundaryFacts
<1>10. ASSUME NEW p \in Processes, Calls(p) \/ Enters(p) PROVE FALSE
  <2>1. CASE Calls(p)
    BY <1>2, <2>1 DEF Calls
  <2>2. CASE Enters(p)
    BY <1>3, <1>4, <2>2 DEF Enters
  <2> QED
    BY <1>10, <2>1, <2>2
<1>11. ASSUME NEW c \in FlowObjects, Emits(c)
       PROVE  /\ \E i \in DOMAIN Outgoing[c] : Outgoing[c][i] = d
              /\ puts'[d] <= puts[d] + Game!FlowsBetween(c, d)
  <2>1. Game!FlowsBetween(c, d) \in Nat
    BY FlowsOfFacts
  <2>2. Game!FlowsBetween(c, d) > 0 <=> \E i \in DOMAIN Outgoing[c] : Outgoing[c][i] = d
    BY FlowsOfFacts
  <2>3. CASE Passes(c) \/ Forks(c)
    <3>1. puts'[d] = puts[d] + Game!FlowsBetween(c, d)
      BY <2>3 DEF Passes, Forks
    <3> QED
      BY <1>1, <2>1, <2>2, <3>1
  <2>4. CASE Decides(c)
    <3>1. PICK i \in DOMAIN Outgoing[c] : puts' = [puts EXCEPT ![Outgoing[c][i]] = @ + 1]
      BY <1>2, <2>4 DEF Decides
    <3>2. Outgoing[c][i] = d
      BY <1>1, <3>1
    <3>3. puts'[d] = puts[d] + 1
      BY <1>1, <3>1, <3>2
    <3> QED
      BY <1>1, <2>1, <2>2, <3>2, <3>3
  <2> QED
    BY <1>11, <2>3, <2>4 DEF Emits
<1>12. \E c \in FlowObjects : Emits(c)
  BY <1>6, <1>7, <1>8, <1>9, <1>10 DEF Effect, Emits
<1> QED
  BY <1>11, <1>12

\* An object is reached by a token put at it.
LEMMA ReachedByPut ==
  ASSUME Passing, Effect, NEW d \in FlowObjects, ~Reached(d), Reached(d)'
  PROVE  puts'[d] > puts[d]
<1>1. puts \in [FlowObjects -> Nat] /\ puts' \in [FlowObjects -> Nat]
  BY PassingFacts DEF CountsType
<1>2. d \notin visited /\ puts[d] = 0
  BY <1>1 DEF Reached
<1>3. d \notin visited'
  <2>1. ASSUME NEW c \in FlowObjects, Arrives(c) PROVE d \notin visited'
    BY <1>2, <2>1 DEF Arrives
  <2>2. CASE visited' = visited
    BY <1>2, <2>2
  <2>3. visited' = visited \/ \E c \in FlowObjects : Arrives(c)
    BY DEF Effect, Keeps, Begins, IsLeft, TakesActivity, Renews, Interrupts, TimesOut,
           Passes, Decides, Forks, GoesOn, Calls, Enters
  <2> QED
    BY <2>1, <2>2, <2>3
<1> QED
  BY <1>1, <1>2, <1>3 DEF Reached

\* What is behind a gateway, or behind an activity with boundary events, is reached from there.
LEMMA ForkedBy ==
  ASSUME Passing, Effect, NEW j \in FlowObjects, Kind[j] = "and" \/ Boundaries[j] # << >>,
         ~HasForked(j), HasForked(j)'
  PROVE  Emits(j)
<1>1. PICK i \in DOMAIN Outgoing[j] : Reached(Outgoing[j][i])'
  BY DEF HasForked
<1> DEFINE d == Outgoing[j][i]
<1>2. d \in FlowObjects /\ Kind[d] \notin {"start", "message", "timeout"}
  BY DefinitionAssumption, ValidationAssumption
<1>3. ~Reached(d)
  BY DEF HasForked
<1>4. puts'[d] > puts[d]
  BY <1>1, <1>2, <1>3, ReachedByPut
<1>5. PICK c \in FlowObjects : Emits(c) /\ \E k \in DOMAIN Outgoing[c] : Outgoing[c][k] = d
  BY <1>2, <1>4, PutsFrom
<1>6. PICK k \in DOMAIN Outgoing[c] : Outgoing[c][k] = d
  BY <1>5
<1>7. Incoming(d) = 1
  BY DEF Passing, TokensPassOnce, WaysAreApart
<1>8. c = j
  BY <1>6, <1>7, OneSource
<1> QED
  BY <1>5, <1>8

LEMMA ForkStays ==
  ASSUME Passing, Effect, NEW j \in FlowObjects, HasForked(j)
  PROVE  HasForked(j)'
<1>1. PICK i \in DOMAIN Outgoing[j] : Reached(Outgoing[j][i])
  BY DEF HasForked
<1>2. Outgoing[j][i] \in FlowObjects
  BY DefinitionAssumption
<1>3. Reached(Outgoing[j][i])'
  BY <1>1, <1>2, ReachedStays
<1> QED
  BY <1>3 DEF HasForked

\* A gateway that has not let its tokens go has no more of them than flows into it were
\* crossed, and goes on when they all are; one that has, was right to do so, and gets no
\* tokens any more.
JoinHolds(j) ==
  /\ Reached(j) => Incoming(j) > 0
  /\ ~HasForked(j) =>
       /\ tokens[j] + puts[j] <= Cardinality(Crossed(j))
       /\ j \in visited => tokens[j] > 0
       /\ leavings[j] > 0 => tokens[j] = Incoming(j)
  /\ HasForked(j) =>
       /\ Crossed(j) = FlowsTo(j) /\ j \in visited
       /\ LeadsToGateway(j) => tokens[j] = 0 /\ puts[j] = 0

JoinInv == \A j \in OfKind({"and"}) : Outgoing[j] # << >> => JoinHolds(j)

\* A gateway lets its tokens go once.
LEMMA ForksOnce ==
  ASSUME Passing, JoinInv, Effect, NEW c \in FlowObjects, Forks(c), Outgoing[c] # << >>
  PROVE  ~HasForked(c)
<1> SUFFICES ASSUME HasForked(c) PROVE FALSE
  OBVIOUS
<1>1. JoinHolds(c) /\ Kind[c] = "and" /\ Running("ended") /\ Current = c
  BY DEF JoinInv, OfKind, Forks, GoesOn
<1>2. CASE LeadsToGateway(c)
  <2>1. tokens[c] = Incoming(c)
    BY <1>1, <1>2 DEF Passing, TokensPassOnce
  <2>2. tokens[c] = 0 /\ c \in visited
    BY <1>1, <1>2 DEF JoinHolds
  <2>3. Incoming(c) > 0
    BY <1>1, <2>2 DEF JoinHolds, Reached
  <2> QED
    BY <2>1, <2>2, <2>3
<1>3. CASE ~LeadsToGateway(c)
  <2>1. PICK i \in DOMAIN Outgoing[c] : Reached(Outgoing[c][i])
    BY DEF HasForked
  <2> DEFINE d == Outgoing[c][i]
  <2>2. d \in FlowObjects /\ Kind[d] # "and"
    BY <1>3, DefinitionAssumption DEF LeadsToGateway
  <2>3. Game!FlowsBetween(c, d) \in Nat /\ Game!FlowsBetween(c, d) > 0
    BY <2>2, FlowsOfFacts
  <2>4. puts'[d] = puts[d] + Game!FlowsBetween(c, d) /\ puts[d] \in Nat
    BY <2>2, PassingFacts DEF Forks, CountsType
  <2>5. puts'[d] <= 1 /\ (d \in visited' => puts'[d] = 0)
    BY <2>2 DEF Passing, PutOnce
  <2>6. visited' = visited
    BY DEF Forks, GoesOn
  <2>7. d \in visited \/ puts[d] > 0
    BY <2>1 DEF Reached
  <2> HIDE DEF d
  <2> QED
    BY <2>3, <2>4, <2>5, <2>6, <2>7
<1> QED
  BY <1>2, <1>3

\* An object whose token goes on was not past before the step, and is past after it.
LEMMA EmitsCrosses ==
  ASSUME Passing, JoinInv, Effect, NEW c \in FlowObjects, Emits(c), Outgoing[c] # << >>
  PROVE  ~IsPast(c) /\ IsPast(c)'
<1>1. CASE Forks(c)
  <2>1. ~HasForked(c) /\ Kind[c] = "and"
    BY <1>1, ForksOnce DEF Forks
  <2>2. HasForked(c)'
    <3>1. Outgoing[c] \in Seq(FlowObjects)
      BY DefinitionAssumption
    <3>2. 1 \in DOMAIN Outgoing[c] /\ Outgoing[c][1] \in FlowObjects
      BY <3>1
    <3> DEFINE d == Outgoing[c][1]
    <3>3. Game!FlowsBetween(c, d) \in Nat /\ Game!FlowsBetween(c, d) > 0
      BY <3>2, FlowsOfFacts
    <3>4. puts'[d] = puts[d] + Game!FlowsBetween(c, d) /\ puts[d] \in Nat
      BY <1>1, <3>2, PassingFacts DEF Forks, CountsType
    <3>5. puts'[d] > 0
      BY <3>3, <3>4
    <3> QED
      BY <3>2, <3>5 DEF HasForked, Reached
  <2> QED
    BY <2>1, <2>2 DEF IsPast
<1>2. CASE Passes(c) \/ Decides(c)
  <2>1. /\ Kind[c] # "and" /\ leavings[c] > 0 /\ leavings' = [leavings EXCEPT ![c] = @ - 1]
        /\ tokens' = tokens /\ visited' = visited
    BY <1>2 DEF Passes, Decides, GoesOn
  <2>2. /\ leavings \in [FlowObjects -> Nat] /\ tokens[c] \in Nat
    BY PassingFacts DEF CountsType
  <2>3. c \in visited /\ tokens[c] + leavings[c] <= 1
    BY <2>1, <2>2 DEF Passing, OnceInv
  <2>4. tokens[c] = 0 /\ leavings'[c] = 0
    BY <2>1, <2>2, <2>3
  <2> QED
    BY <2>1, <2>3, <2>4 DEF IsPast
<1> QED
  BY <1>1, <1>2 DEF Emits

\* Only the gateway's own steps change its tokens, before others put some at it.
Unmoved(j) ==
  tokens'[j] = tokens[j] /\ leavings'[j] = leavings[j] /\ (j \in visited' => j \in visited)

LEMMA GatewayMoves ==
  ASSUME TypeOK, TypeOK', Effect, NEW j \in FlowObjects, Kind[j] = "and"
  PROVE  Unmoved(j) \/ Arrives(j) \/ Renews(j) \/ Forks(j)
<1>1. /\ puts \in [FlowObjects -> Nat] /\ leavings \in [FlowObjects -> Nat]
      /\ tokens \in [FlowObjects -> Nat]
  BY CountTypes DEF CountsType, TypeOK
<1>2. CASE Keeps \/ Begins
  BY <1>2 DEF Keeps, Begins, Unmoved
<1>3. ASSUME NEW c \in FlowObjects, Arrives(c) PROVE Unmoved(j) \/ Arrives(j)
  BY <1>1, <1>3 DEF Arrives, Add, Unmoved
<1>4. ASSUME NEW c \in FlowObjects, IsLeft(c) PROVE Unmoved(j)
  <2>1. c # j
    BY <1>4 DEF IsLeft, MayLeave, Automatic, CatchEvents, TimerEvents, OfKind
  <2> QED
    BY <1>1, <1>4, <2>1 DEF IsLeft, Remove, Unmoved
<1>5. ASSUME NEW c \in FlowObjects, TakesActivity(c) PROVE Unmoved(j)
  <2>1. c # j /\ Host(c) # j
    BY <1>5, BoundaryFacts DEF TakesActivity
  <2> QED
    BY <1>1, <1>5, <2>1 DEF TakesActivity, Remove, Unmoved
<1>6. ASSUME NEW c \in FlowObjects, Renews(c) PROVE Unmoved(j) \/ Renews(j)
  BY <1>1, <1>6 DEF Renews, Renewed, Unmoved
<1>7. ASSUME NEW c \in FlowObjects, Interrupts(c) \/ TimesOut(c) PROVE Unmoved(j)
  <2>1. Host(c) # j
    BY <1>7, BoundaryFacts DEF Interrupts, TimesOut
  <2> QED
    BY <1>1, <1>7, <2>1 DEF Interrupts, TimesOut, Remove, Unmoved
<1>8. ASSUME NEW c \in FlowObjects, Passes(c) \/ Decides(c) PROVE Unmoved(j)
  <2>1. c # j
    BY <1>8 DEF Passes, Decides
  <2> QED
    BY <1>1, <1>8, <2>1 DEF Passes, Decides, GoesOn, Unmoved
<1>9. ASSUME NEW c \in FlowObjects, Forks(c) PROVE Unmoved(j) \/ Forks(j)
  BY <1>1, <1>9 DEF Forks, GoesOn, Unmoved
<1>10. ASSUME NEW p \in Processes, Calls(p) \/ Enters(p) PROVE Unmoved(j)
  <2>1. CASE Calls(p)
    <3>1. CallOf[p] # j
      BY <2>1 DEF Calls
    <3> QED
      BY <1>1, <2>1, <3>1 DEF Calls, Renewed, Unmoved
  <2>2. CASE Enters(p)
    BY <2>2 DEF Enters, Unmoved
  <2> QED
    BY <1>10, <2>1, <2>2
<1> QED
  BY <1>2, <1>3, <1>4, <1>5, <1>6, <1>7, <1>8, <1>9, <1>10 DEF Effect

\* What was crossed stays crossed.
LEMMA CrossedStays ==
  ASSUME Passing, Effect, NEW j \in FlowObjects
  PROVE  /\ Crossed(j) \subseteq Crossed(j)'
         /\ Cardinality(Crossed(j)) <= Cardinality(Crossed(j)')
         /\ Crossed(j) = FlowsTo(j) => Crossed(j)' = FlowsTo(j)
<1>1. ASSUME NEW f \in Crossed(j) PROVE f \in Crossed(j)'
  <2>1. f \in FlowsTo(j) /\ IsPast(f[1])
    BY DEF Crossed
  <2>2. f[1] \in FlowObjects
    BY <2>1, FlowsToSources
  <2>3. IsPast(f[1])'
    BY <2>1, <2>2, PastStays
  <2> QED
    BY <2>1, <2>3 DEF Crossed, FlowsTo
<1>2. Crossed(j) \in SUBSET Crossed(j)' /\ IsFiniteSet(Crossed(j)')
  BY <1>1, NextCrossed DEF NextCrossedFacts
<1>3. Cardinality(Crossed(j)) <= Cardinality(Crossed(j)')
  BY <1>2, FS_Subset
<1>4. Crossed(j)' \subseteq FlowsTo(j)
  BY DEF Crossed, FlowsTo
<1> QED
  BY <1>2, <1>3, <1>4

\* The puts that a step adds come along flows that it crosses.
LEMMA PutsCrossed ==
  ASSUME Passing, JoinInv, Effect, NEW j \in FlowObjects, Kind[j] = "and"
  PROVE  puts'[j] + Cardinality(Crossed(j)) <= puts[j] + Cardinality(Crossed(j)')
<1>1. puts[j] \in Nat /\ puts'[j] \in Nat
  BY PassingFacts DEF CountsType
<1>2. Cardinality(Crossed(j)) \in Nat /\ Cardinality(Crossed(j)') \in Nat
  BY CrossedFacts, NextCrossed DEF NextCrossedFacts
<1>3. CASE puts'[j] <= puts[j]
  <2>1. Cardinality(Crossed(j)) <= Cardinality(Crossed(j)')
    BY CrossedStays
  <2> QED
    BY <1>1, <1>2, <1>3, <2>1
<1>4. CASE puts'[j] > puts[j]
  <2>1. PICK c \in FlowObjects :
          /\ Emits(c) /\ \E i \in DOMAIN Outgoing[c] : Outgoing[c][i] = j
          /\ puts'[j] <= puts[j] + Game!FlowsBetween(c, j)
    BY <1>4, PutsFrom
  <2>2. Outgoing[c] # << >>
    BY <2>1
  <2>3. ~IsPast(c) /\ IsPast(c)'
    BY <2>1, <2>2, EmitsCrosses
  <2>4. Cardinality(Crossed(j)') >= Cardinality(Crossed(j)) + Game!FlowsBetween(c, j)
    BY <2>3, CrossedStays, CrossedGrows
  <2>5. Game!FlowsBetween(c, j) \in Nat
    BY FlowsOfFacts
  <2> QED
    BY <1>1, <1>2, <2>1, <2>4, <2>5
<1> QED
  BY <1>1, <1>3, <1>4

\* A gateway whose tokens have gone on gets no others, if it leads to a gateway.
LEMMA ForkedIsDone ==
  ASSUME Passing, JoinInv, Effect, NEW j \in FlowObjects, Kind[j] = "and",
         Outgoing[j] # << >>, HasForked(j), LeadsToGateway(j)
  PROVE  tokens'[j] = 0 /\ puts'[j] = 0
<1>1. /\ puts[j] \in Nat /\ puts'[j] \in Nat /\ tokens[j] \in Nat /\ tokens'[j] \in Nat
      /\ leavings[j] \in Nat
  BY PassingFacts DEF CountsType
<1>2. tokens[j] = 0 /\ puts[j] = 0 /\ Crossed(j) = FlowsTo(j)
  BY DEF JoinInv, JoinHolds, OfKind
<1>3. ~Renews(j)
  <2> SUFFICES ASSUME Renews(j) PROVE FALSE
    OBVIOUS
  <2>1. Running("handled") /\ Current = j
    BY DEF Renews
  <2> QED
    BY <1>2, <2>1 DEF Passing, TokensPassOnce
<1>4. Quiets(j)
  BY <1>2, <1>3, Movement DEF Goes, Arrives
<1>5. tokens'[j] = 0
  BY <1>1, <1>2, <1>4 DEF Quiets
<1>6. ~(puts'[j] > puts[j])
  <2> SUFFICES ASSUME puts'[j] > puts[j] PROVE FALSE
    OBVIOUS
  <2>1. PICK c \in FlowObjects : Emits(c) /\ \E i \in DOMAIN Outgoing[c] : Outgoing[c][i] = j
    BY PutsFrom
  <2>2. PICK i \in DOMAIN Outgoing[c] : Outgoing[c][i] = j
    BY <2>1
  <2>3. ~IsPast(c)
    <3>1. Outgoing[c] # << >>
      BY <2>2
    <3> QED
      BY <2>1, <3>1, EmitsCrosses
  <2>4. Game!FlowsBetween(c, j) > 0
    BY <2>2, FlowsOfFacts
  <2>5. <<c, i>> \in FlowsTo(j)
    <3>1. <<c, i>> \in {c} \X DOMAIN Outgoing[c]
      OBVIOUS
    <3> QED
      BY <2>2, <3>1 DEF FlowsTo
  <2>6. IsPast(<<c, i>>[1])
    BY <1>2, <2>5 DEF Crossed
  <2> QED
    BY <2>3, <2>6
<1> QED
  BY <1>1, <1>2, <1>5, <1>6

\* A gateway that waits.
LEMMA WaitsStep ==
  ASSUME Passing, JoinInv, Effect, NEW j \in FlowObjects, Kind[j] = "and",
         Outgoing[j] # << >>, ~HasForked(j), ~HasForked(j)'
  PROVE  /\ tokens'[j] + puts'[j] <= Cardinality(Crossed(j)')
         /\ j \in visited' => tokens'[j] > 0
         /\ leavings'[j] > 0 => tokens'[j] = Incoming(j)
<1> DEFINE m == Cardinality(Crossed(j))
           n == Cardinality(Crossed(j)')
<1>1. /\ puts[j] \in Nat /\ puts'[j] \in Nat /\ tokens[j] \in Nat /\ tokens'[j] \in Nat
      /\ leavings[j] \in Nat /\ leavings'[j] \in Nat
      /\ tokens \in [FlowObjects -> Nat] /\ leavings \in [FlowObjects -> Nat]
      /\ puts \in [FlowObjects -> Nat]
  BY PassingFacts DEF CountsType
<1>2. m \in Nat /\ n \in Nat /\ m <= n /\ m <= Incoming(j) /\ Incoming(j) \in Nat
  BY CrossedFacts, NextCrossed, CrossedStays, FlowsToFacts DEF NextCrossedFacts
<1>3. /\ tokens[j] + puts[j] <= m
      /\ j \in visited => tokens[j] > 0
      /\ leavings[j] > 0 => tokens[j] = Incoming(j)
  BY DEF JoinInv, JoinHolds, OfKind
<1>4. puts'[j] + m <= puts[j] + n
  BY PutsCrossed
<1> DEFINE p == puts[j]
           q == puts'[j]
           t == tokens[j]
           u == tokens'[j]
<1>0. p \in Nat /\ q \in Nat /\ t \in Nat /\ u \in Nat /\ t + p <= m /\ q + m <= p + n
  BY <1>1, <1>3, <1>4
<1>5. ASSUME tokens'[j] = tokens[j]
      PROVE  tokens'[j] + puts'[j] <= n
  <2>1. u = t
    BY <1>5
  <2> HIDE DEF m, n, p, q, t, u
  <2>2. u + q <= n
    BY <1>0, <1>2, <2>1
  <2> QED
    BY <2>2 DEF q, u
<1>6. CASE Unmoved(j)
  BY <1>3, <1>5, <1>6 DEF Unmoved
<1>7. CASE Arrives(j)
  <2>1. /\ puts[j] > 0 /\ puts'[j] = puts[j] - 1 /\ tokens'[j] = tokens[j] + 1
        /\ leavings'[j] = leavings[j]
    BY <1>1, <1>7 DEF Arrives, Add
  <2>2. p > 0 /\ q = p - 1 /\ u = t + 1
    BY <2>1
  <2>3. t < Incoming(j) /\ u + q <= n /\ u > 0
    <3> HIDE DEF m, n, p, q, t, u
    <3>1. t < m
      BY <1>0, <1>2, <2>2
    <3>2. t < Incoming(j) /\ u > 0
      BY <1>0, <1>2, <2>2, <3>1
    <3>3. u + q = t + p
      BY <1>0, <2>2
    <3>4. t + p <= n
      BY <1>0, <1>2
    <3> QED
      BY <3>2, <3>3, <3>4
  <2> QED
    BY <1>1, <1>2, <1>3, <2>1, <2>3
<1>8. CASE Renews(j)
  <2>1. j \in visited
    BY <1>8, RenewsVisited
  <2>2. tokens'[j] = tokens[j] /\ tokens[j] > 0
    BY <1>1, <1>3, <1>8, <2>1 DEF Renews, Renewed
  <2>3. tokens'[j] = Incoming(j) \/ leavings'[j] = leavings[j]
    BY <1>8 DEF Renews
  <2> QED
    BY <1>3, <1>5, <2>2, <2>3
<1>9. CASE Forks(j)
  <2>1. IsPast(j)'
    BY <1>9, EmitsCrosses DEF Emits
  <2> QED
    BY <2>1 DEF IsPast
<1> QED
  BY <1>6, <1>7, <1>8, <1>9, GatewayMoves DEF Passing

\* A gateway that lets its tokens go has waited for all of them.
LEMMA GoesOnForAll ==
  ASSUME Passing, JoinInv, Effect, NEW j \in FlowObjects, Kind[j] = "and",
         Outgoing[j] # << >>, ~HasForked(j), HasForked(j)'
  PROVE  /\ Crossed(j)' = FlowsTo(j) /\ j \in visited'
         /\ tokens'[j] = 0 /\ puts'[j] = 0
<1>1. /\ puts[j] \in Nat /\ tokens[j] \in Nat /\ leavings[j] \in Nat
      /\ tokens \in [FlowObjects -> Nat]
  BY PassingFacts DEF CountsType
<1>2. Forks(j)
  BY ForkedBy DEF Emits, Passes, Decides
<1>3. leavings[j] > 0
  BY <1>2 DEF Forks, GoesOn
<1>4. tokens[j] = Incoming(j) /\ tokens[j] + puts[j] <= Cardinality(Crossed(j))
  BY <1>3 DEF JoinInv, JoinHolds, OfKind
<1>5. /\ Cardinality(Crossed(j)) \in Nat /\ Cardinality(Crossed(j)) <= Incoming(j)
      /\ Incoming(j) \in Nat
      /\ Cardinality(Crossed(j)) = Incoming(j) => Crossed(j) = FlowsTo(j)
  BY CrossedFacts, FlowsToFacts
<1>6. puts[j] = 0 /\ Cardinality(Crossed(j)) = Incoming(j)
  BY <1>1, <1>4, <1>5
<1>7. Crossed(j) = FlowsTo(j)
  BY <1>5, <1>6
<1>8. j \in visited
  BY <1>1, <1>3 DEF Passing, OnceInv
<1>9. tokens'[j] = 0
  BY <1>1, <1>2 DEF Forks
<1>10. Game!FlowsBetween(j, j) = 0
  <2>1. Game!FlowsBetween(j, j) \in Nat
    BY FlowsOfFacts
  <2> SUFFICES ASSUME Game!FlowsBetween(j, j) > 0 PROVE FALSE
    BY <2>1
  <2>2. PICK i \in DOMAIN Outgoing[j] : Outgoing[j][i] = j
    BY FlowsOfFacts
  <2>3. <<j, i>> \in FlowsTo(j)
    <3>1. <<j, i>> \in {j} \X DOMAIN Outgoing[j]
      OBVIOUS
    <3> QED
      BY <2>2, <3>1 DEF FlowsTo
  <2>4. IsPast(<<j, i>>[1])
    BY <1>7, <2>3 DEF Crossed
  <2> QED
    BY <2>4 DEF IsPast
<1>11. puts'[j] = 0
  BY <1>2, <1>6, <1>10 DEF Forks
<1> QED
  BY <1>7, <1>8, <1>9, <1>11, CrossedStays, VisitedGrows

LEMMA JoinStep == Passing /\ Effect /\ JoinInv => JoinInv'
<1> SUFFICES ASSUME Passing, Effect, JoinInv, NEW j \in OfKind({"and"}), Outgoing[j] # << >>
             PROVE  JoinHolds(j)'
  BY DEF JoinInv, OfKind
<1>1. j \in FlowObjects /\ Kind[j] = "and"
  BY DEF OfKind
<1>2. JoinHolds(j)
  BY DEF JoinInv
<1>3. Reached(j)' => Incoming(j) > 0
  <2>1. CASE Reached(j)
    BY <1>2, <2>1 DEF JoinHolds
  <2>2. ASSUME ~Reached(j), Reached(j)' PROVE Incoming(j) > 0
    <3>1. puts'[j] > puts[j]
      BY <1>1, <2>2, ReachedByPut
    <3>2. PICK c \in FlowObjects : \E i \in DOMAIN Outgoing[c] : Outgoing[c][i] = j
      BY <1>1, <3>1, PutsFrom
    <3> QED
      BY <1>1, <3>2, FlowsOfFacts
  <2> QED
    BY <2>1, <2>2
<1>4. ~HasForked(j)' =>
        /\ tokens'[j] + puts'[j] <= Cardinality(Crossed(j)')
        /\ j \in visited' => tokens'[j] > 0
        /\ leavings'[j] > 0 => tokens'[j] = Incoming(j)
  BY <1>1, ForkStays, WaitsStep
<1>5. HasForked(j)' =>
        /\ Crossed(j)' = FlowsTo(j) /\ j \in visited'
        /\ LeadsToGateway(j) => tokens'[j] = 0 /\ puts'[j] = 0
  <2>1. CASE HasForked(j)
    <3>1. Crossed(j)' = FlowsTo(j) /\ j \in visited'
      BY <1>1, <1>2, <2>1, CrossedStays, VisitedGrows DEF JoinHolds
    <3> QED
      BY <1>1, <2>1, <3>1, ForkedIsDone
  <2>2. CASE ~HasForked(j)
    BY <1>1, <2>2, GoesOnForAll
  <2> QED
    BY <2>1, <2>2
<1> QED
  BY <1>3, <1>4, <1>5 DEF JoinHolds, Incoming, FlowsTo, LeadsToGateway

(****************************************************************************)
(* Joins wait.                                                              *)
(****************************************************************************)

\* What is kept as long as tokens pass once.
PassInv == TypeOK /\ AccountInv /\ Main \notin called /\ WorkVisited /\ OnceInv

LEMMA MainIsNotCalled == Effect /\ Main \notin called => Main \notin called'
<1>1. \A p \in Processes : Calls(p) /\ Main \notin called => Main \notin called'
  BY DEF Calls
<1> QED
  BY <1>1 DEF Effect, Keeps, Begins, Arrives, IsLeft, TakesActivity, Renews, Interrupts, TimesOut,
         Passes, Decides, Forks, GoesOn, Enters

LEMMA PassStep ==
  PassInv /\ AccountInv' /\ TokensPassOnce /\ TokensPassOnce' /\ [Next]_vars
    => PassInv' /\ Passing /\ Effect
<1> SUFFICES ASSUME PassInv, AccountInv', TokensPassOnce, TokensPassOnce', [Next]_vars
             PROVE  PassInv' /\ Passing /\ Effect
  OBVIOUS
<1>1. Effect
  BY StepEffect DEF PassInv
<1>2. TypeOK'
  BY NextType DEF PassInv
<1>3. Passing
  BY <1>2, PutsOnce, NextPutsOnce DEF PassInv, Passing
<1>4. Main \notin called'
  BY <1>1, MainIsNotCalled DEF PassInv
<1>5. WorkVisited'
  BY <1>1, WorkVisitedStep DEF PassInv
<1>6. OnceInv'
  BY <1>1, <1>3, OnceStep
<1> QED
  BY <1>1, <1>2, <1>3, <1>4, <1>5, <1>6 DEF PassInv

\* Nothing is counted before the first step.
LEMMA NothingCounted ==
  ASSUME Init, TypeOK
  PROVE  /\ \A e \in Items : Outstanding(e) = 0
         /\ \A o \in FlowObjects : puts[o] = 0 /\ leavings[o] = 0 /\ tokens[o] = 0
<1>1. ASSUME NEW e \in Items PROVE Outstanding(e) = 0
  <2>1. OnAgenda(e) = 0
    BY OccurrencesFew, Zenon DEF OnAgenda, Init
  <2>2. Held(e) = 0
    BY DEF Init, Held
  <2>3. Deferred(Receiver(e), e) = 0
    <3>1. deferred[Receiver(e)] = << >>
      BY ReceiverType DEF Init
    <3> QED
      BY <3>1, OccurrencesFew, Zenon DEF Deferred
  <2> QED
    BY <2>1, <2>2, <2>3 DEF Outstanding
<1>2. ASSUME NEW o \in FlowObjects PROVE puts[o] = 0 /\ leavings[o] = 0 /\ tokens[o] = 0
  <2>1. /\ Item("put", o) \in Items /\ Item("ended", o) \in Items
        /\ Item("timerHandled", o) \in Items
    BY CountedItems DEF CountedOps
  <2>2. /\ Outstanding(Item("put", o)) = 0 /\ Outstanding(Item("ended", o)) = 0
        /\ Outstanding(Item("timerHandled", o)) = 0
    BY <1>1, <2>1
  <2> QED
    BY <2>2, CountsAreOutstanding DEF Init
<1> QED
  BY <1>1, <1>2

LEMMA PassInit == Init /\ TypeOK /\ AccountInv => PassInv
<1> SUFFICES ASSUME Init, TypeOK, AccountInv PROVE PassInv
  OBVIOUS
<1>1. WorkVisited
  BY NothingCounted, WorkItemTypes DEF WorkVisited
<1>2. OnceInv
  BY NothingCounted DEF OnceInv
<1>3. Main \notin called
  BY DEF Init
<1> QED
  BY <1>1, <1>2, <1>3 DEF PassInv

LEMMA JoinInit == Init /\ TypeOK => JoinInv
<1> SUFFICES ASSUME Init, TypeOK, NEW j \in OfKind({"and"}) PROVE JoinHolds(j)
  BY DEF JoinInv
<1>1. \A d \in FlowObjects : ~Reached(d)
  <2>1. visited = {}
    BY DEF Init
  <2>2. \A d \in FlowObjects : puts[d] = 0
    BY NothingCounted
  <2> QED
    BY <2>1, <2>2 DEF Reached
<1>2. j \in FlowObjects /\ \A i \in DOMAIN Outgoing[j] : Outgoing[j][i] \in FlowObjects
  BY DefinitionAssumption DEF OfKind
<1>3. ~HasForked(j)
  BY <1>1, <1>2 DEF HasForked
<1>4. tokens[j] = 0 /\ puts[j] = 0 /\ leavings[j] = 0 /\ j \notin visited
  BY <1>2, NothingCounted DEF Init
<1>5. Cardinality(Crossed(j)) \in Nat
  BY CrossedFacts
<1> QED
  BY <1>1, <1>2, <1>3, <1>4, <1>5 DEF JoinHolds

LEMMA JoinsHaveWaited == JoinInv => JoinWaitsForAll
<1> SUFFICES ASSUME JoinInv, NEW j \in OfKind({"and"}), NEW k \in DOMAIN Outgoing[j],
                    Outgoing[j][k] \in visited,
                    NEW o \in FlowObjects, NEW i \in DOMAIN Outgoing[o], Outgoing[o][i] = j
             PROVE  o \in visited /\ tokens[o] = 0
  BY DEF JoinWaitsForAll
<1>1. HasForked(j) /\ Outgoing[j] # << >> /\ Kind[j] = "and"
  BY DEF HasForked, Reached, OfKind
<1>2. Crossed(j) = FlowsTo(j)
  BY <1>1 DEF JoinInv, JoinHolds
<1>3. <<o, i>> \in FlowsTo(j)
  <2>1. <<o, i>> \in {o} \X DOMAIN Outgoing[o]
    OBVIOUS
  <2> QED
    BY <2>1 DEF FlowsTo
<1>4. IsPast(<<o, i>>[1])
  BY <1>2, <1>3 DEF Crossed
<1>5. CASE Kind[o] = "and"
  <2>1. HasForked(o) /\ o \in OfKind({"and"}) /\ Outgoing[o] # << >>
    BY <1>4, <1>5 DEF IsPast, OfKind
  <2>2. LeadsToGateway(o)
    BY <1>1 DEF LeadsToGateway
  <2> QED
    BY <2>1, <2>2 DEF JoinInv, JoinHolds
<1>6. CASE Kind[o] # "and"
  BY <1>4, <1>6 DEF IsPast
<1> QED
  BY <1>5, <1>6

\* In definitions whose tokens pass once, a parallel gateway lets its token go only when every
\* object before it has been left for good: whatever the order of the puts, handlers and saves,
\* counting the tokens that have arrived is enough for BPMNParallelGateway.emitTokens to wait
\* for all its branches.
THEOREM JoinsWait == Spec /\ []TokensPassOnce => []JoinWaitsForAll
<1>1. Spec => [](TypeOK /\ AccountInv)
  BY AccountInit, AccountStep, TypeCorrectness, PTL DEF Spec
<1>2. Init /\ TypeOK /\ AccountInv => PassInv /\ JoinInv
  BY PassInit, JoinInit
<1>3. PassInv /\ AccountInv' /\ TokensPassOnce /\ TokensPassOnce' /\ JoinInv /\ [Next]_vars
        => PassInv' /\ JoinInv'
  BY PassStep, JoinStep
<1>4. Spec /\ []TokensPassOnce => []JoinInv
  BY <1>1, <1>2, <1>3, PTL DEF Spec
<1> QED
  BY <1>4, JoinsHaveWaited, PTL

(****************************************************************************)
(* Activities are left on one way.                                          *)
(****************************************************************************)

\* A boundary event takes over from its activity.
Takes(b) == Interrupts(b) \/ TimesOut(b)

LEMMA EmitsElsewhere ==
  ASSUME Passing, NEW c \in FlowObjects, Emits(c), NEW b \in BoundaryEvents
  PROVE  puts'[b] = puts[b] /\ tokens'[b] = tokens[b]
<1>1. /\ puts \in [FlowObjects -> Nat] /\ tokens \in [FlowObjects -> Nat]
      /\ b \in FlowObjects /\ Kind[b] \in {"message", "timeout"}
  BY PassingFacts, BoundaryFacts DEF CountsType
<1>2. \A i \in DOMAIN Outgoing[c] : Outgoing[c][i] # b
  BY <1>1, ValidationAssumption
<1>3. Game!FlowsBetween(c, b) \in Nat /\ ~(Game!FlowsBetween(c, b) > 0)
  BY <1>1, <1>2, FlowsOfFacts
<1>4. CASE Passes(c) \/ Forks(c)
  <2>1. puts'[b] = puts[b] + Game!FlowsBetween(c, b)
    BY <1>1, <1>4 DEF Passes, Forks
  <2>2. puts'[b] = puts[b]
    BY <1>1, <1>3, <2>1
  <2>3. tokens'[b] = tokens[b]
    BY <1>1, <1>4 DEF Passes, Forks
  <2> QED
    BY <2>2, <2>3
<1>5. CASE Decides(c)
  BY <1>1, <1>2, <1>5 DEF Decides
<1> QED
  BY <1>4, <1>5 DEF Emits

LEMMA BoundaryReachedBy ==
  ASSUME Passing, Effect, NEW b \in BoundaryEvents, ~Reached(b), Reached(b)'
  PROVE  Takes(b)
<1>1. puts \in [FlowObjects -> Nat] /\ b \in FlowObjects /\ Kind[b] \in {"message", "timeout"}
  BY PassingFacts, BoundaryFacts DEF CountsType
<1>2. puts'[b] > puts[b]
  BY <1>1, ReachedByPut
<1>3. ASSUME puts'[b] = puts[b] PROVE FALSE
  BY <1>1, <1>2, <1>3
<1>4. \A p \in Processes : StartOf[p] # b
  <2>1. \A p \in Processes : StartOf[p] \in OfKind({"start"})
    BY DefinitionAssumption
  <2>2. b \notin OfKind({"start"})
    BY <1>1 DEF OfKind
  <2> QED
    BY <2>1, <2>2
<1>5. Main \in Processes
  BY DefinitionAssumption
<1>6. ~Keeps /\ ~Begins
  BY <1>1, <1>3, <1>4, <1>5 DEF Keeps, Begins
<1>7. ASSUME NEW c \in FlowObjects, Arrives(c) PROVE FALSE
  <2>1. puts' = [puts EXCEPT ![c] = @ - 1]
    BY <1>7 DEF Arrives
  <2> QED
    BY <1>1, <1>2, <2>1
<1>8. ASSUME NEW c \in FlowObjects, IsLeft(c) \/ TakesActivity(c) \/ Renews(c) PROVE FALSE
  BY <1>3, <1>8 DEF IsLeft, TakesActivity, Renews
<1>9. ASSUME NEW c \in FlowObjects, Interrupts(c) \/ TimesOut(c) PROVE c = b
  <2>1. puts' = [puts EXCEPT ![c] = @ + 1]
    BY <1>9 DEF Interrupts, TimesOut
  <2> QED
    BY <1>1, <1>3, <2>1
<1>10. ASSUME NEW c \in FlowObjects, Passes(c) \/ Decides(c) \/ Forks(c) PROVE FALSE
  BY <1>3, <1>10, EmitsElsewhere DEF Emits
<1>11. ASSUME NEW p \in Processes, Calls(p) \/ Enters(p) PROVE FALSE
  BY <1>1, <1>3, <1>4, <1>11 DEF Calls, Enters
<1> QED
  BY <1>6, <1>7, <1>8, <1>9, <1>10, <1>11 DEF Effect, Takes

\* The two are different steps.
LEMMA EmitsOrTakes ==
  ASSUME NEW c \in FlowObjects, NEW b \in FlowObjects, Emits(c), Takes(b)
  PROVE  FALSE
<1>1. Running("ended")
  BY DEF Emits, Passes, Decides, Forks, GoesOn
<1>2. agenda = << >> \/ Running("arm") \/ Running("boundaryCatch")
  BY DEF Takes, Interrupts, TimesOut, CanExpire
<1> QED
  BY <1>1, <1>2 DEF Running

\* Before a step and after it, as the engine and as the game see it.
Leaves == Passing /\ Playing /\ OwnersInv' /\ TokensHaveOneOwner /\ Effect

\* An activity has one token of the game at most, in one of its places.
LEMMA OneMark ==
  ASSUME Leaves, NEW o \in FlowObjects, Kind[o] # "and"
  PROVE  marks[o] \in Nat /\ marks[o] <= 1
<1>1. /\ marks[o] + Expired(o) = puts[o] + tokens[o] + Gone(o) /\ marks[o] \in Nat
      /\ puts[o] \in Nat /\ tokens[o] \in Nat /\ Gone(o) \in Nat /\ Expired(o) \in Nat
  BY MarkingAfter DEF Leaves
<1>2. Gone(o) = leavings[o]
  BY DEF Gone
<1>3. /\ puts[o] <= 1 /\ (o \in visited => puts[o] = 0)
      /\ tokens[o] + leavings[o] <= 1
      /\ o \notin visited => tokens[o] = 0 /\ leavings[o] = 0
  BY DEF Leaves, Passing, PutOnce, OnceInv
<1> DEFINE m == marks[o]
           x == Expired(o)
           p == puts[o]
           t == tokens[o]
           g == Gone(o)
<1>4. p + t + g <= 1
  BY <1>1, <1>2, <1>3
<1> HIDE DEF m, x, p, t, g
<1>5. m <= 1
  BY <1>1, <1>4 DEF m, x, p, t, g
<1> QED
  BY <1>1, <1>5 DEF m

\* It does not get another one.
LEMMA EmptyStays ==
  ASSUME Leaves, NEW o \in FlowObjects, Kind[o] = "waitTask", o \in visited, marks[o] = 0
  PROVE  marks'[o] = 0
<1>1. /\ marks \in [FlowObjects -> Nat] /\ puts \in [FlowObjects -> Nat]
      /\ tokens \in [FlowObjects -> Nat] /\ leavings \in [FlowObjects -> Nat]
  BY PlayingFacts DEF Leaves, MarksType, CountsType
<1>2. CASE GameStays
  BY <1>2 DEF GameStays
<1>3. CASE Keeps
  BY <1>2, <1>3, KeepsGame DEF Leaves
<1>4. \A p \in Processes : StartOf[p] # o
  BY DefinitionAssumption DEF OfKind
<1>5. CASE Begins
  <2>1. Main \in Processes
    BY DefinitionAssumption
  <2> QED
    BY <1>1, <1>4, <1>5, <2>1, BeginsGame DEF Leaves
<1>6. ASSUME NEW c \in FlowObjects, Arrives(c) \/ IsLeft(c) \/ TakesActivity(c) \/ Renews(c)
      PROVE  marks'[o] = 0
  BY <1>2, <1>6, ArrivesGame, IsLeftGame, TakesActivityGame, RenewsGame DEF Leaves
<1>7. ASSUME NEW b \in FlowObjects, Takes(b) PROVE marks'[o] = 0
  <2>1. IsInterrupted(b)
    BY <1>7, InterruptsGame, TimesOutGame DEF Takes, Leaves
  <2>2. b # o /\ Host(b) # o
    BY <1>7, <2>1, BoundaryFacts DEF Takes, Interrupts, TimesOut, IsInterrupted
  <2> QED
    BY <1>1, <2>1, <2>2 DEF IsInterrupted
<1>8. ASSUME NEW c \in FlowObjects, Emits(c) PROVE marks'[o] = 0
  <2>1. c # o
    <3>1. c = o => Passes(c)
      BY <1>8 DEF Emits, Decides, Forks
    <3> QED
      BY <3>1, PassesGame DEF Leaves
  <2>2. \A b \in Timeouts : puts'[b] + tokens'[b] > 0 <=> puts[b] + tokens[b] > 0
    BY <1>8, EmitsElsewhere DEF Leaves, Timeouts
  <2>3. Expired(o)' = Expired(o)
    BY <2>2, SameTimedOut
  <2>4. puts'[o] = puts[o]
    <3>1. o \in visited'
      BY VisitedGrows DEF Leaves
    <3> QED
      BY <3>1 DEF Leaves, Passing, PutOnce
  <2>5. tokens'[o] = tokens[o] /\ leavings'[o] = leavings[o]
    BY <1>1, <1>8, <2>1 DEF Emits, Passes, Decides, Forks, GoesOn
  <2> QED
    BY <2>3, <2>4, <2>5, MarkingStays DEF Gone, Leaves
<1>9. ASSUME NEW p \in Processes, Calls(p) \/ Enters(p) PROVE marks'[o] = 0
  <2>1. CASE Calls(p)
    BY <1>2, <2>1, CallsGame DEF Leaves
  <2>2. CASE Enters(p)
    BY <1>1, <1>4, <2>2, EntersGame DEF Leaves, IsEntered
  <2> QED
    BY <1>9, <2>1, <2>2
<1> QED
  BY <1>3, <1>5, <1>6, <1>7, <1>8, <1>9 DEF Leaves, Effect, Emits, Takes

\* Its flows and its boundary events exclude each other, and what was taken has left it.
PathHolds(o) ==
  /\ HasForked(o) \/ (\E b \in BoundaryEventsOf(o) : Reached(b)) => o \in visited /\ marks[o] = 0
  /\ \A b \in BoundaryEventsOf(o) : Reached(b) => ~HasForked(o)
  /\ \A b, d \in BoundaryEventsOf(o) : Reached(b) /\ Reached(d) => b = d

PathInv == \A o \in FlowObjects : Boundaries[o] # << >> => PathHolds(o)

\* An activity is left along its flows.
LEMMA LeftByFlows ==
  ASSUME Leaves, PathInv, NEW o \in FlowObjects, Boundaries[o] # << >>,
         ~HasForked(o), HasForked(o)'
  PROVE  /\ o \in visited' /\ marks'[o] = 0
         /\ \A b \in BoundaryEventsOf(o) : ~Reached(b)'
<1>1. Kind[o] = "waitTask" /\ PathHolds(o)
  BY DefinitionAssumption DEF PathInv
<1>2. Emits(o)
  BY ForkedBy DEF Leaves
<1>3. Passes(o)
  BY <1>1, <1>2 DEF Emits, Decides, Forks
<1>4. marks[o] > 0 /\ IsPassed(o, FlowsFrom(o))
  BY <1>3, PassesGame DEF Leaves
<1>5. marks[o] = 1
  BY <1>1, <1>4, OneMark
<1>6. o \in visited'
  <2>1. leavings[o] > 0
    BY <1>3 DEF Passes, GoesOn
  <2>2. o \in visited
    BY <2>1 DEF Leaves, Passing, OnceInv
  <2> QED
    BY <2>2, VisitedGrows DEF Leaves
<1>7. Game!FlowsBetween(o, o) = 0
  <2>1. puts'[o] = puts[o] + Game!FlowsBetween(o, o)
    BY <1>3 DEF Passes
  <2>2. puts'[o] = 0 /\ puts[o] \in Nat /\ Game!FlowsBetween(o, o) \in Nat
    BY <1>1, <1>6, PassingFacts, FlowsOfFacts DEF Leaves, Passing, PutOnce, CountsType
  <2> QED
    BY <2>1, <2>2
<1>8. marks'[o] = 0
  BY <1>4, <1>5, <1>7 DEF IsPassed, FlowsFrom
<1>9. ASSUME NEW b \in BoundaryEventsOf(o), Reached(b)' PROVE FALSE
  <2>1. b \in BoundaryEvents /\ b \in FlowObjects
    BY BoundaryFacts
  <2>2. ~Reached(b)
    BY <1>1, <1>4, <1>5 DEF PathHolds
  <2>3. Takes(b)
    BY <1>9, <2>1, <2>2, BoundaryReachedBy DEF Leaves
  <2> QED
    BY <1>2, <2>1, <2>3, EmitsOrTakes
<1> QED
  BY <1>6, <1>8, <1>9

\* An activity is left through a boundary event.
LEMMA LeftByBoundary ==
  ASSUME Leaves, PathInv, NEW o \in FlowObjects, Boundaries[o] # << >>,
         NEW b \in BoundaryEventsOf(o), ~Reached(b), Reached(b)'
  PROVE  /\ o \in visited' /\ marks'[o] = 0 /\ ~HasForked(o)'
         /\ \A d \in BoundaryEventsOf(o) : Reached(d)' => d = b
<1>1. Kind[o] = "waitTask" /\ PathHolds(o)
  BY DefinitionAssumption DEF PathInv
<1>2. b \in BoundaryEvents /\ b \in FlowObjects /\ Host(b) = o /\ b # o
  BY BoundaryFacts
<1>3. Takes(b)
  BY <1>2, BoundaryReachedBy DEF Leaves
<1>4. IsInterrupted(b)
  BY <1>2, <1>3, InterruptsGame, TimesOutGame DEF Takes, Leaves
<1>5. marks[o] > 0 /\ marks \in [FlowObjects -> Nat]
  BY <1>2, <1>4, PlayingFacts DEF IsInterrupted, Leaves, MarksType
<1>6. marks[o] = 1
  BY <1>1, <1>5, OneMark
<1>7. marks'[o] = 0
  BY <1>2, <1>4, <1>5, <1>6 DEF IsInterrupted
<1>8. tokens[o] > 0
  <2>1. CASE Interrupts(b)
    BY <1>2, <2>1 DEF Interrupts
  <2>2. CASE TimesOut(b)
    <3>1. HasFreeToken(Host(b))
      BY <2>2 DEF TimesOut, Leaves, TokensHaveOneOwner, InterruptsAreAlone
    <3>2. tokens[o] \in Nat /\ Expired(o) \in Nat
      BY PlayingFacts DEF Leaves
    <3> QED
      BY <1>2, <3>1, <3>2 DEF HasFreeToken
  <2> QED
    BY <1>3, <2>1, <2>2 DEF Takes
<1>9. o \in visited'
  <2>1. o \in visited
    BY <1>8 DEF Leaves, Passing, OnceInv
  <2> QED
    BY <2>1, VisitedGrows DEF Leaves
<1>10. ~HasForked(o)'
  <2>1. ~HasForked(o)
    BY <1>1, <1>6 DEF PathHolds
  <2>2. ~Emits(o)
    BY <1>2, <1>3, EmitsOrTakes
  <2> QED
    BY <2>1, <2>2, ForkedBy DEF Leaves
<1>11. ASSUME NEW d \in BoundaryEventsOf(o), Reached(d)' PROVE d = b
  <2>1. d \in BoundaryEvents /\ d \in FlowObjects
    BY BoundaryFacts
  <2>2. ~Reached(d)
    BY <1>1, <1>6 DEF PathHolds
  <2>3. puts'[d] > puts[d]
    BY <1>11, <2>1, <2>2, ReachedByPut DEF Leaves
  <2>4. puts \in [FlowObjects -> Nat] /\ puts' = [puts EXCEPT ![b] = @ + 1]
    BY <1>3, PassingFacts DEF Takes, Interrupts, TimesOut, Leaves, CountsType
  <2> QED
    BY <2>1, <2>3, <2>4
<1> QED
  BY <1>7, <1>9, <1>10, <1>11

LEMMA PathStep == Leaves /\ PathInv => PathInv'
<1> SUFFICES ASSUME Leaves, PathInv, NEW o \in FlowObjects, Boundaries[o] # << >>
             PROVE  PathHolds(o)'
  BY DEF PathInv
<1> DEFINE B == BoundaryEventsOf(o)
<1>0. BoundaryEventsOf(o)' = B
  BY DEF BoundaryEventsOf
<1>1. Kind[o] = "waitTask" /\ PathHolds(o)
  BY DefinitionAssumption DEF PathInv
<1>2. CASE ~HasForked(o) /\ HasForked(o)'
  BY <1>0, <1>2, LeftByFlows DEF PathHolds
<1>3. ASSUME NEW b \in B, ~Reached(b), Reached(b)' PROVE PathHolds(o)'
  <2>1. /\ o \in visited' /\ marks'[o] = 0 /\ ~HasForked(o)'
        /\ \A d \in B : Reached(d)' => d = b
    BY <1>3, LeftByBoundary
  <2> QED
    BY <1>0, <2>1 DEF PathHolds
<1>4. CASE /\ HasForked(o)' => HasForked(o)
           /\ \A b \in B : Reached(b)' => Reached(b)
  <2>1. HasForked(o)' \/ (\E b \in B : Reached(b)') => o \in visited' /\ marks'[o] = 0
    <3> SUFFICES ASSUME HasForked(o)' \/ \E b \in B : Reached(b)'
                 PROVE  o \in visited' /\ marks'[o] = 0
      OBVIOUS
    <3>1. o \in visited /\ marks[o] = 0
      BY <1>1, <1>4 DEF PathHolds
    <3>2. o \in visited'
      BY <3>1, VisitedGrows DEF Leaves
    <3> QED
      BY <1>1, <3>1, <3>2, EmptyStays
  <2>2. \A b \in B : Reached(b)' => ~HasForked(o)'
    BY <1>1, <1>4 DEF PathHolds
  <2>3. \A b, d \in B : Reached(b)' /\ Reached(d)' => b = d
    BY <1>1, <1>4 DEF PathHolds
  <2> QED
    BY <1>0, <2>1, <2>2, <2>3 DEF PathHolds
<1> QED
  BY <1>2, <1>3, <1>4

LEMMA PathInit == Init /\ TypeOK => PathInv
<1> SUFFICES ASSUME Init, TypeOK, NEW o \in FlowObjects, Boundaries[o] # << >>
             PROVE  PathHolds(o)
  BY DEF PathInv
<1>1. \A d \in FlowObjects : ~Reached(d)
  <2>1. visited = {}
    BY DEF Init
  <2>2. \A d \in FlowObjects : puts[d] = 0
    BY NothingCounted
  <2> QED
    BY <2>1, <2>2 DEF Reached
<1>2. ~HasForked(o)
  <2>1. \A i \in DOMAIN Outgoing[o] : Outgoing[o][i] \in FlowObjects
    BY DefinitionAssumption
  <2> QED
    BY <1>1, <2>1 DEF HasForked
<1>3. \A b \in BoundaryEventsOf(o) : ~Reached(b)
  BY <1>1, BoundaryFacts
<1> QED
  BY <1>2, <1>3 DEF PathHolds

LEMMA WaysExclude == PathInv => OnePathLeaves
<1> SUFFICES ASSUME PathInv, NEW o \in OfKind({"waitTask"})
             PROVE  Cardinality({way \in WaysFrom(o) : way \cap visited # {}}) <= 1
  BY DEF OnePathLeaves
<1> DEFINE W == {way \in WaysFrom(o) : way \cap visited # {}}
           Flows == {Outgoing[o][i] : i \in DOMAIN Outgoing[o]}
<1>1. o \in FlowObjects /\ \A b \in BoundaryEventsOf(o) : Boundaries[o] # << >>
  BY DEF OfKind, BoundaryEventsOf
<1>2. ASSUME NEW v \in W 
      PROVE  \/ v = Flows /\ HasForked(o)
             \/ \E b \in BoundaryEventsOf(o) : v = {b} /\ Reached(b)
  <2>1. v \in WaysFrom(o) /\ v \cap visited # {}
    OBVIOUS
  <2>2. CASE v = Flows
    BY <2>1, <2>2 DEF HasForked, Reached
  <2>3. ASSUME NEW b \in BoundaryEventsOf(o), v = {b} PROVE Reached(b)
    BY <2>1, <2>3 DEF Reached
  <2> QED
    BY <2>1, <2>2, <2>3 DEF WaysFrom
<1>3. ASSUME NEW v \in W, NEW w \in W PROVE v = w
  <2>1. \/ v = Flows /\ HasForked(o)
        \/ \E b \in BoundaryEventsOf(o) : v = {b} /\ Reached(b)
    BY <1>2
  <2>2. \/ w = Flows /\ HasForked(o)
        \/ \E d \in BoundaryEventsOf(o) : w = {d} /\ Reached(d)
    BY <1>2
  <2>3. (\E b \in BoundaryEventsOf(o) : TRUE) => PathHolds(o)
    BY <1>1 DEF PathInv
  <2> HIDE DEF W, Flows
  <2> QED
    BY <2>1, <2>2, <2>3 DEF PathHolds
<1>4. W = {} \/ \E v : W = {v}
  <2> HIDE DEF W
  <2> QED
    BY <1>3
<1> HIDE DEF W
<1>5. Cardinality(W) <= 1
  <2>1. CASE W = {}
    BY <2>1, FS_EmptySet
  <2>2. ASSUME NEW v, W = {v} PROVE Cardinality(W) <= 1
    BY <2>2, FS_Singleton
  <2> QED
    BY <1>4, <2>1, <2>2
<1> QED
  BY <1>5 DEF W

\* As long as every token has one owner and tokens pass an object once, an activity is left on
\* one way only: by its end along its flows, or by one of its boundary events, however the
\* reports of the client, the messages and the timers race each other and the saves.
THEOREM OnePathIsTaken == Spec /\ []TokensPassOnce /\ []TokensHaveOneOwner => []OnePathLeaves
<1>1. Spec => [](TypeOK /\ AccountInv)
  BY AccountInit, AccountStep, TypeCorrectness, PTL DEF Spec
<1>2. Init /\ TypeOK /\ AccountInv => PassInv /\ OwnersInv /\ PathInv
  BY PassInit, GameInit, PathInit
<1>3. PassInv /\ OwnersInv /\ PathInv /\ AccountInv' /\ TokensPassOnce /\ TokensPassOnce'
        /\ TokensHaveOneOwner /\ [Next]_vars
        => PassInv' /\ OwnersInv' /\ PathInv'
  <2> SUFFICES ASSUME PassInv, OwnersInv, PathInv, AccountInv', TokensPassOnce, TokensPassOnce',
                      TokensHaveOneOwner, [Next]_vars
               PROVE  PassInv' /\ OwnersInv' /\ PathInv'
    OBVIOUS
  <2>1. PassInv' /\ Passing /\ Effect
    BY PassStep
  <2>2. OwnersInv'
    BY GameStep DEF PassInv
  <2>3. Leaves
    BY <2>1, <2>2 DEF Leaves, Playing, Passing
  <2> QED
    BY <2>1, <2>2, <2>3, PathStep
<1>4. Spec /\ []TokensPassOnce /\ []TokensHaveOneOwner => []PathInv
  BY <1>1, <1>2, <1>3, PTL DEF Spec
<1> QED
  BY <1>4, WaysExclude, PTL

-----------------------------------------------------------------------------
(****************************************************************************)
(* No token is stranded.                                                    *)
(****************************************************************************)

\* What runs decides which step is taken.
LEMMA StepOf ==
  ASSUME agenda # << >>, [Next]_vars
  PROVE  RunStep \/ UNCHANGED vars
  BY DEF Next, TimerEvent, TimerFires, LeakedTimerFires, IoEvent, SaveDone, FinalSaveDone, SaveFails,
     ConnectionClosed, ClientStep, TriggerStart, TaskDone, TriggerCatchEvent, TriggerBoundaryEvent,
     ClientCalls, HandlerAnswers, Idle

LEMMA ActionOf ==
  ASSUME RunStep
  PROVE  /\ Running("begun") => AnnounceToken
         /\ Running("arrived") => ArriveAtCatchEvent \/ ArriveAtFlowObject
         /\ Running("handled") =>
              WaitTaskHandled \/ FlowObjectHandled \/ JoinCompletes \/ JoinWaits \/ EnterCall
         /\ Running("ended") =>
              EmitAlongAll \/ EmitAlongOne \/ Fork \/ EndMainProcess \/ EndCalledProcess
         /\ Running("startCall") => StartCalledProcess
         /\ Running("activityEnd") => ActivityEnds \/ UnhandledEvent
         /\ Running("activityDone") => ActivityLeft
<1>1. /\ PutToken => Running("put")
      /\ AnnounceToken => Running("begun")
      /\ ArriveAtCatchEvent \/ ArriveAtFlowObject => Running("arrived")
      /\ WaitTaskHandled \/ FlowObjectHandled \/ JoinCompletes \/ JoinWaits \/ EnterCall =>
           Running("handled")
      /\ EmitAlongAll \/ EmitAlongOne \/ Fork \/ EndMainProcess \/ EndCalledProcess =>
           Running("ended")
      /\ StartCalledProcess => Running("startCall")
  BY DEF PutToken, AnnounceToken, ArriveAtCatchEvent, ArriveAtFlowObject, WaitTaskHandled,
     FlowObjectHandled, JoinCompletes, JoinWaits, EnterCall, EmitAlongAll, EmitAlongOne, Fork,
     EndMainProcess, EndCalledProcess, StartCalledProcess
<1>2. /\ ActivityEnds => Running("activityEnd")
      /\ ActivityLeft => Running("activityDone")
      /\ EmitCatchEvent => Running("emitCatch")
      /\ CatchEvent => Running("catch")
      /\ EventCaught => Running("caught")
      /\ CatchBoundaryEvent => Running("boundaryCatch")
      /\ UnhandledEvent => Running("activityEnd") \/ Running("catch") \/ Running("boundaryCatch")
      /\ ArmTimer \/ ArmExpiredTimer => Running("arm")
      /\ TimerHandled => Running("timerHandled")
      /\ Persist => Running("persist") \/ Running("persistAndClose")
  BY DEF ActivityEnds, ActivityLeft, EmitCatchEvent, CatchEvent, EventCaught, CatchBoundaryEvent,
     UnhandledEvent, ArmTimer, ArmExpiredTimer, TimerHandled, Persist
<1>3. \A p, q : Running(p) /\ Running(q) => p = q
  BY DEF Running
<1> QED
  BY <1>1, <1>2, <1>3 DEF RunStep, TokenStep, EventStep, TimerStep

LEMMA WorkType ==
  /\ TypeOK => \A o \in FlowObjects : WorkAt(o) \in Nat
  /\ TypeOK' => \A o \in FlowObjects : WorkAt(o)' \in Nat
<1>1. ASSUME TypeOK, NEW o \in FlowObjects PROVE WorkAt(o) \in Nat
  <2>1. /\ Outstanding(Item("begun", o)) \in Nat /\ Outstanding(Item("arrived", o)) \in Nat
        /\ Outstanding(Item("handled", o)) \in Nat
    BY <1>1, OutstandingType, WorkItems
  <2> QED
    BY <1>1, <2>1, WorkOutstanding
<1>2. TypeOK => \A o \in FlowObjects : WorkAt(o) \in Nat
  BY <1>1
<1>3. TypeOK' => (\A o \in FlowObjects : WorkAt(o) \in Nat)'
  BY <1>2, PTL
<1> QED
  BY <1>2, <1>3

\* The work at an object gets less when its handler is done only, or when a catch event
\* starts to wait.
LEMMA WorkStays ==
  ASSUME TypeOK, AccountInv, [Next]_vars, NEW o \in FlowObjects
  PROVE  /\ WorkAt(o) \in Nat /\ WorkAt(o)' \in Nat
         /\ \/ WorkAt(o)' >= WorkAt(o)
            \/ Running("handled") /\ Current = o /\ WorkAt(o) > 0 /\ WorkAt(o)' >= WorkAt(o) - 1
            \/ Running("arrived") /\ o \in CatchEvents
<1>0. TypeOK'
  BY NextType
<1>1. WorkAt(o) \in Nat /\ WorkAt(o)' \in Nat
  BY <1>0, WorkType
<1>2. CASE UNCHANGED <<agenda, pending, deferred>>
  <2>1. WorkAt(o)' = WorkAt(o)
    BY <1>2 DEF WorkAt, OnAgenda, Held, Deferred, Occurrences
  <2> QED
    BY <1>1, <2>1
<1>3. ASSUME NEW new \in Seq(Items), Moves(new)
      PROVE  /\ WorkTaken(o) = 0 => WorkAt(o)' >= WorkAt(o)
             /\ WorkTaken(o) = 1 => WorkAt(o)' >= WorkAt(o) - 1
             /\ WorkTaken(o) = 1 /\ WorkIn(new, o) = 1 => WorkAt(o)' >= WorkAt(o)
  <2>1. /\ WorkAt(o)' \in Nat /\ WorkTaken(o) \in Nat /\ WorkIn(new, o) \in Nat
        /\ WorkAt(o) \in Nat /\ WorkAt(o)' + WorkTaken(o) = WorkAt(o) + WorkIn(new, o)
    BY <1>0, <1>3, WorkMoves
  <2> DEFINE before == WorkAt(o)
             after == WorkAt(o)'
  <2> HIDE DEF before, after
  <2>2. /\ after \in Nat /\ WorkTaken(o) \in Nat /\ WorkIn(new, o) \in Nat
        /\ before \in Nat /\ after + WorkTaken(o) = before + WorkIn(new, o)
    BY <2>1 DEF before, after
  <2>3. /\ WorkTaken(o) = 0 => after >= before
        /\ WorkTaken(o) = 1 => after >= before - 1
        /\ WorkTaken(o) = 1 /\ WorkIn(new, o) = 1 => after >= before
    BY <2>2
  <2> QED
    BY <2>3 DEF before, after
<1>4. Received
  BY DEF AccountInv
<1>5. CASE WorkTaken(o) = 0 /\ ~UNCHANGED <<agenda, pending, deferred>>
  <2>1. PICK new \in Seq(Items) : Moves(new)
    BY <1>4, <1>5, StepMoves
  <2> QED
    BY <1>1, <1>3, <1>5, <2>1
<1>6. CASE WorkTaken(o) # 0 /\ ~UNCHANGED <<agenda, pending, deferred>>
  <2>1. /\ agenda # << >> /\ Current = o /\ WorkTaken(o) = 1
        /\ Running("begun") \/ Running("arrived") \/ Running("handled")
    BY <1>6 DEF WorkTaken, Work, Running, Current
  <2>2. RunStep /\ Rest = Tail(agenda)
    BY <1>6, <2>1, StepOf DEF vars, Rest
  <2>3. /\ Item("arrived", o) \in Events /\ Item("handled", o) \in Items
        /\ Item("arrived", o) \in Items
    BY ItemType DEF EventOps, ContinuationOps
  <2>4. CASE Running("begun")
    <3>1. EmitEvent(Item("arrived", o), Rest) /\ UNCHANGED pending
      BY <2>1, <2>2, <2>4, ActionOf DEF AnnounceToken
    <3>2. Moves(<<Item("arrived", o)>>) /\ <<Item("arrived", o)>> \in Seq(Items)
      BY <2>3, <3>1, EmitEventMoves
    <3>3. WorkIn(<<Item("arrived", o)>>, o) = 1
      BY <2>3, WorkInOne DEF Work, Item
    <3> QED
      BY <1>1, <1>3, <2>1, <3>2, <3>3
  <2>5. CASE Running("arrived") /\ o \notin CatchEvents
    <3>1. CallHandler(Item("handled", o), Rest) /\ UNCHANGED deferred
      BY <2>1, <2>2, <2>5, ActionOf DEF ArriveAtFlowObject, ArriveAtCatchEvent
    <3>2. Moves(<<Item("handled", o)>>) /\ <<Item("handled", o)>> \in Seq(Items)
      BY <2>3, <3>1, CallHandlerMoves
    <3>3. WorkIn(<<Item("handled", o)>>, o) = 1
      BY <2>3, WorkInOne DEF Work, Item
    <3> QED
      BY <1>1, <1>3, <2>1, <3>2, <3>3
  <2>6. CASE Running("handled")
    <3>1. WorkAt(o)' >= WorkAt(o) - 1
      <4>1. PICK new \in Seq(Items) : Moves(new)
        BY <1>4, <1>6, StepMoves
      <4> QED
        BY <1>3, <2>1, <4>1
    <3>2. WorkAt(o) > 0
      <4>1. Outstanding(Item("handled", o)) > 0
        BY <2>1, <2>6, HeadOutstanding
      <4>2. /\ Outstanding(Item("begun", o)) \in Nat /\ Outstanding(Item("arrived", o)) \in Nat
            /\ Outstanding(Item("handled", o)) \in Nat
        BY OutstandingType, WorkItems
      <4> QED
        BY <4>1, <4>2, WorkOutstanding
    <3> QED
      BY <1>1, <2>1, <2>6, <3>1, <3>2
  <2> QED
    BY <1>1, <2>1, <2>4, <2>5, <2>6
<1> QED
  BY <1>1, <1>2, <1>5, <1>6

\* Tokens get more where one is put, and where a gateway or a call renews them.
LEMMA LeaveTakes ==
  ASSUME TypeOK, NEW c \in FlowObjects, Leave(c), NEW o \in FlowObjects
  PROVE  tokens'[o] <= tokens[o]
<1>1. tokens \in [FlowObjects -> Nat]
  BY DEF TypeOK
<1>2. \/ tokens' = [tokens EXCEPT ![c] = IF @ > 0 THEN @ - 1 ELSE 0]
      \/ tokens' = [[tokens EXCEPT ![c] = IF @ > 0 THEN @ - 1 ELSE 0]
                      EXCEPT ![Host(c)] = IF @ > 0 THEN @ - 1 ELSE 0]
  BY DEF Leave, Remove
<1> QED
  BY <1>1, <1>2

LEMMA RemoveTakes ==
  ASSUME TypeOK, NEW c, tokens' = Remove(c), NEW o \in FlowObjects
  PROVE  tokens'[o] <= tokens[o]
<1>1. tokens \in [FlowObjects -> Nat]
  BY DEF TypeOK
<1>2. tokens' = [tokens EXCEPT ![c] = IF @ > 0 THEN @ - 1 ELSE 0]
  BY DEF Remove
<1> QED
  BY <1>1, <1>2

LEMMA TokensGrow ==
  ASSUME TypeOK, [Next]_vars, NEW o \in FlowObjects
  PROVE  \/ tokens'[o] <= tokens[o]
         \/ PutToken /\ Current = o /\ tokens'[o] = tokens[o] + 1
         \/ (JoinCompletes \/ JoinWaits \/ EnterCall) /\ Current = o /\ tokens' = Renewed(o)
<1>1. tokens \in [FlowObjects -> Nat]
  BY DEF TypeOK
<1>2. CASE tokens' = tokens
  BY <1>1, <1>2
<1>3. CASE PutToken
  BY <1>1, <1>3 DEF PutToken, Add
<1>4. ASSUME FlowObjectHandled \/ ActivityLeft \/ EventCaught PROVE tokens'[o] <= tokens[o]
  <2>1. agenda # << >> /\ Leave(Current)
    BY <1>4 DEF FlowObjectHandled, ActivityLeft, EventCaught, Running
  <2> QED
    BY <2>1, HeadType, LeaveTakes
<1>5. ASSUME NEW t, NEW rest, Expire(t, rest) PROVE tokens'[o] <= tokens[o]
  <2>1. tokens' = tokens \/ tokens' = Remove(t)
    BY <1>5 DEF Expire
  <2> QED
    BY <1>1, <2>1, RemoveTakes
<1>6. CASE CatchBoundaryEvent
  BY <1>6, RemoveTakes DEF CatchBoundaryEvent
<1>7. CASE Fork
  BY <1>1, <1>7 DEF Fork
<1>8. CASE JoinCompletes \/ JoinWaits \/ EnterCall
  <2>1. tokens' = Renewed(Current)
    BY <1>8 DEF JoinCompletes, JoinWaits, EnterCall
  <2>2. o # Current => tokens'[o] = tokens[o]
    BY <1>1, <2>1 DEF Renewed
  <2> QED
    BY <1>1, <1>8, <2>1, <2>2
<1>9. CASE TokenStep
  <2>1. AnnounceToken \/ ArriveAtCatchEvent \/ ArriveAtFlowObject \/ WaitTaskHandled \/ EmitAlongAll
          \/ EmitAlongOne \/ EndMainProcess \/ EndCalledProcess \/ StartCalledProcess =>
            tokens' = tokens
    BY DEF AnnounceToken, ArriveAtCatchEvent, ArriveAtFlowObject, WaitTaskHandled, EmitAlongAll,
       EmitAlongOne, EndMainProcess, EndCalledProcess, StartCalledProcess
  <2> QED
    BY <1>2, <1>3, <1>4, <1>7, <1>8, <1>9, <2>1 DEF TokenStep
<1>10. CASE EventStep
  <2>1. ActivityEnds \/ EmitCatchEvent \/ CatchEvent \/ UnhandledEvent => tokens' = tokens
    BY DEF ActivityEnds, EmitCatchEvent, CatchEvent, UnhandledEvent
  <2> QED
    BY <1>2, <1>4, <1>6, <1>10, <2>1 DEF EventStep
<1>11. CASE TimerStep
  <2>1. ArmTimer \/ TimerHandled => tokens' = tokens
    BY DEF ArmTimer, TimerHandled
  <2>2. ArmExpiredTimer => Expire(Current, Tail(agenda))
    BY DEF ArmExpiredTimer
  <2> QED
    BY <1>2, <1>5, <1>11, <2>1, <2>2 DEF TimerStep
<1>12. CASE TimerEvent
  <2>1. PICK t \in TimerEvents : Expire(t, << >>)
    BY <1>12 DEF TimerEvent, TimerFires, LeakedTimerFires
  <2> QED
    BY <1>5, <2>1
<1>13. Persist \/ IoEvent \/ ClientStep \/ (\E k \in Late : HandlerAnswers(k)) \/ Idle
         \/ UNCHANGED vars => tokens' = tokens
  BY DEF Persist, IoEvent, SaveDone, FinalSaveDone, SaveFails, ConnectionClosed, ClientStep,
     TriggerStart, TaskDone, TriggerCatchEvent, TriggerBoundaryEvent, ClientCalls, HandlerAnswers,
     Idle, vars
<1> QED
  BY <1>2, <1>9, <1>10, <1>11, <1>12, <1>13 DEF Next, RunStep

\* The handler of a token that is put is work.
LEMMA PutIsWork ==
  ASSUME TypeOK, AccountInv, TypeOK', PutToken, NEW o \in FlowObjects, Current = o
  PROVE  WorkAt(o)' = WorkAt(o) + 1
<1> DEFINE x == Item("begun", o)
<1>1. Running("put") /\ CallHandler(x, Tail(agenda)) /\ UNCHANGED deferred
  BY DEF PutToken
<1>2. Rest = Tail(agenda) /\ WorkTaken(o) = 0
  BY <1>1, RunningFacts
<1>3. x \in Items /\ <<x>> \in Seq(Items)
  BY ItemType DEF ContinuationOps
<1>4. Moves(<<x>>)
  BY <1>1, <1>2, <1>3, CallHandlerMoves
<1>5. WorkIn(<<x>>, o) = 1
  BY <1>3, WorkInOne DEF Work, Item
<1>6. WorkAt(o)' + WorkTaken(o) = WorkAt(o) + WorkIn(<<x>>, o)
  BY <1>3, <1>4, WorkMoves
<1>7. WorkAt(o) \in Nat /\ WorkAt(o)' \in Nat
  BY WorkType
<1> DEFINE before == WorkAt(o)
           after == WorkAt(o)'
<1>8. before \in Nat /\ after \in Nat /\ after + 0 = before + 1
  BY <1>2, <1>5, <1>6, <1>7
<1> HIDE DEF before, after
<1>9. after = before + 1
  BY <1>8
<1> QED
  BY <1>9 DEF before, after

\* A gateway that has all its tokens is about to be asked again, or to let them go.
JoinsGoOn ==
  \A j \in OfKind({"and"}) :
    tokens[j] > 0 /\ tokens[j] = Incoming(j) => WorkAt(j) > 0 \/ leavings[j] > 0

LEMMA JoinsGoOnStep ==
  ASSUME TypeOK, AccountInv, Main \notin called, [Next]_vars, JoinsGoOn
  PROVE  JoinsGoOn'
<1> SUFFICES ASSUME NEW j \in OfKind({"and"}), tokens'[j] > 0, tokens'[j] = Incoming(j)
             PROVE  WorkAt(j)' > 0 \/ leavings'[j] > 0
  BY DEF JoinsGoOn, Incoming, OfKind
<1>1. TypeOK' /\ Effect /\ j \in FlowObjects /\ Kind[j] = "and"
  BY NextType, StepEffect DEF OfKind
<1>2. /\ tokens[j] \in Nat /\ leavings[j] \in Nat /\ leavings'[j] \in Nat
      /\ WorkAt(j) \in Nat /\ WorkAt(j)' \in Nat
  BY <1>1, CountTypes, NextCounts, WorkType DEF CountsType, TypeOK
<1>3. tokens[j] > 0 /\ tokens[j] = Incoming(j) => WorkAt(j) > 0 \/ leavings[j] > 0
  BY DEF JoinsGoOn
<1>4. CASE UNCHANGED vars
  <2>1. tokens'[j] = tokens[j]
    BY <1>4 DEF vars
  <2>2. WorkAt(j)' = WorkAt(j)
    BY <1>4 DEF vars, WorkAt, OnAgenda, Held, Deferred, Occurrences
  <2>3. leavings' = leavings
    BY <1>4, CountsSame DEF vars
  <2> QED
    BY <1>3, <2>1, <2>2, <2>3
<1>5. CASE Running("handled") /\ Current = j /\ ~UNCHANGED vars
  <2>1. RunStep
    BY <1>5, StepOf DEF Running
  <2>2. JoinCompletes \/ JoinWaits
    BY <1>1, <1>5, <2>1, ActionOf DEF WaitTaskHandled, FlowObjectHandled, EnterCall
  <2>3. Renews(j)
    BY <1>1, <1>5, <2>2, GatewayEffect
  <2>4. leavings' = [leavings EXCEPT ![j] = @ + 1]
    BY <2>3 DEF Renews
  <2>5. leavings'[j] = leavings[j] + 1
    BY <1>1, <2>4, CountTypes DEF CountsType
  <2> QED
    BY <1>2, <2>5
<1>6. CASE ~(Running("handled") /\ Current = j) /\ ~UNCHANGED vars
  <2>1. WorkAt(j)' >= WorkAt(j)
    <3>1. j \notin CatchEvents
      BY <1>1 DEF CatchEvents, OfKind
    <3> QED
      BY <1>1, <1>6, <3>1, WorkStays
  <2>2. CASE Unmoved(j)
    BY <1>2, <1>3, <2>1, <2>2 DEF Unmoved
  <2>3. CASE Arrives(j)
    <3>1. tokens'[j] = tokens[j] + 1
      BY <1>1, <2>3 DEF Arrives, Add, TypeOK
    <3>2. PutToken /\ Current = j
      <4>1. ~(tokens'[j] <= tokens[j])
        BY <1>2, <3>1
      <4>2. JoinCompletes \/ JoinWaits \/ EnterCall => Running("handled")
        BY DEF JoinCompletes, JoinWaits, EnterCall
      <4> QED
        BY <1>1, <1>6, <4>1, <4>2, TokensGrow
    <3>3. WorkAt(j)' = WorkAt(j) + 1
      BY <1>1, <3>2, PutIsWork
    <3> QED
      BY <1>2, <3>3
  <2>4. CASE Renews(j)
    BY <1>6, <2>4 DEF Renews
  <2>5. CASE Forks(j)
    <3>1. tokens'[j] = 0
      BY <1>1, <2>5 DEF Forks, TypeOK
    <3> QED
      BY <3>1
  <2> QED
    BY <1>1, <2>2, <2>3, <2>4, <2>5, GatewayMoves
<1> QED
  BY <1>4, <1>5, <1>6

(****************************************************************************)
(* A called process that was entered goes on until its activity is left.    *)
(****************************************************************************)

\* A decision is taken for a token that came to its gateway.
DecisionsVisited == \A x \in OfKind({"xor"}) : leavings[x] > 0 => x \in visited

LEMMA DecisionsVisitedStep ==
  ASSUME TypeOK, TypeOK', WorkVisited, DecisionsVisited, Effect
  PROVE  DecisionsVisited'
<1> SUFFICES ASSUME NEW x \in OfKind({"xor"}), leavings'[x] > 0, x \notin visited PROVE FALSE
  BY VisitedGrows DEF DecisionsVisited, OfKind
<1>1. /\ x \in FlowObjects /\ Kind[x] = "xor" /\ x \notin BoundaryEvents
      /\ x \notin CatchEvents /\ x \notin TimerEvents
  BY BoundaryFacts DEF OfKind, CatchEvents, TimerEvents
<1>2. leavings \in [FlowObjects -> Nat] /\ leavings' \in [FlowObjects -> Nat]
  BY CountTypes, NextCounts DEF CountsType
<1>3. leavings[x] = 0
  BY <1>1, <1>2 DEF DecisionsVisited
<1>4. ~(Running("handled") /\ Current = x)
  BY <1>1, HeadOutstanding DEF WorkVisited, WorkOps
<1>5. leavings'[x] <= leavings[x]
  <2>1. CASE Keeps \/ Begins
    BY <1>2, <1>1, <2>1 DEF Keeps, Begins
  <2>2. ASSUME NEW c \in FlowObjects, IsLeft(c) PROVE leavings'[x] = leavings[x]
    BY <1>1, <1>2, <1>4, <2>2 DEF IsLeft, MayLeave
  <2>3. ASSUME NEW c \in FlowObjects, TakesActivity(c) \/ Renews(c)
        PROVE  leavings'[x] = leavings[x]
    BY <1>1, <1>2, <2>3 DEF TakesActivity, Renews
  <2>4. ASSUME NEW c \in FlowObjects, Arrives(c) \/ Interrupts(c) \/ TimesOut(c)
        PROVE  leavings'[x] = leavings[x]
    BY <2>4 DEF Arrives, Interrupts, TimesOut
  <2>5. ASSUME NEW c \in FlowObjects, Passes(c) \/ Decides(c) \/ Forks(c)
        PROVE  leavings'[x] <= leavings[x]
    BY <1>1, <1>2, <2>5 DEF Passes, Decides, Forks, GoesOn
  <2>6. ASSUME NEW p \in Processes, Calls(p) \/ Enters(p)
        PROVE  leavings'[x] = leavings[x]
    BY <2>6 DEF Calls, Enters
  <2> QED
    BY <1>1, <1>2, <2>1, <2>2, <2>3, <2>4, <2>5, <2>6 DEF Effect
<1> QED
  BY <1>1, <1>2, <1>3, <1>5

\* Something is at x, or came to x and was lost there: a gateway that found no flow.
Present(x) ==
  puts[x] > 0 \/ tokens[x] > 0 \/ leavings[x] > 0 \/ x \in Undecided \cap visited

\* Inside the process, or on the way into it or out of it.
Alive(p) ==
  \/ starts[CallOf[p]] > 0
  \/ Outstanding(Item("activityEnd", CallOf[p])) > 0
  \/ Outstanding(Item("activityDone", CallOf[p])) > 0
  \/ \E x \in FlowObjects : ProcessOf[x] = p /\ Present(x)

\* A token stays in its process, but for the one at an end event.
LEMMA PresentStays ==
  ASSUME TypeOK, TypeOK', DecisionsVisited, Effect, NEW x \in FlowObjects, Present(x)
  PROVE  \/ \E y \in FlowObjects : ProcessOf[y] = ProcessOf[x] /\ Present(y)'
         \/ Running("ended") /\ Current = x /\ Kind[x] = "end"
<1>1. /\ puts \in [FlowObjects -> Nat] /\ leavings \in [FlowObjects -> Nat]
      /\ tokens \in [FlowObjects -> Nat]
      /\ puts' \in [FlowObjects -> Nat] /\ leavings' \in [FlowObjects -> Nat]
      /\ tokens' \in [FlowObjects -> Nat]
  BY CountTypes, NextCounts DEF CountsType, TypeOK
<1> DEFINE done == \E y \in FlowObjects : ProcessOf[y] = ProcessOf[x] /\ Present(y)'
<1>2. ASSUME NEW y \in FlowObjects, ProcessOf[y] = ProcessOf[x],
             puts'[y] > 0 \/ tokens'[y] > 0 \/ leavings'[y] > 0
      PROVE  done
  BY <1>2 DEF Present
<1>3. ASSUME puts'[x] >= puts[x], tokens'[x] >= tokens[x], leavings'[x] >= leavings[x]
      PROVE  done
  <2>1. \/ puts'[x] > 0 \/ tokens'[x] > 0 \/ leavings'[x] > 0
        \/ x \in Undecided \cap visited'
    BY <1>1, <1>3, VisitedGrows DEF Present
  <2> QED
    BY <2>1 DEF Present
<1>4. ASSUME Keeps PROVE done
  BY <1>1, <1>3, <1>4 DEF Keeps
<1>5. ASSUME Begins PROVE done
  BY <1>1, <1>3, <1>5 DEF Begins
<1>6. ASSUME NEW c \in FlowObjects, Arrives(c) PROVE done
  <2>1. CASE c = x
    <3>1. tokens'[x] = tokens[x] + 1
      BY <1>1, <1>6, <2>1 DEF Arrives, Add
    <3>2. tokens'[x] > 0
      BY <1>1, <3>1
    <3> QED
      BY <1>2, <3>2
  <2>2. CASE c # x
    BY <1>1, <1>3, <1>6, <2>2 DEF Arrives, Add
  <2> QED
    BY <2>1, <2>2
<1>7. ASSUME NEW c \in FlowObjects, IsLeft(c) PROVE done
  <2>1. CASE c = x
    <3>1. leavings'[x] = leavings[x] + 1
      BY <1>1, <1>7, <2>1 DEF IsLeft
    <3>2. leavings'[x] > 0
      BY <1>1, <3>1
    <3> QED
      BY <1>2, <3>2
  <2>2. CASE c # x
    BY <1>1, <1>3, <1>7, <2>2 DEF IsLeft, Remove
  <2> QED
    BY <2>1, <2>2
<1>8. ASSUME NEW b \in FlowObjects, TakesActivity(b) PROVE done
  <2>1. b \in BoundaryEvents /\ leavings' = [leavings EXCEPT ![b] = @ + 1] /\ puts' = puts
    BY <1>8 DEF TakesActivity
  <2>2. CASE ProcessOf[b] = ProcessOf[x]
    <3>1. leavings'[b] > 0
      BY <1>1, <2>1
    <3> QED
      BY <1>2, <2>2, <3>1
  <2>3. CASE ProcessOf[b] # ProcessOf[x]
    <3>1. ProcessOf[Host(b)] = ProcessOf[b]
      BY <2>1, BoundaryFacts, ValidationAssumption
    <3>2. x # b /\ x # Host(b)
      BY <2>3, <3>1
    <3>3. tokens'[x] = tokens[x]
      BY <1>1, <1>8, <3>2 DEF TakesActivity, Remove
    <3> QED
      BY <1>1, <1>3, <2>1, <3>2, <3>3
  <2> QED
    BY <2>2, <2>3
<1>9. ASSUME NEW c \in FlowObjects, Renews(c) PROVE done
  <2>1. CASE c = x
    <3>1. tokens'[x] > 0
      BY <1>1, <1>9, <2>1 DEF Renews, Renewed
    <3> QED
      BY <1>2, <3>1
  <2>2. CASE c # x
    BY <1>1, <1>3, <1>9, <2>2 DEF Renews, Renewed
  <2> QED
    BY <2>1, <2>2
<1>10. ASSUME NEW b \in FlowObjects, Interrupts(b) PROVE done
  <2>1. b \in BoundaryEvents /\ puts' = [puts EXCEPT ![b] = @ + 1] /\ leavings' = leavings
    BY <1>10 DEF Interrupts
  <2>2. CASE x = Host(b)
    <3>1. ProcessOf[b] = ProcessOf[x]
      BY <2>1, <2>2, BoundaryFacts, ValidationAssumption
    <3>2. puts'[b] > 0
      BY <1>1, <2>1
    <3> QED
      BY <1>2, <3>1, <3>2
  <2>3. CASE x # Host(b)
    <3>1. tokens'[x] = tokens[x]
      BY <1>1, <1>10, <2>3 DEF Interrupts, Remove
    <3>2. puts'[x] >= puts[x]
      BY <1>1, <2>1
    <3> QED
      BY <1>1, <1>3, <2>1, <3>1, <3>2
  <2> QED
    BY <2>2, <2>3
<1>11. ASSUME NEW b \in FlowObjects, TimesOut(b) PROVE done
  BY <1>1, <1>3, <1>11 DEF TimesOut
<1>12. ASSUME NEW c \in FlowObjects, Emits(c), c # x PROVE done
  <2>1. puts'[x] >= puts[x]
    <3>1. Game!FlowsBetween(c, x) \in Nat
      BY FlowsOfFacts
    <3>2. CASE Passes(c) \/ Forks(c)
      <4>1. puts'[x] = puts[x] + Game!FlowsBetween(c, x)
        BY <3>2 DEF Passes, Forks
      <4> QED
        BY <1>1, <3>1, <4>1
    <3>3. CASE Decides(c)
      BY <1>1, <3>3 DEF Decides
    <3> QED
      BY <1>12, <3>2, <3>3 DEF Emits
  <2>2. tokens'[x] = tokens[x] /\ leavings'[x] = leavings[x]
    BY <1>1, <1>12 DEF Emits, Passes, Decides, Forks, GoesOn
  <2> QED
    BY <1>1, <1>3, <2>1, <2>2
<1>13. ASSUME Emits(x), Kind[x] # "end" PROVE done
  <2>1. Outgoing[x] \in Seq(FlowObjects) /\ Outgoing[x] # << >>
    BY <1>13, DefinitionAssumption, ValidationAssumption
  <2>2. ASSUME NEW i \in DOMAIN Outgoing[x], puts'[Outgoing[x][i]] > 0 PROVE done
    <3>1. Outgoing[x][i] \in FlowObjects
      BY <2>1
    <3>2. ProcessOf[Outgoing[x][i]] = ProcessOf[x]
      BY ValidationAssumption
    <3> QED
      BY <1>2, <2>2, <3>1, <3>2
  <2>3. CASE Passes(x) \/ Forks(x)
    <3>1. 1 \in DOMAIN Outgoing[x] /\ Outgoing[x][1] \in FlowObjects
      BY <2>1
    <3> DEFINE y == Outgoing[x][1]
    <3>2. puts'[y] = puts[y] + Game!FlowsBetween(x, y)
      BY <2>3, <3>1 DEF Passes, Forks
    <3>3. Game!FlowsBetween(x, y) \in Nat /\ Game!FlowsBetween(x, y) > 0
      BY <3>1, FlowsOfFacts
    <3>4. puts[y] \in Nat
      BY <1>1, <3>1
    <3>5. puts'[y] > 0
      <4> DEFINE n == Game!FlowsBetween(x, y)
      <4> HIDE DEF n, y
      <4>1. puts'[y] = puts[y] + n /\ n \in Nat /\ n > 0
        BY <3>2, <3>3 DEF n
      <4> QED
        BY <3>4, <4>1
    <3> QED
      BY <2>2, <3>1, <3>5
  <2>4. CASE Decides(x)
    <3>1. CASE x \in Undecided
      <4>1. Kind[x] = "xor" /\ leavings[x] > 0
        BY <2>4 DEF Decides, GoesOn
      <4>2. x \in visited
        BY <4>1 DEF DecisionsVisited, OfKind
      <4> QED
        BY <3>1, <4>2, VisitedGrows DEF Present
    <3>2. CASE x \notin Undecided
      <4>1. PICK i \in DOMAIN Outgoing[x] : puts' = [puts EXCEPT ![Outgoing[x][i]] = @ + 1]
        BY <2>4, <3>2 DEF Decides
      <4>2. Outgoing[x][i] \in FlowObjects
        BY <2>1
      <4>3. puts'[Outgoing[x][i]] > 0
        BY <1>1, <4>1, <4>2
      <4> QED
        BY <2>2, <4>3
    <3> QED
      BY <3>1, <3>2
  <2> QED
    BY <1>13, <2>3, <2>4 DEF Emits
<1>14. ASSUME NEW p \in Processes, Calls(p) PROVE done
  <2>1. CASE x = CallOf[p]
    <3>1. tokens'[x] > 0
      BY <1>1, <1>14, <2>1 DEF Calls, Renewed
    <3> QED
      BY <1>2, <3>1
  <2>2. CASE x # CallOf[p]
    BY <1>1, <1>3, <1>14, <2>2 DEF Calls, Renewed
  <2> QED
    BY <2>1, <2>2
<1>15. ASSUME NEW p \in Processes, Enters(p) PROVE done
  BY <1>1, <1>3, <1>15 DEF Enters
<1>16. Emits(x) => Running("ended") /\ Current = x
  BY DEF Emits, Passes, Decides, Forks, GoesOn
<1> HIDE DEF done
<1> DEFINE ends == Running("ended") /\ Current = x /\ Kind[x] = "end"
<1>17. ASSUME NEW c \in FlowObjects, Emits(c) PROVE done \/ ends
  <2>1. CASE c # x
    BY <1>12, <1>17, <2>1
  <2>2. CASE c = x
    BY <1>13, <1>16, <1>17, <2>2
  <2> QED
    BY <2>1, <2>2
<1> HIDE DEF ends
<1>18. ASSUME NEW c \in FlowObjects,
              \/ Arrives(c) \/ IsLeft(c) \/ TakesActivity(c) \/ Renews(c) \/ Interrupts(c)
              \/ TimesOut(c) \/ Passes(c) \/ Decides(c) \/ Forks(c)
       PROVE  done \/ ends
  BY <1>6, <1>7, <1>8, <1>9, <1>10, <1>11, <1>17, <1>18 DEF Emits
<1>19. ASSUME NEW p \in Processes, Calls(p) \/ Enters(p) PROVE done \/ ends
  BY <1>14, <1>15, <1>19
<1>20. \/ Keeps \/ Begins
       \/ \E c \in FlowObjects :
            \/ Arrives(c) \/ IsLeft(c) \/ TakesActivity(c) \/ Renews(c) \/ Interrupts(c)
            \/ TimesOut(c) \/ Passes(c) \/ Decides(c) \/ Forks(c)
       \/ \E p \in Processes : Calls(p) \/ Enters(p)
  BY DEF Effect
<1>21. done \/ ends
  BY <1>4, <1>5, <1>18, <1>19, <1>20
<1> QED
  BY <1>21 DEF done, ends

LEMMA OneOutstanding ==
  ASSUME TypeOK, TypeOK', NEW e \in Items, Moves(<<e>>)
  PROVE  Outstanding(e)' > 0
<1>1. <<e>> \in Seq(Items) /\ 1 \in DOMAIN <<e>> /\ <<e>>[1] = e
  OBVIOUS
<1>2. PICK new \in Seq(Items) : new = <<e>>
  BY <1>1
<1>3. PICK i \in DOMAIN new : new[i] = e
  BY <1>1, <1>2
<1>4. Moves(new)
  BY <1>2
<1>5. Outstanding(new[i])' > 0
  BY <1>4, AddedOutstanding
<1> QED
  BY <1>3, <1>5

\* The end event of a called process tells the activity that called it.
LEMMA EndIsTold ==
  ASSUME TypeOK, TypeOK', RunStep, NEW x \in FlowObjects, Running("ended"), Current = x,
         Kind[x] = "end", NEW p \in Processes \ {Main}, ProcessOf[x] = p
  PROVE  Outstanding(Item("activityEnd", CallOf[p]))' > 0
<1> DEFINE e == Item("activityEnd", CallOf[p])
<1>1. EndCalledProcess
  BY ActionOf DEF EmitAlongAll, EmitAlongOne, Fork, EndMainProcess
<1>2. CallOf[p] \in FlowObjects
  BY DefinitionAssumption DEF OfKind
<1>3. e \in Events /\ e \in Items
  BY <1>2, ItemType DEF EventOps
<1>4. Rest = Tail(agenda)
  BY DEF Rest, Running
<1>5. EmitEvent(e, Rest) /\ UNCHANGED pending
  BY <1>1, <1>4 DEF EndCalledProcess
<1>6. Moves(<<e>>)
  BY <1>3, <1>5, EmitEventMoves
<1> HIDE DEF e
<1>7. Outstanding(e)' > 0
  BY <1>3, <1>6, OneOutstanding
<1> QED
  BY <1>7 DEF e

\* An entry for the activity of a called process goes on, or is taken by the step.
LEMMA CallEntry ==
  ASSUME TypeOK, AccountInv, [Next]_vars, NEW op \in {"startCall", "activityEnd", "activityDone"},
         NEW c \in FlowObjects, Outstanding(Item(op, c)) > 0
  PROVE  \/ Outstanding(Item(op, c))' > 0
         \/ Running(op) /\ Current = c
<1>1. Item(op, c) \in Items
  BY ItemType DEF EventOps, ContinuationOps, CallOps
<1>2. Received
  BY DEF AccountInv
<1>3. CASE agenda = << >> \/ Head(agenda) # Item(op, c)
  BY <1>1, <1>2, <1>3, StaysOutstanding
<1>4. CASE agenda # << >> /\ Head(agenda) = Item(op, c)
  BY <1>4 DEF Running, Current, Item
<1> QED
  BY <1>3, <1>4

\* A process that was called is alive until its activity has no token or is left.
LEMMA AliveStays ==
  ASSUME TypeOK, AccountInv, Main \notin called, DecisionsVisited, [Next]_vars,
         NEW p \in called \ {Main}, Alive(p), NEW c, c = CallOf[p]
  PROVE  \/ Alive(p)'
         \/ tokens'[c] = 0
         \/ ActivityLeft /\ Current = c
<1>1. TypeOK' /\ Effect
  BY NextType, StepEffect
<1>2. p \in Processes \ {Main} /\ c \in FlowObjects /\ Kind[c] = "call"
  BY DefinitionAssumption DEF TypeOK, OfKind
<1>3. Alive(p)' <=>
        \/ starts'[c] > 0
        \/ Outstanding(Item("activityEnd", c))' > 0
        \/ Outstanding(Item("activityDone", c))' > 0
        \/ \E x \in FlowObjects : ProcessOf[x] = p /\ Present(x)'
  BY DEF Alive
<1>4. CASE UNCHANGED vars
  <2>1. /\ starts' = starts /\ puts' = puts /\ leavings' = leavings /\ tokens' = tokens
        /\ visited' = visited
    BY <1>4, CountsSame DEF vars
  <2>2. ASSUME NEW e PROVE Outstanding(e)' = Outstanding(e)
    BY <1>4 DEF vars, Outstanding, OnAgenda, Held, Deferred, Occurrences, Receiver
  <2>3. /\ Outstanding(Item("activityEnd", c))' = Outstanding(Item("activityEnd", c))
        /\ Outstanding(Item("activityDone", c))' = Outstanding(Item("activityDone", c))
    BY <2>2
  <2>4. \A x : Present(x)' <=> Present(x)
    BY <2>1 DEF Present
  <2> QED
    BY <1>3, <2>1, <2>3, <2>4 DEF Alive
<1>5. ASSUME ~UNCHANGED vars, NEW op, Running(op) PROVE RunStep
  BY <1>5, StepOf DEF Running
<1>6. CASE ~UNCHANGED vars /\ starts[c] > 0
  <2>1. Outstanding(Item("startCall", c)) > 0
    BY <1>2, <1>6, CountsAreOutstanding
  <2>2. CASE Outstanding(Item("startCall", c))' > 0
    <3>1. starts'[c] = Outstanding(Item("startCall", c))'
      BY <1>1, <1>2, NextCounts DEF SameCounts
    <3> QED
      BY <1>3, <2>2, <3>1
  <2>3. CASE Running("startCall") /\ Current = c
    <3>1. StartCalledProcess
      BY <1>5, <1>6, <2>3, ActionOf
    <3>2. PICK q \in called : CallOf[q] = c /\ Proceed(<<Item("put", StartOf[q])>>)
      BY <2>3, <3>1 DEF StartCalledProcess
    <3>3. q = p
      BY <1>2, <3>2, ValidationAssumption DEF TypeOK
    <3>4. StartOf[p] \in FlowObjects /\ ProcessOf[StartOf[p]] = p
      BY <1>2, DefinitionAssumption, ValidationAssumption DEF OfKind
    <3> DEFINE x == Item("put", StartOf[p])
    <3>5. x \in Items /\ <<x>> \in Seq(Items)
      BY <3>4, ItemType DEF CallOps
    <3>6. agenda' = <<x>> \o Rest /\ UNCHANGED <<pending, deferred>>
      BY <2>3, <3>1, <3>2, <3>3 DEF Proceed, Rest, Running, StartCalledProcess
    <3>7. Moves(<<x>>)
      BY <3>5, <3>6, ProceedMoves
    <3>8. Outstanding(Item("put", StartOf[p]))' > 0
      BY <1>1, <3>5, <3>7, OneOutstanding
    <3>9. puts'[StartOf[p]] > 0
      BY <1>1, <3>4, <3>8, NextCounts DEF SameCounts
    <3> QED
      BY <1>3, <3>4, <3>9 DEF Present
  <2> QED
    BY <1>2, <2>1, <2>2, <2>3, CallEntry
<1>7. CASE ~UNCHANGED vars /\ Outstanding(Item("activityEnd", c)) > 0
  <2>1. CASE Running("activityEnd") /\ Current = c
    <3>1. ActivityEnds \/ UnhandledEvent
      BY <1>5, <1>7, <2>1, ActionOf
    <3> DEFINE e == Item("activityDone", c)
    <3>2. CASE ActivityEnds
      <4>1. CallHandler(e, Rest) /\ UNCHANGED deferred
        BY <2>1, <3>2 DEF ActivityEnds, Rest, Running
      <4>2. e \in Items
        BY <1>2, ItemType DEF ContinuationOps
      <4>3. Outstanding(e)' > 0
        BY <1>1, <4>1, <4>2, CallHandlerMoves, OneOutstanding
      <4> QED
        BY <1>3, <4>3
    <3>3. CASE UnhandledEvent
      <4>1. Head(agenda).at = c /\ Head(agenda).op = "activityEnd"
        BY <2>1 DEF Running, Current
      <4>2. Receiver(Head(agenda)) = ProcessOf[c]
        BY <1>2, <4>1 DEF Receiver
      <4>3. CanReach(ProcessOf[c], c) /\ (HasTokens(ProcessOf[c], c) <=> tokens[c] > 0)
        BY DEF CanReach, HasTokens
      <4>4. ~Running("catch") /\ ~Running("boundaryCatch")
        BY <2>1 DEF Running
      <4>5. ~(tokens[c] > 0) /\ tokens' = tokens
        BY <2>1, <3>3, <4>2, <4>3, <4>4 DEF UnhandledEvent
      <4>6. tokens[c] \in Nat
        BY <1>2 DEF TypeOK
      <4> QED
        BY <4>5, <4>6
    <3> QED
      BY <3>1, <3>2, <3>3
  <2> QED
    BY <1>2, <1>3, <1>7, <2>1, CallEntry
<1>8. CASE ~UNCHANGED vars /\ Outstanding(Item("activityDone", c)) > 0
  <2>1. CASE Running("activityDone") /\ Current = c
    BY <1>5, <1>8, <2>1, ActionOf
  <2> QED
    BY <1>2, <1>3, <1>8, <2>1, CallEntry
<1>9. CASE ~UNCHANGED vars /\ \E x \in FlowObjects : ProcessOf[x] = p /\ Present(x)
  <2>1. PICK x \in FlowObjects : ProcessOf[x] = p /\ Present(x)
    BY <1>9
  <2>2. CASE \E y \in FlowObjects : ProcessOf[y] = ProcessOf[x] /\ Present(y)'
    BY <1>3, <2>1, <2>2
  <2>3. CASE Running("ended") /\ Current = x /\ Kind[x] = "end"
    <3>1. RunStep
      BY <1>5, <1>9, <2>3
    <3>2. Outstanding(Item("activityEnd", CallOf[p]))' > 0
      BY <1>1, <1>2, <2>1, <2>3, <3>1, EndIsTold
    <3> QED
      BY <1>3, <3>2
  <2> QED
    BY <1>1, <2>1, <2>2, <2>3, PresentStays
<1> QED
  BY <1>4, <1>6, <1>7, <1>8, <1>9 DEF Alive

\* A token at a call has work, or its process is alive; one token only is without work.
Answering(c) == \E p \in called \ {Main} : CallOf[p] = c /\ Alive(p)

CallsGoOn ==
  \A c \in OfKind({"call"}) :
    tokens[c] <= WorkAt(c) \/ (Answering(c) /\ tokens[c] <= WorkAt(c) + 1)

LEMMA CalledGrows == Effect => called \subseteq called'
  BY DEF Effect, Keeps, Begins, Arrives, IsLeft, TakesActivity, Renews, Interrupts, TimesOut, Passes,
         Decides, Forks, GoesOn, Calls, Enters

LEMMA EnteredIsAnswering ==
  ASSUME TypeOK, TypeOK', EnterCall, NEW c \in FlowObjects, Current = c
  PROVE  ~Answering(c) /\ Answering(c)'
<1>1. agenda # << >> /\ Rest = Tail(agenda)
  BY DEF EnterCall, Running, Rest
<1>2. PICK p \in Processes \ ({Main} \cup called) : CallOf[p] = c /\ called' = called \cup {p}
  BY DEF EnterCall
<1>3. ASSUME Answering(c) PROVE FALSE
  <2>1. PICK q \in called \ {Main} : CallOf[q] = c
    BY <1>3 DEF Answering
  <2>2. q \in Processes \ {Main}
    BY DEF TypeOK
  <2>3. q = p
    BY <1>2, <2>1, <2>2, ValidationAssumption
  <2> QED
    BY <1>2, <2>3
<1> DEFINE e == Item("startCall", c)
<1>4. e \in Items
  BY ItemType DEF CallOps
<1>5. agenda' = Append(Tail(agenda), e) /\ UNCHANGED <<pending, deferred>>
  BY DEF EnterCall
<1>6. Moves(<<e>>)
  BY <1>1, <1>5, AppendMoves
<1>7. Outstanding(e)' > 0
  <2> HIDE DEF e
  <2> QED
    BY <1>4, <1>6, OneOutstanding
<1>8. starts'[c] > 0
  BY <1>7, NextCounts DEF SameCounts
<1>9. Alive(p)'
  BY <1>2, <1>8 DEF Alive
<1> QED
  BY <1>2, <1>3, <1>9 DEF Answering

LEMMA CallsGoOnStep ==
  ASSUME TypeOK, AccountInv, Main \notin called, DecisionsVisited, [Next]_vars, CallsGoOn
  PROVE  CallsGoOn'
<1> SUFFICES ASSUME NEW c \in OfKind({"call"})
             PROVE  tokens'[c] <= WorkAt(c)' \/ (Answering(c)' /\ tokens'[c] <= WorkAt(c)' + 1)
  BY DEF CallsGoOn, OfKind
<1> DEFINE before == WorkAt(c)
           after == WorkAt(c)'
<1>1. TypeOK' /\ Effect /\ c \in FlowObjects /\ Kind[c] = "call"
  BY NextType, StepEffect DEF OfKind
<1>2. tokens[c] \in Nat /\ tokens'[c] \in Nat /\ before \in Nat /\ after \in Nat
  BY <1>1, WorkType DEF TypeOK
<1>3. tokens[c] <= before \/ (Answering(c) /\ tokens[c] <= before + 1)
  BY DEF CallsGoOn
<1>4. CASE UNCHANGED vars
  <2>1. tokens' = tokens /\ called' = called /\ visited' = visited
    BY <1>4 DEF vars
  <2>2. after = before
    BY <1>4 DEF vars, WorkAt, OnAgenda, Held, Deferred, Occurrences
  <2>3. starts' = starts /\ puts' = puts /\ leavings' = leavings
    BY <1>4, CountsSame DEF vars
  <2>4. ASSUME NEW e PROVE Outstanding(e)' = Outstanding(e)
    BY <1>4 DEF vars, Outstanding, OnAgenda, Held, Deferred, Occurrences, Receiver
  <2>5. ASSUME NEW p, Alive(p) PROVE Alive(p)'
    <3>1. /\ Outstanding(Item("activityEnd", CallOf[p]))' = Outstanding(Item("activityEnd", CallOf[p]))
          /\ Outstanding(Item("activityDone", CallOf[p]))' = Outstanding(Item("activityDone", CallOf[p]))
      BY <2>4
    <3>2. \A x : Present(x)' <=> Present(x)
      BY <2>1, <2>3 DEF Present
    <3> QED
      BY <2>3, <2>5, <3>1, <3>2 DEF Alive
  <2>6. Answering(c) => Answering(c)'
    BY <2>1, <2>5 DEF Answering
  <2> HIDE DEF before, after
  <2>7. tokens'[c] <= after \/ (Answering(c)' /\ tokens'[c] <= after + 1)
    BY <1>3, <2>1, <2>2, <2>6
  <2> QED
    BY <2>7 DEF after
<1>5. CASE EnterCall /\ Current = c
  <2>1. ~Answering(c) /\ Answering(c)'
    BY <1>1, <1>5, EnteredIsAnswering
  <2>2. tokens'[c] = IF tokens[c] > 0 THEN tokens[c] ELSE 1
    BY <1>1, <1>5 DEF EnterCall, Renewed, TypeOK
  <2>3. after >= before \/ (before > 0 /\ after >= before - 1)
    <3>1. c \notin CatchEvents
      BY <1>1 DEF CatchEvents, OfKind
    <3> QED
      BY <1>1, <3>1, WorkStays
  <2> HIDE DEF before, after
  <2>4. tokens'[c] <= after + 1
    BY <1>2, <1>3, <2>1, <2>2, <2>3
  <2> QED
    BY <2>1, <2>4 DEF after
<1>6. CASE ~UNCHANGED vars /\ ~(EnterCall /\ Current = c)
  <2>1. after >= before
    <3>1. c \notin CatchEvents
      BY <1>1 DEF CatchEvents, OfKind
    <3>2. ~(Running("handled") /\ Current = c)
      <4> SUFFICES ASSUME Running("handled"), Current = c PROVE FALSE
        OBVIOUS
      <4>1. RunStep
        BY <1>6, StepOf DEF Running
      <4>2. WaitTaskHandled \/ FlowObjectHandled \/ JoinCompletes \/ JoinWaits
        BY <1>6, <4>1, ActionOf
      <4> QED
        BY <1>1, <4>2 DEF WaitTaskHandled, FlowObjectHandled, JoinCompletes, JoinWaits
    <3> QED
      BY <1>1, <3>1, <3>2, WorkStays
  <2>2. tokens'[c] <= tokens[c] \/ (tokens'[c] = tokens[c] + 1 /\ after = before + 1)
    <3>1. CASE PutToken /\ Current = c /\ tokens'[c] = tokens[c] + 1
      BY <1>1, <3>1, PutIsWork
    <3>2. ~((JoinCompletes \/ JoinWaits) /\ Current = c)
      BY <1>1 DEF JoinCompletes, JoinWaits
    <3> QED
      BY <1>1, <1>6, <3>1, <3>2, TokensGrow
  <2>3. CASE tokens[c] <= before
    <3> HIDE DEF before, after
    <3>1. tokens'[c] <= after
      BY <1>2, <2>1, <2>2, <2>3
    <3> QED
      BY <3>1 DEF after
  <2>4. CASE ~(tokens[c] <= before)
    <3>1. PICK p \in called \ {Main} : CallOf[p] = c /\ Alive(p)
      BY <1>3, <2>4 DEF Answering
    <3>2. tokens'[c] <= after + 1
      <4> HIDE DEF before, after
      <4> QED
        BY <1>2, <1>3, <2>1, <2>2
    <3>3. CASE Alive(p)'
      <4>1. p \in called' \ {Main}
        BY <1>1, CalledGrows
      <4>2. Answering(c)'
        BY <3>1, <3>3, <4>1 DEF Answering
      <4> QED
        BY <3>2, <4>2
    <3>4. CASE tokens'[c] = 0
      <4> HIDE DEF before, after
      <4>1. tokens'[c] <= after
        BY <1>2, <3>4
      <4> QED
        BY <4>1 DEF after
    <3>5. CASE ActivityLeft /\ Current = c
      <4>1. c \notin BoundaryEvents
        BY <1>1 DEF BoundaryEvents, OfKind
      <4>2. tokens' = Remove(c)
        BY <3>5, <4>1 DEF ActivityLeft, Leave
      <4>3. tokens'[c] = IF tokens[c] > 0 THEN tokens[c] - 1 ELSE 0
        BY <1>1, <4>2 DEF Remove, TypeOK
      <4> HIDE DEF before, after
      <4>4. tokens'[c] <= after
        BY <1>2, <1>3, <2>1, <4>3
      <4> QED
        BY <4>4 DEF after
    <3> QED
      BY <3>1, <3>3, <3>4, <3>5, AliveStays
  <2> QED
    BY <2>3, <2>4
<1> QED
  BY <1>4, <1>5, <1>6

(****************************************************************************)
(* At rest, nothing is outstanding: what still has a token waits.           *)
(****************************************************************************)

LEMMA NothingOutstanding ==
  ASSUME TypeOK, Quiet
  PROVE  /\ \A e \in Items : Outstanding(e) = 0
         /\ \A o \in FlowObjects :
              WorkAt(o) = 0 /\ puts[o] = 0 /\ starts[o] = 0 /\ leavings[o] = 0
<1>1. ASSUME NEW e \in Items PROVE Outstanding(e) = 0
  <2>1. OnAgenda(e) = 0
    BY OccurrencesFew, Zenon DEF OnAgenda, Quiet
  <2>2. Held(e) = 0
    BY DEF Quiet, Held
  <2>3. Deferred(Receiver(e), e) = 0
    <3>1. deferred[Receiver(e)] = << >>
      BY ReceiverType DEF Quiet
    <3> QED
      BY <3>1, OccurrencesFew, Zenon DEF Deferred
  <2> QED
    BY <2>1, <2>2, <2>3 DEF Outstanding
<1>2. ASSUME NEW o \in FlowObjects
      PROVE  WorkAt(o) = 0 /\ puts[o] = 0 /\ starts[o] = 0 /\ leavings[o] = 0
  <2>1. \A op \in Ops : Outstanding(Item(op, o)) = 0
    BY <1>1, ItemType DEF Ops
  <2>2. /\ Outstanding(Item("put", o)) = 0 /\ Outstanding(Item("startCall", o)) = 0
        /\ Outstanding(Item("ended", o)) = 0 /\ Outstanding(Item("timerHandled", o)) = 0
        /\ Outstanding(Item("begun", o)) = 0 /\ Outstanding(Item("arrived", o)) = 0
        /\ Outstanding(Item("handled", o)) = 0
    BY <2>1 DEF Ops, EventOps, ContinuationOps, CallOps
  <2> QED
    BY <2>2, CountsAreOutstanding, WorkOutstanding
<1> QED
  BY <1>1, <1>2

LEMMA RestingTokensWait ==
  ASSUME TypeOK, TokensHaveWork, JoinsGoOn, CallsGoOn
  PROVE  NoTokenStranded
<1> SUFFICES ASSUME Quiet, NEW o \in FlowObjects, tokens[o] > 0 PROVE Waits(o)
  BY DEF NoTokenStranded
<1>1. /\ \A e \in Items : Outstanding(e) = 0
      /\ \A x \in FlowObjects :
           WorkAt(x) = 0 /\ puts[x] = 0 /\ starts[x] = 0 /\ leavings[x] = 0
  BY NothingOutstanding
<1>2. tokens \in [FlowObjects -> Nat] /\ Kind[o] \in Kinds
  BY DefinitionAssumption DEF TypeOK
<1>3. CASE Kind[o] \in {"start", "end", "task", "xor", "message", "timeout"}
  <2>1. tokens[o] = WorkAt(o)
    BY <1>3, AutomaticFacts DEF TokensHaveWork
  <2> QED
    BY <1>1, <1>2, <2>1
<1>4. CASE Kind[o] = "and"
  <2>1. WorkAt(o) = 0 /\ leavings[o] = 0
    BY <1>1
  <2>2. tokens[o] # Incoming(o)
    BY <1>4, <2>1 DEF JoinsGoOn, OfKind
  <2> QED
    BY <1>4, <2>2 DEF Waits
<1>5. CASE Kind[o] = "call"
  <2>1. WorkAt(o) = 0 /\ tokens[o] \in Nat
    BY <1>1, <1>2
  <2>2. tokens[o] <= WorkAt(o) \/ (Answering(o) /\ tokens[o] <= WorkAt(o) + 1)
    BY <1>5 DEF CallsGoOn, OfKind
  <2>3. Answering(o)
    BY <2>1, <2>2
  <2>4. PICK p \in called \ {Main} : CallOf[p] = o /\ Alive(p)
    BY <2>3 DEF Answering
  <2>5. Item("activityEnd", o) \in Items /\ Item("activityDone", o) \in Items
    BY ItemType DEF EventOps, ContinuationOps
  <2>6. PICK x \in FlowObjects : ProcessOf[x] = p /\ Present(x)
    BY <1>1, <2>4, <2>5 DEF Alive
  <2>7. tokens[x] > 0 \/ x \in Undecided \cap visited
    BY <1>1, <2>6 DEF Present
  <2> QED
    BY <1>5, <2>4, <2>6, <2>7 DEF Waits
<1>6. CASE Kind[o] \in {"waitTask", "catch", "timerCatch"}
  BY <1>6 DEF Waits
<1> QED
  BY <1>2, <1>3, <1>4, <1>5, <1>6 DEF Kinds

\* What NoTokenStranded needs to be inductive.
RestInv ==
  /\ TypeOK /\ AccountInv /\ Main \notin called /\ WorkVisited /\ DecisionsVisited
  /\ JoinsGoOn /\ CallsGoOn

LEMMA RestInit == Init /\ TypeOK /\ AccountInv => RestInv
<1> SUFFICES ASSUME Init, TypeOK, AccountInv PROVE RestInv
  OBVIOUS
<1>1. \A o \in FlowObjects : tokens[o] = 0 /\ WorkAt(o) \in Nat
  BY WorkType DEF Init
<1>2. JoinsGoOn
  BY <1>1 DEF JoinsGoOn, OfKind
<1>3. CallsGoOn
  BY <1>1 DEF CallsGoOn, OfKind
<1>4. Main \notin called
  BY DEF Init
<1>5. WorkVisited /\ DecisionsVisited
  BY NothingCounted, WorkItemTypes DEF WorkVisited, DecisionsVisited, OfKind
<1> QED
  BY <1>2, <1>3, <1>4, <1>5 DEF RestInv

LEMMA RestStep == RestInv /\ AccountInv' /\ [Next]_vars => RestInv'
<1> SUFFICES ASSUME RestInv, AccountInv', [Next]_vars PROVE RestInv'
  OBVIOUS
<1>1. /\ TypeOK /\ AccountInv /\ Main \notin called /\ WorkVisited /\ DecisionsVisited
      /\ JoinsGoOn /\ CallsGoOn
  BY DEF RestInv
<1>2. TypeOK' /\ Main \notin called'
  BY <1>1, NextType, StepEffect, MainIsNotCalled
<1>3. JoinsGoOn' /\ CallsGoOn'
  BY <1>1, JoinsGoOnStep, CallsGoOnStep
<1>4. WorkVisited' /\ DecisionsVisited'
  BY <1>1, <1>2, StepEffect, WorkVisitedStep, DecisionsVisitedStep
<1> QED
  BY <1>2, <1>3, <1>4 DEF RestInv

\* The engine forgets no token: when nothing runs, nothing is deferred and no handler has
\* an answer to give, every token that is left waits for the client, for a timer, for the
\* other tokens of a join, or for a called process that has a token itself or lost one at a
\* gateway without a true condition.  For every definition, however late handlers are,
\* whatever saves fail, and whatever the client does.
THEOREM NoTokenIsForgotten == Spec => []NoTokenStranded
<1>1. Spec => []TypeOK
  BY TypeCorrectness
<1>2. Spec => []AccountInv
  BY AccountInit, AccountStep, TypeCorrectness, PTL DEF Spec
<1>3. Spec => []RestInv
  BY <1>1, <1>2, RestInit, RestStep, PTL DEF Spec
<1>4. RestInv => NoTokenStranded
  <2>1. AccountInv => TokensHaveWork
    BY DEF AccountInv
  <2> QED
    BY <2>1, RestingTokensWait DEF RestInv
<1> QED
  BY <1>3, <1>4, PTL
===============================================================================
