--------------------------- MODULE MongoPersistency ---------------------------
(****************************************************************************)
(* lib/persistency/mongodb.js: one connection per URI, which the first call *)
(* opens and the others wait for at an event emitter, until a call of       *)
(* close().  A connection and an emitter are named after the call that      *)
(* opened or created it.                                                    *)
(****************************************************************************)
EXTENDS PersistencyCalls

VARIABLES
  connection,  \* uniqueDbConnections[uri]
  emitter,     \* waitingForConnectionEventEmitters[uri]
  listens,     \* [Calls -> Calls \cup {Nobody}]: the emitter the call has a listener at
  closes,      \* [Calls -> Calls \cup {Nobody}]: the connection a close is closing
  onWire,      \* calls of the driver: the call, its connection, the state it carries
  closed       \* connections that were closed

mongoVars == <<connection, emitter, listens, closes, onWire, closed>>

MongoInit ==
  /\ connection = Nobody
  /\ emitter = Nobody
  /\ listens = [c \in Calls |-> Nobody]
  /\ closes = [c \in Calls |-> Nobody]
  /\ onWire = {}
  /\ closed = {}

\* Mutant of Reset: the emitter stays in the table.
ResetConnectionOnly == connection' = Nobody /\ UNCHANGED emitter

\* _resetConnection
Reset == connection' = Nobody /\ emitter' = Nobody

\* dbCall.call(self, db, argument, done) for each of cs: the driver copies the state.
Wire(cs, db) == {[call |-> c, db |-> db, state |-> live[call[c].proc]] : c \in cs}

\* _execute
Execute(c, op, p) ==
  /\ op # "close"
  /\ Request(c, op, p)
  /\ \/ /\ connection # Nobody
        /\ onWire' = onWire \cup {[call |-> c, db |-> connection, state |-> live[p]]}
        /\ Becomes(c, "sent")
        /\ UNCHANGED <<emitter, listens>>
     \/ /\ connection = Nobody
        /\ emitter # Nobody
        /\ listens' = [listens EXCEPT ![c] = emitter]
        /\ Becomes(c, "listening")
        /\ UNCHANGED <<emitter, onWire>>
     \/ /\ connection = Nobody
        /\ emitter = Nobody
        /\ emitter' = c
        /\ Becomes(c, "opening")
        /\ UNCHANGED <<listens, onWire>>
  /\ UNCHANGED <<connection, closes, closed>>

\* The callback of _connect reads the table again.  Its emitter is gone after a close
\* that was called before: emit is then called on undefined.
Listeners == {c \in Calls : emitter # Nobody /\ listens[c] = emitter}

\* Mutant of Connected: a call that waits is served at once, and again over the
\* connection.
ConnectedTwice(c) ==
  /\ stage[c] = "opening"
  /\ connection' = c
  /\ onWire' = onWire \cup Wire({c} \cup Listeners, c)
  /\ AnswerAll(Listeners, Done({}))
  /\ UNCHANGED <<live, documents, call, trouble, emitter, listens, closes, closed>>

Connected(c) ==
  /\ stage[c] = "opening"
  /\ connection' = c
  /\ IF emitter # Nobody
     THEN /\ onWire' = onWire \cup Wire(Listeners \cup {c}, c)
          /\ stage' = [d \in Calls |-> IF d \in Listeners \cup {c} THEN "sent" ELSE stage[d]]
          /\ UNCHANGED <<answers, result>>
     ELSE Becomes(c, "thrown") /\ UNCHANGED onWire
  /\ UNCHANGED <<live, documents, call, trouble, emitter, listens, closes, closed>>

\* Everybody who waits is told the error, and the tables are reset each time.
NotConnected(c) ==
  /\ stage[c] = "opening"
  /\ IF emitter # Nobody
     THEN Reset /\ AnswerAll(Listeners \cup {c}, Failure)
     ELSE Becomes(c, "thrown") /\ UNCHANGED <<connection, emitter>>
  /\ UNCHANGED <<live, documents, call, trouble, listens, closes, onWire, closed>>

\* _findAndModify with upsert, which the server executes as one step.
FindAndModify(o) ==
  /\ o.db \notin closed
  /\ call[o.call].op = "persist"
  /\ \/ DocumentsOf(call[o.call].proc) = {} /\ Insert(o.call, o.state)
     \/ \E d \in DocumentsOf(call[o.call].proc) : Update(d, o.state)
  /\ Answer(o.call, Done({}))
  /\ onWire' = onWire \ {o}
  /\ UNCHANGED <<live, call, trouble, connection, emitter, listens, closes, closed>>

\* _find and _findAll; a load that finds two documents fails.
Find(o) ==
  /\ o.db \notin closed
  /\ call[o.call].op # "persist"
  /\ Answer(o.call,
            IF call[o.call].op = "load" /\ Cardinality(Found(o.call)) > 1
            THEN Failure ELSE Done(Found(o.call)))
  /\ onWire' = onWire \ {o}
  /\ UNCHANGED <<live, documents, call, trouble, connection, emitter, listens, closes, closed>>

\* The driver reports an error, as it does for a connection that was closed.
DriverFails(o) ==
  /\ Answer(o.call, Failure)
  /\ onWire' = onWire \ {o}
  /\ UNCHANGED <<live, documents, call, trouble, connection, emitter, listens, closes, closed>>

\* close: without a connection there is nothing to do.
Close(c, p) ==
  /\ Request(c, "close", p)
  /\ IF connection # Nobody
     THEN Becomes(c, "closing") /\ closes' = [closes EXCEPT ![c] = connection]
     ELSE Answer(c, Done({})) /\ UNCHANGED closes
  /\ UNCHANGED <<connection, emitter, listens, onWire, closed>>

\* connection.close(true, ...) calls back: what the tables hold by now is dropped.
Closed(c) ==
  /\ stage[c] = "closing"
  /\ closed' = closed \cup {closes[c]}
  /\ Reset
  /\ Answer(c, Done({}))
  /\ UNCHANGED <<live, documents, call, trouble, listens, closes, onWire>>

DriverAnswers(c) ==
  \/ Connected(c) \/ NotConnected(c) \/ Closed(c)
  \/ \E o \in onWire : o.call = c /\ (FindAndModify(o) \/ Find(o) \/ DriverFails(o))

MongoNext ==
  \E c \in Calls :
    \/ \E p \in Procs : Close(c, p) \/ \E op \in Ops : Execute(c, op, p)
    \/ DriverAnswers(c)
===============================================================================
