------------------------------ MODULE MCDefinitions ------------------------------
(****************************************************************************)
(* Files with what the parser has to tell apart: collaborations before and  *)
(* after their processes, nested sub-processes, processes that are not      *)
(* executable, and each kind of error.                                      *)
(****************************************************************************)
EXTENDS DefinitionProperties

Tag(kind, id)        == [open |-> TRUE, kind |-> kind, id |-> id, name |-> id]
Close(kind, id)      == [open |-> FALSE, kind |-> kind, id |-> id]
Named(kind, id, n)   == [open |-> TRUE, kind |-> kind, id |-> id, name |-> n]
Flow(id, s, t)       == [open |-> TRUE, kind |-> "sequenceFlow", id |-> id, name |-> id,
                         source |-> s, target |-> t]
Message(id, s, t)    == [open |-> TRUE, kind |-> "messageFlow", id |-> id, name |-> id,
                         source |-> s, target |-> t]
Boundary(id, at)     == [open |-> TRUE, kind |-> "boundaryEvent", id |-> id, name |-> id,
                         attachedTo |-> at]
Pool(id, p)          == [open |-> TRUE, kind |-> "participant", id |-> id, name |-> id,
                         processRef |-> p]
Call(id, l)          == [open |-> TRUE, kind |-> "callActivity", id |-> id, name |-> id,
                         location |-> l]
Process(id, exec, content) ==
  <<[open |-> TRUE, kind |-> "process", id |-> id, name |-> id, executable |-> exec]>>
    \o content \o <<Close("process", id)>>
SubProcess(id, content) == <<Tag("subProcess", id)>> \o content \o <<Close("subProcess", id)>>
Collaboration(id, content) ==
  <<Tag("collaboration", id)>> \o content \o <<Close("collaboration", id)>>

\* start -> m -> end, where m is one tag or several
Line(s, m, content, e) ==
  <<Tag("startEvent", s), Flow(s \o m, s, m)>> \o content
    \o <<Flow(m \o e, m, e), Tag("endEvent", e)>>

Timeout(b, at, e) ==
  <<Boundary(b, at), Tag("timerEventDefinition", b \o "t"), Close("boundaryEvent", b),
    Flow(b \o e, b, e)>>

Catch(id) == <<Tag("intermediateEvent", id), Tag("messageEventDefinition", id \o "m"),
               Close("intermediateEvent", id)>>

Seller == Process("P", TRUE, Line("s", "u", <<Tag("userTask", "u")>> \o Timeout("b", "u", "e"), "e"))
Buyer  == Process("Q", TRUE, Line("s1", "c", Catch("c"), "e1"))
Paper  == Process("R", FALSE, Line("s2", "S2", SubProcess("S2", Catch("x")), "e2"))
Trade  == Collaboration("C", <<Pool("seller", "P"), Pool("buyer", "Q"), Pool("again", "R"),
                               Message("m1", "u", "c"), Message("m2", "c", "u"),
                               Message("m3", "s", "u"), Message("m4", "x", "c")>>)
Other  == Collaboration("D", <<Pool("buyer", "Q"), Pool("partner", "P"), Message("m5", "c", "u")>>)

Nested ==
  Process("P", TRUE,
    Line("s", "S1", SubProcess("S1",
      Line("s1", "S2", SubProcess("S2", Line("s2", "u", <<Tag("serviceTask", "u")>>, "e2")), "e1")
        \o <<Boundary("b", "u1"), Flow("be1", "b", "e1")>>),
      "e"))

\* Twins with one name, which lookups by name do not survive.
Fork(g, n, out) ==
  Process("P", TRUE,
    <<Tag("startEvent", "s"), Flow("sg", "s", "g"), Tag(g, "g"), Named("sequenceFlow", "o1", n)
        @@ [source |-> "g", target |-> "t1"], Flow("o2", out, "t2"),
      Named("userTask", "t1", "twin"), Named("userTask", "t2", "twin"),
      Flow("f1", "t1", "e"), Flow("f2", "t2", "e"), Tag("endEvent", "e")>>)

Faulty ==
  { Fork("exclusiveGateway", "", "g"),
    Fork("parallelGateway", "o1", "t1"),
    Fork("otherGateway", "o1", "g"),
    Process("P", TRUE, <<Tag("startEvent", "s"), Call("a", ""), Tag("endEvent", "e"), Flow("es", "e", "s")>>),
    Collaboration("C", <<Pool("seller", "P"), Pool("again", "P")>>) \o Seller }

MCDocuments ==
  { <<Tag("debugger", "position")>> \o Trade \o Seller \o Paper \o Buyer, Other \o Buyer \o Trade \o Seller, Nested,
    Fork("exclusiveGateway", "o1", "g"), Fork("parallelGateway", "o1", "g") } \cup Faulty

MCIds == {t.id : t \in UNION {{d[i] : i \in DOMAIN d} : d \in MCDocuments}}
===============================================================================
