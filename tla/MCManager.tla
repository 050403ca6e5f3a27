------------------------------- MODULE MCManager -------------------------------
(****************************************************************************)
(* Two definitions, one process in the store; a message that is put twice,  *)
(* a collaboration and calls that race with it for an id.                   *)
(****************************************************************************)
EXTENDS ManagerProperties, TLC

CONSTANTS a, b, stored, document, double, i, k, putter, maker, other

MCNames    == {a, b}
MCIds      == {stored, i, k}
MCNameOf   == stored :> a @@ i :> a @@ k :> b
MCIdOf     == document :> stored @@ double :> stored
MCStores   == {{document}, {document, double}}
MCRequests == {putter, maker, other}

Put       == [op |-> "get", ids |-> <<stored>>, route |-> "message", message |-> "m"]
Collaborating(main) == [op |-> "create", ids |-> <<i, k>>, route |-> "collaborate", main |-> main]

MCCalls ==
  putter :> {Put}
  @@ maker :> {Collaborating(i)}
  @@ other :> {Put,
               Collaborating(Nothing),
               [op |-> "createById", ids |-> <<i>>, route |-> "none"],
               [op |-> "createOne", ids |-> <<i>>, route |-> "create"],
               [op |-> "findByName", name |-> a, route |-> "processes"]}
===============================================================================
