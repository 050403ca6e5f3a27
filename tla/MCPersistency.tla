----------------------------- MODULE MCPersistency -----------------------------
(****************************************************************************)
(* Two processes that make calls in any order, one of which changes: a call*)
(* that opens the connection, one that waits for it, and one that comes     *)
(* later; or two saves that overlap, and a load.                            *)
(****************************************************************************)
EXTENDS Persistency

CONSTANTS p1, p2, c1, c2, c3

MCProcs == {p1, p2}
MCCalls == {c1, c2, c3}
MCMaxChanges == [p \in MCProcs |-> IF p = p1 THEN 1 ELSE 0]
===============================================================================
