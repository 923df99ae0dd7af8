--------------------------- MODULE MCEngineQueue ---------------------------
(***************************************************************************)
(* A small instance of EngineQueue for TLC: a small write, one larger than *)
(* the bound, which never waits beside it, an ask and a barrier.           *)
(***************************************************************************)
EXTENDS EngineQueue, TLC

MCCountOf == [w \in Writes |-> IF w = "big" THEN 3 ELSE 1]
=============================================================================
