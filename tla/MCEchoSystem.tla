---------------------------- MODULE MCEchoSystem ----------------------------
(* One processing of two tiles through all services. *)
EXTENDS EchoSystem, TLC

CONSTANTS p1, w1, w2

MCProcOf == (w1 :> p1) @@ (w2 :> p1)

\* The tiles of one processing are alike.
TileSymmetry == Permutations({w1, w2})
=============================================================================
