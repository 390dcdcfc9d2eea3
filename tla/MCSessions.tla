----------------------------- MODULE MCSessions -----------------------------
(* Finite instances of Sessions. *)
EXTENDS Sessions, TLC

HandlerSymmetry == Permutations(Handlers)
=============================================================================
