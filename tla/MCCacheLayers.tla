--------------------------- MODULE MCCacheLayers ---------------------------
(* Instances of CacheLayers for TLC. *)
EXTENDS CacheLayers, TLC

HandlerSymmetry == Permutations(Handlers)
=============================================================================
