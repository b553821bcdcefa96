---------------------------- MODULE MCFileStorage ----------------------------
(* Symmetry for the instances of FileStorage that TLC checks. *)
EXTENDS FileStorage, TLC

HandlerSymmetry == Permutations(Handlers)
=============================================================================
