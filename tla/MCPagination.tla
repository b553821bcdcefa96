---------------------------- MODULE MCPagination ----------------------------
(* Instances of Pagination for TLC. *)
EXTENDS Pagination

\* What follows a walk that has ended also follows the table it ended with
\* before any walk (Begin resets the rest), so it is not explored again; nor is
\* a walk of which WalksComplete claims nothing any more.
StillPromises ==
  \/ walk = NoWalk
  \/ walk.pc # "done" /\ settled # {} /\ (walk.mode = "cursor" \/ ~moved)
=============================================================================
