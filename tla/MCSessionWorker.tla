--------------------------- MODULE MCSessionWorker ---------------------------
(***************************************************************************)
(* TLC instances of SessionWorker.  Workers and inodes are interchangeable *)
(* for the safety runs; the liveness run uses no symmetry.                 *)
(***************************************************************************)
EXTENDS SessionWorker, TLC

Symmetry == Permutations(Workers) \cup Permutations(Inodes)
=============================================================================
