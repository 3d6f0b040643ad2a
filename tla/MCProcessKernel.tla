--------------------------- MODULE MCProcessKernel ---------------------------
(***************************************************************************)
(* ProcessKernel for TLC.  The processes are interchangeable as long as no *)
(* process is on the list at first, so safety runs use their symmetry.     *)
(***************************************************************************)
EXTENDS ProcessKernel, TLC

Symmetry == Permutations(Process)
=============================================================================
