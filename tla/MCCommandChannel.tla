-------------------------- MODULE MCCommandChannel --------------------------
(* Small instances of CommandChannel for TLC.                              *)
EXTENDS CommandChannel, TLC

\* The callers are interchangeable: no definition names one of them.
CallerSymmetry == Permutations(Callers)
=============================================================================
