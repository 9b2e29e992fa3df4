----------------------------- MODULE MCPanelLink -----------------------------
(* Small instances of PanelLink for TLC.                                   *)
EXTENDS PanelLink, TLC

\* No definition names a connection.
SessionSymmetry == Permutations(Sessions)
=============================================================================
