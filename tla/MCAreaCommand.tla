---------------------------- MODULE MCAreaCommand ----------------------------
(* Small instances of AreaCommand for TLC.                                 *)
EXTENDS AreaCommand
=============================================================================
