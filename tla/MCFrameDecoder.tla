---------------------------- MODULE MCFrameDecoder ----------------------------
(* Small instances of FrameDecoder for TLC.                                *)
EXTENDS FrameDecoder

\* Magic is 9, flags are 0 or 1 (encrypted).  The second frame carries what looks
\* like the first's header.
MCShapes == {<<3, 9, 0>>, <<5, 9, 0, 3, 9>>, <<4, 9, 1, 7>>}
\* Of a header: a short length, a long one, and the magic, an implausible length.
MCNoise == {4, 8, 9}
=============================================================================
