---------------------------- MODULE MCBlockIndex ----------------------------
(* Levels of up to four faces and directories of up to four tiles; 2^64 is *)
(* played by 40, so that a position can wrap.                              *)
EXTENDS BlockIndex

MCTileLogs == -1..2
MCFaceRes == {[u |-> 1, v |-> 1], [u |-> 2, v |-> 0]}
=============================================================================
