---------------------------- MODULE MCRingBuffer ----------------------------
(* Instance of RingBuffer for TLC: the size constants of constants.rs are  *)
(* scaled down, 256 to 3 for the smallest ring and 16 to 1 for the         *)
(* smallest threshold.                                                     *)
EXTENDS RingBuffer

MCByte == {0, 1, 2}
MCRingSizes == {0, 4, 5}
MCDiffSizes == {0, 2}
=============================================================================
