---------------------------- MODULE MCFat12File -----------------------------
(***************************************************************************)
(* Fat12File with files of up to four clusters on a disk of four, read in  *)
(* pieces that end before, at and behind a cluster boundary and the end of *)
(* the file.                                                               *)
(***************************************************************************)
EXTENDS Fat12File

MCRequest == {0, 1, 3, 4, 15, 31}
MCPosition == {0, 2, 3, 7}
MCForeign == {0, 3, 4095}
=============================================================================
