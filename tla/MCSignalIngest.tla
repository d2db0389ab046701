--------------------------- MODULE MCSignalIngest ---------------------------
(***************************************************************************)
(* Small instances of SignalIngest: a window of one day, and moments half  *)
(* a day apart on both sides of it.                                        *)
(***************************************************************************)
EXTENDS SignalIngest

CONSTANTS lane1, lane2, id1, noid, text1, text2
=============================================================================
