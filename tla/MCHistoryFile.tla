---------------------------- MODULE MCHistoryFile ----------------------------
(* Small instances of HistoryFile for TLC.                                 *)
EXTENDS HistoryFile

CONSTANTS t1, t2
=============================================================================
