---------------------------- MODULE MCTuiRefresh ----------------------------
(* Two channels that may be listed or not, two changes of the files and    *)
(* one failure to read them.                                               *)
EXTENDS TuiRefresh
=============================================================================
