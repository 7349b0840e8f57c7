------------------------------ MODULE MCLoadRun ------------------------------
(* Small instances of LoadRun for TLC. *)
EXTENDS LoadRunDocs

NoFaults  == {}
AllFaults == {"raise", "cancel", "crash"}

NoQuery     == {}
SecondQuery == {2}
=============================================================================
