------------------------------ MODULE MCReadiness ------------------------------
(* Small instances of Readiness for TLC. *)
EXTENDS Readiness

(* A GPU that is in use and has room, and what sample_all reports of a GPU   *)
(* whose sensors it could not read.                                         *)
MCUsed  == [total |-> 2, used |-> 1, util |-> 30]
MCBlank == [total |-> 0, used |-> 0, util |-> -1]

MCReadings == {MCUsed, MCBlank}
MCRequests == {0, 2}

(* Once the last request is answered nothing changes in what was answered.  *)
Unanswered == requests < MaxRequests \/ hpc # "idle"
=============================================================================
