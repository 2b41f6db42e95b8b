------------------------------ MODULE MCAlarm ------------------------------
(***************************************************************************)
(* Instances of Alarm for TLC, with 3 for i64::MAX and 7 for u64::MAX. Id  *)
(* 4 reads back as id 0 of the same owner. An alarm of period 6 that fires *)
(* at 1 is next due at 7, which reads back as 0; one that fires at 2 wraps *)
(* around.                                                                 *)
(***************************************************************************)
EXTENDS Alarm
=============================================================================
