---------------------------- MODULE MCCronDaemon ----------------------------
(* CronDaemon on a small instance: four minutes a day, jobs due at two marks *)
(* in a row, so that the second is met while the first runs.                 *)
EXTENDS CronDaemon

TwoMarks == {2, 4}
=============================================================================
