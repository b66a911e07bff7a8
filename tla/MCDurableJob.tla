---------------------------- MODULE MCDurableJob ----------------------------
(* Two transactions: one schedules the job, the other cancels it and        *)
(* schedules it anew, as PostService.update does.                           *)
EXTENDS DurableJob, TLC

CONSTANTS j1, c2, j2, t1, t2

MCProgram == t1 :> <<j1>> @@ t2 :> <<c2, j2>>
=============================================================================
