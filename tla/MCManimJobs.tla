----------------------------- MODULE MCManimJobs -----------------------------
(***************************************************************************)
(* One job, which the API and the workers contend for: two requests, two   *)
(* worker tasks and three submissions, so that a finished record is        *)
(* replaced while an earlier run of it is still at work.                   *)
(***************************************************************************)
EXTENDS ManimJobs

=============================================================================
