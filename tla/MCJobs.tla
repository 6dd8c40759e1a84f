------------------------------- MODULE MCJobs -------------------------------
(* The job registry with jobs queued on one session, for TLC. *)
EXTENDS Jobs
=============================================================================
