------------------------------- MODULE MCJobs -------------------------------
(* TLC instances of Jobs.                                                  *)
EXTENDS Jobs
=============================================================================
