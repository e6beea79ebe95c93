--------------------------- MODULE MCScheduledJobs ---------------------------
(* Two runners, the worker and an API request, over two jobs.              *)
EXTENDS ScheduledJobs, TLC
CONSTANTS j1, j2, worker, api
MCInterval == (j1 :> 2) @@ (j2 :> 1)
=============================================================================
