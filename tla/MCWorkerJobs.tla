---------------------------- MODULE MCWorkerJobs ----------------------------
(***************************************************************************)
(* Instance of WorkerJobs: the transcription of a page, two home computers *)
(* that ask for a job.                                                     *)
(***************************************************************************)
EXTENDS WorkerJobs, TLC
CONSTANTS p1, w1, w2, c1
=============================================================================
