-------------------------- MODULE MCQueueTransport --------------------------
(***************************************************************************)
(* Instance of QueueTransport: a request, two home computers.              *)
(***************************************************************************)
EXTENDS QueueTransport, TLC

CONSTANTS a1, w1, w2, c1
=============================================================================
