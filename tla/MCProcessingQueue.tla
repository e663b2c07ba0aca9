-------------------------- MODULE MCProcessingQueue --------------------------
(***************************************************************************)
(* Instance of ProcessingQueue: a page of a document.                      *)
(***************************************************************************)
EXTENDS ProcessingQueue

CONSTANT p1
=============================================================================
