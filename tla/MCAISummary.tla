----------------------------- MODULE MCAISummary ----------------------------
(***************************************************************************)
(* Instance of AISummary: a document of two chunks, two lanes.             *)
(***************************************************************************)
EXTENDS AISummary
=============================================================================
