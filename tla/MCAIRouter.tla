----------------------------- MODULE MCAIRouter -----------------------------
(***************************************************************************)
(* Instance of AIRouter: two clients of one child, one text, one chunk.    *)
(***************************************************************************)
EXTENDS AIRouter, TLC

Clients == Permutations(Slots)
=============================================================================
