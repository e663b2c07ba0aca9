----------------------------- MODULE MCSyncLog -----------------------------
(***************************************************************************)
(* Instances of SyncLog: a document, its page and an annotation, in three  *)
(* tables read in that order; two requests that may write at once.         *)
(***************************************************************************)
EXTENDS SyncLog, TLC

CONSTANTS aDoc, aPage, aNote

MCRows == {aDoc, aPage, aNote}
MCTableOf == aDoc :> 1 @@ aPage :> 2 @@ aNote :> 3
MCPageDoc == aDoc :> NoDoc @@ aPage :> aDoc @@ aNote :> NoDoc
=============================================================================
