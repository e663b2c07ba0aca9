---------------------------- MODULE MCPageReading ----------------------------
(***************************************************************************)
(* Instance of PageReading: a photo and its replacement, two requests that *)
(* may overlap.                                                            *)
(***************************************************************************)
EXTENDS PageReading, TLC

TwoPhotos == <<"a", "b">>
=============================================================================
