---------------------------- MODULE MCAnnotations ----------------------------
(***************************************************************************)
(* Instance of Annotations: a page of four words whose text is shifted, or *)
(* moves to a second block and gets another word in the middle.            *)
(***************************************************************************)
EXTENDS Annotations

Block(words, pad) == [words |-> words, pad |-> pad]
MCFirst == <<Block(<<"a", "b", "c", "d">>, 0)>>
MCTexts ==
  {MCFirst,
   <<Block(<<"a", "b", "c", "d">>, 1)>>,
   <<Block(<<"d">>, 0), Block(<<"a", "b", "x", "c", "d">>, 0)>>}
=============================================================================
