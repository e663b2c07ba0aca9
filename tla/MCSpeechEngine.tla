--------------------------- MODULE MCSpeechEngine ---------------------------
(***************************************************************************)
(* Instance of SpeechEngine: a page of three sentences of which one has    *)
(* nothing to say; the page corrected, with other words in the first place *)
(* and those of the second moved up; a page with the last two places; and  *)
(* an empty page.                                                          *)
(***************************************************************************)
EXTENDS SpeechEngine

CONSTANTS a, b, c, none

At(place, words) == [id |-> place, words |-> words]
MCNoItem == At(none, "")
MCQueues == {<<At(a, "one"), At(b, "-"), At(c, "two")>>, <<At(a, "two"), At(b, "three")>>, <<At(b, "-"), At(c, "two")>>, <<>>}
MCSilent == {At(b, "-")}
=============================================================================
