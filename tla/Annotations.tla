----------------------------- MODULE Annotations -----------------------------
(***************************************************************************)
(* The marks of a child on a page: highlights, which belong to words, and  *)
(* text boxes.  Writes and undo/redo run one after the other, one step per *)
(* await on a row; a new text of the page moves the highlights to where    *)
(* their words are now, next to those writes; other devices change rows    *)
(* and texts.  A word is one character wide, `pad` shifts a block.         *)
(***************************************************************************)
EXTENDS Integers, Sequences, FiniteSets, SequencesExt

CONSTANTS
  Ids,          \* identities of annotations, given in their order
  Texts,        \* texts of the page: sequences of blocks [words, pad]
  FirstText,    \* the one the page has when the child opens it
  Selections,   \* bound: numbers of words of a highlight
  Typed,        \* texts of a box, "" among them
  HistoryLimit, \* HISTORY_LIMIT
  MaxWrites,    \* bound: pieces of work of the child
  MaxChanges    \* bound: new texts, changes by others, failures, reloads

ASSUME AnnotationsAssumption ==
  /\ Ids \subseteq Nat /\ FirstText \in Texts /\ Selections \subseteq Nat \ {0} /\ "" \in Typed /\ HistoryLimit \in Nat \ {0}
  /\ Texts \subseteq Seq([words : Seq(STRING), pad : Nat])
  /\ MaxWrites \in Nat /\ MaxChanges \in Nat

VARIABLES
  page,   \* blocks of the page on the device
  rows,   \* annotations by identity
  undo,   \* commands, the last one on top
  redo,
  work,   \* the piece of work that runs
  commit, \* a new text that is being saved: the rows it has read and not yet moved
  origin, \* history: what lived before the oldest command of undo
  latest, \* history: what lived after the last recorded command
  loose,  \* history: identities something else touched since
  first,  \* history: words a highlight was made on
  kept,   \* history: highlights whose words every text had since
  budget

vars == <<page, rows, undo, redo, work, commit, origin, latest, loose, first, kept, budget>>
stacks == <<undo, redo, origin, latest>>
marks == <<first, kept>>

NoRow == [kind |-> "none", state |-> "none", block |-> 0, start |-> 0, words |-> <<>>, of |-> <<>>, text |-> ""]
Nothing == [created |-> {}, deleted |-> {}]
Idle == [kind |-> "idle", cmd |-> Nothing, del |-> {}, res |-> {}, new |-> {}, held |-> <<>>, text |-> ""]
NoCommit == [to |-> <<>>, todo |-> {}]
Live == {i \in Ids : rows[i].state = "live"}

Init ==
  /\ page = FirstText /\ rows = [i \in Ids |-> NoRow]
  /\ undo = <<>> /\ redo = <<>> /\ work = Idle /\ commit = NoCommit
  /\ origin = {} /\ latest = {} /\ loose = [undo |-> {}, redo |-> {}]
  /\ first = [i \in Ids |-> <<>>] /\ kept = {}
  /\ budget = [writes |-> MaxWrites, changes |-> MaxChanges]
----------------------------------------------------------------------------
(* Where a highlight is in a text: reanchor.                               *)

WordsFrom(text, b, start, n) ==
  LET k == start - text[b].pad
  IN IF k >= 1 /\ k + n - 1 <= Len(text[b].words) THEN SubSeq(text[b].words, k, k + n - 1) ELSE <<>>
Windows(text, b, n) == {k + text[b].pad : k \in 1 .. Len(text[b].words) - n + 1}

\* The hash of a block is that of its words: the place has to be compared as well.
StillThere_Hash(r, text) == r.block \in DOMAIN text /\ text[r.block].words = r.of
StillThere(r, text) ==
  /\ r.block \in DOMAIN text /\ text[r.block].words = r.of
  /\ WordsFrom(text, r.block, r.start, Len(r.words)) = r.words

Dist(a, b) == IF a < b THEN b - a ELSE a - b
\* blockOrder: the block, the next, the one before, ...
Rank(text, b, origin_) ==
  LET o == IF origin_ > Len(text) THEN Len(text) ELSE origin_
  IN IF b > o THEN 2 * (b - o) - 1 ELSE 2 * (o - b)

\* jaccard: words in common, and words in all.
Overlap(found, words) ==
  [inter |-> Cardinality(Range(found) \cap Range(words)), union |-> Cardinality(Range(found) \cup Range(words))]
Fuzzy(text, r) ==
  LET n == Len(r.words)
      Sizes(b) == {IF m > Len(text[b].words) THEN Len(text[b].words) ELSE m : m \in {n - 1, n, n + 1} \ {0}}
      Places(b) == UNION {{[block |-> b, start |-> s, n |-> m] : s \in Windows(text, b, m)} : m \in Sizes(b)}
  IN {p \in UNION {Places(b) : b \in DOMAIN text} :
        LET o == Overlap(WordsFrom(text, p.block, p.start, p.n), r.words) IN 10 * o.inter >= 8 * o.union}
Exact(text, r) ==
  {p \in UNION {{[block |-> b, start |-> s, n |-> Len(r.words)] : s \in Windows(text, b, Len(r.words))} : b \in DOMAIN text} :
     WordsFrom(text, p.block, p.start, p.n) = r.words}

\* Nearest block; in it the most words in common, then the nearest place.
Better(text, r, p, q) ==
  LET Shared(x) == Overlap(WordsFrom(text, x.block, x.start, x.n), r.words)
      a == Shared(p).inter * Shared(q).union
      b == Shared(q).inter * Shared(p).union
  IN IF p.block # q.block THEN Rank(text, p.block, r.block) < Rank(text, q.block, r.block)
     ELSE IF a # b THEN a > b
     ELSE IF Dist(p.start, r.start) # Dist(q.start, r.start) THEN Dist(p.start, r.start) < Dist(q.start, r.start)
     ELSE p.n < q.n \/ (p.n = q.n /\ p.start <= q.start)
Best(text, r, P) == CHOOSE p \in P : \A q \in P : Better(text, r, p, q)

Orphan == [block |-> 0, start |-> 0, n |-> 0]
Reanchor(r, text) ==
  CASE StillThere(r, text) -> [block |-> r.block, start |-> r.start, n |-> Len(r.words)]
    [] ~StillThere(r, text) /\ Exact(text, r) # {} -> Best(text, r, Exact(text, r))
    [] ~StillThere(r, text) /\ Exact(text, r) = {} /\ Fuzzy(text, r) # {} -> Best(text, r, Fuzzy(text, r))
    [] OTHER -> Orphan

\* resolveHighlights: where the reader shows a highlight.
Placed(r, text) ==
  IF r.block \in DOMAIN text /\ text[r.block].words = r.of
    THEN [block |-> r.block, start |-> r.start, n |-> Len(r.words)] ELSE Reanchor(r, text)

\* reanchorAnnotation: the row at its new place.
Moved(r, text) ==
  LET p == Reanchor(r, text)
  IN IF p = Orphan THEN r
     ELSE [r EXCEPT !.block = p.block, !.start = p.start, !.words = WordsFrom(text, p.block, p.start, p.n), !.of = text[p.block].words]
----------------------------------------------------------------------------
(* What the child does: each a piece of work for runExclusive.             *)

Begin(w) ==
  /\ work = Idle /\ budget.writes > 0
  /\ work' = w
  /\ budget' = [budget EXCEPT !.writes = @ - 1]

\* newId
Fresh == LET free == {i \in Ids : rows[i].state = "none"} IN {i \in free : \A j \in free : i <= j}
Replace(deleted, new) ==
  /\ Begin([Idle EXCEPT !.kind = "replace", !.cmd = [created |-> {n[1] : n \in new}, deleted |-> deleted], !.del = deleted, !.new = new])
  /\ loose' = [undo |-> loose.undo \cup (deleted \ Live), redo |-> loose.redo \cup (deleted \ Live)]
  /\ UNCHANGED <<page, rows, stacks, commit, marks>>

\* addTextHighlight, addTextBox
AddHighlight(i, b, s, n) ==
  Replace({}, {<<i, [NoRow EXCEPT !.kind = "highlight", !.state = "live", !.block = b, !.start = s,
                             !.words = WordsFrom(page, b, s, n), !.of = page[b].words]>>})
AddBox(i) == Replace({}, {<<i, [NoRow EXCEPT !.kind = "box", !.state = "live"]>>})

\* removeAnnotation; the row may be gone when its turn comes.
RemoveAnnotation(i) == rows[i].state # "none" /\ Replace({i}, {})
\* The partial eraser takes the first word away: a new highlight on what the text has at the rest of its place.
Shorten(i, j) ==
  LET h == rows[i]
      rest == WordsFrom(page, h.block, h.start + 1, Len(h.words) - 1)
  IN /\ h.kind = "highlight" /\ h.block \in DOMAIN page /\ Len(h.words) > 1 /\ rest # <<>>
     /\ Replace({i}, {<<j, [h EXCEPT !.state = "live", !.start = @ + 1, !.words = rest]>>})
\* clearPageAnnotations: the highlights in the text view, the boxes in the original view.
ClearPage(kind) == LET all == {i \in Live : rows[i].kind = kind} IN all # {} /\ Replace(all, {})

\* updateTextBox and finishTextBox
Write(i, kind, t) ==
  /\ rows[i].kind = "box"
  /\ Begin([Idle EXCEPT !.kind = kind, !.del = {i}, !.text = t])
  /\ UNCHANGED <<page, rows, stacks, commit, loose, marks>>

\* undoCommand, redoCommand: the command leaves its stack first.
Undo ==
  /\ undo # <<>>
  /\ LET c == Last(undo) IN Begin([Idle EXCEPT !.kind = "undo", !.cmd = c, !.del = c.created, !.res = c.deleted])
  /\ undo' = Front(undo)
  /\ UNCHANGED <<page, rows, redo, origin, latest, commit, loose, marks>>
Redo ==
  /\ redo # <<>>
  /\ LET c == Last(redo) IN Begin([Idle EXCEPT !.kind = "redo", !.cmd = c, !.del = c.deleted, !.res = c.created])
  /\ redo' = Front(redo)
  /\ UNCHANGED <<page, rows, undo, origin, latest, commit, loose, marks>>
----------------------------------------------------------------------------
(* The steps of a piece of work.                                           *)

InHistory == work.kind \in {"replace", "undo", "redo"}
Wanted == IF work.del # {} THEN "deleted" ELSE "live"
Without(i) == [work EXCEPT !.held = <<>>, !.del = @ \ {i}, !.res = IF work.del # {} THEN @ ELSE @ \ {i}]

\* setDeleted reads the row as it is now, deletions first.
ReadRow(i) ==
  /\ InHistory /\ work.held = <<>> /\ i \in IF work.del # {} THEN work.del ELSE work.res
  /\ work' = IF rows[i].state = Wanted THEN Without(i) ELSE [work EXCEPT !.held = <<i, rows[i]>>]
  /\ UNCHANGED <<page, rows, stacks, commit, loose, marks, budget>>
SaveRow ==
  /\ InHistory /\ work.held # <<>>
  /\ rows' = [rows EXCEPT ![work.held[1]] = [work.held[2] EXCEPT !.state = Wanted]]
  /\ work' = Without(work.held[1])
  /\ UNCHANGED <<page, stacks, commit, loose, marks, budget>>
Occurs(words, text) == \E b \in DOMAIN text : \E s \in Windows(text, b, Len(words)) : WordsFrom(text, b, s, Len(words)) = words
Create(n) ==
  /\ InHistory /\ work.held = <<>> /\ work.del = {} /\ n \in work.new
  /\ rows' = [rows EXCEPT ![n[1]] = n[2]]
  /\ work' = [work EXCEPT !.new = @ \ {n}]
  /\ first' = [first EXCEPT ![n[1]] = n[2].words]
  /\ kept' = IF n[2].kind = "highlight" /\ Occurs(n[2].words, page) /\ (commit = NoCommit \/ Occurs(n[2].words, commit.to)) THEN kept \cup {n[1]} ELSE kept
  /\ UNCHANGED <<page, stacks, commit, loose, budget>>

\* pushCommand, or the other stack of a command undone or redone.
Applied(live, c) == (live \ c.deleted) \cup c.created
Named(c) == c.created \cup c.deleted
EndWork ==
  /\ InHistory /\ work.held = <<>> /\ work.del = {} /\ work.res = {} /\ work.new = {}
  /\ CASE work.kind = "replace" ->
            LET all == Append(undo, work.cmd)
                over == Len(all) > HistoryLimit
            IN /\ undo' = IF over THEN Tail(all) ELSE all
               /\ origin' = IF over THEN Applied(origin, Head(all)) ELSE origin
               /\ redo' = <<>> /\ latest' = Live
               \* What a redo left half-done is what the last change left; so is the rest of an undo once its command is forgotten.
               /\ loose' = [undo |-> IF over THEN loose.undo \cup (loose.redo \cap Named(Head(all))) ELSE loose.undo,
                            redo |-> loose.redo \cup loose.undo]
       [] work.kind = "undo" -> redo' = Append(redo, work.cmd) /\ UNCHANGED <<undo, origin, latest, loose>>
       [] work.kind = "redo" -> undo' = Append(undo, work.cmd) /\ UNCHANGED <<redo, origin, latest, loose>>
  /\ work' = Idle
  /\ UNCHANGED <<page, rows, commit, marks, budget>>

\* A write fails: what was saved stays, a command goes back to the stack it came from.
Back_Lost(stack, c) == stack
Back(stack, c) == Append(stack, c)
TouchedIn(stack, ids) == [loose EXCEPT ![stack] = @ \cup ids]
Touched(ids) == [undo |-> loose.undo \cup ids, redo |-> loose.redo \cup ids]
Fail ==
  /\ work.held # <<>> \/ (work.new # {} /\ work.del = {})
  /\ budget.changes > 0
  /\ LET ids == Named(work.cmd)
     IN CASE work.kind = "undo" -> undo' = Back(undo, work.cmd) /\ loose' = TouchedIn("redo", ids) /\ UNCHANGED redo
          [] work.kind = "redo" -> redo' = Back(redo, work.cmd) /\ loose' = TouchedIn("undo", ids) /\ UNCHANGED undo
          [] OTHER -> loose' = Touched(ids) /\ UNCHANGED <<undo, redo>>
  /\ work' = Idle
  /\ budget' = [budget EXCEPT !.changes = @ - 1]
  /\ UNCHANGED <<page, rows, origin, latest, commit, marks>>

\* A box that is typed in or left: read, then saved unless it is gone or nothing changed.
Writable_Any(r) == TRUE
Writable(r) == r.state = "live"
ReadBox(i) ==
  /\ work.kind \in {"update", "leave"} /\ work.held = <<>> /\ i \in work.del
  /\ work' = IF Writable(rows[i]) /\ (work.text # rows[i].text \/ (work.kind = "leave" /\ work.text = ""))
               THEN [work EXCEPT !.held = <<i, rows[i]>>] ELSE Idle
  /\ UNCHANGED <<page, rows, stacks, commit, loose, marks, budget>>
SaveBox ==
  LET i == work.held[1]
      gone == work.kind = "leave" /\ work.text = ""
  IN /\ work.kind \in {"update", "leave"} /\ work.held # <<>>
     /\ rows' = [rows EXCEPT ![i] = [work.held[2] EXCEPT !.text = work.text, !.state = IF gone THEN "deleted" ELSE "live"]]
     /\ loose' = IF gone THEN Touched({i}) ELSE loose
     /\ work' = Idle
     /\ UNCHANGED <<page, stacks, commit, marks, budget>>
----------------------------------------------------------------------------
(* A new text of the page (commitPage): the highlights are read at once    *)
(* and moved one by one, then the text is saved.                           *)

Change == budget.changes > 0 /\ budget' = [budget EXCEPT !.changes = @ - 1]
StillKept(text) == {i \in kept : Occurs(first[i], text)}
StartCommit(text) ==
  /\ commit = NoCommit /\ text # page /\ Change
  /\ commit' = [to |-> text, todo |-> {<<i, rows[i]>> : i \in {j \in Live : rows[j].kind = "highlight"}}]
  /\ kept' = StillKept(text)
  /\ UNCHANGED <<page, rows, stacks, work, loose, first>>
MoveRow(m) ==
  /\ m \in commit.todo
  /\ commit' = [commit EXCEPT !.todo = @ \ {m}]
  /\ IF Moved(m[2], commit.to) = m[2] THEN UNCHANGED <<rows, loose>>
     ELSE /\ rows' = [rows EXCEPT ![m[1]] = Moved(m[2], commit.to)]
          /\ loose' = IF rows[m[1]].state = "live" THEN loose ELSE Touched({m[1]})
  /\ UNCHANGED <<page, stacks, work, marks, budget>>
\* A row that cannot be saved ends the loop; the text is saved all the same.
SavePage ==
  /\ commit # NoCommit /\ IF commit.todo = {} THEN UNCHANGED budget ELSE Change
  /\ page' = commit.to
  /\ commit' = NoCommit
  /\ UNCHANGED <<rows, stacks, work, loose, marks>>
----------------------------------------------------------------------------
(* Other devices, and the end of the application.                          *)

\* A row of another device: its state alone, or its place too, which a text there has changed.
RemoteRow(i, state) ==
  /\ rows[i].state # "none" /\ rows[i].state # state /\ Change
  /\ rows' = [rows EXCEPT ![i].state = state]
  /\ loose' = Touched({i})
  /\ UNCHANGED <<page, stacks, work, commit, marks>>
RemoteMove(i, text) ==
  /\ rows[i].state # "none" /\ rows[i].kind = "highlight" /\ Change
  /\ LET row == Moved(rows[i], text)
     IN row # rows[i] /\ \E state \in {"live", "deleted"} : rows' = [rows EXCEPT ![i] = [row EXCEPT !.state = state]]
  /\ loose' = Touched({i})
  /\ kept' = IF Occurs(first[i], text) THEN kept ELSE kept \ {i}
  /\ UNCHANGED <<page, stacks, work, commit, first>>
RemotePage(text) ==
  /\ text # page /\ Change
  /\ page' = text
  /\ kept' = StillKept(text)
  /\ UNCHANGED <<rows, stacks, work, commit, loose, first>>
Reload ==
  /\ Change
  /\ undo' = <<>> /\ redo' = <<>> /\ work' = Idle /\ commit' = NoCommit
  /\ origin' = Live /\ latest' = Live /\ loose' = [undo |-> {}, redo |-> {}]
  /\ UNCHANGED <<page, rows, marks>>
----------------------------------------------------------------------------
Child ==
  \/ \E i \in Fresh :
       \/ AddBox(i)
       \/ \E b \in DOMAIN page : \E n \in Selections : \E s \in Windows(page, b, n) : AddHighlight(i, b, s, n)
       \/ \E j \in Ids : Shorten(j, i)
  \/ \E i \in Ids : RemoveAnnotation(i) \/ \E t \in Typed : \E kind \in {"update", "leave"} : Write(i, kind, t)
  \/ \E kind \in {"highlight", "box"} : ClearPage(kind)
  \/ Undo \/ Redo
Step ==
  \/ \E i \in Ids : ReadRow(i) \/ ReadBox(i)
  \/ SaveRow \/ SaveBox \/ EndWork \/ Fail
  \/ \E n \in work.new : Create(n)
NewText ==
  \/ \E text \in Texts : StartCommit(text) \/ RemotePage(text)
  \/ \E m \in commit.todo : MoveRow(m)
  \/ SavePage
OtherDevice ==
  \E i \in Ids :
    \/ \E state \in {"live", "deleted"} : RemoteRow(i, state)
    \/ \E text \in Texts : RemoteMove(i, text)
Next == Child \/ Step \/ NewText \/ Reload \/ OtherDevice

Spec == Init /\ [][Next]_vars
----------------------------------------------------------------------------
(***************************************************************************)
(* Undo and redo lead where they say, whatever failed half-way before:     *)
(* undoing all commands gives what there was before the oldest of them,    *)
(* redoing all that were undone gives what the last change had left.  Not  *)
(* for annotations that something else changed (loose): another device, a  *)
(* new text, a command that failed and was dropped, and on the other side  *)
(* an undo or a redo that failed, whose command may come to be forgotten.  *)
(***************************************************************************)
Oldest(stack, k, i) == i \in Named(stack[k]) /\ \A l \in 1 .. k - 1 : i \notin Named(stack[l])
Unnamed(stack, i) == \A k \in DOMAIN stack : i \notin Named(stack[k])
Unwound == {i \in Ids : (Unnamed(undo, i) /\ i \in Live) \/ \E k \in DOMAIN undo : Oldest(undo, k, i) /\ i \in undo[k].deleted}
Wound == {i \in Ids : (Unnamed(redo, i) /\ i \in Live) \/ \E k \in DOMAIN redo : Oldest(redo, k, i) /\ i \in redo[k].created}
HistoryFits ==
  work = Idle =>
    /\ \A i \in Ids \ loose.undo : i \in Unwound <=> i \in origin
    /\ \A i \in Ids \ loose.redo : i \in Wound <=> i \in latest

(***************************************************************************)
(* "a late save never brings back a box that was just removed": only undo, *)
(* redo and other devices do.                                              *)
(***************************************************************************)
BoxStaysRemoved ==
  [][\A i \in Ids :
       rows[i].kind = "box" /\ rows[i].state = "deleted" /\ rows'[i].state = "live" /\ i \notin loose'.undo
         => work.kind \in {"undo", "redo"}]_vars

(***************************************************************************)
(* A highlight marks the words it was made on as long as every text of the *)
(* page had them, also the texts by which another device moved it, and     *)
(* wherever they went.                                                     *)
(***************************************************************************)
FollowsItsWords ==
  \A i \in kept \cap Live :
    LET p == Reanchor(rows[i], page)
    IN p # Orphan /\ WordsFrom(page, p.block, p.start, p.n) = first[i]

(***************************************************************************)
(* The reader shows it there.  Its resolveHighlights takes an equal hash   *)
(* for an equal place, which reanchor does not ("spacing or case may still *)
(* have moved the raw offsets"): not so for a text from another device.    *)
(***************************************************************************)
ShownOnItsWords ==
  \A i \in kept \cap Live :
    LET p == Placed(rows[i], page)
    IN p # Orphan /\ WordsFrom(page, p.block, p.start, p.n) = first[i]
=============================================================================
