-------------------------- MODULE AnnotationsProofs --------------------------
(***************************************************************************)
(* Proofs about the marks of a child (Annotations).                        *)
(* A text box which was removed stays removed: pieces of work are serial,  *)
(* a box that is about to be saved was read alive, and a new text of the   *)
(* page writes highlights only.                                            *)
(* A highlight follows its words: there is always a best place among those *)
(* found, and every copy of a row carries the words it was made on.        *)
(* Undo and redo lead where they say: an annotation nothing else touched   *)
(* is created once and deleted once, so the oldest command that names it   *)
(* says what there was before, and the last one what there is.             *)
(***************************************************************************)
EXTENDS Annotations, FiniteSetTheorems, SequenceTheorems, WellFoundedInduction, TLAPS

IsRow(r) == {"kind", "state"} \subseteq DOMAIN r

\* Rows and the piece of work are records; a row without a state is nothing yet.
Shapes ==
  /\ DOMAIN rows = Ids
  /\ \A i \in Ids : IsRow(rows[i]) /\ (rows[i].state = "none" => rows[i].kind = "none")
  /\ DOMAIN work = {"kind", "cmd", "del", "res", "new", "held", "text"}
  /\ DOMAIN loose = {"undo", "redo"}
  /\ DOMAIN commit = {"to", "todo"}

\* An annotation that is being created has an identity of its own.
NewRows ==
  \A n \in work.new :
    /\ n[1] \in Ids /\ rows[n[1]].kind = "none"
    /\ IsRow(n[2]) /\ n[2].state = "live"
    /\ \A m \in work.new : m = n

\* A row that was read keeps its kind; a change restores nothing.
HeldRow ==
  work.held # <<>> =>
    /\ work.held[1] \in Ids => IsRow(work.held[2]) /\ work.held[2].kind = rows[work.held[1]].kind
    /\ work.kind = "replace" => work.del # {}

\* A box about to be saved was alive and still is, unless something else removed it.
BoxInHand ==
  work.kind \in {"update", "leave"} =>
    /\ work.del \subseteq Ids
    /\ work.held # <<>> => /\ work.held[1] \in Ids
                           /\ rows[work.held[1]].state = "live" \/ work.held[1] \in loose.undo

\* The rows of a new text are highlights.
Moving ==
  \A m \in commit.todo :
    /\ m[1] \in Ids /\ rows[m[1]].kind = "highlight"
    /\ IsRow(m[2]) /\ m[2].kind = "highlight" /\ m[2].state = "live"

IInv == Shapes /\ NewRows /\ (work.kind = "replace" => work.res = {}) /\ HeldRow /\ BoxInHand /\ Moving

LEMMA MovedKeeps ==
  ASSUME NEW r, NEW text, IsRow(r)
  PROVE  IsRow(Moved(r, text)) /\ Moved(r, text).kind = r.kind /\ Moved(r, text).state = r.state
  BY DEF IsRow, Moved

\* The row of another device that has moved a highlight.
LEMMA MovedTo ==
  ASSUME IInv, NEW i \in Ids, NEW text, RemoteMove(i, text)
  PROVE  \E state \in {"live", "deleted"} : \E r :
           /\ r = [Moved(rows[i], text) EXCEPT !.state = state]
           /\ rows' = [rows EXCEPT ![i] = r] /\ IsRow(r) /\ r.kind = rows[i].kind /\ r.kind = "highlight" /\ r.state = state
<1> DEFINE m == Moved(rows[i], text)
<1>1. IsRow(m) /\ m.kind = rows[i].kind /\ m.kind = "highlight"
  BY MovedKeeps DEF IInv, Shapes, RemoteMove
<1>2. PICK state \in {"live", "deleted"} : rows' = [rows EXCEPT ![i] = [m EXCEPT !.state = state]]
  BY DEF RemoteMove
<1> HIDE DEF m
<1>3. IsRow([m EXCEPT !.state = state]) /\ [m EXCEPT !.state = state].kind = m.kind /\ [m EXCEPT !.state = state].state = state
  BY <1>1 DEF IsRow
<1> QED
  BY <1>1, <1>2, <1>3 DEF m

LEMMA Records ==
  /\ IsRow(NoRow) /\ NoRow.kind = "none" /\ NoRow.state = "none"
  /\ DOMAIN Idle = {"kind", "cmd", "del", "res", "new", "held", "text"}
  /\ Idle.kind = "idle" /\ Idle.new = {} /\ Idle.held = <<>>
  /\ DOMAIN NoCommit = {"to", "todo"} /\ NoCommit.todo = {}
<1>1. IsRow(NoRow) /\ NoRow.kind = "none" /\ NoRow.state = "none"
  BY DEF IsRow, NoRow
<1>2. DOMAIN Idle = {"kind", "cmd", "del", "res", "new", "held", "text"}
  BY DEF Idle
<1>3. Idle.kind = "idle" /\ Idle.new = {} /\ Idle.held = <<>>
  BY DEF Idle
<1>4. DOMAIN NoCommit = {"to", "todo"} /\ NoCommit.todo = {}
  BY DEF NoCommit
<1> QED  BY <1>1, <1>2, <1>3, <1>4

LEMMA InitIInv == Init => IInv
<1> SUFFICES ASSUME Init PROVE IInv
  OBVIOUS
<1>1. Shapes
  <2>1. DOMAIN loose = {"undo", "redo"}
    BY DEF Init
  <2> QED  BY <2>1, Records DEF Init, Shapes
<1>2. NewRows /\ (work.kind = "replace" => work.res = {}) /\ HeldRow /\ BoxInHand /\ Moving
  BY Records DEF Init, NewRows, HeldRow, BoxInHand, Moving
<1> QED  BY <1>1, <1>2 DEF IInv

LEMMA ReplaceStep ==
  ASSUME IInv, NEW D \in SUBSET Ids, NEW N, Replace(D, N),
         \A n \in N : /\ n[1] \in Ids /\ rows[n[1]].kind = "none" /\ IsRow(n[2]) /\ n[2].state = "live"
                      /\ \A m \in N : m = n
  PROVE  IInv'
<1> USE DEF Replace, Begin
<1>1. Shapes'
  BY DEF IInv, Shapes, IsRow, Idle
<1>2. NewRows'
  BY DEF NewRows, Idle
<1>3. (work.kind = "replace" => work.res = {})' /\ HeldRow' /\ BoxInHand'
  BY DEF HeldRow, BoxInHand, Idle
<1>4. Moving'
  BY DEF IInv, Moving
<1> QED  BY <1>1, <1>2, <1>3, <1>4 DEF IInv

LEMMA ChildStep == IInv /\ Child => IInv'
<1> SUFFICES ASSUME IInv, Child PROVE IInv'
  OBVIOUS
<1>1. \A i \in Fresh : i \in Ids /\ rows[i].kind = "none"
  BY DEF Fresh, IInv, Shapes
<1>2. ASSUME NEW i \in Fresh, AddBox(i) PROVE IInv'
  <2> DEFINE box == [NoRow EXCEPT !.kind = "box", !.state = "live"]
  <2>1. IsRow(box) /\ box.state = "live"
    BY Records DEF IsRow
  <2>2. Replace({}, {<<i, box>>})
    BY <1>2 DEF AddBox
  <2> HIDE DEF box
  <2> QED  BY <1>1, <2>1, <2>2, ReplaceStep
<1>3. ASSUME NEW i \in Fresh, NEW b, NEW n, NEW s, AddHighlight(i, b, s, n) PROVE IInv'
  <2> DEFINE mark == [NoRow EXCEPT !.kind = "highlight", !.state = "live", !.block = b, !.start = s,
                                   !.words = WordsFrom(page, b, s, n), !.of = page[b].words]
  <2>1. IsRow(mark) /\ mark.state = "live"
    BY Records DEF IsRow
  <2>2. Replace({}, {<<i, mark>>})
    BY <1>3 DEF AddHighlight
  <2> HIDE DEF mark
  <2> QED  BY <1>1, <2>1, <2>2, ReplaceStep
<1>4. ASSUME NEW i \in Fresh, NEW j \in Ids, Shorten(j, i) PROVE IInv'
  <2> DEFINE rest == WordsFrom(page, rows[j].block, rows[j].start + 1, Len(rows[j].words) - 1)
             mark == [rows[j] EXCEPT !.state = "live", !.start = @ + 1, !.words = rest]
  <2>1. IsRow(mark) /\ mark.state = "live"
    BY DEF IsRow, IInv, Shapes
  <2>2. Replace({j}, {<<i, mark>>})
    BY <1>4 DEF Shorten
  <2> HIDE DEF mark
  <2> QED  BY <1>1, <2>1, <2>2, ReplaceStep
<1>5. ASSUME NEW i \in Ids, RemoveAnnotation(i) PROVE IInv'
  BY <1>5, ReplaceStep DEF RemoveAnnotation
<1>6. ASSUME NEW kind, ClearPage(kind) PROVE IInv'
  BY <1>6, ReplaceStep DEF ClearPage, Live
<1>7. ASSUME NEW i \in Ids, NEW kind \in {"update", "leave"}, NEW t, Write(i, kind, t) PROVE IInv'
  BY <1>7 DEF Write, Begin, Idle, IInv, Shapes, NewRows, HeldRow, BoxInHand, Moving
<1>8. CASE Undo
  BY <1>8 DEF Undo, Begin, Idle, IInv, Shapes, NewRows, HeldRow, BoxInHand, Moving
<1>9. CASE Redo
  BY <1>9 DEF Redo, Begin, Idle, IInv, Shapes, NewRows, HeldRow, BoxInHand, Moving
<1> QED
  BY <1>2, <1>3, <1>4, <1>5, <1>6, <1>7, <1>8, <1>9 DEF Child

LEMMA WorkStep == IInv /\ Step => IInv'
<1> SUFFICES ASSUME IInv, Step PROVE IInv'
  OBVIOUS
<1>1. ASSUME NEW i \in Ids, ReadRow(i) PROVE IInv'
  BY <1>1 DEF ReadRow, Without, InHistory, Wanted, IInv, Shapes, NewRows, HeldRow, BoxInHand, Moving, IsRow
<1>2. ASSUME NEW i \in Ids, ReadBox(i) PROVE IInv'
  <2>1. CASE work' = Idle
    BY <1>2, <2>1, Records DEF ReadBox, IInv, Shapes, NewRows, HeldRow, BoxInHand, Moving
  <2>2. CASE work' = [work EXCEPT !.held = <<i, rows[i]>>] /\ rows[i].state = "live"
    <3>1. /\ work'.held = <<i, rows[i]>> /\ DOMAIN work' = DOMAIN work
          /\ work'.kind = work.kind /\ work'.del = work.del /\ work'.res = work.res /\ work'.new = work.new
      BY <2>2 DEF IInv, Shapes
    <3>2. UNCHANGED <<rows, commit, loose>> /\ i \in work.del /\ work.kind \in {"update", "leave"}
      BY <1>2 DEF ReadBox
    <3>3. Shapes' /\ NewRows' /\ Moving' /\ work'.kind # "replace"
      BY <3>1, <3>2 DEF IInv, Shapes, NewRows, Moving
    <3>4. i \in Ids
      BY <3>2 DEF IInv, BoxInHand
    <3>5. work'.held[1] = i /\ work'.held[2] = rows[i]
      BY <3>1
    <3>6. HeldRow' /\ BoxInHand'
      BY <2>2, <3>1, <3>2, <3>3, <3>4, <3>5 DEF IInv, Shapes, HeldRow, BoxInHand
    <3> QED  BY <3>3, <3>6 DEF IInv
  <2> QED  BY <1>2, <2>1, <2>2 DEF ReadBox, Writable
<1>3. CASE SaveRow
  <2>1. \A k \in Ids : IsRow(rows'[k]) /\ rows'[k].kind = rows[k].kind /\ (rows'[k].state = "none" => rows[k].state = "none")
    BY <1>3 DEF SaveRow, Wanted, IInv, Shapes, HeldRow, IsRow
  <2> QED
    BY <1>3, <2>1 DEF SaveRow, Without, InHistory, IInv, Shapes, NewRows, HeldRow, BoxInHand, Moving, IsRow
<1>4. CASE SaveBox
  <2>1. \A k \in Ids : IsRow(rows'[k]) /\ rows'[k].kind = rows[k].kind /\ (rows'[k].state = "none" => rows[k].state = "none")
    BY <1>4 DEF SaveBox, IInv, Shapes, HeldRow, IsRow
  <2>2. DOMAIN rows' = Ids
    BY <1>4 DEF SaveBox, IInv, Shapes
  <2>3. DOMAIN loose' = {"undo", "redo"}
    BY <1>4 DEF SaveBox, Touched, IInv, Shapes
  <2> QED
    <3>1. work' = Idle /\ commit' = commit
      BY <1>4 DEF SaveBox
    <3>2. Shapes' /\ NewRows' /\ HeldRow' /\ BoxInHand'
      BY <2>1, <2>2, <2>3, <3>1, Records DEF IInv, Shapes, NewRows, HeldRow, BoxInHand
    <3>3. Moving'
      BY <2>1, <3>1 DEF IInv, Moving
    <3> QED  BY <3>1, <3>2, <3>3, Records DEF IInv
<1>5. CASE EndWork
  <2>1. work' = Idle /\ UNCHANGED <<rows, commit>> /\ InHistory
    BY <1>5 DEF EndWork
  <2>2. DOMAIN loose' = {"undo", "redo"}
    <3>1. loose' = loose \/ DOMAIN loose' = {"undo", "redo"}
      BY <1>5 DEF EndWork, InHistory
    <3> QED  BY <3>1 DEF IInv, Shapes
  <2> QED
    BY <2>1, <2>2, Records DEF IInv, Shapes, NewRows, HeldRow, BoxInHand, Moving
<1>6. CASE Fail
  <2>1. DOMAIN loose' = {"undo", "redo"}
    BY <1>6 DEF Fail, TouchedIn, Touched, IInv, Shapes
  <2> QED
    BY <1>6, <2>1 DEF Fail, Idle, IInv, Shapes, NewRows, HeldRow, BoxInHand, Moving, IsRow
<1>7. ASSUME NEW n \in work.new, Create(n) PROVE IInv'
  BY <1>7 DEF Create, InHistory, IInv, Shapes, NewRows, HeldRow, BoxInHand, Moving, IsRow
<1> QED
  BY <1>1, <1>2, <1>3, <1>4, <1>5, <1>6, <1>7 DEF Step

LEMMA TextStep == IInv /\ NewText => IInv'
<1> SUFFICES ASSUME IInv, NewText PROVE IInv'
  OBVIOUS
<1>1. ASSUME NEW text, StartCommit(text) PROVE IInv'
  BY <1>1 DEF StartCommit, Change, Live, IInv, Shapes, NewRows, HeldRow, BoxInHand, Moving, IsRow
<1>2. ASSUME NEW text, RemotePage(text) PROVE IInv'
  BY <1>2 DEF RemotePage, Change, IInv, Shapes, NewRows, HeldRow, BoxInHand, Moving, IsRow
<1>3. ASSUME NEW m \in commit.todo, MoveRow(m) PROVE IInv'
  <2>1. /\ m[1] \in Ids /\ rows[m[1]].kind = "highlight"
        /\ IsRow(Moved(m[2], commit.to)) /\ Moved(m[2], commit.to).kind = "highlight" /\ Moved(m[2], commit.to).state = "live"
    BY MovedKeeps DEF IInv, Moving
  <2>2. \A k \in Ids : IsRow(rows'[k]) /\ rows'[k].kind = rows[k].kind /\ rows'[k].state \in {rows[k].state, "live"}
    BY <1>3, <2>1 DEF MoveRow, IInv, Shapes
  <2>3. DOMAIN rows' = Ids /\ DOMAIN loose' = {"undo", "redo"} /\ loose.undo \subseteq loose'.undo
    BY <1>3 DEF MoveRow, Touched, IInv, Shapes
  <2> QED
    BY <1>3, <2>2, <2>3 DEF MoveRow, IInv, Shapes, NewRows, HeldRow, BoxInHand, Moving
<1>4. CASE SavePage
  BY <1>4 DEF SavePage, NoCommit, IInv, Shapes, NewRows, HeldRow, BoxInHand, Moving, IsRow
<1> QED
  BY <1>1, <1>2, <1>3, <1>4 DEF NewText

LEMMA NextIInv == IInv /\ [Next]_vars => IInv'
<1> SUFFICES ASSUME IInv, [Next]_vars PROVE IInv'
  OBVIOUS
<1>1. CASE Reload
  BY <1>1 DEF Reload, Change, Idle, NoCommit, IInv, Shapes, NewRows, HeldRow, BoxInHand, Moving, IsRow
<1>2. ASSUME NEW i \in Ids, NEW state \in {"live", "deleted"}, RemoteRow(i, state) PROVE IInv'
  BY <1>2 DEF RemoteRow, Change, Touched, IInv, Shapes, NewRows, HeldRow, BoxInHand, Moving, IsRow
<1>3. ASSUME NEW i \in Ids, NEW text, RemoteMove(i, text) PROVE IInv'
  <2>1. PICK r : /\ rows' = [rows EXCEPT ![i] = r] /\ IsRow(r) /\ r.kind = rows[i].kind /\ r.kind = "highlight"
                 /\ r.state \in {"live", "deleted"}
    BY <1>3, MovedTo
  <2>2. \A k \in Ids : IsRow(rows'[k]) /\ rows'[k].kind = rows[k].kind /\ (rows'[k].state = "none" => rows[k].state = "none")
    BY <2>1 DEF IInv, Shapes
  <2>4. DOMAIN rows' = Ids /\ DOMAIN loose' = {"undo", "redo"} /\ loose.undo \subseteq loose'.undo
    BY <1>3, <2>1 DEF RemoteMove, Touched, IInv, Shapes
  <2>5. i \in loose'.undo /\ \A k \in Ids \ {i} : rows'[k] = rows[k]
    BY <1>3, <2>1 DEF RemoteMove, Touched, IInv, Shapes
  <2>6. work' = work /\ commit' = commit
    BY <1>3 DEF RemoteMove
  <2>7. Shapes'
    <3>1. \A k \in Ids : rows'[k].state = "none" => rows'[k].kind = "none"
      BY <2>2 DEF IInv, Shapes
    <3> QED
      BY <2>2, <2>4, <2>6, <3>1 DEF IInv, Shapes
  <2>8. NewRows' /\ HeldRow' /\ Moving'
    BY <2>2, <2>6 DEF IInv, NewRows, HeldRow, Moving
  <2>9. BoxInHand'
    BY <2>4, <2>5, <2>6 DEF IInv, BoxInHand
  <2> QED
    BY <2>6, <2>7, <2>8, <2>9 DEF IInv
<1>4. CASE UNCHANGED vars
  BY <1>4 DEF vars, stacks, marks, IInv, Shapes, NewRows, HeldRow, BoxInHand, Moving, IsRow
<1> QED
  BY <1>1, <1>2, <1>3, <1>4, ChildStep, WorkStep, TextStep DEF Next, OtherDevice

\* The inductive invariant, for every number of annotations, texts and writes.
THEOREM InvCorrect == Spec => []IInv
  BY InitIInv, NextIInv, PTL DEF Spec

BoxStep ==
  \A i \in Ids :
    rows[i].kind = "box" /\ rows[i].state = "deleted" /\ rows'[i].state = "live" /\ i \notin loose'.undo
      => work.kind \in {"undo", "redo"}

LEMMA NextBoxStep == IInv /\ [Next]_vars => BoxStep
<1> SUFFICES ASSUME IInv, [Next]_vars, NEW i \in Ids, rows[i].kind = "box", rows[i].state = "deleted",
                    rows'[i].state = "live", i \notin loose'.undo
             PROVE  work.kind \in {"undo", "redo"}
  BY DEF BoxStep
<1>1. rows' # rows
  OBVIOUS
<1>2. CASE SaveRow
  BY <1>2 DEF SaveRow, InHistory, Wanted, IInv, Shapes, HeldRow, IsRow
<1>3. CASE SaveBox
  BY <1>3 DEF SaveBox, Touched, IInv, Shapes, HeldRow, BoxInHand, IsRow
<1>4. ASSUME NEW n \in work.new, Create(n) PROVE FALSE
  BY <1>4 DEF Create, IInv, Shapes, NewRows
<1>5. ASSUME NEW m \in commit.todo, MoveRow(m) PROVE FALSE
  BY <1>1, <1>5 DEF MoveRow, IInv, Shapes, Moving
<1>6. ASSUME NEW j \in Ids, NEW state, RemoteRow(j, state) PROVE FALSE
  BY <1>6 DEF RemoteRow, Touched, IInv, Shapes, IsRow
<1>11. ASSUME NEW j \in Ids, NEW text, RemoteMove(j, text) PROVE FALSE
  BY <1>11 DEF RemoteMove, Touched, IInv, Shapes
<1>7. CASE Child
  BY <1>1, <1>7 DEF Child, AddBox, AddHighlight, Shorten, RemoveAnnotation, ClearPage, Replace, Write, Undo, Redo
<1>8. CASE EndWork \/ Fail \/ SavePage \/ Reload \/ UNCHANGED vars
  BY <1>1, <1>8 DEF EndWork, Fail, SavePage, Reload, vars
<1>9. ASSUME NEW j, ReadRow(j) \/ ReadBox(j) PROVE FALSE
  BY <1>1, <1>9 DEF ReadRow, ReadBox
<1>10. ASSUME NEW text, StartCommit(text) \/ RemotePage(text) PROVE FALSE
  BY <1>1, <1>10 DEF StartCommit, RemotePage
<1> QED
  BY <1>2, <1>3, <1>4, <1>5, <1>6, <1>7, <1>8, <1>9, <1>10, <1>11 DEF Next, OtherDevice, Step, NewText

\* A box that was removed stays removed: no late save of its text brings it back.
THEOREM BoxStaysRemovedCorrect == Spec => BoxStaysRemoved
<1>1. IInv /\ [Next]_vars => [BoxStep]_vars
  BY NextBoxStep
<1> QED
  BY InvCorrect, <1>1, PTL DEF Spec, BoxStaysRemoved, BoxStep

----------------------------------------------------------------------------
(* A highlight follows its words.  First, that there is always a best      *)
(* place among those found.                                                *)

\* A total and transitive relation has a least element in a finite set.
LEMMA FiniteLeast ==
  ASSUME NEW S, IsFiniteSet(S), S # {}, NEW R,
         \A x, y \in S : <<x, y>> \in R \/ <<y, x>> \in R,
         \A x, y, z \in S : <<x, y>> \in R /\ <<y, z>> \in R => <<x, z>> \in R
  PROVE  \E m \in S : \A y \in S : <<m, y>> \in R
<1> DEFINE Least(U) == \E m \in U : \A y \in U : <<m, y>> \in R
           T == {U \in FiniteSubsetsOf(S) : U # {} /\ ~Least(U)}
<1> SUFFICES ASSUME T # {} PROVE FALSE
  <2>1. S \in FiniteSubsetsOf(S)
    BY DEF FiniteSubsetsOf
  <2> QED
    BY <2>1
<1>1. T \subseteq FiniteSubsetsOf(S)
  OBVIOUS
<1> HIDE DEF T
<1>2. PICK U \in T : \A V \in T : <<V, U>> \notin StrictSubsetOrdering(S)
  BY <1>1, FS_StrictSubsetOrderingWellFounded, WFMin
<1>3. U \in SUBSET S /\ IsFiniteSet(U) /\ U # {} /\ ~Least(U)
  BY DEF T, FiniteSubsetsOf
<1>4. PICK x \in U : TRUE
  BY <1>3
<1> DEFINE V == U \ {x}
<1>5. V \in SUBSET S /\ IsFiniteSet(V) /\ <<V, U>> \in StrictSubsetOrdering(S)
  BY <1>3, <1>4, FS_Subset DEF StrictSubsetOrdering
<1>6. V = {} \/ Least(V)
  BY <1>2, <1>5 DEF T, FiniteSubsetsOf
<1>7. CASE V = {}
  <2>1. \A y \in U : y = x
    BY <1>7
  <2> QED
    BY <1>3, <1>4, <2>1
<1>8. CASE Least(V)
  <2>1. PICK m \in V : \A y \in V : <<m, y>> \in R
    BY <1>8
  <2>2. m \in U /\ m \in S /\ x \in S
    BY <1>3, <1>4, <2>1
  <2>3. CASE <<m, x>> \in R
    <3>1. \A y \in U : <<m, y>> \in R
      BY <2>1, <2>3
    <3> QED
      BY <1>3, <2>2, <3>1
  <2>4. CASE <<x, m>> \in R
    <3>1. \A y \in U : <<x, y>> \in R
      <4>1. ASSUME NEW y \in V PROVE <<x, y>> \in R
        BY <1>3, <2>1, <2>2, <2>4
      <4>2. <<x, x>> \in R
        BY <2>2
      <4> QED
        BY <4>1, <4>2
    <3> QED
      BY <1>3, <1>4, <3>1
  <2> QED
    BY <2>2, <2>3, <2>4
<1> QED
  BY <1>6, <1>7, <1>8

LEMMA ImageFinite ==
  ASSUME NEW S, IsFiniteSet(S), NEW f, DOMAIN f = S
  PROVE  IsFiniteSet({f[x] : x \in S})
<1> DEFINE T == {f[x] : x \in S}
           g == [x \in S |-> f[x]]
<1>1. g \in Surjection(S, T)
  BY DEF Surjection
<1> HIDE DEF g, T
<1>2. IsFiniteSet(T)
  BY <1>1, FS_Surjection
<1> QED
  BY <1>2 DEF T

\* Comparing shares of words by products is transitive.
LEMMA Shares ==
  ASSUME NEW a \in Nat, NEW b \in Nat, NEW c \in Nat, NEW u \in Nat \ {0}, NEW v \in Nat \ {0}, NEW w \in Nat \ {0},
         a * v >= b * u, b * w >= c * v
  PROVE  /\ a * w >= c * u
         /\ a * v > b * u \/ b * w > c * v => a * w > c * u
<1>1. /\ a * v \in Nat /\ b * u \in Nat /\ b * w \in Nat /\ c * v \in Nat /\ a * w \in Nat /\ c * u \in Nat
  OBVIOUS
<1>2. (a * v) * w >= (b * u) * w /\ (b * w) * u >= (c * v) * u
  BY <1>1
<1>3. /\ (a * v) * w = (a * w) * v /\ (b * u) * w = (b * w) * u /\ (c * v) * u = (c * u) * v
  OBVIOUS
<1>4. (a * w) * v >= (c * u) * v
  BY <1>1, <1>2, <1>3
<1>5. a * v > b * u \/ b * w > c * v => (a * w) * v > (c * u) * v
  <2>1. ASSUME a * v > b * u PROVE (a * v) * w > (b * u) * w
    BY <1>1, <2>1
  <2>2. ASSUME b * w > c * v PROVE (b * w) * u > (c * v) * u
    BY <1>1, <2>2
  <2> QED
    BY <1>1, <1>2, <1>3, <2>1, <2>2
<1>6. \A x, y \in Nat : (x * v >= y * v => x >= y) /\ (x * v > y * v => x > y)
  OBVIOUS
<1> QED
  BY <1>1, <1>4, <1>5, <1>6

\* Texts, rows and places have the shapes the reanchoring relies on.
RowOK(r) ==
  /\ DOMAIN r = {"kind", "state", "block", "start", "words", "of", "text"}
  /\ r.block \in Nat /\ r.start \in Nat /\ r.words \in Seq(STRING)
  /\ r.kind = "highlight" => r.words # <<>>
IsPlace(text, p) ==
  /\ p.block \in DOMAIN text /\ p.n \in Nat /\ p.start \in Windows(text, p.block, p.n)
  /\ p = [block |-> p.block, start |-> p.start, n |-> p.n]
Shared(text, r, p) == Overlap(WordsFrom(text, p.block, p.start, p.n), r.words)

LEMMA TextFacts ==
  ASSUME NEW text \in Texts
  PROVE  /\ Len(text) \in Nat /\ DOMAIN text = 1 .. Len(text)
         /\ \A b \in DOMAIN text : text[b].words \in Seq(STRING) /\ Len(text[b].words) \in Nat /\ text[b].pad \in Nat
<1> DEFINE Block == [words : Seq(STRING), pad : Nat]
<1>0. Texts \subseteq Seq(Block)
  BY AnnotationsAssumption, Zenon DEF AnnotationsAssumption
<1>4. \A x \in Block : x.words \in Seq(STRING) /\ x.pad \in Nat
  OBVIOUS
<1> HIDE DEF Block
<1>1. text \in Seq(Block)
  BY <1>0
<1>2. Len(text) \in Nat /\ DOMAIN text = 1 .. Len(text)
  BY <1>1
<1>3. \A b \in DOMAIN text : text[b] \in Block
  BY <1>1
<1>5. \A b \in DOMAIN text : text[b].words \in Seq(STRING) /\ text[b].pad \in Nat
  BY <1>3, <1>4
<1>6. \A b \in DOMAIN text : Len(text[b].words) \in Nat
  BY <1>5
<1> QED
  BY <1>2, <1>5, <1>6

LEMMA WindowFacts ==
  ASSUME NEW text \in Texts, NEW b \in DOMAIN text, NEW n \in Nat, NEW s \in Windows(text, b, n)
  PROVE  /\ s \in Nat /\ WordsFrom(text, b, s, n) \in Seq(STRING) /\ Len(WordsFrom(text, b, s, n)) = n
<1> DEFINE W == text[b].words
           k == s - text[b].pad
<1>1. W \in Seq(STRING) /\ Len(W) \in Nat /\ text[b].pad \in Nat
  BY TextFacts
<1>2. PICK j \in 1 .. Len(W) - n + 1 : s = j + text[b].pad
  BY DEF Windows
<1> HIDE DEF W
<1>3. j \in Nat /\ j >= 1 /\ j + n - 1 <= Len(W)
  BY <1>1, <1>2
<1>4. k = j /\ s \in Nat
  BY <1>1, <1>2, <1>3
<1>5. WordsFrom(text, b, s, n) = SubSeq(W, j, j + n - 1)
  BY <1>3, <1>4 DEF WordsFrom, W
<1>6. SubSeq(W, j, j + n - 1) \in Seq(STRING) /\ Len(SubSeq(W, j, j + n - 1)) = n
  <2>1. \A x \in j .. j + n - 1 : x \in 1 .. Len(W)
    BY <1>1, <1>3
  <2>2. j + n - 1 - j + 1 = n
    BY <1>3
  <2> QED
    BY <1>1, <1>3, <2>1, <2>2
<1> QED
  BY <1>4, <1>5, <1>6

LEMMA RangeFinite ==
  ASSUME NEW s \in Seq(STRING)
  PROVE  /\ IsFiniteSet(Range(s)) /\ (s # <<>> => Range(s) # {}) /\ (s = <<>> => Range(s) = {})
<1>1. DOMAIN s = 1 .. Len(s) /\ Len(s) \in Nat
  OBVIOUS
<1>2. IsFiniteSet(1 .. Len(s))
  BY <1>1, FS_Interval
<1>3. Range(s) = {s[x] : x \in 1 .. Len(s)}
  BY <1>1 DEF Range
<1>4. IsFiniteSet(Range(s))
  BY <1>1, <1>2, <1>3, ImageFinite
<1>5. s # <<>> => 1 \in 1 .. Len(s)
  BY <1>1
<1>6. s = <<>> => Range(s) = {}
  BY <1>1, <1>3
<1> QED
  BY <1>3, <1>4, <1>5, <1>6

\* A highlight has words, so it has words in all with whatever is found; none are in common with nothing.
LEMMA SharedFacts ==
  ASSUME NEW f \in Seq(STRING), NEW w \in Seq(STRING), w # <<>>
  PROVE  /\ Overlap(f, w).inter \in Nat /\ Overlap(f, w).union \in Nat \ {0}
         /\ f = <<>> => Overlap(f, w).inter = 0
<1> DEFINE A == Range(f)
           B == Range(w)
<1>1. IsFiniteSet(A) /\ IsFiniteSet(B) /\ B # {} /\ (f = <<>> => A = {})
  BY RangeFinite
<1>2. Overlap(f, w).inter = Cardinality(A \cap B) /\ Overlap(f, w).union = Cardinality(A \cup B)
  BY DEF Overlap
<1> HIDE DEF A, B
<1>3. IsFiniteSet(A \cap B) /\ IsFiniteSet(A \cup B)
  BY <1>1, FS_Intersection, FS_Union
<1>4. Cardinality(A \cap B) \in Nat /\ Cardinality(A \cup B) \in Nat
  BY <1>3, FS_CardinalityType
<1>5. Cardinality(A \cup B) # 0
  BY <1>1, <1>3, FS_EmptySet
<1>6. A = {} => Cardinality(A \cap B) = 0
  BY FS_EmptySet
<1> QED
  BY <1>1, <1>2, <1>4, <1>5, <1>6

LEMMA RankFacts ==
  ASSUME NEW text, Len(text) \in Nat, NEW o \in Nat, NEW b \in Nat, NEW c \in Nat
  PROVE  /\ Rank(text, b, o) \in Nat
         /\ Rank(text, b, o) = Rank(text, c, o) => b = c
<1>2. PICK m \in Nat : m = IF o > Len(text) THEN Len(text) ELSE o
  OBVIOUS
<1> DEFINE V(x) == IF x > m THEN 2 * (x - m) - 1 ELSE 2 * (m - x)
<1>3. Rank(text, b, o) = V(b) /\ Rank(text, c, o) = V(c)
  BY <1>2 DEF Rank
<1>4. V(b) \in Nat
  OBVIOUS
<1>5. V(b) = V(c) => b = c
  OBVIOUS
<1> HIDE DEF V
<1> QED
  BY <1>3, <1>4, <1>5

\* What Better compares: the rank of the block, the words in common, the distance.
LEMMA Measures ==
  ASSUME NEW text \in Texts, NEW r, RowOK(r), r.words # <<>>, NEW p, IsPlace(text, p)
  PROVE  /\ Rank(text, p.block, r.block) \in Nat
         /\ Shared(text, r, p).inter \in Nat /\ Shared(text, r, p).union \in Nat \ {0}
         /\ p.start \in Nat /\ p.n \in Nat /\ Dist(p.start, r.start) \in Nat
         /\ WordsFrom(text, p.block, p.start, p.n) \in Seq(STRING)
<1>1. WordsFrom(text, p.block, p.start, p.n) \in Seq(STRING) /\ p.start \in Nat /\ p.n \in Nat
  BY WindowFacts DEF IsPlace
<1>2. Rank(text, p.block, r.block) \in Nat
  <2>1. Len(text) \in Nat /\ p.block \in Nat
    BY TextFacts DEF IsPlace
  <2>2. r.block \in Nat
    BY DEF RowOK
  <2> QED
    BY <2>1, <2>2, RankFacts
<1>3. Shared(text, r, p).inter \in Nat /\ Shared(text, r, p).union \in Nat \ {0}
  BY <1>1, SharedFacts DEF Shared, RowOK
<1>5. r.start \in Nat
  BY DEF RowOK
<1>4. Dist(p.start, r.start) \in Nat
  BY <1>1, <1>5 DEF Dist
<1> QED
  BY <1>1, <1>2, <1>3, <1>4

\* Better as a comparison of numbers.
Measure == [rank : Nat, inter : Nat, union : Nat \ {0}, dist : Nat, n : Nat, start : Nat]
MeasureOf(text, r, p) ==
  [rank |-> Rank(text, p.block, r.block), inter |-> Shared(text, r, p).inter, union |-> Shared(text, r, p).union,
   dist |-> Dist(p.start, r.start), n |-> p.n, start |-> p.start]
Before(x, y) ==
  IF x.rank # y.rank THEN x.rank < y.rank
  ELSE IF x.inter * y.union # y.inter * x.union THEN x.inter * y.union > y.inter * x.union
  ELSE IF x.dist # y.dist THEN x.dist < y.dist
  ELSE x.n < y.n \/ (x.n = y.n /\ x.start <= y.start)

LEMMA BeforeTotal == \A x, y \in Measure : Before(x, y) \/ Before(y, x)
<1> SUFFICES ASSUME NEW x \in Measure, NEW y \in Measure PROVE Before(x, y) \/ Before(y, x)
  OBVIOUS
<1>1. PICK A \in Nat, B \in Nat : A = x.inter * y.union /\ B = y.inter * x.union
  BY DEF Measure
<1>2. x.rank \in Nat /\ y.rank \in Nat /\ x.dist \in Nat /\ y.dist \in Nat
      /\ x.n \in Nat /\ y.n \in Nat /\ x.start \in Nat /\ y.start \in Nat
  BY DEF Measure
<1> QED
  BY <1>1, <1>2 DEF Before

LEMMA BeforeTransitive == \A x, y, z \in Measure : Before(x, y) /\ Before(y, z) => Before(x, z)
<1> SUFFICES ASSUME NEW x \in Measure, NEW y \in Measure, NEW z \in Measure, Before(x, y), Before(y, z)
             PROVE  Before(x, z)
  OBVIOUS
<1>1. /\ x.inter \in Nat /\ y.inter \in Nat /\ z.inter \in Nat
      /\ x.union \in Nat \ {0} /\ y.union \in Nat \ {0} /\ z.union \in Nat \ {0}
  BY DEF Measure
<1>2. PICK A \in Nat, B \in Nat : A = x.inter * y.union /\ B = y.inter * x.union
  BY <1>1
<1>3. PICK C \in Nat, D \in Nat : C = y.inter * z.union /\ D = z.inter * y.union
  BY <1>1
<1>4. PICK E \in Nat, F \in Nat : E = x.inter * z.union /\ F = z.inter * x.union
  BY <1>1
<1>5. A >= B /\ C >= D => E >= F /\ (A > B \/ C > D => E > F)
  BY <1>1, <1>2, <1>3, <1>4, Shares
<1>6. D >= C /\ B >= A => F >= E
  BY <1>1, <1>2, <1>3, <1>4, Shares
<1>7. /\ x.rank \in Nat /\ y.rank \in Nat /\ z.rank \in Nat
      /\ x.dist \in Nat /\ y.dist \in Nat /\ z.dist \in Nat
      /\ x.n \in Nat /\ y.n \in Nat /\ z.n \in Nat
      /\ x.start \in Nat /\ y.start \in Nat /\ z.start \in Nat
  BY DEF Measure
<1>8. IF x.rank # y.rank THEN x.rank < y.rank ELSE IF A # B THEN A > B
      ELSE IF x.dist # y.dist THEN x.dist < y.dist ELSE x.n < y.n \/ (x.n = y.n /\ x.start <= y.start)
  BY <1>2 DEF Before
<1>9. IF y.rank # z.rank THEN y.rank < z.rank ELSE IF C # D THEN C > D
      ELSE IF y.dist # z.dist THEN y.dist < z.dist ELSE y.n < z.n \/ (y.n = z.n /\ y.start <= z.start)
  BY <1>3 DEF Before
<1>10. IF x.rank # z.rank THEN x.rank < z.rank ELSE IF E # F THEN E > F
      ELSE IF x.dist # z.dist THEN x.dist < z.dist ELSE x.n < z.n \/ (x.n = z.n /\ x.start <= z.start)
  <2>1. CASE x.rank # y.rank \/ y.rank # z.rank
    BY <1>7, <1>8, <1>9, <2>1
  <2>2. CASE x.rank = y.rank /\ y.rank = z.rank /\ (A # B \/ C # D)
    BY <1>5, <1>8, <1>9, <2>2
  <2>3. CASE x.rank = y.rank /\ y.rank = z.rank /\ A = B /\ C = D
    <3>1. E = F
      BY <1>5, <1>6, <2>3
    <3> QED
      BY <1>7, <1>8, <1>9, <2>3, <3>1
  <2> QED
    BY <2>1, <2>2, <2>3
<1> QED
  BY <1>4, <1>10 DEF Before

LEMMA BetterIsBefore ==
  ASSUME NEW text \in Texts, NEW r, RowOK(r), r.words # <<>>, NEW p, IsPlace(text, p), NEW q, IsPlace(text, q)
  PROVE  /\ MeasureOf(text, r, p) \in Measure
         /\ Better(text, r, p, q) <=> Before(MeasureOf(text, r, p), MeasureOf(text, r, q))
<1>1. MeasureOf(text, r, p) \in Measure
  BY Measures DEF MeasureOf, Measure
<1>2. p.block # q.block <=> Rank(text, p.block, r.block) # Rank(text, q.block, r.block)
  <2>1. Len(text) \in Nat /\ p.block \in Nat /\ q.block \in Nat
    BY TextFacts DEF IsPlace
  <2>2. r.block \in Nat
    BY DEF RowOK
  <2> QED
    BY <2>1, <2>2, RankFacts
<1> DEFINE x == MeasureOf(text, r, p)
           y == MeasureOf(text, r, q)
<1>3. /\ x.rank = Rank(text, p.block, r.block) /\ y.rank = Rank(text, q.block, r.block)
      /\ x.inter = Shared(text, r, p).inter /\ y.inter = Shared(text, r, q).inter
      /\ x.union = Shared(text, r, p).union /\ y.union = Shared(text, r, q).union
      /\ x.dist = Dist(p.start, r.start) /\ y.dist = Dist(q.start, r.start)
      /\ x.n = p.n /\ y.n = q.n /\ x.start = p.start /\ y.start = q.start
  BY DEF MeasureOf
<1> HIDE DEF x, y
<1>4. Better(text, r, p, q) =
        IF p.block # q.block THEN x.rank < y.rank
        ELSE IF x.inter * y.union # y.inter * x.union THEN x.inter * y.union > y.inter * x.union
        ELSE IF x.dist # y.dist THEN x.dist < y.dist
        ELSE x.n < y.n \/ (x.n = y.n /\ x.start <= y.start)
  BY <1>3 DEF Better, Shared
<1>5. Better(text, r, p, q) <=> Before(x, y)
  BY <1>2, <1>3, <1>4 DEF Before
<1> QED
  BY <1>1, <1>5 DEF x, y

\* There is a best place among finitely many.
LEMMA BestIsOne ==
  ASSUME NEW text \in Texts, NEW r, RowOK(r), r.words # <<>>,
         NEW P, IsFiniteSet(P), P # {}, \A p \in P : IsPlace(text, p)
  PROVE  Best(text, r, P) \in P
<1> DEFINE R == {pp \in P \X P : Better(text, r, pp[1], pp[2])}
<1>1. \A x, y \in P : <<x, y>> \in R <=> Better(text, r, x, y)
  OBVIOUS
<1> HIDE DEF R
<1>2. \A x, y \in P : Better(text, r, x, y) \/ Better(text, r, y, x)
  BY BetterIsBefore, BeforeTotal
<1>3. \A x, y, z \in P : Better(text, r, x, y) /\ Better(text, r, y, z) => Better(text, r, x, z)
  <2> SUFFICES ASSUME NEW x \in P, NEW y \in P, NEW z \in P, Better(text, r, x, y), Better(text, r, y, z)
               PROVE  Better(text, r, x, z)
    OBVIOUS
  <2>1. /\ MeasureOf(text, r, x) \in Measure /\ MeasureOf(text, r, y) \in Measure /\ MeasureOf(text, r, z) \in Measure
    BY BetterIsBefore
  <2>2. Before(MeasureOf(text, r, x), MeasureOf(text, r, y)) /\ Before(MeasureOf(text, r, y), MeasureOf(text, r, z))
    BY BetterIsBefore
  <2>3. Before(MeasureOf(text, r, x), MeasureOf(text, r, z))
    BY <2>1, <2>2, BeforeTransitive
  <2> QED
    BY <2>3, BetterIsBefore
<1>4. \E m \in P : \A y \in P : <<m, y>> \in R
  <2>1. /\ \A x, y \in P : <<x, y>> \in R \/ <<y, x>> \in R
        /\ \A x, y, z \in P : <<x, y>> \in R /\ <<y, z>> \in R => <<x, z>> \in R
    BY <1>1, <1>2, <1>3
  <2> QED
    BY <2>1, FiniteLeast
<1>5. \E m \in P : \A y \in P : Better(text, r, m, y)
  BY <1>1, <1>4
<1> QED
  BY <1>5 DEF Best

LEMMA UnionFinite ==
  ASSUME NEW S, IsFiniteSet(S), NEW f, DOMAIN f = S, \A x \in S : IsFiniteSet(f[x])
  PROVE  IsFiniteSet(UNION {f[x] : x \in S})
<1> DEFINE T == {f[x] : x \in S}
<1>1. IsFiniteSet(T)
  BY ImageFinite
<1>2. \A U \in T : IsFiniteSet(U)
  OBVIOUS
<1> HIDE DEF T
<1>3. IsFiniteSet(UNION T)
  BY <1>1, <1>2, FS_UNION
<1> QED
  BY <1>3 DEF T

PlacesIn(text, b, n) == {[block |-> b, start |-> s, n |-> n] : s \in Windows(text, b, n)}

LEMMA PlacesInFacts ==
  ASSUME NEW text \in Texts, NEW b \in DOMAIN text, NEW n \in Nat
  PROVE  IsFiniteSet(PlacesIn(text, b, n)) /\ \A p \in PlacesIn(text, b, n) : IsPlace(text, p)
<1> DEFINE K == 1 .. Len(text[b].words) - n + 1
           f == [k \in K |-> k + text[b].pad]
           g == [s \in Windows(text, b, n) |-> [block |-> b, start |-> s, n |-> n]]
<1>1. IsFiniteSet(K)
  <2>1. Len(text[b].words) - n + 1 \in Int
    BY TextFacts
  <2> QED
    BY <2>1, FS_Interval
<1>2. Windows(text, b, n) = {f[k] : k \in K}
  BY DEF Windows
<1>3. DOMAIN f = K /\ DOMAIN g = Windows(text, b, n)
  OBVIOUS
<1>4. PlacesIn(text, b, n) = {g[s] : s \in Windows(text, b, n)}
  BY DEF PlacesIn
<1> HIDE DEF f, g, K
<1>5. IsFiniteSet(Windows(text, b, n))
  BY <1>1, <1>2, <1>3, ImageFinite
<1>6. IsFiniteSet(PlacesIn(text, b, n))
  BY <1>3, <1>4, <1>5, ImageFinite
<1>7. \A p \in PlacesIn(text, b, n) : IsPlace(text, p)
  BY DEF PlacesIn, IsPlace
<1> QED
  BY <1>6, <1>7

LEMMA DomainFinite ==
  ASSUME NEW text \in Texts
  PROVE  IsFiniteSet(DOMAIN text)
<1>1. Len(text) \in Int /\ DOMAIN text = 1 .. Len(text)
  BY TextFacts
<1> QED
  BY <1>1, FS_Interval

LEMMA ExactFacts ==
  ASSUME NEW text \in Texts, NEW r, RowOK(r), r.words # <<>>
  PROVE  /\ IsFiniteSet(Exact(text, r))
         /\ \A p \in Exact(text, r) : IsPlace(text, p) /\ WordsFrom(text, p.block, p.start, p.n) = r.words
         /\ Occurs(r.words, text) => Exact(text, r) # {}
<1> DEFINE n == Len(r.words)
           f == [b \in DOMAIN text |-> PlacesIn(text, b, n)]
           A == UNION {f[b] : b \in DOMAIN text}
<1>1. n \in Nat
  BY DEF RowOK
<1>2. Exact(text, r) = {p \in A : WordsFrom(text, p.block, p.start, p.n) = r.words}
  BY DEF Exact, PlacesIn
<1>3. DOMAIN f = DOMAIN text /\ \A b \in DOMAIN text : f[b] = PlacesIn(text, b, n)
  OBVIOUS
<1>4. Occurs(r.words, text) => \E b \in DOMAIN text : \E s \in Windows(text, b, n) : WordsFrom(text, b, s, n) = r.words
  BY DEF Occurs
<1> HIDE DEF n, f
<1>5. IsFiniteSet(A)
  <2>1. \A b \in DOMAIN text : IsFiniteSet(f[b])
    BY <1>1, <1>3, PlacesInFacts
  <2> QED
    BY <1>3, <2>1, DomainFinite, UnionFinite
<1>6. \A p \in A : IsPlace(text, p)
  BY <1>1, <1>3, PlacesInFacts
<1>7. ASSUME Occurs(r.words, text) PROVE Exact(text, r) # {}
  <2>4. PICK b \in DOMAIN text : \E s \in Windows(text, b, n) : WordsFrom(text, b, s, n) = r.words
    BY <1>4, <1>7
  <2>1. PICK s \in Windows(text, b, n) : WordsFrom(text, b, s, n) = r.words
    BY <2>4
  <2> DEFINE p == [block |-> b, start |-> s, n |-> n]
  <2>2. p \in PlacesIn(text, b, n)
    BY <2>1 DEF PlacesIn
  <2>3. p \in A
    BY <1>3, <2>1, <2>2
  <2> QED
    BY <1>2, <2>1, <2>3
<1>8. IsFiniteSet(Exact(text, r))
  <2>1. Exact(text, r) \subseteq A
    BY <1>2
  <2> QED
    BY <1>5, <2>1, FS_Subset
<1> QED
  BY <1>2, <1>6, <1>7, <1>8

Sizes(text, b, n) == {IF m > Len(text[b].words) THEN Len(text[b].words) ELSE m : m \in {n - 1, n, n + 1} \ {0}}
PlacesNear(text, b, n) == UNION {PlacesIn(text, b, m) : m \in Sizes(text, b, n)}

LEMMA PlacesNearFacts ==
  ASSUME NEW text \in Texts, NEW b \in DOMAIN text, NEW n \in Nat, n # 0
  PROVE  IsFiniteSet(PlacesNear(text, b, n)) /\ \A p \in PlacesNear(text, b, n) : IsPlace(text, p)
<1> DEFINE S == Sizes(text, b, n)
           f == [m \in S |-> PlacesIn(text, b, m)]
<1>1. Len(text[b].words) \in Nat
  BY TextFacts
<1>2. \A m \in S : m \in Nat /\ m \in 0 .. n + 1
  BY <1>1 DEF Sizes
<1>3. IsFiniteSet(S)
  <2>1. 0 \in Int /\ n + 1 \in Int
    OBVIOUS
  <2>2. S \in SUBSET (0 .. n + 1)
    BY <1>2
  <2> QED
    BY <2>1, <2>2, FS_Interval, FS_Subset
<1>4. PlacesNear(text, b, n) = UNION {f[m] : m \in S}
  BY DEF PlacesNear
<1>5. DOMAIN f = S /\ \A m \in S : f[m] = PlacesIn(text, b, m)
  OBVIOUS
<1> HIDE DEF S, f
<1>6. \A m \in S : IsFiniteSet(f[m]) /\ \A p \in f[m] : IsPlace(text, p)
  BY <1>2, <1>5, PlacesInFacts
<1> QED
  BY <1>3, <1>4, <1>5, <1>6, UnionFinite

LEMMA FuzzyFacts ==
  ASSUME NEW text \in Texts, NEW r, RowOK(r), r.words # <<>>
  PROVE  /\ IsFiniteSet(Fuzzy(text, r))
         /\ \A p \in Fuzzy(text, r) : IsPlace(text, p) /\ WordsFrom(text, p.block, p.start, p.n) # <<>>
<1> DEFINE n == Len(r.words)
           f == [c \in DOMAIN text |-> PlacesNear(text, c, n)]
           A == UNION {f[c] : c \in DOMAIN text}
<1>1. n \in Nat /\ n # 0
  BY DEF RowOK
<1>2. Fuzzy(text, r) = {p \in A : 10 * Shared(text, r, p).inter >= 8 * Shared(text, r, p).union}
  BY DEF Fuzzy, PlacesIn, PlacesNear, Sizes, Shared
<1>3. DOMAIN f = DOMAIN text /\ \A c \in DOMAIN text : f[c] = PlacesNear(text, c, n)
  OBVIOUS
<1> HIDE DEF n, f
<1>4. ASSUME NEW c \in DOMAIN text
      PROVE  IsFiniteSet(f[c]) /\ \A p \in f[c] : IsPlace(text, p)
  BY <1>1, <1>3, PlacesNearFacts
<1>5. IsFiniteSet(A)
  <2>1. \A c \in DOMAIN text : IsFiniteSet(f[c])
    BY <1>4
  <2> QED
    BY <1>3, <2>1, DomainFinite, UnionFinite
<1>6. \A p \in A : IsPlace(text, p)
  BY <1>3, <1>4
<1>7. IsFiniteSet(Fuzzy(text, r))
  <2>1. Fuzzy(text, r) \subseteq A
    BY <1>2
  <2> QED
    BY <1>5, <2>1, FS_Subset
<1>8. ASSUME NEW p \in Fuzzy(text, r) PROVE WordsFrom(text, p.block, p.start, p.n) # <<>>
  <2>1. IsPlace(text, p)
    BY <1>2, <1>6
  <2>2. 10 * Shared(text, r, p).inter >= 8 * Shared(text, r, p).union
    BY <1>2
  <2>3. PICK i \in Nat, u \in Nat \ {0} : i = Shared(text, r, p).inter /\ u = Shared(text, r, p).union
    BY <2>1, Measures
  <2>4. i # 0
    BY <2>2, <2>3
  <2>5. WordsFrom(text, p.block, p.start, p.n) \in Seq(STRING) /\ r.words \in Seq(STRING)
    BY <2>1, Measures DEF RowOK
  <2>6. WordsFrom(text, p.block, p.start, p.n) = <<>> => Shared(text, r, p).inter = 0
    BY <2>5, SharedFacts DEF Shared
  <2> QED
    BY <2>3, <2>4, <2>6
<1> QED
  BY <1>2, <1>6, <1>7, <1>8

\* Where a highlight goes, and that its words go with it.
LEMMA ReanchorFacts ==
  ASSUME NEW text \in Texts, NEW r, RowOK(r), r.words # <<>>
  PROVE  /\ Reanchor(r, text) # Orphan =>
              LET p == Reanchor(r, text)
              IN /\ p.block \in DOMAIN text /\ p.start \in Nat
                 /\ WordsFrom(text, p.block, p.start, p.n) \in Seq(STRING) \ {<<>>}
         /\ Occurs(r.words, text) =>
              LET p == Reanchor(r, text)
              IN p # Orphan /\ WordsFrom(text, p.block, p.start, p.n) = r.words
<1> DEFINE p == Reanchor(r, text)
           W == WordsFrom(text, p.block, p.start, p.n)
<1>0. \A q : IsPlace(text, q) => q # Orphan /\ q.block \in DOMAIN text /\ q.start \in Nat /\ WordsFrom(text, q.block, q.start, q.n) \in Seq(STRING)
  <2>1. \A q : IsPlace(text, q) => q.block # 0 /\ q.block \in DOMAIN text /\ q.start \in Nat /\ WordsFrom(text, q.block, q.start, q.n) \in Seq(STRING)
    BY TextFacts, WindowFacts DEF IsPlace
  <2> QED
    BY <2>1 DEF Orphan
<1>1. CASE StillThere(r, text)
  <2>1. p = [block |-> r.block, start |-> r.start, n |-> Len(r.words)]
    BY <1>1 DEF Reanchor
  <2>2. p.block = r.block /\ p.start = r.start /\ p.n = Len(r.words)
    BY <2>1
  <2>3. r.block \in DOMAIN text /\ r.block # 0 /\ W = r.words /\ r.start \in Nat /\ r.words \in Seq(STRING)
    BY <1>1, <2>2, TextFacts DEF StillThere, RowOK
  <2>4. p # Orphan
    BY <2>2, <2>3 DEF Orphan
  <2> HIDE DEF p
  <2>5. W \in Seq(STRING) \ {<<>>}
    BY <2>3
  <2> QED
    BY <2>2, <2>3, <2>4, <2>5 DEF p
<1>2. CASE ~StillThere(r, text) /\ Exact(text, r) # {}
  <2>1. p = Best(text, r, Exact(text, r))
    BY <1>2 DEF Reanchor
  <2>2. p \in Exact(text, r)
    BY <1>2, <2>1, ExactFacts, BestIsOne
  <2>3. IsPlace(text, p) /\ W = r.words /\ r.words \in Seq(STRING)
    BY <2>2, ExactFacts DEF RowOK
  <2> HIDE DEF p
  <2> QED
    BY <1>0, <2>3 DEF p
<1>3. CASE ~StillThere(r, text) /\ Exact(text, r) = {} /\ Fuzzy(text, r) # {}
  <2>1. p = Best(text, r, Fuzzy(text, r))
    BY <1>3 DEF Reanchor
  <2>2. p \in Fuzzy(text, r)
    BY <1>3, <2>1, FuzzyFacts, BestIsOne
  <2>3. IsPlace(text, p) /\ W # <<>> /\ ~Occurs(r.words, text)
    BY <1>3, <2>2, FuzzyFacts, ExactFacts
  <2> HIDE DEF p
  <2> QED
    BY <1>0, <2>3 DEF p
<1>4. CASE ~StillThere(r, text) /\ Exact(text, r) = {} /\ Fuzzy(text, r) = {}
  <2>1. p = Orphan
    BY <1>4 DEF Reanchor
  <2>2. ~Occurs(r.words, text)
    BY <1>4, ExactFacts
  <2> QED
    BY <2>1, <2>2
<1> QED
  BY <1>1, <1>2, <1>3, <1>4

\* Texts are texts of the page, and every row, held or to be written ones included, is one.
TextsInv ==
  /\ DOMAIN first = Ids
  /\ page \in Texts /\ (commit # NoCommit => commit.to \in Texts)
  /\ \A i \in Ids : RowOK(rows[i])
  /\ \A n \in work.new : RowOK(n[2])
  /\ work.held # <<>> => RowOK(work.held[2])
  /\ \A m \in commit.todo : RowOK(m[2])

\* A highlight that is kept has the words it was made on: on the device, in the hands of the piece of work
\* that has read it and in those of the new text that will move it; and both texts have them.
KeptOf(i) ==
  /\ i \in Ids /\ rows[i].kind = "highlight" /\ rows[i].words = first[i]
  /\ work.held # <<>> /\ work.held[1] = i => work.held[2].words = first[i]
  /\ \A m \in commit.todo : m[1] = i => m[2].words = first[i]
  /\ Occurs(first[i], page) /\ (commit # NoCommit => Occurs(first[i], commit.to))
KeptInv == \A i \in kept : KeptOf(i)

WordsInv == TextsInv /\ KeptInv

LEMMA WordsFromType ==
  ASSUME NEW text \in Texts, NEW b \in DOMAIN text, NEW s \in Nat, NEW n \in Nat
  PROVE  WordsFrom(text, b, s, n) \in Seq(STRING)
<1> DEFINE W == text[b].words
           k == s - text[b].pad
<1>1. W \in Seq(STRING) /\ Len(W) \in Nat /\ k \in Int
  BY TextFacts
<1>2. CASE k >= 1 /\ k + n - 1 <= Len(W)
  <2>1. WordsFrom(text, b, s, n) = SubSeq(W, k, k + n - 1)
    BY <1>2 DEF WordsFrom
  <2> HIDE DEF W, k
  <2>2. \A x \in k .. k + n - 1 : x \in 1 .. Len(W)
    BY <1>1, <1>2
  <2> QED
    BY <1>1, <1>2, <2>1, <2>2
<1>3. CASE ~(k >= 1 /\ k + n - 1 <= Len(W))
  <2>1. WordsFrom(text, b, s, n) = <<>>
    BY <1>3 DEF WordsFrom
  <2> QED
    BY <2>1
<1> QED
  BY <1>2, <1>3

LEMMA MovedWords ==
  ASSUME NEW text \in Texts, NEW r, RowOK(r), r.kind = "highlight"
  PROVE  RowOK(Moved(r, text)) /\ (Occurs(r.words, text) => Moved(r, text).words = r.words)
<1> DEFINE p == Reanchor(r, text)
           W == WordsFrom(text, p.block, p.start, p.n)
           q == [r EXCEPT !.block = p.block, !.start = p.start, !.words = W, !.of = text[p.block].words]
<1>1. r.words # <<>>
  BY DEF RowOK
<1>2. Moved(r, text) = IF p = Orphan THEN r ELSE q
  BY DEF Moved
<1>3. p # Orphan => p.block \in DOMAIN text /\ p.start \in Nat /\ W \in Seq(STRING) /\ W # <<>>
  BY <1>1, ReanchorFacts
<1>4. Occurs(r.words, text) => W = r.words
  BY <1>1, ReanchorFacts
<1>5. p # Orphan => p.block \in Nat
  BY <1>3, TextFacts
<1> HIDE DEF p, W
<1>6. DOMAIN q = DOMAIN r /\ q.block = p.block /\ q.start = p.start /\ q.words = W /\ q.kind = r.kind
  BY DEF RowOK
<1> HIDE DEF q
<1>7. p # Orphan => RowOK(q)
  BY <1>3, <1>5, <1>6 DEF RowOK
<1> QED
  BY <1>2, <1>4, <1>6, <1>7

LEMMA InitWords == Init => WordsInv
<1> SUFFICES ASSUME Init PROVE WordsInv
  OBVIOUS
<1>1. RowOK(NoRow)
  BY DEF NoRow, RowOK
<1>4. FirstText \in Texts
  BY AnnotationsAssumption, Zenon DEF AnnotationsAssumption
<1>2. TextsInv
  BY <1>1, <1>4, Records DEF Init, TextsInv
<1>3. KeptInv
  BY DEF Init, KeptInv
<1> QED
  BY <1>2, <1>3 DEF WordsInv

\* Steps that write no row and change no text: only what is held may change, for a row as it is.
LEMMA ReadsOnly ==
  ASSUME WordsInv, UNCHANGED <<page, rows, commit, marks>>,
         \A n \in work'.new : RowOK(n[2]),
         work'.held # <<>> => \E i \in Ids : work'.held = <<i, rows[i]>>
  PROVE  WordsInv'
<1> USE DEF marks
<1>1. ASSUME work'.held # <<>> PROVE RowOK(work'.held[2]) /\ \A i \in kept : work'.held[1] = i => work'.held[2].words = first[i]
  <2>1. PICK i \in Ids : work'.held = <<i, rows[i]>>
    BY <1>1
  <2>2. work'.held[1] = i /\ work'.held[2] = rows[i]
    BY <2>1
  <2> QED
    BY <2>2 DEF WordsInv, TextsInv, KeptInv, KeptOf
<1>2. TextsInv'
  BY <1>1 DEF WordsInv, TextsInv
<1>3. KeptInv'
  BY <1>1 DEF WordsInv, KeptInv, KeptOf
<1> QED
  BY <1>2, <1>3 DEF WordsInv

LEMMA ReplaceWords ==
  ASSUME WordsInv, NEW D, NEW N, Replace(D, N), \A n \in N : RowOK(n[2])
  PROVE  WordsInv'
<1>1. work'.new = N /\ work'.held = <<>>
  BY Records DEF Replace, Begin
<1>2. UNCHANGED <<page, rows, commit, marks>>
  BY DEF Replace
<1> QED
  BY <1>1, <1>2, ReadsOnly

LEMMA ChildWords == IInv /\ WordsInv /\ Child => WordsInv'
<1> SUFFICES ASSUME IInv, WordsInv, Child PROVE WordsInv'
  OBVIOUS
<1>0. page \in Texts /\ \A i \in Ids : RowOK(rows[i])
  BY DEF WordsInv, TextsInv
<1>1. /\ DOMAIN NoRow = {"kind", "state", "block", "start", "words", "of", "text"}
      /\ NoRow.block \in Nat /\ NoRow.start \in Nat /\ NoRow.words \in Seq(STRING)
  BY DEF NoRow
<1>2. ASSUME NEW i \in Fresh, AddBox(i) PROVE WordsInv'
  <2> DEFINE box == [NoRow EXCEPT !.kind = "box", !.state = "live"]
  <2>1. RowOK(box)
    BY <1>1 DEF RowOK
  <2>2. Replace({}, {<<i, box>>})
    BY <1>2 DEF AddBox
  <2> HIDE DEF box
  <2> QED
    BY <2>1, <2>2, ReplaceWords
<1>3. ASSUME NEW i \in Fresh, NEW b \in DOMAIN page, NEW n \in Selections, NEW s \in Windows(page, b, n),
             AddHighlight(i, b, s, n)
      PROVE  WordsInv'
  <2> DEFINE W == WordsFrom(page, b, s, n)
             mark == [NoRow EXCEPT !.kind = "highlight", !.state = "live", !.block = b, !.start = s,
                                   !.words = W, !.of = page[b].words]
  <2>5. Selections \subseteq Nat \ {0}
    BY AnnotationsAssumption, Zenon DEF AnnotationsAssumption
  <2>1. n \in Nat /\ n # 0
    BY <2>5
  <2>2. W \in Seq(STRING) /\ W # <<>> /\ s \in Nat /\ b \in Nat
    BY <1>0, <2>1, WindowFacts, TextFacts
  <2>3. Replace({}, {<<i, mark>>})
    BY <1>3 DEF AddHighlight
  <2> HIDE DEF W
  <2>4. RowOK(mark)
    BY <1>1, <2>2 DEF RowOK
  <2> HIDE DEF mark
  <2> QED
    BY <2>3, <2>4, ReplaceWords
<1>4. ASSUME NEW i \in Fresh, NEW j \in Ids, Shorten(j, i) PROVE WordsInv'
  <2> DEFINE h == rows[j]
             rest == WordsFrom(page, h.block, h.start + 1, Len(h.words) - 1)
             mark == [h EXCEPT !.state = "live", !.start = @ + 1, !.words = rest]
  <2>1. RowOK(h) /\ h.block \in DOMAIN page /\ Len(h.words) > 1 /\ rest # <<>> /\ Replace({j}, {<<i, mark>>})
    BY <1>0, <1>4 DEF Shorten
  <2>2. h.start + 1 \in Nat /\ Len(h.words) - 1 \in Nat
    BY <2>1 DEF RowOK
  <2>3. rest \in Seq(STRING)
    BY <1>0, <2>1, <2>2, WordsFromType
  <2> HIDE DEF rest, h
  <2>4. RowOK(mark)
    BY <2>1, <2>2, <2>3 DEF RowOK
  <2> HIDE DEF mark
  <2> QED
    BY <2>1, <2>4, ReplaceWords
<1>5. ASSUME NEW i \in Ids, RemoveAnnotation(i) PROVE WordsInv'
  BY <1>5, ReplaceWords DEF RemoveAnnotation
<1>6. ASSUME NEW kind, ClearPage(kind) PROVE WordsInv'
  BY <1>6, ReplaceWords DEF ClearPage
<1>7. ASSUME NEW i, NEW kind, NEW t, Write(i, kind, t) PROVE WordsInv'
  <2>1. work'.new = {} /\ work'.held = <<>>
    BY <1>7, Records DEF Write, Begin
  <2>2. UNCHANGED <<page, rows, commit, marks>>
    BY <1>7 DEF Write
  <2> QED
    BY <2>1, <2>2, ReadsOnly
<1>8. ASSUME Undo \/ Redo PROVE WordsInv'
  <2>1. work'.new = {} /\ work'.held = <<>>
    BY <1>8, Records DEF Undo, Redo, Begin
  <2>2. UNCHANGED <<page, rows, commit, marks>>
    BY <1>8 DEF Undo, Redo
  <2> QED
    BY <2>1, <2>2, ReadsOnly
<1> QED
  BY <1>2, <1>3, <1>4, <1>5, <1>6, <1>7, <1>8 DEF Child

\* One row is written: with words that are its own if it is kept.
LEMMA RowWritten ==
  ASSUME IInv, WordsInv, NEW i, NEW r, rows' = [rows EXCEPT ![i] = r], RowOK(r),
         i \in Ids => r.kind = rows[i].kind, i \in kept => r.words = first[i],
         UNCHANGED <<page, marks>>, commit'.to = commit.to, commit'.todo \subseteq commit.todo,
         commit' # NoCommit => commit # NoCommit,
         work'.new \subseteq work.new, work'.held \in {<<>>, work.held}
  PROVE  WordsInv'
<1> USE DEF marks
<1>1. DOMAIN rows = Ids
  BY DEF IInv, Shapes
<1>2. \A k \in Ids : rows'[k] = IF k = i THEN r ELSE rows[k]
  BY <1>1
<1>3. TextsInv'
  BY <1>2 DEF WordsInv, TextsInv
<1>4. ASSUME NEW k \in kept PROVE KeptOf(k)'
  <2>1. KeptOf(k)
    BY DEF WordsInv, KeptInv
  <2>2. k \in Ids /\ rows'[k].kind = rows[k].kind /\ rows'[k].words = first[k]
    BY <1>2, <2>1 DEF KeptOf
  <2> QED
    BY <2>1, <2>2 DEF KeptOf
<1> QED
  BY <1>3, <1>4 DEF WordsInv, KeptInv

LEMMA CreateWords ==
  ASSUME IInv, WordsInv, NEW n \in work.new, Create(n)
  PROVE  WordsInv'
<1> DEFINE i == n[1]
           r == n[2]
<1>1. i \in Ids /\ rows[i].kind = "none" /\ RowOK(r) /\ DOMAIN rows = Ids /\ DOMAIN first = Ids /\ work.held = <<>>
  BY DEF Create, IInv, NewRows, Shapes, WordsInv, TextsInv
<1>2. /\ \A k \in Ids : rows'[k] = IF k = i THEN r ELSE rows[k]
      /\ \A k \in Ids : first'[k] = IF k = i THEN r.words ELSE first[k]
      /\ DOMAIN first' = Ids
  BY <1>1 DEF Create
<1>3. work'.new \subseteq work.new /\ work'.held = <<>> /\ UNCHANGED <<page, commit>>
  BY <1>1 DEF Create, IInv, Shapes
<1>4. \A k \in kept' : k \in kept \/ (k = i /\ r.kind = "highlight" /\ Occurs(r.words, page) /\ (commit = NoCommit \/ Occurs(r.words, commit.to)))
  BY DEF Create
<1> HIDE DEF i, r
<1>5. TextsInv'
  BY <1>1, <1>2, <1>3 DEF WordsInv, TextsInv
<1>6. \A m \in commit.todo : m[1] # i
  BY <1>1 DEF IInv, Moving
<1>7. ASSUME NEW k \in kept' PROVE KeptOf(k)'
  <2>1. CASE k \in kept
    <3>1. KeptOf(k) /\ k # i
      BY <1>1, <2>1 DEF WordsInv, KeptInv, KeptOf
    <3> QED
      BY <1>2, <1>3, <3>1 DEF KeptOf
  <2>2. CASE k = i /\ r.kind = "highlight" /\ Occurs(r.words, page) /\ (commit = NoCommit \/ Occurs(r.words, commit.to))
    BY <1>1, <1>2, <1>3, <1>6, <2>2 DEF KeptOf
  <2> QED
    BY <1>4, <2>1, <2>2
<1> QED
  BY <1>5, <1>7 DEF WordsInv, KeptInv

LEMMA StepWords == IInv /\ WordsInv /\ Step => WordsInv'
<1> SUFFICES ASSUME IInv, WordsInv, Step PROVE WordsInv'
  OBVIOUS
<1>0. /\ DOMAIN work = {"kind", "cmd", "del", "res", "new", "held", "text"}
      /\ \A n \in work.new : RowOK(n[2])
  BY DEF IInv, Shapes, WordsInv, TextsInv
<1>1. ASSUME NEW i \in Ids, ReadRow(i) PROVE WordsInv'
  <2>1. UNCHANGED <<page, rows, commit, marks>>
    BY <1>1 DEF ReadRow
  <2>2. work'.new = work.new /\ work'.held \in {<<>>, <<i, rows[i]>>}
    BY <1>0, <1>1 DEF ReadRow, Without
  <2> QED
    BY <1>0, <2>1, <2>2, ReadsOnly
<1>2. ASSUME NEW i \in Ids, ReadBox(i) PROVE WordsInv'
  <2>1. UNCHANGED <<page, rows, commit, marks>>
    BY <1>2, Zenon DEF ReadBox
  <2>3. work' = Idle \/ work' = [work EXCEPT !.held = <<i, rows[i]>>]
    BY <1>2, Zenon DEF ReadBox
  <2>2. work'.new \subseteq work.new /\ work'.held \in {<<>>, <<i, rows[i]>>}
    BY <1>0, <2>3, Records
  <2> QED
    BY <1>0, <2>1, <2>2, ReadsOnly
<1>3. CASE SaveRow
  <2> DEFINE i == work.held[1]
             h == work.held[2]
             r == [h EXCEPT !.state = Wanted]
  <2>1. work.held # <<>> /\ rows' = [rows EXCEPT ![i] = r] /\ work' = Without(i) /\ UNCHANGED <<page, commit, marks>>
    BY <1>3 DEF SaveRow
  <2>2. RowOK(h)
    BY <2>1 DEF WordsInv, TextsInv
  <2>3. work'.held = <<>> /\ work'.new = work.new
    BY <1>0, <2>1 DEF Without
  <2>4. (i \in Ids => h.kind = rows[i].kind) /\ (i \in kept => h.words = first[i])
    BY <2>1 DEF IInv, HeldRow, WordsInv, KeptInv, KeptOf
  <2> HIDE DEF h, i
  <2>5. DOMAIN r = DOMAIN h /\ r.kind = h.kind /\ r.words = h.words /\ r.block = h.block /\ r.start = h.start
    BY <2>2 DEF RowOK
  <2> HIDE DEF r
  <2>6. RowOK(r)
    BY <2>2, <2>5 DEF RowOK
  <2> QED
    BY <2>1, <2>3, <2>4, <2>5, <2>6, RowWritten
<1>4. CASE SaveBox
  <2> DEFINE i == work.held[1]
             h == work.held[2]
             s == IF work.kind = "leave" /\ work.text = "" THEN "deleted" ELSE "live"
             r == [h EXCEPT !.text = work.text, !.state = s]
  <2>1. work.held # <<>> /\ work.kind \in {"update", "leave"} /\ rows' = [rows EXCEPT ![i] = r] /\ work' = Idle /\ UNCHANGED <<page, commit, marks>>
    BY <1>4, Zenon DEF SaveBox
  <2>2. RowOK(h) /\ i \in Ids
    BY <2>1 DEF WordsInv, TextsInv, IInv, BoxInHand
  <2>3. work'.held = <<>> /\ work'.new = {}
    BY <2>1, Records
  <2>4. h.kind = rows[i].kind /\ (i \in kept => h.words = first[i])
    BY <2>1, <2>2 DEF IInv, HeldRow, WordsInv, KeptInv, KeptOf
  <2> HIDE DEF h, i, s
  <2>5. DOMAIN r = DOMAIN h /\ r.kind = h.kind /\ r.words = h.words /\ r.block = h.block /\ r.start = h.start
    BY <2>2 DEF RowOK
  <2> HIDE DEF r
  <2>6. RowOK(r)
    BY <2>2, <2>5 DEF RowOK
  <2> QED
    BY <2>1, <2>2, <2>3, <2>4, <2>5, <2>6, RowWritten
<1>5. ASSUME EndWork \/ Fail PROVE WordsInv'
  <2>1. work' = Idle /\ UNCHANGED <<page, rows, commit, marks>>
    BY <1>5 DEF EndWork, Fail
  <2> QED
    BY <2>1, Records, ReadsOnly
<1> QED
  BY <1>1, <1>2, <1>3, <1>4, <1>5, CreateWords DEF Step

LEMMA NewTextWords == IInv /\ WordsInv /\ NewText => WordsInv'
<1> SUFFICES ASSUME IInv, WordsInv, NewText PROVE WordsInv'
  OBVIOUS
<1>1. ASSUME NEW text \in Texts, StartCommit(text) PROVE WordsInv'
  <2>1. /\ UNCHANGED <<page, rows, work, first>> /\ commit'.to = text
        /\ \A m \in commit'.todo : m[1] \in Ids /\ m[2] = rows[m[1]]
        /\ \A i \in kept' : i \in kept /\ Occurs(first[i], text)
    BY <1>1 DEF StartCommit, Live, StillKept
  <2>2. TextsInv'
    BY <2>1 DEF WordsInv, TextsInv
  <2>3. \A i \in kept' : KeptOf(i)'
    BY <2>1 DEF WordsInv, KeptInv, KeptOf
  <2> QED
    BY <2>2, <2>3 DEF WordsInv, KeptInv
<1>2. ASSUME NEW text \in Texts, RemotePage(text) PROVE WordsInv'
  <2>1. /\ UNCHANGED <<commit, rows, work, first>> /\ page' = text
        /\ \A i \in kept' : i \in kept /\ Occurs(first[i], text)
    BY <1>2 DEF RemotePage, StillKept
  <2>2. TextsInv'
    BY <2>1 DEF WordsInv, TextsInv
  <2>3. \A i \in kept' : KeptOf(i)'
    BY <2>1 DEF WordsInv, KeptInv, KeptOf
  <2> QED
    BY <2>2, <2>3 DEF WordsInv, KeptInv
<1>3. ASSUME NEW m \in commit.todo, MoveRow(m) PROVE WordsInv'
  <2> DEFINE r == Moved(m[2], commit.to)
  <2>1. /\ m[1] \in Ids /\ rows[m[1]].kind = "highlight" /\ m[2].kind = "highlight" /\ IsRow(m[2])
        /\ RowOK(m[2]) /\ commit # NoCommit /\ commit.to \in Texts
    BY Records DEF IInv, Moving, WordsInv, TextsInv
  <2>2. commit'.to = commit.to /\ commit'.todo \subseteq commit.todo
    BY <1>3 DEF MoveRow, IInv, Shapes
  <2>3. UNCHANGED <<page, work, marks>>
    BY <1>3 DEF MoveRow
  <2>4. RowOK(r) /\ r.kind = rows[m[1]].kind
    BY <2>1, MovedWords, MovedKeeps
  <2>5. m[1] \in kept => r.words = first[m[1]]
    <3>1. m[1] \in kept => m[2].words = first[m[1]] /\ Occurs(first[m[1]], commit.to)
      BY <2>1 DEF WordsInv, KeptInv, KeptOf
    <3> QED
      BY <2>1, <3>1, MovedWords
  <2>6. rows' \in {rows, [rows EXCEPT ![m[1]] = r]}
    BY <1>3 DEF MoveRow
  <2> HIDE DEF r
  <2>7. CASE rows' = rows
    <3>1. TextsInv'
      BY <2>1, <2>2, <2>3, <2>7 DEF WordsInv, TextsInv, marks
    <3>2. \A i \in kept : KeptOf(i)'
      BY <2>1, <2>2, <2>3, <2>7 DEF WordsInv, KeptInv, KeptOf, marks
    <3> QED
      BY <2>3, <3>1, <3>2 DEF WordsInv, KeptInv, marks
  <2>8. CASE rows' = [rows EXCEPT ![m[1]] = r]
    BY <2>1, <2>2, <2>3, <2>4, <2>5, <2>8, RowWritten
  <2> QED
    BY <2>6, <2>7, <2>8
<1>4. CASE SavePage
  <2>1. commit # NoCommit /\ page' = commit.to /\ commit' = NoCommit /\ UNCHANGED <<rows, work, marks>>
    BY <1>4 DEF SavePage
  <2>2. commit'.todo = {}
    BY <2>1, Records
  <2>3. TextsInv'
    BY <2>1, <2>2 DEF WordsInv, TextsInv, marks
  <2>4. \A i \in kept : KeptOf(i)'
    BY <2>1, <2>2 DEF WordsInv, KeptInv, KeptOf, marks
  <2> QED
    BY <2>1, <2>3, <2>4 DEF WordsInv, KeptInv, marks
<1> QED
  BY <1>1, <1>2, <1>3, <1>4 DEF NewText

LEMMA NextWords == IInv /\ WordsInv /\ [Next]_vars => WordsInv'
<1> SUFFICES ASSUME IInv, WordsInv, [Next]_vars PROVE WordsInv'
  OBVIOUS
<1>1. CASE Reload
  <2>1. work' = Idle /\ commit' = NoCommit /\ UNCHANGED <<page, rows, marks>>
    BY <1>1 DEF Reload
  <2>2. TextsInv'
    BY <2>1, Records DEF WordsInv, TextsInv, marks
  <2>3. \A i \in kept : KeptOf(i)'
    BY <2>1, Records DEF WordsInv, KeptInv, KeptOf, marks
  <2> QED
    BY <2>1, <2>2, <2>3 DEF WordsInv, KeptInv, marks
<1>2. ASSUME NEW i \in Ids, NEW state \in {"live", "deleted"}, RemoteRow(i, state) PROVE WordsInv'
  <2> DEFINE r == [rows[i] EXCEPT !.state = state]
  <2>1. rows' = [rows EXCEPT ![i] = r] /\ UNCHANGED <<page, work, commit, marks>>
    BY <1>2 DEF RemoteRow
  <2>2. RowOK(rows[i]) /\ (i \in kept => rows[i].words = first[i])
    BY DEF WordsInv, TextsInv, KeptInv, KeptOf
  <2>3. RowOK(r) /\ r.kind = rows[i].kind /\ r.words = rows[i].words
    BY <2>2 DEF RowOK
  <2> HIDE DEF r
  <2> QED
    BY <2>1, <2>2, <2>3, RowWritten
<1>3. ASSUME NEW i \in Ids, NEW text \in Texts, RemoteMove(i, text) PROVE WordsInv'
  <2>1. PICK state \in {"live", "deleted"} : \E r :
          /\ r = [Moved(rows[i], text) EXCEPT !.state = state]
          /\ rows' = [rows EXCEPT ![i] = r] /\ r.kind = rows[i].kind /\ r.kind = "highlight"
    BY <1>3, MovedTo
  <2> DEFINE r == [Moved(rows[i], text) EXCEPT !.state = state]
  <2>2. RowOK(Moved(rows[i], text)) /\ (i \in kept' => Moved(rows[i], text).words = first[i])
    <3>1. RowOK(rows[i]) /\ rows[i].kind = "highlight"
      BY <1>3 DEF WordsInv, TextsInv, RemoteMove
    <3>2. i \in kept' => i \in kept /\ rows[i].words = first[i] /\ Occurs(rows[i].words, text)
      BY <1>3 DEF RemoteMove, WordsInv, KeptInv, KeptOf
    <3> QED
      BY <3>1, <3>2, MovedWords
  <2>3. RowOK(r) /\ r.words = Moved(rows[i], text).words
    BY <2>1, <2>2 DEF RowOK
  <2>8. rows' = [rows EXCEPT ![i] = r] /\ r.kind = rows[i].kind
    BY <2>1
  <2> HIDE DEF r
  <2>4. \A k \in Ids : rows'[k] = IF k = i THEN r ELSE rows[k]
    BY <2>8 DEF IInv, Shapes
  <2>5. UNCHANGED <<page, work, commit, first>> /\ kept' \subseteq kept
    BY <1>3 DEF RemoteMove
  <2>6. TextsInv'
    BY <2>3, <2>4, <2>5 DEF WordsInv, TextsInv
  <2>7. ASSUME NEW k \in kept' PROVE KeptOf(k)'
    <3>1. KeptOf(k)
      BY <2>5, <2>7 DEF WordsInv, KeptInv
    <3>2. k \in Ids /\ rows'[k].kind = rows[k].kind /\ rows'[k].words = first[k]
      BY <2>2, <2>3, <2>4, <2>7, <2>8, <3>1 DEF KeptOf
    <3> QED
      BY <2>5, <3>1, <3>2 DEF KeptOf
  <2> QED
    BY <2>6, <2>7 DEF WordsInv, KeptInv
<1>4. CASE UNCHANGED vars
  <2>1. TextsInv'
    BY <1>4 DEF vars, WordsInv, TextsInv
  <2>2. KeptInv'
    BY <1>4 DEF vars, WordsInv, KeptInv, KeptOf
  <2> QED
    BY <2>1, <2>2 DEF WordsInv
<1> QED
  BY <1>1, <1>2, <1>3, <1>4, ChildWords, StepWords, NewTextWords DEF Next, OtherDevice

\* Whatever moves a highlight, its row has the words it was made on while every text has them.
THEOREM WordsInvCorrect == Spec => []WordsInv
<1>1. IInv /\ WordsInv /\ [Next]_vars => WordsInv'
  BY NextWords
<1> QED
  BY InvCorrect, InitWords, <1>1, PTL DEF Spec

\* A highlight marks the words it was made on, for every set of texts, selections and annotations.
THEOREM FollowsItsWordsCorrect == Spec => []FollowsItsWords
<1>1. WordsInv => FollowsItsWords
  <2> SUFFICES ASSUME WordsInv, NEW i \in kept \cap Live
               PROVE  LET p == Reanchor(rows[i], page)
                      IN p # Orphan /\ WordsFrom(page, p.block, p.start, p.n) = first[i]
    BY DEF FollowsItsWords
  <2>1. /\ page \in Texts /\ RowOK(rows[i]) /\ rows[i].words = first[i] /\ rows[i].words # <<>>
        /\ Occurs(rows[i].words, page)
    BY DEF WordsInv, TextsInv, KeptInv, KeptOf, RowOK
  <2> QED
    BY <2>1, ReanchorFacts
<1> QED
  BY WordsInvCorrect, <1>1, PTL
----------------------------------------------------------------------------
(* Undo and redo lead where they say.                                      *)

Command == [created : SUBSET Ids, deleted : SUBSET Ids]
Newest(stack, k, i) == i \in Named(stack[k]) /\ \A l \in k + 1 .. Len(stack) : i \notin Named(stack[l])

\* Taking the commands of stack s back leads to goal, and those of r, once put on s, are what brought i where it
\* is; f is what taking a command back brings to life.
Leads(s, r, live, goal, i, f) ==
  /\ \A k \in DOMAIN s : Oldest(s, k, i) => (i \in goal <=> i \in s[k][f])
  /\ Unnamed(s, i) => (i \in live <=> i \in goal)
  /\ \A k \in DOMAIN r : Unnamed(s, i) /\ Newest(r, k, i) => (i \in live <=> i \in r[k][f])

\* An annotation nothing else touched is created by at most one command and deleted by at most one later one.
Chain(s, r, i) ==
  /\ \A k, l \in DOMAIN s : k < l /\ i \in Named(s[k]) /\ i \in Named(s[l]) => i \in s[k].created /\ i \in s[l].deleted
  /\ \A k \in DOMAIN s : \A l \in DOMAIN r : i \in Named(s[k]) /\ i \in Named(r[l]) => i \in s[k].created /\ i \in r[l].deleted
  /\ \A k, l \in DOMAIN r : k < l /\ i \in Named(r[k]) /\ i \in Named(r[l]) => i \in r[k].deleted /\ i \in r[l].created

\* It is alive as the commands of a stack left it: f brings to life, g removes.
Rests(s, live, i, f, g) ==
  /\ \A k \in DOMAIN s : i \in s[k][g] => i \notin live
  /\ \A k \in DOMAIN s : i \in s[k][f] /\ (\A l \in DOMAIN s : i \notin s[l][g]) => i \in live

LEMMA AppendFacts ==
  ASSUME NEW s \in Seq(Command), NEW c \in Command
  PROVE  /\ Append(s, c) \in Seq(Command) /\ Len(s) \in Nat /\ DOMAIN s = 1 .. Len(s)
         /\ Len(Append(s, c)) = Len(s) + 1 /\ DOMAIN Append(s, c) = 1 .. Len(s) + 1
         /\ \A k \in 1 .. Len(s) : Append(s, c)[k] = s[k]
         /\ Append(s, c)[Len(s) + 1] = c
  OBVIOUS

\* Which command on a stack with one more names an annotation first, and last.
LEMMA OnTop ==
  ASSUME NEW s \in Seq(Command), NEW c \in Command, NEW i
  PROVE  LET a == Append(s, c)
             n == Len(s)
         IN /\ \A k \in 1 .. n : /\ Oldest(a, k, i) <=> Oldest(s, k, i)
                                 /\ Newest(a, k, i) <=> Newest(s, k, i) /\ i \notin Named(c)
            /\ Oldest(a, n + 1, i) <=> i \in Named(c) /\ Unnamed(s, i)
            /\ Newest(a, n + 1, i) <=> i \in Named(c)
            /\ Unnamed(a, i) <=> Unnamed(s, i) /\ i \notin Named(c)
<1> DEFINE a == Append(s, c)
           n == Len(s)
<1>1. /\ n \in Nat /\ DOMAIN s = 1 .. n /\ Len(a) = n + 1 /\ DOMAIN a = 1 .. n + 1
      /\ \A k \in 1 .. n : a[k] = s[k]
      /\ a[n + 1] = c
  BY AppendFacts
<1> HIDE DEF a
<1>2. ASSUME NEW k \in 1 .. n
      PROVE  /\ Oldest(a, k, i) <=> Oldest(s, k, i)
             /\ Newest(a, k, i) <=> Newest(s, k, i) /\ i \notin Named(c)
  <2>1. \A l \in 1 .. k - 1 : l \in 1 .. n
    BY <1>1
  <2>2. \A l : l \in k + 1 .. n + 1 <=> l \in k + 1 .. n \/ l = n + 1
    BY <1>1
  <2>3. \A l \in k + 1 .. n : l \in 1 .. n
    BY <1>1
  <2>4. Oldest(a, k, i) <=> Oldest(s, k, i)
    BY <1>1, <2>1 DEF Oldest
  <2>5. Newest(a, k, i) <=> Newest(s, k, i) /\ i \notin Named(c)
    <3>1. (\A l \in k + 1 .. n + 1 : i \notin Named(a[l])) <=> (\A l \in k + 1 .. n : i \notin Named(s[l])) /\ i \notin Named(c)
      BY <1>1, <2>2, <2>3
    <3> QED
      BY <1>1, <3>1 DEF Newest
  <2> QED
    BY <2>4, <2>5
<1>3. n + 1 - 1 = n /\ \A l \in n + 1 + 1 .. n + 1 : FALSE
  BY <1>1
<1>4. Oldest(a, n + 1, i) <=> i \in Named(c) /\ Unnamed(s, i)
  BY <1>1, <1>3 DEF Oldest, Unnamed
<1>5. Newest(a, n + 1, i) <=> i \in Named(c)
  BY <1>1, <1>3 DEF Newest
<1>6. \A l : l \in 1 .. n + 1 <=> l \in 1 .. n \/ l = n + 1
  BY <1>1
<1>7. Unnamed(a, i) <=> Unnamed(s, i) /\ i \notin Named(c)
  BY <1>1, <1>6 DEF Unnamed
<1> QED
  BY <1>2, <1>4, <1>5, <1>7 DEF a

\* The top of r put on s.
LEMMA LeadsShift ==
  ASSUME NEW s \in Seq(Command), NEW r \in Seq(Command), NEW c \in Command, NEW live, NEW goal, NEW i, NEW f,
         Leads(s, Append(r, c), live, goal, i, f)
  PROVE  Leads(Append(s, c), r, live, goal, i, f)
<1> DEFINE a == Append(s, c)
           b == Append(r, c)
           n == Len(s)
           m == Len(r)
<1>1. /\ n \in Nat /\ DOMAIN s = 1 .. n /\ DOMAIN a = 1 .. n + 1 /\ a[n + 1] = c /\ \A k \in 1 .. n : a[k] = s[k]
      /\ m \in Nat /\ DOMAIN r = 1 .. m /\ DOMAIN b = 1 .. m + 1 /\ b[m + 1] = c /\ \A k \in 1 .. m : b[k] = r[k]
  BY AppendFacts
<1>2. /\ \A k \in 1 .. n : Oldest(a, k, i) <=> Oldest(s, k, i)
      /\ Oldest(a, n + 1, i) <=> i \in Named(c) /\ Unnamed(s, i)
      /\ Unnamed(a, i) <=> Unnamed(s, i) /\ i \notin Named(c)
      /\ \A k \in 1 .. m : Newest(b, k, i) <=> Newest(r, k, i) /\ i \notin Named(c)
      /\ Newest(b, m + 1, i) <=> i \in Named(c)
  BY OnTop
<1>3. \A k : (k \in 1 .. n + 1 <=> k \in 1 .. n \/ k = n + 1) /\ (k \in 1 .. m + 1 <=> k \in 1 .. m \/ k = m + 1)
  BY <1>1
<1>4. /\ \A k \in 1 .. n : Oldest(s, k, i) => (i \in goal <=> i \in s[k][f])
      /\ Unnamed(s, i) => (i \in live <=> i \in goal)
      /\ \A k \in 1 .. m + 1 : Unnamed(s, i) /\ Newest(b, k, i) => (i \in live <=> i \in b[k][f])
  BY <1>1 DEF Leads
<1> HIDE DEF a, b, n, m
<1>5. \A k \in 1 .. n + 1 : Oldest(a, k, i) => (i \in goal <=> i \in a[k][f])
  <2>1. m + 1 \in 1 .. m + 1
    BY <1>3
  <2>2. Oldest(a, n + 1, i) => (i \in goal <=> i \in c[f])
    BY <1>1, <1>2, <1>4, <2>1
  <2> QED
    BY <1>1, <1>2, <1>3, <1>4, <2>2
<1>6. Unnamed(a, i) => (i \in live <=> i \in goal)
  BY <1>2, <1>4
<1>7. \A k \in 1 .. m : Unnamed(a, i) /\ Newest(r, k, i) => (i \in live <=> i \in r[k][f])
  BY <1>1, <1>2, <1>3, <1>4
<1>8. DOMAIN a = 1 .. n + 1 /\ DOMAIN r = 1 .. m
  BY <1>1
<1> QED
  BY <1>5, <1>6, <1>7, <1>8 DEF Leads, a

\* The top of s put on r, once it is taken back.
LEMMA LeadsSettle ==
  ASSUME NEW s \in Seq(Command), NEW r \in Seq(Command), NEW c \in Command, NEW live, NEW goal, NEW i, NEW f,
         Leads(Append(s, c), r, live, goal, i, f), i \in Named(c) => (i \in live <=> i \in c[f])
  PROVE  Leads(s, Append(r, c), live, goal, i, f)
<1> DEFINE a == Append(s, c)
           b == Append(r, c)
           n == Len(s)
           m == Len(r)
<1>1. /\ n \in Nat /\ DOMAIN s = 1 .. n /\ DOMAIN a = 1 .. n + 1 /\ a[n + 1] = c /\ \A k \in 1 .. n : a[k] = s[k]
      /\ m \in Nat /\ DOMAIN r = 1 .. m /\ DOMAIN b = 1 .. m + 1 /\ b[m + 1] = c /\ \A k \in 1 .. m : b[k] = r[k]
  BY AppendFacts
<1>2. /\ \A k \in 1 .. n : Oldest(a, k, i) <=> Oldest(s, k, i)
      /\ Oldest(a, n + 1, i) <=> i \in Named(c) /\ Unnamed(s, i)
      /\ Unnamed(a, i) <=> Unnamed(s, i) /\ i \notin Named(c)
      /\ \A k \in 1 .. m : Newest(b, k, i) <=> Newest(r, k, i) /\ i \notin Named(c)
      /\ Newest(b, m + 1, i) <=> i \in Named(c)
  BY OnTop
<1>3. \A k : (k \in 1 .. n + 1 <=> k \in 1 .. n \/ k = n + 1) /\ (k \in 1 .. m + 1 <=> k \in 1 .. m \/ k = m + 1)
  BY <1>1
<1>4. /\ \A k \in 1 .. n + 1 : Oldest(a, k, i) => (i \in goal <=> i \in a[k][f])
      /\ Unnamed(a, i) => (i \in live <=> i \in goal)
      /\ \A k \in 1 .. m : Unnamed(a, i) /\ Newest(r, k, i) => (i \in live <=> i \in r[k][f])
  BY <1>1 DEF Leads
<1> HIDE DEF a, b, n, m
<1>5. \A k \in 1 .. n : Oldest(s, k, i) => (i \in goal <=> i \in s[k][f])
  BY <1>1, <1>2, <1>3, <1>4
<1>6. Unnamed(s, i) => (i \in live <=> i \in goal)
  <2>1. Oldest(a, n + 1, i) => (i \in goal <=> i \in c[f])
    BY <1>1, <1>3, <1>4
  <2> QED
    BY <1>2, <1>4, <2>1
<1>7. \A k \in 1 .. m + 1 : Unnamed(s, i) /\ Newest(b, k, i) => (i \in live <=> i \in b[k][f])
  BY <1>1, <1>2, <1>3, <1>4
<1>8. DOMAIN s = 1 .. n /\ DOMAIN b = 1 .. m + 1
  BY <1>1
<1> QED
  BY <1>5, <1>6, <1>7, <1>8 DEF Leads, b

\* A command put on s that is as if taken back, and one that does not name i taken away.
LEMMA LeadsGrow ==
  ASSUME NEW s \in Seq(Command), NEW r \in Seq(Command), NEW c \in Command, NEW live, NEW goal, NEW i, NEW f
  PROVE  /\ Leads(s, r, live, goal, i, f) /\ (i \in Named(c) => (i \in live <=> i \in c[f]))
              => Leads(Append(s, c), r, live, goal, i, f)
         /\ Leads(Append(s, c), r, live, goal, i, f) /\ i \notin Named(c) => Leads(s, r, live, goal, i, f)
         /\ Leads(s, Append(r, c), live, goal, i, f) /\ i \notin Named(c) => Leads(s, r, live, goal, i, f)
         /\ Leads(s, r, live, goal, i, f) /\ i \notin Named(c) => Leads(s, Append(r, c), live, goal, i, f)
<1> DEFINE a == Append(s, c)
           b == Append(r, c)
           n == Len(s)
           m == Len(r)
<1>1. /\ n \in Nat /\ DOMAIN s = 1 .. n /\ DOMAIN a = 1 .. n + 1 /\ a[n + 1] = c /\ \A k \in 1 .. n : a[k] = s[k]
      /\ m \in Nat /\ DOMAIN r = 1 .. m /\ DOMAIN b = 1 .. m + 1 /\ b[m + 1] = c /\ \A k \in 1 .. m : b[k] = r[k]
  BY AppendFacts
<1>2. /\ \A k \in 1 .. n : Oldest(a, k, i) <=> Oldest(s, k, i)
      /\ Oldest(a, n + 1, i) <=> i \in Named(c) /\ Unnamed(s, i)
      /\ Unnamed(a, i) <=> Unnamed(s, i) /\ i \notin Named(c)
      /\ \A k \in 1 .. m : Newest(b, k, i) <=> Newest(r, k, i) /\ i \notin Named(c)
      /\ Newest(b, m + 1, i) <=> i \in Named(c)
  BY OnTop
<1>3. \A k : (k \in 1 .. n + 1 <=> k \in 1 .. n \/ k = n + 1) /\ (k \in 1 .. m + 1 <=> k \in 1 .. m \/ k = m + 1)
  BY <1>1
<1> HIDE DEF a, b, n, m
<1>4. Leads(s, r, live, goal, i, f) /\ (i \in Named(c) => (i \in live <=> i \in c[f])) => Leads(a, r, live, goal, i, f)
  <2> SUFFICES ASSUME Leads(s, r, live, goal, i, f), i \in Named(c) => (i \in live <=> i \in c[f])
               PROVE  Leads(a, r, live, goal, i, f)
    OBVIOUS
  <2>1. \A k \in DOMAIN a : Oldest(a, k, i) => (i \in goal <=> i \in a[k][f])
    BY <1>1, <1>2, <1>3 DEF Leads
  <2>2. Unnamed(a, i) => (i \in live <=> i \in goal)
    BY <1>2 DEF Leads
  <2>3. \A k \in DOMAIN r : Unnamed(a, i) /\ Newest(r, k, i) => (i \in live <=> i \in r[k][f])
    BY <1>2 DEF Leads
  <2> QED
    BY <2>1, <2>2, <2>3 DEF Leads
<1>5. Leads(a, r, live, goal, i, f) /\ i \notin Named(c) => Leads(s, r, live, goal, i, f)
  <2> SUFFICES ASSUME Leads(a, r, live, goal, i, f), i \notin Named(c) PROVE Leads(s, r, live, goal, i, f)
    OBVIOUS
  <2>1. \A k \in DOMAIN s : Oldest(s, k, i) => (i \in goal <=> i \in s[k][f])
    BY <1>1, <1>2, <1>3 DEF Leads
  <2>2. Unnamed(s, i) => (i \in live <=> i \in goal)
    BY <1>2 DEF Leads
  <2>3. \A k \in DOMAIN r : Unnamed(s, i) /\ Newest(r, k, i) => (i \in live <=> i \in r[k][f])
    BY <1>2 DEF Leads
  <2> QED
    BY <2>1, <2>2, <2>3 DEF Leads
<1>6. i \notin Named(c) => (Leads(s, b, live, goal, i, f) <=> Leads(s, r, live, goal, i, f))
  <2> SUFFICES ASSUME i \notin Named(c) PROVE Leads(s, b, live, goal, i, f) <=> Leads(s, r, live, goal, i, f)
    OBVIOUS
  <2>1. (\A k \in DOMAIN b : Newest(b, k, i) => (i \in live <=> i \in b[k][f]))
          <=> (\A k \in DOMAIN r : Newest(r, k, i) => (i \in live <=> i \in r[k][f]))
    BY <1>1, <1>2, <1>3
  <2> QED
    BY <2>1 DEF Leads
<1> QED
  BY <1>4, <1>5, <1>6 DEF a, b

LEMMA LeadsLive ==
  ASSUME NEW s, NEW r, NEW live, NEW after, NEW goal, NEW i, NEW f,
         Leads(s, r, live, goal, i, f), Unnamed(s, i) => (i \in after <=> i \in live)
  PROVE  Leads(s, r, after, goal, i, f)
  BY DEF Leads

LEMMA RestsLive ==
  ASSUME NEW s, NEW live, NEW after, NEW i, NEW f, NEW g, Rests(s, live, i, f, g), i \in after <=> i \in live
  PROVE  Rests(s, after, i, f, g)
  BY DEF Rests

\* The same history, wherever the child stands in it.
LEMMA ChainShift ==
  ASSUME NEW s \in Seq(Command), NEW r \in Seq(Command), NEW c \in Command, NEW i
  PROVE  Chain(Append(s, c), r, i) <=> Chain(s, Append(r, c), i)
<1> DEFINE a == Append(s, c)
           b == Append(r, c)
           n == Len(s)
           m == Len(r)
<1>1. /\ n \in Nat /\ DOMAIN s = 1 .. n /\ DOMAIN a = 1 .. n + 1 /\ a[n + 1] = c /\ \A k \in 1 .. n : a[k] = s[k]
      /\ m \in Nat /\ DOMAIN r = 1 .. m /\ DOMAIN b = 1 .. m + 1 /\ b[m + 1] = c /\ \A k \in 1 .. m : b[k] = r[k]
  BY AppendFacts
<1>2. /\ \A k : k \in 1 .. n + 1 <=> k \in 1 .. n \/ k = n + 1
      /\ \A k \in 1 .. n : k < n + 1 /\ ~(n + 1 < k)
      /\ ~(n + 1 < n + 1)
  BY <1>1
<1>5. /\ \A k : k \in 1 .. m + 1 <=> k \in 1 .. m \/ k = m + 1
      /\ \A k \in 1 .. m : k < m + 1 /\ ~(m + 1 < k)
      /\ ~(m + 1 < m + 1)
  BY <1>1
<1> HIDE DEF a, b, n, m
<1> DEFINE In(d) == i \in Named(d)
           Low == \A k, l \in 1 .. n : k < l /\ In(s[k]) /\ In(s[l]) => i \in s[k].created /\ i \in s[l].deleted
           High == \A k, l \in 1 .. m : k < l /\ In(r[k]) /\ In(r[l]) => i \in r[k].deleted /\ i \in r[l].created
           Across == \A k \in 1 .. n : \A l \in 1 .. m : In(s[k]) /\ In(r[l]) => i \in s[k].created /\ i \in r[l].deleted
           Under == \A k \in 1 .. n : In(s[k]) /\ In(c) => i \in s[k].created /\ i \in c.deleted
           Over == \A l \in 1 .. m : In(c) /\ In(r[l]) => i \in c.created /\ i \in r[l].deleted
<1>3. Chain(a, r, i) <=> Low /\ Under /\ Across /\ Over /\ High
  <2> HIDE DEF In
  <2>1. (\A k, l \in 1 .. n + 1 : k < l /\ In(a[k]) /\ In(a[l]) => i \in a[k].created /\ i \in a[l].deleted) <=> Low /\ Under
    BY <1>1, <1>2, <1>5
  <2>2. (\A k \in 1 .. n + 1 : \A l \in 1 .. m : In(a[k]) /\ In(r[l]) => i \in a[k].created /\ i \in r[l].deleted) <=> Across /\ Over
    BY <1>1, <1>2, <1>5
  <2> QED
    BY <1>1, <2>1, <2>2 DEF Chain, In
<1>4. Chain(s, b, i) <=> Low /\ Under /\ Across /\ Over /\ High
  <2> HIDE DEF In
  <2>1. (\A k, l \in 1 .. m + 1 : k < l /\ In(b[k]) /\ In(b[l]) => i \in b[k].deleted /\ i \in b[l].created) <=> High /\ Over
    BY <1>1, <1>2, <1>5
  <2>2. (\A k \in 1 .. n : \A l \in 1 .. m + 1 : In(s[k]) /\ In(b[l]) => i \in s[k].created /\ i \in b[l].deleted) <=> Across /\ Under
    BY <1>1, <1>2, <1>5
  <2> QED
    BY <1>1, <2>1, <2>2 DEF Chain, In
<1> QED
  BY <1>3, <1>4 DEF a, b

\* A command on s, which names i only after a creation, or not at all.
LEMMA ChainGrow ==
  ASSUME NEW s \in Seq(Command), NEW r \in Seq(Command), NEW c \in Command, NEW i
  PROVE  /\ Chain(Append(s, c), r, i) => Chain(s, r, i)
         /\ Chain(s, r, i) /\ i \notin Named(c) => Chain(Append(s, c), r, i)
         /\ Chain(s, r, i) => Chain(s, <<>>, i)
         /\ Chain(s, <<>>, i) /\ (\A k \in DOMAIN s : i \in Named(s[k]) /\ i \in Named(c) => i \in s[k].created /\ i \in c.deleted)
              => Chain(Append(s, c), <<>>, i)
<1> DEFINE a == Append(s, c)
           n == Len(s)
<1>1. n \in Nat /\ DOMAIN s = 1 .. n /\ DOMAIN a = 1 .. n + 1 /\ a[n + 1] = c /\ \A k \in 1 .. n : a[k] = s[k]
  BY AppendFacts
<1>2. /\ \A k : k \in 1 .. n + 1 <=> k \in 1 .. n \/ k = n + 1
      /\ \A k \in 1 .. n : ~(n + 1 < k)
      /\ ~(n + 1 < n + 1)
  BY <1>1
<1>3. DOMAIN <<>> = {}
  OBVIOUS
<1> HIDE DEF a, n
<1>4. Chain(a, r, i) => Chain(s, r, i)
  BY <1>1, <1>2 DEF Chain
<1>5. Chain(s, r, i) => Chain(s, <<>>, i)
  BY <1>3 DEF Chain
<1>6. Chain(s, r, i) /\ i \notin Named(c) => Chain(a, r, i)
  BY <1>1, <1>2 DEF Chain
<1>7. Chain(s, <<>>, i) /\ (\A k \in DOMAIN s : i \in Named(s[k]) /\ i \in Named(c) => i \in s[k].created /\ i \in c.deleted) => Chain(a, <<>>, i)
  BY <1>1, <1>2, <1>3 DEF Chain
<1> QED
  BY <1>4, <1>5, <1>6, <1>7 DEF a

LEMMA RestsGrow ==
  ASSUME NEW s \in Seq(Command), NEW c \in Command, NEW live, NEW i, NEW f \in {"created", "deleted"}, NEW g \in {"created", "deleted"}
  PROVE  /\ i \notin Named(c) => (Rests(Append(s, c), live, i, f, g) <=> Rests(s, live, i, f, g))
         /\ /\ i \in c[g] => i \notin live
            /\ i \in c[f] => i \in live
            /\ \A k \in DOMAIN s : i \in s[k][g] => i \notin live
            /\ \A k \in DOMAIN s : i \in s[k][f] => i \in live \/ i \in c[g]
            => Rests(Append(s, c), live, i, f, g)
<1> DEFINE a == Append(s, c)
           n == Len(s)
<1>1. n \in Nat /\ DOMAIN s = 1 .. n /\ DOMAIN a = 1 .. n + 1 /\ a[n + 1] = c /\ \A k \in 1 .. n : a[k] = s[k]
  BY AppendFacts
<1>2. \A k : k \in 1 .. n + 1 <=> k \in 1 .. n \/ k = n + 1
  BY <1>1
<1>3. i \notin Named(c) => i \notin c[f] /\ i \notin c[g]
  BY DEF Named
<1> HIDE DEF a, n
<1>4. ASSUME i \notin Named(c) PROVE Rests(a, live, i, f, g) <=> Rests(s, live, i, f, g)
  <2>1. (\A k \in DOMAIN a : i \in a[k][g] => i \notin live) <=> (\A k \in DOMAIN s : i \in s[k][g] => i \notin live)
    BY <1>1, <1>2, <1>3, <1>4
  <2>2. (\A l \in DOMAIN a : i \notin a[l][g]) <=> (\A l \in DOMAIN s : i \notin s[l][g])
    BY <1>1, <1>2, <1>3, <1>4
  <2>3. (\A k \in DOMAIN a : i \in a[k][f] => i \in live) <=> (\A k \in DOMAIN s : i \in s[k][f] => i \in live)
    BY <1>1, <1>2, <1>3, <1>4
  <2> QED
    BY <2>1, <2>2, <2>3 DEF Rests
<1>5. ASSUME i \in c[g] => i \notin live, i \in c[f] => i \in live,
             \A k \in DOMAIN s : i \in s[k][g] => i \notin live,
             \A k \in DOMAIN s : i \in s[k][f] => i \in live \/ i \in c[g]
      PROVE  Rests(a, live, i, f, g)
  <2>1. \A k \in DOMAIN a : i \in a[k][g] => i \notin live
    BY <1>1, <1>2, <1>5
  <2>2. ASSUME NEW k \in DOMAIN a, i \in a[k][f], \A l \in DOMAIN a : i \notin a[l][g] PROVE i \in live
    <3>1. i \notin c[g]
      BY <1>1, <1>2, <2>2
    <3> QED
      BY <1>1, <1>2, <1>5, <2>2, <3>1
  <2> QED
    BY <2>1, <2>2 DEF Rests
<1> QED
  BY <1>4, <1>5 DEF a

\* The last command that names an annotation left it as it is.
LEMMA NewestRests ==
  ASSUME NEW s \in Seq(Command), NEW live, NEW i, NEW k \in DOMAIN s, Newest(s, k, i),
         \A l \in DOMAIN s : s[l].created \cap s[l].deleted = {},
         \A l \in DOMAIN s : l < k /\ i \in Named(s[l]) => i \in s[l].created /\ i \in s[k].deleted,
         Rests(s, live, i, "created", "deleted")
  PROVE  i \in live <=> i \in s[k].created
<1>1. Len(s) \in Nat /\ DOMAIN s = 1 .. Len(s) /\ \A l \in DOMAIN s : s[l].deleted = s[l]["deleted"] /\ s[l].created = s[l]["created"]
  OBVIOUS
<1>2. CASE i \in s[k].deleted
  BY <1>1, <1>2 DEF Rests
<1>3. CASE i \in s[k].created
  <2>1. ASSUME NEW l \in DOMAIN s PROVE i \notin s[l].deleted
    <3>1. CASE l < k
      BY <1>3, <2>1, <3>1 DEF Named
    <3>2. CASE l = k
      BY <1>3, <3>2
    <3>3. CASE k < l
      <4>1. l \in k + 1 .. Len(s)
        BY <1>1, <3>3
      <4> QED
        BY <4>1 DEF Newest, Named
    <3> QED
      BY <1>1, <3>1, <3>2, <3>3
  <2> QED
    BY <1>1, <1>3, <2>1 DEF Rests
<1>4. i \in s[k].created \/ i \in s[k].deleted
  BY DEF Newest, Named
<1> QED
  BY <1>2, <1>3, <1>4

Apart(c) == c.created \cap c.deleted = {}
NewIds == {n[1] : n \in work.new}
Left == work.del \cup work.res \cup NewIds
Target == IF work.kind = "undo" THEN work.cmd.deleted ELSE work.cmd.created
External == loose.undo \cap loose.redo

\* Commands name annotations; what runs outside the history has none.
StackInv ==
  /\ undo \in Seq(Command) /\ redo \in Seq(Command) /\ work.cmd \in Command
  /\ \A k \in DOMAIN undo : Apart(undo[k])
  /\ \A k \in DOMAIN redo : Apart(redo[k])
  /\ Apart(work.cmd)
  /\ ~InHistory => work.cmd = Nothing

\* No command names an annotation that is not there yet, but for the one that creates it.
UnusedInv ==
  \A i \in Ids : rows[i].state = "none" =>
    /\ Unnamed(undo, i) /\ Unnamed(redo, i)
    /\ i \in Named(work.cmd) => work.kind = "replace" /\ i \in NewIds

\* What a piece of work has done is done, whatever was changed meanwhile by others.
DoneInv ==
  /\ work.kind = "replace" => work.del \subseteq work.cmd.deleted /\ work.res = {} /\ NewIds \subseteq work.cmd.created
  /\ work.kind = "undo" => work.del \subseteq work.cmd.created /\ work.res \subseteq work.cmd.deleted /\ work.new = {}
  /\ work.kind = "redo" => work.del \subseteq work.cmd.deleted /\ work.res \subseteq work.cmd.created /\ work.new = {}
  /\ InHistory /\ work.held # <<>> => work.held[1] \in IF work.del # {} THEN work.del ELSE work.res
  /\ work.kind \in {"update", "leave"} /\ work.held # <<>> => work.held[1] \in Live \/ work.held[1] \in External
  /\ \A i \in Named(work.cmd) \ Left : i \in External \/ (i \in Live <=> i \in Target)

\* The work that runs counts as still on the stack it leads back from, for undo as for redo.
UndoInv == \A i \in Ids \ loose.undo : Leads(Append(undo, work.cmd), redo, Live, origin, i, "deleted")
RedoInv ==
  \A i \in Ids \ loose.redo :
    (work.kind = "replace" /\ i \in Named(work.cmd)) \/ Leads(Append(redo, work.cmd), undo, Live, latest, i, "created")
ChainInv ==
  \A i \in Ids \ (loose.undo \cup loose.redo) :
    /\ Chain(undo, redo, i)
    /\ Chain(Append(undo, work.cmd), IF work.kind = "replace" THEN <<>> ELSE redo, i)
    /\ i \notin Named(work.cmd) => Rests(undo, Live, i, "created", "deleted") /\ Rests(redo, Live, i, "deleted", "created")

HistInv == StackInv /\ UnusedInv /\ DoneInv /\ UndoInv /\ RedoInv /\ ChainInv

LEMMA NothingFacts == Nothing \in Command /\ Named(Nothing) = {} /\ Apart(Nothing) /\ Idle.cmd = Nothing
<1>1. Nothing \in Command /\ Nothing.created = {} /\ Nothing.deleted = {}
  BY DEF Nothing, Command
<1>2. Idle.cmd = Nothing
  BY DEF Idle
<1> QED
  BY <1>1, <1>2 DEF Named, Apart

LEMMA IdleFacts ==
  /\ Idle.kind = "idle" /\ Idle.del = {} /\ Idle.res = {} /\ Idle.new = {} /\ Idle.held = <<>> /\ Idle.cmd = Nothing
  /\ DOMAIN Idle = {"kind", "cmd", "del", "res", "new", "held", "text"}
<1>1. Idle.kind = "idle" /\ Idle.del = {} /\ Idle.res = {} /\ Idle.new = {} /\ Idle.held = <<>>
  BY DEF Idle
<1> QED
  BY <1>1, Records, NothingFacts

LEMMA CommandFields ==
  ASSUME NEW c \in Command
  PROVE  /\ c.created \in SUBSET Ids /\ c.deleted \in SUBSET Ids /\ Named(c) \subseteq Ids
         /\ c.created = c["created"] /\ c.deleted = c["deleted"]
         /\ \A i : i \in Named(c) <=> i \in c.created \/ i \in c.deleted
  BY DEF Command, Named

\* Steps within a piece of work: others change annotations that count as loose from then on.
LEMMA QuietStep ==
  ASSUME HistInv, UNCHANGED <<undo, redo, origin, latest>>, work'.cmd = work.cmd,
         work'.kind = "replace" <=> work.kind = "replace",
         loose.undo \subseteq loose'.undo, loose.redo \subseteq loose'.redo,
         \A i \in Ids : (i \in Live' <=> i \in Live) \/ i \in Named(work.cmd) \/ i \in External'
  PROVE  UndoInv' /\ RedoInv' /\ ChainInv'
<1> DEFINE c == work.cmd
<1>1. undo \in Seq(Command) /\ redo \in Seq(Command) /\ c \in Command
  BY DEF HistInv, StackInv
<1>2. \A i : External' = loose'.undo \cap loose'.redo
  BY DEF External
<1>3. ASSUME NEW i \in Ids, i \notin loose'.undo PROVE Leads(Append(undo, c), redo, Live', origin, i, "deleted")
  <2>1. Leads(Append(undo, c), redo, Live, origin, i, "deleted")
    BY <1>3 DEF HistInv, UndoInv
  <2>2. Unnamed(Append(undo, c), i) => i \notin Named(c)
    BY <1>1, OnTop
  <2>3. Unnamed(Append(undo, c), i) => (i \in Live' <=> i \in Live)
    BY <1>2, <1>3, <2>2
  <2> QED
    BY <2>1, <2>3, LeadsLive
<1>4. UndoInv'
  BY <1>3 DEF UndoInv
<1>5. ASSUME NEW i \in Ids, i \notin loose'.redo, ~(work.kind = "replace" /\ i \in Named(c))
      PROVE  Leads(Append(redo, c), undo, Live', latest, i, "created")
  <2>1. Leads(Append(redo, c), undo, Live, latest, i, "created")
    BY <1>5 DEF HistInv, RedoInv
  <2>2. Unnamed(Append(redo, c), i) => i \notin Named(c)
    BY <1>1, OnTop
  <2>3. Unnamed(Append(redo, c), i) => (i \in Live' <=> i \in Live)
    BY <1>2, <1>5, <2>2
  <2> QED
    BY <2>1, <2>3, LeadsLive
<1>6. RedoInv'
  BY <1>5 DEF RedoInv
<1>7. ASSUME NEW i \in Ids, i \notin loose'.undo \cup loose'.redo
      PROVE  /\ Chain(undo, redo, i)
             /\ Chain(Append(undo, c), IF work.kind = "replace" THEN <<>> ELSE redo, i)
             /\ i \notin Named(c) => Rests(undo, Live', i, "created", "deleted") /\ Rests(redo, Live', i, "deleted", "created")
  <2>1. /\ Chain(undo, redo, i)
        /\ Chain(Append(undo, c), IF work.kind = "replace" THEN <<>> ELSE redo, i)
        /\ i \notin Named(c) => Rests(undo, Live, i, "created", "deleted") /\ Rests(redo, Live, i, "deleted", "created")
    BY <1>7 DEF HistInv, ChainInv
  <2>2. i \notin Named(c) => (i \in Live' <=> i \in Live)
    BY <1>2, <1>7
  <2> QED
    BY <2>1, <2>2, RestsLive
<1>8. ChainInv'
  BY <1>7 DEF ChainInv
<1> QED
  BY <1>4, <1>6, <1>8

\* The child starts to create and remove.
LEMMA ReplaceHist ==
  ASSUME IInv, HistInv, NEW D \in SUBSET Ids, NEW N, Replace(D, N),
         \A d \in D : rows[d].state # "none",
         \A n \in N : n[1] \in Ids /\ rows[n[1]].state = "none"
  PROVE  HistInv'
<1> DEFINE C == {n[1] : n \in N}
           c == [created |-> C, deleted |-> D]
<1>1. /\ work = Idle
      /\ work' = [Idle EXCEPT !.kind = "replace", !.cmd = c, !.del = D, !.new = N]
      /\ loose' = [undo |-> loose.undo \cup (D \ Live), redo |-> loose.redo \cup (D \ Live)]
      /\ UNCHANGED <<rows, undo, redo, origin, latest>>
  BY DEF Replace, Begin, stacks
<1>2. C \subseteq Ids /\ C \cap D = {} /\ \A i \in C : rows[i].state = "none"
  OBVIOUS
<1>3. c \in Command /\ c.created = C /\ c.deleted = D /\ Apart(c) /\ \A i : i \in Named(c) <=> i \in C \/ i \in D
  BY <1>2 DEF Command, Apart, Named
<1> HIDE DEF c
<1>4. /\ work'.kind = "replace" /\ work'.cmd = c /\ work'.del = D /\ work'.res = {} /\ work'.new = N /\ work'.held = <<>>
      /\ work.kind = "idle" /\ work.cmd = Nothing
  BY <1>1, IdleFacts
<1>5. Live' = Live /\ \A i : i \in Live <=> i \in Ids /\ rows[i].state = "live"
  BY <1>1 DEF Live
<1>6. NewIds' = C /\ Left' = C \cup D
  BY <1>4 DEF NewIds, Left
<1> HIDE DEF C
<1>7. undo \in Seq(Command) /\ redo \in Seq(Command) /\ Nothing \in Command /\ Named(Nothing) = {}
  BY NothingFacts DEF HistInv, StackInv
<1>8. StackInv'
  BY <1>1, <1>3, <1>4 DEF HistInv, StackInv, InHistory
<1>9. UnusedInv'
  BY <1>1, <1>3, <1>4, <1>6 DEF HistInv, UnusedInv
<1>10. DoneInv'
  BY <1>3, <1>4, <1>6 DEF DoneInv
<1>11. ASSUME NEW i \in Ids, i \notin loose'.undo PROVE Leads(Append(undo, c), redo, Live, origin, i, "deleted")
  <2>1. i \notin loose.undo /\ (i \in D => i \in Live)
    BY <1>1, <1>11
  <2>2. Leads(undo, redo, Live, origin, i, "deleted")
    BY <1>4, <1>7, <2>1, LeadsGrow DEF HistInv, UndoInv
  <2>3. i \in Named(c) => (i \in Live <=> i \in c["deleted"])
    BY <1>2, <1>3, <1>5, <2>1
  <2> QED
    BY <1>3, <1>7, <2>2, <2>3, LeadsGrow
<1>12. UndoInv'
  BY <1>1, <1>4, <1>5, <1>11 DEF UndoInv
<1>13. ASSUME NEW i \in Ids, i \notin loose'.redo, i \notin Named(c) PROVE Leads(Append(redo, c), undo, Live, latest, i, "created")
  <2>1. i \notin loose.redo
    BY <1>1, <1>13
  <2>2. Leads(redo, undo, Live, latest, i, "created")
    BY <1>4, <1>7, <2>1, LeadsGrow DEF HistInv, RedoInv
  <2> QED
    BY <1>3, <1>7, <1>13, <2>2, LeadsGrow
<1>14. RedoInv'
  BY <1>1, <1>4, <1>5, <1>13 DEF RedoInv
<1>15. ASSUME NEW i \in Ids, i \notin loose'.undo \cup loose'.redo
       PROVE  /\ Chain(undo, redo, i) /\ Chain(Append(undo, c), <<>>, i)
              /\ Rests(undo, Live, i, "created", "deleted") /\ Rests(redo, Live, i, "deleted", "created")
  <2>1. i \notin loose.undo \cup loose.redo /\ (i \in D => i \in Live)
    BY <1>1, <1>15
  <2>2. Chain(undo, redo, i) /\ Rests(undo, Live, i, "created", "deleted") /\ Rests(redo, Live, i, "deleted", "created")
    BY <1>4, <1>7, <2>1 DEF HistInv, ChainInv
  <2>3. ASSUME NEW k \in DOMAIN undo, i \in Named(undo[k]), i \in Named(c) PROVE i \in undo[k].created /\ i \in c.deleted
    <3>1. i \notin C
      BY <1>2, <2>3 DEF HistInv, UnusedInv, Unnamed
    <3>2. i \in D /\ i \in Live
      BY <1>3, <2>1, <2>3, <3>1
    <3>3. i \notin undo[k].deleted
      BY <2>2, <3>2 DEF Rests
    <3> QED
      BY <1>3, <2>3, <3>2, <3>3 DEF Named
  <2>4. Chain(undo, <<>>, i)
    BY <1>3, <1>7, <2>2, ChainGrow
  <2>5. Chain(Append(undo, c), <<>>, i)
    BY <1>3, <1>7, <2>3, <2>4, ChainGrow
  <2> QED
    BY <2>2, <2>5
<1>16. ChainInv'
  BY <1>1, <1>4, <1>5, <1>15 DEF ChainInv
<1> QED
  BY <1>8, <1>9, <1>10, <1>12, <1>14, <1>16 DEF HistInv

LEMMA FrontLast ==
  ASSUME NEW s \in Seq(Command), s # <<>>
  PROVE  Front(s) \in Seq(Command) /\ Last(s) \in Command /\ Append(Front(s), Last(s)) = s
<1>1. Len(s) \in Nat \ {0} /\ DOMAIN s = 1 .. Len(s)
  OBVIOUS
<1>2. PICK n \in Nat : Len(s) = n + 1
  <2>1. Len(s) - 1 \in Nat /\ Len(s) = Len(s) - 1 + 1
    BY <1>1
  <2> QED
    BY <2>1, Zenon
<1>3. n + 1 - 1 = n /\ \A k : k \in 1 .. n + 1 <=> k \in 1 .. n \/ k = n + 1
  OBVIOUS
<1> DEFINE t == SubSeq(s, 1, n)
           a == Append(t, s[n + 1])
<1>4. Front(s) = t /\ Last(s) = s[n + 1]
  BY <1>2, <1>3 DEF Front, Last
<1>5. s[n + 1] \in Command /\ \A k \in 1 .. n : s[k] \in Command
  BY <1>1, <1>2, <1>3
<1>6. t \in Seq(Command) /\ Len(t) = n /\ \A k \in 1 .. n : t[k] = s[k]
  BY <1>1, <1>2, <1>3
<1> HIDE DEF t
<1>7. a \in Seq(Command) /\ Len(a) = n + 1 /\ a[n + 1] = s[n + 1] /\ \A k \in 1 .. n : a[k] = t[k]
  BY <1>5, <1>6, AppendFacts
<1> HIDE DEF a
<1>8. Len(a) = Len(s) /\ \A k \in 1 .. Len(s) : a[k] = s[k]
  BY <1>2, <1>3, <1>6, <1>7
<1>9. a = s
  BY <1>7, <1>8
<1> QED
  BY <1>4, <1>5, <1>6, <1>9 DEF a

LEMMA TailFacts ==
  ASSUME NEW s \in Seq(Command), NEW c \in Command
  PROVE  LET a == Append(s, c)
             t == Tail(a)
         IN /\ t \in Seq(Command) /\ Head(a) \in Command /\ Head(a) = a[1]
            /\ DOMAIN t = 1 .. Len(s) /\ Len(t) = Len(s) /\ \A k \in 1 .. Len(s) : t[k] = a[k + 1]
<1> DEFINE a == Append(s, c)
<1>1. a \in Seq(Command) /\ Len(a) = Len(s) + 1 /\ Len(s) \in Nat
  BY AppendFacts
<1> HIDE DEF a
<1>2. a # <<>>
  BY <1>1
<1>3. Head(a) = a[1] /\ Head(a) \in Command /\ Tail(a) \in Seq(Command) /\ Len(Tail(a)) = Len(a) - 1
  BY <1>1, <1>2, HeadTailProperties
<1>4. \A k \in 1 .. Len(s) : Tail(a)[k] = a[k + 1]
  BY <1>1, <1>2, <1>3, HeadTailProperties
<1>5. Len(Tail(a)) = Len(s) /\ DOMAIN Tail(a) = 1 .. Len(s)
  BY <1>1, <1>3
<1> QED
  BY <1>3, <1>4, <1>5 DEF a

LEMMA UndoHist == IInv /\ HistInv /\ Undo => HistInv'
<1> SUFFICES ASSUME IInv, HistInv, Undo PROVE HistInv'
  OBVIOUS
<1> DEFINE c == Last(undo)
           u == Front(undo)
<1>1. /\ work = Idle /\ undo' = u /\ undo # <<>>
      /\ work' = [Idle EXCEPT !.kind = "undo", !.cmd = c, !.del = c.created, !.res = c.deleted]
      /\ UNCHANGED <<rows, redo, origin, latest, loose>>
  BY DEF Undo, Begin
<1>2. u \in Seq(Command) /\ c \in Command /\ Append(u, c) = undo
      /\ redo \in Seq(Command) /\ undo \in Seq(Command) /\ Nothing \in Command /\ Named(Nothing) = {}
  BY <1>1, FrontLast, NothingFacts DEF HistInv, StackInv
<1> HIDE DEF c, u
<1>3. /\ work'.kind = "undo" /\ work'.cmd = c /\ work'.del = c.created /\ work'.res = c.deleted /\ work'.new = {}
      /\ work'.held = <<>> /\ work.kind = "idle" /\ work.cmd = Nothing
  BY <1>1, IdleFacts
<1>4. Live' = Live /\ NewIds' = {} /\ Left' = Named(c)
  BY <1>1, <1>3 DEF Live, NewIds, Left, Named
<1>5. Apart(c) /\ \A k \in DOMAIN u : Apart(u[k])
  <2>1. /\ DOMAIN u = 1 .. Len(u) /\ Len(u) \in Nat /\ DOMAIN undo = 1 .. Len(u) + 1
        /\ undo[Len(u) + 1] = c /\ \A k \in 1 .. Len(u) : undo[k] = u[k]
    BY <1>2, AppendFacts
  <2>2. Len(u) + 1 \in 1 .. Len(u) + 1 /\ \A k \in 1 .. Len(u) : k \in 1 .. Len(u) + 1
    BY <2>1
  <2> QED
    BY <2>1, <2>2 DEF HistInv, StackInv
<1>6. StackInv'
  BY <1>1, <1>2, <1>3, <1>5 DEF HistInv, StackInv, InHistory
<1>7. \A i : Unnamed(undo, i) => Unnamed(u, i) /\ i \notin Named(c)
  BY <1>2, OnTop
<1>8. UnusedInv'
  BY <1>1, <1>3, <1>7 DEF HistInv, UnusedInv
<1>9. DoneInv'
  BY <1>3, <1>4 DEF DoneInv
<1>10. ASSUME NEW i \in Ids, i \notin loose.undo PROVE Leads(Append(u, c), redo, Live, origin, i, "deleted")
  BY <1>2, <1>3, <1>10, LeadsGrow DEF HistInv, UndoInv
<1>11. ASSUME NEW i \in Ids, i \notin loose.redo PROVE Leads(Append(redo, c), u, Live, latest, i, "created")
  <2>1. Leads(redo, Append(u, c), Live, latest, i, "created")
    BY <1>2, <1>3, <1>11, LeadsGrow DEF HistInv, RedoInv
  <2> QED
    BY <1>2, <2>1, LeadsShift
<1>12. ASSUME NEW i \in Ids, i \notin loose.undo \cup loose.redo
       PROVE  /\ Chain(u, redo, i) /\ Chain(Append(u, c), redo, i)
              /\ i \notin Named(c) => Rests(u, Live, i, "created", "deleted") /\ Rests(redo, Live, i, "deleted", "created")
  <2>1. Chain(Append(u, c), redo, i) /\ Rests(Append(u, c), Live, i, "created", "deleted") /\ Rests(redo, Live, i, "deleted", "created")
    BY <1>2, <1>3, <1>12 DEF HistInv, ChainInv
  <2>2. Chain(u, redo, i)
    BY <1>2, <2>1, ChainGrow
  <2> QED
    BY <1>2, <2>1, <2>2, RestsGrow
<1>13. UndoInv' /\ RedoInv' /\ ChainInv'
  BY <1>1, <1>3, <1>4, <1>10, <1>11, <1>12 DEF UndoInv, RedoInv, ChainInv
<1> QED
  BY <1>6, <1>8, <1>9, <1>13 DEF HistInv

LEMMA RedoHist == IInv /\ HistInv /\ Redo => HistInv'
<1> SUFFICES ASSUME IInv, HistInv, Redo PROVE HistInv'
  OBVIOUS
<1> DEFINE c == Last(redo)
           v == Front(redo)
<1>1. /\ work = Idle /\ redo' = v /\ redo # <<>>
      /\ work' = [Idle EXCEPT !.kind = "redo", !.cmd = c, !.del = c.deleted, !.res = c.created]
      /\ UNCHANGED <<rows, undo, origin, latest, loose>>
  BY DEF Redo, Begin
<1>2. v \in Seq(Command) /\ c \in Command /\ Append(v, c) = redo
      /\ redo \in Seq(Command) /\ undo \in Seq(Command) /\ Nothing \in Command /\ Named(Nothing) = {}
  BY <1>1, FrontLast, NothingFacts DEF HistInv, StackInv
<1> HIDE DEF c, v
<1>3. /\ work'.kind = "redo" /\ work'.cmd = c /\ work'.del = c.deleted /\ work'.res = c.created /\ work'.new = {}
      /\ work'.held = <<>> /\ work.kind = "idle" /\ work.cmd = Nothing
  BY <1>1, IdleFacts
<1>4. Live' = Live /\ NewIds' = {} /\ Left' = Named(c)
  BY <1>1, <1>3 DEF Live, NewIds, Left, Named
<1>5. Apart(c) /\ \A k \in DOMAIN v : Apart(v[k])
  <2>1. /\ DOMAIN v = 1 .. Len(v) /\ Len(v) \in Nat /\ DOMAIN redo = 1 .. Len(v) + 1
        /\ redo[Len(v) + 1] = c /\ \A k \in 1 .. Len(v) : redo[k] = v[k]
    BY <1>2, AppendFacts
  <2>2. Len(v) + 1 \in 1 .. Len(v) + 1 /\ \A k \in 1 .. Len(v) : k \in 1 .. Len(v) + 1
    BY <2>1
  <2> QED
    BY <2>1, <2>2 DEF HistInv, StackInv
<1>6. StackInv'
  BY <1>1, <1>2, <1>3, <1>5 DEF HistInv, StackInv, InHistory
<1>7. \A i : Unnamed(redo, i) => Unnamed(v, i) /\ i \notin Named(c)
  BY <1>2, OnTop
<1>8. UnusedInv'
  BY <1>1, <1>3, <1>7 DEF HistInv, UnusedInv
<1>9. DoneInv'
  BY <1>3, <1>4 DEF DoneInv
<1>10. ASSUME NEW i \in Ids, i \notin loose.redo PROVE Leads(Append(v, c), undo, Live, latest, i, "created")
  BY <1>2, <1>3, <1>10, LeadsGrow DEF HistInv, RedoInv
<1>11. ASSUME NEW i \in Ids, i \notin loose.undo PROVE Leads(Append(undo, c), v, Live, origin, i, "deleted")
  <2>1. Leads(undo, Append(v, c), Live, origin, i, "deleted")
    BY <1>2, <1>3, <1>11, LeadsGrow DEF HistInv, UndoInv
  <2> QED
    BY <1>2, <2>1, LeadsShift
<1>12. ASSUME NEW i \in Ids, i \notin loose.undo \cup loose.redo
       PROVE  /\ Chain(undo, v, i) /\ Chain(Append(undo, c), v, i)
              /\ i \notin Named(c) => Rests(undo, Live, i, "created", "deleted") /\ Rests(v, Live, i, "deleted", "created")
  <2>1. Chain(undo, Append(v, c), i) /\ Rests(undo, Live, i, "created", "deleted") /\ Rests(Append(v, c), Live, i, "deleted", "created")
    BY <1>2, <1>3, <1>12 DEF HistInv, ChainInv
  <2>2. Chain(Append(undo, c), v, i)
    BY <1>2, <2>1, ChainShift
  <2>3. Chain(undo, v, i)
    BY <1>2, <2>2, ChainGrow
  <2> QED
    BY <1>2, <2>1, <2>2, <2>3, RestsGrow
<1>13. UndoInv' /\ RedoInv' /\ ChainInv'
  BY <1>1, <1>3, <1>4, <1>10, <1>11, <1>12 DEF UndoInv, RedoInv, ChainInv
<1> QED
  BY <1>6, <1>8, <1>9, <1>13 DEF HistInv

\* What a command that ends leaves on both sides of it.
LEMMA EndRests ==
  ASSUME NEW s \in Seq(Command), NEW r \in Seq(Command), NEW c \in Command, NEW live, NEW i \in Named(c),
         Chain(Append(s, c), r, i), Apart(c), \A k \in DOMAIN s : Apart(s[k]), \A k \in DOMAIN r : Apart(r[k])
  PROVE  /\ (i \in live <=> i \in c.deleted)
              => Rests(s, live, i, "created", "deleted") /\ Rests(Append(r, c), live, i, "deleted", "created")
         /\ (i \in live <=> i \in c.created)
              => Rests(Append(s, c), live, i, "created", "deleted") /\ Rests(r, live, i, "deleted", "created")
<1> DEFINE a == Append(s, c)
           n == Len(s)
<1>1. n \in Nat /\ DOMAIN s = 1 .. n /\ DOMAIN a = 1 .. n + 1 /\ a[n + 1] = c /\ \A k \in 1 .. n : a[k] = s[k]
  BY AppendFacts
<1>2. n + 1 \in 1 .. n + 1 /\ \A k \in 1 .. n : k \in 1 .. n + 1 /\ k < n + 1
  BY <1>1
<1> HIDE DEF a, n
<1>3. \A k \in DOMAIN s : i \in Named(s[k]) => i \in s[k].created /\ i \in c.deleted
  BY <1>1, <1>2 DEF Chain, a
<1>4. \A l \in DOMAIN r : i \in Named(r[l]) => i \in c.created /\ i \in r[l].deleted
  BY <1>1, <1>2 DEF Chain, a
<1>5. /\ i \in c.created \/ i \in c.deleted
      /\ ~(i \in c.created /\ i \in c.deleted)
      /\ \A k \in DOMAIN s : ~(i \in s[k].created /\ i \in s[k].deleted)
      /\ \A k \in DOMAIN r : ~(i \in r[k].created /\ i \in r[k].deleted)
  BY DEF Apart, Named
<1>6. /\ \A k \in DOMAIN s : i \in s[k].created \/ i \in s[k].deleted => i \in Named(s[k])
      /\ \A k \in DOMAIN r : i \in r[k].created \/ i \in r[k].deleted => i \in Named(r[k])
  BY DEF Named
<1>7. ASSUME i \in live <=> i \in c.deleted
      PROVE  Rests(s, live, i, "created", "deleted") /\ Rests(Append(r, c), live, i, "deleted", "created")
  <2>1. Rests(s, live, i, "created", "deleted")
    BY <1>3, <1>5, <1>6, <1>7 DEF Rests
  <2>2. /\ i \in c["created"] => i \notin live
        /\ i \in c["deleted"] => i \in live
        /\ \A k \in DOMAIN r : i \in r[k]["created"] => i \notin live
        /\ \A k \in DOMAIN r : i \in r[k]["deleted"] => i \in live \/ i \in c["created"]
    BY <1>4, <1>5, <1>6, <1>7
  <2> QED
    BY <2>1, <2>2, RestsGrow
<1>8. ASSUME i \in live <=> i \in c.created
      PROVE  Rests(a, live, i, "created", "deleted") /\ Rests(r, live, i, "deleted", "created")
  <2>1. Rests(r, live, i, "deleted", "created")
    BY <1>4, <1>5, <1>6, <1>8 DEF Rests
  <2>2. /\ i \in c["deleted"] => i \notin live
        /\ i \in c["created"] => i \in live
        /\ \A k \in DOMAIN s : i \in s[k]["deleted"] => i \notin live
        /\ \A k \in DOMAIN s : i \in s[k]["created"] => i \in live \/ i \in c["deleted"]
    BY <1>3, <1>5, <1>6, <1>8
  <2> QED
    BY <2>1, <2>2, RestsGrow DEF a
<1> QED
  BY <1>7, <1>8 DEF a

\* Nothing to redo.
LEMMA LeadsNone ==
  ASSUME NEW s, NEW live, NEW goal, NEW i, NEW f
  PROVE  Leads(s, <<>>, live, goal, i, f) <=>
           /\ \A k \in DOMAIN s : Oldest(s, k, i) => (i \in goal <=> i \in s[k][f])
           /\ Unnamed(s, i) => (i \in live <=> i \in goal)
<1> DEFINE r == <<>>
<1>1. DOMAIN r = {}
  OBVIOUS
<1> HIDE DEF r
<1>2. Leads(s, r, live, goal, i, f) <=>
        /\ \A k \in DOMAIN s : Oldest(s, k, i) => (i \in goal <=> i \in s[k][f])
        /\ Unnamed(s, i) => (i \in live <=> i \in goal)
  BY <1>1 DEF Leads
<1> QED
  BY <1>2 DEF r

LEMMA ChainNone ==
  ASSUME NEW s, NEW i
  PROVE  Chain(s, <<>>, i) <=>
           \A k, l \in DOMAIN s : k < l /\ i \in Named(s[k]) /\ i \in Named(s[l]) => i \in s[k].created /\ i \in s[l].deleted
<1> DEFINE r == <<>>
<1>1. DOMAIN r = {}
  OBVIOUS
<1> HIDE DEF r
<1>2. Chain(s, r, i) <=>
        \A k, l \in DOMAIN s : k < l /\ i \in Named(s[k]) /\ i \in Named(s[l]) => i \in s[k].created /\ i \in s[l].deleted
  BY <1>1 DEF Chain
<1> QED
  BY <1>2 DEF r

\* The oldest command is forgotten: what it left is what there was before the others.
LEMMA Forget ==
  ASSUME NEW s \in Seq(Command), NEW c \in Command, NEW live, NEW goal, NEW i,
         Leads(Append(s, c), <<>>, live, goal, i, "deleted"),
         \A k \in DOMAIN Append(s, c) : Apart(Append(s, c)[k]),
         i \in Named(Head(Append(s, c))) =>
           Chain(Append(s, c), <<>>, i) /\ Rests(Append(s, c), live, i, "created", "deleted")
  PROVE  Leads(Tail(Append(s, c)), <<>>, live, Applied(goal, Head(Append(s, c))), i, "deleted")
<1> DEFINE a == Append(s, c)
           t == Tail(a)
           h == Head(a)
           n == Len(s)
<1>1. /\ n \in Nat /\ DOMAIN a = 1 .. n + 1 /\ DOMAIN t = 1 .. n /\ \A k \in 1 .. n : t[k] = a[k + 1]
      /\ h = a[1] /\ h \in Command /\ t \in Seq(Command)
  BY AppendFacts, TailFacts
<1>2. /\ 1 \in 1 .. n + 1
      /\ \A k \in 1 .. n : k + 1 \in 1 .. n + 1 /\ 1 < k + 1
      /\ \A k \in 1 .. n + 1 : k = 1 \/ (k - 1 \in 1 .. n /\ k - 1 + 1 = k)
  BY <1>1
<1>3. /\ \A k \in DOMAIN a : Oldest(a, k, i) => (i \in goal <=> i \in a[k].deleted)
      /\ Unnamed(a, i) => (i \in live <=> i \in goal)
  BY DEF Leads
<1>4. i \in Applied(goal, h) <=> (i \in goal /\ i \notin h.deleted) \/ i \in h.created
  BY DEF Applied
<1>5. i \in Named(h) => Chain(a, <<>>, i) /\ Rests(a, live, i, "created", "deleted")
  OBVIOUS
<1>6. \A k \in 1 .. n + 1 : ~(i \in a[k].created /\ i \in a[k].deleted)
  BY <1>1 DEF Apart
<1> HIDE DEF a, t, h, n
<1>8. CASE i \notin Named(h)
  <2>1. i \in Applied(goal, h) <=> i \in goal
    BY <1>4, <1>8 DEF Named
  <2>2. \A k \in DOMAIN t : Oldest(t, k, i) => (i \in goal <=> i \in t[k].deleted)
    <3> SUFFICES ASSUME NEW k \in DOMAIN t, Oldest(t, k, i) PROVE i \in goal <=> i \in t[k].deleted
      OBVIOUS
    <3>1. k \in 1 .. n /\ t[k] = a[k + 1] /\ k + 1 - 1 = k
      BY <1>1
    <3>2. ASSUME NEW l \in 1 .. k PROVE i \notin Named(a[l])
      <4>1. CASE l = 1
        BY <1>1, <1>8, <4>1
      <4>2. CASE l # 1
        <5>1. l - 1 \in 1 .. k - 1 /\ l - 1 \in 1 .. n /\ l - 1 + 1 = l
          BY <1>1, <3>1, <4>2
        <5>2. i \notin Named(t[l - 1])
          BY <5>1 DEF Oldest
        <5> QED
          BY <1>1, <5>1, <5>2
      <4> QED
        BY <4>1, <4>2
    <3>3. Oldest(a, k + 1, i)
      BY <3>1, <3>2 DEF Oldest
    <3> QED
      BY <1>1, <1>2, <1>3, <3>1, <3>3
  <2>3. Unnamed(t, i) => Unnamed(a, i)
    BY <1>1, <1>2, <1>8 DEF Unnamed
  <2> DEFINE g == Applied(goal, h)
  <2>4. (i \in g <=> i \in goal) /\ \A k \in DOMAIN t : t[k]["deleted"] = t[k].deleted
    BY <2>1
  <2> HIDE DEF g
  <2>5. /\ \A k \in DOMAIN t : Oldest(t, k, i) => (i \in g <=> i \in t[k]["deleted"])
        /\ Unnamed(t, i) => (i \in live <=> i \in g)
    BY <1>3, <2>2, <2>3, <2>4
  <2>6. Leads(t, <<>>, live, g, i, "deleted")
    BY <2>5, LeadsNone
  <2> QED
    BY <2>6 DEF g, a, t, h
<1>9. CASE i \in Named(h)
  <2>1. i \in Applied(goal, h) <=> i \in h.created
    BY <1>1, <1>2, <1>4, <1>6, <1>9 DEF Named
  <2>2. \A k \in 1 .. n : i \in Named(t[k]) => i \in h.created /\ i \in t[k].deleted
    BY <1>1, <1>2, <1>5, <1>9 DEF Chain
  <2>3. \A k \in DOMAIN t : Oldest(t, k, i) => (i \in Applied(goal, h) <=> i \in t[k].deleted)
    BY <1>1, <2>1, <2>2 DEF Oldest
  <2>4. ASSUME Unnamed(t, i) PROVE i \in live <=> i \in h.created
    <3>1. i \in h.deleted => i \notin live
      BY <1>1, <1>2, <1>5, <1>9 DEF Rests
    <3>2. ASSUME i \in h.created, NEW k \in DOMAIN a PROVE i \notin a[k].deleted
      <4>1. CASE k = 1
        BY <1>1, <1>6, <3>2, <4>1
      <4>2. CASE k # 1
        BY <1>1, <1>2, <2>4, <4>2 DEF Unnamed, Named
      <4> QED
        BY <4>1, <4>2
    <3>3. i \in h.created => i \in live
      BY <1>1, <1>2, <1>5, <1>9, <3>2 DEF Rests
    <3> QED
      BY <1>9, <3>1, <3>3 DEF Named
  <2> DEFINE g == Applied(goal, h)
  <2>5. /\ \A k \in DOMAIN t : Oldest(t, k, i) => (i \in g <=> i \in t[k]["deleted"])
        /\ Unnamed(t, i) => (i \in live <=> i \in g)
    BY <2>1, <2>3, <2>4
  <2> HIDE DEF g
  <2>6. Leads(t, <<>>, live, g, i, "deleted")
    BY <2>5, LeadsNone
  <2> QED
    BY <2>6 DEF g, a, t, h
<1> QED
  BY <1>8, <1>9 DEF a, t, h

\* What the commands that stay say is not changed by forgetting the oldest.
LEMMA TailChain ==
  ASSUME NEW s \in Seq(Command), NEW c \in Command, NEW live, NEW i,
         Chain(Append(s, c), <<>>, i), Rests(Append(s, c), live, i, "created", "deleted"),
         \A k \in DOMAIN Append(s, c) : Apart(Append(s, c)[k])
  PROVE  Chain(Tail(Append(s, c)), <<>>, i) /\ Rests(Tail(Append(s, c)), live, i, "created", "deleted")
<1> DEFINE a == Append(s, c)
           t == Tail(a)
           n == Len(s)
<1>1. n \in Nat /\ DOMAIN a = 1 .. n + 1 /\ DOMAIN t = 1 .. n /\ \A k \in 1 .. n : t[k] = a[k + 1]
  BY AppendFacts, TailFacts
<1>2. /\ 1 \in 1 .. n + 1
      /\ \A k \in 1 .. n : k + 1 \in 1 .. n + 1 /\ 1 < k + 1
      /\ \A k, l \in 1 .. n : k < l => k + 1 < l + 1
      /\ \A k \in 1 .. n + 1 : k = 1 \/ (k - 1 \in 1 .. n /\ k - 1 + 1 = k)
  BY <1>1
<1>3. \A k \in 1 .. n + 1 : ~(i \in a[k].created /\ i \in a[k].deleted)
  BY <1>1 DEF Apart
<1>5. Chain(a, <<>>, i) /\ Rests(a, live, i, "created", "deleted")
  OBVIOUS
<1> HIDE DEF a, t, n
<1>9. \A k, l \in DOMAIN a : k < l /\ i \in Named(a[k]) /\ i \in Named(a[l]) => i \in a[k].created /\ i \in a[l].deleted
  BY <1>5, ChainNone
<1>10. \A k, l \in DOMAIN t : k < l /\ i \in Named(t[k]) /\ i \in Named(t[l]) => i \in t[k].created /\ i \in t[l].deleted
  BY <1>1, <1>2, <1>9
<1>6. Chain(t, <<>>, i)
  BY <1>10, ChainNone
<1>7. \A k \in DOMAIN t : i \in t[k].deleted => i \notin live
  BY <1>1, <1>2, <1>5 DEF Rests
<1>8. ASSUME NEW k \in DOMAIN t, i \in t[k].created, \A l \in DOMAIN t : i \notin t[l].deleted PROVE i \in live
  <2>1. ASSUME NEW l \in DOMAIN a PROVE i \notin a[l].deleted
    <3>1. CASE l = 1
      <4>1. i \in a[1].deleted => i \in Named(a[1]) /\ i \in Named(a[k + 1])
        BY <1>1, <1>8 DEF Named
      <4>2. i \in a[1].deleted => i \in a[1].created
        BY <1>1, <1>2, <1>5, <4>1 DEF Chain
      <4> QED
        BY <1>2, <1>3, <3>1, <4>2
    <3>2. CASE l # 1
      BY <1>1, <1>2, <1>8, <3>2
    <3> QED
      BY <3>1, <3>2
  <2> QED
    BY <1>1, <1>2, <1>5, <1>8, <2>1 DEF Rests
<1> QED
  BY <1>6, <1>7, <1>8 DEF Rests, a, t

\* Nothing on either stack.
LEMMA EmptyStacks ==
  ASSUME NEW live, NEW i, NEW f \in {"created", "deleted"}, NEW g \in {"created", "deleted"}
  PROVE  /\ <<>> \in Seq(Command) /\ DOMAIN <<>> = {}
         /\ Unnamed(<<>>, i) /\ Leads(<<>>, <<>>, live, live, i, f) /\ Chain(<<>>, <<>>, i) /\ Rests(<<>>, live, i, f, g)
<1> DEFINE r == <<>>
<1>1. r \in Seq(Command) /\ DOMAIN r = {}
  OBVIOUS
<1> HIDE DEF r
<1>2. Unnamed(r, i) /\ Leads(r, r, live, live, i, f) /\ Chain(r, r, i) /\ Rests(r, live, i, f, g)
  BY <1>1 DEF Unnamed, Leads, Chain, Rests
<1> QED
  BY <1>1, <1>2 DEF r

\* Where no piece of work runs, the stacks alone have to be in order.
LEMMA AtRest ==
  ASSUME work' = Idle, undo' \in Seq(Command), redo' \in Seq(Command),
         \A k \in DOMAIN undo' : Apart(undo'[k]), \A k \in DOMAIN redo' : Apart(redo'[k]),
         \A i \in Ids : rows'[i].state = "none" => Unnamed(undo', i) /\ Unnamed(redo', i),
         \A i \in Ids \ loose'.undo : Leads(undo', redo', Live', origin', i, "deleted"),
         \A i \in Ids \ loose'.redo : Leads(redo', undo', Live', latest', i, "created"),
         \A i \in Ids \ (loose'.undo \cup loose'.redo) :
           Chain(undo', redo', i) /\ Rests(undo', Live', i, "created", "deleted") /\ Rests(redo', Live', i, "deleted", "created")
  PROVE  HistInv'
<1>1. work'.kind = "idle" /\ work'.cmd = Nothing
  BY IdleFacts
<1>2. Nothing \in Command /\ Named(Nothing) = {} /\ Apart(Nothing) /\ \A i : i \notin Named(Nothing)
  BY NothingFacts
<1>3. StackInv'
  BY <1>1, <1>2 DEF StackInv
<1>4. UnusedInv'
  BY <1>1, <1>2 DEF UnusedInv
<1>5. DoneInv'
  BY <1>1, <1>2 DEF DoneInv, InHistory
<1>6. UndoInv'
  BY <1>1, <1>2, LeadsGrow DEF UndoInv
<1>7. RedoInv'
  BY <1>1, <1>2, LeadsGrow DEF RedoInv
<1>8. ChainInv'
  BY <1>1, <1>2, ChainGrow DEF ChainInv
<1> QED
  BY <1>3, <1>4, <1>5, <1>6, <1>7, <1>8 DEF HistInv

LEMMA AppendApart ==
  ASSUME NEW s \in Seq(Command), NEW c \in Command, Apart(c), \A k \in DOMAIN s : Apart(s[k])
  PROVE  \A k \in DOMAIN Append(s, c) : Apart(Append(s, c)[k])
<1> DEFINE a == Append(s, c)
           n == Len(s)
<1>1. n \in Nat /\ DOMAIN s = 1 .. n /\ DOMAIN a = 1 .. n + 1 /\ a[n + 1] = c /\ \A k \in 1 .. n : a[k] = s[k]
  BY AppendFacts
<1>2. \A k : k \in 1 .. n + 1 <=> k \in 1 .. n \/ k = n + 1
  BY <1>1
<1> HIDE DEF a, n
<1>3. \A k \in DOMAIN a : Apart(a[k])
  BY <1>1, <1>2
<1> QED
  BY <1>3 DEF a

\* A command that ends: what it names is as it says, unless something else touched it.
LEMMA EndFacts ==
  ASSUME HistInv, EndWork
  PROVE  /\ work' = Idle /\ UNCHANGED rows /\ Live' = Live
         /\ undo \in Seq(Command) /\ redo \in Seq(Command) /\ work.cmd \in Command /\ Apart(work.cmd)
         /\ \A k \in DOMAIN undo : Apart(undo[k])
         /\ \A k \in DOMAIN redo : Apart(redo[k])
         /\ \A i \in Named(work.cmd) : i \in External \/ (i \in Live <=> i \in Target)
         /\ \A i \in Ids : rows[i].state = "none" => Unnamed(undo, i) /\ Unnamed(redo, i) /\ i \notin Named(work.cmd)
<1>1. Left = {} /\ NewIds = {}
  BY DEF EndWork, Left, NewIds
<1>2. work' = Idle /\ UNCHANGED rows
  BY DEF EndWork
<1>3. Live' = Live
  BY <1>2 DEF Live
<1>4. \A i \in Named(work.cmd) : i \in External \/ (i \in Live <=> i \in Target)
  BY <1>1 DEF HistInv, DoneInv
<1>5. \A i \in Ids : rows[i].state = "none" => Unnamed(undo, i) /\ Unnamed(redo, i) /\ i \notin Named(work.cmd)
  BY <1>1 DEF HistInv, UnusedInv
<1> QED
  BY <1>2, <1>3, <1>4, <1>5 DEF HistInv, StackInv

LEMMA EndUndo ==
  ASSUME HistInv, EndWork, work.kind = "undo"
  PROVE  HistInv'
<1> DEFINE c == work.cmd
<1>1. redo' = Append(redo, c) /\ UNCHANGED <<undo, origin, latest, loose>>
  BY DEF EndWork
<1>2. /\ work' = Idle /\ UNCHANGED rows /\ Live' = Live
      /\ undo \in Seq(Command) /\ redo \in Seq(Command) /\ c \in Command /\ Apart(c)
      /\ \A k \in DOMAIN undo : Apart(undo[k])
      /\ \A k \in DOMAIN redo : Apart(redo[k])
      /\ \A i \in Named(c) : i \in External \/ (i \in Live <=> i \in c.deleted)
      /\ \A i \in Ids : rows[i].state = "none" => Unnamed(undo, i) /\ Unnamed(redo, i) /\ i \notin Named(c)
  BY EndFacts DEF Target
<1>3. /\ \A i \in Ids \ loose.undo : Leads(Append(undo, c), redo, Live, origin, i, "deleted")
      /\ \A i \in Ids \ loose.redo : Leads(Append(redo, c), undo, Live, latest, i, "created")
      /\ \A i \in Ids \ (loose.undo \cup loose.redo) :
           /\ Chain(Append(undo, c), redo, i)
           /\ i \notin Named(c) => Rests(undo, Live, i, "created", "deleted") /\ Rests(redo, Live, i, "deleted", "created")
  BY DEF HistInv, UndoInv, RedoInv, ChainInv
<1>4. c.deleted = c["deleted"] /\ \A i : i \in External => i \in loose.undo /\ i \in loose.redo
  BY DEF External
<1> HIDE DEF c
<1>5. Append(redo, c) \in Seq(Command)
  BY <1>2, AppendFacts
<1>6. \A k \in DOMAIN redo' : Apart(redo'[k])
  BY <1>1, <1>2, AppendApart
<1>7. \A i \in Ids : rows'[i].state = "none" => Unnamed(undo', i) /\ Unnamed(redo', i)
  BY <1>1, <1>2, OnTop
<1>8. ASSUME NEW i \in Ids \ loose.undo PROVE Leads(undo, Append(redo, c), Live, origin, i, "deleted")
  BY <1>2, <1>3, <1>4, LeadsSettle
<1>9. ASSUME NEW i \in Ids \ (loose.undo \cup loose.redo)
      PROVE  /\ Chain(undo, Append(redo, c), i)
             /\ Rests(undo, Live, i, "created", "deleted") /\ Rests(Append(redo, c), Live, i, "deleted", "created")
  <2>1. Chain(undo, Append(redo, c), i)
    BY <1>2, <1>3, ChainShift
  <2>2. CASE i \in Named(c)
    BY <1>2, <1>3, <1>4, <2>1, <2>2, EndRests
  <2>3. CASE i \notin Named(c)
    BY <1>2, <1>3, <2>1, <2>3, RestsGrow
  <2> QED
    BY <2>2, <2>3
<1> QED
  BY <1>1, <1>2, <1>3, <1>5, <1>6, <1>7, <1>8, <1>9, AtRest

LEMMA EndRedo ==
  ASSUME HistInv, EndWork, work.kind = "redo"
  PROVE  HistInv'
<1> DEFINE c == work.cmd
<1>1. undo' = Append(undo, c) /\ UNCHANGED <<redo, origin, latest, loose>>
  BY DEF EndWork
<1>2. /\ work' = Idle /\ UNCHANGED rows /\ Live' = Live
      /\ undo \in Seq(Command) /\ redo \in Seq(Command) /\ c \in Command /\ Apart(c)
      /\ \A k \in DOMAIN undo : Apart(undo[k])
      /\ \A k \in DOMAIN redo : Apart(redo[k])
      /\ \A i \in Named(c) : i \in External \/ (i \in Live <=> i \in c.created)
      /\ \A i \in Ids : rows[i].state = "none" => Unnamed(undo, i) /\ Unnamed(redo, i) /\ i \notin Named(c)
  BY EndFacts DEF Target
<1>3. /\ \A i \in Ids \ loose.undo : Leads(Append(undo, c), redo, Live, origin, i, "deleted")
      /\ \A i \in Ids \ loose.redo : Leads(Append(redo, c), undo, Live, latest, i, "created")
      /\ \A i \in Ids \ (loose.undo \cup loose.redo) :
           /\ Chain(Append(undo, c), redo, i)
           /\ i \notin Named(c) => Rests(undo, Live, i, "created", "deleted") /\ Rests(redo, Live, i, "deleted", "created")
  BY DEF HistInv, UndoInv, RedoInv, ChainInv
<1>4. c.created = c["created"] /\ \A i : i \in External => i \in loose.undo /\ i \in loose.redo
  BY DEF External
<1> HIDE DEF c
<1>5. Append(undo, c) \in Seq(Command)
  BY <1>2, AppendFacts
<1>6. \A k \in DOMAIN undo' : Apart(undo'[k])
  BY <1>1, <1>2, AppendApart
<1>7. \A i \in Ids : rows'[i].state = "none" => Unnamed(undo', i) /\ Unnamed(redo', i)
  BY <1>1, <1>2, OnTop
<1>8. ASSUME NEW i \in Ids \ loose.redo PROVE Leads(redo, Append(undo, c), Live, latest, i, "created")
  BY <1>2, <1>3, <1>4, LeadsSettle
<1>9. ASSUME NEW i \in Ids \ (loose.undo \cup loose.redo)
      PROVE  Rests(Append(undo, c), Live, i, "created", "deleted") /\ Rests(redo, Live, i, "deleted", "created")
  <2>2. CASE i \in Named(c)
    BY <1>2, <1>3, <1>4, <2>2, EndRests
  <2>3. CASE i \notin Named(c)
    BY <1>2, <1>3, <2>3, RestsGrow
  <2> QED
    BY <2>2, <2>3
<1> QED
  BY <1>1, <1>2, <1>3, <1>5, <1>6, <1>7, <1>8, <1>9, AtRest

\* A new command ends: it goes on top, what was undone is forgotten and perhaps the oldest command.
LEMMA EndReplace ==
  ASSUME HistInv, EndWork, work.kind = "replace"
  PROVE  HistInv'
<1> DEFINE c == work.cmd
           all == Append(undo, c)
           over == Len(all) > HistoryLimit
           h == Head(all)
<1>1. /\ undo' = IF over THEN Tail(all) ELSE all
      /\ origin' = IF over THEN Applied(origin, h) ELSE origin
      /\ redo' = <<>> /\ latest' = Live
      /\ loose' = [undo |-> IF over THEN loose.undo \cup (loose.redo \cap Named(h)) ELSE loose.undo,
                   redo |-> loose.redo \cup loose.undo]
  BY DEF EndWork
<1>2. /\ work' = Idle /\ UNCHANGED rows /\ Live' = Live
      /\ undo \in Seq(Command) /\ redo \in Seq(Command) /\ c \in Command /\ Apart(c)
      /\ \A k \in DOMAIN undo : Apart(undo[k])
      /\ \A k \in DOMAIN redo : Apart(redo[k])
      /\ \A i \in Named(c) : i \in External \/ (i \in Live <=> i \in c.created)
      /\ \A i \in Ids : rows[i].state = "none" => Unnamed(undo, i) /\ Unnamed(redo, i) /\ i \notin Named(c)
  BY EndFacts DEF Target
<1>3. /\ \A i \in Ids \ loose.undo : Leads(all, redo, Live, origin, i, "deleted")
      /\ \A i \in Ids \ (loose.undo \cup loose.redo) :
           /\ Chain(all, <<>>, i)
           /\ i \notin Named(c) => Rests(undo, Live, i, "created", "deleted")
  BY DEF HistInv, UndoInv, ChainInv
<1>4. \A i : i \in External => i \in loose.undo /\ i \in loose.redo
  BY DEF External
<1>5. all \in Seq(Command) /\ Tail(all) \in Seq(Command) /\ h \in Command /\ h = all[1] /\ DOMAIN all = 1 .. Len(undo) + 1
      /\ Len(undo) \in Nat /\ DOMAIN Tail(all) = 1 .. Len(undo) /\ \A k \in 1 .. Len(undo) : Tail(all)[k] = all[k + 1]
  BY <1>2, AppendFacts, TailFacts
<1>6. \A k \in DOMAIN all : Apart(all[k])
  BY <1>2, AppendApart
<1>7. \A i \in Ids : rows[i].state = "none" => Unnamed(all, i)
  BY <1>2, OnTop
<1>8. \A k \in 1 .. Len(undo) : k + 1 \in 1 .. Len(undo) + 1
  BY <1>5
<1>9. ASSUME NEW i \in Ids \ (loose.undo \cup loose.redo)
      PROVE  Chain(all, <<>>, i) /\ Rests(all, Live, i, "created", "deleted")
  <2>1. Chain(all, <<>>, i)
    BY <1>3
  <2>2. CASE i \in Named(c)
    <3>1. i \in Live <=> i \in c.created
      BY <1>2, <1>4, <1>9, <2>2
    <3>2. <<>> \in Seq(Command) /\ \A k \in DOMAIN <<>> : Apart(<<>>[k])
      OBVIOUS
    <3> HIDE DEF c
    <3> QED
      BY <1>2, <2>1, <2>2, <3>1, <3>2, EndRests DEF all
  <2>3. CASE i \notin Named(c)
    <3>1. Rests(undo, Live, i, "created", "deleted")
      BY <1>3, <1>9, <2>3
    <3> HIDE DEF c
    <3> QED
      BY <1>2, <2>1, <2>3, <3>1, RestsGrow DEF all
  <2> QED
    BY <2>1, <2>2, <2>3
<1>10. ASSUME NEW i \in Ids \ loose.undo PROVE Leads(all, <<>>, Live, origin, i, "deleted")
  <2>1. Leads(all, redo, Live, origin, i, "deleted")
    BY <1>3
  <2>2. /\ \A k \in DOMAIN all : Oldest(all, k, i) => (i \in origin <=> i \in all[k]["deleted"])
        /\ Unnamed(all, i) => (i \in Live <=> i \in origin)
    BY <2>1 DEF Leads
  <2> HIDE DEF all
  <2> QED
    BY <2>2, LeadsNone
<1>11. \A i \in Ids \ (loose.undo \cup loose.redo) :
         Chain(undo', <<>>, i) /\ Rests(undo', Live, i, "created", "deleted")
  <2>1. ASSUME NEW i \in Ids \ (loose.undo \cup loose.redo)
        PROVE  Chain(Tail(all), <<>>, i) /\ Rests(Tail(all), Live, i, "created", "deleted")
    BY <1>2, <1>6, <1>9, TailChain
  <2> QED
    BY <1>1, <1>9, <2>1
<1>12. undo' \in Seq(Command) /\ \A k \in DOMAIN undo' : Apart(undo'[k])
  <2>1. \A k \in DOMAIN Tail(all) : Apart(Tail(all)[k])
    BY <1>5, <1>6, <1>8
  <2> QED
    BY <1>1, <1>5, <1>6, <2>1
<1>13. \A i \in Ids : rows'[i].state = "none" => Unnamed(undo', i) /\ Unnamed(redo', i)
  <2>1. \A i : Unnamed(all, i) => Unnamed(Tail(all), i)
    BY <1>5, <1>8 DEF Unnamed
  <2>2. \A i : Unnamed(<<>>, i)
    BY EmptyStacks
  <2> QED
    BY <1>1, <1>2, <1>7, <2>1, <2>2
<1>14. ASSUME NEW i \in Ids \ loose'.undo PROVE Leads(undo', <<>>, Live, origin', i, "deleted")
  <2>1. loose'.undo = IF over THEN loose.undo \cup (loose.redo \cap Named(h)) ELSE loose.undo
    BY <1>1
  <2>2. i \notin loose.undo
    BY <2>1
  <2>3. CASE ~over
    BY <1>1, <1>10, <2>2, <2>3
  <2>4. CASE over
    <3>1. i \in Named(h) => i \in Ids \ (loose.undo \cup loose.redo)
      BY <2>1, <2>2, <2>4
    <3>2. i \in Named(h) => Chain(all, <<>>, i) /\ Rests(all, Live, i, "created", "deleted")
      BY <1>9, <3>1
    <3>3. Leads(all, <<>>, Live, origin, i, "deleted")
      BY <1>10, <2>2
    <3>4. Leads(Tail(all), <<>>, Live, Applied(origin, h), i, "deleted")
      BY <1>2, <1>6, <3>2, <3>3, Forget
    <3> QED
      BY <1>1, <2>4, <3>4
  <2> QED
    BY <2>3, <2>4
<1>15. ASSUME NEW i \in Ids \ loose'.redo PROVE Leads(<<>>, undo', Live, Live, i, "created")
  <2>1. i \in Ids \ (loose.undo \cup loose.redo)
    BY <1>1
  <2> DEFINE u == undo'
             e == <<>>
  <2>2. Chain(u, <<>>, i) /\ Rests(u, Live, i, "created", "deleted") /\ u \in Seq(Command) /\ \A k \in DOMAIN u : Apart(u[k])
    BY <1>11, <1>12, <2>1
  <2>6. DOMAIN e = {}
    OBVIOUS
  <2> HIDE DEF u, e
  <2>3. \A k, l \in DOMAIN u : k < l /\ i \in Named(u[k]) /\ i \in Named(u[l]) => i \in u[k].created /\ i \in u[l].deleted
    BY <2>2, ChainNone
  <2>4. ASSUME NEW k \in DOMAIN u, Newest(u, k, i) PROVE i \in Live <=> i \in u[k].created
    <3>1. i \in Named(u[k])
      BY <2>4 DEF Newest
    <3>2. \A l \in DOMAIN u : u[l].created \cap u[l].deleted = {}
      BY <2>2 DEF Apart
    <3>3. \A l \in DOMAIN u : l < k /\ i \in Named(u[l]) => i \in u[l].created /\ i \in u[k].deleted
      BY <2>3, <3>1
    <3> QED
      BY <2>2, <2>4, <3>2, <3>3, NewestRests
  <2>5. Leads(e, u, Live, Live, i, "created")
    BY <2>4, <2>6 DEF Leads
  <2> QED
    BY <2>5 DEF u, e
<1>16. ASSUME NEW i \in Ids \ (loose'.undo \cup loose'.redo)
       PROVE  /\ Chain(undo', <<>>, i)
              /\ Rests(undo', Live, i, "created", "deleted") /\ Rests(<<>>, Live, i, "deleted", "created")
  <2>1. i \in Ids \ (loose.undo \cup loose.redo)
    BY <1>1
  <2> QED
    BY <1>11, <2>1, EmptyStacks
<1>17. redo' \in Seq(Command) /\ \A k \in DOMAIN redo' : Apart(redo'[k])
  BY <1>1
<1> HIDE DEF all, over, h, c
<1> QED
  BY <1>1, <1>2, <1>12, <1>13, <1>14, <1>15, <1>16, <1>17, AtRest

LEMMA EndHist == HistInv /\ EndWork => HistInv'
<1>1. EndWork => work.kind \in {"replace", "undo", "redo"}
  BY DEF EndWork, InHistory
<1> QED
  BY <1>1, EndUndo, EndRedo, EndReplace

\* A write fails: the command goes back where it came from, or is dropped.
LEMMA FailHist == IInv /\ HistInv /\ Fail => HistInv'
<1> SUFFICES ASSUME IInv, HistInv, Fail PROVE HistInv'
  OBVIOUS
<1> DEFINE c == work.cmd
<1>1. work' = Idle /\ UNCHANGED <<rows, origin, latest>>
  BY DEF Fail
<1>2. Live' = Live
  BY <1>1 DEF Live
<1>3. /\ undo \in Seq(Command) /\ redo \in Seq(Command) /\ c \in Command /\ Apart(c)
      /\ \A k \in DOMAIN undo : Apart(undo[k])
      /\ \A k \in DOMAIN redo : Apart(redo[k])
  BY DEF HistInv, StackInv
<1>4. /\ \A i \in Ids \ loose.undo : Leads(Append(undo, c), redo, Live, origin, i, "deleted")
      /\ \A i \in Ids \ loose.redo : i \notin Named(c) \/ work.kind # "replace" => Leads(Append(redo, c), undo, Live, latest, i, "created")
      /\ \A i \in Ids \ (loose.undo \cup loose.redo) :
           /\ Chain(undo, redo, i)
           /\ work.kind # "replace" => Chain(Append(undo, c), redo, i)
           /\ i \notin Named(c) => Rests(undo, Live, i, "created", "deleted") /\ Rests(redo, Live, i, "deleted", "created")
  BY DEF HistInv, UndoInv, RedoInv, ChainInv
<1>5. \A i \in Ids : rows[i].state = "none" =>
        Unnamed(undo, i) /\ Unnamed(redo, i) /\ (i \in Named(c) => work.kind = "replace")
  BY DEF HistInv, UnusedInv
<1>6. DOMAIN loose = {"undo", "redo"}
  BY DEF IInv, Shapes
<1>7. Append(undo, c) \in Seq(Command) /\ Append(redo, c) \in Seq(Command)
  BY <1>3, AppendFacts
<1>8. ASSUME NEW i \in Ids, i \notin Named(c)
      PROVE  /\ i \notin loose.undo => Leads(undo, redo, Live, origin, i, "deleted") /\ Leads(undo, Append(redo, c), Live, origin, i, "deleted")
             /\ i \notin loose.redo => Leads(redo, undo, Live, latest, i, "created") /\ Leads(redo, Append(undo, c), Live, latest, i, "created")
  <2>1. /\ i \notin loose.undo => Leads(Append(undo, c), redo, Live, origin, i, "deleted")
        /\ i \notin loose.redo => Leads(Append(redo, c), undo, Live, latest, i, "created")
    BY <1>4, <1>8
  <2> HIDE DEF c
  <2> QED
    BY <1>3, <1>8, <2>1, LeadsGrow
<1>9. CASE work.kind = "undo"
  <2>1. undo' = Append(undo, c) /\ redo' = redo /\ loose'.undo = loose.undo /\ loose'.redo = loose.redo \cup Named(c)
    BY <1>6, <1>9 DEF Fail, Back, TouchedIn
  <2> HIDE DEF c
  <2>2. \A k \in DOMAIN undo' : Apart(undo'[k])
    BY <1>3, <2>1, AppendApart
  <2>3. \A i \in Ids : rows'[i].state = "none" => Unnamed(undo', i) /\ Unnamed(redo', i)
    BY <1>1, <1>3, <1>5, <1>9, <2>1, OnTop
  <2>4. ASSUME NEW i \in Ids \ (loose'.undo \cup loose'.redo)
        PROVE  /\ Chain(Append(undo, c), redo, i)
               /\ Rests(Append(undo, c), Live, i, "created", "deleted") /\ Rests(redo, Live, i, "deleted", "created")
    BY <1>3, <1>4, <1>9, <2>1, RestsGrow
  <2> QED
    BY <1>1, <1>2, <1>3, <1>4, <1>7, <1>8, <2>1, <2>2, <2>3, <2>4, AtRest
<1>10. CASE work.kind = "redo"
  <2>1. redo' = Append(redo, c) /\ undo' = undo /\ loose'.undo = loose.undo \cup Named(c) /\ loose'.redo = loose.redo
    BY <1>6, <1>10 DEF Fail, Back, TouchedIn
  <2> HIDE DEF c
  <2>2. \A k \in DOMAIN redo' : Apart(redo'[k])
    BY <1>3, <2>1, AppendApart
  <2>3. \A i \in Ids : rows'[i].state = "none" => Unnamed(undo', i) /\ Unnamed(redo', i)
    BY <1>1, <1>3, <1>5, <1>10, <2>1, OnTop
  <2>4. ASSUME NEW i \in Ids \ (loose'.undo \cup loose'.redo)
        PROVE  /\ Chain(undo, Append(redo, c), i)
               /\ Rests(undo, Live, i, "created", "deleted") /\ Rests(Append(redo, c), Live, i, "deleted", "created")
    <3>1. Chain(Append(undo, c), redo, i)
      BY <1>4, <1>10, <2>1
    <3> QED
      BY <1>3, <1>4, <2>1, <3>1, ChainShift, RestsGrow
  <2>5. \A i \in Ids \ loose'.redo : Leads(Append(redo, c), undo, Live, latest, i, "created")
    BY <1>4, <1>10, <2>1
  <2> QED
    BY <1>1, <1>2, <1>3, <1>7, <1>8, <2>1, <2>2, <2>3, <2>4, <2>5, AtRest
<1>11. CASE work.kind \notin {"undo", "redo"}
  <2>1. undo' = undo /\ redo' = redo /\ loose'.undo = loose.undo \cup Named(c) /\ loose'.redo = loose.redo \cup Named(c)
    BY <1>11 DEF Fail, Touched
  <2> HIDE DEF c
  <2>2. \A i \in Ids : rows'[i].state = "none" => Unnamed(undo', i) /\ Unnamed(redo', i)
    BY <1>1, <1>5, <2>1
  <2> QED
    BY <1>1, <1>2, <1>3, <1>4, <1>8, <2>1, <2>2, AtRest
<1> QED
  BY <1>9, <1>10, <1>11

\* A step within a piece of work that keeps what is done.
LEMMA QuietHist ==
  ASSUME HistInv, UNCHANGED <<undo, redo, origin, latest>>, work'.cmd = work.cmd,
         work'.kind = "replace" <=> work.kind = "replace", InHistory => InHistory',
         loose.undo \subseteq loose'.undo, loose.redo \subseteq loose'.redo,
         \A i \in Ids : (i \in Live' <=> i \in Live) \/ i \in Named(work.cmd) \/ i \in External',
         \A i \in Ids : rows'[i].state = "none" =>
           rows[i].state = "none" /\ (i \in Named(work.cmd) /\ i \in NewIds => i \in NewIds'),
         DoneInv'
  PROVE  HistInv'
<1>1. UndoInv' /\ RedoInv' /\ ChainInv'
  BY QuietStep
<1>2. StackInv'
  BY DEF HistInv, StackInv
<1>3. UnusedInv'
  BY DEF HistInv, UnusedInv
<1> QED
  BY <1>1, <1>2, <1>3 DEF HistInv

\* Others change rows, next to the piece of work.
LEMMA OthersHist ==
  ASSUME HistInv, UNCHANGED <<undo, redo, origin, latest, work>>,
         loose.undo \subseteq loose'.undo, loose.redo \subseteq loose'.redo,
         \A i \in Ids : (i \in Live' <=> i \in Live) \/ i \in External',
         \A i \in Ids : rows'[i].state = "none" => rows[i].state = "none"
  PROVE  HistInv'
<1>1. NewIds' = NewIds /\ Left' = Left /\ Target' = Target /\ (InHistory' <=> InHistory)
  BY DEF NewIds, Left, Target, InHistory
<1>2. \A i : i \in External => i \in External'
  BY DEF External
<1>3. work.cmd \in Command /\ Named(work.cmd) \subseteq Ids /\ Live \subseteq Ids
  BY CommandFields DEF HistInv, StackInv, Live
<1>4. /\ work.kind = "replace" => work.del \subseteq work.cmd.deleted /\ work.res = {} /\ NewIds \subseteq work.cmd.created
      /\ work.kind = "undo" => work.del \subseteq work.cmd.created /\ work.res \subseteq work.cmd.deleted /\ work.new = {}
      /\ work.kind = "redo" => work.del \subseteq work.cmd.deleted /\ work.res \subseteq work.cmd.created /\ work.new = {}
      /\ InHistory /\ work.held # <<>> => work.held[1] \in IF work.del # {} THEN work.del ELSE work.res
      /\ work.kind \in {"update", "leave"} /\ work.held # <<>> => work.held[1] \in Live \/ work.held[1] \in External
      /\ \A i \in Named(work.cmd) \ Left : i \in External \/ (i \in Live <=> i \in Target)
  BY DEF HistInv, DoneInv
<1>5. work.kind \in {"update", "leave"} /\ work.held # <<>> => work.held[1] \in Live' \/ work.held[1] \in External'
  BY <1>2, <1>3, <1>4
<1>6. \A i \in Named(work.cmd) \ Left : i \in External' \/ (i \in Live' <=> i \in Target)
  BY <1>2, <1>3, <1>4
<1>7. DoneInv'
  BY <1>1, <1>4, <1>5, <1>6 DEF DoneInv
<1> QED
  BY <1>1, <1>7, QuietHist

\* What a piece of work of the history has still to do.
LEMMA TargetFacts ==
  ASSUME HistInv, InHistory, NEW i, i \in IF work.del # {} THEN work.del ELSE work.res
  PROVE  i \in Ids /\ i \in Named(work.cmd) /\ (i \in Target <=> work.del = {}) /\ (work.res # {} => work.kind # "replace")
<1>1. /\ work.cmd.created \in SUBSET Ids /\ work.cmd.deleted \in SUBSET Ids
      /\ work.cmd.created \cap work.cmd.deleted = {}
      /\ \A j : j \in Named(work.cmd) <=> j \in work.cmd.created \/ j \in work.cmd.deleted
  BY CommandFields DEF HistInv, StackInv, Apart
<1>2. /\ work.kind = "replace" => work.del \subseteq work.cmd.deleted /\ work.res = {}
      /\ work.kind = "undo" => work.del \subseteq work.cmd.created /\ work.res \subseteq work.cmd.deleted
      /\ work.kind = "redo" => work.del \subseteq work.cmd.deleted /\ work.res \subseteq work.cmd.created
  BY DEF HistInv, DoneInv
<1>3. Target = IF work.kind = "undo" THEN work.cmd.deleted ELSE work.cmd.created
  BY DEF Target
<1>4. CASE work.kind = "replace"
  BY <1>1, <1>2, <1>3, <1>4
<1>5. CASE work.kind = "undo"
  BY <1>1, <1>2, <1>3, <1>5
<1>6. CASE work.kind = "redo"
  BY <1>1, <1>2, <1>3, <1>6
<1> QED
  BY <1>4, <1>5, <1>6 DEF InHistory

LEMMA WorkFields ==
  ASSUME IInv, NEW i
  PROVE  /\ Without(i).kind = work.kind /\ Without(i).cmd = work.cmd /\ Without(i).new = work.new
         /\ Without(i).held = <<>> /\ Without(i).del = work.del \ {i}
         /\ Without(i).res = IF work.del # {} THEN work.res ELSE work.res \ {i}
  BY DEF IInv, Shapes, Without

\* A row is as wanted, because it was or because it has been saved.
LEMMA RowDone ==
  ASSUME IInv, HistInv, InHistory, NEW i, i \in IF work.del # {} THEN work.del ELSE work.res,
         work' = Without(i), UNCHANGED <<undo, redo, origin, latest, loose>>,
         \A j \in Ids \ {i} : rows'[j].state = rows[j].state, rows'[i].state = Wanted
  PROVE  HistInv'
<1>1. /\ work'.kind = work.kind /\ work'.cmd = work.cmd /\ work'.new = work.new
      /\ work'.held = <<>> /\ work'.del = work.del \ {i}
      /\ work'.res = IF work.del # {} THEN work.res ELSE work.res \ {i}
  BY WorkFields
<1>2. i \in Ids /\ i \in Named(work.cmd) /\ (i \in Target <=> work.del = {})
  BY TargetFacts
<1>3. Wanted = IF work.del # {} THEN "deleted" ELSE "live"
  BY DEF Wanted
<1>4. (i \in Live' <=> work.del = {}) /\ \A j \in Ids \ {i} : j \in Live' <=> j \in Live
  BY <1>2, <1>3 DEF Live
<1>5. NewIds' = NewIds /\ Target' = Target /\ External' = External /\ (InHistory' <=> InHistory)
  BY <1>1 DEF NewIds, Target, External, InHistory
<1>6. \A j : j \in Left /\ j \notin Left' => j = i
  BY <1>1, <1>5 DEF Left
<1>7. /\ work.kind = "replace" => work.del \subseteq work.cmd.deleted /\ work.res = {} /\ NewIds \subseteq work.cmd.created
      /\ work.kind = "undo" => work.del \subseteq work.cmd.created /\ work.res \subseteq work.cmd.deleted /\ work.new = {}
      /\ work.kind = "redo" => work.del \subseteq work.cmd.deleted /\ work.res \subseteq work.cmd.created /\ work.new = {}
      /\ \A j \in Named(work.cmd) \ Left : j \in External \/ (j \in Live <=> j \in Target)
  BY DEF HistInv, DoneInv
<1>8. work.cmd \in Command /\ Named(work.cmd) \subseteq Ids
  BY CommandFields DEF HistInv, StackInv
<1>9. \A j \in Named(work.cmd) \ Left' : j \in External \/ (j \in Live' <=> j \in Target)
  BY <1>2, <1>4, <1>6, <1>7, <1>8
<1>10. work'.del \subseteq work.del /\ work'.res \subseteq work.res
  BY <1>1
<1>11. DoneInv'
  BY <1>1, <1>5, <1>7, <1>9, <1>10 DEF DoneInv, InHistory
<1>12. Wanted # "none"
  BY <1>3
<1>13. \A j \in Ids : rows'[j].state = "none" => rows[j].state = "none" /\ (j \in Named(work.cmd) /\ j \in NewIds => j \in NewIds')
  BY <1>5, <1>12
<1>14. \A j \in Ids : (j \in Live' <=> j \in Live) \/ j \in Named(work.cmd)
  BY <1>2, <1>4
<1> QED
  BY <1>1, <1>5, <1>11, <1>13, <1>14, QuietHist

LEMMA ReadRowHist == ASSUME IInv, HistInv, NEW i \in Ids, ReadRow(i) PROVE HistInv'
<1>1. /\ InHistory /\ work.held = <<>> /\ i \in IF work.del # {} THEN work.del ELSE work.res
      /\ work' = IF rows[i].state = Wanted THEN Without(i) ELSE [work EXCEPT !.held = <<i, rows[i]>>]
      /\ UNCHANGED <<rows, undo, redo, origin, latest, loose>>
  BY Zenon DEF ReadRow, stacks
<1>2. CASE rows[i].state = Wanted
  BY <1>1, <1>2, RowDone
<1>3. CASE rows[i].state # Wanted
  <2>1. work' = [work EXCEPT !.held = <<i, rows[i]>>]
    BY <1>1, <1>3
  <2>2. /\ work'.kind = work.kind /\ work'.cmd = work.cmd /\ work'.new = work.new
        /\ work'.held = <<i, rows[i]>> /\ work'.del = work.del /\ work'.res = work.res
    BY <2>1 DEF IInv, Shapes
  <2>3. work'.held[1] = i
    BY <2>2
  <2>4. /\ NewIds' = NewIds /\ Target' = Target /\ External' = External /\ (InHistory' <=> InHistory) /\ Left' = Left
        /\ Live' = Live
    BY <1>1, <2>2 DEF NewIds, Target, External, InHistory, Left, Live
  <2>5. /\ work.kind = "replace" => work.del \subseteq work.cmd.deleted /\ work.res = {} /\ NewIds \subseteq work.cmd.created
        /\ work.kind = "undo" => work.del \subseteq work.cmd.created /\ work.res \subseteq work.cmd.deleted /\ work.new = {}
        /\ work.kind = "redo" => work.del \subseteq work.cmd.deleted /\ work.res \subseteq work.cmd.created /\ work.new = {}
        /\ \A j \in Named(work.cmd) \ Left : j \in External \/ (j \in Live <=> j \in Target)
    BY DEF HistInv, DoneInv
  <2>6. work.kind \notin {"update", "leave"}
    BY <1>1 DEF InHistory
  <2>7. DoneInv'
    BY <1>1, <2>2, <2>3, <2>4, <2>5, <2>6 DEF DoneInv
  <2> QED
    BY <1>1, <2>2, <2>4, <2>7, QuietHist
<1> QED
  BY <1>2, <1>3

LEMMA SaveRowHist == ASSUME IInv, HistInv, SaveRow PROVE HistInv'
<1> DEFINE i == work.held[1]
<1>1. /\ InHistory /\ work.held # <<>>
      /\ rows' = [rows EXCEPT ![i] = [work.held[2] EXCEPT !.state = Wanted]]
      /\ work' = Without(i)
      /\ UNCHANGED <<undo, redo, origin, latest, loose>>
  BY DEF SaveRow, stacks
<1>2. i \in IF work.del # {} THEN work.del ELSE work.res
  BY <1>1 DEF HistInv, DoneInv
<1>3. i \in Ids
  BY <1>1, <1>2, TargetFacts
<1>4. IsRow(work.held[2])
  BY <1>1, <1>3 DEF IInv, HeldRow
<1>5. DOMAIN rows = Ids /\ \A j \in Ids \ {i} : rows'[j].state = rows[j].state
  BY <1>1 DEF IInv, Shapes
<1>6. rows'[i].state = Wanted
  BY <1>1, <1>3, <1>4, <1>5 DEF IsRow
<1> HIDE DEF i
<1> QED
  BY <1>1, <1>2, <1>5, <1>6, RowDone

LEMMA CreateHist == ASSUME IInv, HistInv, NEW n \in work.new, Create(n) PROVE HistInv'
<1> DEFINE i == n[1]
<1>1. /\ InHistory /\ work.held = <<>> /\ work.del = {}
      /\ rows' = [rows EXCEPT ![i] = n[2]]
      /\ work' = [work EXCEPT !.new = @ \ {n}]
      /\ UNCHANGED <<undo, redo, origin, latest, loose>>
  BY DEF Create, stacks
<1>2. i \in Ids /\ n[2].state = "live" /\ work.new = {n}
  BY DEF IInv, NewRows
<1>3. /\ work'.kind = work.kind /\ work'.cmd = work.cmd /\ work'.new = {}
      /\ work'.held = <<>> /\ work'.del = {} /\ work'.res = work.res
  BY <1>1, <1>2 DEF IInv, Shapes
<1>4. DOMAIN rows = Ids /\ rows'[i].state = "live" /\ \A j \in Ids \ {i} : rows'[j].state = rows[j].state
  BY <1>1, <1>2 DEF IInv, Shapes
<1>5. /\ work.kind = "replace" => work.del \subseteq work.cmd.deleted /\ work.res = {} /\ NewIds \subseteq work.cmd.created
      /\ work.kind = "undo" => work.del \subseteq work.cmd.created /\ work.res \subseteq work.cmd.deleted /\ work.new = {}
      /\ work.kind = "redo" => work.del \subseteq work.cmd.deleted /\ work.res \subseteq work.cmd.created /\ work.new = {}
      /\ \A j \in Named(work.cmd) \ Left : j \in External \/ (j \in Live <=> j \in Target)
  BY DEF HistInv, DoneInv
<1>6. work.kind = "replace" /\ work.res = {}
  BY <1>1, <1>5 DEF InHistory
<1>7. NewIds = {i} /\ NewIds' = {} /\ Left = {i} /\ Left' = {}
  BY <1>1, <1>2, <1>3, <1>6 DEF NewIds, Left
<1> HIDE DEF i
<1>8. work.cmd \in Command /\ Named(work.cmd) \subseteq Ids /\ \A j : j \in Named(work.cmd) <=> j \in work.cmd.created \/ j \in work.cmd.deleted
  BY CommandFields DEF HistInv, StackInv
<1>9. i \in work.cmd.created /\ i \in Target /\ i \in Named(work.cmd) /\ Target' = Target /\ External' = External
  BY <1>1, <1>3, <1>5, <1>6, <1>7, <1>8 DEF Target, External
<1>10. i \in Live' /\ \A j \in Ids \ {i} : j \in Live' <=> j \in Live
  BY <1>2, <1>4 DEF Live, i
<1>11. \A j \in Named(work.cmd) \ Left' : j \in External \/ (j \in Live' <=> j \in Target)
  BY <1>5, <1>7, <1>8, <1>9, <1>10
<1>12. DoneInv'
  BY <1>1, <1>3, <1>5, <1>6, <1>7, <1>9, <1>11 DEF DoneInv, InHistory
<1>13. \A j \in Ids : rows'[j].state = "none" => rows[j].state = "none" /\ (j \in Named(work.cmd) /\ j \in NewIds => j \in NewIds')
  BY <1>4, <1>7
<1>14. \A j \in Ids : (j \in Live' <=> j \in Live) \/ j \in Named(work.cmd)
  BY <1>9, <1>10
<1>15. InHistory => InHistory'
  BY <1>3 DEF InHistory
<1> QED
  BY <1>1, <1>3, <1>12, <1>13, <1>14, <1>15, QuietHist

\* Work on the text of a box is not part of the history.
LEMMA BoxWork ==
  ASSUME HistInv, work.kind \in {"update", "leave", "idle"}, work'.cmd = work.cmd, work'.kind \in {"update", "leave", "idle"},
         UNCHANGED <<undo, redo, origin, latest>>,
         loose.undo \subseteq loose'.undo, loose.redo \subseteq loose'.redo,
         \A i \in Ids : (i \in Live' <=> i \in Live) \/ i \in External',
         \A i \in Ids : rows'[i].state = "none" => rows[i].state = "none",
         work'.held # <<>> => work'.held[1] \in Live'
  PROVE  HistInv'
<1>1. ~InHistory /\ ~InHistory'
  BY DEF InHistory
<1>2. Named(work.cmd) = {}
  BY <1>1, NothingFacts DEF HistInv, StackInv
<1>3. DoneInv'
  BY <1>1, <1>2 DEF DoneInv
<1> QED
  BY <1>1, <1>2, <1>3, QuietHist

LEMMA NoHistory == HistInv /\ work.kind \notin {"replace", "undo", "redo"} => work.cmd = Nothing
  BY DEF HistInv, StackInv, InHistory

LEMMA WriteHist == ASSUME IInv, HistInv, NEW i, NEW kind \in {"update", "leave"}, NEW t, Write(i, kind, t) PROVE HistInv'
<1>1. /\ work = Idle /\ work' = [Idle EXCEPT !.kind = kind, !.del = {i}, !.text = t]
      /\ UNCHANGED <<rows, undo, redo, origin, latest, loose>>
  BY DEF Write, Begin, stacks
<1>2. work.kind = "idle" /\ work.cmd = Nothing /\ work'.kind = kind /\ work'.cmd = Nothing /\ work'.held = <<>>
  BY <1>1, IdleFacts
<1>3. Live' = Live
  BY <1>1 DEF Live
<1> QED
  BY <1>1, <1>2, <1>3, BoxWork

LEMMA ReadBoxHist == ASSUME IInv, HistInv, NEW i \in Ids, ReadBox(i) PROVE HistInv'
<1>1. /\ work.kind \in {"update", "leave"} /\ work.held = <<>>
      /\ UNCHANGED <<rows, undo, redo, origin, latest, loose>>
  BY Zenon DEF ReadBox, stacks
<1>2. work' = Idle \/ (work' = [work EXCEPT !.held = <<i, rows[i]>>] /\ rows[i].state = "live")
  BY Zenon DEF ReadBox, Writable
<1>3. Live' = Live
  BY <1>1 DEF Live
<1>4. work.cmd = Nothing
  BY <1>1, NoHistory
<1>5. CASE work' = Idle
  <2>1. work'.kind = "idle" /\ work'.cmd = Nothing /\ work'.held = <<>>
    BY <1>5, IdleFacts
  <2> QED
    BY <1>1, <1>3, <1>4, <2>1, BoxWork
<1>6. CASE work' = [work EXCEPT !.held = <<i, rows[i]>>] /\ rows[i].state = "live"
  <2>1. work'.kind = work.kind /\ work'.cmd = work.cmd /\ work'.held = <<i, rows[i]>>
    BY <1>6 DEF IInv, Shapes
  <2>2. work'.held[1] = i
    BY <2>1
  <2>3. i \in Live
    BY <1>6 DEF Live
  <2> QED
    BY <1>1, <1>3, <2>1, <2>2, <2>3, BoxWork
<1> QED
  BY <1>2, <1>5, <1>6

LEMMA SaveBoxHist == ASSUME IInv, HistInv, SaveBox PROVE HistInv'
<1> DEFINE i == work.held[1]
           gone == work.kind = "leave" /\ work.text = ""
<1>1. /\ work.kind \in {"update", "leave"} /\ work.held # <<>>
      /\ rows' = [rows EXCEPT ![i] = [work.held[2] EXCEPT !.text = work.text, !.state = IF gone THEN "deleted" ELSE "live"]]
      /\ loose' = IF gone THEN Touched({i}) ELSE loose
      /\ work' = Idle
      /\ UNCHANGED <<undo, redo, origin, latest>>
  BY Zenon DEF SaveBox, stacks
<1> HIDE DEF gone
<1>2. i \in Ids /\ DOMAIN rows = Ids
  BY <1>1 DEF IInv, BoxInHand, Shapes
<1>3. IsRow(work.held[2])
  BY <1>1, <1>2 DEF IInv, HeldRow
<1>4. i \in Live \/ i \in External
  BY <1>1 DEF HistInv, DoneInv
<1>5. /\ loose.undo \subseteq loose'.undo /\ loose.redo \subseteq loose'.redo
      /\ gone => i \in loose'.undo /\ i \in loose'.redo
  BY <1>1 DEF Touched
<1>6. rows'[i].state = IF gone THEN "deleted" ELSE "live"
  BY <1>1, <1>2, <1>3 DEF IsRow
<1>7. \A j \in Ids \ {i} : rows'[j].state = rows[j].state
  BY <1>1, <1>2
<1> HIDE DEF i
<1>8. \A j \in Ids : (j \in Live' <=> j \in Live) \/ j \in External'
  BY <1>4, <1>5, <1>6, <1>7 DEF Live, External
<1>9. \A j \in Ids : rows'[j].state = "none" => rows[j].state = "none"
  BY <1>6, <1>7
<1>10. work.cmd = Nothing /\ work'.kind = "idle" /\ work'.cmd = Nothing /\ work'.held = <<>>
  BY <1>1, NoHistory, IdleFacts
<1> QED
  BY <1>1, <1>5, <1>8, <1>9, <1>10, BoxWork

LEMMA ChildHist == IInv /\ HistInv /\ Child => HistInv'
<1> SUFFICES ASSUME IInv, HistInv, Child PROVE HistInv'
  OBVIOUS
<1>1. \A i \in Fresh : i \in Ids /\ rows[i].state = "none"
  BY DEF Fresh
<1>2. ASSUME NEW i \in Fresh, NEW row PROVE \A n \in {<<i, row>>} : n[1] \in Ids /\ rows[n[1]].state = "none"
  BY <1>1
<1>3. ASSUME NEW D \in SUBSET Ids, \A d \in D : rows[d].state # "none", Replace(D, {}) PROVE HistInv'
  BY <1>3, ReplaceHist
<1>4. ASSUME NEW i \in Fresh, AddBox(i) PROVE HistInv'
  <2>1. Replace({}, {<<i, [NoRow EXCEPT !.kind = "box", !.state = "live"]>>})
    BY <1>4 DEF AddBox
  <2> QED
    BY <1>2, <2>1, ReplaceHist
<1>5. ASSUME NEW i \in Fresh, NEW b, NEW n, NEW s, AddHighlight(i, b, s, n) PROVE HistInv'
  <2> DEFINE mark == [NoRow EXCEPT !.kind = "highlight", !.state = "live", !.block = b, !.start = s,
                                   !.words = WordsFrom(page, b, s, n), !.of = page[b].words]
  <2>1. Replace({}, {<<i, mark>>})
    BY <1>5 DEF AddHighlight
  <2> HIDE DEF mark
  <2> QED
    BY <1>2, <2>1, ReplaceHist
<1>6. ASSUME NEW i \in Fresh, NEW j \in Ids, Shorten(j, i) PROVE HistInv'
  <2> DEFINE rest == WordsFrom(page, rows[j].block, rows[j].start + 1, Len(rows[j].words) - 1)
             mark == [rows[j] EXCEPT !.state = "live", !.start = @ + 1, !.words = rest]
  <2>1. Replace({j}, {<<i, mark>>}) /\ rows[j].kind = "highlight"
    BY <1>6 DEF Shorten
  <2> HIDE DEF mark
  <2>2. rows[j].state # "none"
    BY <2>1 DEF IInv, Shapes
  <2> QED
    BY <1>2, <2>1, <2>2, ReplaceHist
<1>7. ASSUME NEW i \in Ids, RemoveAnnotation(i) PROVE HistInv'
  BY <1>3, <1>7 DEF RemoveAnnotation
<1>8. ASSUME NEW kind, ClearPage(kind) PROVE HistInv'
  BY <1>3, <1>8 DEF ClearPage, Live
<1>9. ASSUME NEW i \in Ids, NEW kind \in {"update", "leave"}, NEW t, Write(i, kind, t) PROVE HistInv'
  BY <1>9, WriteHist
<1> QED
  BY <1>4, <1>5, <1>6, <1>7, <1>8, <1>9, UndoHist, RedoHist DEF Child

LEMMA StepHist == IInv /\ HistInv /\ Step => HistInv'
<1> SUFFICES ASSUME IInv, HistInv, Step PROVE HistInv'
  OBVIOUS
<1>1. ASSUME NEW i \in Ids, ReadRow(i) \/ ReadBox(i) PROVE HistInv'
  BY <1>1, ReadRowHist, ReadBoxHist
<1>2. ASSUME NEW n \in work.new, Create(n) PROVE HistInv'
  BY <1>2, CreateHist
<1> QED
  BY <1>1, <1>2, SaveRowHist, SaveBoxHist, EndHist, FailHist DEF Step

LEMMA OtherHist ==
  ASSUME IInv, HistInv, NewText \/ Reload \/ OtherDevice \/ UNCHANGED vars
  PROVE  HistInv'
<1>1. ASSUME UNCHANGED <<undo, redo, origin, latest, work, rows, loose>> PROVE HistInv'
  BY <1>1, OthersHist DEF Live
<1>2. ASSUME NEW text, StartCommit(text) \/ RemotePage(text) PROVE HistInv'
  BY <1>1, <1>2, Zenon DEF StartCommit, RemotePage, stacks
<1>3. CASE SavePage
  BY <1>1, <1>3, Zenon DEF SavePage, stacks
<1>4. ASSUME NEW m \in commit.todo, MoveRow(m) PROVE HistInv'
  <2> DEFINE row == Moved(m[2], commit.to)
             i == m[1]
  <2>1. i \in Ids /\ row.state = "live" /\ DOMAIN rows = Ids
    BY MovedKeeps DEF IInv, Moving, Shapes
  <2>2. UNCHANGED <<undo, redo, origin, latest, work>>
    BY <1>4 DEF MoveRow, stacks
  <2>3. UNCHANGED <<rows, loose>> \/ (rows' = [rows EXCEPT ![i] = row] /\ loose' = IF rows[i].state = "live" THEN loose ELSE Touched({i}))
    BY <1>4 DEF MoveRow
  <2> HIDE DEF row, i
  <2>4. CASE rows' = [rows EXCEPT ![i] = row] /\ loose' = IF rows[i].state = "live" THEN loose ELSE Touched({i})
    <3>1. loose.undo \subseteq loose'.undo /\ loose.redo \subseteq loose'.redo /\ (rows[i].state = "live" \/ i \in External')
      BY <2>4 DEF Touched, External
    <3>2. rows'[i].state = "live" /\ \A j \in Ids \ {i} : rows'[j].state = rows[j].state
      BY <2>1, <2>4
    <3>3. \A j \in Ids : (j \in Live' <=> j \in Live) \/ j \in External'
      BY <2>1, <3>1, <3>2 DEF Live
    <3>4. \A j \in Ids : rows'[j].state = "none" => rows[j].state = "none"
      BY <3>2
    <3> QED
      BY <2>2, <3>1, <3>3, <3>4, OthersHist
  <2> QED
    BY <1>1, <2>2, <2>3, <2>4
<1>5. ASSUME NEW i \in Ids, NEW state \in {"live", "deleted"}, RemoteRow(i, state) PROVE HistInv'
  <2>1. UNCHANGED <<undo, redo, origin, latest, work>> /\ rows[i].state # "none"
        /\ rows' = [rows EXCEPT ![i].state = state] /\ loose' = Touched({i})
    BY <1>5 DEF RemoteRow, stacks
  <2>2. DOMAIN rows = Ids /\ IsRow(rows[i])
    BY DEF IInv, Shapes
  <2>3. rows'[i].state = state /\ \A j \in Ids \ {i} : rows'[j].state = rows[j].state
    BY <2>1, <2>2 DEF IsRow
  <2>4. loose.undo \subseteq loose'.undo /\ loose.redo \subseteq loose'.redo /\ i \in External'
    BY <2>1 DEF Touched, External
  <2>5. \A j \in Ids : (j \in Live' <=> j \in Live) \/ j \in External'
    BY <2>3, <2>4 DEF Live
  <2>6. \A j \in Ids : rows'[j].state = "none" => rows[j].state = "none"
    BY <2>3
  <2> QED
    BY <2>1, <2>4, <2>5, <2>6, OthersHist
<1>6. CASE Reload
  <2>1. undo' = <<>> /\ redo' = <<>> /\ work' = Idle /\ origin' = Live /\ latest' = Live /\ rows' = rows
    BY <1>6 DEF Reload
  <2>2. Live' = Live
    BY <2>1 DEF Live
  <2> QED
    BY <2>1, <2>2, EmptyStacks, AtRest
<1>7. CASE UNCHANGED vars
  BY <1>1, <1>7 DEF vars
<1>8. ASSUME NEW i \in Ids, NEW text \in Texts, RemoteMove(i, text) PROVE HistInv'
  <2>1. PICK r : rows' = [rows EXCEPT ![i] = r] /\ r.state \in {"live", "deleted"}
    BY <1>8, MovedTo
  <2>2. UNCHANGED <<undo, redo, origin, latest, work>> /\ rows[i].state # "none" /\ loose' = Touched({i}) /\ DOMAIN rows = Ids
    BY <1>8 DEF RemoteMove, stacks, IInv, Shapes
  <2>3. \A j \in Ids \ {i} : rows'[j].state = rows[j].state
    BY <2>1, <2>2
  <2>4. loose.undo \subseteq loose'.undo /\ loose.redo \subseteq loose'.redo /\ i \in External'
    BY <2>2 DEF Touched, External
  <2>5. \A j \in Ids : (j \in Live' <=> j \in Live) \/ j \in External'
    BY <2>3, <2>4 DEF Live
  <2>6. \A j \in Ids : rows'[j].state = "none" => rows[j].state = "none"
    BY <2>1, <2>2, <2>3
  <2> QED
    BY <2>2, <2>4, <2>5, <2>6, OthersHist
<1> QED
  BY <1>2, <1>3, <1>4, <1>5, <1>6, <1>7, <1>8 DEF NewText, OtherDevice

LEMMA InitHist == Init => HistInv
<1> SUFFICES ASSUME Init PROVE HistInv
  OBVIOUS
<1>1. undo = <<>> /\ redo = <<>> /\ work.kind = "idle" /\ work.cmd = Nothing /\ origin = {} /\ latest = {}
  BY IdleFacts DEF Init
<1>2. Live = {}
  BY Records DEF Init, Live
<1>3. Nothing \in Command /\ Named(Nothing) = {} /\ Apart(Nothing) /\ \A i : i \notin Named(Nothing)
  BY NothingFacts
<1> DEFINE e == <<>>
<1>4. /\ e \in Seq(Command) /\ DOMAIN e = {}
      /\ \A i : /\ Unnamed(e, i) /\ Leads(e, e, {}, {}, i, "created") /\ Leads(e, e, {}, {}, i, "deleted") /\ Chain(e, e, i)
                /\ Rests(e, {}, i, "created", "deleted") /\ Rests(e, {}, i, "deleted", "created")
  BY EmptyStacks
<1>5. undo = e /\ redo = e
  BY <1>1
<1> HIDE DEF e
<1>6. StackInv
  BY <1>1, <1>3, <1>4, <1>5 DEF StackInv
<1>7. UnusedInv
  BY <1>1, <1>3, <1>4, <1>5 DEF UnusedInv
<1>8. DoneInv
  BY <1>1, <1>3 DEF DoneInv, InHistory
<1>9. UndoInv
  BY <1>1, <1>2, <1>3, <1>4, <1>5, LeadsGrow DEF UndoInv
<1>10. RedoInv
  BY <1>1, <1>2, <1>3, <1>4, <1>5, LeadsGrow DEF RedoInv
<1>11. ASSUME NEW i PROVE Chain(Append(e, Nothing), e, i)
  BY <1>3, <1>4, ChainGrow
<1>12. ChainInv
  BY <1>1, <1>2, <1>4, <1>5, <1>11 DEF ChainInv
<1> QED
  BY <1>6, <1>7, <1>8, <1>9, <1>10, <1>12 DEF HistInv

LEMMA NextHist == IInv /\ HistInv /\ [Next]_vars => HistInv'
  BY ChildHist, StepHist, OtherHist DEF Next

\* Every command of the history says what it changed, for every number of annotations and every limit.
THEOREM HistInvCorrect == Spec => []HistInv
<1>1. IInv /\ IInv' /\ HistInv /\ [Next]_vars => HistInv'
  BY NextHist
<1> QED
  BY InvCorrect, InitHist, <1>1, PTL DEF Spec

\* Of the commands that name an annotation one is the oldest.
LEMMA OldestExists ==
  ASSUME NEW s \in Seq(Command), NEW i, ~Unnamed(s, i)
  PROVE  \E k \in DOMAIN s : Oldest(s, k, i)
<1> DEFINE K == {k \in DOMAIN s : i \in Named(s[k])}
           R == {kk \in K \X K : kk[1] <= kk[2]}
<1>1. DOMAIN s = 1 .. Len(s) /\ Len(s) \in Nat
  OBVIOUS
<1>2. K # {} /\ K \subseteq 1 .. Len(s)
  BY <1>1 DEF Unnamed
<1>3. IsFiniteSet(K)
  <2>1. IsFiniteSet(1 .. Len(s))
    BY <1>1, FS_Interval
  <2> HIDE DEF K
  <2> QED
    BY <1>2, <2>1, FS_Subset
<1>4. \A x, y \in K : <<x, y>> \in R <=> x <= y
  OBVIOUS
<1>5. \A k : k \in K <=> k \in DOMAIN s /\ i \in Named(s[k])
  OBVIOUS
<1> HIDE DEF K, R
<1>6. /\ \A x, y \in K : <<x, y>> \in R \/ <<y, x>> \in R
      /\ \A x, y, z \in K : <<x, y>> \in R /\ <<y, z>> \in R => <<x, z>> \in R
  BY <1>1, <1>2, <1>4
<1>7. PICK m \in K : \A y \in K : <<m, y>> \in R
  BY <1>2, <1>3, <1>6, FiniteLeast
<1>8. m \in 1 .. Len(s) /\ \A y \in K : m <= y
  BY <1>2, <1>4, <1>7
<1>9. \A l \in 1 .. m - 1 : l \in DOMAIN s /\ l \notin K
  BY <1>1, <1>8
<1>10. Oldest(s, m, i)
  BY <1>5, <1>7, <1>9 DEF Oldest
<1> QED
  BY <1>1, <1>8, <1>10

\* What unwinding a stack gives is where its commands lead.
LEMMA LeadsWhole ==
  ASSUME NEW s \in Seq(Command), NEW r, NEW live, NEW goal, NEW i, NEW f, Leads(s, r, live, goal, i, f)
  PROVE  i \in goal <=> (Unnamed(s, i) /\ i \in live) \/ \E k \in DOMAIN s : Oldest(s, k, i) /\ i \in s[k][f]
<1>1. CASE Unnamed(s, i)
  BY <1>1 DEF Leads, Unnamed, Oldest
<1>2. CASE ~Unnamed(s, i)
  <2>1. PICK k \in DOMAIN s : Oldest(s, k, i)
    BY <1>2, OldestExists
  <2> QED
    BY <1>2, <2>1 DEF Leads
<1> QED
  BY <1>1, <1>2

\* Undo and redo lead where they say, whatever failed half-way before.
THEOREM HistoryFitsCorrect == Spec => []HistoryFits
<1>1. HistInv => HistoryFits
  <2> SUFFICES ASSUME HistInv, work = Idle PROVE HistoryFits
    BY DEF HistoryFits
  <2>1. work.cmd = Nothing /\ work.kind = "idle" /\ Nothing \in Command /\ Named(Nothing) = {} /\ \A i : i \notin Named(Nothing)
    BY IdleFacts, NothingFacts
  <2>2. undo \in Seq(Command) /\ redo \in Seq(Command)
    BY DEF HistInv, StackInv
  <2>3. ASSUME NEW i \in Ids \ loose.undo PROVE i \in Unwound <=> i \in origin
    <3>1. Leads(undo, redo, Live, origin, i, "deleted")
      BY <2>1, <2>2, LeadsGrow DEF HistInv, UndoInv
    <3>2. i \in origin <=> (Unnamed(undo, i) /\ i \in Live) \/ \E k \in DOMAIN undo : Oldest(undo, k, i) /\ i \in undo[k]["deleted"]
      BY <2>2, <3>1, LeadsWhole
    <3> QED
      BY <3>2 DEF Unwound
  <2>4. ASSUME NEW i \in Ids \ loose.redo PROVE i \in Wound <=> i \in latest
    <3>1. Leads(redo, undo, Live, latest, i, "created")
      BY <2>1, <2>2, LeadsGrow DEF HistInv, RedoInv
    <3>2. i \in latest <=> (Unnamed(redo, i) /\ i \in Live) \/ \E k \in DOMAIN redo : Oldest(redo, k, i) /\ i \in redo[k]["created"]
      BY <2>2, <3>1, LeadsWhole
    <3> QED
      BY <3>2 DEF Wound
  <2> QED
    BY <2>3, <2>4 DEF HistoryFits
<1> QED
  BY HistInvCorrect, <1>1, PTL
=============================================================================
