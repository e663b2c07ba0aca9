------------------------- MODULE SpeechEngineProofs -------------------------
(***************************************************************************)
(* Proofs about the SpeechEngine, for all pages, commands and failures:    *)
(* what each method makes of a state, and from that the invariants of the  *)
(* voice, the position and the wake lock.                                  *)
(***************************************************************************)
EXTENDS SpeechEngine, FiniteSetTheorems, WellFoundedInduction, TLAPS

Items == {NoItem} \cup UNION {{q[i] : i \in DOMAIN q} : q \in Queues}
Ids == {item.id : item \in Items}
TimerStates == [of : {"none", "queue", "once"}, fresh : BOOLEAN, owes : BOOLEAN]
Utterances == [kind : {"queue", "once"}, item : Items, phase : {"pending", "started", "cancelled"}, fresh : BOOLEAN]
Engines == [queue : Queues, index : Nat \ {0}, status : {"idle", "playing", "paused"}, shown : Ids, timer : TimerStates,
            dog : {"off", "fresh", "stale"}, retries : 0 .. MaxStartRetries, once : BOOLEAN,
            synth : SUBSET Utterances, recent : BOOLEAN]

\* The position is on the page; an empty page is never read.
Placed(s) == s.index \in Starts(s.queue) /\ (s.status = "playing" => s.queue # <<>>)
Cancelled(s) == \A u \in s.synth : u.phase = "cancelled"
Quiet(s) == \A u \in s.synth : u.phase = "cancelled" /\ ~u.fresh

\* The generation and cancel() agree: an event counts exactly when its utterance was not cancelled.
FreshInv(s) == \A u \in s.synth : u.fresh <=> u.phase # "cancelled"
\* There is one such utterance, and none while a timer is going to start one.
OneInv(s) == \A u, v \in s.synth : u.fresh /\ v.fresh => u = v
TimerInv(s) == s.timer.fresh => Quiet(s) /\ (s.recent => s.timer.owes)
\* An utterance of the page is that of the position.
HeardInv(s) ==
  \A u \in s.synth : u.fresh /\ u.kind = "queue" =>
    s.status = "playing" /\ u.item.id = s.queue[s.index].id /\ (u.phase = "started" => u.item.id = s.shown)

Sound(s) == s \in Engines /\ Placed(s) /\ FreshInv(s) /\ OneInv(s) /\ TimerInv(s) /\ HeardInv(s)

\* What is said are the words of the list,
InWords(s) == \A u \in s.synth : u.fresh /\ u.kind = "queue" => u.item = s.queue[s.index]
\* or those that were being said when the list was replaced at position `start'.
WordsInv(s, start, before) ==
  \A u \in s.synth : u.fresh /\ u.kind = "queue" => u.item = s.queue[s.index] \/ (u.item \in before /\ s.index = start)

\* What is passed over from s to t has nothing to say.
Advance(s, t) == t.status = "playing" => s.index <= t.index /\ \A i \in DOMAIN s.queue : s.index <= i /\ i < t.index => s.queue[i] \in Silent
\* A new utterance only comes after the gap.
AfterGap(s, t) == \A u \in Alive(t) \ Alive(s) : u.phase = "pending" => ~s.recent /\ ~t.recent
----------------------------------------------------------------------------
(* The page.                                                               *)

LEMMA LeastNat ==
  ASSUME NEW S, S \subseteq Nat, S # {}
  PROVE  \E i \in S : \A j \in S : i <= j
<1> DEFINE R == {ss \in Nat \X Nat : ss[1] < ss[2]}
<1>1. IsWellFoundedOn(R, Nat)
  BY NatLessThanWellFounded DEF OpToRel
<1>2. PICK i \in S : \A j \in S : <<j, i>> \notin R
  BY <1>1, WFMin
<1>3. \A j \in S : ~(j < i)
  BY <1>2
<1> QED
  BY <1>3

\* FirstOf takes the least of a set of positions.
LEMMA FirstOfLeast ==
  ASSUME NEW S, S \subseteq Nat, S # {}
  PROVE  FirstOf(S) \in S /\ \A j \in S : FirstOf(S) <= j
  BY LeastNat DEF FirstOf

LEMMA PageFacts ==
  ASSUME NEW q \in Queues
  PROVE  /\ Len(q) \in Nat /\ DOMAIN q = 1 .. Len(q)
         /\ \A i \in DOMAIN q : q[i] \in Items
         /\ q # <<>> => Len(q) > 0
         /\ Starts(q) \subseteq Nat \ {0} /\ (q # <<>> => Starts(q) = DOMAIN q)
<1>1. q \in Seq({q[i] : i \in DOMAIN q})
  BY SpeechAssumption
<1>2. Len(q) \in Nat /\ DOMAIN q = 1 .. Len(q) /\ (q # <<>> => Len(q) > 0)
  BY <1>1
<1>3. \A i \in DOMAIN q : q[i] \in Items
  <2> SUFFICES ASSUME NEW i \in DOMAIN q PROVE q[i] \in Items
    OBVIOUS
  <2>1. q[i] \in {q[k] : k \in DOMAIN q}
    OBVIOUS
  <2>2. {q[k] : k \in DOMAIN q} \in {{p[k] : k \in DOMAIN p} : p \in Queues}
    OBVIOUS
  <2> QED
    BY <2>1, <2>2, Zenon DEF Items
<1>4. Starts(q) \subseteq Nat \ {0} /\ (q # <<>> => Starts(q) = DOMAIN q)
  BY <1>2 DEF Starts
<1> QED
  BY <1>2, <1>3, <1>4

LEMMA ItemType ==
  ASSUME NEW s, s.queue \in Queues, NEW i
  PROVE  ItemAt(s, i) \in Items /\ ItemAt(s, i).id \in Ids
<1>1. NoItem \in Items
  BY DEF Items
<1>2. ItemAt(s, i) \in Items
  BY <1>1, PageFacts DEF ItemAt
<1> QED
  BY <1>2 DEF Ids
----------------------------------------------------------------------------
(* What the methods make of a state.                                       *)

LEMMA UtteranceFacts ==
  ASSUME NEW u \in Utterances
  PROVE  /\ [u EXCEPT !.fresh = FALSE] \in Utterances /\ [u EXCEPT !.fresh = FALSE].phase = u.phase
         /\ ~[u EXCEPT !.fresh = FALSE].fresh
         /\ [u EXCEPT !.phase = "cancelled"] \in Utterances /\ [u EXCEPT !.phase = "cancelled"].phase = "cancelled"
         /\ [u EXCEPT !.phase = "cancelled"].fresh = u.fresh
  BY DEF Utterances

\* Nothing but timers, watchdog and utterances.
Same(s, t) == /\ t.queue = s.queue /\ t.index = s.index /\ t.status = s.status /\ t.shown = s.shown
              /\ t.retries = s.retries /\ t.once = s.once

LEMMA BumpFacts ==
  ASSUME NEW s \in Engines, NEW t, t = Bump(s)
  PROVE  /\ t \in Engines /\ Same(s, t) /\ t.recent = s.recent /\ ~t.timer.fresh
         /\ \A u \in t.synth : ~u.fresh
         /\ Cancelled(s) => Quiet(t)
<1> DEFINE timer == [s.timer EXCEPT !.fresh = FALSE]
           dog == IF s.dog = "off" THEN "off" ELSE "stale"
           synth == {[u EXCEPT !.fresh = FALSE] : u \in s.synth}
<1>1. t = [s EXCEPT !.timer = timer, !.dog = dog, !.synth = synth]
  BY DEF Bump, Engines
<1>2. timer \in TimerStates /\ ~timer.fresh
  <2>1. s.timer \in TimerStates
    BY DEF Engines
  <2>2. timer \in TimerStates /\ ~timer.fresh
    BY <2>1 DEF TimerStates
  <2> QED
    BY <2>2
<1>3. dog \in {"off", "fresh", "stale"}
  OBVIOUS
<1>4. s.synth \subseteq Utterances
  BY DEF Engines
<1>5. synth \in SUBSET Utterances /\ \A u \in synth : ~u.fresh
  <2> SUFFICES ASSUME NEW w \in synth PROVE w \in Utterances /\ ~w.fresh
    OBVIOUS
  <2>1. PICK u \in s.synth : w = [u EXCEPT !.fresh = FALSE]
    OBVIOUS
  <2>2. u \in Utterances
    BY <1>4
  <2> HIDE DEF synth
  <2> QED
    BY <2>1, <2>2, UtteranceFacts
<1>6. Cancelled(s) => \A u \in synth : u.phase = "cancelled"
  BY <1>4, UtteranceFacts DEF Cancelled
<1> HIDE DEF timer, dog, synth
<1>7. t \in Engines
  BY <1>1, <1>2, <1>3, <1>5 DEF Engines
<1>8. Same(s, t) /\ t.recent = s.recent /\ t.timer = timer /\ t.synth = synth
  BY <1>1 DEF Engines, Same
<1> QED
  BY <1>2, <1>5, <1>6, <1>7, <1>8 DEF Quiet

LEMMA ClearFacts ==
  ASSUME NEW s \in Engines, NEW t, t = ClearTimers(s)
  PROVE  t \in Engines /\ Same(s, t) /\ t.recent = s.recent /\ t.timer = NoTimer /\ ~t.timer.fresh /\ t.synth = s.synth
<1>1. NoTimer \in TimerStates /\ ~NoTimer.fresh
  BY DEF NoTimer, TimerStates
<1>2. t = [s EXCEPT !.timer = NoTimer, !.dog = "off"]
  BY DEF ClearTimers
<1>3. t \in Engines
  BY <1>1, <1>2 DEF Engines
<1> QED
  BY <1>1, <1>2, <1>3 DEF Engines, Same

LEMMA CancelFacts ==
  ASSUME NEW s \in Engines, NEW t, t = CancelSynth(s)
  PROVE  /\ t \in Engines /\ Same(s, t) /\ t.recent /\ t.timer = s.timer /\ Cancelled(t)
         /\ (\A u \in s.synth : ~u.fresh) => Quiet(t)
<1> DEFINE synth == {[u EXCEPT !.phase = "cancelled"] : u \in s.synth}
<1>1. t = [s EXCEPT !.recent = TRUE, !.synth = synth]
  BY DEF CancelSynth, Engines
<1>2. s.synth \subseteq Utterances
  BY DEF Engines
<1>3. synth \in SUBSET Utterances /\ (\A u \in synth : u.phase = "cancelled") /\ ((\A u \in s.synth : ~u.fresh) => \A u \in synth : ~u.fresh)
  <2> SUFFICES ASSUME NEW w \in synth
               PROVE  w \in Utterances /\ w.phase = "cancelled" /\ ((\A u \in s.synth : ~u.fresh) => ~w.fresh)
    OBVIOUS
  <2>1. PICK u \in s.synth : w = [u EXCEPT !.phase = "cancelled"]
    OBVIOUS
  <2>2. u \in Utterances
    BY <1>2
  <2> HIDE DEF synth
  <2>3. w \in Utterances /\ w.phase = "cancelled" /\ w.fresh = u.fresh
    BY <2>1, <2>2, UtteranceFacts
  <2> QED
    BY <2>1, <2>3
<1> HIDE DEF synth
<1>4. t \in Engines
  BY <1>1, <1>3 DEF Engines
<1>5. Same(s, t) /\ t.recent /\ t.timer = s.timer /\ t.synth = synth
  BY <1>1 DEF Engines, Same
<1> QED
  BY <1>3, <1>4, <1>5 DEF Quiet, Cancelled

\* Halt: silence, and no timer that would end it.
LEMMA HaltFacts ==
  ASSUME NEW s \in Engines, Placed(s), NEW status \in {"idle", "paused"}, NEW t, t = Halt(s, status)
  PROVE  /\ Sound(t) /\ Quiet(t) /\ t.timer = NoTimer /\ t.recent
         /\ t.queue = s.queue /\ t.index = s.index /\ t.status = status /\ ~t.once
<1> DEFINE b == Bump(s)
           c == ClearTimers(b)
           d == CancelSynth(c)
           e == [d EXCEPT !.once = FALSE, !.status = status]
<1>1. b \in Engines /\ Same(s, b) /\ \A u \in b.synth : ~u.fresh
  BY BumpFacts
<1> HIDE DEF b
<1>2. c \in Engines /\ Same(b, c) /\ c.timer = NoTimer /\ \A u \in c.synth : ~u.fresh
  BY <1>1, ClearFacts
<1> HIDE DEF c
<1>3. d \in Engines /\ Same(c, d) /\ d.recent /\ d.timer = NoTimer /\ Quiet(d)
  BY <1>2, CancelFacts
<1> HIDE DEF d
<1>4. e \in Engines /\ e.queue = d.queue /\ e.index = d.index /\ e.recent = d.recent /\ e.timer = d.timer /\ e.synth = d.synth
      /\ e.status = status /\ ~e.once
  BY <1>3 DEF Engines
<1>5. t = [e EXCEPT !.shown = ItemAt(e, e.index).id]
  BY DEF Halt, Patch, b, c, d
<1> HIDE DEF e
<1>6. ItemAt(e, e.index).id \in Ids
  BY <1>4, ItemType DEF Engines
<1>7. t \in Engines /\ t.queue = e.queue /\ t.index = e.index /\ t.recent = e.recent /\ t.timer = e.timer /\ t.synth = e.synth
      /\ t.status = e.status /\ t.once = e.once
  BY <1>4, <1>5, <1>6 DEF Engines
<1>8. Quiet(t) /\ t.timer = NoTimer /\ t.recent /\ t.queue = s.queue /\ t.index = s.index /\ t.status = status /\ ~t.once
  BY <1>1, <1>2, <1>3, <1>4, <1>7 DEF Quiet, Same
<1>9. Sound(t)
  BY <1>7, <1>8 DEF Sound, Placed, Quiet, FreshInv, OneInv, TimerInv, HeardInv, NoTimer
<1> QED
  BY <1>8, <1>9

\* A state without a voice and without a timer is sound.
LEMMA QuietSound ==
  ASSUME NEW t \in Engines, Placed(t), Quiet(t), ~t.timer.fresh
  PROVE  Sound(t)
  BY DEF Sound, Quiet, FreshInv, OneInv, TimerInv, HeardInv

\* Patch shows the sentence of the position, and nothing else.
LEMMA PatchFacts ==
  ASSUME NEW s \in Engines, NEW t, t = Patch(s)
  PROVE  /\ t \in Engines /\ t.queue = s.queue /\ t.index = s.index /\ t.status = s.status /\ t.once = s.once /\ t.retries = s.retries
         /\ t.timer = s.timer /\ t.synth = s.synth /\ t.recent = s.recent /\ t.shown = ItemAt(s, s.index).id
<1>1. ItemAt(s, s.index).id \in Ids
  BY ItemType DEF Engines
<1>2. t \in Engines
  BY <1>1 DEF Patch, Engines
<1> QED
  BY <1>2 DEF Patch, Engines

\* In silence no word is said.
LEMMA QuietWords ==
  ASSUME NEW t, Quiet(t)
  PROVE  InWords(t)
  BY DEF Quiet, InWords

LEMMA WordsFacts ==
  ASSUME NEW t, NEW start, NEW before, InWords(t) \/ Quiet(t)
  PROVE  WordsInv(t, start, before)
  BY DEF Quiet, InWords, WordsInv

\* The end of the page.
LEMMA FinishFacts ==
  ASSUME NEW s \in Engines, Placed(s), Cancelled(s), NEW t, t = Finish(s)
  PROVE  Sound(t) /\ Quiet(t) /\ t.queue = s.queue /\ t.index = s.index /\ t.status = "idle" /\ t.recent = s.recent
<1> DEFINE b == Bump(s)
           c == ClearTimers(b)
           d == Patch([c EXCEPT !.status = "idle"])
<1>1. b \in Engines /\ Same(s, b) /\ b.recent = s.recent /\ Quiet(b)
  BY BumpFacts
<1> HIDE DEF b
<1>2. c \in Engines /\ Same(b, c) /\ c.recent = b.recent /\ c.timer = NoTimer /\ ~c.timer.fresh /\ c.synth = b.synth
  BY <1>1, ClearFacts
<1> HIDE DEF c
<1> DEFINE e == [c EXCEPT !.status = "idle"]
<1>3. e \in Engines /\ e.queue = c.queue /\ e.index = c.index /\ e.status = "idle" /\ e.recent = c.recent /\ e.timer = c.timer /\ e.synth = c.synth
  BY <1>2 DEF Engines
<1>4. t = Patch(e)
  BY DEF Finish, b, c
<1> HIDE DEF e
<1>5. t \in Engines /\ t.queue = s.queue /\ t.index = s.index /\ t.status = "idle" /\ t.recent = s.recent /\ ~t.timer.fresh /\ Quiet(t)
  BY <1>1, <1>2, <1>3, <1>4, PatchFacts DEF Same, Quiet
<1>6. Placed(t)
  BY <1>5 DEF Placed
<1> QED
  BY <1>5, <1>6, QuietSound

LEMMA UtteranceType ==
  ASSUME NEW kind \in {"queue", "once"}, NEW item \in Items, NEW u, u = Utterance(kind, item)
  PROVE  u \in Utterances /\ u.kind = kind /\ u.item = item /\ u.phase = "pending" /\ u.fresh
  BY DEF Utterance, Utterances

\* The next sentence with something to say, or the end of the page.
LEMMA SpeakNowFacts ==
  ASSUME NEW s \in Engines, Placed(s), s.status = "playing", Quiet(s), ~s.timer.fresh, NEW t, t = SpeakNow(s)
  PROVE  Sound(t) /\ InWords(t) /\ t.queue = s.queue /\ t.status \in {"playing", "idle"} /\ t.recent = s.recent /\ Advance(s, t)
<1>1. /\ s.queue \in Queues /\ s.index \in DOMAIN s.queue /\ DOMAIN s.queue = 1 .. Len(s.queue) /\ Len(s.queue) \in Nat /\ s.queue # <<>>
      /\ Starts(s.queue) = DOMAIN s.queue /\ s.index \in Nat
  BY PageFacts DEF Engines, Placed
<1>2. CASE Audible(s) = {}
  <2> DEFINE e == [s EXCEPT !.index = Len(s.queue)]
  <2>1. Len(s.queue) \in Nat \ {0} /\ Len(s.queue) \in DOMAIN s.queue
    BY <1>1
  <2>2. e \in Engines /\ e.queue = s.queue /\ e.index = Len(s.queue) /\ e.recent = s.recent /\ e.synth = s.synth
    BY <2>1 DEF Engines
  <2>3. t = Finish(e)
    BY <1>2 DEF SpeakNow
  <2> HIDE DEF e
  <2>4. Placed(e) /\ Cancelled(e)
    BY <1>1, <2>1, <2>2 DEF Placed, Cancelled, Quiet
  <2> QED
    BY <2>2, <2>3, <2>4, FinishFacts, QuietWords DEF Advance
<1>3. CASE Audible(s) # {}
  <2> DEFINE i == FirstOf(Audible(s))
             u == Utterance("queue", s.queue[i])
  <2>1. Audible(s) \subseteq DOMAIN s.queue /\ Audible(s) \subseteq Nat
    BY <1>1 DEF Audible
  <2>2. i \in Audible(s) /\ \A j \in Audible(s) : i <= j
    BY <1>3, <2>1, FirstOfLeast
  <2>3. t = [s EXCEPT !.index = i, !.dog = "fresh", !.synth = @ \cup {u}]
    BY <1>3 DEF SpeakNow, Watched
  <2> HIDE DEF i
  <2>4. i \in DOMAIN s.queue /\ i \in Nat \ {0} /\ s.index <= i /\ \A j \in DOMAIN s.queue : s.index <= j /\ j < i => s.queue[j] \in Silent
    BY <1>1, <2>1, <2>2 DEF Audible
  <2>5. s.queue[i] \in Items
    BY <1>1, <2>4, PageFacts
  <2>6. u \in Utterances /\ u.kind = "queue" /\ u.item = s.queue[i] /\ u.phase = "pending" /\ u.fresh
    BY <2>5, UtteranceType
  <2> HIDE DEF u
  <2>7. s.synth \cup {u} \in SUBSET Utterances
    BY <2>6 DEF Engines
  <2>8. t \in Engines
    BY <2>3, <2>4, <2>7 DEF Engines
  <2>9. t.queue = s.queue /\ t.index = i /\ t.status = s.status /\ t.recent = s.recent /\ t.timer = s.timer /\ t.synth = s.synth \cup {u}
    BY <2>3 DEF Engines
  <2>10. Placed(t)
    BY <1>1, <2>4, <2>9 DEF Placed
  <2>11. FreshInv(t) /\ OneInv(t)
    BY <2>6, <2>9 DEF FreshInv, OneInv, Quiet
  <2>12. TimerInv(t)
    BY <2>9 DEF TimerInv
  <2>13. HeardInv(t) /\ InWords(t)
    BY <2>6, <2>9 DEF HeardInv, InWords, Quiet
  <2>14. Advance(s, t)
    BY <2>4, <2>9 DEF Advance
  <2> QED
    BY <2>8, <2>9, <2>10, <2>11, <2>12, <2>13, <2>14 DEF Sound
<1> QED
  BY <1>2, <1>3

\* After the gap and the pause, or at once.
LEMMA ScheduleFacts ==
  ASSUME NEW s \in Engines, Placed(s), s.status = "playing", Cancelled(s), NEW pause, NEW t, t = Schedule(s, pause)
  PROVE  /\ Sound(t) /\ InWords(t) /\ t.queue = s.queue /\ t.status \in {"playing", "idle"} /\ t.recent = s.recent /\ Advance(s, t)
         /\ s.recent => Quiet(t) /\ t.index = s.index /\ t.status = "playing"
<1> DEFINE n == [s EXCEPT !.timer = NoTimer]
           b == Bump(n)
           timer == [of |-> "queue", fresh |-> TRUE, owes |-> s.recent]
<1>1. n \in Engines /\ Same(s, n) /\ n.recent = s.recent /\ n.synth = s.synth
  BY DEF Engines, Same, NoTimer, TimerStates
<1>2. t = IF MustWait(s, pause) THEN [b EXCEPT !.timer = timer] ELSE SpeakNow(b)
  BY DEF Schedule
<1> HIDE DEF n
<1>3. b \in Engines /\ Same(s, b) /\ b.recent = s.recent /\ ~b.timer.fresh /\ Quiet(b)
  BY <1>1, BumpFacts DEF Cancelled, Same
<1> HIDE DEF b
<1>4. Placed(b) /\ b.status = "playing"
  BY <1>3 DEF Placed, Same
<1>5. CASE MustWait(s, pause)
  <2>1. timer \in TimerStates /\ timer.fresh /\ timer.owes = s.recent
    BY DEF TimerStates, Engines
  <2> HIDE DEF timer
  <2>2. t = [b EXCEPT !.timer = timer]
    BY <1>2, <1>5
  <2>3. t \in Engines
    BY <1>3, <2>1, <2>2 DEF Engines
  <2>4. t.queue = s.queue /\ t.index = s.index /\ t.status = "playing" /\ t.recent = s.recent /\ t.timer = timer /\ t.synth = b.synth
    BY <1>3, <1>4, <2>2 DEF Engines, Same
  <2>5. Quiet(t)
    BY <1>3, <2>4 DEF Quiet
  <2>6. Sound(t)
    BY <1>3, <1>4, <2>1, <2>3, <2>4, <2>5 DEF Sound, Placed, Quiet, FreshInv, OneInv, TimerInv, HeardInv, Same
  <2>7. Advance(s, t)
    <3>1. s.index \in Nat /\ \A i \in DOMAIN s.queue : i \in Nat
      BY PageFacts DEF Engines
    <3> QED
      BY <2>4, <3>1 DEF Advance
  <2> QED
    BY <2>4, <2>5, <2>6, <2>7, QuietWords
<1>6. CASE ~MustWait(s, pause)
  <2>1. t = SpeakNow(b) /\ ~s.recent
    BY <1>2, <1>6 DEF MustWait
  <2>2. Sound(t) /\ InWords(t) /\ t.queue = b.queue /\ t.status \in {"playing", "idle"} /\ t.recent = b.recent /\ Advance(b, t)
    BY <1>3, <1>4, <2>1, SpeakNowFacts
  <2> QED
    BY <1>3, <2>1, <2>2 DEF Same, Advance
<1> QED
  BY <1>5, <1>6

LEMMA ScheduleSoonFacts ==
  ASSUME NEW s \in Engines, Placed(s), s.status = "playing", Cancelled(s), NEW t, t = Schedule(s, FALSE)
  PROVE  /\ Sound(t) /\ InWords(t) /\ t.queue = s.queue /\ t.status \in {"playing", "idle"} /\ t.recent = s.recent /\ Advance(s, t)
         /\ s.recent => Quiet(t) /\ t.index = s.index /\ t.status = "playing"
<1> DEFINE none == FALSE
<1>1. t = Schedule(s, none)
  OBVIOUS
<1> HIDE DEF none
<1> QED
  BY <1>1, ScheduleFacts

\* Once more, or given up: in both cases nothing is heard any more.
LEMMA RetryFacts ==
  ASSUME NEW s \in Engines, Placed(s), s.status = "playing", NEW t, t = RetryOrFail(s)
  PROVE  Sound(t) /\ Quiet(t) /\ t.queue = s.queue /\ t.index = s.index
<1>1. CASE s.retries < MaxStartRetries
  <2> DEFINE n == [s EXCEPT !.retries = @ + 1, !.dog = "off"]
             c == CancelSynth(n)
  <2>1. n \in Engines /\ n.queue = s.queue /\ n.index = s.index /\ n.status = s.status
    <3>1. s.retries + 1 \in 0 .. MaxStartRetries
      BY <1>1 DEF Engines, MaxStartRetries
    <3> QED
      BY <3>1 DEF Engines
  <2>2. t = Schedule(c, FALSE)
    BY <1>1 DEF RetryOrFail
  <2> HIDE DEF n
  <2>3. c \in Engines /\ Same(n, c) /\ c.recent /\ Cancelled(c)
    BY <2>1, CancelFacts
  <2> HIDE DEF c
  <2>4. Placed(c) /\ c.status = "playing"
    BY <2>1, <2>3 DEF Placed, Same
  <2>5. Sound(t) /\ t.queue = c.queue /\ (c.recent => Quiet(t) /\ t.index = c.index)
    BY <2>2, <2>3, <2>4, ScheduleSoonFacts
  <2> QED
    BY <2>1, <2>3, <2>5 DEF Same
<1>2. CASE ~(s.retries < MaxStartRetries)
  <2>1. t = Halt(s, "idle")
    BY <1>2 DEF RetryOrFail
  <2> QED
    BY <2>1, HaltFacts
<1> QED
  BY <1>1, <1>2

\* The position moves; what was being said is cancelled.
LEMMA MoveToFacts ==
  ASSUME NEW s, Sound(s), NEW i \in DOMAIN s.queue, NEW t, t = MoveTo(s, i)
  PROVE  /\ Sound(t) /\ t.queue = s.queue /\ t.index = i
         /\ Quiet(t) \/ t.synth = s.synth
         /\ InWords(t)
<1>1. s \in Engines /\ Placed(s)
  BY DEF Sound
<1>2. i \in Nat \ {0} /\ i \in Starts(s.queue) /\ s.queue # <<>>
  BY <1>1, PageFacts DEF Engines
<1>3. CASE s.status = "playing"
  <2> DEFINE b == Bump(s)
             c == ClearTimers(b)
             d == CancelSynth(c)
             e == [d EXCEPT !.index = i, !.retries = 0]
  <2>1. t = Schedule(e, FALSE)
    BY <1>3 DEF MoveTo
  <2>2. b \in Engines /\ Same(s, b)
    BY <1>1, BumpFacts
  <2> HIDE DEF b
  <2>3. c \in Engines /\ Same(b, c)
    BY <2>2, ClearFacts
  <2> HIDE DEF c
  <2>4. d \in Engines /\ Same(c, d) /\ d.recent /\ Cancelled(d)
    BY <2>3, CancelFacts
  <2> HIDE DEF d
  <2>5. e \in Engines /\ e.index = i /\ e.queue = d.queue /\ e.status = d.status /\ e.recent = d.recent /\ e.synth = d.synth
    <3>1. 0 \in 0 .. MaxStartRetries
      BY DEF MaxStartRetries
    <3> QED
      BY <1>2, <2>4, <3>1 DEF Engines
  <2> HIDE DEF e
  <2>6. Placed(e) /\ Cancelled(e) /\ e.status = "playing" /\ e.recent /\ e.queue = s.queue
    BY <1>2, <1>3, <2>2, <2>3, <2>4, <2>5 DEF Placed, Cancelled, Same
  <2>7. Sound(t) /\ t.queue = e.queue /\ (e.recent => Quiet(t) /\ t.index = e.index)
    BY <2>1, <2>5, <2>6, ScheduleSoonFacts
  <2> QED
    BY <2>5, <2>6, <2>7, QuietWords
<1>4. CASE s.status # "playing"
  <2> DEFINE e == [s EXCEPT !.index = i]
  <2>1. t = Patch(e)
    BY <1>4 DEF MoveTo
  <2>2. e \in Engines /\ e.index = i /\ e.queue = s.queue /\ e.status = s.status /\ e.recent = s.recent /\ e.synth = s.synth /\ e.timer = s.timer
    BY <1>1, <1>2 DEF Engines
  <2> HIDE DEF e
  <2>3. /\ t \in Engines /\ t.index = i /\ t.queue = s.queue /\ t.status = s.status /\ t.recent = s.recent
        /\ t.synth = s.synth /\ t.timer = s.timer
    BY <2>1, <2>2, PatchFacts
  <2>4. Placed(t)
    BY <1>2, <2>3 DEF Placed
  <2>5. FreshInv(t) /\ OneInv(t) /\ TimerInv(t)
    BY <2>3 DEF Sound, FreshInv, OneInv, TimerInv, Quiet
  <2>6. HeardInv(t) /\ InWords(t)
    BY <1>4, <2>3 DEF Sound, HeardInv, InWords
  <2> QED
    BY <2>3, <2>4, <2>5, <2>6 DEF Sound
<1> QED
  BY <1>3, <1>4

\* A text said once, in silence.
LEMMA SayOnceFacts ==
  ASSUME NEW s \in Engines, Placed(s), Quiet(s), ~s.timer.fresh, NEW t, t = SayOnce(s)
  PROVE  Sound(t) /\ InWords(t) /\ t.queue = s.queue /\ t.index = s.index /\ t.status = s.status /\ t.recent = s.recent
<1> DEFINE u == Utterance("once", NoItem)
<1>1. u \in Utterances /\ u.kind = "once" /\ u.phase = "pending" /\ u.fresh
  BY UtteranceType DEF Items
<1>2. t = [s EXCEPT !.once = TRUE, !.synth = @ \cup {u}]
  BY DEF SayOnce
<1> HIDE DEF u
<1>3. s.synth \cup {u} \in SUBSET Utterances
  BY <1>1 DEF Engines
<1>4. t \in Engines
  BY <1>2, <1>3 DEF Engines
<1>5. /\ t.queue = s.queue /\ t.index = s.index /\ t.status = s.status /\ t.recent = s.recent /\ t.timer = s.timer
      /\ t.synth = s.synth \cup {u}
  BY <1>2 DEF Engines
<1>6. Placed(t)
  BY <1>5 DEF Placed
<1>7. FreshInv(t) /\ OneInv(t) /\ TimerInv(t) /\ HeardInv(t) /\ InWords(t)
  BY <1>1, <1>5 DEF FreshInv, OneInv, TimerInv, HeardInv, InWords, Quiet
<1> QED
  BY <1>4, <1>5, <1>6, <1>7 DEF Sound
----------------------------------------------------------------------------
(* The steps.                                                              *)

\* What was spoken reaches up to the position.
SkipInv(s, start, spoken, before) ==
  s.status = "playing" => \A i \in DOMAIN s.queue : start <= i /\ i < s.index =>
    \/ s.queue[i] \in spoken \cup Silent
    \/ i = start /\ \E item \in spoken \cap before : item.id = s.queue[i].id

EInv == Sound(engine) /\ from \in Nat /\ WordsInv(engine, from, old) /\ SkipInv(engine, from, heard, old)
StepOK == EInv' /\ AfterGap(engine, engine')

\* Silence needs no gap.
LEMMA QuietGap ==
  ASSUME NEW s, NEW t, Quiet(t) \/ t.synth = s.synth
  PROVE  AfterGap(s, t)
  BY DEF AfterGap, Alive, Quiet

\* A state that is not playing has skipped nothing, nor has one that starts at its own position.
LEMMA SkipFacts ==
  ASSUME NEW t, Sound(t), NEW start \in Nat, NEW spoken, NEW before
  PROVE  /\ t.status # "playing" => SkipInv(t, start, spoken, before)
         /\ start = t.index => SkipInv(t, start, spoken, before)
<1>1. t.index \in Nat /\ \A i \in DOMAIN t.queue : i \in Nat
  BY PageFacts DEF Sound, Engines
<1> QED
  BY <1>1 DEF SkipInv

\* The same position on the same page.
LEMMA SkipKept ==
  ASSUME NEW s, NEW t, NEW start, NEW spoken, NEW before, NEW more, SkipInv(s, start, spoken, before), spoken \subseteq more,
         t.queue = s.queue, t.index = s.index, s.status = "playing"
  PROVE  SkipInv(t, start, more, before)
  BY DEF SkipInv

\* What is said in other words than the list's is remembered as replaced.
LEMMA ReplacedFacts ==
  ASSUME NEW t, Sound(t)
  PROVE  WordsInv(t, t.index, Replaced(t))
<1> SUFFICES ASSUME NEW u \in t.synth, u.fresh, u.kind = "queue", u.item # t.queue[t.index]
             PROVE  u.item \in Replaced(t)
  BY DEF WordsInv
<1>1. u \in Alive(t)
  BY DEF Sound, FreshInv, Alive
<1>2. t.status = "playing" /\ t.index \in DOMAIN t.queue
  <2>1. t.status = "playing"
    BY DEF Sound, HeardInv
  <2> QED
    BY <2>1, PageFacts DEF Sound, Placed, Engines
<1>3. u.item \in Voices(t)
  BY <1>1 DEF Voices
<1> QED
  BY <1>2, <1>3 DEF Replaced, ItemAt

\* The same voices at the same place of the same list.
LEMMA WordsKept ==
  ASSUME NEW s, NEW t, NEW start, NEW before, WordsInv(s, start, before),
         t.synth \subseteq s.synth, t.queue = s.queue, t.index = s.index
  PROVE  WordsInv(t, start, before)
  BY DEF WordsInv

LEMMA SetQueueStep ==
  ASSUME EInv, NEW q \in Queues, NEW start \in Starts(q), SetQueue(q, start)
  PROVE  StepOK
<1> DEFINE found == {i \in DOMAIN q : engine.status # "idle" /\ q[i].id = ItemAt(engine, engine.index).id}
           halted == IF engine.status # "idle" THEN Halt(engine, "idle") ELSE engine
           e == [engine EXCEPT !.queue = q, !.index = FirstOf(found)]
           f == [halted EXCEPT !.queue = q, !.index = start]
<1>1. /\ engine' = IF found # {} THEN Patch(e) ELSE Patch(f)
      /\ from' = engine'.index /\ heard' = {} /\ old' = Replaced(engine')
  BY DEF SetQueue, Restart
<1>2. engine \in Engines /\ Sound(engine) /\ Placed(engine)
  BY DEF EInv, Sound
<1>3. DOMAIN q \subseteq Nat \ {0} /\ Starts(q) \subseteq Nat \ {0} /\ (q # <<>> => Starts(q) = DOMAIN q)
  BY PageFacts
<1>4. CASE found # {}
  <2>1. FirstOf(found) \in found
    BY <1>3, <1>4, FirstOfLeast
  <2> DEFINE k == FirstOf(found)
  <2>2. k \in DOMAIN q /\ k \in Nat \ {0} /\ q[k].id = ItemAt(engine, engine.index).id /\ engine.status # "idle"
    BY <1>3, <2>1
  <2>3. /\ e \in Engines /\ e.queue = q /\ e.index = k /\ e.status = engine.status /\ e.timer = engine.timer /\ e.synth = engine.synth
        /\ e.recent = engine.recent
    BY <1>2, <2>2 DEF Engines
  <2>4. engine' = Patch(e)
    BY <1>1, <1>4
  <2> HIDE DEF e, k, found
  <2>5. /\ engine' \in Engines /\ engine'.queue = q /\ engine'.index = k /\ engine'.status = engine.status /\ engine'.timer = engine.timer
        /\ engine'.synth = engine.synth /\ engine'.recent = engine.recent /\ engine'.shown = q[k].id
    BY <2>2, <2>3, <2>4, PatchFacts DEF ItemAt
  <2>6. q # <<>> /\ k \in Starts(q)
    BY <1>3, <2>2, PageFacts
  <2>7. Placed(engine')
    BY <2>5, <2>6 DEF Placed
  <2>8. engine.status = "playing" => engine.index \in DOMAIN engine.queue
    BY <1>2, PageFacts DEF Placed, Engines
  <2>9. FreshInv(engine') /\ OneInv(engine') /\ TimerInv(engine')
    BY <1>2, <2>5 DEF Sound, FreshInv, OneInv, TimerInv, Quiet
  <2>10. HeardInv(engine')
    BY <1>2, <2>2, <2>5, <2>8 DEF Sound, HeardInv, ItemAt
  <2>11. Sound(engine')
    BY <2>5, <2>7, <2>9, <2>10 DEF Sound
  <2>12. AfterGap(engine, engine')
    BY <2>5, QuietGap
  <2> QED
    BY <1>1, <2>2, <2>5, <2>11, <2>12, SkipFacts, ReplacedFacts DEF StepOK, EInv
<1>5. CASE found = {}
  <2>1. /\ halted \in Engines /\ Placed(halted) /\ halted.status = "idle" /\ Sound(halted)
        /\ Quiet(halted) \/ halted.synth = engine.synth
    <3>1. CASE engine.status # "idle"
      BY <1>2, <3>1, HaltFacts DEF Sound
    <3>2. CASE engine.status = "idle"
      BY <1>2, <3>2
    <3> QED
      BY <3>1, <3>2
  <2> HIDE DEF halted
  <2>2. start \in Nat \ {0}
    BY <1>3
  <2>3. /\ f \in Engines /\ f.queue = q /\ f.index = start /\ f.status = "idle" /\ f.timer = halted.timer /\ f.synth = halted.synth
        /\ f.recent = halted.recent
    BY <2>1, <2>2 DEF Engines
  <2>4. engine' = Patch(f)
    BY <1>1, <1>5
  <2> HIDE DEF f
  <2>5. /\ engine' \in Engines /\ engine'.queue = q /\ engine'.index = start /\ engine'.status = "idle" /\ engine'.timer = halted.timer
        /\ engine'.synth = halted.synth /\ engine'.recent = halted.recent
    BY <2>3, <2>4, PatchFacts
  <2>6. Placed(engine')
    BY <2>5 DEF Placed
  <2>7. FreshInv(engine') /\ OneInv(engine') /\ TimerInv(engine')
    BY <2>1, <2>5 DEF Sound, FreshInv, OneInv, TimerInv, Quiet
  <2>8. HeardInv(engine')
    BY <2>1, <2>5 DEF Sound, HeardInv
  <2>9. Sound(engine')
    BY <2>5, <2>6, <2>7, <2>8 DEF Sound
  <2>10. AfterGap(engine, engine')
    BY <2>1, <2>5, QuietGap DEF Quiet
  <2> QED
    BY <1>1, <2>2, <2>5, <2>9, <2>10, SkipFacts, ReplacedFacts DEF StepOK, EInv
<1> QED
  BY <1>4, <1>5

\* Fewer voices in the same place.
LEMMA FewerVoices ==
  ASSUME NEW s, Sound(s), NEW t \in Engines, t.synth \subseteq s.synth, t.queue = s.queue, t.index = s.index,
         t.status = s.status, t.shown = s.shown, t.timer = s.timer, t.recent = s.recent
  PROVE  Sound(t) /\ AfterGap(s, t)
<1>1. Placed(t) /\ FreshInv(t) /\ OneInv(t) /\ HeardInv(t)
  BY DEF Sound, Placed, FreshInv, OneInv, HeardInv
<1>2. TimerInv(t)
  BY DEF Sound, TimerInv, Quiet
<1>3. AfterGap(s, t)
  BY DEF AfterGap, Alive
<1> QED
  BY <1>1, <1>2, <1>3 DEF Sound

\* No new voice, or one that comes when the gap has passed.
LEMMA GapFacts ==
  ASSUME NEW s, NEW t, Quiet(t) \/ (~s.recent /\ ~t.recent)
  PROVE  AfterGap(s, t)
  BY DEF AfterGap, Alive, Quiet

\* Reading on from the position.
LEMMA SkipAdvance ==
  ASSUME NEW s, Sound(s), NEW t, t.queue = s.queue, Advance(s, t), NEW start \in Nat, NEW spoken, NEW before,
         SkipInv(s, start, spoken, before), s.status = "playing"
  PROVE  SkipInv(t, start, spoken, before)
<1>1. s.index \in Nat /\ \A i \in DOMAIN s.queue : i \in Nat
  BY PageFacts DEF Sound, Engines
<1> QED
  BY <1>1 DEF SkipInv, Advance

\* cancel(), where something is said or was asked for.
LEMMA SilencedFacts ==
  ASSUME NEW s, Sound(s), NEW t, t = IF s.once \/ Alive(s) # {} THEN CancelSynth(s) ELSE s
  PROVE  t \in Engines /\ Same(s, t) /\ Cancelled(t) /\ t.timer = s.timer /\ (~t.recent => ~s.recent)
<1>1. s \in Engines
  BY DEF Sound
<1>2. CASE s.once \/ Alive(s) # {}
  BY <1>1, <1>2, CancelFacts
<1>3. CASE ~(s.once \/ Alive(s) # {})
  BY <1>1, <1>3 DEF Same, Cancelled, Alive
<1> QED
  BY <1>2, <1>3

LEMMA PlayStep ==
  ASSUME EInv, Play
  PROVE  StepOK
<1> DEFINE s == IF engine.once \/ Alive(engine) # {} THEN CancelSynth(engine) ELSE engine
           e == [s EXCEPT !.retries = 0, !.once = FALSE, !.status = "playing"]
           p == Patch(e)
<1>1. engine \in Engines /\ Sound(engine) /\ Placed(engine)
  BY DEF EInv, Sound
<1>2. engine.queue # <<>> /\ engine' = Schedule(p, FALSE) /\ from' = engine.index /\ heard' = {} /\ old' = {}
  BY DEF Play, Restart
<1>3. s \in Engines /\ Same(engine, s) /\ Cancelled(s) /\ s.timer = engine.timer /\ (~s.recent => ~engine.recent)
  BY <1>1, SilencedFacts
<1> HIDE DEF s
<1>4. e \in Engines /\ e.queue = s.queue /\ e.index = s.index /\ e.status = "playing" /\ e.recent = s.recent /\ e.synth = s.synth
  <2>1. 0 \in 0 .. MaxStartRetries
    BY DEF MaxStartRetries
  <2> QED
    BY <1>3, <2>1 DEF Engines
<1> HIDE DEF e
<1>5. p \in Engines /\ p.queue = e.queue /\ p.index = e.index /\ p.status = "playing" /\ p.recent = e.recent /\ p.synth = e.synth
  BY <1>4, PatchFacts
<1> HIDE DEF p
<1>6. Placed(p) /\ Cancelled(p)
  BY <1>1, <1>2, <1>3, <1>4, <1>5 DEF Placed, Cancelled, Same
<1>7. /\ Sound(engine') /\ InWords(engine') /\ engine'.recent = p.recent /\ Advance(p, engine') /\ engine'.queue = p.queue
      /\ p.recent => Quiet(engine')
  BY <1>2, <1>5, <1>6, ScheduleSoonFacts
<1>8. AfterGap(engine, engine')
  <2>1. Quiet(engine') \/ (~engine.recent /\ ~engine'.recent)
    BY <1>3, <1>4, <1>5, <1>7
  <2> QED
    BY <2>1, GapFacts
<1>9. engine.index \in Nat
  BY <1>1 DEF Engines
<1>10. SkipInv(engine', from', heard', old')
  BY <1>2, <1>3, <1>4, <1>5, <1>7 DEF SkipInv, Advance, Same
<1> QED
  BY <1>2, <1>7, <1>8, <1>9, <1>10, WordsFacts DEF StepOK, EInv

\* Halted, nothing is read and nothing is skipped.
LEMMA HaltStep ==
  ASSUME EInv, NEW s \in Engines, Placed(s), NEW status \in {"idle", "paused"}, engine' = Halt(s, status), from' = from, old' = old
  PROVE  StepOK
<1>1. Sound(engine') /\ Quiet(engine') /\ engine'.status # "playing"
  BY HaltFacts
<1>2. AfterGap(engine, engine')
  BY <1>1, GapFacts
<1>3. SkipInv(engine', from', heard', old')
  BY <1>1 DEF SkipInv
<1> QED
  BY <1>1, <1>2, <1>3, WordsFacts DEF StepOK, EInv

LEMMA MoveStep ==
  ASSUME EInv, NEW i \in Positions(engine), Move(i)
  PROVE  StepOK
<1>1. Sound(engine) /\ i \in DOMAIN engine.queue /\ engine' = MoveTo(engine, i) /\ from' = i /\ old' = {}
  BY DEF Move, Restart, EInv, Positions
<1>2. Sound(engine') /\ InWords(engine') /\ engine'.index = i /\ (Quiet(engine') \/ engine'.synth = engine.synth)
  BY <1>1, MoveToFacts
<1>3. AfterGap(engine, engine')
  BY <1>2, QuietGap
<1>4. i \in Nat
  BY <1>2 DEF Sound, Engines
<1>5. SkipInv(engine', from', heard', old')
  BY <1>1, <1>2, <1>4, SkipFacts
<1> QED
  BY <1>1, <1>2, <1>3, <1>4, <1>5, WordsFacts DEF StepOK, EInv

LEMMA SpeakOnceStep ==
  ASSUME EInv, SpeakOnce
  PROVE  StepOK
<1> DEFINE s == IF Playing THEN Halt(engine, "paused")
                ELSE IF engine.once \/ Alive(engine) # {} THEN CancelSynth(engine) ELSE engine
           c == ClearTimers(s)
           t == Bump(c)
           timer == [of |-> "once", fresh |-> TRUE, owes |-> TRUE]
<1>1. engine \in Engines /\ Sound(engine) /\ Placed(engine)
  BY DEF EInv, Sound
<1>2. engine' = (IF t.recent THEN [t EXCEPT !.timer = timer] ELSE SayOnce(t)) /\ from' = from /\ old' = old
  BY DEF SpeakOnce
<1>3. s \in Engines /\ Cancelled(s) /\ s.queue = engine.queue /\ s.index = engine.index /\ s.status # "playing" /\ (~s.recent => ~engine.recent)
  <2>1. CASE Playing
    BY <1>1, <2>1, HaltFacts DEF Sound, Quiet, Cancelled
  <2>2. CASE ~Playing
    BY <1>1, <2>2, SilencedFacts DEF Playing, Same
  <2> QED
    BY <2>1, <2>2
<1> HIDE DEF s
<1>4. c \in Engines /\ Same(s, c) /\ c.recent = s.recent /\ Cancelled(c)
  BY <1>3, ClearFacts DEF Cancelled
<1> HIDE DEF c
<1>5. t \in Engines /\ Same(c, t) /\ t.recent = c.recent /\ ~t.timer.fresh /\ Quiet(t)
  BY <1>4, BumpFacts
<1> HIDE DEF t
<1>6. Placed(t) /\ t.status # "playing"
  BY <1>1, <1>3, <1>4, <1>5 DEF Placed, Same
<1>7. CASE t.recent
  <2>1. timer \in TimerStates /\ timer.fresh /\ timer.owes
    BY DEF TimerStates
  <2> HIDE DEF timer
  <2>2. engine' = [t EXCEPT !.timer = timer]
    BY <1>2, <1>7
  <2>3. engine' \in Engines
    BY <1>5, <2>1, <2>2 DEF Engines
  <2>4. /\ engine'.queue = t.queue /\ engine'.index = t.index /\ engine'.status = t.status /\ engine'.timer = timer
        /\ engine'.synth = t.synth
    BY <1>5, <2>2 DEF Engines
  <2>5. Quiet(engine') /\ Placed(engine')
    BY <1>5, <1>6, <2>4 DEF Quiet, Placed
  <2>6. Sound(engine')
    BY <2>1, <2>3, <2>4, <2>5 DEF Sound, Quiet, FreshInv, OneInv, TimerInv, HeardInv
  <2> QED
    BY <1>2, <1>6, <2>4, <2>5, <2>6, GapFacts, WordsFacts DEF StepOK, EInv, SkipInv
<1>8. CASE ~t.recent
  <2>1. engine' = SayOnce(t)
    BY <1>2, <1>8
  <2>2. Sound(engine') /\ InWords(engine') /\ engine'.status = t.status /\ ~engine'.recent
    BY <1>5, <1>6, <1>8, <2>1, SayOnceFacts
  <2>3. AfterGap(engine, engine')
    BY <1>3, <1>4, <1>5, <1>8, <2>2, GapFacts
  <2> QED
    BY <1>2, <1>6, <2>2, <2>3, WordsFacts DEF StepOK, EInv, SkipInv
<1> QED
  BY <1>7, <1>8

LEMMA HideStep ==
  ASSUME EInv, Hide
  PROVE  StepOK
<1>1. engine \in Engines /\ Placed(engine)
  BY DEF EInv, Sound
<1>2. CASE Playing
  <2>1. engine' = Halt(engine, "paused") /\ from' = from /\ old' = old
    BY <1>2 DEF Hide
  <2> QED
    BY <1>1, <2>1, HaltStep
<1>3. CASE ~Playing
  <2> DEFINE b == Bump(engine)
             c == CancelSynth(b)
  <2>1. engine' = [c EXCEPT !.once = FALSE] /\ from' = from /\ old' = old
    BY <1>3 DEF Hide
  <2>2. b \in Engines /\ Same(engine, b) /\ ~b.timer.fresh /\ \A u \in b.synth : ~u.fresh
    BY <1>1, BumpFacts
  <2> HIDE DEF b
  <2>3. c \in Engines /\ Same(b, c) /\ c.timer = b.timer /\ Quiet(c)
    BY <2>2, CancelFacts
  <2> HIDE DEF c
  <2>4. /\ engine' \in Engines /\ engine'.queue = c.queue /\ engine'.index = c.index /\ engine'.status = c.status
        /\ engine'.timer = c.timer /\ engine'.synth = c.synth
    BY <2>1, <2>3 DEF Engines
  <2>5. Placed(engine') /\ Quiet(engine') /\ ~engine'.timer.fresh /\ engine'.status # "playing"
    BY <1>1, <1>3, <2>2, <2>3, <2>4 DEF Placed, Quiet, Same, Playing
  <2>6. Sound(engine')
    BY <2>4, <2>5, QuietSound
  <2> QED
    BY <2>1, <2>5, <2>6, GapFacts, WordsFacts DEF StepOK, EInv, SkipInv
<1> QED
  BY <1>2, <1>3

LEMMA GapPassesStep ==
  ASSUME EInv, GapPasses
  PROVE  StepOK
<1> DEFINE timer == [engine.timer EXCEPT !.owes = FALSE]
<1>1. Sound(engine) /\ engine \in Engines
  BY DEF EInv, Sound
<1>2. engine.timer \in TimerStates
  BY <1>1 DEF Engines
<1>3. timer \in TimerStates /\ timer.fresh = engine.timer.fresh
  BY <1>2 DEF TimerStates
<1>4. engine' = [engine EXCEPT !.recent = FALSE, !.timer = timer] /\ from' = from /\ heard' = heard /\ old' = old
  BY <1>1 DEF GapPasses, Follows, Engines
<1> HIDE DEF timer
<1>5. engine' \in Engines
  BY <1>1, <1>3, <1>4 DEF Engines
<1>6. /\ engine'.queue = engine.queue /\ engine'.index = engine.index /\ engine'.status = engine.status /\ engine'.shown = engine.shown
      /\ engine'.synth = engine.synth /\ engine'.timer = timer /\ ~engine'.recent
  BY <1>1, <1>4 DEF Engines
<1>7. Placed(engine') /\ FreshInv(engine') /\ OneInv(engine') /\ HeardInv(engine')
  BY <1>1, <1>6 DEF Sound, Placed, FreshInv, OneInv, HeardInv
<1>8. TimerInv(engine')
  BY <1>1, <1>3, <1>6 DEF Sound, TimerInv, Quiet
<1>9. AfterGap(engine, engine')
  BY <1>6, QuietGap
<1> QED
  BY <1>4, <1>5, <1>6, <1>7, <1>8, <1>9, WordsKept DEF StepOK, EInv, Sound, SkipInv

\* The timer is gone; nothing else changes.
LEMMA NoTimerFacts ==
  ASSUME NEW s, Sound(s), NEW t, t = [s EXCEPT !.timer = NoTimer]
  PROVE  /\ t \in Engines /\ Same(s, t) /\ t.synth = s.synth /\ t.recent = s.recent /\ t.timer = NoTimer /\ ~t.timer.fresh
         /\ Placed(t) /\ Sound(t)
<1>1. s \in Engines /\ NoTimer \in TimerStates /\ ~NoTimer.fresh
  BY DEF Sound, NoTimer, TimerStates
<1>2. t \in Engines
  BY <1>1 DEF Engines
<1>3. Same(s, t) /\ t.synth = s.synth /\ t.recent = s.recent /\ t.timer = NoTimer
  BY <1>1 DEF Engines, Same
<1>4. Placed(t) /\ FreshInv(t) /\ OneInv(t) /\ TimerInv(t) /\ HeardInv(t)
  BY <1>1, <1>3 DEF Sound, Same, Placed, FreshInv, OneInv, TimerInv, HeardInv
<1> QED
  BY <1>1, <1>2, <1>3, <1>4 DEF Sound

LEMMA TimerFiresStep ==
  ASSUME EInv, TimerFires
  PROVE  StepOK
<1> DEFINE s == [engine EXCEPT !.timer = NoTimer]
<1>1. /\ engine' = (IF ~engine.timer.fresh THEN s ELSE IF engine.timer.of = "once" THEN SayOnce(s)
                    ELSE IF s.status = "playing" THEN SpeakNow(s) ELSE s)
      /\ ~engine.timer.owes /\ from' = from /\ heard' = heard /\ old' = old
  BY DEF TimerFires, Follows
<1>2. Sound(engine)
  BY DEF EInv
<1>3. /\ s \in Engines /\ Same(engine, s) /\ s.synth = engine.synth /\ s.recent = engine.recent /\ ~s.timer.fresh
      /\ Placed(s) /\ Sound(s)
  BY <1>2, NoTimerFacts
<1>4. engine.timer.fresh => Quiet(s) /\ ~s.recent
  BY <1>1, <1>2, <1>3 DEF Sound, TimerInv, Quiet
<1> HIDE DEF s
<1>5. SkipInv(s, from, heard, old) /\ WordsInv(s, from, old)
  BY <1>3, WordsKept DEF EInv, SkipInv, Same
<1>6. CASE engine' = s
  BY <1>1, <1>3, <1>5, <1>6, QuietGap DEF StepOK, EInv
<1>7. CASE engine.timer.fresh /\ engine' = SayOnce(s)
  <2>1. Sound(engine') /\ InWords(engine') /\ engine'.queue = s.queue /\ engine'.index = s.index /\ engine'.status = s.status /\ engine'.recent = s.recent
    BY <1>3, <1>4, <1>7, SayOnceFacts
  <2>2. AfterGap(engine, engine')
    BY <1>3, <1>4, <1>7, <2>1, GapFacts
  <2> QED
    BY <1>1, <1>5, <2>1, <2>2, WordsFacts DEF StepOK, EInv, SkipInv
<1>8. CASE engine.timer.fresh /\ s.status = "playing" /\ engine' = SpeakNow(s)
  <2>1. Sound(engine') /\ InWords(engine') /\ engine'.queue = s.queue /\ engine'.recent = s.recent /\ Advance(s, engine')
    BY <1>3, <1>4, <1>8, SpeakNowFacts
  <2>2. AfterGap(engine, engine')
    BY <1>3, <1>4, <1>8, <2>1, GapFacts
  <2>3. SkipInv(engine', from, heard, old)
    BY <1>3, <1>5, <1>8, <2>1, SkipAdvance DEF EInv
  <2> QED
    BY <1>1, <2>1, <2>2, <2>3, WordsFacts DEF StepOK, EInv
<1> QED
  BY <1>1, <1>6, <1>7, <1>8

\* Retried or given up at the same place.
LEMMA RetryStep ==
  ASSUME EInv, NEW s \in Engines, Placed(s), s.status = "playing", engine' = RetryOrFail(s), from' = from, old' = old,
         NEW spoken, SkipInv(s, from, spoken, old), spoken \subseteq heard'
  PROVE  StepOK
<1>1. Sound(engine') /\ Quiet(engine') /\ engine'.queue = s.queue /\ engine'.index = s.index
  BY RetryFacts
<1>2. AfterGap(engine, engine')
  BY <1>1, GapFacts
<1>3. SkipInv(engine', from, heard', old)
  BY <1>1, SkipKept
<1> QED
  BY <1>1, <1>2, <1>3, WordsFacts DEF StepOK, EInv

LEMMA SpeakThrowsStep ==
  ASSUME EInv, SpeakThrows
  PROVE  StepOK
<1> DEFINE i == FirstOf(Audible(engine))
           s == [engine EXCEPT !.timer = NoTimer, !.index = i]
<1>1. /\ engine' = RetryOrFail(s) /\ engine.status = "playing" /\ Audible(engine) # {} /\ from' = from /\ heard' = heard /\ old' = old
  BY DEF SpeakThrows, Follows, Playing
<1>2. engine \in Engines /\ Placed(engine) /\ SkipInv(engine, from, heard, old) /\ from \in Nat
  BY DEF EInv, Sound
<1>3. /\ engine.queue # <<>> /\ Starts(engine.queue) = DOMAIN engine.queue /\ DOMAIN engine.queue \subseteq Nat \ {0} /\ engine.index \in Nat
  BY <1>1, <1>2, PageFacts DEF Engines, Placed
<1>4. i \in Audible(engine) /\ \A j \in Audible(engine) : i <= j
  <2>1. Audible(engine) \subseteq Nat
    BY <1>3 DEF Audible
  <2> QED
    BY <1>1, <2>1, FirstOfLeast
<1> HIDE DEF i
<1>5. i \in DOMAIN engine.queue /\ i \in Nat \ {0} /\ \A j \in DOMAIN engine.queue : engine.index <= j /\ j < i => engine.queue[j] \in Silent
  BY <1>3, <1>4 DEF Audible
<1>6. NoTimer \in TimerStates
  BY DEF NoTimer, TimerStates
<1>7. s \in Engines /\ s.queue = engine.queue /\ s.index = i /\ s.status = engine.status
  BY <1>2, <1>5, <1>6 DEF Engines
<1> HIDE DEF s
<1>8. Placed(s)
  BY <1>3, <1>5, <1>7 DEF Placed
<1>9. SkipInv(s, from, heard, old)
  BY <1>1, <1>2, <1>3, <1>5, <1>7 DEF SkipInv
<1> QED
  BY <1>1, <1>7, <1>8, <1>9, RetryStep

LEMMA OnStartStep ==
  ASSUME EInv, NEW u \in engine.synth, OnStart(u)
  PROVE  StepOK
<1> DEFINE w == [u EXCEPT !.phase = "started"]
           b == [engine EXCEPT !.synth = (@ \ {u}) \cup {w}]
           e == [b EXCEPT !.dog = "off", !.retries = 0, !.shown = u.item.id]
<1>1. Sound(engine) /\ engine \in Engines /\ u \in Utterances
  BY DEF EInv, Sound, Engines
<1>2. /\ engine' = (IF u.kind = "queue" /\ u.fresh THEN e ELSE b) /\ u.phase = "pending"
      /\ from' = from /\ heard' = heard /\ old' = old
  BY DEF OnStart, Follows, Begin, Fresh
<1>3. w \in Utterances /\ w.kind = u.kind /\ w.item = u.item /\ w.fresh = u.fresh /\ w.phase = "started"
  BY <1>1 DEF Utterances
<1> HIDE DEF w
<1>4. u.fresh
  BY <1>1, <1>2 DEF Sound, FreshInv
<1>5. ~engine.timer.fresh
  BY <1>1, <1>4 DEF Sound, TimerInv, Quiet
<1>6. (engine.synth \ {u}) \cup {w} \in SUBSET Utterances
  BY <1>1, <1>3 DEF Engines
<1>7. /\ b \in Engines /\ Same(engine, b) /\ b.timer = engine.timer /\ b.recent = engine.recent
      /\ b.synth = (engine.synth \ {u}) \cup {w}
  BY <1>1, <1>6 DEF Engines, Same
<1> HIDE DEF b
<1>8. /\ e \in Engines /\ e.queue = b.queue /\ e.index = b.index /\ e.status = b.status /\ e.shown = u.item.id /\ e.timer = b.timer
      /\ e.recent = b.recent /\ e.synth = b.synth
  <2>1. 0 \in 0 .. MaxStartRetries
    BY DEF MaxStartRetries
  <2>2. u.item.id \in Ids
    BY <1>1 DEF Utterances, Ids
  <2> QED
    BY <1>7, <2>1, <2>2 DEF Engines
<1> HIDE DEF e
<1>9. /\ engine' \in Engines /\ engine'.queue = engine.queue /\ engine'.index = engine.index /\ engine'.status = engine.status
      /\ engine'.timer = engine.timer /\ engine'.recent = engine.recent /\ engine'.synth = (engine.synth \ {u}) \cup {w}
  BY <1>2, <1>7, <1>8 DEF Same
<1>10. u.kind = "queue" => engine'.shown = u.item.id
  BY <1>2, <1>4, <1>8
<1>11. Placed(engine') /\ TimerInv(engine')
  BY <1>1, <1>5, <1>9 DEF Sound, Placed, TimerInv
<1>12. FreshInv(engine') /\ OneInv(engine')
  BY <1>1, <1>3, <1>4, <1>9 DEF Sound, FreshInv, OneInv
<1>13. HeardInv(engine')
  <2> SUFFICES ASSUME NEW v \in engine'.synth, v.fresh, v.kind = "queue"
               PROVE  engine'.status = "playing" /\ v.item.id = engine'.queue[engine'.index].id /\ (v.phase = "started" => v.item.id = engine'.shown)
    BY DEF HeardInv
  <2>1. v = w
    BY <1>1, <1>3, <1>4, <1>9, <1>12 DEF OneInv
  <2>2. engine.status = "playing" /\ u.item.id = engine.queue[engine.index].id
    BY <1>1, <1>3, <1>4, <2>1 DEF Sound, HeardInv
  <2> QED
    BY <1>3, <1>9, <1>10, <2>1, <2>2
<1>14. AfterGap(engine, engine')
  BY <1>3, <1>9 DEF AfterGap, Alive
<1>15. Sound(engine')
  BY <1>9, <1>11, <1>12, <1>13 DEF Sound
<1>16. WordsInv(engine', from, old)
  BY <1>3, <1>9 DEF EInv, WordsInv
<1> QED
  BY <1>2, <1>9, <1>14, <1>15, <1>16 DEF StepOK, EInv, SkipInv

\* An utterance that the synthesiser no longer has.
LEMMA WithoutFacts ==
  ASSUME NEW u, NEW t, Sound(engine), t = Without(u)
  PROVE  /\ t \in Engines /\ Same(engine, t) /\ t.timer = engine.timer /\ t.recent = engine.recent
         /\ t.synth = engine.synth \ {u} /\ Sound(t) /\ AfterGap(engine, t)
<1>1. engine \in Engines /\ t = [engine EXCEPT !.synth = @ \ {u}]
  BY DEF Sound, Without
<1>2. t \in Engines
  BY <1>1 DEF Engines
<1>3. Same(engine, t) /\ t.timer = engine.timer /\ t.recent = engine.recent /\ t.synth = engine.synth \ {u}
  BY <1>1 DEF Engines, Same
<1> QED
  BY <1>2, <1>3, FewerVoices DEF Same

\* Fewer voices in the same place, and the position where it was.
LEMMA FewerStep ==
  ASSUME EInv, engine' \in Engines, engine'.synth \subseteq engine.synth, engine'.queue = engine.queue, engine'.index = engine.index,
         engine'.status = engine.status, engine'.shown = engine.shown, engine'.timer = engine.timer, engine'.recent = engine.recent,
         from' = from, old' = old, heard \subseteq heard'
  PROVE  StepOK
<1>1. Sound(engine') /\ AfterGap(engine, engine')
  BY FewerVoices DEF EInv
<1>2. SkipInv(engine', from', heard', old') /\ WordsInv(engine', from', old')
  BY WordsKept DEF EInv, SkipInv
<1> QED
  BY <1>1, <1>2 DEF StepOK, EInv

LEMMA OnEndStep ==
  ASSUME EInv, NEW u \in engine.synth, OnEnd(u)
  PROVE  StepOK
<1> DEFINE w == Without(u)
           s == [w EXCEPT !.dog = "off"]
<1>1. Sound(engine) /\ SkipInv(engine, from, heard, old) /\ from \in Nat
  BY DEF EInv
<1>2. /\ w \in Engines /\ Same(engine, w) /\ w.timer = engine.timer /\ w.recent = engine.recent /\ w.synth = engine.synth \ {u}
  BY <1>1, WithoutFacts
<1>3. PICK pause \in BOOLEAN :
        engine' = IF ~Fresh(u) THEN w
                  ELSE IF u.kind = "once" THEN [w EXCEPT !.once = FALSE]
                  ELSE IF HasNext(engine) THEN Schedule([s EXCEPT !.index = @ + 1], pause)
                  ELSE Finish(s)
  BY DEF OnEnd
<1>4. /\ u.phase \in {"started", "cancelled"} /\ from' = from /\ old' = old
      /\ heard' = IF u.kind = "queue" /\ u.phase = "started" THEN heard \cup {u.item} ELSE heard
  BY DEF OnEnd, Follows
<1>5. heard \subseteq heard'
  BY <1>4
<1> HIDE DEF w
<1>6. CASE engine' = w
  BY <1>2, <1>4, <1>5, <1>6, FewerStep DEF Same
<1>7. CASE engine' = [w EXCEPT !.once = FALSE]
  <2>1. /\ engine' \in Engines /\ engine'.queue = w.queue /\ engine'.index = w.index /\ engine'.status = w.status
        /\ engine'.shown = w.shown /\ engine'.timer = w.timer /\ engine'.synth = w.synth /\ engine'.recent = w.recent
    BY <1>2, <1>7 DEF Engines
  <2> QED
    BY <1>2, <1>4, <1>5, <2>1, FewerStep DEF Same
<1>8. CASE Fresh(u) /\ u.kind # "once"
  <2>1. u.kind = "queue" /\ u.fresh
    BY <1>1, <1>8 DEF Sound, Engines, Utterances, Fresh
  <2>2. u.phase = "started" /\ engine.status = "playing" /\ u.item.id = engine.queue[engine.index].id
    BY <1>1, <1>4, <2>1 DEF Sound, FreshInv, HeardInv
  <2>3. heard' = heard \cup {u.item} /\ (u.item = engine.queue[engine.index] \/ (u.item \in old /\ engine.index = from))
    BY <1>4, <2>1, <2>2 DEF EInv, WordsInv
  <2>4. engine.queue # <<>> /\ Starts(engine.queue) = DOMAIN engine.queue /\ DOMAIN engine.queue = 1 .. Len(engine.queue)
        /\ Len(engine.queue) \in Nat /\ engine.index \in DOMAIN engine.queue
    BY <1>1, <2>2, PageFacts DEF Sound, Placed, Engines
  <2>5. \A v \in engine.synth \ {u} : v.phase = "cancelled"
    BY <1>1, <2>1 DEF Sound, FreshInv, OneInv
  <2>6. /\ s \in Engines /\ s.queue = engine.queue /\ s.index = engine.index /\ s.status = "playing" /\ s.recent = engine.recent
        /\ s.synth = engine.synth \ {u}
    BY <1>2, <2>2 DEF Engines, Same
  <2> HIDE DEF s
  <2>7. CASE HasNext(engine)
    <3> DEFINE n == [s EXCEPT !.index = @ + 1]
    <3>1. engine.index + 1 \in Nat \ {0} /\ engine.index + 1 \in DOMAIN engine.queue /\ engine.index \in Nat
      BY <2>4, <2>7 DEF HasNext
    <3>2. n \in Engines /\ n.queue = engine.queue /\ n.index = engine.index + 1 /\ n.status = "playing" /\ n.recent = engine.recent
          /\ n.synth = s.synth
      BY <2>6, <3>1 DEF Engines
    <3>3. engine' = Schedule(n, pause)
      BY <1>3, <1>8, <2>7
    <3> HIDE DEF n
    <3>4. Placed(n) /\ Cancelled(n)
      BY <2>4, <2>5, <2>6, <3>1, <3>2 DEF Placed, Cancelled
    <3>5. /\ Sound(engine') /\ InWords(engine') /\ engine'.queue = n.queue /\ engine'.recent = n.recent /\ Advance(n, engine') /\ (n.recent => Quiet(engine'))
      BY <3>2, <3>3, <3>4, ScheduleFacts
    <3>6. AfterGap(engine, engine')
      BY <3>2, <3>5, GapFacts
    <3>7. SkipInv(engine', from, heard', old)
      <4> SUFFICES ASSUME engine'.status = "playing", NEW i \in DOMAIN engine'.queue, from <= i, i < engine'.index
                   PROVE  \/ engine'.queue[i] \in heard' \cup Silent
                          \/ i = from /\ \E item \in heard' \cap old : item.id = engine'.queue[i].id
        BY DEF SkipInv
      <4>1. i \in DOMAIN engine.queue /\ i \in Nat /\ engine'.queue = engine.queue
        BY <2>4, <3>2, <3>5
      <4>2. CASE i < engine.index
        BY <1>1, <2>2, <2>3, <4>1, <4>2 DEF SkipInv
      <4>3. CASE i = engine.index
        BY <2>2, <2>3, <4>1, <4>3
      <4>4. CASE engine.index + 1 <= i
        BY <3>2, <3>5, <4>1, <4>4 DEF Advance
      <4> QED
        BY <3>1, <4>1, <4>2, <4>3, <4>4
    <3> QED
      BY <1>1, <1>4, <3>5, <3>6, <3>7, WordsFacts DEF StepOK, EInv
  <2>8. CASE ~HasNext(engine)
    <3>1. engine' = Finish(s)
      BY <1>3, <1>8, <2>8
    <3>2. Placed(s) /\ Cancelled(s)
      BY <2>4, <2>5, <2>6 DEF Placed, Cancelled
    <3>3. Sound(engine') /\ Quiet(engine') /\ engine'.status = "idle"
      BY <2>6, <3>1, <3>2, FinishFacts
    <3> QED
      BY <1>1, <1>4, <3>3, GapFacts, WordsFacts DEF StepOK, EInv, SkipInv
  <2> QED
    BY <2>7, <2>8
<1> QED
  BY <1>3, <1>6, <1>7, <1>8

LEMMA OnErrorStep ==
  ASSUME EInv, NEW u \in engine.synth, OnError(u)
  PROVE  StepOK
<1> DEFINE w == Without(u)
           s == [w EXCEPT !.dog = "off"]
<1>1. Sound(engine) /\ SkipInv(engine, from, heard, old) /\ from \in Nat
  BY DEF EInv
<1>2. /\ w \in Engines /\ Same(engine, w) /\ w.timer = engine.timer /\ w.recent = engine.recent /\ w.synth = engine.synth \ {u}
      /\ Placed(w)
  BY <1>1, WithoutFacts DEF Sound
<1>3. PICK interrupted \in BOOLEAN :
        engine' = IF ~Fresh(u) THEN w
                  ELSE IF u.kind = "once" THEN [w EXCEPT !.once = FALSE]
                  ELSE IF interrupted THEN Halt(w, "paused") ELSE RetryOrFail(s)
  BY DEF OnError
<1>4. from' = from /\ heard' = heard /\ old' = old
  BY DEF OnError, Follows
<1> HIDE DEF w
<1>6. CASE engine' = w
  BY <1>2, <1>4, <1>6, FewerStep DEF Same
<1>7. CASE engine' = [w EXCEPT !.once = FALSE]
  <2>1. /\ engine' \in Engines /\ engine'.queue = w.queue /\ engine'.index = w.index /\ engine'.status = w.status
        /\ engine'.shown = w.shown /\ engine'.timer = w.timer /\ engine'.synth = w.synth /\ engine'.recent = w.recent
    BY <1>2, <1>7 DEF Engines
  <2> QED
    BY <1>2, <1>4, <2>1, FewerStep DEF Same
<1>8. CASE engine' = Halt(w, "paused")
  BY <1>2, <1>4, <1>8, HaltStep
<1>9. CASE Fresh(u) /\ u.kind # "once" /\ engine' = RetryOrFail(s)
  <2>1. u.kind = "queue" /\ u.fresh
    BY <1>1, <1>9 DEF Sound, Engines, Utterances, Fresh
  <2>2. engine.status = "playing"
    BY <1>1, <2>1 DEF Sound, HeardInv
  <2>3. s \in Engines /\ s.queue = engine.queue /\ s.index = engine.index /\ s.status = "playing"
    BY <1>2, <2>2 DEF Engines, Same
  <2> HIDE DEF s
  <2>4. Placed(s) /\ SkipInv(s, from, heard, old)
    BY <1>1, <1>2, <2>2, <2>3 DEF Placed, SkipInv, Same
  <2> QED
    BY <1>4, <1>9, <2>3, <2>4, RetryStep
<1> QED
  BY <1>3, <1>6, <1>7, <1>8, <1>9

LEMMA DroppedStep ==
  ASSUME EInv, NEW u \in engine.synth, Dropped(u)
  PROVE  StepOK
<1>1. engine' = Without(u) /\ from' = from /\ heard' = heard /\ old' = old
  BY DEF Dropped, Follows
<1>2. engine' \in Engines /\ Same(engine, engine') /\ engine'.timer = engine.timer /\ engine'.recent = engine.recent
      /\ engine'.synth = engine.synth \ {u}
  BY <1>1, WithoutFacts DEF EInv
<1> QED
  BY <1>1, <1>2, FewerStep DEF Same

LEMMA WatchdogStep ==
  ASSUME EInv, WatchdogFires
  PROVE  StepOK
<1> DEFINE s == [engine EXCEPT !.dog = "off"]
<1>1. engine' = (IF engine.dog = "fresh" /\ Playing THEN RetryOrFail(s) ELSE s) /\ from' = from /\ heard' = heard /\ old' = old
  BY DEF WatchdogFires, Follows
<1>2. engine \in Engines /\ Placed(engine) /\ SkipInv(engine, from, heard, old)
  BY DEF EInv, Sound
<1>3. /\ s \in Engines /\ Same(engine, s) /\ s.timer = engine.timer /\ s.recent = engine.recent /\ s.synth = engine.synth
  BY <1>2 DEF Engines, Same
<1> HIDE DEF s
<1>4. Placed(s) /\ SkipInv(s, from, heard, old)
  BY <1>2, <1>3 DEF Placed, SkipInv, Same
<1>5. CASE engine.status = "playing" /\ engine' = RetryOrFail(s)
  BY <1>1, <1>3, <1>4, <1>5, RetryStep DEF Same
<1>6. CASE engine' = s
  BY <1>1, <1>3, <1>6, FewerStep DEF Same
<1> QED
  BY <1>1, <1>5, <1>6 DEF Playing
----------------------------------------------------------------------------
(* The theorems.                                                           *)

LEMMA InitSound ==
  ASSUME Init
  PROVE  EInv
<1>1. PICK q \in Queues :
        engine = [queue |-> q, index |-> 1, status |-> "idle", shown |-> IF q = <<>> THEN NoItem.id ELSE q[1].id, timer |-> NoTimer,
                  dog |-> "off", retries |-> 0, once |-> FALSE, synth |-> {}, recent |-> FALSE]
  BY DEF Init
<1>2. from = 1 /\ heard = {} /\ old = {}
  BY DEF Init
<1>3. 1 \in Starts(q) /\ (q # <<>> => 1 \in DOMAIN q)
  <2>1. q # <<>> => 1 \in DOMAIN q
    BY PageFacts
  <2> QED
    BY <2>1 DEF Starts
<1> DEFINE item == IF q = <<>> THEN NoItem.id ELSE q[1].id
<1>4. item \in Ids
  <2>1. NoItem \in Items /\ (q # <<>> => q[1] \in Items)
    BY <1>3, PageFacts DEF Items
  <2> QED
    BY <2>1 DEF Ids
<1> HIDE DEF item
<1>5. engine \in Engines
  <2>1. NoTimer \in TimerStates /\ 0 \in 0 .. MaxStartRetries /\ {} \in SUBSET Utterances
    BY DEF NoTimer, TimerStates, MaxStartRetries
  <2> HIDE DEF item
  <2>2. engine = [queue |-> q, index |-> 1, status |-> "idle", shown |-> item, timer |-> NoTimer,
                  dog |-> "off", retries |-> 0, once |-> FALSE, synth |-> {}, recent |-> FALSE]
    BY <1>1 DEF item
  <2> QED
    BY <1>4, <2>1, <2>2 DEF Engines
<1>6. engine.queue = q /\ engine.index = 1 /\ engine.status = "idle" /\ engine.synth = {} /\ engine.timer = NoTimer
  BY <1>1
<1>7. Placed(engine) /\ Quiet(engine) /\ ~engine.timer.fresh
  BY <1>3, <1>6 DEF Placed, Quiet, NoTimer
<1> QED
  BY <1>2, <1>5, <1>6, <1>7, QuietSound, WordsFacts DEF EInv, SkipInv

LEMMA StepSound ==
  ASSUME EInv, [Next]_vars
  PROVE  EInv' /\ AfterGap(engine, engine')
<1>1. CASE Play
  BY <1>1, PlayStep DEF StepOK
<1>2. CASE Pause
  <2>1. engine' = Halt(engine, "paused") /\ from' = from /\ old' = old /\ engine \in Engines /\ Placed(engine)
    BY <1>2 DEF Pause, EInv, Sound
  <2> QED
    BY <2>1, HaltStep DEF StepOK
<1>3. CASE Stop
  <2>1. engine' = Halt(engine, "idle") /\ from' = from /\ old' = old /\ engine \in Engines /\ Placed(engine)
    BY <1>3 DEF Stop, EInv, Sound
  <2> QED
    BY <2>1, HaltStep DEF StepOK
<1>4. CASE SpeakOnce
  BY <1>4, SpeakOnceStep DEF StepOK
<1>5. CASE Hide
  BY <1>5, HideStep DEF StepOK
<1>6. CASE \E i \in Positions(engine) : Move(i)
  BY <1>6, MoveStep DEF StepOK
<1>7. CASE \E q \in Queues : \E start \in Starts(q) : SetQueue(q, start)
  BY <1>7, SetQueueStep DEF StepOK
<1>8. CASE GapPasses
  BY <1>8, GapPassesStep DEF StepOK
<1>9. CASE TimerFires
  BY <1>9, TimerFiresStep DEF StepOK
<1>10. CASE WatchdogFires
  BY <1>10, WatchdogStep DEF StepOK
<1>11. CASE Events
  <2>1. PICK u \in engine.synth : OnStart(u) \/ OnEnd(u) \/ OnError(u) \/ Dropped(u)
    BY <1>11 DEF Events
  <2> QED
    BY <2>1, OnStartStep, OnEndStep, OnErrorStep, DroppedStep DEF StepOK
<1>12. CASE SpeakThrows
  BY <1>12, SpeakThrowsStep DEF StepOK
<1>13. CASE WakeLockGranted \/ UNCHANGED vars
  BY <1>13 DEF WakeLockGranted, vars, EInv, AfterGap
<1> QED
  BY <1>1, <1>2, <1>3, <1>4, <1>5, <1>6, <1>7, <1>8, <1>9, <1>10, <1>11, <1>12, <1>13 DEF Next, Calls, Timers, Events

(***************************************************************************)
(* In every state the generation, the one voice, the timer and the         *)
(* sentence shown agree, and nothing before the position was left out.     *)
(***************************************************************************)
THEOREM EngineInv == Spec => []EInv
<1>1. Init => EInv
  BY InitSound
<1>2. EInv /\ [Next]_vars => EInv'
  BY StepSound
<1> QED
  BY <1>1, <1>2, PTL DEF Spec

(***************************************************************************)
(* OneVoice, for every page and every number of commands and failures:     *)
(* never two utterances that were not cancelled.                           *)
(***************************************************************************)
THEOREM OneVoiceCorrect == Spec => []OneVoice
<1>1. EInv => OneVoice
  <2> SUFFICES ASSUME EInv PROVE Cardinality(Alive(engine)) <= 1
    BY DEF OneVoice
  <2>1. \A u, v \in Alive(engine) : u = v
    BY DEF EInv, Sound, FreshInv, OneInv, Alive
  <2>2. CASE Alive(engine) = {}
    BY <2>2, FS_EmptySet
  <2>3. CASE Alive(engine) # {}
    <3>1. PICK u : u \in Alive(engine)
      BY <2>3
    <3>2. Alive(engine) = {u}
      BY <2>1, <3>1
    <3>3. Cardinality({u}) = 1
      BY FS_Singleton
    <3> QED
      BY <3>2, <3>3
  <2> QED
    BY <2>2, <2>3
<1> QED
  BY <1>1, EngineInv, PTL

(***************************************************************************)
(* ShownIsHeard: the place that is read is the one shown, in the words of  *)
(* the list, or in those that setQueue replaced while they were said.      *)
(***************************************************************************)
THEOREM ShownIsHeardCorrect == Spec => []ShownIsHeard
<1>1. EInv => ShownIsHeard
  BY DEF EInv, Sound, FreshInv, HeardInv, WordsInv, ShownIsHeard, Alive, Playing
<1> QED
  BY <1>1, EngineInv, PTL

(***************************************************************************)
(* NothingSkipped: every sentence between the last command and the         *)
(* position was spoken to its end, or has nothing to say.                  *)
(***************************************************************************)
THEOREM NothingSkippedCorrect == Spec => []NothingSkipped
<1>1. EInv => NothingSkipped
  BY DEF EInv, SkipInv, NothingSkipped, Playing, Positions
<1> QED
  BY <1>1, EngineInv, PTL

(***************************************************************************)
(* GapRespected: a new utterance never comes within the gap after a        *)
(* cancel(), whichever call or event asked for either of them.             *)
(***************************************************************************)
THEOREM GapRespectedCorrect == Spec => GapRespected
<1>1. EInv /\ [Next]_vars => [\A u \in Alive(engine)' \ Alive(engine) : u.phase = "pending" => ~engine.recent /\ ~engine'.recent]_vars
  BY StepSound DEF AfterGap, Alive
<1> QED
  BY <1>1, EngineInv, PTL DEF Spec, GapRespected

WakeType == wake \in [asked : BOOLEAN, stale : Nat, held : BOOLEAN]

LEMMA WakeFacts ==
  ASSUME WakeType, NEW w, w = DropWakeLock(wake) \/ w = HoldWakeLock(wake) \/ w = DropWakeLock(HoldWakeLock(wake))
  PROVE  /\ w \in [asked : BOOLEAN, stale : Nat, held : BOOLEAN]
         /\ w = DropWakeLock(wake) \/ w = DropWakeLock(HoldWakeLock(wake)) => ~w.held /\ ~w.asked
<1> DEFINE WakeSet == [asked : BOOLEAN, stale : Nat, held : BOOLEAN]
<1>1. \A v \in WakeSet : DropWakeLock(v) \in WakeSet /\ ~DropWakeLock(v).held /\ ~DropWakeLock(v).asked
  <2> SUFFICES ASSUME NEW v \in WakeSet
               PROVE  DropWakeLock(v) \in WakeSet /\ ~DropWakeLock(v).held /\ ~DropWakeLock(v).asked
    OBVIOUS
  <2>1. v.stale + (IF v.asked THEN 1 ELSE 0) \in Nat
    OBVIOUS
  <2> QED
    BY <2>1 DEF DropWakeLock
<1>2. HoldWakeLock(wake) \in WakeSet
  BY DEF WakeType, HoldWakeLock
<1> QED
  BY <1>1, <1>2 DEF WakeType

\* Calls, timers and events of the synthesiser; each of them keeps or drops the lock with the status.
LEMMA WakeStep ==
  ASSUME WakeType, LockOnlyWhilePlaying,
         \/ wake' = WakeAfter(engine')
         \/ wake' = DropWakeLock(wake)
         \/ wake' = IF engine'.status = "playing" THEN HoldWakeLock(wake) ELSE DropWakeLock(HoldWakeLock(wake))
  PROVE  WakeType' /\ LockOnlyWhilePlaying'
<1>1. CASE wake' = wake /\ (Playing => Playing')
  BY <1>1 DEF WakeType, LockOnlyWhilePlaying
<1>2. CASE wake' = DropWakeLock(wake)
  BY <1>2, WakeFacts DEF WakeType, LockOnlyWhilePlaying
<1>3. CASE wake' = DropWakeLock(HoldWakeLock(wake))
  BY <1>3, WakeFacts DEF WakeType, LockOnlyWhilePlaying
<1>4. CASE wake' = HoldWakeLock(wake) /\ Playing'
  BY <1>4, WakeFacts DEF WakeType, LockOnlyWhilePlaying
<1> QED
  BY <1>1, <1>2, <1>3, <1>4 DEF WakeAfter, Playing

LEMMA WakeNext ==
  ASSUME WakeType, LockOnlyWhilePlaying, [Next]_vars
  PROVE  WakeType' /\ LockOnlyWhilePlaying'
<1>1. CASE Calls
  BY <1>1, WakeStep DEF Calls, Play, Pause, Stop, SpeakOnce, Hide, Move, SetQueue
<1>2. CASE Timers
  BY <1>2, WakeStep DEF Timers, GapPasses, TimerFires, WatchdogFires, Follows
<1>3. CASE Events
  BY <1>3, WakeStep DEF Events, OnStart, OnEnd, OnError, Dropped, Follows
<1>4. CASE SpeakThrows
  BY <1>4, WakeStep DEF SpeakThrows, Follows
<1>5. CASE WakeLockGranted
  <2>1. Playing' = Playing
    BY <1>5 DEF WakeLockGranted, Playing
  <2>2. CASE wake.asked /\ wake' = [wake EXCEPT !.asked = FALSE, !.held = TRUE]
    BY <2>1, <2>2 DEF WakeType, LockOnlyWhilePlaying
  <2>3. CASE wake.stale > 0 /\ wake' = [wake EXCEPT !.stale = @ - 1]
    BY <2>1, <2>3 DEF WakeType, LockOnlyWhilePlaying
  <2>4. CASE wake.asked /\ wake' = [wake EXCEPT !.asked = FALSE]
    BY <2>1, <2>4 DEF WakeType, LockOnlyWhilePlaying
  <2> QED
    BY <1>5, <2>2, <2>3, <2>4 DEF WakeLockGranted
<1>6. CASE UNCHANGED vars
  BY <1>6 DEF vars, WakeType, LockOnlyWhilePlaying, Playing
<1> QED
  BY <1>1, <1>2, <1>3, <1>4, <1>5, <1>6 DEF Next

(***************************************************************************)
(* LockOnlyWhilePlaying: the screen is never kept on, nor asked to be,     *)
(* when nothing is read, in whatever order locks and commands come.        *)
(***************************************************************************)
THEOREM LockOnlyWhilePlayingCorrect == Spec => []LockOnlyWhilePlaying
<1>1. Init => WakeType /\ LockOnlyWhilePlaying
  BY DEF Init, WakeType, LockOnlyWhilePlaying
<1>2. WakeType /\ LockOnlyWhilePlaying /\ [Next]_vars => (WakeType /\ LockOnlyWhilePlaying)'
  BY WakeNext
<1> QED
  BY <1>1, <1>2, PTL DEF Spec

Counters == commands \in 0 .. MaxCommands /\ failures \in 0 .. MaxFailures

LEMMA CountersNext ==
  ASSUME Counters, [Next]_vars
  PROVE  Counters'
<1>1. CASE Command
  BY <1>1, SpeechAssumption DEF Command, Counters
<1>2. CASE UNCHANGED commands /\ (UNCHANGED failures \/ (failures > 0 /\ failures' = failures - 1))
  BY <1>2, SpeechAssumption DEF Counters
<1>3. Calls => Command
  BY DEF Calls, Play, Pause, Stop, SpeakOnce, Hide, Move, SetQueue
<1>4. Timers \/ Events \/ SpeakThrows \/ WakeLockGranted \/ UNCHANGED vars
        => UNCHANGED commands /\ (UNCHANGED failures \/ (failures > 0 /\ failures' = failures - 1))
  BY DEF Timers, Events, GapPasses, TimerFires, WatchdogFires, OnStart, OnEnd, OnError, Dropped, SpeakThrows, WakeLockGranted, Follows, vars
<1> QED
  BY <1>1, <1>2, <1>3, <1>4 DEF Next

(***************************************************************************)
(* Type correctness: among others the position is always one of the page,  *)
(* and there are never more retries than MAX_START_RETRIES.                *)
(***************************************************************************)
THEOREM TypeCorrect == Spec => []TypeOK
<1>1. Init => Counters /\ WakeType /\ LockOnlyWhilePlaying
  BY SpeechAssumption DEF Init, Counters, WakeType, LockOnlyWhilePlaying
<1>2. Counters /\ WakeType /\ LockOnlyWhilePlaying /\ [Next]_vars => (Counters /\ WakeType /\ LockOnlyWhilePlaying)'
  BY CountersNext, WakeNext
<1>3. EInv /\ Counters /\ WakeType => TypeOK
  <2> SUFFICES ASSUME EInv, Counters, WakeType PROVE TypeOK
    OBVIOUS
  <2>1. engine \in Engines /\ Placed(engine)
    BY DEF EInv, Sound
  <2>2. \A u \in engine.synth : u.phase \in {"pending", "started", "cancelled"} /\ u.kind \in {"queue", "once"}
    BY <2>1 DEF Engines, Utterances
  <2>3. /\ engine.queue \in Queues /\ engine.index \in Starts(engine.queue) /\ engine.status \in {"idle", "playing", "paused"}
        /\ engine.timer \in TimerStates /\ engine.dog \in {"off", "fresh", "stale"} /\ engine.retries \in 0 .. MaxStartRetries
        /\ {engine.once, engine.recent} \subseteq BOOLEAN
    BY <2>1 DEF Engines, Placed
  <2>4. wake.asked \in BOOLEAN /\ wake.held \in BOOLEAN /\ wake.stale \in Nat
    BY DEF WakeType
  <2> QED
    BY <2>2, <2>3, <2>4 DEF TypeOK, TimerStates, Counters
<1> QED
  BY <1>1, <1>2, <1>3, EngineInv, PTL DEF Spec
=============================================================================
