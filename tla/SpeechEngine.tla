---------------------------- MODULE SpeechEngine ----------------------------
(***************************************************************************)
(* Reading aloud (SpeechEngine.ts): one utterance per sentence, and a      *)
(* generation that makes the events of older utterances harmless.  The     *)
(* code is synchronous: every call, timer and event is one action, and     *)
(* every method is a function of the state of the engine, in the order of  *)
(* the code.  A generation number is only ever compared with the current   *)
(* one, so it is kept as a flag: `fresh', or made stale by a bump.         *)
(***************************************************************************)
EXTENDS Integers, Sequences, FiniteSets

CONSTANTS
  Queues,       \* the lists of sentences a screen may give
  Silent,       \* sentences without anything to say
  NoItem,       \* no sentence: its id is the null of itemId; and the item of speakOnce
  MaxCommands,  \* bound: calls of the screen, and times the page is hidden
  MaxFailures   \* bound: errors of the synthesiser and utterances it drops

MaxStartRetries == 1 \* MAX_START_RETRIES

\* A sentence has an id, its place on the page (speechItemId), and words.  A corrected page
\* has other words under the same ids, and a sentence may stand under the id of another.
ASSUME SpeechAssumption ==
  /\ \A q \in Queues : q \in Seq({q[i] : i \in DOMAIN q}) /\ NoItem.id \notin {q[i].id : i \in DOMAIN q}
  /\ {MaxCommands, MaxFailures} \subseteq Nat

VARIABLES
  engine,   \* the fields of the SpeechEngine, and of the synthesiser it drives
  wake,     \* the screen wake lock: requests on their way, and locks held
  commands, \* calls left
  failures, \* failures left
  from,     \* history: where the last command put the position
  heard,    \* history: the sentences spoken to their end since then
  old       \* history: what was being said when the last command put other words in its place

vars == <<engine, wake, commands, failures, from, heard, old>>

\* `recent': the gap after the last cancel() has not passed yet; `owes' the same for a timer.
NoTimer == [of |-> "none", fresh |-> FALSE, owes |-> FALSE]
Utterance(kind, item) == [kind |-> kind, item |-> item, phase |-> "pending", fresh |-> TRUE]

\* After the first setQueue of a page.
Init ==
  /\ \E q \in Queues :
       engine = [queue |-> q, index |-> 1, status |-> "idle", shown |-> IF q = <<>> THEN NoItem.id ELSE q[1].id, timer |-> NoTimer,
                 dog |-> "off", retries |-> 0, once |-> FALSE, synth |-> {}, recent |-> FALSE]
  /\ wake = [asked |-> FALSE, stale |-> 0, held |-> FALSE]
  /\ commands = MaxCommands
  /\ failures = MaxFailures
  /\ from = 1
  /\ heard = {}
  /\ old = {}

Playing == engine.status = "playing"
Alive(s) == {u \in s.synth : u.phase # "cancelled"}
----------------------------------------------------------------------------
(* Methods, as functions of the engine's state s.                          *)

ItemAt(s, i) == IF i \in DOMAIN s.queue THEN s.queue[i] ELSE NoItem

\* ++this.generation
Bump_Not(s) == s
Bump(s) == [s EXCEPT !.timer.fresh = FALSE,
                     !.dog = IF @ = "off" THEN "off" ELSE "stale",
                     !.synth = {[u EXCEPT !.fresh = FALSE] : u \in @}]

ClearTimers(s) == [s EXCEPT !.timer = NoTimer, !.dog = "off"]

\* The events of a cancelled utterance still arrive, later.
CancelSynth_Not(s) == s
CancelSynth(s) == [s EXCEPT !.recent = TRUE, !.synth = {[u EXCEPT !.phase = "cancelled"] : u \in @}]

Patch(s) == [s EXCEPT !.shown = ItemAt(s, s.index).id]

Halt(s, status) == Patch([CancelSynth(ClearTimers(Bump(s))) EXCEPT !.once = FALSE, !.status = status])

Finish(s) == Patch([ClearTimers(Bump(s)) EXCEPT !.status = "idle"])

\* speakNow: sentences without sound are skipped without a pause.
Audible(s) == {i \in DOMAIN s.queue : i >= s.index /\ s.queue[i] \notin Silent}
FirstOf(S) == CHOOSE i \in S : \A j \in S : i <= j
Watched_Not == "off"
Watched == "fresh" \* the watchdog that speakNow leaves behind
SpeakNow(s) ==
  IF Audible(s) = {} THEN Finish([s EXCEPT !.index = Len(s.queue)])
  ELSE LET i == FirstOf(Audible(s))
       IN [s EXCEPT !.index = i, !.dog = Watched, !.synth = @ \cup {Utterance("queue", s.queue[i])}]

\* scheduleSpeak: after the gap and the pause, at once when there is none.
MustWait_PauseOnly(s, pause) == pause
MustWait(s, pause) == s.recent \/ pause
Schedule(s, pause) ==
  LET t == Bump([s EXCEPT !.timer = NoTimer])
  IN IF MustWait(s, pause)
       THEN [t EXCEPT !.timer = [of |-> "queue", fresh |-> TRUE, owes |-> s.recent]]
       ELSE SpeakNow(t)

\* retryOrFail: cancel and try once more, then give up.
RetryOrFail(s) ==
  IF s.retries < MaxStartRetries
    THEN Schedule(CancelSynth([s EXCEPT !.retries = @ + 1, !.dog = "off"]), FALSE)
    ELSE Halt(s, "idle")

\* moveTo
MoveTo(s, i) ==
  IF s.status = "playing"
    THEN Schedule([CancelSynth(ClearTimers(Bump(s))) EXCEPT !.index = i, !.retries = 0], FALSE)
    ELSE Patch([s EXCEPT !.index = i])

\* The utterance of speakOnce.
SayOnce(s) == [s EXCEPT !.once = TRUE, !.synth = @ \cup {Utterance("once", NoItem)}]

\* holdWakeLock and dropWakeLock, whose token makes older requests stale.
HoldWakeLock(w) == IF w.held \/ w.asked THEN w ELSE [w EXCEPT !.asked = TRUE]
DropWakeLock_Forgets(w) == [w EXCEPT !.held = FALSE]
DropWakeLock(w) == [asked |-> FALSE, stale |-> w.stale + (IF w.asked THEN 1 ELSE 0), held |-> FALSE]

\* Every method that leaves "playing" drops the lock.
WakeAfter(s) == IF Playing /\ s.status # "playing" THEN DropWakeLock(wake) ELSE wake
----------------------------------------------------------------------------
(* Calls of the screen.                                                    *)

Command == commands > 0 /\ commands' = commands - 1 /\ UNCHANGED failures
\* The history of what is heard starts again at position i.
Restart(i) == from' = i /\ heard' = {}

Voices(s) == {u.item : u \in {v \in Alive(s) : v.kind = "queue"}}
Replaced(s) == Voices(s) \ {ItemAt(s, s.index)}

Positions(s) == DOMAIN s.queue

\* clampIndex: a page without sentences has the position 1, too.
Starts(q) == IF q = <<>> THEN {1} ELSE DOMAIN q

\* setQueue: the position follows the id of its sentence, whatever its words have become; or speech stops.
SetQueue(q, start) ==
  LET found == {i \in DOMAIN q : engine.status # "idle" /\ q[i].id = ItemAt(engine, engine.index).id}
      halted == IF engine.status # "idle" THEN Halt(engine, "idle") ELSE engine
  IN /\ Command
     /\ engine' = IF found # {} THEN Patch([engine EXCEPT !.queue = q, !.index = FirstOf(found)])
                  ELSE Patch([halted EXCEPT !.queue = q, !.index = start])
     /\ wake' = WakeAfter(engine')
     /\ Restart(engine'.index) /\ old' = Replaced(engine')

Play ==
  LET s == IF engine.once \/ Alive(engine) # {} THEN CancelSynth(engine) ELSE engine
  IN /\ Command
     /\ ~Playing /\ engine.queue # <<>>
     /\ engine' = Schedule(Patch([s EXCEPT !.retries = 0, !.once = FALSE, !.status = "playing"]), FALSE)
     /\ wake' = IF engine'.status = "playing" THEN HoldWakeLock(wake) ELSE DropWakeLock(HoldWakeLock(wake))
     /\ Restart(engine.index) /\ old' = {}

Pause ==
  /\ Command
  /\ Playing
  /\ engine' = Halt(engine, "paused")
  /\ wake' = WakeAfter(engine')
  /\ UNCHANGED <<from, heard, old>>

Stop ==
  /\ Command
  /\ engine.status # "idle" \/ engine.once \/ engine.timer # NoTimer
  /\ engine' = Halt(engine, "idle")
  /\ wake' = DropWakeLock(wake)
  /\ UNCHANGED <<from, heard, old>>

\* next, previous, seek; and setRate, which says the current sentence again.
Move(i) ==
  /\ Command
  /\ i # engine.index \/ Playing
  /\ engine' = MoveTo(engine, i)
  /\ wake' = WakeAfter(engine')
  /\ Restart(i) /\ old' = {}

\* speakOnce: the queue is paused; text without sound is said to nobody.
SpeakOnce ==
  LET s == IF Playing THEN Halt(engine, "paused")
           ELSE IF engine.once \/ Alive(engine) # {} THEN CancelSynth(engine) ELSE engine
      t == Bump(ClearTimers(s))
  IN /\ Command
     /\ engine' = IF t.recent THEN [t EXCEPT !.timer = [of |-> "once", fresh |-> TRUE, owes |-> TRUE]] ELSE SayOnce(t)
     /\ wake' = WakeAfter(engine')
     /\ UNCHANGED <<from, heard, old>>

\* visibilitychange, once a call has installed the listener.
Hide ==
  /\ Command
  /\ Playing \/ engine.once
  /\ engine' = IF Playing THEN Halt(engine, "paused") ELSE [CancelSynth(Bump(engine)) EXCEPT !.once = FALSE]
  /\ wake' = WakeAfter(engine')
  /\ UNCHANGED <<from, heard, old>>
----------------------------------------------------------------------------
(* Timers, events of the synthesiser, and the wake lock.                   *)

Follows == wake' = WakeAfter(engine') /\ UNCHANGED <<commands, from, old>>

\* CANCEL_GAP_MS after the last cancel(); a timer waits for the gap of the time it was set.
GapPasses ==
  /\ engine.recent
  /\ engine' = [engine EXCEPT !.recent = FALSE, !.timer.owes = FALSE]
  /\ Follows /\ UNCHANGED <<heard, failures>>

TimerFires ==
  LET t == engine.timer
      s == [engine EXCEPT !.timer = NoTimer]
  IN /\ t # NoTimer /\ ~t.owes
     /\ engine' = IF ~t.fresh THEN s
                  ELSE IF t.of = "once" THEN SayOnce(s)
                  ELSE IF s.status = "playing" THEN SpeakNow(s) ELSE s
     /\ Follows /\ UNCHANGED <<heard, failures>>

\* synth.speak() throws for the utterance that a timer was going to start.  A speak() without
\* a timer (play, onend, speakOnce) that throws does what OnError does to that utterance next.
SpeakThrows ==
  LET t == engine.timer
      s == [engine EXCEPT !.timer = NoTimer, !.index = FirstOf(Audible(engine))]
  IN /\ failures > 0 /\ failures' = failures - 1
     /\ t.of = "queue" /\ ~t.owes /\ t.fresh /\ Playing /\ Audible(engine) # {}
     /\ engine' = RetryOrFail(s)
     /\ Follows /\ UNCHANGED heard

HasNext_OrEnd(s) == s.index <= Len(s.queue)
HasNext(s) == s.index < Len(s.queue)

Without(u) == [engine EXCEPT !.synth = @ \ {u}]
Begin(u) == [engine EXCEPT !.synth = (@ \ {u}) \cup {[u EXCEPT !.phase = "started"]}]

\* gen === this.generation
Fresh_Always(u) == TRUE
Fresh(u) == u.fresh

OnStart(u) ==
  /\ u \in engine.synth /\ u.phase = "pending"
  /\ engine' = IF u.kind = "queue" /\ Fresh(u) THEN [Begin(u) EXCEPT !.dog = "off", !.retries = 0, !.shown = u.item.id] ELSE Begin(u)
  /\ Follows /\ UNCHANGED <<heard, failures>>

\* The end of an utterance, or the asynchronous `end' of a cancelled one.  A pause may follow.
OnEnd(u) ==
  LET s == [Without(u) EXCEPT !.dog = "off"]
  IN /\ u \in engine.synth /\ u.phase \in {"started", "cancelled"}
     /\ \E pause \in BOOLEAN :
          engine' = IF ~Fresh(u) THEN Without(u)
                    ELSE IF u.kind = "once" THEN [Without(u) EXCEPT !.once = FALSE]
                    ELSE IF HasNext(engine) THEN Schedule([s EXCEPT !.index = @ + 1], pause)
                    ELSE Finish(s)
     /\ heard' = IF u.kind = "queue" /\ u.phase = "started" THEN heard \cup {u.item} ELSE heard
     /\ Follows /\ UNCHANGED failures

\* Interrupted by the system: paused.  Another error: once more, or given up.
OnError(u) ==
  /\ failures > 0 /\ failures' = failures - 1
  /\ u \in engine.synth
  /\ \E interrupted \in BOOLEAN :
       engine' = IF ~Fresh(u) THEN Without(u)
                 ELSE IF u.kind = "once" THEN [Without(u) EXCEPT !.once = FALSE]
                 ELSE IF interrupted THEN Halt(Without(u), "paused") ELSE RetryOrFail([Without(u) EXCEPT !.dog = "off"])
  /\ Follows /\ UNCHANGED heard

\* The synthesiser drops an utterance without a word (Safari).
Dropped(u) ==
  /\ failures > 0 /\ failures' = failures - 1
  /\ u \in engine.synth /\ u.phase = "pending"
  /\ engine' = Without(u)
  /\ Follows /\ UNCHANGED heard

WatchdogFires ==
  LET s == [engine EXCEPT !.dog = "off"]
  IN /\ engine.dog # "off"
     /\ engine' = IF engine.dog = "fresh" /\ Playing THEN RetryOrFail(s) ELSE s
     /\ Follows /\ UNCHANGED <<heard, failures>>

\* The promise of acquireWakeLock: a lock that comes too late is released at once.
WakeLockGranted ==
  /\ \/ wake.asked /\ wake' = [wake EXCEPT !.asked = FALSE, !.held = TRUE]
     \/ wake.stale > 0 /\ wake' = [wake EXCEPT !.stale = @ - 1]
     \/ wake.asked /\ wake' = [wake EXCEPT !.asked = FALSE]
  /\ UNCHANGED <<engine, commands, failures, from, heard, old>>

Calls == Play \/ Pause \/ Stop \/ SpeakOnce \/ Hide \/ (\E i \in Positions(engine) : Move(i))
         \/ (\E q \in Queues : \E start \in Starts(q) : SetQueue(q, start))
Timers == GapPasses \/ TimerFires \/ WatchdogFires
Ends == \E u \in engine.synth : OnEnd(u)
Events == \E u \in engine.synth : OnStart(u) \/ OnEnd(u) \/ OnError(u) \/ Dropped(u)

Next == Calls \/ Timers \/ Events \/ SpeakThrows \/ WakeLockGranted
Spec == Init /\ [][Next]_vars

\* Timers fire, and the synthesiser ends what it has started.
FairSpec == Spec /\ WF_vars(GapPasses) /\ WF_vars(TimerFires) /\ WF_vars(WatchdogFires) /\ WF_vars(Ends)
----------------------------------------------------------------------------
\* Type invariant.
TypeOK ==
  /\ engine.queue \in Queues /\ engine.index \in Starts(engine.queue)
  /\ engine.status \in {"idle", "playing", "paused"}
  /\ engine.timer \in [of : {"none", "queue", "once"}, fresh : BOOLEAN, owes : BOOLEAN]
  /\ engine.dog \in {"off", "fresh", "stale"} /\ engine.retries \in 0..MaxStartRetries
  /\ {engine.once, engine.recent} \subseteq BOOLEAN
  /\ \A u \in engine.synth : u.phase \in {"pending", "started", "cancelled"} /\ u.kind \in {"queue", "once"}
  /\ wake.asked \in BOOLEAN /\ wake.held \in BOOLEAN /\ wake.stale \in Nat
  /\ commands \in 0..MaxCommands /\ failures \in 0..MaxFailures

(***************************************************************************)
(* One voice: whatever is asked while something is said, the synthesiser   *)
(* never has two utterances that were not cancelled.                       *)
(***************************************************************************)
OneVoice == Cardinality(Alive(engine)) <= 1

(***************************************************************************)
(* The place shown is the place that is read, also after the queue was     *)
(* replaced or the position moved; and the words heard are those of the    *)
(* list, but for one utterance: the one that was with the synthesiser when *)
(* setQueue put other words under its id, until its end.                   *)
(***************************************************************************)
ShownIsHeard ==
  \A u \in Alive(engine) : u.kind = "queue" /\ u.phase = "started" =>
    /\ Playing /\ u.item.id = engine.shown /\ u.item.id = engine.queue[engine.index].id
    /\ u.item = engine.queue[engine.index] \/ (u.item \in old /\ engine.index = from)

(***************************************************************************)
(* No sentence is skipped: since the last command, every sentence before   *)
(* the position was spoken to its end, in the words of the list (or has    *)
(* nothing to say); but for the first one when it was being said in other  *)
(* words.  A late event of a cancelled utterance moves nothing.            *)
(***************************************************************************)
NothingSkipped ==
  Playing => \A i \in Positions(engine) : from <= i /\ i < engine.index =>
    \/ engine.queue[i] \in heard \cup Silent
    \/ i = from /\ \E item \in heard \cap old : item.id = engine.queue[i].id

(***************************************************************************)
(* While it is playing something is always going to happen: a timer, the   *)
(* watchdog, or the end of an utterance that has started.                  *)
(***************************************************************************)
NeverStuck ==
  Playing => \/ engine.timer.of = "queue" /\ engine.timer.fresh
             \/ engine.dog = "fresh"
             \/ \E u \in Alive(engine) : u.fresh /\ u.phase = "started"

(***************************************************************************)
(* The screen is kept on only while reading, however late the lock comes.  *)
(***************************************************************************)
LockOnlyWhilePlaying == wake.held \/ wake.asked => Playing

(***************************************************************************)
(* "a new speak waits at least CANCEL_GAP_MS after a cancel()", whoever    *)
(* cancelled.                                                              *)
(***************************************************************************)
GapRespected == [][\A u \in Alive(engine)' \ Alive(engine) : u.phase = "pending" => ~engine.recent /\ ~engine'.recent]_vars

(***************************************************************************)
(* Reading comes to an end, by itself or by a failure.                     *)
(***************************************************************************)
ReadingEnds == Playing ~> ~Playing
=============================================================================
