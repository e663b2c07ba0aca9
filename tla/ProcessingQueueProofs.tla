------------------------ MODULE ProcessingQueueProofs ------------------------
(***************************************************************************)
(* Proofs about the ProcessingQueue, for all pages, requests and events:   *)
(* its types, the crash-loop guard, the answers of explicit requests, and  *)
(* the jobs of pages that wait for a text.                                 *)
(***************************************************************************)
EXTENDS ProcessingQueue, TLAPS

Jobs == [state : JobStates, gen : Nat, attempts : Nat]
Docs == [where : {"absent", "live", "deleted"}, status : {"processing", "partial", "ready"}]
Runs == [at : Current \cup Between, p : Pages \cup {NoPage}, job : Jobs, prev : PageStates, want : Jobs,
         status : {"processing", "partial", "ready"}, aborted : BOOLEAN]
Answers == {"none", "waiting", "ok", "failed", "lost"}

TablesType == job \in [Pages -> Jobs] /\ page \in [Pages -> PageStates] /\ doc \in Docs
\* A job that runs is that of a page, and this attempt is counted.
RunType == /\ run \in Runs
           /\ run.at \in Current => run.p \in Pages /\ run.job.attempts >= 1
           /\ run.at = "lock" => run.p \in Pages
CallersType == /\ import \in {"document", "pages", "done", "dead"}
               /\ fix \in [p : Pages \cup {NoPage}, job : Jobs] /\ (fix # NoFix => fix.p \in Pages)
               /\ removal \in {"none", "tombstone", "purge", "done", "halfway"}
               /\ clock \in Gens /\ budget \in [left : 0 .. MaxEvents, died : BOOLEAN]
OthersType == /\ dirty \in BOOLEAN /\ recovered \in BOOLEAN
              /\ answer \in [Pages -> [Gens -> Answers]]
              /\ crashes \in [Pages -> [Gens -> Nat]]
Types == TablesType /\ RunType /\ CallersType /\ OthersType
----------------------------------------------------------------------------
(* What the helpers return.                                                *)

LEMMA JobFacts ==
  ASSUME NEW s \in JobStates, NEW g \in Nat, NEW a \in Nat
  PROVE  Job(s, g, a) \in Jobs /\ Job(s, g, a).state = s /\ Job(s, g, a).gen = g /\ Job(s, g, a).attempts = a
  BY DEF Job, Jobs

LEMMA NoJobFacts == NoJob \in Jobs /\ NoJob.state = "none" /\ NoJob.gen = 0 /\ NoJob.attempts = 0
  BY JobFacts DEF NoJob, JobStates, Settled, Job

LEMMA JobStateFacts ==
  ASSUME NEW j \in Jobs, NEW s \in JobStates
  PROVE  [j EXCEPT !.state = s] \in Jobs /\ [j EXCEPT !.state = s].state = s
         /\ [j EXCEPT !.state = s].gen = j.gen /\ [j EXCEPT !.state = s].attempts = j.attempts
  BY DEF Jobs

\* The states of a page, of a job and of the runner are distinct words.
LEMMA Words ==
  /\ JobStates = {"none", "done", "error", "queued", "running"}
  /\ PageStates = {"local", "manual", "home", "absent", "pending", "failed"}
  /\ Current \cap Between = {}
  BY DEF JobStates, Settled, PageStates, Readable, Current, Between

LEMMA IdleFacts ==
  ASSUME NEW x \in Current \cup Between, NEW r, r = [Idle EXCEPT !.at = x]
  PROVE  r \in Runs /\ r.at = x /\ ~r.aborted
  BY NoJobFacts, Words DEF Idle, Runs

LEMMA RunAtFacts ==
  ASSUME run \in Runs, NEW x \in Current \cup Between, RunAt(x)
  PROVE  /\ run' \in Runs /\ run'.at = x /\ run'.p = run.p /\ run'.job = run.job /\ run'.prev = run.prev /\ run'.want = run.want
         /\ run'.status = run.status /\ run'.aborted = run.aborted
  BY DEF RunAt, Runs

\* The finally of a run.
LEMMA ClosingFacts ==
  ASSUME Closing
  PROVE  run' \in Runs /\ run'.at = "refresh" /\ run'.at \notin Current
<1>1. "refresh" \in Current \cup Between /\ "refresh" \notin Current
  BY DEF Current, Between
<1> QED
  BY <1>1, IdleFacts DEF Closing

\* A kick only wakes a runner that was off.
LEMMA KickFacts ==
  ASSUME KickLoop, run \in Runs
  PROVE  /\ run' \in Runs /\ dirty' \in BOOLEAN
         /\ run' = run \/ (run.at = "off" /\ run'.at = "top" /\ run'.p = run.p /\ run'.job = run.job)
<1>1. "top" \in Current \cup Between
  BY DEF Current, Between
<1> QED
  BY <1>1 DEF KickLoop, Runs

LEMMA SettleFacts ==
  ASSUME answer \in [Pages -> [Gens -> Answers]], NEW p \in Pages, NEW g, NEW a \in Answers, Settle(p, g, a)
  PROVE  /\ answer' \in [Pages -> [Gens -> Answers]]
         /\ \A q \in Pages, h \in Gens : answer'[q][h] = answer[q][h] \/ (q = p /\ h = g /\ answer[q][h] = "waiting" /\ answer'[q][h] = a)
<1>1. CASE answer[p][g] # "waiting"
  BY <1>1 DEF Settle
<1>2. CASE answer[p][g] = "waiting"
  <2>1. answer' = [answer EXCEPT ![p][g] = a]
    BY <1>2 DEF Settle
  <2> QED
    BY <1>2, <2>1
<1> QED
  BY <1>1, <1>2

LEMMA StatusFacts ==
  ASSUME doc \in Docs, NEW pages
  PROVE  /\ DeriveStatus(pages) \in {"processing", "partial", "ready"}
         /\ Refreshed(pages) \in Docs /\ Refreshed(pages).where = doc.where
         /\ Refreshed(pages) # doc => Live
<1>1. DeriveStatus(pages) \in {"processing", "partial", "ready"}
  BY DEF DeriveStatus
<1> QED
  BY <1>1 DEF Refreshed, Docs

\* The crash-loop guard changes the state of a job that was running, and nothing else.
LEMMA RecoveredFacts ==
  ASSUME NEW p \in Pages, job \in [Pages -> Jobs]
  PROVE  /\ Recovered(p) \in Jobs /\ Recovered(p).gen = job[p].gen /\ Recovered(p).attempts = job[p].attempts
         /\ job[p].state # "running" => Recovered(p).state = job[p].state
         /\ job[p].state = "running" => Recovered(p).state = IF job[p].attempts >= MaxJobAttempts THEN "error" ELSE "queued"
<1> DEFINE s == IF job[p].state # "running" THEN job[p].state ELSE IF job[p].attempts >= MaxJobAttempts THEN "error" ELSE "queued"
<1>1. job[p] \in Jobs /\ s \in JobStates
  BY Words DEF Jobs
<1>2. Recovered(p) = [job[p] EXCEPT !.state = s]
  BY <1>1 DEF Recovered, Jobs
<1> HIDE DEF s
<1>3. Recovered(p) \in Jobs /\ Recovered(p).gen = job[p].gen /\ Recovered(p).attempts = job[p].attempts /\ Recovered(p).state = s
  BY <1>1, <1>2, JobStateFacts
<1> QED
  BY <1>3 DEF s
----------------------------------------------------------------------------
(* Types.                                                                  *)

LEMMA InitTypes == Init => Types
<1> SUFFICES ASSUME Init PROVE Types
  OBVIOUS
<1>1. Job("queued", 1, 0) \in Jobs
  BY JobFacts, Words
<1>2. TablesType
  BY <1>1, Words DEF Init, TablesType, Docs
<1>3. RunType
  <2>1. Idle \in Runs /\ Idle.at = "off" /\ "off" \notin Current
    BY NoJobFacts, Words DEF Idle, Runs, Between, Current
  <2> QED
    BY <2>1 DEF Init, RunType
<1>4. CallersType
  BY NoJobFacts, QueueAssumption DEF Init, CallersType, NoFix, Gens
<1>5. OthersType
  BY DEF Init, OthersType, Answers
<1> QED
  BY <1>2, <1>3, <1>4, <1>5 DEF Types

\* A step of the runner that leaves the tables as they are and goes to x.
LEMMA RunType_RunAt ==
  ASSUME RunType, NEW x \in Current \cup Between, RunAt(x),
         x \in Current \cup {"lock"} => run.at \in Current
  PROVE  RunType'
<1>1. /\ run' \in Runs /\ run'.at = x /\ run'.p = run.p /\ run'.job = run.job
  BY RunAtFacts DEF RunType
<1> QED
  BY <1>1 DEF RunType, Runs

LEMMA RunType_Closing ==
  ASSUME Closing
  PROVE  RunType'
  BY ClosingFacts DEF RunType

LEMMA RunType_Kick ==
  ASSUME RunType, KickLoop
  PROVE  RunType' /\ dirty' \in BOOLEAN
<1>1. "top" \notin Current
  BY DEF Current
<1> QED
  BY <1>1, KickFacts DEF RunType

\* The runner goes on with the same job.
LEMMA RunType_Same ==
  ASSUME RunType, run.at \in Current, run' \in Runs, run'.p = run.p, run'.job = run.job
  PROVE  RunType'
  BY DEF RunType

\* After the page is written the run goes on with the same job.
LEMMA RunType_After ==
  ASSUME run \in Runs, CommitText \/ HandOver
  PROVE  \E x \in {"finish", "image"}, b \in BOOLEAN : run' = [run EXCEPT !.at = x, !.prev = "absent", !.aborted = b]
<1>1. CASE HandOver
  BY <1>1 DEF HandOver
<1>2. CASE CommitText
  <2>1. PICK next \in {"finish", "image"} : run' = [run EXCEPT !.at = next, !.prev = "absent", !.aborted = @ /\ next = "image"]
    BY <1>2 DEF CommitText
  <2>2. CASE next = "finish"
    <3>1. run' = [run EXCEPT !.at = "finish", !.prev = "absent", !.aborted = FALSE]
      BY <2>1, <2>2
    <3> QED
      BY <3>1
  <2>3. CASE next = "image"
    <3>1. run.aborted \in BOOLEAN /\ run' = [run EXCEPT !.at = "image", !.prev = "absent", !.aborted = run.aborted]
      BY <2>1, <2>3 DEF Runs
    <3> QED
      BY <3>1
  <2> QED
    BY <2>2, <2>3
<1> QED
  BY <1>1, <1>2

LEMMA RunTypeStep ==
  ASSUME Types, [Next]_vars
  PROVE  RunType'
<1> USE DEF Types
<1>1. /\ Current = {"current", "work", "image", "finish", "finishing", "store", "storing", "failread", "failsave"}
      /\ Between = {"off", "top", "picking", "lock", "empty", "refresh", "saving"}
  BY DEF Current, Between
<1>2. run \in Runs
  BY DEF RunType
<1>3. CASE TakeTurn \/ PickNothing \/ LeaveLoop
  BY <1>1, <1>3, RunType_RunAt DEF TakeTurn, PickNothing, LeaveLoop, AfterLoop
<1>4. ASSUME NEW p \in Pages, Pick(p) PROVE RunType'
  <2>1. job[p] \in Jobs /\ Idle \in Runs
    BY IdleFacts, NoJobFacts, Words, <1>1 DEF TablesType, Idle, Runs
  <2>2. run' = [Idle EXCEPT !.at = "lock", !.p = p, !.job = job[p]]
    BY <1>4 DEF Pick
  <2>3. run' \in Runs /\ run'.at = "lock" /\ run'.p = p
    BY <1>1, <2>1, <2>2 DEF Runs
  <2> QED
    BY <1>1, <2>3 DEF RunType
<1>5. CASE Start
  <2> DEFINE j == Job("running", run.job.gen, run.job.attempts + 1)
  <2>1. run.at = "lock" /\ run.p \in Pages /\ run.job \in Jobs
    BY <1>5 DEF Start, RunType, Runs
  <2>2. j \in Jobs /\ j.attempts = run.job.attempts + 1 /\ run.job.attempts \in Nat
    BY <2>1, JobFacts, Words DEF Jobs
  <2>3. run' = [run EXCEPT !.at = "current", !.job = j]
    BY <1>5 DEF Start
  <2> HIDE DEF j
  <2>4. run' \in Runs /\ run'.at = "current" /\ run'.p = run.p /\ run'.job = j
    BY <1>1, <1>2, <2>2, <2>3 DEF Runs
  <2> QED
    BY <2>1, <2>2, <2>4 DEF RunType
<1>6. CASE DropJob \/ PutDone \/ FailSave
  BY <1>6, RunType_Closing DEF DropJob, PutDone, FailSave
<1>7. CASE ReadPage
  <2>1. CASE AlreadyReadable
    <3>1. run.at \in Current /\ run' = [run EXCEPT !.at = "finish", !.aborted = FALSE]
      BY <1>1, <1>7, <2>1 DEF ReadPage
    <3>2. run' \in Runs /\ run'.p = run.p /\ run'.job = run.job
      BY <1>1, <1>2, <3>1 DEF Runs
    <3> QED
      BY <3>1, <3>2, RunType_Same
  <2>2. CASE ~AlreadyReadable
    <3>1. run.at \in Current /\ run' = [run EXCEPT !.at = "work", !.prev = page[run.p]] /\ page[run.p] \in PageStates
      BY <1>1, <1>7, <2>2 DEF ReadPage, RunType, TablesType
    <3>2. run' \in Runs /\ run'.p = run.p /\ run'.job = run.job
      BY <1>1, <1>2, <3>1 DEF Runs
    <3> QED
      BY <3>1, <3>2, RunType_Same
  <2> QED
    BY <2>1, <2>2
<1>8. CASE CommitText \/ HandOver
  <2>1. PICK x \in {"finish", "image"}, b \in BOOLEAN : run' = [run EXCEPT !.at = x, !.prev = "absent", !.aborted = b]
    BY <1>2, <1>8, RunType_After
  <2>2. run' \in Runs /\ run'.p = run.p /\ run'.job = run.job
    BY <1>1, <1>2, <2>1, Words DEF Runs
  <2> QED
    BY <1>1, <1>8, <2>2, RunType_Same DEF CommitText, HandOver
<1>9. CASE SaveImage
  <2>1. run.at \in Current /\ run' = [run EXCEPT !.at = "finish", !.aborted = FALSE]
    BY <1>1, <1>9 DEF SaveImage
  <2>2. run' \in Runs /\ run'.p = run.p /\ run'.job = run.job
    BY <1>1, <1>2, <2>1 DEF Runs
  <2> QED
    BY <2>1, <2>2, RunType_Same
<1>10. CASE Fail
  <2>1. PICK permanent \in BOOLEAN :
          run' = [run EXCEPT !.at = "store", !.prev = "absent", !.want = [run.job EXCEPT !.state = AfterFailure(permanent)]]
    BY <1>10 DEF Fail
  <2>2. [run.job EXCEPT !.state = AfterFailure(permanent)] \in Jobs
    BY <1>2, JobStateFacts, Words DEF AfterFailure, Runs
  <2>3. run' \in Runs /\ run'.p = run.p /\ run'.job = run.job
    BY <1>1, <1>2, <2>1, <2>2, Words DEF Runs
  <2> QED
    BY <1>1, <1>10, <2>3, RunType_Same DEF Fail
<1>11. CASE Abort
  <2>1. CASE ~Live
    BY <1>11, <2>1, RunType_Closing DEF Abort
  <2>2. CASE Live
    <3> DEFINE w == Job("queued", run.job.gen, run.job.attempts - 1)
    <3>1. run' = [run EXCEPT !.at = "store", !.prev = "absent", !.aborted = FALSE, !.want = w] /\ run.at \in Current
      BY <1>1, <1>11, <2>2 DEF Abort
    <3>2. run.job \in Jobs /\ run.job.attempts >= 1
      BY <3>1 DEF RunType, Runs
    <3>3. w \in Jobs
      BY <3>2, JobFacts, Words DEF Jobs
    <3> HIDE DEF w
    <3>4. run' \in Runs /\ run'.p = run.p /\ run'.job = run.job
      BY <1>1, <1>2, <3>1, <3>3, Words DEF Runs
    <3> QED
      BY <3>1, <3>4, RunType_Same
  <2> QED
    BY <2>1, <2>2
<1>12. CASE Finish \/ CheckStore \/ Store \/ FailRead
  BY <1>1, <1>12, RunType_RunAt, RunType_Closing DEF Finish, CheckStore, Store, FailRead
<1>13. CASE ReadStatus
  <2>1. Idle \in Runs /\ DeriveStatus(page) \in {"processing", "partial", "ready"}
    BY NoJobFacts, Words, <1>1, StatusFacts DEF Idle, Runs, TablesType
  <2>2. run' = [Idle EXCEPT !.at = "top"] \/ run' = [Idle EXCEPT !.at = "saving", !.status = DeriveStatus(page)]
    BY <1>13 DEF ReadStatus
  <2>3. run' \in Runs /\ run'.at \in {"top", "saving"}
    BY <1>1, <2>1, <2>2 DEF Runs
  <2> QED
    BY <1>1, <2>3 DEF RunType
<1>14. CASE WriteStatus \/ Crash
  <2>1. run' = [Idle EXCEPT !.at = "top"]
    BY <1>14 DEF WriteStatus, Crash
  <2>2. run' \in Runs /\ run'.at = "top"
    BY <1>1, <2>1, IdleFacts
  <2> QED
    BY <1>1, <2>2 DEF RunType
<1>15. CASE KickLoop
  BY <1>15, RunType_Kick
<1>16. CASE AbortRun
  <2>1. run' \in Runs /\ run'.at = run.at /\ run'.p = run.p /\ run'.job = run.job
    BY <1>2, <1>16 DEF AbortRun, Runs
  <2> QED
    BY <2>1 DEF RunType
<1>17. CASE UNCHANGED run
  BY <1>17 DEF RunType
<1>18. Recover \/ ImportDocument \/ CorrectPutJob \/ Tombstone \/ PurgeLocalData \/ SyncDeletion \/ UNCHANGED vars => UNCHANGED run
  BY DEF Recover, ImportDocument, CorrectPutJob, Tombstone, PurgeLocalData, SyncDeletion, vars, runner
<1>19. ImportPages \/ Kick \/ (\E p \in Pages : Ask(p)) => KickLoop
  BY DEF ImportPages, Kick, Ask
<1>20. CancelDocument \/ PageHide => AbortRun
  BY DEF CancelDocument, PageHide
<1>21. (\E p \in Pages : Correct(p) \/ SyncText(p)) => UNCHANGED run
  BY DEF Correct, SyncText, runner
<1>22. RunStep => RunType'
  BY <1>3, <1>4, <1>5, <1>6, <1>7, <1>8, <1>9, <1>10, <1>11, <1>12, <1>13, <1>14 DEF RunStep
<1> QED
  BY <1>14, <1>15, <1>16, <1>17, <1>18, <1>19, <1>20, <1>21, <1>22 DEF Next, Runner

LEMMA TablesTypeStep ==
  ASSUME Types, [Next]_vars
  PROVE  TablesType'
<1> USE DEF Types
<1>1. job \in [Pages -> Jobs] /\ page \in [Pages -> PageStates] /\ doc \in Docs /\ run \in Runs
  BY DEF TablesType, RunType
<1>2. \A pages : Refreshed(pages) \in Docs
  BY <1>1, StatusFacts
<1>3. CASE Recover
  <2>1. job' \in [Pages -> Jobs]
    BY <1>1, <1>3, RecoveredFacts, NoJobFacts DEF Recover
  <2>2. page' \in [Pages -> PageStates]
    BY <1>1, <1>3, Words DEF Recover
  <2>3. doc' \in Docs
    BY <1>1, <1>2, <1>3 DEF Recover
  <2> QED
    BY <2>1, <2>2, <2>3 DEF TablesType
<1>4. CASE Start
  <2>1. run.job.gen \in Nat /\ run.job.attempts + 1 \in Nat
    BY <1>1 DEF Runs, Jobs
  <2>2. Job("running", run.job.gen, run.job.attempts + 1) \in Jobs
    BY <2>1, JobFacts, Words
  <2> QED
    BY <1>1, <1>4, <2>2 DEF Start, TablesType
<1>5. CASE DropJob
  BY <1>1, <1>5, NoJobFacts DEF DropJob, TablesType
<1>6. CASE CommitText \/ SaveImage
  BY <1>1, <1>6, Words DEF CommitText, SaveImage, TablesType
<1>7. CASE HandOver
  BY <1>1, <1>7, Words DEF HandOver, TablesType, Runs
<1>8. CASE PutDone
  <2>1. Job("done", run.job.gen, 0) \in Jobs
    BY <1>1, JobFacts, Words DEF Runs, Jobs
  <2> QED
    BY <1>1, <1>8, <2>1 DEF PutDone, TablesType
<1>9. CASE Store
  BY <1>1, <1>9 DEF Store, TablesType, Runs
<1>10. CASE FailSave
  BY <1>1, <1>10, Words DEF FailSave, TablesType
<1>11. CASE WriteStatus
  BY <1>1, <1>11 DEF WriteStatus, TablesType, Runs, Docs
<1>12. CASE ImportDocument
  BY <1>1, <1>12 DEF ImportDocument, TablesType, Docs
<1>13. CASE ImportPages
  BY <1>1, <1>13, Words DEF ImportPages, TablesType
<1>14. ASSUME NEW p \in Pages, Ask(p) PROVE TablesType'
  <2>1. clock' \in Nat
    BY <1>14 DEF Ask, CallersType, Gens
  <2>2. Job("queued", clock', 0) \in Jobs
    BY <2>1, JobFacts, Words
  <2> QED
    BY <1>1, <1>14, <2>2 DEF Ask, TablesType
<1>15. ASSUME NEW p \in Pages, Correct(p) PROVE TablesType'
  <2>1. page' \in [Pages -> PageStates] /\ job' = job /\ doc' \in Docs
    BY <1>1, <1>2, <1>15, Words DEF Correct
  <2> QED
    BY <1>1, <2>1 DEF TablesType
<1>16. CASE CorrectPutJob
  <2>1. fix.job \in Jobs
    BY DEF CallersType
  <2>2. [fix.job EXCEPT !.state = "done"] \in Jobs
    BY <2>1, JobStateFacts, Words
  <2>3. job' \in [Pages -> Jobs] /\ page' = page /\ doc' \in Docs
    BY <1>1, <1>2, <1>16, <2>2 DEF CorrectPutJob
  <2> QED
    BY <1>1, <2>3 DEF TablesType
<1>17. CASE CancelDocument
  BY <1>1, <1>17, NoJobFacts DEF CancelDocument, TablesType
<1>18. CASE Tombstone \/ SyncDeletion
  BY <1>1, <1>18 DEF Tombstone, SyncDeletion, TablesType, Docs
<1>19. CASE PurgeLocalData
  BY <1>1, <1>19, NoJobFacts, Words DEF PurgeLocalData, TablesType
<1>20. ASSUME NEW p \in Pages, SyncText(p) PROVE TablesType'
  BY <1>1, <1>20, Words DEF SyncText, TablesType
<1>21. CASE UNCHANGED tables
  BY <1>21 DEF tables, TablesType
<1>22. TakeTurn \/ PickNothing \/ LeaveLoop \/ (\E p \in Pages : Pick(p)) \/ ReadPage \/ Fail \/ Abort \/ Finish \/ CheckStore
       \/ FailRead \/ ReadStatus \/ Kick \/ PageHide \/ Crash \/ UNCHANGED vars => UNCHANGED tables
  BY DEF TakeTurn, PickNothing, LeaveLoop, Pick, ReadPage, Fail, Abort, Finish, CheckStore, FailRead, ReadStatus, Kick, PageHide, Crash, vars
<1>23. RunStep => TablesType'
  BY <1>4, <1>5, <1>6, <1>7, <1>8, <1>9, <1>10, <1>11, <1>21, <1>22 DEF RunStep
<1> QED
  BY <1>3, <1>12, <1>13, <1>14, <1>15, <1>16, <1>17, <1>18, <1>19, <1>20, <1>21, <1>22, <1>23 DEF Next, Runner

LEMMA CallersTypeStep ==
  ASSUME Types, [Next]_vars
  PROVE  CallersType'
<1> USE DEF Types
<1>1. CASE UNCHANGED callers
  BY <1>1 DEF callers, CallersType
<1>2. CASE ImportDocument \/ ImportPages
  BY <1>2 DEF ImportDocument, ImportPages, CallersType
<1>3. CASE CorrectPutJob
  <2>1. NoFix \in [p : Pages \cup {NoPage}, job : Jobs]
    BY NoJobFacts DEF NoFix
  <2> QED
    BY <1>3, <2>1 DEF CorrectPutJob, CallersType
<1>4. CASE Tombstone \/ PurgeLocalData \/ CancelDocument
  BY <1>4 DEF Tombstone, PurgeLocalData, CancelDocument, CallersType
<1>5. ASSUME budget.left > 0, budget' = [budget EXCEPT !.left = @ - 1], UNCHANGED <<import, fix, removal, clock>> PROVE CallersType'
  BY <1>5, QueueAssumption DEF CallersType
<1>6. ASSUME NEW p \in Pages, Ask(p) PROVE CallersType'
  BY <1>6, QueueAssumption DEF Ask, CallersType, Gens
<1>7. ASSUME NEW p \in Pages, Correct(p) PROVE CallersType'
  <2>1. budget' \in [left : 0 .. MaxEvents, died : BOOLEAN]
    BY <1>7, QueueAssumption DEF Correct, CallersType
  <2>2. fix' = fix \/ fix' = [p |-> p, job |-> job[p]]
    BY <1>7 DEF Correct
  <2>3. fix' \in [p : Pages \cup {NoPage}, job : Jobs] /\ (fix' # NoFix => fix'.p \in Pages)
    BY <2>2 DEF CallersType, TablesType
  <2>4. UNCHANGED <<import, removal, clock>>
    BY <1>7 DEF Correct
  <2> QED
    BY <2>1, <2>3, <2>4 DEF CallersType
<1>8. CASE Crash
  <2>1. NoFix \in [p : Pages \cup {NoPage}, job : Jobs]
    BY NoJobFacts DEF NoFix
  <2>2. budget' \in [left : 0 .. MaxEvents, died : BOOLEAN]
    BY <1>8, QueueAssumption DEF Crash, CallersType
  <2> QED
    BY <1>8, <2>1, <2>2 DEF Crash, CallersType
<1>9. Kick \/ Runner \/ UNCHANGED vars => UNCHANGED callers
  BY DEF Kick, Runner, vars
<1>10. SyncDeletion \/ PageHide \/ (\E p \in Pages : SyncText(p))
         => budget.left > 0 /\ budget' = [budget EXCEPT !.left = @ - 1] /\ UNCHANGED <<import, fix, removal, clock>>
  BY DEF SyncDeletion, PageHide, SyncText
<1> QED
  BY <1>1, <1>2, <1>3, <1>4, <1>5, <1>6, <1>7, <1>8, <1>9, <1>10 DEF Next

LEMMA OthersTypeStep ==
  ASSUME Types, [Next]_vars
  PROVE  OthersType'
<1> USE DEF Types
<1>1. dirty' \in BOOLEAN /\ recovered' \in BOOLEAN
  <2>1. KickLoop => dirty' \in BOOLEAN
    BY DEF KickLoop
  <2>2. RunStep => dirty' \in BOOLEAN
    BY DEF RunStep, OthersType, TakeTurn, PickNothing, LeaveLoop, Pick, Start, DropJob, ReadPage, CommitText, SaveImage, HandOver, Fail,
           Abort, Finish, PutDone, CheckStore, Store, FailRead, FailSave, ReadStatus, WriteStatus
  <2>3. Runner => dirty' \in BOOLEAN /\ recovered' \in BOOLEAN
    BY <2>2 DEF Runner, Recover, OthersType
  <2>4. ImportPages \/ Kick \/ (\E p \in Pages : Ask(p)) => dirty' \in BOOLEAN /\ recovered' \in BOOLEAN
    BY <2>1 DEF ImportPages, Kick, Ask, OthersType
  <2>5. ImportDocument \/ CorrectPutJob \/ Tombstone \/ PurgeLocalData \/ CancelDocument \/ SyncDeletion \/ PageHide \/ Crash
        \/ (\E p \in Pages : Correct(p) \/ SyncText(p)) \/ UNCHANGED vars => dirty' \in BOOLEAN /\ recovered' \in BOOLEAN
    BY DEF ImportDocument, CorrectPutJob, Tombstone, PurgeLocalData, CancelDocument, SyncDeletion, PageHide, Crash, Correct, SyncText,
           runner, vars, OthersType
  <2> QED
    BY <2>3, <2>4, <2>5 DEF Next
<1>2. answer' \in [Pages -> [Gens -> Answers]]
  <2>1. answer \in [Pages -> [Gens -> Answers]] /\ {"waiting", "ok", "failed", "lost"} \subseteq Answers
    BY DEF OthersType, Answers
  <2>2. ASSUME NEW p \in Pages, NEW g, NEW a \in {"ok", "failed"}, Settle(p, g, a) PROVE answer' \in [Pages -> [Gens -> Answers]]
    BY <2>1, <2>2, SettleFacts
  <2>3. ASSUME NEW p \in Pages, Ask(p) PROVE answer' \in [Pages -> [Gens -> Answers]]
    BY <2>1, <2>3 DEF Ask
  <2>4. CASE CancelDocument \/ Crash
    BY <2>1, <2>4 DEF CancelDocument, Crash
  <2>5. CASE UNCHANGED answer
    BY <2>1, <2>5
  <2>6. DropJob \/ Finish \/ CheckStore \/ FailRead \/ FailSave
        => UNCHANGED answer \/ (run.p \in Pages /\ \E a \in {"ok", "failed"} : Settle(run.p, run.job.gen, a))
    BY DEF DropJob, Finish, CheckStore, FailRead, FailSave, RunType, Current
  <2>7. TakeTurn \/ PickNothing \/ LeaveLoop \/ (\E p \in Pages : Pick(p)) \/ Start \/ ReadPage \/ CommitText \/ SaveImage \/ HandOver
        \/ Fail \/ Abort \/ PutDone \/ Store \/ ReadStatus \/ WriteStatus \/ Recover => UNCHANGED answer
    BY DEF TakeTurn, PickNothing, LeaveLoop, Pick, Start, ReadPage, CommitText, SaveImage, HandOver, Fail, Abort, PutDone, Store,
           ReadStatus, WriteStatus, Recover
  <2>8. ImportDocument \/ ImportPages \/ Kick \/ CorrectPutJob \/ Tombstone \/ PurgeLocalData \/ SyncDeletion \/ PageHide
        \/ (\E p \in Pages : Correct(p) \/ SyncText(p)) \/ UNCHANGED vars => UNCHANGED answer
    BY DEF ImportDocument, ImportPages, Kick, CorrectPutJob, Tombstone, PurgeLocalData, SyncDeletion, PageHide, Correct, SyncText, vars
  <2> QED
    BY <2>2, <2>3, <2>4, <2>5, <2>6, <2>7, <2>8 DEF Next, Runner, RunStep
<1>3. crashes' \in [Pages -> [Gens -> Nat]]
  <2>1. CASE Crash
    <3>1. \A p \in Pages, g \in Gens : crashes[p][g] \in Nat
      BY DEF OthersType
    <3> QED
      BY <2>1, <3>1 DEF Crash
  <2>2. CASE UNCHANGED crashes
    BY <2>2 DEF OthersType
  <2>3. RunStep \/ Recover => UNCHANGED crashes
    BY DEF RunStep, TakeTurn, PickNothing, LeaveLoop, Pick, Start, DropJob, ReadPage, CommitText, SaveImage, HandOver, Fail,
           Abort, Finish, PutDone, CheckStore, Store, FailRead, FailSave, ReadStatus, WriteStatus, Recover, history
  <2>4. ImportDocument \/ ImportPages \/ Kick \/ CorrectPutJob \/ Tombstone \/ PurgeLocalData \/ CancelDocument \/ SyncDeletion \/ PageHide
        \/ (\E p \in Pages : Ask(p) \/ Correct(p) \/ SyncText(p)) \/ UNCHANGED vars => UNCHANGED crashes
    BY DEF ImportDocument, ImportPages, Kick, CorrectPutJob, Tombstone, PurgeLocalData, CancelDocument, SyncDeletion, PageHide,
           Ask, Correct, SyncText, vars, history
  <2> QED
    BY <2>1, <2>2, <2>3, <2>4 DEF Next, Runner
<1> QED
  BY <1>1, <1>2, <1>3 DEF OthersType

LEMMA TypesStep ==
  ASSUME Types, [Next]_vars
  PROVE  Types'
  BY RunTypeStep, TablesTypeStep, CallersTypeStep, OthersTypeStep DEF Types
----------------------------------------------------------------------------
(* The crash-loop guard.                                                   *)

\* A job that can run again has one attempt for every time the tab died under it.
GoodJob(j, deaths, now) ==
  /\ j.gen <= now /\ j.attempts <= MaxJobAttempts
  /\ j.state \in {"queued", "running"} => j.gen >= 1 /\ deaths[j.gen] <= j.attempts
  /\ j.state = "queued" => j.attempts < MaxJobAttempts

JobsGuard == \A p \in Pages : GoodJob(job[p], crashes[p], clock)
\* The picked record is good, whatever happens to the one in the table before it is written back.
LockGuard == run.at = "lock" => run.job.state = "queued" /\ GoodJob(run.job, crashes[run.p], clock)
\* The attempt that runs is counted already, in the table too as long as the job is the same.
RunGuard ==
  run.at \in Current =>
    /\ run.job.gen >= 1 /\ run.job.gen <= clock /\ run.job.attempts <= MaxJobAttempts
    /\ crashes[run.p][run.job.gen] + 1 <= run.job.attempts
    /\ job[run.p].gen = run.job.gen =>
         job[run.p].state # "queued" /\ (job[run.p].state = "running" => job[run.p].attempts = run.job.attempts)
WantGuard ==
  run.at \in {"store", "storing"} =>
    run.want.state \in {"queued", "error"} /\ run.want.gen = run.job.gen /\ GoodJob(run.want, crashes[run.p], clock)
RunnerGuard == LockGuard /\ RunGuard /\ WantGuard
FixGuard == fix # NoFix => fix.job.gen <= clock /\ fix.job.attempts <= MaxJobAttempts
\* A request that was not made has killed nothing.
NoFuture == \A p \in Pages, g \in Gens : g > clock => crashes[p][g] = 0

GuardInv == Types /\ JobsGuard /\ RunnerGuard /\ FixGuard /\ NoFuture /\ CrashLoopGuard

LEMMA PlaceFacts ==
  /\ Current = {"current", "work", "image", "finish", "finishing", "store", "storing", "failread", "failsave"}
  /\ Between = {"off", "top", "picking", "lock", "empty", "refresh", "saving"}
  BY DEF Current, Between

\* Between two runs there is nothing to guard but the table.
LEMMA GuardBetween ==
  ASSUME run'.at \notin Current \cup {"lock"}
  PROVE  RunnerGuard'
  BY PlaceFacts DEF RunnerGuard, LockGuard, RunGuard, WantGuard

\* The run goes on to another place with the same job, and the table is left alone.
LEMMA GuardOn ==
  ASSUME GuardInv, run.at \in Current, run'.p = run.p, run'.job = run.job, run'.want = run.want, UNCHANGED <<job, clock, crashes>>,
         run'.at # "lock", run'.at \in {"store", "storing"} => run.at \in {"store", "storing"}
  PROVE  RunnerGuard'
  BY DEF GuardInv, RunnerGuard, LockGuard, RunGuard, WantGuard

\* The table and the runner as they were.
LEMMA GuardSame ==
  ASSUME GuardInv, UNCHANGED <<job, clock, crashes>>, run'.at = run.at, run'.p = run.p, run'.job = run.job, run'.want = run.want
  PROVE  JobsGuard' /\ RunnerGuard' /\ NoFuture' /\ CrashLoopGuard'
  BY DEF GuardInv, JobsGuard, RunnerGuard, LockGuard, RunGuard, WantGuard, NoFuture, CrashLoopGuard

LEMMA GuardTable ==
  ASSUME GuardInv, UNCHANGED <<job, clock, crashes>>
  PROVE  JobsGuard' /\ NoFuture' /\ CrashLoopGuard'
  BY DEF GuardInv, JobsGuard, NoFuture, CrashLoopGuard

\* A good record is put.
LEMMA GuardPut ==
  ASSUME GuardInv, NEW p \in Pages, NEW j, job' = [job EXCEPT ![p] = j], GoodJob(j, crashes[p], clock), UNCHANGED <<clock, crashes>>
  PROVE  JobsGuard' /\ NoFuture' /\ CrashLoopGuard'
<1>1. job \in [Pages -> Jobs]
  BY DEF GuardInv, Types, TablesType
<1> QED
  BY <1>1 DEF GuardInv, JobsGuard, NoFuture, CrashLoopGuard

\* Jobs that are gone.
LEMMA GuardNoJob ==
  ASSUME NEW deaths, NEW now \in Nat
  PROVE  GoodJob(NoJob, deaths, now)
  BY NoJobFacts, QueueAssumption DEF GoodJob

LEMMA InitGuard == Init => GuardInv
<1> SUFFICES ASSUME Init PROVE GuardInv
  OBVIOUS
<1>1. Types
  BY InitTypes
<1>2. Job("queued", 1, 0).state = "queued" /\ Job("queued", 1, 0).gen = 1 /\ Job("queued", 1, 0).attempts = 0
  BY DEF Job
<1>3. 1 \in Gens
  BY QueueAssumption DEF Gens
<1>4. JobsGuard
  BY <1>2, <1>3, QueueAssumption DEF Init, JobsGuard, GoodJob
<1>5. run.at = "off" /\ fix = NoFix
  BY DEF Init, Idle
<1>6. RunnerGuard
  BY <1>5, PlaceFacts DEF RunnerGuard, LockGuard, RunGuard, WantGuard
<1>7. NoFuture /\ CrashLoopGuard
  BY QueueAssumption DEF Init, NoFuture, CrashLoopGuard
<1> QED
  BY <1>1, <1>4, <1>5, <1>6, <1>7 DEF GuardInv, FixGuard

\* What the steps of the runner leave alone.
LEMMA RunnerKeeps ==
  ASSUME RunStep \/ Recover
  PROVE  UNCHANGED crashes
  BY DEF RunStep, TakeTurn, PickNothing, LeaveLoop, Pick, Start, DropJob, ReadPage, CommitText, SaveImage, HandOver, Fail,
         Abort, Finish, PutDone, CheckStore, Store, FailRead, FailSave, ReadStatus, WriteStatus, Recover, history

GuardOK == JobsGuard' /\ RunnerGuard' /\ NoFuture' /\ CrashLoopGuard'

LEMMA RunnerGuardStep ==
  ASSUME GuardInv, RunStep, UNCHANGED clock
  PROVE  GuardOK
<1>1. UNCHANGED <<clock, crashes>>
  BY RunnerKeeps
<1>2. /\ job \in [Pages -> Jobs] /\ page \in [Pages -> PageStates] /\ run \in Runs /\ run.job \in Jobs /\ clock \in Nat /\ clock \in Gens
      /\ run.at \in Current \cup {"lock"} => run.p \in Pages
      /\ crashes \in [Pages -> [Gens -> Nat]]
  BY DEF GuardInv, Types, TablesType, RunType, CallersType, OthersType, Runs, Gens
<1>3. CASE TakeTurn \/ PickNothing \/ LeaveLoop
  <2>1. UNCHANGED job /\ \E x \in {"picking", "empty", "off", "top"} : RunAt(x)
    BY <1>3 DEF TakeTurn, PickNothing, LeaveLoop, AfterLoop, tables
  <2>2. run'.at \notin Current \cup {"lock"}
    BY <1>2, <2>1, PlaceFacts, RunAtFacts
  <2> QED
    BY <1>1, <2>1, <2>2, GuardBetween, GuardTable DEF GuardOK
<1>4. ASSUME NEW p \in Pages, Pick(p) PROVE GuardOK
  <2>1. UNCHANGED job /\ job[p].state = "queued" /\ run' = [Idle EXCEPT !.at = "lock", !.p = p, !.job = job[p]]
    BY <1>4 DEF Pick, Queued, tables
  <2>2. run'.at = "lock" /\ run'.p = p /\ run'.job = job[p]
    BY <2>1 DEF Idle
  <2>3. RunnerGuard'
    BY <1>1, <2>1, <2>2, PlaceFacts DEF GuardInv, JobsGuard, RunnerGuard, LockGuard, RunGuard, WantGuard
  <2> QED
    BY <1>1, <2>1, <2>3, GuardTable DEF GuardOK
<1>5. CASE Start
  <2> DEFINE j == Job("running", run.job.gen, run.job.attempts + 1)
  <2>1. run.at = "lock" /\ run.p \in Pages /\ job' = [job EXCEPT ![run.p] = j] /\ run' = [run EXCEPT !.at = "current", !.job = j]
    BY <1>2, <1>5 DEF Start
  <2>2. run.job.gen \in Nat /\ run.job.attempts \in Nat
    BY <1>2 DEF Jobs
  <2>3. j.state = "running" /\ j.gen = run.job.gen /\ j.attempts = run.job.attempts + 1
    BY DEF Job
  <2> HIDE DEF j
  <2>4. run.job.state = "queued" /\ GoodJob(run.job, crashes[run.p], clock)
    BY <2>1 DEF GuardInv, RunnerGuard, LockGuard
  <2>5. run.job.gen \in Gens
    BY <1>2, <2>2, <2>4, QueueAssumption DEF GoodJob, Gens
  <2>6. crashes[run.p][run.job.gen] \in Nat
    BY <1>2, <2>1, <2>5
  <2>7. GoodJob(j, crashes[run.p], clock) /\ crashes[run.p][j.gen] + 1 <= j.attempts /\ j.gen >= 1
    BY <2>2, <2>3, <2>4, <2>6, QueueAssumption DEF GoodJob
  <2>8. run'.at = "current" /\ run'.p = run.p /\ run'.job = j
    BY <1>2, <2>1 DEF Runs
  <2>9. job'[run.p] = j
    BY <1>2, <2>1
  <2>10. RunGuard'
    BY <1>1, <2>3, <2>7, <2>8, <2>9 DEF RunGuard, GoodJob
  <2>11. LockGuard' /\ WantGuard'
    BY <2>8 DEF LockGuard, WantGuard
  <2> QED
    BY <1>1, <2>1, <2>7, <2>10, <2>11, GuardPut DEF GuardOK, RunnerGuard
<1>6. CASE DropJob
  <2>1. run'.at \notin Current \cup {"lock"}
    BY <1>6, ClosingFacts DEF DropJob
  <2>2. job' = [job EXCEPT ![run.p] = NoJob] /\ run.p \in Pages
    BY <1>2, <1>6, PlaceFacts DEF DropJob
  <2> QED
    BY <1>1, <1>2, <2>1, <2>2, GuardBetween, GuardPut, GuardNoJob DEF GuardOK
<1>7. CASE ReadPage \/ CommitText \/ SaveImage \/ HandOver
  <2>1. UNCHANGED job /\ run.at \in Current
    BY <1>7, PlaceFacts DEF ReadPage, CommitText, SaveImage, HandOver, tables
  <2>2. \E x \in {"work", "finish", "image"} :
          \/ run' = [run EXCEPT !.at = x, !.prev = page[run.p]] \/ run' = [run EXCEPT !.at = x, !.aborted = FALSE]
          \/ \E b \in BOOLEAN : run' = [run EXCEPT !.at = x, !.prev = "absent", !.aborted = b]
    <3>1. CASE ReadPage \/ SaveImage
      BY <3>1 DEF ReadPage, SaveImage
    <3>2. CASE CommitText \/ HandOver
      BY <1>2, <3>2, RunType_After
    <3> QED
      BY <1>7, <3>1, <3>2
  <2>3. run'.at \in {"work", "finish", "image"} /\ run'.p = run.p /\ run'.job = run.job /\ run'.want = run.want
    BY <1>2, <2>2 DEF Runs
  <2> QED
    BY <1>1, <2>1, <2>3, GuardOn, GuardTable DEF GuardOK
<1>8. CASE Fail
  <2>1. PICK permanent \in BOOLEAN :
          run' = [run EXCEPT !.at = "store", !.prev = "absent", !.want = [run.job EXCEPT !.state = AfterFailure(permanent)]]
    BY <1>8 DEF Fail
  <2> DEFINE w == [run.job EXCEPT !.state = AfterFailure(permanent)]
  <2>2. AfterFailure(permanent) \in {"error", "queued"} /\ (AfterFailure(permanent) = "queued" => ~(run.job.attempts >= MaxJobAttempts))
    BY DEF AfterFailure
  <2>3. w.state = AfterFailure(permanent) /\ w.gen = run.job.gen /\ w.attempts = run.job.attempts
    BY <1>2, <2>2, JobStateFacts, Words
  <2>4. UNCHANGED job /\ run.at \in Current /\ run.at = "work"
    BY <1>8, PlaceFacts DEF Fail, tables
  <2>5. run' = [run EXCEPT !.at = "store", !.prev = "absent", !.want = w]
    BY <2>1
  <2> HIDE DEF w
  <2>6. run'.at = "store" /\ run'.p = run.p /\ run'.job = run.job /\ run'.want = w
    BY <1>2, <2>5 DEF Runs
  <2>7. /\ run.job.gen >= 1 /\ run.job.gen <= clock /\ run.job.attempts <= MaxJobAttempts
        /\ crashes[run.p][run.job.gen] + 1 <= run.job.attempts
    BY <2>4 DEF GuardInv, RunnerGuard, RunGuard
  <2>8. run.job.gen \in Nat /\ run.job.attempts \in Nat /\ crashes[run.p][run.job.gen] \in Nat
    <3>1. run.job.gen \in Gens /\ run.p \in Pages
      BY <1>2, <2>4, <2>7, QueueAssumption DEF Gens, Jobs
    <3> QED
      BY <1>2, <3>1 DEF Jobs
  <2>9. GoodJob(w, crashes[run.p], clock)
    BY <2>2, <2>3, <2>7, <2>8, QueueAssumption DEF GoodJob
  <2>10. WantGuard'
    BY <1>1, <2>2, <2>3, <2>6, <2>9 DEF WantGuard
  <2>11. LockGuard' /\ RunGuard'
    BY <1>1, <2>4, <2>6, PlaceFacts DEF GuardInv, RunnerGuard, LockGuard, RunGuard
  <2> QED
    BY <1>1, <2>4, <2>10, <2>11, GuardTable DEF GuardOK, RunnerGuard
<1>9. CASE Abort
  <2>1. UNCHANGED job /\ run.at \in Current
    BY <1>9, PlaceFacts DEF Abort, tables
  <2>2. CASE ~Live
    <3>1. run'.at \notin Current \cup {"lock"}
      BY <1>9, <2>2, ClosingFacts DEF Abort
    <3> QED
      BY <1>1, <2>1, <3>1, GuardBetween, GuardTable DEF GuardOK
  <2>3. CASE Live
    <3> DEFINE w == Job("queued", run.job.gen, run.job.attempts - 1)
    <3>1. run' = [run EXCEPT !.at = "store", !.prev = "absent", !.aborted = FALSE, !.want = w]
      BY <1>9, <2>3 DEF Abort
    <3>2. w.state = "queued" /\ w.gen = run.job.gen /\ w.attempts = run.job.attempts - 1
      BY DEF Job
    <3> HIDE DEF w
    <3>3. run'.at = "store" /\ run'.p = run.p /\ run'.job = run.job /\ run'.want = w
      BY <1>2, <3>1 DEF Runs
    <3>4. /\ run.job.gen >= 1 /\ run.job.gen <= clock /\ run.job.attempts <= MaxJobAttempts
          /\ crashes[run.p][run.job.gen] + 1 <= run.job.attempts
      BY <2>1 DEF GuardInv, RunnerGuard, RunGuard
    <3>5. run.job.gen \in Nat /\ run.job.attempts \in Nat /\ crashes[run.p][run.job.gen] \in Nat
      <4>1. run.job.gen \in Gens /\ run.p \in Pages
        BY <1>2, <2>1, <3>4, QueueAssumption DEF Gens, Jobs
      <4> QED
        BY <1>2, <4>1 DEF Jobs
    <3>6. GoodJob(w, crashes[run.p], clock)
      BY <3>2, <3>4, <3>5, QueueAssumption DEF GoodJob
    <3>7. WantGuard'
      BY <1>1, <3>2, <3>3, <3>6 DEF WantGuard
    <3>8. LockGuard' /\ RunGuard'
      BY <1>1, <2>1, <3>3, PlaceFacts DEF GuardInv, RunnerGuard, LockGuard, RunGuard
    <3> QED
      BY <1>1, <2>1, <3>7, <3>8, GuardTable DEF GuardOK, RunnerGuard
  <2> QED
    BY <2>2, <2>3
<1>10. CASE Finish \/ CheckStore \/ FailRead
  <2>1. UNCHANGED job /\ run.at \in Current
    BY <1>10, PlaceFacts DEF Finish, CheckStore, FailRead, tables
  <2>2. \/ Closing
        \/ RunAt("finishing") \/ (RunAt("storing") /\ run.at = "store") \/ RunAt("failsave")
    BY <1>10 DEF Finish, CheckStore, FailRead
  <2>3. CASE Closing
    BY <1>1, <2>1, <2>3, ClosingFacts, GuardBetween, GuardTable DEF GuardOK
  <2>4. CASE ~Closing
    <3>1. run'.p = run.p /\ run'.job = run.job /\ run'.want = run.want /\ run'.at # "lock" /\ (run'.at \in {"store", "storing"} => run.at = "store")
      BY <1>2, <2>2, <2>4, RunAtFacts, PlaceFacts
    <3> QED
      BY <1>1, <2>1, <3>1, GuardOn, GuardTable DEF GuardOK
  <2> QED
    BY <2>3, <2>4
<1>11. CASE PutDone
  <2>1. run'.at \notin Current \cup {"lock"} /\ run.at \in Current /\ run.p \in Pages
    BY <1>2, <1>11, ClosingFacts, PlaceFacts DEF PutDone
  <2> DEFINE j == Job("done", run.job.gen, 0)
  <2>2. job' = [job EXCEPT ![run.p] = j]
    BY <1>11 DEF PutDone
  <2>3. j.state = "done" /\ j.gen = run.job.gen /\ j.attempts = 0
    BY DEF Job
  <2> HIDE DEF j
  <2>4. run.job.gen <= clock
    BY <2>1 DEF GuardInv, RunnerGuard, RunGuard
  <2>5. GoodJob(j, crashes[run.p], clock)
    BY <2>3, <2>4, QueueAssumption DEF GoodJob
  <2> QED
    BY <1>1, <2>1, <2>2, <2>5, GuardBetween, GuardPut DEF GuardOK
<1>12. CASE Store
  <2>1. run.at = "storing" /\ run.at \in Current /\ run.p \in Pages /\ job' = [job EXCEPT ![run.p] = run.want]
    BY <1>2, <1>12, PlaceFacts DEF Store
  <2>2. run.want.state \in {"queued", "error"} /\ run.want.gen = run.job.gen /\ GoodJob(run.want, crashes[run.p], clock)
    BY <2>1 DEF GuardInv, RunnerGuard, WantGuard
  <2>3. JobsGuard' /\ NoFuture' /\ CrashLoopGuard'
    BY <1>1, <2>1, <2>2, GuardPut
  <2>4. CASE run.want.state = "error"
    <3>1. RunAt("failread")
      BY <1>12, <2>4 DEF Store
    <3>2. run'.at = "failread" /\ run'.p = run.p /\ run'.job = run.job
      BY <1>2, <3>1, RunAtFacts, PlaceFacts
    <3>3. job'[run.p] = run.want
      BY <1>2, <2>1
    <3>4. RunnerGuard'
      BY <1>1, <2>1, <2>4, <3>2, <3>3 DEF GuardInv, RunnerGuard, LockGuard, RunGuard, WantGuard
    <3> QED
      BY <2>3, <3>4 DEF GuardOK
  <2>5. CASE run.want.state # "error"
    BY <1>12, <2>3, <2>5, ClosingFacts, GuardBetween DEF Store, GuardOK
  <2> QED
    BY <2>4, <2>5
<1>13. CASE FailSave
  BY <1>1, <1>13, ClosingFacts, GuardBetween, GuardTable DEF FailSave, GuardOK
<1>14. CASE ReadStatus \/ WriteStatus
  <2>1. UNCHANGED job
    BY <1>14 DEF ReadStatus, WriteStatus, tables
  <2>2. run' = [Idle EXCEPT !.at = "top"] \/ run' = [Idle EXCEPT !.at = "saving", !.status = DeriveStatus(page)]
    BY <1>14 DEF ReadStatus, WriteStatus
  <2>3. run'.at \notin Current \cup {"lock"}
    BY <2>2, PlaceFacts DEF Idle
  <2> QED
    BY <1>1, <2>1, <2>3, GuardBetween, GuardTable DEF GuardOK
<1> QED
  BY <1>3, <1>4, <1>5, <1>6, <1>7, <1>8, <1>9, <1>10, <1>11, <1>12, <1>13, <1>14 DEF RunStep

LEMMA RecoverGuardStep ==
  ASSUME GuardInv, Recover, UNCHANGED clock
  PROVE  GuardOK
<1>1. /\ job \in [Pages -> Jobs] /\ clock \in Nat
      /\ UNCHANGED <<clock, crashes, run>> /\ run.at = "top" /\ job' = [p \in Pages |-> IF Live THEN Recovered(p) ELSE NoJob]
  BY RunnerKeeps DEF GuardInv, Types, TablesType, CallersType, Gens, Recover
<1>2. RunnerGuard'
  BY <1>1, PlaceFacts, GuardBetween
<1>3. ASSUME NEW p \in Pages PROVE GoodJob(job'[p], crashes[p], clock)
  <2>1. GoodJob(job[p], crashes[p], clock)
    BY DEF GuardInv, JobsGuard
  <2>2. CASE ~Live
    BY <1>1, <2>2, GuardNoJob
  <2>3. CASE Live
    <3> DEFINE j == Recovered(p)
    <3>1. job'[p] = j
      BY <1>1, <2>3
    <3>2. /\ j.gen = job[p].gen /\ j.attempts = job[p].attempts
          /\ job[p].state # "running" => j.state = job[p].state
          /\ job[p].state = "running" => j.state = IF job[p].attempts >= MaxJobAttempts THEN "error" ELSE "queued"
      BY <1>1, RecoveredFacts
    <3> HIDE DEF j
    <3>3. job[p].attempts \in Nat
      BY <1>1 DEF Jobs
    <3>4. GoodJob(j, crashes[p], clock)
      BY <2>1, <3>2, <3>3, QueueAssumption DEF GoodJob
    <3> QED
      BY <3>1, <3>4
  <2> QED
    BY <2>2, <2>3
<1>4. JobsGuard'
  BY <1>1, <1>3 DEF JobsGuard
<1> QED
  BY <1>1, <1>2, <1>4 DEF GuardOK, GuardInv, NoFuture, CrashLoopGuard

\* Time goes on.
LEMMA GoodJobLater ==
  ASSUME NEW j, NEW deaths, NEW now \in Nat, GoodJob(j, deaths, now), j \in Jobs
  PROVE  GoodJob(j, deaths, now + 1)
  BY DEF GoodJob, Jobs

LEMMA AskGuardStep ==
  ASSUME GuardInv, NEW p \in Pages, Ask(p)
  PROVE  GuardOK
<1>1. /\ job \in [Pages -> Jobs] /\ run \in Runs /\ run.job \in Jobs /\ run.want \in Jobs /\ clock \in Nat /\ clock' = clock + 1
      /\ clock' \in Gens /\ UNCHANGED crashes /\ KickLoop
      /\ run.at \in Current \cup {"lock"} => run.p \in Pages
  BY QueueAssumption DEF GuardInv, Types, TablesType, RunType, CallersType, Runs, Gens, Ask, history
<1> DEFINE j == Job("queued", clock', 0)
<1>2. job' = [job EXCEPT ![p] = j]
  BY DEF Ask
<1>3. j.state = "queued" /\ j.gen = clock + 1 /\ j.attempts = 0
  BY <1>1 DEF Job
<1> HIDE DEF j
<1>4. GoodJob(j, crashes[p], clock')
  <2>1. crashes[p][clock + 1] = 0
    BY <1>1 DEF GuardInv, NoFuture
  <2> QED
    BY <1>1, <1>3, <2>1, QueueAssumption DEF GoodJob
<1>5. JobsGuard'
  <2> SUFFICES ASSUME NEW q \in Pages PROVE GoodJob(job'[q], crashes[q], clock')
    BY <1>1 DEF JobsGuard
  <2>1. CASE q = p
    BY <1>1, <1>2, <1>4, <2>1
  <2>2. CASE q # p
    <3>1. GoodJob(job[q], crashes[q], clock) /\ job[q] \in Jobs /\ job'[q] = job[q]
      BY <1>1, <1>2, <2>2 DEF GuardInv, JobsGuard
    <3> QED
      BY <1>1, <3>1, GoodJobLater
  <2> QED
    BY <2>1, <2>2
<1>6. RunnerGuard'
  <2>1. CASE run.at = "off"
    BY <1>1, <2>1, PlaceFacts, GuardBetween DEF KickLoop, Runs
  <2>2. CASE run.at # "off"
    <3>1. run' = run
      BY <1>1, <2>2, KickFacts
    <3>2. LockGuard'
      BY <1>1, <3>1, GoodJobLater DEF GuardInv, RunnerGuard, LockGuard
    <3>3. WantGuard'
      BY <1>1, <3>1, GoodJobLater DEF GuardInv, RunnerGuard, WantGuard
    <3>4. RunGuard'
      <4> SUFFICES ASSUME run.at \in Current
                   PROVE  /\ run.job.gen >= 1 /\ run.job.gen <= clock' /\ run.job.attempts <= MaxJobAttempts
                          /\ crashes[run.p][run.job.gen] + 1 <= run.job.attempts
                          /\ job'[run.p].gen = run.job.gen =>
                               job'[run.p].state # "queued" /\ (job'[run.p].state = "running" => job'[run.p].attempts = run.job.attempts)
        BY <1>1, <3>1 DEF RunGuard
      <4>1. /\ run.job.gen >= 1 /\ run.job.gen <= clock /\ run.job.attempts <= MaxJobAttempts
            /\ crashes[run.p][run.job.gen] + 1 <= run.job.attempts
            /\ job[run.p].gen = run.job.gen =>
                 job[run.p].state # "queued" /\ (job[run.p].state = "running" => job[run.p].attempts = run.job.attempts)
        BY DEF GuardInv, RunnerGuard, RunGuard
      <4>2. run.job.gen \in Nat /\ run.p \in Pages
        BY <1>1 DEF Jobs
      <4>3. job'[run.p] = job[run.p] \/ job'[run.p].gen = clock + 1
        BY <1>1, <1>2, <1>3, <4>2
      <4> QED
        BY <1>1, <4>1, <4>2, <4>3
    <3> QED
      BY <3>2, <3>3, <3>4 DEF RunnerGuard
  <2> QED
    BY <2>1, <2>2
<1>7. NoFuture' /\ CrashLoopGuard'
  BY <1>1 DEF GuardInv, NoFuture, CrashLoopGuard, Gens
<1> QED
  BY <1>5, <1>6, <1>7 DEF GuardOK

LEMMA CorrectPutGuardStep ==
  ASSUME GuardInv, CorrectPutJob
  PROVE  GuardOK
<1>1. /\ job \in [Pages -> Jobs] /\ fix.p \in Pages /\ fix.job \in Jobs /\ run \in Runs
      /\ UNCHANGED <<clock, crashes, run>>
      /\ fix.job.gen <= clock /\ fix.job.attempts <= MaxJobAttempts
  BY DEF GuardInv, Types, TablesType, RunType, CallersType, CorrectPutJob, history, runner, FixGuard
<1> DEFINE j == [fix.job EXCEPT !.state = "done"]
<1>2. job' = [job EXCEPT ![fix.p] = j]
  BY DEF CorrectPutJob
<1>3. j.state = "done" /\ j.gen = fix.job.gen /\ j.attempts = fix.job.attempts
  BY <1>1, JobStateFacts, Words
<1> HIDE DEF j
<1>4. GoodJob(j, crashes[fix.p], clock)
  BY <1>1, <1>3 DEF GoodJob
<1>5. JobsGuard' /\ NoFuture' /\ CrashLoopGuard'
  BY <1>1, <1>2, <1>4, GuardPut
<1>6. LockGuard' /\ WantGuard'
  BY <1>1 DEF GuardInv, RunnerGuard, LockGuard, WantGuard
<1>7. RunGuard'
  <2>1. \A q \in Pages : job'[q] = job[q] \/ job'[q].state = "done"
    BY <1>1, <1>2, <1>3
  <2>2. run.at \in Current => run.p \in Pages
    BY DEF GuardInv, Types, RunType
  <2> QED
    BY <1>1, <2>1, <2>2 DEF GuardInv, RunnerGuard, RunGuard
<1> QED
  BY <1>5, <1>6, <1>7 DEF GuardOK, RunnerGuard

\* Every job of the document is gone.
LEMMA DropAllGuardStep ==
  ASSUME GuardInv, CancelDocument \/ PurgeLocalData
  PROVE  GuardOK
<1>1. /\ job \in [Pages -> Jobs] /\ run \in Runs /\ clock \in Nat
      /\ UNCHANGED <<clock, crashes>> /\ job' = [q \in Pages |-> NoJob]
      /\ run.at \in Current => run.p \in Pages
  BY DEF GuardInv, Types, TablesType, RunType, CallersType, CancelDocument, PurgeLocalData, history, Gens
<1>2. run'.at = run.at /\ run'.p = run.p /\ run'.job = run.job /\ run'.want = run.want
  BY <1>1 DEF CancelDocument, PurgeLocalData, AbortRun, Runs, runner
<1>3. JobsGuard'
  BY <1>1, GuardNoJob DEF JobsGuard
<1>4. RunnerGuard'
  BY <1>1, <1>2, NoJobFacts DEF GuardInv, RunnerGuard, LockGuard, RunGuard, WantGuard
<1> QED
  BY <1>1, <1>3, <1>4 DEF GuardOK, GuardInv, NoFuture, CrashLoopGuard

LEMMA CrashGuardStep ==
  ASSUME GuardInv, Crash
  PROVE  GuardOK
<1> DEFINE hit(p, g) == run.at \in Current /\ run.p = p /\ run.job.gen = g
<1>1. /\ job \in [Pages -> Jobs] /\ run \in Runs /\ run.job \in Jobs /\ clock \in Gens /\ crashes \in [Pages -> [Gens -> Nat]]
      /\ UNCHANGED <<clock, job>>
  BY DEF GuardInv, Types, TablesType, RunType, CallersType, OthersType, Runs, Crash, tables
<1>2. \A p \in Pages, g \in Gens : crashes'[p][g] = crashes[p][g] + IF hit(p, g) THEN 1 ELSE 0
  BY DEF Crash
<1>3. \A p \in Pages, g \in Gens : hit(p, g) =>
        /\ g <= clock /\ run.job.attempts <= MaxJobAttempts /\ crashes[p][g] + 1 <= run.job.attempts
        /\ job[p].gen = g => job[p].state # "queued" /\ (job[p].state = "running" => job[p].attempts = run.job.attempts)
  BY DEF GuardInv, RunnerGuard, RunGuard
<1>4. \A p \in Pages, g \in Gens : crashes[p][g] \in Nat
  BY <1>1
<1> HIDE DEF hit
<1>5. CrashLoopGuard'
  <2> SUFFICES ASSUME NEW p \in Pages, NEW g \in Gens PROVE crashes'[p][g] <= MaxJobAttempts
    BY DEF CrashLoopGuard
  <2>1. crashes[p][g] <= MaxJobAttempts /\ run.job.attempts \in Nat
    BY <1>1 DEF GuardInv, CrashLoopGuard, Jobs
  <2> QED
    BY <1>2, <1>3, <1>4, <2>1, QueueAssumption
<1>6. NoFuture'
  <2> SUFFICES ASSUME NEW p \in Pages, NEW g \in Gens, g > clock PROVE crashes'[p][g] = 0
    BY <1>1 DEF NoFuture
  <2>1. crashes[p][g] = 0 /\ ~hit(p, g)
    BY <1>1, <1>3 DEF GuardInv, NoFuture, Gens
  <2> QED
    BY <1>2, <2>1
<1>7. JobsGuard'
  <2> SUFFICES ASSUME NEW p \in Pages PROVE GoodJob(job[p], crashes'[p], clock)
    BY <1>1 DEF JobsGuard
  <2>1. GoodJob(job[p], crashes[p], clock)
    BY DEF GuardInv, JobsGuard
  <2>2. job[p].gen \in Nat /\ job[p].attempts \in Nat /\ run.job.attempts \in Nat
    BY <1>1 DEF Jobs
  <2>3. ASSUME job[p].state \in {"queued", "running"} PROVE job[p].gen >= 1 /\ crashes'[p][job[p].gen] <= job[p].attempts
    <3>1. job[p].gen \in Gens /\ crashes[p][job[p].gen] <= job[p].attempts
      BY <1>1, <2>1, <2>2, <2>3, QueueAssumption DEF GoodJob, Gens
    <3>2. CASE hit(p, job[p].gen)
      BY <1>2, <1>3, <1>4, <2>2, <2>3, <3>1, <3>2 DEF Gens
    <3>3. CASE ~hit(p, job[p].gen)
      BY <1>2, <1>4, <2>2, <3>1, <3>3 DEF Gens
    <3> QED
      BY <3>2, <3>3
  <2> QED
    BY <2>1, <2>3 DEF GoodJob
<1>8. RunnerGuard'
  <2>1. run'.at = "top"
    BY DEF Crash, Idle
  <2> QED
    BY <2>1, PlaceFacts, GuardBetween
<1> QED
  BY <1>5, <1>6, <1>7, <1>8 DEF GuardOK

LEMMA FixGuardStep ==
  ASSUME GuardInv, [Next]_vars
  PROVE  FixGuard'
<1>1. clock \in Nat /\ clock' \in Nat /\ clock <= clock' /\ fix.job \in Jobs
  <2>1. clock' = clock \/ \E p \in Pages : Ask(p)
    BY DEF Next, Runner, callers, ImportDocument, ImportPages, CorrectPutJob, Tombstone, PurgeLocalData, Kick, CancelDocument, SyncDeletion,
           PageHide, Crash, Correct, SyncText, vars
  <2>2. clock \in Nat
    BY DEF GuardInv, Types, CallersType, Gens
  <2> QED
    BY <2>1, <2>2 DEF Ask, GuardInv, Types, CallersType
<1>2. ASSUME NEW p \in Pages, Correct(p) PROVE FixGuard'
  <2>1. clock' = clock /\ (fix' = fix \/ fix' = [p |-> p, job |-> job[p]])
    BY <1>2 DEF Correct
  <2>2. GoodJob(job[p], crashes[p], clock)
    BY DEF GuardInv, JobsGuard
  <2> QED
    BY <2>1, <2>2 DEF GuardInv, FixGuard, GoodJob
<1>3. CASE fix' = NoFix
  BY <1>3 DEF FixGuard
<1>4. CASE fix' = fix
  BY <1>1, <1>4 DEF GuardInv, FixGuard, Jobs
<1>5. fix' = fix \/ fix' = NoFix \/ \E p \in Pages : Correct(p)
  BY DEF Next, Runner, callers, ImportDocument, ImportPages, CorrectPutJob, Tombstone, PurgeLocalData, Kick, CancelDocument, SyncDeletion,
         PageHide, Crash, Ask, SyncText, vars
<1> QED
  BY <1>2, <1>3, <1>4, <1>5

LEMMA GuardStep ==
  ASSUME GuardInv, [Next]_vars
  PROVE  GuardInv'
<1>1. Types' /\ FixGuard'
  BY TypesStep, FixGuardStep DEF GuardInv
<1>2. run \in Runs
  BY DEF GuardInv, Types, RunType
<1>3. ASSUME Runner PROVE GuardOK
  BY <1>3, RunnerGuardStep, RecoverGuardStep DEF Runner, callers
<1>4. ASSUME NEW p \in Pages, Ask(p) PROVE GuardOK
  BY <1>4, AskGuardStep
<1>5. ASSUME CorrectPutJob PROVE GuardOK
  BY <1>5, CorrectPutGuardStep
<1>6. ASSUME CancelDocument \/ PurgeLocalData PROVE GuardOK
  BY <1>6, DropAllGuardStep
<1>7. ASSUME Crash PROVE GuardOK
  BY <1>7, CrashGuardStep
<1>8. ASSUME UNCHANGED <<job, clock, crashes>>, UNCHANGED run \/ KickLoop \/ AbortRun PROVE GuardOK
  <2>1. CASE run.at = "off" /\ KickLoop
    <3>1. run'.at = "top"
      BY <1>2, <2>1 DEF KickLoop, Runs
    <3> QED
      BY <1>8, <3>1, PlaceFacts, GuardBetween, GuardTable DEF GuardOK
  <2>2. CASE ~(run.at = "off" /\ KickLoop)
    <3>1. run'.at = run.at /\ run'.p = run.p /\ run'.job = run.job /\ run'.want = run.want
      BY <1>2, <1>8, <2>2, KickFacts DEF AbortRun, Runs
    <3> QED
      BY <1>8, <3>1, GuardSame DEF GuardOK
  <2> QED
    BY <2>1, <2>2
<1>9. ImportDocument \/ ImportPages \/ Tombstone \/ Kick \/ SyncDeletion \/ PageHide \/ (\E p \in Pages : Correct(p) \/ SyncText(p))
      \/ UNCHANGED vars => UNCHANGED <<job, clock, crashes>> /\ (UNCHANGED run \/ KickLoop \/ AbortRun)
  BY DEF ImportDocument, ImportPages, Tombstone, Kick, SyncDeletion, PageHide, Correct, SyncText, vars, tables, history, runner, callers
<1>10. GuardOK
  BY <1>3, <1>4, <1>5, <1>6, <1>7, <1>8, <1>9 DEF Next
<1> QED
  BY <1>1, <1>10 DEF GuardInv, GuardOK

(***************************************************************************)
(* The inductive invariant of the crash-loop guard, with the types.        *)
(***************************************************************************)
THEOREM GuardInvCorrect == Spec => []GuardInv
<1>1. Init => GuardInv
  BY InitGuard
<1>2. GuardInv /\ [Next]_vars => GuardInv'
  BY GuardStep
<1> QED
  BY <1>1, <1>2, PTL DEF Spec

(***************************************************************************)
(* Type correctness: also, no job has more attempts than the limit, nor a  *)
(* generation that nobody asked for.                                       *)
(***************************************************************************)
THEOREM TypeCorrect == Spec => []TypeOK
<1>1. GuardInv => TypeOK
  <2> SUFFICES ASSUME GuardInv PROVE TypeOK
    OBVIOUS
  <2>1. job \in [Pages -> [state : JobStates, gen : 0 .. MaxGen, attempts : 0 .. MaxJobAttempts]]
    <3>1. job \in [Pages -> Jobs] /\ clock \in Gens
      BY DEF GuardInv, Types, TablesType, CallersType
    <3>2. ASSUME NEW p \in Pages PROVE job[p] \in [state : JobStates, gen : 0 .. MaxGen, attempts : 0 .. MaxJobAttempts]
      <4>1. job[p] \in Jobs /\ job[p].gen <= clock /\ job[p].attempts <= MaxJobAttempts
        BY <3>1 DEF GuardInv, JobsGuard, GoodJob
      <4> QED
        BY <3>1, <4>1, QueueAssumption DEF Jobs, Gens
    <3> QED
      BY <3>1, <3>2
  <2> QED
    BY <2>1, PlaceFacts DEF GuardInv, Types, TablesType, RunType, CallersType, OthersType, TypeOK, Docs, Runs, Answers
<1> QED
  BY <1>1, GuardInvCorrect, PTL

(***************************************************************************)
(* CrashLoopGuard, for every number of pages, requests and events: one     *)
(* request lets a page kill the tab at most MaxJobAttempts times.          *)
(***************************************************************************)
THEOREM CrashLoopGuardCorrect == Spec => []CrashLoopGuard
  BY GuardInvCorrect, PTL DEF GuardInv
----------------------------------------------------------------------------
(* The answers of explicit requests.                                       *)

\* Nobody waits for the import, and what is about to be answered was written by this run.
AnswerInv ==
  /\ \A p \in Pages : answer[p][1] = "none"
  /\ run.at \in {"image", "finish"} => run.job.gen = 1 \/ <<run.p, run.job.gen>> \in processed
  /\ AnsweredByOwnRun

AInv == GuardInv /\ AnswerInv

LEMMA AnswerFacts ==
  ASSUME GuardInv
  PROVE  /\ answer \in [Pages -> [Gens -> Answers]] /\ 1 \in Gens /\ run \in Runs /\ clock \in Nat /\ clock >= 1
         /\ run.at \in Current => run.p \in Pages /\ run.job.gen \in Gens
<1>1. answer \in [Pages -> [Gens -> Answers]] /\ 1 \in Gens /\ run \in Runs /\ clock \in Nat /\ clock >= 1
  BY QueueAssumption DEF GuardInv, Types, OthersType, RunType, CallersType, Gens
<1>2. run.at \in Current => run.p \in Pages /\ run.job.gen \in Nat /\ run.job.gen >= 1 /\ run.job.gen <= clock /\ clock \in Gens
  BY <1>1 DEF GuardInv, Types, RunType, CallersType, RunnerGuard, RunGuard, Runs, Jobs
<1> QED
  BY <1>1, <1>2, QueueAssumption DEF Gens

\* The answers do not change and the run is not about to give one that it did not give before.
LEMMA AnswerKept ==
  ASSUME AInv, UNCHANGED answer, processed \subseteq processed',
         run'.at \in {"image", "finish"} => run.at \in {"image", "finish"} /\ run'.p = run.p /\ run'.job = run.job
  PROVE  AnswerInv'
  BY DEF AInv, AnswerInv, AnsweredByOwnRun

\* Somebody is told that it failed.
LEMMA AnswerFailed ==
  ASSUME AInv, NEW p \in Pages, NEW g, Settle(p, g, "failed"), UNCHANGED processed, run'.at \notin {"image", "finish"}
  PROVE  AnswerInv'
<1>1. /\ answer' \in [Pages -> [Gens -> Answers]]
      /\ \A q \in Pages, h \in Gens : answer'[q][h] = answer[q][h] \/ (answer[q][h] = "waiting" /\ answer'[q][h] = "failed")
  BY AnswerFacts, SettleFacts DEF AInv, Answers
<1>2. 1 \in Gens
  BY AnswerFacts DEF AInv
<1> QED
  BY <1>1, <1>2 DEF AInv, AnswerInv, AnsweredByOwnRun

LEMMA AnswerRunStep ==
  ASSUME AInv, RunStep
  PROVE  AnswerInv'
<1>1. /\ answer \in [Pages -> [Gens -> Answers]] /\ 1 \in Gens /\ run \in Runs
      /\ run.at \in Current => run.p \in Pages /\ run.job.gen \in Gens
  BY AnswerFacts DEF AInv
<1>2. ASSUME UNCHANGED <<answer, processed>>, Closing \/ (\E x \in (Current \cup Between) \ {"image", "finish"} : RunAt(x)) PROVE AnswerInv'
  <2>1. run'.at \notin {"image", "finish"}
    BY <1>1, <1>2, ClosingFacts, RunAtFacts
  <2> QED
    BY <1>2, <2>1, AnswerKept
<1>3. CASE TakeTurn \/ PickNothing \/ LeaveLoop \/ PutDone \/ Store
  BY <1>2, <1>3, PlaceFacts DEF TakeTurn, PickNothing, LeaveLoop, AfterLoop, PutDone, Store, history
<1>4. ASSUME NEW p \in Pages, Pick(p) PROVE AnswerInv'
  BY <1>4, AnswerKept DEF Pick, history, Idle
<1>5. CASE Start
  <2>1. run'.at = "current"
    BY <1>1, <1>5 DEF Start, Runs
  <2> QED
    BY <1>5, <2>1, AnswerKept DEF Start, history
<1>6. CASE DropJob \/ FailSave
  <2>1. run.p \in Pages /\ Settle(run.p, run.job.gen, "failed") /\ UNCHANGED processed /\ run'.at \notin {"image", "finish"}
    BY <1>1, <1>6, PlaceFacts, ClosingFacts DEF DropJob, FailSave, history
  <2> QED
    BY <2>1, AnswerFailed
<1>7. CASE ReadPage
  <2>1. CASE AlreadyReadable
    <3>1. UNCHANGED <<answer, processed>> /\ run.job.gen = 1 /\ run' = [run EXCEPT !.at = "finish", !.aborted = FALSE]
      BY <1>7, <2>1 DEF ReadPage, history, AlreadyReadable
    <3>2. run'.job = run.job
      BY <1>1, <3>1 DEF Runs
    <3> QED
      BY <3>1, <3>2 DEF AInv, AnswerInv, AnsweredByOwnRun
  <2>2. CASE ~AlreadyReadable
    <3>1. UNCHANGED <<answer, processed>> /\ run' = [run EXCEPT !.at = "work", !.prev = page[run.p]]
      BY <1>7, <2>2 DEF ReadPage, history
    <3>2. run'.at = "work"
      BY <1>1, <3>1 DEF Runs
    <3> QED
      BY <3>1, <3>2, AnswerKept
  <2> QED
    BY <2>1, <2>2
<1>8. CASE CommitText \/ HandOver
  <2>1. PICK x \in {"finish", "image"}, b \in BOOLEAN : run' = [run EXCEPT !.at = x, !.prev = "absent", !.aborted = b]
    BY <1>1, <1>8, RunType_After
  <2>2. run'.p = run.p /\ run'.job = run.job
    BY <1>1, <2>1 DEF Runs
  <2>3. run.job.gen \in Gens /\ UNCHANGED answer /\ Wrote
    BY <1>1, <1>8, PlaceFacts DEF CommitText, HandOver
  <2>4. processed \subseteq processed' /\ (run.job.gen = 1 \/ <<run.p, run.job.gen>> \in processed')
    BY <2>3 DEF Wrote, Gens
  <2> QED
    BY <2>2, <2>3, <2>4 DEF AInv, AnswerInv, AnsweredByOwnRun
<1>9. CASE SaveImage
  <2>1. run.at = "image" /\ UNCHANGED <<answer, processed>> /\ run'.p = run.p /\ run'.job = run.job
    BY <1>1, <1>9, RunAtFacts, PlaceFacts DEF SaveImage, history
  <2> QED
    BY <2>1, AnswerKept
<1>10. CASE Fail
  <2>1. PICK w : run' = [run EXCEPT !.at = "store", !.prev = "absent", !.want = w]
    BY <1>10 DEF Fail
  <2>2. run'.at = "store"
    BY <1>1, <2>1 DEF Runs
  <2> QED
    BY <1>10, <2>2, AnswerKept DEF Fail, history
<1>11. CASE Abort
  <2>1. run'.at = "store" \/ run'.at = "refresh"
    BY <1>1, <1>11, ClosingFacts DEF Abort, Runs
  <2> QED
    BY <1>11, <2>1, AnswerKept DEF Abort, history
<1>12. CASE Finish
  <2>1. /\ run.at = "finish" /\ run.at \in Current /\ Settle(run.p, run.job.gen, "ok") /\ UNCHANGED processed
        /\ RunAt("finishing") \/ Closing
    BY <1>12, PlaceFacts DEF Finish, history
  <2>2. run'.at \notin {"image", "finish"}
    BY <1>1, <2>1, ClosingFacts, RunAtFacts, PlaceFacts
  <2>3. \A q \in Pages, h \in Gens :
          answer'[q][h] = answer[q][h] \/ (q = run.p /\ h = run.job.gen /\ answer[q][h] = "waiting" /\ answer'[q][h] = "ok")
    BY <1>1, <2>1, SettleFacts DEF Answers
  <2>4. run.job.gen = 1 \/ <<run.p, run.job.gen>> \in processed
    BY <2>1 DEF AInv, AnswerInv
  <2>5. \A p \in Pages : answer[p][1] = "none"
    BY DEF AInv, AnswerInv
  <2>6. \A p \in Pages : answer'[p][1] = "none"
    BY <1>1, <2>3, <2>5
  <2>7. ASSUME NEW q \in Pages, NEW h \in Gens, answer'[q][h] = "ok" PROVE <<q, h>> \in processed
    <3>1. CASE answer[q][h] = "ok"
      BY <3>1 DEF AInv, AnswerInv, AnsweredByOwnRun
    <3>2. CASE answer[q][h] # "ok"
      <4>1. q = run.p /\ h = run.job.gen /\ answer[q][h] = "waiting"
        BY <2>3, <2>7, <3>2
      <4>2. run.job.gen # 1
        BY <2>5, <4>1
      <4> QED
        BY <2>4, <4>1, <4>2
    <3> QED
      BY <3>1, <3>2
  <2> QED
    BY <2>1, <2>2, <2>6, <2>7 DEF AnswerInv, AnsweredByOwnRun
<1>13. CASE CheckStore \/ FailRead
  <2>1. UNCHANGED processed /\ run.p \in Pages /\ (Closing \/ RunAt("storing") \/ RunAt("failsave"))
        /\ (UNCHANGED answer \/ Settle(run.p, run.job.gen, "failed"))
    BY <1>1, <1>13, PlaceFacts DEF CheckStore, FailRead, history
  <2>2. run'.at \notin {"image", "finish"}
    BY <1>1, <2>1, ClosingFacts, RunAtFacts, PlaceFacts
  <2> QED
    BY <2>1, <2>2, AnswerKept, AnswerFailed
<1>14. CASE ReadStatus \/ WriteStatus
  <2>1. run'.at \notin {"image", "finish"}
    BY <1>14 DEF ReadStatus, WriteStatus, Idle
  <2> QED
    BY <1>14, <2>1, AnswerKept DEF ReadStatus, WriteStatus, history
<1> QED
  BY <1>3, <1>4, <1>5, <1>6, <1>7, <1>8, <1>9, <1>10, <1>11, <1>12, <1>13, <1>14 DEF RunStep

LEMMA AnswerStep ==
  ASSUME AInv, [Next]_vars
  PROVE  AnswerInv'
<1>1. /\ answer \in [Pages -> [Gens -> Answers]] /\ 1 \in Gens /\ run \in Runs /\ clock \in Nat /\ clock >= 1
  BY AnswerFacts DEF AInv
<1>2. ASSUME UNCHANGED <<answer, processed>>, UNCHANGED run \/ KickLoop \/ AbortRun PROVE AnswerInv'
  <2>1. run'.at \in {"image", "finish"} => run'.at = run.at /\ run'.p = run.p /\ run'.job = run.job
    BY <1>1, <1>2, KickFacts DEF AbortRun, Runs
  <2> QED
    BY <1>2, <2>1, AnswerKept
<1>3. ASSUME NEW p \in Pages, Ask(p) PROVE AnswerInv'
  <2>1. /\ answer' = [answer EXCEPT ![p][clock + 1] = "waiting"] /\ UNCHANGED processed /\ KickLoop
    BY <1>3 DEF Ask, history
  <2>2. \A q \in Pages, h \in Gens : answer'[q][h] = answer[q][h] \/ (h = clock + 1 /\ answer'[q][h] = "waiting")
    BY <1>1, <2>1
  <2>3. run'.at \in {"image", "finish"} => run'.at = run.at /\ run'.p = run.p /\ run'.job = run.job
    BY <1>1, <2>1, KickFacts
  <2> QED
    BY <1>1, <2>1, <2>2, <2>3 DEF AInv, AnswerInv, AnsweredByOwnRun
<1>4. ASSUME CancelDocument \/ Crash PROVE AnswerInv'
  <2>1. \A q \in Pages, h \in Gens : answer'[q][h] = answer[q][h] \/ (answer[q][h] = "waiting" /\ answer'[q][h] \in {"failed", "lost"})
    BY <1>4 DEF CancelDocument, Crash
  <2>2. UNCHANGED processed
    BY <1>4 DEF CancelDocument, Crash, history
  <2>3. run'.at \in {"image", "finish"} => run'.at = run.at /\ run'.p = run.p /\ run'.job = run.job
    BY <1>1, <1>4 DEF CancelDocument, Crash, AbortRun, Runs, Idle
  <2> QED
    BY <1>1, <2>1, <2>2, <2>3 DEF AInv, AnswerInv, AnsweredByOwnRun
<1>5. Recover \/ ImportDocument \/ ImportPages \/ CorrectPutJob \/ Tombstone \/ PurgeLocalData \/ Kick \/ SyncDeletion \/ PageHide
      \/ (\E p \in Pages : Correct(p) \/ SyncText(p)) \/ UNCHANGED vars
      => UNCHANGED <<answer, processed>> /\ (UNCHANGED run \/ KickLoop \/ AbortRun)
  BY DEF Recover, ImportDocument, ImportPages, CorrectPutJob, Tombstone, PurgeLocalData, Kick, SyncDeletion, PageHide, Correct, SyncText,
         vars, history, runner
<1> QED
  BY <1>2, <1>3, <1>4, <1>5, AnswerRunStep DEF Next, Runner

(***************************************************************************)
(* AnsweredByOwnRun, in general: a request is never answered with success  *)
(* by the run of another generation, nor by one that wrote nothing.        *)
(***************************************************************************)
THEOREM AnsweredByOwnRunCorrect == Spec => []AnsweredByOwnRun
<1>1. Init => AInv
  <2>1. Init => AnswerInv
    BY QueueAssumption DEF Init, AnswerInv, AnsweredByOwnRun, Idle, Gens
  <2> QED
    BY <2>1, InitGuard DEF AInv
<1>2. AInv /\ [Next]_vars => AInv'
  BY GuardStep, AnswerStep DEF AInv
<1>3. AInv => AnsweredByOwnRun
  BY DEF AInv, AnswerInv
<1> QED
  BY <1>1, <1>2, <1>3, PTL DEF Spec
----------------------------------------------------------------------------
(* The jobs of the pages that wait.                                        *)

ToDo == {"queued", "running", "error"}
WaitingHaveJobs == \A p \in Pages \ ahead : page[p] = "pending" => job[p].state \in ToDo

\* A queue that meets the document during its import is done with none of its pages, but for those it is ahead of.
ImportInv ==
  Importing =>
    /\ fix = NoFix /\ removal = "none" /\ recovered
    /\ \A p \in Pages \ ahead : page[p] \notin Readable /\ job[p].state \in ToDo
\* The row that is about to be written back makes a deleted document live again.
JobsInv == import = "done" /\ removal = "none" /\ (Live \/ run.at = "saving") => WaitingHaveJobs
\* What is taken for done has its text.
WrittenInv ==
  import # "dead" =>
    /\ run.at \in {"image", "finish", "finishing"} => run.p \in ahead \/ (import = "done" /\ page[run.p] # "pending")
    /\ fix # NoFix => page[fix.p] # "pending"

PInv == GuardInv /\ ImportInv /\ JobsInv /\ WrittenInv
PendingOK == ImportInv' /\ JobsInv' /\ WrittenInv'

LEMMA PendingFacts ==
  ASSUME PInv
  PROVE  /\ job \in [Pages -> Jobs] /\ page \in [Pages -> PageStates] /\ doc \in Docs /\ run \in Runs
         /\ run.at \in Current \cup {"lock"} => run.p \in Pages
         /\ fix # NoFix => fix.p \in Pages /\ ~Importing
         /\ import \in {"document", "pages", "done", "dead"}
  BY DEF PInv, GuardInv, Types, TablesType, RunType, CallersType, ImportInv

\* The runner moves; no page starts to wait, and no job is lost that one waits for.
LEMMA PendingRun ==
  ASSUME PInv, UNCHANGED <<import, fix, removal, recovered>>, ahead \subseteq ahead',
         page' \in [Pages -> PageStates], \A p \in Pages : page'[p] = "pending" => page[p] = "pending",
         Importing => \A p \in Pages \ ahead' : page'[p] \notin Readable /\ job'[p].state \in ToDo,
         import = "done" /\ removal = "none" /\ (Live' \/ run'.at = "saving") =>
           (Live \/ run.at = "saving") /\ (WaitingHaveJobs => WaitingHaveJobs'),
         import # "dead" /\ run'.at \in {"image", "finish", "finishing"} =>
           run'.p \in ahead' \/ (import = "done" /\ page'[run'.p] # "pending")
  PROVE  PendingOK
<1>1. ImportInv'
  BY DEF PInv, ImportInv, Importing
<1>2. JobsInv'
  BY DEF PInv, JobsInv
<1>3. WrittenInv'
  BY PendingFacts DEF PInv, WrittenInv
<1> QED
  BY <1>1, <1>2, <1>3 DEF PendingOK

\* A step of the runner that changes neither table.
LEMMA PendingLook ==
  ASSUME PInv, UNCHANGED <<tables, import, fix, removal, recovered, ahead>>, run'.at = "saving" => Live,
         import # "dead" /\ run'.at \in {"image", "finish", "finishing"} =>
           run'.p \in ahead \/ (import = "done" /\ page[run'.p] # "pending")
  PROVE  PendingOK
<1>1. page' \in [Pages -> PageStates] /\ UNCHANGED <<job, page, doc>>
  BY PendingFacts DEF tables
<1>2. Importing => \A p \in Pages \ ahead' : page'[p] \notin Readable /\ job'[p].state \in ToDo
  BY <1>1 DEF PInv, ImportInv
<1> QED
  BY <1>1, <1>2, PendingRun DEF Live, WaitingHaveJobs

\* A step of the runner after which the job it has is still to be done, or counts as done ahead of the import.
LEMMA PendingJob ==
  ASSUME PInv, UNCHANGED <<page, doc, import, fix, removal, recovered>>, ahead \subseteq ahead',
         import # "dead" => \A p \in Pages \ ahead' : job'[p] = job[p] \/ job'[p].state \in ToDo \/ (import = "done" /\ page[p] # "pending"),
         run'.at \notin {"saving", "image", "finish", "finishing"}
  PROVE  PendingOK
<1>1. page' \in [Pages -> PageStates]
  BY PendingFacts
<1>2. Importing => \A p \in Pages \ ahead' : page'[p] \notin Readable /\ job'[p].state \in ToDo
  BY <1>1 DEF PInv, ImportInv, Importing
<1>3. import = "done" => (WaitingHaveJobs => WaitingHaveJobs')
  BY DEF WaitingHaveJobs
<1> QED
  BY <1>1, <1>2, <1>3, PendingRun DEF Live

\* A step of the runner that writes its page.
LEMMA PendingPage ==
  ASSUME PInv, UNCHANGED <<job, doc, import, fix, removal, recovered>>, ahead \subseteq ahead', run.p \in Pages,
         page' \in [Pages -> PageStates], page'[run.p] = "pending" => page[run.p] = "pending",
         \A p \in Pages : p # run.p => page'[p] = page[p],
         Importing => run.p \in ahead' \/ page'[run.p] \notin Readable,
         run'.at # "saving",
         import # "dead" /\ run'.at \in {"image", "finish", "finishing"} =>
           run'.p \in ahead' \/ (import = "done" /\ page'[run'.p] # "pending")
  PROVE  PendingOK
<1>1. \A p \in Pages : page'[p] = "pending" => page[p] = "pending"
  OBVIOUS
<1>2. Importing => \A p \in Pages \ ahead' : page'[p] \notin Readable /\ job'[p].state \in ToDo
  BY DEF PInv, ImportInv
<1> QED
  BY <1>1, <1>2, PendingRun DEF Live, WaitingHaveJobs

\* What the runner does during the import is remembered.
LEMMA ConcludedFacts ==
  ASSUME NEW p, Concluded(p)
  PROVE  ahead \subseteq ahead' /\ (Importing => p \in ahead')
  BY DEF Concluded

LEMMA PendingRunStep ==
  ASSUME PInv, RunStep, UNCHANGED <<callers, recovered>>
  PROVE  PendingOK
<1>1. /\ job \in [Pages -> Jobs] /\ page \in [Pages -> PageStates] /\ doc \in Docs /\ run \in Runs
      /\ run.at \in Current \cup {"lock"} => run.p \in Pages
      /\ UNCHANGED <<import, fix, removal, recovered>>
      /\ import \in {"document", "pages", "done", "dead"}
  BY PendingFacts DEF callers
<1>2. import # "dead" <=> import = "done" \/ Importing
  BY <1>1 DEF Importing
<1>3. ASSUME UNCHANGED <<tables, ahead>>, run'.at # "saving", run'.at \notin {"image", "finish", "finishing"} PROVE PendingOK
  BY <1>1, <1>3, PendingLook
<1>4. CASE TakeTurn \/ PickNothing \/ LeaveLoop
  <2>1. UNCHANGED <<tables, ahead>> /\ \E x \in {"picking", "empty", "off", "top"} : RunAt(x)
    BY <1>4 DEF TakeTurn, PickNothing, LeaveLoop, AfterLoop, history
  <2>2. run'.at \in {"picking", "empty", "off", "top"}
    BY <1>1, <2>1, PlaceFacts, RunAtFacts
  <2> QED
    BY <1>3, <2>1, <2>2
<1>5. ASSUME NEW p \in Pages, Pick(p) PROVE PendingOK
  BY <1>3, <1>5 DEF Pick, Idle, history
<1>6. CASE Start
  <2> DEFINE j == Job("running", run.job.gen, run.job.attempts + 1)
  <2>1. j.state = "running"
    BY DEF Job
  <2>2. job' = [job EXCEPT ![run.p] = j] /\ UNCHANGED <<page, doc, ahead>> /\ run' = [run EXCEPT !.at = "current", !.job = j]
    BY <1>6 DEF Start, history
  <2> HIDE DEF j
  <2>3. run'.at = "current" /\ \A p \in Pages : job'[p] = job[p] \/ job'[p].state = "running"
    BY <1>1, <2>1, <2>2 DEF Runs
  <2> QED
    BY <1>1, <2>2, <2>3, PendingJob DEF ToDo
<1>7. CASE DropJob
  <2>1. ~Live /\ UNCHANGED <<page, doc>> /\ run'.at = "refresh" /\ Concluded(run.p) /\ job' = [job EXCEPT ![run.p] = NoJob]
    BY <1>7, ClosingFacts DEF DropJob
  <2>2. \A p \in Pages : p # run.p => job'[p] = job[p]
    BY <1>1, <2>1
  <2>3. Importing => \A p \in Pages \ ahead' : page'[p] \notin Readable /\ job'[p].state \in ToDo
    BY <2>1, <2>2, ConcludedFacts DEF PInv, ImportInv
  <2> QED
    BY <1>1, <2>1, <2>3, ConcludedFacts, PendingRun DEF Live
<1>8. CASE ReadPage
  <2>1. CASE AlreadyReadable
    <3>1. UNCHANGED <<tables, ahead>> /\ run' = [run EXCEPT !.at = "finish", !.aborted = FALSE] /\ page[run.p] \in Readable /\ run.p \in Pages
      BY <1>1, <1>8, <2>1, PlaceFacts DEF ReadPage, AlreadyReadable, history
    <3>2. run'.at = "finish" /\ run'.p = run.p /\ page[run.p] # "pending"
      BY <1>1, <3>1 DEF Runs, Readable
    <3>3. Importing => run.p \in ahead
      BY <3>1 DEF PInv, ImportInv
    <3> QED
      BY <1>1, <1>2, <3>1, <3>2, <3>3, PendingLook
  <2>2. CASE ~AlreadyReadable
    <3>1. UNCHANGED <<tables, ahead>> /\ run' = [run EXCEPT !.at = "work", !.prev = page[run.p]]
      BY <1>8, <2>2 DEF ReadPage, history
    <3>2. run'.at = "work"
      BY <1>1, <3>1 DEF Runs
    <3> QED
      BY <1>3, <3>1, <3>2
  <2> QED
    BY <2>1, <2>2
<1>9. CASE CommitText \/ HandOver
  <2>1. run'.p = run.p /\ run'.at \in {"finish", "image"} /\ run.p \in Pages
    BY <1>1, <1>9, PlaceFacts DEF Runs, CommitText, HandOver
  <2>2. UNCHANGED <<job, doc>> /\ Concluded(run.p) /\ \E text \in Readable \cup {"failed"} : page' = [page EXCEPT ![run.p] = text]
    BY <1>9 DEF CommitText, HandOver, Readable
  <2>3. page' \in [Pages -> PageStates] /\ page'[run.p] # "pending" /\ \A p \in Pages : p # run.p => page'[p] = page[p]
    BY <1>1, <2>1, <2>2, Words DEF Readable
  <2>4. ahead \subseteq ahead' /\ (Importing => run.p \in ahead')
    BY <2>2, ConcludedFacts
  <2> QED
    BY <1>1, <1>2, <2>1, <2>2, <2>3, <2>4, PendingPage
<1>10. CASE SaveImage
  <2>1. run.at = "image" /\ run' = [run EXCEPT !.at = "finish", !.aborted = FALSE] /\ UNCHANGED <<job, doc, ahead>> /\ run.p \in Pages
    BY <1>1, <1>10, PlaceFacts DEF SaveImage, history
  <2>2. run'.at = "finish" /\ run'.p = run.p
    BY <1>1, <2>1 DEF Runs
  <2>3. /\ page' \in [Pages -> PageStates] /\ \A p \in Pages : p # run.p => page'[p] = page[p]
        /\ page'[run.p] = "pending" => page[run.p] = "pending"
    BY <1>1, <1>10, <2>1, Words DEF SaveImage
  <2>4. import # "dead" => run.p \in ahead \/ (import = "done" /\ page[run.p] # "pending")
    BY <2>1 DEF PInv, WrittenInv
  <2>5. Importing => run.p \in ahead
    BY <2>4 DEF Importing
  <2> QED
    BY <1>1, <2>1, <2>2, <2>3, <2>4, <2>5, PendingPage
<1>11. CASE Fail
  <2>1. PICK w : run' = [run EXCEPT !.at = "store", !.prev = "absent", !.want = w]
    BY <1>11 DEF Fail
  <2>2. run'.at = "store"
    BY <1>1, <2>1 DEF Runs
  <2> QED
    BY <1>3, <1>11, <2>2 DEF Fail, history
<1>12. CASE Abort
  <2>1. run'.at = "store" \/ run'.at = "refresh"
    BY <1>1, <1>12, ClosingFacts DEF Abort, Runs
  <2> QED
    BY <1>3, <1>12, <2>1 DEF Abort, history
<1>13. CASE Finish
  <2>1. UNCHANGED <<tables, ahead>> /\ run.at = "finish" /\ (RunAt("finishing") \/ Closing)
    BY <1>13 DEF Finish, history
  <2>2. run'.at = "refresh" \/ (run'.at = "finishing" /\ run'.p = run.p)
    BY <1>1, <2>1, ClosingFacts, RunAtFacts, PlaceFacts
  <2>3. import # "dead" => run.p \in ahead \/ (import = "done" /\ page[run.p] # "pending")
    BY <2>1 DEF PInv, WrittenInv
  <2> QED
    BY <1>1, <2>1, <2>2, <2>3, PendingLook
<1>14. CASE PutDone
  <2>1. run.at = "finishing" /\ run.p \in Pages /\ UNCHANGED <<page, doc, ahead>> /\ run'.at = "refresh"
    BY <1>1, <1>14, ClosingFacts, PlaceFacts DEF PutDone, history
  <2>2. \A p \in Pages : p # run.p => job'[p] = job[p]
    BY <1>1, <1>14 DEF PutDone
  <2>3. import # "dead" => run.p \in ahead \/ (import = "done" /\ page[run.p] # "pending")
    BY <2>1 DEF PInv, WrittenInv
  <2> QED
    BY <1>1, <2>1, <2>2, <2>3, PendingJob
<1>15. CASE CheckStore \/ FailRead
  <2>1. UNCHANGED <<tables, ahead>> /\ (RunAt("storing") \/ RunAt("failsave") \/ Closing)
    BY <1>15 DEF CheckStore, FailRead, history
  <2>2. run'.at \in {"storing", "failsave", "refresh"}
    BY <1>1, <2>1, ClosingFacts, RunAtFacts, PlaceFacts
  <2> QED
    BY <1>3, <2>1, <2>2
<1>16. CASE Store
  <2>1. run.at = "storing" /\ run.p \in Pages /\ UNCHANGED <<page, doc>> /\ job' = [job EXCEPT ![run.p] = run.want]
        /\ (RunAt("failread") \/ Closing) /\ (Concluded(run.p) \/ UNCHANGED ahead)
    BY <1>1, <1>16, PlaceFacts DEF Store
  <2>2. run'.at \in {"failread", "refresh"}
    BY <1>1, <2>1, ClosingFacts, RunAtFacts, PlaceFacts
  <2>3. run.want.state \in ToDo
    BY <2>1 DEF PInv, GuardInv, RunnerGuard, WantGuard, ToDo
  <2>4. \A p \in Pages : job'[p] = job[p] \/ job'[p].state \in ToDo
    BY <1>1, <2>1, <2>3
  <2>5. ahead \subseteq ahead'
    BY <2>1, ConcludedFacts
  <2> QED
    BY <1>1, <2>1, <2>2, <2>4, <2>5, PendingJob
<1>17. CASE FailSave
  <2>1. page' = [page EXCEPT ![run.p] = "failed"] /\ UNCHANGED <<job, doc, ahead>> /\ run'.at = "refresh" /\ run.p \in Pages
    BY <1>1, <1>17, ClosingFacts, PlaceFacts DEF FailSave, history
  <2>2. page' \in [Pages -> PageStates] /\ page'[run.p] = "failed" /\ \A p \in Pages : p # run.p => page'[p] = page[p]
    BY <1>1, <2>1, Words
  <2>3. "failed" \notin Readable
    BY DEF Readable
  <2> QED
    BY <1>1, <2>1, <2>2, <2>3, PendingPage
<1>18. CASE ReadStatus
  <2>1. UNCHANGED <<tables, ahead>>
        /\ (run' = [Idle EXCEPT !.at = "top"] \/ (Live /\ run' = [Idle EXCEPT !.at = "saving", !.status = DeriveStatus(page)]))
    BY <1>1, <1>18, StatusFacts DEF ReadStatus, history
  <2>2. run'.at = "top" \/ (Live /\ run'.at = "saving")
    BY <2>1 DEF Idle
  <2> QED
    BY <1>1, <2>1, <2>2, PendingLook
<1>19. CASE WriteStatus
  <2>1. run.at = "saving" /\ UNCHANGED <<job, page, ahead>> /\ run'.at = "top" /\ page' \in [Pages -> PageStates]
    BY <1>1, <1>19 DEF WriteStatus, Idle, history
  <2>2. Importing => \A p \in Pages \ ahead' : page'[p] \notin Readable /\ job'[p].state \in ToDo
    BY <2>1 DEF PInv, ImportInv
  <2> QED
    BY <1>1, <2>1, <2>2, PendingRun DEF Live, WaitingHaveJobs
<1> QED
  BY <1>4, <1>5, <1>6, <1>7, <1>8, <1>9, <1>10, <1>11, <1>12, <1>13, <1>14, <1>15, <1>16, <1>17, <1>18, <1>19 DEF RunStep

LEMMA PendingRecoverStep ==
  ASSUME PInv, Recover, UNCHANGED callers
  PROVE  PendingOK
<1>1. /\ job \in [Pages -> Jobs] /\ page \in [Pages -> PageStates] /\ doc \in Docs /\ UNCHANGED <<import, fix, removal, run, ahead>>
      /\ run.at = "top" /\ ~Importing
  BY PendingFacts DEF callers, Recover, history, PInv, ImportInv
<1>2. doc'.where = doc.where
  BY <1>1, StatusFacts DEF Recover
<1>3. page' \in [Pages -> PageStates] /\ \A p \in Pages : page'[p] = "pending" => page[p] = "pending"
  BY <1>1, Words DEF Recover
<1>4. Live => \A p \in Pages : job[p].state \in ToDo => job'[p].state \in ToDo
  BY <1>1, RecoveredFacts DEF Recover, ToDo
<1>5. JobsInv'
  BY <1>1, <1>2, <1>3, <1>4 DEF PInv, JobsInv, WaitingHaveJobs, Live
<1>6. WrittenInv'
  BY <1>1, <1>3, PendingFacts DEF PInv, WrittenInv
<1> QED
  BY <1>1, <1>5, <1>6 DEF PendingOK, ImportInv, Importing

LEMMA PendingStep ==
  ASSUME PInv, [Next]_vars
  PROVE  PendingOK
<1>1. /\ job \in [Pages -> Jobs] /\ page \in [Pages -> PageStates] /\ doc \in Docs /\ run \in Runs
      /\ run.at \in Current => run.p \in Pages
      /\ fix # NoFix => fix.p \in Pages /\ ~Importing
      /\ import \in {"document", "pages", "done", "dead"}
  BY PendingFacts
<1>2. CASE Runner
  BY <1>2, PendingRunStep, PendingRecoverStep DEF Runner
<1>3. CASE ImportDocument
  <2>1. import = "document" /\ import' = "pages" /\ UNCHANGED <<job, page, runner, fix, removal, ahead>>
    BY <1>3 DEF ImportDocument, history
  <2> QED
    BY <2>1 DEF runner, PInv, ImportInv, PendingOK, JobsInv, WrittenInv, Importing
<1>4. CASE ImportPages
  <2>1. import = "pages" /\ import' = "done" /\ UNCHANGED <<job, fix, ahead>> /\ KickLoop
    BY <1>4 DEF ImportPages, history
  <2>2. fix = NoFix /\ \A p \in Pages \ ahead : job[p].state \in ToDo
    BY <2>1 DEF PInv, ImportInv, Importing
  <2>3. run.at \in {"image", "finish", "finishing"} => run.p \in ahead
    BY <2>1 DEF PInv, WrittenInv
  <2>4. run'.at \in {"image", "finish", "finishing"} => run'.at = run.at /\ run'.p = run.p
    BY <1>1, <2>1, KickFacts
  <2> QED
    BY <2>1, <2>2, <2>3, <2>4 DEF PendingOK, ImportInv, JobsInv, WrittenInv, WaitingHaveJobs, Importing
<1>5. ASSUME ~Importing, UNCHANGED <<import, job, fix, ahead>>, UNCHANGED run \/ KickLoop \/ AbortRun,
             page' \in [Pages -> PageStates], \A p \in Pages : page'[p] = "pending" => page[p] = "pending",
             removal' = "none" /\ Live' => removal = "none" /\ Live, removal' = "none" => removal = "none"
      PROVE  PendingOK
  <2>1. run'.at \in Current \cup {"saving"} => run'.at = run.at /\ run'.p = run.p
    BY <1>1, <1>5, KickFacts, PlaceFacts DEF AbortRun, Runs
  <2>2. JobsInv'
    BY <1>5, <2>1 DEF PInv, JobsInv, WaitingHaveJobs
  <2>3. WrittenInv'
    BY <1>1, <1>5, <2>1, PlaceFacts DEF PInv, WrittenInv
  <2> QED
    BY <1>5, <2>2, <2>3 DEF PendingOK, ImportInv, Importing
<1>6. CASE Tombstone \/ SyncDeletion
  <2>1. ~Importing
    BY <1>6 DEF Tombstone, SyncDeletion, PInv, ImportInv, Importing
  <2> QED
    BY <1>1, <1>5, <1>6, <2>1 DEF Tombstone, SyncDeletion, callers, runner, history, Live
<1>7. CASE Kick \/ PageHide
  <2>1. UNCHANGED <<import, job, page, doc, fix, removal, recovered, ahead>> /\ (KickLoop \/ AbortRun)
    BY <1>7 DEF Kick, PageHide, tables, callers, history
  <2>2. run'.at \in Current \cup {"saving"} => run'.at = run.at /\ run'.p = run.p
    BY <1>1, <2>1, KickFacts, PlaceFacts DEF AbortRun, Runs
  <2> QED
    BY <2>1, <2>2, PlaceFacts DEF PInv, PendingOK, ImportInv, JobsInv, WrittenInv, WaitingHaveJobs, Live, Importing
<1>8. CASE CorrectPutJob
  <2>1. /\ fix.p \in Pages /\ fix' = NoFix /\ UNCHANGED <<import, page, run, removal, ahead>> /\ ~Importing
        /\ \A p \in Pages : p # fix.p => job'[p] = job[p]
    BY <1>1, <1>8 DEF CorrectPutJob, runner, history
  <2>2. doc'.where = doc.where
    BY <1>1, <1>8, StatusFacts DEF CorrectPutJob
  <2>3. import # "dead" => page[fix.p] # "pending"
    BY <1>8 DEF CorrectPutJob, PInv, WrittenInv
  <2> QED
    BY <2>1, <2>2, <2>3 DEF PInv, PendingOK, ImportInv, JobsInv, WrittenInv, WaitingHaveJobs, Live, Importing
<1>9. CASE CancelDocument \/ PurgeLocalData
  <2>1. /\ UNCHANGED <<import, fix, ahead>> /\ removal' # "none" /\ (UNCHANGED run \/ AbortRun)
        /\ page' = page \/ page' = [p \in Pages |-> "absent"]
    BY <1>9 DEF CancelDocument, PurgeLocalData, runner, history
  <2>2. run'.at = run.at /\ run'.p = run.p
    BY <1>1, <2>1 DEF AbortRun, Runs
  <2>3. ~Importing
    BY <1>9 DEF CancelDocument, PurgeLocalData, PInv, ImportInv, Importing
  <2>4. WrittenInv'
    BY <1>1, <2>1, <2>2, PlaceFacts DEF PInv, WrittenInv
  <2> QED
    BY <2>1, <2>3, <2>4 DEF PendingOK, ImportInv, JobsInv, Importing
<1>10. ASSUME NEW p \in Pages, Ask(p) PROVE PendingOK
  <2>1. import = "done" /\ UNCHANGED <<import, page, doc, fix, removal, ahead>> /\ KickLoop /\ job' = [job EXCEPT ![p] = Job("queued", clock', 0)]
    BY <1>10 DEF Ask, history
  <2>2. \A q \in Pages : job'[q] = job[q] \/ job'[q].state = "queued"
    BY <1>1, <2>1 DEF Job
  <2>3. run'.at \in Current \cup {"saving"} => run'.at = run.at /\ run'.p = run.p
    BY <1>1, <2>1, KickFacts, PlaceFacts
  <2> QED
    BY <2>1, <2>2, <2>3, PlaceFacts DEF PInv, PendingOK, ImportInv, JobsInv, WrittenInv, WaitingHaveJobs, Live, ToDo, Importing
<1>11. ASSUME NEW p \in Pages, Correct(p) PROVE PendingOK
  <2>1. import = "done" /\ UNCHANGED <<import, job, run, removal, ahead>> /\ page' = [page EXCEPT ![p] = "manual"]
        /\ (fix' = fix \/ fix' = [p |-> p, job |-> job[p]])
    BY <1>11 DEF Correct, runner, history
  <2>2. doc'.where = doc.where
    BY <1>1, <1>11, StatusFacts DEF Correct
  <2>3. \A q \in Pages : page'[q] = "pending" => page[q] = "pending" /\ q # p
    BY <1>1, <2>1
  <2>4. JobsInv' /\ ImportInv'
    BY <2>1, <2>2, <2>3 DEF PInv, ImportInv, JobsInv, WaitingHaveJobs, Live, Importing
  <2>5. WrittenInv'
    BY <1>1, <2>1, <2>3, PlaceFacts DEF PInv, WrittenInv
  <2> QED
    BY <2>4, <2>5 DEF PendingOK
<1>12. ASSUME NEW p \in Pages, SyncText(p) PROVE PendingOK
  <2>1. ~Importing
    BY <1>12 DEF SyncText, Importing
  <2> QED
    BY <1>1, <1>5, <1>12, <2>1, Words DEF SyncText, runner, history, Live
<1>13. CASE Crash
  <2>1. /\ UNCHANGED <<tables, ahead>> /\ run'.at = "top" /\ fix' = NoFix
        /\ import' = (IF import = "done" THEN import ELSE "dead")
        /\ removal' = (IF removal \in {"tombstone", "purge"} THEN "halfway" ELSE removal)
    BY <1>13 DEF Crash, Idle
  <2> QED
    BY <2>1 DEF PInv, PendingOK, ImportInv, JobsInv, WrittenInv, WaitingHaveJobs, Live, tables, Importing
<1>14. CASE UNCHANGED vars
  BY <1>14 DEF vars, tables, runner, callers, history, PInv, PendingOK, ImportInv, JobsInv, WrittenInv, WaitingHaveJobs, Live, Importing
<1> QED
  BY <1>2, <1>3, <1>4, <1>6, <1>7, <1>8, <1>9, <1>10, <1>11, <1>12, <1>13, <1>14 DEF Next

(***************************************************************************)
(* NoPageForgotten, in general, whatever the queue reads during the        *)
(* import: a page that waits has its job, unless the queue was ahead.      *)
(***************************************************************************)
THEOREM NoPageForgottenCorrect == Spec => []NoPageForgotten
<1>1. Init => PInv
  <2> SUFFICES ASSUME Init PROVE PInv
    OBVIOUS
  <2>1. Job("queued", 1, 0).state = "queued"
    BY DEF Job
  <2>2. ImportInv /\ JobsInv /\ WrittenInv
    BY <2>1 DEF Init, ImportInv, JobsInv, WrittenInv, Idle, ToDo, Readable
  <2> QED
    BY <2>2, InitGuard DEF PInv
<1>2. PInv /\ [Next]_vars => PInv'
  BY GuardStep, PendingStep DEF PInv, PendingOK
<1>3. PInv => NoPageForgotten
  BY DEF PInv, JobsInv, WaitingHaveJobs, ToDo, NoPageForgotten
<1> QED
  BY <1>1, <1>2, <1>3, PTL DEF Spec
==============================================================================
