--------------------------- MODULE ProcessingQueue ---------------------------
(***************************************************************************)
(* The reading of the pages of one document on a device: jobs kept in      *)
(* IndexedDB, one runner, explicit requests of the parent who waits for    *)
(* them, corrections, deletion, and pages that the sync writes meanwhile.  *)
(* A page is abstracted to where its text comes from ("local", "manual",   *)
(* "home": readable), "pending" or "failed".  Each await of the runner     *)
(* ends an action; `run.at' is where it is.                                *)
(***************************************************************************)
EXTENDS Integers, FiniteSets

CONSTANTS
  Pages,
  NoPage,          \* where the code has null
  MaxJobAttempts,  \* MAX_JOB_ATTEMPTS
  MaxGen,          \* bound: the import and MaxGen - 1 explicit requests
  MaxEvents        \* bound: corrections, changes of the sync, times the tab is hidden or dies

ASSUME QueueAssumption ==
  /\ NoPage \notin Pages
  /\ MaxJobAttempts \in Nat \ {0}
  /\ MaxGen \in Nat \ {0}
  /\ MaxEvents \in Nat

VARIABLES
  job,       \* [Pages -> record]: the jobs table; gen is enqueuedAt, 1 for the import
  page,      \* [Pages -> ...]: the pages table
  doc,       \* the row of the document: where it is, and the status shown
  import,    \* what importFiles does next
  run,       \* the loop and the job it runs
  dirty,     \* a kick arrived while the loop was running
  recovered, \* doRecover has run since the tab was opened
  fix,       \* savePageCorrection between its page and its job
  removal,   \* what deleteDocumentEverywhere does next
  answer,    \* [Pages -> [generation -> ...]]: the promises of the explicit requests
  clock,     \* the last generation given
  budget,    \* events left, and whether the tab died
  processed, \* history: explicit requests <<page, generation>> whose run wrote or handed over the page
  crashes,   \* history: [Pages -> [generation -> times the tab died while it was running]]
  ahead      \* history: pages whose job was dropped, done or given up before the import had saved them

tables == <<job, page, doc>>
runner == <<run, dirty, recovered>>
callers == <<import, fix, removal, clock, budget>>
history == <<processed, crashes, ahead>>
vars == <<tables, runner, callers, answer, history>>

Gens == 1..MaxGen
Readable == {"local", "manual", "home"} \* AVAILABLE_STATUSES, with a text
PageStates == Readable \cup {"absent", "pending", "failed"}
Settled == {"none", "done", "error"}
JobStates == Settled \cup {"queued", "running"}

Job(s, g, a) == [state |-> s, gen |-> g, attempts |-> a]
NoJob == Job("none", 0, 0)
Idle == [at |-> "off", p |-> NoPage, job |-> NoJob, prev |-> "absent", want |-> NoJob,
         status |-> "processing", aborted |-> FALSE]
NoFix == [p |-> NoPage, job |-> NoJob]

\* `current' is set.
Current == {"current", "work", "image", "finish", "finishing", "store", "storing", "failread", "failsave"}
Between == {"off", "top", "picking", "lock", "empty", "refresh", "saving"}

Init ==
  /\ job = [p \in Pages |-> Job("queued", 1, 0)]
  /\ page = [p \in Pages |-> "absent"]
  /\ doc = [where |-> "absent", status |-> "processing"]
  /\ import = "document"
  /\ run = Idle
  /\ dirty = FALSE
  /\ recovered = TRUE
  /\ fix = NoFix
  /\ removal = "none"
  /\ answer = [p \in Pages |-> [g \in Gens |-> "none"]]
  /\ clock = 1
  /\ budget = [left |-> MaxEvents, died |-> FALSE]
  /\ processed = {}
  /\ crashes = [p \in Pages |-> [g \in Gens |-> 0]]
  /\ ahead = {}

Live == doc.where = "live"
RunAt(x) == run' = [run EXCEPT !.at = x]
\* The finally of runJob: `current' is null, the status of the document is refreshed.
Closing == run' = [Idle EXCEPT !.at = "refresh"]
\* kick: sets the flag, and starts the loop when it is not running.  The flag only
\* matters between the look for a job and the end of the loop: a turn resets it.
KickLoop ==
  /\ dirty' = (run.at \in {"picking", "empty"})
  /\ run' = IF run.at = "off" THEN [run EXCEPT !.at = "top"] ELSE run

\* settleWaiters: the callers of this generation only.
Settle_AnyGeneration(p, g, a) ==
  answer' = [answer EXCEPT ![p] = [h \in Gens |-> IF @[h] = "waiting" THEN a ELSE @[h]]]
Settle(p, g, a) ==
  answer' = IF answer[p][g] = "waiting" THEN [answer EXCEPT ![p][g] = a] ELSE answer

\* deriveDocumentStatus.
DeriveStatus(pages) ==
  IF \E p \in Pages : pages[p] = "pending" THEN "processing"
  ELSE IF \E p \in Pages : pages[p] = "failed" THEN "partial" ELSE "ready"

\* refreshDocumentStatus when nothing comes between its reads and its write.
Refreshed(pages) ==
  IF Live /\ \E p \in Pages : pages[p] # "absent" THEN [doc EXCEPT !.status = DeriveStatus(pages)] ELSE doc
----------------------------------------------------------------------------
(* The import: jobs, then the document, then its pages, then start().  The *)
(* loop may be reading another document: it can meet the jobs of this one  *)
(* before the document, or its pages, are saved.                           *)

Importing == import \in {"document", "pages"}
Concluded(p) == ahead' = IF Importing THEN ahead \cup {p} ELSE ahead

ImportDocument ==
  /\ import = "document"
  /\ doc' = [where |-> "live", status |-> "processing"]
  /\ import' = "pages"
  /\ UNCHANGED <<job, page, runner, fix, removal, answer, clock, budget, history>>

ImportPages ==
  /\ import = "pages"
  /\ page' = [p \in Pages |-> "pending"]
  /\ import' = "done"
  /\ KickLoop
  /\ UNCHANGED <<job, doc, recovered, fix, removal, answer, clock, budget, history>>
----------------------------------------------------------------------------
(* The loop.                                                               *)

\* start(), `online', `pageshow', or the jobs of another document.
Kick ==
  /\ run.at \in {"off", "picking", "empty"}
  /\ KickLoop
  /\ UNCHANGED <<tables, recovered, callers, answer, history>>

\* doRecover, once per process: the crash-loop guard, and jobs without a document.
Recovered_Unguarded(p) == [job[p] EXCEPT !.state = IF @ = "running" THEN "queued" ELSE @]
Recovered(p) ==
  [job[p] EXCEPT !.state = IF @ # "running" THEN @
                           ELSE IF job[p].attempts >= MaxJobAttempts THEN "error" ELSE "queued"]
GivenUp(p) == job[p].state = "running" /\ Recovered(p).state = "error"

Recover ==
  /\ run.at = "top" /\ ~recovered
  /\ recovered' = TRUE
  /\ job' = [p \in Pages |-> IF Live THEN Recovered(p) ELSE NoJob]
  /\ page' = [p \in Pages |-> IF GivenUp(p) /\ page[p] = "pending" THEN "failed" ELSE page[p]]
  /\ doc' = IF \E p \in Pages : GivenUp(p) THEN Refreshed(page') ELSE doc
  /\ UNCHANGED <<run, dirty, answer, history>>

TakeTurn ==
  /\ run.at = "top" /\ recovered
  /\ dirty' = FALSE
  /\ RunAt("picking")
  /\ UNCHANGED <<tables, answer, history>>

\* pickNextJob: explicit requests (REPROCESS_PRIORITY) before first readings.
Queued == {p \in Pages : job[p].state = "queued"}
Pick(p) ==
  /\ run.at = "picking" /\ p \in Queued
  /\ job[p].gen > 1 \/ \A q \in Queued : job[q].gen = 1
  /\ run' = [Idle EXCEPT !.at = "lock", !.p = p, !.job = job[p]]
  /\ UNCHANGED <<tables, dirty, answer, history>>

PickNothing ==
  /\ run.at = "picking" /\ Queued = {}
  /\ RunAt("empty")
  /\ UNCHANGED <<tables, dirty, answer, history>>

\* Nothing to do: the loop ends, unless somebody kicked it in the meantime.
AfterLoop_Forgets == "off"
AfterLoop == IF dirty THEN "top" ELSE "off"
LeaveLoop ==
  /\ run.at = "empty"
  /\ RunAt(AfterLoop)
  /\ dirty' = FALSE
  /\ UNCHANGED <<tables, answer, history>>
----------------------------------------------------------------------------
(* runJob and processJob.                                                  *)

\* Saved before running, with one attempt more; the record is the one that was picked.
Start ==
  /\ run.at = "lock"
  /\ LET j == Job("running", run.job.gen, run.job.attempts + 1) IN
       /\ job' = [job EXCEPT ![run.p] = j]
       /\ run' = [run EXCEPT !.at = "current", !.job = j]
  /\ UNCHANGED <<page, doc, dirty, answer, history>>

\* The document is gone (or not saved yet): the job goes too.
DropJob ==
  /\ run.at = "current" /\ ~Live
  /\ job' = [job EXCEPT ![run.p] = NoJob]
  /\ Settle(run.p, run.job.gen, "failed")
  /\ Closing
  /\ Concluded(run.p)
  /\ UNCHANGED <<page, doc, dirty, processed, crashes>>

\* A first reading of a page that has its text: nothing to do.
AlreadyReadable_Unlooked == run.job.gen = 1
AlreadyReadable == run.job.gen = 1 /\ page[run.p] \in Readable
ReadPage ==
  /\ run.at = "current" /\ Live
  /\ run' = IF AlreadyReadable THEN [run EXCEPT !.at = "finish", !.aborted = FALSE]
            ELSE [run EXCEPT !.at = "work", !.prev = page[run.p]]
  /\ UNCHANGED <<tables, dirty, answer, history>>

Wrote == processed' = IF run.job.gen > 1 THEN processed \cup {<<run.p, run.job.gen>>} ELSE processed

\* commitPage: the text read here; then perhaps the image of a PDF page.
CommitText ==
  /\ run.at = "work"
  /\ page' = [page EXCEPT ![run.p] = "local"]
  /\ \E next \in {"finish", "image"} : run' = [run EXCEPT !.at = next, !.prev = "absent", !.aborted = @ /\ next = "image"]
  /\ Wrote
  /\ Concluded(run.p)
  /\ UNCHANGED <<job, doc, dirty, answer, crashes>>

\* renderPdfImage: the page written again with its size, or the image is given up.
SaveImage ==
  /\ run.at = "image"
  /\ page' \in {page, [page EXCEPT ![run.p] = "local"]}
  /\ run' = [run EXCEPT !.at = "finish", !.aborted = FALSE]
  /\ UNCHANGED <<job, doc, dirty, answer, history>>

\* handOverToAi: a page that had a text keeps the one read at the start.
HandOver ==
  /\ run.at = "work"
  /\ page' = [page EXCEPT ![run.p] = IF run.prev \in Readable THEN run.prev ELSE "failed"]
  /\ run' = [run EXCEPT !.at = "finish", !.prev = "absent", !.aborted = FALSE]
  /\ Wrote
  /\ Concluded(run.p)
  /\ UNCHANGED <<job, doc, dirty, answer, crashes>>

\* handleFailure: again while attempts are left, unless the error is permanent.
AfterFailure_Unbounded(permanent) == IF permanent THEN "error" ELSE "queued"
AfterFailure(permanent) ==
  IF permanent \/ run.job.attempts >= MaxJobAttempts THEN "error" ELSE "queued"
Fail ==
  /\ run.at = "work" /\ ~run.aborted
  /\ \E permanent \in BOOLEAN :
       run' = [run EXCEPT !.at = "store", !.prev = "absent", !.want = [run.job EXCEPT !.state = AfterFailure(permanent)]]
  /\ UNCHANGED <<tables, dirty, answer, history>>

\* The attempt of an aborted run does not count.
Abort ==
  /\ run.at \in {"work", "image"} /\ run.aborted
  /\ IF Live
       THEN run' = [run EXCEPT !.at = "store", !.prev = "absent", !.aborted = FALSE,
                               !.want = Job("queued", run.job.gen, run.job.attempts - 1)]
       ELSE Closing
  /\ UNCHANGED <<tables, dirty, answer, history>>

\* The job on the disk is still the one that was run.
StillCurrent == job[run.p].state # "none" /\ job[run.p].gen = run.job.gen

Finish ==
  /\ run.at = "finish"
  /\ Settle(run.p, run.job.gen, "ok")
  /\ IF StillCurrent THEN RunAt("finishing") ELSE Closing
  /\ UNCHANGED <<tables, dirty, history>>

PutDone ==
  /\ run.at = "finishing"
  /\ job' = [job EXCEPT ![run.p] = Job("done", run.job.gen, 0)]
  /\ Closing
  /\ UNCHANGED <<page, doc, dirty, answer, history>>

\* putJobIfCurrent: look, then put.
CheckStore ==
  /\ run.at = "store"
  /\ IF StillCurrent THEN RunAt("storing") ELSE Closing
  /\ IF ~StillCurrent /\ run.want.state = "error" THEN Settle(run.p, run.job.gen, "failed") ELSE UNCHANGED answer
  /\ UNCHANGED <<tables, dirty, history>>

Store ==
  /\ run.at = "storing"
  /\ job' = [job EXCEPT ![run.p] = run.want]
  /\ IF run.want.state = "error" THEN RunAt("failread") /\ Concluded(run.p) ELSE Closing /\ UNCHANGED ahead
  /\ UNCHANGED <<page, doc, dirty, answer, processed, crashes>>

\* A page that has readable text keeps it; only pages without text become failed.
FailRead ==
  /\ run.at = "failread"
  /\ IF page[run.p] \in Readable
       THEN Settle(run.p, run.job.gen, "failed") /\ Closing
       ELSE RunAt("failsave") /\ UNCHANGED answer
  /\ UNCHANGED <<tables, dirty, history>>

FailSave ==
  /\ run.at = "failsave"
  /\ page' = [page EXCEPT ![run.p] = "failed"]
  /\ Settle(run.p, run.job.gen, "failed")
  /\ Closing
  /\ UNCHANGED <<job, doc, dirty, history>>

\* refreshDocumentStatus at the end of the run: read, then save what changed.
ReadStatus ==
  /\ run.at = "refresh"
  /\ run' = IF Refreshed(page) = doc THEN [Idle EXCEPT !.at = "top"]
            ELSE [Idle EXCEPT !.at = "saving", !.status = DeriveStatus(page)]
  /\ UNCHANGED <<tables, dirty, answer, history>>

\* The row that was read is written back, deleted or not in the meantime.
WriteStatus ==
  /\ run.at = "saving"
  /\ doc' = [where |-> "live", status |-> run.status]
  /\ run' = [Idle EXCEPT !.at = "top"]
  /\ UNCHANGED <<job, page, dirty, answer, history>>

RunStep ==
  \/ TakeTurn \/ PickNothing \/ LeaveLoop \/ (\E p \in Pages : Pick(p))
  \/ Start \/ DropJob \/ ReadPage \/ CommitText \/ SaveImage \/ HandOver \/ Fail \/ Abort
  \/ Finish \/ PutDone \/ CheckStore \/ Store \/ FailRead \/ FailSave \/ ReadStatus \/ WriteStatus

Runner == (Recover \/ (RunStep /\ UNCHANGED recovered)) /\ UNCHANGED callers
----------------------------------------------------------------------------
(* The parent, the sync, and the tab.                                      *)

\* reprocessPage and replacePageImage: a new generation replaces the job, whatever its state.
Ask(p) ==
  /\ recovered /\ import = "done" /\ Live /\ clock < MaxGen
  /\ clock' = clock + 1
  /\ job' = [job EXCEPT ![p] = Job("queued", clock', 0)]
  /\ answer' = [answer EXCEPT ![p][clock'] = "waiting"]
  /\ KickLoop
  /\ UNCHANGED <<page, doc, import, recovered, fix, removal, budget, history>>

\* savePageCorrection: the page, and its job is read; if it is queued it is then put as done.
Correct(p) ==
  /\ budget.left > 0 /\ fix = NoFix /\ import = "done" /\ page[p] # "absent"
  /\ budget' = [budget EXCEPT !.left = @ - 1]
  /\ page' = [page EXCEPT ![p] = "manual"]
  /\ IF job[p].state = "queued"
       THEN fix' = [p |-> p, job |-> job[p]] /\ UNCHANGED doc
       ELSE doc' = Refreshed(page') /\ UNCHANGED fix
  /\ UNCHANGED <<job, runner, import, removal, answer, clock, history>>

CorrectPutJob ==
  /\ fix # NoFix
  /\ job' = [job EXCEPT ![fix.p] = [fix.job EXCEPT !.state = "done"]]
  /\ fix' = NoFix
  /\ doc' = Refreshed(page)
  /\ UNCHANGED <<page, runner, import, removal, answer, clock, budget, history>>

\* AbortController.abort: seen by the reading at its next await, and by nobody after it.
Abortable == {"current", "work", "image"}
AbortRun == run' = IF run.at \in Abortable THEN [run EXCEPT !.aborted = TRUE] ELSE run

\* deleteDocumentEverywhere: cancelDocument, the tombstone, purgeDocumentLocalData.
CancelDocument ==
  /\ removal \in {"none", "halfway"} /\ import = "done" /\ Live
  /\ removal' = "tombstone"
  /\ AbortRun
  /\ job' = [p \in Pages |-> NoJob]
  /\ answer' = [p \in Pages |-> [g \in Gens |-> IF answer[p][g] = "waiting" THEN "failed" ELSE answer[p][g]]]
  /\ UNCHANGED <<page, doc, import, dirty, recovered, fix, clock, budget, history>>

Tombstone ==
  /\ removal = "tombstone"
  /\ removal' = "purge"
  /\ doc' = [doc EXCEPT !.where = "deleted"]
  /\ UNCHANGED <<job, page, import, runner, fix, answer, clock, budget, history>>

PurgeLocalData ==
  /\ removal = "purge"
  /\ removal' = "done"
  /\ page' = [p \in Pages |-> "absent"]
  /\ job' = [p \in Pages |-> NoJob]
  /\ UNCHANGED <<doc, import, runner, fix, answer, clock, budget, history>>

\* applyRemote: a text of the home computer, or the document deleted on another device.
SyncText(p) ==
  /\ budget.left > 0 /\ Live /\ page[p] # "absent" /\ import = "done"
  /\ page' = [page EXCEPT ![p] = "home"]
  /\ budget' = [budget EXCEPT !.left = @ - 1]
  /\ UNCHANGED <<job, doc, import, runner, fix, removal, answer, clock, history>>

SyncDeletion ==
  /\ budget.left > 0 /\ Live /\ import = "done"
  /\ doc' = [doc EXCEPT !.where = "deleted"]
  /\ budget' = [budget EXCEPT !.left = @ - 1]
  /\ UNCHANGED <<job, page, import, runner, fix, removal, answer, clock, history>>

\* pagehide: the run is aborted; the loop goes on when the tab is shown again.
PageHide ==
  /\ budget.left > 0 /\ run.at \in Abortable /\ ~run.aborted
  /\ AbortRun
  /\ budget' = [budget EXCEPT !.left = @ - 1]
  /\ UNCHANGED <<tables, import, dirty, recovered, fix, removal, answer, clock, history>>

\* The tab dies and is opened again: IndexedDB is all that is left; start() kicks.
Crash ==
  /\ budget.left > 0
  /\ budget' = [left |-> budget.left - 1, died |-> TRUE]
  /\ import' = IF import = "done" THEN import ELSE "dead"
  /\ removal' = IF removal \in {"tombstone", "purge"} THEN "halfway" ELSE removal
  /\ run' = [Idle EXCEPT !.at = "top"]
  /\ dirty' = FALSE
  /\ recovered' = FALSE
  /\ fix' = NoFix
  /\ answer' = [p \in Pages |-> [g \in Gens |-> IF answer[p][g] = "waiting" THEN "lost" ELSE answer[p][g]]]
  /\ crashes' = [p \in Pages |-> [g \in Gens |->
       crashes[p][g] + IF run.at \in Current /\ run.p = p /\ run.job.gen = g THEN 1 ELSE 0]]
  /\ UNCHANGED <<tables, clock, processed, ahead>>

Next ==
  \/ Runner \/ ImportDocument \/ ImportPages \/ CorrectPutJob \/ Tombstone \/ PurgeLocalData
  \/ Kick \/ CancelDocument \/ SyncDeletion \/ PageHide \/ Crash
  \/ \E p \in Pages : Ask(p) \/ Correct(p) \/ SyncText(p)

Spec == Init /\ [][Next]_vars

\* Every promise of the event loop resolves: no handler waits for ever (the callers take finitely many steps).
FairSpec ==
  Spec /\ WF_vars(Runner) /\ WF_vars(ImportDocument \/ ImportPages \/ CorrectPutJob \/ Tombstone \/ PurgeLocalData)
----------------------------------------------------------------------------
\* Type invariant.
TypeOK ==
  /\ job \in [Pages -> [state : JobStates, gen : 0..MaxGen, attempts : 0..MaxJobAttempts]]
  /\ page \in [Pages -> PageStates]
  /\ doc \in [where : {"absent", "live", "deleted"}, status : {"processing", "partial", "ready"}]
  /\ import \in {"document", "pages", "done", "dead"}
  /\ run.at \in Current \cup Between /\ (run.at \in Current \cup {"lock"} => run.p \in Pages)
  /\ {dirty, recovered} \subseteq BOOLEAN
  /\ removal \in {"none", "tombstone", "purge", "done", "halfway"}
  /\ answer \in [Pages -> [Gens -> {"none", "waiting", "ok", "failed", "lost"}]]
  /\ clock \in Gens /\ budget \in [left : 0..MaxEvents, died : BOOLEAN]

(***************************************************************************)
(* Crash-loop guard: a page whose reading kills the tab is read at most    *)
(* MaxJobAttempts times for one request, whatever aborts, failures,        *)
(* corrections and new requests come in between.                           *)
(***************************************************************************)
CrashLoopGuard == \A p \in Pages, g \in Gens : crashes[p][g] <= MaxJobAttempts

(***************************************************************************)
(* A request is answered with success only once a run of its own           *)
(* generation has written or handed over its page.                         *)
(***************************************************************************)
AnsweredByOwnRun == \A p \in Pages, g \in Gens : answer[p][g] = "ok" => <<p, g>> \in processed

(***************************************************************************)
(* The job of a page that still waits for its text is never dropped, nor   *)
(* taken for done, except by a queue that was ahead of the import: it      *)
(* drops the job of a document that is not saved yet, and the import       *)
(* writes its empty page over a text that is already there.                *)
(***************************************************************************)
NoPageForgotten ==
  import = "done" /\ Live /\ removal = "none" =>
    \A p \in Pages \ ahead : page[p] = "pending" => job[p].state \in {"queued", "running", "error"}

(***************************************************************************)
(* Once the parent, the sync and the tab leave it alone, the runner brings *)
(* every job of a live document to an end; if no tab died and the queue    *)
(* was not ahead of the import, the status of the document then says       *)
(* "processing" only for a page without a result.                          *)
(***************************************************************************)
AtRest ==
  Live /\ removal = "none" /\ import = "done" =>
    /\ \A p \in Pages : job[p].state \in Settled
    /\ doc.status = "processing" /\ ~budget.died /\ ahead = {} => \E p \in Pages : page[p] = "pending"
EventuallyAtRest == <>[]AtRest

(***************************************************************************)
(* "the transcription synced later is kept: a queued first reading does    *)
(* not overwrite it" (test of ProcessingQueue): nor does one that runs.    *)
(***************************************************************************)
TranscriptionKept ==
  [][\A p \in Pages : page[p] = "home" /\ job[p].gen = 1 => page'[p] \in {"home", "manual", "absent"}]_vars

(***************************************************************************)
(* "soft-deletes (synced)" (deleteDocument.ts): a deleted document stays   *)
(* deleted on the device.                                                  *)
(***************************************************************************)
DeletedStays == [][doc.where = "deleted" => doc'.where = "deleted"]_vars
=============================================================================
