# Mon Carnet Malin: TLA+ models, checks and proofs

Mon Carnet Malin is a reading aid for children: web and iOS clients that work
offline (IndexedDB, an outbox), a Node server (Express, MySQL or SQLite through
knex), and an optional *home computer*, a worker program outside the repository
that runs AI jobs it leases from the server. This directory models the parts of
it whose correctness depends on the order in which things happen: the sync of
the devices of a family, the queues of the device and of the home computer, the
way of a page from a photo to its text, AI requests and summaries, reading
aloud, the marks of a child on a page, and accounts.

    tlc -config MCSyncLog_pull.cfg MCSyncLog      model-check one instance
    tlapm SyncLogProofs.tla                       check the proofs of a module

## 1. Inventory

Paths are relative to `src/`. "Hard" names what tests hardly reach; PROJECT.json
lists the hazards at their lines, with the properties that cover them.

| Part | State and operations | Talks to | Hard | What makes it correct | Module |
|---|---|---|---|---|---|
| Sync log: `server/src/db/repositories/syncCounters.ts`, `db/sync/pull.ts` | a counter per family, `server_seq` and `deleted_at` of every row; transactions that take numbers, a pull of some ten reads | every route that writes rows; `routes/sync.ts` | the pull is not a transaction; two writers; paging; settings that change | no cursor is past a row the device was not sent | `SyncLog` |
| Push: `db/sync/push.ts`, `routes/sync.ts` | versions of rows; last-writer-wins, references, document locks, cascade of deletions | sync log, devices | stale, repeated and late requests | rows only get newer; nothing outlives its document | `SyncEngine` |
| Sync engine of a device: `client/src/sync/SyncEngine.ts` | local rows, outbox, cursor, keys to restore; collect, send, apply, settle, restore | push and pull; every screen edits rows | edits in flight, lost answers, crashes between transactions | no unsent edit is lost; a device at rest shows the server's rows | `SyncEngine` |
| Job queue: `db/repositories/workerJobs.ts`, `routes/worker.ts` | job table; lease, heartbeat, result, expiry, purge | home computer, page routes, maintenance | leases that run out, abandoned and repeated requests, dead workers | a job is concluded once, its result takes effect at most once, every job ends | `WorkerJobs` |
| Queue transport: `worker/QueueTransport.ts` | one waiting request per AI job; poll, deadline, abort | AI router, job queue | an answer racing the deadline; the cap of a family | a request ends, with the answer its job has or with nothing left behind | `QueueTransport` |
| Processing queue: `client/src/documents/ProcessingQueue.ts`, `ImportService.ts`, `deleteDocument.ts` | page jobs in IndexedDB, one runner, waiters, the status of a document | import, reader, text recognition, sync | an explicit request racing the runner, a tab that dies, a deletion in the middle | a request is answered by its own run; no page is forgotten; no crash loop | `ProcessingQueue` |
| Way of a page: `client/src/documents/pendingUploads.ts`, `server/src/routes/documents.ts`, `db/storage/uploads.ts`, `worker/pageTranscription.ts` | entries with retries, files and rows, transcription jobs | processing queue, job queue, sync | a photo replaced while it is sent; two uploads at once; a result for a former image | the row names a file that exists; a text is not that of another image than the one shown | `PageReading` |
| AI router: `server/src/ai/AIRouter.ts` | cache, quota, budget, alerts, AI jobs, the log | provider or queue transport, parents' pages | requests at once near a limit; a client that leaves; writes that fail | limits hold up to what was on its way; parents are told first; questions are kept | `AIRouter` |
| Summaries: `client/src/ai/aiClient.ts` | lanes, the device's cache, polls | AI router, other devices | chunks answered out of order, local answers in a cache, a restart | a summary is of every chunk, of what they say now; it ends | `AISummary` |
| Reading aloud: `client/src/tts/SpeechEngine.ts` | queue, position, generation, timers, wake lock | browser speech, reader | late callbacks, utterances dropped, pauses in a gap | one voice; what is shown is heard; nothing skipped | `SpeechEngine` |
| Marks: `client/src/pencil/AnnotationStore.ts`, `history.ts`, `anchoring.ts` | annotations, undo and redo, a serial queue of writes | processing queue (new texts), sync, reader | a write that fails half-way; late saves; texts that move | undo leads back; what was removed stays removed; a highlight follows its words | `Annotations` |
| Accounts: `server/src/auth/`, `accountDeletion.ts` | sessions, failed attempts and locks, links of a reset | all routes | attempts at once, a link opened twice, a deletion during a log-in | guesses are bounded; a link works once; a device is told its account is gone | `Accounts` |
| Session of the device: `client/src/state/session.ts` | account, keys of the sync | sync engine | sign-out during a run | no cursor of another account | |
| Retention: `server/src/maintenance/` | purges | all tables | deletion cancelled while it runs | nothing alive is purged | |
| Server text recognition: `server/src/ocr/ServerOCR.ts` | one engine, a queue of three | pages | timeouts, a dying engine | every caller is answered | |
| iOS: `ios-native/CarnetKit` | the same sync in Swift | the same server | as above | as above | |

Parts without control worth a model (document formats, drawing, screens, text
rules, dictionary, mail, start-up) are listed in PROJECT.json with the reason.

How they meet. Screens write rows through `saveEntity`, which puts them in the
outbox of the sync engine; the processing queue, the marks and the uploads do
the same, so their rows reach other devices through the sync log. A page the
device cannot read is handed over: its image goes up with the upload queue, the
server queues a job for the home computer, its result becomes a row again. An AI
request passes the router, then the provider or the queue transport and the same
job table. `PageReading` composes the device, its upload queue, the upload
route, the job and the sync for one page; `QueueTransport` extends `WorkerJobs`,
`AISummary` extends `AIRouter`; `SyncLog` and `WorkerJobs` implement `SyncFeed`
and `JobLife`, which is what the other models assume of them (an atomic pull,
a job with one result).

## 2. Modules

| Module | Models | Interface |
|---|---|---|
| `SyncFeed` | abstract: commits of numbered rows, atomic hand-over to devices | `Spec`, `NeverSkips` |
| `SyncLog` | counter, write transactions, pull read by read | implements `SyncFeed` |
| `SyncEngine` | the device's loop, the push and an atomic pull | uses that `SyncLog` behaves like an atomic pull |
| `JobLife` | abstract: a job is queued, then done with one effect, dropped, or removed | `Spec` |
| `WorkerJobs` | job table, `/lease`, `/heartbeat`, `/result`, worker | implements `JobLife` |
| `QueueTransport` | AI requests waiting for their job; EXTENDS `WorkerJobs` | composes its next-state relation |
| `ProcessingQueue` | jobs and pages of a document on a device, the runner, explicit requests, import, correction, deletion | the sync writes pages |
| `PageReading` | one page from the photo to the text, with the upload queue, the upload route and the job | each job of the page implements `JobLife` |
| `AIRouter` | `handle` for four kinds of request, jobs for slow ones | the provider answers, fails or is slow |
| `AISummary` | the progressive summary of a client; EXTENDS `AIRouter` | composes its requests |
| `SpeechEngine` | the queue of sentences, timers, events of the synthesiser, the wake lock | the browser's synthesiser is external |
| `Annotations` | highlights and text boxes, undo and redo, new texts of the page | other devices change rows and texts |
| `Accounts` | log-in, locks, resets, sessions, deletion of the account | |
| `SyncLogProofs`, `SyncEngineProofs`, `SpeechEngineProofs`, `ProcessingQueueProofs`, `AccountsProofs`, `AnnotationsProofs` | theorems about the module of that name | |
| `WorkerJobsProofs` | theorems about `WorkerJobs`, `QueueTransport` and `PageReading` | |
| `AIRouterProofs` | theorems about `AIRouter` and `AISummary` | |
| `MC...` | constants for TLC | |

Definitions with a suffix (`Flushed_Forgotten`, `Applies_Unconditional`...) are the
mistakes each property is measured against: with the mistake in place of the
definition that follows it, TLC refutes the property. They are used nowhere else.

### SyncLog
A row is a key of a synced table, its version the `server_seq` of its last write.
A writer opens a transaction by taking the locked counter (`OpenSeqAllocator`,
`SELECT ... FOR UPDATE`), saves rows and commits or rolls back; two writers can
only overlap as far as that lock lets them. A pull reads the setting and the
counter, scans each table for sequence numbers above the cursor, chooses the
window that fits, reads the deleted documents and loads the rows of each table;
every one of these reads is an action. A cursor above the counter (the database
was restored from a backup) leads to a full pull. Left out: the byte budget (it
only makes a window shorter, `MaxRows` does the same) and the row contents.

### SyncEngine
One action per `await` boundary of `runSync`: collect a batch, the server's
verdict and answer in one step (push and pull of one request), applying the rows
one by one, settling the outbox, starting the restore or saving the cursor. Users and
server routes edit between any two of them; a request may be lost before or after
it is served, or be served late, after its retry; the application may end. A
version is its `updatedAt`, its writer and whether it is a deletion; a deletion of
a document needs the parent PIN and takes annotations and exercises with it.
Abstractions: clocks are within the five minutes `clampUpdatedAt` tolerates; rows of children that
are accepted in part and the PIN rule of `childIds` are not modelled (the PIN is
the one of document deletion); documents that rows refer to are synced from the
start; the annotation and text settings stay on; `MAX_ROUNDS`, the error for a
cursor that does not move, invalid outbox rows and sign-out are left out; an edit
reads the row afresh; the cascade stamps every annotation of the document. `Converged`
says of a document only that the device's is not older than the server's, since a
rejected one may be ahead (see "Second rejection" below).

### WorkerJobs and QueueTransport
Every SQL statement on `worker_jobs` is one action, a request handler a sequence
of them held in `pc`, so handlers interleave at every `await`. `reclaimWorkerJobs`
(three statements) is one action, as are the read of the pause and the candidate
list: the claim that follows is conditional and takes whatever it finds. `/result`
reads the job, then ends in one conditional statement or transaction; `posts`
holds the requests between the two, which is where a lease is lost. Time is three
events: a lease runs out (`lapsed`), `expires_at` passes (`due`), the pause ends.
The worker program is external: it asks for a job when it has none, may abandon a
request (`conn` "cut"; the server sees it "closed" later), restart, and repeat a
result. `listLeaseCandidates` returns any queued, unexpired jobs: priorities and
kinds only order them. Not modelled: an unreadable request (`bad_job`, which
needs a damaged row), the image route, usage accounting, the contents of pages
(whether a page is written, or left alone as "skipped" or "failed", is a choice).
`QueueTransport` adds the requests of one family: the count against the cap and
the insertion are two actions, `stop` is the conditional expiry and the last look.
A statement of the database that fails ends the request as "failed"
(`DatabaseFails`): its row, if there is one, may stay until it expires. A poll
that fails is only logged, and the next one follows.
That nobody is connected is not modelled: a request may give up at any time.

### ProcessingQueue
One runner (`pump`, `loop`, `runJob`) whose position is `run.at`; each `await` on
a table ends an action, and explicit requests, corrections, writes of the sync,
a deletion, the tab that is hidden (`pagehide`) or dies come between any two. A
page is what its text comes from; what an engine makes of an image, and whether
it fails, is a choice. A job that ran when the tab died has its attempts counted
at the next start (`doRecover`). Promises of `reprocessPage` are `answer`, one per
generation (`enqueuedAt`). The queue may be busy with another document and reach the
jobs of an import before its rows are saved; `ahead` remembers the pages where it
did. Left out: which engine reads, deferred text modes, progress, EPUB imports, and
an import whose saves fail half-way (its `catch`, `ImportService.ts:183`, deletes the
files and jobs again).

### PageReading
The device takes a photo, saves the page, puts its image in the upload queue
(which keeps one entry per page) and hands over; `flush` sends, the route writes
the file, then the row, removes the former file and queues the job, one step per
`await`; the job is leased with the file that is there at that time and its result
is committed if the image is still the same. An upload may end without effect: the
device drops an image that is missing or too large (`NotSent`), the route refuses the
request or its file (`Refuse`, `RefuseFile`: settings, size, type, quota), the save of
the row fails and the file is removed again (`SaveFails`), or the transcription is
switched off or cannot be queued. The sync carries the page both ways, the newer
version wins. Two handlers may overlap, since a request that was cut
short goes on. Two assumptions about time are in the guards, and the order of images
rests on them: the reading of an image takes seconds, the writes of its page on the device
milliseconds (`Decide` does not decide the job of the very image whose page is being
written); and a request that was in progress when a
job was leased is over before a result is decided (`late`), as those of earlier
attempts are before a retry (`Send`). The names are those of this module (`ReadingSpec`, `reading`),
since `WorkerJobsProofs` extends it beside the job table.

### AIRouter and AISummary
A request has a place (`At`) between the awaits of `handle` on the shared tables:
chunks of a final summary, alert, quota, budget, warning, paid answer, cache, the
call (at most two), local answer, cache, log, record of the question, reply. A
client may close the connection, poll a job, or time out; a crash of the process
loses the requests and keeps the tables. Four inserts are caught and only logged
by the code: the alert, the cache entry, the log row and the record of a question.
Each may fail (`faults`), and the request then carries the line it left in the
server's log (`errors`). A statement that throws where nothing catches it is not an
action of its own (a crash, which ends every request at work, is); of a job that ends so
(`AIRouter.ts:805`) the question would still be recorded. The client of `AISummary` takes chunks
in lanes, keeps answers in its own cache, asks for the final summary and sends
chunks the server misses once more, past its cache, at most twice. Money is
counted in calls (`CallCost`). Left out: handwriting, writing correction,
streaming, the failover between providers, the text of prompts.

### SpeechEngine
The code is synchronous, so every method is an operator from engine to engine
and an action is one call, timer or event. Utterances carry the generation they
were made in; since generations are only compared with the current one, a flag
`fresh` says whether they agree, and a bump makes all of them stale. A sentence has an id,
which is its place on the page (`page:block:sentence`), and words: a corrected page has
other words under the same ids, and `setQueue` compares ids. `old` remembers the
utterance whose words were replaced while it was being said. The synthesiser starts, ends, fails or silently drops an utterance; the wake lock
answers late.

### Annotations
Writes of the child run one after the other (`runExclusive`) and are cut at every
`await`: a command is the identities it created and deleted, `setDeleted` reads a
row and then saves it, a failure leaves what was saved and puts an undone command
back. `commitPage` is not part of that queue: it reads the highlights of the page
at once and moves them one by one, next to the child's writes, before it saves
the text. A word has width one; a block may be shifted (`pad`), which its hash,
made of the normalised text, does not show. `Reanchor` follows `reanchor` for
highlights: same place, exact words in the nearest block, then the best window
with a Jaccard index of 0.8. Strokes, answer boxes (their commands are the same,
their history another) and several pages are left out. A row written by another device may
have another state, or another place with the words that stand there in its text
(`RemoteMove`).

### Accounts
A request has read the account, compares a secret, counts the failure, reads the
count back, locks; or opens a session, signs the others out, uses a link, in the
steps of the routes. A deletion reads the sessions and then removes everything in
a transaction. Time is one event, the end of a lock. `startSession` deletes the device's
former session and inserts the new one in one step; a failure of the database
between the comparison of a secret and its count is not modelled. Sign-up, invitations and the
expiry of the adult area are left out.

## 3. Runs

All runs set CHECK_DEADLOCK FALSE: bounds on edits, numbers, attempts or events
end the executions of every instance.

| Run | Shows | Bounds, and why they are enough |
|---|---|---|
| `synclog_pull` | types, `NeverSkips`, `ImplementsFeed`, `EventuallyCaughtUp` | 3 rows in 3 tables, one row a page, 2 writers, 3 numbers: two pages with a rewrite in between, a lost request and a change of the setting |
| `syncengine_unsent` | `UnsentQueued`, `CascadeComplete`, `Converged`, `NoRegress` | a document, its page and its annotation, 2 edits on either side, one request lost or late |
| `syncengine_live` | `EventuallyConverged` | two rows, batches of one (so several rounds), 3 edits, one lost or late request |
| `workerjobs_jobs` | `EffectsCounted`, `ImplementsLife`, `EveryJobEnds` | a page job, 2 workers of which one may vanish, late and repeated results |
| `queuetransport_answers` | `NothingLeftBehind`, `AnsweredFromResult`, `EveryRequestEnds` | one request, 2 workers, 2 attempts |
| `processing_read` | `CrashLoopGuard`, `AnsweredByOwnRun`, `NoPageForgotten`, `EventuallyAtRest` | one page, the import and an explicit request, 2 attempts, 3 events (correction, write of the sync, tab hidden or dead): the request can meet every step of the former run, and the queue may be ahead of the import |
| `pagereading_pages` | `RowOnDisk`, `TextOfImage`, `UploadEnds` | a photo and its replacement, two handlers at once, 2 attempts, one event. The proofs are for any number of photos |
| `airouter_limits` | `LimitsHold`, `ReportedToParent`, `QuestionsKept` | 3 requests of every kind, 2 at once, quota 1, a budget that one more call passes, one fault |
| `aisummary_summaries` | `SummaryOfAllChunks`, `AnswersItsOwn`, `SummaryEnds` | 2 chunks in 2 lanes, one other request, one fault, both caches empty or of an earlier summary |
| `speech_read` | `OneVoice`, `ShownIsHeard`, `NothingSkipped`, `LockOnlyWhilePlaying`, `GapRespected`, `ReadingEnds` | a page of 3 sentences of which one says nothing; the same page corrected, with other words in the first place and the second's moved up; its last two places; the empty page; 4 commands, 2 failures |
| `annotations_marks` | `HistoryFits`, `FollowsItsWords`, `BoxStaysRemoved` | 2 annotations, a history of 2 (so it overflows), 3 pieces of work, 2 texts, failures or changes by others; texts that are shifted, or move the words to another block and put one between them; rows that another device removed, restored or moved |
| `accounts_account` | `GuessesBounded`, `LinkUsedOnce`, `ToldGone` | 5 requests, 2 at once, 2 free attempts, 2 devices |

Bounds of the models (not of the code) are named `Max...` and marked "bound" where
they are declared, with the sets `Calls`, `Writers`, `Devices`, `Workers`, `Slots`,
`Handlers`, `Requests`, `Selections`. They appear in guards only. `MaxRows`, `MaxBatch`, `MaxAttempts`,
`MaxActive`, `MaxJobAttempts`, `Quota`, `Budget`, `FreeAttempts` and `HistoryLimit` are
limits of the code, given small values. Symmetry is used where no liveness
property is checked (clients of the router, devices and requests of an account).

Fairness. `SyncLog`: a device keeps pulling and its requests get on (the sync
interval); nobody has to write. `SyncEngine`: `SyncStep`, the same interval and
the promise queue of the browser. `WorkerJobs`: time passes, the hourly
maintenance runs, some worker keeps asking, no worker runs one job for ever, and
strongly for the lease handlers: the server does not end in the middle of every
request. `QueueTransport`: timers fire and the event loop serves what is ready,
nothing else. `ProcessingQueue`: the runner, the import, a correction and a
deletion that have begun go on while the tab lives (the promise queue); no
request, sync or death has to happen. `PageReading`: the same for the upload queue
and the handlers, and the sync interval. `AISummary`: client, requests and jobs go
on, so a provider answers or fails, as its time-out makes sure. `SpeechEngine`:
timers fire and the synthesiser ends what it has started; that it starts
is not assumed, the watchdog is there for it. `AIRouter`, `Annotations` and
`Accounts` are checked for safety only.

### Where the code differs
What follows is stated in a doc, a comment, or as a property of the modules, and
is not what the code does; each was seen as a counterexample of TLC on a small
instance. The definitions are in the modules and no run of the table checks them.
- *Annotations switched off* (`AnnotationsNeverSkipped`, `pull.ts:61`). `pullChanges` leaves
  annotations out while the parent has them off, but the cursor moves past them;
  after switching on, a device never gets them. `NeverSkips` and `SyncFeed` except
  them (`Hidden`).
- *Second rejection* (`SyncEngine.ts:351`, "the authoritative server row must come back").
  Rejected rows are restored by a full
  pull, but only those of the first rejection of a run; later ones leave the
  outbox and are not restored. And a rejected row leaves the outbox in one
  transaction and enters the restore keys in a later one: when the application
  ends between them it is not restored either. A document the device has deleted
  without the PIN may so stay deleted on the device and alive on the server; or a
  document is created, its push times out, its deletion is rejected and forgotten,
  and the late push creates it on the server after all. `Converged` therefore allows
  documents, and nothing else, to be ahead of the server; it holds no device to be behind.
- *Edit during a restore* (`UnsentKept`, `SyncEngine.ts:210`). Forced rows replace the local
  row even when its newer edit waits in the outbox. `NoRegress` and `UnsentQueued`
  allow exactly this: a row goes back only while it is restored.
- *Two leases* (`OneJobPerWorker`, `worker.ts:218`, `229`). A lease request the worker abandoned
  still claims a job, after the next request of the same worker has released what
  it held.
- *Attempts* (`workerJobs.ts:153`). `releaseWorkerLeases` does not look at `attempts`, so a
  job that makes its worker restart can be claimed more than `maxAttempts` times.
- *Cap of a family* (`CapRespected`, `QueueTransport.ts:109`). Counting and inserting are two
  statements.
- *Transcription overwritten* (`TranscriptionKept`, `ProcessingQueue.ts:609`). A page is read
  before seconds of image work and written after it: a text of the home computer
  that the sync wrote meanwhile is lost, and a text of a former image may come back.
  `TextOfImage` says how far this goes: once the image of the device has been read, that
  text is gone from the server and from what the next sync keeps. Until then the
  server may have the text of the first of three photos with the image of the second,
  though that image was read: a former version of `TextOfImage`, about the image of the
  server, denied it.
- *An image that comes back* (`pageTranscription.ts:175`). A photo with the same
  bytes as an earlier one that was read finds the job of the earlier one done, and is
  not read again: the page keeps the text of the photo between them. The theorems about
  `TextOfImage` have the hypothesis that photos are distinct.
- *Job dropped during the import* (`ImportService.ts:162`: "the queue deletes jobs whose
  document never got saved"). Jobs are saved before their document, so a queue that
  is busy with another document may be ahead of the import. It may find a job whose
  document is not saved yet and delete it (`DropJob`, `ProcessingQueue.ts:608`), or read the
  page before the import saves its empty row over the text (`ImportPages`): either way the
  page stays pending. `NoPageForgotten` is about the pages where the queue was not
  ahead (`ahead`), and says the same of all others.
- *Image never sent* (`ImageSent`, `pendingUploads.ts:129`). `ProcessingQueue.ts:756` says "The
  processed image is kept and sent to the server". When a photo is replaced while
  its former image is being sent, the entry of the page is replaced too, and the
  end of the upload removes the entry of the same page: the new image is not sent.
- *Told, kept and counted, if the insert succeeds* (`AIRouter.ts:997`, `1058`, `1080`). The alert of
  the parent, the record of a free question and the row that counts a call are inserted under a
  `catch` that logs and goes on. When one fails, the child is answered without any alert,
  the question is not kept, a paid call is counted neither for the quota nor for the
  budget; the server's log is the only trace. `ReportedToParent` and `QuestionsKept` allow exactly
  the request whose log has that line; `LimitsHold` is about the rows that were written.
- *Another sentence under the mark* (`SpeechEngine.ts:143`). `setQueue` keeps the position by id,
  ids are places (`features/reader/model.ts:151`, `170`), and `ReaderPage.tsx:235` calls it whenever the
  text of the page changes. After a correction that moves the text, the mark is on the new
  sentence while the old one is heard to its end, and the new one is then not said. `ShownIsHeard`
  allows that one utterance.
- *Chunk without content* (`AnsweredChunksNotMissing`, `AIRouter.ts:476`). A chunk with nothing to
  summarise is answered, yet counts as missing at the final summary, and asking
  again finds the same.
- *Highlights after a change of spacing* (`ShownOnItsWords`, `features/reader/model.ts:324`).
  `anchoring.ts:521` says of an equal hash that "spacing or case may still have moved
  the raw offsets" and compares the place; `resolveHighlights` takes an equal hash for an equal
  place, so a text that another device has shifted shows the highlight on other
  words. `FollowsItsWords` is about `reanchor`.
- *A highlight removed during a new text* (`anchoring.ts:660-668`). `reanchorPageAnnotations`
  reads the highlights once and saves the moved ones outside `runExclusive`: one the
  child removed meanwhile is live again. Its comment "Never throws on a single
  annotation failure" is not what it does: a failing `saveEntity` ends the loop, and
  `commitPage` goes on without the rest (`SavePage`).
- *A log-in during a reset, a push during a deletion* (`auth/routes.ts:211`, `385`,
  `accountDeletion.ts:66`). A log-in that has compared the former password opens its
  session after a reset has signed all devices out; a push that was authenticated
  before a deletion writes rows of a family that is gone.
- *Ended and not told* (`accountDeletion.ts:63`, `69`). A deletion lists the sessions and then removes
  them in a transaction. A session opened between the two is ended as well, but is not on the
  list, so its device learns that it is signed out, not that the account is gone. `ToldGone`
  says that no session is left, and that the listed ones are told.

## 4. Proofs

TLAPS checks the theorems below for all values of the constants that satisfy the
assumption of their module (sets of rows, devices, writers, jobs, workers, pages,
clients and lists of any size, bounds of any value). No other assumption is made,
but for `ConvergedCorrect`, of writers that never stamp in the same millisecond, and `PageInvCorrect`
and `TextOfImageCorrect`, of distinct photos; these hypotheses are in their statements. An invariant of the system is seldom inductive
as it stands; what each proof adds is said here.

- `SyncLogProofs`: `TypeCorrect`; `InvCorrect` (`IndInv`); `Implementation`, that `SyncLog`
  implements `SyncFeed`; `NeverSkipsCorrect` by way of `SyncFeed`. The invariant says that
  one transaction holds the counter and its numbers are above it, so a window
  that ends at a committed number is closed: whatever commits later is above it,
  a row rewritten meanwhile has left it, and the rows loaded from it are current.
- `SyncEngineProofs`: `TypeCorrect`; `InvCorrect`; `UnsentQueuedCorrect`,
  `CascadeCompleteCorrect` and the action property `NoRegressCorrect`. `UnsentQueued` alone is not
  inductive: an answer may remove a row from the outbox because the server has
  what the device sent, so the invariant ties batches, answers and late requests
  to versions of the server and the device (conjuncts of `IndInv`). `RestInvCorrect`
  says where a row is that a device lacks: its number is above the cursor, and
  above the next cursor too unless the answer at hand has it; each write takes
  a number above all others. Hence `ConvergedCorrect`, for any documents, references and
  cascades: a row other than a document is only rejected for good when its document is
  gone, and then it is not shown, or for an older stamp, and then the newer version is above
  the cursor; a document is never behind what was pulled. The hypothesis `ClocksDiffer` is that no two writers
  stamp a row in the same millisecond, as in the instance: of two versions with the
  same stamp the server rejects the second, which may be the second rejection of
  a run.
- `WorkerJobsProofs`: `TypeCorrect`; `EffectsCorrect`; `Implementation`, that the job table
  implements `JobLife`. Types and `EffectsCounted` together are inductive: results
  apply to leased jobs only, whose effect count is 0. With requests on top
  (`RequestSpec`), `RequestInv` says that a row exists from the insertion of its
  request on, and that a request which stops has left its row concluded, which no
  handler undoes: hence `NothingLeftBehindCorrect` and
  `AnsweredFromResultCorrect`. `RequestImplementation` says that the life of jobs is still
  that of `JobLife`, whatever the requests do to the table.
  The same module has the proofs about `PageReading`. `RowOnDisk` becomes inductive with
  what a handler may name (`FilesInv`): a file that was moved is named by nobody else
  until its row is written, and an upload that is about to remove a file does not hold that
  of the row; a free name always exists since the files are finitely many. For
  `TextOfImage` photos are numbered (`At`), and images go forward (`PageInv`): nothing on its way to the
  server is older than what is there (`ArrivalInv`), no request with an older image comes
  after a job whose text is chosen (`ReadInv`), and what is about to be committed is not
  older than a text that is there (`ApplyInv`). Hence `RowOnDiskCorrect` and
  `TextOfImageCorrect`. The attempt to prove the latter showed that the property was
  false beyond two photos, as said above. `PageJobImplementation`: each job of a page is a job as
  `JobLife` has it, taken by itself (`HeldInv`: a result in hand belongs to a
  leased job). `TextWithItsJob`: outside the sync, the text on the server only changes together with
  its job.
- `AIRouterProofs`: `RouterInv` for `AIRouter` alone, `SummaryInv` for the same router
  under the client of `AISummary`. What a request may carry depends on its place:
  its price is that of the calls it made (two at most), a finding about a child is
  only between the alert and the reply, an answer fits the text that was asked, as
  does every entry of the cache. `LimitsHoldCorrect` needs the number of requests that
  passed a check and are not logged (`PastQuota`, `PastBudget`): once a limit is reached
  nobody joins them, so what they can still spend is bounded by their number.
  `ReportedToParentCorrect` and `QuestionsKeptCorrect` carry the alert, or the line of its failed
  insert, from the finding to the reply; `AnswersItsOwnCorrect` follows from the parts.
  `SummariesInv` adds the client of the summaries, for any number of chunks and lanes: a final
  request past its plan has read every chunk (`FinalInv`; the plan itself is `PlanInv`), a cached
  final summary answers for the chunks in its key, every request on the server has a
  client that waits for it, and only the final request is on its way while the
  final answer is awaited (`AnswerInv`), so that no late answer to a chunk is taken for
  the summary. `SummaryOfAllChunksCorrect` follows.
- `SpeechEngineProofs`: `TypeCorrect`; `EngineInv`; `OneVoiceCorrect`, `ShownIsHeardCorrect`,
  `NothingSkippedCorrect`, `LockOnlyWhilePlayingCorrect` and the action property
  `GapRespectedCorrect`. The engine protects itself twice, by `cancel()` and by the generation;
  the invariant is that they agree (`FreshInv`: an event counts exactly when its
  utterance was not cancelled), that one utterance counts at most, and that a timer
  only waits in silence. An utterance that is alive has the words of the list or is
  the one whose words `setQueue` replaced, and the position has then not moved since: hence
  `ShownIsHeardCorrect` for lists with any words under any ids. There is one lemma for each method.
- `ProcessingQueueProofs`: `TypeCorrect`; `GuardInvCorrect`, that a job which waits or runs has
  an attempt for every time the tab died under it, in the tables, in the runner's
  memory and in the records about to be written: hence `CrashLoopGuardCorrect`.
  `AnsweredByOwnRunCorrect` adds that a run that is about to answer has processed its page, and
  that no request waits for a generation of the future. `NoPageForgottenCorrect`
  follows where each page is in the import: until its row is saved a page that was not
  overtaken still has its job, and afterwards a job only ends with a page that is read or
  handed over.
- `AccountsProofs`: `TypeCorrect`; `LinkUsedOnceCorrect` (a request that changes a secret holds a
  link no other request can still take); `ToldGoneCorrect` (the removal leaves no session open and none
  opens after it, also for a log-in that was compared before; sessions do not open again, so
  of those it ended, the ones as old as the list were listed); `GuessesBoundedCorrect`
  (guesses are counted or about to be; past the free attempts each keeps its
  request busy until the lock, so at most one for each request in progress).
- `AnnotationsProofs`: `InvCorrect` and the action property `BoxStaysRemovedCorrect`. A late save is
  harmless because pieces of work are serial, the box was read alive and only
  another device can remove it meanwhile; and because a new text of the page,
  which is not serial with them, only writes rows that were highlights when it
  read them, and no step changes the kind of a row.
  `FollowsItsWordsCorrect`, for texts of any length: the comparison of two places (`Better`) is
  total and transitive and a text has finitely many windows, so the CHOOSE of `Best`
  finds one; and the rows, the row in the hands of a piece of work and those that a
  new text is about to move all carry the words of the highlight (`WordsInvCorrect`), also
  after another device has moved the row by its own text.
  `HistoryFitsCorrect`, for stacks of any length, without induction: the invariant says of each
  annotation which command decides (`Leads`: the oldest that names it on the stack to
  unwind, or the last one on the other stack), and that an annotation nothing else touched
  is created by at most one command and deleted by at most one later one (`Chain`), so
  that it is alive as the last of them left it (`Rests`). A piece of work counts as still on
  the stack it leads back from, which makes a failure half-way harmless.
  The attempt to prove it changed the property: an annotation that an undo or a
  redo left half-way is not bound on the other side, and TLC finds with a history
  of 1 and 5 pieces of work that this outlasts the command, which a new one or the
  limit of the history removes (`loose` in `EndWork`).

Only model-checked: liveness (`EventuallyCaughtUp`, `EventuallyConverged`, `EveryJobEnds`,
`EveryRequestEnds`, `EventuallyAtRest`, `UploadEnds`, `SummaryEnds`, `ReadingEnds`), since fairness and
ENABLED are beyond the prover. Every safety property of the runs has a theorem.

No RECURSIVE operator is used.

## 5. Plan

1. The state of the device's session against a sync run; the server's text
   recognition (one engine, a queue of three, time-outs); purges of `maintenance/`.
2. Pure rules as operators (`computeBackoffMs`, `clampUpdatedAt`, `lockUntilAfterFailure`)
   against reference definitions.

Not modelled, and why. Screens write rows, which is what `SyncEngine` models of
them. Document formats, drawing, French text rules and validation of answers
compute values without state between calls, over texts too large to enumerate.
The dictionary, offline assets, mail, start-up, configuration and the database
schema are input/output. The Swift client follows the web client's sync; its
differences are in its storage. These make up most of the repository's lines:
the models cover the parts where steps of several actors meet.
