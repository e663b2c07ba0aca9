----------------------------- MODULE PageReading -----------------------------
(***************************************************************************)
(* A page that the home computer reads: the device takes a photo, keeps    *)
(* its image and hands the page over; the upload queue sends the image;    *)
(* the server stores the file and its row and queues a job; the result of  *)
(* the job becomes the text of the page; the sync carries the page.        *)
(*                                                                         *)
(* One page of one document in one text mode.  Clocks agree, so of two     *)
(* versions of the page the sync keeps the one written last.               *)
(***************************************************************************)
EXTENDS Integers, Sequences, FiniteSets, SequencesExt

CONSTANTS
  Photos,            \* the images of the page, in the order they are taken
  Handlers,          \* upload requests the server serves at once
  Nothing,           \* where the code has null
  MaxUploadAttempts, \* MAX_ATTEMPTS
  MaxEvents          \* bound: corrections by an adult, deletions of the document and restarts of the server

ASSUME ReadingAssumption ==
  /\ Photos \in Seq(STRING) /\ MaxUploadAttempts \in Nat \ {0}
  /\ MaxEvents \in Nat
  /\ IsFiniteSet(Handlers) /\ Nothing \notin ToSet(Photos) \cup Nat

VARIABLES
  hand,    \* the hand-over in progress: what it does next, the text it read
  taken,   \* photos taken
  image,   \* the image of the page on the device
  entry,   \* attempts of the pending upload, or Nothing
  flush,   \* the flush in progress: what it does next, the image it sends
  page,    \* the text of the page on the device
  record,  \* the text of the page on the server
  last,    \* which of the two was written last: "device", "server", "same"
  doc,     \* the document: where it is known, and whether it is deleted
  row,     \* document_page_images: the image and its file
  disk,    \* files under uploads
  handler, \* upload requests on the server
  jobs,    \* the page_text jobs of the page
  apply,   \* the transaction that applies a result
  lost,    \* the last upload was dropped or given up
  budget   \* events left

reading == <<hand, taken, image, entry, flush, page, record, last, doc, row, disk, handler, jobs, apply, lost, budget>>
device == <<hand, taken, image, entry, flush, page, lost>>
pages == <<page, record, last, doc>>
store == <<row, disk>>

\* Where a text comes from: nowhere (the page waits), the device, an adult, or the transcription of an image.
Unread == <<"none">>
Local == <<"local">>
Manual == <<"manual">> \* protected
Transcribed(i) == <<"ai", i>>

NoFlush == [pc |-> "idle", image |-> Nothing]
NoHand == [pc |-> "idle", text |-> Unread]
NoHandler == [pc |-> "idle", image |-> Nothing, old |-> Nothing, file |-> Nothing, listed |-> {}, late |-> FALSE]
NoApply == [job |-> 0, text |-> Nothing]

ReadingInit ==
  /\ hand = NoHand /\ taken = 0 /\ image = Nothing /\ entry = Nothing /\ flush = NoFlush
  /\ page = Unread /\ record = Unread /\ last = "device" /\ doc = "local"
  /\ row = Nothing /\ disk = {} /\ handler = [h \in Handlers |-> NoHandler]
  /\ jobs = <<>> /\ apply = NoApply /\ lost = FALSE
  /\ budget = MaxEvents
----------------------------------------------------------------------------
(* The device.                                                             *)

Busy == {h \in Handlers : handler[h].pc # "idle"}

\* replacePageImage: a new photo is prepared; the page is read before.
TakePhoto ==
  /\ hand.pc = "idle" /\ taken < Len(Photos)
  /\ taken' = taken + 1
  /\ hand' = [pc |-> "prepared", text |-> page]
  /\ UNCHANGED <<image, entry, flush, pages, store, handler, jobs, apply, lost, budget>>

\* storeImages
StoreImage ==
  /\ hand.pc = "prepared"
  /\ image' = Photos[taken]
  /\ hand' = [hand EXCEPT !.pc = "stored"]
  /\ UNCHANGED <<taken, entry, flush, pages, store, handler, jobs, apply, lost, budget>>

\* handOverToAi keeps the text of the page, or leaves it waiting; a page read on the device is sent as well.
CommitPage ==
  /\ hand.pc = "stored"
  /\ page' \in {hand.text, Local}
  /\ last' = "device"
  /\ hand' = [hand EXCEPT !.pc = "saved"]
  /\ UNCHANGED <<taken, image, entry, flush, record, doc, store, handler, jobs, apply, lost, budget>>

EnqueueUpload ==
  /\ hand.pc = "saved"
  /\ entry' = 0 /\ lost' = FALSE
  /\ hand' = NoHand
  /\ UNCHANGED <<taken, image, flush, pages, store, handler, jobs, apply, budget>>

\* flushPendingUploads: the entry is due, its image is read and sent; a retry comes so late that earlier requests are over.
Send ==
  /\ flush.pc = "idle" /\ entry # Nothing /\ doc # "gone"
  /\ entry = 0 \/ Busy = {}
  /\ flush' = [pc |-> "sent", image |-> image]
  /\ UNCHANGED <<hand, taken, image, entry, pages, store, handler, jobs, apply, lost, budget>>

GivesUp_Never(attempts) == FALSE
GivesUp(attempts) == attempts >= MaxUploadAttempts
\* The list is changed once the upload is over: the entry of this page, whatever it is by now.
AfterUpload(result) ==
  CASE result \in {"done", "drop"} -> Nothing
    [] result = "wait_sync" -> entry
    [] result = "retry" -> IF GivesUp(entry + 1) THEN Nothing ELSE Min({entry + 1, MaxUploadAttempts})
Settle(result) ==
  /\ flush' = NoFlush
  /\ entry' = IF entry = Nothing THEN Nothing ELSE AfterUpload(result)
  /\ lost' = (lost \/ result = "drop" \/ (result = "retry" /\ entry' = Nothing))

\* uploadOne: the document was deleted; or the parent sends no images, or the image is missing or too large.
DropEntry ==
  /\ flush.pc = "idle" /\ entry # Nothing
  /\ entry' = Nothing /\ lost' = TRUE
  /\ UNCHANGED <<hand, taken, image, flush, pages, store, handler, jobs, apply, budget>>
Drop == doc = "gone" /\ DropEntry
NotSent == DropEntry

\* classifyError: no connection, a timeout or a lost answer; what the server received goes on.
NetworkFails ==
  /\ flush.pc \in {"sent", "received"}
  /\ Settle("retry")
  /\ UNCHANGED <<hand, taken, image, pages, store, handler, jobs, apply, budget>>

Correct ==
  /\ budget > 0 /\ doc # "gone"
  /\ budget' = budget - 1
  /\ page' = Manual /\ last' = "device"
  /\ UNCHANGED <<hand, taken, image, entry, flush, record, doc, store, handler, jobs, apply, lost>>

\* One sync run of the device (every few seconds while it watches the page); it waits for the transaction of a result.
Sync ==
  /\ apply = NoApply /\ doc # "gone"
  /\ IF doc = "deleted" THEN doc' = "gone" /\ UNCHANGED <<page, record, last>>
     ELSE /\ doc' = "synced" /\ last' = "same"
          /\ page' = IF last = "server" THEN record ELSE page
          /\ record' = IF last = "device" THEN page ELSE record
  /\ UNCHANGED <<hand, taken, image, entry, flush, store, handler, jobs, apply, lost, budget>>
----------------------------------------------------------------------------
(* The upload on the server (PUT /api/documents/:id/pages/:pageIndex/image) *)

\* preflight, then the body: a request that is cut off is not handled.
Receive(h) ==
  /\ flush.pc = "sent" /\ Busy # Handlers /\ h = CHOOSE free \in Handlers \ Busy : TRUE
  /\ IF doc = "synced"
       THEN /\ handler' = [handler EXCEPT ![h] = [NoHandler EXCEPT !.pc = "received", !.image = flush.image]]
            /\ flush' = [flush EXCEPT !.pc = "received"]
            /\ UNCHANGED <<entry, lost>>
       ELSE Settle("wait_sync") /\ UNCHANGED handler
  /\ UNCHANGED <<hand, taken, image, pages, store, jobs, apply, budget>>

\* The server refuses the request before the body (preflight: 403, 413), or the file (storeUpload: 413, 415).
Refuse ==
  /\ flush.pc = "sent"
  /\ Settle("drop")
  /\ UNCHANGED <<hand, taken, image, pages, store, handler, jobs, apply, budget>>

\* The request ends; the device hears of it unless it no longer waits for it.
EndUpload(h, result) ==
  /\ handler' = [handler EXCEPT ![h] = NoHandler]
  /\ IF flush.pc = "received" /\ flush.image = handler[h].image THEN Settle(result) ELSE UNCHANGED <<flush, entry, lost>>
  /\ UNCHANGED <<hand, taken, image, pages, row, apply, budget>>

RefuseFile(h) == handler[h].pc = "received" /\ EndUpload(h, "drop") /\ UNCHANGED <<disk, jobs>>

\* A name no file, row or request has.
Named == disk \cup (IF row = Nothing THEN {} ELSE {row.file}) \cup {handler[h].old : h \in Handlers}
Fresh == CHOOSE n \in 1 .. Cardinality(Named) + 1 : n \notin Named

\* The current row is read, then the file is moved into the storage under a new name.
MoveFile(h) ==
  /\ handler[h].pc = "received"
  /\ disk' = disk \cup {Fresh}
  /\ handler' = [handler EXCEPT ![h].pc = "moved", ![h].file = Fresh, ![h].old = IF row = Nothing THEN Nothing ELSE row.file]
  /\ UNCHANGED <<device, record, last, doc, row, jobs, apply, budget>>

SaveRow(h) ==
  /\ handler[h].pc = "moved"
  /\ row' = [image |-> handler[h].image, file |-> handler[h].file]
  /\ handler' = [handler EXCEPT ![h].pc = "saved"]
  /\ UNCHANGED <<device, record, last, doc, disk, jobs, apply, budget>>

\* The row cannot be saved: the file is removed, and the request fails.
SaveFails(h) ==
  /\ handler[h].pc = "moved"
  /\ disk' = disk \ {handler[h].file}
  /\ EndUpload(h, "retry") /\ UNCHANGED jobs

Waiting(j) == jobs[j].status = "queued"
Covered(i) == \E j \in DOMAIN jobs : jobs[j].image = i /\ jobs[j].status \in {"queued", "leased", "done"}

\* The file the row named before is removed; a mutant removes the one it names now.
OldFile_Current(h) == row.file
OldFile(h) == handler[h].old

\* enqueuePageTranscription: the text is protected (or transcription is off, or a statement fails: nothing is written and
\* the upload goes on), or jobs of another image are skipped and one is added for this image.
\* The transaction locks nothing, so its reads and its writes are two steps.
Outdated(h) == {j \in DOMAIN jobs : Waiting(j) /\ jobs[j].image # handler[h].image}
Verdict(h) == IF record = Manual THEN "protected" ELSE IF Covered(handler[h].image) THEN "skip" ELSE "insert"
ListJobs(h) ==
  /\ handler[h].pc = "saved"
  /\ disk' = disk \ {OldFile(h)}
  /\ \E verdict \in {Verdict(h), "protected"} :
       handler' = [handler EXCEPT ![h].pc = verdict, ![h].listed = IF verdict = "protected" THEN {} ELSE Outdated(h),
                                  ![h].old = Nothing, ![h].file = Nothing]
  /\ UNCHANGED <<device, record, last, doc, row, jobs, apply, budget>>

Skipped(listed) == [j \in DOMAIN jobs |-> IF j \in listed /\ Waiting(j) THEN [jobs[j] EXCEPT !.status = "skipped"] ELSE jobs[j]]
NewJob(i) == [image |-> i, status |-> "queued"]
WriteJobs(h) ==
  /\ handler[h].pc \in {"protected", "skip", "insert"}
  /\ jobs' = CASE handler[h].pc = "protected" -> jobs
              [] handler[h].pc = "skip" -> Skipped(handler[h].listed)
              [] handler[h].pc = "insert" -> Append(Skipped(handler[h].listed), NewJob(handler[h].image))
  /\ EndUpload(h, "done") /\ UNCHANGED disk
----------------------------------------------------------------------------
(* The home computer, and the result (see WorkerJobs for leases).          *)

\* A reading takes seconds and a request milliseconds: those at work now are over before a result is there.
Lease(j) ==
  /\ jobs[j].status = "queued"
  /\ jobs' = [jobs EXCEPT ![j].status = "leased"]
  /\ handler' = [h \in Handlers |-> [handler[h] EXCEPT !.late = h \in Busy]]
  /\ UNCHANGED <<device, record, last, doc, store, apply, budget>>

\* applyPageTranscription, up to the decision; the counter of the family is locked from here.
\* The device writes an image and its page within milliseconds, a reading of this image takes seconds.
Wanted_AnyImage(j) == doc = "synced" /\ record # Manual
Wanted(j) == doc = "synced" /\ row # Nothing /\ row.image = jobs[j].image /\ record # Manual
Decide(j) ==
  /\ apply = NoApply /\ jobs[j].status = "leased"
  /\ ~(hand.pc = "stored" /\ jobs[j].image = image) /\ \A h \in Handlers : ~handler[h].late
  /\ \/ apply' = [job |-> j, text |-> Nothing] \* unreadable, no text, too far from a text read before
     \/ Wanted(j) /\ apply' = [job |-> j, text |-> Transcribed(jobs[j].image)]
  /\ UNCHANGED <<device, record, last, doc, store, handler, jobs, budget>>

\* The page is saved and the job is done, or it is skipped.
Commit ==
  LET j == apply.job
  IN /\ apply # NoApply
     /\ jobs' = [jobs EXCEPT ![j].status = IF apply.text = Nothing THEN "skipped" ELSE "done"]
     /\ IF apply.text = Nothing THEN UNCHANGED <<record, last>> ELSE record' = apply.text /\ last' = "server"
     /\ apply' = NoApply
     /\ UNCHANGED <<device, doc, store, handler, budget>>

\* The document is deleted on another device: its waiting jobs are skipped.
Delete ==
  /\ budget > 0 /\ doc = "synced" /\ apply = NoApply
  /\ budget' = budget - 1
  /\ doc' = "deleted"
  /\ jobs' = Skipped(DOMAIN jobs)
  /\ UNCHANGED <<device, record, last, store, handler, apply>>

\* The server restarts: requests and the transaction are lost.
Restart ==
  /\ budget > 0
  /\ budget' = budget - 1
  /\ handler' = [h \in Handlers |-> NoHandler]
  /\ apply' = NoApply
  /\ UNCHANGED <<device, record, last, doc, store, jobs>>
----------------------------------------------------------------------------
HandOver == StoreImage \/ CommitPage \/ EnqueueUpload
Handle(h) == MoveFile(h) \/ SaveRow(h) \/ ListJobs(h) \/ WriteJobs(h)
ReadingNext ==
  \/ TakePhoto \/ HandOver \/ Send \/ Drop \/ NotSent \/ NetworkFails \/ Correct \/ Sync \/ Refuse
  \/ \E h \in Handlers : Receive(h) \/ Handle(h) \/ RefuseFile(h) \/ SaveFails(h)
  \/ \E j \in DOMAIN jobs : Lease(j) \/ Decide(j)
  \/ Commit \/ Delete \/ Restart

ReadingSpec == ReadingInit /\ [][ReadingNext]_reading

\* The device flushes and synchronises again and again, a request ends by its timeout, the server goes on.
FairReadingSpec ==
  /\ ReadingSpec
  /\ WF_reading(HandOver) /\ WF_reading(Send) /\ WF_reading(Drop) /\ WF_reading(NetworkFails \/ \E h \in Handlers : WriteJobs(h))
  /\ WF_reading(Sync) /\ \A h \in Handlers : WF_reading(Handle(h))
  /\ WF_reading(Commit)
----------------------------------------------------------------------------
(***************************************************************************)
(* The row of an image always names a file that is there: not removed by   *)
(* an upload that replaced an earlier one, and not before it exists.       *)
(***************************************************************************)
RowOnDisk == row # Nothing => row.file \in disk

Shows(text) == text \in {Unread, Local, Manual, Transcribed(image)}
Kept == IF last = "server" THEN record ELSE page \* the version the next sync keeps
ImageRead == \E j \in DOMAIN jobs : jobs[j].image = image /\ jobs[j].status = "done"

(***************************************************************************)
(* Photos are replaced while readings are in progress, a text that was     *)
(* read before the image work is written after it, and results come late   *)
(* and in any order: once the image that the device shows has been read,   *)
(* neither the server nor the next sync has the text of another image.     *)
(***************************************************************************)
TextOfImage == ImageRead => Shows(record) /\ Shows(Kept)

(***************************************************************************)
(* Every upload ends: sent, dropped, or given up after MaxUploadAttempts,  *)
(* also when the document is not on the server yet or was deleted there.   *)
(***************************************************************************)
UploadEnds == entry # Nothing ~> entry = Nothing

(***************************************************************************)
(* "The processed image is kept and sent to the server": when nothing is   *)
(* left to send and nothing was given up, the server has the image of the  *)
(* device.                                                                 *)
(***************************************************************************)
ImageSent ==
  Busy = {} /\ hand = NoHand /\ flush = NoFlush /\ entry = Nothing /\ ~lost /\ image # Nothing
    => row # Nothing /\ row.image = image
=============================================================================
