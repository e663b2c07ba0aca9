----------------------------- MODULE SyncEngine -----------------------------
(***************************************************************************)
(* The sync loop of a device (client SyncEngine.ts) against the push and   *)
(* pull of the server (push.ts, pull.ts, routes/sync.ts), for one family.  *)
(* A round collects a batch of the outbox, sends it, applies the answer    *)
(* row by row, settles the outbox, then either starts the restore of       *)
(* rejected rows or saves the cursor; users edit between any two of these  *)
(* steps, and a request, or the whole application, may end in any of them. *)
(*                                                                         *)
(* The pull is one step here: SyncLog shows that it behaves like one.  A   *)
(* row is its version; versions are compared by updatedAt only.            *)
(***************************************************************************)
EXTENDS Naturals, FiniteSets

CONSTANTS
  Devices,   \* devices of the family
  Server,    \* the writer that stands for the server's own routes
  Nobody,    \* the writer of a row that does not exist
  NKeys,     \* rows, numbered in push order
  Stamps,    \* [Devices \cup {Server} -> set of Nat]: updatedAt each may write
  Documents, \* keys of documents, whose deletion needs the parent PIN
  DocOf,     \* [Keys -> Documents \cup {0}]: the document a row belongs to, 0 if none
  Pages,     \* rows of document_pages
  Cascaded,  \* annotations and exercises: deleted with their document
  NSynced,   \* documents that rows belong to are among the first NSynced keys
  MaxBatch,  \* rows of one request
  MaxEdits,  \* bound of the model: edits by users and by server routes
  MaxFaults  \* bound of the model: rounds that are cut short

Keys == 1..NKeys
Writers == Devices \cup {Server}

ASSUME ConstantsAssumption ==
  /\ NKeys \in Nat
  /\ Server \notin Devices /\ Nobody \notin Devices \cup {Server}
  /\ Stamps \in [Writers -> SUBSET Nat]
  /\ \A w \in Writers : \A t \in Stamps[w] : t > 1
  /\ Documents \subseteq Keys
  /\ DocOf \in [Keys -> Documents \cup {0}]
  /\ NSynced \in 0..NKeys
  /\ \A k \in Keys : DocOf[k] <= NSynced /\ (k \in Documents => DocOf[k] = 0)
  /\ \A k \in Pages \cup Cascaded : k \in Keys /\ DocOf[k] # 0
  /\ MaxBatch \in Nat \ {0}
  /\ MaxEdits \in Nat
  /\ MaxFaults \in Nat

Times == {0, 1} \cup UNION {Stamps[w] : w \in Writers}

\* A stored row: its updatedAt, who wrote it, whether it was deleted as a document
\* or with one (a row of another table that a user deletes is just a new version).
Versions == [at : Times, by : Writers \cup {Nobody}, del : BOOLEAN]
None == [at |-> 0, by |-> Nobody, del |-> FALSE]
First == [at |-> 1, by |-> Server, del |-> FALSE]

VARIABLES
  \* server
  srv,       \* [Keys -> Versions]
  srvSeq,    \* [Keys -> Nat]: server_seq, 0 if there is no row
  counter,   \* last server_seq
  \* device, persisted in IndexedDB
  local,     \* [Devices -> [Keys -> Versions]]
  outbox,    \* [Devices -> set of keys]
  kvCursor,  \* [Devices -> Nat]: kv syncCursor, null is 0
  kvRestore, \* [Devices -> set of keys]: kv syncRestoreKeys
  \* device, the run of syncNow in progress
  phase,     \* [Devices -> ...]: what the run does next
  cursor,    \* [Devices -> Nat]
  restore,   \* [Devices -> set of keys]: rows the server's version replaces
  started,   \* [Devices -> BOOLEAN]: restoreStarted
  batch,     \* [Devices -> [Keys -> Versions]]: what it pushed, None if not in it
  batchMore, \* [Devices -> BOOLEAN]: batch.hasMore
  \* its request
  rows,      \* [Devices -> [Keys -> Versions]]: rows of the answer still to apply
  next,      \* [Devices -> Nat]: response.cursor
  more,      \* [Devices -> BOOLEAN]: response.hasMore
  rejected,  \* [Devices -> set of keys]
  late,      \* [Devices -> [Keys -> Versions]]: push of an abandoned request, not yet served
  edits,     \* edits so far
  faults     \* interrupted rounds so far

serverVars == <<srv, srvSeq, counter>>
kvVars == <<kvCursor, kvRestore>>
runVars == <<cursor, restore, started>>
batchVars == <<batch, batchMore>>
answerVars == <<rows, next, more, rejected>>
vars == <<serverVars, local, outbox, kvVars, phase, runVars, batchVars, answerVars, late, edits, faults>>

NoRows == [k \in Keys |-> None]
InBatch(b) == {k \in Keys : b[k] # None}

\* The first rows exist and are synced on every device.
Init ==
  /\ counter \in NSynced..NKeys
  /\ srv = [k \in Keys |-> IF k <= counter THEN First ELSE None]
  /\ srvSeq = [k \in Keys |-> IF k <= counter THEN k ELSE 0]
  /\ local = [d \in Devices |-> srv]
  /\ outbox = [d \in Devices |-> {}]
  /\ kvCursor = [d \in Devices |-> counter]
  /\ kvRestore = [d \in Devices |-> {}]
  /\ phase = [d \in Devices |-> "idle"]
  /\ cursor = [d \in Devices |-> 0]
  /\ restore = [d \in Devices |-> {}]
  /\ started = [d \in Devices |-> FALSE]
  /\ batch = [d \in Devices |-> NoRows]
  /\ batchMore = [d \in Devices |-> FALSE]
  /\ rows = [d \in Devices |-> NoRows]
  /\ next = [d \in Devices |-> 0]
  /\ more = [d \in Devices |-> FALSE]
  /\ rejected = [d \in Devices |-> {}]
  /\ late = [d \in Devices |-> NoRows]
  /\ edits = 0
  /\ faults = 0

----------------------------------------------------------------------------
(* Writes by users and by server routes. *)

\* A later version than old by w: updatedAt moves forward (max(now, previous + 1)),
\* and only a document that exists can get a tombstone.
Later(w, k, old) ==
  {v \in Versions : /\ v.by = w
                    /\ v.at \in Stamps[w] /\ v.at > old.at
                    /\ v.del => k \in Documents /\ old # None}

\* No document of the row is deleted in this copy of the rows.
Usable(copy, k) == DocOf[k] # 0 => ~copy[DocOf[k]].del

\* A new document has a fresh id: nobody else creates it.
Fresh(k) == srv[k] = None /\ \A e \in Devices : local[e][k] = None

\* saveEntity: the row and its outbox entry, in one transaction.
SaveEntity(d, k) ==
  /\ edits < MaxEdits
  /\ ~local[d][k].del
  /\ Usable(local[d], k)
  /\ k \in Documents /\ local[d][k] = None => Fresh(k)
  /\ \E v \in Later(d, k, local[d][k]) : local' = [local EXCEPT ![d][k] = v]
  /\ outbox' = [outbox EXCEPT ![d] = @ \cup {k}]
  /\ edits' = edits + 1
  /\ UNCHANGED <<serverVars, kvVars, phase, runVars, batchVars, answerVars, late, faults>>

\* Rows b[k], k \in ok, are written in one transaction.  A deleted document takes
\* its annotations and exercises with it, at its own updatedAt.
WithCascade(b, ok) ==
  [k \in Keys |->
     IF k \in ok THEN b[k]
     ELSE IF k \in Cascaded /\ DocOf[k] \in ok /\ b[DocOf[k]].del /\ srv[k] # None
          THEN [at |-> b[DocOf[k]].at, by |-> srv[k].by, del |-> TRUE]
          ELSE srv[k]]

CounterAfter_NotFlushed(written) == counter
CounterAfter(written) == counter + Cardinality(written)

\* Every row written gets a new number.
Write(b, ok) ==
  LET written == {k \in Keys : WithCascade(b, ok)[k] # srv[k]} IN
  /\ srv' = WithCascade(b, ok)
  /\ srvSeq' = [k \in Keys |-> IF k \in written THEN counter + Cardinality({j \in written : j <= k})
                                                ELSE srvSeq[k]]
  /\ counter' = CounterAfter(written)

\* A route of the server (profiles, deletion by the parent, a page read by the
\* home computer) writes the row; documents are created by devices only.
ServerEdit(k) ==
  /\ edits < MaxEdits
  /\ ~srv[k].del
  /\ Usable(srv, k)
  /\ srv[k] = None => k \notin Documents
  /\ \E v \in Later(Server, k, srv[k]) : Write([NoRows EXCEPT ![k] = v], {k})
  /\ edits' = edits + 1
  /\ UNCHANGED <<local, outbox, kvVars, phase, runVars, batchVars, answerVars, late, faults>>

----------------------------------------------------------------------------
(* One run of syncNow. *)

\* The run reads what the previous one saved.
StartRun(d) ==
  /\ phase[d] = "idle"
  /\ phase' = [phase EXCEPT ![d] = "collect"]
  /\ cursor' = [cursor EXCEPT ![d] = kvCursor[d]]
  /\ restore' = [restore EXCEPT ![d] = kvRestore[d]]
  /\ started' = [started EXCEPT ![d] = kvRestore[d] # {}]
  /\ UNCHANGED <<serverVars, local, outbox, kvVars, batchVars, answerVars, late, edits, faults>>

\* Rows of the outbox that fit, documents before the rows that reference them: at
\* least one, and since order and sizes are left open, any choice of up to MaxBatch.
Batches(box) ==
  IF box = {} THEN {{}}
  ELSE {b \in SUBSET box \ {{}} : /\ Cardinality(b) <= MaxBatch
                                  /\ b \subseteq Documents \/ box \cap Documents \subseteq b}

CollectBatch(d) ==
  /\ phase[d] = "collect"
  /\ \E b \in Batches(outbox[d]) :
       /\ batch' = [batch EXCEPT ![d] = [k \in Keys |-> IF k \in b THEN local[d][k] ELSE None]]
       /\ batchMore' = [batchMore EXCEPT ![d] = b # outbox[d]]
  /\ phase' = [phase EXCEPT ![d] = "sent"]
  /\ UNCHANGED <<serverVars, local, outbox, kvVars, runVars, answerVars, late, edits, faults>>

\* The server's verdict on one pushed row.  Deleted documents never come back, an
\* older or equal updatedAt is stale, a deletion needs the parent's PIN.
Stale_LastArrivalWins(k, v) == srv[k].del
Stale(k, v) == srv[k].del \/ v.at <= srv[k].at
Locked(v, unlocked) == v.del /\ ~unlocked

\* applyPush: documents first, then the rows whose document is not deleted.
AcceptedDocuments(b, unlocked) ==
  {k \in InBatch(b) \cap Documents : ~Stale(k, b[k]) /\ ~Locked(b[k], unlocked)}
AcceptedRows_DocumentIgnored(b, docs) == {k \in InBatch(b) \ Documents : ~Stale(k, b[k])}
AcceptedRows(b, docs) ==
  {k \in InBatch(b) \ Documents : ~Stale(k, b[k]) /\ Usable(WithCascade(b, docs), k)}
Accepted(b, unlocked) ==
  LET docs == AcceptedDocuments(b, unlocked) IN docs \cup AcceptedRows(b, docs)

ServePush(d) ==
  /\ phase[d] = "sent"
  /\ \E unlocked \in BOOLEAN :
       LET ok == Accepted(batch[d], unlocked) IN
       /\ Write(batch[d], ok)
       /\ rejected' = [rejected EXCEPT ![d] = InBatch(batch[d]) \ ok]
  /\ phase' = [phase EXCEPT ![d] = "pushed"]
  /\ UNCHANGED <<local, outbox, kvVars, runVars, batchVars, rows, next, more, late, edits, faults>>

\* A request the device has given up on reaches the server after all.
ServeLate(d) ==
  /\ late[d] # NoRows
  /\ \E unlocked \in BOOLEAN : Write(late[d], Accepted(late[d], unlocked))
  /\ late' = [late EXCEPT ![d] = NoRows]
  /\ UNCHANGED <<local, outbox, kvVars, phase, runVars, batchVars, answerVars, edits, faults>>

\* The text of a deleted document is not sent again.
Sendable(k) == k \in Pages => Usable(srv, k)

\* pullChanges: the rows of a window that starts at the cursor, up to a row's
\* number of the server's choice (paging); nothing new leaves the cursor there.
New(d) == {k \in Keys : srvSeq[k] > cursor[d]}
Ends(d) == IF New(d) = {} THEN {cursor[d]} ELSE {srvSeq[k] : k \in New(d)}
Pulled(d, last) == {k \in New(d) : srvSeq[k] <= last /\ Sendable(k)}

ServePull(d) ==
  /\ phase[d] = "pushed"
  /\ \E last \in Ends(d) :
       /\ rows' = [rows EXCEPT ![d] = [k \in Keys |-> IF k \in Pulled(d, last) THEN srv[k] ELSE None]]
       /\ next' = [next EXCEPT ![d] = last]
       /\ more' = [more EXCEPT ![d] = \E k \in New(d) : srvSeq[k] > last]
  /\ phase' = [phase EXCEPT ![d] = "pulled"]
  /\ UNCHANGED <<serverVars, local, outbox, kvVars, runVars, batchVars, rejected, late, edits, faults>>

\* addRestoredEntities: the server's version of rejected rows, even when the
\* cursor is past them.
ServeRestore(d) ==
  /\ phase[d] = "pulled"
  /\ rows' = [rows EXCEPT ![d] = [k \in Keys |-> IF k \in rejected[d] /\ @[k] = None /\ Sendable(k)
                                                 THEN srv[k] ELSE @[k]]]
  /\ phase' = [phase EXCEPT ![d] = "answered"]
  /\ UNCHANGED <<serverVars, local, outbox, kvVars, runVars, batchVars, next, more, rejected, late, edits, faults>>

\* applyRemoteInternal: the newer updatedAt wins, except that a row under
\* restore takes the server's version whatever its age.
Replaces_AlwaysRemote(d, k) == TRUE
Replaces(d, k) == k \in restore[d] \/ rows[d][k].at > local[d][k].at

ApplyRow(d, k) ==
  /\ phase[d] = "answered"
  /\ rows[d][k] # None
  /\ \A j \in 1..(k - 1) : rows[d][j] = None
  /\ local' = [local EXCEPT ![d][k] = IF Replaces(d, k) THEN rows[d][k] ELSE @]
  /\ rows' = [rows EXCEPT ![d][k] = None]
  /\ UNCHANGED <<serverVars, outbox, kvVars, phase, runVars, batchVars, next, more, rejected, late, edits, faults>>

\* settleOutbox: a pushed row leaves the outbox if it is still at the pushed
\* updatedAt; a rejection of a row that changed meanwhile is ignored.
Changed_Never(d) == {}
Changed(d) == {k \in InBatch(batch[d]) : local[d][k].at # batch[d][k].at}

SettleOutbox(d) ==
  /\ phase[d] = "answered"
  /\ rows[d] = NoRows
  /\ outbox' = [outbox EXCEPT ![d] = @ \ (InBatch(batch[d]) \ Changed(d))]
  /\ rejected' = [rejected EXCEPT ![d] = @ \ Changed(d)]
  /\ phase' = [phase EXCEPT ![d] = "settled"]
  /\ UNCHANGED <<serverVars, local, kvVars, runVars, batchVars, rows, next, more, late, edits, faults>>

\* The first rejections of a run make it pull everything again, to restore the
\* server's version of the rejected rows.
MustRestore_Never(d) == FALSE
MustRestore(d) == rejected[d] # {} /\ ~started[d]

BeginRestore(d) ==
  /\ phase[d] = "settled"
  /\ MustRestore(d)
  /\ restore' = [restore EXCEPT ![d] = @ \cup rejected[d]]
  /\ started' = [started EXCEPT ![d] = TRUE]
  /\ cursor' = [cursor EXCEPT ![d] = 0]
  /\ kvRestore' = [kvRestore EXCEPT ![d] = restore[d] \cup rejected[d]]
  /\ kvCursor' = [kvCursor EXCEPT ![d] = 0]
  /\ phase' = [phase EXCEPT ![d] = "collect"]
  /\ UNCHANGED <<serverVars, local, outbox, batchVars, answerVars, late, edits, faults>>

RunDone(d) == ~more[d] /\ ~batchMore[d]

SaveCursor(d) ==
  /\ phase[d] = "settled"
  /\ ~MustRestore(d)
  /\ cursor' = [cursor EXCEPT ![d] = next[d]]
  /\ kvCursor' = [kvCursor EXCEPT ![d] = next[d]]
  /\ phase' = [phase EXCEPT ![d] = IF RunDone(d) THEN "finish" ELSE "collect"]
  /\ UNCHANGED <<serverVars, local, outbox, kvRestore, restore, started, batchVars, answerVars, late, edits, faults>>

\* What the run held in memory is gone; the next one starts from IndexedDB.
EndRun(d) ==
  /\ phase' = [phase EXCEPT ![d] = "idle"]
  /\ cursor' = [cursor EXCEPT ![d] = 0]
  /\ restore' = [restore EXCEPT ![d] = {}]
  /\ started' = [started EXCEPT ![d] = FALSE]
  /\ batch' = [batch EXCEPT ![d] = NoRows]
  /\ batchMore' = [batchMore EXCEPT ![d] = FALSE]
  /\ rows' = [rows EXCEPT ![d] = NoRows]
  /\ next' = [next EXCEPT ![d] = 0]
  /\ more' = [more EXCEPT ![d] = FALSE]
  /\ rejected' = [rejected EXCEPT ![d] = {}]

FinishRun(d) ==
  /\ phase[d] = "finish"
  /\ kvRestore' = [kvRestore EXCEPT ![d] = IF restore[d] # {} THEN {} ELSE @]
  /\ EndRun(d)
  /\ UNCHANGED <<serverVars, local, outbox, kvCursor, late, edits, faults>>

\* The request fails or times out, or the application is closed: a request that
\* was sent may still be served later.
Interrupt(d) ==
  /\ phase[d] # "idle"
  /\ faults < MaxFaults
  /\ faults' = faults + 1
  /\ \/ phase[d] = "sent" /\ late[d] = NoRows /\ late' = [late EXCEPT ![d] = batch[d]]
     \/ UNCHANGED late
  /\ EndRun(d)
  /\ UNCHANGED <<serverVars, local, outbox, kvVars, edits>>
----------------------------------------------------------------------------
SyncStep(d) ==
  \/ StartRun(d) \/ CollectBatch(d) \/ ServePush(d) \/ ServePull(d) \/ ServeRestore(d)
  \/ (\E k \in Keys : ApplyRow(d, k)) \/ SettleOutbox(d) \/ BeginRestore(d) \/ SaveCursor(d) \/ FinishRun(d)

Next ==
  \/ \E d \in Devices, k \in Keys : SaveEntity(d, k)
  \/ \E k \in Keys : ServerEdit(k)
  \/ \E d \in Devices : SyncStep(d) \/ ServeLate(d) \/ Interrupt(d)

Spec == Init /\ [][Next]_vars

\* The interval timer starts a run again and again, and a run that is not
\* interrupted ends; nobody has to edit, and abandoned requests may vanish.
Fairness == \A d \in Devices : WF_vars(SyncStep(d))

FairSpec == Spec /\ Fairness
----------------------------------------------------------------------------
\* Type invariant.
TypeOK ==
  /\ srv \in [Keys -> Versions]
  /\ counter \in Nat
  /\ srvSeq \in [Keys -> 0..counter]
  /\ local \in [Devices -> [Keys -> Versions]]
  /\ outbox \in [Devices -> SUBSET Keys]
  /\ kvCursor \in [Devices -> Nat]
  /\ kvRestore \in [Devices -> SUBSET Keys]
  /\ phase \in [Devices -> {"idle", "collect", "sent", "pushed", "pulled", "answered", "settled", "finish"}]
  /\ cursor \in [Devices -> Nat]
  /\ restore \in [Devices -> SUBSET Keys]
  /\ started \in [Devices -> BOOLEAN]
  /\ batch \in [Devices -> [Keys -> Versions]]
  /\ batchMore \in [Devices -> BOOLEAN]
  /\ rows \in [Devices -> [Keys -> Versions]]
  /\ next \in [Devices -> Nat]
  /\ more \in [Devices -> BOOLEAN]
  /\ rejected \in [Devices -> SUBSET Keys]
  /\ late \in [Devices -> [Keys -> Versions]]
  /\ edits \in 0..MaxEdits
  /\ faults \in 0..MaxFaults

\* The device shows what the server has; the rows of a deleted document are not shown.
Same(d, k) == local[d][k] = srv[k] \/ ~Usable(srv, k)

\* Nothing is left to do: no run, nothing to push, nothing to restore, nothing to pull.
AtRest(d) == phase[d] = "idle" /\ outbox[d] = {} /\ kvRestore[d] = {} /\ kvCursor[d] = counter

(***************************************************************************)
(* A device that has nothing left to sync shows the server's rows, and no  *)
(* document older than the server's.  (Its own version of a document may   *)
(* be ahead: a rejected one, such as a deletion without the PIN, leaves    *)
(* the outbox, and only the first rejections of a run are restored.)       *)
(***************************************************************************)
Converged ==
  \A d \in Devices : AtRest(d) =>
    /\ \A k \in Keys \ Documents : Same(d, k)
    /\ \A k \in Documents : local[d][k].at >= srv[k].at

\* Rows that only an older updatedAt can make the server reject.
Ordinary == {k \in Keys \ Documents : Usable(srv, k)}

(***************************************************************************)
(* A local edit the server does not have yet is in the outbox: answers     *)
(* that arrive after the next edit, requests whose answer is lost and      *)
(* stale requests served late never make the device drop it.  (Documents   *)
(* deleted without the PIN, and rows of documents deleted elsewhere, do    *)
(* leave it when they are rejected.)                                       *)
(***************************************************************************)
UnsentQueued == \A d \in Devices, k \in Ordinary : local[d][k].at > srv[k].at => k \in outbox[d]

(***************************************************************************)
(* No annotation and no exercise of a deleted document is left on the      *)
(* server: pushes prepared before the deletion, and requests served late,  *)
(* do not bring one back (documents.ts cascadeDocumentDeletion, push.ts).  *)
(***************************************************************************)
CascadeComplete == \A k \in Cascaded : srv[DocOf[k]].del => srv[k] = None \/ srv[k].del

\* A tombstone is a document, or was deleted with its document.
Undeleted(copy, k) == copy[k].del => k \in Documents \/ ~Usable(srv, k)

DeletedWithDocument ==
  \A k \in Keys :
    /\ Undeleted(srv, k)
    /\ \A d \in Devices : /\ Undeleted(local[d], k) /\ Undeleted(batch[d], k)
                          /\ Undeleted(rows[d], k) /\ Undeleted(late[d], k)

\* What is on its way to a device is no newer than the server's row.
AnswersOld == \A d \in Devices, k \in Ordinary : rows[d][k].at <= srv[k].at

\* Once a push is served, the server has what was pushed, or something newer.
PushServed == \A d \in Devices, k \in Ordinary : phase[d] # "sent" => batch[d][k].at <= srv[k].at

(***************************************************************************)
(* Why UnsentQueued and CascadeComplete hold, as one inductive invariant:  *)
(* the server's rows only move forward until their document is deleted     *)
(* (push.ts), so a pushed row that is settled, and an answer that is       *)
(* applied, are already covered by the server's row.                       *)
(***************************************************************************)
IndInv ==
  /\ DeletedWithDocument
  /\ CascadeComplete
  /\ AnswersOld
  /\ PushServed
  /\ UnsentQueued

(***************************************************************************)
(* A row of a device goes back to an older version only while it is being  *)
(* restored after a rejection.                                             *)
(***************************************************************************)
NoRegress ==
  [][\A d \in Devices, k \in Keys : local'[d][k].at < local[d][k].at => k \in restore[d]]_vars

(***************************************************************************)
(* An edit still waiting to be sent is not replaced by an older version    *)
(* (SyncEngine.ts "local LWW on updatedAt").                               *)
(***************************************************************************)
UnsentKept ==
  [][\A d \in Devices, k \in Keys :
       k \in outbox[d] /\ k \notin InBatch(batch[d]) => local'[d][k].at >= local[d][k].at]_vars

(***************************************************************************)
(* Once nobody edits any more, every device ends up showing the server's   *)
(* rows and stays so, whatever was lost, late or rejected on the way.      *)
(***************************************************************************)
EventuallyConverged == <>[](\A d \in Devices : outbox[d] = {} /\ \A k \in Keys : Same(d, k))
=============================================================================
