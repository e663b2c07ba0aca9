------------------------------ MODULE SyncLog ------------------------------
(***************************************************************************)
(* The server's sync log of one family: the per-parent server_seq          *)
(* allocator (syncCounters.ts), the transactions that write synced rows    *)
(* (push.ts and the other callers of withSeq), and the pull (pull.ts),     *)
(* which is not one transaction: it reads the counter, scans the tables    *)
(* one by one for sequence numbers, chooses a window, then loads the rows  *)
(* table by table while other requests commit.                             *)
(*                                                                         *)
(* A row is a key of a synced table and its version is its server_seq; row *)
(* contents, LWW and rejections are SyncEngine's business.                 *)
(***************************************************************************)
EXTENDS Naturals, FiniteSets

CONSTANTS
  Rows,        \* keys of the synced tables of one family
  NTables,     \* number of tables, in the order of PULL_TABLES
  TableOf,     \* [Rows -> 1..NTables]
  Annotations, \* the table left out while privacy.syncAnnotations is off
  PageDoc,     \* [Rows -> Rows \cup {NoDoc}]: the document of a page row
  NoDoc,
  Writers,     \* server requests that may write at the same time
  Devices,     \* devices that may pull at the same time
  MaxRows,     \* LIMITS.syncPullMaxRows
  MaxSeq,      \* bound of the model: server_seq handed out
  MaxFaults,   \* bound of the model: lost requests and full pulls per device
  MaxToggles   \* bound of the model: changes of privacy.syncAnnotations

Tables == 1..NTables
Docs == {PageDoc[r] : r \in Rows} \ {NoDoc}
AnnotationRows == {r \in Rows : TableOf[r] = Annotations}

ASSUME ConstantsAssumption ==
  /\ NTables \in Nat \ {0}
  /\ TableOf \in [Rows -> Tables]
  /\ NoDoc \notin Rows
  /\ PageDoc \in [Rows -> Rows \cup {NoDoc}]
  /\ MaxRows \in Nat \ {0}
  /\ MaxSeq \in Nat
  /\ MaxFaults \in Nat
  /\ MaxToggles \in Nat

VARIABLES
  seq,       \* sync_counters.seq, committed
  store,     \* [Rows -> Nat]: server_seq of the committed row, 0 if none
  deleted,   \* committed documents whose deleted_at is set
  annOn,     \* parent_settings privacy.syncAnnotations
  \* transactions of the writers
  open,      \* [Writers -> BOOLEAN]: a transaction with a seq allocator is open
  current,   \* [Writers -> Nat]: the allocator's current value
  wrote,     \* [Writers -> [Rows -> Nat]]: uncommitted versions, 0 if none
  dels,      \* [Writers -> set of documents]: uncommitted tombstones
  \* pull requests in progress, one per device
  phase,     \* [Devices -> ...]: the next database read of the request
  annRead,   \* [Devices -> BOOLEAN]: the setting read when it began
  from,      \* [Devices -> Nat]: the cursor it pulls from
  table,     \* [Devices -> Nat]: the table it is at
  cand,      \* [Devices -> set of Nat]: candidate sequence numbers
  last,      \* [Devices -> Nat]: lastSeq, the end of its window
  gone,      \* [Devices -> set of documents]: deletedDocuments
  rows,      \* [Devices -> [Rows -> Nat]]: versions in its response, 0 if none
  \* devices
  cursor,    \* [Devices -> Nat]: kv syncCursor of each device (null is 0)
  issued,    \* [Devices -> BOOLEAN]: history, the cursor is this database's
  got,       \* [Devices -> [Rows -> Nat]]: history, version last received
  faults,    \* [Devices -> Nat]: lost requests and full pulls so far
  toggles    \* changes of annOn so far

writeVars == <<seq, store, deleted>>
trxVars == <<open, current, wrote, dels>>
pullVars == <<phase, annRead, from, table, cand, last, gone, rows>>
deviceVars == <<cursor, issued, got>>
vars == <<writeVars, annOn, trxVars, pullVars, deviceVars, faults, toggles>>

NoRows == [r \in Rows |-> 0]

\* A device that synced before the database was restored from a backup may hold
\* a cursor above the counter.
Init ==
  /\ seq = 0
  /\ store = NoRows
  /\ deleted = {}
  /\ annOn \in BOOLEAN
  /\ open = [w \in Writers |-> FALSE]
  /\ current = [w \in Writers |-> 0]
  /\ wrote = [w \in Writers |-> NoRows]
  /\ dels = [w \in Writers |-> {}]
  /\ phase = [d \in Devices |-> "idle"]
  /\ annRead = [d \in Devices |-> FALSE]
  /\ from = [d \in Devices |-> 0]
  /\ table = [d \in Devices |-> 1]
  /\ cand = [d \in Devices |-> {}]
  /\ last = [d \in Devices |-> 0]
  /\ gone = [d \in Devices |-> {}]
  /\ rows = [d \in Devices |-> NoRows]
  /\ cursor \in [Devices -> 0..MaxSeq]
  /\ issued = [d \in Devices |-> cursor[d] = 0]
  /\ got = [d \in Devices |-> NoRows]
  /\ faults = [d \in Devices |-> 0]
  /\ toggles = 0

----------------------------------------------------------------------------
(* Writers.  The counter row is read FOR UPDATE and stays locked until the
   transaction ends; nothing a transaction writes is visible before commit. *)

CounterUnlocked_NoForUpdate == TRUE
CounterUnlocked == \A w \in Writers : ~open[w]

OpenSeqAllocator(w) ==
  /\ ~open[w]
  /\ CounterUnlocked
  /\ open' = [open EXCEPT ![w] = TRUE]
  /\ current' = [current EXCEPT ![w] = seq]
  /\ UNCHANGED <<writeVars, annOn, wrote, dels, pullVars, deviceVars, faults, toggles>>

\* The row, or the document it belongs to, has no tombstone the transaction sees
\* (own_deleted references and deleted documents are rejected as stale), and a
\* page's document exists.
Writable(w, r) ==
  LET tombstones == deleted \cup dels[w]
      doc == PageDoc[r] IN
  /\ r \notin tombstones
  /\ doc # NoDoc => doc \notin tombstones /\ (store[doc] # 0 \/ wrote[w][doc] # 0)

\* One accepted entity: the row is written with seq.next(); a document may be
\* written as a tombstone.  The tombstones a deleted document's annotations and
\* exercises get in the same transaction are further writes of it.
SaveRow(w, r) ==
  /\ open[w]
  /\ current[w] < MaxSeq
  /\ Writable(w, r)
  /\ current' = [current EXCEPT ![w] = @ + 1]
  /\ wrote' = [wrote EXCEPT ![w][r] = current[w] + 1]
  /\ \/ UNCHANGED dels
     \/ r \in Docs /\ dels' = [dels EXCEPT ![w] = @ \cup {r}]
  /\ UNCHANGED <<writeVars, annOn, open, pullVars, deviceVars, faults, toggles>>

EndTransaction(w) ==
  /\ open' = [open EXCEPT ![w] = FALSE]
  /\ current' = [current EXCEPT ![w] = 0]
  /\ wrote' = [wrote EXCEPT ![w] = NoRows]
  /\ dels' = [dels EXCEPT ![w] = {}]

\* seq.flush() writes the last number handed out.
Flushed_Forgotten(w) == seq
Flushed(w) == current[w]

\* seq.flush() and commit: the counter and the rows become visible together.
Commit(w) ==
  /\ open[w]
  /\ seq' = Flushed(w)
  /\ store' = [r \in Rows |-> IF wrote[w][r] # 0 THEN wrote[w][r] ELSE store[r]]
  /\ deleted' = deleted \cup dels[w]
  /\ EndTransaction(w)
  /\ UNCHANGED <<annOn, pullVars, deviceVars, faults, toggles>>

\* An error or the end of the process inside the transaction.
Rollback(w) ==
  /\ open[w]
  /\ EndTransaction(w)
  /\ UNCHANGED <<writeVars, annOn, pullVars, deviceVars, faults, toggles>>

\* The parent switches annotation sync on or off.
ToggleAnnotations ==
  /\ toggles < MaxToggles
  /\ annOn' = ~annOn
  /\ toggles' = toggles + 1
  /\ UNCHANGED <<writeVars, trxVars, pullVars, deviceVars, faults>>
----------------------------------------------------------------------------
(* The pull, one step per database read. *)

\* POST /api/sync: the settings are read before anything else.
StartPull(d) ==
  /\ phase[d] = "idle"
  /\ phase' = [phase EXCEPT ![d] = "count"]
  /\ annRead' = [annRead EXCEPT ![d] = annOn]
  /\ UNCHANGED <<writeVars, annOn, trxVars, from, table, cand, last, gone, rows, deviceVars, faults, toggles>>

\* A cursor above the counter (restored database) starts again from 0.
PullFrom(d) == IF cursor[d] > seq THEN 0 ELSE cursor[d]

ReadCounter(d) ==
  /\ phase[d] = "count"
  /\ phase' = [phase EXCEPT ![d] = "scan"]
  /\ from' = [from EXCEPT ![d] = PullFrom(d)]
  /\ UNCHANGED <<writeVars, annOn, trxVars, annRead, table, cand, last, gone, rows, deviceVars, faults, toggles>>

Pulled(d, t) == t # Annotations \/ annRead[d]

\* The server_seq of rows of table t above the cursor, lowest first, at most
\* MaxRows + 1 of them.
Candidates_CursorIncluded(d, t) ==
  LET above == {store[r] : r \in {x \in Rows : TableOf[x] = t /\ store[x] # 0 /\ store[x] >= from[d]}}
  IN  {s \in above : Cardinality({u \in above : u <= s}) <= MaxRows + 1}
Candidates(d, t) ==
  LET above == {store[r] : r \in {x \in Rows : TableOf[x] = t /\ store[x] > from[d]}}
  IN  {s \in above : Cardinality({u \in above : u <= s}) <= MaxRows + 1}

ScanTable(d) ==
  /\ phase[d] = "scan"
  /\ table[d] <= NTables
  /\ table' = [table EXCEPT ![d] = @ + 1]
  /\ cand' = [cand EXCEPT ![d] = @ \cup (IF Pulled(d, table[d]) THEN Candidates(d, table[d]) ELSE {})]
  /\ UNCHANGED <<writeVars, annOn, trxVars, phase, annRead, from, last, gone, rows, deviceVars, faults, toggles>>

\* The longest prefix of the candidates within MaxRows and the byte budget, at
\* least one: row sizes are left open, so any length up to MaxRows may be chosen.
Window(d, s) == Cardinality({u \in cand[d] : u <= s}) <= MaxRows

ChooseWindow(d) ==
  /\ phase[d] = "scan"
  /\ table[d] > NTables
  /\ \E s \in cand[d] : Window(d, s) /\ last' = [last EXCEPT ![d] = s]
  /\ phase' = [phase EXCEPT ![d] = "docs"]
  /\ table' = [table EXCEPT ![d] = 1]
  /\ UNCHANGED <<writeVars, annOn, trxVars, annRead, from, cand, gone, rows, deviceVars, faults, toggles>>

\* Without candidates the answer is empty and the cursor stays.
NothingNew(d) ==
  /\ phase[d] = "scan"
  /\ table[d] > NTables
  /\ cand[d] = {}
  /\ phase' = [phase EXCEPT ![d] = "reply"]
  /\ last' = [last EXCEPT ![d] = from[d]]
  /\ UNCHANGED <<writeVars, annOn, trxVars, annRead, from, table, cand, gone, rows, deviceVars, faults, toggles>>

\* The documents with a tombstone: the text of their pages is not sent again.
ReadDeleted(d) ==
  /\ phase[d] = "docs"
  /\ phase' = [phase EXCEPT ![d] = "fetch"]
  /\ gone' = [gone EXCEPT ![d] = deleted]
  /\ UNCHANGED <<writeVars, annOn, trxVars, annRead, from, table, cand, last, rows, deviceVars, faults, toggles>>

\* The rows of table t whose server_seq is now inside the window.
InWindow_CandidatesOnly(d, r) == store[r] \in cand[d] /\ store[r] <= last[d]
InWindow(d, r) == from[d] < store[r] /\ store[r] <= last[d]
Sent(d, r) == TableOf[r] = table[d] /\ Pulled(d, table[d]) /\ InWindow(d, r) /\ PageDoc[r] \notin gone[d]

LastTable_OneTooMany(t) == t > NTables
LastTable(t) == t = NTables

FetchTable(d) ==
  /\ phase[d] = "fetch"
  /\ rows' = [rows EXCEPT ![d] = [r \in Rows |-> IF Sent(d, r) THEN store[r] ELSE @[r]]]
  /\ table' = [table EXCEPT ![d] = @ + 1]
  /\ phase' = [phase EXCEPT ![d] = IF LastTable(table[d]) THEN "reply" ELSE "fetch"]
  /\ UNCHANGED <<writeVars, annOn, trxVars, annRead, from, cand, last, gone, deviceVars, faults, toggles>>

EndPull(d) ==
  /\ phase' = [phase EXCEPT ![d] = "idle"]
  /\ annRead' = [annRead EXCEPT ![d] = FALSE]
  /\ from' = [from EXCEPT ![d] = 0]
  /\ table' = [table EXCEPT ![d] = 1]
  /\ cand' = [cand EXCEPT ![d] = {}]
  /\ last' = [last EXCEPT ![d] = 0]
  /\ gone' = [gone EXCEPT ![d] = {}]
  /\ rows' = [rows EXCEPT ![d] = NoRows]

\* The response reaches the device, which stores the rows and the cursor.
Deliver(d) ==
  /\ phase[d] = "reply"
  /\ cursor' = [cursor EXCEPT ![d] = last[d]]
  /\ issued' = [issued EXCEPT ![d] = @ \/ from[d] = 0]
  /\ got' = [got EXCEPT ![d] = [r \in Rows |-> IF rows[d][r] # 0 THEN rows[d][r] ELSE @[r]]]
  /\ EndPull(d)
  /\ UNCHANGED <<writeVars, annOn, trxVars, faults, toggles>>

\* The connection or the server is lost: the device keeps its cursor.
Abort(d) ==
  /\ phase[d] # "idle"
  /\ faults[d] < MaxFaults
  /\ faults' = [faults EXCEPT ![d] = @ + 1]
  /\ EndPull(d)
  /\ UNCHANGED <<writeVars, annOn, trxVars, deviceVars, toggles>>

\* A rejected entity makes the device ask for everything again (cursor null).
Restart(d) ==
  /\ phase[d] = "idle"
  /\ faults[d] < MaxFaults
  /\ faults' = [faults EXCEPT ![d] = @ + 1]
  /\ cursor' = [cursor EXCEPT ![d] = 0]
  /\ issued' = [issued EXCEPT ![d] = TRUE]
  /\ UNCHANGED <<writeVars, annOn, trxVars, pullVars, got, toggles>>
----------------------------------------------------------------------------
Write(w) == OpenSeqAllocator(w) \/ (\E r \in Rows : SaveRow(w, r)) \/ Commit(w) \/ Rollback(w)

PullStep(d) == \/ StartPull(d) \/ ReadCounter(d) \/ ScanTable(d) \/ ChooseWindow(d) \/ NothingNew(d)
               \/ ReadDeleted(d) \/ FetchTable(d) \/ Deliver(d)

Next ==
  \/ \E w \in Writers : Write(w)
  \/ ToggleAnnotations
  \/ \E d \in Devices : PullStep(d) \/ Abort(d) \/ Restart(d)

Spec == Init /\ [][Next]_vars

\* The sync interval keeps every device pulling and a request that runs makes
\* progress; nothing makes anybody write.
Fairness == \A d \in Devices : WF_vars(PullStep(d))

FairSpec == Spec /\ Fairness
----------------------------------------------------------------------------
\* Type invariant.
TypeOK ==
  /\ seq \in 0..MaxSeq
  /\ store \in [Rows -> 0..MaxSeq]
  /\ deleted \in SUBSET Docs
  /\ annOn \in BOOLEAN
  /\ open \in [Writers -> BOOLEAN]
  /\ current \in [Writers -> 0..MaxSeq]
  /\ wrote \in [Writers -> [Rows -> 0..MaxSeq]]
  /\ dels \in [Writers -> SUBSET Docs]
  /\ phase \in [Devices -> {"idle", "count", "scan", "docs", "fetch", "reply"}]
  /\ annRead \in [Devices -> BOOLEAN]
  /\ from \in [Devices -> 0..MaxSeq]
  /\ table \in [Devices -> 1..(NTables + 1)]
  /\ cand \in [Devices -> SUBSET (1..MaxSeq)]
  /\ last \in [Devices -> 0..MaxSeq]
  /\ gone \in [Devices -> SUBSET Docs]
  /\ rows \in [Devices -> [Rows -> 0..MaxSeq]]
  /\ cursor \in [Devices -> 0..MaxSeq]
  /\ issued \in [Devices -> BOOLEAN]
  /\ got \in [Devices -> [Rows -> 0..MaxSeq]]
  /\ faults \in [Devices -> 0..MaxFaults]
  /\ toggles \in 0..MaxToggles

Feed == INSTANCE SyncFeed WITH Hidden <- AnnotationRows

(***************************************************************************)
(* The pull, read by read and with other requests committing in between,   *)
(* implements the atomic hand-over of SyncFeed.                            *)
(***************************************************************************)
ImplementsFeed == Feed!Spec

(***************************************************************************)
(* No pulled cursor skips a commit (syncCounters.ts): whatever a device's  *)
(* cursor is past, the device was sent its current version, although the   *)
(* counter, the sequence numbers and the rows are read at different times  *)
(* (annotations, and pages of deleted documents, excepted).                *)
(***************************************************************************)
NeverSkips == Feed!NeverSkips

\* The rows are loaded from the first table to the last.
FetchPosition ==
  \A d \in Devices : /\ phase[d] = "docs" => table[d] = 1
                     /\ phase[d] = "fetch" => table[d] \in Tables

\* No committed row is above the counter.
CounterBound == \A r \in Rows : store[r] <= seq

\* At most one transaction holds the counter, and what it hands out is above it.
CounterLocked ==
  /\ \A v, w \in Writers : open[v] /\ open[w] => v = w
  /\ \A w \in Writers : open[w] => seq <= current[w]
  /\ \A w \in Writers, r \in Rows :
       wrote[w][r] # 0 => open[w] /\ seq < wrote[w][r] /\ wrote[w][r] <= current[w]

\* What a pull has read is no newer than the committed counter, and its window
\* starts at the device's cursor or at 0.
PullBounded ==
  \A d \in Devices :
    /\ \A s \in cand[d] : s <= seq
    /\ phase[d] \notin {"idle", "count"} => from[d] \in {0, cursor[d]} /\ from[d] <= seq
    /\ phase[d] \in {"docs", "fetch", "reply"} => last[d] <= seq
    /\ phase[d] \in {"idle", "count", "scan", "docs"} => rows[d] = NoRows
    /\ gone[d] \subseteq deleted

\* Table by table, the rows of the window that have been loaded are current: a
\* row rewritten since then has left the window.
Loaded(d, r) == phase[d] = "reply" \/ (phase[d] = "fetch" /\ TableOf[r] < table[d])

PullCurrent ==
  \A d \in Devices, r \in Rows :
    /\ rows[d][r] # 0 => from[d] < rows[d][r] /\ rows[d][r] <= last[d] /\ rows[d][r] <= store[r]
    /\ Loaded(d, r) /\ Feed!Owed(r) /\ InWindow(d, r) => rows[d][r] = store[r]

(***************************************************************************)
(* Why NeverSkips holds, as one inductive invariant: a window ends at a    *)
(* committed number, so later commits land above it (syncCounters.ts,      *)
(* pull.ts "Rows rewritten meanwhile moved above lastSeq").                *)
(***************************************************************************)
IndInv ==
  /\ FetchPosition
  /\ CounterBound
  /\ CounterLocked
  /\ PullBounded
  /\ PullCurrent

(***************************************************************************)
(* The same for annotations while the parent has annotation sync on: false *)
(* once it was off for a while, because the cursor moves past annotations  *)
(* that were left out (pull.ts).                                           *)
(***************************************************************************)
AnnotationsNeverSkipped ==
  \A d \in Devices, r \in AnnotationRows :
    annOn /\ issued[d] /\ 0 < store[r] /\ store[r] <= cursor[d] => got[d][r] = store[r]

(***************************************************************************)
(* Paging makes progress: a device that keeps pulling ends up, once the    *)
(* writers stop, with the current version of every row it is owed, however *)
(* small a page is.                                                        *)
(***************************************************************************)
EventuallyCaughtUp ==
  <>[](\A d \in Devices, r \in Rows : issued[d] /\ Feed!Owed(r) => got[d][r] = store[r])
=============================================================================
