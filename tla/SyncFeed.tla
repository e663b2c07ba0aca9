------------------------------ MODULE SyncFeed ------------------------------
(***************************************************************************)
(* What the pull half of the sync server promises to a device (abstract    *)
(* specification).  Every committed write of a family gives its row a new  *)
(* server_seq above every earlier one; a pull moves the device's cursor    *)
(* from somewhere to somewhere, and hands over the current version of      *)
(* every row between the two, in one atomic step.  SyncLog is the          *)
(* non-atomic implementation.                                              *)
(***************************************************************************)
EXTENDS Naturals

CONSTANTS
  Rows,      \* keys of the synced tables of one family
  Devices,   \* devices that pull
  Hidden,    \* rows a pull may leave out whatever their server_seq
  PageDoc    \* [Rows -> Rows \cup {a value outside Rows}]: document of a page

VARIABLES
  seq,       \* last server_seq of the committed state
  store,     \* [Rows -> Nat]: server_seq of the committed version, 0 if none
  deleted,   \* documents with a tombstone
  cursor,    \* [Devices -> Nat]: the cursor each device has persisted
  issued,    \* [Devices -> BOOLEAN]: that cursor was issued by this database
  got        \* [Devices -> [Rows -> Nat]]: version last handed over, 0 if none

feedVars == <<seq, store, deleted, cursor, issued, got>>

\* A pull owes the device this row: it is not hidden, and it is not a page of
\* a deleted document (its tombstone is sent instead).
Owed(r) == r \notin Hidden /\ PageDoc[r] \notin deleted

Init ==
  /\ seq = 0
  /\ store = [r \in Rows |-> 0]
  /\ deleted = {}
  /\ cursor \in [Devices -> Nat]
  /\ issued = [d \in Devices |-> cursor[d] = 0]
  /\ got = [d \in Devices |-> [r \in Rows |-> 0]]

\* A transaction commits: the rows it wrote get numbers above the counter.
Commit ==
  /\ seq' \in Nat /\ seq' >= seq
  /\ store' \in [Rows -> Nat]
  /\ \A r \in Rows : store'[r] = store[r] \/ (seq < store'[r] /\ store'[r] <= seq')
  /\ deleted \subseteq deleted'
  /\ UNCHANGED <<cursor, issued, got>>

\* A pull from the device's cursor, or from the start, up to a committed number:
\* only versions of that window are handed over, and no row owed inside it is
\* left out.
Deliver(d) ==
  \E from \in {0, cursor[d]}, last \in 0..seq :
    /\ cursor' = [cursor EXCEPT ![d] = last]
    /\ issued' = [issued EXCEPT ![d] = @ \/ from = 0]
    /\ got' \in [Devices -> [Rows -> Nat]]
    /\ \A e \in Devices \ {d} : got'[e] = got[e]
    /\ \A r \in Rows : \/ got'[d][r] = got[d][r]
                       \/ from < got'[d][r] /\ got'[d][r] <= last /\ got'[d][r] <= store[r]
    /\ \A r \in Rows : Owed(r) /\ from < store[r] /\ store[r] <= last => got'[d][r] = store[r]
    /\ UNCHANGED <<seq, store, deleted>>

\* The device asks for everything again (cursor null).
Restart(d) ==
  /\ cursor' = [cursor EXCEPT ![d] = 0]
  /\ issued' = [issued EXCEPT ![d] = TRUE]
  /\ UNCHANGED <<seq, store, deleted, got>>

Next == Commit \/ \E d \in Devices : Deliver(d) \/ Restart(d)

Spec == Init /\ [][Next]_feedVars

(***************************************************************************)
(* No pulled cursor skips a commit (the reason given in syncCounters.ts    *)
(* for locking the counter): whatever row a device's cursor is past, the   *)
(* device has been handed its current version.                             *)
(***************************************************************************)
NeverSkips ==
  \A d \in Devices, r \in Rows :
    issued[d] /\ Owed(r) /\ 0 < store[r] /\ store[r] <= cursor[d] => got[d][r] = store[r]

\* A cursor of this database is a number it has committed.
IssuedBound == \A d \in Devices : issued[d] => cursor[d] <= seq
=============================================================================
