--------------------------- MODULE SyncLogProofs ---------------------------
(***************************************************************************)
(* Proofs about SyncLog for every family, every set of devices and every   *)
(* number of concurrent requests: types, the inductive invariant, the      *)
(* implementation of SyncFeed, and that no pulled cursor skips a commit.   *)
(***************************************************************************)
EXTENDS SyncLog, TLAPS

LEMMA NextTable == ASSUME NEW t \in 1..NTables, t # NTables PROVE t + 1 \in 1..NTables
BY ConstantsAssumption DEF ConstantsAssumption

\* The types, with the one fact about a pull's position they depend on, are
\* inductive.
LEMMA TypeInductive == Spec => [](TypeOK /\ FetchPosition)
<1> USE ConstantsAssumption DEF ConstantsAssumption, TypeOK, FetchPosition, Tables
<1>1. Init => TypeOK /\ FetchPosition
  BY DEF Init, NoRows
<1>2. TypeOK /\ FetchPosition /\ [Next]_vars => TypeOK' /\ FetchPosition'
  <2> SUFFICES ASSUME TypeOK, FetchPosition, [Next]_vars PROVE TypeOK' /\ FetchPosition'
    OBVIOUS
  <2> USE DEF writeVars, trxVars, pullVars, deviceVars
  <2>1. ASSUME NEW w \in Writers, OpenSeqAllocator(w) PROVE TypeOK' /\ FetchPosition'
    BY <2>1 DEF OpenSeqAllocator
  <2>2. ASSUME NEW w \in Writers, NEW r \in Rows, SaveRow(w, r) PROVE TypeOK' /\ FetchPosition'
    <3>1. current[w] + 1 \in 0..MaxSeq
      BY <2>2 DEF SaveRow
    <3>2. wrote' \in [Writers -> [Rows -> 0..MaxSeq]]
      BY <2>2, <3>1 DEF SaveRow
    <3>3. dels' \in [Writers -> SUBSET Docs]
      <4>1. CASE UNCHANGED dels
        BY <4>1
      <4>2. CASE r \in Docs /\ dels' = [dels EXCEPT ![w] = @ \cup {r}]
        <5>1. dels[w] \cup {r} \in SUBSET Docs
          BY <4>2
        <5> QED BY <4>2, <5>1
      <4> QED BY <2>2, <4>1, <4>2 DEF SaveRow
    <3> QED BY <2>2, <3>1, <3>2, <3>3 DEF SaveRow
  <2>3. ASSUME NEW w \in Writers, Commit(w) PROVE TypeOK' /\ FetchPosition'
    BY <2>3 DEF Commit, Flushed, EndTransaction, NoRows
  <2>4. ASSUME NEW w \in Writers, Rollback(w) PROVE TypeOK' /\ FetchPosition'
    BY <2>4 DEF Rollback, EndTransaction, NoRows
  <2>5. CASE ToggleAnnotations
    BY <2>5 DEF ToggleAnnotations
  <2>6. ASSUME NEW d \in Devices, StartPull(d) PROVE TypeOK' /\ FetchPosition'
    BY <2>6 DEF StartPull
  <2>7. ASSUME NEW d \in Devices, ReadCounter(d) PROVE TypeOK' /\ FetchPosition'
    BY <2>7 DEF ReadCounter, PullFrom
  <2>8. ASSUME NEW d \in Devices, ScanTable(d) PROVE TypeOK' /\ FetchPosition'
    <3>1. Candidates(d, table[d]) \in SUBSET (1..MaxSeq)
      BY DEF Candidates
    <3> QED BY <2>8, <3>1 DEF ScanTable
  <2>9. ASSUME NEW d \in Devices, ChooseWindow(d) PROVE TypeOK' /\ FetchPosition'
    BY <2>9 DEF ChooseWindow
  <2>10. ASSUME NEW d \in Devices, NothingNew(d) PROVE TypeOK' /\ FetchPosition'
    BY <2>10 DEF NothingNew
  <2>11. ASSUME NEW d \in Devices, ReadDeleted(d) PROVE TypeOK' /\ FetchPosition'
    BY <2>11 DEF ReadDeleted
  <2>12. ASSUME NEW d \in Devices, FetchTable(d) PROVE TypeOK' /\ FetchPosition'
    <3>1. rows' \in [Devices -> [Rows -> 0..MaxSeq]]
      BY <2>12 DEF FetchTable
    <3>2. table[d] \in 1..NTables /\ table[d] + 1 \in 1..(NTables + 1)
      BY <2>12 DEF FetchTable
    <3>3. table' \in [Devices -> 1..(NTables + 1)]
      BY <2>12, <3>2 DEF FetchTable
    <3>4. FetchPosition'
      <4> SUFFICES ASSUME NEW e \in Devices
                   PROVE /\ phase'[e] = "docs" => table'[e] = 1
                         /\ phase'[e] = "fetch" => table'[e] \in 1..NTables
        BY DEF FetchPosition
      <4>1. CASE e = d
        <5>1. phase'[d] = IF table[d] = NTables THEN "reply" ELSE "fetch"
          BY <2>12 DEF FetchTable, LastTable
        <5>3. table'[d] = table[d] + 1
          BY <2>12 DEF FetchTable
        <5>4. table[d] # NTables => table[d] + 1 \in 1..NTables
          BY <3>2, NextTable
        <5> QED BY <4>1, <5>1, <5>3, <5>4
      <4>2. CASE e # d
        BY <2>12, <4>2 DEF FetchTable
      <4> QED BY <4>1, <4>2
    <3> QED BY <2>12, <3>1, <3>3, <3>4 DEF FetchTable
  <2>13. ASSUME NEW d \in Devices, Deliver(d) PROVE TypeOK' /\ FetchPosition'
    BY <2>13 DEF Deliver, EndPull, NoRows
  <2>14. ASSUME NEW d \in Devices, Abort(d) PROVE TypeOK' /\ FetchPosition'
    BY <2>14 DEF Abort, EndPull, NoRows
  <2>15. ASSUME NEW d \in Devices, Restart(d) PROVE TypeOK' /\ FetchPosition'
    BY <2>15 DEF Restart
  <2>16. CASE UNCHANGED vars
    BY <2>16 DEF vars
  <2> QED
    BY <2>1, <2>2, <2>3, <2>4, <2>5, <2>6, <2>7, <2>8, <2>9, <2>10, <2>11, <2>12, <2>13, <2>14, <2>15, <2>16
    DEF Next, Write, PullStep
<1> QED BY <1>1, <1>2, PTL DEF Spec

\* Every variable of SyncLog keeps its type.
THEOREM TypeCorrect == Spec => []TypeOK
BY TypeInductive, PTL
----------------------------------------------------------------------------
\* A commit puts the rows it writes above every open window and leaves the
\* others alone.
LEMMA CommitAbove ==
  ASSUME TypeOK, CounterBound, CounterLocked, NEW w \in Writers, Commit(w)
  PROVE  /\ seq <= seq'
         /\ \A r \in Rows : store'[r] <= seq' /\ (store'[r] = store[r] \/ seq < store'[r])
         /\ deleted \subseteq deleted'
<1>1. open[w] /\ seq' = current[w] /\ deleted' = deleted \cup dels[w]
  BY DEF Commit, Flushed
<1>2. seq <= current[w] /\ \A r \in Rows : wrote[w][r] # 0 => seq < wrote[w][r] /\ wrote[w][r] <= current[w]
  BY <1>1 DEF CounterLocked
<1>3. ASSUME NEW r \in Rows
      PROVE  store'[r] <= seq' /\ (store'[r] = store[r] \/ seq < store'[r])
  <2>1. store'[r] = IF wrote[w][r] # 0 THEN wrote[w][r] ELSE store[r]
    BY DEF Commit
  <2>2. store[r] <= seq /\ store[r] \in Nat /\ seq \in Nat /\ current[w] \in Nat
    BY DEF CounterBound, TypeOK
  <2> QED BY <1>1, <1>2, <2>1, <2>2
<1> QED BY <1>1, <1>2, <1>3

\* The counter and the transactions keep their relation.
LEMMA CounterInductive ==
  ASSUME TypeOK, CounterBound, CounterLocked, [Next]_vars
  PROVE  CounterBound' /\ CounterLocked'
<1> USE DEF CounterBound, CounterLocked, writeVars, trxVars
<1>1. ASSUME NEW w \in Writers, OpenSeqAllocator(w) PROVE CounterBound' /\ CounterLocked'
  <2>1. \A v \in Writers : open'[v] <=> v = w
    BY <1>1 DEF OpenSeqAllocator, CounterUnlocked, TypeOK
  <2>2. current'[w] = seq /\ seq \in Nat /\ UNCHANGED <<seq, store, wrote>>
    BY <1>1 DEF OpenSeqAllocator, TypeOK
  <2>3. \A v \in Writers, r \in Rows : wrote[v][r] = 0
    BY <1>1 DEF OpenSeqAllocator, CounterUnlocked
  <2> QED BY <2>1, <2>2, <2>3
<1>2. ASSUME NEW w \in Writers, NEW r \in Rows, SaveRow(w, r) PROVE CounterBound' /\ CounterLocked'
  BY <1>2 DEF SaveRow, TypeOK
<1>3. ASSUME NEW w \in Writers, Commit(w) PROVE CounterBound' /\ CounterLocked'
  <2>1. CounterBound'
    BY <1>3, CommitAbove
  <2>2. \A v \in Writers : ~open'[v]
    BY <1>3 DEF Commit, EndTransaction, TypeOK
  <2>3. \A v \in Writers, r \in Rows : wrote'[v][r] = 0
    BY <1>3 DEF Commit, EndTransaction, NoRows, TypeOK
  <2> QED BY <2>1, <2>2, <2>3
<1>4. ASSUME NEW w \in Writers, Rollback(w) PROVE CounterBound' /\ CounterLocked'
  <2>1. \A v \in Writers : ~open'[v]
    BY <1>4 DEF Rollback, EndTransaction, TypeOK
  <2>2. \A v \in Writers, r \in Rows : wrote'[v][r] = 0
    BY <1>4 DEF Rollback, EndTransaction, NoRows, TypeOK
  <2> QED BY <1>4, <2>1, <2>2 DEF Rollback
<1>5. ASSUME UNCHANGED <<writeVars, trxVars>> PROVE CounterBound' /\ CounterLocked'
  BY <1>5
<1>6. CASE ToggleAnnotations
  BY <1>5, <1>6 DEF ToggleAnnotations
<1>7. ASSUME NEW d \in Devices, PullStep(d) \/ Abort(d) \/ Restart(d) PROVE CounterBound' /\ CounterLocked'
  BY <1>5, <1>7 DEF PullStep, StartPull, ReadCounter, ScanTable, ChooseWindow, NothingNew, ReadDeleted,
                    FetchTable, Deliver, Abort, Restart
<1>8. CASE UNCHANGED vars
  BY <1>5, <1>8 DEF vars
<1> QED BY <1>1, <1>2, <1>3, <1>4, <1>6, <1>7, <1>8 DEF Next, Write
----------------------------------------------------------------------------
\* What pulls have read stays below the counter.
LEMMA BoundsInductive ==
  ASSUME TypeOK, CounterBound, CounterLocked, PullBounded, [Next]_vars
  PROVE  PullBounded'
<1> USE DEF PullBounded, TypeOK, writeVars, pullVars, deviceVars
<1>1. ASSUME NEW w \in Writers, Commit(w) PROVE PullBounded'
  <2>1. seq <= seq' /\ deleted \subseteq deleted' /\ seq' \in Nat
    BY <1>1, CommitAbove DEF Commit, Flushed
  <2>2. UNCHANGED <<pullVars, cursor>>
    BY <1>1 DEF Commit
  <2> QED BY <2>1, <2>2
<1>2. ASSUME UNCHANGED <<writeVars, pullVars, cursor>> PROVE PullBounded'
  BY <1>2
<1>3. ASSUME NEW w \in Writers, OpenSeqAllocator(w) \/ (\E r \in Rows : SaveRow(w, r)) \/ Rollback(w)
      PROVE PullBounded'
  BY <1>2, <1>3 DEF OpenSeqAllocator, SaveRow, Rollback
<1>4. CASE ToggleAnnotations
  BY <1>2, <1>4 DEF ToggleAnnotations
<1>5. ASSUME NEW d \in Devices, StartPull(d) PROVE PullBounded'
  BY <1>5 DEF StartPull
<1>6. ASSUME NEW d \in Devices, ReadCounter(d) PROVE PullBounded'
  BY <1>6 DEF ReadCounter, PullFrom
<1>7. ASSUME NEW d \in Devices, ScanTable(d) PROVE PullBounded'
  <2>1. \A s \in Candidates(d, table[d]) : s <= seq
    BY DEF Candidates, CounterBound
  <2>2. \A s \in cand'[d] : s <= seq
    BY <1>7, <2>1 DEF ScanTable
  <2>3. \A e \in Devices : e # d => cand'[e] = cand[e]
    BY <1>7 DEF ScanTable
  <2>4. UNCHANGED <<seq, deleted, cursor, phase, from, last, gone, rows>>
    BY <1>7 DEF ScanTable
  <2> QED BY <2>2, <2>3, <2>4
<1>8. ASSUME NEW d \in Devices, ChooseWindow(d) PROVE PullBounded'
  BY <1>8 DEF ChooseWindow
<1>9. ASSUME NEW d \in Devices, NothingNew(d) PROVE PullBounded'
  <2>1. last'[d] <= seq /\ phase'[d] = "reply" /\ phase[d] = "scan"
    BY <1>9 DEF NothingNew
  <2>2. \A e \in Devices : e # d => phase'[e] = phase[e] /\ last'[e] = last[e]
    BY <1>9 DEF NothingNew
  <2>3. UNCHANGED <<seq, deleted, cursor, from, cand, gone, rows>>
    BY <1>9 DEF NothingNew
  <2> QED BY <2>1, <2>2, <2>3
<1>10. ASSUME NEW d \in Devices, ReadDeleted(d) PROVE PullBounded'
  BY <1>10 DEF ReadDeleted
<1>11. ASSUME NEW d \in Devices, FetchTable(d) PROVE PullBounded'
  BY <1>11 DEF FetchTable
<1>12. ASSUME NEW d \in Devices, Deliver(d) PROVE PullBounded'
  BY <1>12 DEF Deliver, EndPull
<1>13. ASSUME NEW d \in Devices, Abort(d) PROVE PullBounded'
  BY <1>13 DEF Abort, EndPull
<1>14. ASSUME NEW d \in Devices, Restart(d) PROVE PullBounded'
  BY <1>14 DEF Restart
<1>15. CASE UNCHANGED vars
  BY <1>2, <1>15 DEF vars
<1> QED
  BY <1>1, <1>3, <1>4, <1>5, <1>6, <1>7, <1>8, <1>9, <1>10, <1>11, <1>12, <1>13, <1>14, <1>15
  DEF Next, Write, PullStep
----------------------------------------------------------------------------
\* What a pull has loaded stays current: a row that is rewritten leaves the
\* window of every pull that chose it before.
LEMMA CurrentInductive ==
  ASSUME TypeOK, FetchPosition, CounterBound, CounterLocked, PullBounded, PullCurrent, [Next]_vars
  PROVE  PullCurrent'
<1> USE DEF Feed!Owed, Loaded, InWindow, writeVars, pullVars
<1>1. ASSUME NEW w \in Writers, Commit(w) PROVE PullCurrent'
  <2> SUFFICES ASSUME NEW d \in Devices, NEW r \in Rows
               PROVE /\ rows'[d][r] # 0 => from'[d] < rows'[d][r] /\ rows'[d][r] <= last'[d] /\ rows'[d][r] <= store'[r]
                     /\ Loaded(d, r)' /\ Feed!Owed(r)' /\ InWindow(d, r)' => rows'[d][r] = store'[r]
    BY DEF PullCurrent
  <2>1. UNCHANGED pullVars
    BY <1>1 DEF Commit
  <2>2. deleted \subseteq deleted' /\ (store'[r] = store[r] \/ seq < store'[r])
    BY <1>1, CommitAbove
  <2>3. Loaded(d, r) => last[d] <= seq
    BY DEF PullBounded
  <2>4. seq \in Nat /\ store[r] \in Nat /\ store'[r] \in Nat /\ last[d] \in Nat /\ rows[d][r] \in Nat
    BY <1>1 DEF TypeOK, Commit
  <2>5. store[r] <= store'[r]
    BY <2>2, <2>4 DEF CounterBound
  <2>6. rows'[d][r] # 0 => from'[d] < rows'[d][r] /\ rows'[d][r] <= last'[d] /\ rows'[d][r] <= store'[r]
    BY <2>1, <2>4, <2>5 DEF PullCurrent
  <2>7. Loaded(d, r)' /\ Feed!Owed(r)' /\ InWindow(d, r)' => rows'[d][r] = store'[r]
    BY <2>1, <2>2, <2>3, <2>4 DEF PullCurrent
  <2> QED BY <2>6, <2>7
<1>2. ASSUME UNCHANGED <<writeVars, pullVars>> PROVE PullCurrent'
  BY <1>2 DEF PullCurrent
<1>3. ASSUME NEW w \in Writers, OpenSeqAllocator(w) \/ (\E r \in Rows : SaveRow(w, r)) \/ Rollback(w)
      PROVE PullCurrent'
  BY <1>2, <1>3 DEF OpenSeqAllocator, SaveRow, Rollback
<1>4. CASE ToggleAnnotations
  BY <1>2, <1>4 DEF ToggleAnnotations
\* Before the rows are loaded the response is empty.
<1>5. ASSUME NEW d \in Devices, UNCHANGED writeVars, rows'[d] = NoRows,
             phase'[d] \in {"idle", "count", "scan", "docs"},
             \A e \in Devices : e # d => /\ phase'[e] = phase[e] /\ from'[e] = from[e] /\ table'[e] = table[e]
                                         /\ last'[e] = last[e] /\ rows'[e] = rows[e]
      PROVE PullCurrent'
  BY <1>5 DEF PullCurrent, NoRows
<1>6. ASSUME NEW d \in Devices, StartPull(d) \/ ReadCounter(d) \/ ScanTable(d) \/ ChooseWindow(d)
      PROVE PullCurrent'
  <2>1. rows[d] = NoRows /\ phase'[d] \in {"idle", "count", "scan", "docs"} /\ UNCHANGED <<rows, writeVars>>
    BY <1>6 DEF StartPull, ReadCounter, ScanTable, ChooseWindow, PullBounded, TypeOK
  <2>2. \A e \in Devices : e # d => /\ phase'[e] = phase[e] /\ from'[e] = from[e]
                                    /\ table'[e] = table[e] /\ last'[e] = last[e]
    BY <1>6 DEF StartPull, ReadCounter, ScanTable, ChooseWindow, TypeOK
  <2> QED BY <1>5, <2>1, <2>2
<1>7. ASSUME NEW d \in Devices, NothingNew(d) PROVE PullCurrent'
  <2>1. rows[d] = NoRows /\ from'[d] = from[d] /\ last'[d] = from[d] /\ UNCHANGED <<rows, writeVars, from, table>>
    BY <1>7 DEF NothingNew, PullBounded, TypeOK
  <2>2. \A e \in Devices : e # d => phase'[e] = phase[e] /\ last'[e] = last[e]
    BY <1>7 DEF NothingNew, TypeOK
  <2>3. from[d] \in Nat /\ \A r \in Rows : store[r] \in Nat /\ rows[d][r] = 0
    BY <2>1 DEF TypeOK, NoRows
  <2> QED BY <2>1, <2>2, <2>3 DEF PullCurrent
<1>8. ASSUME NEW d \in Devices, ReadDeleted(d) PROVE PullCurrent'
  <2>1. phase'[d] = "fetch" /\ rows[d] = NoRows /\ UNCHANGED <<rows, writeVars, from, table, last>>
    BY <1>8 DEF ReadDeleted, PullBounded, TypeOK
  <2>2. \A e \in Devices : e # d => phase'[e] = phase[e]
    BY <1>8 DEF ReadDeleted, TypeOK
  <2>3. \A r \in Rows : ~Loaded(d, r)'
    <3>1. table'[d] = 1
      BY <1>8, <2>1 DEF ReadDeleted, FetchPosition
    <3>2. \A r \in Rows : TableOf[r] \in Nat \ {0}
      BY ConstantsAssumption DEF ConstantsAssumption, Tables
    <3> QED BY <2>1, <3>1, <3>2
  <2> QED BY <2>1, <2>2, <2>3 DEF PullCurrent, NoRows
<1>9. ASSUME NEW d \in Devices, FetchTable(d) PROVE PullCurrent'
  <2>1. /\ phase[d] = "fetch" /\ table'[d] = table[d] + 1
        /\ phase'[d] = IF table[d] = NTables THEN "reply" ELSE "fetch"
        /\ UNCHANGED <<writeVars, from, last, gone>>
    BY <1>9 DEF FetchTable, LastTable, TypeOK
  <2>2. \A e \in Devices : e # d => phase'[e] = phase[e] /\ table'[e] = table[e] /\ rows'[e] = rows[e]
    BY <1>9 DEF FetchTable, TypeOK
  <2>3. \A r \in Rows : rows'[d][r] = IF Sent(d, r) THEN store[r] ELSE rows[d][r]
    BY <1>9 DEF FetchTable, TypeOK
  <2>4. \A r \in Rows : TableOf[r] \in Nat /\ TableOf[r] <= NTables /\ NTables \in Nat /\ table[d] \in Nat
    BY ConstantsAssumption DEF ConstantsAssumption, Tables, TypeOK
  <2>5. ASSUME NEW r \in Rows, Loaded(d, r)', Feed!Owed(r)', InWindow(d, r)' PROVE rows'[d][r] = store'[r]
    <3>1. TableOf[r] <= table[d]
      BY <2>1, <2>4, <2>5
    <3>2. CASE TableOf[r] = table[d]
      <4>1. Pulled(d, table[d]) /\ PageDoc[r] \notin gone[d]
        BY <2>1, <2>5, <3>2 DEF Pulled, AnnotationRows, PullBounded
      <4> QED BY <2>1, <2>3, <2>5, <3>2, <4>1 DEF Sent
    <3>3. CASE TableOf[r] < table[d]
      <4>1. ~Sent(d, r)
        BY <2>4, <3>3 DEF Sent
      <4> QED BY <2>1, <2>3, <2>5, <3>3, <4>1 DEF PullCurrent
    <3> QED BY <2>4, <3>1, <3>2, <3>3
  <2>6. ASSUME NEW r \in Rows, rows'[d][r] # 0 PROVE from'[d] < rows'[d][r] /\ rows'[d][r] <= last'[d] /\ rows'[d][r] <= store'[r]
    <3>1. CASE Sent(d, r)
      BY <2>1, <2>3, <2>6, <3>1 DEF Sent, TypeOK
    <3>2. CASE ~Sent(d, r)
      BY <2>1, <2>3, <2>6, <3>2 DEF PullCurrent
    <3> QED BY <3>1, <3>2
  <2> QED BY <2>1, <2>2, <2>5, <2>6 DEF PullCurrent
<1>10. ASSUME NEW d \in Devices, Deliver(d) \/ Abort(d) PROVE PullCurrent'
  <2>1. UNCHANGED writeVars /\ rows'[d] = NoRows /\ phase'[d] = "idle"
    BY <1>10 DEF Deliver, Abort, EndPull, TypeOK
  <2>2. \A e \in Devices : e # d => /\ phase'[e] = phase[e] /\ from'[e] = from[e] /\ table'[e] = table[e]
                                    /\ last'[e] = last[e] /\ rows'[e] = rows[e]
    BY <1>10 DEF Deliver, Abort, EndPull, TypeOK
  <2> QED BY <1>5, <2>1, <2>2
<1>11. ASSUME NEW d \in Devices, Restart(d) PROVE PullCurrent'
  BY <1>2, <1>11 DEF Restart
<1>12. CASE UNCHANGED vars
  BY <1>2, <1>12 DEF vars
<1> QED
  BY <1>1, <1>3, <1>4, <1>6, <1>7, <1>8, <1>9, <1>10, <1>11, <1>12 DEF Next, Write, PullStep

\* The inductive invariant of SyncLog.
THEOREM InvCorrect == Spec => []IndInv
<1>1. Init => IndInv
  <2>1. Init => CounterBound /\ CounterLocked /\ PullBounded /\ FetchPosition
    BY DEF Init, CounterBound, CounterLocked, PullBounded, FetchPosition, NoRows
  <2>2. Init => PullCurrent
    BY DEF Init, PullCurrent, Loaded, NoRows
  <2> QED BY <2>1, <2>2 DEF IndInv
<1>2. TypeOK /\ FetchPosition /\ FetchPosition' /\ IndInv /\ [Next]_vars => IndInv'
  BY CounterInductive, BoundsInductive, CurrentInductive DEF IndInv
<1> QED BY <1>1, <1>2, TypeInductive, PTL DEF Spec
----------------------------------------------------------------------------
\* A response is an atomic hand-over of SyncFeed.
LEMMA DeliverImplements ==
  ASSUME TypeOK, PullBounded, PullCurrent, NEW d \in Devices, Deliver(d)
  PROVE  Feed!Deliver(d)
<1>1. from[d] \in {0, cursor[d]} /\ last[d] \in 0..seq
  <2>1. phase[d] = "reply" /\ last[d] \in 0..MaxSeq /\ seq \in 0..MaxSeq
    BY DEF Deliver, TypeOK
  <2>2. from[d] \in {0, cursor[d]} /\ last[d] <= seq
    BY <2>1 DEF PullBounded
  <2> QED BY <2>1, <2>2
<1>2. /\ cursor' = [cursor EXCEPT ![d] = last[d]]
      /\ issued' = [issued EXCEPT ![d] = @ \/ from[d] = 0]
      /\ UNCHANGED <<seq, store, deleted>>
  BY DEF Deliver, writeVars
<1>3. /\ got' \in [Devices -> [Rows -> Nat]]
      /\ \A e \in Devices \ {d} : got'[e] = got[e]
      /\ \A r \in Rows : got'[d][r] = IF rows[d][r] # 0 THEN rows[d][r] ELSE got[d][r]
  BY DEF Deliver, TypeOK
<1>4. \A r \in Rows : \/ got'[d][r] = got[d][r]
                      \/ from[d] < got'[d][r] /\ got'[d][r] <= last[d] /\ got'[d][r] <= store[r]
  BY <1>3 DEF PullCurrent
<1>5. \A r \in Rows : Feed!Owed(r) /\ from[d] < store[r] /\ store[r] <= last[d] => got'[d][r] = store[r]
  <2> SUFFICES ASSUME NEW r \in Rows, Feed!Owed(r), from[d] < store[r], store[r] <= last[d]
               PROVE  got'[d][r] = store[r]
    OBVIOUS
  <2>1. rows[d][r] = store[r]
    BY DEF PullCurrent, Loaded, InWindow, Deliver
  <2>2. store[r] # 0
    BY DEF TypeOK
  <2> QED BY <1>3, <2>1, <2>2
<1> QED BY <1>1, <1>2, <1>3, <1>4, <1>5 DEF Feed!Deliver

\* Every step of SyncLog is a step of SyncFeed or changes nothing it shows.
LEMMA StepImplements ==
  ASSUME TypeOK, TypeOK', IndInv, [Next]_vars
  PROVE  [Feed!Next]_(Feed!feedVars)
<1> USE DEF IndInv, Feed!feedVars, writeVars, deviceVars
<1>1. ASSUME NEW w \in Writers, Commit(w) PROVE Feed!Next
  <2>1. seq' \in Nat /\ store' \in [Rows -> Nat]
    BY DEF TypeOK
  <2>2. UNCHANGED <<cursor, issued, got>>
    BY <1>1 DEF Commit
  <2> QED BY <1>1, <2>1, <2>2, CommitAbove DEF Feed!Next, Feed!Commit
<1>2. ASSUME NEW d \in Devices, Deliver(d) PROVE Feed!Next
  BY <1>2, DeliverImplements DEF Feed!Next
<1>3. ASSUME NEW d \in Devices, Restart(d) PROVE Feed!Next
  BY <1>3 DEF Restart, Feed!Next, Feed!Restart
<1>4. ASSUME NEW w \in Writers, OpenSeqAllocator(w) \/ (\E r \in Rows : SaveRow(w, r)) \/ Rollback(w)
      PROVE UNCHANGED Feed!feedVars
  BY <1>4 DEF OpenSeqAllocator, SaveRow, Rollback
<1>5. CASE ToggleAnnotations
  BY <1>5 DEF ToggleAnnotations
<1>6. ASSUME NEW d \in Devices,
             \/ StartPull(d) \/ ReadCounter(d) \/ ScanTable(d) \/ ChooseWindow(d) \/ NothingNew(d)
             \/ ReadDeleted(d) \/ FetchTable(d) \/ Abort(d)
      PROVE UNCHANGED Feed!feedVars
  BY <1>6 DEF StartPull, ReadCounter, ScanTable, ChooseWindow, NothingNew, ReadDeleted, FetchTable, Abort
<1>7. CASE UNCHANGED vars
  BY <1>7 DEF vars
<1> QED BY <1>1, <1>2, <1>3, <1>4, <1>5, <1>6, <1>7 DEF Next, Write, PullStep

\* The pull of pull.ts, read by read and with other requests committing in
\* between, implements the atomic hand-over of SyncFeed.
THEOREM Implementation == Spec => ImplementsFeed
<1>1. Init => Feed!Init
  BY ConstantsAssumption DEF ConstantsAssumption, Init, Feed!Init, NoRows
<1> QED BY <1>1, StepImplements, TypeCorrect, InvCorrect, PTL DEF Spec, ImplementsFeed, Feed!Spec
----------------------------------------------------------------------------
\* In SyncFeed, a step keeps what the cursors promise.
LEMMA FeedStep ==
  ASSUME TypeOK, TypeOK', CounterBound, NeverSkips, Feed!IssuedBound, [Feed!Next]_(Feed!feedVars)
  PROVE  NeverSkips' /\ Feed!IssuedBound'
<1> USE DEF NeverSkips, Feed!NeverSkips, Feed!IssuedBound, Feed!Owed
<1>1. CASE Feed!Commit
  <2>1. seq <= seq' /\ deleted \subseteq deleted' /\ UNCHANGED <<cursor, issued, got>>
    BY <1>1 DEF Feed!Commit
  <2>2. \A d \in Devices : seq \in Nat /\ seq' \in Nat /\ cursor[d] \in Nat
    BY DEF TypeOK
  <2>3. Feed!IssuedBound'
    BY <2>1, <2>2
  <2>4. ASSUME NEW d \in Devices, NEW r \in Rows,
               issued'[d], Feed!Owed(r)', 0 < store'[r], store'[r] <= cursor'[d]
        PROVE  got'[d][r] = store'[r]
    <3>1. store'[r] = store[r] \/ seq < store'[r]
      BY <1>1 DEF Feed!Commit
    <3>2. store'[r] \in Nat /\ cursor[d] <= seq
      BY <2>1, <2>4 DEF TypeOK
    <3>3. store'[r] = store[r]
      BY <2>1, <2>2, <2>4, <3>1, <3>2
    <3> QED BY <2>1, <2>4, <3>3
  <2> QED BY <2>3, <2>4
<1>2. ASSUME NEW d \in Devices, Feed!Deliver(d) PROVE NeverSkips' /\ Feed!IssuedBound'
  <2>1. PICK f \in {0, cursor[d]}, l \in 0..seq :
          /\ cursor' = [cursor EXCEPT ![d] = l]
          /\ issued' = [issued EXCEPT ![d] = @ \/ f = 0]
          /\ got' \in [Devices -> [Rows -> Nat]]
          /\ \A e \in Devices \ {d} : got'[e] = got[e]
          /\ \A r \in Rows : \/ got'[d][r] = got[d][r]
                             \/ f < got'[d][r] /\ got'[d][r] <= l /\ got'[d][r] <= store[r]
          /\ \A r \in Rows : Feed!Owed(r) /\ f < store[r] /\ store[r] <= l => got'[d][r] = store[r]
          /\ UNCHANGED <<seq, store, deleted>>
    BY <1>2 DEF Feed!Deliver
  <2>2. cursor'[d] = l /\ (issued'[d] <=> issued[d] \/ f = 0)
    BY <2>1 DEF TypeOK
  <2>3. \A e \in Devices : e # d => cursor'[e] = cursor[e] /\ issued'[e] = issued[e] /\ got'[e] = got[e]
    BY <2>1
  <2>4. Feed!IssuedBound'
    BY <2>1, <2>2, <2>3 DEF TypeOK
  <2>5. ASSUME NEW r \in Rows, issued'[d], Feed!Owed(r)', 0 < store'[r], store'[r] <= cursor'[d]
        PROVE  got'[d][r] = store'[r]
    <3>1. CASE f < store[r]
      BY <2>1, <2>2, <2>5, <3>1
    <3>2. CASE ~(f < store[r])
      <4>1. store[r] <= f /\ f = cursor[d] /\ issued[d] /\ f \in Nat /\ store[r] \in Nat
        BY <2>1, <2>2, <2>5, <3>2 DEF TypeOK
      <4>2. got[d][r] = store[r]
        BY <2>1, <2>5, <4>1
      <4>3. ~(f < got'[d][r] /\ got'[d][r] <= store[r])
        BY <2>1, <4>1
      <4> QED BY <2>1, <4>2, <4>3
    <3> QED BY <3>1, <3>2
  <2> QED BY <2>1, <2>3, <2>4, <2>5
<1>3. ASSUME NEW d \in Devices, Feed!Restart(d) PROVE NeverSkips' /\ Feed!IssuedBound'
  <2>1. cursor'[d] = 0 /\ UNCHANGED <<seq, store, deleted, got>>
    BY <1>3 DEF Feed!Restart, TypeOK
  <2>2. \A e \in Devices : e # d => cursor'[e] = cursor[e] /\ issued'[e] = issued[e]
    BY <1>3 DEF Feed!Restart
  <2>3. seq \in Nat /\ \A r \in Rows : store[r] \in Nat
    BY DEF TypeOK
  <2> QED BY <2>1, <2>2, <2>3
<1>4. CASE UNCHANGED Feed!feedVars
  BY <1>4 DEF Feed!feedVars
<1> QED BY <1>1, <1>2, <1>3, <1>4 DEF Feed!Next

\* Whatever a device's cursor is past, it was sent its current version: the
\* promise for which syncCounters.ts locks the counter.
THEOREM NeverSkipsCorrect == Spec => []NeverSkips
<1>1. Init => NeverSkips /\ Feed!IssuedBound
  <2>1. Init => seq = 0 /\ (\A r \in Rows : store[r] = 0) /\ (\A d \in Devices : issued[d] <=> cursor[d] = 0)
    BY DEF Init, NoRows
  <2> QED BY <2>1 DEF NeverSkips, Feed!NeverSkips, Feed!IssuedBound
<1>2. TypeOK /\ TypeOK' /\ IndInv /\ NeverSkips /\ Feed!IssuedBound /\ [Next]_vars
        => NeverSkips' /\ Feed!IssuedBound'
  BY StepImplements, FeedStep DEF IndInv
<1> QED BY <1>1, <1>2, TypeCorrect, InvCorrect, PTL DEF Spec
=============================================================================
