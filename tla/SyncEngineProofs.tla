-------------------------- MODULE SyncEngineProofs --------------------------
(***************************************************************************)
(* Proofs about SyncEngine for every number of devices, rows, edits and    *)
(* interruptions: types, that an edit the server does not have stays in    *)
(* the outbox, and that a row goes back only while it is restored.         *)
(***************************************************************************)
EXTENDS SyncEngine, FiniteSetTheorems, TLAPS

\* Versions are compared by a number, and the absent row is the oldest.
LEMMA VersionFacts ==
  /\ None \in Versions /\ First \in Versions
  /\ None.at = 0 /\ ~None.del
  /\ First # None /\ ~First.del /\ First.at = 1
  /\ \A v \in Versions : v.at \in Nat /\ v.del \in BOOLEAN
<1> USE ConstantsAssumption DEF ConstantsAssumption
<1>1. Times \subseteq Nat
  BY DEF Times
<1> QED BY <1>1 DEF Versions, None, First, Writers, Times

\* An edit is a newer version, and a tombstone only of a document.
LEMMA LaterFacts ==
  ASSUME NEW w \in Writers, NEW k \in Keys, NEW old \in Versions, NEW v \in Later(w, k, old)
  PROVE  v \in Versions /\ v.at > old.at /\ (k \notin Documents => ~v.del)
BY VersionFacts DEF Later

\* The rows of a push are counted.
LEMMA PushCount ==
  ASSUME NEW ok \in SUBSET Keys, NEW k \in ok
  PROVE  /\ Cardinality(ok) \in Nat
         /\ Cardinality({j \in ok : j <= k}) \in Nat
         /\ Cardinality({j \in ok : j <= k}) <= Cardinality(ok)
<1>1. IsFiniteSet(Keys)
  BY FS_Interval, ConstantsAssumption DEF ConstantsAssumption, Keys
<1>2. IsFiniteSet(ok)
  BY <1>1, FS_Subset
<1> QED BY <1>2, FS_Subset, FS_CardinalityType

\* What a transaction may write: over rows that are not deleted, newer versions;
\* a tombstone only for a document; no row of a document that is, or is being,
\* deleted.
Legal(b, ok) ==
  \A k \in ok :
    /\ ~srv[k].del /\ srv[k].at < b[k].at
    /\ k \notin Documents => ~b[k].del
    /\ DocOf[k] # 0 => ~srv[DocOf[k]].del /\ (DocOf[k] \in ok => ~b[DocOf[k]].del)

LEMMA DocumentFacts ==
  ASSUME NEW k \in Keys
  PROVE  /\ DocOf[k] # 0 => DocOf[k] \in Documents /\ DocOf[k] \in Keys
         /\ k \in Documents => DocOf[k] = 0 /\ k \notin Cascaded
         /\ k \in Cascaded => DocOf[k] # 0
BY ConstantsAssumption DEF ConstantsAssumption

\* A transaction keeps the types of the server's rows.
LEMMA WriteTypes ==
  ASSUME TypeOK, NEW b \in [Keys -> Versions], NEW ok \in SUBSET Keys, Write(b, ok)
  PROVE  /\ srv' \in [Keys -> Versions]
         /\ counter' \in Nat
         /\ srvSeq' \in [Keys -> 0..counter']
<1> DEFINE written == {k \in Keys : WithCascade(b, ok)[k] # srv[k]}
<1>1. Cardinality(written) \in Nat
  <2>1. IsFiniteSet(Keys)
    BY FS_Interval, ConstantsAssumption DEF ConstantsAssumption, Keys
  <2> QED BY <2>1, FS_Subset, FS_CardinalityType
<1>2. counter' = counter + Cardinality(written) /\ counter \in Nat
  BY DEF Write, CounterAfter, TypeOK
<1>3. ASSUME NEW k \in Keys PROVE srvSeq'[k] \in 0..counter'
  <2>1. CASE k \in written
    <3>1. srvSeq'[k] = counter + Cardinality({j \in written : j <= k})
      BY <2>1 DEF Write
    <3> HIDE DEF written
    <3>2. written \in SUBSET Keys
      BY DEF written
    <3> QED BY <2>1, <3>1, <3>2, <1>1, <1>2, PushCount
  <2>2. CASE k \notin written
    <3>1. srvSeq'[k] = srvSeq[k] /\ srvSeq[k] \in 0..counter
      BY <2>2 DEF Write, TypeOK
    <3> QED BY <3>1, <1>1, <1>2
  <2> QED BY <2>1, <2>2
<1>4. srvSeq' = [k \in Keys |-> srvSeq'[k]]
  BY DEF Write
<1>5. srv' \in [Keys -> Versions]
  <2>1. ASSUME NEW k \in Keys, k \in Cascaded PROVE [at |-> b[DocOf[k]].at, by |-> srv[k].by, del |-> TRUE] \in Versions
    <3>1. DocOf[k] \in Keys
      BY <2>1, DocumentFacts
    <3>2. b[DocOf[k]] \in Versions /\ srv[k] \in Versions
      BY <3>1 DEF TypeOK
    <3> QED BY <3>2 DEF Versions
  <2> QED BY <2>1 DEF Write, WithCascade, TypeOK
<1> HIDE DEF written
<1> QED BY <1>1, <1>2, <1>3, <1>4, <1>5

LEMMA NoRowsType == NoRows \in [Keys -> Versions]
BY VersionFacts DEF NoRows

\* The types are inductive.
LEMMA TypeStep == TypeOK /\ [Next]_vars => TypeOK'
<1> SUFFICES ASSUME TypeOK, [Next]_vars PROVE TypeOK'
  OBVIOUS
<1> USE VersionFacts, NoRowsType, ConstantsAssumption
    DEF ConstantsAssumption, TypeOK, serverVars, kvVars, runVars, batchVars, answerVars
<1>1. ASSUME NEW d \in Devices, NEW k \in Keys, SaveEntity(d, k) PROVE TypeOK'
  <2>1. PICK v \in Later(d, k, local[d][k]) : local' = [local EXCEPT ![d][k] = v]
    BY <1>1 DEF SaveEntity
  <2>2. v \in Versions
    BY <2>1, LaterFacts DEF Writers
  <2>3. local' \in [Devices -> [Keys -> Versions]]
    BY <2>1, <2>2
  <2>4. edits' \in 0..MaxEdits /\ outbox' \in [Devices -> SUBSET Keys]
    BY <1>1 DEF SaveEntity
  <2> QED BY <1>1, <2>3, <2>4 DEF SaveEntity
<1>2. ASSUME NEW k \in Keys, ServerEdit(k) PROVE TypeOK'
  <2>1. PICK v \in Later(Server, k, srv[k]) : Write([NoRows EXCEPT ![k] = v], {k})
    BY <1>2 DEF ServerEdit
  <2>2. v \in Versions
    BY <2>1, LaterFacts DEF Writers
  <2>3. [NoRows EXCEPT ![k] = v] \in [Keys -> Versions] /\ {k} \in SUBSET Keys
    BY <2>2
  <2>4. srv' \in [Keys -> Versions] /\ counter' \in Nat /\ srvSeq' \in [Keys -> 0..counter']
    BY <2>1, <2>3, WriteTypes
  <2>5. edits' \in 0..MaxEdits
    BY <1>2 DEF ServerEdit
  <2> QED BY <1>2, <2>4, <2>5 DEF ServerEdit
<1>3. ASSUME NEW d \in Devices, StartRun(d) PROVE TypeOK'
  BY <1>3 DEF StartRun
<1>4. ASSUME NEW d \in Devices, CollectBatch(d) PROVE TypeOK'
  <2>1. PICK b \in Batches(outbox[d]) :
          /\ batch' = [batch EXCEPT ![d] = [k \in Keys |-> IF k \in b THEN local[d][k] ELSE None]]
          /\ batchMore' = [batchMore EXCEPT ![d] = b # outbox[d]]
    BY <1>4 DEF CollectBatch
  <2>2. batch' \in [Devices -> [Keys -> Versions]]
    BY <2>1
  <2>3. batchMore' \in [Devices -> BOOLEAN]
    BY <2>1
  <2> QED BY <1>4, <2>2, <2>3 DEF CollectBatch
<1>5. ASSUME NEW d \in Devices, ServePush(d) PROVE TypeOK'
  <2>1. PICK unlocked \in BOOLEAN :
          /\ Write(batch[d], Accepted(batch[d], unlocked))
          /\ rejected' = [rejected EXCEPT ![d] = InBatch(batch[d]) \ Accepted(batch[d], unlocked)]
    BY <1>5 DEF ServePush
  <2>2. Accepted(batch[d], unlocked) \in SUBSET Keys /\ InBatch(batch[d]) \in SUBSET Keys
    BY DEF Accepted, AcceptedDocuments, AcceptedRows, InBatch
  <2>3. rejected' \in [Devices -> SUBSET Keys]
    BY <2>1, <2>2
  <2>4. batch[d] \in [Keys -> Versions]
    OBVIOUS
  <2>5. srv' \in [Keys -> Versions] /\ counter' \in Nat /\ srvSeq' \in [Keys -> 0..counter']
    BY <2>1, <2>2, <2>4, WriteTypes
  <2> QED BY <1>5, <2>3, <2>5 DEF ServePush
<1>6. ASSUME NEW d \in Devices, ServeLate(d) PROVE TypeOK'
  <2>1. PICK unlocked \in BOOLEAN : Write(late[d], Accepted(late[d], unlocked))
    BY <1>6 DEF ServeLate
  <2>2. Accepted(late[d], unlocked) \in SUBSET Keys
    BY DEF Accepted, AcceptedDocuments, AcceptedRows, InBatch
  <2>3. late[d] \in [Keys -> Versions]
    OBVIOUS
  <2>4. srv' \in [Keys -> Versions] /\ counter' \in Nat /\ srvSeq' \in [Keys -> 0..counter']
    BY <2>1, <2>2, <2>3, WriteTypes
  <2> QED BY <1>6, <2>4 DEF ServeLate
<1>7. ASSUME NEW d \in Devices, ServePull(d) PROVE TypeOK'
  <2>1. PICK last \in Ends(d) :
          /\ rows' = [rows EXCEPT ![d] = [k \in Keys |-> IF k \in Pulled(d, last) THEN srv[k] ELSE None]]
          /\ next' = [next EXCEPT ![d] = last]
          /\ more' = [more EXCEPT ![d] = \E k \in New(d) : srvSeq[k] > last]
    BY <1>7 DEF ServePull
  <2>2. last \in Nat
    BY <2>1 DEF Ends, New
  <2>3. rows' \in [Devices -> [Keys -> Versions]]
    BY <2>1
  <2>4. next' \in [Devices -> Nat]
    BY <2>1, <2>2
  <2>5. more' \in [Devices -> BOOLEAN]
    BY <2>1
  <2> QED BY <1>7, <2>3, <2>4, <2>5 DEF ServePull
<1>8. ASSUME NEW d \in Devices, ServeRestore(d) PROVE TypeOK'
  <2>1. rows' \in [Devices -> [Keys -> Versions]]
    BY <1>8 DEF ServeRestore
  <2> QED BY <1>8, <2>1 DEF ServeRestore
<1>9. ASSUME NEW d \in Devices, NEW k \in Keys, ApplyRow(d, k) PROVE TypeOK'
  <2>1. local' \in [Devices -> [Keys -> Versions]]
    BY <1>9 DEF ApplyRow
  <2>2. rows' \in [Devices -> [Keys -> Versions]]
    BY <1>9 DEF ApplyRow
  <2> QED BY <1>9, <2>1, <2>2 DEF ApplyRow
<1>10. ASSUME NEW d \in Devices, SettleOutbox(d) PROVE TypeOK'
  BY <1>10 DEF SettleOutbox
<1>11. ASSUME NEW d \in Devices, BeginRestore(d) PROVE TypeOK'
  BY <1>11 DEF BeginRestore
<1>12. ASSUME NEW d \in Devices, SaveCursor(d) PROVE TypeOK'
  BY <1>12 DEF SaveCursor
<1>13. ASSUME NEW d \in Devices, FinishRun(d) PROVE TypeOK'
  BY <1>13 DEF FinishRun, EndRun
<1>14. ASSUME NEW d \in Devices, Interrupt(d) PROVE TypeOK'
  <2>1. faults' \in 0..MaxFaults
    BY <1>14 DEF Interrupt
  <2>2. late' \in [Devices -> [Keys -> Versions]]
    <3>1. CASE late' = [late EXCEPT ![d] = batch[d]]
      <4>1. batch[d] \in [Keys -> Versions]
        OBVIOUS
      <4> QED BY <3>1, <4>1
    <3>2. CASE UNCHANGED late
      BY <3>2
    <3> QED BY <1>14, <3>1, <3>2 DEF Interrupt
  <2>3. /\ batch' \in [Devices -> [Keys -> Versions]]
        /\ rows' \in [Devices -> [Keys -> Versions]]
        /\ phase' \in [Devices -> {"idle", "collect", "sent", "pushed", "pulled", "answered", "settled", "finish"}]
    BY <1>14 DEF Interrupt, EndRun
  <2>4. /\ cursor' \in [Devices -> Nat]
        /\ restore' \in [Devices -> SUBSET Keys]
        /\ started' \in [Devices -> BOOLEAN]
        /\ batchMore' \in [Devices -> BOOLEAN]
        /\ next' \in [Devices -> Nat]
        /\ more' \in [Devices -> BOOLEAN]
        /\ rejected' \in [Devices -> SUBSET Keys]
    BY <1>14 DEF Interrupt, EndRun
  <2> QED BY <1>14, <2>1, <2>2, <2>3, <2>4 DEF Interrupt
<1>15. CASE UNCHANGED vars
  BY <1>15 DEF vars
<1> QED BY <1>1, <1>2, <1>3, <1>4, <1>5, <1>6, <1>7, <1>8, <1>9, <1>10, <1>11, <1>12, <1>13, <1>14, <1>15
        DEF Next, SyncStep

\* Initially the first rows are synced everywhere.
LEMMA TypeInit == Init => TypeOK
<1> USE VersionFacts, NoRowsType, ConstantsAssumption DEF ConstantsAssumption
<1> SUFFICES ASSUME Init PROVE TypeOK
  OBVIOUS
<1>1. counter \in Nat
  BY DEF Init
<1>2. srv \in [Keys -> Versions]
  BY DEF Init
<1>3. srvSeq \in [Keys -> 0..counter]
  BY DEF Init, Keys
<1> QED BY <1>1, <1>2, <1>3 DEF Init, TypeOK

(***************************************************************************)
(* Every state of a device, of its run and of the server is well-typed.    *)
(***************************************************************************)
THEOREM TypeCorrect == Spec => []TypeOK
BY TypeInit, TypeStep, PTL DEF Spec

----------------------------------------------------------------------------
(* An edit the server does not have stays in the outbox, and what is deleted
   with a document stays deleted. *)

\* Where the server's rows end up after a legal transaction: the rows of a
\* document that is not deleted took what was written, and moved forward.
LEMMA WriteFacts ==
  ASSUME TypeOK, NEW b \in [Keys -> Versions], NEW ok \in SUBSET Keys, Write(b, ok), Legal(b, ok)
  PROVE  /\ Ordinary' \subseteq Ordinary
         /\ \A k \in Ordinary' : srv'[k] = IF k \in ok THEN b[k] ELSE srv[k]
         /\ \A k \in Keys : ~Usable(srv, k) => ~Usable(srv', k)
         /\ \A k \in Keys : srv'[k].del => \/ srv[k].del
                                           \/ k \in Documents
                                           \/ ~Usable(srv', k)
<1> USE DocumentFacts
<1>1. ASSUME NEW k \in Documents PROVE srv'[k] = IF k \in ok THEN b[k] ELSE srv[k]
  <2>1. k \in Keys
    BY ConstantsAssumption DEF ConstantsAssumption
  <2> QED BY <2>1 DEF Write, WithCascade
<1>2. ASSUME NEW k \in Documents, srv[k].del PROVE srv'[k].del
  BY <1>1, <1>2 DEF Legal
<1>3. ASSUME NEW k \in Keys, ~Usable(srv, k) PROVE ~Usable(srv', k)
  BY <1>2, <1>3 DEF Usable
<1>4. ASSUME NEW k \in Keys, Usable(srv', k) PROVE srv'[k] = IF k \in ok THEN b[k] ELSE srv[k]
  <2>1. CASE k \in ok
    BY <2>1 DEF Write, WithCascade
  <2>2. CASE k \notin ok
    <3>1. ~(k \in Cascaded /\ DocOf[k] \in ok /\ b[DocOf[k]].del)
      BY <1>1, <1>4 DEF Usable
    <3> QED BY <2>2, <3>1 DEF Write, WithCascade
  <2> QED BY <2>1, <2>2
<1>5. ASSUME NEW k \in Keys, srv'[k].del, ~srv[k].del, k \notin Documents PROVE ~Usable(srv', k)
  BY <1>4, <1>5 DEF Legal
<1> QED BY <1>3, <1>4, <1>5 DEF Ordinary

\* Legal transactions keep the annotations of deleted documents deleted.
LEMMA WriteCascades ==
  ASSUME TypeOK, CascadeComplete, NEW b \in [Keys -> Versions], NEW ok \in SUBSET Keys, Write(b, ok), Legal(b, ok)
  PROVE  CascadeComplete'
<1> SUFFICES ASSUME NEW k \in Cascaded, srv'[DocOf[k]].del PROVE srv'[k] = None \/ srv'[k].del
  BY DEF CascadeComplete
<1>1. k \in Keys /\ DocOf[k] \in Keys /\ DocOf[k] \in Documents /\ DocOf[k] # 0 /\ DocOf[k] \notin Cascaded
  <2>1. k \in Keys
    BY ConstantsAssumption DEF ConstantsAssumption
  <2>2. DocOf[k] \in Keys /\ DocOf[k] \in Documents /\ DocOf[k] # 0
    BY <2>1, DocumentFacts
  <2> QED BY <2>1, <2>2, DocumentFacts
<1>2. srv'[DocOf[k]] = IF DocOf[k] \in ok THEN b[DocOf[k]] ELSE srv[DocOf[k]]
  BY <1>1 DEF Write, WithCascade
<1>3. k \notin ok
  BY <1>1, <1>2 DEF Legal
<1>4. CASE DocOf[k] \in ok
  BY <1>1, <1>2, <1>3, <1>4, VersionFacts DEF Write, WithCascade
<1>5. CASE DocOf[k] \notin ok
  <2>1. srv'[k] = srv[k]
    BY <1>1, <1>3, <1>5 DEF Write, WithCascade
  <2> QED BY <1>2, <1>5, <2>1 DEF CascadeComplete
<1> QED BY <1>4, <1>5

\* A push writes nothing but what is legal, and leaves behind only rows the
\* server has newer versions of.
LEMMA PushLegal ==
  ASSUME TypeOK, NEW b \in [Keys -> Versions], NEW unlocked \in BOOLEAN, \A k \in Keys : Undeleted(b, k)
  PROVE  /\ Accepted(b, unlocked) \in SUBSET Keys
         /\ Legal(b, Accepted(b, unlocked))
<1> DEFINE docs == AcceptedDocuments(b, unlocked)
           ok == Accepted(b, unlocked)
<1>1. docs \in SUBSET Documents /\ ok \in SUBSET Keys /\ ok \cap Documents = docs
  BY DEF Accepted, AcceptedDocuments, AcceptedRows, InBatch
<1>2. ASSUME NEW k \in ok PROVE ~srv[k].del /\ srv[k].at < b[k].at
  <2>1. k \in Keys /\ ~Stale(k, b[k])
    BY DEF Accepted, AcceptedDocuments, AcceptedRows, InBatch
  <2>2. srv[k] \in Versions /\ b[k] \in Versions
    BY <2>1 DEF TypeOK
  <2>3. srv[k].at \in Nat /\ b[k].at \in Nat
    BY <2>2, VersionFacts
  <2> QED BY <2>1, <2>3 DEF Stale
<1>3. ASSUME NEW k \in ok, DocOf[k] # 0
      PROVE  k \notin Documents /\ ~srv[DocOf[k]].del /\ (DocOf[k] \in ok => ~b[DocOf[k]].del)
  <2>1. k \in Keys /\ DocOf[k] \in Keys /\ DocOf[k] \in Documents /\ k \notin Documents /\ DocOf[k] \notin Cascaded
    BY <1>1, <1>3, DocumentFacts
  <2>2. Usable(WithCascade(b, docs), k)
    BY <1>1, <2>1 DEF Accepted, AcceptedRows
  <2>3. WithCascade(b, docs)[DocOf[k]] = IF DocOf[k] \in docs THEN b[DocOf[k]] ELSE srv[DocOf[k]]
    BY <2>1 DEF WithCascade
  <2>4. ~(IF DocOf[k] \in docs THEN b[DocOf[k]] ELSE srv[DocOf[k]]).del
    BY <1>3, <2>2, <2>3 DEF Usable
  <2>5. DocOf[k] \in docs => ~srv[DocOf[k]].del
    BY <1>1, <1>2
  <2> QED BY <1>1, <2>1, <2>4, <2>5
<1>4. ASSUME NEW k \in ok, k \notin Documents PROVE ~b[k].del
  BY <1>1, <1>3, <1>4 DEF Undeleted, Usable
<1> QED BY <1>1, <1>2, <1>3, <1>4 DEF Legal

LEMMA PushLeaves ==
  ASSUME TypeOK, IndInv, NEW b \in [Keys -> Versions], NEW unlocked \in BOOLEAN,
         Write(b, Accepted(b, unlocked)), \A k \in Keys : Undeleted(b, k),
         NEW k \in Ordinary', k \notin Accepted(b, unlocked)
  PROVE  b[k].at <= srv[k].at
<1> DEFINE docs == AcceptedDocuments(b, unlocked)
           ok == Accepted(b, unlocked)
<1>1. ok \in SUBSET Keys /\ Legal(b, ok) /\ docs \subseteq ok
  BY PushLegal DEF Accepted
<1>2. k \in Ordinary /\ Usable(srv', k) /\ k \in Keys /\ k \notin Documents
  BY <1>1, WriteFacts DEF Ordinary
<1>3. srv[k] \in Versions /\ b[k] \in Versions /\ srv[k].at \in Nat /\ b[k].at \in Nat
  BY <1>2, VersionFacts DEF TypeOK
<1>4. CASE b[k] = None
  BY <1>3, <1>4, VersionFacts
<1>5. CASE b[k] # None
  <2>1. Usable(WithCascade(b, docs), k)
    <3>1. CASE DocOf[k] = 0
      BY <3>1 DEF Usable
    <3>2. CASE DocOf[k] # 0
      <4>1. DocOf[k] \in Keys /\ DocOf[k] \notin Cascaded /\ DocOf[k] \in Documents
        BY <1>2, <3>2, DocumentFacts
      <4>2. ~srv'[DocOf[k]].del
        BY <1>2, <3>2 DEF Usable
      <4>3. DocOf[k] \in ok <=> DocOf[k] \in docs
        BY <4>1 DEF Accepted, AcceptedRows
      <4>4. srv'[DocOf[k]] = WithCascade(b, docs)[DocOf[k]]
        BY <4>1, <4>3 DEF Write, WithCascade
      <4> QED BY <4>2, <4>4 DEF Usable
    <3> QED BY <3>1, <3>2
  <2>2. Stale(k, b[k])
    BY <1>2, <1>5, <2>1 DEF Accepted, AcceptedRows, InBatch
  <2>3. ~srv[k].del
    BY <1>2 DEF IndInv, DeletedWithDocument, Undeleted, Ordinary
  <2> QED BY <2>2, <2>3 DEF Stale
<1> QED BY <1>4, <1>5

\* A step that leaves the rows alone, or empties a run, keeps the invariant.
LEMMA QuietStep ==
  ASSUME TypeOK, IndInv, UNCHANGED <<srv, local, outbox>>,
         \A d \in Devices, k \in Keys :
           /\ rows'[d][k] \in {rows[d][k], None}
           /\ batch'[d][k] \in {batch[d][k], None}
           /\ late'[d][k] \in {late[d][k], batch[d][k], None},
         \A d \in Devices : phase'[d] # "sent" => phase[d] # "sent" \/ batch'[d] = NoRows
  PROVE  IndInv'
<1> USE VersionFacts
<1>1. ASSUME NEW k \in Keys PROVE srv[k].at \in Nat
  BY DEF TypeOK
<1>2. DeletedWithDocument'
  BY DEF IndInv, DeletedWithDocument, Undeleted, Usable
<1>3. CascadeComplete'
  BY DEF IndInv, CascadeComplete
<1>4. Ordinary' = Ordinary /\ Ordinary \subseteq Keys
  BY DEF Ordinary, Usable
<1>5. AnswersOld'
  BY <1>1, <1>4 DEF IndInv, AnswersOld
<1>6. ASSUME NEW d \in Devices, NEW k \in Ordinary, phase'[d] # "sent"
      PROVE  batch'[d][k].at <= srv'[k].at
  <2>1. CASE phase[d] # "sent"
    BY <1>1, <1>4, <2>1 DEF IndInv, PushServed
  <2>2. CASE batch'[d] = NoRows
    BY <1>1, <1>4, <2>2 DEF NoRows
  <2> QED BY <1>6, <2>1, <2>2
<1>7. UnsentQueued'
  BY <1>4 DEF IndInv, UnsentQueued
<1> QED BY <1>2, <1>3, <1>4, <1>5, <1>6, <1>7 DEF IndInv, PushServed

\* A legal transaction only moves the server's rows forward.
LEMMA WriteStep ==
  ASSUME TypeOK, IndInv, UNCHANGED <<local, outbox, batch, rows>>,
         NEW b \in [Keys -> Versions], NEW ok \in SUBSET Keys, Write(b, ok), Legal(b, ok),
         \A d \in Devices, k \in Keys : late'[d][k] \in {late[d][k], None},
         \A d \in Devices : phase'[d] # "sent" => \/ phase[d] # "sent"
                                                  \/ \A k \in Ordinary' : batch[d][k].at <= srv'[k].at
  PROVE  IndInv'
<1> USE VersionFacts
<1>1. /\ Ordinary' \subseteq Ordinary /\ Ordinary \subseteq Keys
      /\ \A k \in Keys : ~Usable(srv, k) => ~Usable(srv', k)
      /\ \A k \in Keys : srv'[k].del => srv[k].del \/ k \in Documents \/ ~Usable(srv', k)
  BY WriteFacts DEF Ordinary
<1>2. ASSUME NEW k \in Ordinary' PROVE srv[k].at \in Nat /\ srv'[k].at \in Nat /\ srv[k].at <= srv'[k].at
  <2>1. k \in Keys /\ srv'[k] = IF k \in ok THEN b[k] ELSE srv[k]
    BY <1>1, WriteFacts
  <2>2. srv[k] \in Versions /\ b[k] \in Versions
    BY <2>1 DEF TypeOK
  <2>3. k \in ok => srv[k].at < b[k].at
    BY DEF Legal
  <2> QED BY <2>1, <2>2, <2>3
<1>3. ASSUME NEW d \in Devices, NEW k \in Keys
      PROVE  rows[d][k].at \in Nat /\ batch[d][k].at \in Nat /\ local[d][k].at \in Nat
  BY DEF TypeOK
<1>4. DeletedWithDocument'
  <2>2. ASSUME NEW d \in Devices, NEW k \in Keys
        PROVE  /\ Undeleted(local[d], k) /\ Undeleted(batch[d], k)
               /\ Undeleted(rows[d], k) /\ Undeleted(late[d], k)
    BY DEF IndInv, DeletedWithDocument
  <2>3. ASSUME NEW d \in Devices, NEW k \in Keys
        PROVE  /\ local'[d][k].del => k \in Documents \/ ~Usable(srv', k)
               /\ batch'[d][k].del => k \in Documents \/ ~Usable(srv', k)
               /\ rows'[d][k].del => k \in Documents \/ ~Usable(srv', k)
               /\ late'[d][k].del => k \in Documents \/ ~Usable(srv', k)
    BY <1>1, <2>2 DEF Undeleted
  <2>4. ASSUME NEW k \in Keys PROVE srv'[k].del => k \in Documents \/ ~Usable(srv', k)
    BY <1>1 DEF IndInv, DeletedWithDocument, Undeleted
  <2> QED BY <2>3, <2>4 DEF DeletedWithDocument, Undeleted, Usable
<1>5. CascadeComplete'
  BY WriteCascades DEF IndInv
<1>6. AnswersOld'
  <2> SUFFICES ASSUME NEW d \in Devices, NEW k \in Ordinary' PROVE rows'[d][k].at <= srv'[k].at
    BY DEF AnswersOld
  <2>1. rows[d][k].at <= srv[k].at
    BY <1>1 DEF IndInv, AnswersOld
  <2> QED BY <1>1, <1>2, <1>3, <2>1
<1>7. PushServed'
  <2> SUFFICES ASSUME NEW d \in Devices, NEW k \in Ordinary', phase'[d] # "sent" PROVE batch'[d][k].at <= srv'[k].at
    BY DEF PushServed
  <2>1. CASE phase[d] # "sent"
    <3>1. batch[d][k].at <= srv[k].at
      BY <1>1, <2>1 DEF IndInv, PushServed
    <3> QED BY <1>1, <1>2, <1>3, <3>1
  <2>2. CASE phase[d] = "sent"
    BY <2>2
  <2> QED BY <2>1, <2>2
<1>8. UnsentQueued'
  <2> SUFFICES ASSUME NEW d \in Devices, NEW k \in Ordinary', local[d][k].at > srv'[k].at PROVE k \in outbox[d]
    BY DEF UnsentQueued
  <2>1. local[d][k].at > srv[k].at
    BY <1>1, <1>2, <1>3
  <2> QED BY <1>1, <2>1 DEF IndInv, UnsentQueued
<1> QED BY <1>4, <1>5, <1>6, <1>7, <1>8 DEF IndInv

\* A push that is served, in time or late: the server's rows move forward.
LEMMA PushStep ==
  ASSUME TypeOK, IndInv, UNCHANGED <<local, outbox, batch, rows>>,
         NEW b \in [Keys -> Versions], \A k \in Keys : Undeleted(b, k),
         NEW unlocked \in BOOLEAN, Write(b, Accepted(b, unlocked)),
         \A d \in Devices, k \in Keys : late'[d][k] \in {late[d][k], None},
         \A d \in Devices : phase'[d] # "sent" => phase[d] # "sent" \/ batch[d] = b
  PROVE  IndInv'
<1> DEFINE ok == Accepted(b, unlocked)
<1>1. ok \in SUBSET Keys /\ Legal(b, ok)
  BY PushLegal
<1>2. ASSUME NEW k \in Ordinary' PROVE b[k].at <= srv'[k].at
  <2>1. k \in Keys /\ srv'[k] = IF k \in ok THEN b[k] ELSE srv[k]
    BY <1>1, WriteFacts DEF Ordinary
  <2>2. b[k].at \in Nat
    BY <2>1, VersionFacts
  <2>3. CASE k \in ok
    BY <2>1, <2>2, <2>3
  <2>4. CASE k \notin ok
    BY <2>1, <2>4, PushLeaves
  <2> QED BY <2>3, <2>4
<1> HIDE DEF ok
<1>3. \A d \in Devices : phase'[d] # "sent" => \/ phase[d] # "sent"
                                               \/ \A k \in Ordinary' : batch[d][k].at <= srv'[k].at
  BY <1>2
<1>4. Write(b, ok)
  BY DEF ok
<1> QED BY <1>1, <1>3, <1>4, WriteStep

\* Every step preserves the invariant.
LEMMA InvStep == TypeOK /\ IndInv /\ [Next]_vars => IndInv'
<1> SUFFICES ASSUME TypeOK, IndInv, [Next]_vars PROVE IndInv'
  OBVIOUS
<1> USE VersionFacts DEF serverVars, kvVars, runVars, batchVars, answerVars
<1>a. /\ DeletedWithDocument /\ CascadeComplete /\ AnswersOld /\ PushServed /\ UnsentQueued
  BY DEF IndInv
<1>b. \A k \in Ordinary : k \in Keys /\ k \notin Documents /\ srv[k].at \in Nat
  BY DEF Ordinary, TypeOK
<1>1. ASSUME NEW d \in Devices, NEW k \in Keys, SaveEntity(d, k) PROVE IndInv'
  <2>1. PICK v \in Later(d, k, local[d][k]) : local' = [local EXCEPT ![d][k] = v]
    BY <1>1 DEF SaveEntity
  <2>2. k \notin Documents => ~v.del
    <3>1. local[d][k] \in Versions
      BY DEF TypeOK
    <3> QED BY <3>1, LaterFacts DEF Writers
  <2>3. \A e \in Devices, j \in Keys : local'[e][j] = IF e = d /\ j = k THEN v ELSE local[e][j]
    BY <2>1 DEF TypeOK
  <2>4. UNCHANGED <<srv, batch, rows, late, phase>> /\ Ordinary' = Ordinary
    BY <1>1 DEF SaveEntity, Ordinary, Usable
  <2>5. \A e \in Devices, j \in Keys : ((e = d /\ j = k) \/ j \in outbox[e]) => j \in outbox'[e]
    BY <1>1 DEF SaveEntity, TypeOK
  <2>6. DeletedWithDocument'
    BY <1>a, <2>2, <2>3, <2>4 DEF DeletedWithDocument, Undeleted, Usable
  <2>7. CascadeComplete' /\ AnswersOld' /\ PushServed'
    BY <1>a, <2>4 DEF CascadeComplete, AnswersOld, PushServed
  <2>8. UnsentQueued'
    BY <1>a, <1>b, <2>3, <2>4, <2>5 DEF UnsentQueued
  <2> QED BY <2>6, <2>7, <2>8 DEF IndInv
<1>2. ASSUME NEW k \in Keys, ServerEdit(k) PROVE IndInv'
  <2>1. PICK v \in Later(Server, k, srv[k]) : Write([NoRows EXCEPT ![k] = v], {k})
    BY <1>2 DEF ServerEdit
  <2>2. v \in Versions /\ v.at > srv[k].at /\ (k \notin Documents => ~v.del)
    <3>1. srv[k] \in Versions
      BY DEF TypeOK
    <3> QED BY <3>1, LaterFacts DEF Writers
  <2> DEFINE b == [NoRows EXCEPT ![k] = v]
  <2>3. b \in [Keys -> Versions] /\ {k} \in SUBSET Keys /\ b[k] = v
    BY <2>2, NoRowsType
  <2>4. Write(b, {k})
    BY <2>1
  <2>5. DocOf[k] # 0 => ~srv[DocOf[k]].del /\ DocOf[k] # k
    BY <1>2, DocumentFacts DEF ServerEdit, Usable
  <2> HIDE DEF b
  <2>6. Legal(b, {k})
    <3>1. ~srv[k].del /\ srv[k].at < v.at
      <4>1. srv[k].at \in Nat /\ v.at \in Nat
        BY <2>2 DEF TypeOK
      <4> QED BY <1>2, <2>2, <4>1 DEF ServerEdit
    <3> QED BY <2>2, <2>3, <2>5, <3>1 DEF Legal
  <2>7. UNCHANGED <<local, outbox, batch, rows, late, phase>>
    BY <1>2 DEF ServerEdit
  <2> QED BY <2>3, <2>4, <2>6, <2>7, WriteStep
<1>3. ASSUME NEW d \in Devices, StartRun(d) PROVE IndInv'
  <2>1. UNCHANGED <<srv, local, outbox, rows, batch, late>>
    BY <1>3 DEF StartRun
  <2>2. \A e \in Devices : phase'[e] # "sent" => phase[e] # "sent"
    BY <1>3 DEF StartRun, TypeOK
  <2> QED BY <2>1, <2>2, QuietStep
<1>4. ASSUME NEW d \in Devices, CollectBatch(d) PROVE IndInv'
  <2>1. PICK x \in Batches(outbox[d]) :
          batch' = [batch EXCEPT ![d] = [k \in Keys |-> IF k \in x THEN local[d][k] ELSE None]]
    BY <1>4 DEF CollectBatch
  <2>2. \A j \in Keys : batch'[d][j] \in {local[d][j], None}
    BY <2>1 DEF TypeOK
  <2>3. \A e \in Devices : e # d => batch'[e] = batch[e]
    BY <2>1 DEF TypeOK
  <2>4. UNCHANGED <<srv, local, outbox, rows, late>> /\ Ordinary' = Ordinary
    BY <1>4 DEF CollectBatch, Ordinary, Usable
  <2>5. phase'[d] = "sent" /\ \A e \in Devices : e # d => phase'[e] = phase[e]
    BY <1>4 DEF CollectBatch, TypeOK
  <2>6. DeletedWithDocument'
    BY <1>a, <2>2, <2>3, <2>4 DEF DeletedWithDocument, Undeleted, Usable
  <2>7. CascadeComplete' /\ AnswersOld' /\ UnsentQueued'
    BY <1>a, <2>4 DEF CascadeComplete, AnswersOld, UnsentQueued
  <2>8. PushServed'
    BY <1>a, <2>3, <2>4, <2>5 DEF PushServed
  <2> QED BY <2>6, <2>7, <2>8 DEF IndInv
<1>5. ASSUME NEW d \in Devices, ServePush(d) PROVE IndInv'
  <2>1. PICK unlocked \in BOOLEAN : Write(batch[d], Accepted(batch[d], unlocked))
    BY <1>5 DEF ServePush
  <2>2. batch[d] \in [Keys -> Versions] /\ \A k \in Keys : Undeleted(batch[d], k)
    BY <1>a DEF TypeOK, DeletedWithDocument
  <2>3. UNCHANGED <<local, outbox, batch, rows, late>>
    BY <1>5 DEF ServePush
  <2>4. \A e \in Devices : e # d => phase'[e] = phase[e]
    BY <1>5 DEF ServePush, TypeOK
  <2> QED BY <2>1, <2>2, <2>3, <2>4, PushStep
<1>6. ASSUME NEW d \in Devices, ServeLate(d) PROVE IndInv'
  <2>1. PICK unlocked \in BOOLEAN : Write(late[d], Accepted(late[d], unlocked))
    BY <1>6 DEF ServeLate
  <2>2. late[d] \in [Keys -> Versions] /\ \A k \in Keys : Undeleted(late[d], k)
    BY <1>a DEF TypeOK, DeletedWithDocument
  <2>3. UNCHANGED <<local, outbox, batch, rows, phase>>
    BY <1>6 DEF ServeLate
  <2>4. \A e \in Devices, k \in Keys : late'[e][k] \in {late[e][k], None}
    BY <1>6 DEF ServeLate, TypeOK, NoRows
  <2> QED BY <2>1, <2>2, <2>3, <2>4, PushStep
<1>7. ASSUME NEW d \in Devices, ServePull(d) PROVE IndInv'
  <2>1. PICK last \in Ends(d) :
          rows' = [rows EXCEPT ![d] = [k \in Keys |-> IF k \in Pulled(d, last) THEN srv[k] ELSE None]]
    BY <1>7 DEF ServePull
  <2>2. \A e \in Devices, j \in Keys : rows'[e][j] \in {rows[e][j], srv[j], None}
    BY <2>1 DEF TypeOK
  <2>3. UNCHANGED <<srv, local, outbox, batch, late>> /\ Ordinary' = Ordinary
    BY <1>7 DEF ServePull, Ordinary, Usable
  <2>4. \A e \in Devices : phase'[e] # "sent" => phase[e] # "sent"
    BY <1>7 DEF ServePull, TypeOK
  <2>5. DeletedWithDocument'
    BY <1>a, <2>2, <2>3 DEF DeletedWithDocument, Undeleted, Usable
  <2>6. CascadeComplete' /\ UnsentQueued' /\ PushServed'
    BY <1>a, <2>3, <2>4 DEF CascadeComplete, PushServed, UnsentQueued
  <2>7. AnswersOld'
    BY <1>a, <1>b, <2>2, <2>3 DEF AnswersOld
  <2> QED BY <2>5, <2>6, <2>7 DEF IndInv
<1>8. ASSUME NEW d \in Devices, ServeRestore(d) PROVE IndInv'
  <2>2. \A e \in Devices, j \in Keys : rows'[e][j] \in {rows[e][j], srv[j], None}
    BY <1>8 DEF ServeRestore, TypeOK
  <2>3. UNCHANGED <<srv, local, outbox, batch, late>> /\ Ordinary' = Ordinary
    BY <1>8 DEF ServeRestore, Ordinary, Usable
  <2>4. \A e \in Devices : phase'[e] # "sent" => phase[e] # "sent"
    BY <1>8 DEF ServeRestore, TypeOK
  <2>5. DeletedWithDocument'
    BY <1>a, <2>2, <2>3 DEF DeletedWithDocument, Undeleted, Usable
  <2>6. CascadeComplete' /\ UnsentQueued' /\ PushServed'
    BY <1>a, <2>3, <2>4 DEF CascadeComplete, PushServed, UnsentQueued
  <2>7. AnswersOld'
    BY <1>a, <1>b, <2>2, <2>3 DEF AnswersOld
  <2> QED BY <2>5, <2>6, <2>7 DEF IndInv
<1>9. ASSUME NEW d \in Devices, NEW k \in Keys, ApplyRow(d, k) PROVE IndInv'
  <2>1. \A e \in Devices, j \in Keys : local'[e][j] \in {local[e][j], rows[e][j]}
    BY <1>9 DEF ApplyRow, TypeOK
  <2>2. \A e \in Devices, j \in Keys : rows'[e][j] \in {rows[e][j], None}
    BY <1>9 DEF ApplyRow, TypeOK
  <2>3. UNCHANGED <<srv, outbox, batch, late, phase>> /\ Ordinary' = Ordinary
    BY <1>9 DEF ApplyRow, Ordinary, Usable
  <2>4. DeletedWithDocument'
    BY <1>a, <2>1, <2>2, <2>3 DEF DeletedWithDocument, Undeleted, Usable
  <2>5. CascadeComplete' /\ PushServed'
    BY <1>a, <2>3 DEF CascadeComplete, PushServed
  <2>6. AnswersOld'
    BY <1>a, <1>b, <2>2, <2>3 DEF AnswersOld
  <2>7. UnsentQueued'
    <3> SUFFICES ASSUME NEW e \in Devices, NEW j \in Ordinary, local'[e][j].at > srv[j].at PROVE j \in outbox[e]
      BY <2>3 DEF UnsentQueued
    <3>1. rows[e][j].at <= srv[j].at /\ rows[e][j].at \in Nat /\ local[e][j].at \in Nat
      BY <1>a, <1>b DEF AnswersOld, TypeOK
    <3> QED BY <1>a, <1>b, <2>1, <3>1 DEF UnsentQueued
  <2> QED BY <2>4, <2>5, <2>6, <2>7 DEF IndInv
<1>10. ASSUME NEW d \in Devices, SettleOutbox(d) PROVE IndInv'
  <2>1. UNCHANGED <<srv, local, batch, rows, late>> /\ Ordinary' = Ordinary
    BY <1>10 DEF SettleOutbox, Ordinary, Usable
  <2>2. \A e \in Devices : phase'[e] # "sent" => phase[e] # "sent"
    BY <1>10 DEF SettleOutbox, TypeOK
  <2>3. DeletedWithDocument' /\ CascadeComplete' /\ AnswersOld' /\ PushServed'
    BY <1>a, <2>1, <2>2 DEF DeletedWithDocument, Undeleted, Usable, CascadeComplete, AnswersOld, PushServed
  <2>4. UnsentQueued'
    <3> SUFFICES ASSUME NEW e \in Devices, NEW j \in Ordinary, local[e][j].at > srv[j].at PROVE j \in outbox'[e]
      BY <2>1 DEF UnsentQueued
    <3>1. j \in outbox[e] /\ j \in Keys
      BY <1>a, <1>b DEF UnsentQueued
    <3>2. CASE e # d
      BY <1>10, <3>1, <3>2 DEF SettleOutbox, TypeOK
    <3>3. CASE e = d
      <4>1. batch[d][j].at <= srv[j].at /\ batch[d][j].at \in Nat /\ local[d][j].at \in Nat
        BY <1>10, <1>a, <3>1 DEF SettleOutbox, PushServed, TypeOK
      <4>2. j \in InBatch(batch[d]) => j \in Changed(d)
        BY <1>b, <3>1, <3>3, <4>1 DEF Changed
      <4> QED BY <1>10, <3>1, <3>3, <4>2 DEF SettleOutbox, TypeOK
    <3> QED BY <3>2, <3>3
  <2> QED BY <2>3, <2>4 DEF IndInv
<1>11. ASSUME NEW d \in Devices, BeginRestore(d) \/ SaveCursor(d) PROVE IndInv'
  <2>1. UNCHANGED <<srv, local, outbox, rows, batch, late>>
    BY <1>11 DEF BeginRestore, SaveCursor
  <2>2. \A e \in Devices : phase'[e] # "sent" => phase[e] # "sent"
    BY <1>11 DEF BeginRestore, SaveCursor, TypeOK
  <2> QED BY <2>1, <2>2, QuietStep
<1>12. ASSUME NEW d \in Devices, FinishRun(d) \/ Interrupt(d) PROVE IndInv'
  <2>1. UNCHANGED <<srv, local, outbox>> /\ EndRun(d)
    BY <1>12 DEF FinishRun, Interrupt
  <2>2. \A e \in Devices, j \in Keys : rows'[e][j] \in {rows[e][j], None} /\ batch'[e][j] \in {batch[e][j], None}
    BY <2>1 DEF EndRun, NoRows, TypeOK
  <2>3. \A e \in Devices, j \in Keys : late'[e][j] \in {late[e][j], batch[e][j], None}
    BY <1>12 DEF FinishRun, Interrupt, TypeOK
  <2>4. \A e \in Devices : phase'[e] # "sent" => phase[e] # "sent" \/ batch'[e] = NoRows
    BY <2>1 DEF EndRun, TypeOK
  <2> QED BY <2>1, <2>2, <2>3, <2>4, QuietStep
<1>13. CASE UNCHANGED vars
  <2>1. UNCHANGED <<srv, local, outbox, rows, batch, late, phase>>
    BY <1>13 DEF vars
  <2> QED BY <2>1, QuietStep
<1> QED BY <1>1, <1>2, <1>3, <1>4, <1>5, <1>6, <1>7, <1>8, <1>9, <1>10, <1>11, <1>12, <1>13
        DEF Next, SyncStep

\* Everything is synced and nothing is deleted at first.
LEMMA InvInit == Init => IndInv
<1> SUFFICES ASSUME Init PROVE IndInv
  OBVIOUS
<1> USE VersionFacts
<1>1. \A k \in Keys : srv[k] \in {First, None} /\ ~srv[k].del /\ srv[k].at \in Nat
  BY DEF Init
<1>2. \A d \in Devices, k \in Keys : /\ local[d][k] = srv[k]
                                     /\ batch[d][k] = None /\ rows[d][k] = None /\ late[d][k] = None
  BY DEF Init, NoRows
<1>3. \A k \in Ordinary : k \in Keys
  BY DEF Ordinary
<1>4. DeletedWithDocument
  BY <1>1, <1>2 DEF DeletedWithDocument, Undeleted
<1>5. CascadeComplete
  <2> SUFFICES ASSUME NEW k \in Cascaded PROVE ~srv[DocOf[k]].del
    BY DEF CascadeComplete
  <2>1. k \in Keys
    BY ConstantsAssumption DEF ConstantsAssumption
  <2> QED BY <1>1, <2>1, DocumentFacts
<1>6. AnswersOld /\ PushServed /\ UnsentQueued
  BY <1>1, <1>2, <1>3 DEF AnswersOld, PushServed, UnsentQueued
<1> QED BY <1>4, <1>5, <1>6 DEF IndInv

(***************************************************************************)
(* The inductive invariant holds in every state.                           *)
(***************************************************************************)
THEOREM InvCorrect == Spec => []IndInv
<1>1. TypeOK /\ IndInv /\ [Next]_vars => (TypeOK /\ IndInv)'
  BY TypeStep, InvStep
<1> QED BY <1>1, TypeInit, InvInit, PTL DEF Spec

(***************************************************************************)
(* An edit the server does not have stays in the outbox of its device,     *)
(* until its document is deleted (settleOutbox).                           *)
(***************************************************************************)
THEOREM UnsentQueuedCorrect == Spec => []UnsentQueued
<1>1. IndInv => UnsentQueued
  BY DEF IndInv
<1> QED BY <1>1, InvCorrect, PTL

(***************************************************************************)
(* Annotations and exercises of a deleted document stay deleted on the     *)
(* server (cascadeDocumentDeletion, applyChild).                           *)
(***************************************************************************)
THEOREM CascadeCompleteCorrect == Spec => []CascadeComplete
<1>1. IndInv => CascadeComplete
  BY DEF IndInv
<1> QED BY <1>1, InvCorrect, PTL

(***************************************************************************)
(* A row of a device goes back to an older version only while it is being  *)
(* restored after a rejection (applyRemoteInternal).                       *)
(***************************************************************************)
THEOREM NoRegressCorrect == Spec => NoRegress
<1> DEFINE Forward == \A d \in Devices, k \in Keys : local'[d][k].at < local[d][k].at => k \in restore[d]
<1>1. TypeOK /\ [Next]_vars => [Forward]_vars
  <2> SUFFICES ASSUME TypeOK, Next PROVE Forward
    OBVIOUS
  <2> SUFFICES ASSUME NEW d \in Devices, NEW k \in Keys, local'[d][k].at < local[d][k].at PROVE k \in restore[d]
    OBVIOUS
  <2>1. local[d][k] \in Versions /\ local[d][k].at \in Nat /\ rows[d][k].at \in Nat
    BY VersionFacts DEF TypeOK
  <2>2. ASSUME NEW e \in Devices, NEW j \in Keys, SaveEntity(e, j) PROVE FALSE
    <3>1. PICK v \in Later(e, j, local[e][j]) : local' = [local EXCEPT ![e][j] = v]
      BY <2>2 DEF SaveEntity
    <3>2. local[e][j] \in Versions /\ local[e][j].at \in Nat
      BY VersionFacts DEF TypeOK
    <3>3. v \in Versions /\ v.at > local[e][j].at /\ v.at \in Nat
      BY <3>2, LaterFacts, VersionFacts DEF Writers
    <3>4. local'[d][k] = IF d = e /\ k = j THEN v ELSE local[d][k]
      BY <3>1 DEF TypeOK
    <3> QED BY <2>1, <3>2, <3>3, <3>4
  <2>3. ASSUME NEW e \in Devices, NEW j \in Keys, ApplyRow(e, j) PROVE k \in restore[d]
    <3>1. local'[d][k] = IF d = e /\ k = j /\ Replaces(e, j) THEN rows[d][k] ELSE local[d][k]
      BY <2>3 DEF ApplyRow, TypeOK
    <3> QED BY <2>1, <3>1 DEF Replaces
  <2>4. CASE UNCHANGED local
    BY <2>1, <2>4
  <2> QED BY <2>2, <2>3, <2>4
          DEF Next, SyncStep, ServerEdit, StartRun, CollectBatch, ServePush, ServeLate, ServePull, ServeRestore,
              SettleOutbox, BeginRestore, SaveCursor, FinishRun, Interrupt
<1> QED BY <1>1, TypeCorrect, PTL DEF Spec, NoRegress

----------------------------------------------------------------------------
(* A device at rest shows the server's rows. *)

\* A row that can still be written: each writer has its own stamps.
Stamped(v) == v \in {None, First} \/ (v.by \in Writers /\ v.at \in Stamps[v.by] /\ ~v.del)
StampInv ==
  \A k \in Ordinary :
    /\ Stamped(srv[k])
    /\ \A d \in Devices : Stamped(local[d][k]) /\ Stamped(batch[d][k]) /\ Stamped(rows[d][k]) /\ Stamped(late[d][k])

\* The cursor of a run is the one that is saved, and no cursor is past the counter.
Answering(d) == phase[d] \in {"pulled", "answered", "settled"}
CursorOf(d) ==
  /\ kvCursor[d] <= counter
  /\ phase[d] # "idle" => cursor[d] = kvCursor[d]
  /\ Answering(d) => kvCursor[d] <= next[d] /\ next[d] <= counter
  /\ ~Answering(d) \/ phase[d] = "settled" => rows[d] = NoRows
CursorInv == \A d \in Devices : CursorOf(d)

\* What a device does not have yet is above its cursor, and above the next cursor
\* unless it is in the answer; a row of an answer is the server's, or above it too.
Behind(d, k) == local[d][k].at < srv[k].at
PullOf(d, k) ==
  /\ Behind(d, k) => srvSeq[k] > kvCursor[d]
  /\ Behind(d, k) /\ Answering(d) => srvSeq[k] > next[d] \/ rows[d][k] = srv[k]
  /\ rows[d][k] # None => srvSeq[k] > next[d] \/ rows[d][k] = srv[k]
Live == {k \in Keys : Usable(srv, k)}
PullInv == \A d \in Devices, k \in Live : PullOf(d, k)

RestInv == StampInv /\ CursorInv /\ PullInv

\* A row written gets a number above all others.
LEMMA WriteNumbers ==
  ASSUME TypeOK, NEW b \in [Keys -> Versions], NEW ok \in SUBSET Keys, Write(b, ok)
  PROVE  /\ counter' \in Nat /\ counter <= counter'
         /\ \A k \in Keys : srvSeq'[k] = srvSeq[k] \/ srvSeq'[k] > counter
         /\ \A k \in Keys : srv'[k] # srv[k] => srvSeq'[k] > counter
<1> DEFINE written == {k \in Keys : WithCascade(b, ok)[k] # srv[k]}
           upTo(k) == Cardinality({j \in written : j <= k})
<1>1. /\ srv' = WithCascade(b, ok) /\ counter' = counter + Cardinality(written) /\ counter \in Nat
      /\ \A k \in Keys : srvSeq'[k] = IF k \in written THEN counter + upTo(k) ELSE srvSeq[k]
  BY DEF Write, CounterAfter, TypeOK
<1>2. written \in SUBSET Keys /\ IsFiniteSet(Keys)
  BY FS_Interval, ConstantsAssumption DEF ConstantsAssumption, Keys
<1>3. \A k \in Keys : srv'[k] # srv[k] => k \in written
  BY <1>1
<1> HIDE DEF written
<1>4. Cardinality(written) \in Nat
  BY <1>2, FS_Subset, FS_CardinalityType
<1>5. ASSUME NEW k \in written PROVE upTo(k) \in Nat \ {0}
  <2>1. IsFiniteSet({j \in written : j <= k})
    BY <1>2, FS_Subset
  <2>2. k \in {j \in written : j <= k}
    BY <1>2 DEF Keys
  <2> QED
    BY <2>1, <2>2, FS_CardinalityType, FS_EmptySet
<1> HIDE DEF upTo
<1>6. \A k \in written : srvSeq'[k] > counter
  BY <1>1, <1>2, <1>5
<1> QED
  BY <1>1, <1>3, <1>4, <1>6, <1>2

\* The server's rows change: by a route, by a push or by a late request.
LEMMA RestWrite ==
  ASSUME TypeOK, RestInv, NEW b \in [Keys -> Versions], NEW ok \in SUBSET Keys, Write(b, ok), Legal(b, ok),
         \A k \in Ordinary : Stamped(b[k]),
         UNCHANGED <<local, batch, rows, kvCursor, cursor, next>>,
         \A d \in Devices, k \in Keys : late'[d][k] \in {late[d][k], None},
         \A d \in Devices : phase'[d] = phase[d] \/ (phase[d] = "sent" /\ phase'[d] = "pushed")
  PROVE  RestInv'
<1>1. /\ Ordinary' \subseteq Ordinary
      /\ \A k \in Ordinary' : srv'[k] = IF k \in ok THEN b[k] ELSE srv[k]
  BY WriteFacts
<1>2. /\ counter' \in Nat /\ counter <= counter'
      /\ \A k \in Keys : srvSeq'[k] = srvSeq[k] \/ srvSeq'[k] > counter
      /\ \A k \in Keys : srv'[k] # srv[k] => srvSeq'[k] > counter
  BY WriteNumbers
<1>3. \A k \in Ordinary : k \in Keys
  BY DEF Ordinary
<1>4. \A d \in Devices : (phase'[d] = "idle" <=> phase[d] = "idle") /\ (phase'[d] = "settled" <=> phase[d] = "settled")
                         /\ (Answering(d)' <=> Answering(d))
  BY DEF Answering
<1>5. StampInv'
  <2>1. Stamped(None)
    BY DEF Stamped
  <2> QED
    BY <1>1, <1>3, <2>1 DEF StampInv, RestInv, Stamped
<1>6. CursorInv'
  <2> SUFFICES ASSUME NEW d \in Devices PROVE CursorOf(d)'
    BY DEF CursorInv
  <2>1. CursorOf(d) /\ kvCursor[d] \in Nat /\ next[d] \in Nat /\ counter \in Nat
    BY DEF RestInv, CursorInv, TypeOK
  <2> QED
    BY <1>2, <1>4, <2>1 DEF CursorOf
<1>7. PullInv'
  <2> SUFFICES ASSUME NEW d \in Devices, NEW k \in Live' PROVE PullOf(d, k)'
    BY DEF PullInv
  <2>1. k \in Keys /\ k \in Live
    BY WriteFacts DEF Live, Usable
  <2>2. CursorOf(d) /\ PullOf(d, k)
    BY <2>1 DEF RestInv, CursorInv, PullInv
  <2>3. kvCursor[d] \in Nat /\ next[d] \in Nat /\ counter \in Nat /\ srvSeq[k] \in Nat /\ srvSeq'[k] \in Nat
    <3>1. srvSeq' \in [Keys -> 0 .. counter']
      BY WriteTypes
    <3> QED
      BY <1>2, <2>1, <3>1 DEF TypeOK
  <2>4. CASE srvSeq'[k] > counter
    <3>1. srvSeq'[k] > kvCursor[d]
      BY <2>2, <2>3, <2>4 DEF CursorOf
    <3>2. Answering(d) => srvSeq'[k] > next[d]
      BY <2>2, <2>3, <2>4 DEF CursorOf
    <3>3. rows[d][k] # None => Answering(d)
      BY <2>1, <2>2 DEF CursorOf, NoRows
    <3> QED
      BY <1>4, <3>1, <3>2, <3>3 DEF PullOf
  <2>5. CASE srvSeq'[k] = srvSeq[k] /\ srv'[k] = srv[k]
    BY <1>4, <2>2, <2>5 DEF PullOf, Behind
  <2> QED
    BY <1>2, <2>1, <2>4, <2>5
<1> QED
  BY <1>5, <1>6, <1>7 DEF RestInv

\* The server's rows stay, and so do the rows of the other devices.
LEMMA RestStep ==
  ASSUME TypeOK, TypeOK', RestInv, UNCHANGED serverVars, NEW d \in Devices,
         \A e \in Devices \ {d} : /\ local'[e] = local[e] /\ rows'[e] = rows[e] /\ kvCursor'[e] = kvCursor[e]
                                  /\ cursor'[e] = cursor[e] /\ next'[e] = next[e] /\ phase'[e] = phase[e]
                                  /\ batch'[e] = batch[e] /\ late'[e] = late[e],
         \A k \in Ordinary : Stamped(local'[d][k]) /\ Stamped(batch'[d][k]) /\ Stamped(rows'[d][k]) /\ Stamped(late'[d][k]),
         CursorOf(d)', \A k \in Live : PullOf(d, k)'
  PROVE  RestInv'
<1>1. Ordinary' = Ordinary /\ Live' = Live /\ srv' = srv /\ srvSeq' = srvSeq /\ counter' = counter
  BY DEF Ordinary, Live, Usable, serverVars
<1>2. StampInv'
  <2>1. \A k \in Ordinary : Stamped(srv'[k])
    BY <1>1 DEF RestInv, StampInv, Stamped
  <2>2. \A k \in Ordinary, e \in Devices : Stamped(local'[e][k]) /\ Stamped(batch'[e][k]) /\ Stamped(rows'[e][k]) /\ Stamped(late'[e][k])
    BY DEF RestInv, StampInv, Stamped
  <2> QED
    BY <1>1, <2>1, <2>2 DEF StampInv, Stamped
<1>3. CursorInv'
  <2> SUFFICES ASSUME NEW e \in Devices, e # d PROVE CursorOf(e)'
    BY DEF CursorInv
  <2> QED
    BY <1>1 DEF RestInv, CursorInv, CursorOf, Answering
<1>4. PullInv'
  <2> SUFFICES ASSUME NEW e \in Devices, e # d, NEW k \in Live PROVE PullOf(e, k)'
    BY <1>1 DEF PullInv
  <2> QED
    BY <1>1 DEF RestInv, PullInv, PullOf, Behind, Answering
<1> QED
  BY <1>2, <1>3, <1>4 DEF RestInv

LEMMA RestNext == TypeOK /\ TypeOK' /\ IndInv /\ RestInv /\ [Next]_vars => RestInv'
<1> SUFFICES ASSUME TypeOK, TypeOK', IndInv, RestInv, [Next]_vars PROVE RestInv'
  OBVIOUS
<1> USE VersionFacts DEF serverVars, kvVars, runVars, batchVars, answerVars
<1>a. /\ \A k \in Ordinary : k \in Keys /\ k \notin Documents /\ Usable(srv, k)
      /\ \A k \in Live : k \in Keys /\ Usable(srv, k)
      /\ Stamped(None)
  BY DEF Ordinary, Live, Stamped
<1>b. ASSUME NEW d \in Devices
      PROVE  /\ CursorOf(d) /\ kvCursor[d] \in Nat /\ cursor[d] \in Nat /\ next[d] \in Nat /\ counter \in Nat
             /\ \A k \in Keys : local[d][k] \in Versions /\ srv[k] \in Versions /\ local[d][k].at \in Nat /\ srv[k].at \in Nat /\ srvSeq[k] \in 0 .. counter
             /\ \A k \in Live : PullOf(d, k)
             /\ \A k \in Ordinary : /\ Stamped(srv[k])
                                    /\ Stamped(local[d][k]) /\ Stamped(batch[d][k]) /\ Stamped(rows[d][k]) /\ Stamped(late[d][k])
  BY DEF RestInv, CursorInv, PullInv, StampInv, TypeOK, Ordinary
<1>c. DeletedWithDocument
  BY DEF IndInv
<1>1. ASSUME NEW d \in Devices, NEW k \in Keys, SaveEntity(d, k) PROVE RestInv'
  <2>1. PICK v \in Later(d, k, local[d][k]) : local' = [local EXCEPT ![d][k] = v]
    BY <1>1 DEF SaveEntity
  <2>2. v \in Versions /\ v.at > local[d][k].at /\ v.at \in Nat /\ (k \in Ordinary => Stamped(v))
    <3>1. v \in Versions /\ v.at > local[d][k].at /\ (k \notin Documents => ~v.del)
      BY <1>b, LaterFacts DEF Writers
    <3>2. v.by = d /\ v.at \in Stamps[d]
      BY DEF Later
    <3> QED
      BY <1>a, <3>1, <3>2 DEF Stamped, Writers
  <2>3. \A j \in Keys : local'[d][j] = IF j = k THEN v ELSE local[d][j]
    BY <2>1 DEF TypeOK
  <2>4. \A e \in Devices \ {d} : local'[e] = local[e]
    BY <2>1 DEF TypeOK
  <2>5. UNCHANGED <<serverVars, rows, kvCursor, cursor, next, phase, batch, late>>
    BY <1>1 DEF SaveEntity
  <2>6. \A j \in Ordinary : Stamped(local'[d][j]) /\ Stamped(batch'[d][j]) /\ Stamped(rows'[d][j]) /\ Stamped(late'[d][j])
    BY <1>a, <1>b, <2>2, <2>3, <2>5
  <2>7. CursorOf(d)'
    BY <1>b, <2>5 DEF CursorOf, Answering
  <2>8. ASSUME NEW j \in Live PROVE PullOf(d, j)'
    <3>1. Behind(d, j)' => Behind(d, j)
      BY <1>a, <1>b, <2>2, <2>3, <2>5 DEF Behind
    <3> QED
      BY <1>b, <2>5, <3>1 DEF PullOf, Answering
  <2> QED
    BY <2>4, <2>5, <2>6, <2>7, <2>8, RestStep
<1>2. ASSUME NEW k \in Keys, ServerEdit(k) PROVE RestInv'
  <2>1. PICK v \in Later(Server, k, srv[k]) : Write([NoRows EXCEPT ![k] = v], {k})
    BY <1>2 DEF ServerEdit
  <2>2. v \in Versions /\ v.at > srv[k].at /\ v.by = Server /\ v.at \in Stamps[Server] /\ (k \notin Documents => ~v.del)
    <3>1. srv[k] \in Versions
      BY DEF TypeOK
    <3> QED BY <3>1, LaterFacts DEF Writers, Later
  <2> DEFINE b == [NoRows EXCEPT ![k] = v]
  <2>3. b \in [Keys -> Versions] /\ {k} \in SUBSET Keys /\ b[k] = v /\ \A j \in Keys \ {k} : b[j] = None
    BY <2>2, NoRowsType DEF NoRows
  <2>4. Write(b, {k})
    BY <2>1
  <2>5. DocOf[k] # 0 => ~srv[DocOf[k]].del /\ DocOf[k] # k
    BY <1>2, DocumentFacts DEF ServerEdit, Usable
  <2> HIDE DEF b
  <2>6. Legal(b, {k})
    <3>1. ~srv[k].del /\ srv[k].at < v.at
      <4>1. srv[k].at \in Nat /\ v.at \in Nat
        BY <2>2 DEF TypeOK
      <4> QED BY <1>2, <2>2, <4>1 DEF ServerEdit
    <3> QED BY <2>2, <2>3, <2>5, <3>1 DEF Legal
  <2>7. \A j \in Ordinary : Stamped(b[j])
    BY <1>a, <2>2, <2>3 DEF Stamped, Writers
  <2>8. UNCHANGED <<local, batch, rows, late, kvCursor, cursor, next, phase>>
    BY <1>2 DEF ServerEdit
  <2> QED BY <2>3, <2>4, <2>6, <2>7, <2>8, RestWrite
<1>3. ASSUME NEW d \in Devices, ServePush(d) PROVE RestInv'
  <2>1. PICK unlocked \in BOOLEAN : Write(batch[d], Accepted(batch[d], unlocked))
    BY <1>3 DEF ServePush
  <2>2. batch[d] \in [Keys -> Versions] /\ \A k \in Keys : Undeleted(batch[d], k)
    BY <1>c DEF TypeOK, DeletedWithDocument
  <2>3. UNCHANGED <<local, batch, rows, late, kvCursor, cursor, next>>
    BY <1>3 DEF ServePush
  <2>4. \A e \in Devices : phase'[e] = phase[e] \/ (phase[e] = "sent" /\ phase'[e] = "pushed")
    BY <1>3 DEF ServePush, TypeOK
  <2> QED BY <1>b, <2>1, <2>2, <2>3, <2>4, PushLegal, RestWrite
<1>4. ASSUME NEW d \in Devices, ServeLate(d) PROVE RestInv'
  <2>1. PICK unlocked \in BOOLEAN : Write(late[d], Accepted(late[d], unlocked))
    BY <1>4 DEF ServeLate
  <2>2. late[d] \in [Keys -> Versions] /\ \A k \in Keys : Undeleted(late[d], k)
    BY <1>c DEF TypeOK, DeletedWithDocument
  <2>3. UNCHANGED <<local, batch, rows, phase, kvCursor, cursor, next>>
    BY <1>4 DEF ServeLate
  <2>4. \A e \in Devices, k \in Keys : late'[e][k] \in {late[e][k], None}
    BY <1>4 DEF ServeLate, TypeOK, NoRows
  <2> QED BY <1>b, <2>1, <2>2, <2>3, <2>4, PushLegal, RestWrite
<1>5. ASSUME NEW d \in Devices, StartRun(d) PROVE RestInv'
  <2>1. UNCHANGED <<serverVars, local, rows, kvCursor, next, batch, late>>
    BY <1>5 DEF StartRun
  <2>2. /\ phase[d] = "idle" /\ phase'[d] = "collect" /\ cursor'[d] = kvCursor[d]
        /\ \A e \in Devices \ {d} : phase'[e] = phase[e] /\ cursor'[e] = cursor[e]
    BY <1>5 DEF StartRun, TypeOK
  <2>3. CursorOf(d)'
    BY <1>b, <2>1, <2>2 DEF CursorOf, Answering
  <2>4. ASSUME NEW j \in Live PROVE PullOf(d, j)'
    BY <1>b, <2>1, <2>2 DEF PullOf, Behind, Answering
  <2> QED
    BY <1>b, <2>1, <2>2, <2>3, <2>4, RestStep
<1>6. ASSUME NEW d \in Devices, CollectBatch(d) PROVE RestInv'
  <2>1. PICK x \in Batches(outbox[d]) :
          batch' = [batch EXCEPT ![d] = [k \in Keys |-> IF k \in x THEN local[d][k] ELSE None]]
    BY <1>6 DEF CollectBatch
  <2>2. \A j \in Keys : batch'[d][j] \in {local[d][j], None}
    BY <2>1 DEF TypeOK
  <2>3. \A e \in Devices \ {d} : batch'[e] = batch[e]
    BY <2>1 DEF TypeOK
  <2>4. UNCHANGED <<serverVars, local, rows, kvCursor, cursor, next, late>>
    BY <1>6 DEF CollectBatch
  <2>5. /\ phase[d] = "collect" /\ phase'[d] = "sent"
        /\ \A e \in Devices \ {d} : phase'[e] = phase[e]
    BY <1>6 DEF CollectBatch, TypeOK
  <2>6. \A j \in Ordinary : Stamped(batch'[d][j])
    BY <1>a, <1>b, <2>2
  <2>7. CursorOf(d)'
    BY <1>b, <2>4, <2>5 DEF CursorOf, Answering
  <2>8. ASSUME NEW j \in Live PROVE PullOf(d, j)'
    BY <1>b, <2>4, <2>5 DEF PullOf, Behind, Answering
  <2> QED
    BY <1>b, <2>3, <2>4, <2>5, <2>6, <2>7, <2>8, RestStep
<1>7. ASSUME NEW d \in Devices, ServePull(d) PROVE RestInv'
  <2>1. PICK last \in Ends(d) :
          /\ rows' = [rows EXCEPT ![d] = [k \in Keys |-> IF k \in Pulled(d, last) THEN srv[k] ELSE None]]
          /\ next' = [next EXCEPT ![d] = last]
    BY <1>7 DEF ServePull
  <2>2. last \in Nat /\ cursor[d] <= last /\ last <= counter
    BY <1>b, <1>7 DEF Ends, New, ServePull, CursorOf
  <2>3. /\ next'[d] = last /\ \A j \in Keys : rows'[d][j] = IF j \in Pulled(d, last) THEN srv[j] ELSE None
        /\ \A e \in Devices \ {d} : rows'[e] = rows[e] /\ next'[e] = next[e]
    BY <2>1 DEF TypeOK
  <2>4. UNCHANGED <<serverVars, local, batch, late, kvCursor, cursor>>
    BY <1>7 DEF ServePull
  <2>5. /\ phase[d] = "pushed" /\ phase'[d] = "pulled"
        /\ \A e \in Devices \ {d} : phase'[e] = phase[e]
    BY <1>7 DEF ServePull, TypeOK
  <2>6. \A j \in Ordinary : Stamped(rows'[d][j])
    BY <1>a, <1>b, <2>3
  <2>7. CursorOf(d)'
    BY <1>b, <2>2, <2>3, <2>4, <2>5 DEF CursorOf, Answering
  <2>8. ASSUME NEW j \in Live PROVE PullOf(d, j)'
    <3>1. rows'[d][j] # None => rows'[d][j] = srv[j]
      BY <1>a, <2>3
    <3>2. Behind(d, j) => srvSeq[j] > kvCursor[d]
      BY <1>b DEF PullOf
    <3>3. cursor[d] = kvCursor[d]
      BY <1>b, <2>5 DEF CursorOf
    <3>4. Behind(d, j) => srvSeq[j] > last \/ rows'[d][j] = srv[j]
      BY <1>a, <1>b, <2>2, <2>3, <3>2, <3>3 DEF Pulled, New, Sendable
    <3>5. Behind(d, j)' <=> Behind(d, j)
      BY <2>4 DEF Behind
    <3> QED
      BY <2>3, <2>4, <3>1, <3>2, <3>4, <3>5 DEF PullOf
  <2> QED
    BY <1>b, <2>3, <2>4, <2>5, <2>6, <2>7, <2>8, RestStep
<1>8. ASSUME NEW d \in Devices, ServeRestore(d) PROVE RestInv'
  <2>1. /\ \A j \in Keys : rows'[d][j] = rows[d][j] \/ (rows[d][j] = None /\ rows'[d][j] = srv[j])
        /\ \A e \in Devices \ {d} : rows'[e] = rows[e]
    BY <1>8 DEF ServeRestore, TypeOK
  <2>2. UNCHANGED <<serverVars, local, batch, late, kvCursor, cursor, next>>
    BY <1>8 DEF ServeRestore
  <2>3. /\ phase[d] = "pulled" /\ phase'[d] = "answered"
        /\ \A e \in Devices \ {d} : phase'[e] = phase[e]
    BY <1>8 DEF ServeRestore, TypeOK
  <2>4. \A j \in Ordinary : Stamped(rows'[d][j])
    BY <1>a, <1>b, <2>1
  <2>5. CursorOf(d)'
    BY <1>b, <2>2, <2>3 DEF CursorOf, Answering
  <2>6. ASSUME NEW j \in Live PROVE PullOf(d, j)'
    BY <1>a, <1>b, <2>1, <2>2, <2>3 DEF PullOf, Behind, Answering
  <2> QED
    BY <1>b, <2>1, <2>2, <2>3, <2>4, <2>5, <2>6, RestStep
<1>9. ASSUME NEW d \in Devices, NEW k \in Keys, ApplyRow(d, k) PROVE RestInv'
  <2>1. /\ \A j \in Keys : local'[d][j] = IF j = k /\ Replaces(d, k) THEN rows[d][k] ELSE local[d][j]
        /\ \A j \in Keys : rows'[d][j] = IF j = k THEN None ELSE rows[d][j]
        /\ \A e \in Devices \ {d} : local'[e] = local[e] /\ rows'[e] = rows[e]
    BY <1>9 DEF ApplyRow, TypeOK
  <2>2. UNCHANGED <<serverVars, batch, late, kvCursor, cursor, next, phase>> /\ phase[d] = "answered" /\ rows[d][k] # None
    BY <1>9 DEF ApplyRow
  <2>3. \A j \in Ordinary : Stamped(local'[d][j]) /\ Stamped(rows'[d][j])
    BY <1>a, <1>b, <2>1
  <2>4. CursorOf(d)'
    BY <1>b, <2>2 DEF CursorOf, Answering
  <2>5. ASSUME NEW j \in Live PROVE PullOf(d, j)'
    <3>1. PullOf(d, j) /\ j \in Keys /\ kvCursor[d] <= next[d]
      BY <1>a, <1>b, <2>2 DEF CursorOf, Answering
    <3>2. CASE j # k
      BY <2>1, <2>2, <3>1, <3>2 DEF PullOf, Behind, Answering
    <3>3. CASE j = k /\ srvSeq[j] > next[d]
      BY <1>b, <2>1, <2>2, <3>1, <3>3 DEF PullOf
    <3>4. CASE j = k /\ rows[d][j] = srv[j]
      <4>1. ~Behind(d, j)'
        <5>1. CASE Replaces(d, k)
          BY <1>b, <2>1, <2>2, <3>1, <3>4, <5>1 DEF Behind
        <5>2. CASE ~Replaces(d, k)
          BY <1>b, <2>1, <2>2, <3>1, <3>4, <5>2 DEF Behind, Replaces
        <5> QED
          BY <5>1, <5>2
      <4>2. rows'[d][j] = None
        BY <2>1, <3>1, <3>4
      <4> QED
        BY <4>1, <4>2 DEF PullOf
    <3> QED
      BY <2>2, <3>1, <3>2, <3>3, <3>4 DEF PullOf
  <2> QED
    BY <1>b, <2>1, <2>2, <2>3, <2>4, <2>5, RestStep
<1>10. ASSUME NEW d \in Devices, SettleOutbox(d) PROVE RestInv'
  <2>1. UNCHANGED <<serverVars, local, batch, rows, late, kvCursor, cursor, next>>
    BY <1>10 DEF SettleOutbox
  <2>2. /\ phase[d] = "answered" /\ phase'[d] = "settled" /\ rows[d] = NoRows
        /\ \A e \in Devices \ {d} : phase'[e] = phase[e]
    BY <1>10 DEF SettleOutbox, TypeOK
  <2>3. CursorOf(d)'
    BY <1>b, <2>1, <2>2 DEF CursorOf, Answering
  <2>4. ASSUME NEW j \in Live PROVE PullOf(d, j)'
    BY <1>b, <2>1, <2>2 DEF PullOf, Behind, Answering
  <2> QED
    BY <1>b, <2>1, <2>2, <2>3, <2>4, RestStep
<1>11. ASSUME NEW d \in Devices, BeginRestore(d) \/ SaveCursor(d) PROVE RestInv'
  <2>1. UNCHANGED <<serverVars, local, batch, rows, late, next>>
    BY <1>11 DEF BeginRestore, SaveCursor
  <2>2. /\ phase[d] = "settled" /\ phase'[d] \in {"collect", "finish"}
        /\ cursor'[d] = kvCursor'[d] /\ kvCursor'[d] \in {0, next[d]}
        /\ \A e \in Devices \ {d} : phase'[e] = phase[e] /\ cursor'[e] = cursor[e] /\ kvCursor'[e] = kvCursor[e]
    BY <1>11 DEF BeginRestore, SaveCursor, TypeOK
  <2>3. rows[d] = NoRows /\ next[d] <= counter /\ ~Answering(d)' /\ Answering(d)
    BY <1>b, <2>2 DEF CursorOf, Answering
  <2>4. CursorOf(d)'
    BY <1>b, <2>1, <2>2, <2>3 DEF CursorOf
  <2>5. ASSUME NEW j \in Live PROVE PullOf(d, j)'
    <3>1. PullOf(d, j) /\ j \in Keys /\ rows[d][j] = None
      BY <1>a, <1>b, <2>3 DEF NoRows
    <3>2. Behind(d, j)' <=> Behind(d, j)
      BY <2>1 DEF Behind
    <3>3. Behind(d, j) => srvSeq[j] > next[d] /\ srvSeq[j] > 0
      BY <1>b, <2>3, <3>1 DEF PullOf, Behind
    <3> QED
      BY <2>1, <2>2, <2>3, <3>1, <3>2, <3>3 DEF PullOf
  <2> QED
    BY <1>b, <2>1, <2>2, <2>4, <2>5, RestStep
<1>12. ASSUME NEW d \in Devices, FinishRun(d) \/ Interrupt(d) PROVE RestInv'
  <2>1. UNCHANGED <<serverVars, local, kvCursor>> /\ EndRun(d)
    BY <1>12 DEF FinishRun, Interrupt
  <2>2. /\ phase'[d] = "idle" /\ cursor'[d] = 0 /\ rows'[d] = NoRows /\ batch'[d] = NoRows
        /\ \A e \in Devices \ {d} : /\ phase'[e] = phase[e] /\ cursor'[e] = cursor[e] /\ next'[e] = next[e]
                                    /\ rows'[e] = rows[e] /\ batch'[e] = batch[e]
    BY <2>1 DEF EndRun, TypeOK
  <2>3. /\ \A e \in Devices \ {d} : late'[e] = late[e]
        /\ \A j \in Keys : late'[d][j] \in {late[d][j], batch[d][j]}
    BY <1>12 DEF FinishRun, Interrupt, TypeOK
  <2>4. \A j \in Ordinary : Stamped(batch'[d][j]) /\ Stamped(rows'[d][j]) /\ Stamped(late'[d][j])
    BY <1>a, <1>b, <2>2, <2>3 DEF NoRows
  <2>5. CursorOf(d)'
    BY <1>b, <2>1, <2>2 DEF CursorOf, Answering
  <2>6. ASSUME NEW j \in Live PROVE PullOf(d, j)'
    BY <1>a, <1>b, <2>1, <2>2 DEF PullOf, Behind, Answering, NoRows
  <2> QED
    BY <1>b, <2>1, <2>2, <2>3, <2>4, <2>5, <2>6, RestStep
<1>13. CASE UNCHANGED vars
  BY <1>13 DEF vars, RestInv, StampInv, CursorInv, PullInv, CursorOf, PullOf, Behind, Answering, Stamped, Ordinary, Live, Usable
<1> QED BY <1>1, <1>2, <1>3, <1>4, <1>5, <1>6, <1>7, <1>8, <1>9, <1>10, <1>11, <1>12, <1>13
        DEF Next, SyncStep

LEMMA RestInit == Init => RestInv
<1> SUFFICES ASSUME Init PROVE RestInv
  OBVIOUS
<1> USE VersionFacts, ConstantsAssumption DEF ConstantsAssumption
<1>1. counter \in Nat /\ \A k \in Keys : srv[k] \in {First, None} /\ srv[k].at \in Nat
  BY DEF Init
<1>2. \A d \in Devices : /\ kvCursor[d] = counter /\ phase[d] = "idle" /\ rows[d] = NoRows
                         /\ \A k \in Keys : local[d][k] = srv[k] /\ batch[d][k] = None /\ rows[d][k] = None /\ late[d][k] = None
  BY DEF Init, NoRows
<1>3. StampInv
  BY <1>1, <1>2 DEF StampInv, Stamped, Ordinary
<1>4. CursorInv
  BY <1>1, <1>2 DEF CursorInv, CursorOf, Answering
<1>5. PullInv
  BY <1>1, <1>2 DEF PullInv, PullOf, Behind, Live
<1> QED
  BY <1>3, <1>4, <1>5 DEF RestInv

(***************************************************************************)
(* What a device does not have yet is above its cursor, or in the answer   *)
(* it is about to apply, however a run was cut short or restored rows.     *)
(***************************************************************************)
THEOREM RestInvCorrect == Spec => []RestInv
<1>1. TypeOK /\ IndInv /\ RestInv /\ [Next]_vars => (TypeOK /\ IndInv /\ RestInv)'
  BY TypeStep, InvStep, RestNext
<1> QED BY <1>1, TypeInit, InvInit, RestInit, PTL DEF Spec

\* No two writers stamp a row with the same millisecond: the server calls the
\* second of two such versions stale, and rejects it (push.ts).
ClocksDiffer == \A v, w \in Writers : v # w => Stamps[v] \cap Stamps[w] = {}

(***************************************************************************)
(* A device that has nothing left to sync shows the server's rows of every *)
(* document that is not deleted, and no document older than the server's,  *)
(* whatever was rejected, restored, locked or cut short on the way.        *)
(***************************************************************************)
THEOREM ConvergedCorrect == ASSUME ClocksDiffer PROVE Spec => []Converged
<1>1. ASSUME ClocksDiffer, NEW u, NEW v, Stamped(u), Stamped(v), u.at = v.at, u \in Versions, v \in Versions PROVE u = v
  <2> USE VersionFacts, ConstantsAssumption DEF ConstantsAssumption
  <2>1. ASSUME NEW w \in {u, v}, w \notin {None, First} PROVE w.by \in Writers /\ w.at \in Stamps[w.by] /\ ~w.del /\ w.at > 1
    BY <1>1, <2>1 DEF Stamped
  <2>2. CASE u \in {None, First} \/ v \in {None, First}
    BY <1>1, <2>1, <2>2
  <2>3. CASE u \notin {None, First} /\ v \notin {None, First}
    <3>1. u.by = v.by /\ u.del = v.del
      BY <1>1, <2>1, <2>3 DEF ClocksDiffer, Versions
    <3> QED
      BY <1>1, <3>1 DEF Versions
  <2> QED
    BY <2>2, <2>3
<1>2. TypeOK /\ IndInv /\ RestInv => Converged
  <2> SUFFICES ASSUME TypeOK, IndInv, RestInv, NEW d \in Devices, AtRest(d)
               PROVE  /\ \A k \in Ordinary : local[d][k] = srv[k]
                      /\ \A k \in Documents : local[d][k].at >= srv[k].at
    BY DEF Converged, Same, Ordinary
  <2>1. ASSUME NEW k \in Live PROVE /\ local[d][k] \in Versions /\ srv[k] \in Versions
                                    /\ local[d][k].at \in Nat /\ srv[k].at \in Nat /\ local[d][k].at >= srv[k].at
    <3>1. k \in Keys
      BY DEF Live
    <3>2. local[d][k] \in Versions /\ srv[k] \in Versions /\ local[d][k].at \in Nat /\ srv[k].at \in Nat /\ srvSeq[k] <= counter /\ counter \in Nat /\ srvSeq[k] \in Nat
      BY <3>1, VersionFacts DEF TypeOK
    <3>3. ~(local[d][k].at < srv[k].at)
      BY <3>2 DEF RestInv, PullInv, PullOf, Behind, AtRest
    <3> QED
      BY <3>2, <3>3
  <2>2. ASSUME NEW k \in Documents PROVE k \in Live
    BY ConstantsAssumption DEF ConstantsAssumption, Live, Usable
  <2>3. ASSUME NEW k \in Ordinary PROVE local[d][k] = srv[k]
    <3>1. k \in Live
      BY DEF Ordinary, Live
    <3>2. ~(local[d][k].at > srv[k].at)
      BY DEF IndInv, UnsentQueued, AtRest
    <3>3. Stamped(local[d][k]) /\ Stamped(srv[k])
      BY DEF RestInv, StampInv
    <3> QED
      BY <1>1, <2>1, <3>1, <3>2, <3>3
  <2> QED
    BY <2>1, <2>2, <2>3
<1> QED
  BY <1>2, TypeCorrect, InvCorrect, RestInvCorrect, PTL
=============================================================================
