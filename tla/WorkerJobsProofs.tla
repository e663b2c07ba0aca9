-------------------------- MODULE WorkerJobsProofs --------------------------
(***************************************************************************)
(* Proofs about WorkerJobs: its type invariant, that the result of a job   *)
(* is committed exactly when the job is concluded as done, and that the    *)
(* job table implements JobLife; about the requests that wait for its      *)
(* jobs (QueueTransport); and about the jobs that read a page              *)
(* (PageReading): the row of an image names a file that is there, the text *)
(* is that of the image, and each job of a page implements JobLife.        *)
(***************************************************************************)
EXTENDS QueueTransport, PageReading, FiniteSetTheorems, TLAPS

IInv == TypeOK /\ EffectsCounted

LEMMA PostFields ==
  ASSUME NEW p \in Posts
  PROVE  /\ p.worker \in Workers /\ p.job \in Jobs /\ p.outcome \in Outcomes /\ p.attempts \in Nat
         /\ \A n \in Nat : [p EXCEPT !.attempts = n] \in Posts
  BY DEF Posts

LEMMA InitIInv == Init => IInv
  BY DEF Init, IInv, TypeOK, EffectsCounted, Statuses, Final

LEMMA TypeStep ==
  ASSUME TypeOK, [Next]_vars
  PROVE  TypeOK'
<1> USE ConstantsAssumption DEF ConstantsAssumption
<1>1. ASSUME NEW j \in Jobs, InsertJob(j) PROVE TypeOK'
  BY <1>1 DEF InsertJob, TypeOK, Statuses, callVars, timeVars
<1>2. ASSUME NEW j \in Jobs, SkipQueued(j) PROVE TypeOK'
  BY <1>2 DEF SkipQueued, TypeOK, Statuses, Final, callVars, timeVars
<1>3. ASSUME NEW j \in Jobs, DeleteJob(j) PROVE TypeOK'
  BY <1>3 DEF DeleteJob, TypeOK, Statuses, Final, callVars, timeVars, Pending
<1>4. CASE ExpireQueued
  BY <1>4 DEF ExpireQueued, Overdue, TypeOK, Statuses, Final, callVars, timeVars
<1>5. ASSUME NEW j \in Jobs, LeaseLapses(j) \/ BecomesDue(j) PROVE TypeOK'
  BY <1>5 DEF LeaseLapses, BecomesDue, TypeOK, callVars, timeVars
<1>6. ASSUME NEW w \in Workers, PauseEnds(w) PROVE TypeOK'
  BY <1>6 DEF PauseEnds, TypeOK, callVars, timeVars
<1>7. ASSUME NEW c \in Calls, NEW w \in Workers, LeaseCall(c, w) PROVE TypeOK'
  BY <1>7 DEF LeaseCall, Requeue, HeldBy, Leased, TypeOK, Statuses, timeVars
<1>8. ASSUME NEW c \in Calls, Reclaim(c) PROVE TypeOK'
  BY <1>8 DEF Reclaim, Reclaimed, LastAttempt, Overdue, TypeOK, Statuses, Final, timeVars
<1>9. ASSUME NEW c \in Calls, List(c) PROVE TypeOK'
  BY <1>9 DEF List, TypeOK, timeVars
<1>10. ASSUME NEW c \in Calls, Claim(c) PROVE TypeOK'
  BY <1>10 DEF Claim, Claimable, TypeOK, Statuses
<1>11. ASSUME NEW c \in Calls, Miss(c) PROVE TypeOK'
  BY <1>11 DEF Miss, TypeOK, timeVars
<1>12. ASSUME NEW c \in Calls, AnswerNoJob(c) \/ Respond(c) \/ CallDies(c) PROVE TypeOK'
  BY <1>12 DEF AnswerNoJob, Respond, CallDies, FreeCall, TypeOK, timeVars
<1>13. ASSUME NEW c \in Calls, GiveBack(c) PROVE TypeOK'
  BY <1>13 DEF GiveBack, FreeCall, Requeue, HeldBy, Leased, TypeOK, Statuses
<1>14. ASSUME NEW c \in Calls, CutCall(c) PROVE TypeOK'
  BY <1>14 DEF CutCall, TypeOK, timeVars
<1>15. ASSUME NEW w \in Workers, Heartbeat(w) PROVE TypeOK'
  BY <1>15 DEF Heartbeat, TypeOK, callVars
<1>16. ASSUME NEW w \in Workers, StopWork(w) PROVE TypeOK'
  BY <1>16 DEF StopWork, TypeOK, callVars, timeVars
<1>17. ASSUME NEW w \in Workers, NEW o \in Outcomes, PostResult(w, o) PROVE TypeOK'
  <2>1. [worker |-> w, job |-> work[w], outcome |-> o, attempts |-> 0] \in Posts
    BY <1>17 DEF PostResult, TypeOK, Posts
  <2> QED  BY <1>17, <2>1 DEF PostResult, TypeOK, callVars, timeVars
<1>18. ASSUME NEW p \in posts, Result(p) PROVE TypeOK'
  <2>1. p \in Posts  BY DEF TypeOK
  <2>2. p.worker \in Workers /\ p.job \in Jobs  BY <2>1, PostFields
  <2>3. CASE ReadJob(p)
    <3>1. [p EXCEPT !.attempts = attempts[p.job]] \in Posts  BY <2>1, <2>2, PostFields DEF TypeOK
    <3> QED  BY <2>3, <3>1 DEF ReadJob, TypeOK, callVars, timeVars
  <2>4. CASE RefuseLate(p)
    BY <2>2, <2>4 DEF RefuseLate, ExpirePending, Pending, TypeOK, Statuses, Final, callVars
  <2>5. CASE Conflict(p)
    BY <2>2, <2>5 DEF Conflict, TypeOK, callVars, timeVars
  <2>6. CASE Done(p)
    BY <2>2, <2>6 DEF Done, Writes, Applies, TypeOK, Statuses, Final, callVars
  <2>7. CASE UsageLimit(p)
    BY <2>2, <2>7 DEF UsageLimit, Requeue, TypeOK, Statuses, callVars
  <2>8. CASE Retry(p)
    BY <2>2, <2>8 DEF Retry, Requeue, TypeOK, Statuses, callVars
  <2>9. CASE Fail(p)
    BY <2>2, <2>9 DEF Fail, TypeOK, Statuses, Final, callVars
  <2> QED  BY <1>18, <2>3, <2>4, <2>5, <2>6, <2>7, <2>8, <2>9 DEF Result
<1>19. CASE UNCHANGED vars
  BY <1>19 DEF vars, TypeOK, callVars, timeVars
<1> QED
  BY <1>1, <1>2, <1>3, <1>4, <1>5, <1>6, <1>7, <1>8, <1>9, <1>10, <1>11, <1>12, <1>13, <1>14, <1>15,
     <1>16, <1>17, <1>18, <1>19
  DEF Next, QueueStep, TableStep, TimeStep, CallStep, WorkerStep

\* Every step of the table is one step in the life of its jobs.
LEMMA LifeStep ==
  ASSUME IInv, [Next]_vars
  PROVE  [Life!Next]_<<Stage, written>> /\ EffectsCounted'
<1> DEFINE Ok == [Life!Next]_<<Stage, written>> /\ EffectsCounted'
<1>a. /\ status \in [Jobs -> Statuses] /\ written \in [Jobs -> Nat]
      /\ EffectsCounted
  BY DEF IInv, TypeOK
<1>b. Stage = [j \in Jobs |-> StageOf(status[j])] /\ Stage' = [j \in Jobs |-> StageOf(status'[j])]
  BY DEF Stage
<1>c. /\ StageOf("absent") = "none" /\ StageOf("queued") = "pending" /\ StageOf("leased") = "pending"
      /\ StageOf("done") = "done" /\ StageOf("deleted") = "removed"
      /\ StageOf("failed") = "dropped" /\ StageOf("expired") = "dropped" /\ StageOf("skipped") = "dropped"
  BY DEF StageOf
\* A step that leaves the table alone, or only moves jobs between queued and leased.
<1>d. ASSUME written' = written, status' \in [Jobs -> Statuses],
             \A j \in Jobs : status'[j] = status[j] \/ (Pending(j) /\ status'[j] \in {"queued", "leased"})
      PROVE  Ok
  <2>1. \A j \in Jobs : StageOf(status'[j]) = StageOf(status[j])
    BY <1>a, <1>c, <1>d DEF Pending
  <2>2. Stage' = Stage  BY <1>b, <2>1
  <2>3. EffectsCounted'  BY <1>a, <1>d DEF EffectsCounted, Pending
  <2> QED  BY <2>2, <2>3, <1>d
\* A step that gives jobs up.
<1>e. ASSUME NEW S \in SUBSET Jobs, written' = written, status' \in [Jobs -> Statuses],
             \A j \in S : Pending(j) /\ status'[j] \in {"failed", "expired", "skipped"},
             \A j \in Jobs \ S : status'[j] = status[j] \/ (Pending(j) /\ status'[j] \in {"queued", "leased"})
      PROVE  Ok
  <2>1. \A j \in S : Stage[j] = "pending" /\ StageOf(status'[j]) = "dropped"
    BY <1>b, <1>c, <1>e DEF Pending
  <2>2. \A j \in Jobs \ S : StageOf(status'[j]) = Stage[j]
    BY <1>a, <1>b, <1>c, <1>e DEF Pending
  <2>3. Stage' = [j \in Jobs |-> IF j \in S THEN "dropped" ELSE Stage[j]]
    BY <1>b, <2>1, <2>2
  <2>4. Life!Drop(S)  BY <1>e, <2>1, <2>3 DEF Life!Drop
  <2>5. EffectsCounted'  BY <1>a, <1>e DEF EffectsCounted, Pending
  <2> QED  BY <2>4, <2>5, <1>e DEF Life!Next
<1>1. ASSUME NEW j \in Jobs, InsertJob(j) PROVE Ok
  <2>1. Life!Queue(j)  BY <1>1, <1>a, <1>b, <1>c DEF InsertJob, Life!Queue
  <2>2. EffectsCounted'  BY <1>1, <1>a DEF InsertJob, EffectsCounted
  <2> QED  BY <2>1, <2>2 DEF Life!Next
<1>2. ASSUME NEW j \in Jobs, SkipQueued(j) PROVE Ok
  <2>1. /\ {j} \in SUBSET Jobs
        /\ \A i \in {j} : Pending(i) /\ status'[i] \in {"failed", "expired", "skipped"}
        /\ \A i \in Jobs \ {j} : status'[i] = status[i]
        /\ written' = written /\ status' \in [Jobs -> Statuses]
    BY <1>2, <1>a DEF SkipQueued, Pending, Statuses, Final
  <2> QED  BY <2>1, <1>e
<1>3. ASSUME NEW j \in Jobs, DeleteJob(j) PROVE Ok
  <2>1. StageOf(status[j]) # "none"  BY <1>3, <1>c DEF DeleteJob, Pending, Final
  <2>2. Life!Remove(j)  BY <1>3, <2>1, <1>a, <1>b, <1>c DEF DeleteJob, Life!Remove
  <2>3. EffectsCounted'  BY <1>3, <1>a DEF DeleteJob, EffectsCounted
  <2> QED  BY <2>2, <2>3 DEF Life!Next
<1>4. CASE ExpireQueued
  <2>1. /\ Overdue \in SUBSET Jobs
        /\ \A i \in Overdue : Pending(i) /\ status'[i] \in {"failed", "expired", "skipped"}
        /\ \A i \in Jobs \ Overdue : status'[i] = status[i]
        /\ written' = written /\ status' \in [Jobs -> Statuses]
    BY <1>4, <1>a DEF ExpireQueued, Overdue, Pending, Statuses, Final
  <2> QED  BY <2>1, <1>e
<1>5. ASSUME NEW c \in Calls, Reclaim(c) PROVE Ok
  <2> DEFINE S == {j \in Reclaimed \cup Overdue : (j \in Reclaimed /\ LastAttempt(j)) \/ due[j]}
  <2>1. /\ S \in SUBSET Jobs
        /\ \A i \in S : Pending(i) /\ status'[i] \in {"failed", "expired", "skipped"}
        /\ \A i \in Jobs \ S : status'[i] = status[i] \/ (Pending(i) /\ status'[i] \in {"queued", "leased"})
    BY <1>5, <1>a DEF Reclaim, Reclaimed, Overdue, Pending
  <2>2. written' = written /\ status' \in [Jobs -> Statuses]
    BY <1>5, <1>a DEF Reclaim, Statuses, Final
  <2> QED  BY <2>1, <2>2, <1>e
<1>6. ASSUME NEW c \in Calls, Claim(c) PROVE Ok
  <2>1. /\ written' = written /\ status' \in [Jobs -> Statuses]
        /\ \A j \in Jobs : status'[j] = status[j] \/ (Pending(j) /\ status'[j] \in {"queued", "leased"})
    BY <1>6, <1>a DEF Claim, Claimable, Pending, Statuses
  <2> QED  BY <2>1, <1>d
<1>7. ASSUME NEW S \in SUBSET Jobs, Requeue(S), \A j \in S : Pending(j), written' = written PROVE Ok
  <2>1. /\ status' \in [Jobs -> Statuses]
        /\ \A j \in Jobs : status'[j] = status[j] \/ (Pending(j) /\ status'[j] \in {"queued", "leased"})
    BY <1>7, <1>a DEF Requeue, Statuses
  <2> QED  BY <2>1, <1>7, <1>d
<1>8. ASSUME NEW w \in Workers, Requeue(HeldBy(w)), written' = written PROVE Ok
  <2>1. HeldBy(w) \in SUBSET Jobs /\ \A j \in HeldBy(w) : Pending(j)  BY DEF HeldBy, Leased, Pending
  <2> QED  BY <2>1, <1>7, <1>8
<1>9. ASSUME NEW c \in Calls, NEW w \in Workers, LeaseCall(c, w) PROVE Ok
  BY <1>8, <1>9 DEF LeaseCall
<1>10. ASSUME NEW c \in Calls, GiveBack(c) PROVE Ok
  <2>1. caller[c] \in Workers  BY <1>10 DEF GiveBack, IInv, TypeOK
  <2> QED  BY <2>1, <1>8, <1>10 DEF GiveBack
<1>11. ASSUME UNCHANGED <<status, written>> PROVE Ok
  BY <1>11, <1>a, <1>d
<1>12. ASSUME NEW p \in posts, Result(p) PROVE Ok
  <2>1. p \in Posts  BY DEF IInv, TypeOK
  <2>2. p.worker \in Workers /\ p.job \in Jobs  BY <2>1, PostFields
  <2>3. CASE ReadJob(p) \/ Conflict(p)
    BY <2>3, <1>11 DEF ReadJob, Conflict, timeVars
  <2>4. CASE RefuseLate(p) \/ Fail(p)
    <3>1. /\ {p.job} \in SUBSET Jobs
          /\ \A i \in {p.job} : Pending(i) /\ status'[i] \in {"failed", "expired", "skipped"}
          /\ \A i \in Jobs \ {p.job} : status'[i] = status[i]
          /\ written' = written /\ status' \in [Jobs -> Statuses]
      BY <2>2, <2>4, <1>a DEF RefuseLate, Fail, Applies, Leased, ExpirePending, Pending, Statuses, Final
    <3> QED  BY <3>1, <1>e
  <2>5. CASE UsageLimit(p) \/ Retry(p)
    <3>1. {p.job} \in SUBSET Jobs /\ Requeue({p.job}) /\ (\A j \in {p.job} : Pending(j)) /\ written' = written
      BY <2>2, <2>5 DEF UsageLimit, Retry, Applies, Leased, Pending
    <3> QED  BY <3>1, <1>7
  <2>6. CASE Done(p)
    <3>1. status[p.job] = "leased" /\ written[p.job] = 0
      BY <2>2, <2>6, <1>a DEF Done, Applies, Leased, EffectsCounted
    <3>2. PICK outcome \in {"done", "skipped", "failed"} :
            /\ status' = [status EXCEPT ![p.job] = outcome]
            /\ written' = [written EXCEPT ![p.job] = @ + Writes(outcome)]
      BY <2>6 DEF Done
    <3>3. CASE outcome = "done"
      <4>1. /\ status' = [status EXCEPT ![p.job] = "done"]
            /\ written' = [written EXCEPT ![p.job] = 1]
        BY <3>1, <3>2, <3>3, <2>2, <1>a DEF Writes
      <4>2. Life!Complete(p.job)  BY <4>1, <3>1, <2>2, <1>a, <1>b, <1>c DEF Life!Complete
      <4>3. EffectsCounted'  BY <4>1, <2>2, <1>a DEF EffectsCounted
      <4> QED  BY <4>2, <4>3, <2>2 DEF Life!Next
    <3>4. CASE outcome # "done"
      <4>1. written' = written  BY <3>1, <3>2, <3>4, <2>2, <1>a DEF Writes
      <4>2. /\ {p.job} \in SUBSET Jobs
            /\ \A i \in {p.job} : Pending(i) /\ status'[i] \in {"failed", "expired", "skipped"}
            /\ \A i \in Jobs \ {p.job} : status'[i] = status[i]
            /\ status' \in [Jobs -> Statuses]
        BY <3>1, <3>2, <3>4, <2>2, <1>a DEF Pending, Statuses, Final
      <4> QED  BY <4>1, <4>2, <1>e
    <3> QED  BY <3>3, <3>4
  <2> QED  BY <1>12, <2>3, <2>4, <2>5, <2>6 DEF Result
<1>13. ASSUME NEW j \in Jobs, LeaseLapses(j) \/ BecomesDue(j) PROVE Ok
  BY <1>11, <1>13 DEF LeaseLapses, BecomesDue
<1>14. ASSUME NEW w \in Workers, PauseEnds(w) \/ Heartbeat(w) \/ StopWork(w) \/ (\E o \in Outcomes : PostResult(w, o)) PROVE Ok
  BY <1>11, <1>14 DEF PauseEnds, Heartbeat, StopWork, PostResult
<1>15. ASSUME NEW c \in Calls, List(c) \/ Miss(c) \/ AnswerNoJob(c) \/ Respond(c) \/ CutCall(c) \/ CallDies(c) PROVE Ok
  BY <1>11, <1>15 DEF List, Miss, AnswerNoJob, Respond, CutCall, CallDies
<1>16. CASE UNCHANGED vars
  BY <1>11, <1>16 DEF vars
<1> QED
  BY <1>1, <1>2, <1>3, <1>4, <1>5, <1>6, <1>9, <1>10, <1>12, <1>13, <1>14, <1>15, <1>16
  DEF Next, QueueStep, TableStep, TimeStep, CallStep, WorkerStep

(***************************************************************************)
(* Type correctness: in particular a lease has a holder, and a job that    *)
(* waits in the queue has none.                                            *)
(***************************************************************************)
THEOREM TypeCorrect == Spec => []TypeOK
<1>1. Init => TypeOK  BY InitIInv DEF IInv
<1>2. TypeOK /\ [Next]_vars => TypeOK'  BY TypeStep
<1> QED  BY <1>1, <1>2, PTL DEF Spec

LEMMA IInvCorrect == Spec => []IInv
<1>1. IInv /\ [Next]_vars => IInv'  BY TypeStep, LifeStep DEF IInv
<1> QED  BY <1>1, InitIInv, PTL DEF Spec

(***************************************************************************)
(* A result is committed exactly when it concludes its job, for every      *)
(* number of workers, requests and repeated results.                       *)
(***************************************************************************)
THEOREM EffectsCorrect == Spec => []EffectsCounted
<1>1. IInv => EffectsCounted  BY DEF IInv
<1> QED  BY <1>1, IInvCorrect, PTL

(***************************************************************************)
(* The job table implements JobLife: a job is concluded once, and its      *)
(* result takes effect at most once.                                       *)
(***************************************************************************)
THEOREM Implementation == Spec => ImplementsLife
<1>1. Init => Life!Init
  BY DEF Init, Life!Init, Stage, StageOf
<1>2. IInv /\ [Next]_vars => [Life!Next]_<<Stage, written>>
  BY LifeStep
<1> QED  BY <1>1, <1>2, IInvCorrect, PTL DEF Spec, ImplementsLife, Life!Spec
----------------------------------------------------------------------------
(* The requests that wait for the jobs.                                    *)

\* What a request says about the row of its job.
ReqInv(j) ==
  /\ request[j] \in {"new", "counted"} => status[j] = "absent"
  /\ request[j] = "waiting" => status[j] \notin {"absent", "deleted"}
  /\ request[j] = "stopping" => status[j] \in Final
  /\ request[j] = "refused" => ~Pending(j) /\ status[j] # "done"
  /\ request[j] = "answered" => status[j] \in {"done", "deleted"} /\ written[j] = 1

RInv == IInv /\ request \in [AiJobs -> {"new", "counted", "waiting", "stopping", "lost"} \cup Settled] /\ \A j \in AiJobs : ReqInv(j)

\* A concluded row only goes away, and the row of an ai job only once it is concluded.
LEMMA RowKept ==
  ASSUME IInv, QueueStep, NEW j \in AiJobs
  PROVE  /\ ~Pending(j) => status'[j] = status[j] \/ (status[j] \in Final /\ status'[j] = "deleted")
         /\ Pending(j) => status'[j] \notin {"absent", "deleted"}
<1> DEFINE Ok == /\ ~Pending(j) => status'[j] = status[j] \/ (status[j] \in Final /\ status'[j] = "deleted")
                 /\ Pending(j) => status'[j] \notin {"absent", "deleted"}
<1>a. j \in Jobs /\ status \in [Jobs -> Statuses] /\ j \notin PageJobs
  BY ConstantsAssumption DEF Jobs, IInv, TypeOK
<1>b. ASSUME status' = status PROVE Ok
  BY <1>b DEF Pending
<1>c. ASSUME NEW S, Requeue(S), \A i \in S \cap Jobs : Pending(i) PROVE Ok
  BY <1>a, <1>c DEF Requeue, Pending
<1>1. ASSUME NEW i \in Jobs, SkipQueued(i) PROVE Ok
  BY <1>a, <1>1 DEF SkipQueued, Pending
<1>2. ASSUME NEW i \in Jobs, DeleteJob(i) PROVE Ok
  BY <1>a, <1>2 DEF DeleteJob, Pending, Final
<1>3. CASE ExpireQueued
  BY <1>a, <1>3 DEF ExpireQueued, Overdue, Pending
<1>4. CASE TimeStep
  BY <1>4, <1>b DEF TimeStep, LeaseLapses, BecomesDue, PauseEnds
<1>5. ASSUME NEW c \in Calls, Reclaim(c) PROVE Ok
  BY <1>a, <1>5 DEF Reclaim, Reclaimed, Overdue, Pending
<1>6. ASSUME NEW c \in Calls, Claim(c) PROVE Ok
  BY <1>a, <1>6 DEF Claim, Claimable, Pending
<1>7. ASSUME NEW c \in Calls, GiveBack(c) PROVE Ok
  BY <1>7, <1>c DEF GiveBack, HeldBy, Leased, Pending
<1>8. ASSUME NEW c \in Calls, List(c) \/ Miss(c) \/ AnswerNoJob(c) \/ Respond(c) \/ CutCall(c) \/ CallDies(c) PROVE Ok
  BY <1>8, <1>b DEF List, Miss, AnswerNoJob, Respond, CutCall, CallDies
<1>9. ASSUME NEW w \in Workers, WorkerStep(w) PROVE Ok
  <2>1. ASSUME NEW c \in Calls, LeaseCall(c, w) PROVE Ok
    BY <2>1, <1>c DEF LeaseCall, HeldBy, Leased, Pending
  <2>2. CASE Heartbeat(w) \/ StopWork(w) \/ (\E o \in Outcomes : PostResult(w, o))
    BY <2>2, <1>b DEF Heartbeat, StopWork, PostResult
  <2> QED  BY <1>9, <2>1, <2>2 DEF WorkerStep
<1>10. ASSUME NEW p \in posts, Result(p) PROVE Ok
  <2>1. p.job \in Jobs  BY PostFields DEF IInv, TypeOK
  <2>2. CASE ReadJob(p) \/ Conflict(p)
    BY <2>2, <1>b DEF ReadJob, Conflict
  <2>3. CASE RefuseLate(p) \/ Fail(p)
    BY <1>a, <2>1, <2>3 DEF RefuseLate, Fail, Applies, Leased, ExpirePending, Pending
  <2>4. CASE UsageLimit(p) \/ Retry(p)
    <3>1. Requeue({p.job}) /\ \A i \in {p.job} \cap Jobs : Pending(i)
      BY <2>4 DEF UsageLimit, Retry, Applies, Leased, Pending
    <3> QED  BY <3>1, <1>c
  <2>5. CASE Done(p)
    BY <1>a, <2>1, <2>5 DEF Done, Applies, Leased, Pending
  <2> QED  BY <1>10, <2>2, <2>3, <2>4, <2>5 DEF Result
<1> QED
  BY <1>1, <1>2, <1>3, <1>4, <1>5, <1>6, <1>7, <1>8, <1>9, <1>10 DEF QueueStep, TableStep, CallStep

\* The effects of a concluded job stay as they are.
LEMMA EffectKept ==
  ASSUME IInv, [Next]_vars, NEW j \in Jobs, status[j] \in {"done", "deleted"}
  PROVE  written'[j] = written[j]
<1>1. [Life!Next]_<<Stage, written>>
  BY LifeStep
<1>2. Stage[j] # "pending" /\ written \in [Jobs -> Nat]
  BY DEF Stage, StageOf, IInv, TypeOK
<1>3. ASSUME NEW i \in Jobs, Life!Complete(i) PROVE written'[j] = written[j]
  BY <1>2, <1>3 DEF Life!Complete
<1> QED
  BY <1>1, <1>3 DEF Life!Next, Life!Queue, Life!Remove, Life!Drop

\* A request gives up a pending job; for the table that is the end of a life, too.
LEMMA GiveUpStep ==
  ASSUME IInv, NEW j \in AiJobs, GiveUp(j)
  PROVE  IInv' /\ [Life!Next]_<<Stage, written>>
<1>1. /\ j \in Jobs /\ Pending(j) /\ status' = [status EXCEPT ![j] = "expired"] /\ lapsed' = [lapsed EXCEPT ![j] = FALSE]
      /\ UNCHANGED <<leasedBy, attempts, due, written, limited, callVars, posts, work>>
  BY DEF GiveUp, ExpirePending, Jobs
<1>2. TypeOK'
  BY <1>1 DEF IInv, TypeOK, callVars, Statuses, Final
<1>3. EffectsCounted'
  BY <1>1 DEF IInv, TypeOK, EffectsCounted, Pending
<1>4. Stage' = [i \in Jobs |-> IF i \in {j} THEN "dropped" ELSE Stage[i]] /\ Stage[j] = "pending"
  BY <1>1 DEF IInv, TypeOK, Stage, StageOf, Pending
<1>5. Life!Drop({j})
  BY <1>1, <1>4 DEF Life!Drop
<1> QED
  BY <1>1, <1>2, <1>3, <1>5 DEF IInv, Life!Next

\* Every step of the requests and of the queue together.
LEMMA RequestIStep ==
  ASSUME IInv, [RequestNext]_requestVars
  PROVE  IInv' /\ [Life!Next]_<<Stage, written>>
<1>1. ASSUME [Next]_vars PROVE IInv' /\ [Life!Next]_<<Stage, written>>
  BY <1>1, TypeStep, LifeStep DEF IInv
<1>2. ASSUME NEW j \in AiJobs, RequestStep(j), ~GiveUp(j) PROVE [Next]_vars
  BY <1>2 DEF RequestStep, CountActive, Enqueue, Check, StopTooLate, Stop, DropRow, DatabaseFails, RequestDies, Next, QueueStep, TableStep, Jobs
<1> QED
  BY <1>1, <1>2, GiveUpStep DEF RequestNext, requestVars, Next

LEMMA RequestStepInv ==
  ASSUME RInv, [RequestNext]_requestVars
  PROVE  RInv'
<1> DEFINE States == {"new", "counted", "waiting", "stopping", "lost"} \cup Settled
<1>a. IInv /\ IInv' /\ request \in [AiJobs -> States] /\ status \in [Jobs -> Statuses] /\ AiJobs \subseteq Jobs
  BY RequestIStep DEF RInv, IInv, TypeOK, Jobs
<1>b. \A j \in AiJobs : status[j] = "done" => written[j] = 1
  BY <1>a DEF IInv, EffectsCounted
<1>c. ASSUME NEW j \in AiJobs, NEW next \in States, request' = [request EXCEPT ![j] = next], ReqInv(j)',
             \A i \in AiJobs \ {j} : status'[i] = status[i] /\ written'[i] = written[i]
      PROVE  RInv'
  <2>1. request' \in [AiJobs -> States]
    BY <1>a, <1>c
  <2>2. \A i \in AiJobs \ {j} : ReqInv(i)'
    BY <1>a, <1>c DEF RInv, ReqInv, Pending
  <2> QED  BY <1>a, <1>c, <2>1, <2>2 DEF RInv
<1>1. ASSUME NEW j \in AiJobs, CountActive(j) \/ Check(j) \/ StopTooLate(j) \/ Stop(j) \/ DatabaseFails(j) \/ RequestDies(j) PROVE RInv'
  <2>1. ReqInv(j) /\ status[j] \in Statuses  BY <1>a DEF RInv
  <2>2. UNCHANGED <<status, written>>
    BY <1>1 DEF CountActive, Check, StopTooLate, Stop, DatabaseFails, RequestDies, vars
  <2>3. PICK next \in States : request' = [request EXCEPT ![j] = next]
    BY <1>1 DEF CountActive, Check, StopTooLate, Stop, DatabaseFails, RequestDies, Outcome, LastLook, Settled
  <2>4. request'[j] = next  BY <1>a, <2>3
  <2>5. CASE CountActive(j) \/ DatabaseFails(j) \/ RequestDies(j)
    <3>1. next \in {"counted", "refused", "failed", "lost"} /\ (next \in {"counted", "refused"} => request[j] = "new")
      BY <1>a, <2>3, <2>5 DEF CountActive, DatabaseFails, RequestDies
    <3> QED  BY <1>c, <2>1, <2>2, <2>3, <2>4, <3>1 DEF ReqInv, Pending
  <2>6. CASE StopTooLate(j)
    <3>1. next = "stopping" /\ request[j] = "waiting" /\ ~Pending(j)
      BY <1>a, <2>3, <2>6 DEF StopTooLate
    <3>2. status[j] \in Final
      BY <2>1, <3>1 DEF ReqInv, Pending, Statuses
    <3> QED  BY <1>c, <2>2, <2>3, <2>4, <3>1, <3>2 DEF ReqInv
  <2>7. CASE Check(j) \/ Stop(j)
    <3>1. next = Outcome(j) /\ ~Pending(j)
      BY <1>a, <2>1, <2>3, <2>7 DEF Check, Stop, LastLook, ReqInv, Pending, Final
    <3>2. CASE status[j] = "done"
      <4>1. ReqInv(j)'  BY <1>b, <2>2, <2>4, <3>1, <3>2 DEF ReqInv, Outcome
      <4> QED  BY <1>c, <2>2, <2>3, <4>1
    <3>3. CASE status[j] # "done"
      <4>1. ReqInv(j)'  BY <2>2, <2>4, <3>1, <3>3 DEF ReqInv, Pending, Outcome
      <4> QED  BY <1>c, <2>2, <2>3, <4>1
    <3> QED  BY <3>2, <3>3
  <2> QED  BY <1>1, <2>5, <2>6, <2>7
<1>2. ASSUME NEW j \in AiJobs, Enqueue(j) PROVE RInv'
  <2>1. status' = [status EXCEPT ![j] = "queued"] /\ written' = written /\ request' = [request EXCEPT ![j] = "waiting"]
    BY <1>2 DEF Enqueue, InsertJob
  <2>2. status'[j] = "queued" /\ request'[j] = "waiting"
    BY <1>a, <2>1
  <2>3. ReqInv(j)'
    BY <2>2 DEF ReqInv
  <2> QED  BY <1>a, <1>c, <2>1, <2>3
<1>3. ASSUME NEW j \in AiJobs, GiveUp(j) PROVE RInv'
  <2>1. status' = [status EXCEPT ![j] = "expired"] /\ written' = written /\ request' = [request EXCEPT ![j] = "refused"]
    BY <1>3 DEF GiveUp, ExpirePending
  <2>2. status'[j] = "expired" /\ request'[j] = "refused"
    BY <1>a, <2>1
  <2>3. ReqInv(j)'
    BY <2>2 DEF ReqInv, Pending
  <2> QED  BY <1>a, <1>c, <2>1, <2>3 DEF Settled
<1>4. ASSUME NEW j \in AiJobs, DropRow(j) PROVE RInv'
  <2>1. /\ status' = [status EXCEPT ![j] = "deleted"] /\ written' = written /\ request' = [request EXCEPT ![j] = "answered"]
        /\ request[j] = "answered"
    BY <1>4, <1>a DEF DropRow, DeleteJob
  <2>2. status'[j] = "deleted" /\ request'[j] = "answered" /\ written[j] = 1
    BY <1>a, <2>1 DEF RInv, ReqInv
  <2>3. ReqInv(j)'
    BY <2>1, <2>2 DEF ReqInv
  <2> QED  BY <1>a, <1>c, <2>1, <2>3 DEF Settled
<1>5. CASE QueueStep /\ PurgedLate /\ UNCHANGED request
  <2> SUFFICES ASSUME NEW j \in AiJobs PROVE ReqInv(j)'
    BY <1>a, <1>5 DEF RInv
  <2>1. ReqInv(j) /\ status[j] \in Statuses /\ request'[j] = request[j]  BY <1>a, <1>5 DEF RInv
  <2>2. /\ ~Pending(j) => status'[j] = status[j] \/ (status[j] \in Final /\ status'[j] = "deleted")
        /\ Pending(j) => status'[j] \notin {"absent", "deleted"}
    BY <1>a, <1>5, RowKept
  <2>3. status[j] \in {"done", "deleted"} => written'[j] = written[j]
    BY <1>a, <1>5, EffectKept DEF Next
  <2>4. status'[j] = "deleted" => status[j] = "deleted" \/ request[j] \in Settled \cup {"lost"}
    BY <1>5 DEF PurgedLate
  <2> QED  BY <2>1, <2>2, <2>3, <2>4 DEF ReqInv, Pending, Final, Settled
<1>6. CASE UNCHANGED requestVars
  BY <1>a, <1>6 DEF RInv, ReqInv, requestVars, vars, Pending
<1> QED
  BY <1>1, <1>2, <1>3, <1>4, <1>5, <1>6 DEF RequestNext, RequestStep

\* The requests and their jobs keep RInv.
THEOREM RequestInv == RequestSpec => []RInv
<1>1. RequestInit => RInv
  BY InitIInv DEF RequestInit, Init, RInv, ReqInv, Jobs
<1>2. RInv /\ [RequestNext]_requestVars => RInv'
  BY RequestStepInv
<1> QED  BY <1>1, <1>2, PTL DEF RequestSpec

(***************************************************************************)
(* A request that ends without an answer leaves no job for the home        *)
(* computer, and no answer that arrived while it gave up.                  *)
(***************************************************************************)
THEOREM NothingLeftBehindCorrect == RequestSpec => []NothingLeftBehind
<1>1. RInv => NothingLeftBehind
  BY DEF RInv, ReqInv, NothingLeftBehind
<1> QED  BY <1>1, RequestInv, PTL

(***************************************************************************)
(* A request is answered from a job whose result took effect once, also    *)
(* after the row is gone, and a job exists only for a request that asked.  *)
(***************************************************************************)
THEOREM AnsweredFromResultCorrect == RequestSpec => []AnsweredFromResult
<1>1. RInv => AnsweredFromResult
  BY DEF RInv, ReqInv, AnsweredFromResult
<1> QED  BY <1>1, RequestInv, PTL

(***************************************************************************)
(* With requests that come, give up and drop rows, the table still         *)
(* implements JobLife.                                                     *)
(***************************************************************************)
THEOREM RequestImplementation == RequestSpec => ImplementsLife
<1>1. RequestInit => Life!Init
  BY DEF RequestInit, Init, Life!Init, Stage, StageOf
<1>2. RInv /\ [RequestNext]_requestVars => [Life!Next]_<<Stage, written>>
  BY RequestIStep DEF RInv
<1> QED  BY <1>1, <1>2, RequestInv, PTL DEF RequestSpec, ImplementsLife, Life!Spec
----------------------------------------------------------------------------
(* Reading of a page (PageReading).                                        *)

Images == ToSet(Photos)
Texts == {Unread, Local, Manual} \cup {Transcribed(i) : i \in Images}
JobRows == [image : Images, status : {"queued", "leased", "done", "skipped"}]
FileNames == Nat \cup {Nothing}
Steps == {"idle", "received", "moved", "saved", "protected", "skip", "insert"}
Uploads ==
  [pc : Steps, image : Images \cup {Nothing},
   old : FileNames, file : FileNames, listed : SUBSET Nat, late : BOOLEAN]

ReadingTypes ==
  /\ hand \in [pc : {"idle", "prepared", "stored", "saved"}, text : Texts] /\ taken \in 0 .. Len(Photos)
  /\ image \in Images \cup {Nothing}
  /\ flush \in [pc : {"idle", "sent", "received"}, image : Images \cup {Nothing}]
  /\ page \in Texts /\ record \in Texts
  /\ last \in {"device", "server", "same"} /\ doc \in {"local", "synced", "deleted", "gone"}
  /\ row \in {Nothing} \cup [image : Images, file : Nat]
  /\ disk \in SUBSET Nat /\ IsFiniteSet(disk)
  /\ handler \in [Handlers -> Uploads] /\ jobs \in Seq(JobRows)
  /\ apply \in [job : Nat, text : Texts \cup {Nothing}]
  /\ (hand.pc # "idle" => taken > 0) /\ (hand.pc \in {"stored", "saved"} \/ entry # Nothing => image # Nothing)
  /\ (flush.pc # "idle" => flush.image # Nothing) /\ \A h \in Busy : handler[h].image # Nothing
  /\ \A h \in Handlers : handler[h].pc = "moved" => handler[h].file # Nothing

\* A file that was moved is nobody else's until its row names it, and nobody removes the file of the row.
FilesInv ==
  /\ RowOnDisk
  /\ \A h \in Handlers : handler[h].pc = "moved" =>
       /\ handler[h].file \in disk
       /\ row # Nothing => handler[h].file # row.file
       /\ \A g \in Handlers : handler[h].file # handler[g].old
       /\ \A g \in Handlers \ {h} : handler[g].pc = "moved" => handler[h].file # handler[g].file
  /\ \A h \in Handlers : handler[h].pc = "saved" /\ row # Nothing => row.file # handler[h].old

\* Where an image stands among the photos, and how many of them the device has stored.
At(i) == CHOOSE n \in DOMAIN Photos : Photos[n] = i
Stored == IF hand.pc = "prepared" THEN taken - 1 ELSE taken
DeviceInv ==
  /\ image = IF Stored = 0 THEN Nothing ELSE Photos[Stored]
  /\ flush.pc # "idle" => At(flush.image) <= Stored

\* Images arrive in the order of the photos; an image on its way is not older than those before it.
ArrivalInv ==
  /\ \A h \in Busy : At(handler[h].image) <= Stored
  /\ \A j \in DOMAIN jobs : At(jobs[j].image) <= Stored
  /\ flush.pc = "sent" =>
       /\ \A h \in Busy : At(handler[h].image) <= At(flush.image)
       /\ \A j \in DOMAIN jobs : At(jobs[j].image) <= At(flush.image)

\* A job whose text is or will be in the page: no request with an older image comes after it.
Chosen(j) == jobs[j].status = "done" \/ (apply.job = j /\ apply.text # Nothing)
ReadInv ==
  /\ \A j \in DOMAIN jobs : jobs[j].status = "leased" =>
       \A h \in Busy : handler[h].late \/ At(jobs[j].image) <= At(handler[h].image)
  /\ \A j \in DOMAIN jobs : Chosen(j) =>
       /\ At(jobs[j].image) <= At(row.image)
       /\ \A h \in Busy : At(jobs[j].image) <= At(handler[h].image)
       /\ hand.pc = "stored" => jobs[j].image # image

\* The result about to be committed is that of its job, and not of an older image than a text that is there.
ApplyInv ==
  apply.text # Nothing =>
    /\ apply.job \in DOMAIN jobs /\ apply.text = Transcribed(jobs[apply.job].image)
    /\ \A k \in DOMAIN jobs : jobs[k].status = "done" => At(jobs[k].image) <= At(jobs[apply.job].image)

ShownInv == (last = "same" => record = page) /\ TextOfImage

PageInv == ReadingTypes /\ DeviceInv /\ ArrivalInv /\ ReadInv /\ ApplyInv /\ ShownInv

LEMMA FreeName ==
  ASSUME NEW S, IsFiniteSet(S)
  PROVE  \E n \in 1 .. Cardinality(S) + 1 : n \notin S
<1> DEFINE c == Cardinality(S)
<1> c \in Nat
  BY FS_CardinalityType
<1> SUFFICES ASSUME 1 .. c + 1 \subseteq S PROVE FALSE
  OBVIOUS
<1>1. Cardinality(1 .. c + 1) <= c
  BY FS_Subset
<1>2. Cardinality(1 .. c + 1) = c + 1
  BY FS_Interval
<1> QED
  BY <1>1, <1>2

\* The name of a new file is free: no file, row or request has it.
LEMMA FreshIsFree ==
  ASSUME ReadingTypes
  PROVE  Fresh \in Nat /\ Fresh \notin Named
<1> DEFINE olds == {handler[h].old : h \in Handlers}
           f == [h \in Handlers |-> handler[h].old]
<1>1. IsFiniteSet(olds)
  <2>1. f \in Surjection(Handlers, olds)
    BY DEF Surjection
  <2> QED
    BY <2>1, FS_Surjection, ReadingAssumption DEF ReadingAssumption
<1>2. IsFiniteSet(IF row = Nothing THEN {} ELSE {row.file})
  BY FS_EmptySet, FS_Singleton
<1>3. IsFiniteSet(Named)
  BY <1>1, <1>2, FS_Union DEF Named, ReadingTypes
<1>4. Cardinality(Named) \in Nat
  BY <1>3, FS_CardinalityType
<1>5. \E n \in 1 .. Cardinality(Named) + 1 : n \notin Named
  BY <1>3, FreeName
<1>6. Fresh \in 1 .. Cardinality(Named) + 1 /\ Fresh \notin Named
  BY <1>5 DEF Fresh
<1> QED
  BY <1>4, <1>6

\* Skipping jobs keeps their images and concerns queued ones only.
LEMMA SkippedJobs ==
  ASSUME jobs \in Seq(JobRows), NEW S
  PROVE  /\ Skipped(S) \in Seq(JobRows)
         /\ DOMAIN Skipped(S) = DOMAIN jobs
         /\ \A j \in DOMAIN jobs : /\ Skipped(S)[j].image = jobs[j].image
                                   /\ \/ Skipped(S)[j].status = jobs[j].status
                                      \/ jobs[j].status = "queued" /\ Skipped(S)[j].status = "skipped"
<1>1. ASSUME NEW j \in DOMAIN jobs
      PROVE  /\ Skipped(S)[j] \in JobRows
             /\ Skipped(S)[j].image = jobs[j].image
             /\ \/ Skipped(S)[j].status = jobs[j].status
                \/ jobs[j].status = "queued" /\ Skipped(S)[j].status = "skipped"
  <2>1. jobs[j] \in JobRows
    OBVIOUS
  <2>2. CASE j \in S /\ Waiting(j)
    <3>1. Skipped(S)[j] = [jobs[j] EXCEPT !.status = "skipped"]
      BY <2>2 DEF Skipped
    <3>2. jobs[j].status = "queued"
      BY <2>2 DEF Waiting
    <3> QED
      BY <2>1, <3>1, <3>2 DEF JobRows
  <2>3. CASE ~(j \in S /\ Waiting(j))
    BY <2>1, <2>3 DEF Skipped
  <2> QED
    BY <2>2, <2>3
<1>2. DOMAIN Skipped(S) = DOMAIN jobs
  BY DEF Skipped
<1>3. \E n \in Nat : DOMAIN jobs = 1 .. n
  BY Len(jobs) \in Nat, DOMAIN jobs = 1 .. Len(jobs)
<1>4. Skipped(S) \in [DOMAIN jobs -> JobRows]
  BY <1>1, <1>2 DEF Skipped
<1>5. Skipped(S) \in Seq(JobRows)
  BY <1>3, <1>4
<1> QED
  BY <1>1, <1>2, <1>5

LEMMA PhotoImages ==
  /\ Len(Photos) \in Nat /\ DOMAIN Photos = 1 .. Len(Photos)
  /\ \A n \in 1 .. Len(Photos) : Photos[n] \in Images
  /\ Nothing \notin Images /\ Nothing \notin Nat
BY ReadingAssumption DEF ReadingAssumption, Images, ToSet

LEMMA ReadingInitInv == ReadingInit => ReadingTypes /\ FilesInv
<1> SUFFICES ASSUME ReadingInit PROVE ReadingTypes /\ FilesInv
  OBVIOUS
<1> USE DEF ReadingInit
<1>1. hand \in [pc : {"idle", "prepared", "stored", "saved"}, text : Texts] /\ taken \in 0 .. Len(Photos)
  BY PhotoImages DEF NoHand, Texts
<1>2. flush \in [pc : {"idle", "sent", "received"}, image : Images \cup {Nothing}]
  BY DEF NoFlush
<1>3. disk \in SUBSET Nat /\ IsFiniteSet(disk)
  BY FS_EmptySet
<1>4. handler \in [Handlers -> Uploads]
  BY DEF NoHandler, Uploads, Steps, FileNames
<1>5. jobs \in Seq(JobRows)
  OBVIOUS
<1>6. apply \in [job : Nat, text : Texts \cup {Nothing}]
  BY DEF NoApply
<1>7. ReadingTypes
  BY <1>1, <1>2, <1>3, <1>4, <1>5, <1>6 DEF ReadingTypes, Texts, Busy, NoHand, NoFlush, NoHandler
<1>8. FilesInv
  BY DEF FilesInv, RowOnDisk, NoHandler
<1> QED
  BY <1>7, <1>8

\* The end of an upload leaves the device's flush idle and adds no entry.
LEMMA SettleEffect ==
  ASSUME NEW result, Settle(result)
  PROVE  flush' = NoFlush /\ (entry' # Nothing => entry # Nothing)
BY DEF Settle

\* What the end of a request on the server leaves of it, and what the device makes of it.
LEMMA EndEffect ==
  ASSUME ReadingTypes, NEW h \in Handlers, NEW result, EndUpload(h, result)
  PROVE  /\ handler' = [handler EXCEPT ![h] = NoHandler]
         /\ \A g \in Handlers \ {h} : handler'[g] = handler[g]
         /\ handler'[h] = NoHandler
         /\ UNCHANGED flush \/ flush' = NoFlush
         /\ entry' # Nothing => entry # Nothing
         /\ UNCHANGED <<hand, taken, image, page, record, last, doc, row, apply>>
BY SettleEffect DEF EndUpload, ReadingTypes, pages

\* What the result of an upload or a lost connection changes in the jobs.
LEMMA AfterJobs ==
  ASSUME ReadingTypes, NEW h \in Handlers, WriteJobs(h)
  PROVE  /\ jobs' \in Seq(JobRows)
         /\ DOMAIN jobs \subseteq DOMAIN jobs'
         /\ \A j \in DOMAIN jobs : /\ jobs'[j].image = jobs[j].image
                                   /\ \/ jobs'[j].status = jobs[j].status
                                      \/ jobs[j].status = "queued" /\ jobs'[j].status = "skipped"
         /\ \A j \in DOMAIN jobs' \ DOMAIN jobs : jobs'[j] = NewJob(handler[h].image) /\ handler[h].image \in Images
<1> DEFINE S == handler[h].listed
<1>0. jobs \in Seq(JobRows) /\ handler[h] \in Uploads
  BY DEF ReadingTypes
<1>1. /\ Skipped(S) \in Seq(JobRows)
      /\ DOMAIN Skipped(S) = DOMAIN jobs
      /\ \A j \in DOMAIN jobs : /\ Skipped(S)[j].image = jobs[j].image
                                /\ \/ Skipped(S)[j].status = jobs[j].status
                                   \/ jobs[j].status = "queued" /\ Skipped(S)[j].status = "skipped"
  BY <1>0, SkippedJobs
<1>2. CASE handler[h].pc = "protected"
  <2>1. jobs' = jobs
    BY <1>2 DEF WriteJobs
  <2> QED
    BY <1>0, <2>1
<1>3. CASE handler[h].pc = "skip"
  <2>1. jobs' = Skipped(S)
    BY <1>3 DEF WriteJobs
  <2> QED
    BY <1>1, <2>1
<1>4. CASE handler[h].pc = "insert"
  <2> DEFINE K == Skipped(S)
             e == NewJob(handler[h].image)
  <2>1. jobs' = Append(K, e)
    BY <1>4 DEF WriteJobs
  <2> HIDE DEF K, e
  <2>2. handler[h].image \in Images /\ e \in JobRows
    BY <1>4, <1>0 DEF e, NewJob, JobRows, ReadingTypes, Uploads, Busy
  <2> QED
    BY <1>1, <2>1, <2>2 DEF K, e
<1> QED
  BY <1>2, <1>3, <1>4 DEF WriteJobs

\* The record of an upload after each of its steps, and the jobs after a change of status.
MovedUpload(u, f, o) == [u EXCEPT !.pc = "moved", !.file = f, !.old = o]
SavedUpload(u) == [u EXCEPT !.pc = "saved"]
ListedUpload(u, p, l) == [u EXCEPT !.pc = p, !.listed = l, !.old = Nothing, !.file = Nothing]
LateUpload(u, b) == [u EXCEPT !.late = b]
WithStatus(j, s) == [jobs EXCEPT ![j].status = s]

LEMMA UploadMoved ==
  ASSUME NEW u \in Uploads, NEW f \in FileNames, NEW o \in FileNames
  PROVE  LET r == MovedUpload(u, f, o)
         IN  r \in Uploads /\ r.pc = "moved" /\ r.image = u.image /\ r.file = f /\ r.old = o /\ r.late = u.late
BY DEF Uploads, Steps, MovedUpload

LEMMA UploadSaved ==
  ASSUME NEW u \in Uploads
  PROVE  LET r == SavedUpload(u)
         IN  r \in Uploads /\ r.pc = "saved" /\ r.image = u.image /\ r.file = u.file /\ r.old = u.old /\ r.late = u.late
BY DEF Uploads, Steps, SavedUpload

LEMMA UploadListed ==
  ASSUME NEW u \in Uploads, NEW p \in {"protected", "skip", "insert"}, NEW l \in SUBSET Nat
  PROVE  LET r == ListedUpload(u, p, l)
         IN  r \in Uploads /\ r.pc = p /\ r.image = u.image /\ r.file = Nothing /\ r.old = Nothing /\ r.late = u.late
BY DEF Uploads, Steps, ListedUpload, FileNames

LEMMA ListStep ==
  ASSUME NEW h \in Handlers, ListJobs(h), Outdated(h) \in SUBSET Nat, Verdict(h) \in {"protected", "skip", "insert"}
  PROVE  \E p \in {"protected", "skip", "insert"}, l \in SUBSET Nat : handler' = [handler EXCEPT ![h] = ListedUpload(handler[h], p, l)]
<1>1. PICK verdict \in {Verdict(h), "protected"} :
        handler' = [handler EXCEPT ![h].pc = verdict, ![h].listed = IF verdict = "protected" THEN {} ELSE Outdated(h),
                                   ![h].old = Nothing, ![h].file = Nothing]
  BY DEF ListJobs
<1> DEFINE l == IF verdict = "protected" THEN {} ELSE Outdated(h)
<1>2. l \in SUBSET Nat /\ verdict \in {"protected", "skip", "insert"}
  BY <1>1
<1>3. handler' = [handler EXCEPT ![h] = ListedUpload(handler[h], verdict, l)]
  BY <1>1 DEF ListedUpload
<1> QED
  BY <1>2, <1>3

LEMMA UploadLate ==
  ASSUME NEW u \in Uploads, NEW b \in BOOLEAN
  PROVE  LET r == LateUpload(u, b)
         IN  r \in Uploads /\ r.pc = u.pc /\ r.image = u.image /\ r.file = u.file /\ r.old = u.old /\ r.late = b
BY DEF Uploads, LateUpload

LEMMA StatusChange ==
  ASSUME jobs \in Seq(JobRows), NEW j \in Nat, NEW s \in {"leased", "done", "skipped"}
  PROVE  /\ WithStatus(j, s) \in Seq(JobRows) /\ DOMAIN WithStatus(j, s) = DOMAIN jobs
         /\ \A k \in DOMAIN jobs : /\ WithStatus(j, s)[k].image = jobs[k].image
                                   /\ WithStatus(j, s)[k].status = IF k = j THEN s ELSE jobs[k].status
<1> DEFINE new == [jobs EXCEPT ![j].status = s]
<1>0. new = WithStatus(j, s)
  BY DEF WithStatus
<1>1. ASSUME NEW k \in DOMAIN jobs
      PROVE  new[k] \in JobRows /\ new[k].image = jobs[k].image /\ new[k].status = IF k = j THEN s ELSE jobs[k].status
  <2>1. jobs[k] \in JobRows
    OBVIOUS
  <2>2. CASE k = j
    <3>1. new[k] = [jobs[k] EXCEPT !.status = s]
      BY <2>2
    <3> QED
      BY <2>1, <2>2, <3>1 DEF JobRows
  <2>3. CASE k # j
    BY <2>1, <2>3
  <2> QED
    BY <2>2, <2>3
<1>2. DOMAIN new = DOMAIN jobs
  OBVIOUS
<1>3. \E n \in Nat : DOMAIN jobs = 1 .. n
  BY Len(jobs) \in Nat, DOMAIN jobs = 1 .. Len(jobs)
<1>4. new \in [DOMAIN jobs -> JobRows]
  BY <1>1, <1>2
<1>5. new \in Seq(JobRows)
  BY <1>3, <1>4
<1> HIDE DEF new
<1> QED
  BY <1>0, <1>1, <1>2, <1>5

LEMMA ReadingTypesDevice ==
  ASSUME ReadingTypes, TakePhoto \/ HandOver \/ Send \/ Drop \/ NotSent \/ NetworkFails \/ Correct \/ Sync \/ Refuse
  PROVE  ReadingTypes'
<1> USE PhotoImages DEF ReadingTypes, Texts, Busy, device, pages, store
<1>1. CASE TakePhoto
  BY <1>1 DEF TakePhoto
<1>2. CASE StoreImage
  BY <1>2 DEF StoreImage
<1>3. CASE CommitPage
  BY <1>3 DEF CommitPage
<1>4. CASE EnqueueUpload
  BY <1>4 DEF EnqueueUpload, NoHand
<1>5. CASE Send
  BY <1>5 DEF Send
<1>6. CASE Drop \/ NotSent
  BY <1>6 DEF Drop, NotSent, DropEntry
<1>7. CASE NetworkFails \/ Refuse
  BY <1>7, SettleEffect DEF NetworkFails, Refuse, NoFlush
<1>8. CASE Correct
  BY <1>8 DEF Correct
<1>9. CASE Sync
  BY <1>9 DEF Sync
<1> QED
  BY <1>1, <1>2, <1>3, <1>4, <1>5, <1>6, <1>7, <1>8, <1>9 DEF HandOver

LEMMA ReadingTypesUpload ==
  ASSUME ReadingTypes, NEW h \in Handlers, Receive(h) \/ Handle(h) \/ RefuseFile(h) \/ SaveFails(h)
  PROVE  ReadingTypes'
<1> USE PhotoImages DEF ReadingTypes, Busy, device, pages, store
<1>1. CASE Receive(h)
  <2>1. CASE doc = "synced"
    <3> DEFINE r == [NoHandler EXCEPT !.pc = "received", !.image = flush.image]
    <3>1. handler' = [handler EXCEPT ![h] = r] /\ flush' = [flush EXCEPT !.pc = "received"] /\ UNCHANGED entry
      BY <1>1, <2>1 DEF Receive
    <3>2. r \in Uploads /\ r.image # Nothing /\ r.pc # "moved"
      BY <1>1 DEF Receive, NoHandler, Uploads, Steps, FileNames
    <3> HIDE DEF r
    <3>3. handler' \in [Handlers -> Uploads] /\ \A g \in Handlers : (handler'[g].pc = "moved" => handler'[g].file # Nothing) /\ (handler'[g].pc # "idle" => handler'[g].image # Nothing)
      BY <3>1, <3>2
    <3> QED
      BY <1>1, <3>1, <3>3 DEF Receive
  <2>2. CASE doc # "synced"
    BY <1>1, <2>2, SettleEffect DEF Receive, NoFlush
  <2> QED
    BY <2>1, <2>2
<1>2. CASE MoveFile(h)
  <2> DEFINE o == IF row = Nothing THEN Nothing ELSE row.file
         r == MovedUpload(handler[h], Fresh, o)
  <2>1. handler' = [handler EXCEPT ![h] = r] /\ disk' = disk \cup {Fresh} /\ handler[h].pc = "received"
    BY <1>2 DEF MoveFile, MovedUpload
  <2>2. r \in Uploads /\ r.image = handler[h].image /\ r.file # Nothing
    <3>1. handler[h] \in Uploads /\ Fresh \in FileNames /\ o \in FileNames /\ Fresh # Nothing
      BY FreshIsFree DEF FileNames
    <3> HIDE DEF o, ReadingTypes, Busy
    <3> QED
      BY <3>1, UploadMoved
  <2> HIDE DEF r
  <2>3. handler' \in [Handlers -> Uploads] /\ \A g \in Handlers : (handler'[g].pc = "moved" => handler'[g].file # Nothing) /\ (handler'[g].pc # "idle" => handler'[g].image # Nothing)
    BY <2>1, <2>2
  <2>4. disk' \in SUBSET Nat /\ IsFiniteSet(disk')
    BY <2>1, FreshIsFree, FS_AddElement
  <2> QED
    BY <1>2, <2>3, <2>4 DEF MoveFile
<1>3. CASE SaveRow(h)
  <2> DEFINE r == SavedUpload(handler[h])
  <2>1. handler' = [handler EXCEPT ![h] = r] /\ handler[h].pc = "moved" /\ row' = [image |-> handler[h].image, file |-> handler[h].file]
    BY <1>3 DEF SaveRow, SavedUpload
  <2>2. r \in Uploads /\ r.image = handler[h].image /\ r.pc = "saved"
    BY UploadSaved
  <2> HIDE DEF r
  <2>3. handler' \in [Handlers -> Uploads] /\ \A g \in Handlers : (handler'[g].pc = "moved" => handler'[g].file # Nothing) /\ (handler'[g].pc # "idle" => handler'[g].image # Nothing)
    BY <2>1, <2>2
  <2>4. row' \in [image : Images, file : Nat]
    BY <2>1 DEF Uploads, FileNames
  <2> QED
    BY <1>3, <2>3, <2>4 DEF SaveRow
<1>4. CASE ListJobs(h)
  <2>0. Outdated(h) \in SUBSET Nat /\ Verdict(h) \in {"protected", "skip", "insert"}
    BY DEF Outdated, Verdict
  <2>2. PICK p \in {"protected", "skip", "insert"}, l \in SUBSET Nat : handler' = [handler EXCEPT ![h] = ListedUpload(handler[h], p, l)]
    BY <1>4, <2>0, ListStep
  <2> DEFINE r == ListedUpload(handler[h], p, l)
  <2>1. handler' = [handler EXCEPT ![h] = r] /\ disk' = disk \ {OldFile(h)} /\ handler[h].pc = "saved"
    BY <1>4, <2>2 DEF ListJobs
  <2>3. r \in Uploads /\ r.image = handler[h].image /\ r.pc # "moved"
    BY UploadListed
  <2> HIDE DEF r
  <2>4. handler' \in [Handlers -> Uploads] /\ \A g \in Handlers : (handler'[g].pc = "moved" => handler'[g].file # Nothing) /\ (handler'[g].pc # "idle" => handler'[g].image # Nothing)
    BY <2>1, <2>3
  <2>5. disk' \in SUBSET Nat /\ IsFiniteSet(disk')
    BY <2>1, FS_RemoveElement
  <2> QED
    BY <1>4, <2>4, <2>5 DEF ListJobs
<1>5. ASSUME NEW result, EndUpload(h, result), jobs' \in Seq(JobRows), disk' \in SUBSET Nat, IsFiniteSet(disk') PROVE ReadingTypes'
  <2>1. handler' = [handler EXCEPT ![h] = NoHandler] /\ NoHandler \in Uploads /\ NoHandler.pc = "idle"
    BY <1>5, EndEffect DEF NoHandler, Uploads, Steps, FileNames
  <2>2. /\ UNCHANGED flush \/ flush' = NoFlush
        /\ entry' # Nothing => entry # Nothing
        /\ UNCHANGED <<hand, taken, image, page, record, last, doc, row, apply>>
    BY <1>5, EndEffect
  <2>3. handler' \in [Handlers -> Uploads] /\ \A g \in Handlers : (handler'[g].pc = "moved" => handler'[g].file # Nothing) /\ (handler'[g].pc # "idle" => handler'[g].image # Nothing)
    BY <2>1
  <2> QED
    BY <1>5, <2>2, <2>3 DEF NoFlush
<1>6. CASE WriteJobs(h)
  BY <1>5, <1>6, AfterJobs DEF WriteJobs
<1>7. CASE RefuseFile(h)
  BY <1>5, <1>7 DEF RefuseFile
<1>8. CASE SaveFails(h)
  <2>1. disk' \in SUBSET Nat /\ IsFiniteSet(disk')
    BY <1>8, FS_RemoveElement DEF SaveFails
  <2> QED
    BY <1>5, <1>8, <2>1 DEF SaveFails
<1> QED
  BY <1>1, <1>2, <1>3, <1>4, <1>6, <1>7, <1>8 DEF Handle

LEMMA ReadingTypesResult ==
  ASSUME ReadingTypes, (\E j \in DOMAIN jobs : Lease(j) \/ Decide(j)) \/ Commit \/ Delete \/ Restart
  PROVE  ReadingTypes'
<1> USE DEF ReadingTypes, Busy, device, pages, store
<1>0. ASSUME NEW j \in DOMAIN jobs PROVE j \in Nat /\ jobs[j] \in JobRows /\ jobs[j].image \in Images
  <2>1. jobs[j] \in JobRows /\ DOMAIN jobs = 1 .. Len(jobs) /\ Len(jobs) \in Nat
    OBVIOUS
  <2> QED
    BY <2>1 DEF JobRows
<1>1. ASSUME NEW j \in DOMAIN jobs, Lease(j) PROVE ReadingTypes'
  <2>1. jobs' \in Seq(JobRows)
    <3>1. jobs \in Seq(JobRows) /\ j \in Nat /\ jobs' = WithStatus(j, "leased")
      BY <1>1, <1>0 DEF Lease, WithStatus
    <3> QED
      BY <3>1, StatusChange
  <2>2. ASSUME NEW g \in Handlers
        PROVE  /\ handler'[g] \in Uploads /\ handler'[g].pc = handler[g].pc
               /\ handler'[g].image = handler[g].image /\ handler'[g].file = handler[g].file
    <3> DEFINE b == g \in Busy
    <3>1. handler[g] \in Uploads /\ handler'[g] = LateUpload(handler[g], b) /\ b \in BOOLEAN
      BY <1>1 DEF Lease, LateUpload
    <3> HIDE DEF b, ReadingTypes, Busy
    <3> QED
      BY <3>1, UploadLate
  <2>3. handler' \in [Handlers -> Uploads]
    BY <1>1, <2>2 DEF Lease
  <2>4. UNCHANGED <<hand, taken, image, entry, flush, page, record, last, doc, row, disk, apply>>
    BY <1>1 DEF Lease
  <2>5. \A g \in Handlers : (handler'[g].pc = "moved" => handler'[g].file # Nothing) /\ (handler'[g].pc # "idle" => handler'[g].image # Nothing)
    BY <2>2
  <2> QED
    BY <2>1, <2>3, <2>4, <2>5
<1>2. ASSUME NEW j \in DOMAIN jobs, Decide(j) PROVE ReadingTypes'
  <2>1. jobs[j].image \in Images /\ j \in Nat
    BY <1>0
  <2>2. apply' \in [job : Nat, text : Texts \cup {Nothing}]
    BY <1>2, <2>1 DEF Decide, Texts
  <2> QED
    BY <1>2, <2>2 DEF Decide
<1>3. CASE Commit
  <2>1. jobs' \in Seq(JobRows)
    <3>1. jobs' = WithStatus(apply.job, "skipped") \/ jobs' = WithStatus(apply.job, "done")
      BY <1>3 DEF Commit, WithStatus
    <3> QED
      BY <3>1, StatusChange
  <2>2. record' \in Texts /\ last' \in {"device", "server", "same"} /\ apply' \in [job : Nat, text : Texts \cup {Nothing}]
    BY <1>3 DEF Commit, NoApply
  <2> QED
    BY <1>3, <2>1, <2>2 DEF Commit
<1>4. CASE Delete
  BY <1>4, SkippedJobs DEF Delete
<1>5. CASE Restart
  <2>1. handler' \in [Handlers -> Uploads] /\ \A g \in Handlers : handler'[g].pc = "idle"
    BY <1>5 DEF Restart, NoHandler, Uploads, Steps, FileNames
  <2> QED
    BY <1>5, <2>1 DEF Restart, NoApply
<1> QED
  BY <1>1, <1>2, <1>3, <1>4, <1>5

LEMMA ReadingTypesStep ==
  ASSUME ReadingTypes, [ReadingNext]_reading
  PROVE  ReadingTypes'
<1>1. CASE UNCHANGED reading
  BY <1>1 DEF ReadingTypes, Busy, reading
<1> QED
  BY <1>1, ReadingTypesDevice, ReadingTypesUpload, ReadingTypesResult DEF ReadingNext

\* What the steps of an upload do to it; the other uploads stay as they are.
Others(h) == \A g \in Handlers \ {h} : handler'[g] = handler[g]

LEMMA ReceiveEffect ==
  ASSUME ReadingTypes, NEW h \in Handlers, Receive(h)
  PROVE  /\ flush.pc = "sent" /\ flush'.pc # "sent"
         /\ \/ UNCHANGED handler /\ flush' = NoFlush
            \/ /\ Others(h) /\ handler[h].pc = "idle" /\ flush'.image = flush.image
               /\ handler'[h].pc = "received" /\ handler'[h].image = flush.image /\ handler'[h].old = Nothing /\ ~handler'[h].late
<1>0. flush.pc = "sent" /\ handler[h].pc = "idle" /\ flush \in [pc : {"idle", "sent", "received"}, image : Images \cup {Nothing}]
  <2>1. Busy # Handlers /\ Busy \subseteq Handlers /\ h = CHOOSE free \in Handlers \ Busy : TRUE
    BY DEF Receive, Busy
  <2> QED
    BY <2>1 DEF Receive, Busy, ReadingTypes
<1>1. CASE doc = "synced"
  <2>1. handler' = [handler EXCEPT ![h] = [NoHandler EXCEPT !.pc = "received", !.image = flush.image]]
    BY <1>1 DEF Receive
  <2>2. flush' = [flush EXCEPT !.pc = "received"]
    BY <1>1 DEF Receive
  <2>3. handler'[h] = [NoHandler EXCEPT !.pc = "received", !.image = flush.image] /\ Others(h)
    BY <2>1 DEF ReadingTypes, Others
  <2> QED
    BY <1>0, <2>2, <2>3 DEF NoHandler
<1>2. CASE doc # "synced"
  BY <1>0, <1>2, SettleEffect DEF Receive, NoFlush
<1> QED
  BY <1>1, <1>2

LEMMA MoveEffect ==
  ASSUME ReadingTypes, NEW h \in Handlers, MoveFile(h)
  PROVE  /\ handler[h].pc = "received" /\ disk' = disk \cup {Fresh} /\ UNCHANGED row /\ Others(h)
         /\ handler'[h].pc = "moved" /\ handler'[h].file = Fresh
         /\ handler'[h].old = IF row = Nothing THEN Nothing ELSE row.file
         /\ handler'[h].image = handler[h].image /\ handler'[h].late = handler[h].late
<1> DEFINE o == IF row = Nothing THEN Nothing ELSE row.file
<1>1. handler[h] \in Uploads /\ Fresh \in FileNames /\ o \in FileNames
  BY FreshIsFree DEF ReadingTypes, FileNames
<1>2. /\ handler[h].pc = "received" /\ disk' = disk \cup {Fresh} /\ UNCHANGED row /\ Others(h)
      /\ handler'[h] = MovedUpload(handler[h], Fresh, o)
  BY DEF MoveFile, MovedUpload, Others, ReadingTypes
<1> HIDE DEF o
<1>3. handler'[h].pc = "moved" /\ handler'[h].file = Fresh /\ handler'[h].old = o
      /\ handler'[h].image = handler[h].image /\ handler'[h].late = handler[h].late
  BY <1>1, <1>2, UploadMoved
<1> QED
  BY <1>2, <1>3 DEF o

LEMMA SaveEffect ==
  ASSUME ReadingTypes, NEW h \in Handlers, SaveRow(h)
  PROVE  /\ handler[h].pc = "moved" /\ row' = [image |-> handler[h].image, file |-> handler[h].file] /\ UNCHANGED disk /\ Others(h)
         /\ handler'[h].pc = "saved" /\ handler'[h].old = handler[h].old
         /\ handler'[h].image = handler[h].image /\ handler'[h].late = handler[h].late
<1>1. handler[h] \in Uploads
  BY DEF ReadingTypes
<1>2. /\ handler[h].pc = "moved" /\ row' = [image |-> handler[h].image, file |-> handler[h].file] /\ UNCHANGED disk /\ Others(h)
      /\ handler'[h] = SavedUpload(handler[h])
  BY DEF SaveRow, SavedUpload, Others, ReadingTypes
<1> QED
  BY <1>1, <1>2, UploadSaved

LEMMA ListEffect ==
  ASSUME ReadingTypes, NEW h \in Handlers, ListJobs(h)
  PROVE  /\ handler[h].pc = "saved" /\ disk' = disk \ {handler[h].old} /\ UNCHANGED row /\ Others(h)
         /\ handler'[h].pc \in {"protected", "skip", "insert"} /\ handler'[h].old = Nothing
         /\ handler'[h].image = handler[h].image /\ handler'[h].late = handler[h].late
<1>1. handler[h] \in Uploads /\ Outdated(h) \in SUBSET Nat /\ Verdict(h) \in {"protected", "skip", "insert"}
  BY DEF ReadingTypes, Outdated, Verdict
<1>2. /\ handler[h].pc = "saved" /\ disk' = disk \ {handler[h].old} /\ UNCHANGED row /\ Others(h)
      /\ \E p \in {"protected", "skip", "insert"}, l \in SUBSET Nat : handler'[h] = ListedUpload(handler[h], p, l)
  <2>1. PICK p \in {"protected", "skip", "insert"}, l \in SUBSET Nat : handler' = [handler EXCEPT ![h] = ListedUpload(handler[h], p, l)]
    BY <1>1, ListStep
  <2>2. handler'[h] = ListedUpload(handler[h], p, l) /\ Others(h)
    BY <2>1 DEF Others, ReadingTypes
  <2> QED
    BY <2>2 DEF ListJobs, OldFile
<1> QED
  BY <1>1, <1>2, UploadListed

LEMMA LeaseEffect ==
  ASSUME ReadingTypes, NEW j \in DOMAIN jobs, Lease(j)
  PROVE  /\ jobs[j].status = "queued" /\ jobs' \in Seq(JobRows) /\ DOMAIN jobs' = DOMAIN jobs
         /\ \A k \in DOMAIN jobs : /\ jobs'[k].image = jobs[k].image
                                   /\ jobs'[k].status = IF k = j THEN "leased" ELSE jobs[k].status
         /\ \A g \in Handlers : /\ handler'[g].pc = handler[g].pc /\ handler'[g].image = handler[g].image
                                /\ handler'[g].file = handler[g].file /\ handler'[g].old = handler[g].old
                                /\ handler'[g].late <=> g \in Busy
<1>1. jobs \in Seq(JobRows) /\ j \in Nat
  BY DEF ReadingTypes
<1>2. jobs[j].status = "queued" /\ jobs' = WithStatus(j, "leased")
  BY DEF Lease, WithStatus
<1>3. ASSUME NEW g \in Handlers
      PROVE  /\ handler'[g].pc = handler[g].pc /\ handler'[g].image = handler[g].image
             /\ handler'[g].file = handler[g].file /\ handler'[g].old = handler[g].old
             /\ handler'[g].late <=> g \in Busy
  <2> DEFINE b == g \in Busy
  <2>1. handler[g] \in Uploads /\ handler'[g] = LateUpload(handler[g], b) /\ b \in BOOLEAN
    BY DEF ReadingTypes, Lease, LateUpload
  <2> HIDE DEF b
  <2>2. handler'[g].late = b
    BY <2>1, UploadLate
  <2>3. /\ handler'[g].pc = handler[g].pc /\ handler'[g].image = handler[g].image
        /\ handler'[g].file = handler[g].file /\ handler'[g].old = handler[g].old
    BY <2>1, UploadLate
  <2> QED
    BY <2>2, <2>3 DEF b
<1> QED
  BY <1>1, <1>2, <1>3, StatusChange

LEMMA FilesStep ==
  ASSUME ReadingTypes, FilesInv, [ReadingNext]_reading
  PROVE  FilesInv'
<1> USE DEF FilesInv, RowOnDisk
<1>0. /\ handler \in [Handlers -> Uploads] /\ row \in {Nothing} \cup [image : Images, file : Nat]
      /\ \A h \in Handlers : handler[h].pc = "moved" => handler[h].file # Nothing
      /\ Nothing \notin Nat
  BY PhotoImages DEF ReadingTypes
<1>1. CASE UNCHANGED <<handler, row, disk>>
  BY <1>1
<1>2. ASSUME NEW h \in Handlers, Receive(h) PROVE FilesInv'
  <2>1. UNCHANGED <<row, disk>>
    BY <1>2 DEF Receive, store
  <2>2. CASE UNCHANGED handler
    BY <1>1, <2>1, <2>2
  <2>3. CASE Others(h) /\ handler'[h].pc = "received" /\ handler'[h].old = Nothing
    BY <1>0, <2>1, <2>3 DEF Others
  <2> QED
    BY <1>2, <2>2, <2>3, ReceiveEffect
<1>3. ASSUME NEW h \in Handlers, MoveFile(h) PROVE FilesInv'
  <2>1. Fresh \in Nat /\ Fresh \notin disk /\ Fresh # Nothing /\ (row # Nothing => Fresh # row.file) /\ \A g \in Handlers : Fresh # handler[g].old
    BY <1>0, FreshIsFree DEF Named
  <2>2. /\ disk' = disk \cup {Fresh} /\ UNCHANGED row /\ Others(h)
        /\ handler'[h].pc = "moved" /\ handler'[h].file = Fresh
        /\ handler'[h].old = IF row = Nothing THEN Nothing ELSE row.file
    BY <1>3, MoveEffect
  <2>3. ASSUME NEW g \in Handlers \ {h} PROVE handler'[g] = handler[g]
    BY <2>2 DEF Others
  <2>4. RowOnDisk'
    BY <2>2
  <2>5. ASSUME NEW g \in Handlers, handler'[g].pc = "moved"
        PROVE  /\ handler'[g].file \in disk'
               /\ row' # Nothing => handler'[g].file # row'.file
               /\ \A k \in Handlers : handler'[g].file # handler'[k].old
               /\ \A k \in Handlers \ {g} : handler'[k].pc = "moved" => handler'[g].file # handler'[k].file
    <3>1. CASE g = h
      <4>1. handler'[g].file = Fresh
        BY <2>2, <3>1
      <4>2. ASSUME NEW k \in Handlers PROVE Fresh # handler'[k].old
        BY <2>1, <2>2, <2>3, <4>1
      <4>3. ASSUME NEW k \in Handlers \ {g}, handler'[k].pc = "moved" PROVE Fresh # handler'[k].file
        BY <2>1, <2>3, <3>1, <4>3
      <4> QED
        BY <2>1, <2>2, <4>1, <4>2, <4>3
    <3>2. CASE g # h
      <4>1. handler'[g] = handler[g] /\ handler[g].pc = "moved" /\ handler[g].file \in disk /\ handler[g].file # Nothing
        BY <1>0, <2>3, <2>5, <3>2
      <4>2. ASSUME NEW k \in Handlers PROVE handler[g].file # handler'[k].old
        BY <2>2, <2>3, <4>1
      <4> QED
        BY <2>1, <2>2, <2>3, <4>1, <4>2
    <3> QED
      BY <3>1, <3>2
  <2>6. ASSUME NEW g \in Handlers, handler'[g].pc = "saved", row' # Nothing PROVE row'.file # handler'[g].old
    BY <2>2, <2>3, <2>6
  <2> QED
    BY <2>4, <2>5, <2>6
<1>4. ASSUME NEW h \in Handlers, SaveRow(h) PROVE FilesInv'
  BY <1>0, <1>4, SaveEffect DEF Others
<1>5. ASSUME NEW h \in Handlers, ListJobs(h) PROVE FilesInv'
  <2>1. /\ handler[h].pc = "saved" /\ disk' = disk \ {handler[h].old} /\ UNCHANGED row /\ Others(h)
        /\ handler'[h].pc # "saved" /\ handler'[h].pc # "moved" /\ handler'[h].old = Nothing
    BY <1>5, ListEffect
  <2>2. RowOnDisk'
    BY <2>1
  <2>3. ASSUME NEW g \in Handlers, handler'[g].pc = "moved"
        PROVE  handler[g].pc = "moved" /\ handler'[g] = handler[g] /\ g # h
    BY <2>1, <2>3 DEF Others
  <2>4. ASSUME NEW g \in Handlers, handler'[g].pc = "saved"
        PROVE  handler[g].pc = "saved" /\ handler'[g] = handler[g]
    BY <2>1, <2>4 DEF Others
  <2>5. ASSUME NEW g \in Handlers
        PROVE  handler'[g].old = Nothing \/ handler'[g] = handler[g]
    BY <2>1 DEF Others
  <2> QED
    BY <1>0, <2>1, <2>2, <2>3, <2>4, <2>5
<1>6. ASSUME NEW h \in Handlers, WriteJobs(h) \/ RefuseFile(h) \/ SaveFails(h) PROVE FilesInv'
  <2>1. PICK result : EndUpload(h, result)
    BY <1>6 DEF WriteJobs, RefuseFile, SaveFails
  <2>2. UNCHANGED row /\ handler' = [handler EXCEPT ![h] = NoHandler] /\ NoHandler.old = Nothing /\ NoHandler.pc = "idle"
    BY <2>1, EndEffect DEF NoHandler
  <2>3. CASE UNCHANGED disk
    BY <1>0, <2>2, <2>3
  <2>4. CASE handler[h].pc = "moved" /\ disk' = disk \ {handler[h].file}
    <3>1. RowOnDisk'
      BY <2>2, <2>4
    <3>2. ASSUME NEW g \in Handlers, handler'[g].pc \in {"moved", "saved"} PROVE g # h /\ handler'[g] = handler[g]
      BY <1>0, <2>2, <3>2
    <3>3. \A g \in Handlers : handler'[g].old \in {Nothing, handler[g].old}
      BY <1>0, <2>2
    <3> QED
      BY <1>0, <2>2, <2>4, <3>1, <3>2, <3>3
  <2> QED
    BY <1>6, <2>3, <2>4 DEF WriteJobs, RefuseFile, SaveFails
<1>7. ASSUME NEW j \in DOMAIN jobs, Lease(j) PROVE FilesInv'
  <2>1. UNCHANGED <<row, disk>>
    BY <1>7 DEF Lease, store
  <2> QED
    BY <1>7, <2>1, LeaseEffect
<1>8. CASE Restart
  <2>1. UNCHANGED <<row, disk>> /\ \A g \in Handlers : handler'[g].pc = "idle"
    BY <1>8 DEF Restart, store, NoHandler
  <2> QED
    BY <1>0, <2>1
<1>9. CASE TakePhoto \/ HandOver \/ Send \/ Drop \/ NotSent \/ NetworkFails \/ Correct \/ Sync \/ Refuse \/ (\E j \in DOMAIN jobs : Decide(j)) \/ Commit \/ Delete
  BY <1>1, <1>9 DEF TakePhoto, HandOver, StoreImage, CommitPage, EnqueueUpload, Send, Drop, NotSent, DropEntry, NetworkFails, Refuse, Correct, Sync, Decide, Commit, Delete, store
<1> QED
  BY <1>1, <1>2, <1>3, <1>4, <1>5, <1>6, <1>7, <1>8, <1>9 DEF ReadingNext, Handle, reading

\* With distinct photos an image has one place among them.
LEMMA AtPhoto ==
  ASSUME IsInjective(Photos)
  PROVE  /\ Len(Photos) \in Nat
         /\ \A n \in 1 .. Len(Photos) : Photos[n] \in Images /\ At(Photos[n]) = n
         /\ \A i \in Images : At(i) \in 1 .. Len(Photos) /\ Photos[At(i)] = i
<1>1. DOMAIN Photos = 1 .. Len(Photos) /\ Len(Photos) \in Nat
  BY PhotoImages
<1>2. ASSUME NEW n \in 1 .. Len(Photos) PROVE At(Photos[n]) = n
  <2>1. \E m \in DOMAIN Photos : Photos[m] = Photos[n]
    BY <1>1
  <2>2. At(Photos[n]) \in DOMAIN Photos /\ Photos[At(Photos[n])] = Photos[n]
    BY <2>1 DEF At
  <2> QED
    BY <1>1, <2>2 DEF IsInjective
<1>3. ASSUME NEW i \in Images PROVE \E n \in 1 .. Len(Photos) : i = Photos[n]
  BY <1>1 DEF Images, ToSet
<1> QED
  BY <1>1, <1>2, <1>3, PhotoImages

\* What a step can do to the jobs of the page.
LEMMA JobsEffect ==
  ASSUME ReadingTypes, [ReadingNext]_reading
  PROVE  /\ DOMAIN jobs \subseteq DOMAIN jobs'
         /\ \A j \in DOMAIN jobs :
              /\ jobs[j].image \in Images /\ jobs'[j].image = jobs[j].image
              /\ jobs'[j].status = "leased" => jobs[j].status = "leased" \/ Lease(j)
              /\ jobs'[j].status = "done" => jobs[j].status = "done" \/ (Commit /\ j = apply.job /\ apply.text # Nothing)
         /\ \A j \in DOMAIN jobs' \ DOMAIN jobs :
              /\ jobs'[j].status = "queued"
              /\ \E h \in Busy : WriteJobs(h) /\ jobs'[j].image = handler[h].image
<1> DEFINE Goal ==
      /\ DOMAIN jobs \subseteq DOMAIN jobs'
      /\ \A j \in DOMAIN jobs :
           /\ jobs'[j].image = jobs[j].image
           /\ jobs'[j].status = "leased" => jobs[j].status = "leased" \/ Lease(j)
           /\ jobs'[j].status = "done" => jobs[j].status = "done" \/ (Commit /\ j = apply.job /\ apply.text # Nothing)
      /\ \A j \in DOMAIN jobs' \ DOMAIN jobs :
           /\ jobs'[j].status = "queued"
           /\ \E h \in Busy : WriteJobs(h) /\ jobs'[j].image = handler[h].image
<1>0. jobs \in Seq(JobRows) /\ apply.job \in Nat /\ \A j \in DOMAIN jobs : jobs[j].image \in Images
  <2>1. jobs \in Seq(JobRows) /\ apply.job \in Nat
    BY DEF ReadingTypes
  <2>2. \A j \in DOMAIN jobs : jobs[j] \in JobRows
    BY <2>1
  <2> QED
    BY <2>1, <2>2 DEF JobRows
<1>1. ASSUME UNCHANGED jobs PROVE Goal
  BY <1>1
<1>2. ASSUME NEW h \in Handlers, WriteJobs(h) PROVE Goal
  <2>1. h \in Busy
    BY <1>2 DEF WriteJobs, Busy
  <2> QED
    BY <1>2, <2>1, AfterJobs DEF NewJob
<1>3. ASSUME NEW j \in DOMAIN jobs, Lease(j) PROVE Goal
  BY <1>3, LeaseEffect
<1>4. ASSUME Commit PROVE Goal
  <2>1. CASE apply.text = Nothing
    <3>1. jobs' = WithStatus(apply.job, "skipped")
      BY <1>4, <2>1 DEF Commit, WithStatus
    <3> QED
      BY <1>0, <3>1, StatusChange
  <2>2. CASE apply.text # Nothing
    <3>1. jobs' = WithStatus(apply.job, "done")
      BY <1>4, <2>2 DEF Commit, WithStatus
    <3> QED
      BY <1>0, <1>4, <2>2, <3>1, StatusChange
  <2> QED
    BY <2>1, <2>2
<1>5. ASSUME Delete PROVE Goal
  BY <1>0, <1>5, SkippedJobs DEF Delete
<1>6. ASSUME TakePhoto \/ HandOver \/ Send \/ Drop \/ NotSent \/ NetworkFails \/ Correct \/ Sync \/ Refuse \/ Restart \/ UNCHANGED reading PROVE Goal
  BY <1>1, <1>6 DEF TakePhoto, HandOver, StoreImage, CommitPage, EnqueueUpload, Send, Drop, NotSent, DropEntry, NetworkFails, Refuse, Correct, Sync, Restart, reading
<1>7. ASSUME NEW h \in Handlers, Receive(h) \/ MoveFile(h) \/ SaveRow(h) \/ ListJobs(h) \/ RefuseFile(h) \/ SaveFails(h) PROVE Goal
  BY <1>1, <1>7 DEF Receive, MoveFile, SaveRow, ListJobs, RefuseFile, SaveFails
<1>8. ASSUME NEW j \in DOMAIN jobs, Decide(j) PROVE Goal
  BY <1>1, <1>8 DEF Decide
<1>9. Goal
  <2> HIDE DEF Goal
  <2> QED
    BY <1>2, <1>3, <1>4, <1>5, <1>6, <1>7, <1>8 DEF ReadingNext, Handle
<1> QED
  BY <1>0, <1>9

\* What a step can do to the uploads that are on their way.
LEMMA UploadsEffect ==
  ASSUME ReadingTypes, [ReadingNext]_reading
  PROVE  \A g \in Handlers : handler'[g].pc # "idle" =>
           \/ g \in Busy /\ handler'[g].image = handler[g].image /\ (handler[g].late => handler'[g].late)
           \/ g \notin Busy /\ Receive(g) /\ flush.pc = "sent" /\ handler'[g].image = flush.image /\ flush'.pc # "sent"
<1> DEFINE Stays(g) == g \in Busy /\ handler'[g].image = handler[g].image /\ (handler[g].late => handler'[g].late)
           Comes(g) == g \notin Busy /\ Receive(g) /\ flush.pc = "sent" /\ handler'[g].image = flush.image /\ flush'.pc # "sent"
           Goal == \A g \in Handlers : handler'[g].pc # "idle" => Stays(g) \/ Comes(g)
<1>0. handler \in [Handlers -> Uploads]
  BY DEF ReadingTypes
<1>1. ASSUME UNCHANGED handler PROVE Goal
  BY <1>1 DEF Busy
<1>2. ASSUME NEW h \in Handlers, Receive(h) PROVE Goal
  <2>1. CASE UNCHANGED handler
    BY <1>1, <2>1
  <2>2. CASE Others(h) /\ handler[h].pc = "idle" /\ handler'[h].image = flush.image /\ flush.pc = "sent" /\ flush'.pc # "sent"
    BY <1>2, <2>2 DEF Others, Busy
  <2> HIDE DEF Goal
  <2> QED
    BY <1>2, <2>1, <2>2, ReceiveEffect
<1>3. ASSUME NEW h \in Handlers, MoveFile(h) PROVE Goal
  BY <1>3, MoveEffect DEF Others, Busy
<1>4. ASSUME NEW h \in Handlers, SaveRow(h) PROVE Goal
  BY <1>4, SaveEffect DEF Others, Busy
<1>5. ASSUME NEW h \in Handlers, ListJobs(h) PROVE Goal
  BY <1>5, ListEffect DEF Others, Busy
<1>6. ASSUME NEW h \in Handlers, WriteJobs(h) \/ RefuseFile(h) \/ SaveFails(h) PROVE Goal
  <2>1. handler' = [handler EXCEPT ![h] = NoHandler] /\ NoHandler.pc = "idle"
    BY <1>6 DEF WriteJobs, RefuseFile, SaveFails, EndUpload, NoHandler
  <2> QED
    BY <1>0, <2>1 DEF Busy
<1>7. ASSUME NEW j \in DOMAIN jobs, Lease(j) PROVE Goal
  BY <1>7, LeaseEffect DEF Busy
<1>8. ASSUME Restart PROVE Goal
  <2>1. \A g \in Handlers : handler'[g].pc = "idle"
    BY <1>8 DEF Restart, NoHandler
  <2> QED
    BY <2>1
<1>9. ASSUME TakePhoto \/ HandOver \/ Send \/ Drop \/ NotSent \/ NetworkFails \/ Correct \/ Sync \/ Refuse \/ (\E j \in DOMAIN jobs : Decide(j)) \/ Commit \/ Delete \/ UNCHANGED reading PROVE Goal
  BY <1>1, <1>9 DEF TakePhoto, HandOver, StoreImage, CommitPage, EnqueueUpload, Send, Drop, NotSent, DropEntry, NetworkFails, Refuse, Correct, Sync, Decide, Commit, Delete, store, reading
<1>10. Goal
  <2> HIDE DEF Goal
  <2> QED
    BY <1>2, <1>3, <1>4, <1>5, <1>6, <1>7, <1>8, <1>9 DEF ReadingNext, Handle
<1> QED
  BY <1>10

\* The image of the device and the one that is being sent.
LEMMA StoredEffect ==
  ASSUME ReadingTypes, [ReadingNext]_reading
  PROVE  /\ Stored \in 0 .. Len(Photos)
         /\ \/ Stored' = Stored /\ UNCHANGED image /\ (hand'.pc = "stored" => hand.pc = "stored")
            \/ StoreImage /\ Stored' = Stored + 1 /\ Stored + 1 \in 1 .. Len(Photos) /\ image' = Photos[Stored + 1]
<1>0. taken \in 0 .. Len(Photos) /\ Len(Photos) \in Nat /\ (hand.pc # "idle" => taken > 0)
      /\ hand \in [pc : {"idle", "prepared", "stored", "saved"}, text : Texts]
  BY PhotoImages DEF ReadingTypes
<1>1. Stored \in 0 .. Len(Photos)
  BY <1>0 DEF Stored
<1> USE <1>0 DEF Stored
<1>2. CASE TakePhoto
  BY <1>1, <1>2 DEF TakePhoto
<1>3. CASE StoreImage
  BY <1>1, <1>3 DEF StoreImage
<1>4. CASE CommitPage
  BY <1>1, <1>4 DEF CommitPage
<1>5. CASE EnqueueUpload
  BY <1>1, <1>5 DEF EnqueueUpload, NoHand
<1>6. CASE UNCHANGED <<hand, taken, image>>
  BY <1>1, <1>6
<1>7. CASE Send \/ Drop \/ NotSent \/ NetworkFails \/ Refuse \/ Correct \/ Sync \/ Commit \/ Delete \/ Restart \/ UNCHANGED reading
  BY <1>6, <1>7 DEF Send, Drop, NotSent, DropEntry, NetworkFails, Refuse, Correct, Sync, Commit, Delete, Restart, device, reading
<1>8. ASSUME NEW h \in Handlers, Receive(h) \/ Handle(h) \/ RefuseFile(h) \/ SaveFails(h) PROVE UNCHANGED <<hand, taken, image>>
  BY <1>8 DEF Receive, Handle, MoveFile, SaveRow, ListJobs, WriteJobs, RefuseFile, SaveFails, EndUpload, device
<1>9. ASSUME NEW j \in DOMAIN jobs, Lease(j) \/ Decide(j) PROVE UNCHANGED <<hand, taken, image>>
  BY <1>9 DEF Lease, Decide, device
<1> HIDE DEF Stored
<1> QED
  BY <1>2, <1>3, <1>4, <1>5, <1>6, <1>7, <1>8, <1>9 DEF ReadingNext, HandOver

LEMMA FlushEffect ==
  ASSUME ReadingTypes, [ReadingNext]_reading, flush'.pc # "idle"
  PROVE  \/ /\ flush.pc # "idle" /\ flush'.image = flush.image
            /\ flush'.pc = "sent" => flush.pc = "sent"
         \/ Send /\ flush'.image = image /\ image # Nothing /\ UNCHANGED <<handler, jobs>>
<1> DEFINE Goal == \/ /\ flush.pc # "idle" /\ flush'.image = flush.image
                      /\ flush'.pc = "sent" => flush.pc = "sent"
                   \/ Send /\ flush'.image = image /\ image # Nothing /\ UNCHANGED <<handler, jobs>>
<1>1. ASSUME UNCHANGED flush PROVE Goal
  BY <1>1
<1>2. ASSUME flush' = NoFlush PROVE FALSE
  BY <1>2 DEF NoFlush
<1>3. ASSUME Send PROVE Goal
  BY <1>3 DEF Send, ReadingTypes
<1>4. ASSUME NEW h \in Handlers, Receive(h) PROVE Goal
  <2>1. CASE doc = "synced"
    BY <1>4, <2>1 DEF Receive, ReadingTypes
  <2>2. CASE doc # "synced"
    BY <1>2, <1>4, <2>2, SettleEffect DEF Receive
  <2> QED
    BY <2>1, <2>2
<1>5. ASSUME NEW h \in Handlers, WriteJobs(h) \/ RefuseFile(h) \/ SaveFails(h) PROVE Goal
  BY <1>1, <1>2, <1>5, EndEffect DEF WriteJobs, RefuseFile, SaveFails
<1>6. ASSUME NetworkFails \/ Refuse PROVE Goal
  BY <1>2, <1>6, SettleEffect DEF NetworkFails, Refuse
<1>7. ASSUME TakePhoto \/ HandOver \/ Drop \/ NotSent \/ Correct \/ Sync \/ Commit \/ Delete \/ Restart \/ UNCHANGED reading PROVE Goal
  BY <1>1, <1>7 DEF TakePhoto, HandOver, StoreImage, CommitPage, EnqueueUpload, Drop, NotSent, DropEntry, Correct, Sync, Commit, Delete, Restart, device, reading
<1>8. ASSUME NEW h \in Handlers, MoveFile(h) \/ SaveRow(h) \/ ListJobs(h) PROVE Goal
  BY <1>1, <1>8 DEF MoveFile, SaveRow, ListJobs, device
<1>9. ASSUME NEW j \in DOMAIN jobs, Lease(j) \/ Decide(j) PROVE Goal
  BY <1>1, <1>9 DEF Lease, Decide, device
<1> HIDE DEF Goal
<1>10. Goal
  BY <1>3, <1>4, <1>5, <1>6, <1>7, <1>8, <1>9 DEF ReadingNext, Handle
<1> QED
  BY <1>10 DEF Goal

LEMMA DeviceStep ==
  ASSUME IsInjective(Photos), ReadingTypes, ReadingTypes', DeviceInv, [ReadingNext]_reading
  PROVE  DeviceInv'
<1>1. Stored \in 0 .. Len(Photos) /\ Len(Photos) \in Nat
  BY StoredEffect, PhotoImages
<1>2. (Stored' = Stored /\ image' = image) \/ (Stored' = Stored + 1 /\ Stored + 1 # 0 /\ image' = Photos[Stored + 1])
  BY <1>1, StoredEffect
<1>3. image' = IF Stored' = 0 THEN Nothing ELSE Photos[Stored']
  BY <1>1, <1>2 DEF DeviceInv
<1>4. ASSUME flush'.pc # "idle" PROVE At(flush'.image) <= Stored'
  <2>1. flush'.image \in Images
    BY <1>4 DEF ReadingTypes
  <2>2. At(flush'.image) \in Nat
    BY <2>1, AtPhoto
  <2>3. CASE flush.pc # "idle" /\ flush'.image = flush.image
    BY <1>1, <1>2, <2>2, <2>3 DEF DeviceInv
  <2>4. CASE flush'.image = image /\ image # Nothing
    <3>1. Stored # 0 /\ image = Photos[Stored]
      BY <2>4 DEF DeviceInv
    <3>2. At(flush'.image) = Stored
      BY <1>1, <2>4, <3>1, AtPhoto
    <3> QED
      BY <1>1, <1>2, <3>2
  <2> QED
    BY <1>4, <2>3, <2>4, FlushEffect
<1> QED
  BY <1>3, <1>4 DEF DeviceInv, At

LEMMA ArrivalStep ==
  ASSUME IsInjective(Photos), ReadingTypes, ReadingTypes', DeviceInv, ArrivalInv, [ReadingNext]_reading
  PROVE  ArrivalInv'
<1>1. Stored \in Nat /\ (Stored' = Stored \/ Stored' = Stored + 1)
  BY StoredEffect, PhotoImages
<1>2. ASSUME NEW i \in Images PROVE At(i) \in Nat
  BY AtPhoto
<1>3. ASSUME NEW h \in Handlers, handler[h].pc # "idle" PROVE handler[h].image \in Images /\ At(handler[h].image) <= Stored
  BY <1>3 DEF ArrivalInv, ReadingTypes, Uploads, Busy
<1>4. ASSUME NEW g \in Handlers, handler'[g].pc # "idle"
      PROVE  handler'[g].image \in Images /\ At(handler'[g].image) <= Stored
  <2>1. CASE g \in Busy /\ handler'[g].image = handler[g].image
    BY <1>3, <2>1 DEF Busy
  <2>2. CASE flush.pc = "sent" /\ handler'[g].image = flush.image
    BY <2>2 DEF DeviceInv, ReadingTypes
  <2> QED
    BY <1>4, <2>1, <2>2, UploadsEffect
<1>5. ASSUME NEW j \in DOMAIN jobs' PROVE jobs'[j].image \in Images /\ At(jobs'[j].image) <= Stored
  <2>1. CASE j \in DOMAIN jobs
    BY <2>1, JobsEffect DEF ArrivalInv
  <2>2. CASE j \notin DOMAIN jobs
    <3>1. PICK h \in Busy : jobs'[j].image = handler[h].image
      BY <2>2, JobsEffect
    <3> QED
      BY <1>3, <3>1 DEF Busy
  <2> QED
    BY <2>1, <2>2
<1>6. ASSUME flush'.pc = "sent"
      PROVE  /\ \A g \in Handlers : handler'[g].pc # "idle" => At(handler'[g].image) <= At(flush'.image)
             /\ \A j \in DOMAIN jobs' : At(jobs'[j].image) <= At(flush'.image)
  <2>1. CASE flush.pc = "sent" /\ flush'.image = flush.image
    <3>1. ASSUME NEW g \in Handlers, handler'[g].pc # "idle" PROVE At(handler'[g].image) <= At(flush'.image)
      <4>1. g \in Busy /\ handler'[g].image = handler[g].image
        BY <1>6, <3>1, UploadsEffect
      <4> QED
        BY <2>1, <4>1 DEF ArrivalInv
    <3>2. ASSUME NEW j \in DOMAIN jobs' PROVE At(jobs'[j].image) <= At(flush'.image)
      <4>1. CASE j \in DOMAIN jobs
        BY <2>1, <4>1, JobsEffect DEF ArrivalInv
      <4>2. CASE j \notin DOMAIN jobs
        <5>1. PICK h \in Busy : jobs'[j].image = handler[h].image
          BY <4>2, JobsEffect
        <5> QED
          BY <2>1, <5>1 DEF ArrivalInv
      <4> QED
        BY <4>1, <4>2
    <3> QED
      BY <3>1, <3>2
  <2>2. CASE flush'.image = image /\ image # Nothing /\ UNCHANGED <<handler, jobs>>
    <3>1. Stored # 0 /\ image = Photos[Stored]
      BY <2>2 DEF DeviceInv
    <3>2. At(flush'.image) = Stored
      BY <2>2, <3>1, AtPhoto, StoredEffect
    <3> QED
      BY <1>4, <1>5, <3>2
  <2> QED
    BY <1>6, <2>1, <2>2, FlushEffect
<1>7. /\ \A g \in Handlers : handler'[g].pc # "idle" => At(handler'[g].image) <= Stored'
      /\ \A j \in DOMAIN jobs' : At(jobs'[j].image) <= Stored'
  BY <1>1, <1>2, <1>4, <1>5
<1> QED
  BY <1>6, <1>7 DEF ArrivalInv, Busy, At

\* A request that arrives has no older image than any job; what was chosen stays chosen, and nothing else is.
LEMMA ReadStep ==
  ASSUME IsInjective(Photos), ReadingTypes, ReadingTypes', DeviceInv, ArrivalInv, ReadInv, ApplyInv, [ReadingNext]_reading
  PROVE  ReadInv'
<1>1. ASSUME NEW i \in Images PROVE At(i) \in Nat
  BY AtPhoto
<1>2. ASSUME NEW j \in DOMAIN jobs, NEW g \in Handlers, handler'[g].pc # "idle", g \notin Busy
      PROVE  At(jobs'[j].image) <= At(handler'[g].image)
  BY <1>2, UploadsEffect, JobsEffect DEF ArrivalInv
<1>3. ASSUME NEW j \in DOMAIN jobs', jobs'[j].status = "leased", NEW g \in Handlers, handler'[g].pc # "idle"
      PROVE  handler'[g].late \/ At(jobs'[j].image) <= At(handler'[g].image)
  <2>1. j \in DOMAIN jobs /\ jobs'[j].image = jobs[j].image /\ (jobs[j].status = "leased" \/ Lease(j))
    BY <1>3, JobsEffect
  <2>2. CASE g \notin Busy
    BY <1>2, <1>3, <2>1, <2>2
  <2>3. CASE Lease(j) /\ g \in Busy
    BY <2>1, <2>3, LeaseEffect
  <2>4. CASE jobs[j].status = "leased" /\ g \in Busy
    <3>1. handler'[g].image = handler[g].image /\ (handler[g].late => handler'[g].late)
      BY <1>3, <2>4, UploadsEffect
    <3> QED
      BY <2>1, <2>4, <3>1 DEF ReadInv
  <2> QED
    BY <2>1, <2>2, <2>3, <2>4
<1>4. ASSUME NEW j \in DOMAIN jobs', Chosen(j)'
      PROVE  /\ j \in DOMAIN jobs /\ jobs'[j].image = jobs[j].image
             /\ \/ Chosen(j)
                \/ Decide(j) /\ Wanted(j)
  <2>1. CASE jobs'[j].status = "done"
    BY <2>1, JobsEffect DEF Chosen
  <2>2. CASE apply'.job = j /\ apply'.text # Nothing
    <3>1. ASSUME NEW k \in DOMAIN jobs, Decide(k) PROVE k = j /\ Wanted(j)
      BY <2>2, <3>1 DEF Decide
    <3>2. UNCHANGED apply \/ apply' = NoApply \/ \E k \in DOMAIN jobs : Decide(k)
      BY DEF ReadingNext, TakePhoto, HandOver, StoreImage, CommitPage, EnqueueUpload, Send, Drop, NotSent, DropEntry, NetworkFails, Refuse, Correct, Sync,
             Commit, Delete, Restart, reading, Receive, Handle, MoveFile, SaveRow, ListJobs, WriteJobs, RefuseFile, SaveFails, EndUpload, Lease
    <3>3. CASE UNCHANGED apply
      BY <2>2, <3>3, JobsEffect DEF Chosen, ApplyInv
    <3>4. CASE apply' = NoApply
      BY <2>2, <3>4 DEF NoApply
    <3>5. CASE \E k \in DOMAIN jobs : Decide(k)
      BY <3>1, <3>5, JobsEffect
    <3> QED
      BY <3>2, <3>3, <3>4, <3>5
  <2> QED
    BY <1>4, <2>1, <2>2 DEF Chosen
<1>5. ASSUME NEW j \in DOMAIN jobs, Decide(j) /\ Wanted(j)
      PROVE  /\ UNCHANGED <<row, handler, hand, jobs>> /\ row.image = jobs[j].image /\ (hand.pc = "stored" => jobs[j].image # image)
             /\ jobs[j].status = "leased" /\ \A g \in Handlers : ~handler[g].late
  BY <1>5 DEF Decide, Wanted, device, store
<1>6. ASSUME NEW j \in DOMAIN jobs', Chosen(j)', NEW g \in Handlers, handler'[g].pc # "idle"
      PROVE  At(jobs'[j].image) <= At(handler'[g].image)
  <2>1. CASE g \notin Busy
    BY <1>2, <1>4, <1>6, <2>1
  <2>2. CASE g \in Busy /\ Chosen(j)
    BY <1>4, <1>6, <2>2, UploadsEffect DEF ReadInv
  <2>3. CASE g \in Busy /\ Decide(j) /\ Wanted(j)
    BY <1>4, <1>5, <1>6, <2>3 DEF ReadInv
  <2> QED
    BY <1>4, <1>6, <2>1, <2>2, <2>3
<1>7. ASSUME NEW j \in DOMAIN jobs', Chosen(j)' PROVE At(jobs'[j].image) <= At(row'.image)
  <2>1. CASE Decide(j) /\ Wanted(j)
    BY <1>1, <1>4, <1>5, <1>7, <2>1, JobsEffect
  <2>2. CASE Chosen(j) /\ UNCHANGED row
    BY <1>4, <1>7, <2>2 DEF ReadInv
  <2>3. ASSUME Chosen(j), NEW h \in Handlers, SaveRow(h) PROVE At(jobs'[j].image) <= At(row'.image)
    <3>1. h \in Busy /\ row'.image = handler[h].image
      BY <2>3, SaveEffect DEF Busy
    <3> QED
      BY <1>4, <1>7, <2>3, <3>1 DEF ReadInv
  <2>4. UNCHANGED row \/ \E h \in Handlers : SaveRow(h)
    BY DEF ReadingNext, TakePhoto, HandOver, StoreImage, CommitPage, EnqueueUpload, Send, Drop, NotSent, DropEntry, NetworkFails, Refuse, Correct, Sync,
           Commit, Delete, Restart, reading, Receive, Handle, MoveFile, ListJobs, WriteJobs, RefuseFile, SaveFails, EndUpload, Lease, Decide, store
  <2> QED
    BY <1>4, <1>7, <2>1, <2>2, <2>3, <2>4
<1>8. ASSUME NEW j \in DOMAIN jobs', Chosen(j)', hand'.pc = "stored" PROVE jobs'[j].image # image'
  <2>1. CASE StoreImage /\ Stored + 1 \in 1 .. Len(Photos) /\ image' = Photos[Stored + 1]
    <3>1. At(image') = Stored + 1 /\ Stored \in Nat
      BY <2>1, AtPhoto, StoredEffect, PhotoImages
    <3>2. j \in DOMAIN jobs /\ jobs'[j].image = jobs[j].image
      BY <1>4, <1>8
    <3>3. At(jobs'[j].image) <= Stored
      BY <3>2 DEF ArrivalInv
    <3> QED
      BY <3>1, <3>3
  <2>2. CASE hand.pc = "stored" /\ UNCHANGED image
    BY <1>4, <1>5, <1>8, <2>2 DEF ReadInv
  <2> QED
    BY <1>8, <2>1, <2>2, StoredEffect
<1> QED
  BY <1>3, <1>6, <1>7, <1>8 DEF ReadInv, Busy, At

LEMMA ApplyStep ==
  ASSUME IsInjective(Photos), ReadingTypes, ReadInv, ApplyInv, [ReadingNext]_reading
  PROVE  ApplyInv'
<1> DEFINE Fits(j) == \A k \in DOMAIN jobs' : jobs'[k].status = "done" => At(jobs'[k].image) <= At(jobs'[j].image)
<1>1. ASSUME apply'.text # Nothing
      PROVE  apply'.job \in DOMAIN jobs' /\ apply'.text = Transcribed(jobs'[apply'.job].image) /\ Fits(apply'.job)
  <2>1. UNCHANGED apply \/ apply' = NoApply \/ \E k \in DOMAIN jobs : Decide(k)
    BY DEF ReadingNext, TakePhoto, HandOver, StoreImage, CommitPage, EnqueueUpload, Send, Drop, NotSent, DropEntry, NetworkFails, Refuse, Correct, Sync,
           Commit, Delete, Restart, reading, Receive, Handle, MoveFile, SaveRow, ListJobs, WriteJobs, RefuseFile, SaveFails, EndUpload, Lease
  <2>2. CASE apply' = NoApply
    BY <1>1, <2>2 DEF NoApply
  <2>3. CASE UNCHANGED apply
    <3>1. CASE Commit
      BY <1>1, <3>1 DEF Commit, NoApply
    <3>2. CASE ~Commit
      <4>1. \A k \in DOMAIN jobs' : jobs'[k].status = "done" =>
              k \in DOMAIN jobs /\ jobs[k].status = "done" /\ jobs'[k].image = jobs[k].image
        BY <3>2, JobsEffect
      <4>2. apply.job \in DOMAIN jobs' /\ jobs'[apply.job].image = jobs[apply.job].image
        BY <1>1, <2>3, JobsEffect DEF ApplyInv
      <4> QED
        BY <1>1, <2>3, <4>1, <4>2 DEF ApplyInv
    <3> QED
      BY <3>1, <3>2
  <2>4. ASSUME NEW j \in DOMAIN jobs, Decide(j)
        PROVE  apply'.job \in DOMAIN jobs' /\ apply'.text = Transcribed(jobs'[apply'.job].image) /\ Fits(apply'.job)
    <3>1. UNCHANGED jobs /\ apply'.job = j /\ apply'.text = Transcribed(jobs[j].image) /\ row.image = jobs[j].image
      BY <1>1, <2>4 DEF Decide, Wanted
    <3>2. \A k \in DOMAIN jobs : jobs[k].status = "done" => At(jobs[k].image) <= At(row.image)
      BY DEF ReadInv, Chosen
    <3> QED
      BY <3>1, <3>2
  <2> QED
    BY <2>1, <2>2, <2>3, <2>4
<1> QED
  BY <1>1 DEF ApplyInv, At, Transcribed

\* Once the image has been read, the sync has no text of another one to bring.
LEMMA ShownStep ==
  ASSUME IsInjective(Photos), ReadingTypes, ReadingTypes', DeviceInv, ArrivalInv, ReadInv, ApplyInv, ShownInv, [ReadingNext]_reading
  PROVE  ShownInv'
<1> DEFINE Same == UNCHANGED <<page, record, last>>
           Good(t) == t \in {Unread, Local, Manual, Transcribed(image')}
           Text == (last = "same" => record = page) /\ Shows(record) /\ Shows(Kept)
           Goal == (last' = "same" => record' = page') /\ (ImageRead' => Good(record') /\ Good(IF last' = "server" THEN record' ELSE page'))
\* An image that was read in the next state was read before, or its own result is committed now.
<1>1. ASSUME ImageRead'
      PROVE  /\ image' = image /\ hand.pc # "stored"
             /\ \/ ImageRead
                \/ Commit /\ apply.text = Transcribed(image')
  <2>1. PICK j \in DOMAIN jobs' : jobs'[j].image = image' /\ jobs'[j].status = "done"
    BY <1>1 DEF ImageRead
  <2>2. /\ j \in DOMAIN jobs /\ jobs[j].image = image' /\ jobs[j].image \in Images
        /\ jobs[j].status = "done" \/ (Commit /\ j = apply.job /\ apply.text # Nothing)
    BY <2>1, JobsEffect
  <2>3. Chosen(j)
    BY <2>2 DEF Chosen
  <2>4. image' = image
    <3>1. CASE StoreImage /\ Stored + 1 \in 1 .. Len(Photos) /\ image' = Photos[Stored + 1]
      <4>1. At(image') = Stored + 1 /\ Stored \in Nat
        BY <3>1, AtPhoto, StoredEffect, PhotoImages
      <4>2. At(jobs[j].image) <= Stored
        BY <2>2 DEF ArrivalInv
      <4> QED
        BY <2>2, <4>1, <4>2
    <3> QED
      BY <3>1, StoredEffect
  <2>5. hand.pc # "stored"
    BY <2>2, <2>3, <2>4 DEF ReadInv
  <2> QED
    BY <2>2, <2>4, <2>5 DEF ImageRead, ApplyInv
<1>2. ASSUME Same, ~Commit PROVE Goal
  BY <1>1, <1>2 DEF ShownInv, TextOfImage, Shows, Kept
<1>3. ASSUME CommitPage PROVE Goal
  BY <1>1, <1>3 DEF CommitPage
<1>4. ASSUME Correct PROVE Goal
  <2>1. page' = Manual /\ last' = "device" /\ UNCHANGED <<record, image, jobs>>
    BY <1>4 DEF Correct
  <2>2. ImageRead' => Good(record')
    BY <2>1 DEF ImageRead, ShownInv, TextOfImage, Shows
  <2> QED
    BY <2>1, <2>2
<1>5. ASSUME Sync PROVE Goal
  <2>1. UNCHANGED <<image, jobs>>
    BY <1>5 DEF Sync, store
  <2>2. CASE doc = "deleted"
    BY <1>1, <1>5, <2>1, <2>2 DEF Sync, ShownInv, TextOfImage, Shows, Kept, ImageRead
  <2>3. CASE doc # "deleted"
    <3>1. /\ last' = "same"
          /\ page' = IF last = "server" THEN record ELSE page
          /\ record' = IF last = "device" THEN page ELSE record
      BY <1>5, <2>3 DEF Sync
    <3>2. last \in {"device", "server", "same"}
      BY DEF ReadingTypes
    <3>3. record' = page' /\ page' = Kept
      BY <3>1, <3>2 DEF ShownInv, Kept
    <3> QED
      BY <2>1, <3>1, <3>3 DEF ShownInv, TextOfImage, Shows, ImageRead
  <2> QED
    BY <2>2, <2>3
<1>6. ASSUME Commit PROVE Goal
  <2>1. CASE apply.text = Nothing
    <3>1. Same
      BY <1>6, <2>1 DEF Commit, device
    <3>2. ImageRead' => ImageRead
      <4>1. apply.text = Nothing /\ image' = image
        BY <1>6, <2>1 DEF Commit, device
      <4> QED
        BY <4>1, JobsEffect DEF ImageRead
    <3> QED
      BY <1>1, <3>1, <3>2 DEF ShownInv, TextOfImage, Shows, Kept
  <2>2. CASE apply.text # Nothing
    <3>1. record' = apply.text /\ last' = "server" /\ UNCHANGED image
      BY <1>6, <2>2 DEF Commit, device
    <3>2. ASSUME ImageRead' PROVE apply.text = Transcribed(image')
      <4>1. PICK j \in DOMAIN jobs' : jobs'[j].image = image' /\ jobs'[j].status = "done"
        BY <3>2 DEF ImageRead
      <4>2. j \in DOMAIN jobs /\ jobs[j].image = image /\ image \in Images /\ (jobs[j].status = "done" \/ j = apply.job)
        BY <3>1, <4>1, JobsEffect
      <4>3. apply.job \in DOMAIN jobs /\ jobs[apply.job].image \in Images /\ apply.text = Transcribed(jobs[apply.job].image)
        BY <2>2, JobsEffect DEF ApplyInv
      <4>4. CASE j = apply.job
        BY <3>1, <4>2, <4>3, <4>4
      <4>5. CASE jobs[j].status = "done"
        <5>1. At(image) <= At(jobs[apply.job].image) /\ At(jobs[apply.job].image) <= Stored
          BY <2>2, <4>2, <4>3, <4>5 DEF ApplyInv, ArrivalInv
        <5>2. Stored \in 0 .. Len(Photos) /\ image = Photos[Stored] /\ Stored # 0 /\ Len(Photos) \in Nat
          BY <4>2, StoredEffect, PhotoImages DEF DeviceInv
        <5>3. At(image) = Stored
          BY <5>2, AtPhoto
        <5>4. At(jobs[apply.job].image) = Stored
          BY <4>3, <5>1, <5>2, <5>3, AtPhoto
        <5>5. jobs[apply.job].image = image
          BY <4>3, <5>2, <5>4, AtPhoto
        <5> QED
          BY <3>1, <4>3, <5>5
      <4> QED
        BY <4>2, <4>4, <4>5
    <3> QED
      BY <3>1, <3>2
  <2> QED
    BY <2>1, <2>2
<1>7. Same \/ CommitPage \/ Correct \/ Sync \/ Commit
  BY DEF ReadingNext, TakePhoto, HandOver, StoreImage, EnqueueUpload, Send, Drop, NotSent, DropEntry, NetworkFails, Refuse, Delete, Restart, reading,
         Receive, Handle, MoveFile, SaveRow, ListJobs, WriteJobs, RefuseFile, SaveFails, EndUpload, Lease, Decide, device, pages
<1>8. Goal
  <2> HIDE DEF Goal, Same
  <2> QED
    BY <1>2, <1>3, <1>4, <1>5, <1>6, <1>7
<1> QED
  BY <1>8 DEF ShownInv, TextOfImage, Shows, Kept, ImageRead, Transcribed, Unread, Local, Manual

(***************************************************************************)
(* Types, and the files: a file that was moved into the storage belongs to *)
(* one upload until its row names it, and no upload removes it (PUT        *)
(* /api/documents/:id/pages/:pageIndex/image, any number of them at once). *)
(***************************************************************************)
THEOREM ReadingInv == ReadingSpec => [](ReadingTypes /\ FilesInv)
<1>1. ReadingInit => ReadingTypes /\ FilesInv
  BY ReadingInitInv
<1>2. ReadingTypes /\ FilesInv /\ [ReadingNext]_reading => ReadingTypes' /\ FilesInv'
  BY ReadingTypesStep, FilesStep
<1> QED
  BY <1>1, <1>2, PTL DEF ReadingSpec

(***************************************************************************)
(* The row of an image names a file that is there, for any number of       *)
(* photos, of requests in progress, and of restarts.                       *)
(***************************************************************************)
THEOREM RowOnDiskCorrect == ReadingSpec => []RowOnDisk
<1>1. FilesInv => RowOnDisk
  BY DEF FilesInv
<1> QED
  BY <1>1, ReadingInv, PTL

(***************************************************************************)
(* With distinct photos: images reach the server in the order in which     *)
(* they were taken, and once a result is chosen nothing older arrives      *)
(* (pendingUploads.ts, pageTranscription.ts).                              *)
(***************************************************************************)
THEOREM PageInvCorrect ==
  ASSUME IsInjective(Photos)
  PROVE  ReadingSpec => []PageInv
<1>1. ReadingInit => PageInv
  <2> SUFFICES ASSUME ReadingInit PROVE PageInv
    OBVIOUS
  <2>1. ReadingTypes
    BY ReadingInitInv
  <2>2. DeviceInv
    BY DEF ReadingInit, DeviceInv, Stored, NoHand, NoFlush
  <2>3. ArrivalInv /\ ReadInv
    BY DEF ReadingInit, ArrivalInv, ReadInv, Busy, NoHandler, NoFlush
  <2>4. ApplyInv /\ ShownInv
    BY DEF ReadingInit, ApplyInv, NoApply, ShownInv, TextOfImage, ImageRead
  <2> QED
    BY <2>1, <2>2, <2>3, <2>4 DEF PageInv
<1>2. PageInv /\ [ReadingNext]_reading => PageInv'
  <2> SUFFICES ASSUME PageInv, [ReadingNext]_reading PROVE PageInv'
    OBVIOUS
  <2>1. ReadingTypes'
    BY ReadingTypesStep DEF PageInv
  <2> QED
    BY <2>1, DeviceStep, ArrivalStep, ReadStep, ApplyStep, ShownStep DEF PageInv
<1> QED
  BY <1>1, <1>2, PTL DEF ReadingSpec

(***************************************************************************)
(* Once the image that the device shows has been read, neither the server  *)
(* nor the next sync has the text of another image, for any number of      *)
(* distinct photos, of requests in progress and of corrections.            *)
(***************************************************************************)
THEOREM TextOfImageCorrect ==
  ASSUME IsInjective(Photos)
  PROVE  ReadingSpec => []TextOfImage
<1>1. PageInv => TextOfImage
  BY DEF PageInv, ShownInv
<1> QED
  BY <1>1, PageInvCorrect, PTL
----------------------------------------------------------------------------
\* The life of one page job, in the words of JobLife.
PageStage(n) ==
  IF n \notin DOMAIN jobs THEN "none"
  ELSE CASE jobs[n].status \in {"queued", "leased"} -> "pending"
         [] jobs[n].status = "done" -> "done"
         [] OTHER -> "dropped"
PageEffects(n) == IF PageStage(n) = "done" THEN 1 ELSE 0

PageLife(n) == INSTANCE JobLife WITH Jobs <- {n}, stage <- [j \in {n} |-> PageStage(j)], effects <- [j \in {n} |-> PageEffects(j)]

\* The job of a result that is being applied is leased, and the result is about its image.
HeldInv ==
  apply # NoApply =>
    /\ apply.job \in DOMAIN jobs /\ jobs[apply.job].status = "leased"
    /\ apply.text \in {Nothing, Transcribed(jobs[apply.job].image)}

LEMMA StatusMoves ==
  ASSUME ReadingTypes, HeldInv, [ReadingNext]_reading, NEW n \in DOMAIN jobs
  PROVE  \/ jobs'[n].status = jobs[n].status
         \/ jobs[n].status = "queued" /\ jobs'[n].status \in {"leased", "skipped"}
         \/ Commit /\ n = apply.job /\ jobs[n].status = "leased" /\ jobs'[n].status \in {"done", "skipped"}
<1> DEFINE Goal ==
      \/ jobs'[n].status = jobs[n].status
      \/ jobs[n].status = "queued" /\ jobs'[n].status \in {"leased", "skipped"}
      \/ Commit /\ n = apply.job /\ jobs[n].status = "leased" /\ jobs'[n].status \in {"done", "skipped"}
<1>0. jobs \in Seq(JobRows) /\ apply.job \in Nat
  BY DEF ReadingTypes
<1>1. ASSUME UNCHANGED jobs PROVE Goal
  BY <1>1
<1>2. ASSUME NEW h \in Handlers, WriteJobs(h) PROVE Goal
  BY <1>2, AfterJobs
<1>3. ASSUME NEW j \in DOMAIN jobs, Lease(j) PROVE Goal
  BY <1>3, LeaseEffect
<1>4. ASSUME Commit PROVE Goal
  <2>1. jobs' = WithStatus(apply.job, "skipped") \/ jobs' = WithStatus(apply.job, "done")
    BY <1>4 DEF Commit, WithStatus
  <2>2. apply.job \in DOMAIN jobs /\ jobs[apply.job].status = "leased"
    BY <1>4 DEF Commit, HeldInv
  <2> QED
    BY <1>0, <1>4, <2>1, <2>2, StatusChange
<1>5. ASSUME Delete PROVE Goal
  BY <1>0, <1>5, SkippedJobs DEF Delete
<1>6. ASSUME TakePhoto \/ HandOver \/ Send \/ Drop \/ NotSent \/ NetworkFails \/ Correct \/ Sync \/ Refuse \/ Restart \/ UNCHANGED reading PROVE Goal
  BY <1>1, <1>6 DEF TakePhoto, HandOver, StoreImage, CommitPage, EnqueueUpload, Send, Drop, NotSent, DropEntry, NetworkFails, Refuse, Correct, Sync, Restart, reading
<1>7. ASSUME NEW h \in Handlers, Receive(h) \/ MoveFile(h) \/ SaveRow(h) \/ ListJobs(h) \/ RefuseFile(h) \/ SaveFails(h) PROVE Goal
  BY <1>1, <1>7 DEF Receive, MoveFile, SaveRow, ListJobs, RefuseFile, SaveFails
<1>8. ASSUME NEW j \in DOMAIN jobs, Decide(j) PROVE Goal
  BY <1>1, <1>8 DEF Decide
<1>9. Goal
  <2> HIDE DEF Goal
  <2> QED
    BY <1>2, <1>3, <1>4, <1>5, <1>6, <1>7, <1>8 DEF ReadingNext, Handle
<1> QED
  BY <1>9

LEMMA HeldStep ==
  ASSUME ReadingTypes, HeldInv, [ReadingNext]_reading
  PROVE  HeldInv'
<1>1. UNCHANGED apply \/ apply' = NoApply \/ \E k \in DOMAIN jobs : Decide(k)
  BY DEF ReadingNext, TakePhoto, HandOver, StoreImage, CommitPage, EnqueueUpload, Send, Drop, NotSent, DropEntry, NetworkFails, Refuse, Correct, Sync,
         Commit, Delete, Restart, reading, Receive, Handle, MoveFile, SaveRow, ListJobs, WriteJobs, RefuseFile, SaveFails, EndUpload, Lease
<1>2. CASE UNCHANGED apply /\ apply # NoApply
  <2>1. apply.job \in DOMAIN jobs /\ jobs[apply.job].status = "leased" /\ ~Commit
    BY <1>2 DEF HeldInv, Commit
  <2> QED
    BY <1>2, <2>1, StatusMoves, JobsEffect DEF HeldInv, Transcribed
<1>3. CASE apply' = NoApply
  BY <1>3 DEF HeldInv
<1>4. ASSUME NEW k \in DOMAIN jobs, Decide(k) PROVE HeldInv'
  <2>1. /\ apply'.job = k /\ UNCHANGED jobs /\ jobs[k].status = "leased"
        /\ apply'.text \in {Nothing, Transcribed(jobs[k].image)}
    BY <1>4 DEF Decide
  <2> QED
    BY <2>1 DEF HeldInv, Transcribed
<1> QED
  BY <1>1, <1>2, <1>3, <1>4

LEMMA HeldInvCorrect == ReadingSpec => [](ReadingTypes /\ HeldInv)
<1>1. ReadingInit => ReadingTypes /\ HeldInv
  BY ReadingInitInv DEF ReadingInit, HeldInv
<1>2. ReadingTypes /\ HeldInv /\ [ReadingNext]_reading => ReadingTypes' /\ HeldInv'
  BY ReadingTypesStep, HeldStep
<1> QED
  BY <1>1, <1>2, PTL DEF ReadingSpec

LEMMA PageLifeStep ==
  ASSUME NEW n \in Nat \ {0}, ReadingTypes, HeldInv, [ReadingNext]_reading
  PROVE  [PageLife(n)!Next]_<<[j \in {n} |-> PageStage(j)], [j \in {n} |-> PageEffects(j)]>>
<1> DEFINE s == PageStage(n)
           t == PageStage(n)'
<1>1. CASE t = s
  BY <1>1 DEF PageEffects
<1>2. CASE s = "none" /\ t = "pending"
  <2>1. PageLife(n)!Queue(n)
    BY <1>2 DEF PageLife!Queue, PageEffects
  <2> QED
    BY <2>1 DEF PageLife!Next
<1>3. CASE s = "pending" /\ t = "done"
  <2>1. PageLife(n)!Complete(n)
    BY <1>3 DEF PageLife!Complete, PageEffects
  <2> QED
    BY <2>1 DEF PageLife!Next
<1>4. CASE s = "pending" /\ t = "dropped"
  <2>1. PageLife(n)!Drop({n})
    BY <1>4 DEF PageLife!Drop, PageEffects
  <2> QED
    BY <2>1 DEF PageLife!Next
<1>5. CASE n \in DOMAIN jobs
  <2>1. jobs[n].status \in {"queued", "leased", "done", "skipped"} /\ n \in DOMAIN jobs'
    <3>1. jobs[n] \in JobRows
      BY <1>5 DEF ReadingTypes
    <3> QED
      BY <1>5, <3>1, JobsEffect DEF JobRows
  <2> QED
    BY <1>1, <1>3, <1>4, <1>5, <2>1, StatusMoves DEF PageStage
<1>6. CASE n \notin DOMAIN jobs
  BY <1>1, <1>2, <1>6, JobsEffect DEF PageStage
<1> QED
  BY <1>5, <1>6

(***************************************************************************)
(* Each page job lives as JobLife has it, which WorkerJobs implements for  *)
(* the whole table: given up while it waits, or concluded once, whatever   *)
(* uploads overlap, restarts and deletions come between                    *)
(* (enqueuePageTranscription, applyPageTranscription).                     *)
(***************************************************************************)
THEOREM PageJobImplementation ==
  ASSUME NEW n \in Nat \ {0}
  PROVE  ReadingSpec => PageLife(n)!Spec
<1>1. ReadingInit => PageLife(n)!Init
  BY DEF PageLife!Init, PageStage, PageEffects, ReadingInit
<1>2. ReadingTypes /\ HeldInv /\ [ReadingNext]_reading
        => [PageLife(n)!Next]_<<[j \in {n} |-> PageStage(j)], [j \in {n} |-> PageEffects(j)]>>
  BY PageLifeStep
<1> QED
  BY <1>1, <1>2, HeldInvCorrect, PTL DEF ReadingSpec, PageLife!Spec

(***************************************************************************)
(* Apart from the sync of the device, the text of the page only changes    *)
(* in the step that concludes a job, to the transcription of that job's    *)
(* image (applyPageTranscription: one transaction for the page and its     *)
(* job).                                                                   *)
(***************************************************************************)
Concludes(n) == jobs[n].status = "leased" /\ jobs'[n].status = "done" /\ record' = Transcribed(jobs[n].image)
THEOREM TextWithItsJob == ReadingSpec => [][~Sync /\ record' # record => \E n \in DOMAIN jobs : Concludes(n)]_reading
<1>1. ReadingTypes /\ HeldInv /\ [ReadingNext]_reading => [~Sync /\ record' # record => \E n \in DOMAIN jobs : Concludes(n)]_reading
  <2> SUFFICES ASSUME ReadingTypes, HeldInv, [ReadingNext]_reading, ~Sync, record' # record
               PROVE  \E n \in DOMAIN jobs : Concludes(n)
    OBVIOUS
  <2>1. Commit
    BY DEF ReadingNext, TakePhoto, HandOver, StoreImage, CommitPage, EnqueueUpload, Send, Drop, NotSent, DropEntry, NetworkFails, Refuse, Correct, Delete, Restart,
           reading, Receive, Handle, MoveFile, SaveRow, ListJobs, WriteJobs, RefuseFile, SaveFails, EndUpload, Lease, Decide, pages
  <2>2. apply # NoApply /\ apply.text # Nothing /\ record' = apply.text /\ jobs' = [jobs EXCEPT ![apply.job].status = "done"]
    BY <2>1 DEF Commit
  <2>3. apply.job \in DOMAIN jobs /\ jobs[apply.job].status = "leased" /\ apply.text = Transcribed(jobs[apply.job].image)
    BY <2>2 DEF HeldInv
  <2>4. jobs' = WithStatus(apply.job, "done") /\ jobs \in Seq(JobRows) /\ apply.job \in Nat
    BY <2>2 DEF WithStatus, ReadingTypes
  <2>5. jobs'[apply.job].status = "done"
    BY <2>3, <2>4, StatusChange
  <2> QED
    BY <2>2, <2>3, <2>5 DEF Concludes
<1> QED
  BY <1>1, HeldInvCorrect, PTL DEF ReadingSpec
=============================================================================
