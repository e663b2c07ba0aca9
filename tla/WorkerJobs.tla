----------------------------- MODULE WorkerJobs -----------------------------
(***************************************************************************)
(* The job queue of the home computer (db/repositories/workerJobs.ts) and  *)
(* its HTTP interface (routes/worker.ts).  Every statement on worker_jobs  *)
(* is atomic; a request handler is a sequence of them, and the handlers of *)
(* several requests interleave.  Time is three events: a lease runs out, a *)
(* job passes expires_at, the pause of a worker ends.  The worker program  *)
(* is not part of the repository: it takes one job at a time, may restart, *)
(* abandon a request and send it again, and send a result twice.           *)
(***************************************************************************)
EXTENDS Naturals, FiniteSets

CONSTANTS
  AiJobs,      \* jobs of kind ai: the answer is stored in the row
  PageJobs,    \* page_text and page_speech: the result is written to the page
  Workers,
  Calls,       \* bound of the model: lease requests being handled at once
  NoJob,
  Nobody,
  MaxAttempts, \* WORKER_PROTOCOL.maxAttempts
  MaxClaims,   \* bound of the model: attempts after which nobody claims a job
  MaxPosts     \* bound of the model: result requests being handled at once

Jobs == AiJobs \cup PageJobs

ASSUME ConstantsAssumption ==
  /\ AiJobs \cap PageJobs = {}
  /\ NoJob \notin Jobs
  /\ Nobody \notin Workers
  /\ MaxAttempts \in Nat \ {0}
  /\ MaxClaims \in Nat
  /\ MaxPosts \in Nat

Final == {"done", "failed", "expired", "skipped"}
Statuses == Final \cup {"absent", "queued", "leased", "deleted"}

\* Errors a worker reports: a usage limit, one worth another attempt, one that is not.
Outcomes == {"done", "usage_limit", "retryable", "fatal"}

\* A result request: attempts is 0 until its handler has read the job.
Posts == [worker : Workers, job : Jobs, outcome : Outcomes, attempts : Nat]

VARIABLES
  \* worker_jobs and worker_state
  status,   \* [Jobs -> Statuses]
  leasedBy, \* [Jobs -> Workers \cup {Nobody}]
  attempts, \* [Jobs -> Nat]
  lapsed,   \* [Jobs -> BOOLEAN]: lease_until is past
  due,      \* [Jobs -> BOOLEAN]: expires_at is past
  written,  \* [Jobs -> Nat]: how often the job's result was committed
  limited,  \* [Workers -> BOOLEAN]: limited_until is ahead
  \* handlers of POST /lease
  pc,       \* [Calls -> ...]: the next statement of the handler
  caller,   \* [Calls -> Workers \cup {Nobody}]
  conn,     \* [Calls -> "open", "cut" (abandoned by the worker), "closed" (seen)]
  cand,     \* [Calls -> SUBSET Jobs]: candidates not tried yet
  held,     \* [Calls -> Jobs \cup {NoJob}]: the job it claimed
  \* handlers of POST /jobs/:id/result
  posts,    \* SUBSET Posts
  \* the worker program
  work      \* [Workers -> Jobs \cup {NoJob}]: the job it runs

timeVars == <<lapsed, due>>
callVars == <<pc, caller, conn, cand, held>>
vars == <<status, leasedBy, attempts, timeVars, written, limited, callVars, posts, work>>

Init ==
  /\ status = [j \in Jobs |-> "absent"]
  /\ leasedBy = [j \in Jobs |-> Nobody]
  /\ attempts = [j \in Jobs |-> 0]
  /\ lapsed = [j \in Jobs |-> FALSE]
  /\ due = [j \in Jobs |-> FALSE]
  /\ written = [j \in Jobs |-> 0]
  /\ limited = [w \in Workers |-> FALSE]
  /\ pc = [c \in Calls |-> "free"]
  /\ caller = [c \in Calls |-> Nobody]
  /\ conn = [c \in Calls |-> "open"]
  /\ cand = [c \in Calls |-> {}]
  /\ held = [c \in Calls |-> NoJob]
  /\ posts = {}
  /\ work = [w \in Workers |-> NoJob]

Leased(j, w) == status[j] = "leased" /\ leasedBy[j] = w
Pending(j) == status[j] \in {"queued", "leased"}
----------------------------------------------------------------------------
(* The table, outside the worker's requests. *)

\* insertWorkerJob
InsertJob(j) ==
  /\ status[j] = "absent"
  /\ status' = [status EXCEPT ![j] = "queued"]
  /\ UNCHANGED <<leasedBy, attempts, timeVars, written, limited, callVars, posts, work>>

\* skipQueuedWorkerJob, skipQueuedDocumentJobs, skipOrphanPageJobs: the page is no
\* longer wanted (deleted document, new image, other mode, protected text).
SkipQueued(j) ==
  /\ j \in PageJobs
  /\ status[j] = "queued"
  /\ status' = [status EXCEPT ![j] = "skipped"]
  /\ UNCHANGED <<leasedBy, attempts, timeVars, written, limited, callVars, posts, work>>

\* The queued jobs that expireQueuedWorkerJobs ends.
Overdue == {j \in Jobs : status[j] = "queued" /\ due[j]}

ExpireQueued ==
  /\ Overdue # {}
  /\ status' = [j \in Jobs |-> IF j \in Overdue THEN "expired" ELSE status[j]]
  /\ UNCHANGED <<leasedBy, attempts, timeVars, written, limited, callVars, posts, work>>

\* expirePendingWorkerJob: a waiting request gives up, or a result comes too late.
ExpirePending(j) ==
  /\ Pending(j)
  /\ status' = [status EXCEPT ![j] = "expired"]
  /\ lapsed' = [lapsed EXCEPT ![j] = FALSE]
  /\ UNCHANGED <<leasedBy, attempts, due, written>>

\* deleteWorkerJob, purgeWorkerJobs; the purge of a document takes its jobs with it.
DeleteJob(j) ==
  /\ status[j] \in Final \/ (j \in PageJobs /\ Pending(j))
  /\ status' = [status EXCEPT ![j] = "deleted"]
  /\ leasedBy' = [leasedBy EXCEPT ![j] = Nobody]
  /\ attempts' = [attempts EXCEPT ![j] = 0]
  /\ lapsed' = [lapsed EXCEPT ![j] = FALSE]
  /\ due' = [due EXCEPT ![j] = FALSE]
  /\ UNCHANGED <<written, limited, callVars, posts, work>>

LeaseLapses(j) ==
  /\ status[j] = "leased"
  /\ ~lapsed[j]
  /\ lapsed' = [lapsed EXCEPT ![j] = TRUE]
  /\ UNCHANGED <<status, leasedBy, attempts, due, written, limited, callVars, posts, work>>

BecomesDue(j) ==
  /\ Pending(j)
  /\ ~due[j]
  /\ due' = [due EXCEPT ![j] = TRUE]
  /\ UNCHANGED <<status, leasedBy, attempts, lapsed, written, limited, callVars, posts, work>>

PauseEnds(w) ==
  /\ limited[w]
  /\ limited' = [limited EXCEPT ![w] = FALSE]
  /\ UNCHANGED <<status, leasedBy, attempts, timeVars, written, callVars, posts, work>>
----------------------------------------------------------------------------
(* POST /lease *)

\* Jobs that go back to the queue: their lease is erased.
Requeue_KeepsLease(S) ==
  /\ status' = [j \in Jobs |-> IF j \in S THEN "queued" ELSE status[j]]
  /\ UNCHANGED <<leasedBy, lapsed>>
Requeue(S) ==
  /\ status' = [j \in Jobs |-> IF j \in S THEN "queued" ELSE status[j]]
  /\ leasedBy' = [j \in Jobs |-> IF j \in S THEN Nobody ELSE leasedBy[j]]
  /\ lapsed' = [j \in Jobs |-> lapsed[j] /\ j \notin S]

HeldBy(w) == {j \in Jobs : Leased(j, w)}

\* A worker that has no job asks for one; whatever it still holds is released.
\* An earlier request of its own has been answered or given up.
LeaseCall(c, w) ==
  /\ pc[c] = "free"
  /\ work[w] = NoJob
  /\ \A e \in Calls : pc[e] # "free" /\ caller[e] = w => conn[e] # "open"
  /\ Requeue(HeldBy(w))
  /\ pc' = [pc EXCEPT ![c] = "reclaim"]
  /\ caller' = [caller EXCEPT ![c] = w]
  /\ conn' = [conn EXCEPT ![c] = "open"]
  /\ UNCHANGED <<attempts, due, written, limited, cand, held, posts, work>>

\* reclaimWorkerJobs, before the first pass and then every few seconds.
LastAttempt(j) == attempts[j] >= MaxAttempts

Reclaimed_QueuedOnly == {}
Reclaimed == {j \in Jobs : status[j] = "leased" /\ lapsed[j]}

Reclaim(c) ==
  /\ pc[c] \in {"reclaim", "list"}
  /\ status' = [j \in Jobs |-> IF j \in Reclaimed /\ LastAttempt(j) THEN "failed"
                               ELSE IF j \in Reclaimed \cup Overdue /\ due[j] THEN "expired"
                               ELSE IF j \in Reclaimed THEN "queued" ELSE status[j]]
  /\ leasedBy' = [j \in Jobs |-> IF j \in Reclaimed /\ ~LastAttempt(j) THEN Nobody ELSE leasedBy[j]]
  /\ lapsed' = [j \in Jobs |-> lapsed[j] /\ j \notin Reclaimed]
  /\ pc' = [pc EXCEPT ![c] = "list"]
  /\ UNCHANGED <<attempts, due, written, limited, caller, conn, cand, held, posts, work>>

\* listLeaseCandidates: in some order; the page and priority rules only choose among them.
List(c) ==
  /\ pc[c] = "list"
  /\ ~limited[caller[c]]
  /\ \E S \in SUBSET {j \in Jobs : status[j] = "queued" /\ ~due[j]} :
       /\ S # {}
       /\ cand' = [cand EXCEPT ![c] = S]
  /\ pc' = [pc EXCEPT ![c] = "claim"]
  /\ UNCHANGED <<status, leasedBy, attempts, timeVars, written, limited, caller, conn, held, posts, work>>

Claimable(j) == status[j] = "queued" /\ attempts[j] < MaxClaims

\* claimWorkerJob: a conditional update, the candidates may be out of date.
Claim(c) ==
  /\ pc[c] = "claim"
  /\ \E j \in cand[c] :
       /\ Claimable(j)
       /\ status' = [status EXCEPT ![j] = "leased"]
       /\ leasedBy' = [leasedBy EXCEPT ![j] = caller[c]]
       /\ attempts' = [attempts EXCEPT ![j] = @ + 1]
       /\ lapsed' = [lapsed EXCEPT ![j] = FALSE]
       /\ held' = [held EXCEPT ![c] = j]
  /\ cand' = [cand EXCEPT ![c] = {}]
  /\ pc' = [pc EXCEPT ![c] = "claimed"]
  /\ UNCHANGED <<due, written, limited, caller, conn, posts, work>>

\* The candidate cannot be claimed any more; after the last one the next pass lists again.
Miss(c) ==
  /\ pc[c] = "claim"
  /\ \E j \in cand[c] :
       /\ ~Claimable(j)
       /\ cand' = [cand EXCEPT ![c] = @ \ {j}]
       /\ pc' = IF cand[c] = {j} THEN [pc EXCEPT ![c] = "list"] ELSE pc
  /\ UNCHANGED <<status, leasedBy, attempts, timeVars, written, limited, caller, conn, held, posts, work>>

FreeCall(c) ==
  /\ pc' = [pc EXCEPT ![c] = "free"]
  /\ caller' = [caller EXCEPT ![c] = Nobody]
  /\ conn' = [conn EXCEPT ![c] = "open"]
  /\ cand' = [cand EXCEPT ![c] = {}]
  /\ held' = [held EXCEPT ![c] = NoJob]

\* The wait is over, the connection is closed or the server stops: no job.
AnswerNoJob(c) ==
  /\ pc[c] = "list"
  /\ FreeCall(c)
  /\ UNCHANGED <<status, leasedBy, attempts, timeVars, written, limited, posts, work>>

\* The job is sent; a worker that has given up never sees it.
Respond(c) ==
  /\ pc[c] = "claimed"
  /\ conn[c] # "closed"
  /\ work' = IF conn[c] = "open" THEN [work EXCEPT ![caller[c]] = held[c]] ELSE work
  /\ FreeCall(c)
  /\ UNCHANGED <<status, leasedBy, attempts, timeVars, written, limited, posts>>

\* Nobody receives the job: releaseWorkerLeases.
GiveBack(c) ==
  /\ pc[c] = "claimed"
  /\ conn[c] = "closed"
  /\ Requeue(HeldBy(caller[c]))
  /\ FreeCall(c)
  /\ UNCHANGED <<attempts, due, written, limited, posts, work>>

\* The worker gives the request up; the server sees the connection close later.
CutCall(c) ==
  /\ pc[c] # "free"
  /\ \/ conn[c] = "open" /\ conn' = [conn EXCEPT ![c] = "cut"]
     \/ conn[c] = "cut" /\ conn' = [conn EXCEPT ![c] = "closed"]
  /\ UNCHANGED <<status, leasedBy, attempts, timeVars, written, limited, pc, caller, cand, held, posts, work>>

\* The server process ends in the middle of the request.
CallDies(c) ==
  /\ pc[c] # "free"
  /\ FreeCall(c)
  /\ UNCHANGED <<status, leasedBy, attempts, timeVars, written, limited, posts, work>>
----------------------------------------------------------------------------
(* The worker's other requests. *)

\* POST /heartbeat renews the lease of the current job, and may report the limit.
Heartbeat(w) ==
  /\ lapsed' = [j \in Jobs |-> lapsed[j] /\ ~(j = work[w] /\ Leased(j, w))]
  /\ \/ UNCHANGED limited
     \/ \E l \in BOOLEAN : limited' = [limited EXCEPT ![w] = l]
  /\ UNCHANGED <<status, leasedBy, attempts, due, written, callVars, posts, work>>

\* A result is sent, perhaps again because the answer was lost.
PostResult(w, o) ==
  /\ work[w] # NoJob
  /\ Cardinality(posts) < MaxPosts
  /\ posts' = posts \cup {[worker |-> w, job |-> work[w], outcome |-> o, attempts |-> 0]}
  /\ UNCHANGED <<status, leasedBy, attempts, timeVars, written, limited, callVars, work>>

\* The worker is done with its job, or restarts.
StopWork(w) ==
  /\ work[w] # NoJob
  /\ work' = [work EXCEPT ![w] = NoJob]
  /\ UNCHANGED <<status, leasedBy, attempts, timeVars, written, limited, callVars, posts>>

----------------------------------------------------------------------------
(* POST /jobs/:id/result *)

\* The handler reads the job: leased by this worker, and not past its expiry.
ReadJob(p) ==
  /\ p.attempts = 0
  /\ Leased(p.job, p.worker)
  /\ ~due[p.job]
  /\ posts' = (posts \ {p}) \cup {[p EXCEPT !.attempts = attempts[p.job]]}
  /\ UNCHANGED <<status, leasedBy, attempts, timeVars, written, limited, callVars, work>>

RefuseLate(p) ==
  /\ p.attempts = 0
  /\ Leased(p.job, p.worker)
  /\ due[p.job]
  /\ ExpirePending(p.job)
  /\ posts' = posts \ {p}
  /\ UNCHANGED <<limited, callVars, work>>

\* 409 job_not_leased, at the read or at the conditional update; a request that
\* never reaches the server looks the same.
Conflict(p) ==
  /\ p.attempts = 0 \/ ~Leased(p.job, p.worker)
  /\ posts' = posts \ {p}
  /\ limited' = IF p.attempts # 0 /\ p.outcome = "usage_limit" THEN [limited EXCEPT ![p.worker] = TRUE] ELSE limited
  /\ UNCHANGED <<status, leasedBy, attempts, timeVars, written, callVars, work>>

\* finishLeasedWorkerJob and requeueLeasedWorkerJob are conditional on the lease.
Applies_Unconditional(p) == p.attempts # 0
Applies(p) == p.attempts # 0 /\ Leased(p.job, p.worker)

\* A transaction that ends with another outcome has written nothing.
Writes_Always(outcome) == 1
Writes(outcome) == IF outcome = "done" THEN 1 ELSE 0

\* The answer of an ai job is stored in the row; a page is written, with a new
\* server_seq, in the transaction that concludes the job, or left as it is.
Done(p) ==
  /\ Applies(p)
  /\ p.outcome = "done"
  /\ \E outcome \in {"done", "skipped", "failed"} :
       /\ p.job \in AiJobs => outcome = "done"
       /\ status' = [status EXCEPT ![p.job] = outcome]
       /\ written' = [written EXCEPT ![p.job] = @ + Writes(outcome)]
  /\ lapsed' = [lapsed EXCEPT ![p.job] = FALSE]
  /\ posts' = posts \ {p}
  /\ UNCHANGED <<leasedBy, attempts, due, limited, callVars, work>>

\* The job waits for the end of the pause, its attempt given back.
UsageLimit(p) ==
  /\ Applies(p)
  /\ p.outcome = "usage_limit"
  /\ Requeue({p.job})
  /\ attempts' = [attempts EXCEPT ![p.job] = IF @ > 0 THEN @ - 1 ELSE 0]
  /\ limited' = [limited EXCEPT ![p.worker] = TRUE]
  /\ posts' = posts \ {p}
  /\ UNCHANGED <<due, written, callVars, work>>

Retry(p) ==
  /\ Applies(p)
  /\ p.outcome = "retryable"
  /\ p.attempts < MaxAttempts
  /\ Requeue({p.job})
  /\ posts' = posts \ {p}
  /\ UNCHANGED <<attempts, due, written, limited, callVars, work>>

Fail(p) ==
  /\ Applies(p)
  /\ p.outcome = "fatal" \/ (p.outcome = "retryable" /\ p.attempts >= MaxAttempts)
  /\ status' = [status EXCEPT ![p.job] = "failed"]
  /\ lapsed' = [lapsed EXCEPT ![p.job] = FALSE]
  /\ posts' = posts \ {p}
  /\ UNCHANGED <<leasedBy, attempts, due, written, limited, callVars, work>>

Result(p) == ReadJob(p) \/ RefuseLate(p) \/ Conflict(p) \/ Done(p) \/ UsageLimit(p) \/ Retry(p) \/ Fail(p)
----------------------------------------------------------------------------
TableStep == (\E j \in Jobs : SkipQueued(j) \/ DeleteJob(j)) \/ ExpireQueued
TimeStep == (\E j \in Jobs : LeaseLapses(j) \/ BecomesDue(j)) \/ (\E w \in Workers : PauseEnds(w))
CallStep(c) == Reclaim(c) \/ List(c) \/ Claim(c) \/ Miss(c) \/ AnswerNoJob(c) \/ Respond(c) \/ GiveBack(c)
WorkerStep(w) == (\E c \in Calls : LeaseCall(c, w)) \/ Heartbeat(w) \/ StopWork(w) \/ (\E o \in Outcomes : PostResult(w, o))

\* Every step but the insertion of a job.
QueueStep ==
  \/ TableStep \/ TimeStep
  \/ \E c \in Calls : CallStep(c) \/ CutCall(c) \/ CallDies(c)
  \/ \E w \in Workers : WorkerStep(w)
  \/ \E p \in posts : Result(p)

Next == QueueStep \/ \E j \in Jobs : InsertJob(j)

Spec == Init /\ [][Next]_vars

\* Time passes, handlers run, the hourly maintenance runs, and some worker that has
\* no job asks for one (any other may be gone); a worker does not run one job for ever,
\* and the server does not end in the middle of every request.
Fairness ==
  /\ \A j \in Jobs : WF_vars(LeaseLapses(j)) /\ WF_vars(BecomesDue(j))
  /\ WF_vars(ExpireQueued)
  /\ \A c \in Calls : SF_vars(CallStep(c))
  /\ \A w \in Workers : WF_vars(StopWork(w))
  /\ WF_vars(\E w \in Workers, c \in Calls : LeaseCall(c, w))

FairSpec == Spec /\ Fairness
----------------------------------------------------------------------------
\* Type invariant.
TypeOK ==
  /\ status \in [Jobs -> Statuses]
  /\ leasedBy \in [Jobs -> Workers \cup {Nobody}]
  /\ attempts \in [Jobs -> Nat]
  /\ lapsed \in [Jobs -> BOOLEAN]
  /\ due \in [Jobs -> BOOLEAN]
  /\ written \in [Jobs -> Nat]
  /\ limited \in [Workers -> BOOLEAN]
  /\ pc \in [Calls -> {"free", "reclaim", "list", "claim", "claimed"}]
  /\ caller \in [Calls -> Workers \cup {Nobody}]
  /\ conn \in [Calls -> {"open", "cut", "closed"}]
  /\ cand \in [Calls -> SUBSET Jobs]
  /\ held \in [Calls -> Jobs \cup {NoJob}]
  /\ posts \in SUBSET Posts
  /\ work \in [Workers -> Jobs \cup {NoJob}]
  /\ \A j \in Jobs : status[j] = "leased" => leasedBy[j] # Nobody
  /\ \A j \in Jobs : status[j] \in {"absent", "queued"} => leasedBy[j] = Nobody
  /\ \A c \in Calls : pc[c] # "free" <=> caller[c] # Nobody

\* What a status says about the job's life.
StageOf(s) == CASE s = "absent" -> "none"
                [] s \in {"queued", "leased"} -> "pending"
                [] s = "done" -> "done"
                [] s = "deleted" -> "removed"
                [] OTHER -> "dropped"

Stage == [j \in Jobs |-> StageOf(status[j])]

Life == INSTANCE JobLife WITH stage <- Stage, effects <- written

(***************************************************************************)
(* A job is concluded once and its result takes effect at most once,       *)
(* whatever results come late, twice or from a worker that lost the lease  *)
(* (applyPageTranscription "a concurrent or late result rolls the whole    *)
(* transaction back").                                                     *)
(***************************************************************************)
ImplementsLife == Life!Spec

\* A result only takes effect when it concludes the job.
EffectsCounted == \A j \in Jobs : /\ status[j] = "done" => written[j] = 1
                                  /\ status[j] \notin {"done", "deleted"} => written[j] = 0

(***************************************************************************)
(* A worker holds one job at a time (protocol.ts "a worker leases one job  *)
(* at a time").                                                            *)
(***************************************************************************)
OneJobPerWorker == \A w \in Workers : Cardinality(HeldBy(w)) <= 1

(***************************************************************************)
(* Every job that is queued is concluded at last, even if the worker that  *)
(* leased it disappears, as long as workers call.                          *)
(***************************************************************************)
EveryJobEnds == \A j \in Jobs : status[j] = "queued" ~> ~Pending(j)
=============================================================================
