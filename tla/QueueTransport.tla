--------------------------- MODULE QueueTransport ---------------------------
(***************************************************************************)
(* An AI request that waits for the home computer (QueueTransport.ts): it  *)
(* becomes an ai job and ends with the outcome it reads in the job's row,  *)
(* or gives up and expires the job.  Requests of one family only; the job  *)
(* has the name of the request.                                            *)
(***************************************************************************)
EXTENDS WorkerJobs

CONSTANT MaxActive \* MAX_ACTIVE_AI_JOBS_PER_PARENT

ASSUME MaxActiveAssumption == MaxActive \in Nat \ {0}

VARIABLE
  request    \* [AiJobs -> ...]: what complete() and wait() of the request do next

requestVars == <<vars, request>>

Settled == {"answered", "refused", "failed"}

RequestInit == Init /\ request = [j \in AiJobs |-> "new"]

Active == {j \in AiJobs : Pending(j)}

\* countActiveWorkerJobs, before anything is inserted.
BelowCap == Cardinality(Active) < MaxActive

CountActive(j) ==
  /\ request[j] = "new"
  /\ request' = [request EXCEPT ![j] = IF BelowCap THEN "counted" ELSE "refused"]
  /\ UNCHANGED vars

Enqueue(j) ==
  /\ request[j] = "counted"
  /\ InsertJob(j)
  /\ request' = [request EXCEPT ![j] = "waiting"]

\* settleFrom: a final state ends the wait, an answer is used.
Outcome_AnyFinal(j) == "answered"
Outcome(j) == IF status[j] = "done" THEN "answered" ELSE "refused"

\* check: a poll, or a notification of this process.
Check(j) ==
  /\ request[j] = "waiting"
  /\ ~Pending(j)
  /\ request' = [request EXCEPT ![j] = Outcome(j)]
  /\ UNCHANGED vars

\* stop: deadline, abort, shutdown, or nobody to take a queued job.  The job is
\* given up if it is still pending.
GiveUp_QueuedOnly(j) ==
  /\ request[j] = "waiting"
  /\ status[j] = "queued"
  /\ ExpirePending(j)
  /\ request' = [request EXCEPT ![j] = "refused"]
  /\ UNCHANGED <<limited, callVars, posts, work>>
GiveUp(j) ==
  /\ request[j] = "waiting"
  /\ ExpirePending(j)
  /\ request' = [request EXCEPT ![j] = "refused"]
  /\ UNCHANGED <<limited, callVars, posts, work>>

\* The job reached a final state in the meantime.
StopTooLate(j) ==
  /\ request[j] = "waiting"
  /\ ~Pending(j)
  /\ request' = [request EXCEPT ![j] = "stopping"]
  /\ UNCHANGED vars

\* Then the row is read once more: a response that already arrived is still used.
LastLook_Never(j) == "refused"
LastLook(j) == Outcome(j)

Stop(j) ==
  /\ request[j] = "stopping"
  /\ request' = [request EXCEPT ![j] = LastLook(j)]
  /\ UNCHANGED vars

\* The row of a request that was answered is not needed any more.
DropRow(j) ==
  /\ request[j] = "answered"
  /\ DeleteJob(j)
  /\ UNCHANGED request

\* A statement of complete() or stop() fails: the request fails, whatever became of its row.
\* (A failing poll is only logged, and the next one reads the row again.)
DatabaseFails(j) ==
  /\ request[j] \in {"new", "counted", "waiting", "stopping"}
  /\ request' = [request EXCEPT ![j] = "failed"]
  /\ UNCHANGED vars

\* The server process ends: nobody waits any more.
RequestDies(j) ==
  /\ request[j] \notin Settled
  /\ request' = [request EXCEPT ![j] = "lost"]
  /\ UNCHANGED vars

RequestStep(j) ==
  \/ CountActive(j) \/ Enqueue(j) \/ Check(j) \/ GiveUp(j) \/ StopTooLate(j) \/ Stop(j) \/ DropRow(j)
  \/ DatabaseFails(j) \/ RequestDies(j)

\* Concluded ai rows are only purged an hour later, when nobody waits for them.
PurgedLate == \A j \in AiJobs : status'[j] = "deleted" => status[j] = "deleted" \/ request[j] \in Settled \cup {"lost"}

RequestNext ==
  \/ \E j \in AiJobs : RequestStep(j)
  \/ QueueStep /\ PurgedLate /\ UNCHANGED request

RequestSpec == RequestInit /\ [][RequestNext]_requestVars

\* Timers fire; the event loop serves what is ready.
RequestFairness ==
  \A j \in AiJobs : WF_requestVars(CountActive(j) \/ Enqueue(j) \/ Check(j) \/ GiveUp(j) \/ Stop(j))

FairRequestSpec == RequestSpec /\ RequestFairness
----------------------------------------------------------------------------
\* Type invariant.
RequestTypeOK ==
  /\ TypeOK
  /\ request \in [AiJobs -> {"new", "counted", "waiting", "stopping", "lost"} \cup Settled]

(***************************************************************************)
(* A request that ends without an answer leaves no job behind for the home *)
(* computer, and never an answer that arrived in time (QueueTransport.ts   *)
(* stop: "a response that already arrived is still used").  Only a request *)
(* whose statement failed ("failed") may leave its row, until it expires.  *)
(***************************************************************************)
NothingLeftBehind ==
  \A j \in AiJobs : request[j] = "refused" => ~Pending(j) /\ status[j] # "done"

(***************************************************************************)
(* A request is answered only from a job that was run to its end once, and *)
(* no job exists without a request, past or present.                       *)
(***************************************************************************)
AnsweredFromResult ==
  \A j \in AiJobs :
    /\ request[j] = "answered" => status[j] \in {"done", "deleted"} /\ written[j] = 1
    /\ request[j] \in {"new", "counted"} => status[j] = "absent"

(***************************************************************************)
(* Every request ends, whatever happens to the worker.                     *)
(***************************************************************************)
EveryRequestEnds == \A j \in AiJobs : request[j] = "waiting" ~> request[j] \in Settled \cup {"lost"}

(***************************************************************************)
(* At most MaxActive requests of a family wait for the home computer       *)
(* (QueueTransport.ts "at most this many requests of a family").           *)
(***************************************************************************)
CapRespected == Cardinality(Active) <= MaxActive
=============================================================================
