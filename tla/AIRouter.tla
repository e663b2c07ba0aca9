------------------------------ MODULE AIRouter ------------------------------
(***************************************************************************)
(* Every AI request goes through AIRouter.handle (server): filters, daily  *)
(* quota and monthly budget, cache, at most two calls of the provider,     *)
(* local answers, and the log.  Requests run concurrently, and every await *)
(* on the tables they share (ai_cache, ai_requests, safety_alerts,         *)
(* ai_jobs) is a step of its own.                                          *)
(*                                                                         *)
(* Four kinds of request differ in control: an answer about a text, a free *)
(* question (never cached, always kept for the parent), the summary of one *)
(* chunk, and the final summary, made from the cached chunks.              *)
(***************************************************************************)
EXTENDS Integers, Sequences, FiniteSets

CONSTANTS
  Slots,       \* clients, each with one request at a time
  Texts,       \* texts and questions a request may be about
  NChunks,     \* chunks of the document that is summarised
  Versions,    \* answers the provider may give for a chunk
  LocalAnswer, \* the deterministic answer of LocalProvider
  Nothing,     \* no output
  Verdicts,    \* what the input filter may find: adult_redirect, safety_input, strict
  Quota,       \* dailyRequestLimitPerChild
  Budget,      \* monthlyBudgetEur
  CallCost,    \* price of a call of the provider
  AllAsync,    \* asyncRoutes = 'all': every request is a job (the home worker)
  MaxRequests, \* bound: requests that arrive
  MaxFaults    \* bound: restarts of the server and failed writes of its tables

MaxAttempts == 2 \* at most one regeneration
Chunks == 1..NChunks

ASSUME RouterAssumption ==
  /\ NChunks \in Nat \ {0} /\ Quota \in Nat \ {0} /\ Budget \in Nat \ {0} /\ CallCost \in Nat \ {0}
  /\ AllAsync \in BOOLEAN /\ MaxRequests \in Nat /\ MaxFaults \in Nat
  /\ LocalAnswer \notin Versions /\ IsFiniteSet(Slots)

VARIABLES
  req,      \* per client: its request on the server
  client,   \* per client: what it waits for
  job,      \* per client: the row of ai_jobs of its request
  cache,    \* ai_cache: from cache keys to entries
  billable, \* rows of ai_requests of the day that count for the quota
  spent,    \* sum of their cost_micros
  alerts,   \* safety_alerts
  arrived,  \* requests so far
  faults   \* faults left

vars == <<req, client, job, cache, billable, spent, alerts, arrived, faults>>

Kinds == {"text", "question", "chunk", "final"}
\* errors: the lines of the request in the server's log, one for each write that failed.
Idle == [pc |-> "idle", kind |-> "text", about |-> Nothing, async |-> FALSE, chunks |-> <<>>, tries |-> 0, cost |-> 0,
         status |-> "none", reason |-> "none", output |-> Nothing, by |-> "none", kept |-> <<>>, errors |-> {}]
Answer(r) == [status |-> r.status, reason |-> r.reason, output |-> r.output, by |-> r.by]
NoJob == [status |-> "none", answer |-> Answer(Idle)]

Start ==
  /\ req = [s \in Slots |-> Idle]
  /\ client = [s \in Slots |-> "idle"]
  /\ job = [s \in Slots |-> NoJob]
  /\ billable = 0 /\ spent = 0 /\ alerts = {} /\ arrived = 0 /\ faults = MaxFaults

Empty == [k \in {} |-> Nothing]
Init == Start /\ cache = Empty

At(s, pc) == req[s].pc = pc
\* Request s goes on at pc, with the fields of r.
Go(s, r, pc) == req' = [req EXCEPT ![s] = [r EXCEPT !.pc = pc]]
With(r, status, reason, output, by) == [r EXCEPT !.status = status, !.reason = reason, !.output = output, !.by = by]
Tables == <<cache, billable, spent, alerts>>
Rest == <<client, job, arrived, faults>>

\* A statement that writes succeeds, or its failure is logged and the request goes on.
Written == faults' = faults
WriteFails == faults > 0 /\ faults' = faults - 1
Failed(r, line) == [r EXCEPT !.errors = @ \cup {line}]
----------------------------------------------------------------------------
(* The cache.                                                              *)

Cached(k) == k \in DOMAIN cache
Put(k, status, by, output) ==
  cache' = [x \in DOMAIN cache \cup {k} |-> IF x = k THEN [status |-> status, by |-> by, output |-> output] ELSE cache[x]]

Missing(chunks) == {i \in DOMAIN chunks : chunks[i] = <<"missing">>}
Excluded(chunks) == {i \in DOMAIN chunks : chunks[i] = <<"blocked">>}
\* What a final summary is made from, by the index of the chunk: the chunks that are not blocked.
Usable(chunks) == [i \in DOMAIN chunks \ Excluded(chunks) |-> chunks[i]]
TooManyExcluded_Half(chunks) == 10 * Cardinality(Excluded(chunks)) > 5 * NChunks
TooManyExcluded(chunks) == 10 * Cardinality(Excluded(chunks)) > 3 * NChunks \* summaryMaxExcludedChunkRatio

\* cacheIdentity: null for free questions; a final summary depends on what its chunks say.
Cacheable(r) == r.kind # "question"
CacheKey_FinalOfPlan(r) == IF r.kind = "final" THEN <<"final">> ELSE <<r.kind, r.about>>
CacheKey(r) == IF r.kind = "final" THEN <<"final", Usable(r.chunks)>> ELSE <<r.kind, r.about>>

\* A new answer to r by the provider.
Answers(r) == CASE r.kind = "chunk" -> {<<r.about, v>> : v \in Versions}
                [] r.kind = "final" -> {Usable(r.chunks)}
                [] OTHER -> {<<r.about>>}
LocalOutput(r) == CASE r.kind = "chunk" -> <<r.about, LocalAnswer>>
                    [] r.kind = "final" -> Usable(r.chunks)
                    [] OTHER -> <<r.about>>
\* fromCache
FromCache(r, by) == LET e == cache[CacheKey(r)] IN With(r, e.status, "none", e.output, by)
----------------------------------------------------------------------------
(* Arrival, plan and input filter.                                         *)

\* After an alert, a chunk is marked before the request is logged.
AfterAlert(r) == IF r.kind = "chunk" THEN "mark" ELSE "log"

\* checkInputSafety, checkFreeQuestionInput: what the filter finds is told to the parent, except the strict level.
Told_ChildOnly(r, verdict) == IF r.kind # "question" THEN AfterAlert(r) ELSE "alert"
Told(r, verdict) == IF verdict = "strict" THEN AfterAlert(r) ELSE "alert"
Screened(s, r) ==
  \/ Go(s, r, "quota")
  \/ r.kind = "text" /\ Go(s, With(r, "ok", "none", LocalOutput(r), "local"), "log") \* the adult's glossary
  \/ \E verdict \in Verdicts :
       Go(s, With(r, "blocked", verdict, Nothing, "none"), Told(r, verdict))

\* routeFor, isAsync: a final summary is complex, an answer on a text depends on its length.
AsyncRoutes(kind) == CASE kind = "text" -> BOOLEAN [] kind = "final" -> {TRUE} [] OTHER -> {AllAsync}

\* The child is checked, settings and profile are read; a final summary has no text of its own to screen.
Arrive(s, kind, about) ==
  /\ At(s, "idle") /\ client[s] = "idle"
  /\ \E async \in AsyncRoutes(kind) :
       LET r == [Idle EXCEPT !.kind = kind, !.about = about, !.async = async]
       IN IF kind = "final" THEN Go(s, r, "plan") ELSE Screened(s, r)
  /\ client' = [client EXCEPT ![s] = "waiting"]
  /\ UNCHANGED <<job, Tables, faults>>

\* planSummarize reads one chunk after the other; an answer without data counts as missing.
\* plan.early: chunks are missing, or too many are blocked.
ReadChunk(s) ==
  LET r == req[s]
      k == <<"chunk", Len(r.chunks) + 1>>
      read == IF ~Cached(k) \/ cache[k].status = "not_in_text" THEN <<"missing">>
              ELSE IF cache[k].status = "blocked" THEN <<"blocked">> ELSE cache[k].output
      t == [r EXCEPT !.chunks = Append(@, read)]
  IN /\ At(s, "plan")
     /\ IF Len(t.chunks) < NChunks THEN Go(s, t, "plan")
        ELSE IF Missing(t.chunks) # {} THEN Go(s, With(t, "unavailable", "missing_chunks", Missing(t.chunks), "none"), "log")
        ELSE IF TooManyExcluded(t.chunks) THEN Go(s, With(t, "blocked", "validation", Nothing, "none"), "log")
        ELSE Go(s, t, "quota")
     /\ UNCHANGED <<Tables, Rest>>

\* insertOnce; a duplicate of the same alert changes nothing here.
Alert(s) ==
  LET r == req[s]
  IN /\ At(s, "alert")
     /\ \/ Written /\ alerts' = alerts \cup {<<r.reason, r.about>>} /\ Go(s, r, AfterAlert(r))
        \/ WriteFails /\ alerts' = alerts /\ Go(s, Failed(r, "ai_alert_write_failed"), AfterAlert(r))
     /\ UNCHANGED <<cache, billable, spent, client, job, arrived>>

\* markChunkBlocked, with putCache, whose failure is only logged.
Mark(s) ==
  LET r == req[s]
  IN /\ At(s, "mark")
     /\ \/ Written /\ Put(CacheKey(r), "blocked", "ai", Nothing)
        \/ WriteFails /\ cache' = cache
     /\ Go(s, r, "log")
     /\ UNCHANGED <<billable, spent, alerts, client, job, arrived>>
----------------------------------------------------------------------------
(* Availability, cache, local answers.                                     *)

OverQuota_Late(calls) == calls > Quota
OverQuota(calls) == calls >= Quota
\* A setting of the parent turns the operation off; else the calls of the day are counted.
CheckQuota(s) ==
  LET r == req[s]
  IN /\ At(s, "quota")
     /\ \/ Go(s, With(r, "unavailable", "off", Nothing, "none"), "local")
        \/ IF OverQuota(billable) THEN Go(s, With(r, "unavailable", "quota", Nothing, "none"), "paid_for") ELSE Go(s, r, "budget")
     /\ UNCHANGED <<Tables, Rest>>

\* sumCostMicros, and existsSince when 80 % is spent.
Warned == \E a \in alerts : a[1] = "budget_warning"
CheckBudget(s) ==
  LET r == req[s]
  IN /\ At(s, "budget")
     /\ IF spent >= Budget THEN Go(s, With(r, "unavailable", "budget", Nothing, "none"), "paid_for")
        ELSE Go(s, r, IF 10 * spent >= 8 * Budget /\ ~Warned THEN "warn" ELSE "cache")
     /\ UNCHANGED <<Tables, Rest>>

WarnBudget(s) ==
  /\ At(s, "warn")
  /\ \/ Written /\ alerts' = alerts \cup {<<"budget_warning", spent>>} /\ Go(s, req[s], "cache")
     \/ WriteFails /\ alerts' = alerts /\ Go(s, Failed(req[s], "ai_alert_write_failed"), "cache")
  /\ UNCHANGED <<cache, billable, spent, client, job, arrived>>

\* cachedForUnavailable: an answer already paid for is still served.
PaidFor(s) ==
  LET r == req[s]
  IN /\ At(s, "paid_for")
     /\ IF Cacheable(r) /\ Cached(CacheKey(r)) /\ cache[CacheKey(r)].status # "blocked"
          THEN Go(s, FromCache(r, "paid"), "log") ELSE Go(s, r, "local")
     /\ UNCHANGED <<Tables, Rest>>

Reusable(r) ==
  /\ Cacheable(r) /\ Cached(CacheKey(r))
  /\ cache[CacheKey(r)].status # "blocked"
  /\ ~(r.kind = "chunk" /\ cache[CacheKey(r)].by = "local")

\* The injection guard has run, the route is chosen; no provider serves it, or the cache is read.
ReadCache(s) ==
  LET r == req[s]
  IN /\ At(s, "cache")
     /\ \/ Go(s, With(r, "unavailable", "not_configured", Nothing, "none"), "local")
        \/ /\ Reusable(r) /\ Go(s, FromCache(r, "cache"), "log")
        \/ /\ ~Reusable(r) /\ Go(s, r, IF r.async THEN "job" ELSE "call")
     /\ UNCHANGED <<Tables, Rest>>

\* localOutcome: a chunk goes through the cache, a final summary is put together,
\* questions on a text may have a local form.  Without one, the request keeps its reason,
\* but a free question that asks for a word is answered by the dictionary (not after a failed call).
Local(s) ==
  LET r == req[s]
      local == With(r, "ok", "none", LocalOutput(r), "local")
  IN /\ At(s, "local") \/ At(s, "fallback")
     /\ CASE r.kind = "chunk" ->
               IF Cached(CacheKey(r)) /\ cache[CacheKey(r)].status # "blocked" THEN Go(s, FromCache(r, "local"), "log") ELSE Go(s, local, "put")
          [] r.kind = "final" -> Go(s, local, "log")
          [] r.kind = "text" -> Go(s, local, "log") \/ Go(s, r, "log")
          [] r.kind = "question" -> (At(s, "local") /\ Go(s, local, "log")) \/ Go(s, r, "log")
     /\ UNCHANGED <<Tables, Rest>>
----------------------------------------------------------------------------
(* The call, its answer, and the end of a request.                         *)

\* startJob: the row is written, then the client is answered 202 and the work starts.
CreateJob(s) ==
  /\ At(s, "job")
  /\ job' = [job EXCEPT ![s] = [NoJob EXCEPT !.status = "pending"]]
  /\ client' = [client EXCEPT ![s] = IF @ = "waiting" THEN "polling" ELSE @]
  /\ Go(s, req[s], "call")
  /\ UNCHANGED <<Tables, arrived, faults>>

\* A client that is gone aborts the call, but not the work of a job.
Aborted(s) == client[s] = "gone" /\ ~req[s].async

\* A transport error, the deadline or the client that went away.
CallFails(s) ==
  LET r == req[s]
  IN /\ At(s, "call")
     /\ IF Aborted(s) THEN Go(s, With(r, "aborted", "client_closed", Nothing, "ai"), "log")
        ELSE Go(s, With(r, "unavailable", "provider_error", Nothing, "ai"), "fallback")
     /\ UNCHANGED <<Tables, Rest>>

\* An invalid answer is asked for again once, unless the client has gone.
Regenerates_OneMore(r) == r.tries <= MaxAttempts
Regenerates(r) == r.tries < MaxAttempts
\* The provider answers: the usage of this attempt is added to the request.
Response(s, kind) ==
  LET r == [req[s] EXCEPT !.tries = @ + 1, !.cost = @ + CallCost]
  IN CASE kind = "valid" -> \E out \in Answers(r) : Go(s, With(r, "ok", "none", out, "ai"), IF Cacheable(r) THEN "put" ELSE "log")
       [] kind = "not_in_text" -> Go(s, With(r, "not_in_text", "none", Nothing, "ai"), "put")
       [] kind = "redirect" -> Go(s, With(r, "blocked", "adult_redirect", Nothing, "ai"), "alert")
       [] kind = "refusal" -> Go(s, With(r, "blocked", "refusal", Nothing, "ai"), IF r.kind = "question" THEN "alert" ELSE AfterAlert(r))
       [] kind = "invalid" -> \/ Regenerates(r) /\ ~Aborted(s) /\ Go(s, r, "call")
                              \/ Go(s, With(r, "blocked", "validation", Nothing, "ai"), AfterAlert(r))
                              \/ Go(s, With(r, "blocked", "safety_output", Nothing, "ai"), "alert")

Responses(r) == {"valid", "invalid", "refusal"} \cup (IF r.kind = "question" THEN {"redirect"} ELSE {"not_in_text"})
CallAnswers(s) ==
  /\ At(s, "call")
  /\ \E kind \in Responses(req[s]) : Response(s, kind)
  /\ UNCHANGED <<Tables, Rest>>

\* putCache, whose failure is only logged; without its local answer a request fails, as in a crash.
PutCache(s) ==
  LET r == req[s]
  IN /\ At(s, "put")
     /\ \/ Written /\ Put(CacheKey(r), r.status, r.by, r.output)
        \/ WriteFails /\ r.by = "ai" /\ cache' = cache
     /\ Go(s, r, "log")
     /\ UNCHANGED <<billable, spent, alerts, client, job, arrived>>

\* finish: one row of ai_requests; only what a provider answered or was asked counts for the limits.
\* Without more to write, the answer is sent.  A row that cannot be written does not count.
Billable(r) == r.by = "ai"
ByJob(s) == client[s] = "polling" \/ (req[s].async /\ req[s].by = "cache" /\ client[s] # "gone")
Log(s) ==
  LET r == req[s]
  IN /\ At(s, "log")
     /\ \/ /\ Written
           /\ billable' = IF Billable(r) THEN billable + 1 ELSE billable
           /\ spent' = IF Billable(r) THEN spent + r.cost ELSE spent
        \/ WriteFails /\ UNCHANGED <<billable, spent>>
     /\ IF r.kind = "question" THEN Go(s, r, "keep") /\ client' = client
        ELSE IF ByJob(s) THEN Go(s, r, "reply") /\ client' = client
        ELSE Go(s, Idle, "idle") /\ client' = [client EXCEPT ![s] = "idle"]
     /\ UNCHANGED <<cache, alerts, job, arrived>>

\* recordFreeQuestion
Outcome(r) == CASE r.status = "ok" -> "answered"
                [] r.status = "blocked" -> IF r.reason = "adult_redirect" THEN "adult_redirect" ELSE "blocked"
                [] OTHER -> "unavailable"
Kept_Answers(r) == IF r.status = "aborted" THEN r.kept ELSE Append(r.kept, Outcome(r))
Kept(r) == Append(r.kept, Outcome(r))
Keep(s) ==
  LET r == req[s]
  IN /\ At(s, "keep")
     /\ \/ Written /\ Go(s, [r EXCEPT !.kept = Kept(r)], "reply")
        \/ WriteFails /\ Go(s, Failed(r, "free_question_log_failed"), "reply")
     /\ UNCHANGED <<Tables, client, job, arrived>>

\* The answer is sent, or becomes the result of the job (also of a job made for a cached answer).
Reply(s) ==
  LET r == req[s]
  IN /\ At(s, "reply")
     /\ IF ByJob(s)
          THEN /\ client' = [client EXCEPT ![s] = "polling"]
               /\ job' = [job EXCEPT ![s] = [status |-> "done", answer |-> Answer(r)]]
          ELSE client' = [client EXCEPT ![s] = "idle"] /\ job' = job
     /\ Go(s, Idle, "idle")
     /\ UNCHANGED <<Tables, arrived, faults>>
----------------------------------------------------------------------------
(* The client and the failures.                                            *)

\* A job whose request was lost is pending past its deadline and the stale margin; a live one ends before.
Stale_Never(s) == FALSE
Stale(s) == job[s].status = "pending" /\ At(s, "idle")
\* GET /api/ai/jobs/:id
Poll(s) ==
  /\ client[s] = "polling"
  /\ job[s].status = "done" \/ Stale(s)
  /\ client' = [client EXCEPT ![s] = "idle"]
  /\ job' = [job EXCEPT ![s] = NoJob]
  /\ UNCHANGED <<req, Tables, arrived, faults>>

\* The client closes the connection.  Before the call this shows when the call starts; after it, only the answer is lost.
Leave(s) ==
  /\ client[s] = "waiting" /\ At(s, "call")
  /\ client' = [client EXCEPT ![s] = "gone"]
  /\ UNCHANGED <<req, job, Tables, arrived, faults>>

\* The server restarts: requests are lost, a client that waits gets a network error, jobs stay.
Crash ==
  /\ faults > 0 /\ faults' = faults - 1
  /\ req' = [s \in Slots |-> Idle]
  /\ client' = [s \in Slots |-> IF client[s] = "polling" THEN "polling" ELSE "idle"]
  /\ UNCHANGED <<job, Tables, arrived>>

Offers == ({"text", "question"} \X Texts) \cup ({"chunk"} \X Chunks) \cup {<<"final", Nothing>>}
Serve(s) ==
  \/ ReadChunk(s) \/ Alert(s) \/ Mark(s) \/ CheckQuota(s) \/ CheckBudget(s)
  \/ WarnBudget(s) \/ PaidFor(s) \/ ReadCache(s) \/ Local(s) \/ CreateJob(s) \/ CallFails(s) \/ CallAnswers(s)
  \/ PutCache(s) \/ Log(s) \/ Keep(s) \/ Reply(s)
Next ==
  \/ \E s \in Slots : \/ Serve(s) \/ Poll(s) \/ Leave(s)
                      \/ \E o \in Offers : arrived < MaxRequests /\ arrived' = arrived + 1 /\ Arrive(s, o[1], o[2])
  \/ Crash
Spec == Init /\ [][Next]_vars
----------------------------------------------------------------------------
\* Type invariant; no request costs more than two calls of the provider (one regeneration).
TypeOK ==
  /\ \A s \in Slots :
       /\ req[s].kind \in Kinds /\ req[s].tries \in 0..MaxAttempts /\ req[s].cost \in 0..MaxAttempts * CallCost
       /\ req[s].status \in {"none", "ok", "not_in_text", "blocked", "unavailable", "aborted"}
       /\ req[s].by \in {"none", "ai", "local", "cache", "paid"}
       /\ Len(req[s].chunks) <= NChunks
       /\ client[s] \in {"idle", "waiting", "polling", "gone"}
       /\ job[s].status \in {"none", "pending", "done"}
  /\ \A k \in DOMAIN cache : cache[k].status \in {"ok", "not_in_text", "blocked"}
  /\ billable \in Nat /\ spent \in Nat /\ arrived \in 0..MaxRequests /\ faults \in 0..MaxFaults

(***************************************************************************)
(* The limits of the parent hold up to the requests that were already on   *)
(* their way: the calls are counted before the call and logged after it,   *)
(* so each other client can go one request past the quota, and two calls   *)
(* past the budget.  (Of the rows that were written: a call whose row      *)
(* could not be inserted is not counted, like one lost in a restart.)      *)
(***************************************************************************)
LimitsHold ==
  /\ billable < Quota + Cardinality(Slots)
  /\ spent < Budget + MaxAttempts * CallCost * Cardinality(Slots)

(***************************************************************************)
(* Whatever the filter or the provider found about a child in distress, or *)
(* an unsafe text or answer, the parent is told before the child is; only  *)
(* an alert whose insert failed is missing, and that failure is in the     *)
(* server's log under this request.                                        *)
(***************************************************************************)
Reported(r) == <<r.reason, r.about>> \in alerts \/ "ai_alert_write_failed" \in r.errors
ReportedToParent ==
  \A s \in Slots : At(s, "log") /\ req[s].reason \in {"adult_redirect", "safety_input", "safety_output"} => Reported(req[s])

(***************************************************************************)
(* Every free question that is answered, refused or given up is kept once, *)
(* with the outcome the child got: on every path, also when the client has *)
(* gone or the answer is a job.  Only a question whose insert failed is    *)
(* missing, and that failure is in the server's log under this request.    *)
(***************************************************************************)
QuestionsKept ==
  \A s \in Slots : At(s, "reply") /\ req[s].kind = "question" =>
    \/ req[s].kept = <<>> /\ "free_question_log_failed" \in req[s].errors
    \/ req[s].kept = <<IF req[s].status = "ok" THEN "answered" ELSE IF req[s].reason = "adult_redirect" THEN "adult_redirect"
                       ELSE IF req[s].status = "blocked" THEN "blocked" ELSE "unavailable">>

(***************************************************************************)
(* An answer is about the text that was asked, and a final summary is made *)
(* of what its chunks say now, also when another client answered them      *)
(* again meanwhile or the answer comes from the cache.                     *)
(***************************************************************************)
AnswersItsOwn ==
  \A s \in Slots : At(s, "log") /\ req[s].status = "ok" =>
    IF req[s].kind = "final" THEN req[s].output = Usable(req[s].chunks) ELSE req[s].output[1] = req[s].about
=============================================================================
