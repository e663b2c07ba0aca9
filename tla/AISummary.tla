----------------------------- MODULE AISummary ------------------------------
(***************************************************************************)
(* The progressive summary of a document (aiClient.ts), on top of the      *)
(* AIRouter: the client sends the chunks, a few at a time, then asks for   *)
(* the final summary, which the server makes from the chunks in its cache. *)
(* Chunks the server misses are sent again, past the client's own cache.   *)
(* Answers arrive in any order, and another device may answer a chunk of   *)
(* the same document at the same time.                                     *)
(***************************************************************************)
EXTENDS AIRouter

CONSTANT MaxSummaries \* bound: summaries asked for

MaxMissingChunkRetries == 2

VARIABLES
  summary, \* the summary in progress, or its outcome
  stored,  \* the client's aiCache: of the chunks, and of the final summary (0)
  asked    \* summaries asked for

all == <<vars, summary, stored, asked>>

Unavailable(reason) == [status |-> "unavailable", reason |-> reason, output |-> Nothing, by |-> "none"]
NoSummary == [phase |-> "idle", todo |-> {}, lanes |-> [s \in Slots |-> 0], bypass |-> FALSE, failure |-> Nothing,
              attempt |-> 0, done |-> 0, outcome |-> Nothing]

\* An earlier summary of the same plan was made of local answers; its final summary is still in the
\* server's cache, a chunk only in the client's.
EarlierFinal == [Idle EXCEPT !.kind = "final", !.chunks = [i \in Chunks |-> <<i, LocalAnswer>>]]
NothingStored == [i \in Chunks \cup {0} |-> Nothing]

SummaryInit ==
  /\ Start
  /\ summary = NoSummary
  /\ asked = 0
  /\ \/ cache = Empty /\ stored = NothingStored
     \/ /\ cache = [k \in {CacheKey(EarlierFinal)} |-> [status |-> "ok", by |-> "ai", output |-> Usable(EarlierFinal.chunks)]]
        /\ \E v \in Versions : stored = [NothingStored EXCEPT ![1] = [status |-> "ok", reason |-> "none", output |-> <<1, v>>, by |-> "ai"]]

Server == <<req, client, job, cache, billable, spent, alerts, arrived, faults>>
Ended(answer) == [NoSummary EXCEPT !.phase = "ended", !.outcome = answer, !.done = summary.done]
Busy == {s \in Slots : summary.lanes[s] # 0}
----------------------------------------------------------------------------
\* summarizeProgressively: every chunk, then the final summary.
Ask ==
  /\ summary.phase \in {"idle", "ended"} /\ asked < MaxSummaries
  /\ asked' = asked + 1
  /\ summary' = [NoSummary EXCEPT !.phase = "chunks", !.todo = Chunks]
  /\ UNCHANGED <<Server, stored>>

\* runPool: a lane takes the next chunk until one comes back unavailable.
NextChunk == CHOOSE i \in summary.todo : \A j \in summary.todo : i <= j
Takes(s) == summary.phase = "chunks" /\ summary.lanes[s] = 0 /\ summary.todo # {} /\ summary.failure = Nothing
Counted_Always(n) == n + 1
Counted(n) == IF summary.bypass THEN n ELSE n + 1

FromStore(s) ==
  /\ Takes(s) /\ ~summary.bypass /\ stored[NextChunk] # Nothing
  /\ summary' = [summary EXCEPT !.todo = @ \ {NextChunk}, !.done = Counted(@)]
  /\ UNCHANGED <<Server, stored, asked>>

SendChunk(s) ==
  /\ Takes(s) /\ (summary.bypass \/ stored[NextChunk] = Nothing)
  /\ Arrive(s, "chunk", NextChunk)
  /\ summary' = [summary EXCEPT !.todo = @ \ {NextChunk}, !.lanes[s] = NextChunk]
  /\ UNCHANGED <<arrived, stored, asked>>

\* writeAICache: real answers only; once the AI is back they must win over local ones.
Store(i, answer) ==
  IF answer.status \in {"ok", "not_in_text"} /\ answer.by # "local" THEN stored' = [stored EXCEPT ![i] = answer] ELSE stored' = stored

ChunkAnswered(s, answer) ==
  /\ summary' = [summary EXCEPT !.lanes[s] = 0, !.done = Counted(@),
                                !.failure = IF answer.status = "unavailable" THEN answer.reason ELSE @]
  /\ Store(summary.lanes[s], answer)

\* All lanes are back: the final summary, or the reason of the failure.
ChunksDone ==
  /\ summary.phase = "chunks" /\ Busy = {}
  /\ summary.todo = {} \/ summary.failure # Nothing
  /\ summary' = IF summary.failure # Nothing THEN Ended(Unavailable(summary.failure)) ELSE [summary EXCEPT !.phase = "final"]
  /\ UNCHANGED <<Server, stored, asked>>

SendFinal(s) ==
  /\ summary.phase = "final" /\ client[s] = "idle" /\ \A t \in Slots : client[t] = "idle"
  /\ IF stored[0] # Nothing THEN summary' = Ended(stored[0]) /\ UNCHANGED vars
     ELSE Arrive(s, "final", Nothing) /\ UNCHANGED arrived /\ summary' = [summary EXCEPT !.phase = "answer"]
  /\ UNCHANGED <<stored, asked>>

\* missing_chunks: the listed chunks again, and the final summary again, twice at most.
MayRetry_Always == TRUE
MayRetry == summary.attempt < MaxMissingChunkRetries
FinalAnswered(answer) ==
  /\ summary' = IF answer.status = "unavailable" /\ answer.reason = "missing_chunks" /\ MayRetry
                  THEN [summary EXCEPT !.phase = "chunks", !.todo = answer.output, !.bypass = TRUE,
                                       !.attempt = IF @ < MaxMissingChunkRetries THEN @ + 1 ELSE @]
                  ELSE Ended(answer)
  /\ Store(0, answer)

Answered(s, answer) == IF summary.phase = "answer" THEN FinalAnswered(answer) ELSE ChunkAnswered(s, answer)

\* A step of the server, which may answer the client.
Step(s) ==
  /\ Serve(s)
  /\ IF client[s] = "waiting" /\ client'[s] = "idle" THEN Answered(s, Answer(req[s])) ELSE UNCHANGED <<summary, stored>>
  /\ UNCHANGED asked

Result(s) ==
  /\ Poll(s)
  /\ Answered(s, IF job[s].status = "done" THEN job[s].answer ELSE Unavailable("timeout"))
  /\ UNCHANGED asked

\* The server restarts: what waited for an answer is unavailable.
Restart ==
  LET cut == {s \in Slots : client[s] = "waiting"}
  IN /\ Crash
     /\ summary' = IF cut = {} THEN summary
                   ELSE IF summary.phase = "answer" THEN Ended(Unavailable("provider_error"))
                   ELSE [summary EXCEPT !.failure = "provider_error", !.lanes = [s \in Slots |-> IF s \in cut THEN 0 ELSE @[s]],
                                        !.done = IF summary.bypass THEN @ ELSE @ + Cardinality(cut)]
     /\ UNCHANGED <<stored, asked>>

\* Another device (counted with the faults) has the chunk answered again: by the provider, locally, blocked, or not in the text.
OtherDevice(i) ==
  /\ faults > 0 /\ faults' = faults - 1
  /\ \/ \E v \in Versions : Put(<<"chunk", i>>, "ok", "ai", <<i, v>>)
     \/ Put(<<"chunk", i>>, "ok", "local", <<i, LocalAnswer>>)
     \/ Put(<<"chunk", i>>, "blocked", "ai", Nothing)
     \/ Put(<<"chunk", i>>, "not_in_text", "ai", Nothing)
  /\ UNCHANGED <<req, client, job, billable, spent, alerts, arrived, summary, stored, asked>>

SummaryNext ==
  \/ Ask \/ ChunksDone \/ Restart
  \/ \E s \in Slots : FromStore(s) \/ SendChunk(s) \/ SendFinal(s) \/ Step(s) \/ Result(s)
  \/ \E i \in Chunks : OtherDevice(i)

SummarySpec == SummaryInit /\ [][SummaryNext]_all

\* The client goes on by itself; the server answers (a call has a deadline) and jobs are polled.
ClientStep == ChunksDone \/ \E s \in Slots : FromStore(s) \/ SendChunk(s) \/ SendFinal(s)
FairSummarySpec == SummarySpec /\ WF_all(ClientStep) /\ \A s \in Slots : WF_all(Step(s)) /\ WF_all(Result(s))
----------------------------------------------------------------------------
\* Type invariant of the client; the progress shown never passes its total, also when chunks are sent again.
SummaryTypeOK ==
  /\ summary.phase \in {"idle", "chunks", "final", "answer", "ended"}
  /\ summary.todo \subseteq Chunks /\ summary.attempt \in 0..MaxMissingChunkRetries
  /\ \A s \in Slots : summary.lanes[s] \in Chunks \cup {0}
  /\ summary.done \in 0..NChunks /\ asked \in 0..MaxSummaries

(***************************************************************************)
(* A summary that is shown is made from every chunk of the document, but   *)
(* for a share of blocked ones: lost writes, restarts, retries and other   *)
(* devices never leave out a part of the text unseen.                      *)
(***************************************************************************)
SummaryOfAllChunks ==
  summary.phase = "ended" /\ summary.outcome.status = "ok" =>
    LET parts == {summary.outcome.output[j][1] : j \in DOMAIN summary.outcome.output}
    IN parts \subseteq Chunks /\ 10 * Cardinality(Chunks \ parts) <= 3 * NChunks

(***************************************************************************)
(* Every summary that is asked for ends, with an answer or a reason.       *)
(***************************************************************************)
SummaryEnds == summary.phase \notin {"idle", "ended"} ~> summary.phase = "ended"

(***************************************************************************)
(* "only unavailability stops the summary": without a fault or another     *)
(* device, chunks that were all answered are never missing.                *)
(***************************************************************************)
AnsweredChunksNotMissing ==
  faults = MaxFaults /\ summary.phase = "ended" => summary.outcome.reason # "missing_chunks"
=============================================================================
