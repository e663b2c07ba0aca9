--------------------------- MODULE AIRouterProofs ---------------------------
(***************************************************************************)
(* Proofs about the AIRouter, for any number of clients, texts and limits: *)
(* alone (Spec), and under the summaries of a document while other devices *)
(* answer its chunks again (SummarySpec); and about these summaries.       *)
(***************************************************************************)
EXTENDS AISummary, FiniteSetTheorems, WellFoundedInduction, TLAPS

Fields == {"pc", "kind", "about", "async", "chunks", "tries", "cost", "status", "reason", "output", "by", "kept", "errors"}
Early == {"plan", "quota", "budget", "warn", "cache", "job", "call"}

\* What one request costs: the calls of the provider it made.
Priced(r) ==
  /\ r.tries \in 0 .. MaxAttempts
  /\ r.cost = IF r.tries = 0 THEN 0 ELSE IF r.tries = 1 THEN CallCost ELSE 2 * CallCost

\* Up to the call, the provider may still be asked once more.
CallInv(r) == r.pc \in Early => r.tries < MaxAttempts

\* A finding about a child is on the request only on its way to the parent, or with the parent, or its alert failed.
Findings == {"adult_redirect", "safety_input", "safety_output"}
FindingInv(r, told) ==
  r.reason \in Findings =>
    /\ r.pc \in {"alert", "mark", "log", "keep", "reply"}
    /\ r.pc \in {"mark", "log"} => <<r.reason, r.about>> \in told \/ "ai_alert_write_failed" \in r.errors
    /\ r.reason = "adult_redirect" => r.status = "blocked"

\* The record of a free question is written between the log and the answer.
KeptInv(r) ==
  /\ r.kept = <<>> \/ (r.kind = "question" /\ r.pc = "reply" /\ r.kept = <<Outcome(r)>>)
  /\ r.kind = "question" /\ r.pc = "reply" => r.kept = <<Outcome(r)>> \/ "free_question_log_failed" \in r.errors
  /\ r.pc = "keep" => r.kind = "question"

\* An answer belongs to the key it is looked up with; a plan has no answer yet.
Fits(kind, about, output) == IF kind = "final" THEN output = about ELSE output[1] = about
Subject(r) == IF r.kind = "final" THEN Usable(r.chunks) ELSE r.about
OwnInv(r) == r.status = "ok" => r.pc # "plan" /\ Fits(r.kind, Subject(r), r.output)
CacheInv == \A k \in DOMAIN cache : cache[k].status = "ok" => Fits(k[1], k[2], cache[k].output)

\* Before the call, only a request that was called has an answer of a provider.
ByInv(r) == r.pc \in {"paid_for", "local"} => r.by # "ai"

Good(r, told) ==
  /\ DOMAIN r = Fields /\ r.kind \in Kinds /\ Priced(r) /\ CallInv(r)
  /\ FindingInv(r, told) /\ KeptInv(r) /\ OwnInv(r) /\ ByInv(r)

\* Requests that have passed the quota, and the budget, and are not in the log yet.
Answering(r) == r.by = "ai" /\ r.pc \in {"alert", "mark", "fallback", "put", "log"}
InQuota(r) == Answering(r) \/ r.pc \in {"budget", "warn", "cache", "job", "call"}
InBudget(r) == Answering(r) \/ r.pc \in {"warn", "cache", "job", "call"}
PastQuota == {s \in Slots : InQuota(req[s])}
PastBudget == {s \in Slots : InBudget(req[s])}

LimitInv ==
  /\ billable \in Nat /\ spent \in Nat
  /\ billable >= Quota => billable + Cardinality(PastQuota) < Quota + Cardinality(Slots)
  /\ spent >= Budget => spent + 2 * CallCost * Cardinality(PastBudget) < Budget + 2 * CallCost * Cardinality(Slots)

RInv == DOMAIN req = Slots /\ (\A s \in Slots : Good(req[s], alerts)) /\ CacheInv /\ LimitInv
----------------------------------------------------------------------------
(* Records of a request.                                                   *)

\* Go writes the program counter and nothing else of the record it is given.
LEMMA GoRecord ==
  ASSUME NEW r, DOMAIN r = Fields, NEW pc, NEW q, q = [r EXCEPT !.pc = pc]
  PROVE  /\ DOMAIN q = Fields /\ q.pc = pc
         /\ q.kind = r.kind /\ q.about = r.about /\ q.chunks = r.chunks /\ q.tries = r.tries /\ q.cost = r.cost
         /\ q.status = r.status /\ q.reason = r.reason /\ q.output = r.output /\ q.by = r.by /\ q.kept = r.kept /\ q.errors = r.errors
  BY DEF Fields

\* With writes the four fields of an answer.
LEMMA WithRecord ==
  ASSUME NEW r, DOMAIN r = Fields, NEW status, NEW reason, NEW output, NEW by, NEW q, q = With(r, status, reason, output, by)
  PROVE  /\ DOMAIN q = Fields /\ q.pc = r.pc
         /\ q.kind = r.kind /\ q.about = r.about /\ q.chunks = r.chunks /\ q.tries = r.tries /\ q.cost = r.cost
         /\ q.status = status /\ q.reason = reason /\ q.output = output /\ q.by = by /\ q.kept = r.kept /\ q.errors = r.errors
  BY DEF Fields, With

\* A write that fails leaves a line, and nothing else.
LEMMA FailedRecord ==
  ASSUME NEW r, DOMAIN r = Fields, NEW line, NEW q, q = Failed(r, line)
  PROVE  /\ DOMAIN q = Fields /\ q.pc = r.pc
         /\ q.kind = r.kind /\ q.about = r.about /\ q.chunks = r.chunks /\ q.tries = r.tries /\ q.cost = r.cost
         /\ q.status = r.status /\ q.reason = r.reason /\ q.output = r.output /\ q.by = r.by /\ q.kept = r.kept
         /\ q.errors = r.errors \cup {line}
  BY DEF Fields, Failed

\* What a request keeps of its record wherever it goes, and what it may carry to pc.
Base(r) == DOMAIN r = Fields /\ r.kind \in Kinds /\ Priced(r) /\ r.kept = <<>>
Fit(r, told, pc, status, reason, output, by) ==
  /\ pc \in Early => r.tries < MaxAttempts
  /\ reason \in Findings => /\ pc \in {"alert", "mark", "log", "keep", "reply"}
                            /\ pc \in {"mark", "log"} => <<reason, r.about>> \in told \/ "ai_alert_write_failed" \in r.errors
                            /\ reason = "adult_redirect" => status = "blocked"
  /\ pc = "keep" => r.kind = "question"
  /\ pc = "reply" => r.kind # "question"
  /\ status = "ok" => pc # "plan" /\ Fits(r.kind, Subject(r), output)
  /\ pc \in {"paid_for", "local"} => by # "ai"

Moved(s, told, pc, by) == \E q : req' = [req EXCEPT ![s] = q] /\ Good(q, told) /\ q.pc = pc /\ q.by = by

\* A request that goes on with its record.
LEMMA GoGood ==
  ASSUME NEW s, NEW r, NEW told, NEW pc, Base(r), Go(s, r, pc), Fit(r, told, pc, r.status, r.reason, r.output, r.by)
  PROVE  Moved(s, told, pc, r.by)
<1> DEFINE q == [r EXCEPT !.pc = pc]
<1>1. /\ DOMAIN q = Fields /\ q.pc = pc
      /\ q.kind = r.kind /\ q.about = r.about /\ q.chunks = r.chunks /\ q.tries = r.tries /\ q.cost = r.cost
      /\ q.status = r.status /\ q.reason = r.reason /\ q.output = r.output /\ q.by = r.by /\ q.kept = r.kept /\ q.errors = r.errors
  BY GoRecord DEF Base
<1>2. req' = [req EXCEPT ![s] = q]
  BY DEF Go
<1> HIDE DEF q
<1>3. Priced(q) /\ CallInv(q) /\ ByInv(q)
  BY <1>1 DEF Base, Fit, Priced, CallInv, ByInv
<1>4. FindingInv(q, told)
  BY <1>1 DEF Fit, FindingInv
<1>5. KeptInv(q)
  BY <1>1 DEF Base, Fit, KeptInv
<1>6. OwnInv(q)
  BY <1>1 DEF Fit, OwnInv, Subject
<1>7. Good(q, told)
  BY <1>1, <1>3, <1>4, <1>5, <1>6 DEF Good, Base
<1> QED
  BY <1>1, <1>2, <1>7 DEF Moved

\* A request that goes on with an answer.
LEMMA WithGood ==
  ASSUME NEW s, NEW r, NEW told, NEW pc, NEW status, NEW reason, NEW output, NEW by,
         Base(r), Go(s, With(r, status, reason, output, by), pc), Fit(r, told, pc, status, reason, output, by)
  PROVE  Moved(s, told, pc, by)
<1> DEFINE q == With(r, status, reason, output, by)
<1>1. /\ DOMAIN q = Fields /\ q.pc = r.pc
      /\ q.kind = r.kind /\ q.about = r.about /\ q.chunks = r.chunks /\ q.tries = r.tries /\ q.cost = r.cost
      /\ q.status = status /\ q.reason = reason /\ q.output = output /\ q.by = by /\ q.kept = r.kept /\ q.errors = r.errors
  BY WithRecord DEF Base
<1>2. Go(s, q, pc)
  OBVIOUS
<1> HIDE DEF q
<1>3. Base(q)
  BY <1>1 DEF Base, Priced
<1>4. Fit(q, told, pc, q.status, q.reason, q.output, q.by)
  BY <1>1 DEF Fit, Subject
<1>5. Moved(s, told, pc, q.by)
  BY <1>2, <1>3, <1>4, GoGood
<1> QED
  BY <1>1, <1>5
----------------------------------------------------------------------------
(* The limits.                                                             *)

\* A request that joins or leaves a set of requests changes its size by at most one.
LEMMA Sizes ==
  ASSUME NEW S, NEW T, S \subseteq Slots, T \subseteq Slots, NEW s \in Slots
  PROVE  /\ Cardinality(S) \in Nat /\ Cardinality(S) <= Cardinality(Slots) /\ Cardinality(Slots) \in Nat
         /\ T \subseteq S => Cardinality(T) <= Cardinality(S)
         /\ s \in S /\ T \subseteq S \ {s} => Cardinality(T) + 1 <= Cardinality(S)
<1>1. IsFiniteSet(Slots)
  BY RouterAssumption
<1>2. /\ IsFiniteSet(S) /\ IsFiniteSet(T) /\ Cardinality(S) \in Nat /\ Cardinality(T) \in Nat /\ Cardinality(Slots) \in Nat
      /\ Cardinality(S) <= Cardinality(Slots)
  BY <1>1, FS_Subset, FS_CardinalityType
<1>3. T \subseteq S => Cardinality(T) <= Cardinality(S)
  BY <1>2, FS_Subset
<1>4. ASSUME s \in S, T \subseteq S \ {s} PROVE Cardinality(T) + 1 <= Cardinality(S)
  <2>1. IsFiniteSet(S \ {s}) /\ Cardinality(S \ {s}) = Cardinality(S) - 1
    BY <1>2, <1>4, FS_RemoveElement
  <2>2. Cardinality(T) <= Cardinality(S \ {s})
    BY <1>4, <2>1, FS_Subset
  <2> QED
    BY <1>2, <2>1, <2>2
<1> QED
  BY <1>2, <1>3, <1>4

\* The price of the requests on their way, for a price of K each.
LEMMA Prices ==
  ASSUME NEW K \in Nat, NEW m \in Nat, NEW n \in Nat
  PROVE  /\ K * m \in Nat
         /\ m <= n => K * m <= K * n
         /\ m + 1 <= n => K * m + K <= K * n
<1>1. K * m \in Nat
  OBVIOUS
<1>2. ASSUME m <= n PROVE K * m <= K * n
  <2>1. PICK d \in Nat : n = m + d
    BY <1>2
  <2>2. K * n = K * m + K * d /\ K * d \in Nat
    BY <2>1
  <2> QED
    BY <1>1, <2>2
<1>3. ASSUME m + 1 <= n PROVE K * m + K <= K * n
  <2>1. PICK d \in Nat : n = m + 1 + d
    BY <1>3
  <2>2. K * n = K * m + K + K * d /\ K * d \in Nat
    BY <2>1
  <2> QED
    BY <1>1, <2>2
<1> QED
  BY <1>1, <1>2, <1>3

\* A step that logs no answer of a provider lets a request past a limit only while it is not reached.
LEMMA Uncounted ==
  ASSUME LimitInv, UNCHANGED <<billable, spent>>,
         PastQuota' \subseteq PastQuota \/ billable < Quota,
         PastBudget' \subseteq PastBudget \/ spent < Budget
  PROVE  LimitInv'
<1> DEFINE K == 2 * CallCost
           Q == PastQuota
           B == PastBudget
           Q1 == PastQuota'
           B1 == PastBudget'
           n == Cardinality(Slots)
<1>1. Q \subseteq Slots /\ B \subseteq Slots /\ Q1 \subseteq Slots /\ B1 \subseteq Slots /\ K \in Nat /\ Quota \in Nat /\ Budget \in Nat
  BY RouterAssumption DEF PastQuota, PastBudget
<1>2. /\ billable \in Nat /\ spent \in Nat
      /\ billable >= Quota => billable + Cardinality(Q) < Quota + n
      /\ spent >= Budget => spent + K * Cardinality(B) < Budget + K * n
  BY DEF LimitInv
<1>3. Q1 \subseteq Q \/ billable < Quota
  OBVIOUS
<1>4. B1 \subseteq B \/ spent < Budget
  OBVIOUS
<1> SUFFICES /\ billable >= Quota => billable + Cardinality(Q1) < Quota + n
             /\ spent >= Budget => spent + K * Cardinality(B1) < Budget + K * n
  BY <1>2 DEF LimitInv
<1> HIDE DEF K, Q, B, Q1, B1, n
<1>5. CASE Slots = {}
  <2>1. Q1 = {} /\ B1 = {} /\ Q = {} /\ B = {}
    BY <1>1, <1>5
  <2> QED
    BY <1>2, <2>1
<1>6. CASE Slots # {}
  <2>1. PICK s \in Slots : TRUE
    BY <1>6
  <2>2. Cardinality(Q) \in Nat /\ Cardinality(B) \in Nat /\ Cardinality(Q1) \in Nat /\ Cardinality(B1) \in Nat /\ n \in Nat
    BY <1>1, <2>1, Sizes DEF n
  <2>3. Q1 \subseteq Q => Cardinality(Q1) <= Cardinality(Q)
    BY <1>1, <2>1, Sizes
  <2>4. B1 \subseteq B => Cardinality(B1) <= Cardinality(B)
    BY <1>1, <2>1, Sizes
  <2>5. B1 \subseteq B => K * Cardinality(B1) <= K * Cardinality(B)
    BY <1>1, <2>2, <2>4, Prices
  <2>6. K * Cardinality(B1) \in Nat /\ K * Cardinality(B) \in Nat /\ K * n \in Nat
    BY <1>1, <2>2, Prices
  <2>7. billable >= Quota => billable + Cardinality(Q1) < Quota + n
    BY <1>1, <1>2, <1>3, <2>2, <2>3
  <2>8. spent >= Budget => spent + K * Cardinality(B1) < Budget + K * n
    BY <1>1, <1>2, <1>4, <2>5, <2>6
  <2> QED
    BY <2>7, <2>8
<1> QED
  BY <1>5, <1>6

\* An answer of a provider is logged by a request that was past both limits, and no longer is.
LEMMA CountedOnce ==
  ASSUME LimitInv, NEW s \in Slots, NEW cost \in 0 .. 2 * CallCost,
         billable' = billable + 1, spent' = spent + cost,
         s \in PastQuota, s \in PastBudget, PastQuota' \subseteq PastQuota \ {s}, PastBudget' \subseteq PastBudget \ {s}
  PROVE  LimitInv'
<1> DEFINE K == 2 * CallCost
           Q == PastQuota
           B == PastBudget
           Q1 == PastQuota'
           B1 == PastBudget'
           n == Cardinality(Slots)
<1>1. Q \subseteq Slots /\ B \subseteq Slots /\ Q1 \subseteq Slots /\ B1 \subseteq Slots /\ K \in Nat /\ Quota \in Nat /\ Budget \in Nat
  BY RouterAssumption DEF PastQuota, PastBudget
<1>2. /\ billable \in Nat /\ spent \in Nat
      /\ billable >= Quota => billable + Cardinality(Q) < Quota + n
      /\ spent >= Budget => spent + K * Cardinality(B) < Budget + K * n
  BY DEF LimitInv
<1>3. cost \in Nat /\ cost <= K
  BY <1>1
<1>4. s \in Q /\ s \in B /\ Q1 \subseteq Q \ {s} /\ B1 \subseteq B \ {s}
  OBVIOUS
<1> SUFFICES /\ billable + 1 >= Quota => billable + 1 + Cardinality(Q1) < Quota + n
             /\ spent + cost >= Budget => spent + cost + K * Cardinality(B1) < Budget + K * n
  BY <1>2, <1>3 DEF LimitInv
<1> HIDE DEF K, Q, B, Q1, B1, n
<1>5. Cardinality(Q) \in Nat /\ Cardinality(B) \in Nat /\ Cardinality(Q1) \in Nat /\ Cardinality(B1) \in Nat /\ n \in Nat
  BY <1>1, Sizes DEF n
<1>6. Cardinality(Q1) + 1 <= Cardinality(Q) /\ Cardinality(B1) + 1 <= Cardinality(B)
  BY <1>1, <1>4, Sizes
<1>7. Cardinality(Q) <= n /\ Cardinality(B) <= n
  BY <1>1, Sizes DEF n
<1>8. K * Cardinality(B1) \in Nat /\ K * Cardinality(B) \in Nat /\ K * n \in Nat
  BY <1>1, <1>5, Prices
<1>9. K * Cardinality(B1) + K <= K * Cardinality(B) /\ K * Cardinality(B) <= K * n
  BY <1>1, <1>5, <1>6, <1>7, Prices
<1>10. billable + 1 >= Quota => billable + 1 + Cardinality(Q1) < Quota + n
  BY <1>1, <1>2, <1>5, <1>6, <1>7
<1>11. spent + cost >= Budget => spent + cost + K * Cardinality(B1) < Budget + K * n
  BY <1>1, <1>2, <1>3, <1>8, <1>9
<1> QED
  BY <1>10, <1>11
----------------------------------------------------------------------------
(* One request moves.                                                      *)

\* The others stay where they are.
LEMMA Others ==
  ASSUME RInv, NEW s \in Slots, NEW q, req' = [req EXCEPT ![s] = q], alerts \subseteq alerts', Good(q, alerts')
  PROVE  /\ DOMAIN req' = Slots /\ \A t \in Slots : Good(req'[t], alerts')
         /\ PastQuota' = {t \in Slots : IF t = s THEN InQuota(q) ELSE InQuota(req[t])}
         /\ PastBudget' = {t \in Slots : IF t = s THEN InBudget(q) ELSE InBudget(req[t])}
<1>1. DOMAIN req' = Slots /\ \A t \in Slots : req'[t] = IF t = s THEN q ELSE req[t]
  BY DEF RInv
<1>2. \A t \in Slots : Good(req[t], alerts')
  BY DEF RInv, Good, FindingInv
<1>3. \A t \in Slots : Good(req'[t], alerts')
  BY <1>1, <1>2
<1>4. PastQuota' = {t \in Slots : InQuota(req'[t])} /\ PastBudget' = {t \in Slots : InBudget(req'[t])}
  BY DEF PastQuota, PastBudget
<1> QED
  BY <1>1, <1>3, <1>4

\* A step that logs no answer of a provider.
LEMMA MoveKeeps ==
  ASSUME RInv, NEW s \in Slots, NEW pc, NEW by, Moved(s, alerts', pc, by), alerts \subseteq alerts', CacheInv',
         UNCHANGED <<billable, spent>>,
         pc \in {"budget", "warn", "cache", "job", "call"} \/ (by = "ai" /\ pc \in {"alert", "mark", "fallback", "put", "log"})
           => InQuota(req[s]) \/ billable < Quota,
         pc \in {"warn", "cache", "job", "call"} \/ (by = "ai" /\ pc \in {"alert", "mark", "fallback", "put", "log"})
           => InBudget(req[s]) \/ spent < Budget
  PROVE  RInv'
<1>1. PICK q : req' = [req EXCEPT ![s] = q] /\ Good(q, alerts') /\ q.pc = pc /\ q.by = by
  BY DEF Moved
<1>2. /\ DOMAIN req' = Slots /\ \A t \in Slots : Good(req'[t], alerts')
      /\ PastQuota' = {t \in Slots : IF t = s THEN InQuota(q) ELSE InQuota(req[t])}
      /\ PastBudget' = {t \in Slots : IF t = s THEN InBudget(q) ELSE InBudget(req[t])}
  BY <1>1, Others
<1>3. InQuota(q) => InQuota(req[s]) \/ billable < Quota
  BY <1>1 DEF InQuota, Answering
<1>4. InBudget(q) => InBudget(req[s]) \/ spent < Budget
  BY <1>1 DEF InBudget, Answering
<1>5. PastQuota' \subseteq PastQuota \/ billable < Quota
  BY <1>2, <1>3 DEF PastQuota
<1>6. PastBudget' \subseteq PastBudget \/ spent < Budget
  BY <1>2, <1>4 DEF PastBudget
<1>7. LimitInv'
  BY <1>5, <1>6, Uncounted DEF RInv
<1> QED
  BY <1>2, <1>7 DEF RInv

\* The record of a request before its answer is kept.
LEMMA BaseOf ==
  ASSUME RInv, NEW s \in Slots, req[s].pc # "reply"
  PROVE  Base(req[s]) /\ Good(req[s], alerts)
  BY DEF RInv, Good, KeptInv, Base

\* The key of a request names its kind and its subject.
LEMMA KeyOf ==
  ASSUME NEW r
  PROVE  CacheKey(r)[1] = r.kind /\ CacheKey(r)[2] = Subject(r)
  BY DEF CacheKey, Subject

\* An entry that is written for a request leaves every entry fitting its key.
LEMMA PutFits ==
  ASSUME CacheInv, NEW k, NEW status, NEW by, NEW output, Put(k, status, by, output), status = "ok" => Fits(k[1], k[2], output)
  PROVE  CacheInv'
  BY DEF CacheInv, Put

\* What is read from the cache for a request is about the subject of that request.
LEMMA CacheFits ==
  ASSUME CacheInv, NEW r, Cached(CacheKey(r)), cache[CacheKey(r)].status = "ok"
  PROVE  Fits(r.kind, Subject(r), cache[CacheKey(r)].output)
  BY KeyOf DEF CacheInv, Cached

\* So is an answer of the local provider, and an answer of the provider.
LEMMA AnswerFits ==
  ASSUME NEW r, r.kind \in Kinds
  PROVE  Fits(r.kind, Subject(r), LocalOutput(r)) /\ \A out \in Answers(r) : Fits(r.kind, Subject(r), out)
<1>1. CASE r.kind = "chunk"
  BY <1>1 DEF Fits, Subject, LocalOutput, Answers
<1>2. CASE r.kind = "final"
  BY <1>2 DEF Fits, Subject, LocalOutput, Answers
<1>3. CASE r.kind \in {"text", "question"}
  BY <1>3 DEF Fits, Subject, LocalOutput, Answers
<1> QED
  BY <1>1, <1>2, <1>3 DEF Kinds
----------------------------------------------------------------------------
(* The steps of the server, in the order of the module.                    *)

LEMMA IdleGood == Base(Idle) /\ Idle.pc = "idle" /\ Idle.status = "none" /\ Idle.reason = "none" /\ Idle.by = "none" /\ Idle.tries = 0
  BY DEF Base, Idle, Fields, Kinds, Priced, MaxAttempts

LEMMA ArriveStep ==
  ASSUME RInv, NEW s \in Slots, NEW kind \in Kinds, NEW about, Arrive(s, kind, about)
  PROVE  RInv'
<1>1. PICK async \in AsyncRoutes(kind) :
        LET r == [Idle EXCEPT !.kind = kind, !.about = about, !.async = async]
        IN IF kind = "final" THEN Go(s, r, "plan") ELSE Screened(s, r)
  BY DEF Arrive
<1> DEFINE r == [Idle EXCEPT !.kind = kind, !.about = about, !.async = async]
<1>2. Base(r) /\ r.kind = kind /\ r.about = about /\ r.status = "none" /\ r.reason = "none" /\ r.by = "none" /\ r.tries = 0
  BY IdleGood DEF Base, Idle, Fields, Priced
<1>3. IF kind = "final" THEN Go(s, r, "plan") ELSE Screened(s, r)
  BY <1>1
<1>4. UNCHANGED <<cache, billable, spent, alerts>>
  BY DEF Arrive, Tables
<1> HIDE DEF r
<1>5. CacheInv'
  BY <1>4 DEF CacheInv, RInv
<1>6. \A pc \in {"plan", "quota"} : Go(s, r, pc) => Moved(s, alerts', pc, "none")
  <2>1. \A pc \in {"plan", "quota"} : Fit(r, alerts', pc, r.status, r.reason, r.output, r.by)
    BY <1>2 DEF Fit, Early, Findings, MaxAttempts
  <2> QED
    BY <1>2, <2>1, GoGood
<1>7. ASSUME r.kind = "text", Go(s, With(r, "ok", "none", LocalOutput(r), "local"), "log")
      PROVE  Moved(s, alerts', "log", "local")
  <2>1. Fit(r, alerts', "log", "ok", "none", LocalOutput(r), "local")
    BY <1>2, AnswerFits DEF Fit, Early, Findings
  <2> QED
    BY <1>2, <1>7, <2>1, WithGood
<1>8. ASSUME NEW verdict \in Verdicts, Go(s, With(r, "blocked", verdict, Nothing, "none"), Told(r, verdict))
      PROVE  \E pc \in {"alert", "mark", "log"} : Moved(s, alerts', pc, "none")
  <2>1. Told(r, verdict) \in {"alert", "mark", "log"} /\ (verdict \in Findings => Told(r, verdict) = "alert")
    BY DEF Told, AfterAlert, Findings
  <2>2. Fit(r, alerts', Told(r, verdict), "blocked", verdict, Nothing, "none")
    BY <2>1 DEF Fit, Early
  <2> QED
    BY <1>2, <1>8, <2>1, <2>2, WithGood
<1>9. \/ Moved(s, alerts', "plan", "none") \/ Moved(s, alerts', "quota", "none") \/ Moved(s, alerts', "log", "local")
      \/ \E pc \in {"alert", "mark", "log"} : Moved(s, alerts', pc, "none")
  BY <1>3, <1>6, <1>7, <1>8 DEF Screened
<1> QED
  BY <1>4, <1>5, <1>9, MoveKeeps

LEMMA ReadChunkStep ==
  ASSUME RInv, NEW s \in Slots, ReadChunk(s)
  PROVE  RInv'
<1> DEFINE k == <<"chunk", Len(req[s].chunks) + 1>>
           read == IF ~Cached(k) \/ cache[k].status = "not_in_text" THEN <<"missing">>
                   ELSE IF cache[k].status = "blocked" THEN <<"blocked">> ELSE cache[k].output
           t == [req[s] EXCEPT !.chunks = Append(@, read)]
<1>1. req[s].pc = "plan" /\ Base(req[s]) /\ Good(req[s], alerts)
  BY BaseOf DEF ReadChunk, At
<1>2. Base(t) /\ t.pc = "plan" /\ t.status = req[s].status /\ t.reason = req[s].reason /\ t.by = req[s].by /\ t.tries = req[s].tries
  BY <1>1 DEF Base, Fields, Priced
<1>3. UNCHANGED <<cache, billable, spent, alerts>>
  BY DEF ReadChunk, Tables
<1>4. IF Len(t.chunks) < NChunks THEN Go(s, t, "plan")
      ELSE IF Missing(t.chunks) # {} THEN Go(s, With(t, "unavailable", "missing_chunks", Missing(t.chunks), "none"), "log")
      ELSE IF TooManyExcluded(t.chunks) THEN Go(s, With(t, "blocked", "validation", Nothing, "none"), "log")
      ELSE Go(s, t, "quota")
  BY DEF ReadChunk
<1> HIDE DEF t
<1>5. CacheInv'
  BY <1>3 DEF CacheInv, RInv
<1>6. t.status # "ok" /\ t.reason \notin Findings /\ t.tries < MaxAttempts
  BY <1>1, <1>2 DEF Good, OwnInv, FindingInv, CallInv, Early
<1>7. \A pc \in {"plan", "quota"} : Go(s, t, pc) => Moved(s, alerts', pc, t.by)
  <2>1. \A pc \in {"plan", "quota"} : Fit(t, alerts', pc, t.status, t.reason, t.output, t.by)
    BY <1>6 DEF Fit
  <2> QED
    BY <1>2, <2>1, GoGood
<1>8. Go(s, With(t, "unavailable", "missing_chunks", Missing(t.chunks), "none"), "log") => Moved(s, alerts', "log", "none")
  <2>1. Fit(t, alerts', "log", "unavailable", "missing_chunks", Missing(t.chunks), "none")
    BY DEF Fit, Early, Findings
  <2> QED
    BY <1>2, <2>1, WithGood
<1>9. Go(s, With(t, "blocked", "validation", Nothing, "none"), "log") => Moved(s, alerts', "log", "none")
  <2>1. Fit(t, alerts', "log", "blocked", "validation", Nothing, "none")
    BY DEF Fit, Early, Findings
  <2> QED
    BY <1>2, <2>1, WithGood
<1>10. \/ Moved(s, alerts', "plan", t.by) \/ Moved(s, alerts', "quota", t.by) \/ Moved(s, alerts', "log", "none")
  BY <1>4, <1>7, <1>8, <1>9
<1> QED
  BY <1>3, <1>5, <1>10, MoveKeeps

\* The parent is told before the request goes on, or the failure is on the record.
LEMMA AlertStep ==
  ASSUME RInv, NEW s \in Slots, Alert(s)
  PROVE  RInv'
<1> DEFINE r == req[s]
           t == Failed(r, "ai_alert_write_failed")
<1>1. r.pc = "alert" /\ Base(r) /\ Good(r, alerts)
  BY BaseOf DEF Alert, At
<1>2. UNCHANGED <<cache, billable, spent>> /\ alerts \subseteq alerts'
  BY DEF Alert
<1>3. CacheInv'
  BY <1>2 DEF CacheInv, RInv
<1>4. AfterAlert(r) \in {"mark", "log"}
  BY DEF AfterAlert
<1>5. ASSUME alerts' = alerts \cup {<<r.reason, r.about>>}, Go(s, r, AfterAlert(r)) PROVE Moved(s, alerts', AfterAlert(r), r.by)
  <2>1. Fit(r, alerts', AfterAlert(r), r.status, r.reason, r.output, r.by)
    BY <1>1, <1>4, <1>5 DEF Fit, Early, Good, FindingInv, OwnInv
  <2> QED
    BY <1>1, <1>5, <2>1, GoGood
<1>6. ASSUME Go(s, t, AfterAlert(r)) PROVE Moved(s, alerts', AfterAlert(r), r.by)
  <2>1. /\ DOMAIN t = Fields /\ t.kind = r.kind /\ t.about = r.about /\ t.chunks = r.chunks /\ t.tries = r.tries /\ t.cost = r.cost
        /\ t.status = r.status /\ t.reason = r.reason /\ t.output = r.output /\ t.by = r.by /\ t.kept = r.kept
        /\ "ai_alert_write_failed" \in t.errors
    BY <1>1, FailedRecord DEF Base
  <2> HIDE DEF t
  <2>2. Base(t)
    BY <1>1, <2>1 DEF Base, Priced
  <2>3. Fit(t, alerts', AfterAlert(r), t.status, t.reason, t.output, t.by)
    BY <1>1, <1>4, <2>1 DEF Fit, Early, Good, FindingInv, OwnInv, Subject
  <2> QED
    BY <1>6, <2>1, <2>2, <2>3, GoGood
<1>7. Moved(s, alerts', AfterAlert(r), r.by)
  BY <1>5, <1>6 DEF Alert
<1>8. r.by = "ai" => InQuota(r) /\ InBudget(r)
  BY <1>1 DEF InQuota, InBudget, Answering
<1> QED
  BY <1>2, <1>3, <1>4, <1>7, <1>8, MoveKeeps

LEMMA MarkStep ==
  ASSUME RInv, NEW s \in Slots, Mark(s)
  PROVE  RInv'
<1> DEFINE r == req[s]
<1>1. r.pc = "mark" /\ Base(r) /\ Good(r, alerts)
  BY BaseOf DEF Mark, At
<1>2. Put(CacheKey(r), "blocked", "ai", Nothing) \/ cache' = cache
  BY DEF Mark
<1>3. Go(s, r, "log") /\ UNCHANGED <<billable, spent, alerts>>
  BY DEF Mark
<1>4. CacheInv'
  BY <1>2, PutFits DEF RInv, CacheInv
<1>5. Fit(r, alerts', "log", r.status, r.reason, r.output, r.by)
  BY <1>1, <1>3 DEF Fit, Early, Good, FindingInv, OwnInv
<1>6. Moved(s, alerts', "log", r.by)
  BY <1>1, <1>3, <1>5, GoGood
<1>7. r.by = "ai" => InQuota(r) /\ InBudget(r)
  BY <1>1 DEF InQuota, InBudget, Answering
<1> QED
  BY <1>3, <1>4, <1>6, <1>7, MoveKeeps

\* Past the quota only while it is not reached.
LEMMA CheckQuotaStep ==
  ASSUME RInv, NEW s \in Slots, CheckQuota(s)
  PROVE  RInv'
<1> DEFINE r == req[s]
<1>1. r.pc = "quota" /\ Base(r) /\ Good(r, alerts)
  BY BaseOf DEF CheckQuota, At
<1>2. UNCHANGED <<cache, billable, spent, alerts>>
  BY DEF CheckQuota, Tables
<1>3. CacheInv'
  BY <1>2 DEF CacheInv, RInv
<1>4. \A pc \in {"local", "paid_for"}, reason \in {"off", "quota"} :
        Go(s, With(r, "unavailable", reason, Nothing, "none"), pc) => Moved(s, alerts', pc, "none")
  <2>1. \A pc \in {"local", "paid_for"}, reason \in {"off", "quota"} : Fit(r, alerts', pc, "unavailable", reason, Nothing, "none")
    BY DEF Fit, Early, Findings
  <2> QED
    BY <1>1, <2>1, WithGood
<1>5. Go(s, r, "budget") => Moved(s, alerts', "budget", r.by)
  <2>1. Fit(r, alerts', "budget", r.status, r.reason, r.output, r.by)
    BY <1>1 DEF Fit, Early, Good, FindingInv, OwnInv, CallInv
  <2> QED
    BY <1>1, <2>1, GoGood
<1>6. billable \in Nat /\ Quota \in Nat
  BY RouterAssumption DEF RInv, LimitInv
<1>7. Moved(s, alerts', "local", "none") \/ Moved(s, alerts', "paid_for", "none") \/ (billable < Quota /\ Moved(s, alerts', "budget", r.by))
  BY <1>4, <1>5, <1>6 DEF CheckQuota, OverQuota
<1> QED
  BY <1>2, <1>3, <1>7, MoveKeeps

\* Past the budget only while it is not spent.
LEMMA CheckBudgetStep ==
  ASSUME RInv, NEW s \in Slots, CheckBudget(s)
  PROVE  RInv'
<1> DEFINE r == req[s]
<1>1. r.pc = "budget" /\ Base(r) /\ Good(r, alerts)
  BY BaseOf DEF CheckBudget, At
<1>2. UNCHANGED <<cache, billable, spent, alerts>>
  BY DEF CheckBudget, Tables
<1>3. CacheInv'
  BY <1>2 DEF CacheInv, RInv
<1>4. Go(s, With(r, "unavailable", "budget", Nothing, "none"), "paid_for") => Moved(s, alerts', "paid_for", "none")
  <2>1. Fit(r, alerts', "paid_for", "unavailable", "budget", Nothing, "none")
    BY DEF Fit, Early, Findings
  <2> QED
    BY <1>1, <2>1, WithGood
<1>5. \A pc \in {"warn", "cache"} : Go(s, r, pc) => Moved(s, alerts', pc, r.by)
  <2>1. \A pc \in {"warn", "cache"} : Fit(r, alerts', pc, r.status, r.reason, r.output, r.by)
    BY <1>1 DEF Fit, Early, Good, FindingInv, OwnInv, CallInv
  <2> QED
    BY <1>1, <2>1, GoGood
<1>6. spent \in Nat /\ Budget \in Nat
  BY RouterAssumption DEF RInv, LimitInv
<1>7. Moved(s, alerts', "paid_for", "none") \/ (spent < Budget /\ \E pc \in {"warn", "cache"} : Moved(s, alerts', pc, r.by))
  BY <1>4, <1>5, <1>6 DEF CheckBudget
<1>8. InQuota(r)
  BY <1>1 DEF InQuota
<1> QED
  BY <1>2, <1>3, <1>7, <1>8, MoveKeeps

LEMMA WarnBudgetStep ==
  ASSUME RInv, NEW s \in Slots, WarnBudget(s)
  PROVE  RInv'
<1> DEFINE r == req[s]
           t == Failed(r, "ai_alert_write_failed")
<1>1. r.pc = "warn" /\ Base(r) /\ Good(r, alerts)
  BY BaseOf DEF WarnBudget, At
<1>2. alerts \subseteq alerts' /\ (Go(s, r, "cache") \/ Go(s, t, "cache")) /\ UNCHANGED <<cache, billable, spent>>
  BY DEF WarnBudget
<1>3. CacheInv'
  BY <1>2 DEF CacheInv, RInv
<1>4. Go(s, r, "cache") => Moved(s, alerts', "cache", r.by)
  <2>1. Fit(r, alerts', "cache", r.status, r.reason, r.output, r.by)
    BY <1>1 DEF Fit, Early, Good, FindingInv, OwnInv, CallInv
  <2> QED
    BY <1>1, <2>1, GoGood
<1>5. Go(s, t, "cache") => Moved(s, alerts', "cache", r.by)
  <2>1. /\ DOMAIN t = Fields /\ t.kind = r.kind /\ t.about = r.about /\ t.chunks = r.chunks /\ t.tries = r.tries /\ t.cost = r.cost
        /\ t.status = r.status /\ t.reason = r.reason /\ t.output = r.output /\ t.by = r.by /\ t.kept = r.kept
    BY <1>1, FailedRecord DEF Base
  <2> HIDE DEF t
  <2>2. Base(t)
    BY <1>1, <2>1 DEF Base, Priced
  <2>3. Fit(t, alerts', "cache", t.status, t.reason, t.output, t.by)
    BY <1>1, <2>1 DEF Fit, Early, Good, FindingInv, OwnInv, CallInv, Subject
  <2> QED
    BY <2>1, <2>2, <2>3, GoGood
<1>6. InQuota(r) /\ InBudget(r)
  BY <1>1 DEF InQuota, InBudget
<1> QED
  BY <1>2, <1>3, <1>4, <1>5, <1>6, MoveKeeps

\* An answer from the cache, whatever asks for it.
LEMMA FromCacheGood ==
  ASSUME RInv, NEW s \in Slots, NEW by \in {"paid", "cache", "local"}, req[s].pc # "reply", Cached(CacheKey(req[s])),
         Go(s, FromCache(req[s], by), "log")
  PROVE  Moved(s, alerts', "log", by)
<1> DEFINE r == req[s]
           e == cache[CacheKey(r)]
<1>1. Base(r)
  BY BaseOf
<1>2. e.status = "ok" => Fits(r.kind, Subject(r), e.output)
  BY CacheFits DEF RInv
<1>3. Fit(r, alerts', "log", e.status, "none", e.output, by)
  BY <1>2 DEF Fit, Early, Findings
<1>4. Go(s, With(r, e.status, "none", e.output, by), "log")
  BY DEF FromCache
<1> QED
  BY <1>1, <1>3, <1>4, WithGood

LEMMA PaidForStep ==
  ASSUME RInv, NEW s \in Slots, PaidFor(s)
  PROVE  RInv'
<1> DEFINE r == req[s]
<1>1. r.pc = "paid_for" /\ Base(r) /\ Good(r, alerts)
  BY BaseOf DEF PaidFor, At
<1>2. UNCHANGED <<cache, billable, spent, alerts>>
  BY DEF PaidFor, Tables
<1>3. CacheInv'
  BY <1>2 DEF CacheInv, RInv
<1>4. Go(s, r, "local") => Moved(s, alerts', "local", r.by)
  <2>1. Fit(r, alerts', "local", r.status, r.reason, r.output, r.by)
    BY <1>1 DEF Fit, Early, Good, FindingInv, OwnInv, ByInv
  <2> QED
    BY <1>1, <2>1, GoGood
<1>5. Moved(s, alerts', "log", "paid") \/ Moved(s, alerts', "local", r.by)
  BY <1>1, <1>4, FromCacheGood DEF PaidFor
<1> QED
  BY <1>2, <1>3, <1>5, MoveKeeps

LEMMA ReadCacheStep ==
  ASSUME RInv, NEW s \in Slots, ReadCache(s)
  PROVE  RInv'
<1> DEFINE r == req[s]
<1>1. r.pc = "cache" /\ Base(r) /\ Good(r, alerts)
  BY BaseOf DEF ReadCache, At
<1>2. UNCHANGED <<cache, billable, spent, alerts>>
  BY DEF ReadCache, Tables
<1>3. CacheInv'
  BY <1>2 DEF CacheInv, RInv
<1>4. Go(s, With(r, "unavailable", "not_configured", Nothing, "none"), "local") => Moved(s, alerts', "local", "none")
  <2>1. Fit(r, alerts', "local", "unavailable", "not_configured", Nothing, "none")
    BY DEF Fit, Early, Findings
  <2> QED
    BY <1>1, <2>1, WithGood
<1>5. \A pc \in {"job", "call"} : Go(s, r, pc) => Moved(s, alerts', pc, r.by)
  <2>1. \A pc \in {"job", "call"} : Fit(r, alerts', pc, r.status, r.reason, r.output, r.by)
    BY <1>1 DEF Fit, Early, Good, FindingInv, OwnInv, CallInv
  <2> QED
    BY <1>1, <2>1, GoGood
<1>6. Reusable(r) /\ Go(s, FromCache(r, "cache"), "log") => Moved(s, alerts', "log", "cache")
  BY <1>1, FromCacheGood DEF Reusable
<1>7. Moved(s, alerts', "local", "none") \/ Moved(s, alerts', "log", "cache") \/ \E pc \in {"job", "call"} : Moved(s, alerts', pc, r.by)
  BY <1>4, <1>5, <1>6 DEF ReadCache
<1>8. InQuota(r) /\ InBudget(r)
  BY <1>1 DEF InQuota, InBudget
<1> QED
  BY <1>2, <1>3, <1>7, <1>8, MoveKeeps

\* Without the provider, or after it failed.
LEMMA LocalStep ==
  ASSUME RInv, NEW s \in Slots, Local(s)
  PROVE  RInv'
<1> DEFINE r == req[s]
           own == With(r, "ok", "none", LocalOutput(r), "local")
<1>1. r.pc \in {"local", "fallback"} /\ Base(r) /\ Good(r, alerts)
  BY BaseOf DEF Local, At
<1>2. UNCHANGED <<cache, billable, spent, alerts>>
  BY DEF Local, Tables
<1>3. CacheInv'
  BY <1>2 DEF CacheInv, RInv
<1>4. \A pc \in {"put", "log"} : Go(s, own, pc) => Moved(s, alerts', pc, "local")
  <2>1. \A pc \in {"put", "log"} : Fit(r, alerts', pc, "ok", "none", LocalOutput(r), "local")
    BY <1>1, AnswerFits DEF Fit, Early, Findings, Base
  <2> QED
    BY <1>1, <2>1, WithGood
<1>5. Go(s, r, "log") => Moved(s, alerts', "log", r.by)
  <2>1. Fit(r, alerts', "log", r.status, r.reason, r.output, r.by)
    BY <1>1 DEF Fit, Early, Good, FindingInv, OwnInv
  <2> QED
    BY <1>1, <2>1, GoGood
<1>6. Cached(CacheKey(r)) /\ Go(s, FromCache(r, "local"), "log") => Moved(s, alerts', "log", "local")
  BY <1>1, FromCacheGood
<1> HIDE DEF own
<1>7. /\ r.kind = "chunk" =>
           (Cached(CacheKey(r)) /\ Go(s, FromCache(r, "local"), "log")) \/ Go(s, own, "put")
      /\ r.kind # "chunk" => Go(s, own, "log") \/ Go(s, r, "log")
  <2>1. r.kind \in Kinds
    BY <1>1 DEF Base
  <2>2. CASE r.kind = "chunk"
    BY <2>2 DEF Local, own
  <2>3. CASE r.kind = "final"
    BY <2>3 DEF Local, own
  <2>4. CASE r.kind = "text"
    BY <2>4 DEF Local, own
  <2>5. CASE r.kind = "question"
    BY <2>5 DEF Local, own
  <2> QED
    BY <2>1, <2>2, <2>3, <2>4, <2>5 DEF Kinds
<1>8. Moved(s, alerts', "put", "local") \/ Moved(s, alerts', "log", "local") \/ Moved(s, alerts', "log", r.by)
  BY <1>4, <1>5, <1>6, <1>7
<1>9. r.by = "ai" => InQuota(r) /\ InBudget(r)
  BY <1>1 DEF InQuota, InBudget, Answering, Good, ByInv
<1> QED
  BY <1>2, <1>3, <1>8, <1>9, MoveKeeps

LEMMA CreateJobStep ==
  ASSUME RInv, NEW s \in Slots, CreateJob(s)
  PROVE  RInv'
<1> DEFINE r == req[s]
<1>1. r.pc = "job" /\ Base(r) /\ Good(r, alerts)
  BY BaseOf DEF CreateJob, At
<1>2. UNCHANGED <<cache, billable, spent, alerts>> /\ Go(s, r, "call")
  BY DEF CreateJob, Tables
<1>3. CacheInv'
  BY <1>2 DEF CacheInv, RInv
<1>4. Fit(r, alerts', "call", r.status, r.reason, r.output, r.by)
  BY <1>1 DEF Fit, Early, Good, FindingInv, OwnInv, CallInv
<1>5. Moved(s, alerts', "call", r.by)
  BY <1>1, <1>2, <1>4, GoGood
<1>6. InQuota(r) /\ InBudget(r)
  BY <1>1 DEF InQuota, InBudget
<1> QED
  BY <1>2, <1>3, <1>5, <1>6, MoveKeeps

LEMMA CallFailsStep ==
  ASSUME RInv, NEW s \in Slots, CallFails(s)
  PROVE  RInv'
<1> DEFINE r == req[s]
<1>1. r.pc = "call" /\ Base(r) /\ Good(r, alerts)
  BY BaseOf DEF CallFails, At
<1>2. UNCHANGED <<cache, billable, spent, alerts>>
  BY DEF CallFails, Tables
<1>3. CacheInv'
  BY <1>2 DEF CacheInv, RInv
<1>4. Go(s, With(r, "aborted", "client_closed", Nothing, "ai"), "log") => Moved(s, alerts', "log", "ai")
  <2>1. Fit(r, alerts', "log", "aborted", "client_closed", Nothing, "ai")
    BY DEF Fit, Early, Findings
  <2> QED
    BY <1>1, <2>1, WithGood
<1>5. Go(s, With(r, "unavailable", "provider_error", Nothing, "ai"), "fallback") => Moved(s, alerts', "fallback", "ai")
  <2>1. Fit(r, alerts', "fallback", "unavailable", "provider_error", Nothing, "ai")
    BY DEF Fit, Early, Findings
  <2> QED
    BY <1>1, <2>1, WithGood
<1>6. Moved(s, alerts', "log", "ai") \/ Moved(s, alerts', "fallback", "ai")
  BY <1>4, <1>5 DEF CallFails
<1>7. InQuota(r) /\ InBudget(r)
  BY <1>1 DEF InQuota, InBudget
<1> QED
  BY <1>2, <1>3, <1>6, <1>7, MoveKeeps

\* The usage of one more call is on the record before the answer is looked at.
LEMMA CallAnswersStep ==
  ASSUME RInv, NEW s \in Slots, CallAnswers(s)
  PROVE  RInv'
<1> DEFINE old == req[s]
           r == [req[s] EXCEPT !.tries = @ + 1, !.cost = @ + CallCost]
<1>1. old.pc = "call" /\ Base(old) /\ Good(old, alerts)
  BY BaseOf DEF CallAnswers, At
<1>2. UNCHANGED <<cache, billable, spent, alerts>>
  BY DEF CallAnswers, Tables
<1>3. CacheInv'
  BY <1>2 DEF CacheInv, RInv
<1>4. /\ DOMAIN r = Fields /\ r.kind = old.kind /\ r.tries = old.tries + 1 /\ r.cost = old.cost + CallCost /\ r.kept = old.kept
      /\ r.status = old.status /\ r.reason = old.reason /\ r.output = old.output /\ r.chunks = old.chunks /\ r.about = old.about
  BY <1>1 DEF Base, Fields
<1>5. PICK kind \in Responses(old) : Response(s, kind)
  BY DEF CallAnswers
<1>6. (CASE kind = "valid" -> \E out \in Answers(r) : Go(s, With(r, "ok", "none", out, "ai"), IF Cacheable(r) THEN "put" ELSE "log")
        [] kind = "not_in_text" -> Go(s, With(r, "not_in_text", "none", Nothing, "ai"), "put")
        [] kind = "redirect" -> Go(s, With(r, "blocked", "adult_redirect", Nothing, "ai"), "alert")
        [] kind = "refusal" -> Go(s, With(r, "blocked", "refusal", Nothing, "ai"), IF r.kind = "question" THEN "alert" ELSE AfterAlert(r))
        [] kind = "invalid" -> \/ Regenerates(r) /\ ~Aborted(s) /\ Go(s, r, "call")
                               \/ Go(s, With(r, "blocked", "validation", Nothing, "ai"), AfterAlert(r))
                               \/ Go(s, With(r, "blocked", "safety_output", Nothing, "ai"), "alert"))
  BY <1>5 DEF Response
<1> HIDE DEF r
<1>7. Base(r)
  <2>1. old.tries \in 0 .. 1 /\ CallCost \in Nat
    BY <1>1, RouterAssumption DEF Good, CallInv, Early, Priced, MaxAttempts
  <2>2. Priced(r)
    BY <1>1, <1>4, <2>1 DEF Base, Priced, MaxAttempts
  <2> QED
    BY <1>1, <1>4, <2>2 DEF Base
<1>8. \A out \in Answers(r), pc \in {"put", "log"} : Go(s, With(r, "ok", "none", out, "ai"), pc) => Moved(s, alerts', pc, "ai")
  <2>1. \A out \in Answers(r), pc \in {"put", "log"} : Fit(r, alerts', pc, "ok", "none", out, "ai")
    BY <1>7, AnswerFits DEF Fit, Early, Findings, Base
  <2> QED
    BY <1>7, <2>1, WithGood
<1>9. Go(s, With(r, "not_in_text", "none", Nothing, "ai"), "put") => Moved(s, alerts', "put", "ai")
  <2>1. Fit(r, alerts', "put", "not_in_text", "none", Nothing, "ai")
    BY DEF Fit, Early, Findings
  <2> QED
    BY <1>7, <2>1, WithGood
<1>10. \A reason \in {"adult_redirect", "refusal", "safety_output"} :
         Go(s, With(r, "blocked", reason, Nothing, "ai"), "alert") => Moved(s, alerts', "alert", "ai")
  <2>1. \A reason \in {"adult_redirect", "refusal", "safety_output"} : Fit(r, alerts', "alert", "blocked", reason, Nothing, "ai")
    BY DEF Fit, Early
  <2> QED
    BY <1>7, <2>1, WithGood
<1>11. \A pc \in {"mark", "log"}, reason \in {"refusal", "validation"} :
         Go(s, With(r, "blocked", reason, Nothing, "ai"), pc) => Moved(s, alerts', pc, "ai")
  <2>1. \A pc \in {"mark", "log"}, reason \in {"refusal", "validation"} : Fit(r, alerts', pc, "blocked", reason, Nothing, "ai")
    BY DEF Fit, Early, Findings
  <2> QED
    BY <1>7, <2>1, WithGood
<1>12. Regenerates(r) /\ Go(s, r, "call") => Moved(s, alerts', "call", r.by)
  <2>1. Regenerates(r) => Fit(r, alerts', "call", r.status, r.reason, r.output, r.by)
    BY <1>1, <1>4 DEF Fit, Early, Good, FindingInv, OwnInv, Subject, Regenerates
  <2> QED
    BY <1>7, <2>1, GoGood
<1>13. AfterAlert(r) \in {"mark", "log"}
  BY DEF AfterAlert
<1>14. (\E pc \in {"put", "log", "alert", "mark"} : Moved(s, alerts', pc, "ai")) \/ Moved(s, alerts', "call", r.by)
  <2>1. CASE kind = "valid"
    BY <1>6, <1>8, <2>1
  <2>2. CASE kind = "not_in_text"
    BY <1>6, <1>9, <2>2
  <2>3. CASE kind = "redirect"
    BY <1>6, <1>10, <2>3
  <2>4. CASE kind = "refusal"
    BY <1>6, <1>10, <1>11, <1>13, <2>4
  <2>5. CASE kind = "invalid"
    BY <1>6, <1>10, <1>11, <1>12, <1>13, <2>5
  <2> QED
    BY <2>1, <2>2, <2>3, <2>4, <2>5 DEF Responses
<1>15. InQuota(old) /\ InBudget(old)
  BY <1>1 DEF InQuota, InBudget
<1> QED
  BY <1>2, <1>3, <1>14, <1>15, MoveKeeps

LEMMA PutCacheStep ==
  ASSUME RInv, NEW s \in Slots, PutCache(s)
  PROVE  RInv'
<1> DEFINE r == req[s]
<1>1. r.pc = "put" /\ Base(r) /\ Good(r, alerts)
  BY BaseOf DEF PutCache, At
<1>2. /\ Put(CacheKey(r), r.status, r.by, r.output) \/ cache' = cache
      /\ Go(s, r, "log") /\ UNCHANGED <<billable, spent, alerts>>
  BY DEF PutCache
<1>3. CacheInv'
  <2>1. CASE Put(CacheKey(r), r.status, r.by, r.output)
    <3>1. r.status = "ok" => Fits(CacheKey(r)[1], CacheKey(r)[2], r.output)
      BY <1>1, KeyOf DEF Good, OwnInv
    <3> QED
      BY <2>1, <3>1, PutFits DEF RInv
  <2>2. CASE cache' = cache
    BY <2>2 DEF CacheInv, RInv
  <2> QED
    BY <1>2, <2>1, <2>2
<1>4. Fit(r, alerts', "log", r.status, r.reason, r.output, r.by)
  BY <1>1 DEF Fit, Early, Good, FindingInv, OwnInv
<1>5. Moved(s, alerts', "log", r.by)
  BY <1>1, <1>2, <1>4, GoGood
<1>6. r.by = "ai" => InQuota(r) /\ InBudget(r)
  BY <1>1 DEF InQuota, InBudget, Answering
<1> QED
  BY <1>2, <1>3, <1>5, <1>6, MoveKeeps

\* The row that counts for the limits is written when the request is past them no longer.
LEMMA LogStep ==
  ASSUME RInv, NEW s \in Slots, Log(s)
  PROVE  RInv'
<1> DEFINE r == req[s]
<1>1. r.pc = "log" /\ Base(r) /\ Good(r, alerts)
  BY BaseOf DEF Log, At
<1>2. /\ \/ /\ billable' = IF Billable(r) THEN billable + 1 ELSE billable
            /\ spent' = IF Billable(r) THEN spent + r.cost ELSE spent
         \/ UNCHANGED <<billable, spent>>
      /\ UNCHANGED <<cache, alerts>>
  BY DEF Log
<1>3. CacheInv'
  BY <1>2 DEF CacheInv, RInv
<1>4. \/ r.kind = "question" /\ Go(s, r, "keep")
      \/ r.kind # "question" /\ Go(s, r, "reply")
      \/ Go(s, Idle, "idle")
  BY DEF Log
<1>5. \A pc \in {"keep", "reply"} : Go(s, r, pc) /\ (pc = "keep" <=> r.kind = "question") => Moved(s, alerts', pc, r.by)
  <2>1. \A pc \in {"keep", "reply"} : (pc = "keep" <=> r.kind = "question") => Fit(r, alerts', pc, r.status, r.reason, r.output, r.by)
    BY <1>1 DEF Fit, Early, Good, FindingInv, OwnInv
  <2> QED
    BY <1>1, <2>1, GoGood
<1>6. Go(s, Idle, "idle") => Moved(s, alerts', "idle", "none")
  <2>1. Fit(Idle, alerts', "idle", Idle.status, Idle.reason, Idle.output, Idle.by)
    BY IdleGood DEF Fit, Early, Findings
  <2> QED
    BY <2>1, IdleGood, GoGood
<1>7. PICK pc \in {"keep", "reply", "idle"}, by \in {r.by, "none"} : Moved(s, alerts', pc, by)
  BY <1>4, <1>5, <1>6
<1>8. CASE UNCHANGED <<billable, spent>>
  BY <1>2, <1>3, <1>7, <1>8, MoveKeeps
<1>9. CASE billable' = billable + 1 /\ spent' = spent + r.cost /\ r.by = "ai"
  <2>1. PICK q : req' = [req EXCEPT ![s] = q] /\ Good(q, alerts') /\ q.pc = pc /\ q.by = by
    BY <1>7 DEF Moved
  <2>2. /\ DOMAIN req' = Slots /\ \A t \in Slots : Good(req'[t], alerts')
        /\ PastQuota' = {t \in Slots : IF t = s THEN InQuota(q) ELSE InQuota(req[t])}
        /\ PastBudget' = {t \in Slots : IF t = s THEN InBudget(q) ELSE InBudget(req[t])}
    BY <1>2, <2>1, Others
  <2>3. ~InQuota(q) /\ ~InBudget(q)
    BY <1>7, <2>1 DEF InQuota, InBudget, Answering
  <2>4. s \in PastQuota /\ s \in PastBudget
    BY <1>1, <1>9 DEF InQuota, InBudget, Answering, PastQuota, PastBudget
  <2>5. PastQuota' \subseteq PastQuota \ {s} /\ PastBudget' \subseteq PastBudget \ {s}
    BY <2>2, <2>3 DEF PastQuota, PastBudget
  <2>6. r.cost \in 0 .. 2 * CallCost
    BY <1>1, RouterAssumption DEF Base, Priced, MaxAttempts
  <2>7. LimitInv'
    BY <1>9, <2>4, <2>5, <2>6, CountedOnce DEF RInv
  <2> QED
    BY <1>3, <2>2, <2>7 DEF RInv
<1> QED
  BY <1>2, <1>8, <1>9 DEF Billable

LEMMA KeepStep ==
  ASSUME RInv, NEW s \in Slots, Keep(s)
  PROVE  RInv'
<1> DEFINE r == req[s]
           kept == [r EXCEPT !.kept = Kept(r)]
           failed == Failed(r, "free_question_log_failed")
<1>1. r.pc = "keep" /\ Base(r) /\ Good(r, alerts)
  BY BaseOf DEF Keep, At
<1>2. UNCHANGED <<cache, billable, spent, alerts>>
  BY DEF Keep, Tables
<1>3. CacheInv'
  BY <1>2 DEF CacheInv, RInv
<1>4. PICK t \in {kept, failed} : Go(s, t, "reply")
  BY DEF Keep
<1>5. /\ DOMAIN t = Fields /\ t.kind = r.kind /\ t.about = r.about /\ t.chunks = r.chunks /\ t.tries = r.tries /\ t.cost = r.cost
      /\ t.status = r.status /\ t.reason = r.reason /\ t.output = r.output /\ t.by = r.by
      /\ \/ t.kept = Kept(r) /\ t.errors = r.errors
         \/ t.kept = r.kept /\ "free_question_log_failed" \in t.errors
      /\ r.errors \subseteq t.errors
  <2>1. CASE t = kept
    BY <1>1, <2>1 DEF Base, Fields
  <2>2. CASE t = failed
    BY <1>1, <2>2, FailedRecord DEF Base
  <2> QED
    BY <2>1, <2>2
<1> HIDE DEF kept, failed
<1> DEFINE q == [t EXCEPT !.pc = "reply"]
<1>6. /\ DOMAIN q = Fields /\ q.pc = "reply"
      /\ q.kind = t.kind /\ q.about = t.about /\ q.chunks = t.chunks /\ q.tries = t.tries /\ q.cost = t.cost
      /\ q.status = t.status /\ q.reason = t.reason /\ q.output = t.output /\ q.by = t.by /\ q.kept = t.kept /\ q.errors = t.errors
  BY <1>5, GoRecord
<1>7. req' = [req EXCEPT ![s] = q]
  BY <1>4 DEF Go
<1> HIDE DEF q
<1>8. Kept(r) = <<Outcome(r)>> /\ Outcome(q) = Outcome(r) /\ r.kept = <<>>
  BY <1>1, <1>5, <1>6 DEF Kept, Base, Outcome
<1>9. KeptInv(q)
  BY <1>1, <1>5, <1>6, <1>8 DEF KeptInv, Good
<1>10. Priced(q) /\ CallInv(q) /\ ByInv(q) /\ OwnInv(q)
  BY <1>1, <1>5, <1>6 DEF Good, Priced, CallInv, ByInv, OwnInv, Subject, Early
<1>11. FindingInv(q, alerts')
  BY <1>1, <1>2, <1>5, <1>6 DEF Good, FindingInv
<1>12. Good(q, alerts')
  BY <1>1, <1>5, <1>6, <1>9, <1>10, <1>11 DEF Good
<1>13. Moved(s, alerts', "reply", r.by)
  BY <1>5, <1>6, <1>7, <1>12 DEF Moved
<1> QED
  BY <1>2, <1>3, <1>13, MoveKeeps

LEMMA ReplyStep ==
  ASSUME RInv, NEW s \in Slots, Reply(s)
  PROVE  RInv'
<1>1. UNCHANGED <<cache, billable, spent, alerts>> /\ Go(s, Idle, "idle")
  BY DEF Reply, Tables
<1>2. CacheInv'
  BY <1>1 DEF CacheInv, RInv
<1>3. Fit(Idle, alerts', "idle", Idle.status, Idle.reason, Idle.output, Idle.by)
  BY IdleGood DEF Fit, Early, Findings
<1>4. Moved(s, alerts', "idle", "none")
  BY <1>1, <1>3, IdleGood, GoGood
<1> QED
  BY <1>1, <1>2, <1>4, MoveKeeps
----------------------------------------------------------------------------
(* The server, its clients and the failures.                               *)

LEMMA ServeStep ==
  ASSUME RInv, NEW s \in Slots, Serve(s)
  PROVE  RInv'
  BY ReadChunkStep, AlertStep, MarkStep, CheckQuotaStep, CheckBudgetStep, WarnBudgetStep, PaidForStep, ReadCacheStep,
     LocalStep, CreateJobStep, CallFailsStep, CallAnswersStep, PutCacheStep, LogStep, KeepStep, ReplyStep DEF Serve

\* What the client does changes no request.
LEMMA SameRequests ==
  ASSUME RInv, UNCHANGED <<req, cache, billable, spent, alerts>>
  PROVE  RInv'
  BY DEF RInv, CacheInv, LimitInv, PastQuota, PastBudget

\* A restart forgets every request; the tables stay.
LEMMA CrashStep ==
  ASSUME RInv, Crash
  PROVE  RInv'
<1>1. req' = [s \in Slots |-> Idle] /\ UNCHANGED <<cache, billable, spent, alerts>>
  BY DEF Crash, Tables
<1>2. Good(Idle, alerts')
  BY IdleGood DEF Good, Base, CallInv, FindingInv, KeptInv, OwnInv, ByInv, Early, Findings
<1>3. DOMAIN req' = Slots /\ \A s \in Slots : Good(req'[s], alerts')
  BY <1>1, <1>2
<1>4. CacheInv'
  BY <1>1 DEF CacheInv, RInv
<1>5. ~InQuota(Idle) /\ ~InBudget(Idle)
  BY IdleGood DEF InQuota, InBudget, Answering
<1>6. PastQuota' = {} /\ PastBudget' = {}
  BY <1>1, <1>5 DEF PastQuota, PastBudget
<1>7. LimitInv'
  BY <1>1, <1>6, Uncounted DEF RInv
<1> QED
  BY <1>3, <1>4, <1>7 DEF RInv

\* At the start no request is on its way and nothing is spent.
LEMMA StartInv ==
  ASSUME Start, CacheInv
  PROVE  RInv
<1>1. req = [s \in Slots |-> Idle] /\ billable = 0 /\ spent = 0
  BY DEF Start
<1>2. Good(Idle, alerts)
  BY IdleGood DEF Good, Base, CallInv, FindingInv, KeptInv, OwnInv, ByInv, Early, Findings
<1>3. LimitInv
  BY <1>1, RouterAssumption DEF LimitInv
<1> QED
  BY <1>1, <1>2, <1>3 DEF RInv

\* The router keeps RInv.
THEOREM RouterInv == Spec => []RInv
<1>1. Init => RInv
  BY StartInv DEF Init, Empty, CacheInv
<1>2. RInv /\ [Next]_vars => RInv'
  <2> SUFFICES ASSUME RInv, [Next]_vars PROVE RInv'
    OBVIOUS
  <2>1. CASE UNCHANGED vars
    BY <2>1, SameRequests DEF vars
  <2>2. CASE Crash
    BY <2>2, CrashStep
  <2>3. ASSUME NEW s \in Slots, Serve(s) PROVE RInv'
    BY <2>3, ServeStep
  <2>4. ASSUME NEW s \in Slots, Poll(s) \/ Leave(s) PROVE RInv'
    BY <2>4, SameRequests DEF Poll, Leave, Tables
  <2>5. ASSUME NEW s \in Slots, NEW o \in Offers, Arrive(s, o[1], o[2]) PROVE RInv'
    <3>1. o[1] \in Kinds
      BY DEF Offers, Kinds
    <3> QED
      BY <2>5, <3>1, ArriveStep
  <2> QED
    BY <2>1, <2>2, <2>3, <2>4, <2>5 DEF Next
<1> QED
  BY <1>1, <1>2, PTL DEF Spec

\* So it does under the summaries of a document, when other devices write its cache.
THEOREM SummaryInv == SummarySpec => []RInv
<1>1. SummaryInit => RInv
  <2> SUFFICES ASSUME SummaryInit PROVE RInv
    OBVIOUS
  <2>1. CASE cache = Empty
    BY <2>1, StartInv DEF SummaryInit, Empty, CacheInv
  <2>2. CASE cache = [k \in {CacheKey(EarlierFinal)} |-> [status |-> "ok", by |-> "ai", output |-> Usable(EarlierFinal.chunks)]]
    <3>1. EarlierFinal.kind = "final"
      BY DEF EarlierFinal, Idle
    <3>2. CacheKey(EarlierFinal)[1] = "final" /\ CacheKey(EarlierFinal)[2] = Usable(EarlierFinal.chunks)
      BY <3>1 DEF CacheKey
    <3>3. CacheInv
      BY <2>2, <3>2 DEF CacheInv, Fits
    <3> QED
      BY <3>3, StartInv DEF SummaryInit
  <2> QED
    BY <2>1, <2>2 DEF SummaryInit
<1>2. RInv /\ [SummaryNext]_all => RInv'
  <2> SUFFICES ASSUME RInv, [SummaryNext]_all PROVE RInv'
    OBVIOUS
  <2>1. CASE UNCHANGED all
    BY <2>1, SameRequests DEF all, vars
  <2>2. CASE Ask \/ ChunksDone
    BY <2>2, SameRequests DEF Ask, ChunksDone, Server
  <2>3. CASE Restart
    BY <2>3, CrashStep DEF Restart
  <2>4. ASSUME NEW s \in Slots, FromStore(s) \/ Result(s) PROVE RInv'
    BY <2>4, SameRequests DEF FromStore, Server, Result, Poll, Tables
  <2>5. ASSUME NEW s \in Slots, SendChunk(s) PROVE RInv'
    BY <2>5, ArriveStep DEF SendChunk, Kinds
  <2>6. ASSUME NEW s \in Slots, SendFinal(s) PROVE RInv'
    <3>1. UNCHANGED vars \/ Arrive(s, "final", Nothing)
      BY <2>6 DEF SendFinal
    <3> QED
      BY <3>1, SameRequests, ArriveStep DEF vars, Kinds
  <2>7. ASSUME NEW s \in Slots, Step(s) PROVE RInv'
    BY <2>7, ServeStep DEF Step
  <2>8. ASSUME NEW i \in Chunks, OtherDevice(i) PROVE RInv'
    <3>1. UNCHANGED <<req, billable, spent, alerts>>
      BY <2>8 DEF OtherDevice
    <3>2. PICK status, by, output : Put(<<"chunk", i>>, status, by, output) /\ (status = "ok" => output[1] = i)
      <4>1. CASE \E v \in Versions : Put(<<"chunk", i>>, "ok", "ai", <<i, v>>)
        BY <4>1
      <4>2. CASE Put(<<"chunk", i>>, "ok", "local", <<i, LocalAnswer>>)
        BY <4>2
      <4>3. CASE Put(<<"chunk", i>>, "blocked", "ai", Nothing) \/ Put(<<"chunk", i>>, "not_in_text", "ai", Nothing)
        BY <4>3
      <4> QED
        BY <2>8, <4>1, <4>2, <4>3 DEF OtherDevice
    <3>3. CacheInv'
      BY <3>2, PutFits DEF RInv, Fits
    <3> QED
      BY <3>1, <3>3 DEF RInv, LimitInv, PastQuota, PastBudget
  <2> QED
    BY <2>1, <2>2, <2>3, <2>4, <2>5, <2>6, <2>7, <2>8 DEF SummaryNext
<1> QED
  BY <1>1, <1>2, PTL DEF SummarySpec

\* Each client goes at most one request past the quota of the parent, and two calls past the budget:
\* only what passed a check before the limit was reached is counted after it.
THEOREM LimitsHoldCorrect == Spec => []LimitsHold
<1>1. RInv => LimitsHold
  <2> SUFFICES ASSUME RInv PROVE LimitsHold
    OBVIOUS
  <2> DEFINE K == 2 * CallCost
             n == Cardinality(Slots)
  <2>1. /\ billable \in Nat /\ spent \in Nat
        /\ billable >= Quota => billable + Cardinality(PastQuota) < Quota + n
        /\ spent >= Budget => spent + K * Cardinality(PastBudget) < Budget + K * n
    BY DEF RInv, LimitInv
  <2>2. IsFiniteSet(Slots) /\ PastQuota \subseteq Slots /\ PastBudget \subseteq Slots /\ K \in Nat /\ Quota \in Nat /\ Budget \in Nat
    BY RouterAssumption DEF PastQuota, PastBudget
  <2>3. Cardinality(PastQuota) \in Nat /\ Cardinality(PastBudget) \in Nat /\ n \in Nat
    BY <2>2, FS_Subset, FS_CardinalityType
  <2>4. MaxAttempts * CallCost * Cardinality(Slots) = K * n
    BY DEF MaxAttempts
  <2> HIDE DEF K, n
  <2>5. K * Cardinality(PastBudget) \in Nat /\ K * n \in Nat
    BY <2>2, <2>3, Prices
  <2>6. CASE Slots = {}
    <3>1. PastQuota = {} /\ PastBudget = {}
      BY <2>2, <2>6
    <3>2. n = 0
      BY <2>6, FS_EmptySet DEF n
    <3> QED
      BY <2>1, <2>2, <2>3, <2>4, <2>5, <3>2 DEF LimitsHold, n
  <2>7. CASE n > 0
    <3>1. billable < Quota + n
      BY <2>1, <2>2, <2>3, <2>7
    <3>2. spent < Budget + K * n
      BY <2>1, <2>2, <2>3, <2>5, <2>7
    <3> QED
      BY <2>4, <3>1, <3>2 DEF LimitsHold, n
  <2>8. n = 0 => Slots = {}
    BY <2>2, FS_EmptySet DEF n
  <2> QED
    BY <2>3, <2>6, <2>7, <2>8
<1> QED
  BY <1>1, RouterInv, PTL

\* The parent has the alert before the answer that a finding blocked is logged, sent, or becomes the result of a job;
\* or the failure of the alert is in the server's log under this request.
THEOREM ReportedToParentCorrect == Spec => []ReportedToParent
<1>1. RInv => ReportedToParent
  BY DEF RInv, Good, FindingInv, Findings, ReportedToParent, Reported, At
<1> QED
  BY <1>1, RouterInv, PTL

\* A free question is on record once, with its outcome, when its answer goes out, or the failure of its record is.
THEOREM QuestionsKeptCorrect == Spec => []QuestionsKept
<1>1. RInv => QuestionsKept
  <2> DEFINE GotOutcome(r) == IF r.status = "ok" THEN "answered" ELSE IF r.reason = "adult_redirect" THEN "adult_redirect"
                        ELSE IF r.status = "blocked" THEN "blocked" ELSE "unavailable"
  <2> SUFFICES ASSUME RInv, NEW s \in Slots, req[s].pc = "reply", req[s].kind = "question"
               PROVE  \/ req[s].kept = <<>> /\ "free_question_log_failed" \in req[s].errors
                      \/ req[s].kept = <<GotOutcome(req[s])>>
    BY DEF QuestionsKept, At
  <2>1. KeptInv(req[s]) /\ FindingInv(req[s], alerts)
    BY DEF RInv, Good
  <2>2. \/ req[s].kept = <<>> /\ "free_question_log_failed" \in req[s].errors
        \/ req[s].kept = <<Outcome(req[s])>>
    BY <2>1 DEF KeptInv
  <2>3. Outcome(req[s]) = GotOutcome(req[s])
    BY <2>1 DEF FindingInv, Findings, Outcome
  <2> QED
    BY <2>2, <2>3
<1> QED
  BY <1>1, RouterInv, PTL

\* An answer is about what was asked, and a final summary is made of its own chunks,
\* also from a cache that other devices write and that held an earlier summary of the same plan.
THEOREM AnswersItsOwnCorrect == SummarySpec => []AnswersItsOwn
<1>1. RInv => AnswersItsOwn
  BY DEF RInv, Good, OwnInv, Fits, Subject, AnswersItsOwn, At
<1> QED
  BY <1>1, SummaryInv, PTL
----------------------------------------------------------------------------
(* The summaries.                                                          *)

\* The chunks a final summary is made of: all of them, but for the share of blocked ones.
Parts(output) == {output[j][1] : j \in DOMAIN output}
Complete(output) == Parts(output) \subseteq Chunks /\ 10 * Cardinality(Chunks \ Parts(output)) <= 3 * NChunks
Shown(answer) == /\ answer.status = "ok" => Complete(answer.output)
                 /\ answer.reason = "missing_chunks" => answer.output \subseteq Chunks

\* The plan reads the chunks in their order; past it, a final request has all it needs or no answer.
OnWay == {"quota", "budget", "warn", "cache", "paid_for", "local", "call", "job", "fallback", "put"}
Planned(chunks) == \A i \in DOMAIN chunks : chunks[i] \in {<<"missing">>, <<"blocked">>} \/ chunks[i][1] = i
PlanInv(r) == r.pc = "plan" => r.kind = "final" /\ (\E S : r.chunks \in Seq(S)) /\ Len(r.chunks) < NChunks /\ Planned(r.chunks)
FinalInv(r) ==
  /\ r.pc = "put" => r.status \in {"ok", "not_in_text"}
  /\ r.kind = "final" =>
       /\ r.pc # "plan" /\ (r.pc \in OnWay \/ r.status = "ok") => Complete(Usable(r.chunks))
       /\ r.reason = "missing_chunks" => r.output \subseteq Chunks
FinalCache == \A k \in DOMAIN cache : /\ cache[k].status \in {"ok", "not_in_text", "blocked"}
                                      /\ k[1] = "final" /\ cache[k].status = "ok" => Complete(k[2])

\* A request on the server has a client that waits for it; its job is pending.
SlotInv(s) ==
  /\ client[s] \in {"idle", "waiting", "polling"}
  /\ req[s].pc # "idle" => client[s] # "idle"
  /\ req[s].pc # "idle" /\ client[s] = "polling" => job[s].status = "pending"

RouteInv ==
  /\ DOMAIN client = Slots /\ DOMAIN job = Slots
  /\ (\A s \in Slots : PlanInv(req[s]) /\ FinalInv(req[s]) /\ SlotInv(s)) /\ FinalCache

\* Outside the chunks no lane is busy, and outside the final answer nothing else is asked.
LaneInv ==
  /\ summary.phase # "chunks" => \A s \in Slots : summary.lanes[s] = 0
  /\ summary.phase = "chunks" => \A s \in Slots : client[s] # "idle" => summary.lanes[s] # 0
  /\ summary.phase \notin {"chunks", "answer"} => \A s \in Slots : client[s] = "idle"
  /\ summary.todo \subseteq Chunks

\* The final answer comes from one request alone, for the final summary.
AnswerInv ==
  summary.phase = "answer" =>
    /\ \A s, t \in Slots : client[s] # "idle" /\ client[t] # "idle" => s = t
    /\ \A s \in Slots : /\ req[s].pc # "idle" => req[s].kind = "final"
                        /\ client[s] = "polling" /\ job[s].status = "done" => Shown(job[s].answer)

EndInv ==
  /\ stored[0] # Nothing /\ stored[0].status = "ok" => Complete(stored[0].output)
  /\ summary.phase = "ended" /\ summary.outcome.status = "ok" => Complete(summary.outcome.output)

SummaryFields == {"phase", "todo", "lanes", "bypass", "failure", "attempt", "done", "outcome"}
ClientInv ==
  /\ DOMAIN summary = SummaryFields /\ DOMAIN summary.lanes = Slots /\ 0 \in DOMAIN stored
  /\ LaneInv /\ AnswerInv /\ EndInv

SInv == RInv /\ RouteInv /\ ClientInv
----------------------------------------------------------------------------
(* The final request on the server.                                        *)

\* When no chunk is missing and few are blocked, what is left is complete.
LEMMA CompleteOf ==
  ASSUME NEW chunks, DOMAIN chunks = Chunks, Planned(chunks), Missing(chunks) = {}, ~TooManyExcluded(chunks)
  PROVE  Complete(Usable(chunks))
<1> DEFINE E == Excluded(chunks)
           u == Usable(chunks)
<1>1. \A i \in Chunks \ E : chunks[i][1] = i
  BY DEF Planned, Missing, Excluded
<1>2. DOMAIN u = Chunks \ E /\ \A i \in Chunks \ E : u[i] = chunks[i]
  BY DEF Usable
<1>3. E \subseteq Chunks
  BY DEF Excluded
<1>4. ~(10 * Cardinality(E) > 3 * NChunks)
  BY DEF TooManyExcluded
<1> HIDE DEF E, u
<1>5. Parts(u) = Chunks \ E
  BY <1>1, <1>2 DEF Parts
<1>6. Chunks \ Parts(u) = E
  BY <1>3, <1>5
<1>7. IsFiniteSet(Chunks) /\ NChunks \in Nat
  BY FS_Interval, RouterAssumption DEF Chunks
<1>8. Cardinality(E) \in Nat
  BY <1>3, <1>7, FS_Subset, FS_CardinalityType
<1>9. 10 * Cardinality(E) <= 3 * NChunks
  BY <1>4, <1>7, <1>8
<1> QED
  BY <1>5, <1>6, <1>9 DEF Complete, u

\* How a request of the server goes on, but for its plan and its end.
Goes(s, q) ==
  /\ req' = [req EXCEPT ![s] = q]
  /\ q.kind = req[s].kind /\ q.chunks = req[s].chunks
  /\ req[s].pc \notin {"idle", "plan"} /\ q.pc \notin {"idle", "plan"}
  /\ q.pc \in OnWay \/ q.status = "ok" => req[s].pc \in OnWay \/ req[s].status = "ok"
  /\ q.pc = "put" => q.status \in {"ok", "not_in_text"}
  /\ q.reason = "missing_chunks" => req[s].reason = "missing_chunks" /\ q.output = req[s].output

LEMMA GoGoes ==
  ASSUME NEW s, NEW r, NEW pc, DOMAIN r = Fields, Go(s, r, pc), r.kind = req[s].kind, r.chunks = req[s].chunks,
         r.status = req[s].status, r.reason = req[s].reason, r.output = req[s].output,
         req[s].pc \notin {"idle", "plan"}, pc \notin {"idle", "plan", "put"}, pc \in OnWay => req[s].pc \in OnWay
  PROVE  \E q : Goes(s, q)
<1> DEFINE q == [r EXCEPT !.pc = pc]
<1>1. /\ q.pc = pc /\ q.kind = r.kind /\ q.chunks = r.chunks /\ q.status = r.status /\ q.reason = r.reason /\ q.output = r.output
  BY GoRecord
<1>2. req' = [req EXCEPT ![s] = q]
  BY DEF Go
<1> HIDE DEF q
<1>3. Goes(s, q)
  BY <1>1, <1>2 DEF Goes
<1> QED
  BY <1>3

LEMMA WithGoes ==
  ASSUME NEW s, NEW r, NEW pc, NEW status, NEW reason, NEW output, NEW by, DOMAIN r = Fields,
         Go(s, With(r, status, reason, output, by), pc), r.kind = req[s].kind, r.chunks = req[s].chunks,
         req[s].pc \in OnWay, pc \notin {"idle", "plan"}, pc = "put" => status \in {"ok", "not_in_text"}, reason # "missing_chunks"
  PROVE  \E q : Goes(s, q)
<1> DEFINE w == With(r, status, reason, output, by)
           q == [w EXCEPT !.pc = pc]
<1>1. /\ DOMAIN w = Fields /\ w.kind = r.kind /\ w.chunks = r.chunks /\ w.status = status /\ w.reason = reason
  BY WithRecord
<1>2. req' = [req EXCEPT ![s] = q]
  BY DEF Go
<1> HIDE DEF w
<1>3. /\ q.pc = pc /\ q.kind = w.kind /\ q.chunks = w.chunks /\ q.status = w.status /\ q.reason = w.reason
  BY <1>1, GoRecord
<1> HIDE DEF q
<1>4. Goes(s, q)
  BY <1>1, <1>2, <1>3 DEF Goes, OnWay
<1> QED
  BY <1>4

\* A request keeps its kind and its chunks until it is answered.
LEMMA ServeGoes ==
  ASSUME RInv, NEW s \in Slots, Serve(s), ~ReadChunk(s)
  PROVE  (\E q : Goes(s, q)) \/ (Go(s, Idle, "idle") /\ req[s].pc \in {"log", "reply"})
<1> DEFINE r == req[s]
           Goal == (\E q : Goes(s, q)) \/ (Go(s, Idle, "idle") /\ req[s].pc \in {"log", "reply"})
<1>1. DOMAIN r = Fields /\ r.kind \in Kinds
  BY DEF RInv, Good
<1>2. AfterAlert(r) \in {"mark", "log"}
  BY DEF AfterAlert
<1>3. \A pc : Go(s, r, pc) /\ r.pc \notin {"idle", "plan"} /\ pc \notin {"idle", "plan", "put"} /\ (pc \in OnWay => r.pc \in OnWay) => Goal
  BY <1>1, GoGoes
<1>4. \A pc, status, reason, output, by :
        /\ Go(s, With(r, status, reason, output, by), pc) /\ r.pc \in OnWay /\ pc \notin {"idle", "plan"}
        /\ (pc = "put" => status \in {"ok", "not_in_text"}) /\ reason # "missing_chunks"
        => Goal
  BY <1>1, WithGoes
<1>5. \A by : Go(s, FromCache(r, by), "log") /\ r.pc \in OnWay => Goal
  BY <1>4 DEF FromCache
<1> SUFFICES Goal
  OBVIOUS
<1> HIDE DEF Goal
<1>0. \A pc, line : Go(s, Failed(r, line), pc) /\ r.pc \notin {"idle", "plan"} /\ pc \notin {"idle", "plan", "put"} /\ (pc \in OnWay => r.pc \in OnWay)
                      => \E q : Goes(s, q)
  <2> SUFFICES ASSUME NEW pc, NEW line, Go(s, Failed(r, line), pc), r.pc \notin {"idle", "plan"}, pc \notin {"idle", "plan", "put"},
                      pc \in OnWay => r.pc \in OnWay
               PROVE  \E q : Goes(s, q)
    OBVIOUS
  <2> DEFINE t == Failed(r, line)
  <2>1. DOMAIN t = Fields /\ t.kind = r.kind /\ t.chunks = r.chunks /\ t.status = r.status /\ t.reason = r.reason /\ t.output = r.output
    BY <1>1, FailedRecord
  <2>2. Go(s, t, pc)
    OBVIOUS
  <2> HIDE DEF t
  <2> QED
    BY <2>1, <2>2, GoGoes
<1>6. CASE Alert(s) \/ Mark(s)
  BY <1>0, <1>2, <1>3, <1>6 DEF Alert, Mark, At, OnWay, Goal
<1>7. CASE CheckQuota(s)
  BY <1>3, <1>4, <1>7 DEF CheckQuota, At, OnWay
<1>8. CASE CheckBudget(s) \/ WarnBudget(s)
  BY <1>0, <1>3, <1>4, <1>8 DEF CheckBudget, WarnBudget, At, OnWay, Goal
<1>9. CASE PaidFor(s)
  BY <1>3, <1>5, <1>9 DEF PaidFor, At, OnWay
<1>10. CASE ReadCache(s)
  BY <1>3, <1>4, <1>5, <1>10 DEF ReadCache, At, OnWay
<1>11. CASE Local(s)
  <2>1. r.pc \in {"local", "fallback"}
    BY <1>11 DEF Local, At
  <2>2. \/ Go(s, With(r, "ok", "none", LocalOutput(r), "local"), "put") \/ Go(s, With(r, "ok", "none", LocalOutput(r), "local"), "log")
        \/ Go(s, FromCache(r, "local"), "log") \/ Go(s, r, "log")
    <3>1. CASE r.kind = "chunk"
      BY <1>11, <3>1 DEF Local
    <3>2. CASE r.kind = "final"
      BY <1>11, <3>2 DEF Local
    <3>3. CASE r.kind = "text"
      BY <1>11, <3>3 DEF Local
    <3>4. CASE r.kind = "question"
      BY <1>11, <3>4 DEF Local
    <3> QED
      BY <1>1, <3>1, <3>2, <3>3, <3>4 DEF Kinds
  <2> QED
    BY <1>3, <1>4, <1>5, <2>1, <2>2 DEF OnWay
<1>12. CASE CreateJob(s)
  BY <1>3, <1>12 DEF CreateJob, At, OnWay
<1>13. CASE CallFails(s)
  BY <1>3, <1>4, <1>13 DEF CallFails, At, OnWay
<1>14. CASE CallAnswers(s)
  <2> DEFINE t == [req[s] EXCEPT !.tries = @ + 1, !.cost = @ + CallCost]
  <2>1. r.pc = "call"
    BY <1>14 DEF CallAnswers, At
  <2>2. DOMAIN t = Fields /\ t.kind = r.kind /\ t.chunks = r.chunks /\ t.status = r.status /\ t.reason = r.reason /\ t.output = r.output
    BY <1>1 DEF Fields
  <2>3. PICK kind \in Responses(r) : Response(s, kind)
    BY <1>14 DEF CallAnswers
  <2>4. (CASE kind = "valid" -> \E out \in Answers(t) : Go(s, With(t, "ok", "none", out, "ai"), IF Cacheable(t) THEN "put" ELSE "log")
          [] kind = "not_in_text" -> Go(s, With(t, "not_in_text", "none", Nothing, "ai"), "put")
          [] kind = "redirect" -> Go(s, With(t, "blocked", "adult_redirect", Nothing, "ai"), "alert")
          [] kind = "refusal" -> Go(s, With(t, "blocked", "refusal", Nothing, "ai"), IF t.kind = "question" THEN "alert" ELSE AfterAlert(t))
          [] kind = "invalid" -> \/ Regenerates(t) /\ ~Aborted(s) /\ Go(s, t, "call")
                                 \/ Go(s, With(t, "blocked", "validation", Nothing, "ai"), AfterAlert(t))
                                 \/ Go(s, With(t, "blocked", "safety_output", Nothing, "ai"), "alert"))
    BY <2>3 DEF Response
  <2> HIDE DEF t
  <2>5. AfterAlert(t) \in {"mark", "log"}
    BY DEF AfterAlert
  <2>6. \A pc, status, reason, output :
          /\ Go(s, With(t, status, reason, output, "ai"), pc) /\ pc \notin {"idle", "plan"}
          /\ (pc = "put" => status \in {"ok", "not_in_text"}) /\ reason # "missing_chunks"
          => Goal
    BY <2>1, <2>2, WithGoes DEF OnWay, Goal
  <2>7. Go(s, t, "call") => Goal
    BY <2>1, <2>2, GoGoes DEF OnWay, Goal
  <2>8. CASE kind = "valid"
    BY <2>4, <2>6, <2>8
  <2>9. CASE kind = "not_in_text"
    BY <2>4, <2>6, <2>9
  <2>12. CASE kind = "redirect"
    BY <2>4, <2>6, <2>12
  <2>10. CASE kind = "refusal"
    BY <2>4, <2>5, <2>6, <2>10
  <2>11. CASE kind = "invalid"
    BY <2>4, <2>5, <2>6, <2>7, <2>11
  <2> QED
    BY <2>3, <2>8, <2>9, <2>10, <2>11, <2>12 DEF Responses
<1>15. CASE PutCache(s)
  BY <1>3, <1>15 DEF PutCache, At, OnWay
<1>16. CASE Log(s)
  BY <1>3, <1>16 DEF Log, At, OnWay, Goal
<1>17. CASE Keep(s)
  <2> DEFINE t == [r EXCEPT !.kept = Kept(r)]
  <2>1. DOMAIN t = Fields /\ t.kind = r.kind /\ t.chunks = r.chunks /\ t.status = r.status /\ t.reason = r.reason /\ t.output = r.output
    BY <1>1 DEF Fields
  <2>2. (Go(s, t, "reply") \/ Go(s, Failed(r, "free_question_log_failed"), "reply")) /\ r.pc = "keep"
    BY <1>17 DEF Keep, At
  <2> HIDE DEF t
  <2> QED
    BY <1>0, <2>1, <2>2, GoGoes DEF OnWay, Goal
<1>18. CASE Reply(s)
  BY <1>18 DEF Reply, At, Goal
<1> QED
  BY <1>6, <1>7, <1>8, <1>9, <1>10, <1>11, <1>12, <1>13, <1>14, <1>15, <1>16, <1>17, <1>18 DEF Serve

\* What a step of the server does to the client and the job of its request.
LEMMA ServeClient ==
  ASSUME NEW s \in Slots, Serve(s)
  PROVE  /\ req[s].pc # "idle"
         /\ \/ UNCHANGED <<client, job>>
            \/ /\ client' = [client EXCEPT ![s] = IF @ = "waiting" THEN "polling" ELSE @]
               /\ job' = [job EXCEPT ![s] = [NoJob EXCEPT !.status = "pending"]]
            \/ /\ client' = [client EXCEPT ![s] = "idle"] /\ UNCHANGED job /\ client[s] # "polling"
               /\ Go(s, Idle, "idle") /\ req[s].pc \in {"log", "reply"}
            \/ /\ client' = [client EXCEPT ![s] = "polling"] /\ job' = [job EXCEPT ![s] = [status |-> "done", answer |-> Answer(req[s])]]
               /\ Go(s, Idle, "idle") /\ req[s].pc \in {"log", "reply"}
<1>1. CASE ReadChunk(s) \/ Alert(s) \/ Mark(s) \/ CheckQuota(s) \/ CheckBudget(s) \/ WarnBudget(s)
  BY <1>1 DEF ReadChunk, Alert, Mark, CheckQuota, CheckBudget, WarnBudget, Rest, At
<1>2. CASE PaidFor(s) \/ ReadCache(s) \/ CallFails(s) \/ CallAnswers(s) \/ PutCache(s) \/ Keep(s)
  BY <1>2 DEF PaidFor, ReadCache, CallFails, CallAnswers, PutCache, Keep, Rest, At
<1>3. CASE Local(s)
  BY <1>3 DEF Local, Rest, At
<1>4. CASE CreateJob(s)
  BY <1>4 DEF CreateJob, At
<1>5. CASE Log(s)
  BY <1>5 DEF Log, At, ByJob
<1>6. CASE Reply(s)
  BY <1>6 DEF Reply, At, ByJob
<1> QED
  BY <1>1, <1>2, <1>3, <1>4, <1>5, <1>6 DEF Serve

\* Only an answer and a mark are written to the cache.
LEMMA PutFinal ==
  ASSUME FinalCache, NEW k, NEW status, NEW by, NEW output, Put(k, status, by, output),
         status \in {"ok", "not_in_text", "blocked"}, k[1] = "final" /\ status = "ok" => Complete(k[2])
  PROVE  FinalCache'
<1>1. DOMAIN cache' = DOMAIN cache \cup {k}
  BY DEF Put
<1>2. \A x \in DOMAIN cache' : cache'[x] = IF x = k THEN [status |-> status, by |-> by, output |-> output] ELSE cache[x]
  BY DEF Put
<1> QED
  BY <1>1, <1>2 DEF FinalCache

LEMMA ServeCache ==
  ASSUME RInv, RouteInv, NEW s \in Slots, Serve(s)
  PROVE  FinalCache'
<1> DEFINE r == req[s]
<1>1. FinalInv(r) /\ FinalCache
  BY DEF RouteInv
<1>2. CASE UNCHANGED cache
  BY <1>1, <1>2 DEF FinalCache
<1>3. CASE Put(CacheKey(r), "blocked", "ai", Nothing)
  BY <1>1, <1>3, PutFinal
<1>4. CASE r.pc = "put" /\ Put(CacheKey(r), r.status, r.by, r.output)
  <2>1. r.status \in {"ok", "not_in_text"} /\ (r.kind = "final" => Complete(Usable(r.chunks)))
    BY <1>1, <1>4 DEF FinalInv, OnWay
  <2>2. CacheKey(r)[1] = "final" => Complete(CacheKey(r)[2])
    BY <2>1, KeyOf DEF Subject
  <2> QED
    BY <1>1, <1>4, <2>1, <2>2, PutFinal
<1>5. UNCHANGED cache \/ Put(CacheKey(r), "blocked", "ai", Nothing) \/ (r.pc = "put" /\ Put(CacheKey(r), r.status, r.by, r.output))
  <2>1. CASE ReadChunk(s) \/ Alert(s) \/ CheckQuota(s) \/ CheckBudget(s) \/ WarnBudget(s)
    BY <2>1 DEF ReadChunk, Alert, CheckQuota, CheckBudget, WarnBudget, Tables
  <2>2. CASE PaidFor(s) \/ ReadCache(s) \/ CallFails(s) \/ CallAnswers(s) \/ Keep(s)
    BY <2>2 DEF PaidFor, ReadCache, CallFails, CallAnswers, Keep, Tables
  <2>3. CASE Local(s)
    BY <2>3 DEF Local, Tables
  <2>4. CASE CreateJob(s) \/ Log(s) \/ Reply(s)
    BY <2>4 DEF CreateJob, Log, Reply, Tables
  <2>5. CASE Mark(s) \/ PutCache(s)
    BY <2>5 DEF Mark, PutCache, At
  <2> QED
    BY <2>1, <2>2, <2>3, <2>4, <2>5 DEF Serve
<1> QED
  BY <1>2, <1>3, <1>4, <1>5
----------------------------------------------------------------------------
(* The server keeps RouteInv.                                              *)

\* The invariants of the requests, when one of them changes.
LEMMA OneRequest ==
  ASSUME RInv, RouteInv, NEW s \in Slots, NEW q, req' = [req EXCEPT ![s] = q], PlanInv(q), FinalInv(q)
  PROVE  /\ req'[s] = q /\ \A t \in Slots : t # s => req'[t] = req[t]
         /\ \A t \in Slots : PlanInv(req'[t]) /\ FinalInv(req'[t])
<1>1. \A t \in Slots : req'[t] = IF t = s THEN q ELSE req[t]
  BY DEF RInv
<1>2. \A t \in Slots : PlanInv(req[t]) /\ FinalInv(req[t])
  BY DEF RouteInv
<1> QED
  BY <1>1, <1>2

LEMMA IdleFinal == PlanInv(Idle) /\ FinalInv(Idle)
  BY DEF Idle, PlanInv, FinalInv

\* One more chunk is read; the plan ends with the last one.
LEMMA ReadChunkFinal ==
  ASSUME RInv, RouteInv, NEW s \in Slots, ReadChunk(s)
  PROVE  \E q : /\ req' = [req EXCEPT ![s] = q] /\ PlanInv(q) /\ FinalInv(q)
                /\ q.pc # "idle" /\ req[s].kind = "final" /\ q.kind = "final"
<1> DEFINE r == req[s]
           k == <<"chunk", Len(req[s].chunks) + 1>>
           read == IF ~Cached(k) \/ cache[k].status = "not_in_text" THEN <<"missing">>
                   ELSE IF cache[k].status = "blocked" THEN <<"blocked">> ELSE cache[k].output
           t == [req[s] EXCEPT !.chunks = Append(@, read)]
<1>1. r.pc = "plan" /\ DOMAIN r = Fields /\ Good(r, alerts) /\ PlanInv(r) /\ FinalInv(r)
  BY DEF ReadChunk, At, RInv, Good, RouteInv
<1>2. /\ DOMAIN t = Fields /\ t.kind = "final" /\ t.pc = "plan" /\ t.status = r.status /\ t.reason = r.reason /\ t.output = r.output
      /\ t.chunks = Append(r.chunks, read)
  BY <1>1 DEF Fields, PlanInv
<1>3. PICK S : r.chunks \in Seq(S)
  BY <1>1 DEF PlanInv
<1>4. Len(r.chunks) \in Nat /\ Len(r.chunks) < NChunks /\ Planned(r.chunks) /\ DOMAIN r.chunks = 1 .. Len(r.chunks)
  BY <1>1, <1>3 DEF PlanInv
<1>5. read \in {<<"missing">>, <<"blocked">>} \/ read[1] = Len(r.chunks) + 1
  <2>1. CASE ~Cached(k) \/ cache[k].status \in {"not_in_text", "blocked"}
    BY <2>1
  <2>2. CASE Cached(k) /\ cache[k].status \notin {"not_in_text", "blocked"}
    <3>1. cache[k].status = "ok"
      BY <2>2 DEF RouteInv, FinalCache, Cached
    <3>2. Fits(k[1], k[2], cache[k].output)
      BY <2>2, <3>1 DEF RInv, CacheInv, Cached
    <3>3. cache[k].output[1] = Len(r.chunks) + 1
      BY <3>2 DEF Fits
    <3> QED
      BY <2>2, <3>3
  <2> QED
    BY <2>1, <2>2
<1>6. IF Len(t.chunks) < NChunks THEN Go(s, t, "plan")
      ELSE IF Missing(t.chunks) # {} THEN Go(s, With(t, "unavailable", "missing_chunks", Missing(t.chunks), "none"), "log")
      ELSE IF TooManyExcluded(t.chunks) THEN Go(s, With(t, "blocked", "validation", Nothing, "none"), "log")
      ELSE Go(s, t, "quota")
  BY DEF ReadChunk
<1> HIDE DEF t, read
<1>7. r.chunks \in Seq(S \cup {read}) /\ read \in S \cup {read}
  BY <1>3
<1>8. /\ t.chunks \in Seq(S \cup {read}) /\ Len(t.chunks) = Len(r.chunks) + 1 /\ DOMAIN t.chunks = 1 .. Len(r.chunks) + 1
      /\ \A i \in 1 .. Len(r.chunks) : t.chunks[i] = r.chunks[i]
      /\ t.chunks[Len(r.chunks) + 1] = read
  BY <1>2, <1>4, <1>7
<1>9. Planned(t.chunks)
  <2> SUFFICES ASSUME NEW i \in DOMAIN t.chunks PROVE t.chunks[i] \in {<<"missing">>, <<"blocked">>} \/ t.chunks[i][1] = i
    BY DEF Planned
  <2>1. CASE i = Len(r.chunks) + 1
    BY <1>5, <1>8, <2>1
  <2>2. CASE i \in 1 .. Len(r.chunks)
    BY <1>4, <1>8, <2>2 DEF Planned
  <2> QED
    BY <1>4, <1>8, <2>1, <2>2
<1>10. r.status # "ok"
  BY <1>1 DEF Good, OwnInv
<1>11. r.reason = "missing_chunks" => r.output \subseteq Chunks
  BY <1>1 DEF FinalInv, PlanInv
<1>12. Len(t.chunks) >= NChunks => DOMAIN t.chunks = Chunks
  BY <1>4, <1>8, RouterAssumption DEF Chunks
<1>13. CASE Len(t.chunks) < NChunks
  <2> DEFINE q == [t EXCEPT !.pc = "plan"]
  <2>1. req' = [req EXCEPT ![s] = q]
    BY <1>6, <1>13 DEF Go
  <2>2. q.pc = "plan" /\ q.kind = t.kind /\ q.chunks = t.chunks /\ q.reason = t.reason /\ q.output = t.output
    BY <1>2, GoRecord
  <2> HIDE DEF q
  <2>3. PlanInv(q)
    BY <1>2, <1>8, <1>9, <1>13, <2>2 DEF PlanInv
  <2>4. FinalInv(q)
    BY <1>2, <1>11, <2>2 DEF FinalInv
  <2> QED
    BY <1>1, <1>2, <2>1, <2>2, <2>3, <2>4 DEF PlanInv
<1>14. CASE Len(t.chunks) >= NChunks /\ Missing(t.chunks) = {} /\ ~TooManyExcluded(t.chunks)
  <2> DEFINE q == [t EXCEPT !.pc = "quota"]
  <2>1. Go(s, t, "quota")
    BY <1>4, <1>6, <1>8, <1>14, RouterAssumption
  <2>2. req' = [req EXCEPT ![s] = q]
    BY <2>1 DEF Go
  <2>3. q.pc = "quota" /\ q.kind = t.kind /\ q.chunks = t.chunks /\ q.reason = t.reason /\ q.output = t.output
    BY <1>2, GoRecord
  <2> HIDE DEF q
  <2>4. Complete(Usable(t.chunks))
    BY <1>9, <1>12, <1>14, CompleteOf
  <2>5. PlanInv(q) /\ FinalInv(q)
    BY <1>2, <1>11, <2>3, <2>4 DEF PlanInv, FinalInv
  <2> QED
    BY <1>1, <1>2, <2>2, <2>3, <2>5 DEF PlanInv
<1>15. ASSUME NEW status \in {"unavailable", "blocked"}, NEW reason, NEW output, Go(s, With(t, status, reason, output, "none"), "log"),
              reason = "missing_chunks" => output \subseteq Chunks
       PROVE  \E q : /\ req' = [req EXCEPT ![s] = q] /\ PlanInv(q) /\ FinalInv(q)
                     /\ q.pc # "idle" /\ req[s].kind = "final" /\ q.kind = "final"
  <2> DEFINE w == With(t, status, reason, output, "none")
             q == [w EXCEPT !.pc = "log"]
  <2>1. DOMAIN w = Fields /\ w.kind = "final" /\ w.status = status /\ w.reason = reason /\ w.output = output
    BY <1>2, WithRecord
  <2>2. req' = [req EXCEPT ![s] = q]
    BY <1>15 DEF Go
  <2> HIDE DEF w
  <2>3. q.pc = "log" /\ q.kind = w.kind /\ q.status = w.status /\ q.reason = w.reason /\ q.output = w.output
    BY <2>1, GoRecord
  <2> HIDE DEF q
  <2>4. PlanInv(q) /\ FinalInv(q)
    BY <1>15, <2>1, <2>3 DEF PlanInv, FinalInv, OnWay
  <2> QED
    BY <1>1, <2>1, <2>2, <2>3, <2>4 DEF PlanInv
<1>16. CASE Len(t.chunks) >= NChunks /\ Missing(t.chunks) # {}
  <2>1. Go(s, With(t, "unavailable", "missing_chunks", Missing(t.chunks), "none"), "log")
    BY <1>4, <1>6, <1>8, <1>16, RouterAssumption
  <2>2. Missing(t.chunks) \subseteq Chunks
    BY <1>12, <1>16 DEF Missing
  <2> QED
    BY <1>15, <2>1, <2>2
<1>17. CASE Len(t.chunks) >= NChunks /\ Missing(t.chunks) = {} /\ TooManyExcluded(t.chunks)
  <2>1. Go(s, With(t, "blocked", "validation", Nothing, "none"), "log")
    BY <1>4, <1>6, <1>8, <1>17, RouterAssumption
  <2> QED
    BY <1>15, <2>1
<1>18. Len(t.chunks) < NChunks \/ Len(t.chunks) >= NChunks
  BY <1>4, <1>8, RouterAssumption
<1> QED
  BY <1>13, <1>14, <1>16, <1>17, <1>18

\* A step of the server, for its own request and for the others.
LEMMA ServeRoute ==
  ASSUME RInv, RouteInv, NEW s \in Slots, Serve(s)
  PROVE  /\ RouteInv'
         /\ \A t \in Slots : t # s => req'[t] = req[t] /\ client'[t] = client[t] /\ job'[t] = job[t]
         /\ req'[s].pc # "idle" => req'[s].kind = req[s].kind
<1> DEFINE r == req[s]
<1>1. PlanInv(r) /\ FinalInv(r) /\ SlotInv(s) /\ s \in DOMAIN client /\ s \in DOMAIN job
  BY DEF RouteInv
<1>2. PICK q : req' = [req EXCEPT ![s] = q] /\ PlanInv(q) /\ FinalInv(q) /\ (q.pc # "idle" => q.kind = r.kind)
  <2>1. CASE ReadChunk(s)
    BY <2>1, ReadChunkFinal
  <2>2. ASSUME NEW q, Goes(s, q) PROVE PlanInv(q) /\ FinalInv(q) /\ q.kind = r.kind /\ req' = [req EXCEPT ![s] = q]
    BY <1>1, <2>2 DEF Goes, PlanInv, FinalInv
  <2>3. Go(s, Idle, "idle") => req' = [req EXCEPT ![s] = Idle]
    BY DEF Go, Idle
  <2>4. Idle.pc = "idle"
    BY IdleGood
  <2> QED
    BY <2>1, <2>2, <2>3, <2>4, IdleFinal, ServeGoes
<1>3. /\ req'[s] = q /\ \A t \in Slots : t # s => req'[t] = req[t]
      /\ \A t \in Slots : PlanInv(req'[t]) /\ FinalInv(req'[t])
  BY <1>2, OneRequest
<1>4. \A t \in Slots : t # s => client'[t] = client[t] /\ job'[t] = job[t]
  <2> SUFFICES ASSUME NEW t \in Slots, t # s PROVE client'[t] = client[t] /\ job'[t] = job[t]
    OBVIOUS
  <2>1. t \in DOMAIN client /\ t \in DOMAIN job
    BY DEF RouteInv
  <2>2. (\E v : client' = [client EXCEPT ![s] = v]) \/ client' = client
    BY ServeClient
  <2>3. (\E v : job' = [job EXCEPT ![s] = v]) \/ job' = job
    BY ServeClient
  <2> QED
    BY <2>1, <2>2, <2>3
<1>5. DOMAIN client' = Slots /\ DOMAIN job' = Slots
  BY ServeClient DEF RouteInv
<1>6. client[s] \in {"waiting", "polling"}
  BY <1>1, ServeClient DEF SlotInv
<1>7. SlotInv(s)'
  <2>1. CASE UNCHANGED <<client, job>>
    BY <1>1, <1>6, <2>1, ServeClient DEF SlotInv
  <2>2. CASE /\ client' = [client EXCEPT ![s] = IF @ = "waiting" THEN "polling" ELSE @]
             /\ job' = [job EXCEPT ![s] = [NoJob EXCEPT !.status = "pending"]]
    <3>1. client'[s] = "polling" /\ job'[s] = [NoJob EXCEPT !.status = "pending"]
      BY <1>1, <1>6, <2>2
    <3>2. job'[s].status = "pending"
      BY <3>1 DEF NoJob
    <3> QED
      BY <3>1, <3>2 DEF SlotInv
  <2>3. CASE Go(s, Idle, "idle") /\ client'[s] \in {"idle", "polling"}
    <3>1. req'[s].pc = "idle"
      BY <1>3, <2>3, IdleGood DEF Go, Idle, RInv
    <3> QED
      BY <2>3, <3>1 DEF SlotInv
  <2> QED
    BY <1>1, <2>1, <2>2, <2>3, ServeClient
<1>8. ASSUME NEW t \in Slots, t # s PROVE SlotInv(t)'
  <2>1. SlotInv(t)
    BY DEF RouteInv
  <2> QED
    BY <1>3, <1>4, <1>8, <2>1 DEF SlotInv
<1>9. \A t \in Slots : SlotInv(t)'
  BY <1>7, <1>8
<1>10. FinalCache'
  BY ServeCache
<1>11. RouteInv'
  BY <1>3, <1>5, <1>9, <1>10 DEF RouteInv
<1> QED
  BY <1>2, <1>3, <1>4, <1>11

\* A request that arrives.
LEMMA ArriveRoute ==
  ASSUME RInv, RouteInv, NEW s \in Slots, NEW kind \in Kinds, NEW about, Arrive(s, kind, about)
  PROVE  /\ RouteInv'
         /\ \A t \in Slots : t # s => req'[t] = req[t] /\ client'[t] = client[t]
         /\ client[s] = "idle" /\ client'[s] = "waiting" /\ UNCHANGED job /\ req'[s].kind = kind
<1>1. /\ client[s] = "idle" /\ client' = [client EXCEPT ![s] = "waiting"] /\ UNCHANGED <<job, cache>>
      /\ DOMAIN client = Slots /\ DOMAIN job = Slots
  BY DEF Arrive, Tables, RouteInv
<1>2. PICK async \in AsyncRoutes(kind) :
        LET r == [Idle EXCEPT !.kind = kind, !.about = about, !.async = async]
        IN IF kind = "final" THEN Go(s, r, "plan") ELSE Screened(s, r)
  BY DEF Arrive
<1> DEFINE r == [Idle EXCEPT !.kind = kind, !.about = about, !.async = async]
<1>3. IF kind = "final" THEN Go(s, r, "plan") ELSE Screened(s, r)
  BY <1>2
<1>4. DOMAIN r = Fields /\ r.kind = kind /\ r.reason = "none" /\ r.chunks = <<>>
  BY DEF Idle, Fields
<1> HIDE DEF r
<1>5. PICK q : req' = [req EXCEPT ![s] = q] /\ PlanInv(q) /\ FinalInv(q) /\ q.kind = kind
  <2>1. ASSUME kind = "final" PROVE \E q : req' = [req EXCEPT ![s] = q] /\ PlanInv(q) /\ FinalInv(q) /\ q.kind = kind
    <3> DEFINE q == [r EXCEPT !.pc = "plan"]
    <3>1. req' = [req EXCEPT ![s] = q]
      BY <1>3, <2>1 DEF Go
    <3>2. q.pc = "plan" /\ q.kind = kind /\ q.chunks = <<>> /\ q.reason = "none"
      BY <1>4, GoRecord
    <3> HIDE DEF q
    <3>3. <<>> \in Seq({}) /\ Len(<<>>) < NChunks /\ Planned(<<>>)
      BY RouterAssumption DEF Planned
    <3>4. PlanInv(q)
      BY <2>1, <3>2, <3>3 DEF PlanInv
    <3>5. FinalInv(q)
      BY <3>2 DEF FinalInv
    <3> QED
      BY <3>1, <3>2, <3>4, <3>5
  <2>2. ASSUME kind # "final", NEW pc \in {"quota", "log", "alert", "mark"}, NEW p, DOMAIN p = Fields, p.kind = kind, Go(s, p, pc)
        PROVE  \E q : req' = [req EXCEPT ![s] = q] /\ PlanInv(q) /\ FinalInv(q) /\ q.kind = kind
    <3> DEFINE q == [p EXCEPT !.pc = pc]
    <3>1. req' = [req EXCEPT ![s] = q]
      BY <2>2 DEF Go
    <3>2. q.pc = pc /\ q.kind = kind
      BY <2>2, GoRecord
    <3> HIDE DEF q
    <3>3. PlanInv(q) /\ FinalInv(q)
      BY <2>2, <3>2 DEF PlanInv, FinalInv
    <3> QED
      BY <3>1, <3>2, <3>3
  <2>3. \A status, reason, output, by : DOMAIN With(r, status, reason, output, by) = Fields /\ With(r, status, reason, output, by).kind = kind
    BY <1>4, WithRecord
  <2>4. \A verdict : Told(r, verdict) \in {"alert", "mark", "log"}
    BY DEF Told, AfterAlert
  <2>5. kind # "final" => \E pc \in {"quota", "log", "alert", "mark"} : \E p : DOMAIN p = Fields /\ p.kind = kind /\ Go(s, p, pc)
    <3> SUFFICES ASSUME kind # "final" PROVE \E pc \in {"quota", "log", "alert", "mark"} : \E p : DOMAIN p = Fields /\ p.kind = kind /\ Go(s, p, pc)
      OBVIOUS
    <3>1. Screened(s, r)
      BY <1>3
    <3>2. CASE Go(s, r, "quota")
      BY <1>4, <3>2
    <3>3. CASE Go(s, With(r, "ok", "none", LocalOutput(r), "local"), "log")
      BY <2>3, <3>3
    <3>4. ASSUME NEW verdict \in Verdicts, Go(s, With(r, "blocked", verdict, Nothing, "none"), Told(r, verdict))
          PROVE  \E pc \in {"quota", "log", "alert", "mark"} : \E p : DOMAIN p = Fields /\ p.kind = kind /\ Go(s, p, pc)
      BY <2>3, <2>4, <3>4
    <3> QED
      BY <3>1, <3>2, <3>3, <3>4 DEF Screened
  <2> QED
    BY <2>1, <2>2, <2>5
<1>6. /\ req'[s] = q /\ \A t \in Slots : t # s => req'[t] = req[t]
      /\ \A t \in Slots : PlanInv(req'[t]) /\ FinalInv(req'[t])
  BY <1>5, OneRequest
<1>7. client'[s] = "waiting" /\ \A t \in Slots : t # s => client'[t] = client[t]
  BY <1>1
<1>8. \A t \in Slots : SlotInv(t)'
  BY <1>1, <1>6, <1>7 DEF RouteInv, SlotInv
<1>9. FinalCache'
  BY <1>1 DEF RouteInv, FinalCache
<1>10. RouteInv'
  BY <1>1, <1>6, <1>8, <1>9 DEF RouteInv
<1> QED
  BY <1>1, <1>5, <1>6, <1>7, <1>10

\* A job is polled when it is done, or lost.
LEMMA PollRoute ==
  ASSUME RouteInv, NEW s \in Slots, Poll(s)
  PROVE  /\ RouteInv' /\ client[s] = "polling" /\ client' = [client EXCEPT ![s] = "idle"] /\ UNCHANGED req
         /\ \A t \in Slots : t # s => job'[t] = job[t]
<1>1. /\ client[s] = "polling" /\ (job[s].status = "done" \/ req[s].pc = "idle")
      /\ client' = [client EXCEPT ![s] = "idle"] /\ job' = [job EXCEPT ![s] = NoJob] /\ UNCHANGED <<req, cache>>
  BY DEF Poll, Stale, At, Tables
<1>2. DOMAIN client = Slots /\ DOMAIN job = Slots /\ FinalCache /\ \A t \in Slots : PlanInv(req[t]) /\ FinalInv(req[t]) /\ SlotInv(t)
  BY DEF RouteInv
<1>3. req[s].pc = "idle"
  BY <1>1, <1>2 DEF SlotInv
<1>4. client'[s] = "idle" /\ \A t \in Slots : t # s => client'[t] = client[t] /\ job'[t] = job[t]
  BY <1>1, <1>2
<1>5. \A t \in Slots : SlotInv(t)'
  BY <1>1, <1>2, <1>3, <1>4 DEF SlotInv
<1>6. FinalCache'
  BY <1>1, <1>2 DEF FinalCache
<1>7. RouteInv'
  BY <1>1, <1>2, <1>5, <1>6 DEF RouteInv
<1> QED
  BY <1>1, <1>4, <1>7

\* After a restart only the jobs are still waited for.
LEMMA CrashRoute ==
  ASSUME RouteInv, Crash
  PROVE  /\ RouteInv' /\ UNCHANGED job
         /\ \A t \in Slots : req'[t].pc = "idle" /\ client'[t] = IF client[t] = "polling" THEN "polling" ELSE "idle"
<1>1. /\ req' = [s \in Slots |-> Idle] /\ client' = [s \in Slots |-> IF client[s] = "polling" THEN "polling" ELSE "idle"]
      /\ UNCHANGED <<job, cache>>
  BY DEF Crash, Tables
<1>2. \A t \in Slots : PlanInv(req'[t]) /\ FinalInv(req'[t]) /\ req'[t].pc = "idle"
  BY <1>1, IdleFinal, IdleGood
<1>3. \A t \in Slots : client'[t] = IF client[t] = "polling" THEN "polling" ELSE "idle"
  BY <1>1
<1>4. \A t \in Slots : SlotInv(t)'
  BY <1>2, <1>3 DEF SlotInv
<1>5. FinalCache'
  BY <1>1 DEF RouteInv, FinalCache
<1>6. RouteInv'
  BY <1>1, <1>2, <1>4, <1>5 DEF RouteInv
<1> QED
  BY <1>1, <1>2, <1>3, <1>6

\* Another device answers a chunk again.
LEMMA OtherRoute ==
  ASSUME RouteInv, NEW i \in Chunks, OtherDevice(i)
  PROVE  RouteInv' /\ UNCHANGED <<req, client, job, summary, stored>>
<1>1. UNCHANGED <<req, client, job, summary, stored>>
  BY DEF OtherDevice
<1>2. PICK status, by, output : Put(<<"chunk", i>>, status, by, output) /\ status \in {"ok", "blocked", "not_in_text"}
  <2>1. CASE \E v \in Versions : Put(<<"chunk", i>>, "ok", "ai", <<i, v>>)
    BY <2>1
  <2>2. CASE Put(<<"chunk", i>>, "ok", "local", <<i, LocalAnswer>>)
    BY <2>2
  <2>3. CASE Put(<<"chunk", i>>, "blocked", "ai", Nothing) \/ Put(<<"chunk", i>>, "not_in_text", "ai", Nothing)
    BY <2>3
  <2> QED
    BY <2>1, <2>2, <2>3 DEF OtherDevice
<1>3. FinalCache'
  BY <1>2, PutFinal DEF RouteInv
<1> QED
  BY <1>1, <1>3 DEF RouteInv, SlotInv
----------------------------------------------------------------------------
(* The client keeps ClientInv.                                             *)

LEMMA NoSummaryFields ==
  /\ DOMAIN NoSummary = SummaryFields /\ NoSummary.lanes = [s \in Slots |-> 0] /\ NoSummary.todo = {} /\ NoSummary.phase = "idle"
  BY DEF NoSummary, SummaryFields

\* A summary that ends.
LEMMA EndedFields ==
  ASSUME NEW answer
  PROVE  /\ DOMAIN Ended(answer) = SummaryFields /\ Ended(answer).phase = "ended" /\ Ended(answer).outcome = answer
         /\ Ended(answer).lanes = [s \in Slots |-> 0] /\ Ended(answer).todo = {}
  BY DEF Ended, NoSummary, SummaryFields

\* When every client is idle, a summary may end.
LEMMA EndsWell ==
  ASSUME NEW answer, summary' = Ended(answer), answer.status = "ok" => Complete(answer.output),
         \A s \in Slots : client'[s] = "idle", 0 \in DOMAIN stored',
         stored'[0] # Nothing /\ stored'[0].status = "ok" => Complete(stored'[0].output)
  PROVE  ClientInv'
<1>1. /\ DOMAIN summary' = SummaryFields /\ summary'.phase = "ended" /\ summary'.outcome = answer
      /\ summary'.lanes = [s \in Slots |-> 0] /\ summary'.todo = {}
  BY EndedFields
<1>2. LaneInv' /\ AnswerInv'
  BY <1>1 DEF LaneInv, AnswerInv
<1>3. EndInv'
  BY <1>1 DEF EndInv
<1> QED
  BY <1>1, <1>2, <1>3 DEF ClientInv

\* The least chunk to do is a chunk.
LEMMA NextIsChunk ==
  ASSUME summary.todo \subseteq Chunks, summary.todo # {}
  PROVE  NextChunk \in Chunks /\ NextChunk # 0
<1>1. Chunks \subseteq Nat /\ 0 \notin Chunks
  BY RouterAssumption DEF Chunks
<1> DEFINE R == {ss \in Nat \X Nat : ss[1] < ss[2]}
<1>2. IsWellFoundedOn(R, Nat)
  BY NatLessThanWellFounded DEF OpToRel
<1>3. PICK i \in summary.todo : \A j \in summary.todo : <<j, i>> \notin R
  BY <1>1, <1>2, WFMin
<1>6. \A j \in summary.todo : ~(j < i)
  BY <1>1, <1>3
<1>4. \A j \in summary.todo : i <= j
  <2> SUFFICES ASSUME NEW j \in summary.todo PROVE i <= j
    OBVIOUS
  <2>1. i \in Nat /\ j \in Nat /\ ~(j < i)
    BY <1>1, <1>6
  <2> QED
    BY <2>1
<1>5. NextChunk \in summary.todo
  BY <1>3, <1>4 DEF NextChunk
<1> QED
  BY <1>1, <1>5

\* The client goes on without the server.
LEMMA ClientAlone ==
  ASSUME SInv, UNCHANGED <<req, client, job, stored>>,
         Ask \/ ChunksDone \/ \E s \in Slots : FromStore(s) \/ (SendFinal(s) /\ stored[0] # Nothing)
  PROVE  ClientInv'
<1>1. ClientInv /\ \A s \in Slots : SlotInv(s)
  BY DEF SInv, RouteInv
<1>2. CASE Ask
  <2>1. summary.phase \in {"idle", "ended"} /\ summary' = [NoSummary EXCEPT !.phase = "chunks", !.todo = Chunks]
    BY <1>2 DEF Ask
  <2>2. DOMAIN summary' = SummaryFields /\ summary'.phase = "chunks" /\ summary'.todo = Chunks /\ summary'.lanes = [s \in Slots |-> 0]
    BY <2>1, NoSummaryFields DEF SummaryFields
  <2>3. \A s \in Slots : client'[s] = "idle"
    BY <1>1, <2>1 DEF ClientInv, LaneInv
  <2>4. LaneInv' /\ AnswerInv'
    BY <2>2, <2>3 DEF LaneInv, AnswerInv
  <2>5. EndInv'
    BY <1>1, <2>2 DEF ClientInv, EndInv
  <2> QED
    BY <1>1, <2>2, <2>4, <2>5 DEF ClientInv
<1>3. CASE ChunksDone
  <2>1. /\ summary.phase = "chunks" /\ Busy = {}
        /\ summary' = IF summary.failure # Nothing THEN Ended(Unavailable(summary.failure)) ELSE [summary EXCEPT !.phase = "final"]
    BY <1>3 DEF ChunksDone
  <2>2. \A s \in Slots : summary.lanes[s] = 0
    BY <2>1 DEF Busy
  <2>3. \A s \in Slots : client'[s] = "idle"
    BY <1>1, <2>1, <2>2 DEF ClientInv, LaneInv
  <2>4. CASE summary.failure # Nothing
    <3>1. Unavailable(summary.failure).status # "ok"
      BY DEF Unavailable
    <3> QED
      BY <1>1, <2>1, <2>3, <2>4, <3>1, EndsWell DEF ClientInv, EndInv
  <2>5. CASE summary.failure = Nothing
    <3>1. DOMAIN summary' = SummaryFields /\ summary'.phase = "final" /\ summary'.todo = summary.todo /\ summary'.lanes = summary.lanes
      BY <1>1, <2>1, <2>5 DEF ClientInv, SummaryFields
    <3>2. LaneInv' /\ AnswerInv'
      BY <1>1, <2>2, <2>3, <3>1 DEF LaneInv, AnswerInv, ClientInv
    <3>3. EndInv'
      BY <1>1, <3>1 DEF ClientInv, EndInv
    <3> QED
      BY <1>1, <3>1, <3>2, <3>3 DEF ClientInv
  <2> QED
    BY <2>4, <2>5
<1>4. ASSUME NEW s \in Slots, FromStore(s) PROVE ClientInv'
  <2>1. /\ summary.phase = "chunks"
        /\ summary' = [summary EXCEPT !.todo = @ \ {NextChunk}, !.done = Counted(@)]
    BY <1>4 DEF FromStore, Takes
  <2>2. /\ DOMAIN summary' = SummaryFields /\ summary'.phase = "chunks" /\ summary'.lanes = summary.lanes
        /\ summary'.todo \subseteq summary.todo
    BY <1>1, <2>1 DEF ClientInv, SummaryFields
  <2>3. LaneInv' /\ AnswerInv'
    BY <1>1, <2>1, <2>2 DEF LaneInv, AnswerInv, ClientInv
  <2>4. EndInv'
    BY <1>1, <2>2 DEF ClientInv, EndInv
  <2> QED
    BY <1>1, <2>2, <2>3, <2>4 DEF ClientInv
<1>5. ASSUME NEW s \in Slots, SendFinal(s), stored[0] # Nothing PROVE ClientInv'
  <2>1. summary' = Ended(stored[0]) /\ \A t \in Slots : client[t] = "idle"
    BY <1>5 DEF SendFinal
  <2>2. stored[0].status = "ok" => Complete(stored[0].output)
    BY <1>1, <1>5 DEF ClientInv, EndInv
  <2> QED
    BY <1>1, <2>1, <2>2, EndsWell DEF ClientInv
<1> QED
  BY <1>2, <1>3, <1>4, <1>5

\* A chunk is sent by a lane, the final request by one alone.
LEMMA SendChunkKeeps ==
  ASSUME SInv, NEW s \in Slots, SendChunk(s)
  PROVE  ClientInv'
<1>1. /\ summary.phase = "chunks" /\ summary.todo # {} /\ Arrive(s, "chunk", NextChunk) /\ UNCHANGED stored
      /\ summary' = [summary EXCEPT !.todo = @ \ {NextChunk}, !.lanes[s] = NextChunk]
  BY DEF SendChunk, Takes
<1>2. ClientInv /\ RInv /\ RouteInv /\ "chunk" \in Kinds
  BY DEF SInv, Kinds
<1>3. NextChunk # 0
  BY <1>1, <1>2, NextIsChunk DEF ClientInv, LaneInv
<1>4. \A t \in Slots : t # s => client'[t] = client[t]
  BY <1>1, <1>2, ArriveRoute
<1>5. /\ DOMAIN summary' = SummaryFields /\ summary'.phase = "chunks" /\ summary'.lanes = [summary.lanes EXCEPT ![s] = NextChunk]
      /\ summary'.todo \subseteq summary.todo
  BY <1>1, <1>2 DEF ClientInv, SummaryFields
<1>6. summary'.lanes[s] = NextChunk /\ \A t \in Slots : t # s => summary'.lanes[t] = summary.lanes[t]
  BY <1>2, <1>5 DEF ClientInv
<1>7. LaneInv' /\ AnswerInv'
  BY <1>1, <1>2, <1>3, <1>4, <1>5, <1>6 DEF LaneInv, AnswerInv, ClientInv
<1>8. EndInv'
  BY <1>1, <1>2, <1>5 DEF ClientInv, EndInv
<1> QED
  BY <1>1, <1>2, <1>5, <1>7, <1>8 DEF ClientInv

LEMMA SendFinalKeeps ==
  ASSUME SInv, NEW s \in Slots, SendFinal(s), stored[0] = Nothing
  PROVE  ClientInv'
<1>1. /\ summary.phase = "final" /\ Arrive(s, "final", Nothing) /\ UNCHANGED stored
      /\ summary' = [summary EXCEPT !.phase = "answer"] /\ \A t \in Slots : client[t] = "idle"
  BY DEF SendFinal
<1>2. ClientInv /\ RInv /\ RouteInv /\ "final" \in Kinds /\ \A t \in Slots : SlotInv(t)
  BY DEF SInv, RouteInv, Kinds
<1>3. /\ \A t \in Slots : t # s => client'[t] = "idle" /\ req'[t].pc = "idle"
      /\ client'[s] = "waiting" /\ req'[s].kind = "final"
  BY <1>1, <1>2, ArriveRoute DEF SlotInv
<1>4. DOMAIN summary' = SummaryFields /\ summary'.phase = "answer" /\ summary'.lanes = summary.lanes /\ summary'.todo = summary.todo
  BY <1>1, <1>2 DEF ClientInv, SummaryFields
<1>5. LaneInv'
  BY <1>1, <1>2, <1>4 DEF LaneInv, ClientInv
<1>6. AnswerInv'
  BY <1>3 DEF AnswerInv
<1>7. EndInv'
  BY <1>1, <1>2, <1>4 DEF ClientInv, EndInv
<1> QED
  BY <1>1, <1>2, <1>4, <1>5, <1>6, <1>7 DEF ClientInv

\* An answer to the one client that waits.
LEMMA AnsweredKeeps ==
  ASSUME SInv, NEW s \in Slots, NEW answer, client[s] # "idle", Answered(s, answer), summary.phase = "answer" => Shown(answer),
         client' = [client EXCEPT ![s] = "idle"]
  PROVE  ClientInv'
<1>1. ClientInv /\ DOMAIN client = Slots
  BY DEF SInv, RouteInv
<1>2. client'[s] = "idle" /\ \A t \in Slots : t # s => client'[t] = client[t]
  BY <1>1
<1>3. CASE summary.phase = "answer"
  <2>1. \A t \in Slots : client'[t] = "idle"
    BY <1>1, <1>2, <1>3 DEF ClientInv, AnswerInv
  <2>2. FinalAnswered(answer) /\ Shown(answer)
    BY <1>3 DEF Answered
  <2>3. 0 \in DOMAIN stored' /\ (stored'[0] # Nothing /\ stored'[0].status = "ok" => Complete(stored'[0].output))
    <3>1. stored' = [stored EXCEPT ![0] = answer] \/ stored' = stored
      BY <2>2 DEF FinalAnswered, Store
    <3> QED
      BY <1>1, <2>2, <3>1 DEF ClientInv, EndInv, Shown
  <2>4. CASE summary' = Ended(answer)
    BY <2>1, <2>2, <2>3, <2>4, EndsWell DEF Shown
  <2>5. CASE /\ answer.reason = "missing_chunks"
             /\ summary' = [summary EXCEPT !.phase = "chunks", !.todo = answer.output, !.bypass = TRUE,
                                           !.attempt = IF @ < MaxMissingChunkRetries THEN @ + 1 ELSE @]
    <3>1. DOMAIN summary' = SummaryFields /\ summary'.phase = "chunks" /\ summary'.lanes = summary.lanes /\ summary'.todo = answer.output
      BY <1>1, <2>5 DEF ClientInv, SummaryFields
    <3>2. LaneInv' /\ AnswerInv'
      BY <2>1, <2>2, <2>5, <3>1 DEF LaneInv, AnswerInv, Shown
    <3>3. EndInv'
      BY <2>3, <3>1 DEF EndInv
    <3> QED
      BY <1>1, <2>3, <3>1, <3>2, <3>3 DEF ClientInv
  <2> QED
    BY <2>2, <2>4, <2>5 DEF FinalAnswered
<1>4. CASE summary.phase # "answer"
  <2>1. summary.phase = "chunks" /\ summary.lanes[s] # 0
    BY <1>1, <1>4 DEF ClientInv, LaneInv
  <2>2. /\ summary' = [summary EXCEPT !.lanes[s] = 0, !.done = Counted(@),
                                      !.failure = IF answer.status = "unavailable" THEN answer.reason ELSE @]
        /\ Store(summary.lanes[s], answer)
    BY <1>4 DEF Answered, ChunkAnswered
  <2>3. stored' = [stored EXCEPT ![summary.lanes[s]] = answer] \/ stored' = stored
    BY <2>2 DEF Store
  <2>4. 0 \in DOMAIN stored' /\ stored'[0] = stored[0]
    BY <1>1, <2>1, <2>3 DEF ClientInv
  <2>5. /\ DOMAIN summary' = SummaryFields /\ summary'.phase = "chunks" /\ summary'.todo = summary.todo
        /\ summary'.lanes = [summary.lanes EXCEPT ![s] = 0]
    BY <1>1, <2>1, <2>2 DEF ClientInv, SummaryFields
  <2>6. \A t \in Slots : t # s => summary'.lanes[t] = summary.lanes[t]
    BY <1>1, <2>5 DEF ClientInv
  <2>7. LaneInv' /\ AnswerInv'
    BY <1>1, <1>2, <2>1, <2>5, <2>6 DEF ClientInv, LaneInv, AnswerInv
  <2>8. EndInv'
    BY <1>1, <2>4, <2>5 DEF ClientInv, EndInv
  <2> QED
    BY <1>1, <2>4, <2>5, <2>7, <2>8 DEF ClientInv
<1> QED
  BY <1>3, <1>4

\* A step of the server, with the answer that it may send.
LEMMA StepKeeps ==
  ASSUME SInv, NEW s \in Slots, Step(s)
  PROVE  ClientInv'
<1> DEFINE r == req[s]
<1>1. /\ Serve(s)
      /\ IF client[s] = "waiting" /\ client'[s] = "idle" THEN Answered(s, Answer(r)) ELSE UNCHANGED <<summary, stored>>
  BY DEF Step
<1>2. RInv /\ RouteInv /\ ClientInv /\ SlotInv(s) /\ s \in DOMAIN client /\ s \in DOMAIN job
  BY DEF SInv, RouteInv
<1>3. /\ \A t \in Slots : t # s => req'[t] = req[t] /\ client'[t] = client[t] /\ job'[t] = job[t]
      /\ req'[s].pc # "idle" => req'[s].kind = r.kind
  BY <1>1, <1>2, ServeRoute
<1>4. r.pc # "idle" /\ client[s] \in {"waiting", "polling"}
  BY <1>1, <1>2, ServeClient DEF SlotInv
<1>5. summary.phase = "answer" => r.kind = "final"
  BY <1>2, <1>4 DEF ClientInv, AnswerInv
<1>6. ASSUME summary.phase = "answer", r.pc \in {"log", "reply"} PROVE Shown(Answer(r))
  <2>1. FinalInv(r) /\ OwnInv(r)
    BY <1>2 DEF RouteInv, RInv, Good
  <2>2. r.status = "ok" => Complete(Usable(r.chunks)) /\ r.output = Usable(r.chunks)
    BY <1>5, <1>6, <2>1 DEF FinalInv, OwnInv, Fits, Subject
  <2>3. r.reason = "missing_chunks" => r.output \subseteq Chunks
    BY <1>5, <1>6, <2>1 DEF FinalInv
  <2>4. Answer(r).status = r.status /\ Answer(r).reason = r.reason /\ Answer(r).output = r.output
    BY DEF Answer
  <2> QED
    BY <2>2, <2>3, <2>4 DEF Shown
<1>7. ASSUME UNCHANGED <<summary, stored>>, client'[s] # "idle",
             summary.phase = "answer" /\ client'[s] = "polling" /\ job'[s].status = "done" => Shown(job'[s].answer)
      PROVE  ClientInv'
  <2>1. LaneInv'
    BY <1>2, <1>3, <1>4, <1>7 DEF ClientInv, LaneInv
  <2>2. AnswerInv'
    <3> SUFFICES ASSUME summary.phase = "answer" PROVE AnswerInv'
      BY <1>7 DEF AnswerInv
    <3>1. \A t \in Slots : client'[t] # "idle" => client[t] # "idle"
      BY <1>3, <1>4
    <3>2. \A t, u \in Slots : client'[t] # "idle" /\ client'[u] # "idle" => t = u
      BY <1>2, <3>1 DEF ClientInv, AnswerInv
    <3>3. \A t \in Slots : req'[t].pc # "idle" => req'[t].kind = "final"
      BY <1>2, <1>3, <1>5 DEF ClientInv, AnswerInv
    <3>4. \A t \in Slots : client'[t] = "polling" /\ job'[t].status = "done" => Shown(job'[t].answer)
      BY <1>2, <1>3, <1>7 DEF ClientInv, AnswerInv
    <3> QED
      BY <3>2, <3>3, <3>4 DEF AnswerInv, Shown, Complete, Parts
  <2>3. EndInv'
    BY <1>2, <1>7 DEF ClientInv, EndInv
  <2> QED
    BY <1>2, <1>7, <2>1, <2>2, <2>3 DEF ClientInv
<1>8. CASE UNCHANGED <<client, job>>
  <2>1. UNCHANGED <<summary, stored>> /\ client'[s] # "idle"
    BY <1>1, <1>4, <1>8
  <2>2. summary.phase = "answer" /\ client'[s] = "polling" /\ job'[s].status = "done" => Shown(job'[s].answer)
    BY <1>2, <1>8 DEF ClientInv, AnswerInv
  <2> QED
    BY <1>7, <2>1, <2>2
<1>9. CASE /\ client' = [client EXCEPT ![s] = IF @ = "waiting" THEN "polling" ELSE @]
           /\ job' = [job EXCEPT ![s] = [NoJob EXCEPT !.status = "pending"]]
  <2>1. client'[s] = "polling" /\ job'[s] = [NoJob EXCEPT !.status = "pending"]
    BY <1>2, <1>4, <1>9
  <2>2. UNCHANGED <<summary, stored>> /\ job'[s].status = "pending"
    BY <1>1, <2>1 DEF NoJob
  <2> QED
    BY <1>7, <2>1, <2>2
<1>10. CASE client' = [client EXCEPT ![s] = "idle"] /\ client[s] # "polling" /\ r.pc \in {"log", "reply"}
  <2>1. Answered(s, Answer(r))
    BY <1>1, <1>2, <1>4, <1>10
  <2>2. summary.phase = "answer" => Shown(Answer(r))
    BY <1>6, <1>10
  <2> QED
    BY <1>4, <1>10, <2>1, <2>2, AnsweredKeeps
<1>11. CASE /\ client' = [client EXCEPT ![s] = "polling"] /\ job' = [job EXCEPT ![s] = [status |-> "done", answer |-> Answer(r)]]
            /\ r.pc \in {"log", "reply"}
  <2>1. client'[s] = "polling" /\ job'[s].answer = Answer(r)
    BY <1>2, <1>11
  <2>2. UNCHANGED <<summary, stored>>
    BY <1>1, <2>1
  <2> QED
    BY <1>6, <1>7, <1>11, <2>1, <2>2
<1> QED
  BY <1>1, <1>8, <1>9, <1>10, <1>11, ServeClient

\* The result of a job, or none.
LEMMA ResultKeeps ==
  ASSUME SInv, NEW s \in Slots, Result(s)
  PROVE  ClientInv'
<1> DEFINE answer == IF job[s].status = "done" THEN job[s].answer ELSE Unavailable("timeout")
<1>1. Poll(s) /\ Answered(s, answer)
  BY DEF Result
<1>2. RouteInv /\ ClientInv
  BY DEF SInv
<1>3. client[s] = "polling" /\ client' = [client EXCEPT ![s] = "idle"]
  BY <1>1, <1>2, PollRoute
<1>4. Shown(Unavailable("timeout"))
  BY DEF Shown, Unavailable
<1>5. summary.phase = "answer" => Shown(answer)
  BY <1>2, <1>3, <1>4 DEF ClientInv, AnswerInv
<1> HIDE DEF answer
<1> QED
  BY <1>1, <1>3, <1>5, AnsweredKeeps

\* A restart of the server ends the final answer, or the chunks that were waited for.
LEMMA RestartKeeps ==
  ASSUME SInv, Restart
  PROVE  ClientInv'
<1> DEFINE cut == {s \in Slots : client[s] = "waiting"}
<1>1. /\ Crash /\ UNCHANGED stored
      /\ summary' = IF cut = {} THEN summary
                    ELSE IF summary.phase = "answer" THEN Ended(Unavailable("provider_error"))
                    ELSE [summary EXCEPT !.failure = "provider_error", !.lanes = [s \in Slots |-> IF s \in cut THEN 0 ELSE @[s]],
                                         !.done = IF summary.bypass THEN @ ELSE @ + Cardinality(cut)]
  BY DEF Restart
<1>2. RouteInv /\ ClientInv /\ \A s \in Slots : SlotInv(s)
  BY DEF SInv, RouteInv
<1>3. UNCHANGED job /\ \A t \in Slots : req'[t].pc = "idle" /\ client'[t] = IF client[t] = "polling" THEN "polling" ELSE "idle"
  BY <1>1, <1>2, CrashRoute
<1>4. cut = {s \in Slots : client[s] = "waiting"}
  OBVIOUS
<1> HIDE DEF cut
<1>5. CASE cut = {}
  <2>1. summary' = summary
    BY <1>1, <1>5
  <2>2. LaneInv'
    BY <1>2, <1>3, <2>1 DEF ClientInv, LaneInv
  <2>3. AnswerInv'
    BY <1>2, <1>3, <2>1 DEF ClientInv, AnswerInv, Shown, Complete, Parts
  <2>4. EndInv'
    BY <1>1, <1>2, <2>1 DEF ClientInv, EndInv
  <2> QED
    BY <1>1, <1>2, <2>1, <2>2, <2>3, <2>4 DEF ClientInv
<1>6. CASE cut # {} /\ summary.phase = "answer"
  <2>1. PICK s \in Slots : client[s] = "waiting"
    BY <1>4, <1>6
  <2>2. \A t \in Slots : client'[t] = "idle"
    BY <1>2, <1>3, <1>6, <2>1 DEF ClientInv, AnswerInv
  <2>3. Unavailable("provider_error").status # "ok"
    BY DEF Unavailable
  <2> QED
    BY <1>1, <1>2, <1>6, <2>2, <2>3, EndsWell DEF ClientInv, EndInv
<1>7. CASE cut # {} /\ summary.phase # "answer"
  <2>1. /\ DOMAIN summary' = SummaryFields /\ summary'.phase = summary.phase /\ summary'.todo = summary.todo
        /\ summary'.outcome = summary.outcome
        /\ summary'.lanes = [s \in Slots |-> IF s \in cut THEN 0 ELSE summary.lanes[s]]
    BY <1>1, <1>2, <1>7 DEF ClientInv, SummaryFields
  <2>2. LaneInv'
    <3>1. summary.phase # "chunks" => \A s \in Slots : summary'.lanes[s] = 0
      BY <1>2, <2>1 DEF ClientInv, LaneInv
    <3>2. \A s \in Slots : client'[s] # "idle" => client[s] = "polling" /\ summary'.lanes[s] = summary.lanes[s]
      BY <1>3, <1>4, <2>1
    <3> QED
      BY <1>2, <2>1, <3>1, <3>2 DEF ClientInv, LaneInv
  <2>3. AnswerInv'
    BY <1>7, <2>1 DEF AnswerInv
  <2>4. EndInv'
    BY <1>1, <1>2, <2>1 DEF ClientInv, EndInv
  <2> QED
    BY <1>1, <1>2, <2>1, <2>2, <2>3, <2>4 DEF ClientInv
<1> QED
  BY <1>5, <1>6, <1>7

\* At the start the cache may hold an earlier summary of the same plan, made of local answers.
LEMMA SummaryStart ==
  ASSUME SummaryInit
  PROVE  RouteInv /\ ClientInv
<1>1. /\ req = [s \in Slots |-> Idle] /\ client = [s \in Slots |-> "idle"] /\ job = [s \in Slots |-> NoJob]
      /\ summary = NoSummary /\ 0 \in DOMAIN stored /\ stored[0] = Nothing
  <2>1. 0 # 1 /\ DOMAIN NothingStored = Chunks \cup {0} /\ NothingStored[0] = Nothing
    BY DEF NothingStored
  <2>2. \A x : DOMAIN [NothingStored EXCEPT ![1] = x] = DOMAIN NothingStored /\ [NothingStored EXCEPT ![1] = x][0] = NothingStored[0]
    BY <2>1
  <2> QED
    BY <2>1, <2>2 DEF SummaryInit, Start
<1>2. FinalCache
  <2>1. CASE cache = Empty
    BY <2>1 DEF Empty, FinalCache
  <2>2. CASE cache = [k \in {CacheKey(EarlierFinal)} |-> [status |-> "ok", by |-> "ai", output |-> Usable(EarlierFinal.chunks)]]
    <3> DEFINE chunks == [i \in Chunks |-> <<i, LocalAnswer>>]
    <3>1. EarlierFinal.kind = "final" /\ EarlierFinal.chunks = chunks
      BY DEF EarlierFinal, Idle
    <3>2. CacheKey(EarlierFinal)[2] = Usable(chunks)
      BY <3>1 DEF CacheKey
    <3>3. \A i \in Chunks : chunks[i] \notin {<<"missing">>, <<"blocked">>} /\ chunks[i][1] = i
      <4> SUFFICES ASSUME NEW i \in Chunks PROVE chunks[i] \notin {<<"missing">>, <<"blocked">>} /\ chunks[i][1] = i
        OBVIOUS
      <4>1. chunks[i] = <<i, LocalAnswer>>
        OBVIOUS
      <4>2. Len(<<i, LocalAnswer>>) = 2 /\ Len(<<"missing">>) = 1 /\ Len(<<"blocked">>) = 1
        OBVIOUS
      <4>3. <<i, LocalAnswer>> # <<"missing">> /\ <<i, LocalAnswer>> # <<"blocked">>
        BY <4>2
      <4> QED
        BY <4>1, <4>3
    <3>4. DOMAIN chunks = Chunks
      OBVIOUS
    <3> HIDE DEF chunks
    <3>5. Planned(chunks) /\ Missing(chunks) = {} /\ Excluded(chunks) = {}
      BY <3>3, <3>4 DEF Planned, Missing, Excluded
    <3>6. ~TooManyExcluded(chunks)
      BY <3>5, FS_EmptySet, RouterAssumption DEF TooManyExcluded
    <3>7. Complete(Usable(chunks))
      BY <3>4, <3>5, <3>6, CompleteOf
    <3> QED
      BY <2>2, <3>2, <3>7 DEF FinalCache
  <2> QED
    BY <2>1, <2>2 DEF SummaryInit
<1>3. \A s \in Slots : PlanInv(req[s]) /\ FinalInv(req[s]) /\ SlotInv(s)
  BY <1>1, IdleFinal, IdleGood DEF SlotInv
<1>4. RouteInv
  BY <1>1, <1>2, <1>3 DEF RouteInv
<1>5. LaneInv /\ AnswerInv /\ EndInv
  BY <1>1, NoSummaryFields DEF LaneInv, AnswerInv, EndInv
<1> QED
  BY <1>1, <1>4, <1>5, NoSummaryFields DEF ClientInv

\* The client and the server keep SInv together.
THEOREM SummariesInv == SummarySpec => []SInv
<1>1. SummaryInit => RouteInv /\ ClientInv
  BY SummaryStart
<1>2. RInv /\ RouteInv /\ ClientInv /\ [SummaryNext]_all => RouteInv' /\ ClientInv'
  <2> SUFFICES ASSUME SInv, [SummaryNext]_all PROVE RouteInv' /\ ClientInv'
    BY DEF SInv
  <2>1. RInv /\ RouteInv /\ ClientInv
    BY DEF SInv
  <2>2. ASSUME UNCHANGED <<req, client, job, cache>> PROVE RouteInv'
    BY <2>1, <2>2 DEF RouteInv, SlotInv, FinalCache
  <2>3. CASE UNCHANGED all
    <3>1. UNCHANGED <<req, client, job, cache, summary, stored>>
      BY <2>3 DEF all, vars
    <3> QED
      BY <2>1, <2>2, <3>1 DEF ClientInv, LaneInv, AnswerInv, EndInv
  <2>4. CASE Ask \/ ChunksDone
    <3>1. UNCHANGED <<req, client, job, cache, stored>>
      BY <2>4 DEF Ask, ChunksDone, Server
    <3> QED
      BY <2>2, <2>4, <3>1, ClientAlone
  <2>5. CASE Restart
    BY <2>1, <2>5, CrashRoute, RestartKeeps DEF Restart
  <2>6. ASSUME NEW s \in Slots, FromStore(s) PROVE RouteInv' /\ ClientInv'
    <3>1. UNCHANGED <<req, client, job, cache, stored>>
      BY <2>6 DEF FromStore, Server
    <3> QED
      BY <2>2, <2>6, <3>1, ClientAlone
  <2>7. ASSUME NEW s \in Slots, SendChunk(s) PROVE RouteInv' /\ ClientInv'
    <3>1. Arrive(s, "chunk", NextChunk) /\ "chunk" \in Kinds
      BY <2>7 DEF SendChunk, Kinds
    <3> QED
      BY <2>1, <2>7, <3>1, ArriveRoute, SendChunkKeeps
  <2>8. ASSUME NEW s \in Slots, SendFinal(s) PROVE RouteInv' /\ ClientInv'
    <3>1. CASE stored[0] # Nothing
      <4>1. UNCHANGED <<req, client, job, cache, stored>>
        BY <2>8, <3>1 DEF SendFinal, vars
      <4> QED
        BY <2>2, <2>8, <3>1, <4>1, ClientAlone
    <3>2. CASE stored[0] = Nothing
      <4>1. Arrive(s, "final", Nothing) /\ "final" \in Kinds
        BY <2>8, <3>2 DEF SendFinal, Kinds
      <4> QED
        BY <2>1, <2>8, <3>2, <4>1, ArriveRoute, SendFinalKeeps
    <3> QED
      BY <3>1, <3>2
  <2>9. ASSUME NEW s \in Slots, Step(s) PROVE RouteInv' /\ ClientInv'
    BY <2>1, <2>9, ServeRoute, StepKeeps DEF Step
  <2>10. ASSUME NEW s \in Slots, Result(s) PROVE RouteInv' /\ ClientInv'
    BY <2>1, <2>10, PollRoute, ResultKeeps DEF Result
  <2>11. ASSUME NEW i \in Chunks, OtherDevice(i) PROVE RouteInv' /\ ClientInv'
    <3>1. RouteInv' /\ UNCHANGED <<req, client, job, summary, stored>>
      BY <2>1, <2>11, OtherRoute
    <3> QED
      BY <2>1, <3>1 DEF ClientInv, LaneInv, AnswerInv, EndInv
  <2> QED
    BY <2>3, <2>4, <2>5, <2>6, <2>7, <2>8, <2>9, <2>10, <2>11 DEF SummaryNext
<1> QED
  BY <1>1, <1>2, SummaryInv, PTL DEF SummarySpec, SInv

\* A summary that is shown is made of every chunk but a small share of blocked ones, whatever was lost, restarted or answered
\* again: the final request reads all chunks before it answers, and nothing but its answer ends the summary well.
THEOREM SummaryOfAllChunksCorrect == SummarySpec => []SummaryOfAllChunks
<1>1. SInv => SummaryOfAllChunks
  BY DEF SInv, ClientInv, EndInv, SummaryOfAllChunks, Complete, Parts
<1> QED
  BY <1>1, SummariesInv, PTL
=============================================================================
