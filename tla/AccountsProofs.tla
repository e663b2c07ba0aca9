--------------------------- MODULE AccountsProofs ---------------------------
(***************************************************************************)
(* Proofs about Accounts, for any number of devices, requests and          *)
(* attempts: a link changes the password once, the sessions of a deleted   *)
(* account are remembered, and the lock bounds the guesses.                *)
(***************************************************************************)
EXTENDS Accounts, FiniteSetTheorems, TLAPS

Kinds == {"login", "unlock", "pin", "change", "delete", "ask", "confirm"}
Steps == {"idle", "compare", "count", "counted", "lock", "reset", "open", "unlock", "pin", "others", "signout",
          "unlink", "link", "consume", "change", "list", "remove"}
SessionStates == {"open", "ended", "gone"}
RequestRecords ==
  [pc : Steps, kind : Kinds \cup {""}, dev : Devices \cup {""}, session : Nat, right : BOOLEAN,
   link : Nat, listed : SUBSET Nat, read : Nat]

TablesOK ==
  /\ account \in {"open", "deleted"}
  /\ fails \in [Secrets -> Nat] /\ locked \in SUBSET Secrets /\ guesses \in [Secrets -> Nat]
  /\ sessions \in Seq(SessionStates) /\ holds \in [Devices -> Nat] /\ closed \in SUBSET Nat /\ known \in Nat
  /\ sent \in Nat /\ links \in SUBSET (1 .. sent) /\ changes \in Seq(Nat) /\ Len(changes) = sent
  /\ budget \in [requests : Nat, guesses : Nat]

\* A request that asks for a link never compares a secret.
RequestsOK ==
  /\ req \in [Requests -> RequestRecords]
  /\ \A r \in Requests : req[r].kind = "ask" => req[r].pc \in {"unlink", "link"}
  /\ \A r \in Requests : req[r].kind = "" => req[r].pc = "idle"

TypeOK == TablesOK /\ RequestsOK

At(r, pc) == req[r].pc = pc

\* A link that was used is not unused any more, and has one request at most.
LinkInv ==
  /\ \A l \in links : changes[l] = 0
  /\ \A r \in Requests : At(r, "change") =>
       /\ req[r].link \in 1 .. sent /\ req[r].link \notin links /\ changes[req[r].link] = 0
       /\ \A q \in Requests : At(q, "change") /\ req[q].link = req[r].link => q = r
  /\ LinkUsedOnce

\* A session does not open again, so what is open when the account is removed was listed, or opened since.
ClosedInv ==
  /\ \A s \in DOMAIN sessions : account = "deleted" => sessions[s] # "open" /\ (sessions[s] = "gone" /\ s <= known => s \in closed)
  /\ \A s \in DOMAIN sessions : account = "open" => sessions[s] # "gone"
  /\ \A r \in Requests : At(r, "remove") =>
       /\ req[r].read <= Len(sessions)
       /\ \A s \in 1 .. req[r].read : sessions[s] = "open" => s \in req[r].listed
  /\ account = "deleted" => known <= Len(sessions)

Comparing(s) == {r \in Requests : At(r, "compare") /\ Secret(req[r].kind) = s}
Counting(s) == {r \in Requests : At(r, "count") /\ Secret(req[r].kind) = s}
Failing(s) == {r \in Requests : req[r].pc \in {"count", "counted", "lock"} /\ Secret(req[r].kind) = s}

\* Every guess is counted, or about to be; until the secret is locked, each guess past the free ones
\* keeps its request busy with the lock; then no other request is let in.
GuessOf(s) ==
  /\ guesses[s] <= fails[s] + Cardinality(Counting(s))
  /\ s \notin locked => guesses[s] < FreeAttempts + Cardinality(Failing(s))
  /\ s \in locked => guesses[s] + Cardinality(Comparing(s)) < FreeAttempts + Cardinality(Requests)
GuessInv == \A s \in Secrets : GuessOf(s)

IInv == TypeOK /\ LinkInv /\ ClosedInv /\ GuessInv

LEMMA CountUp ==
  ASSUME NEW S, NEW f \in [S -> Nat], NEW x
  PROVE  [f EXCEPT ![x] = @ + 1] \in [S -> Nat]
<1>1. \A y \in S : [f EXCEPT ![x] = @ + 1][y] \in Nat
  OBVIOUS
<1> QED  BY <1>1

LEMMA CountUpSeq ==
  ASSUME NEW f \in Seq(Nat), NEW x
  PROVE  [f EXCEPT ![x] = @ + 1] \in Seq(Nat) /\ Len([f EXCEPT ![x] = @ + 1]) = Len(f)
<1>1. f \in [1 .. Len(f) -> Nat] /\ Len(f) \in Nat
  OBVIOUS
<1>2. [f EXCEPT ![x] = @ + 1] \in [1 .. Len(f) -> Nat]
  BY <1>1, CountUp
<1> DEFINE g == [f EXCEPT ![x] = @ + 1]
<1> HIDE DEF g
<1>3. \A n \in Nat : \A h \in [1 .. n -> Nat] : h \in Seq(Nat) /\ Len(h) = n
  OBVIOUS
<1> QED  BY <1>1, <1>2, <1>3 DEF g

LEMMA Blank == NoRequest \in RequestRecords
  BY DEF RequestRecords, NoRequest, Steps, Kinds

LEMMA BlankFields == NoRequest.pc = "idle" /\ NoRequest.kind = ""
  BY DEF NoRequest

\* A request that goes on, and one that is over.
LEMMA Moves ==
  ASSUME RequestsOK, NEW r \in Requests, NEW pc \in Steps, To(r, pc)
  PROVE  /\ req' \in [Requests -> RequestRecords]
         /\ req'[r].pc = pc /\ req'[r].kind = req[r].kind /\ req'[r].link = req[r].link
         /\ \A q \in Requests : q # r => req'[q] = req[q]
<1>1. [req[r] EXCEPT !.pc = pc] \in RequestRecords
  BY DEF RequestsOK, RequestRecords
<1>2. req'[r] = [req[r] EXCEPT !.pc = pc]
  BY DEF RequestsOK, To
<1>3. req[r] \in RequestRecords
  BY DEF RequestsOK
<1>4. /\ [req[r] EXCEPT !.pc = pc].pc = pc
      /\ [req[r] EXCEPT !.pc = pc].kind = req[r].kind
      /\ [req[r] EXCEPT !.pc = pc].link = req[r].link
  BY <1>3 DEF RequestRecords
<1> QED  BY <1>1, <1>2, <1>4 DEF RequestsOK, To

LEMMA Ends ==
  ASSUME RequestsOK, NEW r \in Requests, Done(r)
  PROVE  /\ RequestsOK'
         /\ req'[r].pc = "idle"
         /\ \A q \in Requests : q # r => req'[q] = req[q]
  BY Blank, BlankFields DEF RequestsOK, Done

LEMMA Listed ==
  ASSUME TypeOK, NEW r \in Requests, ListSessions(r)
  PROVE  /\ RequestsOK'
         /\ req'[r].pc = "remove" /\ req'[r].kind = req[r].kind
         /\ req'[r].listed = OpenSessions /\ req'[r].read = Len(sessions)
         /\ \A q \in Requests : q # r => req'[q] = req[q]
<1>1. "remove" \in Steps /\ OpenSessions \in SUBSET Nat /\ Len(sessions) \in Nat
  BY DEF Steps, OpenSessions, Open, TypeOK, TablesOK
<1>2. req[r] \in RequestRecords
  BY DEF TypeOK, RequestsOK
<1> DEFINE q == [req[r] EXCEPT !.pc = "remove", !.listed = OpenSessions, !.read = Len(sessions)]
<1>3. q \in RequestRecords
  BY <1>1, <1>2 DEF RequestRecords
<1>4. q.kind = req[r].kind /\ q.pc = "remove"
  BY <1>2 DEF RequestRecords
<1>5. q.listed = OpenSessions /\ q.read = Len(sessions)
  BY <1>2 DEF RequestRecords
<1>6. req' = [req EXCEPT ![r] = q] /\ req[r].pc = "list"
  BY DEF ListSessions
<1> HIDE DEF q
<1>7. req'[r] = q /\ req' \in [Requests -> RequestRecords] /\ \A p \in Requests : p # r => req'[p] = req[p]
  BY <1>3, <1>6 DEF TypeOK, RequestsOK
<1>8. RequestsOK'
  BY <1>4, <1>6, <1>7 DEF TypeOK, RequestsOK
<1> QED  BY <1>4, <1>5, <1>7, <1>8

LEMMA EndedFacts ==
  ASSUME sessions \in Seq(SessionStates), NEW gone
  PROVE  /\ Ended(gone) \in Seq(SessionStates)
         /\ Len(Ended(gone)) = Len(sessions)
         /\ \A s \in DOMAIN sessions : Ended(gone)[s] = IF s \in gone /\ sessions[s] = "open" THEN "ended" ELSE sessions[s]
<1>1. Ended(gone) \in Seq(SessionStates)
  BY DEF Ended, SessionStates
<1>2. Len(Ended(gone)) = Len(sessions)
  BY DEF Ended
<1> QED  BY <1>1, <1>2 DEF Ended

LEMMA InitType == Init => TypeOK
<1> SUFFICES ASSUME Init PROVE TypeOK
  OBVIOUS
<1>1. TablesOK
  BY AccountsAssumption DEF Init, TablesOK, Secrets, SessionStates
<1>2. RequestsOK
  BY Blank, BlankFields DEF Init, RequestsOK
<1> QED  BY <1>1, <1>2 DEF TypeOK

\* A request that arrives.
New(r) == /\ req[r].pc = "idle"
          /\ req'[r].pc \in {"compare", "unlink"}
          /\ req'[r].pc = "compare" => /\ req'[r].kind \in Kinds \ {"ask"}
                                       /\ Secret(req'[r].kind) \notin locked
          /\ \A q \in Requests : q # r => req'[q] = req[q]

LEMMA RequestFacts ==
  ASSUME TablesOK, NEW kind \in Kinds, NEW d \in Devices, NEW right \in BOOLEAN
  PROVE  /\ Request(kind, d, right) \in RequestRecords
         /\ Request(kind, d, right).pc = "compare"
         /\ Request(kind, d, right).kind = kind
<1>1. fails[Secret(kind)] \in Nat /\ "compare" \in Steps
  BY DEF TablesOK, Secret, Secrets, Steps
<1>2. Request(kind, d, right) \in RequestRecords
  BY <1>1, Blank DEF Request, RequestRecords
<1>3. Request(kind, d, right).pc = "compare" /\ Request(kind, d, right).kind = kind
  BY DEF Request, NoRequest
<1> QED  BY <1>2, <1>3

LEMMA ArriveType ==
  ASSUME TypeOK, NEW r \in Requests, Arrives(r)
  PROVE  TypeOK' /\ New(r) /\ UNCHANGED <<ending, tries, signed, mails>>
<1>1. ASSUME NEW q \in RequestRecords, Accept(r, q), q.kind \in Kinds,
             \/ q.pc = "compare" /\ q.kind # "ask" /\ Secret(q.kind) \notin locked
             \/ q.pc = "unlink"
      PROVE  TypeOK' /\ New(r) /\ UNCHANGED <<ending, tries, signed, mails>>
  <2>1. TablesOK'
    BY <1>1 DEF Accept, TypeOK, TablesOK, ending, tries, signed, mails
  <2>2. req'[r] = q /\ req' \in [Requests -> RequestRecords] /\ \A p \in Requests : p # r => req'[p] = req[p]
    BY <1>1 DEF Accept, TypeOK, RequestsOK
  <2>3. RequestsOK'
    BY <1>1, <2>2 DEF TypeOK, RequestsOK, Kinds
  <2>4. New(r)
    BY <1>1, <2>2 DEF New, Accept
  <2> QED  BY <1>1, <2>1, <2>3, <2>4 DEF TypeOK, Accept
<1>2. ASSUME NEW d \in Devices, NEW right \in BOOLEAN, Login(r, d, right)
      PROVE  TypeOK' /\ New(r) /\ UNCHANGED <<ending, tries, signed, mails>>
  <2>1. "login" \in Kinds /\ Secret("login") = "login"
    BY DEF Kinds, Secret
  <2>2. /\ Request("login", d, right) \in RequestRecords
        /\ Request("login", d, right).pc = "compare" /\ Request("login", d, right).kind = "login"
    BY <2>1, RequestFacts DEF TypeOK
  <2>3. Accept(r, Request("login", d, right)) /\ "login" \notin locked
    BY <1>2 DEF Login
  <2> QED  BY <1>1, <2>1, <2>2, <2>3
<1>3. ASSUME NEW d \in Devices, NEW right \in BOOLEAN, NEW kind \in {"unlock", "pin", "change", "delete"},
             Authenticated(r, d, kind, right)
      PROVE  TypeOK' /\ New(r) /\ UNCHANGED <<ending, tries, signed, mails>>
  <2>1. kind \in Kinds /\ kind # "ask"
    BY DEF Kinds
  <2>2. holds[d] \in Nat
    BY DEF TypeOK, TablesOK
  <2> DEFINE q == [Request(kind, d, right) EXCEPT !.session = holds[d]]
  <2>3. q \in RequestRecords
    <3>1. Request(kind, d, right) \in RequestRecords
      BY <2>1, RequestFacts DEF TypeOK
    <3> QED  BY <2>2, <3>1 DEF RequestRecords
  <2>4. q.pc = "compare" /\ q.kind = kind
    BY DEF Request, NoRequest
  <2>5. Accept(r, q) /\ Secret(kind) \notin locked
    BY <1>3 DEF Authenticated
  <2> HIDE DEF q
  <2> QED  BY <1>1, <2>1, <2>3, <2>4, <2>5
<1>4. ASSUME NEW d \in Devices, NEW right \in BOOLEAN, NEW l \in links, ConfirmReset(r, d, l, right)
      PROVE  TypeOK' /\ New(r) /\ UNCHANGED <<ending, tries, signed, mails>>
  <2>1. "confirm" \in Kinds /\ l \in Nat /\ Secret("confirm") = "pin"
    BY DEF Kinds, TypeOK, TablesOK, Secret
  <2> DEFINE q == [Request("confirm", d, right) EXCEPT !.link = l]
  <2>2. q \in RequestRecords
    <3>1. Request("confirm", d, right) \in RequestRecords
      BY <2>1, RequestFacts DEF TypeOK
    <3> QED  BY <2>1, <3>1 DEF RequestRecords
  <2>3. q.pc = "compare" /\ q.kind = "confirm"
    BY DEF Request, NoRequest
  <2>4. Accept(r, q) /\ "pin" \notin locked
    BY <1>4 DEF ConfirmReset
  <2> HIDE DEF q
  <2> QED  BY <1>1, <2>1, <2>2, <2>3, <2>4
<1>5. ASSUME NEW d \in Devices, AskReset(r, d)
      PROVE  TypeOK' /\ New(r) /\ UNCHANGED <<ending, tries, signed, mails>>
  <2>1. "ask" \in Kinds /\ "unlink" \in Steps
    BY DEF Kinds, Steps
  <2> DEFINE q == [Request("ask", d, TRUE) EXCEPT !.pc = "unlink"]
  <2>2. q \in RequestRecords
    <3>1. Request("ask", d, TRUE) \in RequestRecords
      BY <2>1, RequestFacts DEF TypeOK
    <3> QED  BY <2>1, <3>1 DEF RequestRecords
  <2>3. q.pc = "unlink" /\ q.kind = "ask"
    BY DEF Request, NoRequest
  <2>4. Accept(r, q)
    BY <1>5 DEF AskReset
  <2> HIDE DEF q
  <2> QED  BY <1>1, <2>1, <2>2, <2>3, <2>4
<1> QED  BY <1>2, <1>3, <1>4, <1>5 DEF Arrives

LEMMA StepType ==
  ASSUME TypeOK, NEW r \in Requests, Step(r)
  PROVE  TypeOK'
<1>1. RequestsOK'
  <2>1. ASSUME NEW pc \in Steps, To(r, pc),
               (pc = "link" /\ At(r, "unlink")) \/ req[r].pc \notin {"idle", "unlink", "link"}
        PROVE  RequestsOK'
    <3>1. /\ req' \in [Requests -> RequestRecords] /\ req'[r].pc = pc /\ req'[r].kind = req[r].kind
          /\ \A q \in Requests : q # r => req'[q] = req[q]
      BY <2>1, Moves DEF TypeOK
    <3> QED  BY <2>1, <3>1 DEF TypeOK, RequestsOK, At
  <2>2. CASE ListSessions(r)
    BY <2>2, Listed
  <2>3. CASE Compare(r) \/ CountFailure(r) \/ ReadCount(r)
    BY <2>1, <2>3, Ends DEF Compare, CountFailure, ReadCount, Steps, TypeOK
  <2>4. CASE ResetAttempts(r)
    <3>1. AfterReset(req[r].kind) \in {"open", "others", "list", "signout", "unlock", "pin"}
      BY <2>4 DEF ResetAttempts, AfterReset, TypeOK, RequestsOK, RequestRecords, Kinds
    <3> QED  BY <2>1, <2>4, <3>1 DEF ResetAttempts, Steps
  <2>5. CASE Lock(r) \/ OpenSession(r) \/ Unlock(r) \/ NewPin(r) \/ SignOut(r) \/ AddLink(r) \/ RemoveAccount(r)
    BY <2>5, Ends DEF Lock, OpenSession, Unlock, NewPin, SignOut, AddLink, RemoveAccount, TypeOK
  <2>6. CASE DropLinks(r) \/ Consume(r) \/ ChangePassword(r)
    BY <2>1, <2>6, Ends DEF DropLinks, Consume, ChangePassword, Steps, TypeOK, At
  <2> QED  BY <2>2, <2>3, <2>4, <2>5, <2>6 DEF Step
<1>2. TablesOK'
  <2> USE DEF TypeOK, TablesOK, ending, tries, signed, mails
  <2>0. Secret(req[r].kind) \in Secrets
    BY DEF Secret, Secrets
  <2>1. CASE Compare(r)
    <3>1. guesses' \in {guesses, [guesses EXCEPT ![Secret(req[r].kind)] = @ + 1]}
      BY <2>1 DEF Compare
    <3>2. guesses' \in [Secrets -> Nat]
      <4>1. guesses \in [Secrets -> Nat]
        OBVIOUS
      <4>2. [guesses EXCEPT ![Secret(req[r].kind)] = @ + 1] \in [Secrets -> Nat]
        BY <4>1, CountUp
      <4> QED  BY <3>1, <4>1, <4>2
    <3> QED  BY <2>1, <3>2 DEF Compare
  <2>2. CASE CountFailure(r)
    BY <2>0, <2>2 DEF CountFailure, Counted
  <2>3. CASE ReadCount(r)
    BY <2>3 DEF ReadCount
  <2>4. CASE Lock(r)
    BY <2>0, <2>4 DEF Lock
  <2>5. CASE ResetAttempts(r)
    BY <2>5 DEF ResetAttempts
  <2>6. CASE OpenSession(r)
    <3>1. sessions' \in Seq(SessionStates)
      <4>1. "open" \in SessionStates
        BY DEF SessionStates
      <4>2. \A gone : Append(Ended(gone), "open") \in Seq(SessionStates)
        BY <4>1, EndedFacts
      <4> QED  BY <2>6, <4>2 DEF OpenSession
    <3>2. holds' \in [Devices -> Nat]
      <4>1. Len(sessions) + 1 \in Nat
        OBVIOUS
      <4> HIDE DEF TablesOK
      <4> QED  BY <2>6, <4>1 DEF OpenSession, TablesOK
    <3> QED  BY <2>6, <3>1, <3>2 DEF OpenSession
  <2>7. CASE Unlock(r)
    BY <2>7 DEF Unlock
  <2>8. CASE NewPin(r)
    BY <2>8 DEF NewPin
  <2>9. CASE SignOut(r)
    BY <2>9, EndedFacts DEF SignOut
  <2>10. CASE DropLinks(r)
    BY <2>10 DEF DropLinks
  <2>11. CASE AddLink(r)
    <3>1. Append(changes, 0) \in Seq(Nat) /\ Len(Append(changes, 0)) = sent + 1
      OBVIOUS
    <3>2. links \cup {sent + 1} \in SUBSET (1 .. sent + 1)
      OBVIOUS
    <3>3. CASE account = "deleted"
      BY <2>11, <3>3 DEF AddLink
    <3>4. CASE account = "open"
      <4>1. /\ sent' = sent + 1 /\ links' = links \cup {sent + 1} /\ changes' = Append(changes, 0)
            /\ UNCHANGED <<account, fails, locked, sessions, holds, closed, guesses, known, budget>>
        BY <2>11, <3>4 DEF AddLink
      <4>2. sent + 1 \in Nat
        OBVIOUS
      <4> QED  BY <3>1, <3>2, <4>1, <4>2
    <3> QED  BY <3>3, <3>4
  <2>12. CASE Consume(r)
    BY <2>12 DEF Consume
  <2>13. CASE ChangePassword(r)
    <3>1. \A l : [changes EXCEPT ![l] = @ + 1] \in Seq(Nat) /\ Len([changes EXCEPT ![l] = @ + 1]) = Len(changes)
      BY CountUpSeq
    <3> QED  BY <2>13, <3>1 DEF ChangePassword
  <2>14. CASE ListSessions(r)
    BY <2>14 DEF ListSessions
  <2>15. CASE RemoveAccount(r)
    <3>1. req[r].listed \in SUBSET Nat /\ req[r].read \in Nat
      BY DEF RequestsOK, RequestRecords
    <3>2. sessions' \in Seq(SessionStates)
      BY <2>15 DEF RemoveAccount, SessionStates
    <3>3. holds' \in [Devices -> Nat]
      BY <2>15 DEF RemoveAccount
    <3>4. closed' \in SUBSET Nat /\ known' \in Nat
      BY <2>15, <3>1 DEF RemoveAccount, Remembered
    <3> QED  BY <2>15, <3>2, <3>3, <3>4 DEF RemoveAccount
  <2> QED
    BY <2>1, <2>2, <2>3, <2>4, <2>5, <2>6, <2>7, <2>8, <2>9, <2>10, <2>11, <2>12, <2>13, <2>14, <2>15 DEF Step
<1> QED  BY <1>1, <1>2 DEF TypeOK

LEMMA TypeStep == TypeOK /\ [Next]_vars => TypeOK'
<1> SUFFICES ASSUME TypeOK, [Next]_vars PROVE TypeOK'
  OBVIOUS
<1> USE DEF TypeOK, TablesOK, RequestsOK, ending, tries, signed, mails
<1>1. ASSUME NEW d \in Devices, Refused(d) PROVE TypeOK'
  BY <1>1 DEF Refused
<1>2. ASSUME NEW s \in Secrets, LockEnds(s) PROVE TypeOK'
  BY <1>2 DEF LockEnds
<1>3. ASSUME NEW s \in DOMAIN sessions, EndSession(s) PROVE TypeOK'
  BY <1>3, EndedFacts DEF EndSession
<1>4. ASSUME NEW l \in links, EndLink(l) PROVE TypeOK'
  BY <1>4 DEF EndLink
<1>5. CASE UNCHANGED vars
  BY <1>5 DEF vars
<1> QED  BY ArriveType, StepType, <1>1, <1>2, <1>3, <1>4, <1>5 DEF Next

\* The tables and the requests keep their types, and a request for a link never reaches a secret.
THEOREM TypeCorrect == Spec => []TypeOK
  BY InitType, TypeStep, PTL DEF Spec
----------------------------------------------------------------------------
(* Links.                                                                  *)

LEMMA LinkStep == TypeOK /\ LinkInv /\ [Next]_vars => LinkInv'
<1> SUFFICES ASSUME TypeOK, LinkInv, [Next]_vars PROVE LinkInv'
  OBVIOUS
<1> USE DEF LinkInv, LinkUsedOnce, At
<1>0. /\ changes \in [1 .. sent -> Nat] /\ sent \in Nat /\ links \in SUBSET (1 .. sent)
      /\ DOMAIN changes = 1 .. sent
  BY DEF TypeOK, TablesOK
\* A step that leaves the links alone, but may end some, and moves no request to the change.
<1>1. ASSUME UNCHANGED <<sent, changes>>, links' \subseteq links,
             \A q \in Requests : req'[q].pc = "change" => req'[q] = req[q]
      PROVE  LinkInv'
  BY <1>0, <1>1
<1>2. ASSUME NEW r \in Requests, Arrives(r) PROVE LinkInv'
  BY <1>1, <1>2, ArriveType DEF New, mails
<1>3. ASSUME NEW r \in Requests, Step(r) PROVE LinkInv'
  <2>1. ASSUME UNCHANGED <<sent, changes>>, links' \subseteq links, NEW pc \in Steps \ {"change"}, To(r, pc) PROVE LinkInv'
    BY <1>1, <2>1, Moves DEF TypeOK
  <2>2. ASSUME UNCHANGED <<sent, changes>>, links' \subseteq links, Done(r) PROVE LinkInv'
    BY <1>1, <2>2, Ends DEF TypeOK
  <2>3. CASE Compare(r) \/ CountFailure(r) \/ ReadCount(r)
    BY <2>1, <2>2, <2>3 DEF Compare, CountFailure, ReadCount, mails, Steps
  <2>4. CASE ResetAttempts(r)
    <3>1. AfterReset(req[r].kind) \in {"open", "others", "list", "signout", "unlock", "pin"}
      BY <2>4 DEF ResetAttempts, AfterReset, TypeOK, RequestsOK, RequestRecords, Kinds
    <3> QED  BY <2>1, <2>4, <3>1 DEF ResetAttempts, mails, Steps
  <2>5. CASE Lock(r) \/ OpenSession(r) \/ Unlock(r) \/ NewPin(r) \/ SignOut(r) \/ RemoveAccount(r)
    BY <2>2, <2>5 DEF Lock, OpenSession, Unlock, NewPin, SignOut, RemoveAccount, mails
  <2>6. CASE DropLinks(r)
    BY <2>1, <2>6 DEF DropLinks, Steps
  <2>7. CASE AddLink(r)
    <3>1. CASE UNCHANGED mails
      BY <2>2, <2>7, <3>1 DEF AddLink, mails
    <3>2. CASE sent' = sent + 1 /\ links' = links \cup {sent + 1} /\ changes' = Append(changes, 0)
      <4>0. changes \in Seq(Nat) /\ Len(changes) = sent
        BY DEF TypeOK, TablesOK
      <4>1. /\ DOMAIN changes' = 1 .. sent + 1 /\ changes'[sent + 1] = 0
            /\ \A l \in 1 .. sent : changes'[l] = changes[l]
        BY <3>2, <4>0
      <4>2. \A q \in Requests : req'[q].pc = "change" => req'[q] = req[q]
        BY <2>7, Ends DEF AddLink, TypeOK
      <4>3. \A l \in links' : changes'[l] = 0
        BY <1>0, <3>2, <4>1
      <4>4. \A l \in DOMAIN changes' : changes'[l] <= 1
        BY <1>0, <4>1
      <4>5. \A q \in Requests : req'[q].pc = "change" =>
              /\ req'[q].link \in 1 .. sent' /\ req'[q].link \notin links' /\ changes'[req'[q].link] = 0
        BY <1>0, <3>2, <4>1, <4>2
      <4>6. \A q, p \in Requests : req'[q].pc = "change" /\ req'[p].pc = "change" /\ req'[p].link = req'[q].link => p = q
        BY <4>2
      <4> QED  BY <4>3, <4>4, <4>5, <4>6
    <3> QED  BY <2>7, <3>1, <3>2 DEF AddLink
  <2>8. CASE Consume(r)
    <3>1. CASE req[r].link \in links
      <4>1. /\ links' = links \ {req[r].link} /\ UNCHANGED <<sent, changes>> /\ To(r, "change")
        BY <2>8, <3>1 DEF Consume, Unused
      <4>2. /\ req'[r].link = req[r].link
            /\ \A q \in Requests : q # r => req'[q] = req[q]
        BY <4>1, Moves DEF TypeOK, Steps
      <4>3. \A q \in Requests : q # r /\ req[q].pc = "change" => req[q].link # req[r].link
        BY <3>1
      <4> QED  BY <1>0, <3>1, <4>1, <4>2, <4>3
    <3>2. CASE req[r].link \notin links
      BY <2>2, <2>8, <3>2 DEF Consume, Unused
    <3> QED  BY <3>1, <3>2
  <2>9. CASE ChangePassword(r)
    <3> DEFINE l == req[r].link
    <3>1. l \in 1 .. sent /\ l \notin links /\ changes[l] = 0
      BY <2>9 DEF ChangePassword
    <3>2. /\ changes' = [changes EXCEPT ![l] = @ + 1] /\ UNCHANGED <<sent, links>> /\ To(r, "reset")
      BY <2>9 DEF ChangePassword
    <3>3. /\ req'[r].pc = "reset"
          /\ \A q \in Requests : q # r => req'[q] = req[q]
      BY <3>2, Moves DEF TypeOK, Steps
    <3>4. changes'[l] = 1 /\ \A m \in 1 .. sent : m # l => changes'[m] = changes[m]
      BY <1>0, <3>1, <3>2
    <3>5. \A q \in Requests : req'[q].pc = "change" => q # r /\ req'[q] = req[q] /\ req[q].link # l
      BY <2>9, <3>3 DEF ChangePassword
    <3>6. DOMAIN changes' = 1 .. sent
      BY <1>0, <3>2
    <3> HIDE DEF l
    <3> QED  BY <1>0, <3>1, <3>2, <3>4, <3>5, <3>6
  <2>10. CASE ListSessions(r)
    <3>1. UNCHANGED <<sent, changes, links>>
      BY <2>10 DEF ListSessions, mails
    <3>2. \A q \in Requests : req'[q].pc = "change" => req'[q] = req[q]
      <4>1. req'[r].pc = "remove" /\ \A q \in Requests : q # r => req'[q] = req[q]
        BY <2>10, Listed
      <4> QED  BY <4>1
    <3> QED  BY <1>1, <3>1, <3>2
  <2> QED  BY <1>3, <2>3, <2>4, <2>5, <2>6, <2>7, <2>8, <2>9, <2>10 DEF Step
<1>4. ASSUME NEW d \in Devices, Refused(d) PROVE LinkInv'
  BY <1>1, <1>4 DEF Refused, mails
<1>5. ASSUME NEW s \in Secrets, LockEnds(s) PROVE LinkInv'
  BY <1>1, <1>5 DEF LockEnds, mails
<1>6. ASSUME NEW s \in DOMAIN sessions, EndSession(s) PROVE LinkInv'
  BY <1>1, <1>6 DEF EndSession, mails
<1>7. ASSUME NEW l \in links, EndLink(l) PROVE LinkInv'
  BY <1>1, <1>7 DEF EndLink
<1>8. CASE UNCHANGED vars
  BY <1>1, <1>8 DEF vars
<1> QED  BY <1>2, <1>3, <1>4, <1>5, <1>6, <1>7, <1>8 DEF Next

LEMMA LinkInit == Init => LinkInv
<1> SUFFICES ASSUME Init PROVE LinkInv
  OBVIOUS
<1>1. DOMAIN changes = {} /\ links = {}
  BY DEF Init
<1>2. \A r \in Requests : req[r].pc = "idle"
  BY BlankFields DEF Init
<1> QED  BY <1>1, <1>2 DEF LinkInv, LinkUsedOnce, At

\* A link changes the password once, however many requests open it.
THEOREM LinkUsedOnceCorrect == Spec => []LinkUsedOnce
<1>1. LinkInv => LinkUsedOnce
  BY DEF LinkInv
<1> QED  BY <1>1, TypeCorrect, LinkInit, LinkStep, PTL DEF Spec
----------------------------------------------------------------------------
(* Sessions of an account that is deleted.                                 *)

LEMMA ClosedStep == TypeOK /\ ClosedInv /\ [Next]_vars => ClosedInv'
<1> SUFFICES ASSUME TypeOK, ClosedInv, [Next]_vars PROVE ClosedInv'
  OBVIOUS
<1> USE DEF ClosedInv, At
<1>0. /\ account \in {"open", "deleted"} /\ known \in Nat
      /\ sessions \in Seq(SessionStates) /\ Len(sessions) \in Nat /\ DOMAIN sessions = 1 .. Len(sessions)
      /\ \A s \in DOMAIN sessions : sessions[s] \in {"open", "ended", "gone"}
      /\ \A r \in Requests : req[r].read \in Nat
  <2>1. \A r \in Requests : req[r].read \in Nat
    BY DEF TypeOK, RequestsOK, RequestRecords
  <2>2. \A s \in DOMAIN sessions : sessions[s] \in {"open", "ended", "gone"}
    BY DEF TypeOK, TablesOK, SessionStates
  <2> QED  BY <2>1, <2>2 DEF TypeOK, TablesOK
\* Sessions that end, and requests that do not come to the removal.
<1>1. ASSUME UNCHANGED ending,
             DOMAIN sessions' = DOMAIN sessions, Len(sessions') = Len(sessions),
             \A s \in DOMAIN sessions : sessions'[s] = sessions[s] \/ (sessions[s] = "open" /\ sessions'[s] = "ended"),
             \A q \in Requests : req'[q].pc = "remove" => req'[q] = req[q]
      PROVE  ClosedInv'
  BY <1>0, <1>1 DEF ending
<1>2. ASSUME NEW gone, sessions' = Ended(gone)
      PROVE  /\ DOMAIN sessions' = DOMAIN sessions /\ Len(sessions') = Len(sessions)
             /\ \A s \in DOMAIN sessions : sessions'[s] = sessions[s] \/ (sessions[s] = "open" /\ sessions'[s] = "ended")
  BY <1>0, <1>2, EndedFacts DEF Ended
<1>3. ASSUME NEW r \in Requests, Arrives(r) PROVE ClosedInv'
  BY <1>1, <1>3, ArriveType DEF New, signed
<1>4. ASSUME NEW r \in Requests, Step(r) PROVE ClosedInv'
  <2>1. ASSUME UNCHANGED <<ending, sessions>>, NEW pc \in Steps \ {"remove"}, To(r, pc) PROVE ClosedInv'
    BY <1>1, <2>1, Moves DEF TypeOK
  <2>2. ASSUME UNCHANGED <<ending, sessions>>, Done(r) PROVE ClosedInv'
    BY <1>1, <2>2, Ends DEF TypeOK
  <2>3. CASE Compare(r) \/ CountFailure(r) \/ ReadCount(r)
    BY <2>1, <2>2, <2>3 DEF Compare, CountFailure, ReadCount, signed, Steps
  <2>4. CASE ResetAttempts(r)
    <3>1. AfterReset(req[r].kind) \in {"open", "others", "list", "signout", "unlock", "pin"}
      BY <2>4 DEF ResetAttempts, AfterReset, TypeOK, RequestsOK, RequestRecords, Kinds
    <3> QED  BY <2>1, <2>4, <3>1 DEF ResetAttempts, signed, Steps
  <2>5. CASE Lock(r) \/ Unlock(r) \/ NewPin(r) \/ AddLink(r)
    BY <2>2, <2>5 DEF Lock, Unlock, NewPin, AddLink, signed
  <2>6. CASE DropLinks(r) \/ Consume(r) \/ ChangePassword(r)
    BY <2>1, <2>2, <2>6 DEF DropLinks, Consume, ChangePassword, signed, Steps
  <2>7. CASE SignOut(r)
    <3>1. UNCHANGED ending /\ \E gone : sessions' = Ended(gone)
      BY <2>7 DEF SignOut
    <3>2. \A q \in Requests : req'[q].pc = "remove" => req'[q] = req[q]
      BY <2>7, Ends DEF SignOut, TypeOK
    <3> QED  BY <1>1, <1>2, <3>1, <3>2
  <2>8. CASE OpenSession(r)
    <3>1. CASE account = "deleted"
      BY <2>2, <2>8, <3>1 DEF OpenSession, signed
    <3>2. CASE account = "open"
      <4>1. PICK gone : sessions' = Append(Ended(gone), "open")
        BY <2>8, <3>2 DEF OpenSession
      <4> DEFINE f == Ended(gone)
      <4>2. /\ f \in Seq(SessionStates) /\ Len(f) = Len(sessions) /\ DOMAIN f = DOMAIN sessions
            /\ \A s \in DOMAIN sessions : f[s] = sessions[s] \/ (sessions[s] = "open" /\ f[s] = "ended")
        BY <1>0, EndedFacts DEF Ended
      <4> HIDE DEF f
      <4>3. /\ DOMAIN sessions' = 1 .. Len(sessions) + 1 /\ Len(sessions') = Len(sessions) + 1
            /\ sessions'[Len(sessions) + 1] = "open"
            /\ \A s \in DOMAIN sessions : sessions'[s] = f[s]
        BY <1>0, <4>1, <4>2 DEF f
      <4>4. UNCHANGED ending /\ \A q \in Requests : req'[q].pc = "remove" => req'[q] = req[q]
        BY <2>8, Ends DEF OpenSession, TypeOK
      <4>5. \A s \in DOMAIN sessions' : sessions'[s] # "gone"
        BY <1>0, <3>2, <4>2, <4>3
      <4>6. \A q \in Requests : req'[q].pc = "remove" =>
              /\ req'[q].read <= Len(sessions')
              /\ \A s \in 1 .. req'[q].read : sessions'[s] = "open" => s \in req'[q].listed
        BY <1>0, <4>2, <4>3, <4>4
      <4> QED  BY <3>2, <4>4, <4>5, <4>6 DEF ending
    <3> QED  BY <1>0, <3>1, <3>2
  <2>9. CASE ListSessions(r)
    <3>1. /\ req'[r].listed = OpenSessions /\ req'[r].read = Len(sessions)
          /\ \A q \in Requests : q # r => req'[q] = req[q]
      BY <2>9, Listed
    <3>2. UNCHANGED <<ending, sessions>>
      BY <2>9 DEF ListSessions, signed
    <3>3. \A s \in 1 .. Len(sessions) : sessions[s] = "open" => s \in OpenSessions
      BY <1>0 DEF OpenSessions, Open
    <3> QED  BY <1>0, <3>1, <3>2, <3>3 DEF ending
  <2>10. CASE RemoveAccount(r)
    <3>1. /\ account' = "deleted" /\ closed' = closed \cup req[r].listed
          /\ known' = IF account = "open" THEN req[r].read ELSE known
          /\ sessions' = [s \in DOMAIN sessions |-> IF sessions[s] = "open" THEN "gone" ELSE sessions[s]]
          /\ req[r].pc = "remove"
      BY <2>10 DEF RemoveAccount, Remembered
    <3>2. \A q \in Requests : req'[q].pc = "remove" => req'[q] = req[q]
      BY <2>10, Ends DEF RemoveAccount, TypeOK
    <3>3. DOMAIN sessions' = DOMAIN sessions /\ Len(sessions') = Len(sessions)
      BY <1>0, <3>1
    <3>4. \A s \in DOMAIN sessions : sessions'[s] # "open"
      BY <3>1
    <3>5. \A s \in DOMAIN sessions : sessions'[s] = "gone" /\ s <= known' => s \in closed'
      BY <1>0, <3>1
    <3>6. known' <= Len(sessions')
      BY <1>0, <3>1, <3>3
    <3> QED  BY <1>0, <3>1, <3>2, <3>3, <3>4, <3>5, <3>6
  <2> QED  BY <1>4, <2>3, <2>4, <2>5, <2>6, <2>7, <2>8, <2>9, <2>10 DEF Step
<1>5. ASSUME NEW d \in Devices, Refused(d) PROVE ClosedInv'
  BY <1>1, <1>5 DEF Refused
<1>6. ASSUME NEW s \in Secrets, LockEnds(s) PROVE ClosedInv'
  BY <1>1, <1>6 DEF LockEnds, signed
<1>7. ASSUME NEW s \in DOMAIN sessions, EndSession(s) PROVE ClosedInv'
  BY <1>1, <1>2, <1>7 DEF EndSession
<1>8. ASSUME NEW l \in links, EndLink(l) PROVE ClosedInv'
  BY <1>1, <1>8 DEF EndLink, signed
<1>9. CASE UNCHANGED vars
  BY <1>1, <1>9 DEF vars, ending
<1> QED  BY <1>3, <1>4, <1>5, <1>6, <1>7, <1>8, <1>9 DEF Next

LEMMA ClosedInit == Init => ClosedInv
<1> SUFFICES ASSUME Init PROVE ClosedInv
  OBVIOUS
<1>1. DOMAIN sessions = {} /\ account = "open"
  BY DEF Init
<1>2. \A r \in Requests : req[r].pc = "idle"
  BY BlankFields DEF Init
<1> QED  BY <1>1, <1>2 DEF ClosedInv, At

\* A deletion leaves no session open, and remembers those that were there when it read the sessions.
THEOREM ToldGoneCorrect == Spec => []ToldGone
<1>1. TypeOK /\ ClosedInv => ToldGone
  BY DEF TypeOK, TablesOK, ClosedInv, ToldGone, OpenSessions, Open
<1> QED  BY <1>1, TypeCorrect, ClosedInit, ClosedStep, PTL DEF Spec
----------------------------------------------------------------------------
(* The lock.                                                               *)

LEMMA Counts ==
  ASSUME NEW s
  PROVE  /\ IsFiniteSet(Counting(s)) /\ IsFiniteSet(Failing(s)) /\ IsFiniteSet(Comparing(s))
         /\ Cardinality(Counting(s)) \in Nat /\ Cardinality(Failing(s)) \in Nat /\ Cardinality(Comparing(s)) \in Nat
         /\ Cardinality(Requests) \in Nat
         /\ Cardinality(Counting(s)) <= Cardinality(Failing(s))
         /\ Cardinality(Failing(s)) + Cardinality(Comparing(s)) <= Cardinality(Requests)
<1>1. IsFiniteSet(Requests)
  BY AccountsAssumption
<1>2. /\ Counting(s) \subseteq Requests /\ Failing(s) \subseteq Requests /\ Comparing(s) \subseteq Requests
      /\ Counting(s) \subseteq Failing(s) /\ Failing(s) \cap Comparing(s) = {}
  BY DEF Counting, Failing, Comparing, At
<1>3. IsFiniteSet(Counting(s)) /\ IsFiniteSet(Failing(s)) /\ IsFiniteSet(Comparing(s))
  BY <1>1, <1>2, FS_Subset
<1>4. /\ Cardinality(Counting(s)) \in Nat /\ Cardinality(Failing(s)) \in Nat /\ Cardinality(Comparing(s)) \in Nat
      /\ Cardinality(Requests) \in Nat
  BY <1>1, <1>3, FS_CardinalityType
<1>5. Cardinality(Counting(s)) <= Cardinality(Failing(s))
  BY <1>2, <1>3, FS_Subset
<1>6. Cardinality(Failing(s) \cup Comparing(s)) = Cardinality(Failing(s)) + Cardinality(Comparing(s))
  <2>1. Cardinality(Failing(s) \cap Comparing(s)) = 0
    BY <1>2, FS_EmptySet
  <2>2. Cardinality(Failing(s) \cup Comparing(s))
          = Cardinality(Failing(s)) + Cardinality(Comparing(s)) - Cardinality(Failing(s) \cap Comparing(s))
    BY <1>3, FS_Union
  <2> QED  BY <1>4, <2>1, <2>2
<1>7. Cardinality(Failing(s) \cup Comparing(s)) <= Cardinality(Requests)
  BY <1>1, <1>2, FS_Subset
<1> QED  BY <1>3, <1>4, <1>5, <1>6, <1>7

LEMMA GuessStep == TypeOK /\ GuessInv /\ [Next]_vars => GuessInv'
<1> SUFFICES ASSUME TypeOK, GuessInv, [Next]_vars, NEW s \in Secrets PROVE GuessOf(s)'
  BY DEF GuessInv
<1>0. /\ GuessOf(s)
      /\ guesses[s] \in Nat /\ fails[s] \in Nat /\ FreeAttempts \in Nat \ {0} /\ locked \subseteq Secrets
  BY AccountsAssumption DEF GuessInv, TypeOK, TablesOK
<1> DEFINE Mine(r) == Secret(req[r].kind) = s
\* Where a request stands with the secret.
<1>1. ASSUME NEW r \in Requests, \A q \in Requests : q # r => req'[q] = req[q],
             req'[r].pc = "idle" \/ req'[r].kind = req[r].kind
      PROVE  /\ Comparing(s)' = IF Mine(r)' /\ req'[r].pc = "compare" THEN Comparing(s) \cup {r} ELSE Comparing(s) \ {r}
             /\ Counting(s)' = IF Mine(r) /\ req'[r].pc = "count" THEN Counting(s) \cup {r} ELSE Counting(s) \ {r}
             /\ Failing(s)' = IF Mine(r) /\ req'[r].pc \in {"count", "counted", "lock"} THEN Failing(s) \cup {r} ELSE Failing(s) \ {r}
  BY <1>1 DEF Comparing, Counting, Failing, At
\* Steps of requests that do not fail, and steps of others.
<1>2. ASSUME UNCHANGED <<guesses, fails, locked>>,
             Counting(s)' = Counting(s), Failing(s)' = Failing(s),
             s \in locked => Comparing(s)' = Comparing(s)
      PROVE  GuessOf(s)'
  BY <1>0, <1>2, Counts DEF GuessOf
\* The attempts are forgotten, or the lock ends.
<1>3. ASSUME guesses'[s] = 0, fails'[s] \in Nat, s \notin locked',
             Counting(s)' = Counting(s), Failing(s)' = Failing(s)
      PROVE  GuessOf(s)'
  BY <1>0, <1>3, Counts DEF GuessOf
<1>4. ASSUME NEW r \in Requests, Arrives(r) PROVE GuessOf(s)'
  <2>1. New(r) /\ UNCHANGED <<ending, tries, signed, mails>>
    BY <1>4, ArriveType
  <2>2. Counting(s)' = Counting(s) /\ Failing(s)' = Failing(s)
    BY <2>1 DEF New, Counting, Failing, At
  <2>3. s \in locked => Comparing(s)' = Comparing(s)
    BY <2>1 DEF New, Comparing, At
  <2> QED  BY <1>2, <2>1, <2>2, <2>3 DEF tries
<1>5. ASSUME NEW r \in Requests, Step(r) PROVE GuessOf(s)'
  <2>1. ASSUME NEW pc \in Steps, To(r, pc)
        PROVE  /\ Comparing(s)' = IF Mine(r) /\ pc = "compare" THEN Comparing(s) \cup {r} ELSE Comparing(s) \ {r}
               /\ Counting(s)' = IF Mine(r) /\ pc = "count" THEN Counting(s) \cup {r} ELSE Counting(s) \ {r}
               /\ Failing(s)' = IF Mine(r) /\ pc \in {"count", "counted", "lock"} THEN Failing(s) \cup {r} ELSE Failing(s) \ {r}
    <3>1. req'[r].pc = pc /\ req'[r].kind = req[r].kind /\ \A q \in Requests : q # r => req'[q] = req[q]
      BY <2>1, Moves DEF TypeOK
    <3> QED  BY <1>1, <3>1
  <2>2. ASSUME Done(r)
        PROVE  /\ Comparing(s)' = Comparing(s) \ {r} /\ Counting(s)' = Counting(s) \ {r} /\ Failing(s)' = Failing(s) \ {r}
    BY <1>1, <2>2, Ends DEF TypeOK
  <2>3. /\ r \in Comparing(s) <=> At(r, "compare") /\ Mine(r)
        /\ r \in Counting(s) <=> At(r, "count") /\ Mine(r)
        /\ r \in Failing(s) <=> req[r].pc \in {"count", "counted", "lock"} /\ Mine(r)
    BY DEF Comparing, Counting, Failing
  <2>4. /\ Cardinality(Comparing(s) \ {r}) = IF r \in Comparing(s) THEN Cardinality(Comparing(s)) - 1 ELSE Cardinality(Comparing(s))
        /\ Cardinality(Counting(s) \ {r}) = IF r \in Counting(s) THEN Cardinality(Counting(s)) - 1 ELSE Cardinality(Counting(s))
        /\ Cardinality(Failing(s) \ {r}) = IF r \in Failing(s) THEN Cardinality(Failing(s)) - 1 ELSE Cardinality(Failing(s))
        /\ Cardinality(Counting(s) \cup {r}) = IF r \in Counting(s) THEN Cardinality(Counting(s)) ELSE Cardinality(Counting(s)) + 1
        /\ Cardinality(Failing(s) \cup {r}) = IF r \in Failing(s) THEN Cardinality(Failing(s)) ELSE Cardinality(Failing(s)) + 1
    BY Counts, FS_AddElement, FS_RemoveElement
  \* A step of a request that is none of those counted.
  <2>5. ASSUME r \notin Failing(s), r \notin Comparing(s), UNCHANGED tries,
               Done(r) \/ \E pc \in Steps \ {"compare", "count", "counted", "lock"} : To(r, pc)
        PROVE  GuessOf(s)'
    <3>1. r \notin Counting(s)
      BY <2>5 DEF Counting, Failing, At
    <3> QED  BY <1>2, <2>1, <2>2, <2>5, <3>1 DEF tries
  <2>6. CASE Compare(r)
    <3>1. CASE ~req[r].right
      <4>1. To(r, "count") /\ guesses' = [guesses EXCEPT ![Secret(req[r].kind)] = @ + 1] /\ UNCHANGED <<fails, locked>> /\ At(r, "compare")
        BY <2>6, <3>1 DEF Compare, At
      <4>2. "count" \in Steps
        BY DEF Steps
      <4>3. CASE Mine(r)
        <5>1. /\ Comparing(s)' = Comparing(s) \ {r} /\ Counting(s)' = Counting(s) \cup {r} /\ Failing(s)' = Failing(s) \cup {r}
          BY <2>1, <4>1, <4>2, <4>3
        <5>2. guesses'[s] = guesses[s] + 1
          BY <4>1, <4>3 DEF TypeOK, TablesOK
        <5> QED  BY <1>0, <2>3, <2>4, <4>1, <4>3, <5>1, <5>2, Counts DEF GuessOf, At
      <4>4. CASE ~Mine(r)
        <5>1. /\ Comparing(s)' = Comparing(s) \ {r} /\ Counting(s)' = Counting(s) \ {r} /\ Failing(s)' = Failing(s) \ {r}
          BY <2>1, <4>1, <4>2, <4>4
        <5>2. guesses'[s] = guesses[s]
          BY <4>1, <4>4 DEF TypeOK, TablesOK
        <5> QED  BY <1>0, <2>3, <2>4, <4>1, <4>4, <5>1, <5>2, Counts DEF GuessOf, At
      <4> QED  BY <4>3, <4>4
    <3>2. CASE req[r].right
      <4>1. PICK pc \in {"consume", "reset"} : To(r, pc)
        BY <2>6, <3>2 DEF Compare
      <4>2. pc \in Steps /\ UNCHANGED <<guesses, fails, locked>> /\ At(r, "compare")
        BY <2>6, <3>2 DEF Compare, Steps, At
      <4>3. /\ Comparing(s)' = Comparing(s) \ {r} /\ Counting(s)' = Counting(s) \ {r} /\ Failing(s)' = Failing(s) \ {r}
        BY <2>1, <4>1, <4>2
      <4> QED  BY <1>0, <2>3, <2>4, <4>2, <4>3, Counts DEF GuessOf, At
    <3> QED  BY <3>1, <3>2
  <2>7. CASE CountFailure(r)
    <3>1. /\ To(r, "counted") /\ UNCHANGED <<guesses, locked>> /\ At(r, "count")
          /\ fails' = [fails EXCEPT ![Secret(req[r].kind)] = fails[Secret(req[r].kind)] + 1]
      BY <2>7 DEF CountFailure, Counted, At
    <3>2. "counted" \in Steps
      BY DEF Steps
    <3>3. /\ Comparing(s)' = Comparing(s) \ {r} /\ Counting(s)' = Counting(s) \ {r}
          /\ Failing(s)' = IF Mine(r) THEN Failing(s) \cup {r} ELSE Failing(s) \ {r}
      BY <2>1, <3>1, <3>2
    <3>4. fails'[s] = IF Mine(r) THEN fails[s] + 1 ELSE fails[s]
      BY <3>1 DEF TypeOK, TablesOK
    <3> QED  BY <1>0, <2>3, <2>4, <3>1, <3>3, <3>4, Counts DEF GuessOf, At
  <2>8. CASE ReadCount(r)
    <3>1. UNCHANGED tries /\ At(r, "counted")
      BY <2>8 DEF ReadCount, At
    <3>2. CASE fails[Secret(req[r].kind)] < FreeAttempts
      <4>1. /\ Comparing(s)' = Comparing(s) \ {r} /\ Counting(s)' = Counting(s) \ {r} /\ Failing(s)' = Failing(s) \ {r}
        BY <2>2, <2>8, <3>2 DEF ReadCount
      <4>2. Mine(r) => fails[s] < FreeAttempts
        BY <3>2
      <4>3. r \in Failing(s) => Cardinality(Counting(s)) <= Cardinality(Failing(s)) - 1
        <5>1. Counting(s) \subseteq Failing(s) \ {r} /\ IsFiniteSet(Failing(s) \ {r})
          <6>1. Counting(s) \subseteq Failing(s) \ {r}
            BY <3>1 DEF Counting, Failing, At
          <6> QED  BY <6>1, Counts, FS_RemoveElement
        <5>2. Cardinality(Counting(s)) <= Cardinality(Failing(s) \ {r})
          BY <5>1, FS_Subset
        <5> QED  BY <2>4, <5>2
      <4> QED  BY <1>0, <2>3, <2>4, <3>1, <4>1, <4>2, <4>3, Counts DEF GuessOf, At, tries
    <3>3. CASE ~(fails[Secret(req[r].kind)] < FreeAttempts)
      <4>1. To(r, "lock") /\ "lock" \in Steps
        BY <2>8, <3>3 DEF ReadCount, Steps
      <4>2. /\ Comparing(s)' = Comparing(s) \ {r} /\ Counting(s)' = Counting(s) \ {r}
            /\ Failing(s)' = IF Mine(r) THEN Failing(s) \cup {r} ELSE Failing(s) \ {r}
        BY <2>1, <4>1
      <4> QED  BY <1>0, <2>3, <2>4, <3>1, <4>2, Counts DEF GuessOf, At, tries
    <3> QED  BY <3>2, <3>3
  <2>9. CASE Lock(r)
    <3>1. /\ Done(r) /\ At(r, "lock") /\ UNCHANGED <<guesses, fails>>
          /\ locked' = locked \cup {Secret(req[r].kind)}
      BY <2>9 DEF Lock, At
    <3>2. /\ Comparing(s)' = Comparing(s) \ {r} /\ Counting(s)' = Counting(s) \ {r} /\ Failing(s)' = Failing(s) \ {r}
      BY <2>2, <3>1
    <3> QED  BY <1>0, <2>3, <2>4, <3>1, <3>2, Counts DEF GuessOf, At
  <2>10. CASE ResetAttempts(r)
    <3>1. PICK pc \in Steps \ {"compare", "count", "counted", "lock"} : To(r, pc)
      <4>1. AfterReset(req[r].kind) \in {"open", "others", "list", "signout", "unlock", "pin"}
        BY <2>10 DEF ResetAttempts, AfterReset, TypeOK, RequestsOK, RequestRecords, Kinds
      <4> QED  BY <2>10, <4>1 DEF ResetAttempts, Steps
    <3>2. r \notin Failing(s) /\ r \notin Comparing(s) /\ r \notin Counting(s)
      BY <2>3, <2>10 DEF ResetAttempts, At
    <3>3. /\ Comparing(s)' = Comparing(s) /\ Counting(s)' = Counting(s) /\ Failing(s)' = Failing(s)
      BY <2>1, <3>1, <3>2
    <3>4. IF s \in Resets(req[r].kind) THEN guesses'[s] = 0 /\ fails'[s] = 0 /\ s \notin locked'
          ELSE guesses'[s] = guesses[s] /\ fails'[s] = fails[s] /\ (s \in locked' <=> s \in locked)
      BY <2>10 DEF ResetAttempts
    <3> QED  BY <1>0, <1>3, <3>3, <3>4 DEF GuessOf
  <2>11. CASE NewPin(r)
    <3>1. r \notin Failing(s) /\ r \notin Comparing(s) /\ r \notin Counting(s)
      BY <2>3, <2>11 DEF NewPin, At
    <3>2. /\ Comparing(s)' = Comparing(s) /\ Counting(s)' = Counting(s) /\ Failing(s)' = Failing(s)
      BY <2>2, <2>11, <3>1 DEF NewPin
    <3>3. IF s = "pin" THEN guesses'[s] = 0 /\ fails'[s] = 0 /\ s \notin locked'
          ELSE guesses'[s] = guesses[s] /\ fails'[s] = fails[s] /\ (s \in locked' <=> s \in locked)
      BY <2>11 DEF NewPin, TypeOK, TablesOK
    <3> QED  BY <1>0, <1>3, <3>2, <3>3 DEF GuessOf
  <2>12. CASE OpenSession(r) \/ Unlock(r) \/ SignOut(r) \/ AddLink(r) \/ RemoveAccount(r)
    BY <2>3, <2>5, <2>12 DEF OpenSession, Unlock, SignOut, AddLink, RemoveAccount, At
  <2>13. CASE DropLinks(r) \/ Consume(r) \/ ChangePassword(r)
    BY <2>3, <2>5, <2>13 DEF DropLinks, Consume, ChangePassword, At, Steps
  <2>14. CASE ListSessions(r)
    <3>1. req'[r].pc = "remove" /\ req'[r].kind = req[r].kind /\ (\A q \in Requests : q # r => req'[q] = req[q]) /\ At(r, "list")
      BY <2>14, Listed DEF ListSessions, At
    <3>2. /\ Comparing(s)' = Comparing(s) /\ Counting(s)' = Counting(s) /\ Failing(s)' = Failing(s)
      <4>1. r \notin Comparing(s) /\ r \notin Counting(s) /\ r \notin Failing(s)
        BY <2>3, <3>1 DEF At
      <4>2. Comparing(s)' = Comparing(s) \ {r} /\ Counting(s)' = Counting(s) \ {r} /\ Failing(s)' = Failing(s) \ {r}
        BY <1>1, <3>1
      <4> QED  BY <4>1, <4>2
    <3> QED  BY <1>2, <2>14, <3>2 DEF ListSessions, tries
  <2> QED
    BY <1>5, <2>6, <2>7, <2>8, <2>9, <2>10, <2>11, <2>12, <2>13, <2>14 DEF Step
<1>6. ASSUME NEW d \in Devices, Refused(d) PROVE GuessOf(s)'
  BY <1>2, <1>6 DEF Refused, tries, Counting, Failing, Comparing, At
<1>7. ASSUME NEW t \in Secrets, LockEnds(t) PROVE GuessOf(s)'
  <2>1. Counting(s)' = Counting(s) /\ Failing(s)' = Failing(s) /\ Comparing(s)' = Comparing(s)
    BY <1>7 DEF LockEnds, Counting, Failing, Comparing, At
  <2>2. IF s = t THEN guesses'[s] = 0 /\ s \notin locked' ELSE guesses'[s] = guesses[s] /\ (s \in locked' <=> s \in locked)
    BY <1>7 DEF LockEnds, TypeOK, TablesOK
  <2>3. fails' = fails
    BY <1>7 DEF LockEnds
  <2> QED  BY <1>0, <1>3, <2>1, <2>2, <2>3 DEF GuessOf
<1>8. ASSUME NEW t \in DOMAIN sessions, EndSession(t) PROVE GuessOf(s)'
  BY <1>2, <1>8 DEF EndSession, tries, Counting, Failing, Comparing, At
<1>9. ASSUME NEW l \in links, EndLink(l) PROVE GuessOf(s)'
  BY <1>2, <1>9 DEF EndLink, tries, Counting, Failing, Comparing, At
<1>10. CASE UNCHANGED vars
  BY <1>2, <1>10 DEF vars, Counting, Failing, Comparing, At
<1> QED  BY <1>4, <1>5, <1>6, <1>7, <1>8, <1>9, <1>10 DEF Next

LEMMA GuessInit == Init => GuessInv
<1> SUFFICES ASSUME Init, NEW s \in Secrets PROVE GuessOf(s)
  BY DEF GuessInv
<1>1. guesses[s] = 0 /\ fails[s] = 0 /\ locked = {}
  BY DEF Init
<1> QED  BY <1>1, Counts, AccountsAssumption DEF GuessOf

\* Guesses sent at once gain one attempt for each request in progress, not more.
THEOREM GuessesBoundedCorrect == Spec => []GuessesBounded
<1>1. TypeOK /\ GuessInv => GuessesBounded
  <2> SUFFICES ASSUME TypeOK, GuessInv, NEW s \in Secrets PROVE guesses[s] < FreeAttempts + Cardinality(Requests)
    BY DEF GuessesBounded
  <2>1. guesses[s] \in Nat /\ FreeAttempts \in Nat /\ GuessOf(s)
    BY AccountsAssumption DEF GuessInv, TypeOK, TablesOK
  <2> QED  BY <2>1, Counts DEF GuessOf
<1> QED  BY <1>1, TypeCorrect, GuessInit, GuessStep, PTL DEF Spec
=============================================================================
