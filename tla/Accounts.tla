------------------------------ MODULE Accounts ------------------------------
(***************************************************************************)
(* The account of a family on the server: its sessions, the passwords and  *)
(* codes that are tried and the locks they lead to, the links that reset a *)
(* password, and the deletion of the account.  Requests run at once, one   *)
(* step per await on a table or on the comparison of a secret.             *)
(***************************************************************************)
EXTENDS Integers, Sequences, FiniteSets

CONSTANTS
  Devices,      \* devices and browsers of the family
  Requests,     \* requests the server serves at once
  FreeAttempts, \* LOCKOUT.freeAttempts
  MaxRequests,  \* bound: requests in all
  MaxGuesses    \* bound: wrong secrets

ASSUME AccountsAssumption ==
  /\ IsFiniteSet(Devices) /\ IsFiniteSet(Requests) /\ Requests # {}
  /\ FreeAttempts \in Nat \ {0} /\ MaxRequests \in Nat /\ MaxGuesses \in Nat

VARIABLES
  account,  \* "open" or "deleted"
  fails,    \* failed attempts counted, for each secret
  locked,   \* secrets refused for now
  sessions, \* sessions opened, in order: "open", "ended", or "gone" with the account
  holds,    \* the session a device holds, or 0
  closed,   \* deleted_accounts: sessions to be told that the account is gone
  links,    \* unused links of the reset of the password
  sent,     \* links created
  req,      \* requests in progress
  guesses,  \* history: wrong secrets compared since the last right one or the end of a lock
  changes,  \* history: passwords changed by each link
  known,    \* history: sessions opened when the deletion listed them
  budget    \* requests left, wrong secrets left

vars == <<account, fails, locked, sessions, holds, closed, links, sent, req, guesses, changes, known, budget>>
tries == <<fails, locked, guesses>>
signed == <<sessions, holds>>
mails == <<links, sent, changes>>
ending == <<account, closed, known>>

Secrets == {"login", "pin"}
\* The secret a request is checked against.
Secret(kind) == IF kind \in {"unlock", "confirm"} THEN "pin" ELSE "login"
NoRequest == [pc |-> "idle", kind |-> "", dev |-> "", session |-> 0, right |-> FALSE, link |-> 0, listed |-> {}, read |-> 0]
Open(s) == s \in DOMAIN sessions /\ sessions[s] = "open"
OpenSessions == {s \in DOMAIN sessions : Open(s)}

Init ==
  /\ account = "open"
  /\ fails = [s \in Secrets |-> 0] /\ locked = {} /\ guesses = [s \in Secrets |-> 0]
  /\ sessions = <<>> /\ holds = [d \in Devices |-> 0] /\ closed = {} /\ known = 0
  /\ links = {} /\ sent = 0 /\ changes = <<>>
  /\ req = [r \in Requests |-> NoRequest]
  /\ budget = [requests |-> MaxRequests, guesses |-> MaxGuesses]

To(r, pc) == req' = [req EXCEPT ![r].pc = pc]
Done(r) == req' = [req EXCEPT ![r] = NoRequest]
----------------------------------------------------------------------------
(* Requests that arrive.                                                   *)

Accept(r, request) ==
  /\ req[r].pc = "idle" /\ budget.requests > 0
  /\ request.right \/ budget.guesses > 0
  /\ req' = [req EXCEPT ![r] = request]
  /\ budget' = [requests |-> budget.requests - 1, guesses |-> budget.guesses - IF request.right THEN 0 ELSE 1]
  /\ UNCHANGED <<ending, tries, signed, mails>>

Request(kind, d, right) == [NoRequest EXCEPT !.kind = kind, !.dev = d, !.right = right, !.pc = "compare", !.read = fails[Secret(kind)]]

\* POST /login: the account is read, and refused while it is locked.
Login(r, d, right) ==
  /\ account = "open" /\ "login" \notin locked
  /\ Accept(r, Request("login", d, right))

\* requireAuth, then the account is read: POST /unlock, PUT /pin, PUT /password, POST /account/delete.
Authenticated(r, d, kind, right) ==
  /\ Open(holds[d]) /\ Secret(kind) \notin locked
  /\ Accept(r, [Request(kind, d, right) EXCEPT !.session = holds[d]])

\* POST /password-reset: answered at once, the link is made in the background.
AskReset(r, d) ==
  /\ account = "open"
  /\ Accept(r, [Request("ask", d, TRUE) EXCEPT !.pc = "unlink"])

\* POST /password-reset/confirm: a link that is valid, with the code of the adult.
ConfirmReset(r, d, l, right) ==
  /\ account = "open" /\ l \in links /\ "pin" \notin locked
  /\ Accept(r, [Request("confirm", d, right) EXCEPT !.link = l])

\* A request with a session that is not there any more: the device forgets it.
Refused(d) ==
  /\ holds[d] # 0 /\ ~Open(holds[d])
  /\ holds' = [holds EXCEPT ![d] = 0]
  /\ UNCHANGED <<ending, tries, sessions, mails, req, budget>>
----------------------------------------------------------------------------
(* The secret.                                                             *)

Compare(r) ==
  LET s == Secret(req[r].kind)
  IN /\ req[r].pc = "compare"
     /\ IF req[r].right
          THEN To(r, IF req[r].kind = "confirm" THEN "consume" ELSE "reset") /\ UNCHANGED guesses
          ELSE To(r, "count") /\ guesses' = [guesses EXCEPT ![s] = @ + 1]
     /\ UNCHANGED <<ending, fails, locked, signed, mails, budget>>

\* incrementFailedAttempts; the mutant adds to the count that was read before the comparison.
Counted_Read(r, s) == req[r].read + 1
Counted(r, s) == fails[s] + 1
CountFailure(r) ==
  LET s == Secret(req[r].kind)
  IN /\ req[r].pc = "count"
     /\ fails' = [fails EXCEPT ![s] = Counted(r, s)]
     /\ To(r, "counted")
     /\ UNCHANGED <<ending, locked, guesses, signed, mails, budget>>

\* The count is read again, whoever changed it meanwhile: lockUntilAfterFailure.
ReadCount(r) ==
  /\ req[r].pc = "counted"
  /\ IF fails[Secret(req[r].kind)] < FreeAttempts THEN Done(r) ELSE To(r, "lock")
  /\ UNCHANGED <<ending, tries, signed, mails, budget>>

Lock(r) ==
  /\ req[r].pc = "lock"
  /\ locked' = locked \cup {Secret(req[r].kind)}
  /\ Done(r)
  /\ UNCHANGED <<ending, fails, guesses, signed, mails, budget>>

LockEnds(s) ==
  /\ s \in locked
  /\ locked' = locked \ {s}
  /\ guesses' = [guesses EXCEPT ![s] = 0]
  /\ UNCHANGED <<ending, fails, signed, mails, req, budget>>

\* resetAttempts: what the secret of the request resets, and what it goes on with.
Resets(kind) ==
  CASE kind \in {"login", "confirm"} -> Secrets
    [] kind \in {"change", "delete", "pin"} -> {"login"}
    [] kind = "unlock" -> {"pin"}
AfterReset(kind) ==
  CASE kind = "login" -> "open"
    [] kind = "change" -> "others"
    [] kind = "delete" -> "list"
    [] kind = "confirm" -> "signout"
    [] kind \in {"unlock", "pin"} -> kind
ResetAttempts(r) ==
  LET kind == req[r].kind
  IN /\ req[r].pc = "reset"
     /\ fails' = [s \in Secrets |-> IF s \in Resets(kind) THEN 0 ELSE fails[s]]
     /\ guesses' = [s \in Secrets |-> IF s \in Resets(kind) THEN 0 ELSE guesses[s]]
     /\ locked' = locked \ Resets(kind)
     /\ To(r, AfterReset(kind))
     /\ UNCHANGED <<ending, signed, mails, budget>>
----------------------------------------------------------------------------
(* What the requests do once the secret was right.                         *)

Ended(gone) == [s \in DOMAIN sessions |-> IF s \in gone /\ sessions[s] = "open" THEN "ended" ELSE sessions[s]]

\* startSession: the former session of the device ends, the new one needs its account (the row refers to
\* it); the answer may be lost.  Between the two statements the device has no session: nothing else changes.
OpenSession(r) ==
  LET d == req[r].dev
  IN /\ req[r].pc = "open"
     /\ IF account = "deleted" THEN UNCHANGED signed
        ELSE /\ sessions' = Append(Ended({holds[d]}), "open")
             /\ holds' \in {holds, [holds EXCEPT ![d] = Len(sessions) + 1]}
     /\ Done(r)
     /\ UNCHANGED <<ending, tries, mails, budget>>

\* The adult area of the session is open (not modelled).
Unlock(r) ==
  /\ req[r].pc = "unlock"
  /\ Done(r)
  /\ UNCHANGED <<ending, tries, signed, mails, budget>>

\* updatePinHash: the attempts at the former code do not count any more.
NewPin(r) ==
  /\ req[r].pc = "pin"
  /\ fails' = [fails EXCEPT !["pin"] = 0] /\ guesses' = [guesses EXCEPT !["pin"] = 0] /\ locked' = locked \ {"pin"}
  /\ Done(r)
  /\ UNCHANGED <<ending, signed, mails, budget>>

\* PUT /password: the other sessions end.  Reset of the password: all of them.
SignOut(r) ==
  /\ req[r].pc \in {"others", "signout"}
  /\ sessions' = Ended(OpenSessions \ IF req[r].pc = "others" THEN {req[r].session} ELSE {})
  /\ Done(r)
  /\ UNCHANGED <<ending, tries, holds, mails, budget>>

\* createEmailToken: the unused links are deleted, then the new one is inserted.
DropLinks(r) ==
  /\ req[r].pc = "unlink"
  /\ links' = {}
  /\ To(r, "link")
  /\ UNCHANGED <<ending, tries, signed, sent, changes, budget>>

AddLink(r) ==
  /\ req[r].pc = "link"
  /\ IF account = "deleted" THEN UNCHANGED mails
     ELSE sent' = sent + 1 /\ links' = links \cup {sent + 1} /\ changes' = Append(changes, 0)
  /\ Done(r)
  /\ UNCHANGED <<ending, tries, signed, budget>>

\* consumeEmailToken: an update that only an unused link takes.
Unused_Any(l) == TRUE
Unused(l) == l \in links
Consume(r) ==
  /\ req[r].pc = "consume"
  /\ IF Unused(req[r].link) THEN To(r, "change") /\ links' = links \ {req[r].link} ELSE Done(r) /\ UNCHANGED links
  /\ UNCHANGED <<ending, tries, signed, sent, changes, budget>>

\* updatePasswordHash
ChangePassword(r) ==
  /\ req[r].pc = "change"
  /\ changes' = [changes EXCEPT ![req[r].link] = @ + 1]
  /\ To(r, "reset")
  /\ UNCHANGED <<ending, tries, signed, links, sent, budget>>

\* deleteAccount: the sessions are read before the transaction, which removes everything of the family.
ListSessions(r) ==
  /\ req[r].pc = "list"
  /\ req' = [req EXCEPT ![r].pc = "remove", ![r].listed = OpenSessions, ![r].read = Len(sessions)]
  /\ UNCHANGED <<ending, tries, signed, mails, budget>>

Remembered_Others(r) == req[r].listed \ {req[r].session}
Remembered(r) == req[r].listed
RemoveAccount(r) ==
  LET d == req[r].dev
  IN /\ req[r].pc = "remove"
     /\ account' = "deleted"
     /\ closed' = closed \cup Remembered(r)
     /\ known' = IF account = "open" THEN req[r].read ELSE known
     /\ sessions' = [s \in DOMAIN sessions |-> IF sessions[s] = "open" THEN "gone" ELSE sessions[s]]
     /\ holds' \in {holds, [holds EXCEPT ![d] = 0]}
     /\ links' = {}
     /\ Done(r)
     /\ UNCHANGED <<tries, sent, changes, budget>>

\* A session or a link comes to its end; DELETE /sessions/:id and POST /logout end one as well.
EndSession(s) ==
  /\ Open(s)
  /\ sessions' = Ended({s})
  /\ UNCHANGED <<ending, tries, holds, mails, req, budget>>
EndLink(l) ==
  /\ l \in links
  /\ links' = links \ {l}
  /\ UNCHANGED <<ending, tries, signed, sent, changes, req, budget>>
----------------------------------------------------------------------------
Arrives(r) ==
  \E d \in Devices :
    \/ \E right \in BOOLEAN :
         \/ Login(r, d, right)
         \/ \E kind \in {"unlock", "pin", "change", "delete"} : Authenticated(r, d, kind, right)
         \/ \E l \in links : ConfirmReset(r, d, l, right)
    \/ AskReset(r, d)
Step(r) ==
  \/ Compare(r) \/ CountFailure(r) \/ ReadCount(r) \/ Lock(r) \/ ResetAttempts(r)
  \/ OpenSession(r) \/ Unlock(r) \/ NewPin(r) \/ SignOut(r) \/ DropLinks(r) \/ AddLink(r) \/ Consume(r) \/ ChangePassword(r)
  \/ ListSessions(r) \/ RemoveAccount(r)
Next ==
  \/ \E r \in Requests : Arrives(r) \/ Step(r)
  \/ \E d \in Devices : Refused(d)
  \/ \E s \in Secrets : LockEnds(s)
  \/ \E s \in DOMAIN sessions : EndSession(s)
  \/ \E l \in links : EndLink(l)

Spec == Init /\ [][Next]_vars
----------------------------------------------------------------------------
(***************************************************************************)
(* Progressive lock: guesses sent at once gain no more than one attempt    *)
(* for each request in progress, whatever other requests reset meanwhile.  *)
(***************************************************************************)
GuessesBounded == \A s \in Secrets : guesses[s] < FreeAttempts + Cardinality(Requests)

(***************************************************************************)
(* A link changes the password once, also when it is opened twice at once. *)
(***************************************************************************)
LinkUsedOnce == \A l \in DOMAIN changes : changes[l] <= 1

(***************************************************************************)
(* A deletion leaves no session open, also of log-ins that were compared   *)
(* before it; and "an iPad that was switched off while the account was     *)
(* being deleted" is told so: a session that was open when the deletion    *)
(* read the sessions and that the removal ended is remembered.  (One that  *)
(* was opened between the two is ended as well, and its device not told.)  *)
(***************************************************************************)
ToldGone ==
  account = "deleted" =>
    /\ OpenSessions = {}
    /\ \A d \in Devices : holds[d] \in 1 .. known /\ sessions[holds[d]] = "gone" => holds[d] \in closed
=============================================================================
