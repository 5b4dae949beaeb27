-------------------------- MODULE IdentitySessions --------------------------
(***************************************************************************)
(* One account: its password, the links mailed to its owner, its sessions  *)
(* and the proof of its consents (backend/src/modules/identity/            *)
(* application/identity.service.ts, with the retention of                  *)
(* backend/src/worker/registration-retention.ts).                          *)
(*                                                                         *)
(* A command reads some rows outside any transaction, spends time on       *)
(* argon2 and on rate limits, and then opens a transaction that takes the  *)
(* advisory lock of the account, reads again and writes.  Retention, the   *)
(* outbox, logouts and the clock do not take that lock.                    *)
(*                                                                         *)
(* A link is in its owner's hands once it exists: the letter may be late,  *)
(* and so may he.  A password hash is salted, so a new hash differs from   *)
(* every older one: it is a number that counts the changes.  Whoever types *)
(* the right password has typed the one of the hash he is compared with.   *)
(* The proof of consents travels through the outbox, used here by its      *)
(* promise AtLeastOnceDelivery; Idempotency-Keys are the subject of        *)
(* IdempotentCommand.                                                      *)
(***************************************************************************)
EXTENDS Naturals

CONSTANTS
  Requests,       \* HTTP commands in flight, at any API instance
  Documents,      \* consentDocumentTypes
  MaxLinks,       \* bound: rows of auth_tokens ever created
  MaxSessions,    \* bound: rows of sessions ever created
  EventAttempts,  \* attempts the outbox makes before it gives an event up
  MaxTries,       \* bound: attempts of the outbox at one event
  None            \* no request, no link, no session

Links == 1 .. MaxLinks
Sessions == 1 .. MaxSessions

ASSUME IdentityConstants ==
  /\ MaxLinks \in Nat /\ MaxSessions \in Nat
  /\ EventAttempts \in Nat \ {0}
  /\ MaxTries \in Nat /\ MaxTries >= EventAttempts
  /\ None \notin Requests \cup Nat

VARIABLES
  account,        \* accounts.state
  hash,           \* credentials.password_hash
  link,           \* auth_tokens: what became of each row
  purpose,        \* auth_tokens.purpose
  resting,        \* links created within RESEND_COOLDOWN_SECONDS
  session,        \* sessions: what became of each row
  eventStatus, eventTries, eventExecutions, \* outbox of the consent events
  pc,             \* per request: its position
  op,             \* per request: the command
  uses,           \* per request: the link it carries
  cookie,         \* per request: the session of its cookie
  seenHash,       \* per request: the hash it read outside the transaction
  seenAccount,    \* per request: the account state it read there
  holder,         \* the transaction that holds the account's advisory lock
  linkHash,       \* history: the hash each link was created under
  sessionHash     \* history: the hash each session was created under

events == <<eventStatus, eventTries, eventExecutions>>
links == <<link, purpose, resting, linkHash>>
sessions == <<session, sessionHash>>
request == <<pc, op, uses, cookie, seenHash, seenAccount>>
vars == <<account, hash, links, sessions, events, request, holder>>

-----------------------------------------------------------------------------
AccountStates == {"absent", "unverified", "active"}
(* A row that is over has expired, was voided or revoked, or is purged: no  *)
(* command tells these apart.  A link is spent once it has taken effect.   *)
LinkStates == {"absent", "live", "over", "spent"}
SessionStates == {"absent", "open", "over"}
Purposes == {"email_verification", "password_reset"}
Commands == {"login", "verify", "resend", "forgot", "confirm"}

Evidence == INSTANCE AtLeastOnceDelivery WITH
  Deliveries <- Documents, MAX_ATTEMPTS <- EventAttempts, status <- eventStatus,
  tries <- eventTries, executions <- eventExecutions

TypeOK ==
  /\ account \in AccountStates
  /\ hash \in Nat
  /\ link \in [Links -> LinkStates]
  /\ purpose \in [Links -> Purposes]
  /\ resting \subseteq Links
  /\ session \in [Sessions -> SessionStates]
  /\ eventStatus \in [Documents -> {"absent", "owed", "acknowledged", "abandoned", "forgotten"}]
  /\ eventTries \in [Documents -> Nat]
  /\ eventExecutions \in [Documents -> Nat]
  /\ pc \in [Requests -> {"idle", "read", "ready", "same", "checked"}]
  /\ op \in [Requests -> Commands]
  /\ uses \in [Requests -> Links \cup {None}]
  /\ cookie \in [Requests -> Sessions \cup {None}]
  /\ seenHash \in [Requests -> Nat]
  /\ seenAccount \in [Requests -> AccountStates]
  /\ holder \in Requests \cup {None}
  /\ linkHash \in [Links -> Nat]
  /\ sessionHash \in [Sessions -> Nat]

Init ==
  /\ account = "absent" /\ hash = 0
  /\ link = [t \in Links |-> "absent"]
  /\ purpose = [t \in Links |-> "email_verification"]
  /\ resting = {}
  /\ session = [s \in Sessions |-> "absent"]
  /\ Evidence!Init
  /\ pc = [q \in Requests |-> "idle"] /\ op = [q \in Requests |-> "login"]
  /\ uses = [q \in Requests |-> None] /\ cookie = [q \in Requests |-> None]
  /\ seenHash = [q \in Requests |-> 0] /\ seenAccount = [q \in Requests |-> "absent"]
  /\ holder = None
  /\ linkHash = [t \in Links |-> 0] /\ sessionHash = [s \in Sessions |-> 0]

-----------------------------------------------------------------------------
(* Requests.                                                               *)

Goto(q, label) == pc' = [pc EXCEPT ![q] = label]

Begin(q, command, t, c) ==
  /\ pc[q] = "idle"
  /\ account # "absent"
  /\ op' = [op EXCEPT ![q] = command]
  /\ uses' = [uses EXCEPT ![q] = t]
  /\ cookie' = [cookie EXCEPT ![q] = c]
  /\ UNCHANGED <<account, hash, links, sessions, events, holder>>

(* The answer is on its way; nothing the request read matters any more. *)
Answer(q) ==
  /\ Goto(q, "idle")
  /\ op' = [op EXCEPT ![q] = "login"]
  /\ uses' = [uses EXCEPT ![q] = None]
  /\ cookie' = [cookie EXCEPT ![q] = None]
  /\ seenHash' = [seenHash EXCEPT ![q] = 0]
  /\ seenAccount' = [seenAccount EXCEPT ![q] = "absent"]

(* The cookie of a session that is over changes nothing. *)
Cookies == {s \in Sessions : session[s] = "open"} \cup {None}

(* createSession up to argon2.verify, which took this hash for right. *)
StartLogin(q) ==
  \E c \in Cookies :
    /\ Begin(q, "login", None, c)
    /\ seenHash' = [seenHash EXCEPT ![q] = hash]
    /\ UNCHANGED seenAccount
    /\ Goto(q, "ready")

(* verifyEmail up to its transaction: the row is found by its hash. *)
StartVerify(q) ==
  \E t \in Links, c \in Cookies :
    /\ link[t] # "absent" /\ purpose[t] = "email_verification"
    /\ Begin(q, "verify", t, c)
    /\ UNCHANGED <<seenHash, seenAccount>>
    /\ Goto(q, "ready")

(* resendEmailVerification and requestPasswordReset, likewise. *)
StartLetter(q) ==
  \E command \in {"resend", "forgot"} :
    /\ Begin(q, command, None, None)
    /\ seenAccount' = [seenAccount EXCEPT ![q] = account]
    /\ UNCHANGED seenHash
    /\ Goto(q, "ready")

(* confirmPasswordReset reads the token, then the credential. *)
StartConfirm(q) ==
  \E t \in Links :
    /\ purpose[t] = "password_reset" /\ link[t] = "live"
    /\ Begin(q, "confirm", t, None)
    /\ UNCHANGED <<seenHash, seenAccount>>
    /\ Goto(q, "read")

(* "same": argon2.verify finds that the new password is the current one. *)
ReadCredential(q) ==
  /\ pc[q] = "read"
  /\ seenHash' = [seenHash EXCEPT ![q] = hash]
  /\ \E found \in {"ready", "same"} : Goto(q, found)
  /\ UNCHANGED <<account, hash, links, sessions, events, op, uses, cookie, seenAccount, holder>>

-----------------------------------------------------------------------------
(* The first half of each transaction: lock the account and read again.    *)

Usable(q) == uses[q] \in Links /\ link[uses[q]] = "live"

Rested(p) == \A t \in resting : purpose[t] # p

(* Slip: a delivery that is still under way counts as a proof. *)
ProvenUnlessAbandoned == \A d \in Documents : eventStatus[d] \notin {"absent", "abandoned"}

(* completedProofs: deliveries of the consent events that are completed. *)
Proven == \A d \in Documents : eventStatus[d] = "acknowledged"

Verifiable(q) == op[q] = "verify" /\ account = "unverified" /\ Usable(q)

(* Slip: the hash is not compared again under the lock. *)
AcceptsLoginBefore(q) == op[q] = "login"

AcceptsLogin(q) == op[q] = "login" /\ hash = seenHash[q]

AcceptsVerify(q) == Verifiable(q) /\ Proven

AcceptsResend(q) ==
  /\ op[q] = "resend" /\ seenAccount[q] = "unverified"
  /\ account = "unverified" /\ Rested("email_verification")

AcceptsForgot(q) == op[q] = "forgot" /\ Rested("password_reset")

(* Slip: what was read outside the transaction is not read again. *)
AcceptsConfirmBefore(q) == op[q] = "confirm"

AcceptsConfirm(q) == op[q] = "confirm" /\ hash = seenHash[q] /\ Usable(q)

Accepts(q) ==
  \/ AcceptsLogin(q) \/ AcceptsVerify(q)
  \/ AcceptsResend(q) \/ AcceptsForgot(q) \/ AcceptsConfirm(q)

FreeLinks == {t \in Links : link[t] = "absent"}
FreeSessions == {s \in Sessions : session[s] = "absent"}

(* Bound: a row is left for what the transaction will insert. *)
RowLeft(q) ==
  /\ op[q] \in {"login", "verify"} => FreeSessions # {}
  /\ op[q] \in {"resend", "forgot"} => FreeLinks # {}

Check(q) ==
  /\ pc[q] = "ready" /\ holder = None
  /\ Accepts(q) /\ RowLeft(q)
  /\ holder' = q
  /\ Goto(q, "checked")
  /\ UNCHANGED <<account, hash, links, sessions, events, op, uses, cookie, seenHash, seenAccount>>

(* CONSENT_EVIDENCE_UNAVAILABLE: the link stays live for another attempt. *)
RefuseUnproven(q) ==
  /\ pc[q] = "ready" /\ holder = None
  /\ Verifiable(q) /\ ~Proven
  /\ Answer(q)
  /\ UNCHANGED <<account, hash, links, sessions, events, holder>>

(* Every other refusal, PASSWORD_REUSED and the empty 202 included. *)
Refuse(q) ==
  /\ \/ pc[q] = "same"
     \/ pc[q] = "ready" /\ ~Accepts(q) /\ ~Verifiable(q)
  /\ holder = None
  /\ Answer(q)
  /\ UNCHANGED <<account, hash, links, sessions, events, holder>>

(* A statement fails, the process ends, the limiter refuses: rolled back. *)
Fail(q) ==
  /\ pc[q] # "idle"
  /\ Answer(q)
  /\ holder' = IF holder = q THEN None ELSE holder
  /\ UNCHANGED <<account, hash, links, sessions, events>>

-----------------------------------------------------------------------------
(* The second half: write and commit.                                      *)

Done(q) == pc[q] = "checked" /\ holder' = None /\ Answer(q)

(* Slip: the older links are not voided. *)
VoidedNone(p) == link

(* Slip: the links of the other purpose are voided. *)
VoidedOthers(p) ==
  [t \in Links |-> IF purpose[t] # p /\ link[t] = "live" THEN "over" ELSE link[t]]

(* Links of this purpose that nobody consumed are consumed now. *)
Voided(p) ==
  [t \in Links |-> IF purpose[t] = p /\ link[t] = "live" THEN "over" ELSE link[t]]

(* The next row of a table: rows are taken in the order of their numbers. *)
First(free) == {n \in free : \A m \in free : n <= m}

(* A new link, its letter and the end of the older links, all together. *)
CreateLink(p, underHash) ==
  \E t \in First(FreeLinks) :
     /\ link' = [Voided(p) EXCEPT ![t] = "live"]
     /\ purpose' = [purpose EXCEPT ![t] = p]
     /\ resting' = resting \cup {t}
     /\ linkHash' = [linkHash EXCEPT ![t] = underHash]

(* issueSession: rotate the session of the cookie, insert a new one. *)
IssueSession(q, underHash) ==
  \E s \in First(FreeSessions) :
     /\ session' = [r \in Sessions |-> IF r = s THEN "open"
                                       ELSE IF r = cookie[q] THEN "over" ELSE session[r]]
     /\ sessionHash' = [sessionHash EXCEPT ![s] = underHash]

CommitLogin(q) ==
  /\ op[q] = "login" /\ Done(q)
  /\ IssueSession(q, seenHash[q])
  /\ UNCHANGED <<account, hash, links, events>>

(* The conditional update of the token decides; count 0 rolls back. *)
CommitVerify(q) ==
  /\ op[q] = "verify" /\ Done(q)
  /\ IF Usable(q)
     THEN /\ link' = [link EXCEPT ![uses[q]] = "spent"]
          /\ account' = "active"
          /\ IssueSession(q, hash)
     ELSE UNCHANGED <<link, account, sessions>>
  /\ UNCHANGED <<hash, purpose, resting, linkHash, events>>

CommitLetter(q) ==
  /\ Done(q)
  /\ \/ op[q] = "resend" /\ CreateLink("email_verification", hash)
     \/ op[q] = "forgot" /\ CreateLink("password_reset", hash)
  /\ UNCHANGED <<account, hash, sessions, events>>

Revoked == [s \in Sessions |-> IF session[s] = "open" THEN "over" ELSE session[s]]

CommitConfirm(q) ==
  /\ op[q] = "confirm" /\ Done(q)
  /\ hash' = hash + 1
  /\ link' = [Voided("password_reset") EXCEPT ![uses[q]] = "spent"]
  /\ session' = Revoked
  /\ UNCHANGED <<account, purpose, resting, linkHash, sessionHash, events>>

(* register: accounts.email_normalized is unique, so this happens once. *)
Register ==
  /\ account = "absent" /\ FreeLinks # {}
  /\ account' = "unverified"
  /\ hash' = 1
  /\ CreateLink("email_verification", 1)
  /\ eventStatus' = [d \in Documents |-> "owed"]
  /\ UNCHANGED <<sessions, eventTries, eventExecutions, request, holder>>

-----------------------------------------------------------------------------
(* What happens without the account's lock.                                *)

(* deleteCurrentSession (revoked_at IS NULL), or the session expires. *)
EndSession(s) ==
  /\ session[s] = "open"
  /\ session' = [session EXCEPT ![s] = "over"]
  /\ UNCHANGED <<account, hash, links, sessionHash, events, request, holder>>

ExpireLink(t) ==
  /\ link[t] = "live"
  /\ link' = [link EXCEPT ![t] = "over"]
  /\ UNCHANGED <<account, hash, purpose, resting, linkHash, sessions, events, request, holder>>

CoolDown(t) ==
  /\ t \in resting
  /\ resting' = resting \ {t}
  /\ UNCHANGED <<account, hash, link, purpose, linkHash, sessions, events, request, holder>>

(* The outbox brings the consent events to the legal database. *)
Prove(d) ==
  /\ \/ eventTries[d] < MaxTries /\ Evidence!Try(d)
     \/ Evidence!Execute(d)
     \/ Evidence!Settle(d)
  /\ UNCHANGED <<account, hash, links, sessions, request, holder>>

(* COMPLETED_OUTBOX_RETENTION_MS: thirty days after the registration, when *)
(* its own link (7 days at most) is long over; the deliveries go with      *)
(* their events.                                                           *)
PurgeEvents ==
  /\ account # "absent" /\ link[1] # "live" /\ 1 \notin resting
  /\ \E d \in Documents : eventStatus[d] = "acknowledged"
  /\ eventStatus' = [d \in Documents |->
       IF eventStatus[d] = "acknowledged" THEN "forgotten" ELSE eventStatus[d]]
  /\ UNCHANGED <<account, hash, links, sessions, eventTries, eventExecutions, request, holder>>

Clock ==
  \/ \E t \in Links : ExpireLink(t) \/ CoolDown(t)
  \/ PurgeEvents

Start(q) == StartLogin(q) \/ StartVerify(q) \/ StartLetter(q) \/ StartConfirm(q)

Commit(q) == CommitLogin(q) \/ CommitVerify(q) \/ CommitLetter(q) \/ CommitConfirm(q)

Proceed(q) == ReadCredential(q) \/ Check(q) \/ RefuseUnproven(q) \/ Refuse(q) \/ Commit(q)

Next ==
  \/ Register \/ Clock
  \/ \E q \in Requests : Start(q) \/ Proceed(q) \/ Fail(q)
  \/ \E s \in Sessions : EndSession(s)
  \/ \E d \in Documents : Prove(d)

Spec == Init /\ [][Next]_vars

-----------------------------------------------------------------------------
(* A session is open only under the password it was opened with (or the    *)
(* one that was current when its owner verified his address): no login     *)
(* that compared an older hash leaves a session behind a reset.            *)
SessionsFollowPassword ==
  \A s \in Sessions : session[s] = "open" => sessionHash[s] = hash

(* Whatever requests for a letter cross, one link of each purpose can be   *)
(* live, and one letter goes out per cooldown.                             *)
OneLiveLink ==
  \A t, u \in Links :
    link[t] = "live" /\ link[u] = "live" /\ purpose[t] = purpose[u] => t = u

LettersSpaced ==
  \A t, u \in resting : purpose[t] = purpose[u] => t = u

LinksTakeTurns == OneLiveLink /\ LettersSpaced

(* deliverPasswordReset: the worker looks at link and account again before *)
(* it sends a letter, and drops the letter otherwise.                      *)
Deliverable(t) ==
  /\ purpose[t] = "password_reset" /\ link[t] = "live"
  /\ account \in {"active", "unverified"}

(* A live reset link was requested under the current password: no second   *)
(* link can overwrite a password that a reset has just set.  The worker    *)
(* drops no letter whose link would be accepted.                           *)
LinksFollowPassword ==
  \A t \in Links :
    link[t] = "live" /\ purpose[t] = "password_reset"
      => linkHash[t] = hash /\ Deliverable(t)

(* What a link in a mailbox can still do was asked for last, and under the *)
(* password that is current.                                               *)
LinksInForce == LinksTakeTurns /\ LinksFollowPassword

(* Every new password and every activation spends a link of its own, one   *)
(* that was not spent before; what is spent stays spent.  A reset link may *)
(* run out between its check and the commit, a verification link may not.  *)
Spends(t) == link[t] # "spent" /\ link'[t] = "spent"

LinksUsedOnce ==
  [][/\ account # "absent" /\ hash' # hash =>
          \E t \in Links : purpose[t] = "password_reset" /\ Spends(t)
     /\ account = "unverified" /\ account' = "active" =>
          \E t \in Links : purpose[t] = "email_verification" /\ link[t] = "live" /\ Spends(t)
     /\ \A t \in Links : link[t] = "spent" => link'[t] = "spent"]_vars

(* Nobody is active whose consents are not all in the legal database, or   *)
(* without a link from a letter that was spent on it.                      *)
ActiveHasProof ==
  account = "active" =>
    /\ \A d \in Documents : eventExecutions[d] > 0
    /\ \E t \in Links : purpose[t] = "email_verification" /\ link[t] = "spent"

(* A verification is refused for want of proof only while some consent is  *)
(* indeed not confirmed, so that trying again later can succeed.           *)
RefusedOnlyUnproven ==
  [][\A q \in Requests : RefuseUnproven(q) =>
       \E d \in Documents : eventStatus[d] \notin {"acknowledged", "forgotten"}]_vars
=============================================================================
