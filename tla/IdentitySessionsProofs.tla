----------------------- MODULE IdentitySessionsProofs -----------------------
(***************************************************************************)
(* Proofs about IdentitySessions, for any number of requests, documents,   *)
(* links and sessions.                                                     *)
(*                                                                         *)
(* The argument: a transaction past its reads holds the lock (Locked), so  *)
(* what it read still holds when it writes (Justified): the writers that   *)
(* do not take the lock can expire a link, end a session or forget an      *)
(* event, but none of them changes a hash, creates a link or takes an      *)
(* execution back.                                                         *)
(***************************************************************************)
EXTENDS IdentitySessions, TLAPS

Locked == \A q \in Requests : pc[q] = "checked" => holder = q

(* Before the registration there is nothing to ask about. *)
Unregistered ==
  account = "absent" =>
    /\ resting = {}
    /\ \A t \in Links : link[t] # "live"
    /\ \A q \in Requests : pc[q] = "idle"

(* An event is settled well only after the legal database has its row. *)
SettledExecuted ==
  \A d \in Documents :
    eventStatus[d] \in {"acknowledged", "forgotten"} => eventExecutions[d] > 0

(* What a transaction read under the lock, as long as it is open. *)
LoginJustified ==
  \A q \in Requests : pc[q] = "checked" /\ op[q] = "login" => seenHash[q] = hash

ConfirmJustified ==
  \A q \in Requests : pc[q] = "checked" /\ op[q] = "confirm" =>
    uses[q] \in Links /\ link[uses[q]] \in {"live", "over"}

VerifyJustified ==
  \A q \in Requests : pc[q] = "checked" /\ op[q] = "verify" =>
    \A d \in Documents : eventExecutions[d] > 0

LetterJustified ==
  \A q \in Requests : pc[q] = "checked" =>
    /\ op[q] = "resend" => Rested("email_verification")
    /\ op[q] = "forgot" => Rested("password_reset")

LinkHashes ==
  \A t \in Links :
    link[t] = "live" /\ purpose[t] = "password_reset" => linkHash[t] = hash

(* A command carries a link of its own purpose. *)
Fits(t, p) == t \in Links /\ link[t] # "absent" /\ purpose[t] = p

LinksFit ==
  \A q \in Requests :
    /\ op[q] = "verify" => Fits(uses[q], "email_verification")
    /\ op[q] = "confirm" => Fits(uses[q], "password_reset")

IInv ==
  /\ TypeOK /\ Locked /\ Unregistered /\ SettledExecuted /\ LinksFit
  /\ LoginJustified /\ ConfirmJustified /\ VerifyJustified /\ LetterJustified
  /\ SessionsFollowPassword /\ OneLiveLink /\ LettersSpaced
  /\ LinkHashes /\ ActiveHasProof

-----------------------------------------------------------------------------
(* No request and no row is called None.                                   *)
LEMMA NoneIsNobody == None \notin Requests \cup Nat
BY IdentityConstants

(* The requests' variables keep their types, whatever is asked.            *)
LEMMA AnswerTyped ==
  ASSUME TypeOK, NEW q \in Requests, Answer(q)
  PROVE  /\ pc' \in [Requests -> {"idle", "read", "ready", "same", "checked"}]
         /\ op' \in [Requests -> Commands]
         /\ uses' \in [Requests -> Links \cup {None}]
         /\ cookie' \in [Requests -> Sessions \cup {None}]
         /\ seenHash' \in [Requests -> Nat]
         /\ seenAccount' \in [Requests -> AccountStates]
         /\ pc'[q] = "idle"
         /\ \A p \in Requests \ {q} :
              /\ pc'[p] = pc[p] /\ op'[p] = op[p] /\ uses'[p] = uses[p]
              /\ seenHash'[p] = seenHash[p]
BY DEF TypeOK, Answer, Goto, Commands, AccountStates

LEMMA CreateLinkTyped ==
  ASSUME TypeOK, NEW p \in Purposes, NEW h \in Nat, CreateLink(p, h)
  PROVE  /\ link' \in [Links -> LinkStates]
         /\ purpose' \in [Links -> Purposes]
         /\ resting' \subseteq Links
         /\ linkHash' \in [Links -> Nat]
BY DEF TypeOK, CreateLink, Voided, First, FreeLinks, LinkStates

LEMMA IssueSessionTyped ==
  ASSUME TypeOK, NEW q \in Requests, NEW h \in Nat, IssueSession(q, h)
  PROVE  /\ session' \in [Sessions -> SessionStates]
         /\ sessionHash' \in [Sessions -> Nat]
BY DEF TypeOK, IssueSession, First, FreeSessions, SessionStates

LEMMA BeginTyped ==
  ASSUME TypeOK, NEW q \in Requests, Start(q)
  PROVE  TypeOK'
<1>1. CASE StartLogin(q)
  BY <1>1 DEF TypeOK, StartLogin, Begin, Goto, Cookies, Commands, AccountStates, links, sessions, events
<1>2. CASE StartVerify(q)
  BY <1>2 DEF TypeOK, StartVerify, Begin, Goto, Cookies, Commands, AccountStates, links, sessions, events
<1>3. CASE StartLetter(q)
  BY <1>3 DEF TypeOK, StartLetter, Begin, Goto, Cookies, Commands, AccountStates, links, sessions, events
<1>4. CASE StartConfirm(q)
  BY <1>4 DEF TypeOK, StartConfirm, Begin, Goto, Cookies, Commands, AccountStates, links, sessions, events
<1>5. QED
  BY <1>1, <1>2, <1>3, <1>4 DEF Start

LEMMA TypeStep ==
  ASSUME TypeOK, [Next]_vars
  PROVE  TypeOK'
<1>0. CASE UNCHANGED vars
  BY <1>0 DEF TypeOK, vars, links, sessions, events, request
<1>1. CASE Register
  <2>1. "email_verification" \in Purposes /\ 1 \in Nat
    BY DEF Purposes
  <2>2. QED
    BY <1>1, <2>1, CreateLinkTyped DEF TypeOK, Register, AccountStates, sessions, request
<1>2. CASE Clock
  <2>1. CASE \E t \in Links : ExpireLink(t) \/ CoolDown(t)
    BY <2>1 DEF TypeOK, ExpireLink, CoolDown, LinkStates, sessions, events, request
  <2>2. CASE PurgeEvents
    BY <2>2 DEF TypeOK, PurgeEvents, links, sessions, request
  <2>3. QED
    BY <1>2, <2>1, <2>2 DEF Clock
<1>3. ASSUME NEW q \in Requests, Start(q) PROVE TypeOK'
  BY <1>3, BeginTyped
<1>4. ASSUME NEW q \in Requests, ReadCredential(q) \/ Check(q) PROVE TypeOK'
  BY <1>4 DEF TypeOK, ReadCredential, Check, Goto, links, sessions, events
<1>5. ASSUME NEW q \in Requests, RefuseUnproven(q) \/ Refuse(q) \/ Fail(q) PROVE TypeOK'
  BY <1>5, AnswerTyped DEF TypeOK, RefuseUnproven, Refuse, Fail, links, sessions, events
<1>6. ASSUME NEW q \in Requests, CommitLogin(q) PROVE TypeOK'
  <2>1. seenHash[q] \in Nat
    BY DEF TypeOK
  <2>2. QED
    BY <1>6, <2>1, AnswerTyped, IssueSessionTyped DEF TypeOK, CommitLogin, Done, links, events
<1>7. ASSUME NEW q \in Requests, CommitVerify(q) PROVE TypeOK'
  <2>1. /\ session' \in [Sessions -> SessionStates]
        /\ sessionHash' \in [Sessions -> Nat]
        /\ link' \in [Links -> LinkStates]
        /\ account' \in AccountStates
    BY <1>7, IssueSessionTyped DEF TypeOK, CommitVerify, LinkStates, AccountStates, sessions
  <2>2. QED
    BY <1>7, <2>1, AnswerTyped DEF TypeOK, CommitVerify, Done, events
<1>8. ASSUME NEW q \in Requests, CommitLetter(q) PROVE TypeOK'
  <2>1. hash \in Nat /\ "email_verification" \in Purposes /\ "password_reset" \in Purposes
    BY DEF TypeOK, Purposes
  <2>2. QED
    BY <1>8, <2>1, AnswerTyped, CreateLinkTyped DEF TypeOK, CommitLetter, Done, sessions, events
<1>9. ASSUME NEW q \in Requests, CommitConfirm(q) PROVE TypeOK'
  <2>1. Voided("password_reset") \in [Links -> LinkStates]
    BY DEF TypeOK, Voided, LinkStates
  <2>2. link' \in [Links -> LinkStates]
    BY <1>9, <2>1 DEF CommitConfirm, LinkStates
  <2>3. session' \in [Sessions -> SessionStates]
    BY <1>9 DEF TypeOK, CommitConfirm, Revoked, SessionStates
  <2>4. hash' \in Nat
    BY <1>9 DEF TypeOK, CommitConfirm
  <2>5. QED
    BY <1>9, <2>2, <2>3, <2>4, AnswerTyped DEF TypeOK, CommitConfirm, Done, events
<1>10. ASSUME NEW s \in Sessions, EndSession(s) PROVE TypeOK'
  BY <1>10 DEF TypeOK, EndSession, SessionStates, links, events, request
<1>11. ASSUME NEW d \in Documents, Prove(d) PROVE TypeOK'
  BY <1>11 DEF TypeOK, Prove, Evidence!Try, Evidence!Execute, Evidence!Settle,
               Evidence!Acknowledge, Evidence!GiveUp, links, sessions, request
<1>12. QED
  BY <1>0, <1>1, <1>2, <1>3, <1>4, <1>5, <1>6, <1>7, <1>8, <1>9, <1>10, <1>11
     DEF Next, Proceed, Commit

-----------------------------------------------------------------------------
(* What the others can do to a transaction that holds the lock: nothing    *)
(* but let a link expire and send an event.                                *)
Undisturbed(p) ==
  /\ pc[p] = "checked"
  /\ op'[p] = op[p] /\ uses'[p] = uses[p] /\ seenHash'[p] = seenHash[p]
  /\ hash' = hash /\ account' = account /\ purpose' = purpose
  /\ resting' \subseteq resting
  /\ \A t \in Links : link'[t] = link[t] \/ (link[t] = "live" /\ link'[t] = "over")
  /\ \A d \in Documents : eventExecutions'[d] >= eventExecutions[d]

(* Nobody else is past its reads when a transaction ends. *)
LEMMA AloneInside ==
  ASSUME TypeOK, Locked, NEW q \in Requests, pc[q] = "checked", Answer(q), NEW p \in Requests
  PROVE  pc'[p] # "checked"
BY AnswerTyped DEF Locked

LEMMA Held ==
  ASSUME TypeOK, Locked, Unregistered, [Next]_vars, NEW p \in Requests, pc'[p] = "checked"
  PROVE  Check(p) \/ Undisturbed(p)
<1>a. \A d \in Documents : eventExecutions[d] \in Nat
  BY DEF TypeOK
<1>b. \A d \in Documents : eventExecutions[d] >= eventExecutions[d]
  BY <1>a
<1>0. CASE UNCHANGED vars
  BY <1>0, <1>b DEF Undisturbed, vars, links, events, request
<1>1. CASE Register
  BY <1>1 DEF Register, Unregistered, request
<1>2. CASE Clock
  <2>1. CASE \E t \in Links : ExpireLink(t) \/ CoolDown(t)
    BY <2>1, <1>b DEF TypeOK, Undisturbed, ExpireLink, CoolDown, sessions, events, request
  <2>2. CASE PurgeEvents
    BY <2>2, <1>b DEF Undisturbed, PurgeEvents, links, request
  <2>3. QED
    BY <1>2, <2>1, <2>2 DEF Clock
<1>3. ASSUME NEW q \in Requests, Start(q) PROVE Undisturbed(p)
  <2>1. /\ pc[q] = "idle" /\ pc'[q] # "checked"
        /\ \A r \in Requests \ {q} :
             /\ pc'[r] = pc[r] /\ op'[r] = op[r] /\ uses'[r] = uses[r]
             /\ seenHash'[r] = seenHash[r]
        /\ UNCHANGED <<account, hash, links, events>>
    BY <1>3 DEF TypeOK, Start, StartLogin, StartVerify, StartLetter, StartConfirm, Begin, Goto
  <2>2. QED
    BY <2>1, <1>b DEF Undisturbed, links, events
<1>4. ASSUME NEW q \in Requests, ReadCredential(q) PROVE Undisturbed(p)
  BY <1>4, <1>b DEF TypeOK, Undisturbed, ReadCredential, Goto, links, events
<1>5. ASSUME NEW q \in Requests, Check(q) PROVE Check(p) \/ Undisturbed(p)
  <2>1. CASE p = q
    BY <2>1, <1>5
  <2>2. CASE p # q
    BY <2>2, <1>5, <1>b DEF TypeOK, Undisturbed, Check, Goto, links, events
  <2>3. QED
    BY <2>1, <2>2
<1>6. ASSUME NEW q \in Requests, RefuseUnproven(q) \/ Refuse(q) \/ Fail(q) PROVE Undisturbed(p)
  <2>1. Answer(q) /\ UNCHANGED <<account, hash, links, events>>
    BY <1>6 DEF RefuseUnproven, Refuse, Fail
  <2>2. QED
    BY <2>1, <1>b, AnswerTyped DEF Undisturbed, links, events
<1>7. ASSUME NEW q \in Requests, Commit(q) PROVE FALSE
  <2>1. Done(q)
    BY <1>7 DEF Commit, CommitLogin, CommitVerify, CommitLetter, CommitConfirm
  <2>2. QED
    BY <2>1, AloneInside DEF Done
<1>8. ASSUME NEW s \in Sessions, EndSession(s) PROVE Undisturbed(p)
  BY <1>8, <1>b DEF Undisturbed, EndSession, links, events, request
<1>9. ASSUME NEW d \in Documents, Prove(d) PROVE Undisturbed(p)
  <2>1. \A e \in Documents : eventExecutions'[e] >= eventExecutions[e]
    BY <1>9, <1>a DEF TypeOK, Prove, Evidence!Try, Evidence!Execute, Evidence!Settle,
                      Evidence!Acknowledge, Evidence!GiveUp
  <2>2. QED
    BY <1>9, <2>1 DEF Undisturbed, Prove, links, request
<1>10. QED
  BY <1>0, <1>1, <1>2, <1>3, <1>4, <1>5, <1>6, <1>7, <1>8, <1>9 DEF Next, Proceed

(* The lock is held by whoever is past its reads.                          *)
LEMMA LockedStep ==
  ASSUME TypeOK, Locked, Unregistered, [Next]_vars
  PROVE  Locked'
<1>1. SUFFICES ASSUME NEW p \in Requests, pc'[p] = "checked" PROVE holder' = p
  BY DEF Locked
<1>2. CASE Check(p)
  BY <1>2 DEF Check
<1>3. CASE ~Check(p)
  <2>1. Undisturbed(p) /\ holder = p
    BY <1>1, <1>3, Held DEF Undisturbed, Locked
  <2>2. ASSUME NEW q \in Requests, Fail(q) PROVE holder' = p
    BY <2>2, <2>1, <1>1, AnswerTyped DEF Fail
  <2>3. ASSUME NEW q \in Requests, Commit(q) PROVE FALSE
    <3>1. Done(q)
      BY <2>3 DEF Commit, CommitLogin, CommitVerify, CommitLetter, CommitConfirm
    <3>2. QED
      BY <3>1, <1>1, AloneInside DEF Done
  <2>4. ASSUME NEW q \in Requests, Start(q) \/ ReadCredential(q) \/ Check(q) \/ RefuseUnproven(q) \/ Refuse(q)
        PROVE holder' = p
    BY <2>4, <2>1, NoneIsNobody DEF Start, StartLogin, StartVerify, StartLetter, StartConfirm, Begin,
         ReadCredential, Check, RefuseUnproven, Refuse
  <2>5. QED
    BY <2>1, <2>2, <2>3, <2>4 DEF Next, Proceed, Clock, Register, ExpireLink, CoolDown, PurgeEvents,
         EndSession, Prove, vars, links
<1>4. QED
  BY <1>2, <1>3

LEMMA UnregisteredStep ==
  ASSUME TypeOK, Unregistered, [Next]_vars
  PROVE  Unregistered'
<1>1. SUFFICES ASSUME account' = "absent"
               PROVE  /\ resting' = {}
                      /\ \A t \in Links : link'[t] # "live"
                      /\ \A q \in Requests : pc'[q] = "idle"
  BY DEF Unregistered
<1>2. CASE account = "absent"
  <2>1. /\ resting = {}
        /\ \A t \in Links : link[t] # "live"
        /\ \A q \in Requests : pc[q] = "idle"
    BY <1>2 DEF Unregistered
  <2>2. ASSUME NEW q \in Requests, Start(q) \/ Proceed(q) \/ Fail(q) PROVE FALSE
    BY <2>1, <2>2, <1>2 DEF Start, StartLogin, StartVerify, StartLetter, StartConfirm, Begin,
         Proceed, ReadCredential, Check, RefuseUnproven, Refuse, Fail,
         Commit, CommitLogin, CommitVerify, CommitLetter, CommitConfirm, Done
  <2>3. resting' = {} /\ UNCHANGED <<link, pc>>
    BY <1>1, <1>2, <2>1, <2>2 DEF Next, Clock, Register, ExpireLink, CoolDown, PurgeEvents,
         EndSession, Prove, vars, links, request
  <2>4. QED
    BY <2>1, <2>3
<1>3. CASE account # "absent"
  BY <1>1, <1>3 DEF Next, Clock, Register, ExpireLink, CoolDown, PurgeEvents, EndSession, Prove,
       Start, StartLogin, StartVerify, StartLetter, StartConfirm, Begin,
       Proceed, ReadCredential, Check, RefuseUnproven, Refuse, Fail,
       Commit, CommitLogin, CommitVerify, CommitLetter, CommitConfirm, vars
<1>4. QED
  BY <1>2, <1>3

(* An event is acknowledged only after an execution, and none is undone.   *)
LEMMA EventsStep ==
  ASSUME TypeOK, [Next]_vars
  PROVE  \/ UNCHANGED events
         \/ Register
         \/ PurgeEvents
         \/ \E d \in Documents : Prove(d)
BY DEF Next, Clock, ExpireLink, CoolDown, EndSession,
       Start, StartLogin, StartVerify, StartLetter, StartConfirm, Begin,
       Proceed, ReadCredential, Check, RefuseUnproven, Refuse, Fail,
       Commit, CommitLogin, CommitVerify, CommitLetter, CommitConfirm, vars

LEMMA ExecutionsStay ==
  ASSUME TypeOK, [Next]_vars, NEW d \in Documents, eventExecutions[d] > 0
  PROVE  eventExecutions'[d] > 0
<1>1. CASE UNCHANGED events \/ Register \/ PurgeEvents
  BY <1>1 DEF events, Register, PurgeEvents
<1>2. ASSUME NEW e \in Documents, Prove(e) PROVE eventExecutions'[d] > 0
  BY <1>2 DEF TypeOK, Prove, Evidence!Try, Evidence!Execute, Evidence!Settle,
              Evidence!Acknowledge, Evidence!GiveUp
<1>3. QED
  BY <1>1, <1>2, EventsStep

LEMMA SettledExecutedStep ==
  ASSUME TypeOK, SettledExecuted, [Next]_vars
  PROVE  SettledExecuted'
<1>1. SUFFICES ASSUME NEW d \in Documents, eventStatus'[d] \in {"acknowledged", "forgotten"}
               PROVE  eventExecutions'[d] > 0
  BY DEF SettledExecuted
<1>2. CASE UNCHANGED events
  BY <1>1, <1>2 DEF SettledExecuted, events
<1>3. CASE Register
  BY <1>1, <1>3 DEF Register
<1>4. CASE PurgeEvents
  BY <1>1, <1>4 DEF SettledExecuted, PurgeEvents
<1>5. ASSUME NEW e \in Documents, Prove(e) PROVE eventExecutions'[d] > 0
  <2>1. \/ eventStatus'[d] = eventStatus[d]
        \/ eventExecutions[d] > 0
    BY <1>1, <1>5 DEF TypeOK, Prove, Evidence!Try, Evidence!Execute, Evidence!Settle,
                      Evidence!Acknowledge, Evidence!GiveUp
  <2>2. eventExecutions[d] > 0
    BY <1>1, <2>1 DEF SettledExecuted
  <2>3. QED
    BY <2>2, ExecutionsStay
<1>6. QED
  BY <1>2, <1>3, <1>4, <1>5, EventsStep

-----------------------------------------------------------------------------
(* The row of a link keeps its purpose, and what is spent stays spent.     *)
LEMMA RowsStay ==
  ASSUME TypeOK, [Next]_vars, NEW t \in Links, link[t] # "absent"
  PROVE  purpose'[t] = purpose[t] /\ link'[t] # "absent" /\ (link[t] = "spent" => link'[t] = "spent")
<1> DEFINE Goal == /\ purpose'[t] = purpose[t] /\ link'[t] # "absent"
                   /\ (link[t] = "spent" => link'[t] = "spent")
<1>1. ASSUME NEW p \in Purposes, NEW h \in Nat, CreateLink(p, h) PROVE Goal
  BY <1>1 DEF TypeOK, CreateLink, Voided, First, FreeLinks
<1>2. ASSUME NEW q \in Requests, CommitLetter(q) PROVE Goal
  BY <1>1, <1>2 DEF CommitLetter, TypeOK, Purposes
<1>3. CASE Register
  BY <1>1, <1>3 DEF Register, Purposes
<1>4. ASSUME NEW q \in Requests, CommitVerify(q) \/ CommitConfirm(q) PROVE Goal
  BY <1>4 DEF TypeOK, CommitVerify, CommitConfirm, Voided
<1>5. CASE Clock
  BY <1>5 DEF TypeOK, Clock, ExpireLink, CoolDown, PurgeEvents, links
<1>6. CASE UNCHANGED links
  BY <1>6 DEF links
<1>7. QED
  BY <1>2, <1>3, <1>4, <1>5, <1>6 DEF Next, EndSession, Prove,
     Start, StartLogin, StartVerify, StartLetter, StartConfirm, Begin,
     Proceed, ReadCredential, Check, RefuseUnproven, Refuse, Fail, Commit, CommitLogin, vars

(* The link of a request changes only when the request begins or ends.     *)
LEMMA UsesMove ==
  ASSUME TypeOK, [Next]_vars, NEW q \in Requests
  PROVE  \/ op'[q] = op[q] /\ uses'[q] = uses[q]
         \/ op'[q] \in {"login", "resend", "forgot"}
         \/ op'[q] = "verify" /\ Fits(uses'[q], "email_verification")
         \/ op'[q] = "confirm" /\ Fits(uses'[q], "password_reset")
<1> DEFINE Goal == \/ op'[q] = op[q] /\ uses'[q] = uses[q]
                   \/ op'[q] \in {"login", "resend", "forgot"}
                   \/ op'[q] = "verify" /\ Fits(uses'[q], "email_verification")
                   \/ op'[q] = "confirm" /\ Fits(uses'[q], "password_reset")
<1>1. ASSUME NEW r \in Requests, Answer(r) PROVE Goal
  BY <1>1 DEF TypeOK, Answer
<1>2. ASSUME NEW r \in Requests, StartLogin(r) \/ StartLetter(r) PROVE Goal
  BY <1>2 DEF TypeOK, StartLogin, StartLetter, Begin
<1>3. ASSUME NEW r \in Requests, StartVerify(r) PROVE Goal
  BY <1>3 DEF TypeOK, StartVerify, Begin, Fits
<1>4. ASSUME NEW r \in Requests, StartConfirm(r) PROVE Goal
  BY <1>4 DEF TypeOK, StartConfirm, Begin, Fits
<1>5. CASE UNCHANGED <<op, uses>>
  BY <1>5
<1>6. QED
  BY <1>1, <1>2, <1>3, <1>4, <1>5 DEF Next, Clock, Register, ExpireLink, CoolDown, PurgeEvents,
     EndSession, Prove, Start, Proceed, ReadCredential, Check, RefuseUnproven, Refuse, Fail,
     Commit, CommitLogin, CommitVerify, CommitLetter, CommitConfirm, Done, vars, request

LEMMA LinksFitStep ==
  ASSUME TypeOK, LinksFit, [Next]_vars
  PROVE  LinksFit'
<1>1. ASSUME NEW t, NEW p, Fits(t, p)
      PROVE  t \in Links /\ link'[t] # "absent" /\ purpose'[t] = p
  BY <1>1, RowsStay DEF Fits
<1>2. ASSUME NEW q \in Requests, op'[q] = "verify"
      PROVE  Fits(uses[q], "email_verification")'
  <2>1. Fits(uses'[q], "email_verification")
    BY <1>2, UsesMove DEF LinksFit
  <2> QED
    BY <1>1, <2>1 DEF Fits
<1>3. ASSUME NEW q \in Requests, op'[q] = "confirm"
      PROVE  Fits(uses[q], "password_reset")'
  <2>1. Fits(uses'[q], "password_reset")
    BY <1>3, UsesMove DEF LinksFit
  <2> QED
    BY <1>1, <2>1 DEF Fits
<1> QED
  BY <1>2, <1>3 DEF LinksFit

-----------------------------------------------------------------------------
(* What was read under the lock holds until the transaction ends.          *)
LEMMA JustifiedStep ==
  ASSUME IInv, [Next]_vars
  PROVE  LoginJustified' /\ ConfirmJustified' /\ VerifyJustified' /\ LetterJustified'
<1>0. TypeOK /\ Locked /\ Unregistered
  BY DEF IInv
<1>1. ASSUME NEW p \in Requests, pc'[p] = "checked", op'[p] = "login"
      PROVE  seenHash'[p] = hash'
  <2>1. CASE Check(p)
    BY <2>1, <1>1 DEF Check, Accepts, AcceptsLogin, AcceptsVerify, AcceptsResend,
                      AcceptsForgot, AcceptsConfirm, Verifiable
  <2>2. CASE Undisturbed(p)
    BY <2>2, <1>1 DEF Undisturbed, IInv, LoginJustified
  <2>3. QED
    BY <2>1, <2>2, <1>0, <1>1, Held
<1>2. ASSUME NEW p \in Requests, pc'[p] = "checked", op'[p] = "confirm"
      PROVE  uses'[p] \in Links /\ link'[uses'[p]] \in {"live", "over"}
  <2>1. CASE Check(p)
    BY <2>1, <1>2 DEF Check, Accepts, AcceptsLogin, AcceptsVerify, AcceptsResend,
                      AcceptsForgot, AcceptsConfirm, Verifiable, Usable, links
  <2>2. CASE Undisturbed(p)
    BY <2>2, <1>2 DEF Undisturbed, IInv, ConfirmJustified
  <2>3. QED
    BY <2>1, <2>2, <1>0, <1>2, Held
<1>3. ASSUME NEW p \in Requests, pc'[p] = "checked", op'[p] = "verify", NEW d \in Documents
      PROVE  eventExecutions'[d] > 0
  <2>1. CASE Check(p)
    <3>1. Proven
      BY <2>1, <1>3 DEF Check, Accepts, AcceptsLogin, AcceptsVerify, AcceptsResend,
                        AcceptsForgot, AcceptsConfirm
    <3>2. QED
      BY <3>1, ExecutionsStay, <1>0 DEF Proven, IInv, SettledExecuted
  <2>2. CASE Undisturbed(p)
    BY <2>2, <1>0, <1>3, ExecutionsStay DEF Undisturbed, IInv, VerifyJustified
  <2>3. QED
    BY <2>1, <2>2, <1>0, <1>3, Held
<1>4. ASSUME NEW p \in Requests, pc'[p] = "checked"
      PROVE  /\ op'[p] = "resend" => Rested("email_verification")'
             /\ op'[p] = "forgot" => Rested("password_reset")'
  <2>1. CASE Check(p)
    BY <2>1 DEF Check, Accepts, AcceptsLogin, AcceptsVerify, AcceptsResend,
                AcceptsForgot, AcceptsConfirm, Verifiable, Rested, links
  <2>2. CASE Undisturbed(p)
    BY <2>2, <1>4 DEF Undisturbed, IInv, LetterJustified, Rested
  <2>3. QED
    BY <2>1, <2>2, <1>0, <1>4, Held
<1>5. QED
  BY <1>1, <1>2, <1>3, <1>4 DEF LoginJustified, ConfirmJustified, VerifyJustified, LetterJustified

-----------------------------------------------------------------------------
(* Rows of links: they are created, voided by a reset, or they only end.   *)
OnlyEnds ==
  /\ purpose' = purpose /\ linkHash' = linkHash /\ hash' = hash
  /\ resting' \subseteq resting
  /\ \A t \in Links : link'[t] = "live" => link[t] = "live"

Creates(p) ==
  /\ CreateLink(p, hash')
  /\ hash' = hash \/ (account = "absent" /\ p = "email_verification")

LEMMA LinksMove ==
  ASSUME TypeOK, [Next]_vars
  PROVE  \/ OnlyEnds
         \/ \E q \in Requests : CommitConfirm(q)
         \/ Creates("email_verification") /\ Register
         \/ \E q \in Requests : op[q] = "resend" /\ pc[q] = "checked" /\ Creates("email_verification")
         \/ \E q \in Requests : op[q] = "forgot" /\ pc[q] = "checked" /\ Creates("password_reset")
<1>0. CASE UNCHANGED vars
  BY <1>0 DEF OnlyEnds, vars, links
<1>1. CASE Register
  BY <1>1 DEF Register, Creates
<1>2. CASE Clock
  BY <1>2 DEF TypeOK, OnlyEnds, Clock, ExpireLink, CoolDown, PurgeEvents, links
<1>3. ASSUME NEW q \in Requests, CommitVerify(q) PROVE OnlyEnds
  BY <1>3 DEF TypeOK, OnlyEnds, CommitVerify
<1>4. ASSUME NEW q \in Requests, CommitLetter(q)
      PROVE  \/ op[q] = "resend" /\ pc[q] = "checked" /\ Creates("email_verification")
             \/ op[q] = "forgot" /\ pc[q] = "checked" /\ Creates("password_reset")
  BY <1>4 DEF CommitLetter, Done, Creates
<1>5. ASSUME NEW q \in Requests, Start(q) \/ ReadCredential(q) \/ Check(q) \/ RefuseUnproven(q)
                                 \/ Refuse(q) \/ Fail(q) \/ CommitLogin(q)
      PROVE  OnlyEnds
  BY <1>5 DEF OnlyEnds, links, Start, StartLogin, StartVerify, StartLetter, StartConfirm, Begin,
       ReadCredential, Check, RefuseUnproven, Refuse, Fail, CommitLogin
<1>6. ASSUME NEW s \in Sessions, EndSession(s) PROVE OnlyEnds
  BY <1>6 DEF OnlyEnds, EndSession, links
<1>7. ASSUME NEW d \in Documents, Prove(d) PROVE OnlyEnds
  BY <1>7 DEF OnlyEnds, Prove, links
<1>8. QED
  BY <1>0, <1>1, <1>2, <1>3, <1>4, <1>5, <1>6, <1>7 DEF Next, Proceed, Commit

(* A created link is the only live one of its purpose.                     *)
LEMMA CreatedAlone ==
  ASSUME TypeOK, NEW p \in Purposes, Creates(p)
  PROVE  \E t \in Links :
           /\ link[t] = "absent" /\ link'[t] = "live" /\ purpose'[t] = p /\ linkHash'[t] = hash'
           /\ resting' = resting \cup {t}
           /\ \A u \in Links \ {t} :
                /\ purpose'[u] = purpose[u] /\ linkHash'[u] = linkHash[u]
                /\ link'[u] = "live" => link[u] = "live" /\ purpose[u] # p
<1>1. PICK t \in First(FreeLinks) :
        /\ link' = [Voided(p) EXCEPT ![t] = "live"]
        /\ purpose' = [purpose EXCEPT ![t] = p]
        /\ resting' = resting \cup {t}
        /\ linkHash' = [linkHash EXCEPT ![t] = hash']
  BY DEF Creates, CreateLink
<1>2. t \in Links /\ link[t] = "absent"
  BY DEF First, FreeLinks
<1>3. /\ link'[t] = "live" /\ purpose'[t] = p /\ linkHash'[t] = hash'
      /\ \A u \in Links \ {t} :
           /\ purpose'[u] = purpose[u] /\ linkHash'[u] = linkHash[u]
           /\ link'[u] = "live" => link[u] = "live" /\ purpose[u] # p
  BY <1>1, <1>2 DEF TypeOK, Voided
<1>4. QED
  BY <1>1, <1>2, <1>3

(* After a reset no reset link is live.                                    *)
LEMMA ResetVoids ==
  ASSUME TypeOK, NEW q \in Requests, CommitConfirm(q)
  PROVE  /\ purpose' = purpose /\ linkHash' = linkHash /\ resting' = resting
         /\ \A t \in Links : link'[t] = "live" => link[t] = "live" /\ purpose[t] # "password_reset"
BY DEF TypeOK, CommitConfirm, Voided

LEMMA LinksStep ==
  ASSUME IInv, [Next]_vars
  PROVE  OneLiveLink' /\ LettersSpaced' /\ LinkHashes'
<1>0. TypeOK /\ Unregistered /\ LetterJustified /\ OneLiveLink /\ LettersSpaced /\ LinkHashes
      /\ "email_verification" \in Purposes /\ "password_reset" \in Purposes
  BY DEF IInv, Purposes
<1>1. CASE OnlyEnds
  <2>1. OneLiveLink'
    BY <1>0, <1>1 DEF OnlyEnds, OneLiveLink
  <2>2. LettersSpaced'
    BY <1>0, <1>1 DEF OnlyEnds, LettersSpaced
  <2>3. LinkHashes'
    BY <1>0, <1>1 DEF OnlyEnds, LinkHashes
  <2>4. QED
    BY <2>1, <2>2, <2>3
<1>2. ASSUME NEW q \in Requests, CommitConfirm(q)
      PROVE  OneLiveLink' /\ LettersSpaced' /\ LinkHashes'
  BY <1>0, <1>2, ResetVoids DEF OneLiveLink, LettersSpaced, LinkHashes
<1>3. ASSUME NEW p \in Purposes, Creates(p), Rested(p)
      PROVE  OneLiveLink' /\ LettersSpaced' /\ LinkHashes'
  <2>1. PICK t \in Links :
           /\ link[t] = "absent" /\ link'[t] = "live" /\ purpose'[t] = p /\ linkHash'[t] = hash'
           /\ resting' = resting \cup {t}
           /\ \A u \in Links \ {t} :
                /\ purpose'[u] = purpose[u] /\ linkHash'[u] = linkHash[u]
                /\ link'[u] = "live" => link[u] = "live" /\ purpose[u] # p
    BY <1>0, <1>3, CreatedAlone
  <2>2. OneLiveLink'
    BY <1>0, <2>1 DEF OneLiveLink
  <2>3. LettersSpaced'
    BY <1>0, <1>3, <2>1 DEF LettersSpaced, Rested, TypeOK
  <2>4. CASE hash' = hash
    BY <1>0, <2>1, <2>2, <2>3, <2>4 DEF LinkHashes
  <2>5. CASE account = "absent"
    BY <1>0, <2>1, <2>2, <2>3, <2>5 DEF LinkHashes, Unregistered
  <2>6. QED
    BY <1>3, <2>4, <2>5 DEF Creates
<1>4. ASSUME Register PROVE Rested("email_verification")
  BY <1>0, <1>4 DEF Register, Unregistered, Rested
<1>5. QED
  BY <1>0, <1>1, <1>2, <1>3, <1>4, LinksMove DEF LetterJustified

-----------------------------------------------------------------------------
(* Rows of sessions: one is issued, all are revoked, or they only end.     *)
Issues(q) ==
  /\ pc[q] = "checked" /\ hash' = hash
  /\ \/ op[q] = "login" /\ IssueSession(q, seenHash[q])
     \/ op[q] = "verify" /\ IssueSession(q, hash)

LEMMA SessionsMove ==
  ASSUME TypeOK, [Next]_vars
  PROVE  \/ UNCHANGED <<sessions, hash>>
         \/ \E s \in Sessions : EndSession(s)
         \/ Register
         \/ \E q \in Requests : CommitConfirm(q)
         \/ \E q \in Requests : Issues(q)
<1>1. ASSUME NEW q \in Requests, CommitLogin(q) PROVE Issues(q)
  BY <1>1 DEF CommitLogin, Done, Issues
<1>2. ASSUME NEW q \in Requests, CommitVerify(q) PROVE Issues(q) \/ UNCHANGED <<sessions, hash>>
  BY <1>2 DEF CommitVerify, Done, Issues
<1>3. QED
  BY <1>1, <1>2 DEF Next, Clock, ExpireLink, CoolDown, PurgeEvents, Prove,
       Start, StartLogin, StartVerify, StartLetter, StartConfirm, Begin,
       Proceed, ReadCredential, Check, RefuseUnproven, Refuse, Fail, Commit, CommitLetter, vars

(* Before the registration nobody has a session.                           *)
NoSessionYet == account = "absent" => \A s \in Sessions : session[s] # "open"

LEMMA NoSessionYetStep ==
  ASSUME TypeOK, Unregistered, NoSessionYet, [Next]_vars
  PROVE  NoSessionYet'
<1>1. SUFFICES ASSUME account' = "absent", NEW s \in Sessions PROVE session'[s] # "open"
  BY DEF NoSessionYet
<1>2. account = "absent"
  BY <1>1 DEF TypeOK, Next, Clock, Register, ExpireLink, CoolDown, PurgeEvents, EndSession, Prove,
       Start, StartLogin, StartVerify, StartLetter, StartConfirm, Begin,
       Proceed, ReadCredential, Check, RefuseUnproven, Refuse, Fail,
       Commit, CommitLogin, CommitVerify, CommitLetter, CommitConfirm, vars
<1>3. session[s] # "open" /\ \A q \in Requests : pc[q] = "idle"
  BY <1>2 DEF NoSessionYet, Unregistered
<1>4. QED
  BY <1>1, <1>3, SessionsMove DEF TypeOK, EndSession, Register, CommitConfirm, Done, Issues, sessions

LEMMA SessionsStep ==
  ASSUME IInv, NoSessionYet, [Next]_vars
  PROVE  SessionsFollowPassword'
<1>0. TypeOK /\ LoginJustified /\ SessionsFollowPassword
  BY DEF IInv
<1>1. CASE UNCHANGED <<sessions, hash>>
  BY <1>0, <1>1 DEF SessionsFollowPassword, sessions
<1>2. ASSUME NEW s \in Sessions, EndSession(s) PROVE SessionsFollowPassword'
  BY <1>0, <1>2 DEF TypeOK, SessionsFollowPassword, EndSession
<1>3. CASE Register
  BY <1>3 DEF Register, NoSessionYet, SessionsFollowPassword, sessions
<1>4. ASSUME NEW q \in Requests, CommitConfirm(q) PROVE SessionsFollowPassword'
  BY <1>0, <1>4 DEF TypeOK, CommitConfirm, Revoked, SessionsFollowPassword
<1>5. ASSUME NEW q \in Requests, Issues(q) PROVE SessionsFollowPassword'
  <2>1. PICK s \in Sessions :
          /\ session' = [r \in Sessions |-> IF r = s THEN "open"
                                            ELSE IF r = cookie[q] THEN "over" ELSE session[r]]
          /\ sessionHash' = [sessionHash EXCEPT ![s] = hash]
    BY <1>0, <1>5 DEF Issues, IssueSession, First, FreeSessions, LoginJustified
  <2>2. hash' = hash
    BY <1>5 DEF Issues
  <2>3. QED
    BY <1>0, <2>1, <2>2 DEF TypeOK, SessionsFollowPassword
<1>6. QED
  BY <1>0, <1>1, <1>2, <1>3, <1>4, <1>5, SessionsMove

(* What verifyEmail's commit does to the link and what it relied on.       *)
LEMMA Activates ==
  ASSUME IInv, [Next]_vars, account # "active", account' = "active"
  PROVE  /\ \A d \in Documents : eventExecutions[d] > 0
         /\ \E t \in Links : /\ purpose[t] = "email_verification" /\ link[t] = "live"
                            /\ link'[t] = "spent" /\ purpose'[t] = purpose[t]
<1>1. TypeOK /\ VerifyJustified /\ LinksFit
  BY DEF IInv
<1>2. PICK q \in Requests : CommitVerify(q)
  BY DEF Next, Clock, Register, ExpireLink, CoolDown, PurgeEvents, EndSession, Prove,
     Start, StartLogin, StartVerify, StartLetter, StartConfirm, Begin,
     Proceed, ReadCredential, Check, RefuseUnproven, Refuse, Fail,
     Commit, CommitLogin, CommitLetter, CommitConfirm, vars
<1>3. \A d \in Documents : eventExecutions[d] > 0
  BY <1>1, <1>2 DEF CommitVerify, Done, VerifyJustified
<1>4. Usable(q)
  BY <1>2 DEF CommitVerify
<1>5. Fits(uses[q], "email_verification") /\ link' = [link EXCEPT ![uses[q]] = "spent"]
      /\ purpose' = purpose
  BY <1>1, <1>2, <1>4 DEF CommitVerify, LinksFit
<1> QED
  BY <1>1, <1>3, <1>4, <1>5 DEF TypeOK, Usable, Fits

LEMMA ProofStep ==
  ASSUME IInv, [Next]_vars
  PROVE  ActiveHasProof'
<1> SUFFICES ASSUME account' = "active"
             PROVE  /\ \A d \in Documents : eventExecutions'[d] > 0
                    /\ \E t \in Links : purpose'[t] = "email_verification" /\ link'[t] = "spent"
  BY DEF ActiveHasProof
<1>1. TypeOK /\ ActiveHasProof
  BY DEF IInv
<1>2. CASE account = "active"
  BY <1>1, <1>2, ExecutionsStay, RowsStay DEF ActiveHasProof
<1>3. CASE account # "active"
  BY <1>1, <1>3, Activates, ExecutionsStay
<1> QED
  BY <1>2, <1>3

-----------------------------------------------------------------------------
(* Every reachable state satisfies the inductive invariant.                *)
THEOREM Invariant == Spec => [](IInv /\ NoSessionYet)
<1>1. Init => IInv /\ NoSessionYet
  <2>1. ASSUME Init PROVE TypeOK
    BY <2>1, IdentityConstants DEF Init, TypeOK, Evidence!Init, AccountStates, LinkStates, SessionStates,
       Purposes, Commands
  <2>2. ASSUME Init PROVE /\ Locked /\ Unregistered /\ SettledExecuted /\ NoSessionYet /\ LinksFit
                          /\ LoginJustified /\ ConfirmJustified /\ VerifyJustified /\ LetterJustified
    BY <2>2 DEF Init, Evidence!Init, Locked, Unregistered, SettledExecuted, NoSessionYet, LinksFit,
       LoginJustified, ConfirmJustified, VerifyJustified, LetterJustified
  <2>3. ASSUME Init PROVE /\ SessionsFollowPassword /\ OneLiveLink /\ LettersSpaced
                          /\ LinkHashes /\ ActiveHasProof
    BY <2>3 DEF Init, SessionsFollowPassword, OneLiveLink, LettersSpaced, LinkHashes, ActiveHasProof
  <2>4. QED
    BY <2>1, <2>2, <2>3 DEF IInv
<1>2. IInv /\ NoSessionYet /\ [Next]_vars => IInv' /\ NoSessionYet'
  <2>1. SUFFICES ASSUME IInv, NoSessionYet, [Next]_vars PROVE IInv' /\ NoSessionYet'
    OBVIOUS
  <2>2. TypeOK /\ Locked /\ Unregistered /\ SettledExecuted /\ LinksFit
    BY <2>1 DEF IInv
  <2>3. TypeOK' /\ Locked' /\ Unregistered' /\ SettledExecuted' /\ LinksFit' /\ NoSessionYet'
    BY <2>1, <2>2, LinksFitStep, TypeStep, LockedStep, UnregisteredStep, SettledExecutedStep, NoSessionYetStep
  <2>4. QED
    BY <2>1, <2>3, JustifiedStep, LinksStep, SessionsStep, ProofStep DEF IInv
<1>3. QED
  BY <1>1, <1>2, PTL DEF Spec

(* The variables keep their types.                                         *)
THEOREM TypeCorrect == Spec => []TypeOK
<1>1. IInv => TypeOK
  BY DEF IInv
<1>2. QED
  BY <1>1, Invariant, PTL

(* No session outlives the password its owner typed: createSession compares *)
(* the hash again under the lock that confirmPasswordReset holds.           *)
THEOREM SessionsCorrect == Spec => []SessionsFollowPassword
<1>1. IInv => SessionsFollowPassword
  BY DEF IInv
<1>2. QED
  BY <1>1, Invariant, PTL

(* Whatever requests cross, one link of a purpose is live, and a cooldown   *)
(* sees one letter.                                                         *)
THEOREM LinksCorrect == Spec => []LinksTakeTurns
<1>1. IInv => LinksTakeTurns
  BY DEF IInv, LinksTakeTurns
<1>2. QED
  BY <1>1, Invariant, PTL

(* No link that was asked for under an older password can set a new one.   *)
THEOREM ResetLinksCorrect == Spec => []LinksFollowPassword
<1>1. IInv => LinksFollowPassword
  BY DEF IInv, LinkHashes, LinksFollowPassword, Deliverable, Unregistered, TypeOK, AccountStates
<1>2. QED
  BY <1>1, Invariant, PTL

(* Both together: what the links in a mailbox can still do.                *)
THEOREM LinksInForceCorrect == Spec => []LinksInForce
<1>1. LinksTakeTurns /\ LinksFollowPassword => LinksInForce
  BY DEF LinksInForce
<1> QED
  BY <1>1, LinksCorrect, ResetLinksCorrect, PTL

(* verifyEmail activates nobody whose consents the legal database lacks,   *)
(* and nobody but by a link from a letter, which it spends.                *)
THEOREM ActivationCorrect == Spec => []ActiveHasProof
<1>1. IInv => ActiveHasProof
  BY DEF IInv
<1>2. QED
  BY <1>1, Invariant, PTL

(* A later password is set by a reset, which spends its link.              *)
LEMMA Resets ==
  ASSUME IInv, [Next]_vars, account # "absent", hash' # hash
  PROVE  \E t \in Links : purpose[t] = "password_reset" /\ Spends(t)
<1>1. TypeOK /\ ConfirmJustified /\ LinksFit
  BY DEF IInv
<1>2. PICK q \in Requests : CommitConfirm(q)
  BY DEF Next, Clock, Register, ExpireLink, CoolDown, PurgeEvents, EndSession, Prove,
     Start, StartLogin, StartVerify, StartLetter, StartConfirm, Begin,
     Proceed, ReadCredential, Check, RefuseUnproven, Refuse, Fail,
     Commit, CommitLogin, CommitVerify, CommitLetter, vars
<1>3. Fits(uses[q], "password_reset") /\ link[uses[q]] \in {"live", "over"}
  BY <1>1, <1>2 DEF CommitConfirm, Done, ConfirmJustified, LinksFit
<1>4. link'[uses[q]] = "spent"
  BY <1>2, <1>3 DEF CommitConfirm, Voided, Fits
<1> QED
  BY <1>3, <1>4 DEF Fits, Spends

(* Two commands that carry one link: one of them takes effect, because the *)
(* second one finds it spent under the lock and nothing revives it.        *)
THEOREM LinksSpentOnce == Spec => LinksUsedOnce
<1> DEFINE Once ==
      /\ account # "absent" /\ hash' # hash =>
           \E t \in Links : purpose[t] = "password_reset" /\ Spends(t)
      /\ account = "unverified" /\ account' = "active" =>
           \E t \in Links : purpose[t] = "email_verification" /\ link[t] = "live" /\ Spends(t)
      /\ \A t \in Links : link[t] = "spent" => link'[t] = "spent"
<1>1. ASSUME IInv, [Next]_vars PROVE Once
  <2>1. \A t \in Links : link[t] = "spent" => link'[t] = "spent"
    BY <1>1, RowsStay DEF IInv
  <2>2. account = "unverified" /\ account' = "active" =>
          \E t \in Links : purpose[t] = "email_verification" /\ link[t] = "live" /\ Spends(t)
    BY <1>1, Activates DEF Spends
  <2> QED
    BY <1>1, <2>1, <2>2, Resets
<1>2. IInv /\ [Next]_vars => [Once]_vars
  BY <1>1
<1>3. QED
  BY <1>2, Invariant, PTL DEF Spec, LinksUsedOnce
=============================================================================
