--------------------------- MODULE BrowserSession ---------------------------
(***************************************************************************)
(* The tabs of one browser and the sessions of its users.  All tabs share  *)
(* one cookie, which names a session of the server; each tab keeps a       *)
(* cached view of it (session-provider.tsx: the account of GET /me and the *)
(* CSRF token of GET /auth/csrf), refreshed by polls and by 'changed'      *)
(* notices on a BroadcastChannel.  Commands (auth-form.tsx,                *)
(* verify-email.tsx, session-panel.tsx, profile-editor.tsx) carry the      *)
(* cookie of the moment they are sent and the token the tab shows; their   *)
(* answers replace the cookie when they arrive, if they arrive.            *)
(*                                                                         *)
(* A session is a number, and the CSRF token of a session is written as    *)
(* the session itself: csrfToken() derives it from secret and id.  Time is *)
(* abstract: a session may expire, a tab may poll at any moment.           *)
(***************************************************************************)
EXTENDS Naturals

CONSTANTS
  Tabs, Accounts,
  Editors,       \* tabs in which the profile editor is opened
  Registered,    \* the account whose address is not verified yet
  None,          \* no account
  MaxCommands,   \* bound: commands the users send
  MaxFaults      \* bound: lost requests and answers, failed fetches, expired sessions

ASSUME SessionAssumption ==
  /\ None \notin Accounts /\ Registered \in Accounts
  /\ MaxCommands \in Nat /\ MaxFaults \in Nat

VARIABLES
  issued,    \* sessions the server created: 1 .. issued
  owner,     \* the account of a session
  open,      \* sessions neither revoked nor expired
  verified,  \* the session issued for the verification link, 0 for none
  profile,   \* row_version of each profile, raised by its submission
  cookie     \* __Host-session in the browser, 0 for none

VARIABLES
  shown, token,        \* per tab: cached account and CSRF token
  failing,             \* tabs whose session query is in error
  step,                \* per tab: fetchSession
  gotAccount, gotToken,\* per tab: what it has learnt
  mail                 \* per tab: 'changed' notices not handled yet

VARIABLES
  phase, op,           \* per tab: the command in flight
  subject, answer,     \* per tab: its account, the session or version it returns
  attempt,             \* per tab: the session its remembered key would replay
  formOf, formVersion  \* per tab: the profile loaded by the editor

VARIABLES
  told,                \* per tab: sessions that had ended at its last notice
  commands, faults     \* how many were spent of the bounds

server == <<issued, owner, open, verified, profile>>
cache == <<shown, token, failing>>
fetch == <<step, gotAccount, gotToken>>
request == <<phase, op, subject, answer>>
form == <<formOf, formVersion>>
bounds == <<commands, faults>>
vars == <<server, cookie, cache, fetch, mail, request, attempt, form, told, bounds>>

Sessions == 1 .. (MaxCommands + 1)
Holder == Sessions \cup {0}
Someone == Accounts \cup {None}
Fetching == {"idle", "csrf", "ready"}
Phases == {"idle", "served", "checking", "refreshing"}
Ops == {"none", "login", "verify", "logout", "reset", "save"}

TypeOK ==
  /\ issued \in Nat /\ owner \in [Sessions -> Someone] /\ open \subseteq Sessions
  /\ verified \in Holder /\ profile \in [Accounts -> {1, 2}] /\ cookie \in Holder
  /\ shown \in [Tabs -> Someone] /\ token \in [Tabs -> Holder] /\ failing \subseteq Tabs
  /\ step \in [Tabs -> Fetching]
  /\ gotAccount \in [Tabs -> Someone] /\ gotToken \in [Tabs -> Holder]
  /\ mail \in [Tabs -> Nat]
  /\ phase \in [Tabs -> Phases] /\ op \in [Tabs -> Ops]
  /\ subject \in [Tabs -> Someone] /\ answer \in [Tabs -> Nat]
  /\ attempt \in [Tabs -> Holder]
  /\ formOf \in [Tabs -> Someone] /\ formVersion \in [Tabs -> {1, 2}]
  /\ told \in [Tabs -> SUBSET Sessions]
  /\ commands \in Nat /\ faults \in Nat

(* Somebody signed in earlier; the tabs have just been opened. *)
Init ==
  /\ \E a \in Accounts \ {Registered} : owner = [s \in Sessions |-> IF s = 1 THEN a ELSE None]
  /\ issued = 1 /\ open = {1} /\ cookie = 1
  /\ verified = 0 /\ profile = [a \in Accounts |-> 1]
  /\ shown = [t \in Tabs |-> None] /\ token = [t \in Tabs |-> 0] /\ failing = {}
  /\ step = [t \in Tabs |-> "idle"]
  /\ gotAccount = [t \in Tabs |-> None] /\ gotToken = [t \in Tabs |-> 0]
  /\ mail = [t \in Tabs |-> 0]
  /\ phase = [t \in Tabs |-> "idle"] /\ op = [t \in Tabs |-> "none"]
  /\ subject = [t \in Tabs |-> None] /\ answer = [t \in Tabs |-> 0]
  /\ attempt = [t \in Tabs |-> 0]
  /\ formOf = [t \in Tabs |-> None] /\ formVersion = [t \in Tabs |-> 1]
  /\ told = [t \in Tabs |-> {}]
  /\ commands = 0 /\ faults = 0

-----------------------------------------------------------------------------
(* The session query of a tab.                                             *)

(* accountForSession: who a cookie stands for. *)
Who(s) == IF s \in open THEN owner[s] ELSE None

Ended == {s \in Sessions : s <= issued /\ s \notin open}

Fault == faults < MaxFaults /\ faults' = faults + 1 /\ UNCHANGED commands

(* fetchSession begins: GET /me is answered for the cookie c.  A 401 ends  *)
(* it with null.                                                           *)
Ask(t, c) ==
  /\ step' = [step EXCEPT ![t] = IF Who(c) = None THEN "ready" ELSE "csrf"]
  /\ gotAccount' = [gotAccount EXCEPT ![t] = Who(c)]
  /\ gotToken' = [gotToken EXCEPT ![t] = 0]

(* cancelQueries: what is under way is aborted and installs nothing. *)
Cancel(t) ==
  /\ step' = [step EXCEPT ![t] = "idle"]
  /\ gotAccount' = [gotAccount EXCEPT ![t] = None]
  /\ gotToken' = [gotToken EXCEPT ![t] = 0]

(* Slip: the token outlives the account. *)
ForgetAccount(t) ==
  /\ shown' = [shown EXCEPT ![t] = None]
  /\ token' = [token EXCEPT ![t] = None]
  /\ failing' = failing \ {t}
  /\ told' = [told EXCEPT ![t] = Ended]

(* setQueryData(sessionKey, null), which also ends an error. *)
Forget(t) ==
  /\ shown' = [shown EXCEPT ![t] = None]
  /\ token' = [token EXCEPT ![t] = 0]
  /\ failing' = failing \ {t}
  /\ told' = [told EXCEPT ![t] = Ended]

(* channel.postMessage('changed') reaches the other tabs. *)
Post(t) == mail' = [u \in Tabs |-> IF u = t THEN mail[u] ELSE mail[u] + 1]

(* The command of a tab is over. *)
Rest(t) ==
  /\ phase' = [phase EXCEPT ![t] = "idle"]
  /\ op' = [op EXCEPT ![t] = "none"]
  /\ subject' = [subject EXCEPT ![t] = None]
  /\ answer' = [answer EXCEPT ![t] = 0]

(* Slip: a tab that shows nobody does not poll. *)
PollWhenShown(t) ==
  /\ step[t] = "idle" /\ shown[t] # None
  /\ Ask(t, cookie)
  /\ UNCHANGED <<server, cookie, cache, mail, request, attempt, form, told, bounds>>

(* refetchInterval and refetchOnWindowFocus; a fetch under way is joined. *)
Poll(t) ==
  /\ step[t] = "idle"
  /\ Ask(t, cookie)
  /\ UNCHANGED <<server, cookie, cache, mail, request, attempt, form, told, bounds>>

(* GET /auth/csrf follows, with the cookie of this later moment. *)
AskCsrf(t) ==
  /\ step[t] = "csrf"
  /\ step' = [step EXCEPT ![t] = "ready"]
  /\ IF cookie \in open
       THEN /\ gotToken' = [gotToken EXCEPT ![t] = cookie]
            /\ UNCHANGED gotAccount
       ELSE /\ gotAccount' = [gotAccount EXCEPT ![t] = None]
            /\ UNCHANGED gotToken
  /\ UNCHANGED <<server, cookie, cache, mail, request, attempt, form, told, bounds>>

(* The query takes the result over; a refresh() that waits for it tells    *)
(* the other tabs once more.                                               *)
Install(t) ==
  /\ step[t] = "ready"
  /\ shown' = [shown EXCEPT ![t] = gotAccount[t]]
  /\ token' = [token EXCEPT ![t] = gotToken[t]]
  /\ failing' = failing \ {t}
  /\ Cancel(t)
  /\ IF phase[t] = "refreshing" THEN Post(t) /\ Rest(t) ELSE UNCHANGED <<mail, request>>
  /\ UNCHANGED <<server, cookie, attempt, form, told, bounds>>

(* A request fails otherwise than with 401: the data stays, unseen. *)
FetchFails(t) ==
  /\ step[t] # "idle"
  /\ Fault
  /\ failing' = failing \cup {t}
  /\ Cancel(t)
  /\ IF phase[t] = "refreshing" THEN Rest(t) ELSE UNCHANGED request
  /\ UNCHANGED <<server, cookie, shown, token, mail, attempt, form, told>>

(* Slip: a fetch under way is joined instead of cancelled. *)
ReadNoticeJoins(t) ==
  /\ mail[t] > 0
  /\ Forget(t)
  /\ IF step[t] = "idle" THEN Ask(t, cookie) ELSE UNCHANGED fetch
  /\ mail' = [mail EXCEPT ![t] = @ - 1]
  /\ UNCHANGED <<server, cookie, request, attempt, form, bounds>>

(* onmessage: cancel, drop the session, fetch it anew.  A refresh() whose  *)
(* fetch is cancelled here returns null, and posts its second notice.      *)
ReadNotice(t) ==
  /\ mail[t] > 0
  /\ Forget(t)
  /\ Ask(t, cookie)
  /\ IF phase[t] = "refreshing"
       THEN /\ mail' = [u \in Tabs |-> IF u = t THEN mail[u] - 1 ELSE mail[u] + 1]
            /\ Rest(t)
       ELSE mail' = [mail EXCEPT ![t] = @ - 1] /\ UNCHANGED request
  /\ UNCHANGED <<server, cookie, attempt, form, bounds>>

-----------------------------------------------------------------------------
(* The commands.                                                           *)

(* What useSession() gives the components of a tab. *)
Seen(t) == IF t \in failing THEN None ELSE shown[t]

(* A command leaves with the cookie and is carried out; its answer is on   *)
(* the way.  A command that is refused changes nothing, and is no step.    *)
Send(t, command, account, result) ==
  /\ phase[t] = "idle"
  /\ commands < MaxCommands /\ commands' = commands + 1
  /\ phase' = [phase EXCEPT ![t] = "served"]
  /\ op' = [op EXCEPT ![t] = command]
  /\ subject' = [subject EXCEPT ![t] = account]
  /\ answer' = [answer EXCEPT ![t] = result]
  /\ UNCHANGED <<cookie, cache, fetch, mail, form, told, faults>>

(* Slip: whatever session the request came with is replaced. *)
ReplacedAny(account) == {s \in open : s = cookie}

(* issueSession: the session the request came with is replaced when it is  *)
(* of the same account.                                                    *)
Replaced(account) == {s \in open : s = cookie /\ owner[s] = account}

IssueSession(account) ==
  /\ issued' = issued + 1
  /\ owner' = [owner EXCEPT ![issued + 1] = account]
  /\ open' = (open \ Replaced(account)) \cup {issued + 1}
  /\ UNCHANGED profile

(* createSession: a completed key replays its session, revoked or not. *)
CreateSession(t, a, replay) ==
  \/ replay # 0 /\ Send(t, "login", a, replay) /\ UNCHANGED server
  \/ replay = 0 /\ Send(t, "login", a, issued + 1) /\ IssueSession(a) /\ UNCHANGED verified

(* prepareIdempotencyAttempt: the key is kept for the same body alone. *)
Replayed(t, a) == IF attempt[t] # 0 /\ owner[attempt[t]] = a THEN attempt[t] ELSE 0

Login(t, a) ==
  /\ formOf[t] = None
  /\ CreateSession(t, a, Replayed(t, a))
  /\ attempt' = [attempt EXCEPT ![t] = Replayed(t, a)]

(* verifyEmail activates the account and replays its session likewise. *)
VerifyEmail(t) ==
  \/ verified # 0 /\ Send(t, "verify", Registered, verified) /\ UNCHANGED server
  \/ /\ verified = 0
     /\ Send(t, "verify", Registered, issued + 1)
     /\ IssueSession(Registered)
     /\ verified' = issued + 1

(* The link is opened: its key is the digest of its token, the same in     *)
(* every tab and at every reload.                                          *)
OpenLink(t) == formOf[t] = None /\ VerifyEmail(t) /\ UNCHANGED attempt

(* Slip: any token will do for a live session. *)
CsrfPassesAny(t) == cookie \in open /\ token[t] # 0

(* validateCsrf: the token belongs to the live session of the cookie. *)
CsrfPasses(t) == cookie \in open /\ token[t] = cookie

(* deleteCurrentSession: without a live session there is nothing to do,    *)
(* and nothing to check.                                                   *)
DeleteSession(t) ==
  /\ cookie \in open => CsrfPasses(t)
  /\ open' = open \ {cookie}
  /\ UNCHANGED <<issued, owner, verified, profile>>

Logout(t) ==
  /\ formOf[t] = None /\ Seen(t) # None
  /\ DeleteSession(t)
  /\ Send(t, "logout", None, 0)
  /\ UNCHANGED attempt

(* confirmPasswordReset revokes every session of the account. *)
ConfirmReset(a) ==
  /\ open' = {s \in open : owner[s] # a}
  /\ UNCHANGED <<issued, owner, verified, profile>>

Reset(t, a) ==
  /\ formOf[t] = None
  /\ ConfirmReset(a)
  /\ Send(t, "reset", a, 0)
  /\ UNCHANGED attempt

(* authorizeSession lets active accounts use the routes of a profile. *)
Active(a) == a # None /\ (a # Registered \/ verified # 0)

(* SessionGuard of an unsafe method. *)
Admits(t) == Active(Who(cookie)) /\ CsrfPasses(t)

(* updateMyProfile with If-Match of what the editor loaded; version 1 is   *)
(* submitted once and then under review.                                   *)
Save(t) ==
  /\ formOf[t] # None /\ Seen(t) # None
  /\ Admits(t)
  /\ formVersion[t] = profile[owner[cookie]] /\ profile[owner[cookie]] = 1
  /\ profile' = [profile EXCEPT ![owner[cookie]] = 2]
  /\ Send(t, "save", owner[cookie], 2)
  /\ UNCHANGED <<issued, owner, open, verified, attempt>>

(* requireServerSession of the account's pages. *)
Protected == Who(cookie) # None

(* The page is mounted and loads the profile, which it keeps in a state of *)
(* its own.                                                                *)
OpenEditor(t) ==
  /\ t \in Editors /\ formOf[t] = None /\ phase[t] = "idle"
  /\ Protected /\ Active(Who(cookie))
  /\ formOf' = [formOf EXCEPT ![t] = Who(cookie)]
  /\ formVersion' = [formVersion EXCEPT ![t] = profile[Who(cookie)]]
  /\ UNCHANGED <<server, cookie, cache, fetch, mail, request, attempt, told, bounds>>

LeaveEditor(t) ==
  /\ formOf[t] # None /\ phase[t] = "idle"
  /\ formOf' = [formOf EXCEPT ![t] = None]
  /\ formVersion' = [formVersion EXCEPT ![t] = 1]
  /\ UNCHANGED <<server, cookie, cache, fetch, mail, request, attempt, told, bounds>>

Expire(s) ==
  /\ s \in open
  /\ Fault
  /\ open' = open \ {s}
  /\ UNCHANGED <<issued, owner, verified, profile, cookie, cache, fetch, mail, request, attempt,
                 form, told>>

-----------------------------------------------------------------------------
(* The answers.  Set-Cookie and clearCookie replace whatever cookie there  *)
(* is by now.                                                              *)

SetsCookie(t) ==
  CASE op[t] \in {"login", "verify"} -> answer[t]
    [] op[t] = "logout" -> 0
    [] OTHER -> cookie

(* refresh(): clear(), which tells the others, and a fetch to wait for. *)
Refresh(t, c) ==
  /\ Forget(t) /\ Post(t) /\ Ask(t, c)
  /\ phase' = [phase EXCEPT ![t] = "refreshing"]
  /\ UNCHANGED <<op, subject, answer>>

(* submit() of the login form refreshes; verify() first asks GET /me.      *)
ReceiveSession(t) ==
  /\ phase[t] = "served" /\ op[t] \in {"login", "verify"}
  /\ cookie' = SetsCookie(t)
  /\ IF op[t] = "login"
       THEN Refresh(t, SetsCookie(t))
       ELSE /\ phase' = [phase EXCEPT ![t] = "checking"]
            /\ UNCHANGED <<op, subject, answer, cache, fetch, mail, told>>
  /\ attempt' = IF op[t] = "login" THEN [attempt EXCEPT ![t] = 0] ELSE attempt
  /\ UNCHANGED <<server, form, bounds>>

(* Its GET /me goes with the cookie of this later moment, is no part of    *)
(* the query, and leaves everything as it is when nobody is signed in.     *)
CheckMe(t) ==
  /\ phase[t] = "checking"
  /\ IF Who(cookie) # None
       THEN Refresh(t, cookie)
       ELSE Rest(t) /\ UNCHANGED <<cache, fetch, mail, told>>
  /\ UNCHANGED <<server, cookie, attempt, form, bounds>>

CheckFails(t) ==
  /\ phase[t] = "checking"
  /\ Fault
  /\ Rest(t)
  /\ UNCHANGED <<server, cookie, cache, fetch, mail, attempt, form, told>>

(* The button of session-panel.tsx beside a query in error. *)
Retry(t) ==
  /\ t \in failing /\ phase[t] = "idle" /\ formOf[t] = None
  /\ Refresh(t, cookie)
  /\ UNCHANGED <<server, cookie, attempt, form, bounds>>

(* Logout and reset clear the tab and do not fetch. *)
ReceiveEnd(t) ==
  /\ phase[t] = "served" /\ op[t] \in {"logout", "reset"}
  /\ cookie' = SetsCookie(t)
  /\ Forget(t) /\ Post(t) /\ Cancel(t) /\ Rest(t)
  /\ UNCHANGED <<server, attempt, form, bounds>>

ReceiveSave(t) ==
  /\ phase[t] = "served" /\ op[t] = "save"
  /\ formOf' = [formOf EXCEPT ![t] = subject[t]]
  /\ formVersion' = [formVersion EXCEPT ![t] = answer[t]]
  /\ Rest(t)
  /\ UNCHANGED <<server, cookie, cache, fetch, mail, attempt, told, bounds>>

(* The answer, or only what follows its headers, is lost: a login          *)
(* remembers its key for the retry.  (A request that is lost did nothing.) *)
Lose(t) ==
  /\ phase[t] = "served"
  /\ Fault
  /\ Rest(t)
  /\ cookie' \in {cookie, SetsCookie(t)}
  /\ attempt' = IF op[t] = "login" THEN [attempt EXCEPT ![t] = answer[t]] ELSE attempt
  /\ UNCHANGED <<server, cache, fetch, mail, form, told>>

-----------------------------------------------------------------------------
Fetches(t) == AskCsrf(t) \/ Install(t)

SignsIn(t) == OpenLink(t) \/ \E a \in Accounts : Login(t, a)

SignsOut(t) == Logout(t) \/ \E a \in Accounts : Reset(t, a)

Edits(t) == OpenEditor(t) \/ LeaveEditor(t) \/ Save(t)

Receive(t) == ReceiveSession(t) \/ CheckMe(t) \/ ReceiveEnd(t) \/ ReceiveSave(t)

Next ==
  \/ \E t \in Tabs :
       \/ Poll(t) \/ Fetches(t) \/ FetchFails(t) \/ ReadNotice(t)
       \/ SignsIn(t) \/ SignsOut(t) \/ Edits(t) \/ Retry(t) \/ Receive(t)
       \/ Lose(t) \/ CheckFails(t)
  \/ \E s \in Sessions : Expire(s)

Spec == Init /\ [][Next]_vars

(* A tab somebody looks at polls every 30 seconds and when it is focused;  *)
(* its requests and notices are handled.  Users owe nothing.               *)
FairSpec ==
  Spec /\ \A t \in Tabs : WF_vars(Poll(t)) /\ WF_vars(Fetches(t)) /\ WF_vars(ReadNotice(t))

-----------------------------------------------------------------------------
(* A tab that has handled a notice never again shows a session that had    *)
(* ended by then, whatever answers were under way in it.                   *)
EndedStaysHidden == \A t \in Tabs : token[t] \notin told[t]

(* A live session ends only where its own user ends it: by a logout from a *)
(* tab that showed it, a reset of the account's password, a new sign-in to *)
(* the same account that came with its cookie, or by its age; never by a   *)
(* tab that still showed somebody else when the cookie had changed.        *)
EndsByOwner(t, s) ==
  \/ Logout(t) /\ token[t] = s
  \/ Reset(t, owner[s])
  \/ (Login(t, owner[s]) \/ (owner[s] = Registered /\ OpenLink(t))) /\ cookie = s

OnlyOwnSessionsEnd ==
  [][\A s \in open \ open' : Expire(s) \/ \E t \in Tabs : EndsByOwner(t, s)]_vars

(* Once the users and the faults cease every tab shows whom the cookie     *)
(* stands for: no lost answer, missed notice or fetch that straddled a     *)
(* sign-in leaves a tab with another account for good.                     *)
TabsAgree == <>[](\A t \in Tabs : Seen(t) = Who(cookie))

-----------------------------------------------------------------------------
(* docs/tasks/TASK-005.md:152 says the cache of another account is not     *)
(* shown after a new sign-in: here, the editor of a tab that shows the     *)
(* account the cookie stands for holds nobody else's profile.              *)
ForeignFormHidden ==
  \A t \in Tabs :
    formOf[t] # None /\ Seen(t) # None /\ Seen(t) = Who(cookie) => formOf[t] = Seen(t)
=============================================================================
