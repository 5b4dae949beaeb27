------------------------ MODULE BrowserSessionProofs ------------------------
(***************************************************************************)
(* Proofs about BrowserSession for every set of tabs and accounts and      *)
(* every number of commands and faults.                                    *)
(***************************************************************************)
EXTENDS BrowserSession, TLAPS

(* A session is issued by a command only, so that the numbers suffice; an  *)
(* answer under way carries a session, or the version its save wrote.      *)
Issued ==
  /\ issued \in Nat /\ issued <= commands + 1 /\ commands <= MaxCommands
  /\ \A t \in Tabs :
       /\ op[t] \in {"login", "verify"} => answer[t] \in Sessions
       /\ op[t] = "save" => answer[t] = 2

LEMMA ZeroAndNone == 0 \in Holder /\ None \in Someone /\ Registered \in Someone /\ 0 \in Nat
BY SessionAssumption DEF Holder, Someone

(* Who a cookie stands for is an account, or nobody.                       *)
LEMMA WhoTyped ==
  ASSUME TypeOK, NEW c
  PROVE  Who(c) \in Someone
BY ZeroAndNone DEF TypeOK, Who

(* The parts of a session query.                                           *)
FetchOK ==
  /\ step \in [Tabs -> Fetching]
  /\ gotAccount \in [Tabs -> Someone] /\ gotToken \in [Tabs -> Holder]

LEMMA AskTyped ==
  ASSUME TypeOK, NEW t \in Tabs, NEW c, Ask(t, c)
  PROVE  FetchOK'
<1>1. Who(c) \in Someone
  BY WhoTyped
<1>2. QED
  BY <1>1, ZeroAndNone DEF TypeOK, FetchOK, Ask, Fetching

LEMMA CancelTyped ==
  ASSUME TypeOK, NEW t \in Tabs, Cancel(t)
  PROVE  FetchOK'
BY ZeroAndNone DEF TypeOK, FetchOK, Cancel, Fetching

(* What forgetting a session leaves in the cache.                          *)
CacheOK ==
  /\ shown \in [Tabs -> Someone] /\ token \in [Tabs -> Holder] /\ failing \subseteq Tabs
  /\ told \in [Tabs -> SUBSET Sessions]

LEMMA ForgetTyped ==
  ASSUME TypeOK, NEW t \in Tabs, Forget(t)
  PROVE  CacheOK'
<1>1. Ended \subseteq Sessions
  BY DEF Ended
<1>2. QED
  BY <1>1, ZeroAndNone DEF TypeOK, CacheOK, Forget

(* The request of a tab.                                                   *)
RequestOK ==
  /\ phase \in [Tabs -> Phases] /\ op \in [Tabs -> Ops]
  /\ subject \in [Tabs -> Someone] /\ answer \in [Tabs -> Nat]

AnswersOK ==
  \A t \in Tabs : /\ op[t] \in {"login", "verify"} => answer[t] \in Sessions
                  /\ op[t] = "save" => answer[t] = 2

LEMMA RestTyped ==
  ASSUME TypeOK, Issued, NEW t \in Tabs, Rest(t)
  PROVE  RequestOK' /\ AnswersOK'
<1>1. RequestOK'
  BY ZeroAndNone DEF TypeOK, RequestOK, Rest, Phases, Ops
<1>2. AnswersOK'
  BY DEF TypeOK, Issued, AnswersOK, Rest
<1>3. QED
  BY <1>1, <1>2

LEMMA SendTyped ==
  ASSUME TypeOK, Issued, NEW t \in Tabs, NEW command \in Ops, NEW account \in Someone,
         NEW result \in Nat, Send(t, command, account, result),
         command \in {"login", "verify"} => result \in Sessions,
         command = "save" => result = 2
  PROVE  RequestOK' /\ AnswersOK'
<1>1. RequestOK'
  BY DEF TypeOK, RequestOK, Send, Phases
<1>2. AnswersOK'
  BY DEF TypeOK, Issued, AnswersOK, Send
<1>3. QED
  BY <1>1, <1>2

LEMMA PostTyped ==
  ASSUME TypeOK, NEW t \in Tabs, Post(t)
  PROVE  mail' \in [Tabs -> Nat]
BY DEF TypeOK, Post

(* The server's part of a sign-in.                                         *)
ServerOK ==
  /\ issued \in Nat /\ owner \in [Sessions -> Someone] /\ open \subseteq Sessions
  /\ verified \in Holder /\ profile \in [Accounts -> {1, 2}]

LEMMA IssueTyped ==
  ASSUME TypeOK, Issued, NEW account \in Someone, IssueSession(account),
         commands < MaxCommands, verified' \in {verified, issued + 1}
  PROVE  ServerOK' /\ issued + 1 \in Sessions /\ issued' = issued + 1
<1>1. issued + 1 \in Sessions /\ issued + 1 \in Nat
  BY SessionAssumption DEF TypeOK, Issued, Sessions
<1>2. QED
  BY <1>1 DEF TypeOK, ServerOK, IssueSession, Replaced, Holder

-----------------------------------------------------------------------------
(* The session queries of the tabs keep the shapes.                        *)
LEMMA QueriesTyped ==
  ASSUME TypeOK, Issued,
         \E t \in Tabs : Poll(t) \/ AskCsrf(t) \/ Install(t) \/ FetchFails(t) \/ ReadNotice(t)
  PROVE  TypeOK' /\ Issued'
<1> USE DEF FetchOK, CacheOK, RequestOK, AnswersOK
<1>1. ASSUME NEW t \in Tabs, Poll(t) PROVE TypeOK' /\ Issued'
  <2>1. FetchOK'
    BY <1>1, AskTyped DEF Poll
  <2>2. QED
    BY <1>1, <2>1 DEF Poll, TypeOK, Issued, server, cache, request, form, bounds
<1>2. ASSUME NEW t \in Tabs, AskCsrf(t) PROVE TypeOK' /\ Issued'
  <2>1. FetchOK'
    BY <1>2, ZeroAndNone DEF AskCsrf, TypeOK, Fetching
  <2>2. QED
    BY <1>2, <2>1 DEF AskCsrf, TypeOK, Issued, server, cache, request, form, bounds
<1>3. ASSUME NEW t \in Tabs, Install(t) PROVE TypeOK' /\ Issued'
  <2>1. FetchOK'
    BY <1>3, CancelTyped DEF Install
  <2>2. /\ shown' \in [Tabs -> Someone] /\ token' \in [Tabs -> Holder]
        /\ failing' \subseteq Tabs
    BY <1>3 DEF Install, TypeOK
  <2>3. CASE Post(t) /\ Rest(t)
    <3>1. mail' \in [Tabs -> Nat] /\ RequestOK' /\ AnswersOK'
      BY <2>3, PostTyped, RestTyped
    <3>2. QED
      BY <1>3, <2>1, <2>2, <3>1 DEF Install, TypeOK, Issued, server, form, bounds
  <2>4. CASE UNCHANGED <<mail, request>>
    BY <1>3, <2>1, <2>2, <2>4 DEF Install, TypeOK, Issued, server, request, form, bounds
  <2>5. QED
    BY <1>3, <2>3, <2>4 DEF Install
<1>4. ASSUME NEW t \in Tabs, FetchFails(t) PROVE TypeOK' /\ Issued'
  <2>1. FetchOK'
    BY <1>4, CancelTyped DEF FetchFails
  <2>2. failing' \subseteq Tabs /\ faults' \in Nat /\ commands' = commands
    BY <1>4 DEF FetchFails, Fault, TypeOK
  <2>3. RequestOK' /\ AnswersOK'
    BY <1>4, RestTyped DEF FetchFails, TypeOK, Issued, request
  <2>4. QED
    BY <1>4, <2>1, <2>2, <2>3 DEF FetchFails, TypeOK, Issued, server, form
<1>5. ASSUME NEW t \in Tabs, ReadNotice(t) PROVE TypeOK' /\ Issued'
  <2>1. FetchOK' /\ CacheOK'
    BY <1>5, AskTyped, ForgetTyped DEF ReadNotice
  <2>2. mail[t] \in Nat /\ mail[t] - 1 \in Nat /\ \A u \in Tabs : mail[u] + 1 \in Nat
    BY <1>5 DEF ReadNotice, TypeOK
  <2>3. mail' \in [Tabs -> Nat]
    BY <1>5, <2>2 DEF ReadNotice, TypeOK
  <2>4. RequestOK' /\ AnswersOK'
    BY <1>5, RestTyped DEF ReadNotice, TypeOK, Issued, request
  <2>5. QED
    BY <1>5, <2>1, <2>3, <2>4 DEF ReadNotice, TypeOK, Issued, server, form, bounds
<1>6. QED
  BY <1>1, <1>2, <1>3, <1>4, <1>5

(* What sending a command leaves alone.                                    *)
LEMMA SentTyped ==
  ASSUME TypeOK, Issued, ServerOK', RequestOK', AnswersOK', attempt' \in [Tabs -> Holder],
         commands < MaxCommands, commands' = commands + 1,
         issued' \in {issued, issued + 1},
         UNCHANGED <<cookie, cache, fetch, mail, form, told, faults>>
  PROVE  TypeOK' /\ Issued'
<1>1. commands' \in Nat /\ issued' <= commands' + 1 /\ commands' <= MaxCommands
  BY SessionAssumption DEF TypeOK, Issued
<1>2. QED
  BY <1>1 DEF TypeOK, Issued, ServerOK, RequestOK, AnswersOK, cache, fetch, form

(* The commands of the users keep the shapes.                              *)
LEMMA CommandsTyped ==
  ASSUME TypeOK, Issued,
         \E t \in Tabs : OpenLink(t) \/ Logout(t) \/ Save(t)
                         \/ \E a \in Accounts : Login(t, a) \/ Reset(t, a)
  PROVE  TypeOK' /\ Issued'
<1>0. ServerOK /\ attempt \in [Tabs -> Holder] /\ Accounts \subseteq Someone
  BY DEF TypeOK, ServerOK, Someone
<1>1. ASSUME NEW t \in Tabs, NEW a \in Accounts, Login(t, a) PROVE TypeOK' /\ Issued'
  <2>1. PICK replay : replay = Replayed(t, a)
    OBVIOUS
  <2>2. replay \in Holder
    BY <2>1, ZeroAndNone DEF Replayed, TypeOK
  <2>3. attempt' \in [Tabs -> Holder] /\ CreateSession(t, a, replay)
    BY <1>0, <1>1, <2>1, <2>2 DEF Login
  <2>4. CASE replay # 0 /\ Send(t, "login", a, replay) /\ UNCHANGED server
    <3>1. replay \in Sessions /\ replay \in Nat
      BY <2>2, <2>4, SessionAssumption DEF Holder, Sessions
    <3>2. RequestOK' /\ AnswersOK'
      BY <1>0, <2>4, <3>1, SendTyped DEF Ops
    <3>3. QED
      BY <1>0, <2>3, <2>4, <3>2, SentTyped DEF Send, server, ServerOK
  <2>5. CASE Send(t, "login", a, issued + 1) /\ IssueSession(a) /\ UNCHANGED verified
    <3>1. ServerOK' /\ issued + 1 \in Sessions /\ issued' = issued + 1
      BY <1>0, <2>5, IssueTyped DEF Send
    <3>2. RequestOK' /\ AnswersOK'
      BY <1>0, <2>5, <3>1, SendTyped DEF Ops, TypeOK
    <3>3. QED
      BY <2>3, <2>5, <3>1, <3>2, SentTyped DEF Send
  <2>6. QED
    BY <2>3, <2>4, <2>5 DEF CreateSession
<1>2. ASSUME NEW t \in Tabs, OpenLink(t) PROVE TypeOK' /\ Issued'
  <2>1. attempt' \in [Tabs -> Holder]
    BY <1>0, <1>2 DEF OpenLink
  <2>2. CASE verified # 0 /\ Send(t, "verify", Registered, verified) /\ UNCHANGED server
    <3>1. verified \in Sessions /\ verified \in Nat
      BY <1>0, <2>2 DEF ServerOK, Holder, Sessions
    <3>2. RequestOK' /\ AnswersOK'
      BY <2>2, <3>1, ZeroAndNone, SendTyped DEF Ops
    <3>3. QED
      BY <1>0, <2>1, <2>2, <3>2, SentTyped DEF Send, server, ServerOK
  <2>3. CASE /\ Send(t, "verify", Registered, issued + 1)
             /\ IssueSession(Registered) /\ verified' = issued + 1
    <3>1. ServerOK' /\ issued + 1 \in Sessions /\ issued' = issued + 1
      BY <2>3, ZeroAndNone, IssueTyped DEF Send
    <3>2. RequestOK' /\ AnswersOK'
      BY <2>3, <3>1, ZeroAndNone, SendTyped DEF Ops, TypeOK
    <3>3. QED
      BY <2>1, <2>3, <3>1, <3>2, SentTyped DEF Send
  <2>4. QED
    BY <1>2, <2>2, <2>3 DEF OpenLink, VerifyEmail
<1>3. ASSUME NEW t \in Tabs, Logout(t) PROVE TypeOK' /\ Issued'
  <2>1. ServerOK' /\ issued' = issued
    BY <1>0, <1>3 DEF Logout, DeleteSession, ServerOK
  <2>2. RequestOK' /\ AnswersOK'
    BY <1>3, ZeroAndNone, SendTyped DEF Logout, Ops
  <2>3. QED
    BY <1>0, <1>3, <2>1, <2>2, SentTyped DEF Logout, Send
<1>4. ASSUME NEW t \in Tabs, NEW a \in Accounts, Reset(t, a) PROVE TypeOK' /\ Issued'
  <2>1. ServerOK' /\ issued' = issued
    BY <1>0, <1>4 DEF Reset, ConfirmReset, ServerOK
  <2>2. RequestOK' /\ AnswersOK'
    BY <1>0, <1>4, ZeroAndNone, SendTyped DEF Reset, Ops
  <2>3. QED
    BY <1>0, <1>4, <2>1, <2>2, SentTyped DEF Reset, Send
<1>5. ASSUME NEW t \in Tabs, Save(t) PROVE TypeOK' /\ Issued'
  <2>1. owner[cookie] \in Someone
    BY <1>5 DEF Save, Admits, CsrfPasses, TypeOK
  <2>2. ServerOK' /\ issued' = issued
    BY <1>0, <1>5 DEF Save, ServerOK
  <2>3. RequestOK' /\ AnswersOK'
    BY <1>5, <2>1, SendTyped DEF Save, Ops
  <2>4. QED
    BY <1>0, <1>5, <2>2, <2>3, SentTyped DEF Save, Send
<1>6. QED
  BY <1>1, <1>2, <1>3, <1>4, <1>5

(* The editor, the age of a session and the answers keep the shapes.       *)
LEMMA EditorTyped ==
  ASSUME TypeOK, Issued,
         \/ \E t \in Tabs : OpenEditor(t) \/ LeaveEditor(t)
         \/ \E s \in Sessions : Expire(s)
  PROVE  TypeOK' /\ Issued'
<1>1. ASSUME NEW t \in Tabs, OpenEditor(t) PROVE TypeOK' /\ Issued'
  <2>1. Who(cookie) \in Someone /\ Who(cookie) \in Accounts
    BY <1>1, WhoTyped DEF OpenEditor, Active, Someone
  <2>2. formOf' \in [Tabs -> Someone] /\ formVersion' \in [Tabs -> {1, 2}]
    BY <1>1, <2>1 DEF OpenEditor, TypeOK
  <2>3. QED
    BY <1>1, <2>2
       DEF OpenEditor, TypeOK, Issued, server, cache, fetch, request, bounds
<1>2. ASSUME NEW t \in Tabs, LeaveEditor(t) PROVE TypeOK' /\ Issued'
  <2>1. formOf' \in [Tabs -> Someone] /\ formVersion' \in [Tabs -> {1, 2}]
    BY <1>2, ZeroAndNone DEF LeaveEditor, TypeOK
  <2>2. QED
    BY <1>2, <2>1
       DEF LeaveEditor, TypeOK, Issued, server, cache, fetch, request, bounds
<1>3. ASSUME NEW s \in Sessions, Expire(s) PROVE TypeOK' /\ Issued'
  BY <1>3 DEF Expire, Fault, TypeOK, Issued, cache, fetch, request, form
<1>4. QED
  BY <1>1, <1>2, <1>3

LEMMA SetsCookieTyped ==
  ASSUME TypeOK, Issued, NEW t \in Tabs
  PROVE  SetsCookie(t) \in Holder
BY ZeroAndNone DEF SetsCookie, TypeOK, Issued, Holder

LEMMA AnswersTyped ==
  ASSUME TypeOK, Issued,
         \E t \in Tabs : \/ ReceiveSession(t) \/ CheckMe(t) \/ CheckFails(t) \/ Retry(t)
                       \/ ReceiveEnd(t) \/ ReceiveSave(t) \/ Lose(t)
  PROVE  TypeOK' /\ Issued'
<1> USE DEF FetchOK, CacheOK, RequestOK, AnswersOK
<1>0. RequestOK /\ AnswersOK /\ FetchOK /\ CacheOK
  BY DEF TypeOK, Issued
<1>a. ASSUME NEW t \in Tabs, NEW c, Refresh(t, c)
      PROVE  FetchOK' /\ CacheOK' /\ mail' \in [Tabs -> Nat] /\ RequestOK' /\ AnswersOK'
  <2>1. FetchOK' /\ CacheOK' /\ mail' \in [Tabs -> Nat]
    BY <1>a, AskTyped, ForgetTyped, PostTyped DEF Refresh
  <2>2. RequestOK' /\ AnswersOK'
    BY <1>0, <1>a DEF Refresh, Phases
  <2> QED
    BY <2>1, <2>2
<1>1. ASSUME NEW t \in Tabs, ReceiveSession(t) PROVE TypeOK' /\ Issued'
  <2>1. cookie' \in Holder
    BY <1>1, SetsCookieTyped DEF ReceiveSession
  <2>2. attempt' \in [Tabs -> Holder]
    BY <1>1, ZeroAndNone DEF ReceiveSession, TypeOK
  <2>3. CASE Refresh(t, SetsCookie(t))
    <3>1. FetchOK' /\ CacheOK' /\ mail' \in [Tabs -> Nat] /\ RequestOK' /\ AnswersOK'
      BY <1>a, <2>3
    <3>2. QED
      BY <1>1, <2>1, <2>2, <3>1 DEF ReceiveSession, TypeOK, Issued, server, form, bounds
  <2>4. CASE /\ phase' = [phase EXCEPT ![t] = "checking"]
             /\ UNCHANGED <<op, subject, answer, cache, fetch, mail, told>>
    <3>1. RequestOK' /\ AnswersOK'
      BY <1>0, <2>4 DEF Phases
    <3>2. QED
      BY <1>1, <2>1, <2>2, <2>4, <3>1
         DEF ReceiveSession, TypeOK, Issued, server, cache, fetch, form, bounds
  <2>5. QED
    BY <1>1, <2>3, <2>4 DEF ReceiveSession
<1>5. ASSUME NEW t \in Tabs, CheckMe(t) \/ Retry(t) PROVE TypeOK' /\ Issued'
  <2>1. CASE Refresh(t, cookie)
    <3>1. FetchOK' /\ CacheOK' /\ mail' \in [Tabs -> Nat] /\ RequestOK' /\ AnswersOK'
      BY <1>a, <2>1
    <3>2. UNCHANGED <<server, cookie, attempt, form, bounds>>
      BY <1>5 DEF CheckMe, Retry
    <3>3. QED
      BY <3>1, <3>2 DEF TypeOK, Issued, server, form, bounds
  <2>2. CASE CheckMe(t) /\ Rest(t) /\ UNCHANGED <<cache, fetch, mail, told>>
    <3>1. RequestOK' /\ AnswersOK'
      BY <2>2, RestTyped
    <3>2. QED
      BY <2>2, <3>1 DEF CheckMe, TypeOK, Issued, server, cache, fetch, form, bounds
  <2>3. QED
    BY <1>5, <2>1, <2>2 DEF CheckMe, Retry
<1>6. ASSUME NEW t \in Tabs, CheckFails(t) PROVE TypeOK' /\ Issued'
  <2>1. RequestOK' /\ AnswersOK'
    BY <1>6, RestTyped DEF CheckFails
  <2>2. faults' \in Nat /\ commands' = commands
    BY <1>6 DEF CheckFails, Fault, TypeOK
  <2>3. QED
    BY <1>6, <2>1, <2>2 DEF CheckFails, TypeOK, Issued, server, cache, fetch, form
<1>2. ASSUME NEW t \in Tabs, ReceiveEnd(t) PROVE TypeOK' /\ Issued'
  <2>1. cookie' \in Holder
    BY <1>2, SetsCookieTyped DEF ReceiveEnd
  <2>2. FetchOK' /\ CacheOK' /\ mail' \in [Tabs -> Nat]
    BY <1>2, CancelTyped, ForgetTyped, PostTyped DEF ReceiveEnd
  <2>3. RequestOK' /\ AnswersOK'
    BY <1>2, RestTyped DEF ReceiveEnd
  <2>4. QED
    BY <1>2, <2>1, <2>2, <2>3 DEF ReceiveEnd, TypeOK, Issued, server, form, bounds
<1>3. ASSUME NEW t \in Tabs, ReceiveSave(t) PROVE TypeOK' /\ Issued'
  <2>1. subject[t] \in Someone /\ answer[t] = 2
    BY <1>3 DEF ReceiveSave, TypeOK, Issued
  <2>2. formOf' \in [Tabs -> Someone] /\ formVersion' \in [Tabs -> {1, 2}]
    BY <1>3, <2>1 DEF ReceiveSave, TypeOK
  <2>3. RequestOK' /\ AnswersOK'
    BY <1>3, RestTyped DEF ReceiveSave
  <2>4. QED
    BY <1>3, <2>2, <2>3 DEF ReceiveSave, TypeOK, Issued, server, cache, fetch, bounds
<1>4. ASSUME NEW t \in Tabs, Lose(t) PROVE TypeOK' /\ Issued'
  <2>1. cookie' \in Holder
    BY <1>4, SetsCookieTyped DEF Lose, TypeOK
  <2>2. op[t] = "login" => answer[t] \in Holder
    BY <1>0 DEF Holder
  <2>3. attempt' \in [Tabs -> Holder]
    BY <1>4, <2>2 DEF Lose, TypeOK
  <2>4. RequestOK' /\ AnswersOK'
    BY <1>4, RestTyped DEF Lose
  <2>5. faults' \in Nat /\ commands' = commands
    BY <1>4 DEF Lose, Fault, TypeOK
  <2>6. QED
    BY <1>4, <2>1, <2>3, <2>4, <2>5 DEF Lose, TypeOK, Issued, server, cache, fetch, form
<1>7. QED
  BY <1>1, <1>2, <1>3, <1>4, <1>5, <1>6

(* Type correctness: the server, the cookie and the tabs keep their        *)
(* shapes, and no more sessions are issued than commands were sent.        *)
THEOREM TypeCorrect == Spec => [](TypeOK /\ Issued)
<1>1. Init => TypeOK /\ Issued
  <2> SUFFICES ASSUME Init PROVE TypeOK /\ Issued
    OBVIOUS
  <2>1. 1 \in Sessions
    BY SessionAssumption DEF Sessions
  <2>2. TypeOK
    <3>1. /\ issued \in Nat /\ owner \in [Sessions -> Someone] /\ open \subseteq Sessions
          /\ verified \in Holder /\ profile \in [Accounts -> {1, 2}] /\ cookie \in Holder
      BY <2>1, ZeroAndNone DEF Init, Someone, Holder
    <3>2. QED
      BY <3>1, ZeroAndNone DEF Init, TypeOK, Fetching, Phases, Ops
  <2>3. Issued
    BY SessionAssumption DEF Init, Issued
  <2>4. QED
    BY <2>2, <2>3
<1>2. TypeOK /\ Issued /\ [Next]_vars => TypeOK' /\ Issued'
  <2> SUFFICES ASSUME TypeOK, Issued, [Next]_vars PROVE TypeOK' /\ Issued'
    OBVIOUS
  <2>1. CASE UNCHANGED vars
    BY <2>1 DEF TypeOK, Issued, vars, server, cache, fetch, request, form, bounds
  <2>2. QED
    BY <2>1, QueriesTyped, CommandsTyped, EditorTyped, AnswersTyped
       DEF Next, Fetches, SignsIn, SignsOut, Edits, Receive
<1>3. QED
  BY <1>1, <1>2, PTL DEF Spec

-----------------------------------------------------------------------------
(* What had ended when a tab handled a notice stays ended, and neither the *)
(* tab nor a fetch under way in it has its token.                          *)
Told ==
  /\ open \subseteq 1 .. issued
  /\ \A t \in Tabs : /\ told[t] \subseteq (1 .. issued) \ open
                     /\ token[t] \notin told[t] /\ gotToken[t] \notin told[t]

(* Sessions are opened under fresh numbers only.                           *)
LEMMA OpenSteps ==
  ASSUME [Next]_vars
  PROVE  \/ UNCHANGED <<issued, open>>
         \/ issued' = issued /\ open' \subseteq open
         \/ issued' = issued + 1 /\ open' \subseteq open \cup {issued + 1}
<1>1. ASSUME NEW t \in Tabs,
             \/ Poll(t) \/ AskCsrf(t) \/ Install(t) \/ FetchFails(t) \/ ReadNotice(t)
             \/ OpenEditor(t) \/ LeaveEditor(t)
             \/ ReceiveSession(t) \/ CheckMe(t) \/ CheckFails(t) \/ Retry(t)
             \/ ReceiveEnd(t) \/ ReceiveSave(t) \/ Lose(t)
      PROVE  UNCHANGED server
  BY <1>1 DEF Poll, AskCsrf, Install, FetchFails, ReadNotice, OpenEditor, LeaveEditor,
              ReceiveSession, CheckMe, CheckFails, Retry, ReceiveEnd, ReceiveSave, Lose
<1>2. ASSUME NEW a, IssueSession(a)
      PROVE  issued' = issued + 1 /\ open' \subseteq open \cup {issued + 1}
  BY <1>2 DEF IssueSession
<1>3. ASSUME NEW t \in Tabs, NEW a \in Accounts, Login(t, a)
      PROVE  UNCHANGED server \/ IssueSession(a)
  BY <1>3 DEF Login, CreateSession
<1>4. ASSUME NEW t \in Tabs, OpenLink(t) PROVE UNCHANGED server \/ IssueSession(Registered)
  BY <1>4 DEF OpenLink, VerifyEmail
<1>5. ASSUME NEW t \in Tabs, Logout(t) PROVE issued' = issued /\ open' \subseteq open
  BY <1>5 DEF Logout, DeleteSession
<1>6. ASSUME NEW t \in Tabs, NEW a \in Accounts, Reset(t, a)
      PROVE  issued' = issued /\ open' \subseteq open
  BY <1>6 DEF Reset, ConfirmReset
<1>7. ASSUME NEW t \in Tabs, Save(t) PROVE UNCHANGED <<issued, open>>
  BY <1>7 DEF Save
<1>8. ASSUME NEW s \in Sessions, Expire(s) PROVE issued' = issued /\ open' \subseteq open
  BY <1>8 DEF Expire
<1>9. CASE UNCHANGED vars
  BY <1>9 DEF vars, server
<1>10. QED
  BY <1>1, <1>2, <1>3, <1>4, <1>5, <1>6, <1>7, <1>8, <1>9
     DEF Next, Fetches, SignsIn, SignsOut, Edits, Receive, server

(* What a tab knows either passes on within it, comes from the live        *)
(* session of the cookie, or is forgotten together with all that ended.    *)
TellStep(t) ==
  \/ /\ told'[t] = told[t] /\ token'[t] = token[t]
     /\ gotToken'[t] \in {gotToken[t], 0}
  \/ /\ told'[t] = told[t] /\ token'[t] = token[t]
     /\ gotToken'[t] \in open /\ UNCHANGED server
  \/ /\ told'[t] = told[t] /\ token'[t] = gotToken[t] /\ gotToken'[t] = 0
  \/ /\ told'[t] = Ended /\ token'[t] = 0 /\ gotToken'[t] = 0 /\ UNCHANGED server

LEMMA TellSteps ==
  ASSUME TypeOK, [Next]_vars, NEW t \in Tabs
  PROVE  TellStep(t)
<1>0. /\ told \in [Tabs -> SUBSET Sessions] /\ token \in [Tabs -> Holder]
      /\ gotToken \in [Tabs -> Holder]
  BY DEF TypeOK
<1>1. ASSUME NEW u \in Tabs, Poll(u) PROVE TellStep(t)
  BY <1>0, <1>1 DEF Poll, Ask, cache, TellStep
<1>2. ASSUME NEW u \in Tabs, AskCsrf(u) PROVE TellStep(t)
  BY <1>0, <1>2 DEF AskCsrf, cache, TellStep
<1>3. ASSUME NEW u \in Tabs, Install(u) PROVE TellStep(t)
  BY <1>0, <1>3 DEF Install, Cancel, TellStep
<1>4. ASSUME NEW u \in Tabs, FetchFails(u) PROVE TellStep(t)
  BY <1>0, <1>4 DEF FetchFails, Cancel, TellStep
<1>5. ASSUME NEW u \in Tabs, Forget(u), UNCHANGED server,
             Cancel(u) \/ \E c : Ask(u, c)
      PROVE  TellStep(t)
  BY <1>0, <1>5 DEF Forget, Cancel, Ask, TellStep
<1>6. ASSUME NEW u \in Tabs, ReadNotice(u) PROVE TellStep(t)
  BY <1>5, <1>6 DEF ReadNotice
<1>7. ASSUME NEW u \in Tabs, ReceiveEnd(u) PROVE TellStep(t)
  BY <1>5, <1>7 DEF ReceiveEnd
<1>8. ASSUME UNCHANGED <<told, token, gotToken>> PROVE TellStep(t)
  BY <1>8 DEF TellStep
<1>9. ASSUME NEW u \in Tabs, ReceiveSession(u) PROVE TellStep(t)
  <2>1. CASE Refresh(u, SetsCookie(u))
    BY <1>5, <1>9, <2>1 DEF ReceiveSession, Refresh
  <2>2. CASE UNCHANGED <<cache, fetch, mail, told>>
    BY <1>8, <2>2 DEF cache, fetch
  <2>3. QED
    BY <1>9, <2>1, <2>2 DEF ReceiveSession
<1>17. ASSUME NEW u \in Tabs, CheckMe(u) \/ Retry(u) PROVE TellStep(t)
  <2>1. CASE Refresh(u, cookie)
    BY <1>5, <1>17, <2>1 DEF CheckMe, Retry, Refresh
  <2>2. CASE UNCHANGED <<cache, fetch, mail, told>>
    BY <1>8, <2>2 DEF cache, fetch
  <2>3. QED
    BY <1>17, <2>1, <2>2 DEF CheckMe, Retry
<1>10. ASSUME NEW u \in Tabs, ReceiveSave(u) \/ Lose(u) \/ CheckFails(u) \/ OpenEditor(u) \/ LeaveEditor(u)
       PROVE  TellStep(t)
  BY <1>8, <1>10 DEF ReceiveSave, Lose, CheckFails, OpenEditor, LeaveEditor, cache, fetch
<1>11. ASSUME NEW u \in Tabs, NEW c, NEW a, NEW x, Send(u, c, a, x) PROVE TellStep(t)
  BY <1>8, <1>11 DEF Send, cache, fetch
<1>12. ASSUME NEW u \in Tabs, OpenLink(u) \/ Logout(u) \/ Save(u) PROVE TellStep(t)
  BY <1>11, <1>12 DEF OpenLink, VerifyEmail, Logout, Save
<1>13. ASSUME NEW u \in Tabs, NEW a \in Accounts, Login(u, a) \/ Reset(u, a) PROVE TellStep(t)
  BY <1>11, <1>13 DEF Login, CreateSession, Reset
<1>14. ASSUME NEW s \in Sessions, Expire(s) PROVE TellStep(t)
  BY <1>8, <1>14 DEF Expire, cache, fetch
<1>15. CASE UNCHANGED vars
  BY <1>8, <1>15 DEF vars, cache, fetch
<1>16. QED
  BY <1>1, <1>2, <1>3, <1>4, <1>6, <1>7, <1>9, <1>10, <1>12, <1>13, <1>14, <1>15, <1>17
     DEF Next, Fetches, SignsIn, SignsOut, Edits, Receive

LEMMA ToldKept ==
  ASSUME TypeOK, Told, [Next]_vars
  PROVE  Told'
<1>0. issued \in Nat /\ open \subseteq 1 .. issued
  BY DEF TypeOK, Told
<1>1. open' \subseteq 1 .. issued'
  <2>1. CASE issued' \in {issued} /\ open' \subseteq open
    BY <1>0, <2>1
  <2>2. CASE issued' = issued + 1 /\ open' \subseteq open \cup {issued + 1}
    <3>1. ASSUME NEW s \in open' PROVE s \in 1 .. issued'
      BY <1>0, <2>2, <3>1
    <3>2. QED
      BY <3>1
  <2>3. QED
    BY <2>1, <2>2, OpenSteps
<1>2. ASSUME NEW t \in Tabs
      PROVE  /\ told'[t] \subseteq (1 .. issued') \ open'
             /\ token'[t] \notin told'[t] /\ gotToken'[t] \notin told'[t]
  <2>1. /\ told[t] \subseteq (1 .. issued) \ open
        /\ token[t] \notin told[t] /\ gotToken[t] \notin told[t]
    BY DEF Told
  <2>2. told[t] \subseteq (1 .. issued') \ open' /\ 0 \notin told[t]
    BY <1>0, <2>1, OpenSteps
  <2>3. Ended \subseteq (1 .. issued) \ open
    BY <1>0 DEF Ended, Sessions
  <2>4. CASE told'[t] = Ended /\ token'[t] = 0 /\ gotToken'[t] = 0 /\ UNCHANGED server
    BY <2>3, <2>4 DEF server
  <2>5. CASE told'[t] = told[t]
    BY <2>1, <2>2, <2>5, TellSteps DEF TellStep
  <2>6. QED
    BY <2>4, <2>5, TellSteps DEF TellStep
<1>3. QED
  BY <1>1, <1>2 DEF Told

(* A tab that has handled a notice never shows the token of a session that *)
(* had ended by then, whatever its fetches and commands bring back.        *)
THEOREM EndedHidden == Spec => []EndedStaysHidden
<1>1. Init => Told
  BY DEF Init, Told
<1>2. TypeOK /\ Told /\ [Next]_vars => Told'
  BY ToldKept
<1>3. Told => EndedStaysHidden
  BY DEF Told, EndedStaysHidden
<1>4. QED
  BY <1>1, <1>2, <1>3, TypeCorrect, PTL DEF Spec

-----------------------------------------------------------------------------
(* Who can end a live session, command by command.                         *)
LEMMA EndsOwn ==
  ASSUME [Next]_vars, NEW s \in open \ open'
  PROVE  Expire(s) \/ \E t \in Tabs : EndsByOwner(t, s)
<1>1. ASSUME NEW t \in Tabs,
             \/ Poll(t) \/ AskCsrf(t) \/ Install(t) \/ FetchFails(t) \/ ReadNotice(t)
             \/ OpenEditor(t) \/ LeaveEditor(t) \/ Save(t)
             \/ ReceiveSession(t) \/ CheckMe(t) \/ CheckFails(t) \/ Retry(t)
             \/ ReceiveEnd(t) \/ ReceiveSave(t) \/ Lose(t)
      PROVE  FALSE
  BY <1>1 DEF Poll, AskCsrf, Install, FetchFails, ReadNotice, OpenEditor, LeaveEditor, Save,
              ReceiveSession, CheckMe, CheckFails, Retry, ReceiveEnd, ReceiveSave, Lose, server
<1>2. ASSUME NEW a, IssueSession(a) PROVE s = cookie /\ owner[s] = a
  BY <1>2 DEF IssueSession, Replaced
<1>3. ASSUME NEW t \in Tabs, NEW a \in Accounts, Login(t, a) PROVE EndsByOwner(t, s)
  <2>1. IssueSession(a)
    BY <1>3 DEF Login, CreateSession, server
  <2>2. QED
    BY <1>2, <1>3, <2>1 DEF EndsByOwner
<1>4. ASSUME NEW t \in Tabs, OpenLink(t) PROVE EndsByOwner(t, s)
  <2>1. IssueSession(Registered)
    BY <1>4 DEF OpenLink, VerifyEmail, server
  <2>2. QED
    BY <1>2, <1>4, <2>1 DEF EndsByOwner
<1>5. ASSUME NEW t \in Tabs, Logout(t) PROVE EndsByOwner(t, s)
  <2>1. token[t] = s
    BY <1>5 DEF Logout, DeleteSession, CsrfPasses
  <2>2. QED
    BY <1>5, <2>1 DEF EndsByOwner
<1>6. ASSUME NEW t \in Tabs, NEW a \in Accounts, Reset(t, a) PROVE EndsByOwner(t, s)
  <2>1. owner[s] = a
    BY <1>6 DEF Reset, ConfirmReset
  <2>2. QED
    BY <1>6, <2>1 DEF EndsByOwner
<1>7. ASSUME NEW z \in Sessions, Expire(z) PROVE Expire(s)
  <2>1. s = z
    BY <1>7 DEF Expire
  <2>2. QED
    BY <1>7, <2>1
<1>8. CASE UNCHANGED vars
  BY <1>8 DEF vars, server
<1>9. QED
  BY <1>1, <1>3, <1>4, <1>5, <1>6, <1>7, <1>8
     DEF Next, Fetches, SignsIn, SignsOut, Edits, Receive

(* A live session is ended by its own user or by its age: a tab that shows *)
(* somebody else cannot log it out after the cookie changed hands.         *)
THEOREM OwnSessions == Spec => OnlyOwnSessionsEnd
<1>1. [Next]_vars
        => [\A s \in open \ open' : Expire(s) \/ \E t \in Tabs : EndsByOwner(t, s)]_vars
  BY EndsOwn
<1>2. QED
  BY <1>1, PTL DEF Spec, OnlyOwnSessionsEnd
=============================================================================
