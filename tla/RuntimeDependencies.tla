------------------------- MODULE RuntimeDependencies -------------------------
(***************************************************************************)
(* What the processes keep in Redis and ask of their dependencies:         *)
(*                                                                         *)
(*  - backend/src/worker/worker.service.ts: the worker's heartbeat, a key  *)
(*    with a time to live, written only when every dependency answered.    *)
(*  - backend/src/platform/health: the probes of runtime-dependencies.ts,  *)
(*    which concurrent readiness requests share, and their verdict.        *)
(*  - backend/src/modules/identity/infrastructure/rate-limit.service.ts    *)
(*    and files/infrastructure/upload-rate-limiter.ts: counters with a     *)
(*    window, one subject of which is modelled.                            *)
(*                                                                         *)
(* The heartbeat is timed: a tick is one unit, a step that has a deadline  *)
(* is taken no later, and may be taken at once.  The window of a counter   *)
(* has no such relation to anything and just ends.  A dependency hangs and *)
(* recovers; a request to one that hangs runs into its timeout.            *)
(***************************************************************************)
EXTENDS Naturals

CONSTANTS
  Services,  \* what every process depends on: postgres, redis, objectStorage
  Probed,    \* what readiness asks about: services and the worker
  Readers,   \* readiness requests under way at the API
  Callers,   \* rate-limited requests under way, all of one subject
  INTERVAL, TIMEOUT, TTL, \* heartbeat interval, dependency timeout, heartbeat TTL
  MAX_REQUESTS, \* requests the limiter admits in a window
  MaxOutages  \* bound: hanging dependencies, crashes, errors

ASSUME RuntimeAssumption ==
  /\ "redis" \in Services /\ "worker" \notin Services
  /\ Probed \subseteq Services \cup {"worker"}
  /\ INTERVAL \in Nat \ {0} /\ TIMEOUT \in Nat \ {0}
  /\ TTL \in Nat /\ TTL > INTERVAL + 2 * TIMEOUT
  /\ MAX_REQUESTS \in Nat \ {0} /\ MaxOutages \in Nat

VARIABLES
  hung,      \* services that do not answer
  outages,
  heartbeat, \* ticks the heartbeat key has left, 0 when there is none
  late,      \* "yes": a SET whose answer was not awaited is still to come
  step,      \* the worker
  elapsed,   \* ticks since its step began
  written,   \* "yes": the SET of this step was executed
  beating,   \* "yes": this worker has written its key
  stopping   \* "yes": the worker has been told to stop

VARIABLES
  closing,   \* "yes": the API is closing
  answer,    \* per reader and dependency: nothing, asked, up or down
  verdict    \* per reader: the readiness it was told last

VARIABLES
  count,     \* the counter of the subject, up to one more than matters
  window,    \* "open": the counter has an expiry
  call       \* per caller: idle, about to set the expiry, or answered

refresh == <<step, elapsed, written, beating, stopping>>
key == <<heartbeat, late>>
api == <<closing, answer, verdict>>
limit == <<count, window, call>>
runtimeVars == <<hung, outages, key, refresh, api, limit>>

(* connect and PING have a timeout each, and only a new process connects.  *)
Deadline == [starting |-> 2 * TIMEOUT, checking |-> TIMEOUT, setting |-> TIMEOUT,
             waiting |-> INTERVAL]

RuntimeTypeOK ==
  /\ hung \subseteq Services /\ outages \in Nat
  /\ heartbeat \in 0 .. TTL /\ late \in {"no", "yes"}
  /\ step \in {"starting", "checking", "setting", "waiting", "off"}
  /\ elapsed \in Nat /\ (step # "off" => elapsed <= Deadline[step])
  /\ written \in {"no", "yes"} /\ beating \in {"no", "yes"} /\ stopping \in {"no", "yes"}
  /\ closing \in {"no", "yes"}
  /\ answer \in [Readers \X Probed -> {"none", "asked", "up", "down"}]
  /\ verdict \in [Readers -> {"none", "waiting", "ready", "degraded", "unavailable"}]
  /\ count \in 0 .. MAX_REQUESTS + 1 /\ window \in {"none", "open"}
  /\ call \in [Callers -> {"idle", "admit", "refuse", "admitted", "refused"}]

RuntimeInit ==
  /\ hung = {} /\ outages = 0
  /\ heartbeat = 0 /\ late = "no"
  /\ step = "starting" /\ elapsed = 0 /\ written = "no" /\ beating = "no" /\ stopping = "no"
  /\ closing = "no"
  /\ answer = [a \in Readers \X Probed |-> "none"] /\ verdict = [q \in Readers |-> "none"]
  /\ count = 0 /\ window = "none" /\ call = [c \in Callers |-> "idle"]

-----------------------------------------------------------------------------
(* The environment.                                                        *)

Outage == outages < MaxOutages /\ outages' = outages + 1

Hang(s) ==
  /\ s \notin hung /\ Outage
  /\ hung' = hung \cup {s}
  /\ UNCHANGED <<key, refresh, api, limit>>

Recover(s) ==
  /\ s \in hung
  /\ hung' = hung \ {s}
  /\ UNCHANGED <<outages, key, refresh, api, limit>>

(* Time passes unless the worker's step is due.                            *)
Tick ==
  /\ step # "off" => elapsed < Deadline[step]
  /\ elapsed' = IF step = "off" THEN 0 ELSE elapsed + 1
  /\ heartbeat' = IF heartbeat > 0 THEN heartbeat - 1 ELSE 0
  /\ UNCHANGED <<hung, outages, late, step, written, beating, stopping, api, limit>>

(* Redis executes the SET it had received before it hung.                  *)
ExecuteLate ==
  /\ late = "yes" /\ "redis" \notin hung
  /\ late' = "no" /\ heartbeat' = TTL
  /\ UNCHANGED <<hung, outages, refresh, api, limit>>

-----------------------------------------------------------------------------
(* The worker.                                                             *)

Enter(label) == step' = label /\ elapsed' = 0 /\ written' = "no"

(* Slip: a worker that was told to stop goes on.                           *)
RescheduleAlways == Enter("waiting") /\ UNCHANGED beating

(* finally of the refresh: the next one is scheduled, or close() follows.  *)
Reschedule ==
  IF stopping = "yes" THEN Enter("off") /\ beating' = "no"
  ELSE Enter("waiting") /\ UNCHANGED beating

(* The timer fires.                                                        *)
BeginRefresh ==
  /\ step = "waiting" /\ elapsed = INTERVAL
  /\ Enter("checking")
  /\ UNCHANGED <<hung, outages, key, beating, stopping, api, limit>>

(* All three probes come back up, so writeWorkerHeartbeat finds Redis      *)
(* connected and sends its SET.                                            *)
ChecksPass ==
  /\ step \in {"starting", "checking"} /\ hung = {}
  /\ Enter("setting")
  /\ UNCHANGED <<hung, outages, key, beating, stopping, api, limit>>

(* Slip: the key is only written when there is none (NX).                  *)
SetIfAbsent == heartbeat' = IF heartbeat = 0 THEN TTL ELSE heartbeat

SetExpiring == heartbeat' = TTL

ExecuteSet ==
  /\ step = "setting" /\ written = "no" /\ "redis" \notin hung
  /\ written' = "yes" /\ beating' = "yes"
  /\ SetExpiring
  /\ UNCHANGED <<hung, outages, late, step, elapsed, stopping, api, limit>>

Acknowledge ==
  /\ step = "setting" /\ written = "yes" /\ "redis" \notin hung
  /\ Reschedule
  /\ UNCHANGED <<hung, outages, key, stopping, api, limit>>

(* A probe is down, or the write fails; while Redis hangs its SET may be   *)
(* on the way.                                                             *)
RefreshFails ==
  /\ \/ step \in {"starting", "checking"} /\ hung # {} /\ UNCHANGED late
     \/ /\ step = "setting" /\ "redis" \in hung
        /\ late' = IF written = "no" THEN "yes" ELSE late
  /\ Reschedule
  /\ UNCHANGED <<hung, outages, heartbeat, stopping, api, limit>>

(* onApplicationShutdown: a timer is cleared, a refresh is waited for.     *)
(* The hook is in place once the first refresh has ended; before that the  *)
(* signal kills the process.                                               *)
Stop ==
  /\ step \in {"checking", "setting", "waiting"} /\ stopping = "no"
  /\ stopping' = "yes"
  /\ IF step = "waiting" THEN Enter("off") /\ beating' = "no"
       ELSE UNCHANGED <<step, elapsed, written, beating>>
  /\ UNCHANGED <<hung, outages, key, api, limit>>

(* A SET that was sent may outlive the process.                            *)
Crash ==
  /\ step # "off" /\ Outage
  /\ Enter("off") /\ beating' = "no"
  /\ late' \in IF step = "setting" /\ written = "no" THEN {late, "yes"} ELSE {late}
  /\ UNCHANGED <<hung, heartbeat, stopping, api, limit>>

(* onApplicationBootstrap of the process that replaces it.                 *)
Restart ==
  /\ step = "off" /\ stopping = "no"
  /\ Enter("starting")
  /\ UNCHANGED <<hung, outages, key, beating, stopping, api, limit>>

-----------------------------------------------------------------------------
(* Readiness.                                                              *)

Up(d) == IF d = "worker" THEN "redis" \notin hung /\ heartbeat > 0 ELSE d \notin hung

(* Slip: a probe does not look at #closing once it is under way.           *)
OutcomeOfProbe(d) == IF Up(d) THEN "up" ELSE "down"

(* checkPostgres, checkRedis, checkObjectStorage, checkWorkerHeartbeat.    *)
Outcome(d) == IF Up(d) /\ closing = "no" THEN "up" ELSE "down"

(* readiness()                                                             *)
Status(q, a) ==
  IF \E d \in Probed : d = "postgres" /\ a[<<q, d>>] = "down" THEN "unavailable"
  ELSE IF \E d \in Probed : a[<<q, d>>] = "down" THEN "degraded"
  ELSE "ready"

(* Every reader that has all its answers is told at once.                  *)
Tell(a) ==
  LET done == {q \in Readers : \A d \in Probed : a[<<q, d>>] \in {"up", "down"}}
  IN  /\ verdict' = [q \in Readers |-> IF q \in done THEN Status(q, a) ELSE verdict[q]]
      /\ answer' = [p \in Readers \X Probed |-> IF p[1] \in done THEN "none" ELSE a[p]]

(* A request joins the probes under way and starts the others; a probe     *)
(* that finds the API closing is down at once.                             *)
Ask(q) ==
  /\ \A d \in Probed : answer[<<q, d>>] = "none"
  /\ IF closing = "yes"
       THEN /\ verdict' = [verdict EXCEPT ![q] = Status(q, [p \in Readers \X Probed |-> "down"])]
            /\ UNCHANGED answer
       ELSE /\ verdict' = [verdict EXCEPT ![q] = "waiting"]
            /\ answer' = [p \in Readers \X Probed |-> IF p[1] = q THEN "asked" ELSE answer[p]]
  /\ UNCHANGED <<hung, outages, key, refresh, closing, limit>>

(* A probe ends for all that wait for it: SingleFlight.                    *)
EndProbe(d) ==
  /\ \E q \in Readers : answer[<<q, d>>] = "asked"
  /\ Tell([p \in Readers \X Probed |->
       IF p[2] = d /\ answer[p] = "asked" THEN Outcome(d) ELSE answer[p]])
  /\ UNCHANGED <<hung, outages, key, refresh, closing, limit>>

(* close(): what is under way is aborted, and ends by itself.              *)
Close ==
  /\ closing = "no" /\ closing' = "yes"
  /\ UNCHANGED <<hung, outages, key, refresh, answer, verdict, limit>>

-----------------------------------------------------------------------------
(* The limiter.                                                            *)

Over(n) == n > MAX_REQUESTS

Counted == IF Over(count) THEN count ELSE count + 1

(* Slip: only the first request of a window sets its expiry.               *)
ConsumeFirstExpires(c) ==
  /\ call[c] = "idle" /\ "redis" \notin hung
  /\ count' = Counted
  /\ call' = [call EXCEPT ![c] =
       IF count = 0 THEN IF Over(Counted) THEN "refuse" ELSE "admit"
       ELSE IF Over(Counted) THEN "refused" ELSE "admitted"]
  /\ UNCHANGED <<hung, outages, key, refresh, api, window>>

(* INCR and TTL in one transaction; a counter without expiry is given one  *)
(* by a second call before the request is answered.                        *)
Consume(c) ==
  /\ call[c] = "idle" /\ "redis" \notin hung
  /\ count' = Counted
  /\ call' = [call EXCEPT ![c] =
       IF window = "none" THEN IF Over(Counted) THEN "refuse" ELSE "admit"
       ELSE IF Over(Counted) THEN "refused" ELSE "admitted"]
  /\ UNCHANGED <<hung, outages, key, refresh, api, window>>

(* EXPIRE, of a key that may have ended meanwhile.                         *)
SetWindow(c) ==
  /\ call[c] \in {"admit", "refuse"} /\ "redis" \notin hung
  /\ window' = IF count > 0 THEN "open" ELSE window
  /\ call' = [call EXCEPT ![c] = IF call[c] = "admit" THEN "admitted" ELSE "refused"]
  /\ UNCHANGED <<hung, outages, key, refresh, api, count>>

(* The process dies, or loses its connection (503), between the two calls. *)
LoseCall(c) ==
  /\ call[c] \in {"admit", "refuse"} /\ Outage
  /\ call' = [call EXCEPT ![c] = "idle"]
  /\ UNCHANGED <<hung, key, refresh, api, count, window>>

(* The caller comes back with its next request.                            *)
Return(c) ==
  /\ call[c] \in {"admitted", "refused"}
  /\ call' = [call EXCEPT ![c] = "idle"]
  /\ UNCHANGED <<hung, outages, key, refresh, api, count, window>>

WindowEnds ==
  /\ window = "open"
  /\ window' = "none" /\ count' = 0
  /\ UNCHANGED <<hung, outages, key, refresh, api, call>>

-----------------------------------------------------------------------------
Works ==
  \/ BeginRefresh \/ ChecksPass \/ ExecuteSet \/ Acknowledge \/ RefreshFails
  \/ Restart

RuntimeNext ==
  \/ Tick \/ ExecuteLate \/ Works \/ Stop \/ Crash \/ Close \/ WindowEnds
  \/ \E s \in Services : Hang(s) \/ Recover(s)
  \/ \E q \in Readers : Ask(q)
  \/ \E d \in Probed : EndProbe(d)
  \/ \E c \in Callers : Consume(c) \/ SetWindow(c) \/ LoseCall(c) \/ Return(c)

RuntimeSpec == RuntimeInit /\ [][RuntimeNext]_runtimeVars

(* Timers and timeouts fire, Redis executes what it is sent and expires    *)
(* its keys.  Nothing makes a client ask.                                  *)
FairRuntimeSpec ==
  /\ RuntimeSpec
  /\ WF_runtimeVars(Tick) /\ WF_runtimeVars(Works)
  /\ WF_runtimeVars(ExecuteLate) /\ WF_runtimeVars(WindowEnds)
  /\ \A c \in Callers : WF_runtimeVars(SetWindow(c))

-----------------------------------------------------------------------------
(* While every dependency answers within its timeout, the key of a worker  *)
(* that has once written it never lapses while the worker waits or checks: *)
(* the TTL that the schema asks for, above INTERVAL + 2 * TIMEOUT, always  *)
(* lasts until the next SET is sent.  The answer to the last SET and the   *)
(* execution of the next one may take a timeout each, which the schema     *)
(* counts once: the key may lapse while its SET is under way, and only     *)
(* unless the TTL is above INTERVAL + 3 * TIMEOUT.                         *)
Renewing == step = "setting" /\ written = "no"

HealthyWorkerVisible ==
  outages = 0 /\ beating = "yes" =>
    \/ heartbeat > 0
    \/ /\ Renewing /\ elapsed >= TTL - INTERVAL - 2 * TIMEOUT
       /\ TTL <= INTERVAL + 3 * TIMEOUT

(* A request for readiness that was under way when the API began to close  *)
(* is never answered "ready", whichever probes it shares with others and   *)
(* however many of them had come back.                                     *)
ReadyOnlyOpen ==
  [][\A q \in Readers :
       verdict[q] # "ready" /\ verdict'[q] = "ready" => closing = "no"]_runtimeVars

(* A worker that was told to stop stops, whatever its refresh was doing,   *)
(* and its key is gone for good: no SET of its own, late or not, makes it  *)
(* look alive again for ever.                                              *)
StoppedWorkerForgotten == stopping = "yes" ~> [](step = "off" /\ heartbeat = 0)

(* Nobody is locked out: a subject that keeps asking is admitted again and *)
(* again, although the process that counted its first request died before  *)
(* it gave the counter an expiry.                                          *)
Becomes(outcome) == \E c \in Callers : call[c] # outcome /\ call'[c] = outcome

NobodyLockedOut ==
  []<><<Becomes("refused")>>_runtimeVars => []<><<Becomes("admitted")>>_runtimeVars

=============================================================================
