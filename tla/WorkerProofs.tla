---------------------------- MODULE WorkerProofs ----------------------------
(***************************************************************************)
(* Proofs about the worker process: its heartbeat and the dependencies it  *)
(* shares with the API (RuntimeDependencies), then its files loop          *)
(* (MediaPipeline).  The two share no state and are proved one after the   *)
(* other, each for any value of its constants.                             *)
(***************************************************************************)
EXTENDS RuntimeDependencies, MediaPipeline, TLAPS

-----------------------------------------------------------------------------
(* The heartbeat, readiness and the limiter.                               *)

USE DEF runtimeVars, refresh, key, api, limit

LEMMA DeadlineType == Deadline["starting"] = 2 * TIMEOUT /\ Deadline["checking"] = TIMEOUT
                      /\ Deadline["setting"] = TIMEOUT /\ Deadline["waiting"] = INTERVAL
BY DEF Deadline

LEMMA RuntimeConstants ==
  /\ INTERVAL \in Nat /\ INTERVAL > 0 /\ TIMEOUT \in Nat /\ TIMEOUT > 0
  /\ TTL \in Nat /\ TTL > INTERVAL + 2 * TIMEOUT
  /\ MAX_REQUESTS \in Nat /\ MaxOutages \in Nat
BY RuntimeAssumption DEF RuntimeAssumption

-----------------------------------------------------------------------------
(* The type invariant, one part per component.                             *)

WorkerType ==
  /\ hung \subseteq Services /\ outages \in Nat
  /\ heartbeat \in 0 .. TTL /\ late \in {"no", "yes"}
  /\ step \in {"starting", "checking", "setting", "waiting", "off"}
  /\ elapsed \in Nat /\ (step # "off" => elapsed <= Deadline[step])
  /\ written \in {"no", "yes"} /\ beating \in {"no", "yes"} /\ stopping \in {"no", "yes"}

ApiType ==
  /\ closing \in {"no", "yes"}
  /\ answer \in [Readers \X Probed -> {"none", "asked", "up", "down"}]
  /\ verdict \in [Readers -> {"none", "waiting", "ready", "degraded", "unavailable"}]

LimitType ==
  /\ count \in 0 .. MAX_REQUESTS + 1 /\ window \in {"none", "open"}
  /\ call \in [Callers -> {"idle", "admit", "refuse", "admitted", "refused"}]

LEMMA TypeParts == RuntimeTypeOK <=> WorkerType /\ ApiType /\ LimitType
BY DEF RuntimeTypeOK, WorkerType, ApiType, LimitType

LEMMA TypeInit == RuntimeInit => RuntimeTypeOK
BY RuntimeConstants, DeadlineType DEF RuntimeInit, RuntimeTypeOK

LEMMA WorkerStep == WorkerType /\ [RuntimeNext]_runtimeVars => WorkerType'
<1> SUFFICES ASSUME WorkerType, [RuntimeNext]_runtimeVars PROVE WorkerType'
  OBVIOUS
<1> USE RuntimeConstants, DeadlineType DEF WorkerType, Enter, Outage
<1>1. CASE Tick
  BY <1>1 DEF Tick
<1>2. CASE ExecuteLate
  BY <1>2 DEF ExecuteLate
<1>3. CASE Works
  <2>1. CASE BeginRefresh
    BY <2>1 DEF BeginRefresh
  <2>2. CASE ChecksPass
    BY <2>2 DEF ChecksPass
  <2>3. CASE ExecuteSet
    BY <2>3 DEF ExecuteSet, SetExpiring
  <2>4. CASE Acknowledge
    BY <2>4 DEF Acknowledge, Reschedule
  <2>5. CASE RefreshFails
    BY <2>5 DEF RefreshFails, Reschedule
  <2>6. CASE Restart
    BY <2>6 DEF Restart
  <2> QED
    BY <1>3, <2>1, <2>2, <2>3, <2>4, <2>5, <2>6 DEF Works
<1>4. CASE Stop
  BY <1>4 DEF Stop
<1>5. CASE Crash
  BY <1>5 DEF Crash
<1>6. ASSUME NEW s \in Services, Hang(s) \/ Recover(s) PROVE WorkerType'
  BY <1>6 DEF Hang, Recover
<1>7. CASE Close \/ WindowEnds
  BY <1>7 DEF Close, WindowEnds
<1>8. ASSUME NEW q \in Readers, Ask(q) PROVE WorkerType'
  BY <1>8 DEF Ask
<1>9. ASSUME NEW d \in Probed, EndProbe(d) PROVE WorkerType'
  BY <1>9 DEF EndProbe
<1>10. ASSUME NEW c \in Callers, Consume(c) \/ SetWindow(c) \/ LoseCall(c) \/ Return(c)
       PROVE WorkerType'
  BY <1>10 DEF Consume, SetWindow, LoseCall, Return
<1>11. CASE UNCHANGED runtimeVars
  BY <1>11
<1> QED
  BY <1>1, <1>2, <1>3, <1>4, <1>5, <1>6, <1>7, <1>8, <1>9, <1>10, <1>11 DEF RuntimeNext

(* No step but those of readiness changes the state of the API.            *)
LEMMA ApiSteps ==
  ASSUME [RuntimeNext]_runtimeVars
  PROVE  \/ UNCHANGED api
         \/ Close
         \/ \E q \in Readers : Ask(q)
         \/ \E d \in Probed : EndProbe(d)
BY DEF RuntimeNext, Works, Tick, ExecuteLate, BeginRefresh, ChecksPass, ExecuteSet, Acknowledge,
  RefreshFails, Restart, Stop, Crash, WindowEnds, Hang, Recover, Consume, SetWindow, LoseCall,
  Return

LEMMA StatusType ==
  \A q, a : Status(q, a) \in {"ready", "degraded", "unavailable"}
BY DEF Status

LEMMA ApiStep == ApiType /\ [RuntimeNext]_runtimeVars => ApiType'
<1> SUFFICES ASSUME ApiType, [RuntimeNext]_runtimeVars PROVE ApiType'
  OBVIOUS
<1> USE StatusType DEF ApiType
<1>1. CASE UNCHANGED api
  BY <1>1
<1>2. CASE Close
  BY <1>2 DEF Close
<1>3. ASSUME NEW q \in Readers, Ask(q) PROVE ApiType'
  <2> DEFINE down == [p \in Readers \X Probed |-> "down"]
  <2>1. UNCHANGED closing
    BY <1>3 DEF Ask
  <2>2. CASE closing = "yes"
    <3>1. verdict' = [verdict EXCEPT ![q] = Status(q, down)] /\ UNCHANGED answer
      BY <1>3, <2>2 DEF Ask
    <3>2. Status(q, down) \in {"none", "waiting", "ready", "degraded", "unavailable"}
      BY StatusType
    <3> HIDE DEF down
    <3> QED
      BY <2>1, <3>1, <3>2
  <2>3. CASE closing # "yes"
    <3>1. /\ verdict' = [verdict EXCEPT ![q] = "waiting"]
          /\ answer' = [p \in Readers \X Probed |-> IF p[1] = q THEN "asked" ELSE answer[p]]
      BY <1>3, <2>3 DEF Ask
    <3> QED
      BY <2>1, <3>1
  <2> QED
    BY <2>2, <2>3
<1>4. ASSUME NEW d \in Probed, EndProbe(d) PROVE ApiType'
  <2> DEFINE a == [p \in Readers \X Probed |->
                    IF p[2] = d /\ answer[p] = "asked" THEN Outcome(d) ELSE answer[p]]
  <2>1. a \in [Readers \X Probed -> {"none", "asked", "up", "down"}]
    BY DEF Outcome
  <2>2. Tell(a) /\ UNCHANGED closing
    BY <1>4 DEF EndProbe
  <2> HIDE DEF a
  <2> QED
    BY <2>1, <2>2 DEF Tell
<1> QED
  BY <1>1, <1>2, <1>3, <1>4, ApiSteps

(* No step but those of the limiter changes its state.                     *)
LEMMA LimitSteps ==
  ASSUME [RuntimeNext]_runtimeVars
  PROVE  \/ UNCHANGED limit
         \/ WindowEnds
         \/ \E c \in Callers : Consume(c) \/ SetWindow(c) \/ LoseCall(c) \/ Return(c)
BY DEF RuntimeNext, Works, Tick, ExecuteLate, BeginRefresh, ChecksPass, ExecuteSet, Acknowledge,
  RefreshFails, Restart, Stop, Crash, Close, Hang, Recover, Ask, EndProbe

LEMMA LimitStep == LimitType /\ [RuntimeNext]_runtimeVars => LimitType'
<1> SUFFICES ASSUME LimitType, [RuntimeNext]_runtimeVars PROVE LimitType'
  OBVIOUS
<1> USE RuntimeConstants DEF LimitType
<1>1. CASE UNCHANGED limit
  BY <1>1
<1>2. CASE WindowEnds
  BY <1>2 DEF WindowEnds
<1>3. ASSUME NEW c \in Callers, Consume(c) \/ SetWindow(c) \/ LoseCall(c) \/ Return(c)
      PROVE  LimitType'
  BY <1>3 DEF Consume, SetWindow, LoseCall, Return, Counted, Over
<1> QED
  BY <1>1, <1>2, <1>3, LimitSteps

(* Every variable stays in its type, and no step outlasts its deadline.    *)
THEOREM RuntimeTypeCorrect == RuntimeSpec => []RuntimeTypeOK
<1>1. RuntimeInit => RuntimeTypeOK
  BY TypeInit
<1>2. RuntimeTypeOK /\ [RuntimeNext]_runtimeVars => RuntimeTypeOK'
  BY WorkerStep, ApiStep, LimitStep, TypeParts DEF RuntimeTypeOK, WorkerType, ApiType, LimitType
<1> QED
  BY <1>1, <1>2, PTL DEF RuntimeSpec

-----------------------------------------------------------------------------
(* The heartbeat.  What the key has left covers, at every point of the     *)
(* loop, what the loop may still take before the next SET.                 *)

Covers ==
  /\ hung = {} /\ late = "no"
  /\ step = "starting" => beating = "no"
  /\ beating = "yes" =>
       /\ step = "waiting" => heartbeat + elapsed + TIMEOUT >= TTL
       /\ step = "checking" => heartbeat + elapsed + INTERVAL + TIMEOUT >= TTL
       /\ step = "setting" /\ written = "no" =>
            heartbeat + elapsed + INTERVAL + 2 * TIMEOUT >= TTL
       /\ step = "setting" /\ written = "yes" => heartbeat + elapsed >= TTL
       /\ step # "off"

HeartInv == outages = 0 => Covers

LEMMA HeartStep ==
  ASSUME WorkerType, HeartInv, [RuntimeNext]_runtimeVars
  PROVE  HeartInv'
<1> SUFFICES ASSUME outages' = 0 PROVE Covers'
  BY DEF HeartInv
<1> USE RuntimeConstants, DeadlineType DEF WorkerType, Enter, Outage
<1>0. outages = 0 => Covers
  BY DEF HeartInv
<1> USE DEF Covers
<1>1. CASE Tick
  BY <1>0, <1>1 DEF Tick
<1>2. CASE ExecuteLate
  BY <1>0, <1>2 DEF ExecuteLate
<1>3. CASE Works
  <2>1. CASE BeginRefresh
    BY <1>0, <2>1 DEF BeginRefresh
  <2>2. CASE ChecksPass
    BY <1>0, <2>2 DEF ChecksPass
  <2>3. CASE ExecuteSet
    BY <1>0, <2>3 DEF ExecuteSet, SetExpiring
  <2>4. CASE Acknowledge
    BY <1>0, <2>4 DEF Acknowledge, Reschedule
  <2>5. CASE RefreshFails
    BY <1>0, <2>5 DEF RefreshFails, Reschedule
  <2>6. CASE Restart
    BY <1>0, <2>6 DEF Restart
  <2> QED
    BY <1>3, <2>1, <2>2, <2>3, <2>4, <2>5, <2>6 DEF Works
<1>4. CASE Stop
  BY <1>0, <1>4 DEF Stop
<1>5. CASE Crash
  BY <1>5 DEF Crash
<1>6. ASSUME NEW s \in Services, Hang(s) \/ Recover(s) PROVE Covers'
  BY <1>0, <1>6 DEF Hang, Recover
<1>7. CASE Close \/ WindowEnds
  BY <1>0, <1>7 DEF Close, WindowEnds
<1>8. ASSUME NEW q \in Readers, Ask(q) PROVE Covers'
  BY <1>0, <1>8 DEF Ask
<1>9. ASSUME NEW d \in Probed, EndProbe(d) PROVE Covers'
  BY <1>0, <1>9 DEF EndProbe
<1>10. ASSUME NEW c \in Callers, Consume(c) \/ SetWindow(c) \/ LoseCall(c) \/ Return(c)
       PROVE Covers'
  BY <1>0, <1>10 DEF Consume, SetWindow, LoseCall, Return
<1>11. CASE UNCHANGED runtimeVars
  BY <1>0, <1>11
<1> QED
  BY <1>1, <1>2, <1>3, <1>4, <1>5, <1>6, <1>7, <1>8, <1>9, <1>10, <1>11 DEF RuntimeNext

(* For every TTL the schema accepts, the key of a worker whose             *)
(* dependencies answer in time is there until the next SET is sent, and    *)
(* may lapse during that SET only if the TTL is not above the interval and *)
(* three timeouts.                                                         *)
THEOREM HealthyWorkerStaysVisible == RuntimeSpec => []HealthyWorkerVisible
<1>1. RuntimeInit => HeartInv
  BY DEF RuntimeInit, HeartInv, Covers
<1>2. RuntimeTypeOK /\ HeartInv /\ [RuntimeNext]_runtimeVars => HeartInv'
  BY HeartStep, TypeParts
<1>3. RuntimeTypeOK /\ HeartInv => HealthyWorkerVisible
  BY RuntimeConstants, DeadlineType
    DEF RuntimeTypeOK, HeartInv, Covers, HealthyWorkerVisible, Renewing
<1> QED
  BY <1>1, <1>2, <1>3, RuntimeTypeCorrect, PTL DEF RuntimeSpec

-----------------------------------------------------------------------------
(* Readiness.  A request under way still waits for some probe, so that    *)
(* every verdict is given by the end of a probe.                           *)

StillWaiting == \A q \in Readers : \E d \in Probed : answer[<<q, d>>] \notin {"up", "down"}

LEMMA WaitingInit == Probed # {} /\ RuntimeInit => StillWaiting
BY DEF RuntimeInit, StillWaiting

(* Nothing that Tell leaves behind is complete.                            *)
LEMMA TellWaits ==
  ASSUME NEW a \in [Readers \X Probed -> {"none", "asked", "up", "down"}], Probed # {}, Tell(a)
  PROVE  StillWaiting'
<1> SUFFICES ASSUME NEW q \in Readers
             PROVE  \E d \in Probed : answer'[<<q, d>>] \notin {"up", "down"}
  BY DEF StillWaiting
<1> DEFINE done == {r \in Readers : \A d \in Probed : a[<<r, d>>] \in {"up", "down"}}
<1>1. \A d \in Probed : answer'[<<q, d>>] = IF q \in done THEN "none" ELSE a[<<q, d>>]
  BY DEF Tell
<1>2. CASE q \in done
  BY <1>1, <1>2
<1>3. CASE q \notin done
  <2>1. PICK d \in Probed : a[<<q, d>>] \notin {"up", "down"}
    BY <1>3
  <2> QED
    BY <1>1, <1>3, <2>1
<1> QED
  BY <1>2, <1>3

(* What an ending probe tells the requests that wait for it.               *)
Answered(d) == [p \in Readers \X Probed |->
  IF p[2] = d /\ answer[p] = "asked" THEN Outcome(d) ELSE answer[p]]

LEMMA AnsweredType ==
  ASSUME ApiType, NEW d \in Probed
  PROVE  Answered(d) \in [Readers \X Probed -> {"none", "asked", "up", "down"}]
BY DEF ApiType, Answered, Outcome

LEMMA WaitingStep ==
  ASSUME ApiType, StillWaiting, Probed # {}, [RuntimeNext]_runtimeVars
  PROVE  StillWaiting'
<1>1. CASE UNCHANGED api
  BY <1>1 DEF StillWaiting
<1>2. CASE Close
  BY <1>2 DEF Close, StillWaiting
<1>3. ASSUME NEW q \in Readers, Ask(q) PROVE StillWaiting'
  <2>1. CASE UNCHANGED answer
    BY <2>1 DEF StillWaiting
  <2>2. CASE answer' = [p \in Readers \X Probed |-> IF p[1] = q THEN "asked" ELSE answer[p]]
    BY <2>2 DEF StillWaiting
  <2> QED
    BY <1>3, <2>1, <2>2 DEF Ask
<1>4. ASSUME NEW d \in Probed, EndProbe(d) PROVE StillWaiting'
  <2>1. Tell(Answered(d))
    BY <1>4 DEF EndProbe, Answered
  <2> QED
    BY <2>1, AnsweredType, TellWaits
<1> QED
  BY <1>1, <1>2, <1>3, <1>4, ApiSteps

OnlyOpen ==
  \A q \in Readers : verdict[q] # "ready" /\ verdict'[q] = "ready" => closing = "no"

LEMMA ReadyStep ==
  ASSUME ApiType, StillWaiting, Probed # {}, [RuntimeNext]_runtimeVars
  PROVE  OnlyOpen
<1> SUFFICES ASSUME NEW r \in Readers, verdict[r] # "ready", verdict'[r] = "ready",
                    closing # "no"
             PROVE  FALSE
  BY DEF OnlyOpen
<1>0. closing = "yes"
  BY DEF ApiType
<1>1. CASE UNCHANGED api \/ Close
  BY <1>1 DEF Close
<1>3. ASSUME NEW q \in Readers, Ask(q) PROVE FALSE
  <2> DEFINE down == [p \in Readers \X Probed |-> "down"]
  <2>1. verdict' = [verdict EXCEPT ![q] = Status(q, down)]
    BY <1>0, <1>3 DEF Ask
  <2>2. Status(q, down) # "ready"
    <3>1. \E d \in Probed : down[<<q, d>>] = "down"
      OBVIOUS
    <3> QED
      BY <3>1 DEF Status
  <2> HIDE DEF down
  <2> QED
    BY <2>1, <2>2 DEF ApiType
<1>4. ASSUME NEW d \in Probed, EndProbe(d) PROVE FALSE
  <2> DEFINE a == Answered(d)
  <2> DEFINE done == {q \in Readers : \A e \in Probed : a[<<q, e>>] \in {"up", "down"}}
  <2>1. verdict' = [q \in Readers |-> IF q \in done THEN Status(q, a) ELSE verdict[q]]
    BY <1>4 DEF EndProbe, Answered, Tell
  <2>2. r \in done /\ Status(r, a) = "ready"
    BY <2>1
  <2>3. PICK e \in Probed : answer[<<r, e>>] \notin {"up", "down"}
    BY DEF StillWaiting
  <2>4. a[<<r, e>>] = "down"
    <3>1. a[<<r, e>>] \in {"up", "down"}
      BY <2>2
    <3>2. a[<<r, e>>] = IF e = d /\ answer[<<r, e>>] = "asked" THEN Outcome(d)
                      ELSE answer[<<r, e>>]
      BY DEF Answered
    <3> QED
      BY <1>0, <2>3, <3>1, <3>2 DEF Outcome
  <2> QED
    BY <2>2, <2>4 DEF Status
<1> QED
  BY <1>1, <1>3, <1>4, ApiSteps

(* A closing API is never found ready, whichever probes a request shares.  *)
THEOREM NeverReadyWhileClosing ==
  ASSUME Probed # {}
  PROVE  RuntimeSpec => ReadyOnlyOpen
<1>1. RuntimeInit => StillWaiting
  BY WaitingInit
<1>2. RuntimeTypeOK /\ StillWaiting /\ [RuntimeNext]_runtimeVars => StillWaiting'
  BY WaitingStep, TypeParts
<1>3. RuntimeTypeOK /\ StillWaiting /\ [RuntimeNext]_runtimeVars => [OnlyOpen]_runtimeVars
  BY ReadyStep, TypeParts
<1> QED
  BY <1>1, <1>2, <1>3, RuntimeTypeCorrect, PTL DEF RuntimeSpec, ReadyOnlyOpen, OnlyOpen

-----------------------------------------------------------------------------
(* The files loop.  A key (u, version) is held by the worker that claimed  *)
(* u under that version, from the claim until the attempt is over, and may *)
(* still be stored while it is open.                                       *)

Opening == {"examining", "storing", "committing"}
Attempting == Opening \cup {"discarding", "releasing", "rejecting"}
Burying == {"erasing", "settling", "retrying"}
Clearing == {"clearing", "marking"}
Ended == Terminal \cup {"purged"}

Held(w, k) == k \in worker[w].batch \/ (worker[w].pc \in Attempting /\ Key(w) = k)
Opens(w, k) == k \in worker[w].batch \/ (worker[w].pc \in Opening /\ Key(w) = k)

(* What a worker knows at its place in the loop.                           *)
Shape(w) ==
  /\ worker[w].back = "working" => worker[w].batch \subseteq Keys
  /\ worker[w].back = "sweeping" => worker[w].batch \subseteq Uploads \X {0}
  /\ worker[w].pc \in {"working"} \cup Attempting => worker[w].back = "working"
  /\ worker[w].pc = "sweeping" => worker[w].back = "sweeping"
  /\ worker[w].pc \in Attempting \cup Burying => Key(w) \in Keys
  /\ worker[w].pc \in Attempting => Key(w) \notin worker[w].batch
  /\ worker[w].pc \in Clearing => worker[w].u \in Uploads

Shaped == \A w \in Workers : Shape(w)

(* A key that a worker comes to hold is new: its version is above the one  *)
(* the session had before the claim.                                       *)
Fresh(w, k) ==
  /\ worker[w].pc = "idle"
  /\ upload[k[1]].rowVersion < k[2] /\ k[2] <= upload'[k[1]].rowVersion

Keeps(w) ==
  \A k \in Keys : /\ Held(w, k)' => Held(w, k) \/ Fresh(w, k)
                  /\ Opens(w, k)' => Opens(w, k) \/ Fresh(w, k)

(* How a worker gets to the places where it stores, deletes or clears.     *)
Arrives(w) ==
  /\ worker'[w].pc = "committing" =>
       Key(w)' = Key(w) /\ (worker[w].pc = "committing" \/ Key(w) \in stored')
  /\ worker'[w].pc = "discarding" =>
       Key(w)' = Key(w) /\ worker[w].pc \in {"storing", "committing", "discarding"}
  /\ worker'[w].pc \in Burying =>
       \/ Key(w)' = Key(w) /\ worker[w].pc \in Burying
       \/ tombstone'[Key(w)'].state # "absent"
  /\ worker'[w].pc = "settling" =>
       Key(w)' = Key(w) /\ (worker[w].pc = "settling" \/ Key(w) \notin stored')
  /\ worker'[w].pc \in Clearing =>
       \/ worker'[w].u = worker[w].u /\ worker[w].pc \in Clearing
       \/ upload'[worker'[w].u].state \in Ended
       \/ \E job \in worker[w].batch : worker[w].back = "sweeping" /\ worker'[w].u = job[1]
  /\ worker'[w].back = "sweeping" =>
       \/ worker[w].back = "sweeping" /\ worker'[w].batch \subseteq worker[w].batch
       \/ \A job \in worker'[w].batch : upload'[job[1]].state \in Ended

-----------------------------------------------------------------------------
LEMMA GotoChanges ==
  ASSUME worker \in [Workers -> Worker], NEW w \in Workers, NEW x \in Worker, Goto(w, x)
  PROVE  /\ worker' \in [Workers -> Worker]
         /\ worker'[w] = x
         /\ \A v \in Workers \ {w} : worker'[v] = worker[v]
BY DEF Goto

Labels == {"idle", "working", "examining", "storing", "committing", "discarding",
           "releasing", "rejecting", "clearing", "marking", "expiring", "overdue",
           "listing", "sweeping", "burying", "erasing", "settling", "retrying", "purging"}

LEMMA StepChanges ==
  ASSUME worker \in [Workers -> Worker], NEW w \in Workers, NEW pc \in Labels, Step(w, pc)
  PROVE  /\ worker' \in [Workers -> Worker]
         /\ worker'[w] = [worker[w] EXCEPT !.pc = pc]
         /\ \A v \in Workers \ {w} : worker'[v] = worker[v]
BY GotoChanges DEF Step, Worker, Labels

(* What a step of one worker leaves behind.                                *)
Turns(w) ==
  /\ worker' \in [Workers -> Worker]
  /\ \A v \in Workers \ {w} : worker'[v] = worker[v]
  /\ Shape(w)' /\ Keeps(w) /\ Arrives(w)

LEMMA AdvanceTurns ==
  ASSUME TypeOK, Shaped, NEW w \in Workers,
         NEW pc \in Labels, Step(w, pc),
         \/ worker[w].pc \in Attempting /\ pc \in Attempting
            /\ (pc \in Opening => worker[w].pc \in Opening)
            /\ (pc = "committing" => Key(w) \in stored')
            /\ (pc = "discarding" => worker[w].pc \in {"storing", "committing"})
         \/ worker[w].pc \in Attempting /\ pc = "clearing" /\ upload'[worker[w].u].state \in Ended
         \/ worker[w].pc \in Clearing /\ pc \in Clearing
         \/ worker[w].pc \in Burying /\ pc \in Burying /\ (pc = "settling" => Key(w) \notin stored')
         \/ pc \in {"expiring", "overdue", "listing", "burying", "purging"}
  PROVE  Turns(w)
<1>1. /\ worker' \in [Workers -> Worker]
      /\ worker'[w] = [worker[w] EXCEPT !.pc = pc]
      /\ \A v \in Workers \ {w} : worker'[v] = worker[v]
  BY StepChanges DEF TypeOK
<1>2. /\ worker'[w].pc = pc /\ worker'[w].batch = worker[w].batch
      /\ worker'[w].u = worker[w].u /\ worker'[w].version = worker[w].version
      /\ worker'[w].back = worker[w].back
  BY <1>1 DEF TypeOK, Worker
<1>3. Key(w)' = Key(w)
  BY <1>2 DEF Key
<1>4. Shape(w)
  BY DEF Shaped
<1>5. Shape(w)'
  BY <1>2, <1>3, <1>4 DEF Shape, Key, Attempting, Opening, Burying, Clearing, Keys
<1>6. Keeps(w)
  BY <1>2, <1>3 DEF Keeps, Held, Opens, Attempting, Opening, Burying, Clearing
<1>7. Arrives(w)
  BY <1>2, <1>3 DEF Arrives, Attempting, Opening, Burying, Clearing
<1> QED
  BY <1>1, <1>5, <1>6, <1>7 DEF Turns

(* A worker that ends an attempt, a sweep or a round.                      *)
LEMMA LeaveTurns ==
  ASSUME TypeOK, Shaped, NEW w \in Workers, NEW x \in Worker, Goto(w, x),
         x.pc \in {"idle", "working", "sweeping"},
         x.batch = {} \/ x.batch \subseteq worker[w].batch,
         x.back = "working" \/ x.back = worker[w].back,
         x.pc = "working" => x.back = "working",
         x.pc = "sweeping" => x.back = "sweeping",
         x.batch # {} => x.back = worker[w].back
  PROVE  Turns(w)
<1>1. /\ worker' \in [Workers -> Worker]
      /\ worker'[w] = x
      /\ \A v \in Workers \ {w} : worker'[v] = worker[v]
  BY GotoChanges DEF TypeOK
<1>2. worker'[w].batch \subseteq worker[w].batch
  BY <1>1
<1>3. Shape(w)
  BY DEF Shaped
<1>4. Shape(w)'
  BY <1>1, <1>2, <1>3 DEF Shape, Attempting, Opening, Burying, Clearing
<1>5. Keeps(w)
  BY <1>1, <1>2 DEF Keeps, Held, Opens, Attempting, Opening
<1>6. Arrives(w)
  BY <1>1, <1>2 DEF Arrives, Attempting, Opening, Burying, Clearing
<1> QED
  BY <1>1, <1>4, <1>5, <1>6 DEF Turns

LEMMA BackTurns ==
  ASSUME TypeOK, Shaped, NEW w \in Workers, NEW pc, Back(w, pc),
         \/ pc = "working" /\ worker[w].pc \in Attempting
         \/ pc = worker[w].back
  PROVE  Turns(w)
<1> DEFINE x == [worker[w] EXCEPT !.pc = pc, !.u = None]
<1>1. worker[w] \in Worker
  BY DEF TypeOK
<1>2. Shape(w)
  BY DEF Shaped
<1>3. pc \in {"working", "sweeping"} /\ (worker[w].pc \in Attempting => worker[w].back = "working")
  BY <1>1, <1>2 DEF Worker, Shape
<1>4. x \in Worker /\ x.pc = pc /\ x.batch = worker[w].batch /\ x.back = worker[w].back
  BY <1>1, <1>3 DEF Worker
<1>5. Goto(w, x)
  BY DEF Back
<1> HIDE DEF x
<1>6. pc = x.back
  BY <1>3, <1>4
<1> QED
  BY <1>3, <1>4, <1>5, <1>6, LeaveTurns

-----------------------------------------------------------------------------
(* The rows of the sessions.                                               *)
LEMMA RowTyped ==
  ASSUME TypeOK, NEW u \in Uploads, NEW state \in {"processing", "ready", "failed", "expired"}
  PROVE  /\ Moved(u, state) \in Upload
         /\ Moved(u, state).state = state
         /\ Moved(u, state).rowVersion = upload[u].rowVersion + 1
         /\ Moved(u, state).quarantineDeleted = upload[u].quarantineDeleted
<1>1. upload[u] \in Upload
  BY DEF TypeOK
<1> DEFINE n == upload[u].rowVersion + 1
<1>2. n \in Nat
  BY <1>1 DEF Upload
<1>3. Moved(u, state) = [upload[u] EXCEPT !.state = state, !.lease = "none", !.rowVersion = n]
  BY DEF Moved
<1> HIDE DEF n
<1>4. Moved(u, state) \in Upload
  BY <1>1, <1>2, <1>3 DEF Upload
<1>5. /\ Moved(u, state).state = state /\ Moved(u, state).rowVersion = n
      /\ Moved(u, state).quarantineDeleted = upload[u].quarantineDeleted
  BY <1>1, <1>3 DEF Upload
<1> QED
  BY <1>4, <1>5 DEF n

LEMMA ClaimTurns ==
  ASSUME TypeOK, Shaped, NEW w \in Workers, ClaimUploads(w)
  PROVE  Turns(w)
<1>1. PICK S \in SUBSET {u \in Uploads : Claimable(u) /\ upload[u].rowVersion < MaxVersion} :
        /\ upload' = [u \in Uploads |-> IF u \in S THEN Claimed(u) ELSE upload[u]]
        /\ Goto(w, [AtRest EXCEPT !.pc = "working",
                      !.batch = {<<u, Claimed(u).rowVersion>> : u \in S}])
  BY DEF ClaimUploads
<1> DEFINE batch == {<<u, Claimed(u).rowVersion>> : u \in S}
<1> DEFINE x == [AtRest EXCEPT !.pc = "working", !.batch = batch]
<1>2. \A u \in Uploads : upload[u] \in Upload /\ upload[u].rowVersion \in Nat
  BY DEF TypeOK, Upload
<1>3. \A u \in Uploads : Claimed(u).rowVersion = upload[u].rowVersion + 1
  BY <1>2 DEF Claimed, Upload
<1>4. \A u \in S : upload'[u].rowVersion = upload[u].rowVersion + 1
  BY <1>1, <1>3
<1>5. batch \subseteq Keys
  BY <1>2, <1>3, MediaConstants DEF Keys, MediaConstants
<1>6. Keys \subseteq Uploads \X Nat
  BY DEF Keys
<1>7. x \in Worker /\ x.pc = "working" /\ x.batch = batch /\ x.back = "working"
  <2> HIDE DEF batch
  <2> QED
    BY <1>5, <1>6 DEF AtRest, Worker
<1>8. \A k \in batch : upload[k[1]].rowVersion < k[2] /\ k[2] <= upload'[k[1]].rowVersion
  BY <1>2, <1>3, <1>4
<1> HIDE DEF batch, x
<1>9. /\ worker' \in [Workers -> Worker]
      /\ worker'[w] = x
      /\ \A v \in Workers \ {w} : worker'[v] = worker[v]
  BY <1>1, <1>7, GotoChanges DEF TypeOK, x, batch
<1>10. worker[w].pc = "idle"
  BY DEF ClaimUploads, At
<1>11. Shape(w)'
  BY <1>5, <1>7, <1>9 DEF Shape, Attempting, Opening, Burying, Clearing
<1>12. Keeps(w)
  BY <1>7, <1>8, <1>9, <1>10 DEF Keeps, Held, Opens, Fresh, Attempting, Opening
<1>13. Arrives(w)
  BY <1>7, <1>9 DEF Arrives, Attempting, Opening, Burying, Clearing
<1> QED
  BY <1>9, <1>11, <1>12, <1>13 DEF Turns

LEMMA StartTurns ==
  ASSUME TypeOK, Shaped, NEW w \in Workers, StartSession(w)
  PROVE  Turns(w)
<1>1. PICK job \in worker[w].batch :
        LET row == upload[job[1]]
            left == worker[w].batch \ {job}
        IN  Goto(w, IF row.state = "processing" /\ row.rowVersion = job[2] /\ row.lease = "live"
                    THEN [worker[w] EXCEPT !.pc = "examining", !.batch = left,
                                           !.u = job[1], !.version = job[2], !.retry = "no"]
                    ELSE [worker[w] EXCEPT !.batch = left])
  BY DEF StartSession
<1> DEFINE left == worker[w].batch \ {job}
<1> DEFINE x == [worker[w] EXCEPT !.pc = "examining", !.batch = left,
                                  !.u = job[1], !.version = job[2], !.retry = "no"]
<1> DEFINE y == [worker[w] EXCEPT !.batch = left]
<1>2. worker[w] \in Worker /\ Shape(w) /\ worker[w].pc = "working"
  BY DEF TypeOK, Shaped, StartSession, At
<1>3. job \in Keys /\ worker[w].back = "working" /\ worker[w].batch \subseteq Keys
  BY <1>2 DEF Shape
<1>4. job[1] \in Uploads /\ job[2] \in Nat /\ job = <<job[1], job[2]>>
  BY <1>3 DEF Keys
<1>5. CASE Goto(w, y)
  <2>1. y \in Worker /\ y.pc = "working" /\ y.batch \subseteq worker[w].batch
        /\ y.back = worker[w].back
    BY <1>2 DEF Worker
  <2> HIDE DEF y
  <2> QED
    BY <1>3, <1>5, <2>1, LeaveTurns
<1>6. CASE Goto(w, x)
  <2>1. x \in Worker /\ x.pc = "examining" /\ x.batch = left /\ x.u = job[1]
        /\ x.version = job[2] /\ x.back = worker[w].back
    BY <1>2, <1>4 DEF Worker
  <2> HIDE DEF x
  <2>2. /\ worker' \in [Workers -> Worker]
        /\ worker'[w] = x
        /\ \A v \in Workers \ {w} : worker'[v] = worker[v]
    BY <1>6, <2>1, GotoChanges DEF TypeOK
  <2>3. Key(w)' = job
    BY <1>4, <2>1, <2>2 DEF Key
  <2>4. Shape(w)'
    BY <1>2, <1>3, <2>1, <2>2, <2>3 DEF Shape, Attempting, Opening, Burying, Clearing
  <2>5. Keeps(w)
    BY <2>1, <2>2, <2>3 DEF Keeps, Held, Opens, Attempting, Opening
  <2>6. Arrives(w)
    BY <1>3, <2>1, <2>2 DEF Arrives, Attempting, Opening, Burying, Clearing
  <2> QED
    BY <2>2, <2>4, <2>5, <2>6 DEF Turns
<1> QED
  BY <1>1, <1>5, <1>6

(* What a step may do to a session.                                        *)
RowMoves(u) ==
  /\ upload'[u].rowVersion >= upload[u].rowVersion
  /\ \/ upload'[u].state = upload[u].state
     \/ upload[u].state = "absent" /\ upload'[u].state = "created"
     \/ upload[u].state = "created" /\ upload'[u].state = "expired"
     \/ /\ upload[u].state = "created" /\ upload'[u].state = "processing"
        /\ UNCHANGED quarantine /\ \E c \in Requests : request[c].u = u
     \/ upload[u].state = "processing" /\ upload'[u].state = "failed"
     \/ /\ upload[u].state = "processing" /\ upload'[u].state = "ready"
        /\ media'[u].state = "live"
     \/ upload[u].state \in Terminal /\ upload'[u].state = "purged"
  /\ \/ upload'[u].quarantineDeleted = upload[u].quarantineDeleted
     \/ /\ \E w \in Workers : worker[w].pc = "marking" /\ worker[w].u = u
        /\ upload'[u].state = upload[u].state

RowsMove == upload' \in [Uploads -> Upload] /\ \A u \in Uploads : RowMoves(u)

LEMMA UploadSteps ==
  ASSUME [Next]_vars
  PROVE  \/ UNCHANGED upload
         \/ \E u \in Uploads : CreateUploadSession(u) \/ ExpireOnRequest(u) \/ LeaseExpires(u)
         \/ \E c \in Requests : CompleteUpload(c)
         \/ \E w \in Workers : \/ ClaimUploads(w) \/ CommitMedia(w) \/ CommitLost(w)
                               \/ ReleaseClaim(w) \/ RejectUpload(w) \/ MarkCleared(w)
                               \/ ExpireUnused(w) \/ FailOverdue(w) \/ PurgeMetadata(w)
BY DEF Next, Requested, RunOnce, Processes, Housekeeps, Fails, vars, rows, QueueDeletion, Put,
  VerifyObject, StartSession, ExamineObject, ExamineFails, StoreObject, StoreFails, CommitFails,
  DiscardObject, DiscardFails, ClearQuarantine, ClearFails, FinishBatch, ListQuarantine,
  SweepQuarantine, ClaimTombstone, EraseObject, SettleTombstone, EraseFails, RetryTombstone,
  Interrupted, ClockAdvances, TombstoneTime

(* One row changes, to a row that the session may move to.                 *)
LEMMA OneRowMoves ==
  ASSUME TypeOK, NEW u \in Uploads, NEW row \in Upload, upload' = [upload EXCEPT ![u] = row],
         row.rowVersion >= upload[u].rowVersion,
         upload'[u] = row => RowMoves(u)
  PROVE  RowsMove
<1>1. upload' \in [Uploads -> Upload] /\ upload'[u] = row
  BY DEF TypeOK
<1>2. \A v \in Uploads \ {u} : upload'[v] = upload[v]
  BY DEF TypeOK
<1>3. \A v \in Uploads : upload[v].rowVersion \in Nat
  BY DEF TypeOK, Upload
<1>4. ASSUME NEW v \in Uploads \ {u} PROVE RowMoves(v)
  BY <1>2, <1>3 DEF RowMoves
<1> QED
  BY <1>1, <1>4 DEF RowsMove

LEMMA MovedRowMoves ==
  ASSUME TypeOK, NEW u \in Uploads, NEW state \in {"processing", "ready", "failed", "expired"},
         upload' = [upload EXCEPT ![u] = Moved(u, state)],
         \/ state = upload[u].state
         \/ upload[u].state = "created" /\ state = "expired"
         \/ upload[u].state = "processing" /\ state = "failed"
         \/ upload[u].state = "processing" /\ state = "ready" /\ media'[u].state = "live"
  PROVE  RowsMove
<1>1. /\ Moved(u, state) \in Upload
      /\ Moved(u, state).state = state
      /\ Moved(u, state).rowVersion = upload[u].rowVersion + 1
      /\ Moved(u, state).quarantineDeleted = upload[u].quarantineDeleted
  BY RowTyped
<1>2. upload[u].rowVersion \in Nat
  BY DEF TypeOK, Upload
<1>3. Moved(u, state).rowVersion >= upload[u].rowVersion
  BY <1>1, <1>2
<1>4. upload'[u] = Moved(u, state) => RowMoves(u)
  BY <1>1, <1>3 DEF RowMoves
<1> HIDE DEF Moved
<1> QED
  BY <1>1, <1>3, <1>4, OneRowMoves

(* Every row changes as one of the sessions in a sweep may.                *)
LEMMA AllRowsMove ==
  ASSUME TypeOK,
         upload' \in [Uploads -> Upload],
         \A u \in Uploads : \/ upload'[u] = upload[u]
                            \/ /\ upload'[u].rowVersion >= upload[u].rowVersion
                               /\ upload'[u].quarantineDeleted = upload[u].quarantineDeleted
                               /\ \/ upload'[u].state = upload[u].state
                                  \/ upload[u].state = "created" /\ upload'[u].state = "expired"
                                  \/ upload[u].state = "processing" /\ upload'[u].state = "failed"
                                  \/ upload[u].state \in Terminal /\ upload'[u].state = "purged"
  PROVE  RowsMove
<1>1. \A u \in Uploads : upload[u].rowVersion \in Nat
  BY DEF TypeOK, Upload
<1> QED
  BY <1>1 DEF RowsMove, RowMoves

LEMMA RequestRows ==
  ASSUME TypeOK, NEW c \in Requests, CompleteUpload(c)
  PROVE  RowsMove
<1> DEFINE u == request[c].u
<1>1. u \in Uploads /\ request[c].etag \in Contents \cup {None}
  BY DEF CompleteUpload, TypeOK
<1>2. UNCHANGED quarantine
  BY DEF CompleteUpload, store
<1>3. CASE UNCHANGED upload
  BY <1>3, AllRowsMove DEF TypeOK
<1>4. CASE upload[u].state = "created" /\ upload' = [upload EXCEPT ![u] = Moved(u, "expired")]
  BY <1>1, <1>4, MovedRowMoves
<1>5. CASE upload[u].state = "created"
           /\ upload' = [upload EXCEPT ![u] = Accepted(u, request[c].etag)]
  <2> DEFINE row == Accepted(u, request[c].etag)
  <2>1. /\ Moved(u, "processing") \in Upload
        /\ Moved(u, "processing").state = "processing"
        /\ Moved(u, "processing").rowVersion = upload[u].rowVersion + 1
        /\ Moved(u, "processing").quarantineDeleted = upload[u].quarantineDeleted
    BY <1>1, RowTyped
  <2>2. row = [Moved(u, "processing") EXCEPT !.sourceEtag = request[c].etag]
    BY DEF Accepted
  <2>3. row \in Upload /\ row.state = "processing" /\ row.rowVersion = upload[u].rowVersion + 1
        /\ row.quarantineDeleted = upload[u].quarantineDeleted
    BY <1>1, <2>1, <2>2 DEF Upload
  <2>4. upload[u].rowVersion \in Nat
    BY <1>1 DEF TypeOK, Upload
  <2>5. upload'[u] = row => RowMoves(u)
    BY <1>1, <1>2, <1>5, <2>3, <2>4 DEF RowMoves
  <2> HIDE DEF row
  <2>6. upload' = [upload EXCEPT ![u] = row]
    BY <1>5 DEF row
  <2>7. row.rowVersion >= upload[u].rowVersion
    BY <2>3, <2>4
  <2> HIDE DEF u
  <2> QED
    BY <1>1, <2>3, <2>5, <2>6, <2>7, OneRowMoves
<1> QED
  BY <1>3, <1>4, <1>5 DEF CompleteUpload

LEMMA ReleaseRows ==
  ASSUME TypeOK, Shaped, NEW w \in Workers, ReleaseClaim(w) \/ RejectUpload(w)
  PROVE  RowsMove
<1> DEFINE u == worker[w].u
<1>1. u \in Uploads
  BY DEF Shaped, Shape, ReleaseClaim, RejectUpload, At, Attempting, Key, Keys
<1>2. CASE UNCHANGED upload
  BY <1>2, AllRowsMove DEF TypeOK
<1>3. CASE Holds(w) /\ upload' = [upload EXCEPT ![u] = Moved(u, "processing")]
  BY <1>1, <1>3, MovedRowMoves DEF Holds
<1>4. CASE Holds(w) /\ upload' = [upload EXCEPT ![u] = Moved(u, "failed")]
  BY <1>1, <1>4, MovedRowMoves DEF Holds
<1> QED
  BY <1>2, <1>3, <1>4 DEF ReleaseClaim, RejectUpload

LEMMA CommitRows ==
  ASSUME TypeOK, Shaped, NEW w \in Workers, CommitMedia(w) \/ CommitLost(w)
  PROVE  RowsMove
<1> DEFINE u == worker[w].u
<1>1. u \in Uploads
  BY DEF Shaped, Shape, CommitMedia, CommitLost, At, Attempting, Opening, Key, Keys
<1>2. CASE UNCHANGED upload
  BY <1>2, AllRowsMove DEF TypeOK
<1>3. CASE Holds(w) /\ upload' = Ready(u) /\ media' = MediaAdded(w)
  <2>1. media'[u].state = "live"
    BY <1>1, <1>3 DEF MediaAdded, TypeOK
  <2>2. upload' = [upload EXCEPT ![u] = Moved(u, "ready")]
    BY <1>3 DEF Ready
  <2>3. upload[u].state = "processing"
    BY <1>3 DEF Holds
  <2> HIDE DEF u
  <2> QED
    BY <1>1, <2>1, <2>2, <2>3, MovedRowMoves
<1> QED
  BY <1>2, <1>3 DEF CommitMedia, CommitLost

LEMMA SweepRows ==
  ASSUME TypeOK, NEW w \in Workers, ExpireUnused(w) \/ FailOverdue(w) \/ PurgeMetadata(w)
  PROVE  RowsMove
<1>1. \A u \in Uploads : upload[u] \in Upload /\ upload[u].rowVersion \in Nat
  BY DEF TypeOK, Upload
<1>2. CASE ExpireUnused(w)
  <2>1. \A u \in Uploads :
          \/ upload'[u] = upload[u]
          \/ upload[u].state = "created" /\ upload'[u] = Moved(u, "expired")
    BY <1>2, Zenon DEF ExpireUnused
  <2>2. upload' = [u \in Uploads |-> upload'[u]]
    BY <1>2 DEF ExpireUnused
  <2>3. \A u \in Uploads : upload'[u] \in Upload
    BY <1>1, <2>1, RowTyped
  <2> QED
    BY <1>1, <2>1, <2>2, <2>3, RowTyped, AllRowsMove
<1>3. CASE FailOverdue(w)
  <2>1. \A u \in Uploads :
          \/ upload'[u] = upload[u]
          \/ upload[u].state = "processing" /\ upload'[u] = Moved(u, "failed")
    BY <1>3, Zenon DEF FailOverdue, Overdue
  <2>2. upload' = [u \in Uploads |-> upload'[u]]
    BY <1>3 DEF FailOverdue
  <2>3. \A u \in Uploads : upload'[u] \in Upload
    BY <1>1, <2>1, RowTyped
  <2> QED
    BY <1>1, <2>1, <2>2, <2>3, RowTyped, AllRowsMove
<1>4. CASE PurgeMetadata(w)
  <2>1. PICK S \in SUBSET {u \in Uploads : upload[u].state \in Terminal} :
          upload' = [u \in Uploads |->
            IF u \in S THEN [upload[u] EXCEPT !.state = "purged"] ELSE upload[u]]
    BY <1>4 DEF PurgeMetadata
  <2>2. \A u \in Uploads : LET row == [upload[u] EXCEPT !.state = "purged"]
          IN /\ row \in Upload /\ row.state = "purged" /\ row.rowVersion = upload[u].rowVersion
             /\ row.quarantineDeleted = upload[u].quarantineDeleted
    BY <1>1 DEF Upload
  <2> QED
    BY <1>1, <2>1, <2>2, AllRowsMove
<1> QED
  BY <1>2, <1>3, <1>4

LEMMA OtherRows ==
  ASSUME TypeOK, Shaped,
         \/ \E u \in Uploads : CreateUploadSession(u) \/ ExpireOnRequest(u) \/ LeaseExpires(u)
         \/ \E w \in Workers : ClaimUploads(w) \/ MarkCleared(w)
  PROVE  RowsMove
<1>1. \A u \in Uploads : upload[u] \in Upload /\ upload[u].rowVersion \in Nat
  BY DEF TypeOK, Upload
<1>2. ASSUME NEW u \in Uploads, CreateUploadSession(u) PROVE RowsMove
  <2> DEFINE row == [upload[u] EXCEPT !.state = "created"]
  <2>1. /\ row \in Upload /\ row.state = "created" /\ row.rowVersion = upload[u].rowVersion
        /\ row.quarantineDeleted = upload[u].quarantineDeleted
    BY <1>1 DEF Upload
  <2>2. upload[u].state = "absent" /\ upload' = [upload EXCEPT ![u] = row]
    BY <1>2 DEF CreateUploadSession
  <2> HIDE DEF row
  <2>3. upload'[u] = row => RowMoves(u)
    BY <1>1, <2>1, <2>2 DEF RowMoves
  <2>4. row.rowVersion >= upload[u].rowVersion
    BY <1>1, <2>1
  <2> QED
    BY <2>1, <2>2, <2>3, <2>4, OneRowMoves
<1>3. ASSUME NEW u \in Uploads, ExpireOnRequest(u) PROVE RowsMove
  BY <1>3, MovedRowMoves DEF ExpireOnRequest
<1>4. ASSUME NEW u \in Uploads, LeaseExpires(u) PROVE RowsMove
  <2> DEFINE row == [upload[u] EXCEPT !.lease = "expired"]
  <2>1. /\ row \in Upload /\ row.state = upload[u].state /\ row.rowVersion = upload[u].rowVersion
        /\ row.quarantineDeleted = upload[u].quarantineDeleted
    BY <1>1 DEF Upload
  <2>2. upload' = [upload EXCEPT ![u] = row]
    BY <1>4 DEF LeaseExpires
  <2> HIDE DEF row
  <2>3. upload'[u] = row => RowMoves(u)
    BY <1>1, <2>1 DEF RowMoves
  <2>4. row.rowVersion >= upload[u].rowVersion
    BY <1>1, <2>1
  <2> QED
    BY <2>1, <2>2, <2>3, <2>4, OneRowMoves
<1>5. ASSUME NEW w \in Workers, ClaimUploads(w) PROVE RowsMove
  <2>1. PICK S \in SUBSET Uploads :
          upload' = [u \in Uploads |-> IF u \in S THEN Claimed(u) ELSE upload[u]]
    BY <1>5 DEF ClaimUploads
  <2>2. ASSUME NEW u \in Uploads
        PROVE  /\ Claimed(u) \in Upload /\ Claimed(u).state = upload[u].state
               /\ Claimed(u).rowVersion = upload[u].rowVersion + 1
               /\ Claimed(u).quarantineDeleted = upload[u].quarantineDeleted
    <3> DEFINE n == upload[u].rowVersion + 1
    <3>1. n \in Nat
      BY <1>1
    <3>2. Claimed(u) = [upload[u] EXCEPT !.lease = "live", !.rowVersion = n]
      BY DEF Claimed
    <3> HIDE DEF n
    <3>3. Claimed(u) \in Upload /\ Claimed(u).rowVersion = n
      BY <1>1, <3>1, <3>2 DEF Upload
    <3>4. Claimed(u).state = upload[u].state
          /\ Claimed(u).quarantineDeleted = upload[u].quarantineDeleted
      BY <1>1, <3>2 DEF Upload
    <3> QED
      BY <3>3, <3>4 DEF n
  <2> HIDE DEF Claimed
  <2> QED
    BY <1>1, <2>1, <2>2, AllRowsMove
<1>6. ASSUME NEW w \in Workers, MarkCleared(w) PROVE RowsMove
  <2> DEFINE u == worker[w].u
  <2>1. u \in Uploads /\ worker[w].pc = "marking"
    BY <1>6 DEF MarkCleared, At, Shaped, Shape, Clearing
  <2>2. CASE UNCHANGED upload
    BY <2>2, AllRowsMove DEF TypeOK
  <2>3. CASE upload' = [upload EXCEPT ![u].quarantineDeleted = "yes", ![u].rowVersion = @ + 1]
    <3> DEFINE n == upload[u].rowVersion + 1
               row == [upload[u] EXCEPT !.quarantineDeleted = "yes", !.rowVersion = n]
    <3>1. n \in Nat /\ n >= upload[u].rowVersion
      BY <1>1, <2>1
    <3>2. upload' = [upload EXCEPT ![u] = row]
      BY <2>1, <2>3 DEF TypeOK
    <3> HIDE DEF n
    <3>3. row \in Upload /\ row.rowVersion = n
      BY <1>1, <2>1, <3>1 DEF Upload
    <3>4. row.state = upload[u].state
      BY <1>1, <2>1 DEF Upload
    <3> HIDE DEF row, u
    <3>5. upload'[u] = row => RowMoves(u)
      BY <2>1, <3>1, <3>3, <3>4 DEF RowMoves, u
    <3> QED
      BY <2>1, <3>1, <3>2, <3>3, <3>5, OneRowMoves
  <2> QED
    BY <1>6, <2>2, <2>3 DEF MarkCleared
<1> QED
  BY <1>2, <1>3, <1>4, <1>5, <1>6

LEMMA RowsAlwaysMove ==
  ASSUME TypeOK, Shaped, [Next]_vars
  PROVE  RowsMove
<1>1. CASE UNCHANGED upload
  BY <1>1, AllRowsMove DEF TypeOK
<1> QED
  BY <1>1, UploadSteps, RequestRows, ReleaseRows, CommitRows, SweepRows, OtherRows

-----------------------------------------------------------------------------
(* Every step of the loop.                                                 *)

LEMMA ProcessTurns ==
  ASSUME TypeOK, Shaped, [Next]_vars, NEW w \in Workers,
         \/ ExamineObject(w) \/ ExamineFails(w) \/ StoreObject(w) \/ StoreFails(w)
         \/ CommitMedia(w) \/ CommitFails(w) \/ CommitLost(w)
         \/ DiscardObject(w) \/ DiscardFails(w) \/ ReleaseClaim(w) \/ RejectUpload(w)
  PROVE  Turns(w)
<1>0. RowsMove
  BY RowsAlwaysMove
<1>1. worker[w] \in Worker /\ Shape(w)
  BY DEF TypeOK, Shaped
<1>2. CASE ExamineObject(w) \/ ExamineFails(w)
  BY <1>2, AdvanceTurns DEF ExamineObject, ExamineFails, At, Labels, Attempting, Opening
<1>3. CASE StoreObject(w)
  BY <1>3, AdvanceTurns DEF StoreObject, At, Labels, Attempting, Opening
<1>4. ASSUME Goto(w, [worker[w] EXCEPT !.pc = "discarding", !.retry = "yes"]),
             worker[w].pc \in {"storing", "committing"}
      PROVE  Turns(w)
  <2> DEFINE x == [worker[w] EXCEPT !.pc = "discarding", !.retry = "yes"]
  <2>1. /\ x \in Worker /\ x.pc = "discarding" /\ x.batch = worker[w].batch
        /\ x.u = worker[w].u /\ x.version = worker[w].version /\ x.back = worker[w].back
    BY <1>1 DEF Worker
  <2> HIDE DEF x
  <2>2. /\ worker' \in [Workers -> Worker] /\ worker'[w] = x
        /\ \A v \in Workers \ {w} : worker'[v] = worker[v]
    BY <1>4, <2>1, GotoChanges DEF TypeOK, x
  <2>3. Key(w)' = Key(w)
    BY <2>1, <2>2 DEF Key
  <2>4. Shape(w)'
    BY <1>1, <1>4, <2>1, <2>2, <2>3 DEF Shape, Attempting, Opening, Burying, Clearing
  <2>5. Keeps(w)
    BY <1>4, <2>1, <2>2, <2>3 DEF Keeps, Held, Opens, Attempting, Opening
  <2>6. Arrives(w)
    BY <1>4, <2>1, <2>2, <2>3 DEF Arrives, Attempting, Opening, Burying, Clearing
  <2> QED
    BY <2>2, <2>4, <2>5, <2>6 DEF Turns
<1>5. CASE StoreFails(w) \/ CommitFails(w) \/ CommitLost(w)
  BY <1>4, <1>5 DEF StoreFails, CommitFails, CommitLost, At
<1>6. CASE CommitMedia(w)
  <2>1. CASE Step(w, "discarding")
    BY <1>6, <2>1, AdvanceTurns DEF CommitMedia, At, Labels, Attempting, Opening
  <2>2. CASE Step(w, "clearing") /\ upload' = Ready(worker[w].u)
    <3>1. worker[w].u \in Uploads
      BY <1>1, <1>6 DEF CommitMedia, At, Shape, Attempting, Opening, Key, Keys
    <3>2. upload'[worker[w].u] = Moved(worker[w].u, "ready")
      BY <2>2, <3>1 DEF Ready, TypeOK
    <3>3. upload'[worker[w].u].state \in Ended
      BY <3>1, <3>2, RowTyped DEF Ended, Terminal
    <3> QED
      BY <1>6, <2>2, <3>3, AdvanceTurns DEF CommitMedia, At, Labels, Attempting, Opening
  <2> QED
    BY <1>6, <2>1, <2>2 DEF CommitMedia
<1>7. CASE DiscardObject(w) \/ DiscardFails(w)
  <2> DEFINE x == [worker[w] EXCEPT !.pc = "releasing"]
             y == [worker[w] EXCEPT !.pc = "working", !.u = None]
  <2>1. worker[w].pc = "discarding" /\ (Goto(w, x) \/ Goto(w, y))
    BY <1>7 DEF DiscardObject, DiscardFails, AfterDiscard, At
  <2>2. CASE Goto(w, x)
    BY <2>1, <2>2, AdvanceTurns DEF Step, Labels, Attempting, Opening
  <2>3. CASE Goto(w, y)
    BY <2>1, <2>3, BackTurns DEF Back, Attempting
  <2> QED
    BY <2>1, <2>2, <2>3
<1>8. CASE ReleaseClaim(w)
  BY <1>8, BackTurns DEF ReleaseClaim, At, Attempting
<1>9. CASE RejectUpload(w)
  <2>1. CASE Back(w, "working")
    BY <1>9, <2>1, BackTurns DEF RejectUpload, At, Attempting
  <2>2. CASE /\ Step(w, "clearing")
             /\ upload' = [upload EXCEPT ![worker[w].u] = Moved(worker[w].u, "failed")]
    <3>1. worker[w].u \in Uploads
      BY <1>1, <1>9 DEF RejectUpload, At, Shape, Attempting, Key, Keys
    <3>2. upload'[worker[w].u] = Moved(worker[w].u, "failed")
      BY <2>2, <3>1 DEF TypeOK
    <3>3. upload'[worker[w].u].state \in Ended
      BY <3>1, <3>2, RowTyped DEF Ended, Terminal
    <3> QED
      BY <1>9, <2>2, <3>3, AdvanceTurns DEF RejectUpload, At, Labels, Attempting
  <2> QED
    BY <1>9, <2>1, <2>2 DEF RejectUpload
<1> QED
  BY <1>2, <1>3, <1>5, <1>6, <1>7, <1>8, <1>9

LEMMA SweepTurns ==
  ASSUME TypeOK, Shaped, NEW w \in Workers,
         \/ ClearQuarantine(w) \/ MarkCleared(w) \/ ClearFails(w)
         \/ FinishBatch(w) \/ ExpireUnused(w) \/ FailOverdue(w)
         \/ ListQuarantine(w) \/ SweepQuarantine(w)
  PROVE  Turns(w)
<1>1. worker[w] \in Worker /\ Shape(w)
  BY DEF TypeOK, Shaped
<1>2. CASE ClearQuarantine(w)
  BY <1>2, AdvanceTurns DEF ClearQuarantine, At, Labels, Clearing
<1>3. CASE MarkCleared(w) \/ ClearFails(w)
  BY <1>3, BackTurns DEF MarkCleared, ClearFails
<1>4. CASE FinishBatch(w) \/ ExpireUnused(w) \/ FailOverdue(w)
  BY <1>4, AdvanceTurns DEF FinishBatch, ExpireUnused, FailOverdue, Labels
<1>5. CASE ListQuarantine(w)
  <2> DEFINE swept == {v \in Uploads : Sweepable(v)}
             batch == {<<u, 0>> : u \in swept}
             x == [worker[w] EXCEPT !.pc = "sweeping", !.back = "sweeping", !.batch = batch]
  <2>1. Goto(w, x) /\ UNCHANGED upload
    BY <1>5 DEF ListQuarantine, rows
  <2>2. batch \subseteq Uploads \X {0} /\ \A job \in batch : upload[job[1]].state \in Ended
    BY DEF Sweepable, Ended
  <2> HIDE DEF batch
  <2>0. batch \in SUBSET (Uploads \X Nat)
    BY <2>2
  <2>3. x \in Worker /\ x.pc = "sweeping" /\ x.batch = batch /\ x.back = "sweeping"
    BY <1>1, <2>0 DEF Worker
  <2> HIDE DEF x
  <2>4. /\ worker' \in [Workers -> Worker] /\ worker'[w] = x
        /\ \A v \in Workers \ {w} : worker'[v] = worker[v]
    BY <2>1, <2>3, GotoChanges DEF TypeOK
  <2>5. Shape(w)'
    BY <2>2, <2>3, <2>4 DEF Shape, Attempting, Opening, Burying, Clearing
  <2>6. Keeps(w)
    <3>1. \A k \in Keys : k \notin batch
      BY <2>2 DEF Keys
    <3> QED
      BY <2>3, <2>4, <3>1 DEF Keeps, Held, Opens, Attempting, Opening
  <2>7. Arrives(w)
    BY <2>1, <2>2, <2>3, <2>4 DEF Arrives, Attempting, Opening, Burying, Clearing
  <2> QED
    BY <2>4, <2>5, <2>6, <2>7 DEF Turns
<1>6. CASE SweepQuarantine(w)
  <2>1. CASE Step(w, "burying")
    BY <2>1, AdvanceTurns DEF Labels
  <2>2. ASSUME NEW job \in worker[w].batch,
               Goto(w, [worker[w] EXCEPT !.pc = "clearing", !.u = job[1], !.batch = @ \ {job}])
        PROVE  Turns(w)
    <3> DEFINE left == worker[w].batch \ {job}
               x == [worker[w] EXCEPT !.pc = "clearing", !.u = job[1], !.batch = left]
    <3>1. worker[w].back = "sweeping" /\ job \in Uploads \X {0}
      BY <1>1, <1>6 DEF SweepQuarantine, At, Shape
    <3>2. job[1] \in Uploads /\ left \subseteq worker[w].batch
      BY <3>1
    <3>3. Goto(w, x)
      BY <1>1, <2>2 DEF Worker
    <3>4. left \in SUBSET (Uploads \X Nat)
      BY <1>1, <3>2 DEF Worker
    <3> HIDE DEF left
    <3>5. /\ x \in Worker /\ x.pc = "clearing" /\ x.batch = left /\ x.u = job[1]
          /\ x.back = "sweeping"
      BY <1>1, <3>1, <3>2, <3>4 DEF Worker
    <3> HIDE DEF x
    <3>6. /\ worker' \in [Workers -> Worker] /\ worker'[w] = x
          /\ \A v \in Workers \ {w} : worker'[v] = worker[v]
      BY <3>3, <3>5, GotoChanges DEF TypeOK
    <3>7. Shape(w)'
      BY <1>1, <3>1, <3>2, <3>5, <3>6 DEF Shape, Attempting, Opening, Burying, Clearing
    <3>8. Keeps(w)
      BY <3>2, <3>5, <3>6 DEF Keeps, Held, Opens, Attempting, Opening
    <3>9. Arrives(w)
      BY <3>1, <3>2, <3>5, <3>6 DEF Arrives, Attempting, Opening, Burying, Clearing
    <3> QED
      BY <3>6, <3>7, <3>8, <3>9 DEF Turns
  <2> QED
    BY <1>6, <2>1, <2>2 DEF SweepQuarantine
<1> QED
  BY <1>2, <1>3, <1>4, <1>5, <1>6

LEMMA BuryTurns ==
  ASSUME TypeOK, Shaped, NEW w \in Workers,
         \/ ClaimTombstone(w) \/ EraseObject(w) \/ SettleTombstone(w) \/ EraseFails(w)
         \/ RetryTombstone(w) \/ PurgeMetadata(w) \/ Interrupted(w)
  PROVE  Turns(w)
<1>1. worker[w] \in Worker /\ Shape(w)
  BY DEF TypeOK, Shaped
<1>2. CASE ClaimTombstone(w)
  <2>1. CASE Step(w, "purging")
    BY <2>1, AdvanceTurns DEF Labels
  <2>2. ASSUME NEW k \in Keys,
               tombstone' = [tombstone EXCEPT ![k].state = "in_progress", ![k].lease = "live",
                                              ![k].rowVersion = @ + 1],
               Goto(w, [worker[w] EXCEPT !.pc = "erasing", !.u = k[1], !.version = k[2],
                          !.tombstoneVersion = tombstone[k].rowVersion + 1])
        PROVE  Turns(w)
    <3> DEFINE n == tombstone[k].rowVersion + 1
               x == [worker[w] EXCEPT !.pc = "erasing", !.u = k[1], !.version = k[2],
                                      !.tombstoneVersion = n]
    <3>1. n \in Nat /\ tombstone'[k].state = "in_progress"
      BY <2>2 DEF TypeOK, Tombstone
    <3>2. k[1] \in Uploads /\ k[2] \in Nat /\ k = <<k[1], k[2]>>
      BY DEF Keys
    <3> HIDE DEF n
    <3>3. /\ x \in Worker /\ x.pc = "erasing" /\ x.batch = worker[w].batch /\ x.u = k[1]
          /\ x.version = k[2] /\ x.back = worker[w].back
      BY <1>1, <3>1, <3>2 DEF Worker
    <3>4. Goto(w, x)
      BY <2>2 DEF n
    <3> HIDE DEF x
    <3>5. /\ worker' \in [Workers -> Worker] /\ worker'[w] = x
          /\ \A v \in Workers \ {w} : worker'[v] = worker[v]
      BY <3>3, <3>4, GotoChanges DEF TypeOK
    <3>6. Key(w)' = k
      BY <3>2, <3>3, <3>5 DEF Key
    <3>7. Shape(w)'
      BY <1>1, <3>3, <3>5, <3>6 DEF Shape, Attempting, Opening, Burying, Clearing
    <3>8. Keeps(w)
      BY <3>3, <3>5 DEF Keeps, Held, Opens, Attempting, Opening
    <3>9. Arrives(w)
      <4>1. tombstone'[Key(w)'].state # "absent"
        BY <3>1, <3>6
      <4> QED
        BY <3>3, <3>5, <4>1 DEF Arrives, Attempting, Opening, Burying, Clearing
    <3> QED
      BY <3>5, <3>7, <3>8, <3>9 DEF Turns
  <2> QED
    BY <1>2, <2>1, <2>2 DEF ClaimTombstone
<1>3. CASE EraseObject(w) \/ EraseFails(w)
  BY <1>3, AdvanceTurns DEF EraseObject, EraseFails, At, Labels, Burying
<1>4. CASE SettleTombstone(w) \/ RetryTombstone(w)
  BY <1>4, AdvanceTurns DEF SettleTombstone, RetryTombstone, Labels
<1>5. CASE PurgeMetadata(w) \/ Interrupted(w)
  <2>1. AtRest \in Worker /\ AtRest.pc = "idle" /\ AtRest.batch = {} /\ AtRest.back = "working"
    BY DEF AtRest, Worker
  <2>2. Goto(w, AtRest)
    BY <1>5 DEF PurgeMetadata, Interrupted
  <2> QED
    BY <2>1, <2>2, LeaveTurns
<1> QED
  BY <1>2, <1>3, <1>4, <1>5

(* A step is one worker's, or leaves the workers alone.                    *)
LEMMA WorkerTurns ==
  ASSUME TypeOK, Shaped, [Next]_vars
  PROVE  UNCHANGED worker \/ \E w \in Workers : Turns(w)
<1>1. CASE Requested \/ (\E u \in Uploads : ClockAdvances(u) \/ LeaseExpires(u))
           \/ (\E k \in Keys : TombstoneTime(k)) \/ UNCHANGED vars
  BY <1>1 DEF Requested, CreateUploadSession, ExpireOnRequest, QueueDeletion, Put, CompleteUpload,
    VerifyObject, ClockAdvances, LeaseExpires, TombstoneTime, vars
<1>2. ASSUME NEW w \in Workers, RunOnce(w) \/ Fails(w) PROVE Turns(w)
  <2>1. CASE RunOnce(w)
    BY <2>1, ClaimTurns, StartTurns, ProcessTurns, SweepTurns, BuryTurns
      DEF RunOnce, Processes, Housekeeps
  <2>2. CASE Fails(w)
    BY <2>2, ProcessTurns, SweepTurns, BuryTurns DEF Fails
  <2> QED
    BY <1>2, <2>1, <2>2
<1> QED
  BY <1>1, <1>2 DEF Next

-----------------------------------------------------------------------------
(* The objects, the rows of the images and the tombstones.                 *)

StoreMoves ==
  /\ stored' \subseteq Keys
  /\ \A k \in stored' \ stored : \E w \in Workers : worker[w].pc = "storing" /\ Key(w) = k
  /\ \A k \in stored \ stored' :
       \E w \in Workers : worker[w].pc \in {"discarding", "erasing", "settling"} /\ Key(w) = k

LEMMA StoreSteps ==
  ASSUME [Next]_vars
  PROVE  \/ UNCHANGED stored
         \/ \E w \in Workers : \/ StoreObject(w) \/ StoreFails(w) \/ DiscardObject(w)
                               \/ DiscardFails(w) \/ EraseObject(w) \/ EraseFails(w)
BY DEF Next, Requested, RunOnce, Processes, Housekeeps, Fails, vars, rows, store,
  CreateUploadSession, ExpireOnRequest, QueueDeletion, Put, CompleteUpload, VerifyObject,
  ClaimUploads, StartSession, ExamineObject, ExamineFails, CommitMedia, CommitFails, CommitLost,
  ReleaseClaim, RejectUpload, ClearQuarantine, MarkCleared, ClearFails, FinishBatch,
  ExpireUnused, FailOverdue, ListQuarantine, SweepQuarantine, ClaimTombstone, SettleTombstone,
  RetryTombstone, PurgeMetadata, Interrupted, ClockAdvances, LeaseExpires, TombstoneTime

LEMMA StoreAlwaysMoves ==
  ASSUME TypeOK, Shaped, [Next]_vars
  PROVE  StoreMoves
<1>1. CASE UNCHANGED stored
  BY <1>1 DEF StoreMoves, TypeOK
<1>2. ASSUME NEW w \in Workers,
             \/ StoreObject(w) \/ StoreFails(w) \/ DiscardObject(w)
             \/ DiscardFails(w) \/ EraseObject(w) \/ EraseFails(w)
      PROVE  StoreMoves
  <2>1. worker[w].pc = "storing" => Key(w) \in Keys
    BY DEF Shaped, Shape, Attempting, Opening
  <2> QED
    BY <1>2, <2>1 DEF StoreMoves, TypeOK, StoreObject, StoreFails, DiscardObject, DiscardFails,
      EraseObject, EraseFails, At
<1> QED
  BY <1>1, <1>2, StoreSteps

(* The image of u becomes the one that w has stored.                       *)
Records(w, u) ==
  /\ worker[w].pc = "committing" /\ worker[w].u = u
  /\ media'[u] = [state |-> "live", version |-> worker[w].version]
  /\ worker'[w].batch = worker[w].batch
  /\ \/ worker'[w].pc = "clearing"
     \/ worker'[w].pc = "discarding" /\ lostCommits' # 0
  /\ UNCHANGED <<tombstone, stored>>

MediaMoves(u) ==
  \/ media'[u] = media[u]
  \/ \E w \in Workers : Records(w, u)
  \/ /\ media[u].state \in {"live", "deleting"} /\ media'[u].version = media[u].version
     /\ \/ /\ media'[u].state = "deleting" /\ UNCHANGED stored
           /\ <<u, media[u].version>> \in Keys =>
                tombstone'[<<u, media[u].version>>].state # "absent"
        \/ media'[u].state = "deleted"

LEMMA MediaSteps ==
  ASSUME [Next]_vars
  PROVE  \/ UNCHANGED media
         \/ \E u \in Uploads : QueueDeletion(u)
         \/ \E w \in Workers : CommitMedia(w) \/ CommitLost(w) \/ SettleTombstone(w)
BY DEF Next, Requested, RunOnce, Processes, Housekeeps, Fails, vars, rows,
  CreateUploadSession, ExpireOnRequest, Put, CompleteUpload, VerifyObject,
  ClaimUploads, StartSession, ExamineObject, ExamineFails, StoreObject, StoreFails, CommitFails,
  DiscardObject, DiscardFails, ReleaseClaim, RejectUpload, ClearQuarantine, MarkCleared,
  ClearFails, FinishBatch, ExpireUnused, FailOverdue, ListQuarantine, SweepQuarantine,
  ClaimTombstone, EraseObject, EraseFails, RetryTombstone, PurgeMetadata, Interrupted,
  ClockAdvances, LeaseExpires, TombstoneTime

LEMMA OneMediaMoves ==
  ASSUME TypeOK, NEW u \in Uploads, NEW row \in Media, media' = [media EXCEPT ![u] = row],
         media'[u] = row => MediaMoves(u)
  PROVE  media' \in [Uploads -> Media] /\ \A v \in Uploads : MediaMoves(v)
BY DEF TypeOK, MediaMoves

LEMMA MediaAlwaysMoves ==
  ASSUME TypeOK, Shaped, [Next]_vars
  PROVE  media' \in [Uploads -> Media] /\ \A u \in Uploads : MediaMoves(u)
<1> DEFINE Goal == media' \in [Uploads -> Media] /\ \A u \in Uploads : MediaMoves(u)
<1>1. CASE UNCHANGED media
  BY <1>1 DEF TypeOK, MediaMoves
<1>2. ASSUME NEW u \in Uploads, QueueDeletion(u) PROVE Goal
  <2> DEFINE k == <<u, media[u].version>>
  <2>1. media[u] \in Media /\ media[u].state \in {"live", "deleting"} /\ UNCHANGED stored
    BY <1>2 DEF QueueDeletion, TypeOK, store
  <2>2. ASSUME NEW state \in {"deleting", "deleted"},
               media' = [media EXCEPT ![u].state = state],
               state = "deleted" \/ (k \in Keys => tombstone'[k].state # "absent")
        PROVE  Goal
    <3> DEFINE row == [media[u] EXCEPT !.state = state]
    <3>1. row \in Media /\ row.state = state /\ row.version = media[u].version
      BY <2>1 DEF Media
    <3>2. media' = [media EXCEPT ![u] = row]
      BY <2>2
    <3> HIDE DEF row
    <3>3. media'[u] = row => MediaMoves(u)
      BY <2>1, <2>2, <3>1 DEF MediaMoves
    <3> QED
      BY <3>1, <3>2, <3>3, OneMediaMoves
  <2>3. CASE tombstone[k].state = "completed"
    BY <1>2, <2>2, <2>3 DEF QueueDeletion
  <2>4. CASE tombstone[k].state # "completed"
    <3>1. media' = [media EXCEPT ![u].state = "deleting"]
      BY <1>2, <2>4 DEF QueueDeletion
    <3>2. tombstone' = IF NoTombstone(k)
                       THEN [tombstone EXCEPT ![k].state = "pending"] ELSE tombstone
      BY <1>2, <2>4 DEF QueueDeletion
    <3>3. k \in Keys => tombstone'[k].state # "absent"
      BY <3>2 DEF TypeOK, Tombstone, NoTombstone
    <3> QED
      BY <2>2, <3>1, <3>3
  <2> QED
    BY <2>3, <2>4
<1>3. ASSUME NEW w \in Workers, CommitMedia(w) \/ CommitLost(w) PROVE Goal
  <2> DEFINE u == worker[w].u
             row == [state |-> "live", version |-> worker[w].version]
  <2>1. u \in Uploads /\ worker[w].pc = "committing"
    BY <1>3 DEF CommitMedia, CommitLost, At, Shaped, Shape, Attempting, Opening, Key, Keys
  <2>2. row \in Media
    BY DEF TypeOK, Worker, Media
  <2>3. CASE UNCHANGED media
    BY <2>3 DEF TypeOK, MediaMoves
  <2>4. CASE /\ media' = MediaAdded(w)
             /\ \/ Step(w, "clearing")
                \/ /\ Goto(w, [worker[w] EXCEPT !.pc = "discarding", !.retry = "yes"])
                   /\ lostCommits' = lostCommits + 1
    <3>1. media' = [media EXCEPT ![u] = row]
      BY <2>4 DEF MediaAdded
    <3>2. /\ worker'[w].batch = worker[w].batch
          /\ \/ worker'[w].pc = "clearing"
             \/ worker'[w].pc = "discarding" /\ lostCommits' # 0
      <4>0. worker[w] \in Worker
        BY DEF TypeOK
      <4>1. CASE Step(w, "clearing")
        <5>1. worker'[w] = [worker[w] EXCEPT !.pc = "clearing"]
          BY <4>1, StepChanges DEF TypeOK, Labels
        <5> QED
          BY <4>0, <5>1 DEF Worker
      <4>2. CASE /\ Goto(w, [worker[w] EXCEPT !.pc = "discarding", !.retry = "yes"])
                 /\ lostCommits' = lostCommits + 1
        <5>1. lostCommits' # 0
          BY <4>2, MediaConstants DEF TypeOK, MediaConstants
        <5>2. worker'[w] = [worker[w] EXCEPT !.pc = "discarding", !.retry = "yes"]
          BY <4>2 DEF TypeOK, Goto
        <5> QED
          BY <4>0, <5>1, <5>2 DEF Worker
      <4> QED
        BY <2>4, <4>1, <4>2
    <3>3. UNCHANGED <<tombstone, stored>>
      BY <1>3 DEF CommitMedia, CommitLost, store
    <3>4. media'[u] = row => Records(w, u)
      BY <2>1, <3>2, <3>3 DEF Records
    <3>5. media'[u] = row => MediaMoves(u)
      BY <3>4 DEF MediaMoves
    <3> QED
      BY <2>1, <2>2, <3>1, <3>5, OneMediaMoves
  <2> QED
    BY <1>3, <2>3, <2>4 DEF CommitMedia, CommitLost
<1>4. ASSUME NEW w \in Workers, SettleTombstone(w) PROVE Goal
  <2> DEFINE u == worker[w].u
             row == [media[u] EXCEPT !.state = "deleted"]
  <2>1. u \in Uploads
    BY <1>4 DEF SettleTombstone, At, Shaped, Shape, Burying, Key, Keys
  <2>2. CASE UNCHANGED media
    BY <2>2 DEF TypeOK, MediaMoves
  <2>3. CASE IsMedia(Key(w)) /\ media' = [media EXCEPT ![u].state = "deleted"]
    <3>1. media[u] \in Media /\ media[u].state \in {"live", "deleting"}
      BY <2>1, <2>3 DEF TypeOK, IsMedia, Key
    <3>2. row \in Media /\ row.state = "deleted" /\ row.version = media[u].version
      BY <3>1 DEF Media
    <3>3. media'[u] = row => MediaMoves(u)
      BY <3>1, <3>2 DEF MediaMoves
    <3> QED
      BY <2>1, <2>3, <3>2, <3>3, OneMediaMoves
  <2> QED
    BY <1>4, <2>2, <2>3 DEF SettleTombstone, Key
<1> QED
  BY <1>1, <1>2, <1>3, <1>4, MediaSteps

(* What a step may do to a tombstone.                                      *)
TombstoneMoves(k) ==
  /\ tombstone[k].state # "absent" => tombstone'[k].state # "absent"
  /\ tombstone[k].state = "absent" /\ tombstone'[k].state # "absent" =>
       \/ IsMedia(k) /\ media'[k[1]].state # "live"
       \/ \E w \in Workers : worker[w].pc = "discarding" /\ Key(w) = k /\ UNCHANGED media
  /\ tombstone'[k].state \in {"completed", "purged"} =>
       \/ tombstone[k].state \in {"completed", "purged"}
       \/ /\ \E w \in Workers : worker[w].pc = "settling" /\ Key(w) = k
          /\ UNCHANGED stored /\ ~IsMedia(k)'

LEMMA TombstoneSteps ==
  ASSUME [Next]_vars
  PROVE  \/ UNCHANGED tombstone
         \/ \E u \in Uploads : QueueDeletion(u)
         \/ \E w \in Workers : \/ DiscardFails(w) \/ ClaimTombstone(w) \/ SettleTombstone(w)
                               \/ RetryTombstone(w) \/ PurgeMetadata(w)
         \/ \E k \in Keys : TombstoneTime(k)
BY DEF Next, Requested, RunOnce, Processes, Housekeeps, Fails, vars, rows,
  CreateUploadSession, ExpireOnRequest, Put, CompleteUpload, VerifyObject,
  ClaimUploads, StartSession, ExamineObject, ExamineFails, StoreObject, StoreFails, CommitMedia,
  CommitFails, CommitLost, DiscardObject, ReleaseClaim, RejectUpload, ClearQuarantine,
  MarkCleared, ClearFails, FinishBatch, ExpireUnused, FailOverdue, ListQuarantine,
  SweepQuarantine, EraseObject, EraseFails, Interrupted, ClockAdvances,
  LeaseExpires

LEMMA OneTombstoneMoves ==
  ASSUME TypeOK, NEW k \in Keys, NEW row \in Tombstone, tombstone' = [tombstone EXCEPT ![k] = row],
         tombstone'[k] = row => TombstoneMoves(k)
  PROVE  tombstone' \in [Keys -> Tombstone] /\ \A j \in Keys : TombstoneMoves(j)
BY DEF TypeOK, TombstoneMoves

LEMMA TombstoneAlwaysMoves ==
  ASSUME TypeOK, Shaped, [Next]_vars
  PROVE  tombstone' \in [Keys -> Tombstone] /\ \A k \in Keys : TombstoneMoves(k)
<1> DEFINE Goal == tombstone' \in [Keys -> Tombstone] /\ \A k \in Keys : TombstoneMoves(k)
<1>0. \A k \in Keys : tombstone[k] \in Tombstone /\ tombstone[k].rowVersion \in Nat
  BY DEF TypeOK, Tombstone
<1>1. CASE UNCHANGED tombstone
  BY <1>1 DEF TypeOK, TombstoneMoves
<1>2. ASSUME NEW u \in Uploads, QueueDeletion(u) PROVE Goal
  <2>0. PICK k : k = <<u, media[u].version>>
    OBVIOUS
  <2> DEFINE row == [tombstone[k] EXCEPT !.state = "pending"]
  <2>1. CASE k \in Keys /\ tombstone' = [tombstone EXCEPT ![k].state = "pending"]
             /\ media' = [media EXCEPT ![u].state = "deleting"]
    <3>1. row \in Tombstone /\ row.state = "pending"
      BY <1>0, <2>1 DEF Tombstone
    <3>2. media[u] \in Media /\ media[u].state \in {"live", "deleting"}
      BY <1>2 DEF QueueDeletion, TypeOK
    <3>3. IsMedia(k)
      BY <2>0, <3>2 DEF IsMedia
    <3>4. media'[k[1]].state # "live"
      BY <2>0, <2>1, <3>2 DEF Media, TypeOK
    <3> HIDE DEF row
    <3>5. tombstone'[k] = row => TombstoneMoves(k)
      BY <3>1, <3>3, <3>4 DEF TombstoneMoves
    <3>6. tombstone' = [tombstone EXCEPT ![k] = row]
      BY <2>1 DEF row
    <3> QED
      BY <2>1, <3>1, <3>5, <3>6, OneTombstoneMoves
  <2>2. CASE tombstone' = [tombstone EXCEPT ![k].state = "pending"] /\ k \notin Keys
    BY <1>1, <2>2 DEF TypeOK
  <2> QED
    BY <1>1, <1>2, <2>0, <2>1, <2>2 DEF QueueDeletion
<1>3. ASSUME NEW w \in Workers, DiscardFails(w) PROVE Goal
  <2>1. PICK k \in Keys : k = Key(w)
    BY <1>3 DEF DiscardFails, At, Shaped, Shape, Attempting
  <2> DEFINE n == IF NoTombstone(k) THEN 0 ELSE tombstone[k].rowVersion + 1
             row == [state |-> "pending", lease |-> "none", available |-> "now", rowVersion |-> n]
  <2>2. n \in Nat
    BY <1>0
  <2>3. tombstone' = [tombstone EXCEPT ![k] = row]
    BY <1>3, <2>1 DEF DiscardFails, TypeOK
  <2> HIDE DEF n
  <2>4. row \in Tombstone /\ row.state = "pending"
    BY <2>2 DEF Tombstone
  <2> HIDE DEF row
  <2>5. tombstone'[k] = row => TombstoneMoves(k)
    BY <1>3, <2>1, <2>4 DEF TombstoneMoves, DiscardFails, At
  <2> QED
    BY <2>3, <2>4, <2>5, OneTombstoneMoves
<1>4. ASSUME NEW w \in Workers, ClaimTombstone(w) PROVE Goal
  <2>1. ASSUME NEW k \in Keys, Due(k),
               tombstone' = [tombstone EXCEPT ![k].state = "in_progress", ![k].lease = "live",
                                              ![k].rowVersion = @ + 1]
        PROVE  Goal
    <3> DEFINE n == tombstone[k].rowVersion + 1
               row == [tombstone[k] EXCEPT !.state = "in_progress", !.lease = "live",
                                           !.rowVersion = n]
    <3>1. n \in Nat
      BY <1>0
    <3>2. tombstone' = [tombstone EXCEPT ![k] = row]
      BY <2>1 DEF TypeOK
    <3> HIDE DEF n
    <3>3. row \in Tombstone /\ row.state = "in_progress"
      BY <1>0, <3>1 DEF Tombstone
    <3> HIDE DEF row
    <3>4. tombstone'[k] = row => TombstoneMoves(k)
      BY <2>1, <3>3 DEF TombstoneMoves, Due
    <3> QED
      BY <3>2, <3>3, <3>4, OneTombstoneMoves
  <2> QED
    BY <1>1, <1>4, <2>1 DEF ClaimTombstone
<1>5. ASSUME NEW w \in Workers, SettleTombstone(w) PROVE Goal
  <2>0. PICK k \in Keys : k = Key(w)
    BY <1>5 DEF SettleTombstone, At, Shaped, Shape, Burying
  <2> DEFINE n == tombstone[k].rowVersion + 1
             row == [tombstone[k] EXCEPT !.state = "completed", !.lease = "none", !.rowVersion = n]
  <2>1. Key(w) = k /\ worker[w].pc = "settling" /\ UNCHANGED stored
    BY <1>5, <2>0 DEF SettleTombstone, At, store
  <2>2. CASE /\ Buries(w)
             /\ tombstone' = [tombstone EXCEPT ![k].state = "completed", ![k].lease = "none",
                                               ![k].rowVersion = @ + 1]
             /\ media' = IF IsMedia(k) THEN [media EXCEPT ![k[1]].state = "deleted"] ELSE media
    <3>1. n \in Nat
      BY <1>0, <2>1
    <3>2. tombstone' = [tombstone EXCEPT ![k] = row]
      BY <2>2, Zenon DEF TypeOK
    <3> HIDE DEF n
    <3>3. row \in Tombstone /\ row.state = "completed"
      BY <1>0, <3>1 DEF Tombstone
    <3>4. k[1] \in Uploads
      BY DEF Keys
    <3>5. ~IsMedia(k)'
      <4>1. media[k[1]] \in Media
        BY <3>4 DEF TypeOK
      <4>2. CASE IsMedia(k)
        <5>1. media'[k[1]].state = "deleted"
          BY <2>2, <3>4, <4>1, <4>2 DEF TypeOK, Media
        <5> QED
          BY <5>1 DEF IsMedia
      <4>3. CASE ~IsMedia(k)
        BY <2>2, <4>3 DEF IsMedia
      <4> QED
        BY <4>2, <4>3
    <3>6. tombstone[k].state = "in_progress"
      BY <2>1, <2>2 DEF Buries
    <3> HIDE DEF row
    <3>7. tombstone'[k] = row => TombstoneMoves(k)
      BY <2>1, <3>3, <3>5, <3>6 DEF TombstoneMoves
    <3> QED
      BY <3>2, <3>3, <3>7, OneTombstoneMoves
  <2> QED
    BY <1>1, <1>5, <2>1, <2>2 DEF SettleTombstone
<1>6. ASSUME NEW w \in Workers, RetryTombstone(w) PROVE Goal
  <2>1. PICK k \in Keys : k = Key(w)
    BY <1>6 DEF RetryTombstone, At, Shaped, Shape, Burying
  <2> DEFINE n == tombstone[k].rowVersion + 1
             row == [state |-> "failed", lease |-> "none", available |-> "later", rowVersion |-> n]
  <2>2. CASE Buries(w) /\ tombstone' = [tombstone EXCEPT ![k] =
                            [state |-> "failed", lease |-> "none", available |-> "later",
                             rowVersion |-> @.rowVersion + 1]]
    <3>1. n \in Nat
      BY <1>0, <2>1
    <3>2. tombstone' = [tombstone EXCEPT ![k] = row]
      BY <2>1, <2>2 DEF TypeOK
    <3> HIDE DEF n
    <3>3. row \in Tombstone /\ row.state = "failed"
      BY <3>1 DEF Tombstone
    <3>4. tombstone[k].state = "in_progress"
      BY <2>1, <2>2 DEF Buries
    <3> HIDE DEF row
    <3>5. tombstone'[k] = row => TombstoneMoves(k)
      BY <3>3, <3>4 DEF TombstoneMoves
    <3> QED
      BY <3>2, <3>3, <3>5, OneTombstoneMoves
  <2> QED
    BY <1>1, <1>6, <2>1, <2>2 DEF RetryTombstone
<1>7. ASSUME NEW k \in Keys, TombstoneTime(k) PROVE Goal
  <2> DEFINE lapsed == [tombstone[k] EXCEPT !.lease = "expired"]
             due == [tombstone[k] EXCEPT !.available = "now"]
  <2>1. /\ lapsed \in Tombstone /\ lapsed.state = tombstone[k].state
        /\ due \in Tombstone /\ due.state = tombstone[k].state
    BY <1>0 DEF Tombstone
  <2>2. tombstone' = [tombstone EXCEPT ![k] = lapsed] \/ tombstone' = [tombstone EXCEPT ![k] = due]
    BY <1>7 DEF TombstoneTime
  <2> HIDE DEF lapsed, due
  <2>3. tombstone'[k] = lapsed \/ tombstone'[k] = due => TombstoneMoves(k)
    BY <2>1 DEF TombstoneMoves
  <2> QED
    BY <2>1, <2>2, <2>3, OneTombstoneMoves
<1>8. ASSUME NEW w \in Workers, PurgeMetadata(w) PROVE Goal
  <2>1. PICK T \in SUBSET {k \in Keys : /\ tombstone[k].state = "completed"
                                       /\ clock[k[1]] = "overdue"} :
          tombstone' = [k \in Keys |->
            IF k \in T THEN [tombstone[k] EXCEPT !.state = "purged", !.rowVersion = 0]
            ELSE tombstone[k]]
    BY <1>8 DEF PurgeMetadata
  <2>2. ASSUME NEW k \in Keys PROVE tombstone'[k] \in Tombstone /\ TombstoneMoves(k)
    <3> DEFINE row == [tombstone[k] EXCEPT !.state = "purged", !.rowVersion = 0]
    <3>1. row \in Tombstone /\ row.state = "purged"
      BY <1>0 DEF Tombstone
    <3>2. CASE k \in T
      <4>1. tombstone'[k] = row /\ tombstone[k].state = "completed"
        BY <2>1, <3>2
      <4> HIDE DEF row
      <4> QED
        BY <3>1, <4>1 DEF TombstoneMoves
    <3>3. CASE k \notin T
      BY <1>0, <2>1, <3>3 DEF TombstoneMoves
    <3> QED
      BY <3>2, <3>3
  <2> QED
    BY <2>1, <2>2
<1> QED
  BY <1>1, <1>2, <1>3, <1>4, <1>5, <1>6, <1>7, <1>8, TombstoneSteps

-----------------------------------------------------------------------------
(* What is left: the quarantine, the requests, the clock and the bounds.   *)

QuarantineMoves ==
  /\ quarantine' \in [Uploads -> Contents \cup {None}]
  /\ \A u \in Uploads : quarantine'[u] = None =>
       \/ quarantine[u] = None
       \/ \E w \in Workers : worker[w].pc \in Clearing /\ worker[w].u = u

LEMMA QuarantineSteps ==
  ASSUME [Next]_vars
  PROVE  \/ UNCHANGED quarantine
         \/ \E u \in Uploads, content \in Contents : Put(u, content)
         \/ \E w \in Workers : ClearQuarantine(w) \/ ClearFails(w)
BY DEF Next, Requested, RunOnce, Processes, Housekeeps, Fails, vars, rows, store,
  CreateUploadSession, ExpireOnRequest, QueueDeletion, CompleteUpload, VerifyObject,
  ClaimUploads, StartSession, ExamineObject, ExamineFails, StoreObject, StoreFails, CommitMedia,
  CommitFails, CommitLost, DiscardObject, DiscardFails, ReleaseClaim, RejectUpload, MarkCleared,
  FinishBatch, ExpireUnused, FailOverdue, ListQuarantine, SweepQuarantine, ClaimTombstone,
  EraseObject, SettleTombstone, EraseFails, RetryTombstone, PurgeMetadata, Interrupted,
  ClockAdvances, LeaseExpires, TombstoneTime

LEMMA QuarantineAlwaysMoves ==
  ASSUME TypeOK, [Next]_vars
  PROVE  QuarantineMoves
<1>1. CASE UNCHANGED quarantine
  BY <1>1 DEF QuarantineMoves, TypeOK
<1>2. ASSUME NEW u \in Uploads, NEW content \in Contents, Put(u, content) PROVE QuarantineMoves
  BY <1>2, MediaConstants DEF QuarantineMoves, TypeOK, Put, MediaConstants
<1>3. ASSUME NEW w \in Workers, ClearQuarantine(w) \/ ClearFails(w) PROVE QuarantineMoves
  BY <1>3 DEF QuarantineMoves, TypeOK, ClearQuarantine, ClearFails, At, Clearing
<1> QED
  BY <1>1, <1>2, <1>3, QuarantineSteps

(* A request that completes an upload has seen its object.                 *)
RequestMoves ==
  /\ request' \in [Requests -> [u: Uploads \cup {None}, etag: Contents \cup {None}]]
  /\ \A c \in Requests :
       \/ request'[c].u \in {None, request[c].u}
       \/ quarantine[request'[c].u] # None /\ UNCHANGED quarantine

LEMMA RequestSteps ==
  ASSUME [Next]_vars
  PROVE  \/ UNCHANGED request
         \/ \E c \in Requests : CompleteUpload(c) \/ \E u \in Uploads : VerifyObject(c, u)
BY DEF Next, Requested, RunOnce, Processes, Housekeeps, Fails, vars, rows, store,
  CreateUploadSession, ExpireOnRequest, QueueDeletion, Put, ClaimUploads, StartSession,
  ExamineObject, ExamineFails, StoreObject, StoreFails, CommitMedia, CommitFails, CommitLost,
  DiscardObject, DiscardFails, ReleaseClaim, RejectUpload, ClearQuarantine, MarkCleared,
  ClearFails, FinishBatch, ExpireUnused, FailOverdue, ListQuarantine, SweepQuarantine,
  ClaimTombstone, EraseObject, SettleTombstone, EraseFails, RetryTombstone, PurgeMetadata,
  Interrupted, ClockAdvances, LeaseExpires, TombstoneTime

LEMMA RequestAlwaysMoves ==
  ASSUME TypeOK, [Next]_vars
  PROVE  RequestMoves
<1>1. CASE UNCHANGED request
  BY <1>1 DEF RequestMoves, TypeOK
<1>2. ASSUME NEW c \in Requests, CompleteUpload(c) PROVE RequestMoves
  BY <1>2 DEF RequestMoves, TypeOK, CompleteUpload
<1>3. ASSUME NEW c \in Requests, NEW u \in Uploads, VerifyObject(c, u) PROVE RequestMoves
  BY <1>3 DEF RequestMoves, TypeOK, VerifyObject, Head, store
<1> QED
  BY <1>1, <1>2, <1>3, RequestSteps

LEMMA CountsTyped ==
  ASSUME TypeOK, [Next]_vars
  PROVE  /\ faults' \in 0 .. MaxFaults
         /\ lostCommits' \in 0 .. MaxLostCommits
         /\ lostCommits' = 0 => lostCommits = 0
<1>1. \/ UNCHANGED bounds
      \/ Fault
      \/ UNCHANGED faults /\ lostCommits < MaxLostCommits /\ lostCommits' = lostCommits + 1
  BY DEF Next, Requested, RunOnce, Processes, Housekeeps, Fails, vars, rows,
    CreateUploadSession, ExpireOnRequest, QueueDeletion, Put, CompleteUpload, VerifyObject,
    ClaimUploads, StartSession, ExamineObject, ExamineFails, StoreObject, StoreFails, CommitMedia,
    CommitFails, CommitLost, DiscardObject, DiscardFails, ReleaseClaim, RejectUpload,
    ClearQuarantine, MarkCleared, ClearFails, FinishBatch, ExpireUnused, FailOverdue,
    ListQuarantine, SweepQuarantine, ClaimTombstone, EraseObject, SettleTombstone, EraseFails,
    RetryTombstone, PurgeMetadata, Interrupted, ClockAdvances, LeaseExpires, TombstoneTime
<1> QED
  BY <1>1, MediaConstants DEF TypeOK, Fault, bounds, MediaConstants

LEMMA ClockTyped ==
  ASSUME TypeOK, [Next]_vars
  PROVE  clock' \in [Uploads -> {"open", "expired", "overdue"}]
<1>1. UNCHANGED clock \/ \E u \in Uploads : ClockAdvances(u)
  BY DEF Next, Requested, RunOnce, Processes, Housekeeps, Fails, vars,
    CreateUploadSession, ExpireOnRequest, QueueDeletion, Put, CompleteUpload, VerifyObject,
    ClaimUploads, StartSession, ExamineObject, ExamineFails, StoreObject, StoreFails, CommitMedia,
    CommitFails, CommitLost, DiscardObject, DiscardFails, ReleaseClaim, RejectUpload,
    ClearQuarantine, MarkCleared, ClearFails, FinishBatch, ExpireUnused, FailOverdue,
    ListQuarantine, SweepQuarantine, ClaimTombstone, EraseObject, SettleTombstone, EraseFails,
    RetryTombstone, PurgeMetadata, Interrupted, LeaseExpires, TombstoneTime
<1>2. ASSUME NEW u \in Uploads, ClockAdvances(u)
      PROVE  clock' \in [Uploads -> {"open", "expired", "overdue"}]
  BY <1>2 DEF TypeOK, ClockAdvances
<1> QED
  BY <1>1, <1>2 DEF TypeOK

-----------------------------------------------------------------------------
Typed == TypeOK /\ Shaped

LEMMA TypedInit == Init => Typed
<1> SUFFICES ASSUME Init PROVE TypeOK /\ Shaped
  BY DEF Typed
<1>1. AtRest \in Worker /\ AtRest.pc = "idle" /\ AtRest.batch = {} /\ AtRest.back = "working"
  BY DEF AtRest, Worker
<1>2. Shaped
  BY <1>1 DEF Init, Shaped, Shape, Attempting, Opening, Burying, Clearing
<1>3. upload \in [Uploads -> Upload]
  BY DEF Init, Upload
<1>4. media \in [Uploads -> Media] /\ tombstone \in [Keys -> Tombstone]
  BY DEF Init, Media, Tombstone
<1>5. worker \in [Workers -> Worker]
  BY <1>1 DEF Init
<1>6. /\ clock \in [Uploads -> {"open", "expired", "overdue"}]
      /\ quarantine \in [Uploads -> Contents \cup {None}]
      /\ stored \subseteq Keys
      /\ request \in [Requests -> [u: Uploads \cup {None}, etag: Contents \cup {None}]]
  BY DEF Init
<1>7. faults \in 0 .. MaxFaults /\ lostCommits \in 0 .. MaxLostCommits
  BY MediaConstants DEF Init, MediaConstants
<1> QED
  BY <1>2, <1>3, <1>4, <1>5, <1>6, <1>7 DEF TypeOK

LEMMA TypedStep == Typed /\ [Next]_vars => Typed'
<1> SUFFICES ASSUME TypeOK, Shaped, [Next]_vars PROVE TypeOK' /\ Shaped'
  BY DEF Typed
<1>1. worker' \in [Workers -> Worker] /\ Shaped'
  <2>1. CASE UNCHANGED worker
    BY <2>1 DEF TypeOK, Shaped, Shape, Key
  <2>2. ASSUME NEW w \in Workers, Turns(w)
        PROVE  worker' \in [Workers -> Worker] /\ Shaped'
    BY <2>2 DEF Turns, Shaped, Shape, Key
  <2> QED
    BY <2>1, <2>2, WorkerTurns
<1>2. upload' \in [Uploads -> Upload]
  BY RowsAlwaysMove DEF RowsMove
<1> QED
  BY <1>1, <1>2, StoreAlwaysMoves, MediaAlwaysMoves, TombstoneAlwaysMoves, QuarantineAlwaysMoves,
    RequestAlwaysMoves, CountsTyped, ClockTyped
    DEF TypeOK, StoreMoves, QuarantineMoves, RequestMoves

(* Every variable stays in its type.                                       *)
THEOREM TypeCorrect == Spec => []TypeOK
<1>1. Typed => TypeOK
  BY DEF Typed
<1> QED
  BY TypedInit, TypedStep, <1>1, PTL DEF Spec

(* A session that has ended is only ever purged: no late request, stale    *)
(* worker or sweep reopens it or decides it differently.                   *)
THEOREM DecidedForGood == Spec => TerminalIsFinal
<1> DEFINE Final == \A u \in Uploads : upload[u].state \in Terminal =>
                      upload'[u].state \in {upload[u].state, "purged"}
<1>1. Typed /\ [Next]_vars => [Final]_vars
  BY RowsAlwaysMove DEF Typed, RowsMove, RowMoves, Terminal
<1> QED
  BY TypedInit, TypedStep, <1>1, PTL DEF Spec, TerminalIsFinal

-----------------------------------------------------------------------------
(* The fence.  A version is claimed once: nobody else holds the key that a *)
(* worker works on, however its lease ends.                                *)

Fenced == \A w \in Workers : \A k \in Keys : Held(w, k) => k[2] <= upload[k[1]].rowVersion
Apart == \A w, v \in Workers : \A k \in Keys : Held(w, k) /\ Held(v, k) => w = v

(* A key that was given up is never stored again.                          *)
Spent(k) == k[2] <= upload[k[1]].rowVersion /\ \A w \in Workers : ~Opens(w, k)

LEMMA VersionsRise ==
  ASSUME Typed, [Next]_vars
  PROVE  \A k \in Keys : /\ k[2] \in Nat /\ upload[k[1]].rowVersion \in Nat
                         /\ upload'[k[1]].rowVersion \in Nat
                         /\ upload[k[1]].rowVersion <= upload'[k[1]].rowVersion
<1>1. RowsMove /\ TypeOK
  BY RowsAlwaysMove DEF Typed
<1>2. \A u \in Uploads : /\ upload[u].rowVersion \in Nat /\ upload'[u].rowVersion \in Nat
                         /\ upload'[u].rowVersion >= upload[u].rowVersion
  BY <1>1 DEF TypeOK, Upload, RowsMove, RowMoves
<1> QED
  BY <1>2 DEF Keys

(* Only the worker whose turn it is comes to hold a key, and a new one.    *)
LEMMA AllKeep ==
  ASSUME Typed, [Next]_vars
  PROVE  /\ \A w \in Workers : Keeps(w) /\ Arrives(w)
         /\ \A w, v \in Workers : worker'[w] = worker[w] \/ worker'[v] = worker[v] \/ w = v
<1>1. CASE UNCHANGED worker
  BY <1>1 DEF Keeps, Held, Opens, Arrives, Key
<1>2. ASSUME NEW v \in Workers, Turns(v)
      PROVE  /\ \A w \in Workers : Keeps(w) /\ Arrives(w)
             /\ \A w, x \in Workers : worker'[w] = worker[w] \/ worker'[x] = worker[x] \/ w = x
  <2>1. \A w \in Workers \ {v} : worker'[w] = worker[w]
    BY <1>2 DEF Turns
  <2>2. \A w \in Workers \ {v} : Keeps(w) /\ Arrives(w)
    BY <2>1 DEF Keeps, Held, Opens, Arrives, Key
  <2> QED
    BY <1>2, <2>1, <2>2 DEF Turns
<1> QED
  BY <1>1, <1>2, WorkerTurns DEF Typed

LEMMA FencedStep ==
  ASSUME Typed, Fenced, Apart, [Next]_vars
  PROVE  Fenced' /\ Apart'
<1>1. Fenced'
  BY AllKeep, VersionsRise DEF Fenced, Keeps, Fresh
<1>2. ASSUME NEW w \in Workers, NEW v \in Workers, NEW k \in Keys, Held(w, k)', Held(v, k)', w # v
      PROVE  FALSE
  <2>1. (Held(w, k) \/ Fresh(w, k)) /\ (Held(v, k) \/ Fresh(v, k))
    BY <1>2, AllKeep DEF Keeps
  <2>2. CASE worker'[w] = worker[w]
    <3>1. Held(w, k)
      BY <1>2, <2>2 DEF Held, Key
    <3> QED
      BY <1>2, <2>1, <3>1, VersionsRise DEF Fenced, Apart, Fresh
  <2>3. CASE worker'[v] = worker[v]
    <3>1. Held(v, k)
      BY <1>2, <2>3 DEF Held, Key
    <3> QED
      BY <1>2, <2>1, <3>1, VersionsRise DEF Fenced, Apart, Fresh
  <2> QED
    BY <1>2, <2>2, <2>3, AllKeep
<1> QED
  BY <1>1, <1>2 DEF Apart

LEMMA OpenIsHeld == \A w \in Workers, k \in Keys : Opens(w, k) => Held(w, k)
BY DEF Opens, Held, Attempting

LEMMA SpentStays ==
  ASSUME Typed, [Next]_vars, NEW k \in Keys, Spent(k)
  PROVE  Spent(k)'
BY AllKeep, VersionsRise DEF Spent, Keeps, Fresh

(* The worker that holds a key but has closed it leaves it spent.          *)
LEMMA ClosedIsSpent ==
  ASSUME Typed, Fenced, Apart, NEW w \in Workers, NEW k \in Keys, Held(w, k), ~Opens(w, k)
  PROVE  Spent(k)
BY OpenIsHeld DEF Spent, Fenced, Apart

-----------------------------------------------------------------------------
(* Images, tombstones and the places of the loop that touch their objects. *)

ImagesSpent ==
  \A u \in Uploads : media[u].state # "absent" =>
    \E k \in Keys : k = <<u, media[u].version>> /\ Spent(k)

TombstonesSpent == \A k \in Keys : tombstone[k].state # "absent" => Spent(k)

BuriesKnown ==
  \A w \in Workers : worker[w].pc \in Burying => tombstone[Key(w)].state # "absent"

ErasedBefore == \A w \in Workers : worker[w].pc = "settling" => Key(w) \notin stored

StoredBefore == \A w \in Workers : worker[w].pc = "committing" => Key(w) \in stored

Ordered ==
  /\ Fenced /\ Apart /\ ImagesSpent /\ TombstonesSpent
  /\ BuriesKnown /\ ErasedBefore /\ StoredBefore /\ BuriedTogether

LEMMA OrderedInit == Init => Ordered
BY DEF Init, AtRest, Ordered, Fenced, Apart, ImagesSpent, TombstonesSpent, BuriesKnown,
  ErasedBefore, StoredBefore, BuriedTogether, Held, Attempting, Opening, Burying

LEMMA KeyOfWorker ==
  ASSUME Typed
  PROVE  \A w \in Workers : worker[w].pc \in Attempting \cup Burying => Key(w) \in Keys
BY DEF Typed, Shaped, Shape

LEMMA ImagesSpentStep ==
  ASSUME Typed, Ordered, [Next]_vars
  PROVE  ImagesSpent'
<1> SUFFICES ASSUME NEW u \in Uploads, media'[u].state # "absent"
             PROVE  \E k \in Keys : k = <<u, media'[u].version>> /\ Spent(k)'
  BY DEF ImagesSpent
<1>1. MediaMoves(u)
  BY MediaAlwaysMoves DEF Typed
<1>2. CASE media[u].state # "absent" /\ media'[u].version = media[u].version
  BY <1>2, SpentStays DEF Ordered, ImagesSpent
<1>3. ASSUME NEW w \in Workers, Records(w, u)
      PROVE  \E k \in Keys : k = <<u, media'[u].version>> /\ Spent(k)'
  <2>1. PICK k \in Keys : k = Key(w)
    BY <1>3, KeyOfWorker DEF Records, Attempting, Opening
  <2>2. k = <<u, media'[u].version>>
    BY <1>3, <2>1 DEF Records, Key
  <2>3. Held(w, k) /\ k \notin worker[w].batch
    BY <1>3, <2>1 DEF Records, Held, Attempting, Opening, Typed, Shaped, Shape
  <2>4. ~Opens(w, k)'
    BY <1>3, <2>3 DEF Records, Opens, Opening
  <2>5. \A v \in Workers : ~Opens(v, k)'
    <3> SUFFICES ASSUME NEW v \in Workers, v # w, Opens(v, k)' PROVE FALSE
      BY <2>4
    <3>1. Opens(v, k) \/ Fresh(v, k)
      BY AllKeep DEF Keeps
    <3> QED
      BY <2>3, <3>1, OpenIsHeld, VersionsRise DEF Fresh, Ordered, Fenced, Apart
  <2>6. k[2] <= upload'[k[1]].rowVersion
    BY <2>3, VersionsRise DEF Ordered, Fenced
  <2> QED
    BY <2>2, <2>5, <2>6 DEF Spent
<1> QED
  BY <1>1, <1>2, <1>3 DEF MediaMoves

LEMMA TombstonesSpentStep ==
  ASSUME Typed, Ordered, [Next]_vars
  PROVE  TombstonesSpent'
<1> SUFFICES ASSUME NEW k \in Keys, tombstone'[k].state # "absent" PROVE Spent(k)'
  BY DEF TombstonesSpent
<1>1. TombstoneMoves(k)
  BY TombstoneAlwaysMoves DEF Typed
<1>2. Spent(k)
  <2>1. CASE tombstone[k].state # "absent"
    BY <2>1 DEF Ordered, TombstonesSpent
  <2>2. CASE IsMedia(k)
    <3>1. k[1] \in Uploads /\ k = <<k[1], media[k[1]].version>> /\ media[k[1]].state # "absent"
      BY <2>2 DEF IsMedia, Keys
    <3> QED
      BY <3>1 DEF Ordered, ImagesSpent
  <2>3. ASSUME NEW w \in Workers, worker[w].pc = "discarding", Key(w) = k
        PROVE  Spent(k)
    <3>1. Held(w, k) /\ ~Opens(w, k)
      BY <2>3 DEF Held, Opens, Attempting, Opening, Typed, Shaped, Shape
    <3> QED
      BY <3>1, ClosedIsSpent DEF Ordered
  <2> QED
    BY <1>1, <2>1, <2>2, <2>3 DEF TombstoneMoves
<1> QED
  BY <1>2, SpentStays

LEMMA PlacesStep ==
  ASSUME Typed, Ordered, [Next]_vars
  PROVE  BuriesKnown' /\ ErasedBefore' /\ StoredBefore'
<1>0. StoreMoves
  BY StoreAlwaysMoves DEF Typed
<1>1. BuriesKnown'
  <2> SUFFICES ASSUME NEW w \in Workers, worker'[w].pc \in Burying
               PROVE  tombstone'[Key(w)'].state # "absent"
    BY DEF BuriesKnown
  <2>1. CASE Key(w)' = Key(w) /\ worker[w].pc \in Burying
    <3>1. Key(w) \in Keys /\ tombstone[Key(w)].state # "absent"
      BY <2>1, KeyOfWorker DEF Ordered, BuriesKnown
    <3> QED
      BY <2>1, <3>1, TombstoneAlwaysMoves DEF Typed, TombstoneMoves
  <2> QED
    BY <2>1, AllKeep DEF Arrives
<1>2. ErasedBefore'
  <2> SUFFICES ASSUME NEW w \in Workers, worker'[w].pc = "settling", Key(w)' \in stored'
               PROVE  FALSE
    BY DEF ErasedBefore
  <2>1. Key(w)' = Key(w) /\ worker[w].pc = "settling" /\ Key(w) \notin stored
    BY AllKeep DEF Arrives, Ordered, ErasedBefore
  <2>2. PICK v \in Workers : worker[v].pc = "storing" /\ Key(v) = Key(w)
    BY <1>0, <2>1 DEF StoreMoves
  <2>3. Key(w) \in Keys /\ Opens(v, Key(w))
    BY <2>1, <2>2, KeyOfWorker DEF Opens, Opening, Burying
  <2>4. tombstone[Key(w)].state # "absent"
    BY <2>1 DEF Ordered, BuriesKnown, Burying
  <2> QED
    BY <2>3, <2>4 DEF Ordered, TombstonesSpent, Spent
<1>3. StoredBefore'
  <2> SUFFICES ASSUME NEW w \in Workers, worker'[w].pc = "committing", Key(w)' \notin stored'
               PROVE  FALSE
    BY DEF StoredBefore
  <2>1. Key(w)' = Key(w) /\ worker[w].pc = "committing" /\ Key(w) \in stored
    BY AllKeep DEF Arrives, Ordered, StoredBefore
  <2>2. PICK v \in Workers :
          worker[v].pc \in {"discarding", "erasing", "settling"} /\ Key(v) = Key(w)
    BY <1>0, <2>1 DEF StoreMoves
  <2>3. Key(w) \in Keys /\ Opens(w, Key(w)) /\ Held(w, Key(w))
    BY <2>1, KeyOfWorker DEF Opens, Held, Opening, Attempting
  <2>4. CASE worker[v].pc = "discarding"
    BY <2>1, <2>2, <2>3, <2>4 DEF Ordered, Apart, Held, Attempting
  <2>5. CASE worker[v].pc \in Burying
    BY <2>2, <2>3, <2>5 DEF Ordered, BuriesKnown, TombstonesSpent, Spent
  <2> QED
    BY <2>2, <2>4, <2>5 DEF Burying
<1> QED
  BY <1>1, <1>2, <1>3

LEMMA BuriedStep ==
  ASSUME Typed, Ordered, [Next]_vars
  PROVE  BuriedTogether'
<1> SUFFICES ASSUME NEW k \in Keys, tombstone'[k].state \in {"completed", "purged"}
             PROVE  k \notin stored' /\ ~IsMedia(k)'
  BY DEF BuriedTogether
<1>1. TombstoneMoves(k) /\ StoreMoves
  BY TombstoneAlwaysMoves, StoreAlwaysMoves DEF Typed
<1>2. CASE tombstone[k].state \in {"completed", "purged"}
  <2>1. k \notin stored /\ ~IsMedia(k) /\ Spent(k)
    BY <1>2 DEF Ordered, BuriedTogether, TombstonesSpent
  <2>2. \A w \in Workers : ~Opens(w, k)
    BY <2>1 DEF Spent
  <2>3. k \notin stored'
    BY <1>1, <2>1, <2>2 DEF StoreMoves, Opens, Opening
  <2>4. ~IsMedia(k)'
    <3>1. k[1] \in Uploads /\ k = <<k[1], k[2]>>
      BY DEF Keys
    <3>2. MediaMoves(k[1])
      BY <3>1, MediaAlwaysMoves DEF Typed
    <3>3. ASSUME NEW w \in Workers, Records(w, k[1]) PROVE ~IsMedia(k)'
      BY <2>2, <3>1, <3>3 DEF Records, IsMedia, Opens, Opening, Key
    <3> QED
      BY <2>1, <3>2, <3>3 DEF MediaMoves, IsMedia
  <2> QED
    BY <2>3, <2>4
<1>3. CASE tombstone[k].state \notin {"completed", "purged"}
  BY <1>1, <1>3 DEF TombstoneMoves, Ordered, ErasedBefore
<1> QED
  BY <1>2, <1>3

LEMMA OrderedStep == Typed /\ Ordered /\ [Next]_vars => Ordered'
BY FencedStep, ImagesSpentStep, TombstonesSpentStep, PlacesStep, BuriedStep DEF Ordered

-----------------------------------------------------------------------------
(* No false ready.  While no commit has lost its answer, the object a      *)
(* worker discards is nobody's image, and a live image has no tombstone.   *)

ReadyRecorded == \A u \in Uploads : upload[u].state = "ready" => media[u].state # "absent"

LiveStored == \A u \in Uploads : media[u].state = "live" => <<u, media[u].version>> \in stored

LiveUnburied ==
  \A u \in Uploads : media[u].state = "live" =>
    tombstone[<<u, media[u].version>>].state = "absent"

DiscardsNoImage == \A w \in Workers : worker[w].pc = "discarding" => ~IsMedia(Key(w))

Truthful == LiveStored /\ LiveUnburied /\ DiscardsNoImage

NothingLost == ReadyRecorded /\ (lostCommits = 0 => Truthful)

LEMMA NothingLostInit == Init => NothingLost
BY DEF Init, AtRest, NothingLost, Truthful, ReadyRecorded, LiveStored, LiveUnburied,
  DiscardsNoImage

LEMMA ReadyRecordedStep ==
  ASSUME Typed, ReadyRecorded, [Next]_vars
  PROVE  ReadyRecorded'
<1> SUFFICES ASSUME NEW u \in Uploads, upload'[u].state = "ready" PROVE media'[u].state # "absent"
  BY DEF ReadyRecorded
<1>1. RowMoves(u) /\ MediaMoves(u)
  BY RowsAlwaysMove, MediaAlwaysMoves DEF Typed, RowsMove
<1>2. media[u].state # "absent" => media'[u].state # "absent"
  <2>1. ASSUME NEW w \in Workers, Records(w, u) PROVE media'[u].state = "live"
    BY <2>1 DEF Records
  <2> QED
    BY <1>1, <2>1 DEF MediaMoves
<1> QED
  BY <1>1, <1>2 DEF RowMoves, ReadyRecorded

LEMMA TruthfulStep ==
  ASSUME Typed, Ordered, Truthful, [Next]_vars, lostCommits' = 0
  PROVE  Truthful'
<1>0. StoreMoves /\ \A w \in Workers : Arrives(w)
  BY StoreAlwaysMoves, AllKeep DEF Typed
<1>1. ASSUME NEW u \in Uploads PROVE MediaMoves(u)
  BY MediaAlwaysMoves DEF Typed
(* A worker that records an image is alone with its key, which is stored.  *)
<1>2. ASSUME NEW w \in Workers, NEW u \in Uploads, Records(w, u)
      PROVE  /\ Key(w) = <<u, media'[u].version>> /\ Key(w) \in Keys /\ Key(w) \in stored'
             /\ tombstone'[Key(w)].state = "absent"
             /\ worker'[w].pc = "clearing"
             /\ \A v \in Workers \ {w} : ~(worker[v].pc \in Attempting /\ Key(v) = Key(w))
  <2>1. Key(w) = <<u, media'[u].version>>
    BY <1>2 DEF Records, Key
  <2>2. Key(w) \in Keys /\ Opens(w, Key(w)) /\ Held(w, Key(w))
    BY <1>2, KeyOfWorker DEF Records, Opens, Held, Attempting, Opening
  <2>3. Key(w) \in stored'
    BY <1>2 DEF Records, Ordered, StoredBefore
  <2>4. tombstone'[Key(w)].state = "absent"
    BY <1>2, <2>2 DEF Records, Ordered, TombstonesSpent, Spent
  <2>5. \A v \in Workers \ {w} : ~(worker[v].pc \in Attempting /\ Key(v) = Key(w))
    BY <2>2 DEF Ordered, Apart, Held
  <2> QED
    BY <1>2, <2>1, <2>2, <2>3, <2>4, <2>5 DEF Records
<1>3. LiveStored'
  <2> SUFFICES ASSUME NEW u \in Uploads, media'[u].state = "live"
               PROVE  <<u, media'[u].version>> \in stored'
    BY DEF LiveStored
  <2>1. CASE media'[u] = media[u]
    <3> DEFINE k == <<u, media[u].version>>
    <3>1. k \in stored /\ tombstone[k].state = "absent" /\ IsMedia(k)
      BY <2>1 DEF Truthful, LiveStored, LiveUnburied, IsMedia
    <3>2. ASSUME NEW w \in Workers, worker[w].pc \in {"discarding", "erasing", "settling"},
                 Key(w) = k
          PROVE  FALSE
      BY <3>1, <3>2 DEF Truthful, DiscardsNoImage, Ordered, BuriesKnown, Burying
    <3> QED
      BY <1>0, <2>1, <3>1, <3>2 DEF StoreMoves
  <2> QED
    BY <1>1, <1>2, <2>1 DEF MediaMoves
<1>4. LiveUnburied'
  <2> SUFFICES ASSUME NEW u \in Uploads, media'[u].state = "live"
               PROVE  tombstone'[<<u, media'[u].version>>].state = "absent"
    BY DEF LiveUnburied
  <2>1. CASE media'[u] = media[u]
    <3>1. PICK k \in Keys : k = <<u, media[u].version>>
      BY <2>1 DEF Ordered, ImagesSpent
    <3>2. tombstone[k].state = "absent" /\ IsMedia(k) /\ media'[k[1]].state = "live"
      BY <2>1, <3>1 DEF Truthful, LiveUnburied, IsMedia
    <3>3. TombstoneMoves(k)
      BY TombstoneAlwaysMoves DEF Typed
    <3> QED
      BY <2>1, <3>1, <3>2, <3>3 DEF TombstoneMoves, Truthful, DiscardsNoImage
  <2> QED
    BY <1>1, <1>2, <2>1 DEF MediaMoves
<1>5. DiscardsNoImage'
  <2> SUFFICES ASSUME NEW w \in Workers, worker'[w].pc = "discarding", IsMedia(Key(w))'
               PROVE  FALSE
    BY DEF DiscardsNoImage
  <2>1. Key(w)' = Key(w) /\ worker[w].pc \in {"storing", "committing", "discarding"}
    BY <1>0 DEF Arrives
  <2>2. PICK k \in Keys : k = Key(w)
    BY <2>1, KeyOfWorker DEF Attempting, Opening
  <2>3. k[1] \in Uploads /\ k = <<k[1], k[2]>> /\ media'[k[1]].state \in {"live", "deleting"}
        /\ media'[k[1]].version = k[2]
    BY <2>1, <2>2 DEF IsMedia, Keys
  <2>4. ~IsMedia(k)
    <3>1. CASE worker[w].pc = "discarding"
      BY <2>2, <3>1 DEF Truthful, DiscardsNoImage
    <3>2. CASE worker[w].pc \in Opening
      BY <2>2, <2>3, <3>2 DEF Ordered, ImagesSpent, Spent, Opens, IsMedia
    <3> QED
      BY <2>1, <3>1, <3>2 DEF Opening
  <2>5. ASSUME NEW v \in Workers, Records(v, k[1]) PROVE FALSE
    <3>1. Key(v) = k /\ worker'[v].pc = "clearing" /\ v = w
      BY <1>2, <2>1, <2>2, <2>3, <2>5 DEF Attempting, Opening
    <3> QED
      BY <3>1
  <2> QED
    BY <1>1, <2>3, <2>4, <2>5 DEF MediaMoves, IsMedia
<1> QED
  BY <1>3, <1>4, <1>5 DEF Truthful

LEMMA NothingLostStep == Typed /\ Ordered /\ NothingLost /\ [Next]_vars => NothingLost'
<1> SUFFICES ASSUME Typed, Ordered, NothingLost, [Next]_vars PROVE NothingLost'
  OBVIOUS
<1>1. lostCommits' = 0 => lostCommits = 0
  BY CountsTyped DEF Typed
<1> QED
  BY <1>1, ReadyRecordedStep, TruthfulStep DEF NothingLost

-----------------------------------------------------------------------------
(* The quarantine.  Whoever is about to clear it works on a session that   *)
(* has ended, whether from its own attempt or from a list read long ago.   *)

ClearsEnded ==
  \A w \in Workers : worker[w].pc \in Clearing => upload[worker[w].u].state \in Ended

ListsEnded ==
  \A w \in Workers : worker[w].back = "sweeping" =>
    \A job \in worker[w].batch : upload[job[1]].state \in Ended

ClearedEnded == \A u \in Uploads : upload[u].quarantineDeleted = "yes" => upload[u].state \in Ended

(* A request that has seen its object still finds it when it completes.    *)
SeenKept ==
  \A c \in Requests :
    request[c].u # None /\ upload[request[c].u].state \in {"absent", "created"} =>
      quarantine[request[c].u] # None

SourceKept == \A u \in Uploads : upload[u].state = "processing" => quarantine[u] # None

Guarded == ClearsEnded /\ ListsEnded /\ ClearedEnded /\ SeenKept /\ SourceKept

LEMMA GuardedInit == Init => Guarded
BY DEF Init, AtRest, Guarded, ClearsEnded, ListsEnded, ClearedEnded, SeenKept, SourceKept, Clearing

LEMMA EndedStays ==
  ASSUME Typed, [Next]_vars, NEW u \in Uploads, upload[u].state \in Ended
  PROVE  upload'[u].state \in Ended
BY RowsAlwaysMove DEF Typed, RowsMove, RowMoves, Ended, Terminal

LEMMA GuardedStep == Typed /\ Guarded /\ [Next]_vars => Guarded'
<1> SUFFICES ASSUME Typed, Guarded, [Next]_vars PROVE Guarded'
  OBVIOUS
<1>0. RowsMove /\ QuarantineMoves /\ RequestMoves /\ \A w \in Workers : Arrives(w) /\ Shape(w)
  BY RowsAlwaysMove, QuarantineAlwaysMoves, RequestAlwaysMoves, AllKeep DEF Typed, Shaped
(* The source of a session that has not ended is not taken away.           *)
<1>1. ASSUME NEW u \in Uploads, upload[u].state \notin Ended, quarantine[u] # None
      PROVE  quarantine'[u] # None
  BY <1>0, <1>1 DEF QuarantineMoves, Guarded, ClearsEnded
<1>2. ClearsEnded'
  <2> SUFFICES ASSUME NEW w \in Workers, worker'[w].pc \in Clearing
               PROVE  upload'[worker'[w].u].state \in Ended
    BY DEF ClearsEnded
  <2>1. CASE worker'[w].u = worker[w].u /\ worker[w].pc \in Clearing
    BY <1>0, <2>1, EndedStays DEF Guarded, ClearsEnded, Shape
  <2>2. ASSUME NEW job \in worker[w].batch, worker[w].back = "sweeping", worker'[w].u = job[1]
        PROVE  upload'[worker'[w].u].state \in Ended
    <3>1. job[1] \in Uploads /\ upload[job[1]].state \in Ended
      BY <1>0, <2>2 DEF Shape, Guarded, ListsEnded
    <3> QED
      BY <2>2, <3>1, EndedStays
  <2> QED
    BY <1>0, <2>1, <2>2 DEF Arrives
<1>3. ListsEnded'
  <2> SUFFICES ASSUME NEW w \in Workers, worker'[w].back = "sweeping",
                      NEW job \in worker'[w].batch
               PROVE  upload'[job[1]].state \in Ended
    BY DEF ListsEnded
  <2>1. CASE worker[w].back = "sweeping" /\ worker'[w].batch \subseteq worker[w].batch
    <3>1. job[1] \in Uploads /\ upload[job[1]].state \in Ended
      BY <1>0, <2>1 DEF Shape, Guarded, ListsEnded
    <3> QED
      BY <3>1, EndedStays
  <2> QED
    BY <1>0, <2>1 DEF Arrives
<1>4. ClearedEnded'
  <2> SUFFICES ASSUME NEW u \in Uploads, upload'[u].quarantineDeleted = "yes"
               PROVE  upload'[u].state \in Ended
    BY DEF ClearedEnded
  <2>1. upload[u].state \in Ended
    BY <1>0 DEF RowsMove, RowMoves, Guarded, ClearedEnded, ClearsEnded, Clearing
  <2> QED
    BY <2>1, EndedStays
<1>5. SeenKept'
  <2> SUFFICES ASSUME NEW c \in Requests, request'[c].u # None,
                      upload'[request'[c].u].state \in {"absent", "created"}
               PROVE  quarantine'[request'[c].u] # None
    BY DEF SeenKept
  <2>1. CASE request'[c].u = request[c].u
    <3>1. request[c].u \in Uploads
      BY <2>1 DEF Typed, TypeOK
    <3>2. upload[request[c].u].state \in {"absent", "created"}
      BY <1>0, <2>1, <3>1 DEF RowsMove, RowMoves
    <3> QED
      BY <1>1, <2>1, <3>1, <3>2 DEF Guarded, SeenKept, Ended, Terminal
  <2> QED
    BY <1>0, <2>1 DEF RequestMoves
<1>6. SourceKept'
  <2> SUFFICES ASSUME NEW u \in Uploads, upload'[u].state = "processing"
               PROVE  quarantine'[u] # None
    BY DEF SourceKept
  <2>1. CASE upload[u].state = "processing"
    BY <1>1, <2>1 DEF Guarded, SourceKept, Ended, Terminal
  <2>2. CASE upload[u].state # "processing"
    <3>1. upload[u].state = "created" /\ UNCHANGED quarantine
          /\ \E c \in Requests : request[c].u = u
      BY <1>0, <2>2 DEF RowsMove, RowMoves
    <3> QED
      BY <3>1, MediaConstants DEF Guarded, SeenKept, MediaConstants
  <2> QED
    BY <2>1, <2>2
<1> QED
  BY <1>2, <1>3, <1>4, <1>5, <1>6 DEF Guarded

-----------------------------------------------------------------------------
(* No two workers hold the same claim, and none holds a version its        *)
(* session has not reached: a lapsed lease costs a worker its compare-and- *)
(* set, never the object of another attempt.                               *)
THEOREM ClaimsFenced == Spec => [](Fenced /\ Apart)
<1>1. Ordered => Fenced /\ Apart
  BY DEF Ordered
<1> QED
  BY TypedInit, TypedStep, OrderedInit, OrderedStep, <1>1, PTL DEF Spec

(* The source of an upload under way is kept, and a completed tombstone    *)
(* leaves neither object nor rows, however many workers, requests, faults  *)
(* and lost commits there are.                                             *)
THEOREM DeletionsInOrder == Spec => []DeletedInOrder
<1>1. Typed /\ Ordered /\ Guarded => DeletedInOrder
  <2> SUFFICES ASSUME Typed, Ordered, Guarded PROVE QuarantineKept /\ BuriedTogether
    BY DEF DeletedInOrder
  <2>1. \A u \in Uploads : upload[u].quarantineDeleted \in {"no", "yes"}
    BY DEF Typed, TypeOK, Upload
  <2>2. QuarantineKept
    BY <2>1 DEF QuarantineKept, Guarded, SourceKept, ClearedEnded, Ended, Terminal
  <2> QED
    BY <2>2 DEF Ordered
<1> QED
  BY TypedInit, TypedStep, OrderedInit, OrderedStep, GuardedInit, GuardedStep, <1>1, PTL DEF Spec

(* As long as no commit loses its answer, every ready session has its      *)
(* image and every live image its object.                                  *)
THEOREM NeverFalselyReady == Spec => []ReadyHasObject
<1>1. NothingLost => ReadyHasObject
  BY DEF NothingLost, Truthful, ReadyRecorded, LiveStored, ReadyHasObject, NoFalseReady
<1> QED
  BY TypedInit, TypedStep, OrderedInit, OrderedStep, NothingLostInit, NothingLostStep, <1>1, PTL
    DEF Spec

=============================================================================
