-------------------------- MODULE ModerationProofs --------------------------
(***************************************************************************)
(* Proofs about Moderation for every set of roots, images and workers, any *)
(* number of versions, attempts of the outbox and faults.                  *)
(***************************************************************************)
EXTENDS Moderation, TLAPS

(* Versions are pairs of a root and a number.                              *)
LEMMA VersionParts ==
  /\ \A v \in Versions : v[1] \in Roots /\ v[2] \in Numbers /\ v = <<v[1], v[2]>>
  /\ \A r \in Roots, n \in Numbers : <<r, n>> \in Versions
  /\ None \notin Versions /\ None \notin Media
  /\ \A n \in Numbers : n \in Nat /\ n # 0 /\ n \in 0 .. MaxVersions
BY ModerationConstants DEF Versions, Numbers

(* A worker that answered has a verdict.                                   *)
Answered == \A w \in Workers : worker[w].pc = "answered" => worker[w].verdict \in Decided

(* What the steps of a worker make of its locals.                          *)
Locals(w, x) ==
  \/ x = Idle
  \/ \E v \in Versions : \E n \in Nat :
       /\ worker[w].pc = "idle"
       /\ x = [Idle EXCEPT !.pc = "selected", !.v = v, !.rowVersion = request[v].rowVersion,
                           !.generation = n]
  \/ worker[w].pc = "selected" /\ x = [worker[w] EXCEPT !.pc = "claimed", !.rowVersion = @ + 1]
  \/ \E url \in {"none", "given"} :
       worker[w].pc = "claimed" /\ x = [worker[w] EXCEPT !.pc = "asking", !.url = url]
  \/ \E verdict \in Decided :
       worker[w].pc = "asking" /\ x = [worker[w] EXCEPT !.pc = "answered", !.verdict = verdict]
  \/ \E pc \in {"failed", "releasing"} :
       worker[w].pc = "asking" /\ x = [worker[w] EXCEPT !.pc = pc]
  \/ /\ worker[w].pc = "failed"
     /\ x = [worker[w] EXCEPT !.pc = "asking", !.generation = @ + 1,
                              !.endpoint = "secondary", !.rowVersion = @ + 1]

LEMMA LocalsTyped ==
  ASSUME TypeOK, Answered, NEW w \in Workers, NEW x, Locals(w, x)
  PROVE  /\ x \in Claimed
         /\ x.pc # "idle" => x.v \in Versions
         /\ x.pc = "answered" => x.verdict \in Decided
<1>0. worker[w] \in Claimed /\ (worker[w].pc # "idle" => worker[w].v \in Versions)
  BY DEF TypeOK
<1>1. CASE x = Idle
  BY <1>1 DEF Idle, Claimed
<1>2. ASSUME NEW v \in Versions, NEW n \in Nat,
             x = [Idle EXCEPT !.pc = "selected", !.v = v, !.rowVersion = request[v].rowVersion,
                              !.generation = n]
      PROVE  x \in Claimed /\ x.v \in Versions /\ x.pc = "selected"
  <2>1. request[v].rowVersion \in Nat
    BY DEF TypeOK, Request
  <2>2. QED
    BY <1>2, <2>1 DEF Idle, Claimed
<1>3. ASSUME worker[w].pc = "selected",
             x = [worker[w] EXCEPT !.pc = "claimed", !.rowVersion = @ + 1]
      PROVE  x \in Claimed /\ x.v \in Versions /\ x.pc = "claimed"
  <2>1. worker[w].rowVersion + 1 \in Nat
    BY <1>0 DEF Claimed
  <2>2. QED
    BY <1>0, <1>3, <2>1, Zenon DEF Claimed
<1>4. ASSUME NEW url \in {"none", "given"}, worker[w].pc = "claimed",
             x = [worker[w] EXCEPT !.pc = "asking", !.url = url]
      PROVE  x \in Claimed /\ x.v \in Versions /\ x.pc = "asking"
  BY <1>0, <1>4 DEF Claimed
<1>5. ASSUME NEW verdict \in Decided, worker[w].pc = "asking",
             x = [worker[w] EXCEPT !.pc = "answered", !.verdict = verdict]
      PROVE  x \in Claimed /\ x.v \in Versions /\ x.verdict \in Decided
  BY <1>0, <1>5 DEF Claimed, Decided
<1>6. ASSUME NEW pc \in {"failed", "releasing"}, worker[w].pc = "asking",
             x = [worker[w] EXCEPT !.pc = pc]
      PROVE  x \in Claimed /\ x.v \in Versions /\ x.pc \in {"failed", "releasing"}
  BY <1>0, <1>6 DEF Claimed
<1>7. ASSUME worker[w].pc = "failed",
             x = [worker[w] EXCEPT !.pc = "asking", !.generation = @ + 1,
                                   !.endpoint = "secondary", !.rowVersion = @ + 1]
      PROVE  x \in Claimed /\ x.v \in Versions /\ x.pc = "asking"
  <2>1. worker[w].rowVersion + 1 \in Nat /\ worker[w].generation + 1 \in Nat
    BY <1>0 DEF Claimed
  <2>2. QED
    BY <1>0, <1>7, <2>1, Zenon DEF Claimed
<1>8. Idle.pc = "idle"
  BY DEF Idle
<1>9. QED
  BY <1>1, <1>2, <1>3, <1>4, <1>5, <1>6, <1>7, <1>8 DEF Locals

(* Every step moves at most one worker, and that as Locals says.           *)
WorkerStep ==
  \/ UNCHANGED worker
  \/ \E w \in Workers : \E x : Locals(w, x) /\ Goto(w, x)

LEMMA WorkerSteps ==
  ASSUME TypeOK, [Next]_vars
  PROVE  WorkerStep
<1>1. ASSUME NEW w \in Workers, NEW v \in Versions, Select(w, v) PROVE WorkerStep
  <2>1. PICK n \in Nat :
          Goto(w, [Idle EXCEPT !.pc = "selected", !.v = v, !.rowVersion = request[v].rowVersion,
                               !.generation = n])
    <3>1. request[v].generation \in Nat
      BY DEF TypeOK, Request
    <3>2. CASE request[v].failure = "none"
      BY <1>1, <3>1, <3>2 DEF Select
    <3>3. CASE request[v].failure # "none"
      <4>1. request[v].generation + 1 \in Nat
        BY <3>1
      <4>2. QED
        BY <1>1, <4>1, <3>3 DEF Select
    <3>4. QED
      BY <3>2, <3>3
  <2>2. QED
    BY <1>1, <2>1 DEF Select, WorkerStep, Locals
<1>2. ASSUME NEW w \in Workers, Claim(w) PROVE WorkerStep
  BY <1>2 DEF Claim, WorkerStep, Locals
<1>3. ASSUME NEW w \in Workers, Prepare(w) PROVE WorkerStep
  <2>1. \/ Goto(w, Idle)
        \/ \E url \in {"none", "given"} : Goto(w, [worker[w] EXCEPT !.pc = "asking", !.url = url])
    BY <1>3 DEF Prepare, CreateModerationUrl
  <2>2. QED
    BY <1>3, <2>1 DEF Prepare, WorkerStep, Locals
<1>4. ASSUME NEW w \in Workers, NEW verdict \in {"approved", "rejected"}, Answer(w, verdict)
      PROVE  WorkerStep
  BY <1>4 DEF Answer, WorkerStep, Locals, Decided
<1>5. ASSUME NEW w \in Workers, ProviderFails(w) PROVE WorkerStep
  BY <1>5 DEF ProviderFails, WorkerStep, Locals
<1>6. ASSUME NEW w \in Workers, Switch(w) PROVE WorkerStep
  BY <1>6 DEF Switch, WorkerStep, Locals
<1>7. ASSUME NEW w \in Workers, Release(w) \/ Complete(w) \/ Interrupted(w) \/ AnswerLost(w)
      PROVE  WorkerStep
  BY <1>7 DEF Release, Complete, Interrupted, AnswerLost, WorkerStep, Locals
<1>8. ASSUME NEW v \in Versions, Delivers(v) \/ LeaseExpires(v) PROVE UNCHANGED worker
  BY <1>8 DEF Delivers, ConsumeModerationRequest, OutboxTries, OutboxSettles, LeaseExpires
<1>9. ASSUME NEW v \in Versions, NEW m \in Media \cup {None}, Submit(v, m)
      PROVE  UNCHANGED worker
  BY <1>9 DEF Submit
<1>10. CASE UNCHANGED vars
  BY <1>10 DEF vars, WorkerStep
<1>11. QED
  BY <1>1, <1>2, <1>3, <1>4, <1>5, <1>6, <1>7, <1>8, <1>9, <1>10
     DEF Next, Submits, Polls, WorkerStep

-----------------------------------------------------------------------------
(* The writes of the workers under their fence.                            *)
WorkerWrites(w) ==
  \/ worker[w].pc = "selected" /\ ClaimWrite(w) /\ UNCHANGED content
  \/ worker[w].pc = "failed" /\ SwitchWrite(w) /\ UNCHANGED content
  \/ worker[w].pc = "releasing" /\ ReleaseWrite(w) /\ UNCHANGED content
  \/ worker[w].pc = "answered" /\ DecideWrite(w)

(* Every step writes the tables as a submission, an execution of the event *)
(* or a write of a worker does, or leaves them alone but for a lease.      *)
RowStep ==
  \/ \E v \in Versions, m \in Media \cup {None} : Submit(v, m)
  \/ \E v \in Versions : ConsumeModerationRequest(v)
  \/ /\ UNCHANGED <<content, request>>
     /\ \E v \in Versions : Outbox!Try(v) \/ Outbox!Acknowledge(v) \/ Outbox!GiveUp(v)
  \/ /\ UNCHANGED <<content, events>>
     /\ \E v \in Versions : /\ request[v].state = "in_progress"
                            /\ request' = [request EXCEPT ![v].lease = "expired"]
  \/ UNCHANGED events /\ \E w \in Workers : WorkerWrites(w) /\ Goto(w, worker'[w])
  \/ UNCHANGED <<content, request, events>>

LEMMA RowSteps ==
  ASSUME [Next]_vars, TypeOK
  PROVE  RowStep
<1>1. ASSUME NEW v \in Versions, NEW m \in Media \cup {None}, Submit(v, m) PROVE RowStep
  BY <1>1 DEF RowStep
<1>2. ASSUME NEW v \in Versions, Delivers(v) PROVE RowStep
  BY <1>2 DEF Delivers, OutboxTries, OutboxSettles, Outbox!Settle, RowStep
<1>3. ASSUME NEW v \in Versions, LeaseExpires(v) PROVE RowStep
  BY <1>3 DEF LeaseExpires, RowStep
<1>4. ASSUME NEW w \in Workers, NEW x, Goto(w, x) PROVE Goto(w, worker'[w])
  BY <1>4 DEF Goto, TypeOK
<1>5. ASSUME NEW w \in Workers, Claim(w) \/ Switch(w) \/ Release(w) \/ Complete(w) \/ AnswerLost(w)
      PROVE  UNCHANGED events /\ WorkerWrites(w) /\ Goto(w, worker'[w])
  BY <1>4, <1>5 DEF Claim, Switch, Release, Complete, AnswerLost, WorkerWrites
<1>6. ASSUME NEW w \in Workers,
             \/ \E v \in Versions : Select(w, v)
             \/ Prepare(w) \/ ProviderFails(w) \/ Interrupted(w)
             \/ \E verdict \in {"approved", "rejected"} : Answer(w, verdict)
      PROVE  UNCHANGED <<content, request, events>>
  BY <1>6 DEF Select, Prepare, ProviderFails, Interrupted, Answer
<1>7. CASE UNCHANGED vars
  BY <1>7 DEF vars, RowStep
<1>8. QED
  BY <1>1, <1>2, <1>3, <1>5, <1>6, <1>7 DEF Next, Submits, Polls, RowStep

-----------------------------------------------------------------------------
(* What the writes make of a request is a request.                         *)
LEMMA RequestsTyped ==
  ASSUME TypeOK, Answered, NEW w \in Workers, WorkerWrites(w)
  PROVE  request' \in [Versions -> Request]
<1>0. /\ worker[w].pc # "idle" => worker[w].v \in Versions
      /\ worker[w].generation \in Nat /\ request \in [Versions -> Request]
  BY DEF TypeOK, Claimed
<1>1. worker[w].v \in Versions
  BY <1>0 DEF WorkerWrites
<1>2. PICK v \in Versions : worker[w].v = v
  BY <1>1
<1>3. /\ request[v] \in Request
      /\ request[v].rowVersion + 1 \in Nat /\ request[v].generation + 1 \in Nat
  <2>1. request[v] \in Request
    BY <1>0
  <2>2. request[v].rowVersion \in Nat /\ request[v].generation \in Nat
    BY <2>1 DEF Request
  <2>3. QED
    BY <2>1, <2>2
<1>4. CASE ClaimWrite(w)
  <2>1. [state |-> "in_progress", generation |-> worker[w].generation, endpoint |-> "primary",
         rowVersion |-> request[v].rowVersion + 1, lease |-> "live", failure |-> "none"] \in Request
    BY <1>0, <1>3 DEF Request
  <2>2. QED
    BY <1>0, <1>2, <1>4, <2>1 DEF ClaimWrite
<1>5. CASE SwitchWrite(w)
  <2>1. [request[v] EXCEPT !.generation = @ + 1, !.endpoint = "secondary",
                           !.rowVersion = @ + 1] \in Request
    BY <1>3, Zenon DEF Request
  <2>2. request' \in {request, [request EXCEPT ![v] =
           [request[v] EXCEPT !.generation = @ + 1, !.endpoint = "secondary",
                              !.rowVersion = @ + 1]]}
    BY <1>0, <1>2, <1>5 DEF SwitchWrite
  <2>3. QED
    BY <1>0, <2>1, <2>2
<1>6. CASE ReleaseWrite(w)
  <2>1. [request[v] EXCEPT !.state = "pending", !.lease = "none",
                           !.failure = "providers_unavailable", !.rowVersion = @ + 1] \in Request
    BY <1>3, Zenon DEF Request
  <2>2. request' \in {request, [request EXCEPT ![v] =
           [request[v] EXCEPT !.state = "pending", !.lease = "none",
                              !.failure = "providers_unavailable", !.rowVersion = @ + 1]]}
    BY <1>0, <1>2, <1>6 DEF ReleaseWrite
  <2>3. QED
    BY <1>0, <2>1, <2>2
<1>7. CASE worker[w].pc = "answered" /\ DecideWrite(w)
  <2>0. worker[w].verdict \in {"approved", "rejected"}
    BY <1>7 DEF Answered, Decided
  <2>1. [request[v] EXCEPT !.state = worker[w].verdict, !.lease = "none",
                           !.rowVersion = @ + 1] \in Request
    BY <1>3, <2>0, Zenon DEF Request
  <2>2. request' \in {request, [request EXCEPT ![v] =
           [request[v] EXCEPT !.state = worker[w].verdict, !.lease = "none",
                              !.rowVersion = @ + 1]]}
    BY <1>0, <1>2, <1>7 DEF DecideWrite
  <2>3. QED
    BY <1>0, <2>1, <2>2
<1>8. QED
  BY <1>4, <1>5, <1>6, <1>7 DEF WorkerWrites

(* What a decision makes of a root is a root.                              *)
LEMMA PublishedRootTyped ==
  ASSUME NEW s \in Root, NEW v \in Versions, NEW verdict
  PROVE  PublishedRoot(s, v, verdict) \in Root
<1>1. s.rowVersion + 1 \in Nat /\ v[2] \in 0 .. MaxVersions /\ 0 \in 0 .. MaxVersions
  <2>1. s.rowVersion \in Nat
    BY DEF Root
  <2>2. QED
    BY <2>1, VersionParts, ModerationConstants
<1>2. [s EXCEPT !.publicationState = "published", !.pending = 0, !.published = v[2],
                !.rowVersion = @ + 1] \in Root
  BY <1>1, Zenon DEF Root
<1>3. [s EXCEPT !.publicationState = "revision_required", !.rowVersion = @ + 1] \in Root
  BY <1>1, Zenon DEF Root
<1>4. QED
  BY <1>2, <1>3 DEF PublishedRoot

ContentOK ==
  /\ root \in [Roots -> Root]
  /\ version \in [Versions -> Version]
  /\ media \in [Media -> {"moderation_pending", "approved", "rejected"}]
  /\ binding \in [Media -> Versions \cup {None}]
  /\ notices \in [Versions -> Nat]

LEMMA DecisionTyped ==
  ASSUME TypeOK, Answered, NEW w \in Workers, worker[w].pc = "answered", DecideWrite(w)
  PROVE  ContentOK'
<1>0. ContentOK /\ worker[w].v \in Versions /\ worker[w].verdict \in {"approved", "rejected"}
  BY DEF TypeOK, ContentOK, Answered, Decided
<1>1. PICK v \in Versions : worker[w].v = v
  BY <1>0
<1>2. v[1] \in Roots
  BY VersionParts
<1>3. CASE ~Decides(w)
  BY <1>0, <1>3 DEF DecideWrite, ContentOK, content
<1>4. CASE Decides(w)
  <2>1. media' \in [Media -> {"moderation_pending", "approved", "rejected"}] /\ UNCHANGED binding
    BY <1>0, <1>4 DEF DecideWrite, ContentOK
  <2>2. \/ UNCHANGED <<version, root, notices>>
        \/ /\ version' = [version EXCEPT ![v].state = worker[w].verdict]
           /\ root' = [root EXCEPT ![v[1]] = PublishedRoot(@, v, worker[w].verdict)]
           /\ notices' = [notices EXCEPT ![v] = @ + 1]
    BY <1>1, <1>4 DEF DecideWrite, ApplyDecision
  <2>3. [version[v] EXCEPT !.state = worker[w].verdict] \in Version
    BY <1>0 DEF ContentOK, Version
  <2>4. PublishedRoot(root[v[1]], v, worker[w].verdict) \in Root
    BY <1>0, <1>2, PublishedRootTyped DEF ContentOK
  <2>5. notices[v] + 1 \in Nat
    BY <1>0 DEF ContentOK
  <2>6. version' \in [Versions -> Version]
    BY <1>0, <2>2, <2>3 DEF ContentOK
  <2>7. root' \in [Roots -> Root]
    BY <1>0, <1>2, <2>2, <2>4 DEF ContentOK
  <2>8. notices' \in [Versions -> Nat]
    BY <1>0, <2>2, <2>5 DEF ContentOK
  <2>9. QED
    BY <1>0, <2>1, <2>6, <2>7, <2>8 DEF ContentOK
<1>5. QED
  BY <1>3, <1>4

LEMMA SubmitTyped ==
  ASSUME TypeOK, NEW v \in Versions, NEW m \in Media \cup {None}, Submit(v, m)
  PROVE  ContentOK' /\ eventStatus' \in
           [Versions -> {"absent", "owed", "acknowledged", "abandoned", "forgotten"}]
         /\ UNCHANGED <<eventTries, eventExecutions>>
<1>1. v[1] \in Roots /\ v[2] \in 0 .. MaxVersions
  BY VersionParts
<1>2. [root[v[1]] EXCEPT !.publicationState = "pending", !.pending = v[2],
                         !.rowVersion = @ + 1] \in Root
  <2>1. root[v[1]] \in Root /\ root[v[1]].rowVersion \in Nat
    BY <1>1 DEF TypeOK, Root
  <2>2. root[v[1]].rowVersion + 1 \in Nat
    BY <2>1
  <2>3. QED
    BY <1>1, <2>1, <2>2, Zenon DEF Root
<1>3. root' = [root EXCEPT ![v[1]] = [root[v[1]] EXCEPT !.publicationState = "pending",
                                        !.pending = v[2], !.rowVersion = @ + 1]]
  BY <1>1 DEF Submit, TypeOK
<1>4. root' \in [Roots -> Root]
  BY <1>1, <1>2, <1>3 DEF TypeOK
<1>5. version' \in [Versions -> Version]
  BY DEF Submit, TypeOK, Version
<1>6. binding' \in [Media -> Versions \cup {None}] /\ UNCHANGED <<media, notices>>
  BY DEF Submit, Bound, TypeOK
<1>7. QED
  BY <1>4, <1>5, <1>6 DEF ContentOK, TypeOK, Submit, EnqueueModeration, Outbox!Submit

EventsOK ==
  /\ eventStatus \in [Versions -> {"absent", "owed", "acknowledged", "abandoned", "forgotten"}]
  /\ eventTries \in [Versions -> Nat]
  /\ eventExecutions \in [Versions -> Nat]

LEMMA TablesTyped ==
  ASSUME TypeOK, Answered, [Next]_vars
  PROVE  ContentOK' /\ request' \in [Versions -> Request] /\ EventsOK'
<1>0. ContentOK /\ EventsOK /\ request \in [Versions -> Request]
  BY DEF ContentOK, EventsOK, TypeOK
<1>1. ASSUME UNCHANGED content PROVE ContentOK'
  BY <1>0, <1>1 DEF ContentOK, content
<1>2. ASSUME UNCHANGED events PROVE EventsOK'
  BY <1>0, <1>2 DEF EventsOK, events
<1>3. ASSUME NEW v \in Versions, NEW m \in Media \cup {None}, Submit(v, m)
      PROVE  ContentOK' /\ request' \in [Versions -> Request] /\ EventsOK'
  BY <1>0, <1>3, SubmitTyped DEF Submit, EventsOK
<1>4. ASSUME NEW v \in Versions, ConsumeModerationRequest(v)
      PROVE  ContentOK' /\ request' \in [Versions -> Request] /\ EventsOK'
  <2>1. [request[v] EXCEPT !.state = "pending"] \in Request
    BY <1>0 DEF Request
  <2>2. request' \in {request, [request EXCEPT ![v] = [request[v] EXCEPT !.state = "pending"]]}
    BY <1>0, <1>4 DEF ConsumeModerationRequest, Consumed
  <2>3. request' \in [Versions -> Request]
    BY <1>0, <2>1, <2>2
  <2>4. EventsOK'
    BY <1>0, <1>4 DEF ConsumeModerationRequest, Outbox!Execute, EventsOK
  <2>5. QED
    BY <1>1, <1>4, <2>3, <2>4 DEF ConsumeModerationRequest
<1>5. ASSUME NEW v \in Versions, Outbox!Try(v) \/ Outbox!Acknowledge(v) \/ Outbox!GiveUp(v)
      PROVE  EventsOK'
  BY <1>0, <1>5 DEF EventsOK, Outbox!Try, Outbox!Acknowledge, Outbox!GiveUp
<1>6. ASSUME NEW v \in Versions, request' = [request EXCEPT ![v].lease = "expired"]
      PROVE  request' \in [Versions -> Request]
  BY <1>0, <1>6 DEF Request
<1>7. ASSUME NEW w \in Workers, WorkerWrites(w)
      PROVE  ContentOK' /\ request' \in [Versions -> Request]
  BY <1>1, <1>7, RequestsTyped, DecisionTyped DEF WorkerWrites
<1>8. QED
  BY <1>0, <1>1, <1>2, <1>3, <1>4, <1>5, <1>6, <1>7, RowSteps DEF RowStep

(* Type correctness: rows and local values keep the shapes of the schema   *)
(* and of ClaimedModerationRequest.                                        *)
THEOREM TypeCorrect == Spec => [](TypeOK /\ Answered)
<1>1. Init => TypeOK /\ Answered
  <2> SUFFICES ASSUME Init PROVE TypeOK /\ Answered
    OBVIOUS
  <2>1. 1 \in 0 .. MaxVersions /\ 0 \in 0 .. MaxVersions /\ 0 \in 0 .. MaxFaults
    BY ModerationConstants
  <2>2. root \in [Roots -> Root] /\ version \in [Versions -> Version]
    BY <2>1 DEF Init, Root, Version
  <2>3. request \in [Versions -> Request] /\ worker \in [Workers -> Claimed]
    BY DEF Init, Request, NoRequest, Claimed, Idle
  <2>4. QED
    BY <2>1, <2>2, <2>3 DEF Init, TypeOK, Answered, Idle, Outbox!Init
<1>2. TypeOK /\ Answered /\ [Next]_vars => TypeOK' /\ Answered'
  <2> SUFFICES ASSUME TypeOK, Answered, [Next]_vars PROVE TypeOK' /\ Answered'
    OBVIOUS
  <2>1. /\ worker' \in [Workers -> Claimed]
        /\ \A w \in Workers : worker'[w].pc # "idle" => worker'[w].v \in Versions
        /\ Answered'
    <3>1. CASE UNCHANGED worker
      BY <3>1 DEF TypeOK, Answered
    <3>2. ASSUME NEW w \in Workers, NEW x, Locals(w, x), Goto(w, x)
          PROVE  /\ worker' \in [Workers -> Claimed]
                 /\ \A u \in Workers : worker'[u].pc # "idle" => worker'[u].v \in Versions
                 /\ Answered'
      BY <3>2, LocalsTyped DEF Goto, TypeOK, Answered
    <3>3. QED
      BY <3>1, <3>2, WorkerSteps DEF WorkerStep
  <2>2. faults' \in 0 .. MaxFaults
    <3>1. UNCHANGED faults \/ Fault
      BY DEF Next, Submits, Delivers, Polls, Submit, ConsumeModerationRequest, OutboxTries,
             OutboxSettles, LeaseExpires, Select, Claim, Prepare, Answer, Switch, Release,
             Complete, ProviderFails, Interrupted, AnswerLost, vars
    <3>2. QED
      BY <3>1, ModerationConstants DEF Fault, TypeOK
  <2>3. ContentOK' /\ request' \in [Versions -> Request] /\ EventsOK'
    BY TablesTyped
  <2>4. QED
    BY <2>1, <2>2, <2>3 DEF TypeOK, ContentOK, EventsOK
<1>3. QED
  BY <1>1, <1>2, PTL DEF Spec

-----------------------------------------------------------------------------
(* Where the rows stand.  The event of a version: it exists once the       *)
(* version was submitted, and the request once the event took effect.      *)
EventsFollow ==
  \A v \in Versions :
    /\ eventExecutions[v] <= eventTries[v]
    /\ eventTries[v] > 0 => eventStatus[v] # "absent"
    /\ eventStatus[v] = "absent" <=> version[v].state \in {"absent", "draft"}
    /\ request[v].state = "absent" <=> eventExecutions[v] = 0
    /\ eventStatus[v] \in {"acknowledged", "forgotten"} => eventExecutions[v] > 0

(* The root of a version: its pointers name versions in the state it is    *)
(* in, the published one is the newest approved one, and the only version  *)
(* that can be pending is the pending one, the newest of all.              *)
RootFollows(r) ==
  LET State(n) == version[<<r, n>>].state
      s == root[r]
  IN  /\ s.publicationState = "draft" =>
           s.published = 0 /\ (s.pending # 0 => State(s.pending) = "draft")
      /\ s.publicationState = "pending" =>
           /\ s.pending # 0 /\ State(s.pending) = "pending"
           /\ \A n \in Numbers : n > s.pending => State(n) = "absent"
      /\ s.publicationState = "published" => s.pending = 0 /\ s.published # 0
      /\ s.publicationState = "revision_required" =>
           s.pending # 0 /\ State(s.pending) = "rejected"
      /\ s.published # 0 => State(s.published) = "approved"
      /\ \A n \in Numbers : State(n) = "approved" => n <= s.published
      /\ \A n \in Numbers : State(n) = "pending" =>
           s.publicationState = "pending" /\ s.pending = n

RootsFollow == \A r \in Roots : RootFollows(r)

RowsFollow == EventsFollow /\ RootsFollow /\ VersionsFollowRequests /\ OwnersToldOnce

(* A request under review belongs to a pending version.                    *)
LEMMA UnderReview ==
  ASSUME TypeOK, RowsFollow, NEW v \in Versions,
         request[v].state \in {"pending", "in_progress"}
  PROVE  version[v].state = "pending" /\ IsPending(v) /\ root[v[1]].publicationState = "pending"
<1>1. eventTries[v] > 0
  <2>1. eventExecutions[v] \in Nat /\ eventTries[v] \in Nat
    BY DEF TypeOK
  <2>2. eventExecutions[v] # 0 /\ eventExecutions[v] <= eventTries[v]
    BY DEF RowsFollow, EventsFollow
  <2>3. QED
    BY <2>1, <2>2
<1>2. version[v].state \notin {"absent", "draft"}
  BY <1>1 DEF RowsFollow, EventsFollow
<1>3. version[v].state \notin {"approved", "rejected"}
  BY DEF RowsFollow, VersionsFollowRequests, Decided
<1>4. version[v].state = "pending"
  BY <1>2, <1>3 DEF TypeOK, Version
<1>5. v[1] \in Roots /\ v[2] \in Numbers /\ v = <<v[1], v[2]>>
  BY VersionParts
<1>6. RootFollows(v[1])
  BY <1>5 DEF RowsFollow, RootsFollow
<1>7. QED
  BY <1>4, <1>5, <1>6 DEF RootFollows, IsPending

(* A decision, spelled out: it meets a pending version and its root.       *)
Decision(w, v, verdict) ==
  /\ request[v].state = "in_progress" /\ version[v].state = "pending" /\ IsPending(v)
  /\ root[v[1]].publicationState = "pending"
  /\ request' = [request EXCEPT ![v].state = verdict, ![v].lease = "none",
                                ![v].rowVersion = @ + 1]
  /\ media' = IF worker[w].url = "given"
              THEN [media EXCEPT ![version[v].media] = verdict] ELSE media
  /\ version' = [version EXCEPT ![v].state = verdict]
  /\ root' = [root EXCEPT ![v[1]] = PublishedRoot(@, v, verdict)]
  /\ notices' = [notices EXCEPT ![v] = @ + 1]
  /\ UNCHANGED binding

LEMMA Deciding ==
  ASSUME TypeOK, Answered, RowsFollow, NEW w \in Workers, worker[w].pc = "answered",
         Decides(w), DecideWrite(w)
  PROVE  \E v \in Versions, verdict \in Decided :
           worker[w].v = v /\ worker[w].verdict = verdict /\ Decision(w, v, verdict)
<1>1. PICK v \in Versions : worker[w].v = v
  BY DEF TypeOK
<1>2. PICK verdict \in Decided : worker[w].verdict = verdict
  BY DEF Answered
<1>3. request[v].state = "in_progress"
  BY <1>1 DEF Decides, Holds
<1>4. version[v].state = "pending" /\ IsPending(v) /\ root[v[1]].publicationState = "pending"
  BY <1>3, UnderReview
<1>5. Decision(w, v, verdict)
  BY <1>1, <1>2, <1>3, <1>4 DEF Decision, DecideWrite, ApplyDecision
<1>6. QED
  BY <1>1, <1>2, <1>5

(* What may become of a request outside a decision.                        *)
SameReview(v) ==
  \/ request'[v].state = request[v].state
  \/ request[v].state \in {"pending", "in_progress"} /\ request'[v].state \in {"pending", "in_progress"}

(* The steps, as the tables see them.                                      *)
TableStep ==
  \/ \E v \in Versions, m \in Media \cup {None} : Submit(v, m)
  \/ \E v \in Versions : ConsumeModerationRequest(v)
  \/ \E w \in Workers, v \in Versions, verdict \in Decided :
       /\ worker[w].pc = "answered" /\ worker[w].v = v /\ Decides(w)
       /\ Decision(w, v, verdict) /\ UNCHANGED events /\ Goto(w, worker'[w])
  \/ /\ UNCHANGED content /\ \A v \in Versions : SameReview(v)
     /\ UNCHANGED events \/ \E v \in Versions : Outbox!Try(v) \/ Outbox!Acknowledge(v) \/ Outbox!GiveUp(v)

LEMMA TableSteps ==
  ASSUME TypeOK, Answered, RowsFollow, [Next]_vars
  PROVE  TableStep
<1>0. request \in [Versions -> Request]
  BY DEF TypeOK
<1>1. ASSUME UNCHANGED request PROVE \A v \in Versions : SameReview(v)
  BY <1>1 DEF SameReview
<1>2. ASSUME NEW u \in Versions, request' = [request EXCEPT ![u].lease = "expired"],
             NEW v \in Versions
      PROVE  SameReview(v)
  BY <1>0, <1>2 DEF SameReview, Request
<1>3. ASSUME NEW w \in Workers, worker[w].pc # "idle", NEW v \in Versions,
             ClaimWrite(w) \/ SwitchWrite(w) \/ ReleaseWrite(w)
      PROVE  SameReview(v)
  <2>1. PICK u \in Versions : worker[w].v = u
    BY <1>3 DEF TypeOK
  <2>2. CASE u # v
    BY <1>0, <1>3, <2>1, <2>2 DEF SameReview, ClaimWrite, SwitchWrite, ReleaseWrite
  <2>3. CASE u = v
    BY <1>0, <1>3, <2>1, <2>3 DEF SameReview, ClaimWrite, SwitchWrite, ReleaseWrite,
       ClaimMatches, Claimable, Holds, Request
  <2>4. QED
    BY <2>2, <2>3
<1>4. ASSUME NEW w \in Workers, worker[w].pc = "answered", DecideWrite(w), UNCHANGED events,
             Goto(w, worker'[w])
      PROVE  TableStep
  <2>1. CASE Decides(w)
    BY <1>4, <2>1, Deciding DEF TableStep
  <2>2. CASE ~Decides(w)
    BY <1>1, <1>4, <2>2 DEF DecideWrite, TableStep
  <2>3. QED
    BY <2>1, <2>2
<1>5. ASSUME NEW w \in Workers, WorkerWrites(w), UNCHANGED events, Goto(w, worker'[w])
      PROVE  TableStep
  BY <1>3, <1>4, <1>5 DEF WorkerWrites, TableStep
<1>6. QED
  BY <1>1, <1>2, <1>5, RowSteps DEF RowStep, TableStep

-----------------------------------------------------------------------------
(* A submission and a decision change one version and its root.            *)
LEMMA SubmitRows ==
  ASSUME TypeOK, NEW v \in Versions, NEW m \in Media \cup {None}, Submit(v, m)
  PROVE  /\ root[v[1]].publicationState # "pending"
         /\ version[v].state = "absent" /\ eventStatus[v] = "absent"
         /\ \A n \in Numbers : version[<<v[1], n>>].state = "absent" <=> n >= v[2]
         /\ version'[v].state = "pending" /\ version'[v].media = m
         /\ \A u \in Versions \ {v} : version'[u] = version[u]
         /\ root'[v[1]].publicationState = "pending" /\ root'[v[1]].pending = v[2]
         /\ root'[v[1]].published = root[v[1]].published
         /\ \A r \in Roots \ {v[1]} : root'[r] = root[r]
<1>1. v[1] \in Roots /\ v[2] \in Numbers /\ v = <<v[1], v[2]>> /\ v[2] \in Nat
  BY VersionParts
<1>2. /\ version' = [version EXCEPT ![v] = [state |-> "pending", media |-> m]]
      /\ root' = [root EXCEPT ![v[1]].publicationState = "pending", ![v[1]].pending = v[2],
                              ![v[1]].rowVersion = @ + 1]
      /\ \A n \in Numbers : version[<<v[1], n>>].state = "absent" <=> n >= v[2]
      /\ root[v[1]].publicationState # "pending" /\ eventStatus[v] = "absent"
  BY DEF Submit, IsNext, EnqueueModeration, Outbox!Submit
<1>3. version[v].state = "absent"
  <2>1. version[<<v[1], v[2]>>].state = "absent"
    BY <1>1, <1>2
  <2>2. QED
    BY <1>1, <2>1
<1>4. /\ version'[v].state = "pending" /\ version'[v].media = m
      /\ \A u \in Versions \ {v} : version'[u] = version[u]
  BY <1>2 DEF TypeOK
<1>5. /\ root'[v[1]].publicationState = "pending" /\ root'[v[1]].pending = v[2]
      /\ root'[v[1]].published = root[v[1]].published
      /\ \A r \in Roots \ {v[1]} : root'[r] = root[r]
  BY <1>1, <1>2 DEF TypeOK, Root
<1>6. QED
  BY <1>2, <1>3, <1>4, <1>5

LEMMA DecisionRows ==
  ASSUME TypeOK, NEW w \in Workers, NEW v \in Versions, NEW verdict \in Decided,
         Decision(w, v, verdict)
  PROVE  /\ version[v].state = "pending" /\ version'[v].state = verdict
         /\ version'[v].media = version[v].media
         /\ \A u \in Versions \ {v} : version'[u] = version[u]
         /\ request[v].state = "in_progress" /\ request'[v].state = verdict
         /\ \A u \in Versions \ {v} : request'[u] = request[u]
         /\ notices'[v] = notices[v] + 1
         /\ \A u \in Versions \ {v} : notices'[u] = notices[u]
         /\ root[v[1]].publicationState = "pending" /\ root[v[1]].pending = v[2]
         /\ \A r \in Roots \ {v[1]} : root'[r] = root[r]
         /\ verdict = "approved" =>
              /\ root'[v[1]].publicationState = "published"
              /\ root'[v[1]].pending = 0 /\ root'[v[1]].published = v[2]
         /\ verdict # "approved" =>
              /\ root'[v[1]].publicationState = "revision_required"
              /\ root'[v[1]].pending = v[2]
              /\ root'[v[1]].published = root[v[1]].published
<1>1. v[1] \in Roots
  BY VersionParts
<1>2. /\ version[v].state = "pending" /\ version'[v].state = verdict
      /\ version'[v].media = version[v].media
      /\ \A u \in Versions \ {v} : version'[u] = version[u]
  BY DEF Decision, TypeOK, Version
<1>3. /\ request[v].state = "in_progress" /\ request'[v].state = verdict
      /\ \A u \in Versions \ {v} : request'[u] = request[u]
  BY DEF Decision, TypeOK, Request
<1>4. /\ notices'[v] = notices[v] + 1
      /\ \A u \in Versions \ {v} : notices'[u] = notices[u]
  BY DEF Decision, TypeOK
<1>5. /\ root[v[1]] \in Root
      /\ root[v[1]].publicationState = "pending" /\ root[v[1]].pending = v[2]
      /\ root'[v[1]] = PublishedRoot(root[v[1]], v, verdict)
      /\ \A r \in Roots \ {v[1]} : root'[r] = root[r]
  BY <1>1 DEF Decision, IsPending, TypeOK
<1>6. /\ verdict = "approved" =>
           /\ root'[v[1]].publicationState = "published"
           /\ root'[v[1]].pending = 0 /\ root'[v[1]].published = v[2]
      /\ verdict # "approved" =>
           /\ root'[v[1]].publicationState = "revision_required"
           /\ root'[v[1]].pending = v[2]
           /\ root'[v[1]].published = root[v[1]].published
  BY <1>5 DEF PublishedRoot, Root
<1>7. QED
  BY <1>2, <1>3, <1>4, <1>5, <1>6

LEMMA EventsKept ==
  ASSUME TypeOK, Answered, RowsFollow, [Next]_vars
  PROVE  EventsFollow'
<1> SUFFICES ASSUME NEW u \in Versions
             PROVE  /\ eventExecutions'[u] <= eventTries'[u]
                    /\ eventTries'[u] > 0 => eventStatus'[u] # "absent"
                    /\ eventStatus'[u] = "absent" <=> version'[u].state \in {"absent", "draft"}
                    /\ request'[u].state = "absent" <=> eventExecutions'[u] = 0
                    /\ eventStatus'[u] \in {"acknowledged", "forgotten"} => eventExecutions'[u] > 0
  BY DEF EventsFollow
<1> DEFINE Kept == /\ eventExecutions'[u] <= eventTries'[u]
                   /\ eventTries'[u] > 0 => eventStatus'[u] # "absent"
                   /\ eventStatus'[u] = "absent" <=> version'[u].state \in {"absent", "draft"}
                   /\ request'[u].state = "absent" <=> eventExecutions'[u] = 0
                   /\ eventStatus'[u] \in {"acknowledged", "forgotten"} => eventExecutions'[u] > 0
<1>0. /\ eventExecutions[u] \in Nat /\ eventTries[u] \in Nat
      /\ eventExecutions[u] <= eventTries[u]
      /\ eventTries[u] > 0 => eventStatus[u] # "absent"
      /\ eventStatus[u] = "absent" <=> version[u].state \in {"absent", "draft"}
      /\ request[u].state = "absent" <=> eventExecutions[u] = 0
      /\ eventStatus[u] \in {"acknowledged", "forgotten"} => eventExecutions[u] > 0
  BY DEF TypeOK, RowsFollow, EventsFollow
<1>1. ASSUME NEW v \in Versions, NEW m \in Media \cup {None}, Submit(v, m) PROVE Kept
  <2>1. /\ eventStatus'[v] = "owed" /\ \A x \in Versions \ {v} : eventStatus'[x] = eventStatus[x]
        /\ UNCHANGED <<eventTries, eventExecutions, request>>
    BY <1>1 DEF Submit, EnqueueModeration, Outbox!Submit, TypeOK
  <2>2. QED
    BY <1>0, <1>1, <2>1, SubmitRows
<1>2. ASSUME NEW v \in Versions, ConsumeModerationRequest(v) PROVE Kept
  <2>1. /\ eventExecutions[v] < eventTries[v] /\ eventExecutions'[v] = eventExecutions[v] + 1
        /\ \A x \in Versions \ {v} : eventExecutions'[x] = eventExecutions[x]
        /\ UNCHANGED <<eventTries, eventStatus, version>>
    BY <1>2 DEF ConsumeModerationRequest, Outbox!Execute, TypeOK, content
  <2>2. /\ request'[v].state # "absent" /\ \A x \in Versions \ {v} : request'[x] = request[x]
    BY <1>2 DEF ConsumeModerationRequest, Consumed, TypeOK, Request
  <2>3. QED
    BY <1>0, <2>1, <2>2
<1>3. ASSUME NEW w \in Workers, NEW v \in Versions, NEW verdict \in Decided,
             Decision(w, v, verdict), UNCHANGED events
      PROVE  Kept
  <2>1. UNCHANGED <<eventStatus, eventTries, eventExecutions>>
    BY <1>3 DEF events
  <2>2. verdict \notin {"absent", "draft"}
    BY DEF Decided
  <2>3. QED
    BY <1>0, <1>3, <2>1, <2>2, DecisionRows
<1>4. ASSUME UNCHANGED content, SameReview(u), UNCHANGED events PROVE Kept
  BY <1>0, <1>4 DEF content, events, SameReview
<1>5. ASSUME UNCHANGED content, SameReview(u), NEW v \in Versions,
             Outbox!Try(v) \/ Outbox!Acknowledge(v) \/ Outbox!GiveUp(v)
      PROVE  Kept
  <2>1. version'[u] = version[u] /\ (request'[u].state = "absent" <=> request[u].state = "absent")
    BY <1>5 DEF content, SameReview
  <2>2. CASE u = v
    BY <1>0, <1>5, <2>1, <2>2 DEF Outbox!Try, Outbox!Acknowledge, Outbox!GiveUp, TypeOK
  <2>3. CASE u # v
    BY <1>0, <1>5, <2>1, <2>3 DEF Outbox!Try, Outbox!Acknowledge, Outbox!GiveUp, TypeOK
  <2>4. QED
    BY <2>2, <2>3
<1>6. QED
  BY <1>1, <1>2, <1>3, <1>4, <1>5, TableSteps DEF TableStep

LEMMA RootsKept ==
  ASSUME TypeOK, Answered, RowsFollow, [Next]_vars
  PROVE  RootsFollow'
<1> SUFFICES ASSUME NEW r \in Roots PROVE RootFollows(r)'
  BY DEF RootsFollow
<1>0. RootFollows(r)
  BY DEF RowsFollow, RootsFollow
<1>1. /\ root[r].pending \in Nat /\ root[r].published \in Nat
      /\ root[r].pending # 0 => root[r].pending \in Numbers
      /\ root[r].published # 0 => root[r].published \in Numbers
      /\ \A n \in Numbers : n \in Nat /\ n # 0 /\ <<r, n>> \in Versions
  <2>1. root[r].pending \in 0 .. MaxVersions /\ root[r].published \in 0 .. MaxVersions
    BY DEF TypeOK, Root
  <2>2. QED
    BY <2>1, VersionParts, ModerationConstants DEF Numbers
<1>2. ASSUME root'[r] = root[r], \A n \in Numbers : version'[<<r, n>>] = version[<<r, n>>]
      PROVE  RootFollows(r)'
  BY <1>0, <1>1, <1>2 DEF RootFollows
<1>3. CASE UNCHANGED content
  BY <1>2, <1>3 DEF content
<1>4. ASSUME NEW v \in Versions, NEW m \in Media \cup {None}, Submit(v, m)
      PROVE  RootFollows(r)'
  <2>0. v[2] \in Numbers /\ v = <<v[1], v[2]>>
    BY VersionParts
  <2>1. CASE v[1] # r
    BY <1>1, <1>2, <1>4, <2>0, <2>1, SubmitRows
  <2>2. CASE v[1] = r
    <3>1. \A n \in Numbers : n # v[2] => version'[<<r, n>>] = version[<<r, n>>]
      BY <1>1, <1>4, <2>0, <2>2, SubmitRows
    <3>2. version'[<<r, v[2]>>].state = "pending"
      BY <1>4, <2>0, <2>2, SubmitRows
    <3>3. \A n \in Numbers : version[<<r, n>>].state # "pending"
      BY <1>0, <1>4, <2>2, SubmitRows DEF RootFollows
    <3>4. root[r].published # v[2]
      BY <1>0, <1>1, <1>4, <2>0, <2>2, SubmitRows DEF RootFollows
    <3>5. \A n \in Numbers : n > v[2] => version[<<r, n>>].state = "absent"
      BY <1>1, <1>4, <2>0, <2>2, SubmitRows
    <3>6. /\ root'[r].publicationState = "pending" /\ root'[r].pending = v[2]
          /\ root'[r].published = root[r].published
      BY <1>4, <2>2, SubmitRows
    <3>7. v[2] \in Nat /\ \A n \in Numbers : n > v[2] => n # v[2]
      <4>1. v[2] \in Nat
        BY <1>1, <2>0
      <4>2. \A n \in Numbers : n > v[2] => n # v[2]
        BY <1>1, <4>1
      <4>3. QED
        BY <4>1, <4>2
    <3>8. QED
      BY <1>0, <1>1, <2>0, <3>1, <3>2, <3>3, <3>4, <3>5, <3>6, <3>7 DEF RootFollows
  <2>3. QED
    BY <2>1, <2>2
<1>5. ASSUME NEW w \in Workers, NEW v \in Versions, NEW verdict \in Decided,
             Decision(w, v, verdict)
      PROVE  RootFollows(r)'
  <2>0. v[2] \in Numbers /\ v = <<v[1], v[2]>>
    BY VersionParts
  <2>1. CASE v[1] # r
    BY <1>1, <1>2, <1>5, <2>0, <2>1, DecisionRows
  <2>2. CASE v[1] = r
    <3>1. \A n \in Numbers : n # v[2] => version'[<<r, n>>] = version[<<r, n>>]
      BY <1>1, <1>5, <2>0, <2>2, DecisionRows
    <3>2. version'[<<r, v[2]>>].state = verdict /\ version[<<r, v[2]>>].state = "pending"
      BY <1>5, <2>0, <2>2, DecisionRows
    <3>3. root[r].publicationState = "pending" /\ root[r].pending = v[2]
      BY <1>5, <2>2, DecisionRows
    <3>4. \A n \in Numbers : n # v[2] => version[<<r, n>>].state # "pending"
      BY <1>0, <3>3 DEF RootFollows
    <3>5. \A n \in Numbers : n > v[2] => version[<<r, n>>].state = "absent"
      BY <1>0, <3>3 DEF RootFollows
    <3>6. root[r].published # v[2]
      BY <1>0, <1>1, <3>2, <2>0 DEF RootFollows
    <3>7. CASE verdict = "approved"
      <4>1. /\ root'[r].publicationState = "published"
            /\ root'[r].pending = 0 /\ root'[r].published = v[2]
        BY <1>5, <2>2, <3>7, DecisionRows
      <4>2. \A n \in Numbers : version'[<<r, n>>].state = "approved" => n <= v[2]
        <5>1. v[2] \in Nat
          BY <1>1, <2>0
        <5>2. ASSUME NEW n \in Numbers, version'[<<r, n>>].state = "approved" PROVE n <= v[2]
          <6>1. CASE n = v[2]
            BY <5>1, <6>1
          <6>2. CASE n # v[2]
            <7>1. version[<<r, n>>].state # "absent"
              BY <3>1, <5>2, <6>2
            <7>2. ~(n > v[2]) /\ n \in Nat
              BY <1>1, <3>5, <7>1
            <7>3. QED
              BY <5>1, <7>2
          <6>3. QED
            BY <6>1, <6>2
        <5>3. QED
          BY <5>2
      <4>3. QED
        BY <1>1, <2>0, <3>1, <3>2, <3>4, <3>7, <4>1, <4>2 DEF RootFollows
    <3>8. CASE verdict = "rejected"
      <4>1. /\ root'[r].publicationState = "revision_required"
            /\ root'[r].pending = v[2] /\ root'[r].published = root[r].published
        BY <1>5, <2>2, <3>8, DecisionRows
      <4>2. QED
        BY <1>0, <1>1, <2>0, <3>1, <3>2, <3>4, <3>6, <3>8, <4>1 DEF RootFollows
    <3>9. QED
      BY <3>7, <3>8 DEF Decided
  <2>3. QED
    BY <2>1, <2>2
<1>6. QED
  BY <1>3, <1>4, <1>5, TableSteps DEF TableStep, ConsumeModerationRequest

LEMMA DecisionsKept ==
  ASSUME TypeOK, Answered, RowsFollow, [Next]_vars
  PROVE  VersionsFollowRequests' /\ OwnersToldOnce'
<1> SUFFICES ASSUME NEW u \in Versions
             PROVE  /\ \A verdict \in Decided :
                         version'[u].state = verdict <=> request'[u].state = verdict
                    /\ notices'[u] = IF version'[u].state \in Decided THEN 1 ELSE 0
  BY DEF VersionsFollowRequests, OwnersToldOnce
<1>0. /\ \A verdict \in Decided : version[u].state = verdict <=> request[u].state = verdict
      /\ notices[u] = IF version[u].state \in Decided THEN 1 ELSE 0
      /\ request[u].state = "absent" => version[u].state \notin Decided
  BY DEF RowsFollow, VersionsFollowRequests, OwnersToldOnce, Decided
<1> USE DEF Decided
<1>1. ASSUME NEW v \in Versions, NEW m \in Media \cup {None}, Submit(v, m)
      PROVE  /\ \A verdict \in Decided :
                  version'[u].state = verdict <=> request'[u].state = verdict
             /\ notices'[u] = IF version'[u].state \in Decided THEN 1 ELSE 0
  <2>1. UNCHANGED <<request, notices>>
    BY <1>1 DEF Submit
  <2>2. CASE u = v
    BY <1>0, <1>1, <2>1, <2>2, SubmitRows
  <2>3. CASE u # v
    BY <1>0, <1>1, <2>1, <2>3, SubmitRows
  <2>4. QED
    BY <2>2, <2>3
<1>2. ASSUME NEW v \in Versions, ConsumeModerationRequest(v)
      PROVE  /\ \A verdict \in Decided :
                  version'[u].state = verdict <=> request'[u].state = verdict
             /\ notices'[u] = IF version'[u].state \in Decided THEN 1 ELSE 0
  <2>1. /\ UNCHANGED <<version, notices>>
        /\ \/ request'[u].state = request[u].state
           \/ request[u].state = "absent" /\ request'[u].state = "pending"
    BY <1>2 DEF ConsumeModerationRequest, Consumed, TypeOK, Request, content
  <2>2. QED
    BY <1>0, <2>1
<1>3. ASSUME NEW w \in Workers, NEW v \in Versions, NEW verdict \in Decided,
             Decision(w, v, verdict)
      PROVE  /\ \A x \in Decided : version'[u].state = x <=> request'[u].state = x
             /\ notices'[u] = IF version'[u].state \in Decided THEN 1 ELSE 0
  BY <1>0, <1>3, DecisionRows
<1>4. ASSUME UNCHANGED content, SameReview(u)
      PROVE  /\ \A verdict \in Decided :
                  version'[u].state = verdict <=> request'[u].state = verdict
             /\ notices'[u] = IF version'[u].state \in Decided THEN 1 ELSE 0
  BY <1>0, <1>4 DEF content, SameReview
<1>5. QED
  BY <1>1, <1>2, <1>3, <1>4, TableSteps DEF TableStep

(* The rows of a submission move together: event, request, version, the    *)
(* root's two pointers and the owner's notice never part.                  *)
THEOREM RowsCorrect == Spec => []RowsFollow
<1>1. Init => RowsFollow
  <2> SUFFICES ASSUME Init PROVE RowsFollow
    OBVIOUS
  <2>1. /\ \A v \in Versions : version[v].state \in {"absent", "draft"}
        /\ \A v \in Versions : request[v].state = "absent" /\ notices[v] = 0
        /\ \A v \in Versions : eventStatus[v] = "absent" /\ eventTries[v] = 0 /\ eventExecutions[v] = 0
    BY DEF Init, NoRequest, Outbox!Init
  <2>2. EventsFollow /\ VersionsFollowRequests /\ OwnersToldOnce
    BY <2>1 DEF EventsFollow, VersionsFollowRequests, OwnersToldOnce, Decided
  <2>3. ASSUME NEW r \in Roots PROVE RootFollows(r)
    <3>1. 1 \in Numbers /\ <<r, 1>> \in Versions
      BY ModerationConstants, VersionParts DEF Numbers
    <3>2. r \in Drafted => version[<<r, 1>>].state = "draft"
      BY <3>1 DEF Init
    <3>3. /\ root[r].publicationState = "draft" /\ root[r].published = 0
          /\ root[r].pending = IF r \in Drafted THEN 1 ELSE 0
      BY DEF Init
    <3>4. QED
      BY <2>1, <3>1, <3>2, <3>3, VersionParts DEF RootFollows
  <2>4. QED
    BY <2>2, <2>3 DEF RowsFollow, RootsFollow
<1>2. TypeOK /\ Answered /\ RowsFollow /\ [Next]_vars => RowsFollow'
  BY EventsKept, RootsKept, DecisionsKept DEF RowsFollow
<1>3. QED
  BY <1>1, <1>2, TypeCorrect, PTL DEF Spec

-----------------------------------------------------------------------------
(* A worker past the claim. *)
Active(w) == worker[w].pc \notin {"idle", "selected"}

(* A write of w that raises the version of its request, and w with it.     *)
Raises(w) ==
  \E v \in Versions :
    /\ worker[w].pc # "idle" /\ worker[w].v = v /\ worker'[w].v = v
    /\ worker[w].rowVersion = request[v].rowVersion
    /\ worker'[w].rowVersion = request[v].rowVersion + 1
    /\ request'[v].rowVersion = request[v].rowVersion + 1
    /\ \A u \in Workers \ {w} : worker'[u] = worker[u]

(* What a step may do to a worker, as far as its fence is concerned.       *)
FenceStep(w) ==
  \/ worker'[w].pc = "idle"
  \/ /\ worker[w].pc # "idle"
     /\ worker'[w].v = worker[w].v /\ worker'[w].rowVersion = worker[w].rowVersion
     /\ worker[w].pc = "selected" => worker'[w].pc = "selected"
  \/ /\ worker'[w].pc = "selected" /\ UNCHANGED request
     /\ \E v \in Versions :
          worker'[w].v = v /\ worker'[w].rowVersion = request[v].rowVersion
  \/ Raises(w)

(* The versions of requests only rise.                                     *)
LEMMA RequestsRise ==
  ASSUME TypeOK, [Next]_vars, NEW v \in Versions
  PROVE  request'[v].rowVersion \in Nat /\ request'[v].rowVersion >= request[v].rowVersion
<1>0. /\ request \in [Versions -> Request]
      /\ request[v] \in Request /\ request[v].rowVersion \in Nat
      /\ request[v].rowVersion + 1 \in Nat /\ request[v].rowVersion + 1 >= request[v].rowVersion
      /\ request[v].rowVersion >= request[v].rowVersion
  <2>1. request \in [Versions -> Request] /\ request[v] \in Request
    BY DEF TypeOK
  <2>2. request[v].rowVersion \in Nat
    BY <2>1 DEF Request
  <2>3. QED
    BY <2>1, <2>2
<1>1. request'[v].rowVersion \in {request[v].rowVersion, request[v].rowVersion + 1}
  <2>1. CASE UNCHANGED request
    BY <2>1
  <2>2. ASSUME NEW u \in Versions, ConsumeModerationRequest(u)
        PROVE  request'[v].rowVersion = request[v].rowVersion
    BY <1>0, <2>2 DEF ConsumeModerationRequest, Consumed, Request
  <2>3. ASSUME NEW u \in Versions, request' = [request EXCEPT ![u].lease = "expired"]
        PROVE  request'[v].rowVersion = request[v].rowVersion
    BY <1>0, <2>3 DEF Request
  <2>4. ASSUME NEW w \in Workers, WorkerWrites(w)
        PROVE  request'[v].rowVersion \in {request[v].rowVersion, request[v].rowVersion + 1}
    <3>1. PICK u \in Versions : worker[w].v = u
      BY <2>4 DEF WorkerWrites, TypeOK
    <3>2. CASE u # v
      BY <1>0, <2>4, <3>1, <3>2
         DEF WorkerWrites, ClaimWrite, SwitchWrite, ReleaseWrite, DecideWrite, content
    <3>3. CASE u = v
      BY <1>0, <2>4, <3>1, <3>3
         DEF WorkerWrites, ClaimWrite, SwitchWrite, ReleaseWrite, DecideWrite, content, Request
    <3>4. QED
      BY <3>2, <3>3
  <2>5. QED
    BY <2>1, <2>2, <2>3, <2>4, RowSteps DEF RowStep, Submit
<1>2. QED
  BY <1>0, <1>1

LEMMA FenceSteps ==
  ASSUME TypeOK, [Next]_vars, NEW w \in Workers
  PROVE  FenceStep(w)
<1>0. worker \in [Workers -> Claimed] /\ worker[w] \in Claimed /\ request \in [Versions -> Request]
  BY DEF TypeOK
<1>1. CASE worker'[w] = worker[w]
  BY <1>1 DEF FenceStep
<1>2. ASSUME NEW x \in Workers, NEW y, Goto(x, y)
      PROVE  worker' [x] = y /\ \A u \in Workers \ {x} : worker'[u] = worker[u]
  BY <1>0, <1>2 DEF Goto
<1>3. CASE worker'[w] = Idle
  BY <1>3 DEF FenceStep, Idle
<1>4. ASSUME NEW v \in Versions, Select(w, v) PROVE FenceStep(w)
  <2>1. worker'[w].pc = "selected" /\ worker'[w].v = v
        /\ worker'[w].rowVersion = request[v].rowVersion
    BY <1>0, <1>4 DEF Select, Goto, Idle
  <2>2. QED
    BY <1>4, <2>1 DEF Select, FenceStep
<1>5. CASE Claim(w) /\ ClaimMatches(w)
  <2>1. PICK v \in Versions : worker[w].v = v
    BY <1>5 DEF Claim, TypeOK
  <2>2. /\ worker'[w].v = v /\ worker'[w].rowVersion = worker[w].rowVersion + 1
        /\ \A u \in Workers \ {w} : worker'[u] = worker[u]
    BY <1>0, <1>5, <2>1 DEF Claim, Goto, Claimed
  <2>3. request'[v].rowVersion = request[v].rowVersion + 1
    BY <1>0, <1>5, <2>1 DEF Claim, ClaimWrite
  <2>4. QED
    BY <1>5, <2>1, <2>2, <2>3 DEF Claim, ClaimMatches, FenceStep, Raises
<1>6. CASE Switch(w) /\ Holds(w)
  <2>1. PICK v \in Versions : worker[w].v = v
    BY <1>6 DEF Switch, TypeOK
  <2>2. /\ worker'[w].v = v /\ worker'[w].rowVersion = worker[w].rowVersion + 1
        /\ \A u \in Workers \ {w} : worker'[u] = worker[u]
    BY <1>0, <1>6, <2>1 DEF Switch, Goto, Claimed
  <2>3. request'[v].rowVersion = request[v].rowVersion + 1
    BY <1>0, <1>6, <2>1 DEF Switch, SwitchWrite, Request
  <2>4. QED
    BY <1>6, <2>1, <2>2, <2>3 DEF Switch, Holds, FenceStep, Raises
<1>7. ASSUME worker[w].pc \in {"claimed", "asking"},
             \/ \E url : worker'[w] = [worker[w] EXCEPT !.pc = "asking", !.url = url]
             \/ \E verdict : worker'[w] = [worker[w] EXCEPT !.pc = "answered", !.verdict = verdict]
      PROVE  FenceStep(w)
  <2>1. worker'[w].v = worker[w].v /\ worker'[w].rowVersion = worker[w].rowVersion
    BY <1>0, <1>7 DEF Claimed
  <2>2. QED
    BY <1>7, <2>1 DEF FenceStep
<1>8. CASE Claim(w) \/ Switch(w) \/ Release(w) \/ Complete(w) \/ Interrupted(w) \/ AnswerLost(w)
  BY <1>2, <1>3, <1>5, <1>6, <1>8 DEF Claim, Switch, Release, Complete, Interrupted, AnswerLost
<1>9. CASE Prepare(w)
  <2>1. CASE Goto(w, Idle)
    BY <1>2, <1>3, <2>1
  <2>2. ASSUME NEW url, Goto(w, [worker[w] EXCEPT !.pc = "asking", !.url = url])
        PROVE  FenceStep(w)
    BY <1>2, <1>7, <1>9, <2>2 DEF Prepare
  <2>3. QED
    BY <1>9, <2>1, <2>2 DEF Prepare
<1>10. ASSUME NEW verdict, Answer(w, verdict) PROVE FenceStep(w)
  BY <1>2, <1>7, <1>10 DEF Answer
<1>11. CASE ProviderFails(w)
  BY <1>0, <1>2, <1>11 DEF ProviderFails, FenceStep, Claimed
<1>12. ASSUME NEW x \in Workers, x # w,
              \/ \E v \in Versions : Select(x, v)
              \/ Claim(x) \/ Prepare(x) \/ (\E verdict \in {"approved", "rejected"} : Answer(x, verdict))
              \/ Switch(x) \/ Release(x) \/ Complete(x)
              \/ ProviderFails(x) \/ Interrupted(x) \/ AnswerLost(x)
       PROVE  worker'[w] = worker[w]
  BY <1>2, <1>12 DEF Select, Claim, Prepare, Answer, Switch, Release, Complete, ProviderFails,
     Interrupted, AnswerLost
<1>13. ASSUME NEW v \in Versions, Delivers(v) \/ LeaseExpires(v) PROVE UNCHANGED worker
  BY <1>13 DEF Delivers, ConsumeModerationRequest, OutboxTries, OutboxSettles, LeaseExpires
<1>14. ASSUME NEW v \in Versions, NEW m \in Media \cup {None}, Submit(v, m)
       PROVE  UNCHANGED worker
  BY <1>14 DEF Submit
<1>15. CASE UNCHANGED vars
  BY <1>1, <1>15 DEF vars
<1>16. QED
  BY <1>1, <1>4, <1>8, <1>9, <1>10, <1>11, <1>12, <1>13, <1>14, <1>15 DEF Next, Submits, Polls

(* The fence: no worker is ahead of its request, and no two workers past   *)
(* the claim hold the same version of it.                                  *)
Level ==
  \A w \in Workers : \A v \in Versions :
    worker[w].pc # "idle" /\ worker[w].v = v => worker[w].rowVersion <= request[v].rowVersion

Exclusive ==
  \A w, x \in Workers :
    (/\ Active(w) /\ Active(x) /\ worker[w].v = worker[x].v
     /\ worker[w].rowVersion = worker[x].rowVersion)
      => w = x

LEMMA LevelKept ==
  ASSUME TypeOK, Level, [Next]_vars
  PROVE  Level'
<1> SUFFICES ASSUME NEW w \in Workers, NEW v \in Versions,
                    worker'[w].pc # "idle", worker'[w].v = v
             PROVE  worker'[w].rowVersion <= request'[v].rowVersion
  BY DEF Level
<1>0. /\ worker[w].rowVersion \in Nat /\ request[v].rowVersion \in Nat
      /\ request'[v].rowVersion \in Nat /\ request'[v].rowVersion >= request[v].rowVersion
  BY RequestsRise DEF TypeOK, Claimed, Request
<1>1. CASE worker[w].pc # "idle" /\ worker[w].v = v /\ worker'[w].rowVersion = worker[w].rowVersion
  <2>1. worker[w].rowVersion <= request[v].rowVersion
    BY <1>1 DEF Level
  <2>2. QED
    BY <1>0, <1>1, <2>1
<1>2. CASE worker'[w].rowVersion = request[v].rowVersion
  BY <1>0, <1>2
<1>3. CASE Raises(w)
  BY <1>0, <1>3 DEF Raises
<1>4. QED
  BY <1>1, <1>2, <1>3, FenceSteps DEF FenceStep

LEMMA ExclusiveKept ==
  ASSUME TypeOK, Level, Exclusive, [Next]_vars
  PROVE  Exclusive'
<1> SUFFICES ASSUME NEW w \in Workers, NEW x \in Workers, w # x,
                    Active(w)', Active(x)', worker'[w].v = worker'[x].v,
                    worker'[w].rowVersion = worker'[x].rowVersion
             PROVE  FALSE
  BY DEF Exclusive, Active
<1>1. ASSUME NEW u \in Workers, Active(u)', ~Raises(u)
      PROVE  Active(u) /\ worker'[u].v = worker[u].v /\ worker'[u].rowVersion = worker[u].rowVersion
  BY <1>1, FenceSteps DEF FenceStep, Active
<1>2. ASSUME NEW u \in Workers, NEW y \in Workers, u # y, Raises(u), Active(y)',
             worker'[u].v = worker'[y].v, worker'[u].rowVersion = worker'[y].rowVersion
      PROVE  FALSE
  <2>1. PICK v \in Versions :
          /\ worker'[u].v = v /\ worker'[u].rowVersion = request[v].rowVersion + 1
          /\ worker'[y] = worker[y]
    BY <1>2 DEF Raises
  <2>2. worker[y].v = v /\ worker[y].pc # "idle" /\ worker[y].rowVersion = request[v].rowVersion + 1
    BY <1>2, <2>1 DEF Active
  <2>3. worker[y].rowVersion <= request[v].rowVersion
    BY <2>2 DEF Level
  <2>4. request[v].rowVersion \in Nat
    BY DEF TypeOK, Request
  <2>5. QED
    BY <2>2, <2>3, <2>4
<1>3. QED
  BY <1>1, <1>2 DEF Exclusive

(* The lock version fences: no worker is ahead of its row, and of those    *)
(* that are level with it at most one can still write.                     *)
THEOREM FenceCorrect == Spec => [](Level /\ Exclusive)
<1>1. Init => Level /\ Exclusive
  <2> SUFFICES ASSUME Init PROVE Level /\ Exclusive
    OBVIOUS
  <2>1. \A w \in Workers : worker[w].pc = "idle"
    BY DEF Init, Idle
  <2>2. QED
    BY <2>1 DEF Level, Exclusive, Active
<1>2. TypeOK /\ Level /\ Exclusive /\ [Next]_vars => Level' /\ Exclusive'
  BY LevelKept, ExclusiveKept
<1>3. QED
  BY <1>1, <1>2, TypeCorrect, PTL DEF Spec

-----------------------------------------------------------------------------
(* The images.  A version shows images of its own root; a pending version  *)
(* shows an image that is bound to it and waits, or one that was approved  *)
(* before; an image that waits is bound to the pending version that shows  *)
(* it; a decided image was decided with its version.                       *)
OwnImages ==
  \A v \in Versions, m \in Media : version[v].media = m => MediaRoot[m] = v[1]

PendingImages ==
  \A v \in Versions, m \in Media :
    version[v].state = "pending" /\ version[v].media = m =>
      media[m] = "approved" \/ (media[m] = "moderation_pending" /\ binding[m] = v)

WaitingImages ==
  \A m \in Media : media[m] = "moderation_pending" /\ binding[m] # None =>
    version[binding[m]].state = "pending" /\ version[binding[m]].media = m

DecidedImages ==
  \A m \in Media : media[m] # "moderation_pending" =>
    binding[m] # None /\ version[binding[m]].state = media[m]

ApprovedImages ==
  \A v \in Versions, m \in Media :
    version[v].state = "approved" /\ version[v].media = m => media[m] = "approved"

(* What the holder of a request knew of the image when it asked the        *)
(* provider is still true.                                                 *)
KnowsImage(w) ==
  LET m == version[worker[w].v].media
  IN  worker[w].url = "given" <=> m # None /\ media[m] = "moderation_pending"

Asked(w) == worker[w].pc \in {"asking", "failed", "answered"}

Informed == \A w \in Workers : Asked(w) /\ Holds(w) => KnowsImage(w)

ImagesFollow ==
  OwnImages /\ PendingImages /\ WaitingImages /\ DecidedImages /\ ApprovedImages

LEMMA SubmitImages ==
  ASSUME TypeOK, RowsFollow, ImagesFollow,
         NEW v \in Versions, NEW m0 \in Media \cup {None}, Submit(v, m0)
  PROVE  ImagesFollow'
<1>1. /\ version[v].state = "absent" /\ version'[v].state = "pending" /\ version'[v].media = m0
      /\ \A u \in Versions \ {v} : version'[u] = version[u]
      /\ root[v[1]].publicationState # "pending"
  BY SubmitRows
<1>2. UNCHANGED media /\ Bindable(m0, v[1]) /\ binding' = Bound(m0, v)
  BY DEF Submit
<1>3. m0 # None => /\ m0 \in Media /\ MediaRoot[m0] = v[1]
                   /\ media[m0] \in {"moderation_pending", "approved"}
  BY <1>2, VersionParts DEF Bindable
<1>4. \A m \in Media : binding'[m] = IF m = m0 /\ media[m] # "approved" THEN v ELSE binding[m]
  BY <1>2, <1>3, VersionParts DEF Bound, TypeOK
<1>5. ASSUME NEW u \in Versions, u[1] = v[1] PROVE version[u].state # "pending"
  <2>1. u[1] \in Roots /\ u[2] \in Numbers /\ u = <<u[1], u[2]>>
    BY VersionParts
  <2>2. RootFollows(u[1])
    BY <2>1 DEF RowsFollow, RootsFollow
  <2>3. QED
    BY <1>1, <1>5, <2>1, <2>2 DEF RootFollows
<1>6. OwnImages'
  <2> SUFFICES ASSUME NEW u \in Versions, NEW m \in Media, version'[u].media = m
               PROVE  MediaRoot[m] = u[1]
    BY DEF OwnImages
  <2>1. CASE u = v
    BY <1>1, <1>3, <2>1, VersionParts
  <2>2. CASE u # v
    BY <1>1, <2>2 DEF OwnImages, ImagesFollow
  <2>3. QED
    BY <2>1, <2>2
<1>7. PendingImages'
  <2> SUFFICES ASSUME NEW u \in Versions, NEW m \in Media,
                      version'[u].state = "pending", version'[u].media = m
               PROVE  media'[m] = "approved" \/ (media'[m] = "moderation_pending" /\ binding'[m] = u)
    BY DEF PendingImages
  <2>1. CASE u = v
    BY <1>1, <1>2, <1>3, <1>4, <2>1, VersionParts
  <2>2. CASE u # v
    <3>1. version[u].state = "pending" /\ version[u].media = m
      BY <1>1, <2>2
    <3>2. media[m] = "approved" \/ (media[m] = "moderation_pending" /\ binding[m] = u)
      BY <3>1 DEF ImagesFollow, PendingImages
    <3>3. MediaRoot[m] = u[1]
      BY <3>1 DEF ImagesFollow, OwnImages
    <3>4. m # m0
      BY <1>3, <1>5, <3>1, <3>3, VersionParts
    <3>5. QED
      BY <1>2, <1>4, <3>2, <3>4
  <2>3. QED
    BY <2>1, <2>2
<1>8. WaitingImages'
  <2> SUFFICES ASSUME NEW m \in Media, media'[m] = "moderation_pending", binding'[m] # None
               PROVE  version'[binding'[m]].state = "pending" /\ version'[binding'[m]].media = m
    BY DEF WaitingImages
  <2>1. CASE m = m0
    BY <1>1, <1>2, <1>4, <2>1
  <2>2. CASE m # m0
    <3>1. binding'[m] = binding[m] /\ binding[m] \in Versions
      BY <1>4, <2>2 DEF TypeOK
    <3>2. version[binding[m]].state = "pending" /\ version[binding[m]].media = m
      BY <1>2, <3>1 DEF ImagesFollow, WaitingImages
    <3>3. QED
      BY <1>1, <3>1, <3>2
  <2>3. QED
    BY <2>1, <2>2
<1>9. DecidedImages'
  <2> SUFFICES ASSUME NEW m \in Media, media'[m] # "moderation_pending"
               PROVE  binding'[m] # None /\ version'[binding'[m]].state = media'[m]
    BY DEF DecidedImages
  <2>1. binding'[m] = binding[m]
    <3>1. m = m0 => media[m] = "approved"
      BY <1>2, <1>3, VersionParts
    <3>2. QED
      BY <1>4, <3>1
  <2>2. /\ binding[m] \in Versions /\ binding[m] # None
        /\ version[binding[m]].state = media[m] /\ media[m] \in {"approved", "rejected"}
    BY <1>2 DEF TypeOK, ImagesFollow, DecidedImages
  <2>3. QED
    BY <1>1, <1>2, <2>1, <2>2
<1>10. ApprovedImages'
  BY <1>1, <1>2 DEF ApprovedImages, ImagesFollow
<1>11. QED
  BY <1>6, <1>7, <1>8, <1>9, <1>10 DEF ImagesFollow

LEMMA DecisionImages ==
  ASSUME TypeOK, RowsFollow, ImagesFollow,
         NEW w \in Workers, NEW v \in Versions, NEW verdict \in Decided,
         worker[w].v = v, KnowsImage(w), Decision(w, v, verdict)
  PROVE  /\ ImagesFollow'
         /\ \A m \in Media : media'[m] # media[m] =>
              version[v].media = m /\ media[m] = "moderation_pending" /\ binding[m] = v
<1>1. /\ version[v].state = "pending" /\ version'[v].state = verdict
      /\ version'[v].media = version[v].media
      /\ \A u \in Versions \ {v} : version'[u] = version[u]
  BY DecisionRows
<1>2. version[v].media \in Media \cup {None} /\ UNCHANGED binding /\ verdict \in {"approved", "rejected"}
  BY DEF TypeOK, Version, Decision, Decided
<1>3. \A m \in Media : media'[m] = IF version[v].media = m /\ media[m] = "moderation_pending"
                                   THEN verdict ELSE media[m]
  <2>1. worker[w].url = "given" <=>
          version[v].media # None /\ media[version[v].media] = "moderation_pending"
    BY DEF KnowsImage
  <2>2. CASE worker[w].url = "given"
    BY <2>1, <2>2, <1>2, VersionParts DEF Decision, TypeOK
  <2>3. CASE worker[w].url # "given"
    BY <2>1, <2>3, <1>2, VersionParts DEF Decision, TypeOK
  <2>4. QED
    BY <2>2, <2>3
<1>4. \A m \in Media : version[v].media = m /\ media[m] = "moderation_pending" => binding[m] = v
  BY <1>1 DEF ImagesFollow, PendingImages
<1>5. OwnImages'
  BY <1>1 DEF ImagesFollow, OwnImages
<1>6. PendingImages'
  <2> SUFFICES ASSUME NEW u \in Versions, NEW m \in Media,
                      version'[u].state = "pending", version'[u].media = m
               PROVE  media'[m] = "approved" \/ (media'[m] = "moderation_pending" /\ binding'[m] = u)
    BY DEF PendingImages
  <2>1. u # v
    BY <1>1, <1>2
  <2>2. version[u].state = "pending" /\ version[u].media = m
    BY <1>1, <2>1
  <2>3. media[m] = "approved" \/ (media[m] = "moderation_pending" /\ binding[m] = u)
    BY <2>2 DEF ImagesFollow, PendingImages
  <2>4. QED
    BY <1>2, <1>3, <1>4, <2>1, <2>3
<1>7. WaitingImages'
  <2> SUFFICES ASSUME NEW m \in Media, media'[m] = "moderation_pending", binding'[m] # None
               PROVE  version'[binding'[m]].state = "pending" /\ version'[binding'[m]].media = m
    BY DEF WaitingImages
  <2>1. media[m] = "moderation_pending" /\ version[v].media # m
    BY <1>2, <1>3
  <2>2. /\ binding[m] \in Versions /\ binding'[m] = binding[m]
        /\ version[binding[m]].state = "pending" /\ version[binding[m]].media = m
    BY <1>2, <2>1 DEF TypeOK, ImagesFollow, WaitingImages
  <2>3. binding[m] # v
    BY <2>1, <2>2
  <2>4. QED
    BY <1>1, <2>2, <2>3
<1>8. DecidedImages'
  <2> SUFFICES ASSUME NEW m \in Media, media'[m] # "moderation_pending"
               PROVE  binding'[m] # None /\ version'[binding'[m]].state = media'[m]
    BY DEF DecidedImages
  <2>1. CASE version[v].media = m /\ media[m] = "moderation_pending"
    BY <1>1, <1>2, <1>3, <1>4, <2>1, VersionParts
  <2>2. CASE media[m] # "moderation_pending"
    <3>1. /\ binding[m] \in Versions /\ binding[m] # None
          /\ version[binding[m]].state = media[m] /\ media[m] \in {"approved", "rejected"}
      BY <2>2 DEF TypeOK, ImagesFollow, DecidedImages
    <3>2. QED
      BY <1>1, <1>2, <1>3, <2>2, <3>1
  <2>3. QED
    BY <1>3, <2>1, <2>2
<1>9. ApprovedImages'
  <2> SUFFICES ASSUME NEW u \in Versions, NEW m \in Media,
                      version'[u].state = "approved", version'[u].media = m
               PROVE  media'[m] = "approved"
    BY DEF ApprovedImages
  <2>1. CASE u = v
    <3>1. verdict = "approved" /\ version[v].media = m
      BY <1>1, <2>1
    <3>2. media[m] = "approved" \/ media[m] = "moderation_pending"
      BY <1>1, <3>1 DEF ImagesFollow, PendingImages
    <3>3. QED
      BY <1>3, <3>1, <3>2
  <2>2. CASE u # v
    <3>1. media[m] = "approved"
      BY <1>1, <2>2 DEF ImagesFollow, ApprovedImages
    <3>2. QED
      BY <1>3, <3>1
  <2>3. QED
    BY <2>1, <2>2
<1>10. QED
  BY <1>3, <1>4, <1>5, <1>6, <1>7, <1>8, <1>9 DEF ImagesFollow

(* A request that keeps its version and is under review was so before.     *)
LEMMA RequestKept ==
  ASSUME TypeOK, Answered, [Next]_vars, NEW v \in Versions,
         request'[v].rowVersion = request[v].rowVersion, request'[v].state = "in_progress"
  PROVE  /\ request[v].state = "in_progress"
         /\ request'[v].generation = request[v].generation
         /\ request'[v].endpoint = request[v].endpoint
<1>0. /\ request \in [Versions -> Request] /\ request[v] \in Request
      /\ request[v].rowVersion + 1 # request[v].rowVersion
  <2>1. request \in [Versions -> Request] /\ request[v] \in Request
    BY DEF TypeOK
  <2>2. request[v].rowVersion \in Nat
    BY <2>1 DEF Request
  <2>3. QED
    BY <2>1, <2>2
<1>1. CASE request'[v] = request[v]
  BY <1>1
<1>2. ASSUME NEW u \in Versions, ConsumeModerationRequest(u) PROVE request'[v] = request[v]
  <2>1. CASE u = v
    BY <1>0, <1>2, <2>1 DEF ConsumeModerationRequest, Consumed, Request
  <2>2. CASE u # v
    BY <1>0, <1>2, <2>2 DEF ConsumeModerationRequest, Consumed
  <2>3. QED
    BY <2>1, <2>2
<1>3. ASSUME NEW u \in Versions, request' = [request EXCEPT ![u].lease = "expired"]
      PROVE  /\ request'[v].state = request[v].state
             /\ request'[v].generation = request[v].generation
             /\ request'[v].endpoint = request[v].endpoint
  BY <1>0, <1>3 DEF Request
<1>4. ASSUME NEW w \in Workers, WorkerWrites(w) PROVE request'[v] = request[v]
  <2>1. PICK u \in Versions : worker[w].v = u
    BY <1>4 DEF WorkerWrites, TypeOK
  <2>2. CASE u # v
    BY <1>0, <1>4, <2>1, <2>2
       DEF WorkerWrites, ClaimWrite, SwitchWrite, ReleaseWrite, DecideWrite, content
  <2>3. CASE u = v
    BY <1>0, <1>4, <2>1, <2>3
       DEF WorkerWrites, ClaimWrite, SwitchWrite, ReleaseWrite, DecideWrite, content, Request
  <2>4. QED
    BY <2>2, <2>3
<1>5. QED
  BY <1>1, <1>2, <1>3, <1>4, RowSteps DEF RowStep, Submit

(* What a step may do to a worker that knows of an image: it moves on with *)
(* what it knows, was shown the image just now, or knows no longer.        *)
KnowStep(w) ==
  \/ ~Asked(w)'
  \/ /\ Asked(w)
     /\ worker'[w].v = worker[w].v /\ worker'[w].url = worker[w].url
     /\ \/ /\ worker'[w].rowVersion = worker[w].rowVersion
           /\ worker'[w].generation = worker[w].generation
           /\ worker'[w].endpoint = worker[w].endpoint
        \/ Holds(w) /\ UNCHANGED content
  \/ /\ UNCHANGED content
     /\ \E v \in Versions : worker'[w].v = v /\ KnowsImage(w)'

LEMMA KnowSteps ==
  ASSUME TypeOK, [Next]_vars, NEW w \in Workers
  PROVE  KnowStep(w)
<1>0. worker \in [Workers -> Claimed] /\ worker[w] \in Claimed
  BY DEF TypeOK
<1>1. CASE worker'[w] = worker[w]
  BY <1>1 DEF KnowStep, Asked
<1>2. ASSUME NEW x \in Workers, NEW y, Goto(x, y)
      PROVE  worker'[x] = y /\ \A u \in Workers \ {x} : worker'[u] = worker[u]
  BY <1>0, <1>2 DEF Goto
<1>3. CASE worker'[w] = Idle
  BY <1>3 DEF KnowStep, Asked, Idle
<1>4. ASSUME NEW v \in Versions, Select(w, v) PROVE KnowStep(w)
  <2>1. worker'[w].pc = "selected"
    BY <1>0, <1>4 DEF Select, Goto, Idle
  <2>2. QED
    BY <2>1 DEF KnowStep, Asked
<1>5. CASE Claim(w) /\ ClaimMatches(w)
  <2>1. worker'[w].pc = "claimed"
    BY <1>0, <1>5 DEF Claim, Goto, Claimed
  <2>2. QED
    BY <2>1 DEF KnowStep, Asked
<1>6. CASE Switch(w) /\ Holds(w)
  <2>1. worker'[w].v = worker[w].v /\ worker'[w].url = worker[w].url
    BY <1>0, <1>6 DEF Switch, Goto, Claimed
  <2>2. QED
    BY <1>6, <2>1 DEF Switch, KnowStep, Asked
<1>7. CASE Claim(w) \/ Switch(w) \/ Release(w) \/ Complete(w) \/ Interrupted(w) \/ AnswerLost(w)
  BY <1>2, <1>3, <1>5, <1>6, <1>7 DEF Claim, Switch, Release, Complete, Interrupted, AnswerLost
<1>8. CASE Prepare(w)
  <2>1. PICK v \in Versions : worker[w].v = v
    BY <1>8 DEF Prepare, TypeOK
  <2>2. PICK m \in Media \cup {None} : version[v].media = m
    BY DEF TypeOK, Version
  <2>3. PICK url : url = IF m = None THEN "none" ELSE CreateModerationUrl(m)
    OBVIOUS
  <2>4. UNCHANGED content /\ worker'[w] = IF url = "refused" THEN Idle
                                          ELSE [worker[w] EXCEPT !.pc = "asking", !.url = url]
    BY <1>0, <1>8, <2>1, <2>2, <2>3 DEF Prepare, Goto, ModerationPayload
  <2>5. CASE url = "refused"
    BY <1>3, <2>4, <2>5
  <2>6. CASE url # "refused"
    <3>1. worker'[w].v = v /\ worker'[w].url = url
      BY <1>0, <2>1, <2>4, <2>6 DEF Claimed
    <3>2. url = "given" <=> m # None /\ media[m] = "moderation_pending"
      BY <2>2, <2>3, <2>6 DEF CreateModerationUrl, TypeOK
    <3>3. KnowsImage(w)'
      BY <2>2, <2>4, <3>1, <3>2 DEF KnowsImage, content
    <3>4. QED
      BY <2>4, <3>1, <3>3 DEF KnowStep
  <2>7. QED
    BY <2>5, <2>6
<1>9. ASSUME NEW verdict, Answer(w, verdict) PROVE KnowStep(w)
  <2>1. worker[w].pc = "asking"
        /\ worker'[w] = [worker[w] EXCEPT !.pc = "answered", !.verdict = verdict]
    BY <1>2, <1>9 DEF Answer
  <2>2. QED
    BY <1>0, <2>1 DEF KnowStep, Asked, Claimed
<1>10. CASE ProviderFails(w)
  <2>1. worker[w].pc = "asking"
        /\ worker'[w] = [worker[w] EXCEPT !.pc = IF worker[w].endpoint = "primary"
                                                 THEN "failed" ELSE "releasing"]
    BY <1>2, <1>10 DEF ProviderFails
  <2>2. QED
    BY <1>0, <2>1 DEF KnowStep, Asked, Claimed
<1>11. ASSUME NEW x \in Workers, x # w,
              \/ \E v \in Versions : Select(x, v)
              \/ Claim(x) \/ Prepare(x) \/ (\E verdict \in {"approved", "rejected"} : Answer(x, verdict))
              \/ Switch(x) \/ Release(x) \/ Complete(x)
              \/ ProviderFails(x) \/ Interrupted(x) \/ AnswerLost(x)
       PROVE  worker'[w] = worker[w]
  BY <1>2, <1>11 DEF Select, Claim, Prepare, Answer, Switch, Release, Complete, ProviderFails,
     Interrupted, AnswerLost
<1>12. ASSUME NEW v \in Versions, Delivers(v) \/ LeaseExpires(v) PROVE UNCHANGED worker
  BY <1>12 DEF Delivers, ConsumeModerationRequest, OutboxTries, OutboxSettles, LeaseExpires
<1>13. ASSUME NEW v \in Versions, NEW m \in Media \cup {None}, Submit(v, m)
       PROVE  UNCHANGED worker
  BY <1>13 DEF Submit
<1>14. CASE UNCHANGED vars
  BY <1>1, <1>14 DEF vars
<1>15. QED
  BY <1>1, <1>4, <1>7, <1>8, <1>9, <1>10, <1>11, <1>12, <1>13, <1>14 DEF Next, Submits, Polls

(* A step leaves the image of a version under review alone, unless it      *)
(* decides that version.                                                   *)
LEMMA ImageKept ==
  ASSUME TypeOK, Answered, RowsFollow, ImagesFollow, Informed, [Next]_vars,
         NEW v \in Versions, request[v].state = "in_progress", request'[v].state = "in_progress"
  PROVE  /\ version'[v].media = version[v].media
         /\ \A m \in Media : version[v].media = m => media'[m] = media[m]
<1>1. CASE UNCHANGED content
  BY <1>1 DEF content
<1>2. version[v].state = "pending"
  BY UnderReview
<1>3. ASSUME NEW u \in Versions, NEW m0 \in Media \cup {None}, Submit(u, m0)
      PROVE  version'[v] = version[v] /\ UNCHANGED media
  BY <1>2, <1>3, SubmitRows DEF Submit
<1>4. ASSUME NEW x \in Workers, NEW u \in Versions, NEW verdict \in Decided,
             worker[x].pc = "answered", worker[x].v = u, Decides(x), Decision(x, u, verdict)
      PROVE  /\ version'[v].media = version[v].media
             /\ \A m \in Media : version[v].media = m => media'[m] = media[m]
  <2>1. u # v
    BY <1>4, DecisionRows DEF Decided
  <2>2. KnowsImage(x)
    BY <1>4 DEF Informed, Asked, Decides
  <2>3. ASSUME NEW m \in Media, version[v].media = m, media'[m] # media[m] PROVE FALSE
    <3>1. media[m] = "moderation_pending" /\ binding[m] = u
      BY <1>4, <2>2, <2>3, DecisionImages
    <3>2. binding[m] = v
      BY <1>2, <2>3, <3>1 DEF ImagesFollow, PendingImages
    <3>3. QED
      BY <2>1, <3>1, <3>2
  <2>4. version'[v] = version[v]
    BY <1>4, <2>1, DecisionRows
  <2>5. QED
    BY <2>3, <2>4
<1>5. QED
  BY <1>1, <1>3, <1>4, TableSteps DEF TableStep, ConsumeModerationRequest

LEMMA InformedKept ==
  ASSUME TypeOK, TypeOK', Answered, RowsFollow, Level, ImagesFollow, Informed, [Next]_vars
  PROVE  Informed'
<1> SUFFICES ASSUME NEW w \in Workers, Asked(w)', Holds(w)' PROVE KnowsImage(w)'
  BY DEF Informed
<1>1. PICK v \in Versions : worker'[w].v = v
  BY DEF TypeOK, Asked
<1>2. CASE UNCHANGED content /\ KnowsImage(w)'
  BY <1>2
<1>3. ASSUME Asked(w), worker[w].v = v, worker'[w].url = worker[w].url, Holds(w),
             \/ UNCHANGED content
             \/ request[v].state = "in_progress" /\ request'[v].state = "in_progress"
      PROVE  KnowsImage(w)'
  <2>1. KnowsImage(w)
    BY <1>3 DEF Informed
  <2>2. PICK m \in Media \cup {None} : version[v].media = m
    BY DEF TypeOK, Version
  <2>3. version'[v].media = m /\ (m # None => media'[m] = media[m])
    BY <1>3, <2>2, ImageKept DEF content
  <2>4. QED
    BY <1>1, <1>3, <2>1, <2>2, <2>3 DEF KnowsImage
<1>4. ASSUME Asked(w), worker[w].v = v,
             worker'[w].rowVersion = worker[w].rowVersion,
             worker'[w].generation = worker[w].generation,
             worker'[w].endpoint = worker[w].endpoint
      PROVE  Holds(w) /\ request[v].state = "in_progress" /\ request'[v].state = "in_progress"
  <2>1. /\ request'[v].state = "in_progress" /\ request'[v].generation = worker[w].generation
        /\ request'[v].endpoint = worker[w].endpoint
        /\ request'[v].rowVersion = worker[w].rowVersion
    BY <1>1, <1>4 DEF Holds
  <2>2. worker[w].rowVersion <= request[v].rowVersion
    BY <1>4 DEF Level, Asked
  <2>3. /\ request[v].rowVersion \in Nat /\ request'[v].rowVersion \in Nat
        /\ request'[v].rowVersion >= request[v].rowVersion
    BY RequestsRise DEF TypeOK, Request
  <2>4. request'[v].rowVersion = request[v].rowVersion
    BY <2>1, <2>2, <2>3
  <2>5. QED
    BY <1>4, <2>1, <2>4, RequestKept DEF Holds
<1>5. QED
  BY <1>1, <1>2, <1>3, <1>4, KnowSteps DEF KnowStep

LEMMA ImagesKept ==
  ASSUME TypeOK, Answered, RowsFollow, ImagesFollow, Informed, [Next]_vars
  PROVE  ImagesFollow'
<1>1. CASE UNCHANGED content
  BY <1>1 DEF content, ImagesFollow, OwnImages, PendingImages, WaitingImages, DecidedImages,
     ApprovedImages
<1>2. ASSUME NEW x \in Workers, NEW u \in Versions, NEW verdict \in Decided,
             worker[x].pc = "answered", worker[x].v = u, Decides(x), Decision(x, u, verdict)
      PROVE  ImagesFollow'
  <2>1. KnowsImage(x)
    BY <1>2 DEF Informed, Asked, Decides
  <2>2. QED
    BY <1>2, <2>1, DecisionImages
<1>3. QED
  BY <1>1, <1>2, SubmitImages, TableSteps DEF TableStep, ConsumeModerationRequest

(* An image shares the fate of the version it is bound to, and what the    *)
(* holder of a review knew of it when it asked is still true.              *)
THEOREM ImagesCorrect == Spec => [](ImagesFollow /\ Informed)
<1>1. Init => ImagesFollow /\ Informed
  <2> SUFFICES ASSUME Init PROVE ImagesFollow /\ Informed
    OBVIOUS
  <2>1. /\ \A v \in Versions : version[v].media = None
        /\ \A m \in Media : media[m] = "moderation_pending" /\ binding[m] = None
        /\ \A w \in Workers : worker[w].pc = "idle"
    BY DEF Init, Idle
  <2>2. QED
    BY <2>1, VersionParts DEF ImagesFollow, OwnImages, PendingImages, WaitingImages,
       DecidedImages, ApprovedImages, Informed, Asked
<1>2. TypeOK /\ TypeOK' /\ Answered /\ RowsFollow /\ Level /\ ImagesFollow /\ Informed
        /\ [Next]_vars => ImagesFollow' /\ Informed'
  BY ImagesKept, InformedKept
<1>3. QED
  BY <1>1, <1>2, TypeCorrect, RowsCorrect, FenceCorrect, PTL DEF Spec

-----------------------------------------------------------------------------
(* At most one worker can still write a request, and what it knows of its  *)
(* version and of the image is true: its answer is not dropped.            *)
THEOREM HolderCorrect == Spec => []HolderDecides
<1>1. TypeOK /\ RowsFollow /\ Level /\ Exclusive /\ ImagesFollow /\ Informed => HolderDecides
  <2> SUFFICES ASSUME TypeOK, RowsFollow, Level, Exclusive, ImagesFollow, Informed
               PROVE  HolderDecides
    OBVIOUS
  <2>1. SingleReviewer
    <3> SUFFICES ASSUME NEW w \in Workers, NEW x \in Workers, Active(w), Holds(w),
                        Active(x), Holds(x), worker[w].v = worker[x].v
                 PROVE  w = x
      BY DEF SingleReviewer, Active
    <3>1. worker[w].rowVersion = worker[x].rowVersion
      BY DEF Holds
    <3>2. QED
      BY <3>1 DEF Exclusive
  <2>2. AnswersNeverDropped
    <3> SUFFICES ASSUME NEW w \in Workers, Asked(w), Holds(w)
                 PROVE  LET v == worker[w].v
                            m == version[v].media
                        IN  /\ IsPending(v)
                            /\ worker[w].url = "given" <=>
                                 (m # None /\ media[m] = "moderation_pending")
                            /\ m # None => media[m] # "rejected"
      BY DEF AnswersNeverDropped, Asked
    <3>1. PICK v \in Versions : worker[w].v = v
      BY DEF TypeOK, Asked
    <3>2. PICK m \in Media \cup {None} : version[v].media = m
      BY DEF TypeOK, Version
    <3>3. version[v].state = "pending" /\ IsPending(v)
      BY <3>1, UnderReview DEF Holds
    <3>4. KnowsImage(w)
      BY DEF Informed
    <3>5. m # None => media[m] # "rejected"
      BY <3>2, <3>3 DEF ImagesFollow, PendingImages
    <3>6. QED
      BY <3>1, <3>2, <3>3, <3>4, <3>5 DEF KnowsImage
  <2>3. QED
    BY <2>1, <2>2 DEF HolderDecides
<1>2. QED
  BY <1>1, TypeCorrect, RowsCorrect, FenceCorrect, ImagesCorrect, PTL

(* A decision is applied to the request, the version, the root, its image  *)
(* and the owner together; a root is locked for a review to come only.     *)
THEOREM DecisionsCorrect == Spec => []DecisionsApplied
<1>1. TypeOK /\ RowsFollow /\ ImagesFollow => DecisionsApplied
  <2> SUFFICES ASSUME TypeOK, RowsFollow, ImagesFollow PROVE DecisionsApplied
    OBVIOUS
  <2>1. ASSUME NEW r \in Roots
        PROVE  /\ RootFollows(r)
               /\ root[r].pending # 0 => root[r].pending \in Numbers /\ <<r, root[r].pending>> \in Versions
               /\ root[r].publicationState \in {"draft", "pending", "published", "revision_required"}
    <3>1. root[r].pending \in 0 .. MaxVersions
          /\ root[r].publicationState \in {"draft", "pending", "published", "revision_required"}
      BY DEF TypeOK, Root
    <3>2. root[r].pending # 0 => root[r].pending \in Numbers
      BY <3>1, ModerationConstants DEF Numbers
    <3>3. QED
      BY <3>1, <3>2, VersionParts DEF RowsFollow, RootsFollow
  <2>2. OwnersToldTheTruth
    <3> SUFFICES ASSUME NEW r \in Roots
                 PROVE  ModerationState(root[r].publicationState) =
                          IF OwnVersion(r) = 0 THEN "not_submitted"
                          ELSE Verdict[version[<<r, OwnVersion(r)>>].state]
      BY DEF OwnersToldTheTruth
    <3> DEFINE own == OwnVersion(r)
               told == ModerationState(root[r].publicationState)
    <3>0. /\ Verdict["draft"] = "not_submitted" /\ Verdict["pending"] = "pending"
          /\ Verdict["approved"] = "approved" /\ Verdict["rejected"] = "revision_required"
      BY DEF Verdict
    <3>1. CASE root[r].publicationState = "draft"
      <4>1. own = 0 \/ version[<<r, own>>].state = "draft"
        BY <2>1, <3>1 DEF RootFollows, OwnVersion
      <4>2. told = "not_submitted"
        BY <3>1 DEF ModerationState
      <4> HIDE DEF own, told
      <4>3. told = IF own = 0 THEN "not_submitted" ELSE Verdict[version[<<r, own>>].state]
        BY <3>0, <4>1, <4>2
      <4>4. QED
        BY <4>3 DEF own, told
    <3>2. CASE root[r].publicationState = "pending"
      <4>1. own # 0 /\ version[<<r, own>>].state = "pending"
        BY <2>1, <3>2 DEF RootFollows, OwnVersion
      <4>2. told = "pending"
        BY <3>2 DEF ModerationState
      <4> HIDE DEF own, told
      <4>3. told = IF own = 0 THEN "not_submitted" ELSE Verdict[version[<<r, own>>].state]
        BY <3>0, <4>1, <4>2
      <4>4. QED
        BY <4>3 DEF own, told
    <3>3. CASE root[r].publicationState = "published"
      <4>1. own # 0 /\ version[<<r, own>>].state = "approved"
        BY <2>1, <3>3 DEF RootFollows, OwnVersion
      <4>2. told = "approved"
        BY <3>3 DEF ModerationState
      <4> HIDE DEF own, told
      <4>3. told = IF own = 0 THEN "not_submitted" ELSE Verdict[version[<<r, own>>].state]
        BY <3>0, <4>1, <4>2
      <4>4. QED
        BY <4>3 DEF own, told
    <3>4. CASE root[r].publicationState = "revision_required"
      <4>1. own # 0 /\ version[<<r, own>>].state = "rejected"
        BY <2>1, <3>4 DEF RootFollows, OwnVersion
      <4>2. told = "revision_required"
        BY <3>4 DEF ModerationState
      <4> HIDE DEF own, told
      <4>3. told = IF own = 0 THEN "not_submitted" ELSE Verdict[version[<<r, own>>].state]
        BY <3>0, <4>1, <4>2
      <4>4. QED
        BY <4>3 DEF own, told
    <3>5. QED
      BY <2>1, <3>1, <3>2, <3>3, <3>4
  <2>3. LockedForReview
    <3> SUFFICES ASSUME NEW r \in Roots, root[r].publicationState = "pending"
                 PROVE  LET v == <<r, root[r].pending>>
                        IN  /\ root[r].pending # 0 /\ version[v].state = "pending"
                            /\ \/ request[v].state \in {"pending", "in_progress"}
                               \/ /\ request[v].state = "absent"
                                  /\ eventStatus[v] \in {"owed", "abandoned"} /\ eventExecutions[v] = 0
      BY DEF LockedForReview
    <3>1. PICK v \in Versions : v = <<r, root[r].pending>>
      BY <2>1 DEF RootFollows
    <3>2. root[r].pending # 0 /\ version[v].state = "pending"
      BY <2>1, <3>1 DEF RootFollows
    <3>3. request[v].state \in {"absent", "pending", "in_progress"}
      BY <3>2 DEF RowsFollow, VersionsFollowRequests, Decided, TypeOK, Request
    <3>4. request[v].state = "absent" =>
            eventStatus[v] \in {"owed", "abandoned"} /\ eventExecutions[v] = 0
      BY <3>2 DEF RowsFollow, EventsFollow, TypeOK
    <3>5. QED
      BY <3>1, <3>2, <3>3, <3>4
  <2>4. ImagesFollowVersions
    BY DEF ImagesFollowVersions, ImagesFollow, WaitingImages, DecidedImages
  <2>5. QED
    BY <2>2, <2>3, <2>4 DEF DecisionsApplied, RowsFollow
<1>2. QED
  BY <1>1, TypeCorrect, RowsCorrect, ImagesCorrect, PTL

(* Strangers find the newest approved version of a root, and can download  *)
(* its image and no other image of that root.                              *)
THEOREM PublishedCorrect == Spec => []PublishedReviewed
<1>1. TypeOK /\ RowsFollow /\ ImagesFollow => PublishedReviewed
  <2> SUFFICES ASSUME TypeOK, RowsFollow, ImagesFollow PROVE PublishedReviewed
    OBVIOUS
  <2>1. ASSUME NEW m \in Media, NEW r \in Roots, MediaRoot[m] = r, Downloadable(m)
        PROVE  root[r].published # 0 /\ version[<<r, root[r].published>>].media = m
    <3>1. PICK v \in Versions : version[v].media = m /\ root[v[1]].published = v[2]
      BY <2>1 DEF Downloadable, IsPublishedMedia
    <3>2. v[1] = r
      BY <2>1, <3>1 DEF ImagesFollow, OwnImages
    <3>3. v = <<r, root[r].published>> /\ root[r].published # 0
      BY <3>1, <3>2, VersionParts
    <3>4. QED
      BY <3>1, <3>3
  <2>2. ASSUME NEW r \in Roots, root[r].published # 0
        PROVE  /\ \A n \in Numbers : n > root[r].published => version[<<r, n>>].state # "approved"
               /\ \E v \in PublicVersions(r) :
                    /\ version[v].state = "approved" /\ request[v].state = "approved"
                    /\ \A m \in Media : MediaRoot[m] = r =>
                         (Downloadable(m) <=> version[v].media = m)
    <3>1. root[r].published \in Numbers /\ RootFollows(r)
      BY <2>2, ModerationConstants DEF TypeOK, Root, Numbers, RowsFollow, RootsFollow
    <3>2. PICK v \in Versions : v = <<r, root[r].published>>
      BY <3>1, VersionParts
    <3>3. version[v].state = "approved"
      BY <2>2, <3>1, <3>2 DEF RootFollows
    <3>4. v \in PublicVersions(r) /\ request[v].state = "approved"
      BY <3>2, <3>3 DEF PublicVersions, RowsFollow, VersionsFollowRequests, Decided
    <3>5. ASSUME NEW m \in Media, version[v].media = m PROVE Downloadable(m)
      <4>1. media[m] = "approved"
        BY <3>3, <3>5 DEF ImagesFollow, ApprovedImages
      <4>2. IsPublishedMedia(m)
        BY <3>2, <3>3, <3>5 DEF IsPublishedMedia
      <4>3. QED
        BY <4>1, <4>2 DEF Downloadable
    <3>6. \A n \in Numbers : n > root[r].published => version[<<r, n>>].state # "approved"
      <4>1. \A n \in Numbers : version[<<r, n>>].state = "approved" => n <= root[r].published
        BY <3>1 DEF RootFollows
      <4>2. root[r].published \in Nat /\ \A n \in Numbers : n \in Nat
        BY <3>1, VersionParts
      <4>3. QED
        BY <4>1, <4>2
    <3>7. QED
      BY <2>1, <3>2, <3>3, <3>4, <3>5, <3>6
  <2>3. QED
    BY <2>1, <2>2 DEF PublishedReviewed
<1>2. QED
  BY <1>1, TypeCorrect, RowsCorrect, ImagesCorrect, PTL

-----------------------------------------------------------------------------
(* Moderation as ReviewedPublication sees it.                              *)
LEMMA MapStutter ==
  ASSUME UNCHANGED content
  PROVE  UNCHANGED Promise!vars
BY DEF content, Promise!vars

(* The map applied to a step that changes one version, or one root.        *)
LEMMA MapChange ==
  ASSUME NEW v \in Versions, \A u \in Versions \ {v} : version'[u] = version[u]
  PROVE  [u \in Versions |-> ReviewOf(version'[u].state)]
           = [[u \in Versions |-> ReviewOf(version[u].state)]
                EXCEPT ![v] = ReviewOf(version'[v].state)]
OBVIOUS

LEMMA SubmitMapped ==
  ASSUME TypeOK, RowsFollow, NEW v \in Versions, NEW m \in Media \cup {None}, Submit(v, m)
  PROVE  Promise!Submit(v)
<1>0. v[1] \in Roots /\ v[2] \in Numbers /\ RootFollows(v[1])
  BY VersionParts DEF RowsFollow, RootsFollow
<1>1. /\ root[v[1]].publicationState # "pending"
      /\ \A n \in Numbers : version[<<v[1], n>>].state = "absent" <=> n >= v[2]
      /\ version'[v].state = "pending"
      /\ \A u \in Versions \ {v} : version'[u] = version[u]
      /\ root'[v[1]].published = root[v[1]].published
      /\ \A r \in Roots \ {v[1]} : root'[r] = root[r]
  BY SubmitRows
<1>2. ASSUME NEW n \in Numbers
      PROVE  /\ [u \in Versions |-> ReviewOf(version[u].state)][<<v[1], n>>] # "waiting"
             /\ n >= v[2] => [u \in Versions |-> ReviewOf(version[u].state)][<<v[1], n>>] = "none"
  <2>1. <<v[1], n>> \in Versions
    BY <1>0, VersionParts
  <2>2. version[<<v[1], n>>].state # "pending"
    BY <1>0, <1>1 DEF RootFollows
  <2>3. version[<<v[1], n>>].state \in {"absent", "draft", "pending", "approved", "rejected"}
    BY <2>1 DEF TypeOK, Version
  <2>4. ReviewOf(version[<<v[1], n>>].state) # "waiting"
    BY <2>2, <2>3 DEF ReviewOf
  <2>5. n >= v[2] => ReviewOf(version[<<v[1], n>>].state) = "none"
    BY <1>1 DEF ReviewOf
  <2>6. QED
    BY <2>1, <2>4, <2>5
<1>3. ReviewOf(version'[v].state) = "waiting"
  BY <1>1 DEF ReviewOf
<1>4. [r \in Roots |-> root'[r].published] = [r \in Roots |-> root[r].published]
  BY <1>1
<1>5. UNCHANGED notices
  BY DEF Submit
<1>6. QED
  BY <1>1, <1>2, <1>3, <1>4, <1>5, MapChange DEF Promise!Submit, Numbers

LEMMA DecisionMapped ==
  ASSUME TypeOK, NEW w \in Workers, NEW v \in Versions, NEW verdict \in Decided,
         Decision(w, v, verdict)
  PROVE  Promise!Approve(v) \/ Promise!Reject(v)
<1>0. v[1] \in Roots
  BY VersionParts
<1>1. /\ version[v].state = "pending" /\ version'[v].state = verdict
      /\ \A u \in Versions \ {v} : version'[u] = version[u]
      /\ \A r \in Roots \ {v[1]} : root'[r] = root[r]
      /\ verdict = "approved" => root'[v[1]].published = v[2]
      /\ verdict # "approved" => root'[v[1]].published = root[v[1]].published
  BY DecisionRows
<1>2. ReviewOf("pending") = "waiting" /\ ReviewOf("approved") = "approved" /\ ReviewOf("rejected") = "rejected"
  BY DEF ReviewOf
<1>3. notices' = [notices EXCEPT ![v] = @ + 1]
  BY DEF Decision
<1>4. [u \in Versions |-> ReviewOf(version[u].state)][v] = "waiting"
  BY <1>1, <1>2
<1>5. CASE verdict = "approved"
  <2>1. [r \in Roots |-> root'[r].published]
          = [[r \in Roots |-> root[r].published] EXCEPT ![v[1]] = v[2]]
    BY <1>0, <1>1, <1>5
  <2>2. Promise!Approve(v)
    BY <1>1, <1>2, <1>3, <1>4, <1>5, <2>1, MapChange DEF Promise!Approve
  <2>3. QED
    BY <2>2
<1>6. CASE verdict = "rejected"
  <2>1. [r \in Roots |-> root'[r].published] = [r \in Roots |-> root[r].published]
    BY <1>0, <1>1, <1>6
  <2>2. Promise!Reject(v)
    BY <1>1, <1>2, <1>3, <1>4, <1>6, <2>1, MapChange DEF Promise!Reject
  <2>3. QED
    BY <2>2
<1>7. QED
  BY <1>5, <1>6 DEF Decided

(* Moderation implements what it promises to readers and owners: readers   *)
(* see only the newest approved version, a version is reviewed once, its   *)
(* owner is told once, and no second version is accepted in the meantime.  *)
THEOREM ImplementsPromise == Spec => KeepsPromise
<1>1. Init => Promise!Init
  <2> SUFFICES ASSUME Init PROVE Promise!Init
    OBVIOUS
  <2>1. \A v \in Versions : ReviewOf(version[v].state) = "none"
    BY DEF Init, ReviewOf
  <2>2. /\ [v \in Versions |-> ReviewOf(version[v].state)] = [v \in Versions |-> "none"]
        /\ [r \in Roots |-> root[r].published] = [r \in Roots |-> 0]
        /\ notices = [v \in Versions |-> 0]
    BY <2>1 DEF Init
  <2>3. QED
    BY <2>2 DEF Promise!Init, Promise!Versions, Versions, Numbers
<1>2. TypeOK /\ Answered /\ RowsFollow /\ [Next]_vars => [Promise!Next]_(Promise!vars)
  <2> SUFFICES ASSUME TypeOK, Answered, RowsFollow, [Next]_vars
               PROVE  [Promise!Next]_(Promise!vars)
    OBVIOUS
  <2> USE DEF Promise!Next, Promise!Versions, Versions, Numbers
  <2>1. QED
    BY MapStutter, SubmitMapped, DecisionMapped, TableSteps DEF TableStep, ConsumeModerationRequest
<1>3. QED
  BY <1>1, <1>2, TypeCorrect, RowsCorrect, PTL DEF Spec, KeepsPromise, Promise!Spec

=============================================================================
