------------------------ MODULE OutboxDeliveryProofs ------------------------
(***************************************************************************)
(* Proofs about OutboxDelivery for every set of deliveries, processes and  *)
(* handlers, every MAX_ATTEMPTS and every number of faults.                *)
(***************************************************************************)
EXTENDS OutboxDelivery, FiniteSetTheorems, TLAPS

(* Each updated row value is a row again. *)
LEMMA RowsTyped ==
  ASSUME NEW r \in Row, NEW attempt \in Nat
  PROVE  /\ LeasedRow(r) \in Row
         /\ ReleasedRow(r) \in Row
         /\ BegunRow(r) \in Row
         /\ CompletedRow(r) \in Row
         /\ FailedRow(r, attempt) \in Row
<1>0. r.rowVersion + 1 \in Nat /\ r.attemptCount + 1 \in Nat
  BY DEF Row
<1>1. LeasedRow(r) \in Row
  BY <1>0, Zenon DEF Row, RowStates, LeasedRow
<1>2. ReleasedRow(r) \in Row
  BY <1>0, Zenon DEF Row, RowStates, ReleasedRow
<1>3. BegunRow(r) \in Row
  BY <1>0, Zenon DEF Row, RowStates, BegunRow
<1>4. CompletedRow(r) \in Row
  BY <1>0, Zenon DEF Row, RowStates, CompletedRow
<1>5. FailedRow(r, attempt) \in Row
  BY <1>0, Zenon DEF Row, RowStates, FailedRow
<1>6. QED
  BY <1>1, <1>2, <1>3, <1>4, <1>5

(* The guarded writes of a handler keep the table well-typed. *)
LEMMA WritesTyped ==
  ASSUME TypeOK, NEW h \in Handlers, handler[h].pc # "idle"
  PROVE  /\ BeginWrite(h) \in [Deliveries -> Row]
         /\ CompleteWrite(h) \in [Deliveries -> Row]
         /\ FailWrite(h) \in [Deliveries -> Row]
<1>1. handler[h].d \in Deliveries /\ handler[h].attempt \in Nat
  BY DEF TypeOK, Activation
<1>2. row[handler[h].d] \in Row
  BY <1>1 DEF TypeOK
<1>3. row \in [Deliveries -> Row]
  BY DEF TypeOK
<1>4. QED
  BY <1>1, <1>2, <1>3, RowsTyped
     DEF BeginWrite, CompleteWrite, FailWrite, UpdateRow

(* Type correctness: the declared shapes of rows, jobs and activations,    *)
(* and an activation that is not idle always has a delivery.               *)
THEOREM TypeCorrect == Spec => []TypeOK
<1>1. Init => TypeOK
  BY ConstantsOK DEF Init, TypeOK, Row, RowStates, Job, NoJob, Activation, HandlerLabels, Idle
<1>2. TypeOK /\ [Next]_vars => TypeOK'
  <2> SUFFICES ASSUME TypeOK, [Next]_vars PROVE TypeOK'
    OBVIOUS
  <2> USE ConstantsOK
  <2>1. ASSUME NEW d \in Deliveries, Submit(d) PROVE TypeOK'
    BY <2>1 DEF TypeOK, Submit, Row, RowStates
  <2>2. ASSUME NEW d \in Deliveries, BecomesDue(d) PROVE TypeOK'
    BY <2>2 DEF TypeOK, BecomesDue, Row, RowStates
  <2>3. ASSUME NEW d \in Deliveries, LeaseExpires(d) PROVE TypeOK'
    BY <2>3 DEF TypeOK, LeaseExpires, Row, RowStates, Fault
  <2>4. ASSUME NEW d \in Deliveries, JobStalls(d) PROVE TypeOK'
    BY <2>4 DEF TypeOK, JobStalls, Job, NoJob, Fault
  <2>5. ASSUME NEW d \in Deliveries, Purge(d) PROVE TypeOK'
    BY <2>5 DEF TypeOK, Purge, Purgeable, Row, RowStates
  <2>6. ASSUME NEW p \in Processes, Claim(p) PROVE TypeOK'
    <3>1. row' \in [Deliveries -> Row]
      BY <2>6, RowsTyped DEF TypeOK, Claim
    <3>2. claimed' \in [Processes -> SUBSET [d: Deliveries, leaseVersion: Nat]]
      <4>1. \A d \in Deliveries : LeasedRow(row[d]).rowVersion \in Nat
        BY RowsTyped DEF TypeOK, Row
      <4>2. QED
        BY <2>6, <4>1 DEF TypeOK, Claim
    <3>3. QED
      BY <2>6, <3>1, <3>2 DEF TypeOK, Claim
  <2>7. ASSUME NEW p \in Processes, NEW c \in claimed[p]
        PROVE  Added(c) \in [Deliveries -> Job]
    BY DEF TypeOK, Added, Job
  <2>8. ASSUME NEW p \in Processes, Publish(p) PROVE TypeOK'
    BY <2>8, <2>7 DEF TypeOK, Publish
  <2>9. ASSUME NEW p \in Processes, PublishFails(p) PROVE TypeOK'
    <3>1. PICK c \in claimed[p] :
            /\ jobs' \in {jobs, Added(c)}
            /\ row' = IF row[c.d].state = "leased" /\ row[c.d].rowVersion = c.leaseVersion
                      THEN UpdateRow(c.d, ReleasedRow(row[c.d])) ELSE row
            /\ claimed' = [claimed EXCEPT ![p] = @ \ {c}]
      BY <2>9 DEF PublishFails
    <3>2. c.d \in Deliveries
      BY DEF TypeOK
    <3>3. row' \in [Deliveries -> Row]
      BY <3>1, <3>2, RowsTyped DEF TypeOK, UpdateRow
    <3>4. QED
      BY <2>9, <2>7, <3>1, <3>3 DEF TypeOK, PublishFails, Fault
  <2>10. ASSUME NEW p \in Processes, DispatchAborts(p) PROVE TypeOK'
    BY <2>10 DEF TypeOK, DispatchAborts, Fault
  <2>11. ASSUME NEW p \in Processes, Crash(p) PROVE TypeOK'
    BY <2>11 DEF TypeOK, Crash, Fault, Activation, HandlerLabels, Idle
  <2>12. ASSUME NEW h \in Handlers, NEW d \in Deliveries, TakeJob(h, d) PROVE TypeOK'
    BY <2>12 DEF TypeOK, TakeJob, Job, Activation, HandlerLabels, Idle
  <2>13. ASSUME NEW h \in Handlers, Begin(h) PROVE TypeOK'
    BY <2>13, WritesTyped DEF TypeOK, Begin, Activation, HandlerLabels
  <2>14. ASSUME NEW h \in Handlers, Load(h) PROVE TypeOK'
    BY <2>14 DEF TypeOK, Load, Row, Activation, HandlerLabels
  <2>15. ASSUME NEW h \in Handlers, Renew(h) PROVE TypeOK'
    <3>1. handler[h].d \in Deliveries
      BY <2>15 DEF TypeOK, Renew
    <3>2. [row EXCEPT ![handler[h].d].lease = "live"] \in [Deliveries -> Row]
      BY <3>1 DEF TypeOK, Row, RowStates
    <3>3. [handler EXCEPT ![h].leaseLost = TRUE] \in [Handlers -> Activation]
      BY DEF TypeOK, Activation
    <3>4. CASE Holds(h)
      BY <2>15, <3>2, <3>4 DEF TypeOK, Renew
    <3>5. CASE ~Holds(h)
      <4>1. /\ handler' = [handler EXCEPT ![h].leaseLost = TRUE]
            /\ UNCHANGED <<row, jobs, claimed, effects, faults>>
        BY <2>15, <3>5 DEF Renew
      <4>2. QED
        BY <3>3, <4>1 DEF TypeOK
    <3>6. QED
      BY <3>4, <3>5
  <2>16. ASSUME NEW h \in Handlers, RenewErrs(h) PROVE TypeOK'
    <3>1. handler[h].d \in Deliveries
      BY <2>16 DEF TypeOK, RenewErrs
    <3>2. [row EXCEPT ![handler[h].d].lease = "live"] \in [Deliveries -> Row]
      BY <3>1 DEF TypeOK, Row, RowStates
    <3>3. [handler EXCEPT ![h].leaseLost = TRUE] \in [Handlers -> Activation]
      BY DEF TypeOK, Activation
    <3>4. QED
      BY <2>16, <3>2, <3>3 DEF TypeOK, RenewErrs, Fault
  <2>17. ASSUME NEW h \in Handlers, Execute(h) PROVE TypeOK'
    BY <2>17 DEF TypeOK, Execute, Activation, HandlerLabels
  <2>18. ASSUME NEW h \in Handlers, ExecuteFails(h) PROVE TypeOK'
    BY <2>18 DEF TypeOK, ExecuteFails, Activation, HandlerLabels
  <2>19. ASSUME NEW h \in Handlers, Complete(h) PROVE TypeOK'
    BY <2>19, WritesTyped DEF TypeOK, Complete, Activation, HandlerLabels
  <2>20. ASSUME NEW h \in Handlers, Fail(h) PROVE TypeOK'
    BY <2>20, WritesTyped DEF TypeOK, Fail, Activation, HandlerLabels
  <2>21. ASSUME NEW h \in Handlers, QueryErrs(h) PROVE TypeOK'
    BY <2>21, WritesTyped DEF TypeOK, QueryErrs, Ambiguous, Fault, Activation, HandlerLabels
  <2>22. ASSUME NEW h \in Handlers, Return(h) PROVE TypeOK'
    BY <2>22 DEF TypeOK, Return, Job, NoJob, Activation, HandlerLabels, Idle
  <2>23. CASE RedisLoss
    BY <2>23 DEF TypeOK, RedisLoss, Job, NoJob, Fault
  <2>24. CASE UNCHANGED vars
    BY <2>24 DEF TypeOK, vars
  <2>25. QED
    BY <2>1, <2>2, <2>3, <2>4, <2>5, <2>6, <2>8, <2>9, <2>10, <2>11, <2>12, <2>13,
       <2>14, <2>15, <2>16, <2>17, <2>18, <2>19, <2>20, <2>21, <2>22, <2>23, <2>24
       DEF Next
<1>3. QED
  BY <1>1, <1>2, PTL DEF Spec

-----------------------------------------------------------------------------
(* How one step may change a row: the version counts every write that      *)
(* touches the attempt count or takes the row into or out of "leased".     *)
RowSucc(r, s) ==
  \/ /\ s.rowVersion = r.rowVersion
     /\ s.attemptCount = r.attemptCount
     /\ s.state = "leased" <=> r.state = "leased"
  \/ /\ s.rowVersion = r.rowVersion + 1
     /\ s.attemptCount \in {r.attemptCount, r.attemptCount + 1}

(* Each guarded update of a row relates to it as RowSucc says. *)
LEMMA RowValuesSucc ==
  ASSUME NEW r \in Row, NEW attempt \in Nat
  PROVE  /\ RowSucc(r, r)
         /\ RowSucc(r, LeasedRow(r))
         /\ RowSucc(r, ReleasedRow(r))
         /\ RowSucc(r, BegunRow(r))
         /\ RowSucc(r, CompletedRow(r))
         /\ RowSucc(r, FailedRow(r, attempt))
<1>1. RowSucc(r, r)
  BY DEF RowSucc
<1>2. RowSucc(r, LeasedRow(r))
  BY DEF RowSucc, LeasedRow, Row
<1>3. RowSucc(r, ReleasedRow(r))
  BY DEF RowSucc, ReleasedRow, Row
<1>4. RowSucc(r, BegunRow(r))
  BY DEF RowSucc, BegunRow, Row
<1>5. RowSucc(r, CompletedRow(r))
  BY DEF RowSucc, CompletedRow, Row
<1>6. RowSucc(r, FailedRow(r, attempt))
  BY DEF RowSucc, FailedRow, Row
<1>7. QED
  BY <1>1, <1>2, <1>3, <1>4, <1>5, <1>6

(* So do the compare-and-set writes of a handler, matching or not. *)
LEMMA WritesSucc ==
  ASSUME TypeOK, NEW h \in Handlers, handler[h].pc # "idle", NEW d \in Deliveries
  PROVE  /\ RowSucc(row[d], BeginWrite(h)[d])
         /\ RowSucc(row[d], CompleteWrite(h)[d])
         /\ RowSucc(row[d], FailWrite(h)[d])
<1>1. handler[h].d \in Deliveries /\ handler[h].attempt \in Nat
  BY DEF TypeOK, Activation
<1>2. row[handler[h].d] \in Row /\ row[d] \in Row
  BY <1>1 DEF TypeOK
<1>3. row \in [Deliveries -> Row]
  BY DEF TypeOK
<1>4. QED
  BY <1>1, <1>2, <1>3, RowValuesSucc
     DEF BeginWrite, CompleteWrite, FailWrite, UpdateRow

(* Every step of the system changes every row in this way. *)
LEMMA RowSteps ==
  ASSUME TypeOK, [Next]_vars, NEW d \in Deliveries
  PROVE  RowSucc(row[d], row'[d])
<1>0. row[d] \in Row /\ RowSucc(row[d], row[d]) /\ row \in [Deliveries -> Row]
  BY DEF TypeOK, RowSucc
<1>1. ASSUME row' = row PROVE RowSucc(row[d], row'[d])
  BY <1>0, <1>1
<1>2. ASSUME NEW e \in Deliveries, Submit(e) PROVE RowSucc(row[d], row'[d])
  BY <1>0, <1>2 DEF Submit, RowSucc, Row
<1>3. ASSUME NEW e \in Deliveries, BecomesDue(e) PROVE RowSucc(row[d], row'[d])
  BY <1>0, <1>3 DEF BecomesDue, RowSucc, Row
<1>4. ASSUME NEW e \in Deliveries, LeaseExpires(e) PROVE RowSucc(row[d], row'[d])
  BY <1>0, <1>4 DEF LeaseExpires, RowSucc, Row
<1>5. ASSUME NEW e \in Deliveries, Purge(e) PROVE RowSucc(row[d], row'[d])
  BY <1>0, <1>5 DEF Purge, Purgeable, RowSucc, Row
<1>6. ASSUME NEW p \in Processes, Claim(p) PROVE RowSucc(row[d], row'[d])
  BY <1>0, <1>6, RowValuesSucc DEF Claim
<1>7. ASSUME NEW p \in Processes, PublishFails(p) PROVE RowSucc(row[d], row'[d])
  <2>1. PICK c \in claimed[p] :
          row' = IF row[c.d].state = "leased" /\ row[c.d].rowVersion = c.leaseVersion
                 THEN UpdateRow(c.d, ReleasedRow(row[c.d])) ELSE row
    BY <1>7 DEF PublishFails
  <2>2. c.d \in Deliveries
    BY DEF TypeOK
  <2>3. QED
    BY <1>0, <2>1, <2>2, RowValuesSucc DEF UpdateRow
<1>8. ASSUME NEW h \in Handlers, Begin(h) \/ Complete(h) \/ Fail(h) \/ QueryErrs(h)
      PROVE  RowSucc(row[d], row'[d])
  BY <1>0, <1>8, WritesSucc DEF Begin, Complete, Fail, QueryErrs, Ambiguous
<1>9. ASSUME NEW h \in Handlers, Renew(h) \/ RenewErrs(h)
      PROVE  RowSucc(row[d], row'[d])
  <2>1. handler[h].d \in Deliveries
    BY <1>9 DEF TypeOK, Renew, RenewErrs
  <2>2. row' = row \/ row' = [row EXCEPT ![handler[h].d].lease = "live"]
    BY <1>9 DEF Renew, RenewErrs
  <2>3. QED
    BY <1>0, <2>1, <2>2 DEF RowSucc, Row
<1>10. ASSUME NEW e \in Deliveries, JobStalls(e) PROVE row' = row
  BY <1>10 DEF JobStalls
<1>11. ASSUME NEW p \in Processes, Publish(p) \/ DispatchAborts(p) \/ Crash(p)
       PROVE  row' = row
  BY <1>11 DEF Publish, DispatchAborts, Crash
<1>12. ASSUME NEW h \in Handlers, NEW e \in Deliveries, TakeJob(h, e) PROVE row' = row
  BY <1>12 DEF TakeJob
<1>13. ASSUME NEW h \in Handlers, Load(h) \/ Execute(h) \/ ExecuteFails(h) \/ Return(h)
       PROVE  row' = row
  BY <1>13 DEF Load, Execute, ExecuteFails, Return
<1>14. ASSUME RedisLoss \/ UNCHANGED vars PROVE row' = row
  BY <1>14 DEF RedisLoss, vars
<1>15. QED
  BY <1>1, <1>2, <1>3, <1>4, <1>5, <1>6, <1>7, <1>8, <1>9, <1>10, <1>11, <1>12,
     <1>13, <1>14 DEF Next

-----------------------------------------------------------------------------
(* No lease version in circulation, in a dispatcher's batch, in a job or   *)
(* in an activation, is newer than the row.                                *)
Fence ==
  /\ \A p \in Processes : \A c \in claimed[p] : c.leaseVersion <= row[c.d].rowVersion
  /\ \A d \in Deliveries : jobs[d].leaseVersion <= row[d].rowVersion
  /\ \A h \in Handlers :
       handler[h].pc # "idle" => handler[h].version <= row[handler[h].d].rowVersion

(* No step lowers the version of a row. *)
LEMMA VersionsGrow ==
  ASSUME TypeOK, [Next]_vars, NEW d \in Deliveries, NEW v \in Nat,
         v <= row[d].rowVersion
  PROVE  v <= row'[d].rowVersion
<1>1. row[d].rowVersion \in Nat
  BY DEF TypeOK, Row
<1>2. RowSucc(row[d], row'[d])
  BY RowSteps
<1>3. QED
  BY <1>1, <1>2 DEF RowSucc

(* A batch never holds a lease version newer than its row. *)
LEMMA ClaimedFenced ==
  ASSUME TypeOK, Fence, [Next]_vars,
         NEW p \in Processes, NEW c \in claimed'[p]
  PROVE  c.leaseVersion <= row'[c.d].rowVersion
<1>1. CASE c \in claimed[p]
  BY <1>1, VersionsGrow DEF Fence, TypeOK
<1>2. ASSUME NEW q \in Processes, Claim(q), c \notin claimed[p]
      PROVE  c.leaseVersion <= row'[c.d].rowVersion
  <2>1. PICK S \in SUBSET {d \in Deliveries : Claimable(d)} :
          /\ row' = [d \in Deliveries |-> IF d \in S THEN LeasedRow(row[d]) ELSE row[d]]
          /\ claimed' = [claimed EXCEPT ![q] =
               {[d |-> d, leaseVersion |-> LeasedRow(row[d]).rowVersion] : d \in S}]
    BY <1>2 DEF Claim
  <2>2. PICK d \in S : c = [d |-> d, leaseVersion |-> LeasedRow(row[d]).rowVersion]
    BY <1>2, <2>1 DEF TypeOK
  <2>3. row'[d] = LeasedRow(row[d]) /\ row'[d].rowVersion \in Nat
    BY <2>1, <2>2, RowsTyped DEF TypeOK, Row
  <2>4. QED
    BY <2>2, <2>3
<1>3. ASSUME c \notin claimed[p] PROVE \E q \in Processes : Claim(q)
  <2>1. ASSUME NEW d \in Deliveries,
               Submit(d) \/ BecomesDue(d) \/ LeaseExpires(d) \/ JobStalls(d) \/ Purge(d)
        PROVE  FALSE
    BY <1>3, <2>1 DEF Submit, BecomesDue, LeaseExpires, JobStalls, Purge, Purgeable
  <2>2. ASSUME NEW q \in Processes,
               Publish(q) \/ PublishFails(q) \/ DispatchAborts(q) \/ Crash(q)
        PROVE  FALSE
    BY <1>3, <2>2 DEF Publish, PublishFails, DispatchAborts, Crash, TypeOK
  <2>3. ASSUME NEW h \in Handlers, NEW d \in Deliveries, TakeJob(h, d) PROVE FALSE
    BY <1>3, <2>3 DEF TakeJob
  <2>4. ASSUME NEW h \in Handlers,
               \/ Begin(h) \/ Load(h) \/ Renew(h) \/ RenewErrs(h) \/ Execute(h)
               \/ ExecuteFails(h) \/ Complete(h) \/ Fail(h) \/ QueryErrs(h) \/ Return(h)
        PROVE  FALSE
    BY <1>3, <2>4 DEF Begin, Load, Renew, RenewErrs, Execute, ExecuteFails, Complete,
                      Fail, QueryErrs, Return
  <2>5. ASSUME RedisLoss \/ UNCHANGED vars PROVE FALSE
    BY <1>3, <2>5 DEF RedisLoss, vars
  <2>6. QED
    BY <2>1, <2>2, <2>3, <2>4, <2>5 DEF Next
<1>4. QED
  BY <1>1, <1>2, <1>3

(* A queued job never carries a lease version newer than its row. *)
LEMMA JobsFenced ==
  ASSUME TypeOK, Fence, [Next]_vars, NEW d \in Deliveries
  PROVE  jobs'[d].leaseVersion <= row'[d].rowVersion
<1>0. jobs[d].leaseVersion \in Nat /\ jobs[d].leaseVersion <= row[d].rowVersion
  BY DEF Fence, TypeOK, Job
<1>1. ASSUME jobs'[d].leaseVersion = jobs[d].leaseVersion
      PROVE  jobs'[d].leaseVersion <= row'[d].rowVersion
  BY <1>0, <1>1, VersionsGrow
<1>2. ASSUME jobs'[d] = NoJob PROVE jobs'[d].leaseVersion <= row'[d].rowVersion
  <2>1. row'[d].rowVersion \in Nat
    BY RowSteps DEF RowSucc, TypeOK, Row
  <2>2. QED
    BY <1>2, <2>1 DEF NoJob
<1>3. ASSUME NEW p \in Processes, Publish(p) \/ PublishFails(p)
      PROVE  jobs'[d].leaseVersion <= row'[d].rowVersion
  <2>1. PICK c \in claimed[p] : jobs' \in {jobs, Added(c)}
    BY <1>3 DEF Publish, PublishFails
  <2>2. c.d \in Deliveries /\ c.leaseVersion \in Nat /\ c.leaseVersion <= row[c.d].rowVersion
    BY DEF TypeOK, Fence
  <2>3. \/ jobs'[d].leaseVersion = jobs[d].leaseVersion
        \/ d = c.d /\ jobs'[d].leaseVersion = c.leaseVersion
    <3>1. \/ jobs' = jobs
          \/ jobs' = [jobs EXCEPT ![c.d] =
                [state |-> "waiting", leaseVersion |-> c.leaseVersion, owner |-> None]]
      BY <2>1 DEF Added
    <3>2. jobs \in [Deliveries -> Job]
      BY DEF TypeOK
    <3>3. CASE d = c.d
      BY <2>2, <3>1, <3>2, <3>3
    <3>4. CASE d # c.d
      BY <2>2, <3>1, <3>2, <3>4
    <3>5. QED
      BY <3>3, <3>4
  <2>4. QED
    BY <1>1, <2>2, <2>3, VersionsGrow
<1>4. ASSUME NEW e \in Deliveries, JobStalls(e)
      PROVE  jobs'[d].leaseVersion = jobs[d].leaseVersion \/ jobs'[d] = NoJob
  BY <1>4 DEF JobStalls, TypeOK, Job
<1>5. ASSUME NEW h \in Handlers, NEW e \in Deliveries, TakeJob(h, e)
      PROVE  jobs'[d].leaseVersion = jobs[d].leaseVersion
  BY <1>5 DEF TakeJob, TypeOK, Job
<1>6. ASSUME NEW h \in Handlers, Return(h)
      PROVE  jobs'[d].leaseVersion = jobs[d].leaseVersion \/ jobs'[d] = NoJob
  BY <1>6 DEF Return, TypeOK
<1>7. ASSUME RedisLoss PROVE jobs'[d] = NoJob
  BY <1>7 DEF RedisLoss
<1>8. ASSUME NEW e \in Deliveries,
             Submit(e) \/ BecomesDue(e) \/ LeaseExpires(e) \/ Purge(e)
      PROVE  jobs' = jobs
  BY <1>8 DEF Submit, BecomesDue, LeaseExpires, Purge, Purgeable
<1>9. ASSUME NEW p \in Processes, Claim(p) \/ DispatchAborts(p) \/ Crash(p)
      PROVE  jobs' = jobs
  BY <1>9 DEF Claim, DispatchAborts, Crash
<1>10. ASSUME NEW h \in Handlers,
              \/ Begin(h) \/ Load(h) \/ Renew(h) \/ RenewErrs(h) \/ Execute(h)
              \/ ExecuteFails(h) \/ Complete(h) \/ Fail(h) \/ QueryErrs(h)
       PROVE  jobs' = jobs
  BY <1>10 DEF Begin, Load, Renew, RenewErrs, Execute, ExecuteFails, Complete, Fail, QueryErrs
<1>11. ASSUME UNCHANGED vars PROVE jobs' = jobs
  BY <1>11 DEF vars
<1>12. QED
  BY <1>1, <1>2, <1>3, <1>4, <1>5, <1>6, <1>7, <1>8, <1>9, <1>10, <1>11 DEF Next

(* How one step may change an activation: not at all (a renewal only marks *)
(* the lease as lost), back to idle, or by an action of its own.           *)
Same(h) ==
  /\ handler'[h].pc = handler[h].pc
  /\ handler'[h].d = handler[h].d
  /\ handler'[h].version = handler[h].version
  /\ handler'[h].attempt = handler[h].attempt

OwnStep(h) ==
  \/ \E d \in Deliveries : TakeJob(h, d)
  \/ Begin(h) \/ Load(h) \/ Execute(h) \/ ExecuteFails(h)
  \/ Complete(h) \/ Fail(h) \/ QueryErrs(h)

(* What one step can do to one activation: leave it, end it, or advance it *)
(* by an action of its own.                                                *)
LEMMA ActivationSteps ==
  ASSUME TypeOK, [Next]_vars, NEW h \in Handlers
  PROVE  Same(h) \/ handler'[h] = Idle \/ OwnStep(h)
<1>1. ASSUME handler' = handler PROVE Same(h)
  BY <1>1 DEF Same
<1>2. ASSUME NEW d \in Deliveries,
             Submit(d) \/ BecomesDue(d) \/ LeaseExpires(d) \/ JobStalls(d) \/ Purge(d)
      PROVE  handler' = handler
  BY <1>2 DEF Submit, BecomesDue, LeaseExpires, JobStalls, Purge, Purgeable
<1>3. ASSUME NEW p \in Processes,
             Claim(p) \/ Publish(p) \/ PublishFails(p) \/ DispatchAborts(p)
      PROVE  handler' = handler
  BY <1>3 DEF Claim, Publish, PublishFails, DispatchAborts
<1>4. ASSUME NEW p \in Processes, Crash(p) PROVE Same(h) \/ handler'[h] = Idle
  BY <1>4 DEF Crash, Same
<1>5. ASSUME NEW g \in Handlers, g # h,
             \/ \E d \in Deliveries : TakeJob(g, d)
             \/ Begin(g) \/ Load(g) \/ Renew(g) \/ RenewErrs(g) \/ Execute(g)
             \/ ExecuteFails(g) \/ Complete(g) \/ Fail(g) \/ QueryErrs(g) \/ Return(g)
      PROVE  handler'[h] = handler[h]
  BY <1>5 DEF TypeOK, TakeJob, Begin, Load, Renew, RenewErrs, Execute, ExecuteFails,
              Complete, Fail, QueryErrs, Return
<1>6. ASSUME Renew(h) \/ RenewErrs(h) PROVE Same(h)
  BY <1>6 DEF Renew, RenewErrs, Same, TypeOK, Activation
<1>7. ASSUME Return(h) PROVE handler'[h] = Idle
  BY <1>7 DEF Return, TypeOK
<1>8. ASSUME RedisLoss \/ UNCHANGED vars PROVE handler' = handler
  BY <1>8 DEF RedisLoss, vars
<1>9. ASSUME handler'[h] = handler[h] PROVE Same(h)
  BY <1>9 DEF Same
<1>10. QED
  BY <1>1, <1>2, <1>3, <1>4, <1>5, <1>6, <1>7, <1>8, <1>9 DEF Next, OwnStep

(* An activation never fences a write with a version its row has yet to    *)
(* reach.                                                                  *)
LEMMA ActivationsFenced ==
  ASSUME TypeOK, Fence, [Next]_vars, NEW h \in Handlers, handler'[h].pc # "idle"
  PROVE  handler'[h].version <= row'[handler'[h].d].rowVersion
<1>0. ASSUME handler[h].pc # "idle"
      PROVE  /\ handler[h].d \in Deliveries /\ handler[h].version \in Nat
             /\ handler[h].version <= row[handler[h].d].rowVersion
  BY <1>0 DEF TypeOK, Fence, Activation
<1>1. ASSUME handler[h].pc # "idle", handler'[h].d = handler[h].d,
             handler'[h].version = handler[h].version
      PROVE  handler'[h].version <= row'[handler'[h].d].rowVersion
  BY <1>0, <1>1, VersionsGrow
<1>2. ASSUME handler'[h] = Idle PROVE FALSE
  BY <1>2 DEF Idle
<1>3. ASSUME NEW d \in Deliveries, TakeJob(h, d)
      PROVE  handler'[h].version <= row'[handler'[h].d].rowVersion
  <2>1. handler'[h].d = d /\ handler'[h].version = jobs[d].leaseVersion
    BY <1>3 DEF TakeJob, TypeOK, Idle
  <2>2. jobs[d].leaseVersion \in Nat /\ jobs[d].leaseVersion <= row[d].rowVersion
    BY DEF Fence, TypeOK, Job
  <2>3. QED
    BY <2>1, <2>2, VersionsGrow
<1>4. ASSUME Begin(h)
      PROVE  handler'[h].version <= row'[handler'[h].d].rowVersion
  <2>1. handler[h].pc # "idle" /\ handler'[h].d = handler[h].d
    BY <1>4 DEF Begin, TypeOK, Activation
  <2>2. CASE row' = row
    <3>1. handler'[h].version = handler[h].version
      BY <1>4, <2>2 DEF Begin, TypeOK, Activation
    <3>2. QED
      BY <1>1, <2>1, <3>1
  <2>3. CASE row' # row
    <3>1. handler'[h].version = handler[h].version + 1
      BY <1>4, <2>3 DEF Begin, TypeOK, Activation
    <3>2. /\ Holds(h)
          /\ row' = UpdateRow(handler[h].d, BegunRow(row[handler[h].d]))
      BY <1>4, <2>3 DEF Begin, BeginWrite
    <3>3. row'[handler[h].d].rowVersion = handler[h].version + 1
      BY <1>0, <2>1, <3>2 DEF Holds, UpdateRow, BegunRow, TypeOK, Row
    <3>4. QED
      BY <1>0, <2>1, <3>1, <3>3
  <2>4. QED
    BY <2>2, <2>3
<1>5. ASSUME \/ Load(h) \/ Execute(h) \/ ExecuteFails(h) \/ Complete(h) \/ Fail(h)
             \/ QueryErrs(h)
      PROVE  /\ handler[h].pc # "idle"
             /\ handler'[h].d = handler[h].d
             /\ handler'[h].version = handler[h].version
  BY <1>5 DEF Load, Execute, ExecuteFails, Complete, Fail, QueryErrs, TypeOK, Activation
<1>6. QED
  BY <1>1, <1>2, <1>3, <1>4, <1>5, ActivationSteps DEF OwnStep, Same

(* No claimed batch, job or activation holds a row version from the future, *)
(* so a version that was used up never matches again.                      *)
THEOREM FenceCorrect == Spec => []Fence
<1>1. Init => Fence
  BY DEF Init, Fence, NoJob, Idle
<1>2. TypeOK /\ TypeOK' /\ Fence /\ [Next]_vars => Fence'
  BY ClaimedFenced, JobsFenced, ActivationsFenced DEF Fence
<1>3. QED
  BY <1>1, <1>2, TypeCorrect, PTL DEF Spec

-----------------------------------------------------------------------------
HoldingLabels == {"begun", "working", "effected", "failing"}

(* Who holds a delivery after a step held it before, under the same row    *)
(* version, or has just begun and thereby raised the version.              *)
LEMMA HolderSteps ==
  ASSUME TypeOK, Fence, [Next]_vars,
         NEW h \in Handlers, NEW d \in Deliveries, Holding(h, d)'
  PROVE  \/ Holding(h, d) /\ row'[d].rowVersion = row[d].rowVersion
         \/ Begin(h) /\ row'[d].rowVersion = row[d].rowVersion + 1
<1>0. /\ handler'[h].pc \in HoldingLabels /\ handler'[h].d = d
      /\ row'[d].state = "leased" /\ row'[d].rowVersion = handler'[h].version
  BY DEF Holding, Holds, HoldingLabels
<1>1. /\ row[d].rowVersion \in Nat /\ row[d].state \in RowStates
      /\ RowSucc(row[d], row'[d])
  BY RowSteps DEF TypeOK, Row
<1>2. ASSUME handler[h].pc \in HoldingLabels, handler[h].d = d,
             handler'[h].version = handler[h].version
      PROVE  Holding(h, d) /\ row'[d].rowVersion = row[d].rowVersion
  <2>1. handler[h].version \in Nat /\ handler[h].version <= row[d].rowVersion
    BY <1>2 DEF TypeOK, Activation, Fence, HoldingLabels
  <2>2. row'[d].rowVersion = row[d].rowVersion
    BY <1>0, <1>1, <1>2, <2>1 DEF RowSucc
  <2>3. row[d].state = "leased"
    BY <1>0, <1>1, <2>2 DEF RowSucc
  <2>4. QED
    BY <1>0, <1>2, <2>2, <2>3 DEF Holding, Holds, HoldingLabels
<1>3. ASSUME Same(h) PROVE Holding(h, d) /\ row'[d].rowVersion = row[d].rowVersion
  BY <1>0, <1>2, <1>3 DEF Same
<1>4. ASSUME handler'[h] = Idle PROVE FALSE
  BY <1>0, <1>4 DEF Idle, HoldingLabels
<1>5. ASSUME NEW e \in Deliveries, TakeJob(h, e) PROVE FALSE
  BY <1>0, <1>5 DEF TakeJob, Idle, HoldingLabels, TypeOK
<1>6. ASSUME Begin(h) PROVE Begin(h) /\ row'[d].rowVersion = row[d].rowVersion + 1
  <2>1. handler[h].d = d /\ row' # row
    BY <1>0, <1>6 DEF Begin, HoldingLabels, TypeOK, Activation
  <2>2. row' = UpdateRow(d, BegunRow(row[d]))
    BY <1>6, <2>1 DEF Begin, BeginWrite
  <2>3. QED
    BY <1>6, <2>2 DEF UpdateRow, BegunRow, TypeOK, Row
<1>7. ASSUME Load(h) \/ Execute(h) \/ ExecuteFails(h)
      PROVE  /\ handler[h].pc \in HoldingLabels /\ handler[h].d = d
             /\ handler'[h].version = handler[h].version
  BY <1>0, <1>7 DEF Load, Execute, ExecuteFails, HoldingLabels, TypeOK, Activation
<1>8. ASSUME Complete(h) \/ Fail(h) \/ QueryErrs(h)
      PROVE  /\ handler[h].pc \in HoldingLabels /\ handler[h].d = d
             /\ handler'[h].version = handler[h].version
  BY <1>0, <1>8 DEF Complete, Fail, QueryErrs, HoldingLabels, TypeOK, Activation
<1>9. QED
  BY <1>2, <1>3, <1>4, <1>5, <1>6, <1>7, <1>8, ActivationSteps DEF OwnStep

(* At most one activation can still settle or release a delivery, whatever *)
(* leases lapse and whatever jobs are redelivered.                         *)
THEOREM SingleHolderCorrect == Spec => []SingleHolder
<1>1. Init => SingleHolder
  BY DEF Init, SingleHolder, Holding, Idle
<1>2. TypeOK /\ Fence /\ SingleHolder /\ [Next]_vars => SingleHolder'
  <2> SUFFICES ASSUME TypeOK, Fence, SingleHolder, [Next]_vars,
                      NEW d \in Deliveries, NEW g \in Handlers, NEW h \in Handlers,
                      Holding(g, d)', Holding(h, d)', g # h
               PROVE  FALSE
    BY DEF SingleHolder
  <2>1. row[d].rowVersion \in Nat
    BY DEF TypeOK, Row
  <2>2. ASSUME Holding(g, d), Holding(h, d) PROVE FALSE
    BY <2>2 DEF SingleHolder
  <2>3. ASSUME Begin(g), Begin(h) PROVE FALSE
    BY <2>3 DEF Begin, TypeOK, Activation
  <2>4. QED
    BY <2>1, <2>2, <2>3, HolderSteps
<1>3. QED
  BY <1>1, <1>2, TypeCorrect, FenceCorrect, PTL DEF Spec

-----------------------------------------------------------------------------
(* The only writes that settle a delivery are those of its current holder. *)
Settles(h, d, pc) == handler[h].pc = pc /\ handler[h].d = d /\ Holds(h)

(* Which states the three fenced writes can leave a row in. *)
LEMMA WriteStates ==
  ASSUME TypeOK, NEW h \in Handlers, handler[h].pc # "idle", NEW d \in Deliveries
  PROVE  /\ BeginWrite(h)[d].state = row[d].state
         /\ \/ CompleteWrite(h)[d].state = row[d].state
            \/ handler[h].d = d /\ Holds(h) /\ CompleteWrite(h)[d].state = "completed"
         /\ \/ FailWrite(h)[d].state = row[d].state
            \/ FailWrite(h)[d].state = "pending"
            \/ /\ handler[h].d = d /\ Holds(h) /\ FailWrite(h)[d].state = "dead_letter"
               /\ handler[h].attempt >= MAX_ATTEMPTS
<1>1. handler[h].d \in Deliveries /\ handler[h].attempt \in Nat
  BY DEF TypeOK, Activation
<1>2. row[handler[h].d] \in Row /\ row[d] \in Row
  BY <1>1 DEF TypeOK
<1>3. row \in [Deliveries -> Row]
  BY DEF TypeOK
<1>4. BeginWrite(h)[d].state = row[d].state
  BY <1>1, <1>2, <1>3 DEF BeginWrite, UpdateRow, BegunRow, Row
<1>5. \/ CompleteWrite(h)[d].state = row[d].state
      \/ handler[h].d = d /\ Holds(h) /\ CompleteWrite(h)[d].state = "completed"
  BY <1>1, <1>2, <1>3 DEF CompleteWrite, UpdateRow, CompletedRow, Row
<1>6. \/ FailWrite(h)[d].state = row[d].state
      \/ FailWrite(h)[d].state = "pending"
      \/ /\ handler[h].d = d /\ Holds(h) /\ FailWrite(h)[d].state = "dead_letter"
         /\ handler[h].attempt >= MAX_ATTEMPTS
  BY <1>1, <1>2, <1>3 DEF FailWrite, UpdateRow, FailedRow, Row
<1>7. QED
  BY <1>4, <1>5, <1>6

LEMMA SettlingSteps ==
  ASSUME TypeOK, [Next]_vars, NEW d \in Deliveries
  PROVE  \/ row'[d].state = row[d].state
         \/ row'[d].state \in {"pending", "leased"}
         \/ row[d].state = "completed" /\ row'[d].state = "purged"
         \/ /\ row'[d].state = "completed"
            /\ \E h \in Handlers : Settles(h, d, "effected")
         \/ /\ row'[d].state = "dead_letter"
            /\ \E h \in Handlers : /\ Settles(h, d, "failing")
                                   /\ handler[h].attempt >= MAX_ATTEMPTS
<1>0. row[d] \in Row /\ row \in [Deliveries -> Row]
  BY DEF TypeOK
<1>1. ASSUME NEW e \in Deliveries, Submit(e) \/ BecomesDue(e) \/ LeaseExpires(e)
      PROVE  row'[d].state \in {row[d].state, "pending"}
  BY <1>0, <1>1 DEF Submit, BecomesDue, LeaseExpires, Row
<1>2. ASSUME NEW e \in Deliveries, Purge(e)
      PROVE  \/ row'[d].state = row[d].state
             \/ row[d].state = "completed" /\ row'[d].state = "purged"
  BY <1>0, <1>2 DEF Purge, Purgeable, Row
<1>3. ASSUME NEW p \in Processes, Claim(p)
      PROVE  row'[d].state \in {row[d].state, "leased"}
  <2>1. PICK S \in SUBSET {e \in Deliveries : Claimable(e)} :
          row' = [e \in Deliveries |-> IF e \in S THEN LeasedRow(row[e]) ELSE row[e]]
    BY <1>3 DEF Claim
  <2>2. LeasedRow(row[d]).state = "leased"
    BY <1>0 DEF LeasedRow, Row
  <2>3. QED
    BY <2>1, <2>2
<1>4. ASSUME NEW p \in Processes, PublishFails(p)
      PROVE  row'[d].state \in {row[d].state, "pending"}
  <2>1. PICK c \in claimed[p] :
          row' = IF row[c.d].state = "leased" /\ row[c.d].rowVersion = c.leaseVersion
                 THEN UpdateRow(c.d, ReleasedRow(row[c.d])) ELSE row
    BY <1>4 DEF PublishFails
  <2>2. c.d \in Deliveries
    BY DEF TypeOK
  <2>3. QED
    BY <1>0, <2>1, <2>2 DEF UpdateRow, ReleasedRow, TypeOK, Row
<1>5. ASSUME NEW h \in Handlers, Begin(h) PROVE row'[d].state = row[d].state
  BY <1>0, <1>5, WriteStates DEF Begin
<1>6. ASSUME NEW h \in Handlers, Complete(h)
      PROVE  \/ row'[d].state = row[d].state
             \/ row'[d].state = "completed" /\ Settles(h, d, "effected")
  BY <1>0, <1>6, WriteStates DEF Complete, Settles
<1>7. ASSUME NEW h \in Handlers, Fail(h)
      PROVE  \/ row'[d].state \in {row[d].state, "pending"}
             \/ /\ row'[d].state = "dead_letter" /\ Settles(h, d, "failing")
                /\ handler[h].attempt >= MAX_ATTEMPTS
  BY <1>0, <1>7, WriteStates DEF Fail, Settles
<1>8. ASSUME NEW h \in Handlers, QueryErrs(h)
      PROVE  \/ row'[d].state \in {row[d].state, "pending"}
             \/ row'[d].state = "completed" /\ Settles(h, d, "effected")
             \/ /\ row'[d].state = "dead_letter" /\ Settles(h, d, "failing")
                /\ handler[h].attempt >= MAX_ATTEMPTS
  BY <1>0, <1>8, WriteStates DEF QueryErrs, Ambiguous, Settles
<1>9. ASSUME NEW h \in Handlers, Renew(h) \/ RenewErrs(h)
      PROVE  row'[d].state = row[d].state
  <2>1. handler[h].d \in Deliveries
    BY <1>9 DEF TypeOK, Renew, RenewErrs
  <2>2. row' = row \/ row' = [row EXCEPT ![handler[h].d].lease = "live"]
    BY <1>9 DEF Renew, RenewErrs
  <2>3. QED
    BY <1>0, <2>1, <2>2 DEF Row
<1>10. ASSUME NEW e \in Deliveries, JobStalls(e) PROVE row' = row
  BY <1>10 DEF JobStalls
<1>11. ASSUME NEW p \in Processes, Publish(p) \/ DispatchAborts(p) \/ Crash(p)
       PROVE  row' = row
  BY <1>11 DEF Publish, DispatchAborts, Crash
<1>12. ASSUME NEW h \in Handlers, NEW e \in Deliveries, TakeJob(h, e) PROVE row' = row
  BY <1>12 DEF TakeJob
<1>13. ASSUME NEW h \in Handlers, Load(h) \/ Execute(h) \/ ExecuteFails(h) \/ Return(h)
       PROVE  row' = row
  BY <1>13 DEF Load, Execute, ExecuteFails, Return
<1>14. ASSUME RedisLoss \/ UNCHANGED vars PROVE row' = row
  BY <1>14 DEF RedisLoss, vars
<1>15. QED
  BY <1>1, <1>2, <1>3, <1>4, <1>5, <1>6, <1>7, <1>8, <1>9, <1>10, <1>11, <1>12,
     <1>13, <1>14 DEF Next

(* Executions are never undone, and only an activation's consumer adds     *)
(* one.                                                                    *)
LEMMA EffectSteps ==
  ASSUME TypeOK, [Next]_vars, NEW d \in Deliveries
  PROVE  \/ effects'[d] = effects[d]
         \/ /\ effects'[d] = effects[d] + 1
            /\ \E h \in Handlers : (Execute(h) \/ ExecuteFails(h)) /\ handler[h].d = d
<1>0. effects \in [Deliveries -> Nat]
  BY DEF TypeOK
<1>1. ASSUME NEW h \in Handlers, Execute(h) \/ ExecuteFails(h)
      PROVE  \/ effects'[d] = effects[d]
             \/ effects'[d] = effects[d] + 1 /\ handler[h].d = d
  BY <1>0, <1>1 DEF Execute, ExecuteFails
<1>2. ASSUME NEW e \in Deliveries,
             Submit(e) \/ BecomesDue(e) \/ LeaseExpires(e) \/ JobStalls(e) \/ Purge(e)
      PROVE  effects' = effects
  BY <1>2 DEF Submit, BecomesDue, LeaseExpires, JobStalls, Purge, Purgeable
<1>3. ASSUME NEW p \in Processes,
             Claim(p) \/ Publish(p) \/ PublishFails(p) \/ DispatchAborts(p) \/ Crash(p)
      PROVE  effects' = effects
  BY <1>3 DEF Claim, Publish, PublishFails, DispatchAborts, Crash
<1>4. ASSUME NEW h \in Handlers, NEW e \in Deliveries, TakeJob(h, e)
      PROVE  effects' = effects
  BY <1>4 DEF TakeJob
<1>5. ASSUME NEW h \in Handlers,
             \/ Begin(h) \/ Load(h) \/ Renew(h) \/ RenewErrs(h)
             \/ Complete(h) \/ Fail(h) \/ QueryErrs(h) \/ Return(h)
      PROVE  effects' = effects
  BY <1>5 DEF Begin, Load, Renew, RenewErrs, Complete, Fail, QueryErrs, Return
<1>6. ASSUME RedisLoss \/ UNCHANGED vars PROVE effects' = effects
  BY <1>6 DEF RedisLoss, vars
<1>7. QED
  BY <1>1, <1>2, <1>3, <1>4, <1>5, <1>6 DEF Next

(* Effects are counters that no step lowers. *)
LEMMA EffectsGrow ==
  ASSUME TypeOK, [Next]_vars, NEW d \in Deliveries
  PROVE  effects'[d] >= effects[d] /\ effects'[d] \in Nat /\ effects[d] \in Nat
<1>1. effects[d] \in Nat
  BY DEF TypeOK
<1>2. QED
  BY <1>1, EffectSteps

(* An activation about to record success has executed its consumer. *)
Effected ==
  \A h \in Handlers : handler[h].pc = "effected" => effects[handler[h].d] > 0

(* No event is lost: what is recorded as completed took effect. *)
THEOREM NoEventLost == Spec => [](Effected /\ CompletedHasEffect)
<1>1. Init => Effected /\ CompletedHasEffect
  BY DEF Init, Effected, CompletedHasEffect, Idle
<1>2. TypeOK /\ Effected /\ CompletedHasEffect /\ [Next]_vars
        => Effected' /\ CompletedHasEffect'
  <2> SUFFICES ASSUME TypeOK, Effected, CompletedHasEffect, [Next]_vars
               PROVE  Effected' /\ CompletedHasEffect'
    OBVIOUS
  <2>1. Effected'
    <3> SUFFICES ASSUME NEW h \in Handlers, handler'[h].pc = "effected"
                 PROVE  effects'[handler'[h].d] > 0
      BY DEF Effected
    <3>1. CASE Execute(h)
      BY <3>1 DEF Execute, TypeOK, Activation
    <3>2. ASSUME handler[h].pc = "effected", handler'[h].d = handler[h].d
          PROVE  effects'[handler'[h].d] > 0
      <4>1. handler[h].d \in Deliveries /\ effects[handler[h].d] > 0
        BY <3>2 DEF TypeOK, Effected
      <4>2. QED
        BY <3>2, <4>1, EffectsGrow
    <3>3. CASE Same(h)
      BY <3>2, <3>3 DEF Same
    <3>4. CASE handler'[h] = Idle
      BY <3>4 DEF Idle
    <3>5. ASSUME NEW d \in Deliveries, TakeJob(h, d) PROVE FALSE
      BY <3>5 DEF TakeJob, Idle, TypeOK
    <3>6. ASSUME \/ Begin(h) \/ Load(h) \/ ExecuteFails(h) \/ Complete(h) \/ Fail(h)
                 \/ QueryErrs(h)
          PROVE  FALSE
      BY <3>6 DEF Begin, Load, ExecuteFails, Complete, Fail, QueryErrs, TypeOK, Activation
    <3>7. QED
      BY <3>1, <3>3, <3>4, <3>5, <3>6, ActivationSteps DEF OwnStep
  <2>2. CompletedHasEffect'
    <3> SUFFICES ASSUME NEW d \in Deliveries, row'[d].state \in {"completed", "purged"}
                 PROVE  effects'[d] > 0
      BY DEF CompletedHasEffect
    <3>1. effects[d] > 0
      BY SettlingSteps DEF Settles, Effected, CompletedHasEffect
    <3>2. QED
      BY <3>1, EffectsGrow
  <2>3. QED
    BY <2>1, <2>2
<1>3. QED
  BY <1>1, <1>2, TypeCorrect, PTL DEF Spec

(* Dead letters have used up their attempts, and the count the catch block *)
(* decides on is the row's own.                                            *)
THEOREM DeadLetterCorrect == Spec => []DeadLetterExhausted
<1>1. Init => DeadLetterExhausted
  BY DEF Init, DeadLetterExhausted, Idle
<1>2. TypeOK /\ TypeOK' /\ Fence /\ DeadLetterExhausted /\ [Next]_vars => DeadLetterExhausted'
  <2> SUFFICES ASSUME TypeOK, TypeOK', Fence, DeadLetterExhausted, [Next]_vars
               PROVE  DeadLetterExhausted'
    OBVIOUS
  <2>1. ASSUME NEW d \in Deliveries, row'[d].state = "dead_letter"
        PROVE  row'[d].attemptCount >= MAX_ATTEMPTS
    <3>1. row[d].attemptCount >= MAX_ATTEMPTS
      BY <2>1, SettlingSteps DEF Settles, DeadLetterExhausted
    <3>2. row[d].attemptCount \in Nat /\ RowSucc(row[d], row'[d])
      BY RowSteps DEF TypeOK, Row
    <3>3. QED
      BY <3>1, <3>2, ConstantsOK DEF RowSucc
  <2>2. ASSUME NEW h \in Handlers, handler'[h].pc \in {"working", "effected", "failing"},
               NEW d \in Deliveries, handler'[h].d = d, Holds(h)'
        PROVE  handler'[h].attempt = row'[d].attemptCount
    <3>2. Holding(h, d)'
      BY <2>2 DEF Holding
    <3>3. ~Begin(h)
      BY <2>2 DEF Begin, TypeOK, Activation
    <3>4. Holding(h, d) /\ row'[d].rowVersion = row[d].rowVersion
      BY <3>2, <3>3, HolderSteps
    <3>5. row'[d].attemptCount = row[d].attemptCount
      <4>1. row[d].rowVersion \in Nat /\ RowSucc(row[d], row'[d])
        BY RowSteps DEF TypeOK, Row
      <4>2. QED
        BY <3>4, <4>1 DEF RowSucc
    <3>6. ASSUME handler'[h].attempt = handler[h].attempt,
                 handler[h].pc \in {"working", "effected", "failing"}
          PROVE  handler'[h].attempt = row'[d].attemptCount
      BY <3>4, <3>5, <3>6 DEF DeadLetterExhausted, Holding
    <3>7. CASE Same(h)
      BY <2>2, <3>6, <3>7 DEF Same
    <3>8. CASE handler'[h] = Idle
      BY <2>2, <3>8 DEF Idle
    <3>9. ASSUME NEW e \in Deliveries, TakeJob(h, e) PROVE FALSE
      BY <2>2, <3>9 DEF TakeJob, Idle, TypeOK
    <3>10. CASE Load(h)
      BY <2>2, <3>4, <3>5, <3>10 DEF Load, TypeOK, Activation
    <3>11. CASE Execute(h) \/ ExecuteFails(h) \/ Complete(h) \/ Fail(h) \/ QueryErrs(h)
      <4>1. /\ handler'[h].attempt = handler[h].attempt
            /\ handler[h].pc \in {"working", "effected", "failing"}
        BY <2>2, <3>11 DEF Execute, ExecuteFails, Complete, Fail, QueryErrs, TypeOK, Activation
      <4>2. QED
        BY <3>6, <4>1
    <3>12. QED
      BY <3>3, <3>7, <3>8, <3>9, <3>10, <3>11, ActivationSteps DEF OwnStep
  <2>3. \A h \in Handlers : handler'[h].pc # "idle" => handler'[h].d \in Deliveries
    BY DEF TypeOK
  <2>4. QED
    BY <2>1, <2>2, <2>3 DEF DeadLetterExhausted
<1>3. QED
  BY <1>1, <1>2, TypeCorrect, FenceCorrect, PTL DEF Spec

-----------------------------------------------------------------------------
(* The activations in flight for a delivery are finitely many. *)
LEMMA InFlightFinite ==
  ASSUME NEW d \in Deliveries
  PROVE  /\ IsFiniteSet(InFlight(d)) /\ IsFiniteSet(InFlight(d)')
         /\ Cardinality(InFlight(d)) \in Nat /\ Cardinality(InFlight(d)') \in Nat
<1>1. InFlight(d) \subseteq Handlers /\ InFlight(d)' \subseteq Handlers
  BY DEF InFlight
<1>2. QED
  BY <1>1, HandlersFinite, FS_Subset, FS_CardinalityType

(* Only a first write that matches puts an activation in flight. *)
LEMMA InFlightSteps ==
  ASSUME TypeOK, [Next]_vars, NEW d \in Deliveries, NEW h \in Handlers,
         h \in InFlight(d)', h \notin InFlight(d)
  PROVE  Begin(h) /\ handler[h].d = d /\ row' # row
<1>1. handler'[h].pc \in {"begun", "working"} /\ handler'[h].d = d
  BY DEF InFlight
<1>2. ~(handler[h].pc \in {"begun", "working"} /\ handler[h].d = d)
  BY DEF InFlight
<1>3. CASE Same(h)
  BY <1>1, <1>2, <1>3 DEF Same
<1>4. CASE handler'[h] = Idle
  BY <1>1, <1>4 DEF Idle
<1>5. ASSUME NEW e \in Deliveries, TakeJob(h, e) PROVE FALSE
  BY <1>1, <1>5 DEF TakeJob, Idle, TypeOK
<1>6. ASSUME Load(h) \/ Execute(h) \/ ExecuteFails(h) \/ Complete(h) \/ Fail(h) \/ QueryErrs(h)
      PROVE  FALSE
  BY <1>1, <1>2, <1>6 DEF Load, Execute, ExecuteFails, Complete, Fail, QueryErrs, TypeOK, Activation
<1>7. CASE Begin(h)
  BY <1>1, <1>7 DEF Begin, TypeOK, Activation
<1>8. QED
  BY <1>3, <1>4, <1>5, <1>6, <1>7, ActivationSteps DEF OwnStep

(* Every execution of a consumer, done or still possible, is paid for by   *)
(* an attempt that was counted beforehand.                                 *)
THEOREM EffectsAccounted == Spec => []EffectsWithinAttempts
<1>1. Init => EffectsWithinAttempts
  <2> SUFFICES ASSUME Init, NEW d \in Deliveries
               PROVE  effects[d] + Cardinality(InFlight(d)) <= row[d].attemptCount
    BY DEF EffectsWithinAttempts
  <2>1. InFlight(d) = {}
    BY DEF Init, InFlight, Idle
  <2>2. QED
    BY <2>1, FS_EmptySet DEF Init
<1>2. TypeOK /\ TypeOK' /\ EffectsWithinAttempts /\ [Next]_vars => EffectsWithinAttempts'
  <2> SUFFICES ASSUME TypeOK, TypeOK', EffectsWithinAttempts, [Next]_vars, NEW d \in Deliveries
               PROVE  effects'[d] + Cardinality(InFlight(d)') <= row'[d].attemptCount
    BY DEF EffectsWithinAttempts
  <2>0. /\ effects[d] + Cardinality(InFlight(d)) <= row[d].attemptCount
        /\ effects[d] \in Nat /\ effects'[d] \in Nat
        /\ row[d].attemptCount \in Nat /\ row'[d].attemptCount \in Nat
        /\ row'[d].attemptCount >= row[d].attemptCount
        /\ Cardinality(InFlight(d)) \in Nat /\ Cardinality(InFlight(d)') \in Nat
    BY InFlightFinite, EffectsGrow, RowSteps
       DEF EffectsWithinAttempts, TypeOK, Row, RowSucc
  <2>1. ASSUME NEW h \in Handlers, Begin(h), h \in InFlight(d)', h \notin InFlight(d)
        PROVE  effects'[d] + Cardinality(InFlight(d)') <= row'[d].attemptCount
    <3>1. handler[h].d = d /\ row' # row
      BY <2>1, InFlightSteps
    <3>2. row'[d].attemptCount = row[d].attemptCount + 1
      BY <2>1, <3>1 DEF Begin, BeginWrite, UpdateRow, BegunRow, TypeOK, Row
    <3>3. effects' = effects
      BY <2>1 DEF Begin
    <3>4. InFlight(d)' = InFlight(d) \cup {h}
      BY <2>1, <3>1 DEF Begin, InFlight, TypeOK, Activation
    <3>5. Cardinality(InFlight(d)') = Cardinality(InFlight(d)) + 1
      BY <2>1, <3>4, InFlightFinite, FS_AddElement
    <3>6. QED
      BY <2>0, <3>2, <3>3, <3>5
  <2>2. CASE InFlight(d)' \subseteq InFlight(d)
    <3>1. Cardinality(InFlight(d)') <= Cardinality(InFlight(d))
      BY <2>2, InFlightFinite, FS_Subset
    <3>2. CASE effects'[d] = effects[d]
      BY <2>0, <3>1, <3>2
    <3>3. ASSUME NEW h \in Handlers, Execute(h) \/ ExecuteFails(h), handler[h].d = d,
                 effects'[d] # effects[d]
          PROVE  effects'[d] + Cardinality(InFlight(d)') <= row'[d].attemptCount
      <4>1. effects'[d] = effects[d] + 1
        BY <3>3 DEF Execute, ExecuteFails, TypeOK
      <4>2. h \in InFlight(d) /\ h \notin InFlight(d)'
        BY <3>3 DEF Execute, ExecuteFails, InFlight, TypeOK, Activation
      <4>3. InFlight(d)' \subseteq InFlight(d) \ {h}
        BY <2>2, <4>2
      <4>4. /\ IsFiniteSet(InFlight(d) \ {h})
            /\ Cardinality(InFlight(d) \ {h}) = Cardinality(InFlight(d)) - 1
        BY <4>2, InFlightFinite, FS_RemoveElement
      <4>5. Cardinality(InFlight(d)') <= Cardinality(InFlight(d)) - 1
        BY <4>3, <4>4, FS_Subset
      <4>6. QED
        BY <2>0, <4>1, <4>5
    <3>4. ASSUME effects'[d] # effects[d]
          PROVE  \E h \in Handlers : (Execute(h) \/ ExecuteFails(h)) /\ handler[h].d = d
      BY <3>4, EffectSteps
    <3>5. QED
      BY <3>2, <3>3, <3>4
  <2>3. CASE ~(InFlight(d)' \subseteq InFlight(d))
    <3>1. PICK h \in Handlers : h \in InFlight(d)' /\ h \notin InFlight(d)
      BY <2>3 DEF InFlight
    <3>2. Begin(h)
      BY <3>1, InFlightSteps
    <3>3. QED
      BY <2>1, <3>1, <3>2
  <2>4. QED
    BY <2>2, <2>3
<1>3. QED
  BY <1>1, <1>2, TypeCorrect, PTL DEF Spec

-----------------------------------------------------------------------------
(* What one step may do to a row, as the promise sees it.                  *)
AbsSame(r, s) ==
  StatusOf(s.state) = StatusOf(r.state) /\ s.attemptCount = r.attemptCount

(* A step that leaves every row and the effects alone, as the promise sees *)
(* them, is a stuttering step of the promise.                              *)
LEMMA StutterMapped ==
  ASSUME \A e \in Deliveries : AbsSame(row[e], row'[e]), effects' = effects
  PROVE  UNCHANGED Promise!vars
BY DEF AbsSame, Promise!vars

(* The map applied to a step that changes the row of one delivery. *)
LEMMA OneRowMapped ==
  ASSUME NEW d \in Deliveries, \A e \in Deliveries \ {d} : row'[e] = row[e]
  PROVE  /\ [e \in Deliveries |-> StatusOf(row'[e].state)]
              = [[e \in Deliveries |-> StatusOf(row[e].state)]
                   EXCEPT ![d] = StatusOf(row'[d].state)]
         /\ [e \in Deliveries |-> row'[e].attemptCount]
              = [[e \in Deliveries |-> row[e].attemptCount]
                   EXCEPT ![d] = row'[d].attemptCount]
OBVIOUS

(* Committing an event is the promise's Submit. *)
LEMMA SubmitMapped ==
  ASSUME TypeOK, NEW d \in Deliveries, Submit(d)
  PROVE  Promise!Submit(d)
<1>1. /\ row[d].state = "absent" /\ row'[d].state = "pending"
      /\ row'[d].attemptCount = row[d].attemptCount
      /\ \A e \in Deliveries \ {d} : row'[e] = row[e]
      /\ effects' = effects
  BY DEF Submit, TypeOK, Row
<1>2. StatusOf(row[d].state) = "absent" /\ StatusOf(row'[d].state) = "owed"
  BY <1>1 DEF StatusOf
<1>3. [e \in Deliveries |-> row'[e].attemptCount] = [e \in Deliveries |-> row[e].attemptCount]
  BY <1>1
<1>4. QED
  BY <1>1, <1>2, <1>3, OneRowMapped DEF Promise!Submit

(* Retention is the promise's Forget. *)
LEMMA PurgeMapped ==
  ASSUME TypeOK, NEW d \in Deliveries, Purge(d)
  PROVE  Promise!Forget(d)
<1>1. /\ row[d].state = "completed" /\ row'[d].state = "purged"
      /\ row'[d].attemptCount = row[d].attemptCount
      /\ \A e \in Deliveries \ {d} : row'[e] = row[e]
      /\ effects' = effects
  BY DEF Purge, Purgeable, TypeOK, Row
<1>2. StatusOf(row[d].state) = "acknowledged" /\ StatusOf(row'[d].state) = "forgotten"
  BY <1>1 DEF StatusOf
<1>3. [e \in Deliveries |-> row'[e].attemptCount] = [e \in Deliveries |-> row[e].attemptCount]
  BY <1>1
<1>4. QED
  BY <1>1, <1>2, <1>3, OneRowMapped DEF Promise!Forget

(* A consumer taking effect is the promise's Execute: a try is still unused. *)
LEMMA ExecuteMapped ==
  ASSUME TypeOK, EffectsWithinAttempts, NEW h \in Handlers, handler[h].pc = "working",
         row' = row, effects' = [effects EXCEPT ![handler[h].d] = @ + 1]
  PROVE  Promise!Execute(handler[h].d)
<1>1. handler[h].d \in Deliveries
  BY DEF TypeOK
<1>2. h \in InFlight(handler[h].d)
  BY DEF InFlight
<1>3. Cardinality(InFlight(handler[h].d)) # 0
  BY <1>1, <1>2, InFlightFinite, FS_EmptySet
<1>4. effects[handler[h].d] < row[handler[h].d].attemptCount
  <2>1. /\ effects[handler[h].d] \in Nat /\ row[handler[h].d].attemptCount \in Nat
        /\ Cardinality(InFlight(handler[h].d)) \in Nat
    BY <1>1, InFlightFinite DEF TypeOK, Row
  <2>2. QED
    BY <1>1, <1>3, <2>1 DEF EffectsWithinAttempts
<1>5. QED
  BY <1>1, <1>4 DEF Promise!Execute

(* The three fenced writes of an activation, as steps of the promise. *)
LEMMA BeginMapped ==
  ASSUME TypeOK, NEW h \in Handlers, handler[h].pc # "idle",
         NEW d \in Deliveries, handler[h].d = d,
         row' = BeginWrite(h), effects' = effects
  PROVE  Promise!Try(d) \/ UNCHANGED Promise!vars
<1>1. row[d] \in Row /\ row \in [Deliveries -> Row]
  BY DEF TypeOK
<1>2. CASE row' = row
  BY <1>2, StutterMapped DEF AbsSame
<1>3. CASE row' # row
  <2>1. row[d].state = "leased" /\ row' = [row EXCEPT ![d] = BegunRow(row[d])]
    BY <1>3 DEF BeginWrite, Holds, UpdateRow
  <2>2. /\ row'[d].state = "leased"
        /\ row'[d].attemptCount = row[d].attemptCount + 1
        /\ \A e \in Deliveries \ {d} : row'[e] = row[e]
    BY <1>1, <2>1 DEF BegunRow, Row
  <2>3. StatusOf(row[d].state) = "owed" /\ StatusOf(row'[d].state) = "owed"
    BY <2>1, <2>2 DEF StatusOf
  <2>4. [e \in Deliveries |-> StatusOf(row'[e].state)] = [e \in Deliveries |-> StatusOf(row[e].state)]
    BY <2>2, <2>3
  <2>5. QED
    BY <1>1, <2>2, <2>3, <2>4, OneRowMapped DEF Promise!Try
<1>4. QED
  BY <1>2, <1>3

(* The completing write is the promise's Acknowledge, or no step of it. *)
LEMMA CompleteMapped ==
  ASSUME TypeOK, Effected, NEW h \in Handlers, handler[h].pc = "effected",
         row' = CompleteWrite(h), effects' = effects
  PROVE  Promise!Acknowledge(handler[h].d) \/ UNCHANGED Promise!vars
<1>1. handler[h].d \in Deliveries /\ row[handler[h].d] \in Row /\ row \in [Deliveries -> Row]
  BY DEF TypeOK
<1>2. CASE row' = row
  BY <1>2, StutterMapped DEF AbsSame
<1>3. CASE row' # row
  <2>1. /\ row[handler[h].d].state = "leased"
        /\ row' = [row EXCEPT ![handler[h].d] = CompletedRow(row[handler[h].d])]
    BY <1>3 DEF CompleteWrite, Holds, UpdateRow
  <2>2. /\ row'[handler[h].d].state = "completed"
        /\ row'[handler[h].d].attemptCount = row[handler[h].d].attemptCount
        /\ \A e \in Deliveries \ {handler[h].d} : row'[e] = row[e]
    BY <1>1, <2>1 DEF CompletedRow, Row
  <2>3. /\ StatusOf(row[handler[h].d].state) = "owed"
        /\ StatusOf(row'[handler[h].d].state) = "acknowledged"
    BY <2>1, <2>2 DEF StatusOf
  <2>4. [e \in Deliveries |-> row'[e].attemptCount] = [e \in Deliveries |-> row[e].attemptCount]
    BY <2>2
  <2>5. effects[handler[h].d] > 0
    BY DEF Effected
  <2>6. QED
    BY <1>1, <2>3, <2>2, <2>4, <2>5, OneRowMapped DEF Promise!Acknowledge
<1>4. QED
  BY <1>2, <1>3

(* The catch block's write is the promise's GiveUp, or no step of it. *)
LEMMA FailMapped ==
  ASSUME TypeOK, DeadLetterExhausted, NEW h \in Handlers, handler[h].pc = "failing",
         row' = FailWrite(h), effects' = effects
  PROVE  Promise!GiveUp(handler[h].d) \/ UNCHANGED Promise!vars
<1>1. handler[h].d \in Deliveries /\ row[handler[h].d] \in Row /\ row \in [Deliveries -> Row]
  BY DEF TypeOK
<1>2. CASE row' = row
  BY <1>2, StutterMapped DEF AbsSame
<1>3. CASE row' # row
  <2>1. /\ Holds(h) /\ row[handler[h].d].state = "leased"
        /\ row' = [row EXCEPT ![handler[h].d] = FailedRow(row[handler[h].d], handler[h].attempt)]
    BY <1>3 DEF FailWrite, Holds, UpdateRow
  <2>2. handler[h].attempt = row[handler[h].d].attemptCount
    BY <2>1 DEF DeadLetterExhausted
  <2>3. /\ row'[handler[h].d].state = IF handler[h].attempt >= MAX_ATTEMPTS
                                      THEN "dead_letter" ELSE "pending"
        /\ row'[handler[h].d].attemptCount = row[handler[h].d].attemptCount
        /\ \A e \in Deliveries \ {handler[h].d} : row'[e] = row[e]
    BY <1>1, <2>1 DEF FailedRow, Row
  <2>4. StatusOf(row[handler[h].d].state) = "owed"
    BY <2>1 DEF StatusOf
  <2>5. CASE handler[h].attempt >= MAX_ATTEMPTS
    <3>1. StatusOf(row'[handler[h].d].state) = "abandoned"
      BY <2>3, <2>5 DEF StatusOf
    <3>2. [e \in Deliveries |-> row'[e].attemptCount] = [e \in Deliveries |-> row[e].attemptCount]
      BY <2>3
    <3>3. QED
      BY <1>1, <2>2, <2>3, <2>4, <2>5, <3>1, <3>2, OneRowMapped DEF Promise!GiveUp
  <2>6. CASE ~(handler[h].attempt >= MAX_ATTEMPTS)
    <3>1. StatusOf(row'[handler[h].d].state) = "owed"
      BY <2>3, <2>6 DEF StatusOf
    <3>2. QED
      BY <2>3, <2>4, <3>1, StutterMapped DEF AbsSame
  <2>7. QED
    BY <2>5, <2>6
<1>4. QED
  BY <1>2, <1>3

(* Every step of the worker is a step of the promise or leaves it alone. *)
LEMMA NextMapped ==
  ASSUME TypeOK, Effected, DeadLetterExhausted, EffectsWithinAttempts, [Next]_vars
  PROVE  [Promise!Next]_(Promise!vars)
<1> USE DEF Promise!Next
<1>0. /\ row \in [Deliveries -> Row]
      /\ \A h \in Handlers : handler[h].pc # "idle" => handler[h].d \in Deliveries
  BY DEF TypeOK
<1>1. ASSUME NEW d \in Deliveries, Submit(d) PROVE Promise!Next
  BY <1>1, SubmitMapped
<1>2. ASSUME NEW d \in Deliveries, Purge(d) PROVE Promise!Next
  BY <1>2, PurgeMapped
<1>3. ASSUME NEW d \in Deliveries, BecomesDue(d) \/ LeaseExpires(d) \/ JobStalls(d)
      PROVE  UNCHANGED Promise!vars
  <2>1. \A e \in Deliveries : AbsSame(row[e], row'[e])
    BY <1>0, <1>3 DEF BecomesDue, LeaseExpires, JobStalls, AbsSame, Row
  <2>2. effects' = effects
    BY <1>3 DEF BecomesDue, LeaseExpires, JobStalls
  <2>3. QED
    BY <2>1, <2>2, StutterMapped
<1>4. ASSUME NEW p \in Processes, Claim(p) PROVE UNCHANGED Promise!vars
  <2>1. PICK S \in SUBSET {e \in Deliveries : Claimable(e)} :
          row' = [e \in Deliveries |-> IF e \in S THEN LeasedRow(row[e]) ELSE row[e]]
    BY <1>4 DEF Claim
  <2>2. ASSUME NEW e \in Deliveries PROVE AbsSame(row[e], row'[e])
    <3>1. CASE e \in S
      <4>1. row[e].state \in {"pending", "leased"}
        BY <3>1 DEF Claimable
      <4>2. row'[e].state = "leased" /\ row'[e].attemptCount = row[e].attemptCount
        BY <1>0, <2>1, <3>1 DEF LeasedRow, Row
      <4>3. QED
        BY <4>1, <4>2 DEF AbsSame, StatusOf
    <3>2. CASE e \notin S
      BY <2>1, <3>2 DEF AbsSame
    <3>3. QED
      BY <3>1, <3>2
  <2>3. effects' = effects
    BY <1>4 DEF Claim
  <2>4. QED
    BY <2>2, <2>3, StutterMapped
<1>5. ASSUME NEW p \in Processes, PublishFails(p) PROVE UNCHANGED Promise!vars
  <2>1. PICK c \in claimed[p] :
          row' = IF row[c.d].state = "leased" /\ row[c.d].rowVersion = c.leaseVersion
                 THEN UpdateRow(c.d, ReleasedRow(row[c.d])) ELSE row
    BY <1>5 DEF PublishFails
  <2>2. c.d \in Deliveries
    BY DEF TypeOK
  <2>3. CASE row' = row
    BY <1>5, <2>3, StutterMapped DEF PublishFails, AbsSame
  <2>4. CASE row' # row
    <3>1. row[c.d].state = "leased" /\ row' = [row EXCEPT ![c.d] = ReleasedRow(row[c.d])]
      BY <2>1, <2>4 DEF UpdateRow
    <3>2. /\ row'[c.d].state = "pending" /\ row'[c.d].attemptCount = row[c.d].attemptCount
          /\ \A e \in Deliveries \ {c.d} : row'[e] = row[e]
      BY <1>0, <2>2, <3>1 DEF ReleasedRow, Row
    <3>3. \A e \in Deliveries : AbsSame(row[e], row'[e])
      BY <3>1, <3>2 DEF AbsSame, StatusOf
    <3>4. QED
      BY <1>5, <3>3, StutterMapped DEF PublishFails
  <2>5. QED
    BY <2>3, <2>4
<1>6. ASSUME NEW p \in Processes, Publish(p) \/ DispatchAborts(p) \/ Crash(p)
      PROVE  UNCHANGED Promise!vars
  BY <1>6, StutterMapped DEF Publish, DispatchAborts, Crash, AbsSame
<1>7. ASSUME NEW h \in Handlers, NEW d \in Deliveries, TakeJob(h, d)
      PROVE  UNCHANGED Promise!vars
  BY <1>7, StutterMapped DEF TakeJob, AbsSame
<1>8. ASSUME NEW h \in Handlers, Load(h) \/ Return(h) PROVE UNCHANGED Promise!vars
  BY <1>8, StutterMapped DEF Load, Return, AbsSame
<1>9. ASSUME NEW h \in Handlers, Renew(h) \/ RenewErrs(h) PROVE UNCHANGED Promise!vars
  <2>1. handler[h].d \in Deliveries
    BY <1>9 DEF TypeOK, Renew, RenewErrs
  <2>2. row' = row \/ row' = [row EXCEPT ![handler[h].d].lease = "live"]
    BY <1>9 DEF Renew, RenewErrs
  <2>3. \A e \in Deliveries : AbsSame(row[e], row'[e])
    BY <1>0, <2>1, <2>2 DEF AbsSame, Row
  <2>4. effects' = effects
    BY <1>9 DEF Renew, RenewErrs
  <2>5. QED
    BY <2>3, <2>4, StutterMapped
<1>10. ASSUME NEW h \in Handlers, Execute(h) \/ ExecuteFails(h)
       PROVE  [Promise!Next]_(Promise!vars)
  <2>1. handler[h].pc = "working" /\ row' = row /\ handler[h].d \in Deliveries
    BY <1>0, <1>10 DEF Execute, ExecuteFails
  <2>2. CASE effects' = effects
    BY <2>1, <2>2, StutterMapped DEF AbsSame
  <2>3. CASE effects' = [effects EXCEPT ![handler[h].d] = @ + 1]
    BY <2>1, <2>3, ExecuteMapped
  <2>4. QED
    BY <1>10, <2>2, <2>3 DEF Execute, ExecuteFails
<1>11. ASSUME NEW h \in Handlers, Begin(h) PROVE [Promise!Next]_(Promise!vars)
  <2>1. /\ handler[h].pc # "idle" /\ handler[h].d \in Deliveries
        /\ row' = BeginWrite(h) /\ effects' = effects
    BY <1>0, <1>11 DEF Begin
  <2>2. PICK d \in Deliveries : handler[h].d = d
    BY <2>1
  <2>3. Promise!Try(d) \/ UNCHANGED Promise!vars
    BY <2>1, <2>2, BeginMapped
  <2>4. QED
    BY <2>3
<1>12. ASSUME NEW h \in Handlers, Complete(h) PROVE [Promise!Next]_(Promise!vars)
  <2>1. CASE row' = row
    BY <1>12, <2>1, StutterMapped DEF Complete, AbsSame
  <2>2. CASE row' # row
    BY <1>0, <1>12, <2>2, CompleteMapped DEF Complete
  <2>3. QED
    BY <2>1, <2>2
<1>13. ASSUME NEW h \in Handlers, Fail(h) PROVE [Promise!Next]_(Promise!vars)
  BY <1>0, <1>13, FailMapped DEF Fail
<1>14. ASSUME NEW h \in Handlers, QueryErrs(h) PROVE [Promise!Next]_(Promise!vars)
  <2>1. CASE row' = row
    BY <1>14, <2>1, StutterMapped DEF QueryErrs, AbsSame
  <2>2. CASE row' # row
    <3>1. handler[h].pc # "idle" /\ handler[h].d \in Deliveries /\ effects' = effects
      BY <1>0, <1>14 DEF QueryErrs
    <3>2. \/ row' = BeginWrite(h)
          \/ handler[h].pc = "effected" /\ row' = CompleteWrite(h)
          \/ handler[h].pc = "failing" /\ row' = FailWrite(h)
      BY <1>14, <2>2 DEF QueryErrs, Ambiguous
    <3>3. CASE row' = BeginWrite(h)
      <4>1. PICK d \in Deliveries : handler[h].d = d
        BY <3>1
      <4>2. Promise!Try(d) \/ UNCHANGED Promise!vars
        BY <3>1, <3>3, <4>1, BeginMapped
      <4>3. QED
        BY <4>2
    <3>4. CASE handler[h].pc = "effected" /\ row' = CompleteWrite(h)
      BY <3>1, <3>4, CompleteMapped
    <3>5. CASE handler[h].pc = "failing" /\ row' = FailWrite(h)
      BY <3>1, <3>5, FailMapped
    <3>6. QED
      BY <3>2, <3>3, <3>4, <3>5
  <2>3. QED
    BY <2>1, <2>2
<1>15. ASSUME RedisLoss \/ UNCHANGED vars PROVE UNCHANGED Promise!vars
  BY <1>15, StutterMapped DEF RedisLoss, vars, AbsSame
<1>16. QED
  BY <1>1, <1>2, <1>3, <1>4, <1>5, <1>6, <1>7, <1>8, <1>9, <1>10, <1>11, <1>12,
     <1>13, <1>14, <1>15 DEF Next

(* The worker implements the safety part of AtLeastOnceDelivery: nothing   *)
(* is acknowledged before it took effect, given up before MAX_ATTEMPTS     *)
(* tries, started after it was settled, or executed without a try.         *)
THEOREM ImplementsPromise == Spec => Promise!Safety
<1>1. Init => Promise!Init
  <2>1. ASSUME Init PROVE Promise!Init
    BY <2>1 DEF Init, Promise!Init, StatusOf
  <2>2. QED
    BY <2>1
<1>2. TypeOK /\ Effected /\ DeadLetterExhausted /\ EffectsWithinAttempts /\ [Next]_vars
        => [Promise!Next]_(Promise!vars)
  BY NextMapped
<1>3. QED
  BY <1>1, <1>2, TypeCorrect, NoEventLost, DeadLetterCorrect, EffectsAccounted, PTL
     DEF Spec, Promise!Safety

(* A success is recorded only after an effect, and a delivery is given up  *)
(* only when its attempts are used up.                                     *)
THEOREM OutcomesCorrect == Spec => []OutcomesJustified
<1>1. Effected /\ CompletedHasEffect /\ DeadLetterExhausted => OutcomesJustified
  BY DEF OutcomesJustified
<1> QED
  BY <1>1, NoEventLost, DeadLetterCorrect, PTL

(* A settled delivery stays settled. *)
THEOREM SettledForGood == Spec => SettledIsFinal
<1>1. ASSUME TypeOK, [Next]_vars, NEW d \in Deliveries
      PROVE  /\ row[d].state = "dead_letter" => row'[d] = row[d]
             /\ row[d].state = "completed" => row'[d].state \in {"completed", "purged"}
  <2>0. row[d] \in Row /\ row \in [Deliveries -> Row]
    BY <1>1 DEF TypeOK
  <2>1. ASSUME NEW h \in Handlers, handler[h].pc # "idle",
               row[d].state \in {"dead_letter", "completed"}
        PROVE  /\ BeginWrite(h)[d] = row[d]
               /\ CompleteWrite(h)[d] = row[d]
               /\ FailWrite(h)[d] = row[d]
    BY <2>0, <2>1 DEF BeginWrite, CompleteWrite, FailWrite, UpdateRow, Holds
  <2>2. ASSUME NEW e \in Deliveries, Submit(e) \/ BecomesDue(e) \/ LeaseExpires(e) \/ JobStalls(e),
               row[d].state \in {"dead_letter", "completed"}
        PROVE  row'[d] = row[d]
    BY <2>0, <2>2 DEF Submit, BecomesDue, LeaseExpires, JobStalls
  <2>3. ASSUME NEW e \in Deliveries, Purge(e)
        PROVE  /\ row[d].state = "dead_letter" => row'[d] = row[d]
               /\ row[d].state = "completed" => row'[d].state \in {"completed", "purged"}
    BY <2>0, <2>3 DEF Purge, Purgeable, Row
  <2>4. ASSUME NEW p \in Processes,
               Claim(p) \/ Publish(p) \/ DispatchAborts(p) \/ Crash(p),
               row[d].state \in {"dead_letter", "completed"}
        PROVE  row'[d] = row[d]
    BY <2>0, <2>4 DEF Claim, Publish, DispatchAborts, Crash, Claimable
  <2>5. ASSUME NEW p \in Processes, PublishFails(p),
               row[d].state \in {"dead_letter", "completed"}
        PROVE  row'[d] = row[d]
    BY <2>0, <2>5 DEF PublishFails, UpdateRow
  <2>6. ASSUME NEW h \in Handlers, NEW e \in Deliveries, TakeJob(h, e) PROVE row'[d] = row[d]
    BY <2>6 DEF TakeJob
  <2>7. ASSUME NEW h \in Handlers, Begin(h) \/ Complete(h) \/ Fail(h) \/ QueryErrs(h),
               row[d].state \in {"dead_letter", "completed"}
        PROVE  row'[d] = row[d]
    BY <2>1, <2>7 DEF Begin, Complete, Fail, QueryErrs, Ambiguous
  <2>8. ASSUME NEW h \in Handlers, Renew(h) \/ RenewErrs(h),
               row[d].state \in {"dead_letter", "completed"}
        PROVE  row'[d] = row[d]
    BY <2>0, <2>8 DEF Renew, RenewErrs, Holds
  <2>9. ASSUME NEW h \in Handlers, Load(h) \/ Execute(h) \/ ExecuteFails(h) \/ Return(h)
        PROVE  row'[d] = row[d]
    BY <2>9 DEF Load, Execute, ExecuteFails, Return
  <2>10. ASSUME RedisLoss \/ UNCHANGED vars PROVE row'[d] = row[d]
    BY <2>10 DEF RedisLoss, vars
  <2>11. QED
    BY <1>1, <2>2, <2>3, <2>4, <2>5, <2>6, <2>7, <2>8, <2>9, <2>10 DEF Next
<1>2. TypeOK /\ [Next]_vars
        => [\A d \in Deliveries :
              /\ row[d].state = "dead_letter" => row'[d] = row[d]
              /\ row[d].state = "completed" => row'[d].state \in {"completed", "purged"}]_vars
  BY <1>1
<1>3. QED
  BY <1>2, TypeCorrect, PTL DEF Spec, SettledIsFinal
=============================================================================
