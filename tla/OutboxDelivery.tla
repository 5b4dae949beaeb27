--------------------------- MODULE OutboxDelivery ---------------------------
(***************************************************************************)
(* The transactional outbox worker, backend/src/worker/outbox-worker.      *)
(* service.ts: PostgreSQL rows of platform.outbox_deliveries are claimed   *)
(* under a lease, published to BullMQ under a job id derived from the      *)
(* event and its consumer, and executed by job handlers that fence every   *)
(* write with row_version.                                                 *)
(*                                                                         *)
(* One delivery stands for one (event, consumer) pair; every writer of the *)
(* table creates events whose consumers are independent rows.  Wall-clock  *)
(* times are abstracted to the two questions the code asks: is the lease   *)
(* still live (lease_until > now), and is the row due (available_at <=     *)
(* now).                                                                   *)
(***************************************************************************)
EXTENDS Naturals, FiniteSets

CONSTANTS
  Deliveries,    \* rows of platform.outbox_deliveries
  Processes,     \* worker processes, each with one dispatcher
  Handlers,      \* BullMQ job slots (concurrency: 5 per process)
  HostOf,        \* the process a job slot runs in
  MAX_ATTEMPTS,  \* failed attempts before a delivery is dead-lettered
  BatchLimit,    \* LIMIT of the claim query
  MaxFaults,     \* bound: infrastructure faults in one behaviour
  None           \* no delivery, no handler

ASSUME ConstantsOK ==
  /\ HostOf \in [Handlers -> Processes]
  /\ MAX_ATTEMPTS \in Nat \ {0}
  /\ BatchLimit \in Nat \ {0}
  /\ MaxFaults \in Nat
  /\ None \notin Deliveries \cup Handlers

ASSUME HandlersFinite == IsFiniteSet(Handlers)

VARIABLES
  row,      \* platform.outbox_deliveries
  jobs,     \* the BullMQ queue: at most one job per job id
  claimed,  \* per process: claimed rows the dispatcher has not published yet
  handler,  \* per job slot: the activation of #handle
  effects,  \* history: how often the consumer of a delivery took effect
  faults    \* faults taken so far

vars == <<row, jobs, claimed, handler, effects, faults>>

-----------------------------------------------------------------------------
RowStates == {"absent", "pending", "leased", "completed", "dead_letter", "purged"}

Row == [state: RowStates, rowVersion: Nat, attemptCount: Nat,
        lease: {"none", "live", "expired"}, available: {"now", "later"}]

(* A job carries the row version its lease was granted under. *)
Job == [state: {"none", "waiting", "active"}, leaseVersion: Nat,
        owner: Handlers \cup {None}]

NoJob == [state |-> "none", leaseVersion |-> 0, owner |-> None]

(* Labels of #handle.  version is the row version the activation fences    *)
(* its next write with: leaseVersion before its first write, then          *)
(* processingVersion.                                                      *)
HandlerLabels == {"idle", "taken", "begun", "working", "effected", "failing",
                  "returning"}

Activation == [pc: HandlerLabels, d: Deliveries \cup {None}, version: Nat,
               attempt: Nat, leaseLost: BOOLEAN]

Idle == [pc |-> "idle", d |-> None, version |-> 0, attempt |-> 0,
         leaseLost |-> FALSE]

TypeOK ==
  /\ row \in [Deliveries -> Row]
  /\ jobs \in [Deliveries -> Job]
  /\ claimed \in [Processes -> SUBSET [d: Deliveries, leaseVersion: Nat]]
  /\ handler \in [Handlers -> Activation]
  /\ \A h \in Handlers : handler[h].pc # "idle" => handler[h].d \in Deliveries
  /\ effects \in [Deliveries -> Nat]
  /\ faults \in 0 .. MaxFaults

Init ==
  /\ row = [d \in Deliveries |->
              [state |-> "absent", rowVersion |-> 0, attemptCount |-> 0,
               lease |-> "none", available |-> "now"]]
  /\ jobs = [d \in Deliveries |-> NoJob]
  /\ claimed = [p \in Processes |-> {}]
  /\ handler = [h \in Handlers |-> Idle]
  /\ effects = [d \in Deliveries |-> 0]
  /\ faults = 0

-----------------------------------------------------------------------------
(* An infrastructure fault: a crash, an unavailable Redis or PostgreSQL, a *)
(* stall longer than a lease.                                              *)
Fault ==
  /\ faults < MaxFaults
  /\ faults' = faults + 1

(* The outcomes of one updateMany statement: when it fails the client does *)
(* not learn whether the update was committed.                             *)
Ambiguous(after) == row' = row \/ row' = after

(* Slip: the claim query has no clause for lapsed leases. *)
ClaimablePending(d) == row[d].state = "pending" /\ row[d].available = "now"

(* The compare-and-set every write of #handle is fenced with. *)
Holds(h) ==
  LET r == row[handler[h].d]
  IN  r.state = "leased" /\ r.rowVersion = handler[h].version

Claimable(d) ==
  \/ row[d].state = "pending" /\ row[d].available = "now"
  \/ row[d].state = "leased" /\ row[d].lease = "expired"

(* Row values after each guarded update. *)
LeasedRow(r) ==
  [r EXCEPT !.state = "leased", !.lease = "live", !.rowVersion = @ + 1]

(* Slip: the first write starts an attempt without counting it. *)
BegunRowUncounted(r) == [r EXCEPT !.rowVersion = @ + 1]

ReleasedRow(r) ==
  [r EXCEPT !.state = "pending", !.lease = "none", !.available = "later",
            !.rowVersion = @ + 1]

BegunRow(r) == [r EXCEPT !.attemptCount = @ + 1, !.rowVersion = @ + 1]

(* Slip: the comparison with MAX_ATTEMPTS is one attempt early. *)
FailedRowEarly(r, attempt) ==
  [r EXCEPT !.state = IF attempt + 1 >= MAX_ATTEMPTS THEN "dead_letter" ELSE "pending",
            !.lease = "none", !.available = "later", !.rowVersion = @ + 1]

CompletedRow(r) ==
  [r EXCEPT !.state = "completed", !.lease = "none", !.rowVersion = @ + 1]

FailedRow(r, attempt) ==
  [r EXCEPT !.state = IF attempt >= MAX_ATTEMPTS THEN "dead_letter" ELSE "pending",
            !.lease = "none", !.available = "later", !.rowVersion = @ + 1]

UpdateRow(d, r) == [row EXCEPT ![d] = r]

(* A handler's write, applied only when its compare-and-set matches. *)
BeginWrite(h) ==
  IF Holds(h) /\ row[handler[h].d].lease = "live"
  THEN UpdateRow(handler[h].d, BegunRow(row[handler[h].d])) ELSE row

(* Slip: the catch block updates by id alone. *)
FailWriteUnfenced(h) ==
  UpdateRow(handler[h].d, FailedRow(row[handler[h].d], handler[h].attempt))

CompleteWrite(h) ==
  IF Holds(h)
  THEN UpdateRow(handler[h].d, CompletedRow(row[handler[h].d])) ELSE row

FailWrite(h) ==
  IF Holds(h)
  THEN UpdateRow(handler[h].d, FailedRow(row[handler[h].d], handler[h].attempt))
  ELSE row

-----------------------------------------------------------------------------
(* A business transaction inserts the event and its delivery. *)
Submit(d) ==
  /\ row[d].state = "absent"
  /\ row' = [row EXCEPT ![d].state = "pending"]
  /\ UNCHANGED <<jobs, claimed, handler, effects, faults>>

(* #dispatch, the claim query: any batch of claimable rows (SKIP LOCKED    *)
(* leaves out rows another transaction is writing).  The next poll starts  *)
(* only when the previous batch has been published.                        *)
Claim(p) ==
  /\ claimed[p] = {}
  /\ \E S \in SUBSET {d \in Deliveries : Claimable(d)} :
       /\ S # {} /\ Cardinality(S) <= BatchLimit
       /\ row' = [d \in Deliveries |-> IF d \in S THEN LeasedRow(row[d]) ELSE row[d]]
       /\ claimed' = [claimed EXCEPT ![p] =
            {[d |-> d, leaseVersion |-> LeasedRow(row[d]).rowVersion] : d \in S}]
  /\ UNCHANGED <<jobs, handler, effects, faults>>

(* queue.add: a no-op when a job with this id is still in the queue, even  *)
(* one that carries the version of an earlier lease.                       *)
Added(c) ==
  IF jobs[c.d].state # "none" THEN jobs
  ELSE [jobs EXCEPT ![c.d] = [state |-> "waiting", leaseVersion |-> c.leaseVersion,
                              owner |-> None]]

Publish(p) ==
  \E c \in claimed[p] :
    /\ jobs' = Added(c)
    /\ claimed' = [claimed EXCEPT ![p] = @ \ {c}]
    /\ UNCHANGED <<row, handler, effects, faults>>

(* queue.add rejects (the job may have reached Redis all the same) and the *)
(* dispatcher gives the lease back with a delay.                           *)
PublishFails(p) ==
  /\ Fault
  /\ \E c \in claimed[p] :
       /\ jobs' \in {jobs, Added(c)}
       /\ row' = IF row[c.d].state = "leased" /\ row[c.d].rowVersion = c.leaseVersion
                 THEN UpdateRow(c.d, ReleasedRow(row[c.d])) ELSE row
       /\ claimed' = [claimed EXCEPT ![p] = @ \ {c}]
  /\ UNCHANGED <<handler, effects>>

(* A query of #dispatch rejects: the rest of the batch is forgotten and    *)
(* its rows stay leased until their leases run out.                        *)
DispatchAborts(p) ==
  /\ Fault
  /\ claimed[p] # {}
  /\ claimed' = [claimed EXCEPT ![p] = {}]
  /\ UNCHANGED <<row, jobs, handler, effects>>

-----------------------------------------------------------------------------
(* The BullMQ worker hands a waiting job to a free slot. *)
TakeJob(h, d) ==
  /\ handler[h].pc = "idle"
  /\ jobs[d].state = "waiting"
  /\ jobs' = [jobs EXCEPT ![d].state = "active", ![d].owner = h]
  /\ handler' = [handler EXCEPT ![h] =
       [Idle EXCEPT !.pc = "taken", !.d = d, !.version = jobs[d].leaseVersion]]
  /\ UNCHANGED <<row, claimed, effects, faults>>

(* Slip: the first write leaves row_version alone, so that a redelivered   *)
(* job passes the same compare-and-set again.                              *)
BeginKeepsVersion(h) ==
  LET r == row[handler[h].d]
      matches == Holds(h) /\ r.lease = "live"
  IN  /\ handler[h].pc = "taken"
      /\ row' = IF matches THEN [row EXCEPT ![handler[h].d].attemptCount = @ + 1] ELSE row
      /\ handler' = [handler EXCEPT ![h].pc = IF matches THEN "begun" ELSE "returning"]
      /\ UNCHANGED <<jobs, claimed, effects, faults>>

(* The first write of #handle: the attempt counts only under a live lease  *)
(* of the version the job was published for.                               *)
Begin(h) ==
  /\ handler[h].pc = "taken"
  /\ row' = BeginWrite(h)
  /\ handler' = IF row' = row THEN [handler EXCEPT ![h].pc = "returning"]
                ELSE [handler EXCEPT ![h].pc = "begun", ![h].version = @ + 1]
  /\ UNCHANGED <<jobs, claimed, effects, faults>>

(* findUnique after the write: a separate statement, so the row may have   *)
(* moved on in between.                                                    *)
Load(h) ==
  LET r == row[handler[h].d]
  IN  /\ handler[h].pc = "begun"
      /\ handler' = IF r.state # "leased" THEN [handler EXCEPT ![h].pc = "returning"]
                    ELSE [handler EXCEPT ![h].pc = "working",
                                         ![h].attempt = r.attemptCount]
      /\ UNCHANGED <<row, jobs, claimed, effects, faults>>

(* The renewal timer: extends the lease the activation still holds, also   *)
(* one that had run out but was not reclaimed, and otherwise remembers     *)
(* that it was lost.                                                       *)
Renew(h) ==
  LET d == handler[h].d
  IN  /\ handler[h].pc \in {"working", "effected"}
      /\ IF Holds(h)
         THEN /\ row[d].lease = "expired"
              /\ row' = [row EXCEPT ![d].lease = "live"]
              /\ UNCHANGED handler
         ELSE /\ ~handler[h].leaseLost
              /\ handler' = [handler EXCEPT ![h].leaseLost = TRUE]
              /\ UNCHANGED row
      /\ UNCHANGED <<jobs, claimed, effects, faults>>

RenewErrs(h) ==
  /\ Fault
  /\ handler[h].pc \in {"working", "effected"}
  /\ ~handler[h].leaseLost
  /\ handler' = [handler EXCEPT ![h].leaseLost = TRUE]
  /\ \/ UNCHANGED row
     \/ Holds(h) /\ row' = [row EXCEPT ![handler[h].d].lease = "live"]
  /\ UNCHANGED <<jobs, claimed, effects>>

(* The consumer (an e-mail, the consent evidence, a moderation request or  *)
(* a notification) takes effect.                                           *)
Execute(h) ==
  /\ handler[h].pc = "working"
  /\ effects' = [effects EXCEPT ![handler[h].d] = @ + 1]
  /\ handler' = [handler EXCEPT ![h].pc = "effected"]
  /\ UNCHANGED <<row, jobs, claimed, faults>>

(* Slip: the error of the consumer is swallowed. *)
ExecuteFailsSwallowed(h) ==
  /\ handler[h].pc = "working"
  /\ handler' = [handler EXCEPT ![h].pc = "effected"]
  /\ UNCHANGED <<row, jobs, claimed, effects, faults>>

(* The consumer throws, before its effect or after it (a message the SMTP  *)
(* server accepted before the connection broke).                           *)
ExecuteFails(h) ==
  /\ handler[h].pc = "working"
  /\ \/ UNCHANGED effects
     \/ effects' = [effects EXCEPT ![handler[h].d] = @ + 1]
  /\ handler' = [handler EXCEPT ![h].pc = "failing"]
  /\ UNCHANGED <<row, jobs, claimed, faults>>

(* After the consumer: an activation whose renewal failed throws           *)
(* DELIVERY_LEASE_LOST, and so does one whose completing write misses.     *)
Complete(h) ==
  /\ handler[h].pc = "effected"
  /\ row' = IF handler[h].leaseLost THEN row ELSE CompleteWrite(h)
  /\ handler' = [handler EXCEPT ![h].pc = IF row' = row THEN "failing" ELSE "returning"]
  /\ UNCHANGED <<jobs, claimed, effects, faults>>

(* The catch block: back to pending with a delay, or dead letter. *)
Fail(h) ==
  /\ handler[h].pc = "failing"
  /\ row' = FailWrite(h)
  /\ handler' = [handler EXCEPT ![h].pc = "returning"]
  /\ UNCHANGED <<jobs, claimed, effects, faults>>

(* A statement of #handle rejects.  Inside the try block the error is      *)
(* caught; outside it the job fails and the row keeps its lease.           *)
QueryErrs(h) ==
  /\ Fault
  /\ \/ handler[h].pc = "taken" /\ Ambiguous(BeginWrite(h))
     \/ handler[h].pc = "begun" /\ row' = row
     \/ handler[h].pc = "effected" /\ ~handler[h].leaseLost /\ Ambiguous(CompleteWrite(h))
     \/ handler[h].pc = "failing" /\ Ambiguous(FailWrite(h))
  /\ handler' = [handler EXCEPT ![h].pc =
       IF handler[h].pc = "effected" THEN "failing" ELSE "returning"]
  /\ UNCHANGED <<jobs, claimed, effects>>

(* #handle has returned or thrown: BullMQ removes the job (removeOnComplete *)
(* and removeOnFail) unless this slot no longer owns it.                   *)
Return(h) ==
  LET d == handler[h].d
  IN  /\ handler[h].pc = "returning"
      /\ jobs' = IF jobs[d].state = "active" /\ jobs[d].owner = h
                 THEN [jobs EXCEPT ![d] = NoJob] ELSE jobs
      /\ handler' = [handler EXCEPT ![h] = Idle]
      /\ UNCHANGED <<row, claimed, effects, faults>>

-----------------------------------------------------------------------------
(* A worker process dies or is shut down; what it held in memory is gone.  *)
Crash(p) ==
  /\ Fault
  /\ claimed' = [claimed EXCEPT ![p] = {}]
  /\ handler' = [h \in Handlers |-> IF HostOf[h] = p THEN Idle ELSE handler[h]]
  /\ UNCHANGED <<row, jobs, effects>>

(* Redis loses the queue; PostgreSQL stays the source of truth. *)
RedisLoss ==
  /\ Fault
  /\ \E d \in Deliveries : jobs[d].state # "none"
  /\ jobs' = [d \in Deliveries |-> NoJob]
  /\ UNCHANGED <<row, claimed, handler, effects>>

OwnerRuns(d) == jobs[d].owner # None /\ handler[jobs[d].owner].d = d

(* BullMQ finds an active job whose lock was not renewed: it waits again   *)
(* or, stalled too often, is removed.  A fault when its owner still runs.  *)
JobStalls(d) ==
  /\ jobs[d].state = "active"
  /\ IF OwnerRuns(d) THEN Fault ELSE UNCHANGED faults
  /\ \/ jobs' = [jobs EXCEPT ![d].state = "waiting", ![d].owner = None]
     \/ jobs' = [jobs EXCEPT ![d] = NoJob]
  /\ UNCHANGED <<row, claimed, handler, effects>>

(* Somebody is still going to use the current lease of d, or a job blocks  *)
(* its job id.                                                             *)
Pursued(d) ==
  \/ jobs[d].state # "none"
  \/ \E p \in Processes : [d |-> d, leaseVersion |-> row[d].rowVersion] \in claimed[p]
  \/ \E h \in Handlers : handler[h].d = d /\ handler[h].pc # "returning"
                         /\ handler[h].version = row[d].rowVersion

(* lease_until passes.  For a lease nobody pursues that is the ordinary    *)
(* recovery; for a pursued one it takes a delay of the order of LEASE_MS.  *)
LeaseExpires(d) ==
  /\ row[d].state = "leased" /\ row[d].lease = "live"
  /\ IF Pursued(d) THEN Fault ELSE UNCHANGED faults
  /\ row' = [row EXCEPT ![d].lease = "expired"]
  /\ UNCHANGED <<jobs, claimed, handler, effects>>

(* available_at passes. *)
BecomesDue(d) ==
  /\ row[d].state = "pending" /\ row[d].available = "later"
  /\ row' = [row EXCEPT ![d].available = "now"]
  /\ UNCHANGED <<jobs, claimed, handler, effects, faults>>

(* Slip: retention overlooks deliveries that are not completed. *)
PurgeableSettled(d) == row[d].state \in {"completed", "dead_letter"}

(* purgeMainRegistrationState: 30 days on, when all deliveries completed. *)
Purgeable(d) == row[d].state = "completed"

(* #cleanupIfDue, once an hour; a purge that fails is tried an hour later. *)
Purge(d) ==
  /\ Purgeable(d)
  /\ row' = [row EXCEPT ![d].state = "purged"]
  /\ UNCHANGED <<jobs, claimed, handler, effects, faults>>

-----------------------------------------------------------------------------
Dispatcher(p) == Claim(p) \/ Publish(p)

Handle(h) ==
  \/ \E d \in Deliveries : TakeJob(h, d)
  \/ Begin(h) \/ Load(h) \/ Execute(h) \/ ExecuteFails(h)
  \/ Complete(h) \/ Fail(h) \/ Return(h)

Next ==
  \/ \E d \in Deliveries : Submit(d) \/ BecomesDue(d) \/ LeaseExpires(d)
                           \/ JobStalls(d) \/ Purge(d)
  \/ \E p \in Processes : Claim(p) \/ Publish(p) \/ PublishFails(p)
                          \/ DispatchAborts(p) \/ Crash(p)
  \/ \E h \in Handlers, d \in Deliveries : TakeJob(h, d)
  \/ \E h \in Handlers : Begin(h) \/ Load(h) \/ Renew(h) \/ RenewErrs(h)
                         \/ Execute(h) \/ ExecuteFails(h) \/ Complete(h)
                         \/ Fail(h) \/ QueryErrs(h) \/ Return(h)
  \/ RedisLoss

Spec == Init /\ [][Next]_vars

(* The dispatcher polls on a timer, BullMQ keeps its slots busy and checks *)
(* for stalled jobs, consumers return (SMTP, HTTP and database clients     *)
(* have timeouts), and time passes.  Faults are never obliged to happen.   *)
Fairness ==
  /\ \A p \in Processes : WF_vars(Dispatcher(p))
  /\ \A h \in Handlers : WF_vars(Handle(h))
  /\ \A d \in Deliveries : /\ WF_vars(BecomesDue(d))
                           /\ WF_vars(LeaseExpires(d) /\ UNCHANGED faults)
                           /\ WF_vars(JobStalls(d) /\ UNCHANGED faults)

FairSpec == Spec /\ Fairness

-----------------------------------------------------------------------------
(* A delivery recorded as completed had its consumer take effect, through  *)
(* every crash, lost lease, ambiguous commit and retry: no event is lost.  *)
CompletedHasEffect ==
  \A d \in Deliveries : row[d].state \in {"completed", "purged"} => effects[d] > 0

(* Activations that may still execute the consumer of d. *)
InFlight(d) == {h \in Handlers : handler[h].d = d /\ handler[h].pc \in {"begun", "working"}}

(* Every execution, past or still possible, is paid for by a counted       *)
(* attempt: a job that is redelivered, duplicated or stale cannot run the  *)
(* consumer off the books, so attempt_count bounds the duplicates a        *)
(* recipient can see.                                                      *)
EffectsWithinAttempts ==
  \A d \in Deliveries :
    effects[d] + Cardinality(InFlight(d)) <= row[d].attemptCount

(* An activation that has begun and whose writes still match the row. *)
Holding(h, d) ==
  /\ handler[h].pc \in {"begun", "working", "effected", "failing"}
  /\ handler[h].d = d
  /\ Holds(h)

(* However leases lapse and jobs are redelivered, at most one activation   *)
(* can still settle or release a delivery.                                 *)
SingleHolder ==
  \A d \in Deliveries : \A g, h \in Handlers :
    Holding(g, d) /\ Holding(h, d) => g = h

(* The decision in the catch block rests on the attempt the row has now,   *)
(* not on a stale count: a dead letter has used up its attempts, and an    *)
(* activation that can still write knows the exact count.                  *)
DeadLetterExhausted ==
  /\ \A d \in Deliveries : row[d].state = "dead_letter" => row[d].attemptCount >= MAX_ATTEMPTS
  /\ \A h \in Handlers :
       handler[h].pc \in {"working", "effected", "failing"} /\ Holds(h)
         => handler[h].attempt = row[handler[h].d].attemptCount

(* What the row says of a delivery's end was earned. *)
OutcomesJustified == CompletedHasEffect /\ DeadLetterExhausted

(* A settled delivery is never claimed, retried or settled otherwise, no   *)
(* matter which stale activation, dispatcher or job is still around.       *)
SettledIsFinal ==
  [][\A d \in Deliveries :
       /\ row[d].state = "dead_letter" => row'[d] = row[d]
       /\ row[d].state = "completed" => row'[d].state \in {"completed", "purged"}]_vars

(* The worker implements the promise of AtLeastOnceDelivery, its liveness  *)
(* included: once the faults cease no interleaving of lapsed leases,       *)
(* deduplicated jobs and forgotten batches leaves a row leased for ever.   *)
StatusOf(s) ==
  CASE s = "absent" -> "absent"
    [] s \in {"pending", "leased"} -> "owed"
    [] s = "completed" -> "acknowledged"
    [] s = "dead_letter" -> "abandoned"
    [] s = "purged" -> "forgotten"

Promise == INSTANCE AtLeastOnceDelivery WITH
  status <- [d \in Deliveries |-> StatusOf(row[d].state)],
  tries <- [d \in Deliveries |-> row[d].attemptCount],
  executions <- effects

KeepsPromise == Promise!Spec

=============================================================================
