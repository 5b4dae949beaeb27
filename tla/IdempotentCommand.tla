-------------------------- MODULE IdempotentCommand --------------------------
(***************************************************************************)
(* Commands under an Idempotency-Key, statement by statement.              *)
(*                                                                         *)
(* The repository has the protocol three times: runIdempotentCommand       *)
(* (profiles, notifications), reserveIdempotency of IdentityService and    *)
(* reserveIdempotency of FilesService.  A request first looks for a        *)
(* finished outcome outside any transaction; then, in one transaction, it  *)
(* deletes an expired record, inserts its own (ON CONFLICT DO NOTHING),    *)
(* looks again when that inserted nothing, runs the command and completes  *)
(* the record.  The copies differ in two ways, which are parameters: the   *)
(* clock the DELETE uses, and when a transaction takes the advisory lock   *)
(* of the account.                                                         *)
(*                                                                         *)
(* PostgreSQL is external and modelled at READ COMMITTED: a statement sees *)
(* what was committed when it runs, a DELETE waits for a transaction that  *)
(* has deleted the row, an INSERT waits for one that has inserted or       *)
(* deleted a row under its key.                                            *)
(***************************************************************************)
EXTENDS Naturals

CONSTANTS Requests,    \* HTTP requests, retries included, at any API instance
          Keys,        \* (actor, route, key), as in the unique index
          Bodies,      \* canonical request bodies
          LockFirst,   \* keys of routes that lock the account, then reserve
          LockLater,   \* keys of routes that reserve, then lock the account
          Stamped,     \* keys of routes whose DELETE compares with now() of SQL
          TTL,         \* IDEMPOTENCY_TTL_MS
          MaxTime,     \* bound: the clock stops there
          Traffic,     \* what the requests may ask, together
          None

ASSUME RoutesAssumption ==
  /\ LockFirst \subseteq Keys /\ LockLater \subseteq Keys /\ Stamped \subseteq Keys
  /\ LockFirst \cap LockLater = {}
ASSUME TimesAssumption == TTL \in Nat \ {0, 1} /\ MaxTime \in Nat
ASSUME TrafficAssumption == Traffic \subseteq [Requests -> [key : Keys, body : Bodies]]

VARIABLES now,         \* the clock
          record,      \* committed rows of platform.idempotency_records
          holder,      \* the transaction that holds the account's advisory lock
          executions,  \* history: the commands whose effects are committed
          sent,        \* what each request asks
          pc,          \* the step each request is at
          began,       \* now() of its transaction
          asOf,        \* the clock when its current statement was issued
          erasing,     \* requests that deleted an expired row, uncommitted
          until,       \* expires_at of the row it inserted
          since,       \* when that row went in
          answer       \* what the client is told

vars == <<now, record, holder, executions, sent, pc, began, asOf, erasing, until, since, answer>>

Row == [by : Requests, body : Bodies, state : {"in_progress", "completed"}, expiresAt : Nat]

ASSUME NoneAssumption == None \notin Row \cup Requests

Execution == [by : Requests, key : Keys, body : Bodies, at : Nat, until : Nat]

Steps == {"idle", "missed", "locking", "deleting", "inserting", "looking",
          "executing", "committing", "done"}

Kinds == {"none", "own", "replayed", "reused", "busy", "failed", "lost"}

InTransaction == Steps \ {"idle", "missed", "done"}

Init ==
  /\ now = 0
  /\ record = [k \in Keys |-> None]
  /\ holder = None
  /\ executions = {}
  /\ sent \in Traffic
  /\ pc = [q \in Requests |-> "idle"]
  /\ began = [q \in Requests |-> 0]
  /\ asOf = [q \in Requests |-> 0]
  /\ erasing = {}
  /\ until = [q \in Requests |-> 0]
  /\ since = [q \in Requests |-> 0]
  /\ answer = [q \in Requests |-> [kind |-> "none", of |-> None]]

KeyOf(q) == sent[q].key
Goto(q, step) == pc' = [pc EXCEPT ![q] = step]
Issue(q) == asOf' = [asOf EXCEPT ![q] = now]
Tell(q, kind, by) == answer' = [answer EXCEPT ![q] = [kind |-> kind, of |-> by]]

Live(k) == record[k] # None /\ record[k].expiresAt > now

(* Requests under key k whose row is inserted and not yet committed.       *)
Reserving(k) == {q \in Requests : KeyOf(q) = k /\ pc[q] \in {"executing", "committing"}}
Erasing(k) == {q \in erasing : KeyOf(q) = k}

-----------------------------------------------------------------------------
(* Slip: the request hash is not compared. *)
EvaluateAnyBody(q, row) ==
  IF row.state # "completed" THEN Tell(q, "busy", row.by) ELSE Tell(q, "replayed", row.by)

(* What a row that was found says of the request.                          *)
Evaluate(q, row) ==
  IF row.body # sent[q].body
  THEN Tell(q, "reused", row.by)
  ELSE IF row.state # "completed"
       THEN Tell(q, "busy", row.by)
       ELSE Tell(q, "replayed", row.by)

(* Slip: pg_advisory_lock in place of pg_advisory_xact_lock, unlocked at the end. *)
ReleasedByCommit(q) == IF holder = q /\ pc[q] = "committing" THEN None ELSE holder

Released(q) == IF holder = q THEN None ELSE holder

(* The request arrives and looks for an outcome outside any transaction.   *)
Lookup(q) ==
  /\ pc[q] = "idle"
  /\ \/ Live(KeyOf(q)) /\ Evaluate(q, record[KeyOf(q)]) /\ Goto(q, "done")
     \/ ~Live(KeyOf(q)) /\ Goto(q, "missed") /\ UNCHANGED answer
  /\ UNCHANGED <<now, record, holder, executions, sent, began, asOf, erasing, until, since>>

Begin(q) ==
  /\ pc[q] = "missed"
  /\ began' = [began EXCEPT ![q] = now]
  /\ Goto(q, IF KeyOf(q) \in LockFirst THEN "locking" ELSE "deleting")
  /\ Issue(q)
  /\ UNCHANGED <<now, record, holder, executions, sent, erasing, until, since, answer>>

LockAccount(q) ==
  /\ pc[q] = "locking"
  /\ holder = None
  /\ holder' = q
  /\ Goto(q, "deleting")
  /\ Issue(q)
  /\ UNCHANGED <<now, record, executions, sent, began, erasing, until, since, answer>>

Cutoff(q) == IF KeyOf(q) \in Stamped THEN began[q] ELSE asOf[q]

Outdated(q) == record[KeyOf(q)] # None /\ record[KeyOf(q)].expiresAt <= Cutoff(q)

DeleteExpired(q) ==
  /\ pc[q] = "deleting"
  /\ \/ Outdated(q) /\ Erasing(KeyOf(q)) = {} /\ erasing' = erasing \cup {q}
     \/ ~Outdated(q) /\ UNCHANGED erasing
  /\ Goto(q, "inserting")
  /\ Issue(q)
  /\ UNCHANGED <<now, record, holder, executions, sent, began, until, since, answer>>

(* Slip: without the unique index nothing makes the insert wait. *)
BlockedByNobody(q) == FALSE

Blocked(q) == Reserving(KeyOf(q)) # {} \/ Erasing(KeyOf(q)) \ {q} # {}

Expiry(q) == asOf[q] + TTL

InsertRow(q) ==
  /\ record[KeyOf(q)] = None \/ q \in erasing
  /\ until' = [until EXCEPT ![q] = Expiry(q)]
  /\ since' = [since EXCEPT ![q] = now]
  /\ Goto(q, "executing")

Conflict(q) ==
  /\ record[KeyOf(q)] # None /\ q \notin erasing
  /\ Goto(q, "looking")
  /\ UNCHANGED <<until, since>>

(* Slip: a lock_timeout of zero, taken for a conflict. *)
InsertAtOnce(q) ==
  /\ pc[q] = "inserting"
  /\ IF Blocked(q)
     THEN Goto(q, "looking") /\ UNCHANGED <<until, since>>
     ELSE InsertRow(q) \/ Conflict(q)
  /\ Issue(q)
  /\ UNCHANGED <<now, record, holder, executions, sent, began, erasing, answer>>

(* Slip: the reservation is written outside the transaction. *)
InsertCommitted(q) ==
  /\ pc[q] = "inserting"
  /\ ~Blocked(q)
  /\ \/ /\ InsertRow(q)
        /\ record' = [record EXCEPT ![KeyOf(q)] =
             [by |-> q, body |-> sent[q].body, state |-> "in_progress", expiresAt |-> Expiry(q)]]
     \/ Conflict(q) /\ UNCHANGED record
  /\ Issue(q)
  /\ UNCHANGED <<now, holder, executions, sent, began, erasing, answer>>

Insert(q) ==
  /\ pc[q] = "inserting"
  /\ ~Blocked(q)
  /\ InsertRow(q) \/ Conflict(q)
  /\ Issue(q)
  /\ UNCHANGED <<now, record, holder, executions, sent, began, erasing, answer>>

(* The transaction ends without a row of its own: as a rollback when the   *)
(* look-up throws, as a commit of nothing when it replays.                 *)
LookAgain(q) ==
  /\ pc[q] = "looking"
  /\ IF Live(KeyOf(q)) THEN Evaluate(q, record[KeyOf(q)]) ELSE Tell(q, "busy", None)
  /\ Goto(q, "done")
  /\ holder' = Released(q)
  /\ UNCHANGED <<now, record, executions, sent, began, asOf, erasing, until, since>>

(* The command, with the account's lock where its route takes it only now, *)
(* and the update that completes the record.                               *)
Execute(q) ==
  /\ pc[q] = "executing"
  /\ IF KeyOf(q) \in LockLater
     THEN holder = None /\ holder' = q
     ELSE UNCHANGED holder
  /\ Goto(q, "committing")
  /\ Issue(q)
  /\ UNCHANGED <<now, record, executions, sent, began, erasing, until, since, answer>>

Outcome(q) ==
  [by |-> q, body |-> sent[q].body, state |-> "completed", expiresAt |-> until[q]]

Executed(q) ==
  [by |-> q, key |-> KeyOf(q), body |-> sent[q].body, at |-> since[q], until |-> until[q]]

(* The commit; its answer may be lost on the way to the client.            *)
Commit(q) ==
  /\ pc[q] = "committing"
  /\ record' = [record EXCEPT ![KeyOf(q)] = Outcome(q)]
  /\ executions' = executions \cup {Executed(q)}
  /\ erasing' = erasing \ {q}
  /\ holder' = Released(q)
  /\ Tell(q, "own", q) \/ Tell(q, "lost", None)
  /\ Goto(q, "done")
  /\ UNCHANGED <<now, sent, began, asOf, until, since>>

(* A refused command, the rate limiter, the five seconds of a transaction, *)
(* a failed statement or the end of the process: everything is undone.     *)
Fail(q) ==
  /\ pc[q] \in InTransaction \cup {"missed"}
  /\ erasing' = erasing \ {q}
  /\ holder' = Released(q)
  /\ Tell(q, "failed", None)
  /\ Goto(q, "done")
  /\ UNCHANGED <<now, record, executions, sent, began, asOf, until, since>>

(* purgeMainRegistrationState deletes what has expired.                    *)
Purge(k) ==
  /\ record[k] # None /\ ~Live(k)
  /\ Erasing(k) = {}
  /\ record' = [record EXCEPT ![k] = None]
  /\ UNCHANGED <<now, holder, executions, sent, pc, began, asOf, erasing, until, since, answer>>

(* The unit of time is longer than a transaction may last (five seconds)   *)
(* and shorter than TTL (a day): a transaction sees it pass at most once.  *)
Tick ==
  /\ now < MaxTime
  /\ \A q \in Requests : pc[q] \in InTransaction => began[q] = now
  /\ now' = now + 1
  /\ UNCHANGED <<record, holder, executions, sent, pc, began, asOf, erasing, until, since, answer>>

-----------------------------------------------------------------------------
Advance(q) ==
  \/ Begin(q) \/ LockAccount(q) \/ DeleteExpired(q) \/ Insert(q)
  \/ LookAgain(q) \/ Execute(q) \/ Commit(q)

Next ==
  \/ \E q \in Requests : Lookup(q) \/ Advance(q) \/ Fail(q)
  \/ \E k \in Keys : Purge(k)
  \/ Tick

Spec == Init /\ [][Next]_vars

(* A request that has been taken up is worked on: the event loop and the   *)
(* database go on.  Requests need not arrive, fail, expire or be purged.   *)
FairSpec == Spec /\ \A q \in Requests : WF_vars(Advance(q))

-----------------------------------------------------------------------------
TypeOK ==
  /\ now \in Nat
  /\ record \in [Keys -> Row \cup {None}]
  /\ holder \in Requests \cup {None}
  /\ executions \subseteq Execution
  /\ sent \in [Requests -> [key : Keys, body : Bodies]]
  /\ pc \in [Requests -> Steps]
  /\ began \in [Requests -> Nat] /\ asOf \in [Requests -> Nat]
  /\ erasing \subseteq Requests
  /\ until \in [Requests -> Nat] /\ since \in [Requests -> Nat]
  /\ answer \in [Requests -> [kind : Kinds, of : Requests \cup {None}]]

(* A command takes effect once per key and day: of two executions under    *)
(* one key, one began after the outcome of the other had expired, however  *)
(* look-ups, inserts, deletes, purges and lost answers interleave.         *)
ExecutedOnce ==
  \A e1, e2 \in executions :
    e1.key = e2.key => e1 = e2 \/ e1.until <= e2.at \/ e2.until <= e1.at

(* A client that is told an outcome is told that of a committed execution  *)
(* of the very command it sent.                                            *)
AnswersAgree ==
  \A q \in Requests : answer[q].kind \in {"own", "replayed"} =>
    \E e \in executions :
      e.by = answer[q].of /\ e.key = KeyOf(q) /\ e.body = sent[q].body

(* A key is refused as reused only when another body was executed under    *)
(* it, and as busy only after an outcome of the key has expired: a request *)
(* that merely meets a running one waits for it, and is not refused.       *)
RefusalsJustified ==
  \A q \in Requests :
    /\ answer[q].kind = "reused" =>
         \E e \in executions : e.key = KeyOf(q) /\ e.body # sent[q].body
    /\ answer[q].kind = "busy" =>
         \E e \in executions : e.key = KeyOf(q) /\ e.until <= now

(* What is committed under a key is the outcome of a committed execution:  *)
(* a failed or crashed request leaves nothing that would block its retry.  *)
RemembersOutcomes ==
  \A k \in Keys : record[k] # None =>
    /\ record[k].state = "completed"
    /\ \E e \in executions :
         /\ e.key = k /\ e.by = record[k].by
         /\ e.body = record[k].body /\ e.until = record[k].expiresAt

(* One effect and one memory of it, for every key.                         *)
OneOutcome == ExecutedOnce /\ RemembersOutcomes

(* Whatever a client is told, something that happened is the reason.       *)
AnswersJustified == AnswersAgree /\ RefusalsJustified

(* No request waits for ever: the two orders in which routes take the      *)
(* account's lock and their record never form a cycle.                     *)
EveryRequestAnswered ==
  \A q \in Requests : pc[q] = "missed" ~> pc[q] = "done"
=============================================================================
