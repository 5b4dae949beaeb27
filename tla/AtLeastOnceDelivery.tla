------------------------ MODULE AtLeastOnceDelivery ------------------------
(***************************************************************************)
(* What the transactional outbox promises to a business transaction that   *)
(* commits an event: the consumer is tried until the event is either       *)
(* acknowledged (never before some execution of the consumer took effect)  *)
(* or given up (never before MAX_ATTEMPTS tries).  A try executes the      *)
(* consumer at most once, but a try that was started before the event was  *)
(* settled may take effect afterwards: duplicates are allowed, unsolicited *)
(* executions are not.                                                     *)
(***************************************************************************)
EXTENDS Naturals

CONSTANTS Deliveries, MAX_ATTEMPTS

VARIABLES
  status,      \* what the system still owes for each delivery
  tries,       \* how often the consumer was started
  executions   \* how often the consumer took effect

vars == <<status, tries, executions>>

Init ==
  /\ status = [d \in Deliveries |-> "absent"]
  /\ tries = [d \in Deliveries |-> 0]
  /\ executions = [d \in Deliveries |-> 0]

(* A business transaction commits the event together with its state change. *)
Submit(d) ==
  /\ status[d] = "absent"
  /\ status' = [status EXCEPT ![d] = "owed"]
  /\ UNCHANGED <<tries, executions>>

(* The consumer is started; a settled delivery is never started again. *)
Try(d) ==
  /\ status[d] = "owed"
  /\ tries' = [tries EXCEPT ![d] = @ + 1]
  /\ UNCHANGED <<status, executions>>

(* A try takes effect, possibly after another try settled the delivery. *)
Execute(d) ==
  /\ executions[d] < tries[d]
  /\ executions' = [executions EXCEPT ![d] = @ + 1]
  /\ UNCHANGED <<status, tries>>

Acknowledge(d) ==
  /\ status[d] = "owed"
  /\ executions[d] > 0
  /\ status' = [status EXCEPT ![d] = "acknowledged"]
  /\ UNCHANGED <<tries, executions>>

GiveUp(d) ==
  /\ status[d] = "owed"
  /\ tries[d] >= MAX_ATTEMPTS
  /\ status' = [status EXCEPT ![d] = "abandoned"]
  /\ UNCHANGED <<tries, executions>>

(* Retention removes what was acknowledged; an abandoned event stays. *)
Forget(d) ==
  /\ status[d] = "acknowledged"
  /\ status' = [status EXCEPT ![d] = "forgotten"]
  /\ UNCHANGED <<tries, executions>>

Settle(d) == Acknowledge(d) \/ GiveUp(d)

Next ==
  \E d \in Deliveries :
    Submit(d) \/ Try(d) \/ Execute(d) \/ Acknowledge(d) \/ GiveUp(d) \/ Forget(d)

Safety == Init /\ [][Next]_vars

(* The liveness half of the promise: whatever is owed is settled. *)
Settled == \A d \in Deliveries : status[d] = "owed" ~> status[d] # "owed"

Spec == Safety /\ Settled
============================================================================
