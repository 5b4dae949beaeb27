------------------------- MODULE ResultNotification -------------------------
(***************************************************************************)
(* How an owner learns what moderation decided.                            *)
(*                                                                         *)
(*  - backend/src/modules/notifications/application/notifications.         *)
(*    service.ts: the consumer of decided events writes a notification and *)
(*    an e-mail delivery; the owner marks notifications as read.           *)
(*  - backend/src/worker/email-delivery-worker.service.ts: the senders,    *)
(*    which claim a delivery under a lease of 30 seconds that nothing      *)
(*    renews while the SMTP server takes its time.                         *)
(*                                                                         *)
(* The decided event travels through the outbox, used here by its promise  *)
(* AtLeastOnceDelivery; the letters keep the same promise one level up.    *)
(* The address of the recipient is always there: no code leaves "active".  *)
(***************************************************************************)
EXTENDS Naturals, FiniteSets

CONSTANTS
  Results,        \* decided events, one notification and one letter each
  Senders,        \* e-mail workers, one poll loop each
  Readers,        \* PATCH requests of the recipients
  MAX_ATTEMPTS,   \* failed attempts before a letter is dead-lettered
  EventAttempts,  \* attempts the outbox makes before it gives an event up
  MaxTries,       \* bound: attempts of the outbox at one event
  MaxFaults,      \* bound: infrastructure faults in one behaviour
  None            \* no result

ASSUME NotificationConstants ==
  /\ MAX_ATTEMPTS \in Nat \ {0}
  /\ EventAttempts \in Nat \ {0}
  /\ MaxTries \in Nat /\ MaxTries >= EventAttempts
  /\ MaxFaults \in Nat
  /\ None \notin Results
  /\ IsFiniteSet(Senders)

VARIABLES
  eventStatus, eventTries, eventExecutions, \* the decided events' outbox
  notification, \* notifications.notifications, by source event
  email,        \* notifications.email_deliveries, by source event
  sender,       \* per sender: the delivery it works on
  reader,       \* per request: the notification it marks as read
  letters,      \* history: how often the SMTP server accepted the letter
  faults        \* faults taken so far

events == <<eventStatus, eventTries, eventExecutions>>
vars == <<events, notification, email, sender, reader, letters, faults>>

-----------------------------------------------------------------------------
Notification == [state: {"absent", "unread", "read"}, rowVersion: Nat]

Email == [state: {"absent", "pending", "sending", "sent", "failed", "dead_letter"},
          rowVersion: Nat, attemptCount: Nat,
          lease: {"none", "live", "expired"}, available: {"now", "later"}]

(* The labels of poll and the values ClaimedEmailDelivery carries. *)
Sender == [pc: {"idle", "selected", "claimed", "sending", "sent", "failing"},
           r: Results \cup {None}, rowVersion: Nat, attemptCount: Nat]

NotSending == [pc |-> "idle", r |-> None, rowVersion |-> 0, attemptCount |-> 0]

Reader == [pc: {"idle", "marking"}, r: Results \cup {None}, expectedVersion: Nat]

NotReading == [pc |-> "idle", r |-> None, expectedVersion |-> 0]

Outbox == INSTANCE AtLeastOnceDelivery WITH
  Deliveries <- Results, MAX_ATTEMPTS <- EventAttempts, status <- eventStatus,
  tries <- eventTries, executions <- eventExecutions

TypeOK ==
  /\ eventStatus \in [Results -> {"absent", "owed", "acknowledged", "abandoned", "forgotten"}]
  /\ eventTries \in [Results -> Nat]
  /\ eventExecutions \in [Results -> Nat]
  /\ notification \in [Results -> Notification]
  /\ email \in [Results -> Email]
  /\ sender \in [Senders -> Sender]
  /\ \A s \in Senders : sender[s].pc # "idle" => sender[s].r \in Results
  /\ reader \in [Readers -> Reader]
  /\ \A c \in Readers : reader[c].pc # "idle" => reader[c].r \in Results
  /\ letters \in [Results -> Nat]
  /\ faults \in 0 .. MaxFaults

Init ==
  /\ Outbox!Init
  /\ notification = [r \in Results |-> [state |-> "absent", rowVersion |-> 1]]
  /\ email = [r \in Results |-> [state |-> "absent", rowVersion |-> 0, attemptCount |-> 0,
                                 lease |-> "none", available |-> "now"]]
  /\ sender = [s \in Senders |-> NotSending]
  /\ reader = [c \in Readers |-> NotReading]
  /\ letters = [r \in Results |-> 0]
  /\ faults = 0

-----------------------------------------------------------------------------
Fault ==
  /\ faults < MaxFaults
  /\ faults' = faults + 1

(* The decision is committed together with its event. *)
Decide(r) ==
  /\ Outbox!Submit(r)
  /\ UNCHANGED <<notification, email, sender, reader, letters, faults>>

(* Slip: the e-mail delivery is written outside the transaction. *)
ConsumeWithoutEmail(r) ==
  /\ Outbox!Execute(r)
  /\ notification' = IF notification[r].state = "absent"
                     THEN [notification EXCEPT ![r].state = "unread"] ELSE notification
  /\ email' \in {email, IF email[r].state = "absent"
                        THEN [email EXCEPT ![r].state = "pending"] ELSE email}
  /\ UNCHANGED <<sender, reader, letters, faults>>

(* consumeModerationResult: the inbox row makes a repeated event a no-op. *)
ConsumeModerationResult(r) ==
  /\ Outbox!Execute(r)
  /\ IF notification[r].state = "absent"
     THEN /\ notification' = [notification EXCEPT ![r].state = "unread"]
          /\ email' = [email EXCEPT ![r].state = "pending"]
     ELSE UNCHANGED <<notification, email>>
  /\ UNCHANGED <<sender, reader, letters, faults>>

OutboxTries(r) ==
  /\ eventTries[r] < MaxTries
  /\ Outbox!Try(r)
  /\ UNCHANGED <<notification, email, sender, reader, letters, faults>>

OutboxSettles(r) ==
  /\ Outbox!Settle(r)
  /\ UNCHANGED <<notification, email, sender, reader, letters, faults>>

-----------------------------------------------------------------------------
(* markRead looks the notification up; one that is read is answered as it  *)
(* is.  expectedVersion is any version a client may have seen: the header  *)
(* itself may name any number, which the code compares alike.              *)
LookUp(c, r) ==
  /\ reader[c].pc = "idle"
  /\ notification[r].state = "unread"
  /\ \E expectedVersion \in 1 .. notification[r].rowVersion :
       reader' = [reader EXCEPT ![c] =
         [pc |-> "marking", r |-> r, expectedVersion |-> expectedVersion]]
  /\ UNCHANGED <<events, notification, email, sender, letters, faults>>

ReadRow(n) == [state |-> "read", rowVersion |-> n.rowVersion + 1]

(* Slip: markRead updates by id alone. *)
MarkReadUnfenced(c) ==
  /\ reader[c].pc = "marking"
  /\ notification' = [notification EXCEPT ![reader[c].r] = ReadRow(@)]
  /\ reader' = [reader EXCEPT ![c] = NotReading]
  /\ UNCHANGED <<events, email, sender, letters, faults>>

MarkRead(c) ==
  LET r == reader[c].r
  IN  /\ reader[c].pc = "marking"
      /\ notification' = IF notification[r].rowVersion = reader[c].expectedVersion
                         THEN [notification EXCEPT ![r] = ReadRow(@)] ELSE notification
      /\ reader' = [reader EXCEPT ![c] = NotReading]
      /\ UNCHANGED <<events, email, sender, letters, faults>>

(* markAllRead: one statement over the unread rows up to a high-water mark. *)
MarkAllRead ==
  \E S \in SUBSET {r \in Results : notification[r].state = "unread"} :
    /\ S # {}
    /\ notification' = [r \in Results |->
         IF r \in S THEN ReadRow(notification[r]) ELSE notification[r]]
    /\ UNCHANGED <<events, email, sender, reader, letters, faults>>

-----------------------------------------------------------------------------
(* Slip: letters whose lease ran out are not taken up again. *)
ClaimableDue(r) == email[r].state \in {"pending", "failed"} /\ email[r].available = "now"

Claimable(r) ==
  \/ email[r].state \in {"pending", "failed"} /\ email[r].available = "now"
  \/ email[r].state = "sending" /\ email[r].lease = "expired"

(* The compare-and-set of completeEmailDelivery and failEmailDelivery. *)
Holds(s) ==
  LET e == email[sender[s].r]
  IN  e.state = "sending" /\ e.rowVersion = sender[s].rowVersion

Goto(s, x) == sender' = [sender EXCEPT ![s] = x]

(* claimEmailDelivery reads a candidate. *)
Select(s, r) ==
  /\ sender[s].pc = "idle"
  /\ Claimable(r)
  /\ Goto(s, [pc |-> "selected", r |-> r, rowVersion |-> email[r].rowVersion,
              attemptCount |-> email[r].attemptCount])
  /\ UNCHANGED <<events, notification, email, reader, letters, faults>>

ClaimMatches(s) ==
  Claimable(sender[s].r) /\ email[sender[s].r].rowVersion = sender[s].rowVersion

ClaimedRow(e) ==
  [e EXCEPT !.state = "sending", !.lease = "live", !.attemptCount = @ + 1,
            !.rowVersion = @ + 1]

ClaimWrite(s) ==
  email' = IF ClaimMatches(s)
           THEN [email EXCEPT ![sender[s].r] = ClaimedRow(@)] ELSE email

(* Slip: the claim leaves row_version alone. *)
ClaimKeepsVersion(s) ==
  /\ sender[s].pc = "selected"
  /\ email' = IF Claimable(sender[s].r) /\ email[sender[s].r].rowVersion = sender[s].rowVersion
              THEN [email EXCEPT ![sender[s].r] =
                     [ClaimedRow(@) EXCEPT !.rowVersion = sender[s].rowVersion]]
              ELSE email
  /\ Goto(s, IF ClaimMatches(s)
             THEN [sender[s] EXCEPT !.pc = "claimed", !.attemptCount = @ + 1]
             ELSE NotSending)
  /\ UNCHANGED <<events, notification, reader, letters, faults>>

(* Its compare-and-set; losing it ends the poll. *)
Claim(s) ==
  /\ sender[s].pc = "selected"
  /\ ClaimWrite(s)
  /\ Goto(s, IF ClaimMatches(s)
             THEN [sender[s] EXCEPT !.pc = "claimed", !.rowVersion = @ + 1,
                                    !.attemptCount = @ + 1]
             ELSE NotSending)
  /\ UNCHANGED <<events, notification, reader, letters, faults>>

(* The notification of the delivery is looked up: it was written with it. *)
Compose(s) ==
  /\ sender[s].pc = "claimed"
  /\ Goto(s, IF notification[sender[s].r].state # "absent"
             THEN [sender[s] EXCEPT !.pc = "sending"] ELSE NotSending)
  /\ UNCHANGED <<events, notification, email, reader, letters, faults>>

Accept(r) == letters' = [letters EXCEPT ![r] = @ + 1]

Send(s) ==
  /\ sender[s].pc = "sending"
  /\ Accept(sender[s].r)
  /\ Goto(s, [sender[s] EXCEPT !.pc = "sent"])
  /\ UNCHANGED <<events, notification, email, reader, faults>>

(* Slip: an error of the SMTP server counts as sent. *)
SendFailsSwallowed(s) ==
  /\ sender[s].pc = "sending"
  /\ Goto(s, [sender[s] EXCEPT !.pc = "sent"])
  /\ UNCHANGED <<events, notification, email, reader, letters, faults>>

(* The owner has no verified address (activeEmail), the server rejects the *)
(* letter, or the connection breaks after it was accepted.                 *)
SendFails(s) ==
  /\ sender[s].pc = "sending"
  /\ Accept(sender[s].r) \/ UNCHANGED letters
  /\ Goto(s, [sender[s] EXCEPT !.pc = "failing"])
  /\ UNCHANGED <<events, notification, email, reader, faults>>

CompleteWrite(s) ==
  email' = IF Holds(s)
           THEN [email EXCEPT ![sender[s].r].state = "sent", ![sender[s].r].lease = "none",
                              ![sender[s].r].rowVersion = @ + 1]
           ELSE email

(* completeEmailDelivery throws DELIVERY_LEASE_LOST when it misses. *)
Complete(s) ==
  /\ sender[s].pc = "sent"
  /\ CompleteWrite(s)
  /\ Goto(s, IF Holds(s) THEN NotSending ELSE [sender[s] EXCEPT !.pc = "failing"])
  /\ UNCHANGED <<events, notification, reader, letters, faults>>

(* Slip: a state that is not in the enum email_delivery_state. *)
FailedRowUnknown(e, attemptCount) ==
  [e EXCEPT !.state = IF attemptCount >= MAX_ATTEMPTS THEN "abandoned" ELSE "failed",
            !.lease = "none", !.available = "later", !.rowVersion = @ + 1]

FailedRow(e, attemptCount) ==
  [e EXCEPT !.state = IF attemptCount >= MAX_ATTEMPTS THEN "dead_letter" ELSE "failed",
            !.lease = "none", !.available = "later", !.rowVersion = @ + 1]

(* Slip: failEmailDelivery updates by id alone. *)
FailWriteUnfenced(s) ==
  email' = [email EXCEPT ![sender[s].r] = FailedRow(@, sender[s].attemptCount)]

FailWrite(s) ==
  email' = IF Holds(s)
           THEN [email EXCEPT ![sender[s].r] = FailedRow(@, sender[s].attemptCount)]
           ELSE email

Fail(s) ==
  /\ sender[s].pc = "failing"
  /\ FailWrite(s)
  /\ Goto(s, NotSending)
  /\ UNCHANGED <<events, notification, reader, letters, faults>>

-----------------------------------------------------------------------------
(* A statement rejects, committed or not: inside the try block of poll the *)
(* error is caught, elsewhere it ends the poll.                            *)
QueryErrs(s) ==
  /\ Fault
  /\ \/ sender[s].pc = "selected" /\ (ClaimWrite(s) \/ UNCHANGED email)
     \/ sender[s].pc = "sent" /\ (CompleteWrite(s) \/ UNCHANGED email)
     \/ sender[s].pc = "failing" /\ (FailWrite(s) \/ UNCHANGED email)
  /\ Goto(s, IF sender[s].pc = "sent" THEN [sender[s] EXCEPT !.pc = "failing"]
             ELSE NotSending)
  /\ UNCHANGED <<events, notification, reader, letters>>

(* The worker dies, or the look-up of the notification rejects. *)
Interrupted(s) ==
  /\ Fault
  /\ sender[s].pc # "idle"
  /\ Goto(s, NotSending)
  /\ UNCHANGED <<events, notification, email, reader, letters>>

(* A sender is still at work under the current lease of r. *)
Pursued(r) ==
  \E s \in Senders : /\ sender[s].pc \notin {"idle", "selected"} /\ sender[s].r = r
                     /\ sender[s].rowVersion = email[r].rowVersion

(* The SMTP server may take longer than the lease; each time counts as a   *)
(* fault.                                                                  *)
LeaseExpires(r) ==
  /\ email[r].state = "sending" /\ email[r].lease = "live"
  /\ IF Pursued(r) THEN Fault ELSE UNCHANGED faults
  /\ email' = [email EXCEPT ![r].lease = "expired"]
  /\ UNCHANGED <<events, notification, sender, reader, letters>>

BecomesDue(r) ==
  /\ email[r].available = "later"
  /\ email[r].state = "failed"
  /\ email' = [email EXCEPT ![r].available = "now"]
  /\ UNCHANGED <<events, notification, sender, reader, letters, faults>>

-----------------------------------------------------------------------------
Delivers(r) == ConsumeModerationResult(r) \/ OutboxTries(r) \/ OutboxSettles(r)

Polls(s) ==
  \/ \E r \in Results : Select(s, r)
  \/ Claim(s) \/ Compose(s) \/ Send(s) \/ SendFails(s) \/ Complete(s) \/ Fail(s)

Reads == MarkAllRead \/ \E c \in Readers : MarkRead(c) \/ \E r \in Results : LookUp(c, r)

Next ==
  \/ \E r \in Results : Decide(r) \/ Delivers(r) \/ LeaseExpires(r) \/ BecomesDue(r)
  \/ \E s \in Senders : Polls(s) \/ QueryErrs(s) \/ Interrupted(s)
  \/ Reads

Spec == Init /\ [][Next]_vars

(* The outbox settles its events, the poll timer of every sender runs, a   *)
(* call to the SMTP server ends, clocks advance.                           *)
FairSpec ==
  /\ Spec
  /\ \A r \in Results : /\ WF_vars(Delivers(r)) /\ WF_vars(BecomesDue(r))
                        /\ WF_vars(LeaseExpires(r) /\ UNCHANGED faults)
  /\ \A s \in Senders : WF_vars(Polls(s))

-----------------------------------------------------------------------------
(* An owner has a notification and a letter under way as soon as the event *)
(* took effect, and neither otherwise: redelivered events leave no second  *)
(* letter and no orphan, and an acknowledged event was not lost.           *)
NotifiedTogether ==
  \A r \in Results :
    /\ notification[r].state = "absent" <=> eventExecutions[r] = 0
    /\ email[r].state = "absent" <=> eventExecutions[r] = 0
    /\ eventStatus[r] \in {"acknowledged", "forgotten"} => email[r].state # "absent"

(* At most one sender can still settle a letter, and it knows the attempt  *)
(* count its decision between retry and dead letter rests on.              *)
SingleSender ==
  \A s, t \in Senders :
    sender[s].pc \notin {"idle", "selected"} /\ Holds(s) =>
      /\ sender[s].attemptCount = email[sender[s].r].attemptCount
      /\ sender[t].pc \notin {"idle", "selected"} /\ Holds(t) /\ sender[s].r = sender[t].r
           => s = t

(* A notification is marked as read once: neither a concurrent mark-all    *)
(* nor a redelivered event moves read_at or row_version afterwards.  It is *)
(* so for clients whose If-Match is a version they saw: one that looked    *)
(* the row up unread and guessed its next version would mark it again      *)
(* after a mark-all, since only the version is compared in the update.     *)
ReadOnce ==
  [][\A r \in Results :
       notification[r].state = "read" => notification'[r] = notification[r]]_vars

(* Once the faults cease the owner of a decided version receives a letter, *)
(* unless the outbox gave the event up or five attempts failed.            *)
OwnerIsTold ==
  \A r \in Results :
    eventStatus[r] = "owed" ~>
      letters[r] > 0 \/ eventStatus[r] = "abandoned" \/ email[r].state = "dead_letter"

(* The letters keep the promise of AtLeastOnceDelivery: sent only after    *)
(* the server accepted it, given up only after MAX_ATTEMPTS, never touched *)
(* again, and settled in the end.                                          *)
StatusOf(state) ==
  CASE state = "absent" -> "absent"
    [] state \in {"pending", "sending", "failed"} -> "owed"
    [] state = "sent" -> "acknowledged"
    [] state = "dead_letter" -> "abandoned"

Letters == INSTANCE AtLeastOnceDelivery WITH
  Deliveries <- Results, status <- [r \in Results |-> StatusOf(email[r].state)],
  tries <- [r \in Results |-> email[r].attemptCount], executions <- letters

LettersDelivered == Letters!Spec

(* The outbox, the inbox and the letters together reach the owner. *)
OwnerReached == OwnerIsTold /\ LettersDelivered
=============================================================================
