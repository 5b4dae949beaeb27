---------------------- MODULE ResultNotificationProofs ----------------------
(***************************************************************************)
(* Proofs about ResultNotification for every set of results and readers,   *)
(* every finite set of senders, every limit on attempts and every number   *)
(* of faults.                                                              *)
(***************************************************************************)
EXTENDS ResultNotification, FiniteSetTheorems, TLAPS

(* What the steps of the senders write into a row is a row again. *)
LEMMA RowsTyped ==
  ASSUME NEW e \in Email, NEW n \in Nat
  PROVE  ClaimedRow(e) \in Email /\ FailedRow(e, n) \in Email
<1>1. e.rowVersion + 1 \in Nat /\ e.attemptCount + 1 \in Nat
  BY DEF Email
<1>2. ClaimedRow(e) \in Email
  BY <1>1, Zenon DEF Email, ClaimedRow
<1>3. FailedRow(e, n) \in Email
  BY <1>1, Zenon DEF Email, FailedRow
<1>4. QED
  BY <1>2, <1>3

(* A notification that is read is a notification. *)
LEMMA ReadTyped ==
  ASSUME NEW n \in Notification
  PROVE  ReadRow(n) \in Notification
<1>1. n.rowVersion + 1 \in Nat
  BY DEF Notification
<1>2. QED
  BY <1>1 DEF Notification, ReadRow

(* What marking does to a row. *)
LEMMA ReadRowState ==
  ASSUME NEW n
  PROVE  ReadRow(n).state = "read" /\ ReadRow(n).rowVersion = n.rowVersion + 1
BY DEF ReadRow

(* What claiming and failing do to a row. *)
LEMMA ClaimedRowState ==
  ASSUME NEW e \in Email
  PROVE  /\ ClaimedRow(e).state = "sending"
         /\ ClaimedRow(e).rowVersion = e.rowVersion + 1
         /\ ClaimedRow(e).attemptCount = e.attemptCount + 1
BY DEF ClaimedRow, Email

LEMMA FailedRowState ==
  ASSUME NEW e \in Email, NEW n
  PROVE  /\ FailedRow(e, n).state = IF n >= MAX_ATTEMPTS THEN "dead_letter" ELSE "failed"
         /\ FailedRow(e, n).rowVersion = e.rowVersion + 1
         /\ FailedRow(e, n).attemptCount = e.attemptCount
BY DEF FailedRow, Email

(* The guarded writes of a sender keep the table well-typed. *)
LEMMA WritesTyped ==
  ASSUME TypeOK, NEW s \in Senders, sender[s].pc # "idle",
         \/ email' = email \/ ClaimWrite(s) \/ CompleteWrite(s) \/ FailWrite(s)
  PROVE  email' \in [Results -> Email]
<1>1. /\ sender[s].r \in Results /\ sender[s].attemptCount \in Nat
      /\ email \in [Results -> Email]
  BY DEF TypeOK, Sender
<1>2. email[sender[s].r] \in Email
  BY <1>1
<1>3. [email[sender[s].r] EXCEPT !.state = "sent", !.lease = "none", !.rowVersion = @ + 1] \in Email
  <2>1. email[sender[s].r].rowVersion + 1 \in Nat
    BY <1>2 DEF Email
  <2>2. QED
    BY <1>2, <2>1, Zenon DEF Email
<1>4. CASE ClaimWrite(s)
  BY <1>1, <1>2, <1>4, RowsTyped DEF ClaimWrite
<1>5. CASE CompleteWrite(s)
  BY <1>1, <1>3, <1>5 DEF CompleteWrite, Email
<1>6. CASE FailWrite(s)
  BY <1>1, <1>2, <1>6, RowsTyped DEF FailWrite
<1>7. QED
  BY <1>1, <1>4, <1>5, <1>6

(* The labels and values of a sender stay in their ranges: an attempt of   *)
(* a poll changes its label, or the values a claim returned.               *)
LEMMA GotoTyped ==
  ASSUME TypeOK, NEW s \in Senders, NEW x, Goto(s, x), x \in Sender,
         x.pc # "idle" => x.r \in Results
  PROVE  /\ sender' \in [Senders -> Sender]
         /\ \A t \in Senders : sender'[t].pc # "idle" => sender'[t].r \in Results
BY DEF TypeOK, Goto

(* A sender that stops is a sender. *)
LEMMA NotSendingTyped == NotSending \in Sender /\ NotSending.pc = "idle"
BY DEF NotSending, Sender

(* Type correctness: rows and local values keep the shapes of the schema   *)
(* and of ClaimedEmailDelivery, and whoever works has a row to work on.    *)
THEOREM TypeCorrect == Spec => []TypeOK
<1>1. Init => TypeOK
  BY NotificationConstants
     DEF Init, TypeOK, Outbox!Init, Notification, Email, Sender, NotSending, Reader, NotReading
<1>2. TypeOK /\ [Next]_vars => TypeOK'
  <2> SUFFICES ASSUME TypeOK, [Next]_vars PROVE TypeOK'
    OBVIOUS
  <2> USE NotificationConstants
  <2>1. ASSUME NEW r \in Results, Decide(r) PROVE TypeOK'
    BY <2>1 DEF TypeOK, Decide, Outbox!Submit
  <2>2. ASSUME NEW r \in Results, ConsumeModerationResult(r) PROVE TypeOK'
    <3>1. /\ [notification EXCEPT ![r].state = "unread"] \in [Results -> Notification]
          /\ [email EXCEPT ![r].state = "pending"] \in [Results -> Email]
      BY DEF TypeOK, Notification, Email
    <3>2. notification' \in [Results -> Notification] /\ email' \in [Results -> Email]
      BY <2>2, <3>1 DEF TypeOK, ConsumeModerationResult
    <3>3. /\ eventExecutions' \in [Results -> Nat]
          /\ eventStatus' = eventStatus /\ eventTries' = eventTries
      BY <2>2 DEF TypeOK, ConsumeModerationResult, Outbox!Execute
    <3>4. QED
      BY <2>2, <3>2, <3>3 DEF TypeOK, ConsumeModerationResult
  <2>3. ASSUME NEW r \in Results, OutboxTries(r) PROVE TypeOK'
    BY <2>3 DEF TypeOK, OutboxTries, Outbox!Try
  <2>4. ASSUME NEW r \in Results, OutboxSettles(r) PROVE TypeOK'
    BY <2>4 DEF TypeOK, OutboxSettles, Outbox!Settle, Outbox!Acknowledge, Outbox!GiveUp
  <2>5. ASSUME NEW r \in Results, LeaseExpires(r) PROVE TypeOK'
    <3>1. email' \in [Results -> Email]
      BY <2>5 DEF TypeOK, LeaseExpires, Email
    <3>2. faults' \in 0 .. MaxFaults
      BY <2>5 DEF TypeOK, LeaseExpires, Fault
    <3>3. QED
      BY <2>5, <3>1, <3>2 DEF TypeOK, LeaseExpires, events
  <2>6. ASSUME NEW r \in Results, BecomesDue(r) PROVE TypeOK'
    <3>1. email' \in [Results -> Email]
      BY <2>6 DEF TypeOK, BecomesDue, Email
    <3>2. QED
      BY <2>6, <3>1 DEF TypeOK, BecomesDue, events
  <2>7. ASSUME NEW s \in Senders, NEW r \in Results, Select(s, r) PROVE TypeOK'
    <3> DEFINE x == [pc |-> "selected", r |-> r, rowVersion |-> email[r].rowVersion,
                     attemptCount |-> email[r].attemptCount]
    <3>1. email[r] \in Email
      BY DEF TypeOK
    <3>2. x \in Sender /\ x.r \in Results
      BY <3>1 DEF Sender, Email
    <3>3. Goto(s, x)
      BY <2>7 DEF Select
    <3>4. /\ sender' \in [Senders -> Sender]
          /\ \A t \in Senders : sender'[t].pc # "idle" => sender'[t].r \in Results
      <4> HIDE DEF x
      <4> QED
        BY <3>2, <3>3, GotoTyped
    <3>5. QED
      BY <2>7, <3>4 DEF TypeOK, Select, events
  <2>8. ASSUME NEW s \in Senders, NEW x,
               sender[s].pc # "idle", Goto(s, x),
               \/ x = NotSending
               \/ \E pc \in {"claimed", "sending", "sent", "failing"} :
                    x = [sender[s] EXCEPT !.pc = pc]
               \/ x = [sender[s] EXCEPT !.pc = "claimed", !.rowVersion = @ + 1,
                                        !.attemptCount = @ + 1]
        PROVE  /\ sender' \in [Senders -> Sender]
               /\ \A t \in Senders : sender'[t].pc # "idle" => sender'[t].r \in Results
    <3>1. sender[s] \in Sender /\ sender[s].r \in Results
      BY <2>8 DEF TypeOK
    <3>2. CASE x = NotSending
      BY <3>2, NotSendingTyped, <2>8, GotoTyped
    <3>4. ASSUME NEW pc \in {"claimed", "sending", "sent", "failing"},
                 x = [sender[s] EXCEPT !.pc = pc]
          PROVE  x \in Sender /\ x.r \in Results
      BY <3>1, <3>4 DEF Sender
    <3>5. ASSUME x = [sender[s] EXCEPT !.pc = "claimed", !.rowVersion = @ + 1,
                                       !.attemptCount = @ + 1]
          PROVE  x \in Sender /\ x.r \in Results
      <4>1. sender[s].rowVersion + 1 \in Nat /\ sender[s].attemptCount + 1 \in Nat
        BY <3>1 DEF Sender
      <4>2. QED
        BY <3>1, <3>5, <4>1, Zenon DEF Sender
    <3>6. QED
      BY <2>8, <3>2, <3>4, <3>5, GotoTyped
  <2>9. ASSUME NEW s \in Senders, Claim(s) PROVE TypeOK'
    BY <2>8, <2>9, WritesTyped DEF TypeOK, Claim, events
  <2>10. ASSUME NEW s \in Senders, Compose(s) PROVE TypeOK'
    BY <2>8, <2>10 DEF TypeOK, Compose, events
  <2>11. ASSUME NEW s \in Senders, Send(s) PROVE TypeOK'
    <3>1. letters' \in [Results -> Nat]
      BY <2>11 DEF TypeOK, Send, Accept
    <3>2. /\ sender' \in [Senders -> Sender]
          /\ \A t \in Senders : sender'[t].pc # "idle" => sender'[t].r \in Results
      BY <2>8, <2>11 DEF Send
    <3>3. QED
      BY <2>11, <3>1, <3>2 DEF TypeOK, Send, events
  <2>12. ASSUME NEW s \in Senders, SendFails(s) PROVE TypeOK'
    <3>1. letters' \in [Results -> Nat]
      BY <2>12 DEF TypeOK, SendFails, Accept
    <3>2. /\ sender' \in [Senders -> Sender]
          /\ \A t \in Senders : sender'[t].pc # "idle" => sender'[t].r \in Results
      BY <2>8, <2>12 DEF SendFails
    <3>3. QED
      BY <2>12, <3>1, <3>2 DEF TypeOK, SendFails, events
  <2>13. ASSUME NEW s \in Senders, Complete(s) PROVE TypeOK'
    BY <2>8, <2>13, WritesTyped DEF TypeOK, Complete, events
  <2>14. ASSUME NEW s \in Senders, Fail(s) PROVE TypeOK'
    BY <2>8, <2>14, WritesTyped DEF TypeOK, Fail, events
  <2>15. ASSUME NEW s \in Senders, QueryErrs(s) PROVE TypeOK'
    <3>1. sender[s].pc # "idle" /\ email' \in [Results -> Email]
      BY <2>15, WritesTyped DEF QueryErrs
    <3>2. /\ sender' \in [Senders -> Sender]
          /\ \A t \in Senders : sender'[t].pc # "idle" => sender'[t].r \in Results
      BY <2>8, <2>15, <3>1 DEF QueryErrs
    <3>3. faults' \in 0 .. MaxFaults
      BY <2>15 DEF TypeOK, QueryErrs, Fault
    <3>4. QED
      BY <2>15, <3>1, <3>2, <3>3 DEF TypeOK, QueryErrs, events
  <2>16. ASSUME NEW s \in Senders, Interrupted(s) PROVE TypeOK'
    <3>1. /\ sender' \in [Senders -> Sender]
          /\ \A t \in Senders : sender'[t].pc # "idle" => sender'[t].r \in Results
      BY <2>8, <2>16 DEF Interrupted
    <3>2. faults' \in 0 .. MaxFaults
      BY <2>16 DEF TypeOK, Interrupted, Fault
    <3>3. QED
      BY <2>16, <3>1, <3>2 DEF TypeOK, Interrupted, events
  <2>17. ASSUME MarkAllRead PROVE TypeOK'
    <3>1. notification' \in [Results -> Notification]
      BY <2>17, ReadTyped DEF TypeOK, MarkAllRead
    <3>2. QED
      BY <2>17, <3>1 DEF TypeOK, MarkAllRead, events
  <2>18. ASSUME NEW c \in Readers, MarkRead(c) PROVE TypeOK'
    <3>1. reader[c].r \in Results
      BY <2>18 DEF TypeOK, MarkRead
    <3>2. notification' \in [Results -> Notification]
      BY <2>18, <3>1, ReadTyped DEF TypeOK, MarkRead
    <3>3. reader' \in [Readers -> Reader]
      BY <2>18 DEF TypeOK, MarkRead, Reader, NotReading
    <3>4. \A d \in Readers : reader'[d].pc # "idle" => reader'[d].r \in Results
      BY <2>18 DEF TypeOK, MarkRead, NotReading
    <3>5. QED
      BY <2>18, <3>2, <3>3, <3>4 DEF TypeOK, MarkRead, events
  <2>19. ASSUME NEW c \in Readers, NEW r \in Results, LookUp(c, r) PROVE TypeOK'
    <3>1. notification[r].rowVersion \in Nat
      BY DEF TypeOK, Notification
    <3>2. QED
      BY <2>19, <3>1 DEF TypeOK, LookUp, Reader, events
  <2>20. CASE UNCHANGED vars
    BY <2>20 DEF TypeOK, vars, events
  <2>21. QED
    BY <2>1, <2>2, <2>3, <2>4, <2>5, <2>6, <2>7, <2>9, <2>10, <2>11, <2>12, <2>13, <2>14,
       <2>15, <2>16, <2>17, <2>18, <2>19, <2>20 DEF Next, Delivers, Polls, Reads
<1>3. QED
  BY <1>1, <1>2, PTL DEF Spec

-----------------------------------------------------------------------------
(* What one step may do to a letter: leave it as the promise sees it, put  *)
(* it up with its notification, claim it, or settle it under the fence.    *)
AsItWas(e, f) ==
  /\ f.rowVersion = e.rowVersion /\ f.attemptCount = e.attemptCount
  /\ f.state = e.state

LetterStep(r) ==
  \/ AsItWas(email[r], email'[r])
  \/ /\ ConsumeModerationResult(r)
     /\ notification[r].state = "absent"
     /\ email' = [email EXCEPT ![r].state = "pending"]
  \/ \E s \in Senders :
       /\ sender[s].pc = "selected" /\ sender[s].r = r /\ ClaimMatches(s)
       /\ email' = [email EXCEPT ![r] = ClaimedRow(@)]
  \/ \E s \in Senders :
       /\ sender[s].pc = "sent" /\ sender[s].r = r /\ Holds(s)
       /\ email' = [email EXCEPT ![r].state = "sent", ![r].lease = "none",
                                 ![r].rowVersion = @ + 1]
  \/ \E s \in Senders :
       /\ sender[s].pc = "failing" /\ sender[s].r = r /\ Holds(s)
       /\ email' = [email EXCEPT ![r] = FailedRow(@, sender[s].attemptCount)]

(* A guarded write of a sender is such a step for every letter. *)
LEMMA WriteSteps ==
  ASSUME TypeOK, NEW r \in Results, NEW s \in Senders,
         \/ sender[s].pc = "selected" /\ ClaimWrite(s)
         \/ sender[s].pc = "sent" /\ CompleteWrite(s)
         \/ sender[s].pc = "failing" /\ FailWrite(s)
  PROVE  LetterStep(r)
<1>1. sender[s].r \in Results /\ email \in [Results -> Email]
  BY DEF TypeOK
<1>2. CASE email' = email
  BY <1>2 DEF LetterStep, AsItWas
<1>3. CASE sender[s].r # r
  BY <1>1, <1>3 DEF ClaimWrite, CompleteWrite, FailWrite, LetterStep, AsItWas
<1>4. CASE sender[s].r = r /\ email' # email
  BY <1>1, <1>4 DEF ClaimWrite, CompleteWrite, FailWrite, LetterStep
<1>5. QED
  BY <1>2, <1>3, <1>4

LEMMA LetterSteps ==
  ASSUME TypeOK, [Next]_vars, NEW r \in Results
  PROVE  LetterStep(r)
<1>0. email \in [Results -> Email]
  BY DEF TypeOK
<1>1. CASE UNCHANGED email
  BY <1>1 DEF LetterStep, AsItWas
<1>2. ASSUME NEW q \in Results, ConsumeModerationResult(q) PROVE LetterStep(r)
  <2>1. CASE email' = email
    BY <2>1 DEF LetterStep, AsItWas
  <2>2. CASE email' # email
    <3>1. /\ notification[q].state = "absent"
          /\ email' = [email EXCEPT ![q].state = "pending"]
      BY <1>2, <2>2 DEF ConsumeModerationResult
    <3>2. CASE q # r
      BY <1>0, <3>1, <3>2 DEF LetterStep, AsItWas
    <3>3. CASE q = r
      BY <1>2, <3>1, <3>3 DEF LetterStep
    <3>4. QED
      BY <3>1, <3>2, <3>3
  <2>3. QED
    BY <2>1, <2>2
<1>3. ASSUME NEW q \in Results, LeaseExpires(q) \/ BecomesDue(q) PROVE LetterStep(r)
  <2>1. AsItWas(email[r], email'[r])
    BY <1>0, <1>3 DEF LeaseExpires, BecomesDue, AsItWas, Email
  <2>2. QED
    BY <2>1 DEF LetterStep
<1>4. ASSUME NEW s \in Senders, Claim(s) \/ Complete(s) \/ Fail(s) \/ QueryErrs(s)
      PROVE  LetterStep(r)
  BY <1>1, <1>4, WriteSteps DEF Claim, Complete, Fail, QueryErrs
<1>5. ASSUME NEW q \in Results, Decide(q) \/ OutboxTries(q) \/ OutboxSettles(q)
      PROVE  UNCHANGED email
  BY <1>5 DEF Decide, OutboxTries, OutboxSettles
<1>6. ASSUME NEW s \in Senders,
             \/ \E q \in Results : Select(s, q)
             \/ Compose(s) \/ Send(s) \/ SendFails(s) \/ Interrupted(s)
      PROVE  UNCHANGED email
  BY <1>6 DEF Select, Compose, Send, SendFails, Interrupted
<1>7. ASSUME Reads \/ UNCHANGED vars PROVE UNCHANGED email
  BY <1>7 DEF Reads, MarkAllRead, MarkRead, LookUp, vars
<1>8. QED
  BY <1>1, <1>2, <1>3, <1>4, <1>5, <1>6, <1>7 DEF Next, Delivers, Polls

(* The same for the rows of notifications, which lose neither their state  *)
(* nor their version.                                                      *)
NotificationStep(r) ==
  \/ notification'[r] = notification[r]
  \/ /\ ConsumeModerationResult(r)
     /\ notification[r].state = "absent" /\ notification'[r].state = "unread"
     /\ notification'[r].rowVersion = notification[r].rowVersion
  \/ notification[r].state = "unread" /\ notification'[r] = ReadRow(notification[r])
  \/ \E c \in Readers :
       /\ reader[c].pc = "marking" /\ reader[c].r = r
       /\ reader[c].expectedVersion = notification[r].rowVersion
       /\ notification'[r] = ReadRow(notification[r])

LEMMA NotificationSteps ==
  ASSUME TypeOK, [Next]_vars, NEW r \in Results
  PROVE  NotificationStep(r)
<1>0. notification \in [Results -> Notification]
  BY DEF TypeOK
<1>1. CASE UNCHANGED notification
  BY <1>1 DEF NotificationStep
<1>2. ASSUME NEW q \in Results, ConsumeModerationResult(q) PROVE NotificationStep(r)
  <2>1. CASE notification[q].state = "absent"
    <3>1. notification' = [notification EXCEPT ![q].state = "unread"]
      BY <1>2, <2>1 DEF ConsumeModerationResult
    <3>2. CASE q = r
      BY <1>0, <1>2, <2>1, <3>1, <3>2 DEF NotificationStep, Notification
    <3>3. CASE q # r
      BY <1>0, <3>1, <3>3 DEF NotificationStep
    <3>4. QED
      BY <3>2, <3>3
  <2>2. CASE notification[q].state # "absent"
    BY <1>2, <2>2 DEF ConsumeModerationResult, NotificationStep
  <2>3. QED
    BY <2>1, <2>2
<1>3. CASE MarkAllRead
  <2>1. PICK S \in SUBSET {q \in Results : notification[q].state = "unread"} :
          notification' = [q \in Results |->
            IF q \in S THEN ReadRow(notification[q]) ELSE notification[q]]
    BY <1>3 DEF MarkAllRead
  <2>2. QED
    BY <2>1 DEF NotificationStep
<1>4. ASSUME NEW c \in Readers, MarkRead(c) PROVE NotificationStep(r)
  <2>1. reader[c].r \in Results
    BY <1>4 DEF TypeOK, MarkRead
  <2>2. QED
    BY <1>0, <1>4, <2>1 DEF MarkRead, NotificationStep
<1>5. ASSUME NEW q \in Results,
             \/ Decide(q) \/ OutboxTries(q) \/ OutboxSettles(q)
             \/ LeaseExpires(q) \/ BecomesDue(q)
      PROVE  UNCHANGED notification
  BY <1>5 DEF Decide, OutboxTries, OutboxSettles, LeaseExpires, BecomesDue
<1>6. ASSUME NEW s \in Senders,
             \/ \E q \in Results : Select(s, q)
             \/ Claim(s) \/ Compose(s) \/ Send(s) \/ SendFails(s) \/ Complete(s) \/ Fail(s)
             \/ QueryErrs(s) \/ Interrupted(s)
      PROVE  UNCHANGED notification
  BY <1>6 DEF Select, Claim, Compose, Send, SendFails, Complete, Fail, QueryErrs, Interrupted
<1>7. ASSUME NEW c \in Readers, NEW q \in Results, LookUp(c, q) PROVE UNCHANGED notification
  BY <1>7 DEF LookUp
<1>8. CASE UNCHANGED vars
  BY <1>8 DEF vars, NotificationStep
<1>9. QED
  BY <1>1, <1>2, <1>3, <1>4, <1>5, <1>6, <1>7, <1>8 DEF Next, Delivers, Polls, Reads

(* The decided events move as their outbox promises; an execution is the   *)
(* consumer's transaction.                                                 *)
EventStep(r) ==
  \/ UNCHANGED <<eventStatus, eventExecutions>>
  \/ \E q \in Results : Outbox!Submit(q) \/ Outbox!Settle(q)
  \/ \E q \in Results : ConsumeModerationResult(q)

LEMMA EventSteps ==
  ASSUME [Next]_vars, NEW r \in Results
  PROVE  EventStep(r)
<1>1. ASSUME NEW q \in Results, Decide(q) \/ OutboxTries(q) \/ OutboxSettles(q)
      PROVE  EventStep(r)
  BY <1>1 DEF Decide, OutboxTries, OutboxSettles, Outbox!Try, EventStep
<1>2. ASSUME NEW q \in Results, LeaseExpires(q) \/ BecomesDue(q)
      PROVE  UNCHANGED events
  BY <1>2 DEF LeaseExpires, BecomesDue
<1>3. ASSUME NEW s \in Senders,
             \/ \E q \in Results : Select(s, q)
             \/ Claim(s) \/ Compose(s) \/ Send(s) \/ SendFails(s) \/ Complete(s) \/ Fail(s)
             \/ QueryErrs(s) \/ Interrupted(s)
      PROVE  UNCHANGED events
  BY <1>3 DEF Select, Claim, Compose, Send, SendFails, Complete, Fail, QueryErrs, Interrupted
<1>4. ASSUME Reads \/ UNCHANGED vars PROVE UNCHANGED events
  BY <1>4 DEF Reads, MarkAllRead, MarkRead, LookUp, vars
<1>5. QED
  BY <1>1, <1>2, <1>3, <1>4 DEF Next, Delivers, Polls, EventStep, events

-----------------------------------------------------------------------------
(* What a request that looked a notification up knows of it: it exists,    *)
(* and once it is read the version the client saw is history.              *)
LookedUp ==
  \A c \in Readers : reader[c].pc = "marking" =>
    /\ notification[reader[c].r].state # "absent"
    /\ reader[c].expectedVersion \in Nat
    /\ reader[c].expectedVersion <= notification[reader[c].r].rowVersion
    /\ notification[reader[c].r].state = "read"
         => reader[c].expectedVersion < notification[reader[c].r].rowVersion

LEMMA ReaderSteps ==
  ASSUME TypeOK, [Next]_vars, NEW c \in Readers
  PROVE  \/ reader'[c] \in {reader[c], NotReading}
         \/ \E q \in Results : LookUp(c, q)
<1>0. reader \in [Readers -> Reader]
  BY DEF TypeOK
<1>1. ASSUME NEW d \in Readers, MarkRead(d) PROVE reader'[c] \in {reader[c], NotReading}
  BY <1>0, <1>1 DEF MarkRead
<1>2. ASSUME NEW d \in Readers, NEW q \in Results, LookUp(d, q), d # c
      PROVE  reader'[c] = reader[c]
  BY <1>0, <1>2 DEF LookUp
<1>3. ASSUME NEW q \in Results, 
             \/ Decide(q) \/ Delivers(q) \/ LeaseExpires(q) \/ BecomesDue(q)
      PROVE  UNCHANGED reader
  BY <1>3 DEF Decide, Delivers, ConsumeModerationResult, OutboxTries, OutboxSettles,
              LeaseExpires, BecomesDue
<1>4. ASSUME NEW s \in Senders,
             \/ \E q \in Results : Select(s, q)
             \/ Claim(s) \/ Compose(s) \/ Send(s) \/ SendFails(s) \/ Complete(s) \/ Fail(s)
             \/ QueryErrs(s) \/ Interrupted(s)
      PROVE  UNCHANGED reader
  BY <1>4 DEF Select, Claim, Compose, Send, SendFails, Complete, Fail, QueryErrs, Interrupted
<1>5. ASSUME MarkAllRead \/ UNCHANGED vars PROVE UNCHANGED reader
  BY <1>5 DEF MarkAllRead, vars
<1>6. QED
  BY <1>1, <1>2, <1>3, <1>4, <1>5 DEF Next, Polls, Reads

(* A request's knowledge survives every step of the others. *)
THEOREM LookedUpCorrect == Spec => []LookedUp
<1>1. Init => LookedUp
  BY DEF Init, LookedUp, NotReading
<1>2. TypeOK /\ LookedUp /\ [Next]_vars => LookedUp'
  <2> SUFFICES ASSUME TypeOK, LookedUp, [Next]_vars,
                      NEW c \in Readers, reader'[c].pc = "marking"
               PROVE  /\ notification'[reader'[c].r].state # "absent"
                      /\ reader'[c].expectedVersion \in Nat
                      /\ reader'[c].expectedVersion <= notification'[reader'[c].r].rowVersion
                      /\ notification'[reader'[c].r].state = "read"
                           => reader'[c].expectedVersion < notification'[reader'[c].r].rowVersion
    BY DEF LookedUp
  <2>1. CASE reader'[c] = reader[c]
    <3>0. PICK r \in Results : reader[c].r = r
      BY <2>1 DEF TypeOK
    <3>1. /\ notification[r] \in Notification
          /\ notification[r].state # "absent"
          /\ reader[c].expectedVersion \in Nat
          /\ reader[c].expectedVersion <= notification[r].rowVersion
          /\ notification[r].state = "read"
               => reader[c].expectedVersion < notification[r].rowVersion
      BY <2>1, <3>0 DEF LookedUp, TypeOK
    <3>2. \/ notification'[r] = notification[r]
          \/ /\ notification'[r].state = "read"
             /\ notification'[r].rowVersion = notification[r].rowVersion + 1
      BY <3>1, NotificationSteps, ReadRowState DEF NotificationStep
    <3>3. notification[r].rowVersion \in Nat
      BY <3>1 DEF Notification
    <3>4. QED
      BY <2>1, <3>0, <3>1, <3>2, <3>3
  <2>2. ASSUME NEW q \in Results, LookUp(c, q)
        PROVE  /\ reader'[c].r = q /\ notification' = notification
               /\ notification[q].state = "unread"
               /\ reader'[c].expectedVersion \in 1 .. notification[q].rowVersion
    BY <2>2 DEF LookUp, TypeOK
  <2>3. \A q \in Results : notification[q].rowVersion \in Nat
    BY DEF TypeOK, Notification
  <2>4. CASE reader'[c] = NotReading
    BY <2>4 DEF NotReading
  <2>5. QED
    BY <2>1, <2>2, <2>3, <2>4, ReaderSteps
<1>3. QED
  BY <1>1, <1>2, TypeCorrect, PTL DEF Spec

(* A notification is marked as read once: after it neither a request that  *)
(* looked it up earlier nor a mark-all nor a redelivered event changes it. *)
THEOREM ReadOnceCorrect == Spec => ReadOnce
<1>1. ASSUME TypeOK, LookedUp, [Next]_vars, NEW r \in Results, notification[r].state = "read"
      PROVE  notification'[r] = notification[r]
  <2>1. ASSUME NEW c \in Readers, reader[c].pc = "marking", reader[c].r = r
        PROVE  reader[c].expectedVersion # notification[r].rowVersion
    BY <1>1, <2>1 DEF LookedUp, TypeOK, Notification
  <2>2. QED
    BY <1>1, <2>1, NotificationSteps DEF NotificationStep
<1>2. TypeOK /\ LookedUp /\ [Next]_vars
        => [\A r \in Results :
              notification[r].state = "read" => notification'[r] = notification[r]]_vars
  BY <1>1
<1>3. QED
  BY <1>2, TypeCorrect, LookedUpCorrect, PTL DEF Spec, ReadOnce

-----------------------------------------------------------------------------
(* An owner has a notification and a letter exactly when the event took    *)
(* effect, and an acknowledged event did: nothing is lost, nothing is      *)
(* written twice.  The outbox acknowledges only what was executed.         *)
THEOREM NotifiedCorrect == Spec => []NotifiedTogether
<1>1. Init => NotifiedTogether
  BY DEF Init, Outbox!Init, NotifiedTogether
<1>2. TypeOK /\ LookedUp /\ NotifiedTogether /\ [Next]_vars => NotifiedTogether'
  <2> SUFFICES ASSUME TypeOK, LookedUp, NotifiedTogether, [Next]_vars, NEW r \in Results
               PROVE  /\ notification'[r].state = "absent" <=> eventExecutions'[r] = 0
                      /\ email'[r].state = "absent" <=> eventExecutions'[r] = 0
                      /\ eventStatus'[r] \in {"acknowledged", "forgotten"}
                           => email'[r].state # "absent"
    BY DEF NotifiedTogether
  <2>0. /\ notification[r].state = "absent" <=> eventExecutions[r] = 0
        /\ email[r].state = "absent" <=> eventExecutions[r] = 0
        /\ eventStatus[r] \in {"acknowledged", "forgotten"} => email[r].state # "absent"
        /\ eventExecutions[r] \in Nat
        /\ notification \in [Results -> Notification] /\ email \in [Results -> Email]
        /\ eventStatus \in [Results -> {"absent", "owed", "acknowledged", "abandoned", "forgotten"}]
        /\ eventExecutions \in [Results -> Nat]
    BY DEF NotifiedTogether, TypeOK
  <2>1. CASE ConsumeModerationResult(r)
    <3>1. eventExecutions'[r] = eventExecutions[r] + 1
      BY <2>0, <2>1 DEF ConsumeModerationResult, Outbox!Execute
    <3>2. notification'[r].state # "absent" /\ email'[r].state # "absent"
      <4>1. CASE notification[r].state = "absent"
        <5>1. /\ notification' = [notification EXCEPT ![r].state = "unread"]
              /\ email' = [email EXCEPT ![r].state = "pending"]
          BY <2>1, <4>1 DEF ConsumeModerationResult
        <5>2. notification'[r].state = "unread" /\ email'[r].state = "pending"
          BY <2>0, <5>1 DEF Notification, Email
        <5>3. QED
          BY <5>2
      <4>2. CASE notification[r].state # "absent"
        BY <2>0, <2>1, <4>2 DEF ConsumeModerationResult
      <4>3. QED
        BY <4>1, <4>2
    <3>3. QED
      BY <2>0, <3>1, <3>2
  <2>2. CASE ~ConsumeModerationResult(r)
    <3>1. notification'[r].state = "absent" <=> notification[r].state = "absent"
      <4>1. \A c \in Readers : reader[c].pc = "marking" /\ reader[c].r = r
              => notification[r].state # "absent"
        BY DEF LookedUp
      <4>2. QED
        BY <2>2, <4>1, ReadRowState, NotificationSteps DEF NotificationStep
    <3>2. email'[r].state = "absent" <=> email[r].state = "absent"
      <4>1. CASE AsItWas(email[r], email'[r])
        BY <4>1 DEF AsItWas
      <4>2. ASSUME NEW s \in Senders, sender[s].r = r, ClaimMatches(s),
                   email' = [email EXCEPT ![r] = ClaimedRow(@)]
            PROVE  email'[r].state # "absent" /\ email[r].state # "absent"
        BY <2>0, <4>2 DEF ClaimMatches, Claimable, ClaimedRow, Email
      <4>3. ASSUME NEW s \in Senders, sender[s].r = r, Holds(s),
                   \/ email' = [email EXCEPT ![r].state = "sent", ![r].lease = "none",
                                             ![r].rowVersion = @ + 1]
                   \/ email' = [email EXCEPT ![r] = FailedRow(@, sender[s].attemptCount)]
            PROVE  email'[r].state # "absent" /\ email[r].state # "absent"
        <5>1. email[r].state = "sending" /\ email[r] \in Email
          BY <2>0, <4>3 DEF Holds
        <5>2. FailedRow(email[r], sender[s].attemptCount).state # "absent"
          BY <5>1, FailedRowState
        <5>3. email'[r] = FailedRow(email[r], sender[s].attemptCount) \/ email'[r].state = "sent"
          BY <2>0, <4>3, <5>1 DEF Email
        <5>4. QED
          BY <5>1, <5>2, <5>3
      <4>4. QED
        BY <2>2, <4>1, <4>2, <4>3, LetterSteps DEF LetterStep
    <3>3. /\ eventExecutions'[r] = eventExecutions[r]
          /\ \/ eventStatus'[r] \in {eventStatus[r], "owed", "abandoned"}
             \/ eventExecutions[r] > 0
      <4>1. CASE UNCHANGED <<eventStatus, eventExecutions>>
        BY <4>1
      <4>2. ASSUME NEW q \in Results, Outbox!Submit(q) \/ Outbox!Settle(q)
            PROVE  <3>3!1 /\ <3>3!2
        BY <2>0, <4>2 DEF Outbox!Submit, Outbox!Settle, Outbox!Acknowledge, Outbox!GiveUp
      <4>3. ASSUME NEW q \in Results, ConsumeModerationResult(q)
            PROVE  <3>3!1 /\ <3>3!2
        BY <2>0, <2>2, <4>3 DEF ConsumeModerationResult, Outbox!Execute
      <4>4. QED
        BY <4>1, <4>2, <4>3, EventSteps DEF EventStep
    <3>4. QED
      BY <2>0, <3>1, <3>2, <3>3
  <2>3. QED
    BY <2>1, <2>2
<1>3. QED
  BY <1>1, <1>2, TypeCorrect, LookedUpCorrect, PTL DEF Spec

-----------------------------------------------------------------------------
(* Versions of a letter only rise, and within a version the attempt count  *)
(* stands still; attempts are never taken back.                            *)
RowSucc(e, f) ==
  /\ f.attemptCount >= e.attemptCount
  /\ \/ f.rowVersion = e.rowVersion /\ f.attemptCount = e.attemptCount
     \/ f.rowVersion = e.rowVersion + 1

LEMMA LetterSucc ==
  ASSUME TypeOK, [Next]_vars, NEW r \in Results
  PROVE  RowSucc(email[r], email'[r])
<1>0. /\ email \in [Results -> Email] /\ email[r] \in Email
      /\ email[r].rowVersion \in Nat /\ email[r].attemptCount \in Nat
  BY DEF TypeOK, Email
<1>1. CASE AsItWas(email[r], email'[r])
  BY <1>0, <1>1 DEF AsItWas, RowSucc
<1>2. CASE email' = [email EXCEPT ![r].state = "pending"]
  BY <1>0, <1>2 DEF Email, RowSucc
<1>3. CASE email' = [email EXCEPT ![r] = ClaimedRow(@)]
  BY <1>0, <1>3, ClaimedRowState DEF RowSucc
<1>4. CASE email' = [email EXCEPT ![r].state = "sent", ![r].lease = "none",
                                  ![r].rowVersion = @ + 1]
  BY <1>0, <1>4 DEF Email, RowSucc
<1>5. ASSUME NEW n, email' = [email EXCEPT ![r] = FailedRow(@, n)]
      PROVE  RowSucc(email[r], email'[r])
  BY <1>0, <1>5, FailedRowState DEF RowSucc
<1>6. QED
  BY <1>1, <1>2, <1>3, <1>4, <1>5, LetterSteps DEF LetterStep

(* What one step may do to a sender: end its poll, let it read a           *)
(* candidate, win the claim, or move it on with the claimed values.        *)
Active(s) == sender[s].pc \notin {"idle", "selected"}

MovesOn(s) ==
  /\ Active(s)
  /\ sender'[s].pc \in {"sending", "sent", "failing"}
  /\ sender'[s].pc = "sending" => sender[s].pc = "claimed"
  /\ sender'[s].pc = "sent" => Send(s)
  /\ sender'[s].r = sender[s].r
  /\ sender'[s].rowVersion = sender[s].rowVersion
  /\ sender'[s].attemptCount = sender[s].attemptCount

SenderStep(s) ==
  \/ sender'[s].pc = "idle"
  \/ sender'[s] = sender[s]
  \/ \E q \in Results : Select(s, q)
  \/ Claim(s) /\ ClaimMatches(s)
  \/ MovesOn(s)

LEMMA SenderSteps ==
  ASSUME TypeOK, [Next]_vars, NEW s \in Senders
  PROVE  SenderStep(s)
<1>0. sender \in [Senders -> Sender] /\ sender[s] \in Sender
  BY DEF TypeOK
<1>1. ASSUME NEW t \in Senders, t # s,
             \/ \E q \in Results : Select(t, q)
             \/ Claim(t) \/ Compose(t) \/ Send(t) \/ SendFails(t) \/ Complete(t) \/ Fail(t)
             \/ QueryErrs(t) \/ Interrupted(t)
      PROVE  sender'[s] = sender[s]
  BY <1>0, <1>1 DEF Select, Claim, Compose, Send, SendFails, Complete, Fail,
                    QueryErrs, Interrupted, Goto
<1>2. CASE Claim(s)
  BY <1>0, <1>2 DEF Claim, Goto, NotSending, SenderStep
<1>3. CASE Compose(s)
  BY <1>0, <1>3 DEF Compose, Goto, NotSending, SenderStep, MovesOn, Active, Sender
<1>4. CASE Send(s)
  BY <1>0, <1>4 DEF Send, Goto, SenderStep, MovesOn, Active, Sender
<1>5. CASE SendFails(s)
  BY <1>0, <1>5 DEF SendFails, Goto, SenderStep, MovesOn, Active, Sender
<1>6. CASE Complete(s)
  BY <1>0, <1>6 DEF Complete, Goto, NotSending, SenderStep, MovesOn, Active, Sender
<1>7. CASE Fail(s) \/ Interrupted(s)
  BY <1>0, <1>7 DEF Fail, Interrupted, Goto, NotSending, SenderStep
<1>8. CASE QueryErrs(s)
  BY <1>0, <1>8 DEF QueryErrs, Goto, NotSending, SenderStep, MovesOn, Active, Sender
<1>9. ASSUME NEW q \in Results,
             Decide(q) \/ Delivers(q) \/ LeaseExpires(q) \/ BecomesDue(q)
      PROVE  UNCHANGED sender
  BY <1>9 DEF Decide, Delivers, ConsumeModerationResult, OutboxTries, OutboxSettles,
              LeaseExpires, BecomesDue
<1>10. CASE Reads \/ UNCHANGED vars
  BY <1>10 DEF Reads, MarkAllRead, MarkRead, LookUp, vars, SenderStep
<1>11. ASSUME NEW q \in Results, Select(s, q) PROVE SenderStep(s)
  BY <1>11 DEF SenderStep
<1>12. QED
  BY <1>1, <1>2, <1>3, <1>4, <1>5, <1>6, <1>7, <1>8, <1>9, <1>10, <1>11
     DEF Next, Polls, SenderStep

(* What the winner of a claim takes with it. *)
LEMMA ClaimTakes ==
  ASSUME TypeOK, NEW s \in Senders, Claim(s), ClaimMatches(s), NEW r \in Results,
         sender[s].r = r
  PROVE  /\ sender'[s].pc = "claimed" /\ sender'[s].r = r
         /\ sender[s].rowVersion = email[r].rowVersion
         /\ sender'[s].rowVersion = email[r].rowVersion + 1
         /\ sender'[s].attemptCount = sender[s].attemptCount + 1
         /\ email'[r].rowVersion = email[r].rowVersion + 1
         /\ email'[r].attemptCount = email[r].attemptCount + 1
         /\ \A t \in Senders \ {s} : sender'[t] = sender[t]
<1>0. /\ sender[s] \in Sender /\ sender \in [Senders -> Sender]
      /\ email[r] \in Email /\ email \in [Results -> Email]
  BY DEF TypeOK
<1>1. /\ sender' = [sender EXCEPT ![s] = [sender[s] EXCEPT !.pc = "claimed",
                      !.rowVersion = @ + 1, !.attemptCount = @ + 1]]
      /\ sender[s].rowVersion = email[r].rowVersion
  BY DEF Claim, ClaimMatches, Goto
<1>2. email' = [email EXCEPT ![r] = ClaimedRow(@)]
  BY DEF Claim, ClaimWrite
<1>3. email'[r] = ClaimedRow(email[r])
  BY <1>0, <1>2
<1>4. /\ sender'[s].pc = "claimed" /\ sender'[s].r = r
      /\ sender'[s].rowVersion = sender[s].rowVersion + 1
      /\ sender'[s].attemptCount = sender[s].attemptCount + 1
      /\ \A t \in Senders \ {s} : sender'[t] = sender[t]
  BY <1>0, <1>1 DEF Sender
<1>5. QED
  BY <1>0, <1>1, <1>3, <1>4, ClaimedRowState

-----------------------------------------------------------------------------
(* The fence: no sender is ahead of the row, the one that is level with it *)
(* knows its attempt count, and no two hold the same version of a letter.  *)
Level ==
  \A s \in Senders : \A r \in Results :
    sender[s].pc # "idle" /\ sender[s].r = r =>
      /\ sender[s].rowVersion <= email[r].rowVersion
      /\ sender[s].rowVersion = email[r].rowVersion
           => sender[s].attemptCount = email[r].attemptCount

Exclusive ==
  \A s, t \in Senders :
    (/\ Active(s) /\ Active(t) /\ sender[s].r = sender[t].r
     /\ sender[s].rowVersion = sender[t].rowVersion)
      => s = t

LEMMA LevelKept ==
  ASSUME TypeOK, Level, [Next]_vars
  PROVE  Level'
<1> SUFFICES ASSUME NEW s \in Senders, NEW r \in Results,
                    sender'[s].pc # "idle", sender'[s].r = r
             PROVE  /\ sender'[s].rowVersion <= email'[r].rowVersion
                    /\ sender'[s].rowVersion = email'[r].rowVersion
                         => sender'[s].attemptCount = email'[r].attemptCount
  BY DEF Level
<1>0. /\ sender[s].rowVersion \in Nat /\ sender[s].attemptCount \in Nat
      /\ email[r].rowVersion \in Nat /\ email[r].attemptCount \in Nat
      /\ sender[s].pc # "idle" => sender[s].r \in Results
  BY DEF TypeOK, Sender, Email
<1>1. ASSUME sender[s].pc # "idle", sender[s].r = r,
             sender'[s].rowVersion = sender[s].rowVersion,
             sender'[s].attemptCount = sender[s].attemptCount
      PROVE  /\ sender'[s].rowVersion <= email'[r].rowVersion
             /\ sender'[s].rowVersion = email'[r].rowVersion
                  => sender'[s].attemptCount = email'[r].attemptCount
  BY <1>0, <1>1, LetterSucc DEF Level, RowSucc
<1>2. CASE sender'[s] = sender[s]
  BY <1>1, <1>2
<1>3. CASE MovesOn(s)
  BY <1>1, <1>3 DEF MovesOn, Active
<1>4. ASSUME NEW q \in Results, Select(s, q)
      PROVE  /\ sender'[s].rowVersion = email[r].rowVersion
             /\ sender'[s].attemptCount = email[r].attemptCount
             /\ email' = email
  <2>1. sender'[s].r = q /\ sender'[s].rowVersion = email[q].rowVersion
        /\ sender'[s].attemptCount = email[q].attemptCount
    BY <1>4 DEF Select, Goto, TypeOK
  <2>2. QED
    BY <1>4, <2>1 DEF Select
<1>5. CASE Claim(s) /\ ClaimMatches(s)
  <2>1. PICK q \in Results : sender[s].r = q
    BY <1>0, <1>5 DEF Claim
  <2>2. q = r
    BY <1>5, <2>1, ClaimTakes
  <2>3. sender[s].attemptCount = email[r].attemptCount
    <3>1. sender[s].pc = "selected" /\ sender[s].rowVersion = email[r].rowVersion
      BY <1>5, <2>1, <2>2, ClaimTakes DEF Claim
    <3>2. QED
      BY <2>1, <2>2, <3>1 DEF Level
  <2>4. QED
    BY <1>0, <1>5, <2>1, <2>2, <2>3, ClaimTakes
<1>6. QED
  BY <1>0, <1>2, <1>3, <1>4, <1>5, SenderSteps DEF SenderStep

LEMMA ExclusiveKept ==
  ASSUME TypeOK, Level, Exclusive, [Next]_vars
  PROVE  Exclusive'
<1> SUFFICES ASSUME NEW s \in Senders, NEW t \in Senders, s # t,
                    Active(s)', Active(t)', sender'[s].r = sender'[t].r,
                    sender'[s].rowVersion = sender'[t].rowVersion
             PROVE  FALSE
  BY DEF Exclusive, Active
<1>1. ASSUME NEW u \in Senders, Active(u)', ~(Claim(u) /\ ClaimMatches(u))
      PROVE  /\ Active(u)
             /\ sender'[u].r = sender[u].r
             /\ sender'[u].rowVersion = sender[u].rowVersion
  <2>1. ASSUME NEW q \in Results, Select(u, q) PROVE FALSE
    BY <1>1, <2>1 DEF Select, Goto, Active, TypeOK
  <2>2. QED
    BY <1>1, <2>1, SenderSteps DEF SenderStep, MovesOn, Active
<1>2. ASSUME NEW u \in Senders, NEW v \in Senders, u # v, Active(v)',
             Claim(u), ClaimMatches(u), sender'[u].r = sender'[v].r,
             sender'[u].rowVersion = sender'[v].rowVersion
      PROVE  FALSE
  <2>1. PICK r \in Results : sender[u].r = r
    BY <1>2 DEF Claim, TypeOK
  <2>2. sender'[v] = sender[v] /\ sender'[u].r = r
    BY <1>2, <2>1, ClaimTakes
  <2>3. sender[v].r = r /\ sender[v].pc # "idle"
    BY <1>2, <2>2 DEF Active
  <2>4. sender[v].rowVersion <= email[r].rowVersion
    BY <2>3 DEF Level
  <2>5. sender[v].rowVersion = email[r].rowVersion + 1
    BY <1>2, <2>1, <2>2, ClaimTakes
  <2>6. email[r].rowVersion \in Nat
    BY DEF TypeOK, Email
  <2>7. QED
    BY <2>4, <2>5, <2>6
<1>3. QED
  BY <1>1, <1>2 DEF Exclusive

THEOREM FenceCorrect == Spec => [](Level /\ Exclusive)
<1>1. Init => Level /\ Exclusive
  <2> SUFFICES ASSUME Init PROVE Level /\ Exclusive
    OBVIOUS
  <2>1. \A s \in Senders : sender[s].pc = "idle"
    BY DEF Init, NotSending
  <2>2. QED
    BY <2>1 DEF Level, Exclusive, Active
<1>2. TypeOK /\ Level /\ Exclusive /\ [Next]_vars => Level' /\ Exclusive'
  BY LevelKept, ExclusiveKept
<1>3. QED
  BY <1>1, <1>2, TypeCorrect, PTL DEF Spec

(* At most one sender can still settle a letter, and the attempt count its *)
(* decision between retry and dead letter rests on is the row's.           *)
THEOREM SingleSenderCorrect == Spec => []SingleSender
<1>1. TypeOK /\ Level /\ Exclusive => SingleSender
  <2> SUFFICES ASSUME TypeOK, Level, Exclusive, NEW s \in Senders, Active(s), Holds(s)
               PROVE  /\ sender[s].attemptCount = email[sender[s].r].attemptCount
                      /\ \A t \in Senders :
                           Active(t) /\ Holds(t) /\ sender[s].r = sender[t].r => s = t
    BY DEF SingleSender, Active
  <2>1. sender[s].r \in Results
    BY DEF TypeOK, Active
  <2>2. sender[s].attemptCount = email[sender[s].r].attemptCount
    BY <2>1 DEF Level, Holds, Active
  <2>3. QED
    BY <2>2 DEF Exclusive, Holds
<1>2. QED
  BY <1>1, TypeCorrect, FenceCorrect, PTL

-----------------------------------------------------------------------------
(* The senders that may still hand a letter to the SMTP server. *)
InFlight(r) == {s \in Senders : sender[s].pc \in {"claimed", "sending"} /\ sender[s].r = r}

LEMMA InFlightFinite ==
  ASSUME NEW r \in Results
  PROVE  /\ IsFiniteSet(InFlight(r)) /\ IsFiniteSet(InFlight(r)')
         /\ Cardinality(InFlight(r)) \in Nat /\ Cardinality(InFlight(r)') \in Nat
<1>1. InFlight(r) \subseteq Senders /\ InFlight(r)' \subseteq Senders
  BY DEF InFlight
<1>2. QED
  BY <1>1, NotificationConstants, FS_Subset, FS_CardinalityType

(* Only a sender that wins a claim comes into flight. *)
LEMMA InFlightSteps ==
  ASSUME TypeOK, [Next]_vars, NEW r \in Results, NEW s \in Senders,
         s \in InFlight(r)', s \notin InFlight(r)
  PROVE  Claim(s) /\ ClaimMatches(s) /\ sender[s].r = r
<1>1. sender'[s].pc \in {"claimed", "sending"} /\ sender'[s].r = r
  BY DEF InFlight
<1>2. ~(sender[s].pc \in {"claimed", "sending"} /\ sender[s].r = r)
  BY DEF InFlight
<1>3. ~MovesOn(s) /\ sender'[s] # sender[s]
  BY <1>1, <1>2 DEF MovesOn
<1>4. ASSUME NEW q \in Results, Select(s, q) PROVE FALSE
  BY <1>1, <1>4 DEF Select, Goto, TypeOK
<1>5. Claim(s) /\ ClaimMatches(s)
  BY <1>1, <1>3, <1>4, SenderSteps DEF SenderStep
<1>6. PICK q \in Results : sender[s].r = q
  BY <1>5 DEF Claim, TypeOK
<1>7. sender'[s].r = q
  BY <1>5, <1>6, ClaimTakes
<1>8. QED
  BY <1>1, <1>5, <1>6, <1>7

(* The server accepts a letter only from a sender that is sending it. *)
LEMMA AcceptSteps ==
  ASSUME TypeOK, [Next]_vars, NEW r \in Results
  PROVE  \/ letters'[r] = letters[r]
         \/ /\ letters'[r] = letters[r] + 1
            /\ \E s \in Senders : (Send(s) \/ SendFails(s)) /\ sender[s].r = r
<1>0. letters \in [Results -> Nat]
  BY DEF TypeOK
<1>1. ASSUME NEW s \in Senders, Send(s) \/ SendFails(s)
      PROVE  \/ letters'[r] = letters[r]
             \/ letters'[r] = letters[r] + 1 /\ sender[s].r = r
  BY <1>0, <1>1 DEF Send, SendFails, Accept
<1>2. ASSUME NEW q \in Results,
             Decide(q) \/ Delivers(q) \/ LeaseExpires(q) \/ BecomesDue(q)
      PROVE  UNCHANGED letters
  BY <1>2 DEF Decide, Delivers, ConsumeModerationResult, OutboxTries, OutboxSettles,
              LeaseExpires, BecomesDue
<1>3. ASSUME NEW s \in Senders,
             \/ \E q \in Results : Select(s, q)
             \/ Claim(s) \/ Compose(s) \/ Complete(s) \/ Fail(s)
             \/ QueryErrs(s) \/ Interrupted(s)
      PROVE  UNCHANGED letters
  BY <1>3 DEF Select, Claim, Compose, Complete, Fail, QueryErrs, Interrupted
<1>4. ASSUME Reads \/ UNCHANGED vars PROVE UNCHANGED letters
  BY <1>4 DEF Reads, MarkAllRead, MarkRead, LookUp, vars
<1>5. QED
  BY <1>1, <1>2, <1>3, <1>4 DEF Next, Polls

(* Every letter the server accepted, or still may accept, is paid for by   *)
(* an attempt counted beforehand.                                          *)
LettersWithinAttempts ==
  \A r \in Results : letters[r] + Cardinality(InFlight(r)) <= email[r].attemptCount

THEOREM LettersAccounted == Spec => []LettersWithinAttempts
<1>1. Init => LettersWithinAttempts
  <2> SUFFICES ASSUME Init, NEW r \in Results
               PROVE  letters[r] + Cardinality(InFlight(r)) <= email[r].attemptCount
    BY DEF LettersWithinAttempts
  <2>1. InFlight(r) = {}
    BY DEF Init, InFlight, NotSending
  <2>2. QED
    BY <2>1, FS_EmptySet DEF Init
<1>2. TypeOK /\ TypeOK' /\ LettersWithinAttempts /\ [Next]_vars => LettersWithinAttempts'
  <2> SUFFICES ASSUME TypeOK, TypeOK', LettersWithinAttempts, [Next]_vars, NEW r \in Results
               PROVE  letters'[r] + Cardinality(InFlight(r)') <= email'[r].attemptCount
    BY DEF LettersWithinAttempts
  <2>0. /\ letters[r] + Cardinality(InFlight(r)) <= email[r].attemptCount
        /\ letters[r] \in Nat /\ letters'[r] \in Nat
        /\ email[r].attemptCount \in Nat /\ email'[r].attemptCount \in Nat
        /\ email'[r].attemptCount >= email[r].attemptCount
        /\ Cardinality(InFlight(r)) \in Nat /\ Cardinality(InFlight(r)') \in Nat
    BY InFlightFinite, LetterSucc DEF LettersWithinAttempts, TypeOK, Email, RowSucc
  <2>1. CASE InFlight(r)' \subseteq InFlight(r)
    <3>1. Cardinality(InFlight(r)') <= Cardinality(InFlight(r))
      BY <2>1, InFlightFinite, FS_Subset
    <3>2. CASE letters'[r] = letters[r]
      BY <2>0, <3>1, <3>2
    <3>3. ASSUME NEW s \in Senders, Send(s) \/ SendFails(s), sender[s].r = r,
                 letters'[r] = letters[r] + 1
          PROVE  letters'[r] + Cardinality(InFlight(r)') <= email'[r].attemptCount
      <4>1. s \in InFlight(r) /\ s \notin InFlight(r)'
        BY <3>3 DEF Send, SendFails, Goto, InFlight, TypeOK, Sender
      <4>2. InFlight(r)' \subseteq InFlight(r) \ {s}
        BY <2>1, <4>1
      <4>3. /\ IsFiniteSet(InFlight(r) \ {s})
            /\ Cardinality(InFlight(r) \ {s}) = Cardinality(InFlight(r)) - 1
        BY <4>1, InFlightFinite, FS_RemoveElement
      <4>4. Cardinality(InFlight(r)') <= Cardinality(InFlight(r)) - 1
        BY <4>2, <4>3, FS_Subset
      <4>5. QED
        BY <2>0, <3>3, <4>4
    <3>4. QED
      BY <3>2, <3>3, AcceptSteps
  <2>2. CASE ~(InFlight(r)' \subseteq InFlight(r))
    <3>1. PICK s \in Senders : s \in InFlight(r)' /\ s \notin InFlight(r)
      BY <2>2 DEF InFlight
    <3>2. Claim(s) /\ ClaimMatches(s) /\ sender[s].r = r
      BY <3>1, InFlightSteps
    <3>3. /\ email'[r].attemptCount = email[r].attemptCount + 1
          /\ \A t \in Senders \ {s} : sender'[t] = sender[t]
      BY <3>2, ClaimTakes
    <3>4. InFlight(r)' = InFlight(r) \cup {s}
      BY <3>1, <3>3 DEF InFlight
    <3>5. Cardinality(InFlight(r)') = Cardinality(InFlight(r)) + 1
      BY <3>1, <3>4, InFlightFinite, FS_AddElement
    <3>6. letters' = letters
      BY <3>2 DEF Claim
    <3>7. QED
      BY <2>0, <3>3, <3>5, <3>6
  <2>3. QED
    BY <2>1, <2>2
<1>3. QED
  BY <1>1, <1>2, TypeCorrect, PTL DEF Spec

(* A sender about to record success has been answered by the server. *)
Accepted == \A s \in Senders : sender[s].pc = "sent" => letters[sender[s].r] > 0

THEOREM AcceptedCorrect == Spec => []Accepted
<1>1. Init => Accepted
  BY DEF Init, Accepted, NotSending
<1>2. TypeOK /\ Accepted /\ [Next]_vars => Accepted'
  <2> SUFFICES ASSUME TypeOK, Accepted, [Next]_vars, NEW s \in Senders, sender'[s].pc = "sent"
               PROVE  letters'[sender'[s].r] > 0
    BY DEF Accepted
  <2>1. CASE Send(s)
    <3>1. sender[s].r \in Results /\ sender'[s].r = sender[s].r
      BY <2>1 DEF Send, Goto, TypeOK, Sender
    <3>2. QED
      BY <2>1, <3>1 DEF Send, Accept, TypeOK
  <2>2. CASE sender'[s] = sender[s]
    <3>1. PICK r \in Results : sender[s].r = r
      BY <2>2 DEF TypeOK
    <3>2. letters[r] \in Nat /\ letters[r] > 0
      BY <2>2, <3>1 DEF TypeOK, Accepted
    <3>3. QED
      BY <2>2, <3>1, <3>2, AcceptSteps
  <2>3. ASSUME NEW q \in Results, Select(s, q) PROVE FALSE
    BY <2>3 DEF Select, Goto, TypeOK
  <2>4. ASSUME Claim(s), ClaimMatches(s) PROVE FALSE
    BY <2>4 DEF Claim, Goto, TypeOK, Sender
  <2>5. QED
    BY <2>1, <2>2, <2>3, <2>4, SenderSteps DEF SenderStep, MovesOn
<1>3. QED
  BY <1>1, <1>2, TypeCorrect, PTL DEF Spec

-----------------------------------------------------------------------------
(* The letters as AtLeastOnceDelivery sees them.                           *)
AbsSame(e, f) ==
  StatusOf(f.state) = StatusOf(e.state) /\ f.attemptCount = e.attemptCount

LEMMA StutterMapped ==
  ASSUME \A q \in Results : AbsSame(email[q], email'[q]), letters' = letters
  PROVE  UNCHANGED Letters!vars
BY DEF AbsSame, Letters!vars

(* The map applied to a step that changes one letter. *)
LEMMA OneLetterMapped ==
  ASSUME NEW r \in Results, \A q \in Results \ {r} : email'[q] = email[q]
  PROVE  /\ [q \in Results |-> StatusOf(email'[q].state)]
              = [[q \in Results |-> StatusOf(email[q].state)]
                   EXCEPT ![r] = StatusOf(email'[r].state)]
         /\ [q \in Results |-> email'[q].attemptCount]
              = [[q \in Results |-> email[q].attemptCount]
                   EXCEPT ![r] = email'[r].attemptCount]
OBVIOUS

(* The consumer's transaction is the promise's Submit. *)
LEMMA ConsumeMapped ==
  ASSUME TypeOK, NotifiedTogether, NEW r \in Results, notification[r].state = "absent",
         email' = [email EXCEPT ![r].state = "pending"], letters' = letters
  PROVE  Letters!Submit(r)
<1>1. /\ email[r].state = "absent" /\ email'[r].state = "pending"
      /\ email'[r].attemptCount = email[r].attemptCount
      /\ \A q \in Results \ {r} : email'[q] = email[q]
  BY DEF NotifiedTogether, TypeOK, Email
<1>2. StatusOf(email[r].state) = "absent" /\ StatusOf(email'[r].state) = "owed"
  BY <1>1 DEF StatusOf
<1>3. [q \in Results |-> email'[q].attemptCount] = [q \in Results |-> email[q].attemptCount]
  BY <1>1
<1>4. QED
  BY <1>1, <1>2, <1>3, OneLetterMapped DEF Letters!Submit

(* Winning a claim is the promise's Try. *)
LEMMA ClaimMapped ==
  ASSUME TypeOK, NEW r \in Results, Claimable(r),
         email' = [email EXCEPT ![r] = ClaimedRow(@)], letters' = letters
  PROVE  Letters!Try(r)
<1>0. email[r] \in Email /\ email \in [Results -> Email]
  BY DEF TypeOK
<1>1. email'[r] = ClaimedRow(email[r]) /\ \A q \in Results \ {r} : email'[q] = email[q]
  BY <1>0
<1>2. email'[r].state = "sending" /\ email'[r].attemptCount = email[r].attemptCount + 1
  BY <1>0, <1>1, ClaimedRowState
<1>3. email[r].state \in {"pending", "failed", "sending"}
  BY DEF Claimable
<1>4. StatusOf(email[r].state) = "owed" /\ StatusOf(email'[r].state) = "owed"
  BY <1>2, <1>3 DEF StatusOf
<1>5. [q \in Results |-> StatusOf(email'[q].state)] = [q \in Results |-> StatusOf(email[q].state)]
  BY <1>1, <1>4
<1>6. QED
  BY <1>0, <1>1, <1>2, <1>4, <1>5, OneLetterMapped DEF Letters!Try

(* An answer of the server is the promise's Execute: a try is unused. *)
LEMMA AcceptMapped ==
  ASSUME TypeOK, LettersWithinAttempts, NEW s \in Senders, sender[s].pc = "sending",
         email' = email, Accept(sender[s].r)
  PROVE  Letters!Next
<1>1. PICK r \in Results : sender[s].r = r
  BY DEF TypeOK
<1>2. s \in InFlight(r)
  BY <1>1 DEF InFlight
<1>3. Cardinality(InFlight(r)) # 0
  BY <1>2, InFlightFinite, FS_EmptySet
<1>4. letters[r] < email[r].attemptCount
  <2>1. /\ letters[r] \in Nat /\ email[r].attemptCount \in Nat
        /\ Cardinality(InFlight(r)) \in Nat
    BY InFlightFinite DEF TypeOK, Email
  <2>2. QED
    BY <1>3, <2>1 DEF LettersWithinAttempts
<1>5. Letters!Execute(r)
  BY <1>1, <1>4 DEF Letters!Execute, Accept
<1>6. QED
  BY <1>5 DEF Letters!Next

(* Completing under the fence is the promise's Acknowledge. *)
LEMMA CompleteMapped ==
  ASSUME TypeOK, Accepted, NEW s \in Senders, NEW r \in Results,
         sender[s].pc = "sent", sender[s].r = r, Holds(s),
         email' = [email EXCEPT ![r].state = "sent", ![r].lease = "none",
                                ![r].rowVersion = @ + 1],
         letters' = letters
  PROVE  Letters!Acknowledge(r)
<1>1. /\ email[r].state = "sending" /\ email'[r].state = "sent"
      /\ email'[r].attemptCount = email[r].attemptCount
      /\ \A q \in Results \ {r} : email'[q] = email[q]
  BY DEF Holds, TypeOK, Email
<1>2. StatusOf(email[r].state) = "owed" /\ StatusOf(email'[r].state) = "acknowledged"
  BY <1>1 DEF StatusOf
<1>3. [q \in Results |-> email'[q].attemptCount] = [q \in Results |-> email[q].attemptCount]
  <2>1. \A q \in Results : email'[q].attemptCount = email[q].attemptCount
    BY <1>1
  <2>2. QED
    BY <2>1, Zenon
<1>4. letters[r] > 0
  BY DEF Accepted
<1>5. QED
  BY <1>1, <1>2, <1>3, <1>4, OneLetterMapped DEF Letters!Acknowledge

(* Failing under the fence is the promise's GiveUp, or no step of it. *)
LEMMA FailMapped ==
  ASSUME TypeOK, Level, NEW s \in Senders, NEW r \in Results,
         sender[s].pc = "failing", sender[s].r = r, Holds(s),
         email' = [email EXCEPT ![r] = FailedRow(@, sender[s].attemptCount)],
         letters' = letters
  PROVE  Letters!GiveUp(r) \/ UNCHANGED Letters!vars
<1>0. email[r] \in Email /\ email \in [Results -> Email]
  BY DEF TypeOK
<1>1. sender[s].attemptCount = email[r].attemptCount /\ email[r].state = "sending"
  BY DEF Level, Holds
<1>2. /\ email'[r] = FailedRow(email[r], email[r].attemptCount)
      /\ \A q \in Results \ {r} : email'[q] = email[q]
  BY <1>0, <1>1
<1>3. /\ email'[r].state = IF email[r].attemptCount >= MAX_ATTEMPTS
                           THEN "dead_letter" ELSE "failed"
      /\ email'[r].attemptCount = email[r].attemptCount
  BY <1>0, <1>2, FailedRowState
<1>4. StatusOf(email[r].state) = "owed"
  BY <1>1 DEF StatusOf
<1>5. CASE email[r].attemptCount >= MAX_ATTEMPTS
  <2>1. StatusOf(email'[r].state) = "abandoned"
    BY <1>3, <1>5 DEF StatusOf
  <2>2. [q \in Results |-> email'[q].attemptCount] = [q \in Results |-> email[q].attemptCount]
    BY <1>2, <1>3
  <2>3. QED
    BY <1>2, <1>4, <1>5, <2>1, <2>2, OneLetterMapped DEF Letters!GiveUp
<1>6. CASE ~(email[r].attemptCount >= MAX_ATTEMPTS)
  <2>1. StatusOf(email'[r].state) = "owed"
    BY <1>3, <1>6 DEF StatusOf
  <2>2. QED
    BY <1>2, <1>3, <1>4, <2>1, StutterMapped DEF AbsSame
<1>7. QED
  BY <1>5, <1>6

(* Every step is a step of the letters' promise or leaves it alone. *)
LEMMA NextMapped ==
  ASSUME TypeOK, TypeOK', NotifiedTogether, Level, LettersWithinAttempts, Accepted,
         [Next]_vars
  PROVE  [Letters!Next]_(Letters!vars)
<1> USE DEF Letters!Next
<1>1. ASSUME NEW s \in Senders, Send(s) \/ SendFails(s), letters' # letters
      PROVE  Letters!Next
  BY <1>1, AcceptMapped DEF Send, SendFails
<1>2. CASE letters' # letters
  <2>1. PICK r \in Results : letters'[r] # letters[r]
    BY <1>2 DEF TypeOK
  <2>2. QED
    BY <1>1, <1>2, <2>1, AcceptSteps
<1>3. CASE letters' = letters /\ \A r \in Results : AsItWas(email[r], email'[r])
  BY <1>3, StutterMapped DEF AsItWas, AbsSame
<1>4. ASSUME letters' = letters, NEW r \in Results, ~AsItWas(email[r], email'[r])
      PROVE  [Letters!Next]_(Letters!vars)
  <2>1. CASE /\ notification[r].state = "absent"
             /\ email' = [email EXCEPT ![r].state = "pending"]
    BY <1>4, <2>1, ConsumeMapped
  <2>2. ASSUME NEW s \in Senders, sender[s].r = r, ClaimMatches(s),
               email' = [email EXCEPT ![r] = ClaimedRow(@)]
        PROVE  Letters!Next
    BY <1>4, <2>2, ClaimMapped DEF ClaimMatches
  <2>3. ASSUME NEW s \in Senders, sender[s].pc = "sent", sender[s].r = r, Holds(s),
               email' = [email EXCEPT ![r].state = "sent", ![r].lease = "none",
                                      ![r].rowVersion = @ + 1]
        PROVE  Letters!Next
    BY <1>4, <2>3, CompleteMapped
  <2>4. ASSUME NEW s \in Senders, sender[s].pc = "failing", sender[s].r = r, Holds(s),
               email' = [email EXCEPT ![r] = FailedRow(@, sender[s].attemptCount)]
        PROVE  [Letters!Next]_(Letters!vars)
    BY <1>4, <2>4, FailMapped
  <2>5. QED
    BY <1>4, <2>1, <2>2, <2>3, <2>4, LetterSteps DEF LetterStep
<1>5. QED
  BY <1>2, <1>3, <1>4

(* The letters keep the safety half of the outbox's own promise: none is   *)
(* recorded as sent before the server accepted it, given up before         *)
(* MAX_ATTEMPTS claims, claimed after it was settled, or sent unclaimed.   *)
THEOREM ImplementsLetters == Spec => Letters!Safety
<1>1. Init => Letters!Init
  <2>1. ASSUME Init PROVE Letters!Init
    BY <2>1 DEF Init, Letters!Init, StatusOf
  <2>2. QED
    BY <2>1
<1>2. TypeOK /\ TypeOK' /\ NotifiedTogether /\ Level /\ LettersWithinAttempts /\ Accepted
        /\ [Next]_vars => [Letters!Next]_(Letters!vars)
  BY NextMapped
<1>3. QED
  BY <1>1, <1>2, TypeCorrect, NotifiedCorrect, FenceCorrect, LettersAccounted,
     AcceptedCorrect, PTL DEF Spec, Letters!Safety
=============================================================================
