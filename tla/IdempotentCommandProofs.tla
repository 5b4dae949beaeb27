----------------------- MODULE IdempotentCommandProofs -----------------------
(***************************************************************************)
(* Proofs about IdempotentCommand, for any number of requests, keys and    *)
(* bodies, any TTL and any mix of lock orders.                             *)
(*                                                                         *)
(* The argument: the wait of the insert keeps at most one uncommitted row  *)
(* per key, the wait of the delete at most one uncommitted deletion, and   *)
(* only expired rows are deleted.  So an unexpired execution always has    *)
(* its row (Remembered), a row goes in only when every earlier execution   *)
(* of its key has expired (Alone), and what a look-up finds is the outcome *)
(* of a committed execution.                                               *)
(***************************************************************************)
EXTENDS IdempotentCommand, TLAPS

Inserted(q) == pc[q] \in {"executing", "committing"}

Clocks == \A q \in Requests : began[q] <= now /\ asOf[q] <= now

(* Uncommitted changes of one key belong to one transaction.               *)
Exclusive ==
  /\ \A q1, q2 \in Requests :
       KeyOf(q1) = KeyOf(q2) /\ Inserted(q1) /\ Inserted(q2) => q1 = q2
  /\ \A q1, q2 \in erasing : KeyOf(q1) = KeyOf(q2) => q1 = q2

(* Only what has expired is deleted, and only on the way to an insert.     *)
ErasesExpired ==
  \A q \in erasing :
    /\ pc[q] \in {"inserting", "executing", "committing"}
    /\ record[KeyOf(q)] # None /\ record[KeyOf(q)].expiresAt <= now

(* An uncommitted row replaces nothing that others still see as valid, and *)
(* every earlier execution of its key had expired when it went in.         *)
Alone ==
  \A q \in Requests : Inserted(q) =>
    /\ record[KeyOf(q)] = None \/ q \in erasing
    /\ since[q] <= now
    /\ \A e \in executions : e.key = KeyOf(q) => e.until <= since[q]

Remembered ==
  \A e \in executions :
    e.until <= now \/ (record[e.key] # None /\ record[e.key].expiresAt = e.until)

ConflictHasCause ==
  \A q \in Requests : pc[q] = "looking" => \E e \in executions : e.key = KeyOf(q)

IInv ==
  /\ TypeOK /\ Clocks /\ Exclusive /\ ErasesExpired /\ Alone /\ Remembered
  /\ ConflictHasCause /\ ExecutedOnce /\ AnswersAgree /\ RefusalsJustified
  /\ RemembersOutcomes

-----------------------------------------------------------------------------
(* What a request asks names a key, a body and a record, or none.           *)
LEMMA KeyTyped == ASSUME TypeOK, NEW q \in Requests
                  PROVE  /\ KeyOf(q) \in Keys /\ sent[q].body \in Bodies
                         /\ record[KeyOf(q)] \in Row \cup {None}
BY DEF TypeOK, KeyOf

(* Whatever is told is an answer.                                          *)
LEMMA TellTyped ==
  ASSUME TypeOK, NEW q \in Requests, NEW kind \in Kinds,
         NEW by \in Requests \cup {None}, Tell(q, kind, by)
  PROVE  /\ answer' \in [Requests -> [kind : Kinds, of : Requests \cup {None}]]
         /\ answer'[q].kind = kind /\ answer'[q].of = by
         /\ \A p \in Requests \ {q} : answer'[p] = answer[p]
<1>1. [kind |-> kind, of |-> by] \in [kind : Kinds, of : Requests \cup {None}]
  OBVIOUS
<1>2. QED
  BY <1>1 DEF TypeOK, Tell

(* A look-up that finds a row tells "reused", "busy" or "replayed".        *)
LEMMA EvaluateTyped ==
  ASSUME TypeOK, NEW q \in Requests, record[KeyOf(q)] # None,
         Evaluate(q, record[KeyOf(q)])
  PROVE  /\ answer' \in [Requests -> [kind : Kinds, of : Requests \cup {None}]]
         /\ \A p \in Requests \ {q} : answer'[p] = answer[p]
         /\ answer'[q].of = record[KeyOf(q)].by
         /\ \/ answer'[q].kind = "reused" /\ record[KeyOf(q)].body # sent[q].body
            \/ answer'[q].kind = "busy" /\ record[KeyOf(q)].state # "completed"
            \/ answer'[q].kind = "replayed" /\ record[KeyOf(q)].body = sent[q].body
<1>1. record[KeyOf(q)].by \in Requests
  BY KeyTyped DEF Row
<1>2. {"reused", "busy", "replayed"} \subseteq Kinds
  BY DEF Kinds
<1>3. CASE record[KeyOf(q)].body # sent[q].body
  <2>1. Tell(q, "reused", record[KeyOf(q)].by)
    BY <1>3 DEF Evaluate
  <2>2. QED
    BY <1>1, <1>2, <1>3, <2>1, TellTyped
<1>4. CASE record[KeyOf(q)].body = sent[q].body /\ record[KeyOf(q)].state # "completed"
  <2>1. Tell(q, "busy", record[KeyOf(q)].by)
    BY <1>4 DEF Evaluate
  <2>2. QED
    BY <1>1, <1>2, <1>4, <2>1, TellTyped
<1>5. CASE record[KeyOf(q)].body = sent[q].body /\ record[KeyOf(q)].state = "completed"
  <2>1. Tell(q, "replayed", record[KeyOf(q)].by)
    BY <1>5 DEF Evaluate
  <2>2. QED
    BY <1>1, <1>2, <1>5, <2>1, TellTyped
<1>6. QED
  BY <1>3, <1>4, <1>5

LEMMA CommitTyped ==
  ASSUME TypeOK, NEW q \in Requests
  PROVE  Outcome(q) \in Row /\ Executed(q) \in Execution
<1>1. until[q] \in Nat /\ since[q] \in Nat
  BY DEF TypeOK
<1>2. Outcome(q) \in Row
  BY <1>1, KeyTyped DEF Outcome, Row
<1>3. Executed(q) \in Execution
  BY <1>1, KeyTyped DEF Executed, Execution
<1>4. QED
  BY <1>2, <1>3

(* Type correctness of the protocol, for any requests, keys and bodies.    *)
THEOREM TypeCorrect == Spec => []TypeOK
<1>1. Init => TypeOK
  BY TrafficAssumption DEF Init, TypeOK, Steps, Kinds
<1>2. TypeOK /\ [Next]_vars => TypeOK'
  <2> SUFFICES ASSUME TypeOK, [Next]_vars PROVE TypeOK'
    OBVIOUS
  <2> USE DEF TypeOK, Steps
  <2>1. ASSUME NEW q \in Requests, Lookup(q) PROVE TypeOK'
    <3>1. CASE Live(KeyOf(q)) /\ Evaluate(q, record[KeyOf(q)])
      BY <2>1, <3>1, EvaluateTyped DEF Lookup, Goto, Live
    <3>2. CASE UNCHANGED answer
      BY <2>1, <3>2 DEF Lookup, Goto
    <3>3. QED
      BY <2>1, <3>1, <3>2 DEF Lookup
  <2>2. ASSUME NEW q \in Requests, Begin(q) PROVE TypeOK'
    BY <2>2 DEF Begin, Goto, Issue
  <2>3. ASSUME NEW q \in Requests, LockAccount(q) PROVE TypeOK'
    BY <2>3 DEF LockAccount, Goto, Issue
  <2>4. ASSUME NEW q \in Requests, DeleteExpired(q) PROVE TypeOK'
    BY <2>4 DEF DeleteExpired, Goto, Issue
  <2>5. ASSUME NEW q \in Requests, Insert(q) PROVE TypeOK'
    <3>1. Expiry(q) \in Nat
      BY TimesAssumption DEF Expiry
    <3>2. CASE InsertRow(q)
      BY <2>5, <3>1, <3>2 DEF Insert, InsertRow, Goto, Issue
    <3>3. CASE Conflict(q)
      BY <2>5, <3>3 DEF Insert, Conflict, Goto, Issue
    <3>4. QED
      BY <2>5, <3>2, <3>3 DEF Insert
  <2>6. ASSUME NEW q \in Requests, LookAgain(q) PROVE TypeOK'
    <3>1. answer' \in [Requests -> [kind : Kinds, of : Requests \cup {None}]]
      <4>1. CASE Live(KeyOf(q))
        BY <2>6, <4>1, EvaluateTyped DEF LookAgain, Live
      <4>2. CASE ~Live(KeyOf(q))
        <5>1. Tell(q, "busy", None) /\ "busy" \in Kinds
          BY <2>6, <4>2 DEF LookAgain, Kinds
        <5>2. QED
          BY <5>1, TellTyped
      <4>3. QED
        BY <4>1, <4>2
    <3>2. QED
      BY <2>6, <3>1 DEF LookAgain, Goto, Released
  <2>7. ASSUME NEW q \in Requests, Execute(q) PROVE TypeOK'
    BY <2>7 DEF Execute, Goto, Issue
  <2>8. ASSUME NEW q \in Requests, Commit(q) PROVE TypeOK'
    <3>1. answer' \in [Requests -> [kind : Kinds, of : Requests \cup {None}]]
      <4>1. {"own", "lost"} \subseteq Kinds
        BY DEF Kinds
      <4>2. CASE Tell(q, "own", q)
        BY <4>1, <4>2, TellTyped
      <4>3. CASE Tell(q, "lost", None)
        BY <4>1, <4>3, TellTyped
      <4>4. QED
        BY <2>8, <4>2, <4>3 DEF Commit
    <3>2. QED
      BY <2>8, <3>1, KeyTyped, CommitTyped DEF Commit, Goto, Released
  <2>9. ASSUME NEW q \in Requests, Fail(q) PROVE TypeOK'
    <3>1. Tell(q, "failed", None) /\ "failed" \in Kinds
      BY <2>9 DEF Fail, Kinds
    <3>2. answer' \in [Requests -> [kind : Kinds, of : Requests \cup {None}]]
      BY <3>1, TellTyped
    <3>3. QED
      BY <2>9, <3>2 DEF Fail, Goto, Released
  <2>10. ASSUME NEW k \in Keys, Purge(k) PROVE TypeOK'
    BY <2>10 DEF Purge
  <2>11. CASE Tick
    BY <2>11 DEF Tick
  <2>12. CASE UNCHANGED vars
    BY <2>12 DEF vars
  <2>13. QED
    BY <2>1, <2>2, <2>3, <2>4, <2>5, <2>6, <2>7, <2>8, <2>9, <2>10, <2>11, <2>12
       DEF Next, Advance
<1>3. QED
  BY <1>1, <1>2, PTL DEF Spec

-----------------------------------------------------------------------------
(* Steps that change no row, no execution and no answer.                   *)
LEMMA Untouched ==
  ASSUME IInv, UNCHANGED <<now, record, executions, sent, answer>>
  PROVE  Remembered' /\ ExecutedOnce' /\ AnswersAgree' /\ RefusalsJustified' /\ RemembersOutcomes'
<1> USE DEF IInv
<1>1. Remembered' /\ ExecutedOnce'
  BY DEF Remembered, ExecutedOnce
<1>2. AnswersAgree'
  BY DEF AnswersAgree, KeyOf
<1>3. RefusalsJustified'
  BY DEF RefusalsJustified, KeyOf
<1>4. RemembersOutcomes'
  BY DEF RemembersOutcomes
<1>5. QED
  BY <1>1, <1>2, <1>3, <1>4

(* What changes nothing but the place and the clocks of one request, short *)
(* of the insert, keeps the invariant.                                     *)
LEMMA Moves ==
  ASSUME IInv, TypeOK', NEW q \in Requests,
         Begin(q) \/ LockAccount(q) \/ Execute(q)
  PROVE  IInv'
<1> USE DEF IInv, TypeOK, Steps
<1>1. /\ UNCHANGED <<now, record, executions, sent, erasing, until, since, answer>>
      /\ \A p \in Requests \ {q} : pc'[p] = pc[p] /\ began'[p] = began[p] /\ asOf'[p] = asOf[p]
      /\ asOf'[q] = now /\ began'[q] \in {now, began[q]}
      /\ \/ pc[q] \in {"missed", "locking"} /\ pc'[q] \in {"locking", "deleting"}
         \/ pc[q] = "executing" /\ pc'[q] = "committing"
  BY DEF Begin, LockAccount, Execute, Goto, Issue
<1>2. \A p \in Requests : Inserted(p)' = Inserted(p) /\ KeyOf(p)' = KeyOf(p)
  BY <1>1 DEF Inserted, KeyOf
<1>3. Clocks'
  BY <1>1 DEF Clocks
<1>4. Exclusive'
  BY <1>1, <1>2 DEF Exclusive
<1>5. ErasesExpired'
  BY <1>1, <1>2 DEF ErasesExpired
<1>6. Alone'
  BY <1>1, <1>2 DEF Alone
<1>7. Remembered' /\ ExecutedOnce' /\ AnswersAgree' /\ RefusalsJustified' /\ RemembersOutcomes'
  BY <1>1, Untouched
<1>8. ConflictHasCause'
  BY <1>1, <1>2 DEF ConflictHasCause
<1>9. QED
  BY <1>3, <1>4, <1>5, <1>6, <1>7, <1>8

(* A request that ends without a commit keeps the invariant when what it   *)
(* is told is justified.                                                   *)
LEMMA Ends ==
  ASSUME IInv, TypeOK', NEW q \in Requests,
         UNCHANGED <<now, record, executions, sent, began, asOf, until, since>>,
         pc' = [pc EXCEPT ![q] = "done"] \/ pc' = [pc EXCEPT ![q] = "missed"],
         erasing' = erasing \ {q},
         ~Inserted(q) \/ pc'[q] = "done",
         \A p \in Requests \ {q} : answer'[p] = answer[p],
         answer'[q].kind \in {"own", "replayed"} =>
           \E e \in executions :
             e.by = answer'[q].of /\ e.key = KeyOf(q) /\ e.body = sent[q].body,
         answer'[q].kind = "reused" =>
           \E e \in executions : e.key = KeyOf(q) /\ e.body # sent[q].body,
         answer'[q].kind = "busy" =>
           \E e \in executions : e.key = KeyOf(q) /\ e.until <= now
  PROVE  IInv'
<1> USE DEF IInv, TypeOK, Steps
<1>1. \A p \in Requests : KeyOf(p)' = KeyOf(p)
  BY DEF KeyOf
<1>2. \A p \in Requests \ {q} : pc'[p] = pc[p] /\ Inserted(p)' = Inserted(p)
  BY DEF Inserted
<1>3. ~Inserted(q)' /\ pc'[q] # "looking"
  BY DEF Inserted
<1>4. Clocks'
  BY DEF Clocks
<1>5. Exclusive'
  BY <1>1, <1>2, <1>3 DEF Exclusive
<1>6. ErasesExpired'
  BY <1>1, <1>2 DEF ErasesExpired
<1>7. Alone'
  BY <1>1, <1>2, <1>3 DEF Alone
<1>8. Remembered' /\ ExecutedOnce' /\ RemembersOutcomes'
  BY <1>1 DEF Remembered, ExecutedOnce, RemembersOutcomes
<1>9. ConflictHasCause'
  BY <1>1, <1>2, <1>3 DEF ConflictHasCause
<1>10. AnswersAgree'
  BY <1>1 DEF AnswersAgree
<1>11. RefusalsJustified'
  BY <1>1 DEF RefusalsJustified
<1>12. QED
  BY <1>4, <1>5, <1>6, <1>7, <1>8, <1>9, <1>10, <1>11

(* What a look-up tells is justified by the execution the row records.     *)
LEMMA EvaluateJustified ==
  ASSUME IInv, NEW q \in Requests, record[KeyOf(q)] # None,
         Evaluate(q, record[KeyOf(q)])
  PROVE  /\ \A p \in Requests \ {q} : answer'[p] = answer[p]
         /\ answer'[q].kind \in {"own", "replayed"} =>
              \E e \in executions :
                e.by = answer'[q].of /\ e.key = KeyOf(q) /\ e.body = sent[q].body
         /\ answer'[q].kind = "reused" =>
              \E e \in executions : e.key = KeyOf(q) /\ e.body # sent[q].body
         /\ answer'[q].kind # "busy"
<1>1. KeyOf(q) \in Keys
  BY KeyTyped DEF IInv
<1>2. PICK e \in executions :
        e.key = KeyOf(q) /\ e.by = record[KeyOf(q)].by /\ e.body = record[KeyOf(q)].body
  BY <1>1 DEF IInv, RemembersOutcomes
<1>3. record[KeyOf(q)].state = "completed"
  BY <1>1 DEF IInv, RemembersOutcomes
<1>4. QED
  BY <1>2, <1>3, EvaluateTyped DEF IInv

LEMMA LooksUp == ASSUME IInv, TypeOK', NEW q \in Requests, Lookup(q) PROVE IInv'
<1>1. ~Inserted(q) /\ q \notin erasing
  BY DEF Lookup, Inserted, IInv, ErasesExpired
<1>2. erasing' = erasing \ {q}
  BY <1>1 DEF Lookup
<1>3. CASE Live(KeyOf(q)) /\ Evaluate(q, record[KeyOf(q)]) /\ Goto(q, "done")
  BY <1>1, <1>2, <1>3, EvaluateJustified, Ends DEF Lookup, Live, Goto
<1>4. CASE Goto(q, "missed") /\ UNCHANGED answer
  <2>1. answer'[q].kind \in {"own", "replayed"} =>
          \E e \in executions :
            e.by = answer'[q].of /\ e.key = KeyOf(q) /\ e.body = sent[q].body
    BY <1>4 DEF IInv, AnswersAgree
  <2>2. /\ answer'[q].kind = "reused" =>
             \E e \in executions : e.key = KeyOf(q) /\ e.body # sent[q].body
        /\ answer'[q].kind = "busy" =>
             \E e \in executions : e.key = KeyOf(q) /\ e.until <= now
    BY <1>4 DEF IInv, RefusalsJustified
  <2>3. QED
    BY <1>1, <1>2, <1>4, <2>1, <2>2, Ends DEF Lookup, Goto
<1>5. QED
  BY <1>3, <1>4 DEF Lookup

LEMMA Fails == ASSUME IInv, TypeOK', NEW q \in Requests, Fail(q) PROVE IInv'
<1>1. /\ answer'[q].kind = "failed"
      /\ \A p \in Requests \ {q} : answer'[p] = answer[p]
  BY TellTyped DEF Fail, Kinds, IInv
<1>2. pc' = [pc EXCEPT ![q] = "done"] /\ pc'[q] = "done"
  BY DEF Fail, Goto, IInv, TypeOK
<1>3. QED
  BY <1>1, <1>2, Ends DEF Fail

LEMMA LooksAgain == ASSUME IInv, TypeOK', NEW q \in Requests, LookAgain(q) PROVE IInv'
<1>1. ~Inserted(q) /\ q \notin erasing
  BY DEF LookAgain, Inserted, IInv, ErasesExpired
<1>2. /\ erasing' = erasing \ {q} /\ pc' = [pc EXCEPT ![q] = "done"]
      /\ UNCHANGED <<now, record, executions, sent, began, asOf, until, since>>
  BY <1>1 DEF LookAgain, Goto
<1>3. CASE Live(KeyOf(q))
  BY <1>1, <1>2, <1>3, EvaluateJustified, Ends DEF LookAgain, Live
<1>4. CASE ~Live(KeyOf(q))
  <2>1. /\ answer'[q].kind = "busy"
        /\ \A p \in Requests \ {q} : answer'[p] = answer[p]
    BY <1>4, TellTyped DEF LookAgain, Kinds, IInv
  <2>2. PICK e \in executions : e.key = KeyOf(q)
    BY DEF LookAgain, IInv, ConflictHasCause
  <2>3. e.until <= now
    <3>1. e.until \in Nat /\ now \in Nat /\ KeyOf(q) \in Keys
      BY KeyTyped DEF IInv, TypeOK, Execution
    <3>2. CASE record[KeyOf(q)] # None /\ record[KeyOf(q)].expiresAt = e.until
      BY <1>4, <3>1, <3>2 DEF Live
    <3>3. QED
      BY <2>2, <3>2 DEF IInv, Remembered
  <2>4. QED
    BY <1>1, <1>2, <2>1, <2>2, <2>3, Ends
<1>5. QED
  BY <1>3, <1>4

LEMMA Deletes == ASSUME IInv, TypeOK', NEW q \in Requests, DeleteExpired(q) PROVE IInv'
<1> USE DEF IInv, TypeOK, Steps
<1>1. /\ UNCHANGED <<now, record, holder, executions, sent, began, until, since, answer>>
      /\ pc[q] = "deleting" /\ pc'[q] = "inserting" /\ asOf'[q] = now
      /\ \A p \in Requests \ {q} : pc'[p] = pc[p] /\ asOf'[p] = asOf[p]
  BY DEF DeleteExpired, Goto, Issue
<1>2. \A p \in Requests : Inserted(p)' = Inserted(p) /\ KeyOf(p)' = KeyOf(p)
  BY <1>1 DEF Inserted, KeyOf
<1>3. \/ erasing' = erasing
      \/ /\ erasing' = erasing \cup {q}
         /\ Outdated(q) /\ \A p \in erasing : KeyOf(p) # KeyOf(q)
  BY DEF DeleteExpired, Erasing
<1>4. Clocks'
  BY <1>1 DEF Clocks
<1>5. Exclusive'
  BY <1>1, <1>2, <1>3 DEF Exclusive
<1>6. ErasesExpired'
  <2>1. Outdated(q) => record[KeyOf(q)] # None /\ record[KeyOf(q)].expiresAt <= now
    <3>1. Cutoff(q) \in Nat /\ Cutoff(q) <= now
      BY DEF Cutoff, Clocks
    <3>2. record[KeyOf(q)] # None => record[KeyOf(q)].expiresAt \in Nat
      BY KeyTyped DEF Row
    <3>3. QED
      BY <3>1, <3>2 DEF Outdated
  <2>2. QED
    BY <1>1, <1>2, <1>3, <2>1 DEF ErasesExpired
<1>7. Alone'
  BY <1>1, <1>2, <1>3 DEF Alone
<1>8. Remembered' /\ ExecutedOnce' /\ AnswersAgree' /\ RefusalsJustified' /\ RemembersOutcomes'
  BY <1>1, Untouched
<1>9. ConflictHasCause'
  BY <1>1, <1>2 DEF ConflictHasCause
<1>10. QED
  BY <1>4, <1>5, <1>6, <1>7, <1>8, <1>9

(* When a row goes in, whatever was executed under its key has expired.    *)
LEMMA InsertsAfterExpiry ==
  ASSUME IInv, NEW q \in Requests, record[KeyOf(q)] = None \/ q \in erasing,
         NEW e \in executions, e.key = KeyOf(q)
  PROVE  e.until <= now
<1>1. e.until <= now \/ (record[KeyOf(q)] # None /\ record[KeyOf(q)].expiresAt = e.until)
  BY DEF IInv, Remembered
<1>2. q \in erasing => record[KeyOf(q)].expiresAt <= now
  BY DEF IInv, ErasesExpired
<1>3. QED
  BY <1>1, <1>2

LEMMA Inserts == ASSUME IInv, TypeOK', NEW q \in Requests, Insert(q) PROVE IInv'
<1> USE DEF IInv, TypeOK, Steps
<1>1. /\ UNCHANGED <<now, record, holder, executions, sent, began, erasing, answer>>
      /\ pc[q] = "inserting" /\ asOf'[q] = now
      /\ \A p \in Requests \ {q} : asOf'[p] = asOf[p]
      /\ ~Blocked(q)
  BY DEF Insert, Issue
<1>2. \A p \in Requests : KeyOf(p)' = KeyOf(p)
  BY <1>1 DEF KeyOf
<1>3. \A p \in Requests : KeyOf(p) = KeyOf(q) => ~Inserted(p)
  BY <1>1 DEF Blocked, Reserving, Inserted
<1>4. Clocks'
  BY <1>1 DEF Clocks
<1>5. Remembered' /\ ExecutedOnce' /\ AnswersAgree' /\ RefusalsJustified' /\ RemembersOutcomes'
  BY <1>1, Untouched
<1>6. CASE InsertRow(q)
  <2>1. /\ pc'[q] = "executing" /\ since'[q] = now
        /\ \A p \in Requests \ {q} : pc'[p] = pc[p] /\ since'[p] = since[p]
        /\ record[KeyOf(q)] = None \/ q \in erasing
    BY <1>6 DEF InsertRow, Goto
  <2>2. \A p \in Requests \ {q} : Inserted(p)' = Inserted(p)
    BY <2>1 DEF Inserted
  <2>3. Exclusive'
    BY <1>1, <1>2, <1>3, <2>2 DEF Exclusive
  <2>4. ErasesExpired'
    BY <1>1, <1>2, <2>1 DEF ErasesExpired
  <2>5. Alone'
    <3>1. \A e \in executions : e.key = KeyOf(q) => e.until <= now
      BY <2>1, InsertsAfterExpiry
    <3>2. QED
      BY <1>1, <1>2, <2>1, <2>2, <3>1 DEF Alone
  <2>6. ConflictHasCause'
    BY <1>1, <1>2, <2>1 DEF ConflictHasCause
  <2>7. QED
    BY <1>4, <1>5, <2>3, <2>4, <2>5, <2>6
<1>7. CASE Conflict(q)
  <2>1. /\ pc'[q] = "looking" /\ UNCHANGED since
        /\ \A p \in Requests \ {q} : pc'[p] = pc[p]
        /\ record[KeyOf(q)] # None /\ q \notin erasing
    BY <1>7 DEF Conflict, Goto
  <2>2. \A p \in Requests : Inserted(p)' = Inserted(p)
    BY <1>1, <2>1 DEF Inserted
  <2>3. Exclusive'
    BY <1>1, <1>2, <2>2 DEF Exclusive
  <2>4. ErasesExpired'
    BY <1>1, <1>2, <2>1 DEF ErasesExpired
  <2>5. Alone'
    BY <1>1, <1>2, <2>1, <2>2 DEF Alone
  <2>6. ConflictHasCause'
    <3>1. \E e \in executions : e.key = KeyOf(q)
      BY <2>1, KeyTyped DEF RemembersOutcomes
    <3>2. QED
      BY <1>1, <1>2, <2>1, <3>1 DEF ConflictHasCause
  <2>7. QED
    BY <1>4, <1>5, <2>3, <2>4, <2>5, <2>6
<1>8. QED
  BY <1>6, <1>7 DEF Insert

LEMMA Commits == ASSUME IInv, TypeOK', NEW q \in Requests, Commit(q) PROVE IInv'
<1> USE DEF IInv, TypeOK, Steps
<1>1. /\ UNCHANGED <<now, sent, began, asOf, until, since>>
      /\ pc[q] = "committing" /\ pc'[q] = "done" /\ erasing' = erasing \ {q}
      /\ \A p \in Requests \ {q} : pc'[p] = pc[p]
      /\ executions' = executions \cup {Executed(q)}
      /\ record'[KeyOf(q)] = Outcome(q)
      /\ \A k \in Keys \ {KeyOf(q)} : record'[k] = record[k]
  BY KeyTyped DEF Commit, Goto
<1>2. \A p \in Requests : KeyOf(p)' = KeyOf(p) /\ KeyOf(p) \in Keys
  BY <1>1, KeyTyped DEF KeyOf
<1>3. Inserted(q) /\ ~Inserted(q)' /\ \A p \in Requests \ {q} : Inserted(p)' = Inserted(p)
  BY <1>1 DEF Inserted
<1>4. \A p \in Requests \ {q} : KeyOf(p) = KeyOf(q) => ~Inserted(p)
  BY <1>3 DEF Exclusive
<1>5. /\ Executed(q) \in Execution /\ Executed(q).key = KeyOf(q) /\ Executed(q).by = q
      /\ Executed(q).body = sent[q].body /\ Executed(q).at = since[q]
      /\ Executed(q).until = until[q]
  BY CommitTyped DEF Executed
<1>6. /\ Outcome(q) \in Row /\ Outcome(q) # None /\ Outcome(q).by = q
      /\ Outcome(q).body = sent[q].body /\ Outcome(q).state = "completed"
      /\ Outcome(q).expiresAt = until[q]
  <2>1. Outcome(q) \in Row
    BY CommitTyped
  <2>2. QED
    BY <2>1, NoneAssumption DEF Outcome
<1>7. Clocks'
  BY <1>1 DEF Clocks
<1>8. Exclusive'
  BY <1>1, <1>2, <1>3 DEF Exclusive
<1>9. \A p \in erasing \ {q} : KeyOf(p) # KeyOf(q)
  BY <1>3 DEF Alone, ErasesExpired, Exclusive
<1>10. ErasesExpired'
  BY <1>1, <1>2, <1>9 DEF ErasesExpired
<1>11. Alone'
  BY <1>1, <1>2, <1>3, <1>4, <1>5 DEF Alone
<1>12. \A e \in executions : e.key = KeyOf(q) => e.until <= since[q] /\ e.until <= now
  BY <1>3, InsertsAfterExpiry DEF Alone
<1>13. Remembered'
  BY <1>1, <1>2, <1>5, <1>6, <1>12 DEF Remembered, Execution
<1>14. ConflictHasCause'
  BY <1>1, <1>2 DEF ConflictHasCause
<1>15. ExecutedOnce'
  BY <1>1, <1>5, <1>12 DEF ExecutedOnce
<1>16. \/ answer'[q].kind = "own" /\ answer'[q].of = q
       \/ answer'[q].kind = "lost"
  BY TellTyped DEF Commit, Kinds
<1>17. \A p \in Requests \ {q} : answer'[p] = answer[p]
  BY TellTyped DEF Commit, Kinds
<1>18. AnswersAgree'
  BY <1>1, <1>2, <1>5, <1>16, <1>17 DEF AnswersAgree
<1>19. RefusalsJustified'
  BY <1>1, <1>2, <1>16, <1>17 DEF RefusalsJustified
<1>20. RemembersOutcomes'
  <2> SUFFICES ASSUME NEW k \in Keys, record'[k] # None
               PROVE  /\ record'[k].state = "completed"
                      /\ \E e \in executions' :
                           /\ e.key = k /\ e.by = record'[k].by
                           /\ e.body = record'[k].body /\ e.until = record'[k].expiresAt
    BY DEF RemembersOutcomes
  <2>1. CASE k = KeyOf(q)
    BY <1>1, <1>5, <1>6, <2>1
  <2>2. CASE k # KeyOf(q)
    BY <1>1, <2>2 DEF RemembersOutcomes
  <2>3. QED
    BY <2>1, <2>2
<1>21. QED
  BY <1>7, <1>8, <1>10, <1>11, <1>13, <1>14, <1>15, <1>18, <1>19, <1>20

LEMMA Purges == ASSUME IInv, TypeOK', NEW k \in Keys, Purge(k) PROVE IInv'
<1> USE DEF IInv, TypeOK
<1>1. /\ UNCHANGED <<now, executions, sent, pc, began, asOf, erasing, until, since, answer>>
      /\ record[k] # None /\ record[k].expiresAt <= now
      /\ \A p \in erasing : KeyOf(p) # k
      /\ record'[k] = None /\ \A l \in Keys \ {k} : record'[l] = record[l]
  <2>1. record[k] # None => record[k].expiresAt \in Nat
    BY DEF Row
  <2>2. QED
    BY <2>1 DEF Purge, Live, Erasing
<1>2. \A p \in Requests : /\ Inserted(p)' = Inserted(p) /\ KeyOf(p)' = KeyOf(p)
                           /\ KeyOf(p) \in Keys
  BY <1>1, KeyTyped DEF Inserted, KeyOf
<1>3. Clocks' /\ Exclusive' /\ ConflictHasCause'
  BY <1>1, <1>2 DEF Clocks, Exclusive, ConflictHasCause
<1>4. ErasesExpired'
  BY <1>1, <1>2 DEF ErasesExpired
<1>5. Alone'
  BY <1>1, <1>2 DEF Alone
<1>6. Remembered'
  BY <1>1 DEF Remembered, Execution
<1>7. ExecutedOnce' /\ AnswersAgree' /\ RefusalsJustified'
  BY <1>1, <1>2 DEF ExecutedOnce, AnswersAgree, RefusalsJustified
<1>8. RemembersOutcomes'
  BY <1>1 DEF RemembersOutcomes
<1>9. QED
  BY <1>3, <1>4, <1>5, <1>6, <1>7, <1>8

LEMMA Ticks == ASSUME IInv, TypeOK', Tick PROVE IInv'
<1> USE DEF IInv, TypeOK
<1>1. /\ UNCHANGED <<record, executions, sent, pc, began, asOf, erasing, until, since, answer>>
      /\ now' = now + 1
  BY DEF Tick
<1>2. \A p \in Requests : Inserted(p)' = Inserted(p) /\ KeyOf(p)' = KeyOf(p)
  BY <1>1 DEF Inserted, KeyOf
<1>3. Clocks' /\ Exclusive' /\ ConflictHasCause'
  BY <1>1, <1>2 DEF Clocks, Exclusive, ConflictHasCause
<1>4. ErasesExpired'
  <2>1. \A q \in erasing : record[KeyOf(q)] # None => record[KeyOf(q)].expiresAt \in Nat
    BY KeyTyped DEF Row
  <2>2. QED
    BY <1>1, <1>2, <2>1 DEF ErasesExpired
<1>5. Alone'
  BY <1>1, <1>2 DEF Alone
<1>6. \A e \in executions : e.until \in Nat
  BY DEF Execution
<1>7. Remembered'
  BY <1>1, <1>6 DEF Remembered
<1>8. ExecutedOnce' /\ AnswersAgree' /\ RemembersOutcomes'
  BY <1>1, <1>2 DEF ExecutedOnce, AnswersAgree, RemembersOutcomes
<1>9. RefusalsJustified'
  BY <1>1, <1>2, <1>6 DEF RefusalsJustified
<1>10. QED
  BY <1>3, <1>4, <1>5, <1>7, <1>8, <1>9

(* The inductive invariant.                                                *)
THEOREM Invariant == Spec => []IInv
<1>1. Init => IInv
  <2>1. Init => TypeOK
    BY TrafficAssumption DEF Init, TypeOK, Steps, Kinds
  <2>2. QED
    BY <2>1 DEF Init, IInv, TypeOK, Clocks, Exclusive, ErasesExpired, Alone, Remembered,
       ConflictHasCause, ExecutedOnce, AnswersAgree, RefusalsJustified, RemembersOutcomes, Inserted
<1>2. IInv /\ TypeOK' /\ [Next]_vars => IInv'
  <2> SUFFICES ASSUME IInv, TypeOK', [Next]_vars PROVE IInv'
    OBVIOUS
  <2>1. ASSUME NEW q \in Requests, Lookup(q) \/ Advance(q) \/ Fail(q) PROVE IInv'
    BY <2>1, LooksUp, Moves, Deletes, Inserts, LooksAgain, Commits, Fails DEF Advance
  <2>2. CASE UNCHANGED vars
    BY <2>2 DEF vars, IInv, TypeOK, Clocks, Exclusive, ErasesExpired, Alone, Remembered,
       ConflictHasCause, ExecutedOnce, AnswersAgree, RefusalsJustified, RemembersOutcomes,
       Inserted, KeyOf
  <2>3. QED
    BY <2>1, <2>2, Purges, Ticks DEF Next
<1>3. QED
  BY <1>1, <1>2, TypeCorrect, PTL DEF Spec

(* A command takes effect at most once while its key is remembered.        *)
THEOREM ExecutedOnceCorrect == Spec => []ExecutedOnce
<1>1. IInv => ExecutedOnce
  BY DEF IInv
<1>2. QED
  BY <1>1, Invariant, PTL

(* Every outcome a client is told is that of a committed execution of the  *)
(* command it sent.                                                        *)
THEOREM AnswersCorrect == Spec => []AnswersAgree
<1>1. IInv => AnswersAgree
  BY DEF IInv
<1>2. QED
  BY <1>1, Invariant, PTL

(* "reused" and "busy" are told only for the reasons they name.            *)
THEOREM RefusalsCorrect == Spec => []RefusalsJustified
<1>1. IInv => RefusalsJustified
  BY DEF IInv
<1>2. QED
  BY <1>1, Invariant, PTL

(* No failure leaves an unfinished record behind.                          *)
THEOREM RemembersCorrect == Spec => []RemembersOutcomes
<1>1. IInv => RemembersOutcomes
  BY DEF IInv
<1>2. QED
  BY <1>1, Invariant, PTL

(* One effect and one memory of it, for every key.                         *)
THEOREM OutcomeCorrect == Spec => []OneOutcome
<1>1. IInv => OneOutcome
  BY DEF IInv, OneOutcome
<1> QED
  BY <1>1, Invariant, PTL

(* Every answer has its reason.                                            *)
THEOREM AnswersHaveReason == Spec => []AnswersJustified
<1>1. IInv => AnswersJustified
  BY DEF IInv, AnswersJustified
<1> QED
  BY <1>1, Invariant, PTL
=============================================================================
