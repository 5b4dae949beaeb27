------------------------ MODULE ResumeEditingProofs ------------------------
(***************************************************************************)
(* Proofs about ResumeEditing for every set of tabs and uploads and every  *)
(* bound on saves, calls, faults and pages left.                           *)
(***************************************************************************)
EXTENDS ResumeEditing, FiniteSetTheorems, TLAPS

(* What the requests and the row say of each other: every version is the   *)
(* outcome of one accepted save, and saves are sent in order.              *)
Accepted == {r \in Saves : request[r] = "accepted"}

Counted ==
  /\ newest = Cardinality(Accepted)
  /\ \A r \in Saves : r > saves => request[r] = "unused"

LEMMA SavesFinite ==
  /\ IsFiniteSet(Saves) /\ Cardinality(Saves) = MaxSaves
  /\ MaxSaves \in Nat
BY EditingAssumption, FS_Interval DEF Saves

LEMMA AcceptedFinite ==
  /\ IsFiniteSet(Accepted) /\ IsFiniteSet(Accepted')
  /\ Cardinality(Accepted) \in Nat /\ Cardinality(Accepted') \in Nat
<1>1. Accepted \subseteq Saves /\ Accepted' \subseteq Saves
  BY DEF Accepted
<1>2. QED
  BY <1>1, SavesFinite, FS_Subset, FS_CardinalityType

(* A save that is still to be executed leaves room for its version. *)
LEMMA RoomForVersion ==
  ASSUME TypeOK, Counted, NEW r \in Saves, request[r] = "sent"
  PROVE  newest + 1 \in Saves
<1>1. Accepted \subseteq Saves \ {r}
  BY DEF Accepted
<1>2. IsFiniteSet(Saves \ {r}) /\ Cardinality(Saves \ {r}) = MaxSaves - 1
  BY SavesFinite, FS_RemoveElement
<1>3. Cardinality(Accepted) <= MaxSaves - 1
  BY <1>1, <1>2, FS_Subset
<1>4. newest \in Nat /\ newest <= MaxSaves - 1
  BY <1>3, AcceptedFinite DEF Counted
<1>5. QED
  BY <1>4, SavesFinite DEF Saves

-----------------------------------------------------------------------------
(* The calls of the upload control, the control and the editor's values    *)
(* keep their shapes.                                                      *)
CallsOK ==
  /\ pc \in [Tabs \X Calls -> {"none", "creating", "putting", "completing", "polling"}]
  /\ candidate \in [Tabs \X Calls -> Image] /\ polls \in [Tabs \X Calls -> Nat]
  /\ orphan \subseteq Tabs \X Calls /\ busy \subseteq Tabs

LEMMA BeginTyped ==
  ASSUME CallsOK, NEW t \in Tabs, NEW label \in {"creating", "completing"}, NEW u \in Image,
         Begin(t, label, u)
  PROVE  CallsOK'
BY DEF CallsOK, Begin

LEMMA EndTyped ==
  ASSUME CallsOK, NEW p \in Tabs \X Calls, End(p)
  PROVE  CallsOK'
<1>1. p[1] \in Tabs /\ None \in Image /\ 0 \in Nat
  BY DEF Image
<1>2. QED
  BY <1>1 DEF CallsOK, End

LEMMA RenderTyped ==
  ASSUME TypeOK, NEW t \in Tabs, Render(t)
  PROVE  /\ CallsOK'
         /\ pending' \in [Tabs -> Image] /\ storage' \in [Tabs -> Image] /\ resumed' \subseteq Tabs
<1>1. CallsOK /\ storage[t] \in Image
  BY DEF TypeOK, CallsOK
<1>2. CASE storage[t] # None /\ t \notin resumed
  <2>1. Begin(t, "completing", storage[t])
    BY <1>2 DEF Render
  <2>2. CallsOK'
    BY <1>1, <2>1, BeginTyped
  <2>3. QED
    BY <1>1, <1>2, <2>2 DEF Render, TypeOK
<1>3. CASE ~(storage[t] # None /\ t \notin resumed)
  BY <1>3 DEF Render, TypeOK, CallsOK, calls, control
<1>4. QED
  BY <1>2, <1>3

LEMMA CompletedTyped ==
  ASSUME TypeOK, NEW u
  PROVE  Completed(u) \in [Uploads -> {"absent", "created", "processing", "moderation_pending",
                                       "approved", "rejected", "failed", "expired"}]
BY DEF TypeOK, Completed

(* Type correctness; newest stays within the versions because every save   *)
(* is executed at most once.                                               *)
LEMMA ServerTyped ==
  ASSUME TypeOK, Counted,
         \/ \E r \in Saves : Execute(r)
         \/ \E verdict \in {"approved", "rejected"} : Decide(verdict)
         \/ \E u \in Uploads : Sanitize(u) \/ ExpireUpload(u)
  PROVE  TypeOK'
<1>1. ASSUME NEW r \in Saves, Execute(r) PROVE TypeOK'
  <2>1. CASE Accept(r)
    <3>1. newest + 1 \in Saves
      BY <1>1, RoomForVersion DEF Execute
    <3>2. newest + 1 \in Versions /\ newest + 1 \in Nat
      BY <3>1 DEF Saves, Versions
    <3>3. body[r] \in Image /\ rowVersion + 1 \in Nat \ {0}
      BY DEF TypeOK
    <3>4. /\ imageOf' \in [Saves -> Image] /\ outcome' \in [Saves -> Versions]
          /\ request' \in [Saves -> {"unused", "sent", "accepted", "refused"}]
      BY <2>1, <3>1, <3>2, <3>3 DEF Accept, TypeOK
    <3>5. /\ publicationState' = "pending" /\ rowVersion' \in Nat \ {0}
          /\ newest' \in Versions /\ pendingVersion' \in Versions
      BY <2>1, <3>2, <3>3 DEF Accept
    <3>6. UNCHANGED <<publishedVersion, saves, ifMatch, body, basis>>
      BY <2>1 DEF Accept
    <3>7. QED
      BY <1>1, <3>4, <3>5, <3>6 DEF Execute, TypeOK, editor, calls, control, bounds
  <2>2. CASE Refuse(r)
    <3>1. request' \in [Saves -> {"unused", "sent", "accepted", "refused"}]
      BY <2>2 DEF Refuse, TypeOK
    <3>2. QED
      BY <1>1, <2>2, <3>1 DEF Execute, Refuse, TypeOK, row, editor, calls, control, bounds
  <2>3. QED
    BY <1>1, <2>1, <2>2 DEF Execute
<1>2. ASSUME NEW verdict \in {"approved", "rejected"}, Decide(verdict) PROVE TypeOK'
  <2>1. upload' \in [Uploads -> {"absent", "created", "processing", "moderation_pending",
                                 "approved", "rejected", "failed", "expired"}]
    BY <1>2 DEF Decide, TypeOK
  <2>2. /\ publicationState' \in {"published", "revision_required"}
        /\ rowVersion' \in Nat \ {0}
        /\ pendingVersion' \in Versions /\ publishedVersion' \in Versions
    BY <1>2, SavesFinite DEF Decide, TypeOK, Versions
  <2>3. QED
    BY <1>2, <2>1, <2>2 DEF Decide, TypeOK, sending, editor, calls, control, bounds
<1>3. ASSUME NEW u \in Uploads, Sanitize(u) PROVE TypeOK'
  BY <1>3 DEF Sanitize, TypeOK, row, sending, editor, calls, control, bounds
<1>4. ASSUME NEW u \in Uploads, ExpireUpload(u) PROVE TypeOK'
  BY <1>4 DEF ExpireUpload, Fault, TypeOK, row, sending, editor, calls, control
<1>5. QED
  BY <1>1, <1>2, <1>3, <1>4

LEMMA ControlTyped ==
  ASSUME TypeOK,
         \/ \E p \in Tabs \X Calls : Finishes(p) \/ Disconnect(p)
         \/ \E t \in Tabs : Choose(t) \/ Retry(t)
  PROVE  TypeOK'
<1> USE DEF CallsOK
<1>0. CallsOK /\ \A p \in Tabs \X Calls : p[1] \in Tabs /\ candidate[p] \in Image
  BY DEF TypeOK
<1>n. None \in Image
  BY DEF Image
<1>1. ASSUME NEW p \in Tabs \X Calls, CreateUpload(p) PROVE TypeOK'
  <2>1. CASE End(p) /\ UNCHANGED upload
    BY <1>0, <1>1, <2>1, EndTyped
       DEF TypeOK, CreateUpload, row, sending, editor, bounds
  <2>2. ASSUME NEW u \in Uploads,
               /\ upload' = [upload EXCEPT ![u] = "created"]
               /\ candidate' = [candidate EXCEPT ![p] = u]
               /\ pc' = [pc EXCEPT ![p] = "putting"]
               /\ UNCHANGED <<polls, orphan, busy>>
        PROVE  TypeOK'
    BY <1>1, <2>2 DEF TypeOK, CreateUpload, Image, row, sending, editor, bounds
  <2>3. QED
    BY <1>1, <2>1, <2>2 DEF CreateUpload
<1>2. ASSUME NEW p \in Tabs \X Calls, Put(p) PROVE TypeOK'
  <2>1. storage' \in [Tabs -> Image] /\ pending' \in [Tabs -> Image]
    BY <1>0, <1>2 DEF Put, TypeOK
  <2>2. QED
    BY <1>2, <2>1 DEF Put, TypeOK, row, sending, editor, bounds
<1>3. ASSUME NEW p \in Tabs \X Calls, CompleteUpload(p) PROVE TypeOK'
  <2>1. CallsOK'
    BY <1>0, <1>3, EndTyped DEF CompleteUpload
  <2>2. QED
    BY <1>3, <2>1, CompletedTyped DEF CompleteUpload, TypeOK, row, sending, editor, bounds
<1>4. ASSUME NEW p \in Tabs \X Calls, Forget(p)
      PROVE  storage' \in [Tabs -> Image] /\ pending' \in [Tabs -> Image] /\ resumed' \subseteq Tabs
  BY <1>0, <1>n, <1>4 DEF Forget, TypeOK
<1>5. ASSUME NEW p \in Tabs \X Calls, HandOver(p) PROVE TypeOK'
  <2>1. CallsOK'
    BY <1>0, <1>5, EndTyped DEF HandOver
  <2>2. image' \in [Tabs -> Image]
    BY <1>0, <1>5 DEF HandOver, TypeOK
  <2>3. QED
    BY <1>4, <1>5, <2>1, <2>2 DEF HandOver, TypeOK, row, sending, editor, bounds
<1>6. ASSUME NEW p \in Tabs \X Calls, GiveUp(p) PROVE TypeOK'
  <2>1. CallsOK'
    BY <1>0, <1>6, EndTyped DEF GiveUp
  <2>2. QED
    BY <1>4, <1>6, <2>1 DEF GiveUp, TypeOK, row, sending, editor, bounds
<1>7. ASSUME NEW p \in Tabs \X Calls, Poll(p) PROVE TypeOK'
  <2>1. CallsOK'
    BY <1>0, <1>7, EndTyped DEF Poll
  <2>2. QED
    BY <1>7, <2>1 DEF Poll, TypeOK, row, sending, editor, bounds
<1>8. ASSUME NEW p \in Tabs \X Calls, Disconnect(p) PROVE TypeOK'
  <2>1. CallsOK'
    BY <1>0, <1>8, EndTyped DEF Disconnect
  <2>2. upload' \in [Uploads -> {"absent", "created", "processing", "moderation_pending",
                                 "approved", "rejected", "failed", "expired"}]
    <3>1. \/ UNCHANGED upload
          \/ \E u \in Uploads : upload' = [upload EXCEPT ![u] = "created"]
          \/ upload' = Completed(candidate[p])
      BY <1>8 DEF Disconnect
    <3>2. ASSUME NEW u \in Uploads, upload' = [upload EXCEPT ![u] = "created"]
          PROVE  <2>2
      BY <3>2 DEF TypeOK
    <3>3. CASE UNCHANGED upload
      BY <3>3 DEF TypeOK
    <3>4. QED
      BY <3>1, <3>2, <3>3, CompletedTyped
  <2>3. faults' \in Nat /\ closes' = closes
    BY <1>8 DEF Disconnect, Fault, TypeOK
  <2>4. QED
    BY <1>8, <2>1, <2>2, <2>3 DEF Disconnect, TypeOK, row, sending, editor
<1>9. ASSUME NEW t \in Tabs, Choose(t) PROVE TypeOK'
  <2>1. CallsOK'
    BY <1>0, <1>n, <1>9, BeginTyped DEF Choose
  <2>2. QED
    BY <1>9, <2>1 DEF Choose, TypeOK, row, sending, editor, bounds
<1>10. ASSUME NEW t \in Tabs, Retry(t) PROVE TypeOK'
  <2>1. pending[t] \in Image
    BY DEF TypeOK
  <2>2. CallsOK'
    BY <1>0, <1>10, <2>1, BeginTyped DEF Retry
  <2>3. QED
    BY <1>10, <2>2 DEF Retry, TypeOK, row, sending, editor, bounds
<1>11. QED
  BY <1>1, <1>2, <1>3, <1>5, <1>6, <1>7, <1>8, <1>9, <1>10 DEF Finishes

LEMMA FormTyped ==
  ASSUME TypeOK
  PROVE  FormOf \in Versions /\ ImageIn(FormOf) \in Image
<1>1. FormOf \in Versions
  BY DEF TypeOK, FormOf
<1>2. FormOf # 0 => FormOf \in Saves
  BY <1>1, SavesFinite DEF Versions, Saves
<1>3. QED
  BY <1>1, <1>2 DEF TypeOK, ImageIn, Image

LEMMA EditorTyped ==
  ASSUME TypeOK,
         \E t \in Tabs : Load(t) \/ Type(t) \/ Submit(t) \/ Receive(t) \/ LoseAnswer(t) \/ Close(t)
  PROVE  TypeOK'
<1> USE DEF CallsOK
<1>1. ASSUME NEW t \in Tabs, Render(t)
      PROVE  /\ CallsOK'
             /\ pending' \in [Tabs -> Image] /\ storage' \in [Tabs -> Image] /\ resumed' \subseteq Tabs
  BY <1>1, RenderTyped
<1>2. ASSUME NEW t \in Tabs, Load(t) PROVE TypeOK'
  <2>1. /\ loaded' \in [Tabs -> Nat] /\ checking' \subseteq Tabs
        /\ source' \in [Tabs -> Versions] /\ image' \in [Tabs -> Image]
    BY <1>2, FormTyped DEF Load, TypeOK
  <2>2. QED
    BY <1>1, <1>2, <2>1 DEF Load, TypeOK, row, sending, bounds
<1>3. ASSUME NEW t \in Tabs, Type(t) PROVE TypeOK'
  BY <1>1, <1>3 DEF Type, TypeOK, row, sending, editor, bounds
<1>4. ASSUME NEW t \in Tabs, Submit(t) PROVE TypeOK'
  <2>1. saves + 1 \in Saves /\ saves + 1 \in Versions
    BY <1>4, SavesFinite DEF Submit, TypeOK, Saves, Versions
  <2>2. /\ request' \in [Saves -> {"unused", "sent", "accepted", "refused"}]
        /\ ifMatch' \in [Saves -> Nat] /\ body' \in [Saves -> Image]
        /\ basis' \in [Saves -> Versions]
        /\ waiting' \in [Tabs -> Versions \cup {Forever}]
    BY <1>4, <2>1 DEF Submit, TypeOK
  <2>3. saves' \in Versions /\ CallsOK' 
        /\ pending' \in [Tabs -> Image] /\ storage' \in [Tabs -> Image] /\ resumed' \subseteq Tabs
    BY <1>1, <1>4, <2>1 DEF Submit
  <2>4. UNCHANGED <<row, upload, outcome, loaded, checking, source, image, bounds>>
    BY <1>4 DEF Submit
  <2>5. QED
    BY <2>2, <2>3, <2>4 DEF TypeOK, row, bounds
<1>5. ASSUME NEW t \in Tabs, Receive(t) PROVE TypeOK'
  <2>1. 0 \in Versions
    BY SavesFinite DEF Versions
  <2>2. waiting' \in [Tabs -> Versions \cup {Forever}]
    BY <1>5, <2>1 DEF Receive, TypeOK
  <2>3. waiting[t] \in Saves
    BY <1>5 DEF Receive
  <2>4. /\ loaded' \in [Tabs -> Nat] /\ checking' \subseteq Tabs
        /\ source' \in [Tabs -> Versions] /\ image' \in [Tabs -> Image]
    BY <1>5, <2>3 DEF Receive, Show, TypeOK
  <2>5. QED
    BY <1>1, <1>5, <2>2, <2>4 DEF Receive, TypeOK, row, sending, bounds
<1>6. ASSUME NEW t \in Tabs, LoseAnswer(t) PROVE TypeOK'
  <2>1. 0 \in Versions
    BY SavesFinite DEF Versions
  <2>2. waiting' \in [Tabs -> Versions \cup {Forever}]
    BY <1>6, <2>1 DEF LoseAnswer, TypeOK
  <2>3. faults' \in Nat /\ closes' = closes
    BY <1>6 DEF LoseAnswer, Fault, TypeOK
  <2>4. QED
    BY <1>6, <2>2, <2>3 DEF LoseAnswer, TypeOK, row, sending, calls, control
<1>7. ASSUME NEW t \in Tabs, Close(t) PROVE TypeOK'
  <2>1. 0 \in Versions /\ None \in Image /\ 0 \in Nat
    BY SavesFinite DEF Versions, Image
  <2>2. /\ loaded' \in [Tabs -> Nat] /\ checking' \subseteq Tabs
        /\ source' \in [Tabs -> Versions] /\ image' \in [Tabs -> Image]
        /\ waiting' \in [Tabs -> Versions \cup {Forever}]
        /\ pending' \in [Tabs -> Image] /\ resumed' \subseteq Tabs /\ closes' \in Nat
    BY <1>7, <2>1 DEF Close, TypeOK
  <2>3. CallsOK'
    <3>1. Active(t) \subseteq Tabs \X Calls
      BY DEF Active
    <3>2. CASE orphan' = orphan \cup Active(t) /\ UNCHANGED <<pc, candidate, polls>>
      BY <1>7, <3>1, <3>2 DEF Close, TypeOK
    <3>3. CASE /\ pc' = [p \in Tabs \X Calls |-> IF p[1] = t THEN "none" ELSE pc[p]]
               /\ candidate' = [p \in Tabs \X Calls |-> IF p[1] = t THEN None ELSE candidate[p]]
               /\ polls' = [p \in Tabs \X Calls |-> IF p[1] = t THEN 0 ELSE polls[p]]
               /\ orphan' = orphan \ ({t} \X Calls)
      BY <1>7, <2>1, <3>3 DEF Close, TypeOK
    <3>4. QED
      BY <1>7, <3>2, <3>3 DEF Close
  <2>4. QED
    BY <1>7, <2>2, <2>3 DEF Close, TypeOK, row, sending
<1>8. QED
  BY <1>2, <1>3, <1>4, <1>5, <1>6, <1>7

-----------------------------------------------------------------------------
(* What a step may do to the row and the saves.                            *)
RowStep ==
  \/ UNCHANGED <<row, sending>>
  \/ \E r \in Saves : request[r] = "sent" /\ (Accept(r) \/ Refuse(r))
  \/ \E verdict \in {"approved", "rejected"} : Decide(verdict)
  \/ \E t \in Tabs : Submit(t)

LEMMA RowSteps ==
  ASSUME [Next]_vars
  PROVE  RowStep
<1>1. ASSUME NEW r \in Saves, Execute(r) PROVE RowStep
  BY <1>1 DEF Execute, RowStep
<1>2. ASSUME NEW u \in Uploads, Sanitize(u) \/ ExpireUpload(u) PROVE UNCHANGED <<row, sending>>
  BY <1>2 DEF Sanitize, ExpireUpload
<1>3. ASSUME NEW p \in Tabs \X Calls, Finishes(p) \/ Disconnect(p)
      PROVE  UNCHANGED <<row, sending>>
  BY <1>3 DEF Finishes, CreateUpload, Put, CompleteUpload, HandOver, GiveUp, Poll, Disconnect
<1>4. ASSUME NEW t \in Tabs,
             \/ Choose(t) \/ Retry(t) \/ Type(t) \/ Close(t)
             \/ Load(t) \/ Receive(t) \/ LoseAnswer(t)
      PROVE  UNCHANGED <<row, sending>>
  BY <1>4 DEF Choose, Retry, Type, Close, Load, Receive, LoseAnswer
<1>5. CASE UNCHANGED vars
  BY <1>5 DEF vars, row, sending, RowStep
<1>6. QED
  BY <1>1, <1>2, <1>3, <1>4, <1>5 DEF Next, Uses, RowStep

LEMMA CountedKept ==
  ASSUME TypeOK, Counted, [Next]_vars
  PROVE  Counted'
<1>1. CASE UNCHANGED <<row, sending>>
  BY <1>1 DEF Counted, Accepted, row, sending
<1>2. ASSUME NEW r \in Saves, request[r] = "sent", Accept(r) PROVE Counted'
  <2>1. /\ newest' = newest + 1 /\ saves' = saves
        /\ request' = [request EXCEPT ![r] = "accepted"]
    BY <1>2 DEF Accept
  <2>2. Accepted' = Accepted \cup {r} /\ r \notin Accepted
    BY <1>2, <2>1 DEF Accepted, TypeOK
  <2>3. Cardinality(Accepted') = Cardinality(Accepted) + 1
    BY <2>2, AcceptedFinite, FS_AddElement
  <2>4. \A q \in Saves : q > saves' => request'[q] = "unused"
    BY <1>2, <2>1 DEF Counted, TypeOK
  <2>5. QED
    BY <2>1, <2>3, <2>4 DEF Counted
<1>3. ASSUME NEW r \in Saves, request[r] = "sent", Refuse(r) PROVE Counted'
  <2>1. /\ newest' = newest /\ saves' = saves
        /\ request' = [request EXCEPT ![r] = "refused"]
    BY <1>3 DEF Refuse, row
  <2>2. Accepted' = Accepted
    BY <1>3, <2>1 DEF Accepted, TypeOK
  <2>3. \A q \in Saves : q > saves' => request'[q] = "unused"
    BY <1>3, <2>1 DEF Counted, TypeOK
  <2>4. QED
    BY <2>1, <2>2, <2>3 DEF Counted
<1>4. ASSUME NEW verdict \in {"approved", "rejected"}, Decide(verdict) PROVE Counted'
  BY <1>4 DEF Decide, sending, Counted, Accepted
<1>5. ASSUME NEW t \in Tabs, Submit(t) PROVE Counted'
  <2>1. /\ newest' = newest /\ saves' = saves + 1
        /\ request' = [request EXCEPT ![saves + 1] = "sent"]
        /\ saves \in Nat /\ saves + 1 \in Saves
    BY <1>5, SavesFinite DEF Submit, row, TypeOK, Versions, Saves
  <2>2. request[saves + 1] = "unused"
    BY <2>1 DEF Counted
  <2>3. Accepted' = Accepted
    BY <2>1, <2>2 DEF Accepted, TypeOK
  <2>4. \A q \in Saves : q > saves' => request'[q] = "unused"
    BY <2>1 DEF Counted, TypeOK, Saves
  <2>5. QED
    BY <2>1, <2>3, <2>4 DEF Counted
<1>6. QED
  BY <1>1, <1>2, <1>3, <1>4, <1>5, RowSteps DEF RowStep

(* Type correctness: the row, the saves, the tabs and the calls keep their *)
(* shapes, and no more versions are written than saves were sent.          *)
THEOREM TypeCorrect == Spec => [](TypeOK /\ Counted)
<1>1. Init => TypeOK /\ Counted
  <2> SUFFICES ASSUME Init PROVE TypeOK /\ Counted
    OBVIOUS
  <2>1. 0 \in Versions /\ None \in Image
    BY SavesFinite DEF Versions, Image
  <2>2. TypeOK
    BY <2>1 DEF Init, TypeOK
  <2>3. Accepted = {}
    BY DEF Init, Accepted
  <2>4. Counted
    BY <2>3, FS_EmptySet DEF Init, Counted
  <2>5. QED
    BY <2>2, <2>4
<1>2. TypeOK /\ Counted /\ [Next]_vars => TypeOK' /\ Counted'
  <2> SUFFICES ASSUME TypeOK, Counted, [Next]_vars PROVE TypeOK'
    BY CountedKept
  <2>1. CASE UNCHANGED vars
    BY <2>1 DEF TypeOK, vars, row, sending, editor, calls, control, bounds
  <2>2. QED
    BY <2>1, ServerTyped, ControlTyped, EditorTyped DEF Next, Uses
<1>3. QED
  BY <1>1, <1>2, PTL DEF Spec

-----------------------------------------------------------------------------
(* What a form, a save under way and an answer know of the row: none is    *)
(* ahead of it, and what is level with it was made from its newest         *)
(* version.  The editors show that version whatever state the row is in.   *)
NewestShown ==
  /\ IF pendingVersion # 0 THEN pendingVersion = newest ELSE publishedVersion = newest
  /\ publicationState = "pending" => pendingVersion # 0

Seen ==
  /\ \A t \in Tabs : /\ loaded[t] <= rowVersion
                     /\ loaded[t] = rowVersion => source[t] = newest
  /\ \A r \in Saves :
       /\ request[r] = "sent" =>
            /\ ifMatch[r] <= rowVersion
            /\ ifMatch[r] = rowVersion => basis[r] = newest
       /\ request[r] = "accepted" =>
            /\ ifMatch[r] + 1 <= rowVersion
            /\ ifMatch[r] + 1 = rowVersion => outcome[r] = newest

(* A step either leaves the row's version and the newest version alone or  *)
(* raises the former.                                                      *)
LEMMA VersionSteps ==
  ASSUME TypeOK, [Next]_vars
  PROVE  \/ rowVersion' = rowVersion /\ newest' = newest
         \/ rowVersion' = rowVersion + 1
BY RowSteps DEF RowStep, Accept, Refuse, Decide, Submit, row

LEMMA NewestShownKept ==
  ASSUME TypeOK, NewestShown, [Next]_vars
  PROVE  NewestShown'
<1>1. ASSUME NEW r \in Saves, Accept(r) PROVE NewestShown'
  <2>1. newest + 1 # 0
    BY SavesFinite DEF TypeOK, Versions
  <2>2. QED
    BY <1>1, <2>1 DEF Accept, NewestShown
<1>2. ASSUME NEW verdict \in {"approved", "rejected"}, Decide(verdict) PROVE NewestShown'
  BY <1>2 DEF Decide, NewestShown
<1>3. CASE UNCHANGED row
  BY <1>3 DEF row, NewestShown
<1>4. QED
  BY <1>1, <1>2, <1>3, RowSteps DEF RowStep, Refuse, Submit

(* What a step may do to the editor of a tab.                              *)
LEMMA TabSteps ==
  ASSUME TypeOK, [Next]_vars, NEW t \in Tabs
  PROVE  \/ loaded'[t] = loaded[t] /\ source'[t] = source[t]
         \/ loaded'[t] = 0
         \/ loaded'[t] = rowVersion /\ source'[t] = FormOf /\ UNCHANGED <<row, sending>>
         \/ /\ waiting[t] \in Saves /\ request[waiting[t]] = "accepted"
            /\ loaded'[t] = ifMatch[waiting[t]] + 1 /\ source'[t] = outcome[waiting[t]]
            /\ UNCHANGED <<row, sending>>
<1> DEFINE Goal == \/ loaded'[t] = loaded[t] /\ source'[t] = source[t]
                   \/ loaded'[t] = 0
                   \/ loaded'[t] = rowVersion /\ source'[t] = FormOf /\ UNCHANGED <<row, sending>>
                   \/ /\ waiting[t] \in Saves /\ request[waiting[t]] = "accepted"
                      /\ loaded'[t] = ifMatch[waiting[t]] + 1 /\ source'[t] = outcome[waiting[t]]
                      /\ UNCHANGED <<row, sending>>
<1>0. loaded \in [Tabs -> Nat] /\ source \in [Tabs -> Versions]
  BY DEF TypeOK
<1>1. ASSUME NEW u \in Tabs, Load(u) PROVE Goal
  BY <1>0, <1>1 DEF Load
<1>2. ASSUME NEW u \in Tabs, Receive(u) PROVE Goal
  BY <1>0, <1>2 DEF Receive, Show
<1>3. ASSUME NEW u \in Tabs, Close(u) PROVE Goal
  BY <1>0, <1>3 DEF Close
<1>4. ASSUME NEW u \in Tabs, Choose(u) \/ Retry(u) \/ Type(u) \/ Submit(u) \/ LoseAnswer(u)
      PROVE  UNCHANGED <<loaded, source>>
  BY <1>4 DEF Choose, Retry, Type, Submit, LoseAnswer, editor
<1>5. ASSUME NEW p \in Tabs \X Calls, Finishes(p) \/ Disconnect(p) PROVE UNCHANGED editor
  BY <1>5 DEF Finishes, CreateUpload, Put, CompleteUpload, HandOver, GiveUp, Poll, Disconnect
<1>6. ASSUME NEW u \in Uploads, Sanitize(u) \/ ExpireUpload(u) PROVE UNCHANGED editor
  BY <1>6 DEF Sanitize, ExpireUpload
<1>7. ASSUME NEW r \in Saves, Execute(r) PROVE UNCHANGED editor
  BY <1>7 DEF Execute
<1>8. ASSUME NEW verdict \in {"approved", "rejected"}, Decide(verdict) PROVE UNCHANGED editor
  BY <1>8 DEF Decide
<1>9. CASE UNCHANGED vars
  BY <1>9 DEF vars, editor
<1>10. QED
  BY <1>1, <1>2, <1>3, <1>4, <1>5, <1>6, <1>7, <1>8, <1>9 DEF Next, Uses, editor

LEMMA SeenKept ==
  ASSUME TypeOK, TypeOK', NewestShown, Seen, [Next]_vars
  PROVE  Seen'
<1>0. /\ rowVersion \in Nat \ {0} /\ rowVersion' \in Nat \ {0}
      /\ loaded \in [Tabs -> Nat] /\ ifMatch \in [Saves -> Nat] /\ newest \in Nat
  BY SavesFinite DEF TypeOK, Versions
<1>1. ASSUME NEW t \in Tabs
      PROVE  loaded'[t] <= rowVersion' /\ (loaded'[t] = rowVersion' => source'[t] = newest')
  <2>1. CASE loaded'[t] = loaded[t] /\ source'[t] = source[t]
    BY <1>0, <2>1, VersionSteps DEF Seen
  <2>2. CASE loaded'[t] = 0
    BY <1>0, <2>2
  <2>3. CASE loaded'[t] = rowVersion /\ source'[t] = FormOf /\ UNCHANGED <<row, sending>>
    BY <1>0, <2>3 DEF NewestShown, FormOf, row
  <2>4. CASE /\ waiting[t] \in Saves /\ request[waiting[t]] = "accepted"
             /\ loaded'[t] = ifMatch[waiting[t]] + 1 /\ source'[t] = outcome[waiting[t]]
             /\ UNCHANGED <<row, sending>>
    BY <1>0, <2>4 DEF Seen, row
  <2>5. QED
    BY <2>1, <2>2, <2>3, <2>4, TabSteps
<1>2. ASSUME NEW r \in Saves
      PROVE  /\ request'[r] = "sent" =>
                  /\ ifMatch'[r] <= rowVersion'
                  /\ ifMatch'[r] = rowVersion' => basis'[r] = newest'
             /\ request'[r] = "accepted" =>
                  /\ ifMatch'[r] + 1 <= rowVersion'
                  /\ ifMatch'[r] + 1 = rowVersion' => outcome'[r] = newest'
  <2> DEFINE Goal == <1>2!2
  <2>1. CASE /\ request'[r] = request[r] /\ ifMatch'[r] = ifMatch[r]
             /\ basis'[r] = basis[r] /\ outcome'[r] = outcome[r]
    BY <1>0, <2>1, VersionSteps DEF Seen
  <2>2. ASSUME NEW q \in Saves, request[q] = "sent", Accept(q), q = r PROVE <1>2!2
    <3>1. /\ ifMatch'[r] = rowVersion /\ rowVersion' = rowVersion + 1
          /\ request'[r] = "accepted" /\ outcome'[r] = newest'
      BY <2>2 DEF Accept, Claims, TypeOK
    <3>2. QED
      BY <1>0, <3>1
  <2>3. ASSUME NEW q \in Saves, Refuse(q), q = r PROVE request'[r] = "refused"
    BY <2>3 DEF Refuse, TypeOK
  <2>4. ASSUME NEW q \in Saves, Accept(q) \/ Refuse(q), q # r PROVE <2>1!1
    BY <2>4 DEF Accept, Refuse, TypeOK
  <2>5. ASSUME NEW t \in Tabs, Submit(t), r = saves + 1
        PROVE  <1>2!2
    <3>1. /\ request'[r] = "sent" /\ ifMatch'[r] = loaded[t] /\ basis'[r] = source[t]
          /\ rowVersion' = rowVersion /\ newest' = newest
      BY <2>5 DEF Submit, TypeOK, row
    <3>2. QED
      BY <1>0, <3>1 DEF Seen
  <2>6. ASSUME NEW t \in Tabs, Submit(t), r # saves + 1 PROVE <2>1!1
    BY <2>6 DEF Submit, TypeOK
  <2>7. ASSUME UNCHANGED sending PROVE <2>1!1
    BY <2>7 DEF sending
  <2>8. QED
    BY <2>1, <2>2, <2>3, <2>4, <2>5, <2>6, <2>7, RowSteps DEF RowStep, Decide
<1>3. QED
  BY <1>1, <1>2 DEF Seen

THEOREM SeenCorrect == Spec => [](NewestShown /\ Seen)
<1>1. Init => NewestShown /\ Seen
  BY DEF Init, NewestShown, Seen
<1>2. TypeOK /\ TypeOK' /\ NewestShown /\ Seen /\ [Next]_vars => NewestShown' /\ Seen'
  BY NewestShownKept, SeenKept
<1>3. QED
  BY <1>1, <1>2, TypeCorrect, PTL DEF Spec

(* A save that is taken was made from the newest version: no tab replaces  *)
(* what its owner has not seen there.                                      *)
THEOREM NoOverwrite == Spec => NoBlindOverwrite
<1>1. ASSUME TypeOK, Seen, [Next]_vars, newest' # newest
      PROVE  \E r \in Saves :
               request[r] = "sent" /\ request'[r] = "accepted" /\ basis[r] = newest
  <2>1. PICK r \in Saves : request[r] = "sent" /\ Accept(r)
    BY <1>1, RowSteps DEF RowStep, Refuse, Decide, Submit, row
  <2>2. request'[r] = "accepted" /\ ifMatch[r] = rowVersion
    BY <1>1, <2>1 DEF Accept, Claims, TypeOK
  <2>3. QED
    BY <1>1, <2>1, <2>2 DEF Seen
<1>2. TypeOK /\ Seen /\ [Next]_vars
        => [newest' # newest =>
              \E r \in Saves : request[r] = "sent" /\ request'[r] = "accepted"
                                 /\ basis[r] = newest]_vars
  BY <1>1
<1>3. QED
  BY <1>2, TypeCorrect, SeenCorrect, PTL DEF Spec, NoBlindOverwrite

-----------------------------------------------------------------------------
(* Images: once the server would bind an image it binds it until           *)
(* moderation rejects it.                                                  *)
Usable(m) == m # None => upload[m] \in {"moderation_pending", "approved", "rejected"}

ImagesUsable ==
  /\ \A t \in Tabs : Usable(image[t])
  /\ \A r \in Saves : Usable(body[r]) /\ Usable(imageOf[r])

LEMMA UploadSteps ==
  ASSUME TypeOK, [Next]_vars, NEW m \in Image, Usable(m)
  PROVE  Usable(m)'
<1> SUFFICES ASSUME m # None
             PROVE  upload'[m] \in {"moderation_pending", "approved", "rejected"}
  BY DEF Usable
<1>0. /\ m \in Uploads /\ upload[m] \in {"moderation_pending", "approved", "rejected"}
      /\ upload \in [Uploads -> {"absent", "created", "processing", "moderation_pending",
                                 "approved", "rejected", "failed", "expired"}]
  BY DEF Usable, Image, TypeOK
<1>1. CASE UNCHANGED upload
  BY <1>0, <1>1
<1>2. ASSUME NEW verdict \in {"approved", "rejected"}, Decide(verdict)
      PROVE  upload'[m] \in {"moderation_pending", "approved", "rejected"}
  BY <1>0, <1>2 DEF Decide
<1>3. ASSUME NEW u \in Uploads, Sanitize(u) \/ ExpireUpload(u)
      PROVE  upload'[m] \in {"moderation_pending", "approved", "rejected"}
  BY <1>0, <1>3 DEF Sanitize, ExpireUpload
<1>4. ASSUME NEW u, upload' = Completed(u)
      PROVE  upload'[m] \in {"moderation_pending", "approved", "rejected"}
  BY <1>0, <1>4 DEF Completed
<1>5. ASSUME NEW u \in Uploads, upload[u] = "absent", upload' = [upload EXCEPT ![u] = "created"]
      PROVE  upload'[m] \in {"moderation_pending", "approved", "rejected"}
  BY <1>0, <1>5
<1>6. ASSUME NEW p \in Tabs \X Calls, CreateUpload(p) \/ CompleteUpload(p) \/ Disconnect(p)
      PROVE  upload'[m] \in {"moderation_pending", "approved", "rejected"}
  BY <1>1, <1>4, <1>5, <1>6 DEF CreateUpload, CompleteUpload, Disconnect
<1>7. ASSUME NEW p \in Tabs \X Calls, Put(p) \/ HandOver(p) \/ GiveUp(p) \/ Poll(p)
      PROVE  UNCHANGED upload
  BY <1>7 DEF Put, HandOver, GiveUp, Poll
<1>8. ASSUME NEW t \in Tabs,
             \/ Choose(t) \/ Retry(t) \/ Type(t) \/ Submit(t) \/ Close(t)
             \/ Load(t) \/ Receive(t) \/ LoseAnswer(t)
      PROVE  UNCHANGED upload
  BY <1>8 DEF Choose, Retry, Type, Submit, Close, Load, Receive, LoseAnswer
<1>9. ASSUME NEW r \in Saves, Execute(r) PROVE UNCHANGED upload
  BY <1>9 DEF Execute
<1>10. CASE UNCHANGED vars
  BY <1>1, <1>10 DEF vars
<1>11. QED
  BY <1>1, <1>2, <1>3, <1>6, <1>7, <1>8, <1>9, <1>10 DEF Next, Finishes, Uses

(* Where the image of a form comes from.                                   *)
LEMMA ImageSteps ==
  ASSUME TypeOK, [Next]_vars, NEW t \in Tabs
  PROVE  \/ image'[t] \in {image[t], None, ImageIn(FormOf)}
         \/ waiting[t] \in Saves /\ image'[t] = body[waiting[t]]
         \/ \E p \in Tabs \X Calls : image'[t] = candidate[p] /\ IsMediaReady(candidate[p])
<1> DEFINE Goal == \/ image'[t] \in {image[t], None, ImageIn(FormOf)}
                   \/ waiting[t] \in Saves /\ image'[t] = body[waiting[t]]
                   \/ \E p \in Tabs \X Calls : image'[t] = candidate[p] /\ IsMediaReady(candidate[p])
<1>0. image \in [Tabs -> Image]
  BY DEF TypeOK
<1>1. ASSUME NEW u \in Tabs, Load(u) PROVE Goal
  BY <1>0, <1>1 DEF Load
<1>2. ASSUME NEW u \in Tabs, Receive(u) PROVE Goal
  BY <1>0, <1>2 DEF Receive, Show
<1>3. ASSUME NEW u \in Tabs, Close(u) PROVE Goal
  BY <1>0, <1>3 DEF Close
<1>4. ASSUME NEW p \in Tabs \X Calls, HandOver(p) PROVE Goal
  <2>1. IsMediaReady(candidate[p]) /\ p[1] \in Tabs
    BY <1>4 DEF HandOver
  <2>2. image'[t] = image[t] \/ image'[t] = candidate[p]
    BY <1>0, <1>4, <2>1 DEF HandOver
  <2>3. QED
    BY <2>1, <2>2
<1>5. ASSUME NEW u \in Tabs, Choose(u) \/ Retry(u) \/ Type(u) \/ Submit(u) \/ LoseAnswer(u)
      PROVE  UNCHANGED image
  BY <1>5 DEF Choose, Retry, Type, Submit, LoseAnswer
<1>6. ASSUME NEW p \in Tabs \X Calls,
             \/ CreateUpload(p) \/ Put(p) \/ CompleteUpload(p) \/ GiveUp(p) \/ Poll(p)
             \/ Disconnect(p)
      PROVE  UNCHANGED image
  BY <1>6 DEF CreateUpload, Put, CompleteUpload, GiveUp, Poll, Disconnect
<1>7. ASSUME NEW u \in Uploads, Sanitize(u) \/ ExpireUpload(u) PROVE UNCHANGED image
  BY <1>7 DEF Sanitize, ExpireUpload
<1>8. ASSUME NEW r \in Saves, Execute(r) PROVE UNCHANGED image
  BY <1>8 DEF Execute
<1>9. ASSUME NEW verdict \in {"approved", "rejected"}, Decide(verdict) PROVE UNCHANGED image
  BY <1>9 DEF Decide
<1>10. CASE UNCHANGED vars
  BY <1>10 DEF vars
<1>11. QED
  BY <1>1, <1>2, <1>3, <1>4, <1>5, <1>6, <1>7, <1>8, <1>9, <1>10 DEF Next, Finishes, Uses

LEMMA ImagesUsableKept ==
  ASSUME TypeOK, ImagesUsable, [Next]_vars
  PROVE  ImagesUsable'
<1>1. ASSUME NEW t \in Tabs PROVE Usable(image[t])'
  <2>1. PICK m : m = image'[t]
    OBVIOUS
  <2>2. m \in Image /\ Usable(m)
    <3>1. CASE m \in {image[t], None, ImageIn(FormOf)}
      <4>1. FormOf # 0 => FormOf \in Saves
        BY FormTyped, SavesFinite DEF Versions, Saves
      <4>2. Usable(ImageIn(FormOf)) /\ ImageIn(FormOf) \in Image
        BY <4>1, FormTyped DEF ImageIn, ImagesUsable, Usable
      <4>3. QED
        BY <3>1, <4>2 DEF ImagesUsable, Usable, TypeOK, Image
    <3>2. CASE waiting[t] \in Saves /\ m = body[waiting[t]]
      BY <3>2 DEF ImagesUsable, TypeOK
    <3>3. ASSUME NEW p \in Tabs \X Calls, m = candidate[p], IsMediaReady(candidate[p])
          PROVE  m \in Image /\ Usable(m)
      BY <3>3 DEF IsMediaReady, Usable, TypeOK
    <3>4. QED
      BY <2>1, <3>1, <3>2, <3>3, ImageSteps
  <2>3. Usable(m)'
    BY <2>2, UploadSteps
  <2>4. QED
    BY <2>1, <2>3 DEF Usable
<1>2. ASSUME NEW r \in Saves PROVE Usable(body[r])'
  <2>1. PICK m : m = body'[r]
    OBVIOUS
  <2>2. m \in Image /\ Usable(m)
    <3>1. CASE UNCHANGED body
      BY <2>1, <3>1 DEF ImagesUsable, TypeOK
    <3>2. ASSUME NEW t \in Tabs, Submit(t) PROVE m \in {body[r], image[t]}
      BY <2>1, <3>2 DEF Submit, TypeOK
    <3>3. QED
      BY <3>1, <3>2, RowSteps DEF RowStep, Accept, Refuse, Decide, sending, ImagesUsable, TypeOK
  <2>3. Usable(m)'
    BY <2>2, UploadSteps
  <2>4. QED
    BY <2>1, <2>3 DEF Usable
<1>3. ASSUME NEW v \in Saves PROVE Usable(imageOf[v])'
  <2>1. PICK m : m = imageOf'[v]
    OBVIOUS
  <2>2. m \in Image /\ Usable(m)
    <3>1. CASE UNCHANGED imageOf
      BY <2>1, <3>1 DEF ImagesUsable, TypeOK
    <3>2. ASSUME NEW r \in Saves, Accept(r) PROVE m \in {imageOf[v], body[r]}
      BY <2>1, <3>2 DEF Accept, TypeOK
    <3>3. QED
      BY <3>1, <3>2, RowSteps DEF RowStep, Refuse, Decide, Submit, row, ImagesUsable, TypeOK
  <2>3. Usable(m)'
    BY <2>2, UploadSteps
  <2>4. QED
    BY <2>1, <2>3 DEF Usable
<1>4. QED
  BY <1>1, <1>2, <1>3 DEF ImagesUsable

(* Every image of a form is one the server binds, or bound until it was    *)
(* rejected: those the control hands over, those a version already shows   *)
(* and those an answer puts back.                                          *)
THEOREM FormImageCorrect == Spec => []FormImageUsable
<1>1. Init => ImagesUsable
  BY DEF Init, ImagesUsable, Usable
<1>2. TypeOK /\ ImagesUsable /\ [Next]_vars => ImagesUsable'
  BY ImagesUsableKept
<1>3. ImagesUsable => FormImageUsable
  BY DEF ImagesUsable, Usable, FormImageUsable
<1>4. QED
  BY <1>1, <1>2, <1>3, TypeCorrect, PTL DEF Spec

-----------------------------------------------------------------------------
(* A tab is busy only with a call of the page it shows.                    *)
OrphansWork == \A p \in orphan : pc[p] # "none"

Working(t) == \E p \in Active(t) : p \notin orphan

LEMMA BeginWorks ==
  ASSUME TypeOK, OrphansWork, BusyMeansWork, NEW t \in Tabs,
         NEW label \in {"creating", "completing"}, NEW u, Begin(t, label, u)
  PROVE  OrphansWork' /\ BusyMeansWork'
<1>1. PICK c \in Calls :
        /\ pc[<<t, c>>] = "none"
        /\ pc' = [pc EXCEPT ![<<t, c>>] = label]
        /\ busy' = busy \cup {t} /\ orphan' = orphan
  BY DEF Begin
<1>2. <<t, c>> \in Tabs \X Calls /\ <<t, c>> \notin orphan
  BY <1>1 DEF OrphansWork
<1>3. /\ pc'[<<t, c>>] # "none"
      /\ \A p \in Tabs \X Calls : pc[p] # "none" => pc'[p] # "none"
  BY <1>1, <1>2 DEF TypeOK
<1>4. OrphansWork'
  BY <1>1, <1>3 DEF OrphansWork, TypeOK
<1>5. ASSUME NEW v \in Tabs, v \in busy' PROVE \E p \in Active(v)' : p \notin orphan'
  <2>1. CASE v = t
    BY <1>1, <1>2, <1>3, <2>1 DEF Active
  <2>2. CASE v # t
    <3>1. PICK p \in Active(v) : p \notin orphan
      BY <1>1, <1>5, <2>2 DEF BusyMeansWork
    <3>2. p \in Active(v)'
      BY <1>3, <3>1 DEF Active
    <3>3. QED
      BY <1>1, <3>1, <3>2
  <2>3. QED
    BY <2>1, <2>2
<1>6. QED
  BY <1>4, <1>5 DEF BusyMeansWork

LEMMA EndWorks ==
  ASSUME TypeOK, OrphansWork, BusyMeansWork, NEW p \in Tabs \X Calls, End(p)
  PROVE  OrphansWork' /\ BusyMeansWork'
<1>1. /\ pc' = [pc EXCEPT ![p] = "none"] /\ orphan' = orphan \ {p}
      /\ busy' = IF p \in orphan THEN busy ELSE busy \ {p[1]}
  BY DEF End
<1>2. \A q \in Tabs \X Calls : q # p => pc'[q] = pc[q]
  BY <1>1 DEF TypeOK
<1>3. OrphansWork'
  BY <1>1, <1>2 DEF OrphansWork, TypeOK
<1>4. ASSUME NEW v \in Tabs, v \in busy' PROVE \E q \in Active(v)' : q \notin orphan'
  <2>1. PICK q \in Active(v) : q \notin orphan
    BY <1>1, <1>4 DEF BusyMeansWork
  <2>2. q # p
    BY <1>1, <1>4, <2>1 DEF Active
  <2>3. q \in Active(v)' /\ q \notin orphan'
    BY <1>1, <1>2, <2>1, <2>2 DEF Active
  <2>4. QED
    BY <2>3
<1>5. QED
  BY <1>3, <1>4 DEF BusyMeansWork

(* A call that only moves on keeps its tab busy.                           *)
LEMMA MoveWorks ==
  ASSUME TypeOK, OrphansWork, BusyMeansWork, UNCHANGED <<orphan, busy>>,
         \A p \in Tabs \X Calls : pc[p] # "none" => pc'[p] # "none"
  PROVE  OrphansWork' /\ BusyMeansWork'
<1>1. OrphansWork'
  BY DEF OrphansWork, TypeOK
<1>2. \A v \in Tabs : Active(v) \subseteq Active(v)'
  BY DEF Active
<1>3. QED
  BY <1>1, <1>2 DEF BusyMeansWork

LEMMA RenderWorks ==
  ASSUME TypeOK, OrphansWork, BusyMeansWork, NEW t \in Tabs, Render(t)
  PROVE  OrphansWork' /\ BusyMeansWork'
<1>1. CASE storage[t] # None /\ t \notin resumed
  BY <1>1, BeginWorks DEF Render
<1>2. CASE ~(storage[t] # None /\ t \notin resumed)
  BY <1>2, MoveWorks DEF Render, calls, control
<1>3. QED
  BY <1>1, <1>2

LEMMA CloseWorks ==
  ASSUME TypeOK, OrphansWork, BusyMeansWork, NEW t \in Tabs, Close(t)
  PROVE  OrphansWork' /\ BusyMeansWork'
<1>1. CASE orphan' = orphan \cup Active(t) /\ UNCHANGED <<pc, candidate, polls>>
  <2>1. OrphansWork'
    BY <1>1 DEF OrphansWork, Active
  <2>2. ASSUME NEW v \in Tabs, v \in busy' PROVE \E p \in Active(v)' : p \notin orphan'
    <3>1. v # t /\ v \in busy
      BY <2>2 DEF Close
    <3>2. PICK p \in Active(v) : p \notin orphan
      BY <3>1 DEF BusyMeansWork
    <3>3. p \in Active(v)' /\ p \notin Active(t)
      BY <1>1, <3>1, <3>2 DEF Active
    <3>4. QED
      BY <1>1, <3>2, <3>3
  <2>3. QED
    BY <2>1, <2>2 DEF BusyMeansWork
<1>2. CASE /\ pc' = [p \in Tabs \X Calls |-> IF p[1] = t THEN "none" ELSE pc[p]]
           /\ orphan' = orphan \ ({t} \X Calls)
  <2>1. ASSUME NEW p \in orphan' PROVE pc'[p] # "none"
    <3>1. p \in Tabs \X Calls /\ p \in orphan /\ p[1] # t
      BY <1>2, <2>1 DEF TypeOK
    <3>2. QED
      BY <1>2, <3>1 DEF OrphansWork
  <2>2. ASSUME NEW v \in Tabs, v \in busy' PROVE \E p \in Active(v)' : p \notin orphan'
    <3>1. v # t /\ v \in busy
      BY <2>2 DEF Close
    <3>2. PICK p \in Active(v) : p \notin orphan
      BY <3>1 DEF BusyMeansWork
    <3>3. p \in Tabs \X Calls /\ p[1] = v
      BY <3>2 DEF Active
    <3>4. p \in Active(v)' /\ p \notin orphan'
      BY <1>2, <3>1, <3>2, <3>3 DEF Active
    <3>5. QED
      BY <3>4
  <2>3. QED
    BY <2>1, <2>2 DEF OrphansWork, BusyMeansWork
<1>3. QED
  BY <1>1, <1>2 DEF Close

LEMMA WorkKept ==
  ASSUME TypeOK, OrphansWork, BusyMeansWork, [Next]_vars
  PROVE  OrphansWork' /\ BusyMeansWork'
<1>1. ASSUME NEW t \in Tabs, Load(t) \/ Type(t) \/ Submit(t) \/ Receive(t) PROVE Render(t)
  BY <1>1 DEF Load, Type, Submit, Receive
<1>2. ASSUME NEW t \in Tabs, Choose(t) \/ Retry(t) PROVE OrphansWork' /\ BusyMeansWork'
  BY <1>2, BeginWorks DEF Choose, Retry
<1>3. ASSUME NEW p \in Tabs \X Calls, Finishes(p) \/ Disconnect(p), ~End(p)
      PROVE  OrphansWork' /\ BusyMeansWork'
  <2>1. UNCHANGED <<orphan, busy>>
    BY <1>3 DEF Finishes, CreateUpload, Put, CompleteUpload, HandOver, GiveUp, Poll, Disconnect
  <2>2. pc' = pc \/ \E label \in {"putting", "completing", "polling"} :
                      pc' = [pc EXCEPT ![p] = label]
    BY <1>3 DEF Finishes, CreateUpload, Put, CompleteUpload, HandOver, GiveUp, Poll, Disconnect
  <2>3. \A q \in Tabs \X Calls : pc[q] # "none" => pc'[q] # "none"
    BY <2>2 DEF TypeOK
  <2>4. QED
    BY <2>1, <2>3, MoveWorks
<1>4. ASSUME NEW t \in Tabs, LoseAnswer(t) PROVE UNCHANGED <<calls, control>>
  BY <1>4 DEF LoseAnswer
<1>5. ASSUME NEW r \in Saves, Execute(r) PROVE UNCHANGED <<calls, control>>
  BY <1>5 DEF Execute
<1>6. ASSUME NEW verdict \in {"approved", "rejected"}, Decide(verdict)
      PROVE  UNCHANGED <<calls, control>>
  BY <1>6 DEF Decide
<1>7. ASSUME NEW u \in Uploads, Sanitize(u) \/ ExpireUpload(u) PROVE UNCHANGED <<calls, control>>
  BY <1>7 DEF Sanitize, ExpireUpload
<1>8. ASSUME UNCHANGED <<calls, control>> \/ UNCHANGED vars
      PROVE  OrphansWork' /\ BusyMeansWork'
  BY <1>8, MoveWorks DEF calls, control, vars
<1>9. QED
  BY <1>1, <1>2, <1>3, <1>4, <1>5, <1>6, <1>7, <1>8, EndWorks, RenderWorks, CloseWorks
     DEF Next, Uses

(* However many calls run in a tab and however they end: while it is busy  *)
(* one of them belongs to the page it shows, and will free it.             *)
THEOREM BusyCorrect == Spec => []BusyMeansWork
<1>1. Init => OrphansWork /\ BusyMeansWork
  BY DEF Init, OrphansWork, BusyMeansWork
<1>2. TypeOK /\ OrphansWork /\ BusyMeansWork /\ [Next]_vars => OrphansWork' /\ BusyMeansWork'
  BY WorkKept
<1>3. QED
  BY <1>1, <1>2, TypeCorrect, PTL DEF Spec
=============================================================================
