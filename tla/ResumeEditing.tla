---------------------------- MODULE ResumeEditing ----------------------------
(***************************************************************************)
(* An owner edits one resume, or profile, in several tabs, and uploads the *)
(* image it shows.                                                         *)
(*                                                                         *)
(*  - frontend/src/components/resume-editor.tsx, profile-editor.tsx: the   *)
(*    editor loads the row once and saves it with If-Match.                *)
(*  - frontend/src/components/media-upload.tsx, lib/media-upload.ts: the   *)
(*    upload control, which remembers an upload in sessionStorage and      *)
(*    finishes it in one or several asynchronous calls of finishUpload().  *)
(*  - backend .../profiles.service.ts and .../files.service.ts: what the   *)
(*    requests of both do.  Moderation decides a version, and the files    *)
(*    worker an upload, at any time or never (Moderation, MediaPipeline).  *)
(*                                                                         *)
(* A save is executed at any time after it was sent, also when its page is *)
(* gone.  The requests of the upload control are executed when they are    *)
(* answered: what they read only moves forward.  The session is present in *)
(* every tab (BrowserSession is about that), and the two editors are the   *)
(* same state machine.                                                     *)
(***************************************************************************)
EXTENDS Naturals

CONSTANTS
  Tabs,
  Uploaders,     \* tabs in which images are uploaded
  Uploads,       \* upload sessions, and the image each may become
  POLL_ATTEMPTS, \* polls of finishUpload
  MaxSaves,      \* bound: saves, and versions of the resume
  MaxFinishers,  \* bound: calls of upload() and finishUpload() under way in a tab
  MaxFaults,     \* bound: lost requests and answers, sessions that expire
  MaxCloses,     \* bound: pages left or reloaded
  None           \* no image, no upload

ASSUME EditingAssumption ==
  /\ Uploaders \subseteq Tabs /\ None \notin Uploads
  /\ POLL_ATTEMPTS \in Nat \ {0} /\ MaxFinishers \in Nat \ {0}
  /\ MaxSaves \in Nat /\ MaxFaults \in Nat /\ MaxCloses \in Nat

VARIABLES
  publicationState, rowVersion, pendingVersion, publishedVersion, \* the root
  newest,        \* versions submitted: 1 .. newest
  imageOf,       \* the image of a version
  upload         \* upload session and media object, by their public state

VARIABLES
  saves,         \* saves sent: 1 .. saves
  request,       \* what became of each
  ifMatch, body, \* the version and the image it carries
  basis,         \* history: the version its form was loaded from
  outcome        \* the version it created

VARIABLES
  loaded,        \* per tab: rowVersion of the row it shows, 0 while loading
  checking,      \* tabs that show the row as under review
  source, image, \* per tab: the version its form was loaded from, its image
  waiting        \* per tab: the save it waits for, 0 for none

VARIABLES
  pc, candidate, polls, \* per tab and call: finishUpload, or upload before it
  orphan,        \* calls whose page is gone
  busy,          \* tabs whose upload control is busy
  pending,       \* per tab: upload the control offers to finish
  storage,       \* per tab: upload remembered in sessionStorage
  resumed,       \* tabs that have taken the remembered upload up
  faults, closes

row == <<publicationState, rowVersion, pendingVersion, publishedVersion, newest, imageOf>>
sending == <<saves, request, ifMatch, body, basis, outcome>>
editor == <<loaded, checking, source, waiting>>
calls == <<pc, candidate, polls, orphan>>
control == <<busy, pending, storage, resumed>>
bounds == <<faults, closes>>
vars == <<row, upload, sending, editor, image, calls, control, bounds>>

Saves == 1 .. MaxSaves
Versions == 0 .. MaxSaves
Calls == 1 .. MaxFinishers
Image == Uploads \cup {None}
Forever == MaxSaves + 1 \* the answer a tab waits for in vain

TypeOK ==
  /\ publicationState \in {"draft", "pending", "published", "revision_required"}
  /\ rowVersion \in Nat \ {0} /\ newest \in Versions
  /\ pendingVersion \in Versions /\ publishedVersion \in Versions
  /\ imageOf \in [Saves -> Image]
  /\ upload \in [Uploads -> {"absent", "created", "processing", "moderation_pending",
                             "approved", "rejected", "failed", "expired"}]
  /\ saves \in Versions /\ request \in [Saves -> {"unused", "sent", "accepted", "refused"}]
  /\ ifMatch \in [Saves -> Nat] /\ body \in [Saves -> Image]
  /\ basis \in [Saves -> Versions] /\ outcome \in [Saves -> Versions]
  /\ loaded \in [Tabs -> Nat] /\ checking \subseteq Tabs /\ source \in [Tabs -> Versions]
  /\ image \in [Tabs -> Image] /\ waiting \in [Tabs -> Versions \cup {Forever}]
  /\ pc \in [Tabs \X Calls -> {"none", "creating", "putting", "completing", "polling"}]
  /\ candidate \in [Tabs \X Calls -> Image] /\ polls \in [Tabs \X Calls -> Nat]
  /\ orphan \subseteq Tabs \X Calls
  /\ busy \subseteq Tabs /\ pending \in [Tabs -> Image] /\ storage \in [Tabs -> Image]
  /\ resumed \subseteq Tabs /\ faults \in Nat /\ closes \in Nat

Init ==
  /\ publicationState = "draft" /\ rowVersion = 1 /\ newest = 0
  /\ pendingVersion = 0 /\ publishedVersion = 0
  /\ imageOf = [v \in Saves |-> None] /\ upload = [u \in Uploads |-> "absent"]
  /\ saves = 0 /\ request = [r \in Saves |-> "unused"]
  /\ ifMatch = [r \in Saves |-> 0] /\ body = [r \in Saves |-> None]
  /\ basis = [r \in Saves |-> 0] /\ outcome = [r \in Saves |-> 0]
  /\ loaded = [t \in Tabs |-> 0] /\ checking = {} /\ source = [t \in Tabs |-> 0]
  /\ image = [t \in Tabs |-> None] /\ waiting = [t \in Tabs |-> 0]
  /\ pc = [p \in Tabs \X Calls |-> "none"]
  /\ candidate = [p \in Tabs \X Calls |-> None] /\ polls = [p \in Tabs \X Calls |-> 0]
  /\ orphan = {} /\ busy = {}
  /\ pending = [t \in Tabs |-> None] /\ storage = [t \in Tabs |-> None] /\ resumed = {}
  /\ faults = 0 /\ closes = 0

Fault == faults < MaxFaults /\ faults' = faults + 1 /\ UNCHANGED closes

-----------------------------------------------------------------------------
(* The server.                                                             *)

(* toResumeView, and pending ?? published ?? emptyInput of the editors.    *)
FormOf == IF pendingVersion # 0 THEN pendingVersion ELSE publishedVersion

ImageIn(v) == IF v = 0 THEN None ELSE imageOf[v]

(* validateAndBindPublicMedia: the image is this owner's for this row.     *)
MediaAccepted(m) == m # None => upload[m] \in {"moderation_pending", "approved"}

(* Slip: any save of a row that is not under review is taken. *)
ClaimsUnfenced(r) == publicationState # "pending"

(* The lock, and the conditional update behind it.                         *)
Claims(r) == publicationState # "pending" /\ ifMatch[r] = rowVersion

(* updateOwnResume: all of it, or nothing.                                 *)
Accept(r) ==
  /\ Claims(r) /\ MediaAccepted(body[r])
  /\ newest' = newest + 1
  /\ imageOf' = [imageOf EXCEPT ![newest + 1] = body[r]]
  /\ publicationState' = "pending" /\ rowVersion' = rowVersion + 1
  /\ pendingVersion' = newest + 1
  /\ request' = [request EXCEPT ![r] = "accepted"]
  /\ outcome' = [outcome EXCEPT ![r] = newest + 1]
  /\ UNCHANGED <<publishedVersion, saves, ifMatch, body, basis>>

Refuse(r) ==
  /\ ~(Claims(r) /\ MediaAccepted(body[r]))
  /\ request' = [request EXCEPT ![r] = "refused"]
  /\ UNCHANGED <<row, saves, ifMatch, body, basis, outcome>>

Execute(r) ==
  /\ request[r] = "sent"
  /\ Accept(r) \/ Refuse(r)
  /\ UNCHANGED <<upload, editor, image, calls, control, bounds>>

(* applyModerationDecision, and the image with it unless it was approved   *)
(* before.                                                                 *)
Decide(verdict) ==
  /\ publicationState = "pending"
  /\ publicationState' = IF verdict = "approved" THEN "published" ELSE "revision_required"
  /\ rowVersion' = rowVersion + 1
  /\ IF verdict = "approved"
       THEN pendingVersion' = 0 /\ publishedVersion' = pendingVersion
       ELSE UNCHANGED <<pendingVersion, publishedVersion>>
  /\ upload' = [u \in Uploads |->
       IF u = imageOf[pendingVersion] /\ upload[u] = "moderation_pending"
         THEN verdict ELSE upload[u]]
  /\ UNCHANGED <<newest, imageOf, sending, editor, image, calls, control, bounds>>

(* The files worker; publicStateFor shows both scopes' images as ready.    *)
Sanitize(u) ==
  /\ upload[u] = "processing"
  /\ \E state \in {"moderation_pending", "failed"} : upload' = [upload EXCEPT ![u] = state]
  /\ UNCHANGED <<row, sending, editor, image, calls, control, bounds>>

ExpireUpload(u) ==
  /\ upload[u] = "created"
  /\ Fault
  /\ upload' = [upload EXCEPT ![u] = "expired"]
  /\ UNCHANGED <<row, sending, editor, image, calls, control>>

-----------------------------------------------------------------------------
(* The upload control.                                                     *)

Active(t) == {p \in {t} \X Calls : pc[p] # "none"}

(* A call takes up u, or has still to create its upload.                   *)
Begin(t, label, u) ==
  \E c \in Calls :
    /\ pc[<<t, c>>] = "none" /\ \A d \in Calls : d < c => pc[<<t, d>>] # "none"
    /\ pc' = [pc EXCEPT ![<<t, c>>] = label]
    /\ candidate' = [candidate EXCEPT ![<<t, c>>] = u]
    /\ busy' = busy \cup {t}
    /\ UNCHANGED <<polls, orphan>>

(* Slip: a call that fails leaves the control as it is.                    *)
EndQuietly(p) ==
  /\ pc' = [pc EXCEPT ![p] = "none"]
  /\ candidate' = [candidate EXCEPT ![p] = None]
  /\ polls' = [polls EXCEPT ![p] = 0]
  /\ orphan' = orphan \ {p}
  /\ UNCHANGED busy

(* finally: the control is free again, whatever other calls do.            *)
End(p) ==
  /\ pc' = [pc EXCEPT ![p] = "none"]
  /\ candidate' = [candidate EXCEPT ![p] = None]
  /\ polls' = [polls EXCEPT ![p] = 0]
  /\ orphan' = orphan \ {p}
  /\ busy' = IF p \in orphan THEN busy ELSE busy \ {p[1]}

(* The effect of the control, run whenever its editor renders: the first   *)
(* one that finds a remembered upload finishes it, also when the call that *)
(* remembered it is still at it.                                           *)
Render(t) ==
  IF storage[t] # None /\ t \notin resumed
  THEN /\ Begin(t, "completing", storage[t])
       /\ pending' = [pending EXCEPT ![t] = storage[t]]
       /\ resumed' = resumed \cup {t}
       /\ UNCHANGED storage
  ELSE UNCHANGED <<calls, control>>

(* upload(): a file is chosen while the control is not busy.               *)
Choose(t) ==
  /\ t \in Uploaders /\ loaded[t] # 0 /\ t \notin busy
  /\ Begin(t, "creating", None)
  /\ UNCHANGED <<row, upload, sending, editor, image, pending, storage, resumed, bounds>>

(* createUploadSession; the limiter admits as many as there are Uploads.   *)
CreateUpload(p) ==
  /\ pc[p] = "creating"
  /\ \/ \E u \in Uploads :
          /\ upload[u] = "absent"
          /\ upload' = [upload EXCEPT ![u] = "created"]
          /\ candidate' = [candidate EXCEPT ![p] = u]
          /\ pc' = [pc EXCEPT ![p] = "putting"]
          /\ UNCHANGED <<polls, orphan, busy>>
     \/ /\ \A u \in Uploads : upload[u] # "absent"
        /\ End(p)
        /\ UNCHANGED upload
  /\ UNCHANGED <<row, sending, editor, image, pending, storage, resumed, bounds>>

(* The object is stored; the upload and the key of its completion are      *)
(* remembered.                                                             *)
Put(p) ==
  /\ pc[p] = "putting"
  /\ pc' = [pc EXCEPT ![p] = "completing"]
  /\ storage' = [storage EXCEPT ![p[1]] = candidate[p]]
  /\ pending' = IF p \in orphan THEN pending ELSE [pending EXCEPT ![p[1]] = candidate[p]]
  /\ UNCHANGED <<row, upload, sending, editor, image, candidate, polls, orphan, busy, resumed,
                 bounds>>

(* completeUpload: an upload completed before replays its answer, which    *)
(* says "processing".                                                      *)
Completed(u) == IF upload[u] = "created" THEN [upload EXCEPT ![u] = "processing"] ELSE upload

CompleteUpload(p) ==
  /\ pc[p] = "completing"
  /\ upload' = Completed(candidate[p])
  /\ IF upload[candidate[p]] = "expired"
       THEN End(p)
       ELSE pc' = [pc EXCEPT ![p] = "polling"] /\ UNCHANGED <<candidate, polls, orphan, busy>>
  /\ UNCHANGED <<row, sending, editor, image, pending, storage, resumed, bounds>>

(* The upload is settled: whatever the tab remembers is forgotten.         *)
Forget(p) ==
  /\ storage' = [storage EXCEPT ![p[1]] = None]
  /\ pending' = IF p \in orphan THEN pending ELSE [pending EXCEPT ![p[1]] = None]
  /\ UNCHANGED resumed

(* Slip: an upload under way will do.                                      *)
IsMediaReadySoon(u) == upload[u] \in {"processing", "moderation_pending", "approved"}

IsMediaReady(u) == upload[u] \in {"moderation_pending", "approved"}

(* onReady puts the image into the form, if the form is still there.       *)
HandOver(p) ==
  /\ pc[p] = "polling" /\ IsMediaReady(candidate[p])
  /\ Forget(p) /\ End(p)
  /\ image' = IF p \in orphan THEN image ELSE [image EXCEPT ![p[1]] = candidate[p]]
  /\ UNCHANGED <<row, upload, sending, editor, bounds>>

(* The upload failed, or its image was rejected meanwhile.                 *)
GiveUp(p) ==
  /\ pc[p] = "polling" /\ upload[candidate[p]] \in {"failed", "rejected"}
  /\ Forget(p) /\ End(p)
  /\ UNCHANGED <<row, upload, sending, editor, image, bounds>>

(* Slip: it polls as long as it takes.                                     *)
PollForever(p) ==
  /\ pc[p] = "polling"
  /\ ~IsMediaReady(candidate[p]) /\ upload[candidate[p]] \notin {"failed", "rejected"}
  /\ polls' = [polls EXCEPT ![p] = 1 - @]
  /\ UNCHANGED <<row, upload, sending, editor, image, pc, candidate, orphan, control, bounds>>

(* getUploadSession has nothing to tell yet; after the last poll the       *)
(* upload stays to be finished later.                                      *)
Poll(p) ==
  /\ pc[p] = "polling"
  /\ ~IsMediaReady(candidate[p]) /\ upload[candidate[p]] \notin {"failed", "rejected"}
  /\ IF polls[p] + 1 < POLL_ATTEMPTS
       THEN polls' = [polls EXCEPT ![p] = @ + 1] /\ UNCHANGED <<pc, candidate, orphan, busy>>
       ELSE End(p)
  /\ UNCHANGED <<row, upload, sending, editor, image, pending, storage, resumed, bounds>>

(* A request of a call fails, or it was executed and its answer is lost.   *)
Disconnect(p) ==
  /\ pc[p] # "none"
  /\ Fault /\ End(p)
  /\ \/ UNCHANGED upload
     \/ pc[p] = "creating" /\ \E u \in Uploads :
          upload[u] = "absent" /\ upload' = [upload EXCEPT ![u] = "created"]
     \/ pc[p] = "completing" /\ upload' = Completed(candidate[p])
  /\ UNCHANGED <<row, sending, editor, image, pending, storage, resumed>>

(* "Finish the upload again".                                              *)
Retry(t) ==
  /\ pending[t] # None /\ t \notin busy
  /\ Begin(t, "completing", pending[t])
  /\ UNCHANGED <<row, upload, sending, editor, image, pending, storage, resumed, bounds>>

-----------------------------------------------------------------------------
(* The editor.                                                             *)

(* The effect of the page: GET /me/resumes/{resumeId}.                     *)
Load(t) ==
  /\ loaded[t] = 0
  /\ loaded' = [loaded EXCEPT ![t] = rowVersion]
  /\ checking' = IF publicationState = "pending" THEN checking \cup {t} ELSE checking
  /\ source' = [source EXCEPT ![t] = FormOf]
  /\ image' = [image EXCEPT ![t] = ImageIn(FormOf)]
  /\ Render(t)
  /\ UNCHANGED <<row, upload, sending, waiting, bounds>>

(* The owner types, and the editor renders.                                *)
Type(t) ==
  /\ loaded[t] # 0 /\ storage[t] # None /\ t \notin resumed
  /\ Render(t)
  /\ UNCHANGED <<row, upload, sending, editor, image, bounds>>

(* submit() sends the form under a fresh key.                              *)
Submit(t) ==
  /\ loaded[t] # 0 /\ t \notin checking /\ waiting[t] = 0
  /\ saves < MaxSaves /\ saves' = saves + 1
  /\ request' = [request EXCEPT ![saves + 1] = "sent"]
  /\ ifMatch' = [ifMatch EXCEPT ![saves + 1] = loaded[t]]
  /\ body' = [body EXCEPT ![saves + 1] = image[t]]
  /\ basis' = [basis EXCEPT ![saves + 1] = source[t]]
  /\ waiting' = [waiting EXCEPT ![t] = saves + 1]
  /\ Render(t)
  /\ UNCHANGED <<row, upload, outcome, loaded, checking, source, image, bounds>>

(* Slip: the version of the row is taken for the number of its version.    *)
ShowRowVersion(t, r) ==
  /\ loaded' = [loaded EXCEPT ![t] = ifMatch[r] + 1]
  /\ checking' = checking \cup {t}
  /\ source' = [source EXCEPT ![t] = ifMatch[r] + 1]
  /\ image' = [image EXCEPT ![t] = body[r]]

(* The answer of a save replaces the row and the whole form; a refusal     *)
(* leaves both.                                                            *)
Show(t, r) ==
  /\ loaded' = [loaded EXCEPT ![t] = ifMatch[r] + 1]
  /\ checking' = checking \cup {t}
  /\ source' = [source EXCEPT ![t] = outcome[r]]
  /\ image' = [image EXCEPT ![t] = body[r]]

Receive(t) ==
  /\ waiting[t] \in Saves /\ request[waiting[t]] # "sent"
  /\ IF request[waiting[t]] = "accepted" THEN Show(t, waiting[t])
       ELSE UNCHANGED <<loaded, checking, source, image>>
  /\ waiting' = [waiting EXCEPT ![t] = 0]
  /\ Render(t)
  /\ UNCHANGED <<row, upload, sending, bounds>>

(* The connection breaks, which submit() does not catch; or an error is    *)
(* answered although the save was, or will be, executed.                   *)
LoseAnswer(t) ==
  /\ waiting[t] \in Saves
  /\ Fault
  /\ \E answer \in {Forever, 0} : waiting' = [waiting EXCEPT ![t] = answer]
  /\ UNCHANGED <<row, upload, sending, loaded, checking, source, image, calls, control>>

(* The page is left by a link, its calls go on; or it is reloaded.         *)
Close(t) ==
  /\ loaded[t] # 0 /\ closes < MaxCloses /\ closes' = closes + 1
  /\ loaded' = [loaded EXCEPT ![t] = 0] /\ checking' = checking \ {t}
  /\ source' = [source EXCEPT ![t] = 0] /\ image' = [image EXCEPT ![t] = None]
  /\ waiting' = [waiting EXCEPT ![t] = 0]
  /\ busy' = busy \ {t} /\ pending' = [pending EXCEPT ![t] = None] /\ resumed' = resumed \ {t}
  /\ \/ orphan' = orphan \cup Active(t) /\ UNCHANGED <<pc, candidate, polls>>
     \/ /\ pc' = [p \in Tabs \X Calls |-> IF p[1] = t THEN "none" ELSE pc[p]]
        /\ candidate' = [p \in Tabs \X Calls |-> IF p[1] = t THEN None ELSE candidate[p]]
        /\ polls' = [p \in Tabs \X Calls |-> IF p[1] = t THEN 0 ELSE polls[p]]
        /\ orphan' = orphan \ ({t} \X Calls)
  /\ UNCHANGED <<row, upload, sending, storage, faults>>

-----------------------------------------------------------------------------
Finishes(p) ==
  \/ CreateUpload(p) \/ Put(p) \/ CompleteUpload(p)
  \/ HandOver(p) \/ GiveUp(p) \/ Poll(p)

Uses(t) == Choose(t) \/ Retry(t) \/ Type(t) \/ Submit(t) \/ Close(t)

Next ==
  \/ \E r \in Saves : Execute(r)
  \/ \E verdict \in {"approved", "rejected"} : Decide(verdict)
  \/ \E u \in Uploads : Sanitize(u) \/ ExpireUpload(u)
  \/ \E p \in Tabs \X Calls : Finishes(p) \/ Disconnect(p)
  \/ \E t \in Tabs : Uses(t) \/ Load(t) \/ Receive(t) \/ LoseAnswer(t)

Spec == Init /\ [][Next]_vars

(* The browser goes on with a call whose request was answered; neither the *)
(* workers nor moderation nor the owner owe anything.                      *)
FairSpec == Spec /\ \A p \in Tabs \X Calls : WF_vars(Finishes(p))

-----------------------------------------------------------------------------
(* No version replaces one its author has not seen: a save that is taken   *)
(* was loaded from the newest version, whatever other tabs, moderation and *)
(* delayed saves of a page that is gone did meanwhile.                     *)
NoBlindOverwrite ==
  [][newest' # newest =>
       \E r \in Saves : request[r] = "sent" /\ request'[r] = "accepted" /\ basis[r] = newest]_vars

(* The upload control is busy only as long as a call of its own page is    *)
(* under way, however many there are and however they end.  The converse   *)
(* does not hold: of two overlapping calls the first that ends clears the  *)
(* flag while the other still works.                                       *)
BusyMeansWork == \A t \in Tabs : t \in busy => \E p \in Active(t) : p \notin orphan

(* Every image the control puts into a form is one the server binds, until *)
(* moderation rejects it.                                                  *)
FormImageUsable ==
  \A t \in Tabs : image[t] # None =>
    upload[image[t]] \in {"moderation_pending", "approved", "rejected"}

(* The control never stays busy, whether or not a worker takes the upload  *)
(* up.                                                                     *)
ControlSettles == \A t \in Tabs : t \in busy ~> t \notin busy
=============================================================================
