----------------------------- MODULE Moderation -----------------------------
(***************************************************************************)
(* Publication of profiles and resumes through automatic moderation.       *)
(*                                                                         *)
(*  - backend/src/modules/profiles/application/profiles.service.ts: an     *)
(*    owner submits a version and is locked until it is decided; the       *)
(*    decision moves the pointers of the root.                             *)
(*  - backend/src/modules/trust/application/trust.service.ts: the request  *)
(*    a moderation worker claims under a lease and decides, every write    *)
(*    fenced with generation, endpoint and row_version.                    *)
(*  - backend/src/worker/moderation-worker.service.ts: the worker, with    *)
(*    its failover from the primary to the secondary provider.             *)
(*  - backend/src/modules/files/application/files.service.ts: the image of *)
(*    a version is decided together with it.                               *)
(*                                                                         *)
(* The event that carries a submission from the profiles to the trust      *)
(* module travels through the outbox, used here by its promise             *)
(* AtLeastOnceDelivery.  A root stands for a profile or a resume: the two  *)
(* halves of profiles.service.ts differ in their fields only.  edit_locked *)
(* is never set by the code, and every submission whose If-Match version   *)
(* is current is the same step.                                            *)
(***************************************************************************)
EXTENDS Naturals, FiniteSets

CONSTANTS
  Roots,        \* profiles and resumes
  Drafted,      \* the roots created with a draft version (profiles)
  Media,        \* uploaded images, ready for moderation
  MediaRoot,    \* the profile or resume an image was uploaded for
  Workers,      \* moderation workers, one poll loop each
  MaxVersions,  \* bound: versions of one root
  MAX_ATTEMPTS, \* attempts the outbox makes before it gives an event up
  MaxTries,     \* bound: attempts of the outbox at one event
  MaxFaults,    \* bound: infrastructure faults in one behaviour
  None          \* no image, no version

ASSUME ModerationConstants ==
  /\ Drafted \subseteq Roots
  /\ MediaRoot \in [Media -> Roots]
  /\ MaxVersions \in Nat \ {0}
  /\ MAX_ATTEMPTS \in Nat \ {0}
  /\ MaxTries \in Nat /\ MaxTries >= MAX_ATTEMPTS
  /\ MaxFaults \in Nat
  /\ None \notin Media \cup (Roots \X (1 .. MaxVersions))

VARIABLES
  root,        \* profiles.profiles and profiles.resumes
  version,     \* profiles.profile_versions and profiles.resume_versions
  media,       \* state of files.media_objects
  binding,     \* files.media_bindings: the version an image is bound to
  request,     \* trust.moderation_requests, by version
  notices,     \* history: decided events written for a version
  worker,      \* per worker: the request it works on
  eventStatus, eventTries, eventExecutions, \* the requested events' outbox
  faults       \* faults taken so far

content == <<root, version, media, binding, notices>>
events == <<eventStatus, eventTries, eventExecutions>>
vars == <<content, request, worker, events, faults>>

-----------------------------------------------------------------------------
Numbers == 1 .. MaxVersions

(* A version is named by its root and its version number. *)
Versions == Roots \X Numbers

Root == [publicationState: {"draft", "pending", "published", "revision_required"},
         pending: 0 .. MaxVersions, published: 0 .. MaxVersions, rowVersion: Nat]

Version == [state: {"absent", "draft", "pending", "approved", "rejected"},
            media: Media \cup {None}]

Request == [state: {"absent", "pending", "in_progress", "approved", "rejected"},
            generation: Nat, endpoint: {"primary", "secondary"}, rowVersion: Nat,
            lease: {"none", "live", "expired"}, failure: {"none", "providers_unavailable"}]

NoRequest == [state |-> "absent", generation |-> 1, endpoint |-> "primary",
              rowVersion |-> 0, lease |-> "none", failure |-> "none"]

(* The labels of poll and process; verdict is the provider's answer, url   *)
(* whether the provider is shown the image.                                *)
Claimed == [pc: {"idle", "selected", "claimed", "asking", "failed", "answered", "releasing"},
            v: Versions \cup {None}, generation: Nat, endpoint: {"primary", "secondary"},
            rowVersion: Nat, url: {"none", "given"}, verdict: {"none", "approved", "rejected"}]

Idle == [pc |-> "idle", v |-> None, generation |-> 0, endpoint |-> "primary",
         rowVersion |-> 0, url |-> "none", verdict |-> "none"]

Outbox == INSTANCE AtLeastOnceDelivery WITH
  Deliveries <- Versions, status <- eventStatus, tries <- eventTries,
  executions <- eventExecutions

TypeOK ==
  /\ root \in [Roots -> Root]
  /\ version \in [Versions -> Version]
  /\ media \in [Media -> {"moderation_pending", "approved", "rejected"}]
  /\ binding \in [Media -> Versions \cup {None}]
  /\ request \in [Versions -> Request]
  /\ notices \in [Versions -> Nat]
  /\ worker \in [Workers -> Claimed]
  /\ \A w \in Workers : worker[w].pc # "idle" => worker[w].v \in Versions
  /\ eventStatus \in [Versions -> {"absent", "owed", "acknowledged", "abandoned", "forgotten"}]
  /\ eventTries \in [Versions -> Nat]
  /\ eventExecutions \in [Versions -> Nat]
  /\ faults \in 0 .. MaxFaults

(* A profile is created with its first version as a draft, a resume with   *)
(* none.                                                                   *)
Init ==
  /\ root = [r \in Roots |->
       [publicationState |-> "draft", pending |-> IF r \in Drafted THEN 1 ELSE 0,
        published |-> 0, rowVersion |-> 1]]
  /\ version = [v \in Versions |->
       [state |-> IF v[1] \in Drafted /\ v[2] = 1 THEN "draft" ELSE "absent",
        media |-> None]]
  /\ media = [m \in Media |-> "moderation_pending"]
  /\ binding = [m \in Media |-> None]
  /\ request = [v \in Versions |-> NoRequest]
  /\ notices = [v \in Versions |-> 0]
  /\ worker = [w \in Workers |-> Idle]
  /\ Outbox!Init
  /\ faults = 0

-----------------------------------------------------------------------------
Fault ==
  /\ faults < MaxFaults
  /\ faults' = faults + 1

(* max(version_no) + 1 *)
IsNext(v) ==
  \A n \in Numbers : version[<<v[1], n>>].state = "absent" <=> n >= v[2]

(* The image was uploaded for this root and is not rejected. *)
Bindable(m, r) ==
  m # None => MediaRoot[m] = r /\ media[m] \in {"moderation_pending", "approved"}

(* Slip: an approved image is bound again. *)
BoundAgain(m, v) == IF m # None THEN [binding EXCEPT ![m] = v] ELSE binding

(* validateAndBindPublicMedia: an approved image is not bound again. *)
Bound(m, v) ==
  IF m # None /\ media[m] # "approved" THEN [binding EXCEPT ![m] = v] ELSE binding

(* The event of a submission and its delivery, in the same transaction. *)
EnqueueModeration(v) == Outbox!Submit(v)

(* Slip: a root whose version is being reviewed accepts another one. *)
SubmitUnlocked(v, m) ==
  LET r == v[1]
  IN  /\ IsNext(v)
      /\ Bindable(m, r)
      /\ root' = [root EXCEPT ![r].publicationState = "pending", ![r].pending = v[2],
                              ![r].rowVersion = @ + 1]
      /\ version' = [version EXCEPT ![v] = [state |-> "pending", media |-> m]]
      /\ binding' = Bound(m, v)
      /\ EnqueueModeration(v)
      /\ UNCHANGED <<media, notices, request, worker, faults>>

(* updateOwnProfile, updateOwnResume: one transaction locks the root,      *)
(* writes the version, binds its image and enqueues the event.             *)
Submit(v, m) ==
  LET r == v[1]
  IN  /\ root[r].publicationState # "pending"
      /\ IsNext(v)
      /\ Bindable(m, r)
      /\ root' = [root EXCEPT ![r].publicationState = "pending", ![r].pending = v[2],
                              ![r].rowVersion = @ + 1]
      /\ version' = [version EXCEPT ![v] = [state |-> "pending", media |-> m]]
      /\ binding' = Bound(m, v)
      /\ EnqueueModeration(v)
      /\ UNCHANGED <<media, notices, request, worker, faults>>

-----------------------------------------------------------------------------
(* consumeModerationRequest: the inbox row and the unique key of the       *)
(* request make a repeated delivery a no-op.                               *)
Consumed(v) ==
  IF request[v].state = "absent" THEN [request EXCEPT ![v].state = "pending"] ELSE request

(* Slip: the inbox row is committed before the request, not with it.       *)
ConsumeInTwoSteps(v) ==
  /\ Outbox!Execute(v)
  /\ request' \in IF eventExecutions[v] > 0 THEN {request} ELSE {request, Consumed(v)}
  /\ UNCHANGED <<content, worker, faults>>

ConsumeModerationRequest(v) ==
  /\ Outbox!Execute(v)
  /\ request' = Consumed(v)
  /\ UNCHANGED <<content, worker, faults>>

(* The other steps of the outbox, as its promise allows them. *)
OutboxTries(v) ==
  /\ eventTries[v] < MaxTries
  /\ Outbox!Try(v)
  /\ UNCHANGED <<content, request, worker, faults>>

OutboxSettles(v) ==
  /\ Outbox!Settle(v)
  /\ UNCHANGED <<content, request, worker, faults>>

(* Slip: claimNext overlooks requests whose lease ran out. *)
ClaimablePending(v) == request[v].state = "pending"

-----------------------------------------------------------------------------
Claimable(v) ==
  \/ request[v].state = "pending"
  \/ request[v].state = "in_progress" /\ request[v].lease = "expired"

(* Slip: only the generation and the endpoint are compared. *)
HoldsGeneration(w) ==
  LET c == worker[w]
  IN  /\ request[c.v].state = "in_progress"
      /\ request[c.v].generation = c.generation
      /\ request[c.v].endpoint = c.endpoint

(* The condition of every later write: the request is still the claimed    *)
(* one.                                                                    *)
Holds(w) ==
  LET c == worker[w]
  IN  /\ request[c.v].state = "in_progress"
      /\ request[c.v].generation = c.generation
      /\ request[c.v].endpoint = c.endpoint
      /\ request[c.v].rowVersion = c.rowVersion

Goto(w, c) == worker' = [worker EXCEPT ![w] = c]

(* claimNext reads a candidate; after a failure of both providers the      *)
(* claim begins a new generation.                                          *)
Select(w, v) ==
  LET q == request[v]
  IN  /\ worker[w].pc = "idle"
      /\ Claimable(v)
      /\ Goto(w, [Idle EXCEPT !.pc = "selected", !.v = v, !.rowVersion = q.rowVersion,
                    !.generation = IF q.failure = "none" THEN q.generation ELSE q.generation + 1])
      /\ UNCHANGED <<content, request, events, faults>>

(* The compare-and-set of claimNext. *)
ClaimMatches(w) ==
  Claimable(worker[w].v) /\ request[worker[w].v].rowVersion = worker[w].rowVersion

ClaimWrite(w) ==
  request' = IF ~ClaimMatches(w) THEN request
             ELSE [request EXCEPT ![worker[w].v] =
                    [state |-> "in_progress", generation |-> worker[w].generation,
                     endpoint |-> "primary", rowVersion |-> @.rowVersion + 1,
                     lease |-> "live", failure |-> "none"]]

Claim(w) ==
  /\ worker[w].pc = "selected"
  /\ ClaimWrite(w)
  /\ Goto(w, IF ClaimMatches(w)
             THEN [worker[w] EXCEPT !.pc = "claimed", !.rowVersion = @ + 1]
             ELSE Idle)
  /\ UNCHANGED <<content, events, faults>>

(* createModerationUrl: an image that awaits moderation is shown to the     *)
(* provider, an approved one is not, and any other one is refused.         *)
CreateModerationUrl(m) ==
  CASE media[m] = "moderation_pending" -> "given"
    [] media[m] = "approved" -> "none"
    [] OTHER -> "refused"

(* moderationPayload: of the text and the image of a version, the image. *)
ModerationPayload(v) == version[v].media

(* Slip: an image that was approved before is shown to the provider again. *)
PrepareShowsApproved(w) ==
  LET m == ModerationPayload(worker[w].v)
  IN  /\ worker[w].pc = "claimed"
      /\ Goto(w, IF m = None THEN [worker[w] EXCEPT !.pc = "asking"]
                 ELSE [worker[w] EXCEPT !.pc = "asking", !.url = "given"])
      /\ UNCHANGED <<content, request, events, faults>>

(* A worker whose image is refused throws and keeps its lease. *)
Prepare(w) ==
  LET m == ModerationPayload(worker[w].v)
      url == IF m = None THEN "none" ELSE CreateModerationUrl(m)
  IN  /\ worker[w].pc = "claimed"
      /\ Goto(w, IF url = "refused" THEN Idle
                 ELSE [worker[w] EXCEPT !.pc = "asking", !.url = url])
      /\ UNCHANGED <<content, request, events, faults>>

(* The provider answers, at any time after it was asked. *)
Answer(w, verdict) ==
  /\ worker[w].pc = "asking"
  /\ Goto(w, [worker[w] EXCEPT !.pc = "answered", !.verdict = verdict])
  /\ UNCHANGED <<content, request, events, faults>>

(* Timeout, transport error or open circuit; an outage that meets both     *)
(* providers is one fault.                                                 *)
ProviderFails(w) ==
  /\ worker[w].pc = "asking"
  /\ IF worker[w].endpoint = "primary" THEN Fault ELSE UNCHANGED faults
  /\ Goto(w, [worker[w] EXCEPT !.pc = IF worker[w].endpoint = "primary"
                                      THEN "failed" ELSE "releasing"])
  /\ UNCHANGED <<content, request, events>>

(* switchToSecondary: a new generation on the other endpoint. *)
SwitchWrite(w) ==
  request' = IF Holds(w)
             THEN [request EXCEPT ![worker[w].v].generation = @ + 1,
                                  ![worker[w].v].endpoint = "secondary",
                                  ![worker[w].v].rowVersion = @ + 1]
             ELSE request

Switch(w) ==
  /\ worker[w].pc = "failed"
  /\ SwitchWrite(w)
  /\ Goto(w, IF Holds(w)
             THEN [worker[w] EXCEPT !.pc = "asking", !.generation = @ + 1,
                                    !.endpoint = "secondary", !.rowVersion = @ + 1]
             ELSE Idle)
  /\ UNCHANGED <<content, events, faults>>

(* release: both providers failed, the request is pending again. *)
ReleaseWrite(w) ==
  request' = IF Holds(w)
             THEN [request EXCEPT ![worker[w].v].state = "pending",
                                  ![worker[w].v].lease = "none",
                                  ![worker[w].v].failure = "providers_unavailable",
                                  ![worker[w].v].rowVersion = @ + 1]
             ELSE request

Release(w) ==
  /\ worker[w].pc = "releasing"
  /\ ReleaseWrite(w)
  /\ Goto(w, Idle)
  /\ UNCHANGED <<content, events, faults>>

(* Slip: complete updates the request by its id alone. *)
DecidesUnfenced(w) ==
  worker[w].url = "given" =>
    media[version[worker[w].v].media] \in {"moderation_pending", worker[w].verdict}

(* complete: the decision, the image and the root change in one            *)
(* transaction, which is rolled back when the image has moved on; a        *)
(* version that is no longer the pending one keeps its root as it is.      *)
Decides(w) ==
  LET c == worker[w]
      m == version[c.v].media
  IN  /\ Holds(w)
      /\ c.url = "given" => media[m] \in {"moderation_pending", c.verdict}

IsPending(v) == root[v[1]].pending = v[2]

(* Slip: the published pointer moves whatever the verdict. *)
PublishedRootAlways(s, v, verdict) ==
  [s EXCEPT !.publicationState = IF verdict = "approved" THEN "published"
                                 ELSE "revision_required",
            !.published = v[2], !.rowVersion = @ + 1]

(* Slip: the state of the version is written to the root. *)
PublishedRootState(s, v, verdict) ==
  [s EXCEPT !.publicationState = verdict, !.pending = 0, !.published = v[2],
            !.rowVersion = @ + 1]

(* applyModerationDecision *)
PublishedRoot(s, v, verdict) ==
  IF verdict = "approved"
  THEN [s EXCEPT !.publicationState = "published", !.pending = 0, !.published = v[2],
                 !.rowVersion = @ + 1]
  ELSE [s EXCEPT !.publicationState = "revision_required", !.rowVersion = @ + 1]

ApplyDecision(v, verdict) ==
  IF IsPending(v)
  THEN /\ version' = [version EXCEPT ![v].state = verdict]
       /\ root' = [root EXCEPT ![v[1]] = PublishedRoot(@, v, verdict)]
       /\ notices' = [notices EXCEPT ![v] = @ + 1]
  ELSE UNCHANGED <<version, root, notices>>

DecideWrite(w) ==
  LET c == worker[w]
      m == version[c.v].media
  IN  IF Decides(w)
      THEN /\ request' = [request EXCEPT ![c.v].state = c.verdict, ![c.v].lease = "none",
                                         ![c.v].rowVersion = @ + 1]
           /\ media' = IF c.url = "given" THEN [media EXCEPT ![m] = c.verdict] ELSE media
           /\ ApplyDecision(c.v, c.verdict)
           /\ UNCHANGED binding
      ELSE UNCHANGED <<content, request>>

Complete(w) ==
  /\ worker[w].pc = "answered"
  /\ DecideWrite(w)
  /\ Goto(w, Idle)
  /\ UNCHANGED <<events, faults>>

-----------------------------------------------------------------------------
(* The worker dies, or a statement of its poll is rejected: the poll ends. *)
Interrupted(w) ==
  /\ Fault
  /\ worker[w].pc # "idle"
  /\ Goto(w, Idle)
  /\ UNCHANGED <<content, request, events>>

(* The statement was committed although its answer never came. *)
AnswerLost(w) ==
  /\ Fault
  /\ \/ worker[w].pc = "selected" /\ ClaimWrite(w) /\ UNCHANGED content
     \/ worker[w].pc = "failed" /\ SwitchWrite(w) /\ UNCHANGED content
     \/ worker[w].pc = "releasing" /\ ReleaseWrite(w) /\ UNCHANGED content
     \/ worker[w].pc = "answered" /\ DecideWrite(w)
  /\ Goto(w, Idle)
  /\ UNCHANGED events

(* A worker holds the current lease of v. *)
Pursued(v) ==
  \E w \in Workers : /\ worker[w].pc \notin {"idle", "selected"}
                     /\ worker[w].v = v
                     /\ worker[w].rowVersion = request[v].rowVersion

(* The lease outlasts three provider timeouts, so that it runs out under a *)
(* worker only when that worker stalls.                                    *)
LeaseExpires(v) ==
  /\ request[v].state = "in_progress" /\ request[v].lease = "live"
  /\ IF Pursued(v) THEN Fault ELSE UNCHANGED faults
  /\ request' = [request EXCEPT ![v].lease = "expired"]
  /\ UNCHANGED <<content, worker, events>>

-----------------------------------------------------------------------------
Submits == \E v \in Versions, m \in Media \cup {None} : Submit(v, m)

Delivers(v) == ConsumeModerationRequest(v) \/ OutboxTries(v) \/ OutboxSettles(v)

Polls(w) ==
  \/ \E v \in Versions : Select(w, v)
  \/ Claim(w) \/ Prepare(w)
  \/ \E verdict \in {"approved", "rejected"} : Answer(w, verdict)
  \/ Switch(w) \/ Release(w) \/ Complete(w)

Next ==
  \/ Submits
  \/ \E v \in Versions : Delivers(v) \/ LeaseExpires(v)
  \/ \E w \in Workers : Polls(w) \/ ProviderFails(w) \/ Interrupted(w) \/ AnswerLost(w)

Spec == Init /\ [][Next]_vars

(* The outbox settles its events (theorem and runs of OutboxDelivery), the *)
(* poll timer runs, a provider call ends (it has a timeout), leases lapse. *)
FairSpec ==
  /\ Spec
  /\ \A v \in Versions : /\ WF_vars(Delivers(v))
                         /\ WF_vars(LeaseExpires(v) /\ UNCHANGED faults)
  /\ \A w \in Workers : WF_vars(Polls(w))

-----------------------------------------------------------------------------
Decided == {"approved", "rejected"}

(* getPublicProfile: what a stranger finds of r.  For a profile the state   *)
(* of the version is looked at, for a resume only the pointer is.          *)
PublicVersions(r) ==
  {v \in Versions : /\ v = <<r, root[r].published>>
                    /\ r \in Drafted => version[v].state = "approved"}

(* isPublishedMedia: an approved version that is published shows the image. *)
IsPublishedMedia(m) ==
  \E v \in Versions : /\ version[v].media = m /\ version[v].state = "approved"
                      /\ root[v[1]].published = v[2]

(* createDownloadUrl, asked by a stranger. *)
Downloadable(m) == media[m] = "approved" /\ IsPublishedMedia(m)

(* What strangers find has been approved by moderation: the newest approved *)
(* version of a root, whole, for its image can be downloaded, and no other *)
(* image of that root can.                                                 *)
PublishedReviewed ==
  /\ \A r \in Roots : root[r].published # 0 =>
       /\ \A n \in Numbers : n > root[r].published => version[<<r, n>>].state # "approved"
       /\ \E v \in PublicVersions(r) :
            /\ version[v].state = "approved" /\ request[v].state = "approved"
            /\ \A m \in Media : MediaRoot[m] = r =>
                 (Downloadable(m) <=> version[v].media = m)
  /\ \A r \in Roots, m \in Media :
       root[r].published = 0 /\ MediaRoot[m] = r => ~Downloadable(m)

(* An owner who cannot edit is waiting for a review that is still to come: *)
(* no crash, lapsed lease or late answer leaves a root locked behind a     *)
(* decision that was made, or behind a submission nobody knows of.         *)
LockedForReview ==
  \A r \in Roots : root[r].publicationState = "pending" =>
    LET v == <<r, root[r].pending>>
    IN  /\ root[r].pending # 0 /\ version[v].state = "pending"
        /\ \/ request[v].state \in {"pending", "in_progress"}
           \/ /\ request[v].state = "absent"
              /\ eventStatus[v] \in {"owed", "abandoned"} /\ eventExecutions[v] = 0

VersionsFollowRequests ==
  \A v \in Versions, verdict \in Decided :
    version[v].state = verdict <=> request[v].state = verdict

OwnersToldOnce ==
  \A v \in Versions : notices[v] = IF version[v].state \in Decided THEN 1 ELSE 0

ImagesFollowVersions ==
  \A m \in Media :
    /\ media[m] = "moderation_pending" /\ binding[m] # None
         => version[binding[m]].state = "pending"
    /\ media[m] # "moderation_pending"
         => binding[m] # None /\ version[binding[m]].state = media[m]

(* getOwnProfile, toResumeView: pending ?? published, the version whose    *)
(* decision and reasons an owner is shown.                                 *)
OwnVersion(r) == IF root[r].pending # 0 THEN root[r].pending ELSE root[r].published

(* moderationState: what the owner is told of it. *)
ModerationState(publicationState) ==
  CASE publicationState = "pending" -> "pending"
    [] publicationState = "published" -> "approved"
    [] publicationState = "revision_required" -> "revision_required"
    [] OTHER -> "not_submitted"

Verdict == [draft |-> "not_submitted", pending |-> "pending",
            approved |-> "approved", rejected |-> "revision_required"]

(* The state an owner is told, which is kept with the root, is that of the *)
(* version whose decision is shown beside it.                              *)
OwnersToldTheTruth ==
  \A r \in Roots :
    ModerationState(root[r].publicationState) =
      IF OwnVersion(r) = 0 THEN "not_submitted" ELSE Verdict[version[<<r, OwnVersion(r)>>].state]

(* A decision is applied to all it concerns: the request agrees with its   *)
(* version, the owner is notified exactly once and told the truth, the     *)
(* root is locked for a review still to come and for nothing else, and an  *)
(* image shares the fate of the version it is bound to, also when that     *)
(* version is decided by a worker that read the image long before.         *)
DecisionsApplied ==
  /\ VersionsFollowRequests /\ OwnersToldOnce /\ OwnersToldTheTruth
  /\ ImagesFollowVersions /\ LockedForReview

(* At most one worker can still write a request, whatever leases lapse.    *)
SingleReviewer ==
  \A w, x \in Workers :
    /\ worker[w].pc \notin {"idle", "selected"} /\ Holds(w)
    /\ worker[x].pc \notin {"idle", "selected"} /\ Holds(x)
    /\ worker[w].v = worker[x].v
    => w = x

(* The answer of the worker that holds the request is never dropped: its   *)
(* version is still the pending one, and what it knew of the image when it *)
(* asked the provider is still true.                                       *)
AnswersNeverDropped ==
  \A w \in Workers :
    worker[w].pc \in {"asking", "failed", "answered"} /\ Holds(w) =>
      LET v == worker[w].v
          m == version[v].media
      IN  /\ IsPending(v)
          /\ worker[w].url = "given" <=> (m # None /\ media[m] = "moderation_pending")
          /\ m # None => media[m] # "rejected"

(* One worker at most can write a request, and what it knows is true.      *)
HolderDecides == SingleReviewer /\ AnswersNeverDropped

(* Once the faults cease every submission is decided, unless the outbox    *)
(* gave its event up.                                                      *)
EverySubmissionDecided ==
  \A v \in Versions :
    version[v].state = "pending" ~>
      version[v].state \in Decided \/ eventStatus[v] = "abandoned"

(* Moderation implements the promise of ReviewedPublication. *)
ReviewOf(state) ==
  CASE state \in {"absent", "draft"} -> "none"
    [] state = "pending" -> "waiting"
    [] OTHER -> state

Promise == INSTANCE ReviewedPublication WITH
  review <- [v \in Versions |-> ReviewOf(version[v].state)],
  shown <- [r \in Roots |-> root[r].published],
  told <- notices

KeepsPromise == Promise!Spec
=============================================================================
