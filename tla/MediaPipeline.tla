---------------------------- MODULE MediaPipeline ----------------------------
(***************************************************************************)
(* Images from the upload to the private store and out of it again.        *)
(*                                                                         *)
(*  - backend/src/modules/files/application/files.service.ts: upload       *)
(*    sessions are created, completed and deleted by requests.             *)
(*  - backend/src/modules/files/worker/files-worker.service.ts: worker     *)
(*    loops claim completed uploads under a lease of 30 seconds, store the *)
(*    sanitized image, then sweep expired sessions, the quarantine and the *)
(*    tombstones of deleted images.                                        *)
(*                                                                         *)
(* The object store and PostgreSQL share no transaction: the order of      *)
(* their writes, with a crash or a lost answer between any two, is what    *)
(* this module is about.  A client may write its quarantine object as long *)
(* as the signed URL is valid.  The three reads of a quarantine object in  *)
(* #processSession are one; an image is "ready" whether its scope makes it *)
(* technically_ready or moderation_pending.                                *)
(***************************************************************************)
EXTENDS Naturals, FiniteSets

CONSTANTS
  Uploads,        \* upload sessions, and the image each may become
  Workers,        \* files workers, one loop each
  Requests,       \* complete requests under way
  Contents,       \* what a client may upload
  Clean,          \* the contents the sanitizer accepts
  BatchLimit,     \* LIMIT of the claim query
  MaxVersion,     \* bound: row_version of an upload session
  MaxFaults,      \* bound: infrastructure faults in one behaviour
  MaxLostCommits, \* bound: commits whose answer is lost
  None            \* no upload, no content

ASSUME MediaConstants ==
  /\ Clean \subseteq Contents
  /\ BatchLimit \in Nat \ {0}
  /\ MaxVersion \in Nat
  /\ MaxFaults \in Nat /\ MaxLostCommits \in Nat
  /\ None \notin Uploads \cup Contents

VARIABLES
  upload,     \* files.upload_sessions
  clock,      \* per session: before expires_at, after it, or past the quarantine TTL too
  quarantine, \* the object store: the uploaded object of a session
  stored,     \* the object store: sanitized objects
  media,      \* files.media_objects, by upload session
  tombstone,  \* files.media_deletion_tombstones, by the key of the object
  worker,     \* per worker: where its loop is and what it works on
  request,    \* per request: the upload it completes and the ETag it verified
  faults, lostCommits \* faults taken so far

store == <<quarantine, stored>>
rows == <<upload, media, tombstone>>
bounds == <<faults, lostCommits>>
vars == <<rows, clock, store, worker, request, bounds>>

-----------------------------------------------------------------------------
(* A sanitized object is named by its session and a fresh media id; the    *)
(* version the attempt was claimed under stands for the id.                *)
Keys == Uploads \X (1 .. MaxVersion)

Upload == [state: {"absent", "created", "processing", "ready", "failed", "expired", "purged"},
           rowVersion: Nat, sourceEtag: Contents \cup {None},
           lease: {"none", "live", "expired"}, quarantineDeleted: {"no", "yes"}]

Media == [state: {"absent", "live", "deleting", "deleted"}, version: Nat]

Tombstone == [state: {"absent", "pending", "in_progress", "completed", "failed", "purged"},
              rowVersion: Nat, lease: {"none", "live", "expired"},
              available: {"now", "later"}]

(* The labels of the loop; job is the upload or the object a step is at,   *)
(* version the claimed row version, and batch what is still to be done.    *)
Worker == [pc: {"idle", "working", "examining", "storing", "committing", "discarding",
                "releasing", "rejecting", "clearing", "marking", "expiring", "overdue",
                "listing", "sweeping", "burying", "erasing", "settling", "retrying",
                "purging"},
           batch: SUBSET (Uploads \X Nat), u: Uploads \cup {None}, version: Nat,
           tombstoneVersion: Nat, retry: {"no", "yes"}, back: {"working", "sweeping"}]

AtRest == [pc |-> "idle", batch |-> {}, u |-> None, version |-> 0,
           tombstoneVersion |-> 0, retry |-> "no", back |-> "working"]

Terminal == {"ready", "failed", "expired"}

TypeOK ==
  /\ upload \in [Uploads -> Upload]
  /\ clock \in [Uploads -> {"open", "expired", "overdue"}]
  /\ quarantine \in [Uploads -> Contents \cup {None}]
  /\ stored \subseteq Keys
  /\ media \in [Uploads -> Media]
  /\ tombstone \in [Keys -> Tombstone]
  /\ worker \in [Workers -> Worker]
  /\ request \in [Requests -> [u: Uploads \cup {None}, etag: Contents \cup {None}]]
  /\ faults \in 0 .. MaxFaults
  /\ lostCommits \in 0 .. MaxLostCommits

Init ==
  /\ upload = [u \in Uploads |-> [state |-> "absent", rowVersion |-> 0, sourceEtag |-> None,
                                  lease |-> "none", quarantineDeleted |-> "no"]]
  /\ clock = [u \in Uploads |-> "open"]
  /\ quarantine = [u \in Uploads |-> None]
  /\ stored = {}
  /\ media = [u \in Uploads |-> [state |-> "absent", version |-> 0]]
  /\ tombstone = [k \in Keys |-> [state |-> "absent", rowVersion |-> 0, lease |-> "none",
                                  available |-> "now"]]
  /\ worker = [w \in Workers |-> AtRest]
  /\ request = [c \in Requests |-> [u |-> None, etag |-> None]]
  /\ faults = 0 /\ lostCommits = 0

-----------------------------------------------------------------------------
Fault ==
  /\ faults < MaxFaults
  /\ faults' = faults + 1
  /\ UNCHANGED lostCommits

Goto(w, x) == worker' = [worker EXCEPT ![w] = x]
At(w, pc) == worker[w].pc = pc
Step(w, pc) == Goto(w, [worker[w] EXCEPT !.pc = pc])
Key(w) == <<worker[w].u, worker[w].version>>

(* Slip: the version of a session is taken down instead of up. *)
MovedUncounted(u, state) ==
  [upload[u] EXCEPT !.state = state, !.lease = "none", !.rowVersion = @ - 1]

(* The row of u after an update that moves it to another state. *)
Moved(u, state) ==
  [upload[u] EXCEPT !.state = state, !.lease = "none", !.rowVersion = @ + 1]

-----------------------------------------------------------------------------
(* The requests.                                                           *)

CreateUploadSession(u) ==
  /\ upload[u].state = "absent"
  /\ upload' = [upload EXCEPT ![u].state = "created"]
  /\ UNCHANGED <<clock, store, media, tombstone, worker, request, bounds>>

(* The client writes its object; the signed URL expires with the session.  *)
Put(u, content) ==
  /\ upload[u].state # "absent"
  /\ clock[u] = "open"
  /\ quarantine' = [quarantine EXCEPT ![u] = content]
  /\ UNCHANGED <<rows, clock, stored, worker, request, bounds>>

(* S3StorageAdapter.head: the ETag of an object, if there is one. *)
Head(u) == quarantine[u]

(* completeUpload looks at the object before its transaction. *)
VerifyObject(c, u) ==
  /\ request[c].u = None
  /\ upload[u].state = "created"
  /\ clock[u] = "open"
  /\ Head(u) # None
  /\ request' = [request EXCEPT ![c] = [u |-> u, etag |-> Head(u)]]
  /\ UNCHANGED <<rows, clock, store, worker, bounds>>

Accepted(u, etag) == [Moved(u, "processing") EXCEPT !.sourceEtag = etag]

(* Slip: the transaction does not look at the state again. *)
CompleteUploadAgain(c) ==
  LET u == request[c].u
  IN  /\ u # None
      /\ upload' = IF upload[u].state \in {"absent", "purged"} THEN upload
                   ELSE [upload EXCEPT ![u] = Accepted(u, request[c].etag)]
      /\ request' = [request EXCEPT ![c] = [u |-> None, etag |-> None]]
      /\ UNCHANGED <<clock, store, media, tombstone, worker, bounds>>

(* Its transaction: a session that expired meanwhile is marked so, one     *)
(* that has moved on is answered as it is.                                 *)
CompleteUpload(c) ==
  LET u == request[c].u
  IN  /\ u # None
      /\ upload' = IF upload[u].state # "created" THEN upload
                   ELSE IF clock[u] = "open"
                   THEN [upload EXCEPT ![u] = Accepted(u, request[c].etag)]
                   ELSE [upload EXCEPT ![u] = Moved(u, "expired")]
      /\ request' = [request EXCEPT ![c] = [u |-> None, etag |-> None]]
      /\ UNCHANGED <<clock, store, media, tombstone, worker, bounds>>

(* completeUpload of a session whose time is over. *)
ExpireOnRequest(u) ==
  /\ upload[u].state = "created"
  /\ clock[u] # "open"
  /\ upload' = [upload EXCEPT ![u] = Moved(u, "expired")]
  /\ UNCHANGED <<clock, store, media, tombstone, worker, request, bounds>>

(* No row: never inserted, or deleted long after its completion. *)
NoTombstone(k) == tombstone[k].state \in {"absent", "purged"}

(* queueDeletion, the deletion other modules may ask for. *)
QueueDeletion(u) ==
  LET k == <<u, media[u].version>>
  IN  /\ media[u].state \in {"live", "deleting"}
      /\ IF tombstone[k].state = "completed"
         THEN /\ media' = [media EXCEPT ![u].state = "deleted"]
              /\ UNCHANGED tombstone
         ELSE /\ media' = [media EXCEPT ![u].state = "deleting"]
              /\ tombstone' = IF NoTombstone(k)
                              THEN [tombstone EXCEPT ![k].state = "pending"] ELSE tombstone
      /\ UNCHANGED <<upload, clock, store, worker, request, bounds>>

-----------------------------------------------------------------------------
(* Processing.                                                             *)

Claimable(u) == upload[u].state = "processing" /\ upload[u].lease # "live"

(* Slip: a claim leaves row_version alone, so that two workers hold it. *)
ClaimedAlike(u) == [upload[u] EXCEPT !.lease = "live"]

Claimed(u) == [upload[u] EXCEPT !.lease = "live", !.rowVersion = @ + 1]

(* #claimUploads; SKIP LOCKED may leave rows out. *)
ClaimUploads(w) ==
  /\ At(w, "idle")
  /\ \E S \in SUBSET {u \in Uploads : Claimable(u) /\ upload[u].rowVersion < MaxVersion} :
       /\ Cardinality(S) <= BatchLimit
       /\ upload' = [u \in Uploads |-> IF u \in S THEN Claimed(u) ELSE upload[u]]
       /\ Goto(w, [AtRest EXCEPT !.pc = "working",
                     !.batch = {<<u, Claimed(u).rowVersion>> : u \in S}])
  /\ UNCHANGED <<clock, store, media, tombstone, request, bounds>>

(* The rest of the batch may have lost its lease while the first sessions  *)
(* were processed.                                                         *)
StartSession(w) ==
  /\ At(w, "working")
  /\ \E job \in worker[w].batch :
       LET row == upload[job[1]]
           left == worker[w].batch \ {job}
       IN  Goto(w, IF row.state = "processing" /\ row.rowVersion = job[2] /\ row.lease = "live"
                   THEN [worker[w] EXCEPT !.pc = "examining", !.batch = left,
                                          !.u = job[1], !.version = job[2], !.retry = "no"]
                   ELSE [worker[w] EXCEPT !.batch = left])
  /\ UNCHANGED <<rows, clock, store, request, bounds>>

(* assertStoredUploadMatches: the object still is the one completeUpload    *)
(* verified.                                                               *)
StoredUploadMatches(u) == Head(u) = upload[u].sourceEtag

(* sanitizeImage: of the expected type, clean, and made small enough. *)
Sanitizable(u) == quarantine[u] \in Clean

ExamineObject(w) ==
  LET u == worker[w].u
  IN  /\ At(w, "examining")
      /\ Step(w, IF StoredUploadMatches(u) /\ Sanitizable(u) THEN "storing" ELSE "rejecting")
      /\ UNCHANGED <<rows, clock, store, request, bounds>>

(* The store or the scanner is not available, or gives no valid answer. *)
ExamineFails(w) ==
  /\ Fault
  /\ At(w, "examining")
  /\ Step(w, "releasing")
  /\ UNCHANGED <<rows, clock, store, request>>

StoreObject(w) ==
  /\ At(w, "storing")
  /\ stored' = stored \cup {Key(w)}
  /\ Step(w, "committing")
  /\ UNCHANGED <<rows, clock, quarantine, request, bounds>>

StoreFails(w) ==
  /\ Fault
  /\ At(w, "storing")
  /\ stored' \in {stored, stored \cup {Key(w)}}
  /\ Goto(w, [worker[w] EXCEPT !.pc = "discarding", !.retry = "yes"])
  /\ UNCHANGED <<rows, clock, quarantine, request>>

(* The compare-and-set of releasing and rejecting. *)
Holds(w) ==
  LET row == upload[worker[w].u]
  IN  row.state = "processing" /\ row.rowVersion = worker[w].version

MediaAdded(w) == [media EXCEPT ![worker[w].u] = [state |-> "live", version |-> worker[w].version]]

Ready(u) == [upload EXCEPT ![u] = Moved(u, "ready")]

(* The transaction: the session becomes ready and its image is recorded,   *)
(* if the lease is still live; otherwise the stored object is discarded.   *)
CommitMedia(w) ==
  LET u == worker[w].u
  IN  /\ At(w, "committing")
      /\ IF Holds(w) /\ upload[u].lease = "live"
         THEN /\ upload' = Ready(u)
              /\ media' = MediaAdded(w)
              /\ Step(w, "clearing")
         ELSE /\ Step(w, "discarding")
              /\ UNCHANGED <<upload, media>>
      /\ UNCHANGED <<clock, store, tombstone, request, bounds>>

CommitFails(w) ==
  /\ Fault
  /\ At(w, "committing")
  /\ Goto(w, [worker[w] EXCEPT !.pc = "discarding", !.retry = "yes"])
  /\ UNCHANGED <<rows, clock, store, request>>

(* The transaction was committed although it rejects. *)
CommitLost(w) ==
  LET u == worker[w].u
  IN  /\ lostCommits < MaxLostCommits
      /\ lostCommits' = lostCommits + 1
      /\ At(w, "committing") /\ Holds(w) /\ upload[u].lease = "live"
      /\ upload' = Ready(u)
      /\ media' = MediaAdded(w)
      /\ Goto(w, [worker[w] EXCEPT !.pc = "discarding", !.retry = "yes"])
      /\ UNCHANGED <<clock, store, tombstone, request, faults>>

AfterDiscard(w) ==
  Goto(w, IF worker[w].retry = "yes" THEN [worker[w] EXCEPT !.pc = "releasing"]
          ELSE [worker[w] EXCEPT !.pc = "working", !.u = None])

(* #deleteSanitizedOrQueue *)
DiscardObject(w) ==
  /\ At(w, "discarding")
  /\ stored' = stored \ {Key(w)}
  /\ AfterDiscard(w)
  /\ UNCHANGED <<rows, clock, quarantine, request, bounds>>

(* The deletion fails, done or not: a tombstone is upserted. *)
DiscardFails(w) ==
  /\ Fault
  /\ At(w, "discarding")
  /\ stored' \in {stored, stored \ {Key(w)}}
  /\ tombstone' = [tombstone EXCEPT ![Key(w)] =
       [state |-> "pending", lease |-> "none", available |-> "now",
        rowVersion |-> IF NoTombstone(Key(w)) THEN 0 ELSE @.rowVersion + 1]]
  /\ AfterDiscard(w)
  /\ UNCHANGED <<upload, media, clock, quarantine, request>>

Back(w, pc) == Goto(w, [worker[w] EXCEPT !.pc = pc, !.u = None])

(* #releaseUploadClaim: the session may be claimed again at once. *)
ReleaseClaim(w) ==
  LET u == worker[w].u
  IN  /\ At(w, "releasing")
      /\ upload' = IF Holds(w) THEN [upload EXCEPT ![u] = Moved(u, "processing")] ELSE upload
      /\ Back(w, "working")
      /\ UNCHANGED <<clock, store, media, tombstone, request, bounds>>

(* The image is refused for good. *)
RejectUpload(w) ==
  LET u == worker[w].u
  IN  /\ At(w, "rejecting")
      /\ IF Holds(w)
         THEN /\ upload' = [upload EXCEPT ![u] = Moved(u, "failed")]
              /\ Step(w, "clearing")
         ELSE /\ Back(w, "working")
              /\ UNCHANGED upload
      /\ UNCHANGED <<clock, store, media, tombstone, request, bounds>>

(* #deleteQuarantine: the object, then the mark on its session. *)
ClearQuarantine(w) ==
  /\ At(w, "clearing")
  /\ quarantine' = [quarantine EXCEPT ![worker[w].u] = None]
  /\ Step(w, "marking")
  /\ UNCHANGED <<rows, clock, stored, request, bounds>>

MarkCleared(w) ==
  LET u == worker[w].u
  IN  /\ At(w, "marking")
      /\ upload' = IF upload[u].quarantineDeleted = "no" /\ upload[u].state # "purged"
                   THEN [upload EXCEPT ![u].quarantineDeleted = "yes", ![u].rowVersion = @ + 1]
                   ELSE upload
      /\ Back(w, worker[w].back)
      /\ UNCHANGED <<clock, store, media, tombstone, request, bounds>>

(* Slip: an error of the store counts as deleted. *)
ClearFailsSwallowed(w) ==
  /\ Fault
  /\ worker[w].pc \in {"clearing", "marking"}
  /\ quarantine' \in {quarantine, [quarantine EXCEPT ![worker[w].u] = None]}
  /\ Step(w, "marking")
  /\ UNCHANGED <<rows, clock, stored, request>>

(* Either of the two rejects and is caught: a later sweep tries again. *)
ClearFails(w) ==
  /\ Fault
  /\ worker[w].pc \in {"clearing", "marking"}
  /\ quarantine' \in {quarantine, [quarantine EXCEPT ![worker[w].u] = None]}
  /\ Back(w, worker[w].back)
  /\ UNCHANGED <<rows, clock, stored, request>>

-----------------------------------------------------------------------------
(* Housekeeping.                                                           *)

FinishBatch(w) ==
  /\ At(w, "working") /\ worker[w].batch = {}
  /\ Step(w, "expiring")
  /\ UNCHANGED <<rows, clock, store, request, bounds>>

(* Slip: only sessions in the state "uploaded" expire, which nothing sets. *)
ExpireUploaded(w) ==
  /\ At(w, "expiring")
  /\ Step(w, "overdue")
  /\ UNCHANGED <<rows, clock, store, request, bounds>>

(* #expireUploads, its first statement and its second one. *)
ExpireUnused(w) ==
  /\ At(w, "expiring")
  /\ upload' = [u \in Uploads |->
       IF upload[u].state = "created" /\ clock[u] # "open" THEN Moved(u, "expired") ELSE upload[u]]
  /\ Step(w, "overdue")
  /\ UNCHANGED <<clock, store, media, tombstone, request, bounds>>

Overdue(u) ==
  upload[u].state = "processing" /\ clock[u] = "overdue" /\ upload[u].lease # "live"

FailOverdue(w) ==
  /\ At(w, "overdue")
  /\ upload' = [u \in Uploads |->
       IF Overdue(u) THEN Moved(u, "failed") ELSE upload[u]]
  /\ Step(w, "listing")
  /\ UNCHANGED <<clock, store, media, tombstone, request, bounds>>

(* Slip: the sweep takes every session whose time is over. *)
SweepableByClock(u) == clock[u] # "open" /\ upload[u].quarantineDeleted = "no"

(* Slip: the sweep forgets sessions that ended well. *)
SweepableFailed(u) ==
  upload[u].state \in {"failed", "expired"} /\ upload[u].quarantineDeleted = "no"

Sweepable(u) == upload[u].state \in Terminal /\ upload[u].quarantineDeleted = "no"

(* #cleanupQuarantine lists the sessions, then clears one after the other. *)
ListQuarantine(w) ==
  /\ At(w, "listing")
  /\ Goto(w, [worker[w] EXCEPT !.pc = "sweeping", !.back = "sweeping",
                !.batch = {<<u, 0>> : u \in {v \in Uploads : Sweepable(v)}}])
  /\ UNCHANGED <<rows, clock, store, request, bounds>>

SweepQuarantine(w) ==
  /\ At(w, "sweeping")
  /\ IF worker[w].batch = {} THEN Step(w, "burying")
     ELSE \E job \in worker[w].batch :
            Goto(w, [worker[w] EXCEPT !.pc = "clearing", !.u = job[1],
                                      !.batch = @ \ {job}])
  /\ UNCHANGED <<rows, clock, store, request, bounds>>

(* Slip: tombstones whose lease ran out are forgotten. *)
DueAgain(k) == tombstone[k].state \in {"pending", "failed"} /\ tombstone[k].available = "now"

Due(k) ==
  \/ tombstone[k].state \in {"pending", "failed"} /\ tombstone[k].available = "now"
  \/ tombstone[k].state = "in_progress" /\ tombstone[k].lease = "expired"

(* #processTombstones claims one. *)
ClaimTombstone(w) ==
  /\ At(w, "burying")
  /\ \/ \E k \in Keys :
          /\ Due(k)
          /\ tombstone' = [tombstone EXCEPT ![k].state = "in_progress", ![k].lease = "live",
                                            ![k].rowVersion = @ + 1]
          /\ Goto(w, [worker[w] EXCEPT !.pc = "erasing", !.u = k[1], !.version = k[2],
                        !.tombstoneVersion = tombstone[k].rowVersion + 1])
     \/ /\ \A k \in Keys : ~Due(k)
        /\ Step(w, "purging")
        /\ UNCHANGED tombstone
  /\ UNCHANGED <<upload, media, clock, store, request, bounds>>

EraseObject(w) ==
  /\ At(w, "erasing")
  /\ stored' = stored \ {Key(w)}
  /\ Step(w, "settling")
  /\ UNCHANGED <<rows, clock, quarantine, request, bounds>>

Buries(w) ==
  LET t == tombstone[Key(w)]
  IN  t.state = "in_progress" /\ t.rowVersion = worker[w].tombstoneVersion

IsMedia(k) == media[k[1]].state \in {"live", "deleting"} /\ media[k[1]].version = k[2]

(* The transaction that completes the tombstone and deletes the rows. *)
SettleTombstone(w) ==
  LET k == Key(w)
  IN  /\ At(w, "settling")
      /\ IF Buries(w)
         THEN /\ tombstone' = [tombstone EXCEPT ![k].state = "completed", ![k].lease = "none",
                                                ![k].rowVersion = @ + 1]
              /\ media' = IF IsMedia(k) THEN [media EXCEPT ![k[1]].state = "deleted"] ELSE media
         ELSE UNCHANGED <<tombstone, media>>
      /\ Step(w, "purging")
      /\ UNCHANGED <<upload, clock, store, request, bounds>>

(* Slip: an error of the store counts as deleted. *)
EraseFailsSwallowed(w) ==
  /\ Fault
  /\ worker[w].pc \in {"erasing", "settling"}
  /\ stored' \in {stored, stored \ {Key(w)}}
  /\ Step(w, "settling")
  /\ UNCHANGED <<rows, clock, quarantine, request>>

(* The deletion or the transaction rejects, done or not. *)
EraseFails(w) ==
  /\ Fault
  /\ worker[w].pc \in {"erasing", "settling"}
  /\ stored' \in {stored, stored \ {Key(w)}}
  /\ Step(w, "retrying")
  /\ UNCHANGED <<rows, clock, quarantine, request>>

RetryTombstone(w) ==
  /\ At(w, "retrying")
  /\ tombstone' = IF Buries(w)
                  THEN [tombstone EXCEPT ![Key(w)] =
                         [state |-> "failed", lease |-> "none", available |-> "later",
                          rowVersion |-> @.rowVersion + 1]]
                  ELSE tombstone
  /\ Step(w, "purging")
  /\ UNCHANGED <<upload, media, clock, store, request, bounds>>

(* #purgeMetadata: terminal sessions a week later, completed tombstones    *)
(* thirty days later; the loop starts over.                                *)
PurgeMetadata(w) ==
  /\ At(w, "purging")
  /\ \E S \in SUBSET {u \in Uploads : /\ upload[u].state \in Terminal
                                      /\ upload[u].quarantineDeleted = "yes"
                                      /\ clock[u] = "overdue"} :
       upload' = [u \in Uploads |->
         IF u \in S THEN [upload[u] EXCEPT !.state = "purged"] ELSE upload[u]]
  /\ \E T \in SUBSET {k \in Keys : /\ tombstone[k].state = "completed"
                                   /\ clock[k[1]] = "overdue"} :
       tombstone' = [k \in Keys |->
         IF k \in T THEN [tombstone[k] EXCEPT !.state = "purged", !.rowVersion = 0]
         ELSE tombstone[k]]
  /\ Goto(w, AtRest)
  /\ UNCHANGED <<clock, store, media, request, bounds>>

-----------------------------------------------------------------------------
(* A statement outside the try blocks rejects, or the worker dies: the     *)
(* rest of the loop is skipped.                                            *)
Interrupted(w) ==
  /\ Fault
  /\ worker[w].pc # "idle"
  /\ Goto(w, AtRest)
  /\ UNCHANGED <<rows, clock, store, request>>

ClockAdvances(u) ==
  /\ upload[u].state # "absent"
  /\ clock[u] # "overdue"
  /\ clock' = [clock EXCEPT ![u] = IF @ = "open" THEN "expired" ELSE "overdue"]
  /\ UNCHANGED <<rows, store, worker, request, bounds>>

Pursued(u) ==
  \E w \in Workers :
    \/ <<u, upload[u].rowVersion>> \in worker[w].batch
    \/ /\ worker[w].pc \in {"examining", "storing", "committing", "discarding", "releasing",
                            "rejecting"}
       /\ worker[w].u = u /\ worker[w].version = upload[u].rowVersion

(* Thirty seconds outlast the processing unless something stalls. *)
LeaseExpires(u) ==
  /\ upload[u].lease = "live"
  /\ IF Pursued(u) THEN Fault ELSE UNCHANGED bounds
  /\ upload' = [upload EXCEPT ![u].lease = "expired"]
  /\ UNCHANGED <<clock, store, media, tombstone, worker, request>>

TombstonePursued(k) ==
  \E w \in Workers : /\ worker[w].pc \in {"erasing", "settling", "retrying"}
                     /\ Key(w) = k /\ worker[w].tombstoneVersion = tombstone[k].rowVersion

TombstoneTime(k) ==
  /\ \/ /\ tombstone[k].lease = "live"
        /\ IF TombstonePursued(k) THEN Fault ELSE UNCHANGED bounds
        /\ tombstone' = [tombstone EXCEPT ![k].lease = "expired"]
     \/ /\ tombstone[k].available = "later"
        /\ tombstone' = [tombstone EXCEPT ![k].available = "now"]
        /\ UNCHANGED bounds
  /\ UNCHANGED <<upload, media, clock, store, worker, request>>

-----------------------------------------------------------------------------
Requested ==
  \/ \E u \in Uploads : CreateUploadSession(u) \/ ExpireOnRequest(u) \/ QueueDeletion(u)
  \/ \E u \in Uploads, content \in Contents : Put(u, content)
  \/ \E c \in Requests : CompleteUpload(c) \/ \E u \in Uploads : VerifyObject(c, u)

Processes(w) ==
  \/ ClaimUploads(w) \/ StartSession(w) \/ ExamineObject(w) \/ StoreObject(w)
  \/ CommitMedia(w) \/ DiscardObject(w) \/ ReleaseClaim(w) \/ RejectUpload(w)
  \/ ClearQuarantine(w) \/ MarkCleared(w)

Housekeeps(w) ==
  \/ FinishBatch(w) \/ ExpireUnused(w) \/ FailOverdue(w) \/ ListQuarantine(w)
  \/ SweepQuarantine(w) \/ ClaimTombstone(w) \/ EraseObject(w) \/ SettleTombstone(w)
  \/ RetryTombstone(w) \/ PurgeMetadata(w)

RunOnce(w) == Processes(w) \/ Housekeeps(w)

Fails(w) ==
  \/ ExamineFails(w) \/ StoreFails(w) \/ CommitFails(w) \/ CommitLost(w) \/ DiscardFails(w)
  \/ ClearFails(w) \/ EraseFails(w) \/ Interrupted(w)

Next ==
  \/ Requested
  \/ \E w \in Workers : RunOnce(w) \/ Fails(w)
  \/ \E u \in Uploads : ClockAdvances(u) \/ LeaseExpires(u)
  \/ \E k \in Keys : TombstoneTime(k)

Spec == Init /\ [][Next]_vars

(* The timer of every worker fires and clocks advance; requests owe        *)
(* nothing.                                                                *)
FairSpec ==
  /\ Spec
  /\ \A w \in Workers : WF_vars(RunOnce(w))
  /\ \A u \in Uploads : /\ WF_vars(ClockAdvances(u))
                        /\ WF_vars(LeaseExpires(u) /\ UNCHANGED faults)
  /\ \A k \in Keys : WF_vars(TombstoneTime(k) /\ UNCHANGED faults)

-----------------------------------------------------------------------------
(* As long as an upload may be processed or retried its source is there:   *)
(* no sweep of another worker, working from a list it read long ago,       *)
(* deletes it.                                                             *)
QuarantineKept ==
  \A u \in Uploads : upload[u].state = "processing" =>
    quarantine[u] # None /\ upload[u].quarantineDeleted = "no"

(* No false ready: a ready session has its image, and an image that is not *)
(* deleted has its object in the store.                                    *)
NoFalseReady ==
  \A u \in Uploads :
    /\ upload[u].state = "ready" => media[u].state # "absent"
    /\ media[u].state = "live" => <<u, media[u].version>> \in stored

(* As long as a transaction that rejects was rolled back, as the worker    *)
(* assumes, no lapsed lease, failed call or crash leaves a false ready.    *)
ReadyHasObject == lostCommits = 0 => NoFalseReady

(* A completed tombstone leaves neither the object nor its rows, and       *)
(* nothing stores the object again afterwards, also when the tombstone     *)
(* itself is gone.                                                         *)
BuriedTogether ==
  \A k \in Keys :
    tombstone[k].state \in {"completed", "purged"} => k \notin stored /\ ~IsMedia(k)

(* Nothing is deleted too early, and nothing comes back. *)
DeletedInOrder == QuarantineKept /\ BuriedTogether

(* What an owner was told of an upload stays true: no late request, stale  *)
(* worker or sweep reopens a session or decides it differently.            *)
TerminalIsFinal ==
  [][\A u \in Uploads : upload[u].state \in Terminal =>
       upload'[u].state \in {upload[u].state, "purged"}]_vars

(* Once the faults cease every session is ready, failed or expired.        *)
UploadsEnd ==
  \A u \in Uploads :
    upload[u].state \in {"created", "processing"} ~> upload[u].state \in Terminal \cup {"purged"}

(* The quarantine of every finished session is swept in the end, also when *)
(* the store was down at that moment: the object is deleted, then the      *)
(* session is marked.  The mark says no more than that.  A session may end *)
(* while its upload URL is valid, and what the client puts again once the  *)
(* sweep has passed stays, since nothing looks for it any more.            *)
Unswept(u) ==
  /\ upload[u].state \in Terminal /\ upload[u].quarantineDeleted = "no"
  /\ \A w \in Workers : ~(At(w, "marking") /\ worker[w].u = u)

QuarantineSwept ==
  \A u \in Uploads : /\ Unswept(u) ~> quarantine[u] = None
                     /\ upload[u].state \in Terminal ~> upload[u].quarantineDeleted = "yes"

(* An image whose deletion was asked for is deleted in the end.            *)
DeletionsCarriedOut ==
  \A u \in Uploads : media[u].state = "deleting" ~> media[u].state = "deleted"

(* Once the faults cease every session ends, its quarantine is swept, and  *)
(* every deletion that was asked for is carried out.                       *)
EverythingEnds == UploadsEnd /\ QuarantineSwept /\ DeletionsCarriedOut
=============================================================================
