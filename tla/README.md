# Formal models of Команда.МЭИ (MPEITEAM)

TLA+ models of the core of the backend and of the web client: the transactional
outbox, the publication of profiles and resumes through automatic moderation, the
notification of their owners, the media pipeline, commands under an
`Idempotency-Key`, an account with its links and sessions, the tabs of a browser that
share a session, the editors with their upload control, and what the processes keep
in Redis. TLC checks each model on a small instance; TLAPS proves the central safety
results for every value of the constants. Paths below are relative to the repository
root.

## 1. The system

A modular monolith in NestJS with a Next.js client. The **API** process (`backend/src/api`) serves HTTP;
the **worker** process (`backend/src/worker`) runs four loops: the outbox
dispatcher with its BullMQ job slots, the moderation poll, the files poll and the
e-mail poll. Both may run in several instances. They share PostgreSQL (the only
authority), Redis (BullMQ and rate limits; may lose everything), an S3 store and
an SMTP server; legal evidence lives in a second PostgreSQL database. No
transaction spans two of these, and every loop may die between any two calls. The
**client** (`frontend/src`) keeps one session query and one form state per tab; its
tabs share the session cookie, `sessionStorage` per tab and a `BroadcastChannel`.

| component | state it keeps | operations | what is hard |
|---|---|---|---|
| outbox worker (`worker/outbox-worker.service.ts`) | `platform.outbox_deliveries`, BullMQ jobs, per job an activation | claim a batch, publish, begin (count the attempt), renew, execute the consumer, complete, retry or dead-letter, purge | leases that lapse under a running consumer, jobs redelivered by BullMQ, a lost Redis, statements committed without an answer |
| profiles (`modules/profiles/…/profiles.service.ts`) | roots with a pending and a published pointer, immutable versions | create, submit, apply a decision, public reads | two updates at once; a decision for what is no longer pending |
| trust (`modules/trust/…/trust.service.ts`) | `trust.moderation_requests`, inbox, decisions | consume an event, claim, switch endpoint, release, complete | late answers, compare-and-set in two statements |
| moderation worker, provider client | loop position; per-process circuit breakers | ask the primary, then the secondary provider | a call slower than the lease; an exception that ends the poll; which request makes the call that decides whether a breaker opens again |
| notifications, e-mail worker | notifications, `email_deliveries` | consume a decided event, mark read, claim, send, settle | a lease of 30 s nobody renews while SMTP takes its time |
| files (`modules/files/…`) | upload sessions, media, bindings, deletion tombstones; the object store | create, complete, delete; claim, sanitize, store, settle, sweep, bury | two stores without a common transaction; batches processed from stale lists; the client writes at will |
| identity (`modules/identity/…/identity.service.ts`) | accounts, credentials, one-time links, sessions, consents | register, verify, resend, log in, log out, request and confirm a reset | what was read before argon2 and rate limits is stale under the lock; retention and expiry take no lock |
| idempotency (`platform/idempotency`, and copies in identity and files) | `platform.idempotency_records` | look up, delete expired, insert, execute, complete | two equal requests; expiry in the middle; two lock orders |
| heartbeat, health, rate limiters (`worker/worker.service.ts`, `platform/health`, two limiters) | a Redis key with a TTL, shared probes, counters with a window | refresh, stop; readiness, close; consume | a key that must outlive four timeouts; probes under way while the API closes; two Redis calls that are not one |
| session in the browser (`session-provider.tsx`, `auth-form.tsx`, `session-panel.tsx`, …) | one cookie, per tab a cached account and CSRF token | poll, notice, sign in, verify, sign out, reset, save | answers that straddle a change of the cookie, in another tab |
| editors, upload control (`resume-editor.tsx`, `profile-editor.tsx`, `media-upload.tsx`) | the row a form was loaded from, upload calls under way, what the tab remembers | load, save with If-Match, upload, finish, retry, leave | a stale form, overlapping calls, a page that is gone while its requests are not |
| catalogue, configuration, cryptography, reserved modules | — | — | see section 8 |

How they interact. A business transaction writes an outbox event with one
delivery per consumer. `profiles.updateOwnProfile` commits a submission with an
event for `trust.automated-moderation`; the outbox executes
`trust.consumeModerationRequest`, which creates a request; the moderation worker
decides it and, in the deciding transaction, calls into files (image) and profiles
(version, root), which writes the decided event; the outbox executes
`notifications.consumeModerationResult`, which creates a notification and an
e-mail delivery; the e-mail worker sends it. `identity.register` writes an event
per consent; the outbox executes `legalEvidence.appendConsentEvidence`, and
`verifyEmail` counts the completed deliveries of these events as proof.

What makes each component correct:

- *outbox*: no committed event is lost, a success is recorded only after an
  effect, every execution was counted first, one activation at most can write a
  row, a settled row stays settled, every row settles;
- *moderation*: readers see only reviewed content; an owner is locked only while a
  review is under way; a decision reaches request, version, image and owner
  together and once; every submission is decided;
- *notification*: one notification and one letter per decision, a read mark set
  once, and the owner is told;
- *media*: a ready image has its object; a source is not deleted while it may be
  needed; what the owner was told stays true; sessions end, their quarantine is swept,
  deletions are carried out;
- *identity*: a session follows the current password; one live link per purpose,
  used once; nobody is active without a spent link and proof of his consents;
- *idempotent commands*: one execution per key and day, whose outcome every
  retry is told; no deadlock;
- *runtime*: a healthy worker is visible (but for a SET that a short TTL does not
  outlive) and a stopped one is forgotten; a closing API
  is never ready; no subject is locked out by a process that died;
- *browser*: a session that ended is not shown again, nobody ends another user's
  session, and every tab ends up agreeing with the cookie;
- *editing*: no save replaces what its author has not seen; the upload control is busy
  only while it works, and always settles.

## 2. Modules

| module | models | state ↔ code |
|---|---|---|
| `AtLeastOnceDelivery` | what the outbox promises to those who write and consume events | abstract: status, tries, executions of a delivery |
| `OutboxDelivery` | the outbox worker | `row` = deliveries table, `jobs` = BullMQ, `claimed` = a dispatcher's unpublished batch, `handler` = an activation of `#handle` (its locals and position) |
| `ReviewedPublication` | what moderation promises to readers and owners | abstract: review of a version, version shown, owners told |
| `Moderation` | profiles, trust, moderation worker, public images | `root`, `version`, `media`, `binding`, `request` = tables; `worker` = locals of `poll`/`process` |
| `ResultNotification` | notifications and e-mail worker | `notification`, `email` = tables; `sender` = locals of `poll` |
| `MediaPipeline` | files service and files worker | `upload`, `media`, `tombstone` = tables; `quarantine`, `stored` = object store; `worker` = position in `#runOnce` |
| `IdempotentCommand` | the reservation protocol, three copies with two parameters | `record` = committed rows; `pc`, `began`, `asOf`, `erasing`, `until` = a transaction in flight; `holder` = the advisory lock |
| `IdentitySessions` | one account | `account`, `hash`, `link`, `session` = rows; `pc`, `op`, `uses`, `seenHash`, `seenAccount` = a command's reads; `holder` = the advisory lock |
| `BrowserSession` | tabs, cookie and sessions of several accounts | `issued`, `owner`, `open` = session rows; `shown`, `token`, `step` = a tab's query; `phase`, `op` = its command in flight; `formOf` = the profile editor |
| `ResumeEditing` | two editors of one row and the upload control | root and versions as in `Moderation`; `request`, `ifMatch`, `body` = saves; `loaded`, `source`, `image` = form; `pc`, `candidate`, `polls` = calls of `finishUpload`; `storage` = sessionStorage |
| `RuntimeDependencies` | heartbeat, readiness, limiter | `heartbeat` = ticks left to the key; `step`, `elapsed` = `#refreshHeartbeat`; `answer` = probes of a reader; `count`, `window` = counter and expiry |
| `…Proofs` | theorems about the module of that name; `WorkerProofs` about `RuntimeDependencies` and `MediaPipeline` | |
| `MC…` | model values for TLC | |

Each action is one statement, transaction or external call of the code together
with everything the code does before the next point at which another actor can
step in. `Moderation`, `ResultNotification` and `IdentitySessions` do not repeat the
outbox: they instantiate `AtLeastOnceDelivery`, which `OutboxDelivery` is shown to
implement (checked with its liveness, proved for its safety). `BrowserSession` and
`ResumeEditing` repeat of the server what their pages can see of it.

Definitions marked *Slip* are small variants of a definition, the way a plausible
bug would write it; `PROJECT.json` ("mutants") pairs each with the property it must
break. No specification uses them.

### Abstractions that matter

- **Time.** A lease is `live` or `expired`, a due time `now` or `later`; the clock may
  move whenever the code allows it. `IdempotentCommand` has a real clock, because
  three different readings of it meet there; its unit lies between the five seconds
  a transaction may last and the day a record lives. `RuntimeDependencies` counts ticks:
  every step of the worker has a deadline and is taken no later.
- **Transactions** at READ COMMITTED are one action, unless the order of their
  statements matters (`IdempotentCommand`, where inserts and deletes wait for each
  other, and `IdentitySessions`, where reads and writes under the lock are two steps
  so that those who take no lock may come in between).
- **Ambiguous commits.** A rejected statement may have been committed: `QueryErrs`
  (outbox and letters), `AnswerLost` (moderation), `CommitLost` (media), and "lost"
  answers of `IdempotentCommand`.
- **Crashes** drop a process's locals and nothing else (`Crash`, `Interrupted`, `Fail`).
- **Contents.** An image is clean or spoiled, a verdict approved or rejected, a
  password hash a counter of changes (salts make each hash new), an e-mail a count.
- **Links** in `IdentitySessions` are usable from their creation: a late letter and
  a late owner are the same; whether a reset letter still goes out is `Deliverable`. A row that expired, was voided, revoked or purged is
  `over`: no command tells these apart. `deleting` and `deleted` accounts are left
  out, since no code produces them.
- **Profiles and resumes** are one kind of root; the two halves of
  `profiles.service.ts` differ in their fields, in the draft a profile begins with, and
  in what a stranger is shown (`PublicVersions`).
- **Saves** of a form are executed at any time after they were sent, also after their
  page is gone; the tab that sent them may never hear of it.

## 3. Runs

All runs end as stated; counters are bounded by named constants only.

| run | instance | shows |
|---|---|---|
| `outbox` | 1 delivery, 2 processes with a job slot each, 2 attempts, 3 faults, fair | `OutcomesJustified`, `EffectsWithinAttempts`, `SingleHolder`, and `KeepsPromise`: it implements `AtLeastOnceDelivery`, liveness included |
| `moderation` | a profile with an image, 3 versions, 2 workers, an event tried twice, 1 fault, fair | `PublishedReviewed`, `DecisionsApplied`, `HolderDecides`, refinement of `ReviewedPublication`, and every submission is decided unless the outbox gave its event up |
| `notification` | 1 result tried twice, 2 senders, 2 readers, 2 attempts, 2 faults, fair | one notification and letter, one settling sender, read once, owner told; letters implement `AtLeastOnceDelivery` |
| `media` | 1 upload, 2 workers, 1 request, clean and spoiled contents, 1 fault, 1 commit without an answer, fair | deletions in order, ready images have their object unless a commit lost its answer, final answers final, sessions end, quarantines are swept and marked, deletions are carried out |
| `media_false_ready` | 1 worker, one commit without an answer | **violated**: `NoFalseReady` |
| `idempotency` | 3 requests in four mixes of keys, bodies and lock orders, TTL 2, fair | one outcome per key, justified answers, no deadlock |
| `identity` | 2 commands in flight, 3 links, 2 sessions, 1 consent document | sessions, links and activation against stale reads |
| `identity_proof_lost` | 1 command, 2 links | **violated**: `RefusedOnlyUnproven` |
| `browser` | 2 tabs, 2 accounts, one of them unverified, 1 editor, 2 commands, 1 fault, fair | ended sessions stay hidden, only their own users end them, tabs agree in the end |
| `browser_foreign_form` | the same without faults | **violated**: `ForeignFormHidden` |
| `editing` | 2 tabs, one with uploads, 1 upload, 2 calls at once, 2 saves, 1 fault, 1 page left, fair | no blind overwrite, busy means work, usable images, the control settles |
| `runtime` | a worker with interval 1, timeout 1, TTL 4 (the least the schema accepts); 1 reader of 2 probes, 2 callers with limit 1, 1 fault, fair | heartbeat, readiness while closing, limiter |

**Why these bounds suffice.** The rows of one table do not interact, except through
`LIMIT` of a batch: one delivery, result, upload, root or account is the whole of
what a property talks about. Two actors are what a race needs; two attempts tell
"retry" from "give up"; three faults allow a crash, a lapsed lease and an ambiguous
write in one behaviour. Three versions give a published, a rejected and a pending
one; three links a spent, a voided and a live one; three requests the loser of a
race and one that waits behind it; TTL 2 with a clock to 2 lets a record expire
under a request. Two tabs are the one that changes the cookie and the one that does
not know; two commands a sign-out and a sign-in; two saves a stale one and the one it
would replace; two calls of `finishUpload` are as many as typing can start. Two readers
of the readiness check add nothing the proof does not cover, so the run has one. Where a theorem covers the property the bounds do not matter.

`CHECK_DEADLOCK FALSE` stands where the instance may rest: everything settled, the
bounds used up. The media, browser and runtime runs check deadlock: loops, polls and
the clock never rest.

**Fairness.** Faults, requests and clients owe nothing. Weakly fair are only: the poll
timers of the loops (`setTimeout` is re-armed in `finally`), BullMQ's slots and its
stalled-job check, the return of a call (SMTP, HTTP and database clients have
timeouts), the passing of leases and due times, and for `IdempotentCommand` the next
statement of a request that has begun. In `Moderation` and `ResultNotification` the
outbox's own steps are fair because the run `outbox` shows that they settle. In
`BrowserSession` a tab polls and handles its notices, in `ResumeEditing` a call goes on
once its request was answered (`fetch` rejects or resolves), in `RuntimeDependencies`
time passes, Redis executes what it received, and the worker's timer fires; no user,
client or moderator owes a step. A lapse
of a lease *under a working holder* is a fault and never owed.

## 4. Properties

*Outbox.* `OutcomesJustified` (a success only after an effect, a dead letter only after
`MAX_ATTEMPTS`), `EffectsWithinAttempts`, `SingleHolder`, `KeepsPromise`.
*Moderation.* `PublishedReviewed`: strangers find the newest approved version of a root,
and can download its image and no other of that root. `DecisionsApplied`: request,
version, image, lock and notice of the owner change together, and what the owner is
told (`OwnersToldTheTruth`) is what became of the version shown beside it.
`HolderDecides`, `KeepsPromise`, `EverySubmissionDecided`.
*Notification.* `NotifiedTogether`, `SingleSender`, `ReadOnce` (for clients whose If-Match
is a version they have seen, see section 6), `OwnerReached`.
*Media.* `DeletedInOrder`, `ReadyHasObject`, `TerminalIsFinal`, `EverythingEnds`: sessions
end, the source of an ended session is deleted and the session marked (`QuarantineSwept`,
which says nothing of what is put after the mark), deletions are carried out.
*Idempotency.* `OneOutcome`, `AnswersJustified`, `EveryRequestAnswered`.
*Identity.* `SessionsFollowPassword`; `LinksInForce`: one usable link per purpose, one letter
per cooldown, and every live reset link was asked for under the current password and
would still be delivered; `ActiveHasProof`: an active account has all its consents in the
legal database and a spent verification link; `LinksUsedOnce`: a new password spends a
reset link and an activation a live verification link, and no link is spent twice.
*Browser.* `EndedStaysHidden`, `OnlyOwnSessionsEnd`, `TabsAgree`.
*Editing.* `NoBlindOverwrite`, `BusyMeansWork`, `FormImageUsable`, `ControlSettles`.
*Runtime.* `HealthyWorkerVisible`: for every TTL the schema accepts the key is there until the
next SET is sent, and lapses during that SET only with a TTL of at most
`INTERVAL + 3 * TIMEOUT`; `ReadyOnlyOpen`, `StoppedWorkerForgotten`, `NobodyLockedOut`.

Each is stated in words above its definition. The type invariants of the outbox, the
idempotent commands, the identity module and the runtime are proved and therefore not
run; the others are invariants of their runs.

## 5. What is proved

TLAPS proves the following for every value of the constants that satisfies the
named assumptions (`ConstantsOK`, `HandlersFinite`; `RoutesAssumption`,
`TimesAssumption`, `TrafficAssumption`, `NoneAssumption`; `ModerationConstants`;
`IdentityConstants`; `NotificationConstants`; `EditingAssumption`; `SessionAssumption`;
`RuntimeAssumption`; `MediaConstants`): any number of rows, processes, slots, requests, keys, links,
sessions, readers, uploads and workers, and any number of faults.

**`OutboxDeliveryProofs`.** `TypeCorrect`, `FenceCorrect`, `SingleHolderCorrect`,
`OutcomesCorrect`, `NoEventLost`, `DeadLetterCorrect`, `EffectsAccounted`, `SettledForGood`, and
`ImplementsPromise` (the safety half of the refinement). `SingleHolder` is not
inductive: a job or a batch could carry a version from the future. `Fence` says that
none does (batches, jobs and activations know at most the row's current version);
every write that grants or settles a lease raises that version (`RowSteps`,
`VersionsGrow`), so an activation that still matches is the only one. With
`SingleHolder` the loaded attempt count is the row's own (`DeadLetterCorrect`), an
activation that is past its consumer has an effect on record (`Effected`, for
`NoEventLost`), and the activations in flight are counted in `attempt_count`
(`EffectsAccounted`, by cardinalities of finite sets). `ImplementsPromise` maps each action
to a step of `AtLeastOnceDelivery` or a stutter, one lemma per kind of step.

**`ModerationProofs`.** `TypeCorrect`, `RowsCorrect`, `FenceCorrect`, `ImagesCorrect`,
`HolderCorrect`, `DecisionsCorrect`, `PublishedCorrect`, and `ImplementsPromise`: the
whole refinement of `ReviewedPublication`. A request's version only rises, so no worker
is ahead of its row (`Level`) and at most one of those that can still write is level with
it (`Exclusive`): the fence. Every step moves event, request, version, root and notice
together (`RowsFollow`), so that a decision finds its version pending and its root locked
for it. The image needs more: it is read when the provider is asked and written when the
answer arrives, and in between other versions are decided. `Informed` says that what the
holder knew of the image is still true (`ImagesFollow` says why: an image that waits is
bound to the pending version that shows it, so no other decision can touch it).
`HolderDecides`, `DecisionsApplied` and `PublishedReviewed` follow, and each action maps
to one step of the promise or to none.

**`IdempotentCommandProofs`.** `TypeCorrect`, `OutcomeCorrect`, `AnswersHaveReason`, and
their parts `ExecutedOnceCorrect`, `AnswersCorrect`, `RefusalsCorrect`,
`RemembersCorrect`, from one inductive invariant `IInv`. `ExecutedOnce`
alone is not inductive: it needs that uncommitted changes of a key belong to one
transaction (`Exclusive`), that only expired rows are deleted (`ErasesExpired`), that
an uncommitted row went in after every earlier execution of its key had expired
(`Alone`), and that an unexpired execution still has its row (`Remembered`).

**`IdentitySessionsProofs`.** `TypeCorrect`, `SessionsCorrect`, `LinksInForceCorrect`
(from `LinksCorrect` and `ResetLinksCorrect`), `ActivationCorrect`, `LinksSpentOnce`. The
argument follows the code's own: a transaction past its reads holds the account's lock (`Locked`), and
nobody without the lock creates a link or session, changes a hash or takes an
execution back (`Held`), so what was read still justifies what is written
(`LoginJustified`, `ConfirmJustified`, `VerifyJustified`, `LetterJustified`). Those who take no
lock (expiry, logout, the outbox, retention) can only end things. A row of a link keeps its
purpose, and a spent one stays spent (`RowsStay`), so the link a command carries is of
its own purpose (`LinksFit`): `Activates` and `Resets` say which link each of the two spends.

**`WorkerProofs`**, about the worker process: its runtime and its files loop, which share
no state and are proved one after the other.

*Runtime.* `RuntimeTypeCorrect`, `HealthyWorkerStaysVisible` (for every TTL above
`INTERVAL + 2 * TIMEOUT`, which is all the schema guarantees: the key has more ticks left
than the worker's step and those before the next SET can take), `NeverReadyWhileClosing` (a probe that comes back
after the API began to close is down, and a reader is told with the last of its
probes; it needs a reader to ask about something).

*Files loop.* `TypeCorrect`, `DecidedForGood`, `ClaimsFenced`, `DeletionsInOrder`,
`NeverFalselyReady`. A worker works on the key (session, version) it claimed, and the
object it stores has that name. `Typed` adds to the types what a worker knows at its
place in the loop (`Shaped`). Under it every step is summed up once, per kind of state:
what may happen to a session (`RowsAlwaysMove`), to the objects (`StoreAlwaysMoves`), to
the image rows (`MediaAlwaysMoves`), to a tombstone (`TombstoneAlwaysMoves`), to the
quarantine and the requests, and what the worker whose turn it is comes to hold
(`AllKeep`); `DecidedForGood` is one of these summaries. Neither `DeletedInOrder` nor
`ReadyHasObject` is inductive. Three strengthenings, each with its own lemma per part:

- `Ordered`: no worker holds a version its session has not reached (`Fenced`) and no two
  hold the same key (`Apart`), so a key that has been recorded, buried or given up is
  *spent*: never stored again (`ImagesSpent`, `TombstonesSpent`). With the order in which
  the loop stores, records, erases and settles (`StoredBefore`, `ErasedBefore`,
  `BuriesKnown`) a completed tombstone, purged or not, leaves nothing (`BuriedTogether`).
- `NothingLost`: while no commit has lost its answer, a worker discards no object that is
  somebody's image (`DiscardsNoImage`), and a live image has no tombstone
  (`LiveUnburied`). `CommitLost` is the one step that breaks it: finding 1.
- `Guarded`: whoever is about to clear the quarantine works on a session that has ended,
  also from a list it read long ago (`ClearsEnded`, `ListsEnded`), and a request that
  has seen its object finds it still there (`SeenKept`).

**`ResultNotificationProofs`.** `TypeCorrect`, `NotifiedCorrect`, `ReadOnceCorrect`,
`FenceCorrect`, `SingleSenderCorrect`, `LettersAccounted`, and `ImplementsLetters`: the
letters implement the safety of `AtLeastOnceDelivery` a second time. Every write of a
letter raises its `row_version`, so no sender is ahead of its row (`Level`) and no two
hold the same version past the claim (`Exclusive`); `SingleSender` follows. Every letter
the server accepted, or may still accept, was paid for by a counted attempt
(`LettersWithinAttempts`, by cardinalities of finite sets of senders). A request that
marks as read found an unread row or finds one again under its own condition (`LookedUp`).

**`ResumeEditingProofs`.** `TypeCorrect`, `SeenCorrect`, `NoOverwrite`,
`FormImageCorrect`, `BusyCorrect`. A row version is the outcome of one accepted save
(`Counted`), so that a form or request with the current one carries what the newest
version says (`NewestShown`, `Seen`); the compare-and-set of the server does the rest.
Busy tabs have a call that belongs to their page (`BusyMeansWork` with the fate of calls
left behind).

**`BrowserSessionProofs`.** `TypeCorrect`, `EndedHidden`, `OwnSessions`. Sessions are
numbered as they are issued, so a number that has ended is never reopened (`Told`), and
what a tab learns after a notice cannot be one of those; `OwnSessions` follows from the
actions, by the tab's CSRF token.

**Only model-checked.** Liveness, since fairness and ENABLED are beyond the prover:
`EverySubmissionDecided`, `OwnerReached`, `EverythingEnds`, `EveryRequestAnswered`,
`TabsAgree`, `ControlSettles`, `StoppedWorkerForgotten`, `NobodyLockedOut`, and the liveness
of the promises that the outbox and the letters keep. Every invariant and every
action property of a passing run has a theorem. None is about `RefusedOnlyUnproven`
and `ForeignFormHidden`, which do not hold, nor about `NoFalseReady`, which holds only
while no commit loses its answer (`ReadyHasObject`).

## 6. Findings

Each is the counterexample of a run; `PROJECT.json` quotes the sentence it contradicts.

1. **A ready image without its object** (`media_false_ready`; `files-worker.service.ts:258`).
   The catch block around the settling transaction deletes the stored object. If
   the commit went through and only its answer was lost, the session stays
   `technically_ready` and its media row names an object that is gone.
2. **Retention makes a verification impossible** (`identity_proof_lost`;
   `registration-retention.ts:27`). Completed events older than 30 days are deleted,
   those of accounts still unverified too. `verifyEmail` counts their deliveries as
   proof of consent, so that every later link is refused, although the evidence is
   in the legal database.
3. **Another account's form** (`browser_foreign_form`; `profile-editor.tsx:24`). The editor
   keeps the profile it loaded in a state of its own; when another account signs in
   from a second tab, its tab follows the cookie and the form does not.

**Seen while modelling, not the subject of a run.**

- Attempts are not bounded by `MAX_ATTEMPTS`: it is compared in the catch block only
  (`outbox-worker.service.ts:280`), which an activation that dies never reaches.
- A consumer may take effect after another activation recorded the success
  (`outbox-worker.service.ts:218`); every consumer is idempotent for that reason.
- A crash between storing a sanitized object and recording it leaves an object no row
  names (`files-worker.service.ts:211`); nothing lists the store.
- An upload address is valid for its whole lifetime (`s3-storage.adapter.ts:40`), also
  after the session has ended and its quarantine was swept and marked. What is put then is
  never swept again, although `TASK-006.md:37` and `:112` keep a quarantine 24 hours at
  most. `QuarantineSwept` therefore promises the sweep and the mark, and no more.
- `env.schema.ts:101` (`maximumHeartbeatGapMs`) asks for a heartbeat TTL above the interval
  and two timeouts. The answer to one SET and the execution of the next may take one each,
  and the probes another: with a TTL of at most the interval and three timeouts the key of a
  healthy worker can lapse while its SET is on the way. The run `runtime` uses such a TTL;
  `HealthyWorkerVisible` says that this is the only gap. Instances of the worker share
  one key: a stopped one is visible while another runs.
- `markRead` compares the version of a client that looked the row up unread, whatever
  number its If-Match names (`notifications.controller.ts:109`, `notifications.service.ts:84`).
  A client that guesses the next version would mark a notification again that a mark-all
  marked in between. `LookUp` takes versions a client can have seen.
- Of two calls of `finishUpload` that overlap, the first that ends clears the flag while the
  other still works (`media-upload.tsx:107`), and what it forgets in `sessionStorage` may by
  then be another upload's (`:74`, `:87`): that one can no longer be finished after a
  reload. `BusyMeansWork` is the direction that holds; the model has both effects
  (`End`, `HandOver`, `GiveUp`).
- The save of an editor has no catch (`resume-editor.tsx:83`): after a broken connection
  the form stays disabled (`Forever` in `ResumeEditing`). Every submit makes a fresh key,
  so that a retry of a save that was executed meets a stale row version instead of its
  answer.
- An image that moderation rejected stays in the form, and a retired tag cannot be
  deselected: such a form cannot be saved, and the page offers no way out.
- An upload is remembered only after its object was put, and forgotten when the page is
  left before that; the session then expires by itself.
- `getOwnProfile` and `getPublicProfile` read a root and its version in two queries, which
  a decision may separate; a reload shows the rest.
- The breaker of a moderation endpoint counts an error about one document like an outage,
  and keeps the count when it closes by time (`http-content-moderator.ts:58`). A poll makes
  20 claims in turn: with one document that both providers answer with an error and one
  other request, every poll may begin with that document, whose calls open both breakers
  again before the other request is put to a provider.
- The cursor of the notification list has milliseconds, the column microseconds: rows
  of the same millisecond may be skipped.

## 7. Composition

`OutboxDelivery` ⟹ `AtLeastOnceDelivery` ⟵ used by `Moderation` (submission events),
`ResultNotification` (decided events) and `IdentitySessions` (consent events).
`Moderation` ⟹ `ReviewedPublication`. The letters of `ResultNotification` ⟹
`AtLeastOnceDelivery` once more, with the SMTP server as the consumer. A consumer module
sees at most what the promise allows: repeated executions, executions after the
acknowledgement, and events that are given up.

## 8. Not modelled

- The counters and the clock of the circuit breaker: local to one worker, whose polls do
  not overlap. In `Moderation` a call may fail whenever a fault is left, which covers an
  open circuit; and any claimable request may be claimed, whatever its place in the queue.
- Parsing, problem details, metrics, configuration, cryptography, database connections:
  validation, I/O and formatting without state of their own. A route is modelled by the
  command it runs and the inputs it passes on.
- The pixel work of the sanitizer, byte signatures, the scanner's protocol, SMTP and S3
  themselves: only what their calls do, and that they fail.
- Upload quotas, private attachments, and the events, teams and messages that will own
  them; the reserved modules `messaging`, `opportunities`, `recruitment`, `scheduling`,
  `search`, `teams` export nothing.
- Text, tags and projects of a version, the tag catalogue (read-only at run time), the
  list of own resumes, the pages of the notification list.
- The forms for registration and for another verification letter keep a key between
  attempts; what a key does is the subject of `IdempotentCommand`.
- Deleting an account: no code does it. Purging sessions and tokens that no command could
  use any more, as a state of its own; the three-year purge of legal evidence.
- Generated code (`frontend/src/lib/api/generated.ts`, a third of the implementation's
  lines), migrations, infrastructure, scripts.
