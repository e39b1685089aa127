# A verification project for gitsink-api

GitSink keeps a developer's projects in step with their Git repositories: a NestJS API over
PostgreSQL (Prisma), Redis caches and BullMQ queues. This directory holds TLA+ models of the parts
whose correctness depends on the order of concurrent steps and on failures, the TLC runs that check
them on small instances and the TLAPS proofs about them for every instance.

## 1. Inventory

| Component | State it keeps | Operations | Hard behaviour | What makes it correct |
|---|---|---|---|---|
| Webhook pipeline (`src/webhooks`) | table `WebhookEvent`, queue `webhook` | receive, process, synchronise, retry, operator retry | two kinds of worker on one queue, BullMQ attempts beside own retries, crash between hand-over and mark | nothing is marked processed before it was handed over; every job has a cause; retries end |
| Project synchronisation (`src/projects`, sync worker) | table `Project`, queue `sync`, two cache entries per user | sync one, sync all (endpoint, cron, OAuth), direct sync, read one, read all | syncs of one repository from queue and past it, fetch long before write, READ COMMITTED, cache fills racing evictions, job ids that outlive jobs | no older content over a newer one; a completed sync left a project; caches converge |
| Queue infrastructure (`src/queues`) | BullMQ queues, worker metrics | add, clean up, restart workers | stalled jobs run twice; finished jobs are forgotten by count | at most one slot per job unless a lock is lost |
| Session tokens (`src/auth/jwt-token`, `magic-link`) | `RefreshToken`, `TokenBlacklist`, `MagicLinkToken` | log in, refresh, revoke, revoke all, clean up | revocation racing refresh and login; unique `jti`; trimming before creating | nothing issued after a revocation; a link logs in once; only old sessions are trimmed |
| Billing and subscriptions (`src/billing`, `src/subscriptions`) | `Subscription`, `Payment` | checkout, provider events, cancel, resume, downgrade | events redelivered and out of order, from three providers, beside the user's own requests, which no provider is told of | a paid tier has its paid checkout; an answered invoice is recorded, and how often; the row mirrors the provider |
| Payment providers (`src/billing/providers`) | the provider's own | open a checkout, verify and translate an event | the three differ in what they tell and when | (environment of billing) |
| API keys (`src/api-keys`, `src/auth/api-key`) | `ApiKeyToken`, `User.apiKey`, `ApiUsage` | create, update, rotate, revoke, validate, count a call | limits counted before the write; rotation and update racing revocation | a revoked or replaced secret stays refused; limits are passed only by overlapping requests |
| Email delivery (`src/queues/email`, `src/mail`) | queue `email`, `EmailSuppression`, `EmailBounce` | enqueue, send, bounce, complaint, delivery | two workers with different timeouts and stall limits; a timed-out attempt goes on; notifications repeated and overlapping | one email per job unless an attempt was cut; a complaint keeps its suppression |
| Metadata versions (`src/parser/metadata`) | `CustomMetadata`, `Project.customMetadata`, three kinds of cache entry | store, delete, read, list, compare | version number read before it is used; two writes without transaction; caches filled across changes | a number is given once; the project shows the latest version; caches converge |
| AI enrichment | `AIAnalysis`, queue `ai-enrichment` | enrich a project | external service, repeated jobs | one analysis per repository state |
| Sandbox | flagged rows of `Profile` and `Project`, JSON settings | start, reset, migrate, end | read-modify-write of settings; flags that reach a user's own rows | only sandbox data is deleted |
| Platforms, signatures, Portfolio.md parser | none | clients and pure functions | - | - |
| Audit, sync history, profiles, health, metrics, common services | rows and counters | record, report, limit | - | - |

How they interact: the webhook pipeline ends in `ProjectsService.syncProjectFromGitHub`, the
function the sync worker runs; every successful sync queues an AI enrichment; login and OAuth queue
a sync-all; the tier that billing writes bounds the API keys. Components call one another in process
and meet only in PostgreSQL, Redis and BullMQ, which is why each module below keeps those three as
its state and takes one `await` as one step.

`PROJECT.json` lists the components with their status, the hazards at their lines, and the source
lines of every definition.

## 2. Modules

Each component has a module, an `MC` module with model values and bounds for TLC, and a `Proofs`
module (section 5). A request, job or handler is a record with a program counter; between two of its
steps anything else may happen.

### EventLife, WebhookPipeline

`EventLife` is what an event is promised whatever its jobs do to each other: once stored it stays, it is
called processed only after what it asks for was requested, a repository is synchronised only on request,
and the event is called failed at most once for each call that failed.

`WebhookPipeline` is how the code does it, from a stored webhook event to a synchronised project. `jobs`
is the queue `webhook` (every job ever added, in order), `events` the table `WebhookEvent`, `synced` the
events whose repository was synchronised, `run` what each worker or operator request is executing (a
program counter per `await`), `left` the bounds. Both `WebhookWorkerService` and
`WebhookSyncWorkerService` take any job (`Take`); `Load`, `Process`, `Mark`, `Catch` and `Schedule` are
`WebhookHandlerService.processWebhook`, `ExecuteSync` is `WebhookSyncService.executeSyncOperation`,
`Settle` the end of `process()` with BullMQ's verdict. `Crash` kills a process, `LoseLock` and `Recover`
are BullMQ's stalled check.

`WebhookPipeline` implements `EventLife` under the mapping its last definitions give: the state of an event
is what its row says (`processed`, `error`), a synchronisation is requested when a sync job is on the
queue, and an event is broken for a run that has met its failure and not yet written it (`Broken`). The row
goes from processed back to failed, as in the code; what the mapping shows is that this takes a failed call
of the very run that writes it, that no failure is written twice, and that the order of request, mark and
synchronisation survives whatever the repetitions do.

Abstracted: payloads (`Kind` says whether an event asks for a synchronisation and from which
platform), retry delays (a delayed job may fall due at any moment), duplicates (a redelivered event
finds its row; a row not found again is another member of `Events`). The second is the rule: `payload` is
a `Json` column, PostgreSQL gives its keys back in an order of its own, and `isDuplicateEvent` compares
the hash of that text with the hash of the text received.

### ProjectSync

The synchronisation of one user's projects. `remote` counts the pushes GitHub has seen (`Hidden`: a
private repository, which `syncAllReposForUser` lists with the user's token and
`syncProjectFromGitHub` fetches without); `row` is the table `Project`, its content the number of the
push it was read at; `jobs` is the queue `sync`, one job per id because the id is made of user and
repository; `rowCache` and `listCache` are the two cache entries; `toEnrich` the repositories with a
job on `ai-enrichment`; `run` what each slot, direct call, sync-all and reader executes; `skipped`
remembers the repositories whose placeholder a sync left blank because it was fresh. `Fetch`,
`Check`, `Upsert`, `Evict`, `Store`, `Settle` are the awaits of `syncProjectFromGitHub` (the
transaction's two queries are two steps, because it runs at READ COMMITTED and takes no lock);
`StartAll`, `Place`, `Queue` are `syncAllReposForUser`; `ReadList`, `FillList`, `ReadRow`, `FillRow`
the readers; `Age`, `ExpireList`, `ExpireRow` the passing of time.

Three assumptions. (1) The user modelled is the one `WEBHOOK_USER_ID` names, so that direct calls write
the same rows. (2) A sync reaches its check less than 30 seconds after it asked for Portfolio.md: the
request times out after 15 s and a transaction begins within 5 s or fails. It is the guard of `Age`.
(3) The caches are one store for all who use them, here and in `MetadataVersions`: Redis, as
`app.module.ts:87` means it, or the memory of the only process. `package.json` pins `cache-manager` 6 and
`@nestjs/cache-manager` 3, which may not read the option `store`; several processes would then each have
caches of their own, which no eviction of another reaches, and nothing here is about those.

Abstracted: the branch; the second query of the skip branch (same row, same transaction); sync-all
jobs queued by OAuth are runs of `Requests` without BullMQ's attempts; the content delivery network
in front of Portfolio.md, which may serve an older file; BullMQ releases that refuse ids with a
colon, where `addJob` always takes its failing branch. Not modelled: the filtered, paginated and
`:all` caches, soft deletion, and functions without callers (`syncProjectSafely`,
`moveToDeadLetterQueue`, `retryFailedJob`).

### SessionLife, SessionTokens

`SessionLife` is what the session tokens promise: a session is opened once and closed for good, earns
access tokens only while open, is confirmed revoked only when closed, and a magic link signs in once.

`SessionTokens` is how the code does it, for one user: requests of several database calls each and no
transaction. `rows` is the table `RefreshToken` (a row's id is the `jti` of its refresh token), `born`
and `granted` its columns `createdAt` and `usageCount`, `blacklist` the table `TokenBlacklist`, `link`
the table `MagicLinkToken`, `expired` the tokens past their `exp`. `issued`, `confirmed` and `signIns`
record what responses have told the user; nothing reads them but the properties and the choice of the
tokens a request may present. `run` has a program counter per `await`, with what the handler holds in
its variables: `seen` and `todo` are the rows it read and those it has still to treat. `Login`,
`TrimDelete`, `Store` are `generateTokenPair`; `OpenLink`, `Store`, `Burn`, `Sweep` are
`validateMagicLink`; `Refresh`, `Find`, `Use` are `refreshAccessToken`; `Logout`, `Drop` are
`blacklistToken`; `RevokeAll`, `Collect`, `Bar`, `Barred`, `DropAll` are `revokeAllUserTokens`, its
`Promise.all` being one `Bar` per row in any order; `Clean`, `CleanList` are `cleanupExpiredTokens`.
`Answer` is the response of each. `Abort` is a call that throws or a process that dies, after any step.

`SessionTokens` implements `SessionLife` under the mapping its last definitions give: a session is
"none" before its row was created, "open" while it exists, "closed" after. The steps that matter are
three: `Use` throws when the row is gone, which is all that stops a refresh overtaken by a revocation;
`Burn` throws when the link is gone, which is all that stops the second of two sign-ins; revocations
answer after the rows are deleted.

Abstracted: the request presents a token the user was given, so signatures and hashes always match; the
queries of the user alone are dropped (`findUnique`, `lastLoginAt`), and with them the instant between a
token's verification and the lookup of the blacklist (a token that expires in it, its entry cleaned up,
is refused by `Find`); `createdAt` is taken when the row is inserted, and no two rows share an instant;
a clean-up compares with one `now`; the access token of a magic link is never presented, since it has no
`jti` and validation throws on it.

### Subscriptions

The row of one user in `Subscription`, and the providers that write to it. `sub` is the row, `payments`
counts the `Payment` rows of each invoice, `renewed` holds the invoices whose handler has extended the
period and reset the usage. `via`, `paying` and `sent` are the provider's side: what each checkout was
opened for, how it stands there, and the events sent, numbered in the order in which they happened;
`answered` those answered 200. `handler` is what each event's handler executes, `asked` what a request of
the user has found and is about to write. `orderly` remembers that no event came out of turn, no two
checkouts were paid at once and the user wrote nothing.

`Checkout`, `Renew`, `Decline`, `Recover`, `GiveUp`, `PortalCancel`, `EndAtProvider` are the provider;
`Told` says which events each provider sends of each change, in the application's terms: the cases of
`processStripeEvent` and its two siblings, which drop every event they do not name. `Receive` is the
controller with its signature check, `CheckoutComplete`, `SubscriptionUpdate`, `SubscriptionDeleted`,
`FindPayer`, `RecordPayment`, `ExtendPeriod`, `PaymentFailed` the handlers of `BillingService`, `Answer`
their end. `Fail` is a call that throws, a process that dies or an answer that is lost. `UpgradeToFree`,
`AskCancel`, `AskResume`, `CancelNow`, `CancelLater`, `Resume` are `SubscriptionsService`: a read that
checks, and a write by the user's id.

`RawBody` is a constant because `main.ts` does not ask for the raw bodies that every signature check
needs: FALSE is the application as it is started, TRUE as its handlers are written for. The hazards of the
handlers are there only when it is TRUE.

Every checkout hands its provider the user (`stripe.provider.ts:62`, `paypal.provider.ts:120`,
`lemonsqueezy.provider.ts:75`), and its events bring it back; the early returns of the handlers for an
event without one (`billing.service.ts:361`, `:418`, `:438`) are of events of no checkout, and write nothing.

Abstracted: amounts, currencies, dates; trials; a provider's delay between two repetitions. An invoice
is named by its event, and a customer is the user's account at a provider.

### KeyLife, ApiKeys

`KeyLife` is what a user is promised of secrets: usable or not as they like until replaced or revoked,
then dead for good.

`ApiKeys` is how the code does it. `key` holds the rows of `ApiKeyToken` (`secret` counts the secrets a
key has had, so the n-th secret of `k` is `<<k, n>>`), `plan` the tier of the subscription, which may
change at any moment, `account` whether `User.apiKey` holds a hash, `usage` the `ApiUsage` rows of the
window, `req` what each request executes. `AskCreate`, `Count`, `Create` are `createApiKey`; `Find`
with `Update`, `Rotate` or `Revoke` the three requests that look for a key that is not revoked and then
write it by id; `Usable` is the decision of `validateApiKey`; `Generate`, `RevokeAccountKey`, `Call`,
`CheckRateLimit`, `TrackUsage` are `src/auth/api-key.service.ts` and the guard. `Outdated` marks the
requests whose reading is no longer so.

`ApiKeys` implements `KeyLife`: a secret is usable when `Usable` says so and dead when its key is revoked
or has had a newer one. What makes it true is that validation looks at `revokedAt` as well as at
`isActive`, which a late update may turn on again, and that `revokedAt` is never written back.

Abstracted: hashing (a secret matches its own hash); the counters of a row, which no decision reads;
names and scopes; the window's limit is that of one tier. The account's key has no part in `KeyLife`: it
is one value, replaced at once. Two limits of what the properties say. `usage` counts the rows that were
stored: a call whose row fails to be stored goes on (`trackApiUsage` swallows it), and the key of a local
set-up (`LOCAL_API_KEY`) is let through before anything is looked up, so `RateKept` says nothing of those.
And `Usable` is the decision of `ApiKeysService.validateApiKey`, which no guard of the repository calls
(the guards look at `User.apiKey`): `KeepsLife` is about the service as it would be called.

### EmailDelivery

The emails to one address. `job` is the queue `email`, `attempt` what each start of a job executes,
`sent` the starts whose email the server took, `cut` the starts that ended for the queue before they had
told it that they sent: timed out, stalled, or failed in the progress update after sending. `suppression`
is the address's row of `EmailSuppression`, `transients` its rows of `EmailBounce` with a transient
bounce, `note` the notifications of the email providers.

`Take` is either worker: `ProcessorService` asks for the suppression itself (`Look`) and races the work
against a timeout (`Timeout` ends the attempt, not the work), `EmailWorkerService` leaves it to
`sendMail` (`Check`). `Smtp`, `Refuse`, `Finish`, `ProgressFails` are the rest of an attempt; `Stall` a
lock that runs out, with the worker alive or not. `Tell`, `Record`, `Suppress`, `Count`, `Lookup`,
`Lift` are the controller and `EmailBounceService`; `HandlingFails` and `Repeat` its failures and the
providers' repetitions. A delivery lifts a suppression whose reason contains the word 'transient'
(`email-bounce.service.ts:428`). The reason of a permanent bounce repeats the provider's own text
(`:391`), so `mentions`, whether it has the word, is part of a notification: always so for a transient
bounce, never for a complaint, and either for a permanent one.

Abstracted: templates; signatures of notifications; delays between attempts; the timeout may strike at
any moment of the work. `maxStalledCount` is a constant of both workers, since whichever worker looks for
stalled jobs applies its own: a job that stalled once may already be lost.

### MetadataVersions

The versions of one project's metadata. `rows` is the table `CustomMetadata`, `current` the copy in
`Project.customMetadata`, `latest`, `byNumber` and `history` the cache entries, `req` what each request
executes, a content being the number of the request that offered it. `told` and `removed` record what was
answered and deleted. `dirty`, `tidy`, `outdated` and `alone` record overlaps and failures.

`Store`, `ReadNext`, `Create`, `UpdateProject`, `ClearCache` are `storeCustomMetadata`; `Delete`,
`Remove`, `ReadNewest`, `UpdateProject`, `ClearCache` are `deleteMetadataVersion`; `Get`, `GetPage`,
`Query`, `Fill` the reads. `Sync` is `syncProjectFromGitHub` as far as it matters here: it overwrites the
copy by the custom part of Portfolio.md (`Portfolio`), or by an empty object (0), and knows nothing of the
versions or their cache. `ClearCache` clears what `clearMetadataCache` clears, which is the entry of the
latest version alone: the key it gives for the history contains an asterisk and is no entry's, and the
entries by number have none. `Diff` is `diffMetadata`; `Patch` undoes it, and an `ASSUME` of
`MCMetadataVersions` checks that the old object patched with the reported difference is the new one, over
all objects of up to two fields with two values.

Abstracted: what validation and sanitising do to a content; the pages of the history but the first; the
search and the statistics. The sandbox's own writes of `customMetadata` are not modelled.

## 3. Runs

| Run | Module, cfg | Question | Outcome |
|---|---|---|---|
| webhook | `MCWebhookPipeline`, `WebhookPipeline.cfg` | do faults, crashes, attempts, retries and operator retries break the hand-over, create jobs without a cause, break the promises of EventLife, or keep the queue from coming to rest? | holds |
| webhook_lost_sync | `WebhookPipelineLostSync.cfg` | is a processed push synchronised? | violated, nothing failing |
| sync_safety | `MCProjectSync`, `ProjectSync.cfg` | when does an older content win, what does a completed job show, and what leaves a project blank and unattended while nothing fails? | only inside overlapping transactions; its project; the 30-second rule alone |
| sync_live | `ProjectSyncLive.cfg` | do the queue and the caches settle? | they do |
| sync_placeholder | `ProjectSyncPlaceholder.cfg` | is a placeholder filled in by the worker? | violated, nothing failing |
| sessions | `MCSessionTokens`, `SessionTokens.cfg` | do interleaved sign-ins, refreshes, revocations and clean-ups keep the promises of SessionLife? | they do |
| subscriptions | `MCSubscriptions`, `Subscriptions.cfg` | what do events in any order, repeated and failing, beside the user's requests, make of the row and the payments? | no tier without its checkout; one more payment per failure at most; the provider's mirror while all is in turn |
| subscriptions_live | `SubscriptionsLive.cfg` | is every event answered, and does a paid checkout come into force with its tier (by PayPal with pro)? | holds with raw bodies |
| subscriptions_refused | `SubscriptionsRefused.cfg` | the same, as `main.ts` starts the application | violated: every event is refused |
| api_keys | `MCApiKeys`, `ApiKeys.cfg` | do secrets keep the promises of KeyLife, and what can pass the limits of keys and of calls? | they do; overlapping requests, and turning a key on |
| metadata | `MCMetadataVersions`, `MetadataVersions.cfg` | are numbers given once, does the project show the latest version, what do the caches serve? | they are; it does after a change that ran alone, until the next sync; the truth in the end |
| email | `MCEmailDelivery`, `EmailDelivery.cfg` | how often is an address mailed for one job, what lifts a suppression, what ends? | holds |

Bounds, which are `CONSTANTS` spent in the guards of actions; each fault bound of one reaches every error
branch, since the fault may strike anywhere.

* `webhook`: three events (a GitHub push, a GitLab push, a star: the three branches of the code), one
  worker of each kind (what one process has), one operator; two attempts and one own retry, so that "the
  last one" and "not the last one" both occur; one delivery, one operator retry, one fault, which may be a
  failing call, a crash or a lost lock. A duplicate delivery is left to the proofs. `webhook_lost_sync`
  has the numbers of the code, three retries and three attempts, and no fault.
* `sync_*`: one repository, since the steps of different repositories meet only in the list cache and in
  the loop of sync-all, which `sync_placeholder` runs with two and the proofs with any number; the two
  slots of the worker (symmetric in `sync_safety`), one direct call, one sync-all, one reader, one push,
  one fault. A push, a sync that read before it and one that read after it are all a stale write takes; a
  placeholder, its job and a direct call are what fills a project in or skips it.
* `sessions`: three requests in flight and four in all: the violations of the mutants need two sign-ins and
  two revocations at most, or a sign-in, a refresh and a revocation. Three sessions with `MaxPerUser = 1`
  make a login trim while another stores; one link is enough for two requests to share; one fault and one
  expiry. Sessions and requests are symmetric; `KeepsLife` is a safety property, for which symmetry is
  sound.
* `subscriptions`: two Stripe checkouts of one user (Stripe is the provider with all the changes), two
  handlers, one user request, five events, one failure. Two events make a checkout, two more a second one,
  the fifth ends the first or is its next invoice. `subscriptions_live` has one checkout at PayPal or
  LemonSqueezy, for the enterprise tier, and three events: a checkout and what follows it; that the row
  mirrors these two providers is left to the proof.
* `api_keys`: three keys, two requests at a time and five in all, plans with no subscription, the pro and
  the enterprise tier under limits 1, 2 and none, one call in the window, one change of plan, expiry or
  failure. The limit is passed by two creates, each with its count before the other's write.
* `metadata`: two requests at a time, four requests and syncs in all, three version numbers, one fault. Two stores of
  one number, a store below the newest, a deletion of the newest and a read across each all fit.
* `email`: one job, since jobs meet only in the suppression, which notifications change; two notifications, of a
  permanent bounce with or without the word 'transient', a transient one or a delivery (a complaint suppresses as a
  permanent bounce without the word does, and is in the proofs); two attempts, one stall (3 at `EmailWorkerService`),
  two transient bounces to suppress (5 by default), one fault. Two attempts and a stall give three starts, so that two
  late ones may run beside a current one.

Deadlock is not checked: every system here stops when its bounds are spent.

## 4. Fairness

`Fairness` asks only of what the code or its libraries promise:

* of the event loop that a started handler goes on: the steps of each run, handler, request or attempt;
* of BullMQ that a waiting job is handed to a free worker and that the stalled check runs. In
  `WebhookPipeline` it is asked per kind of worker, since both block on the queue, but not per job: BullMQ
  promises no order between equals there, and `webhook_lost_sync` needs none;
* of the providers of payments that an event is sent again until it is answered 200, and of those of
  emails that a notification answered with an error is (`HandlingFails` leaves it `told`, and `Handle` is
  fair); one whose failure was answered as processed is lost, which `ComplaintsSuppress` names;
* of time that cache entries expire and that rows age. How soon an entry expires matters to no property:
  3600 and 1800, the TTLs of the metadata, read like seconds, but the `cache-manager` that `package.json`
  pins (^6.4.3) takes milliseconds, so that an entry may be gone after four seconds instead of an hour.

It asks nothing of users, platforms, pushes, changes at providers, faults, crashes or the removal of
finished jobs.

## 5. Proofs

All of this holds for every value of the constants under the named assumptions of the modules
(`KindAssumption`, `RunnersAssumption`, `BoundsAssumption`, `SessionsAssumption` (the runners of the webhook
pipeline and the requests of the sessions are finitely many, as counting needs), `LimitsAssumption`,
`SubscriptionsAssumption`, `ApiKeysAssumption`, `EmailAssumption`, `MetadataAssumption`): any number of
events, repositories, workers, processes, sessions, links, keys, versions, requests, retries and faults.

* `WebhookPipelineProofs`. `TypeCorrect`. `SyncRequestPrecedesMark` and `SyncsAreRequested` (an invariant
  no run lists, because `KeepsLife` contains it) follow from `Founded`: jobs and runs are about stored
  events, a run past `Process` that will report success has its sync request on the queue, a `sync`
  payload is a sync request on the queue. The property alone is not inductive, since `Mark` must know what
  `Process` did two steps earlier. The queue only grows and jobs keep their data (`DataKept`), so a
  request once queued stays. `KeepsTheEventLife` is the refinement, one lemma for each group of steps
  (`DeliveryLives`, `ProcessingLives`, `MarkingLives`, `SyncingLives`, `SchedulingLives`): it adds to
  `Founded` that the row of an event not stored is blank. `EveryJobIsCaused` is a proof by counting.
  `EveryJobHasACause` compares finite sets of jobs with sets of starts, and is not inductive: a run that
  is about to add a job counts as well. The invariant `Caused` balances both (`Balanced`): the jobs made
  for a cause, and the runs that may yet make one, are together no more than the starts of the jobs they
  come from and the operator's retries; each step adds to the second side before it adds to the first.
  `StartsAreBounded` (a job is handed out at most once more than it has attempts) then gives
  `RetriesAreBounded`: a generation of retries is at most twice the one before it, the first at most
  `Attempts + 1` times the jobs of the event, and the operator's retries besides.
* `ProjectSyncProofs`. `TypeCorrect`. `CompletedJobsLeaveProjects` and `StaleWritesOverlap` follow from
  `Sound`: no content is ahead of the remote; a run past its fetch and not overtaken holds at least the
  row's content; a run overtaken before its check finds the row recent (this is where `Age`'s guard is
  used); a run that will settle successfully has its row. `JobIdSerialises` follows from `Serial`: as long
  as no process died and no lock was lost, a slot that is busy with a repository owns its active job.
  `AlwaysNobodyIsLeftOut` from `Served`, which needs `Serial`: where nothing has failed, a sync throws only
  on a hidden repository, writes only a content it fetched and returns a project that is filled in or whose
  fresh placeholder it skipped (`RunsTell`); a finished job, whose id makes an add have no effect, has done
  its work (`FinalFilled`); and a project not filled in is attended by a job, a direct call or a sync-all
  about to queue it (`NoneWaits`). Each needs the others at one step: `Queue` hands a project over to a job
  that may be an old one, and `Settle` stops attending one whose sync must have told the truth.
* `SessionTokensProofs`. `TypeCorrect`. `RevocationsSound` is the inductive invariant `Sound`: which
  operation a run is at, by its program counter; before its row is stored a session belongs to one run;
  rows, issued and confirmed tokens are of stored sessions; and `Revoking`, what a logout has achieved by
  each of its steps (the token listed, then its row gone; every row seen and no longer to do listed, then
  no row). It needs no more, because `Lasting` holds of every step: a listed token stays listed or
  expires, a row once gone never returns, since storing is done only by the run that drew the session. So
  a run keeps what it knows through the steps of the others (`KeptRun`), and each action has only its own
  run to look at (`OneRun`). `ConfirmedStaysListed` and `RejectedStillBar` follow. `OnlyTheOldAreTrimmed`
  adds that the sessions stored since a moment only become more (`SinceGrows`); `LinksSound` that the
  one run about to answer with a link has deleted it. `KeepsTheLife` is the refinement, step by step:
  storing opens, counting a use grants, answering confirms or signs in, and every other step takes rows
  away or nothing. `SessionsAreFew` bounds the rows (`FewSessions`, which no run lists: it is about users
  without magic links, whose sign-in stores a row and trims none). The bound alone is not inductive. `Few`
  names for each request the row it stored last (`LastStores`): a row that is nobody's last has at most
  `MaxPerUser` rows behind it, itself included, because its request has looked and trimmed again before it
  stored the next one (`OldLeavesFew`, `LastKept`, `LastStored`). The newest of those rows therefore bounds
  them all, and the last rows are no more than the requests (`FewImplies`).
* `SubscriptionsProofs`. `TypeCorrect` needs `Sound`: the events are finitely many and numbered from one
  (`Numbered`), a handler's event was sent (`HandlersSent`), and who found a row will still find one,
  since rows are never removed (`NeedsRow`). `AlwaysEntitledByCheckout`: only the handler of a `started`
  event writes a paid tier, and it writes the checkout with it; what a checkout was opened for is settled
  before its first event. `AlwaysPaymentsAccounted` from `Accounted`: the payments of one invoice and the
  handlers that may still record it are together no more than the failures, and one more once the event
  was received; the property alone lacks the handlers. `AlwaysInvoicesRecorded` from `Regular`: while
  events come in turn one handler is at work, on the first event not answered (`InTurn`), so that the row
  already names the customer (`History`, `Named`) and a repetition finds what the failed handler had left
  (`InvoiceSteps`). `AlwaysMirrorsProvider` adds two invariants: while one checkout is live at a time the
  events form chains from a start to a deletion, the last of which tells of the provider's state
  (`Chained`), and the row is as the last answered event leaves it, or as the first pending one, which a
  handler applied and then failed to answer (`Shown`). So a handler always finds the row in the state its
  event comes after (`Basis`), and applying the event once more changes nothing.
* `ApiKeysProofs`. `TypeCorrect` includes that a request about to write a key has found one (`HasKey`).
  `AlwaysRateKept` from `RateAccount`: the calls counted and the calls allowed but not yet counted are at most
  `MaxUsage - 1` and one for each request. `AlwaysLimitKept` from `Fresh`: a create that is not stale knows the plan's
  limit and that the keys were fewer, while any key added since makes it stale. `AlwaysKeepsLife` is the refinement:
  one step writes one key (`StepWrites`), a write only revokes, only replaces, or changes what is usable
  (`WriteLives`), and no key is revoked before it exists (`Unborn`).
* `EmailDeliveryProofs`. `TypeCorrect` needs `CountedJob`: a start is paid for by a failure or a stall, so
  the starts never run out. `AlwaysOneEmailUnlessCut` from `Told`: a start that sent and was not cut is the
  current one about to finish, or the job is completed. `AlwaysTransientIsEarned` and
  `AlwaysSuppressionHolds` from `Earned`: who is about to suppress for transient bounces has counted enough
  of them, and a delivery about to lift found a reason that says 'transient', which is of such a suppression
  or of a permanent bounce so called (`Misnamed`); the bounces only become more (`EnoughStays`), so below the
  limit and without such a bounce nobody is about to lift.
* `MetadataVersionsProofs`. `TypeCorrect`. `AlwaysVersionToldOnce` from `Owed`: the stores told a number and those
  about to be are together no more than its deletions and its row. `AlwaysCurrentIsLatest` from `Copied`: a request
  that ran alone, with no sync either, since it began holds the content of the row it created, or of the newest one,
  and has copied it by the time it clears the cache (`Faithful`). `AlwaysLatestIsFresh` from `Cached`: what a reader
  found and nothing has outdated is what the table says (`ReadsTrue`), and between a change of the rows and the
  clearing of the cache the writer is in `HalfDone` or has left `dirty`. `Newest` is a `CHOOSE`; that it exists is
  `Largest`, by well-founded induction on the distance from `MaxVersion`.

Only model-checked: the liveness properties, which are out of the prover's reach: `QueueDrains`,
`SyncSettles`, `CachesConverge` of the projects and of the metadata, `EventsAnswered`,
`PaidIsInForce`, `EveryJobEnds`, `ComplaintsSuppress`. The violated properties are TLC counterexamples.

## 6. What the runs show

The three violations, none of which needs a failure:

1. A push event may be processed and its repository never synchronised (`webhook_lost_sync`): the worker
   for events takes the sync request, finds the event processed and completes the job.
2. A placeholder may never be filled in (`sync_placeholder`): it is stamped as synced
   (`projects.service.ts:759`) and queued at once, and the job that comes within 30 seconds takes the stamp for
   another sync's (`:280`), returns the placeholder unfetched and completes, although the comment says that
   "the background worker will later populate details or mark as blacklisted" (`:735`). `NobodyIsLeftOut`
   shows the other side: while nothing fails, this is the only way in which a public project stays blank with
   nobody about to fill it in. A later push, sync-all or request may still do it, if its job's id is free and
   no placeholder was written just before.
3. No checkout takes effect (`subscriptions_refused`): `NestFactory.create` (`main.ts:15`) does not ask for
   the raw body, so the three provider endpoints of `billing.controller.ts` always throw.

What the properties of the passing runs are careful not to promise, because the code does otherwise:

* Webhooks. A processed event may be marked unprocessed by a repetition whose read fails
  (`webhook-handler.service.ts:58`, `:90`), at the price of one failed call each time (`KeepsLife`). The
  priorities of the queue are numbered against BullMQ's order (`webhook-queue.service.ts:200`), so urgent
  events are served last.
* Projects. Two transactions at READ COMMITTED let the older fetch win
  (`projects.service.ts:263`); every other overlap is caught by the 30-second rule, which is proved. A
  second request for a sync may be answered as enqueued and dropped, its id being taken
  (`sync-queue.service.ts:34`, `projects.controller.ts:78`).
* Sessions. A logout may overtake a logout from all devices so that it, and every later one, is rejected
  until the sessions it listed expire (`jwt-token.service.ts:616`); those it had listed stay barred. The
  access token of a magic link has no `jti` (`magic-link.service.ts:420`) and is refused until the first
  refresh. A login leaves one row more than `MAX_REFRESH_TOKENS_PER_USER`, because it trims before it
  creates, and logins that overlap leave one more each, which is the most they can (`SessionsAreFew`). A
  magic link's sign-in trims nothing (`magic-link.service.ts:256`).
* Subscriptions. PayPal's checkout is not told the tier, so an enterprise checkout grants pro
  (`billing.service.ts:282`, `:366`), which `PaidIsInForce` says in so many words, and its invoices never find their
  customer, so no payment is recorded. A user's cancellation or resumption never reaches the provider, which goes on
  charging, and nothing enforces the end of the period. A subscription that Stripe calls unpaid is active here. An
  immediate cancellation keeps the provider in the row, though the schema says "null for free". A deletion that
  arrives after the next checkout takes the tier of a paying user; an invoice before its checkout is answered and
  lost; an event sent again records its payment again. `orderly` in `MirrorsProvider` and `InvoicesRecorded`, and
  `1 + faults` in `PaymentsAccounted`, are there for these.
* API keys. Updating a key to active ignores the limit, and requests at once pass it; calls at once pass
  the window's. A rotated key that was revoked meanwhile gets a fresh secret, which is refused.
* Metadata. Every GitHub sync overwrites the copy that searches read, by the custom part of Portfolio.md or by an
  empty object where there is none (`projects.service.ts:253`, `:324`, `:361`): a version stored by request is shown
  until the next sync only, while the versions and their cache still have it. The cache entries by number and of the
  history are never cleared, so a deleted version is served until they expire, although
  `docs/metadata-management.md:156` speaks of invalidation on updates. Storing does not look at who owns the project.
  The number of a deleted latest version is given again, to other content. A store under a smaller number than the
  latest replaces the project's copy.
* Emails. A suppression for a complaint is overwritten by one for transient bounces, which a delivery
  then lifts; `transients < MaxTransient` in `SuppressionHolds` is there for it. So does a delivery lift a
  permanent bounce's whose text says 'transient' (SendGrid's `event.reason`, `email-webhook.controller.ts:227`,
  or Mailgun's); `~Misnamed` is there for it. The subtypes of AWS are a fixed list. A bounce delivered again is
  counted again. Failures of single events are swallowed for SendGrid and answered as processed. The
  suppression check fails open. An attempt that timed out goes on and sends. Temporary failures from
  Mailgun are not recorded. `isRetryableError` never stops a retry, `EmailRetryService` is a stub, and
  nothing calls `cleanupOldRecords`.

## 7. Not modelled

* Sandbox: a demonstration tenant whose guard and usage interceptor are applied nowhere. Its faults need
  no interleaving: starting one flags the user's own profile and ending or resetting it deletes every
  flagged profile (`sandbox-data.service.ts:270`, `:348`; `sandbox.service.ts:397`); a migration that skips a
  project deletes it in its clean-up (`sandbox-migration.service.ts:130`). Sessions are kept in the JSON
  column `settings`, read and written back whole (`sandbox.service.ts:651`), so a counter may bring back a
  session that was ended, and a sign-in with GitHub replaces the column by a display name and an avatar
  (`auth.service.ts:1078`): the session is gone and its projects stay flagged.
* Authentication endpoints and guards: the endpoints of sessions and keys are plumbing around services
  that are modelled, and the OAuth callback's sync-all is a run of `Requests` in `ProjectSync`. Signing
  up, resetting a password and connecting GitHub write one row of `User` each and are not modelled.
  Reading them found: a reset reads the rows, compares and writes by id (`auth.service.ts:844`), so one
  token may serve two requests that overlap, and a token mailed in between is cleared with it; `oauth`
  connects without a token, which empties `githubToken` (`auth.service.ts:896`); a first sign-in with
  GitHub under the email of an existing account fails on the unique email each time
  (`auth.service.ts:979`). `AuthService` and `RefactoredAuthService` also repeat operations of sessions
  that nothing calls.
* AI enrichment: only what reaches its queue. The consumer asks an external model and stores its answer.
* Webhook signatures, Portfolio.md parser, platforms, profiles: pure functions, clients and single-row
  updates.
* Audit, sync history, metrics, health: appended records and reports. `WebhookFailureHandler` has no caller.
* Caches of the query services: a second layer, which the sync path does not use.
* Common services: logging, rate limits, monitoring and shutdown around the handlers; scripts, templates
  of emails and generated clients.

A large part of the repository is of these kinds (scripts, templates, reports, endpoints with their
documentation), and the share of its lines that the modules stand for is accordingly small.

## 8. Plan

Done: the seven components above, each with its proofs, three of them as refinements of an abstract
specification (`EventLife`, `SessionLife`, `KeyLife`). The order was by what is lost when the component
goes wrong, and by how much of it only an interleaving shows. Left, in this order:

1. **WebhookIntake**: the five minutes, the recent rows and the compared texts of `storeEvent`, composed
   with WebhookPipeline by replacing `Deliver`. Question: how often may one push be handed over?
2. **ProjectSync with a second owner**: `platform` and `platformId` are unique together, and only one path
   writes `platformId`. ProjectSync implementing a register per repository that goes back only in
   overlapping transactions.
3. **SessionTokens, the rest**: the branch of `refreshAccessToken` that revokes everything; the magic
   link's mailing and its limit.
4. **AI enrichment**: the consumer of `toEnrich`, composed with ProjectSync.
5. **Accounts**: signing up, resetting a password and connecting GitHub over the rows of `User`, whose keys
   `email`, `username` and `githubId` decide races the code does not look for.
6. **Sandbox**: the settings as one JSON value read and written back, by the sandbox and by Accounts.

Runs are kept few: a new question takes the place of a run that a theorem has made redundant.
