# JetWeb commerce platform: formal models

JetWeb lets a merchant see and run one or more WooCommerce stores from a single
application. The repository holds three programs:

* `services/api` — Express and PostgreSQL backend. It keeps all state in
  Postgres, calls the stores over REST, an SMS gateway and a payment gateway,
  and is called by the client application, by the stores' plugin and by webhooks.
* `wordpress-plugin` — a companion plugin inside the store: it pushes sync
  envelopes and events to the backend with an HMAC over each request, driven by
  wp-cron; its state is a handful of WordPress options.
* `apps/client` — the Expo user interface.

The models are about the backend, the plugin, and the session of the client. One
Node process runs the backend; a handler is atomic between two `await`s, and every
SQL statement outside a `withTransaction` is awaited separately. So the interesting
question of nearly every component is: *what happens if another handler, a crash or a
retry falls between two statements?*

## Inventory

| Component | State | Operations | Interacts with | Hard behaviour | What makes it correct |
|---|---|---|---|---|---|
| Store connection and background sync (`services/sites.ts`, `routes/merchant.ts`, `routes/admin.ts`) | rows `site`, `site_connection`, `site_credential`, `sync_run` | start, verify, settings, disconnect, sync, resync, detached `syncWooSite` | store over REST; read-model; webhooks look the site up | handlers interleave statement by statement; detached sync nobody awaits; process death leaves a `running` row; 30 minute staleness | what the status shows is backed by credentials and connection; a disconnect revokes; a run row tells the truth; no run blocks for ever |
| Plugin transport (`services/plugin/replayGuard.ts`, `signature.ts`, `routes/plugin.ts`) | `replay_nonce`, clock | sign, check freshness, consume nonce, prune | every plugin endpoint | replays, skewed clocks, pruning racing a late replay, rotation of the secret | a signed request is accepted at most once |
| Plugin connection (`sites.ts`, `routes/plugin.ts`) | `plugin_connection`, signing secret credential | start, handshake, rotate | transport | rotation in two statements while requests arrive | one usable secret, and it is the one the merchant was shown last |
| Plugin ingest and events (`services/plugin/ingest.ts`, `eventProcessor.ts`) | read-model rows, `plugin_event`, `sync_run` | ingest a sync envelope, ingest events | plugin | duplicated deliveries | a repeated delivery changes nothing |
| WordPress sync engine (`class-wcos-sync-engine.php`, `class-wcos-sync-state.php`, `class-wcos-sync-builder.php`) | options: queue, cursor per entity, run id, fail count; the scheduled chunk actions | schedule full/incremental, run next chunk, disconnect | backend | network call between reading and writing the queue; chunk actions overlap; a chain of actions that any one of them may break | no page skipped; the queue is always driven and drains |
| WordPress event queue (`class-wcos-event-store.php`, `class-wcos-event-deliverer.php`) | option: array of events, at most 200 | add, deliver batch, remove | backend | read-modify-write of one option by concurrent page loads; lost answer after a delivery | an event is delivered at least once unless the cap dropped it or a stale copy overwrote it |
| Read-model upsert (`sites.ts`, `syncModels.ts`) | product, attribute, variation, image rows | upsert, resync a product | background sync, product writes | delete-then-insert without a transaction, two writers | repeated syncs never duplicate |
| WooCommerce webhooks (`routes/webhooks.ts`) | `webhook_event` | record, apply | read-model | duplicated, reordered deliveries; failure after recording | never applied twice; what is marked processed was applied |
| Billing (`routes/billing.ts`, `routes/webhooks.ts`) | `payment_attempt`, `billing_event`, `subscription`, `merchant` | checkout, verify, payment webhook, settle | gateway; commissions | webhook and return of the browser race; an unverified first webhook; failure after the transaction | a payment is settled once, and a paid attempt stays paid |
| Commissions and payouts (`services/commission.ts`, `routes/affiliate.ts`, `routes/admin.ts`) | `commission`, `payout` | generate, approve, request payout, move payout | billing | balance checked, then inserted; statuses set unconditionally | never paid more than earned |
| OTP login (`services/otpService.ts`) | `otp_code` | request, verify | SMS gateway | a limit is checked by one statement and used up by another | codes, guesses and logins are limited |
| Sessions and suspension (`services/tokenService.ts`, `routes/auth.ts`, `routes/admin.ts`) | `user_session`, `app_user`, `merchant` | issue, refresh (rotate), logout, suspend | OTP login | refresh races suspension; two refreshes of one token | a suspended user is shut out; sessions do not multiply |
| Users and merchants (`services/userService.ts`) | `app_user`, `merchant`, `tenant` | find or create at login | OTP login, onboarding | two first logins at once | one user per mobile |
| Onboarding (`services/onboardingService.ts`) | `onboarding_request`, `site` | create, move, deliver (creates the site) | store connection | two deliveries at once | one site per request |
| Support (`services/supportService.ts`) | `support_ticket` counters, messages | open, reply, mark read | – | insert, then counter; mark-read in between | unread counters are truthful |
| Social channels (`services/social/socialService.ts`) | `social_connection`, `social_publish_job` | connect, test, disconnect, enqueue, process | channel APIs | test racing disconnect; job processed twice | a revoked channel stays revoked; one post per job |
| Summary cache (`util/cache.ts`) | map in memory | cached, invalidate | dashboards, writes | an invalidation during a load | a hit is recent, and shows what was invalidated unless its load was overtaken |
| Merchant catalogue and order writes (`routes/merchant.ts`, `wooClient.ts`) | – (store first, then read-model) | create, update, delete product, order status | store | – | – |
| Access control, RBAC, SSRF guard | none | pure decisions | every route | – | decision tables |
| Client session (`authApi.ts`, `httpClient.ts`, `tokenStorage.ts`, `SessionProvider.tsx`) | module variables of a tab, `localStorage` | load, sign in, refresh after a 401, sign out | sessions of the backend | answers that cross or get lost; several tabs of one browser | browser and backend agree on the session |
| Vault, redaction, audit, SMS, configuration, migrations, screens, scripts | none that a protocol depends on | I/O, formatting, wiring | – | – | – |

## How the pieces fit

```
client (ClientSession) ── sign in, refresh, sign out ──► sessions (AuthSession) ◄── suspension, settlement
                                                          ▲ codes (Otp)
merchant app ──► services/sites.ts ◄── administrator, onboarding (Onboarding)
                   │        ▲
      syncWooSite  │        │ handshake, rotation          (SiteConnection, PluginConnection)
                   ▼        │
    store (REST)      routes/plugin.ts ◄── signed requests (PluginReplay) ◄── WordPress plugin
       │                    │                                                 queue, cursors (PluginSync)
       │ webhooks           ▼                                                 events (PluginEvents)
       └────────────► read-model rows (ReadModel) ◄── product routes
customer ──► /billing/verify ──┐
provider ──► /webhooks/payment ┴► settleSubscriptionPayment ──► commission (Billing) ──► balance, payouts (Payout)
```

Components share rows, not calls: `disconnectSite` writes rows that a handshake,
a background sync and a verification write too. So a module models one *set of
rows*, with every operation that writes them, rather than one file.

## Modules

| Module | Models | Extends |
|---|---|---|
| `SiteConnection` | one store in `woo_rest` mode: `site`, `site_connection`, `site_credential`, `sync_run` | |
| `PluginReplay` | freshness, nonces and their pruning against the clock; refines `AtMostOnce` | |
| `PluginConnection` | one store in plugin mode: signing secrets, rotation, handshake | |
| `PluginSync` | the plugin's queue, cursors and chunk actions, and what reaches the read-model | |
| `PluginEvents` | the plugin's event option, its delivery, and the backend's `plugin_event` | |
| `Billing` | checkout, verify, payment webhook, settlement, commission; refines `AtMostOnce` | |
| `AtMostOnce` | abstract: an item takes effect after it was issued, and never twice | |
| `AuthSession` | one user's sessions and status in the backend | |
| `ClientSession` | the tabs of a browser, composed with `AuthSession`, which it implements | `AuthSession` |
| `Handlers` | the requests in flight that the modules below share | |
| `ReadModel` | one product's rows and everybody who writes them, WooCommerce's webhooks included | `Handlers` |
| `Otp` | the one-time codes of one mobile number | `Handlers` |
| `Support` | one ticket, its messages and both unread counters | `Handlers` |
| `Payout` | the commissions and payouts of one marketer | `Handlers` |
| `SummaryCache` | one key of the in-memory cache | `Handlers` |
| `Onboarding` | one onboarding request and the sites made for it | `Handlers` |
| `SocialPublish` | one channel and the posts of one product on it | `Handlers` |
| `Services` | the seven above side by side | those seven |
| `MC…` | the instances TLC checks | the component |
| `…Proofs` | theorems and their proofs | the component, `TLAPS` |

Conventions. An action is one awaited statement (backend) or one option write
(plugin), named for the function it belongs to. What a handler remembers between
two of them is a record per request (`req`, `proc`, `call`, `handler`), whose
field `at` says which statement is next. A crash of the Node process forgets all
handlers and keeps all rows. `faults` counts crashes and failed statements, so
that a property can say "as long as nothing failed". Definitions whose comment
begins with "Mutant" are wrong on purpose: each is a plausible bug that one of
the properties must notice.

### SiteConnection

`site` and `connection` are the status columns (and the host of the URL);
`creds` the active `site_credential` rows, oldest first, each standing for the
host it was verified against; `sealed` whether there is any row at all; `run`
the `sync_run` row of each background sync, with its phase and age.

| Code | Actions |
|---|---|
| `startConnection` | `StartConnection` |
| `verifyWooConnection` | `VerifyRead`, `VerifyRejected`, `VerifyRevoke`, `VerifyInsert`, `VerifySite`, `VerifyConnection` |
| `updateSiteSettings` | `SettingsRead`, `SettingsWrite` |
| `disconnectSite` | `DisconnectBegin`, `DisconnectCommit` |
| `POST /sites/:id/sync`, admin resync | `SyncCancelStale`, `SyncAlreadyRunning`, `SyncStart`, `AdminResync` |
| `syncWooSite` | `SyncReadCredentials`, `SyncNoCredentials`, `SyncInsertRun`, `SyncNextPhase`, `SyncSuccess`, `SyncStamp`, `SyncFailure` |
| passing of time, process death, failed statement | `RunAges`, `Crash`, `Abort`, `SyncAborts` |

`disconnectSite` is one transaction, yet two actions: its first `UPDATE` locks the
credential rows it will revoke. Every other statement locks what it touches until
the commit, so nothing can be seen between them. A statement that waits for a
row lock sees the row as it is once the lock is granted (READ COMMITTED). A site
whose status an onboarding delivery sets by hand is outside the model.

*Runs.* `site_concurrent`: two overlapping requests, two background syncs, one
host, no fault (some 700,000 states; with a fault there are 4.7 million, and no property fails). Under any interleaving: active
credentials never outnumber overlapping requests; without a fault, a row is left
`running` or `cancelled` only while its sync is on its way, so every path through
`syncWooSite` writes an outcome over whatever a press of the button or a disconnect
made of the row; and what outlives a disconnect is at most one credential for each
*other* request. `site_serial`: one request at a time, background
syncs and administrators still interleaving: what the status shows between
requests is backed by credentials and connection, no sync obtains a credential of a
disconnected store, every sync ends, an orphaned row is cancelled, and a store that
stays disconnected shows no running progress in the end (`DisconnectLeavesNoRun`).
Two requests are enough for
every race of two handlers; two background syncs overlap when a merchant retries a stale
run, or an administrator resyncs, beside a live one. Hosts matter only to the properties of
`site_serial`, which has two of them, one background sync and one fault. The theorems about
the properties of `site_concurrent` cover any number of requests, syncs and faults together.

### PluginReplay

`verifyRequest`'s freshness check, its four awaits, `consumeNonce` and the
detached `pruneExpiredNonces`, against a clock that moves between any two of them.
The plugin's clock may be ahead. `ClockAssumption` (`Ahead + Delay <= Skew`) is what
the window rests on; the code enforces neither bound, and the default skew is 300
seconds. *Run* `plugin_replay`: window 3, clock ahead 2, handler delay 1, and
8 instants, more than two windows, so that nonces are pruned while late
repetitions still arrive.

### PluginConnection

The rows of a store in plugin mode, the secret the merchant was shown last and the
one in the plugin's options. A rotation is four statements and an answer; a
handshake two checks and three `UPDATE`s, the only signed endpoint that changes these
rows. `crossed` is a history variable: requests that overlapped may leave rows that
disagree until the next rotation or disconnect with nothing else under way. The
properties that speak of rows in agreement hold while it is false; `SecretBound`
holds always. Secrets nobody remembers may be issued again, so four are enough.
*Run* `plugin_connection`: two requests, a handshake, one fault.

### PluginSync

`queue`, `cursor` and `exists` are the WordPress options and whether their rows
exist: `update_option` over a row seen by the process is an `UPDATE` that does nothing
once another process has deleted it. `pending` counts scheduled chunk actions;
wp-cron drops one while another is due soon, Action Scheduler does not, and the
model allows both. `proc` holds what a PHP process has read: `run_next_chunk` reads
queue and cursor (`ChunkReads`), calls the backend for up to a minute
(`PostAnswered`, `PostShort`, `PostFails`), and only then writes (`AdvanceCursor`, or `ResetCursor`
and `ShiftQueue`) and schedules its successor (`ChunkAgain`). Options are read from
the database by each action: no persistent object cache, one action per PHP
process. The catalogue stands still while it is read; a store that deletes items
meanwhile shifts the pages of any offset paging.

`fresh` and `goal` remember what was ingested since the last schedule and which
list it was for. A schedule is `crossed` when another process works while it begins or a
chunk action starts before it has written the queue; such a schedule may be lost,
because the stale queue of the action is written over it. A page that the builder makes too short, because WooCommerce is
inactive or terms or a coupon cannot be read, passes for the last one of its entity and
nobody is told (`PostShort`); a schedule with such a page counts as crossed as well.

*Run* `plugin_sync`: two processes, three schedules or disconnects, one death, a
full list of two entities (two pages and one) and an incremental list of one. Three
schedules give two overlapping chains and one in the middle of them. A batch of one
item stands for any: pages are told apart only by whether one follows. Overlapping
chains never run a cursor ahead of the backend, never skip a page, never leave a
queue without anybody to drive it, and drain it. The system may stop (nothing
scheduled, plugin configured), so deadlock is not checked.

### Billing

One tenant's payments. `events` counts the `billing_event` rows per
`provider_event_ref`; `/verify` and the webhook of one payment use *different*
references, so each attempt has two. The settlement is a transaction in three
steps, because its first statement is where a second settlement of the attempt has to
wait. `collected` is the gateway's knowledge. `Answers` says how its answers may name a
payment: `/verify` settles under the `ref_id`, or under the authority when an answer has
none (`gateway.ts:111`), and two answers may differ. `PAYMENT_WEBHOOK_SECRET` is set; where
it is not, the webhook ignores what arrives (`webhooks.ts:162`), a notice the model never
makes.

*Runs.* `billing_concurrent`: two payments, two requests of any kind, paid and failed
notices, right and wrong signatures, a change of month, a fault. A reference
settles once, all or nothing; a webhook row marked processed has been settled;
`/verify` settles only what was collected; without faults the commission follows.
`billing_live`: a collected payment is settled, if nothing fails. A status
overwritten by a stale reader, two subscriptions of two first payments, and a
notice key taken by an unverified notice are what the code does; the properties
are the ones that hold in spite of them.

### AuthSession and ClientSession

`issued` are the rows of `user_session`, known by their refresh tokens, and `live` those
not revoked; `user` and `merchant` the two status columns; `h` what each handler holds.

| Code | Actions |
|---|---|
| `POST /auth/otp/verify`, `findOrCreateUser`, `issueSession` | `BeginLogin`, `LoginReadUser`, `LoginCreate`, `Issue` |
| `POST /auth/refresh`, `findLiveSession`, `getUserById`, `rotateSession` | `BeginRefresh`, `RefreshFind`, `RefreshReadUser`, `Rotate`, `Issue` |
| `POST /auth/logout`, `revokeSession` | `BeginLogout`, `Logout` |
| `PATCH /admin/merchants/:id/status`, `revokeAllSessions` | `BeginStatus`, `StatusMerchant`, `StatusUser`, `StatusRevoke` |
| `settleSubscriptionPayment` | `Settle` |
| `SessionProvider`, `authApi`, `httpClient`, `tokenStorage` | `Open`, `SignIn`, `Refreshes`, `SignOut`, `Close`, `Receive`, `NetworkFails` |

Every call of a tab begins a request of the backend, and its answer is what the backend
made of it; the tokens a tab holds in memory and those in `localStorage` are two
variables, because they do drift apart when a second tab is open. `late`, `logins`,
`doubles`, `disturbed`, `interrupted` and `crossed` are history.

*Run* `client_session`: two tabs, two requests, three tokens, two status changes or
settlements, one lost answer or crash. Two requests are the client's two parallel
calls, or a refresh and the suspension that races it; three tokens let one session be
issued, rotated by one refresh and rotated again by the other. Two tabs share the
storage, so that one restores what another stored, and a crossing is one of two requests of
one tab or of two. The theorems cover any number of all three.

### PluginEvents

`queue` is the option; a PHP process reads it once and answers itself from its own
copy ever after, so a process is a `copy`, and `Write` puts what it made of the copy over
whatever is stored. `pending` counts scheduled deliveries, `recorded` the keys that have
a row in the backend.

| Code | Actions |
|---|---|
| first `get_option` of a process | `Load` |
| hooks, `enqueue_and_schedule`, `add_event` | `Capture`, `Schedule` |
| `clear_events`, saving the settings | `Clear`, `Configure` |
| `deliver_pending_events`, `deliver_batch`, `ingestEvents` | `Deliver`, `Post`, `Remove`, `RemovedAll`, `Again` |
| end or death of a process | `Finish`, `Die` |

*Run* `plugin_events`: two processes, three events of which two share an idempotency
key (one product saved twice within a second), a queue of two, batches of one, one
clear or change of settings, one failure. Three events overflow the queue; a batch of one
leaves something behind; a failed call records any part of its batch.

### Services

Seven modules that share no row, so that an interleaving of two of them shows
nothing the two do not show alone: `serving` picks one for each behaviour. Each has two
requests in flight, and a failure or a crash at any await. *Run* `services` checks one
property of each (two of the read-model).

| Module | State | Code | Property |
|---|---|---|---|
| `ReadModel` | store and versions; product row, links, images, variants; `webhook_event` | `syncWooSite`, `resyncProduct`, product routes, ingest, `upsertProductFull` statement by statement; the webhook route and `applyWooWebhook` | `ChildrenMatch`, `ProcessedIsApplied` |
| `Otp` | `otp_code`, oldest first, against a clock | `requestOtp`: `AskCode`, `HourlyLimit`, `ResendCooldown`, `SendCode`, `InsertCode`; `verifyOtp`: `VerifyOtp`, `SelectCode`, `CountMiss`, `ConsumeCode` | `CodesAreLimited` |
| `Support` | ticket, counters, messages per side | `createTicket`, `addMessage`, `getMessages` and `markRead` as an opening of the thread | `UnreadIsTruthful` |
| `Payout` | statuses of commissions and payouts | `availableBalanceMinor`, `POST /affiliate/payouts`, `PATCH /admin/payouts/:id` | `NeverOverdrawn` |
| `SummaryCache` | the entry, a clock, the version of what is summarised | `cached`, `invalidate`, the writes around them | `HitIsRecent` |
| `Onboarding` | the request, `site.status` per site | `createOnboardingRequest`, `updateOnboardingStatusAdmin` with `startConnection` | `OneSiteEach` |
| `SocialPublish` | channel, jobs, the recorded post | `createSocialConnection`, `testSocialConnection`, `disconnectSocialConnection`, `enqueueProductPublishJob`, `processPublishJob` | `EditsKeepThePost` |

A product is its version, which determines its children; one image and one variation are
enough for an image inserted twice and a variation of an older fetch. Two categories appear
in version 1 and are gone in version 2, so that an old link would show; a taxonomy phase
brings the rows of any part of them, so that one of the two may be linked and the other not.
Two codes may be sent an hour, so that the cooldown limits what the hour does not, and a code
may be guessed once, so that the second of two overlapping requests is the one too many; the
clock reaches past the cooldown, the life of a code and the hour. Two
messages per side, two commissions and two payouts, two sites, two jobs and two webhook
deliveries give each of two overlapping requests one to disagree about. In
`SocialPublish` no state of a worker depends on time, so that two jobs give both orders.

Each of these properties says how far what the code promises can be relied on: requests that
overlap, or die half-way, do break it in ways named under *Known deviations*, and the history
variables (`muddled`, `contended`, `revived`, `overtaken`, `astray`, `entangled`, `torn`, `crossed`) are
as narrow as the code allows: nothing else breaks it, and, where the code repairs it later,
the history is forgotten again. What is broken is bounded where it can be:
`CodesAreLimited` and `NeverOverdrawn` say by how much requests in flight may exceed a limit,
or a balance.

## Fairness

* `SiteConnection`: the event loop resumes a handler whose await settles, so each handler
  and each background sync is weakly fair. That awaits settle is assumed of what the code
  runs on: a call of the store is aborted after `WOO_HTTP_TIMEOUT_MS` and a store has
  finitely many pages, but `db.ts` sets no `statement_timeout`, and a statement that waits
  for ever is outside the model. Time passes (`RunAges`), and the merchant presses the
  button again (strong fairness of `SyncCancelStale`): `OrphanRunIsCleared` needs these two,
  and `DisconnectLeavesNoRun` where the process of a sync that had its credential died.
* `Billing`: each request is weakly fair. The provider repeats its notice until it is
  answered with success: strong fairness of the first recording, since the
  processes may be busy in between. No request is required to arrive.
* `PluginSync`: a PHP process goes on unless it dies; a scheduled action runs some day,
  which on wp-cron takes visitors; a page sent again and again is accepted some day
  (strong fairness of `PostAnswered`). Without the last, the queue may stand for ever.
* `PluginEvents`: a PHP process that has started runs to its end (weak fairness of
  `Proceed`), and the server keeps becoming free and then starts what is due (strong
  fairness of some `Deliver`). Failed calls are bounded by `MaxFaults`: a backend that
  answers some day.

The other modules promise nothing that must happen.

## Findings

| Run | What the code does | What is said |
|---|---|---|
| `billing_twice` | `/verify` and the webhook settle one payment under two references | `webhooks.ts:4-5` "never applied twice" |
| `plugin_sync_skips` | Pages are counted in steps of limit + 1 but carry limit items: the item at every page boundary is never sent | `wordpress-plugin/README.md:10-11` "Full sync … Dashboard shows synced products/orders/customers/coupons" |

Each is the counterexample of a run that expects a violation.

### Known deviations

What the code does beside these, seen while modelling; the properties are stated around it
and no run is kept for it:

* `sites.ts:514`: a background sync that holds its credential inserts a `running` row after a
  disconnect has cancelled them all (`sites.ts:333`), and writes its outcome over one that was
  cancelled; a disconnected store shows progress until that sync ends.
* `sites.ts:323`: a verification that overlaps a disconnect inserts its credential after it.
* `webhooks.ts:197`: a notice with a right signature settles its payment as paid, whatever it
  says: also one that tells of a failed payment.
* `webhooks.ts:180`: a payment webhook that dies after recording its notice leaves it
  *received*, and every repetition is taken for a duplicate.
* `billing.ts:230`: a failure between the commit of the settlement and
  `generateCommissionForPayment` loses the commission; a retry finds the payment settled
  (`billing.ts:177`).
* `class-wcos-sync-builder.php:148`: a page that cannot be built is sent as an empty one, and
  ends its entity as if nothing followed.
* `routes/plugin.ts:117`: a handshake past its checks writes *connected* over a disconnect.
* `tokenService.ts:96`: two refreshes of one token both rotate it, which leaves two sessions
  (`doubles`); a refresh past its read of the user issues a session after a suspension (`late`).
* `authApi.ts:165`: two calls answered 401 together refresh one token twice, and the failure of
  one clears the session the other has renewed.
* `billing.ts:215`: a settlement makes a suspended merchant active and leaves the user suspended.
* `otpService.ts:121`: a code that is right twice at once opens two sessions; every limit may be
  exceeded by the requests in flight.
* `commission.ts:55`: the balance is "approved commissions minus pending/approved payouts"
  (line 50), yet paid payouts are subtracted too, whose commissions are no longer approved: the
  marketer falls short. Two overlapping requests overdraw (`affiliate.ts:107`),
  and so does an administrator who takes up a rejected payout (`admin.ts:253`).
* `webhooks.ts:92`: a webhook whose application failed stays failed, and one whose process died
  stays *received*, because the repeated delivery is taken for a duplicate.
* `sites.ts:438`: two overlapping full writes of a product leave images twice, a failed one
  leaves none, until the next full write.
* `cache.ts:26`: a load that an invalidation overtakes is served for a whole time to live.
* `supportService.ts:140`: a thread opened between a message and its count leaves the counter off by
  one, until the next opening in peace.
* `onboardingService.ts:193`: two administrators who deliver one request make two sites.
* `socialService.ts:265`: an update that overtakes the publish it follows posts a second time.

## Proofs

All theorems are for every value of the constants within the named assumptions.
Each rests on an inductive invariant stronger than the property:

* `SiteConnectionProofs`. `RunInv` ties the phase and status of a run to where its worker
  stands: only a worker that is alive leaves a row `running` or `cancelled`, since each way to
  end writes over it. `CredInv` counts: active rows plus requests about to insert never exceed
  the requests. A disconnect revokes what it saw, so what its commit leaves was inserted after
  its first statement: those and the insertions to come are fewer than the requests, of which
  the disconnect is one (`SurvivorBound`), and that is `DisconnectBound`.
  `SerialInv`, for one request at a time, says what each row is at each step of the one handler.
* `PluginReplayProofs`. `WindowInv`: a handler past the freshness check was fresh when it
  looked, so by the time it consumes the nonce at most `Delay` has passed; a
  consumed nonce is kept past every instant at which its message is fresh. This is
  where `ClockAssumption` is needed. The refinement of `AtMostOnce` follows.
* `BillingProofs`. `BillingInv`: which rows exist while a transaction is at each of its
  steps, so that a rollback leaves none. The refinement maps rows per reference to
  effects. `SubscriptionInv` counts subscriptions against the requests, and the attempts,
  that found none and have not inserted yet: that is all the unlocked read of
  `billing.ts` costs. `HookInv` gives each notice's row one owner, the request that
  recorded it, so it only moves forward. Two more theorems say when what the comments
  promise does hold: `SettledOnce` when no notice has a valid signature, so that only
  `/verify` settles, and the gateway always, or never, answers with a `ref_id`; and settled-means-collected when all notices say paid.
* `PluginConnectionProofs`. `ConnectionInv` describes the rows at each step of the one
  request that runs while nothing has crossed; `InsertionBound` counts rotations between
  revoke and insert.
* `PluginSyncProofs`. `CursorInv`: the page an action works on has its predecessors
  ingested, and before it writes the next page, itself; nothing ever leaves the
  read-model, so a cursor written late is still backed. `QueueInv`: every way for a
  process to end schedules a successor, empties the queue or is an interruption.
  `PassInv`: while a schedule that is not crossed stands, the queue and every list an
  action has read are suffixes of the goal, what precedes them is ingested, and a cursor
  or a page in hand has its predecessors ingested since the schedule; a stale queue
  written back is then only longer than it need be. `HasMoreMeansFull` and
  `FinalIsLast` are the arithmetic of pages it rests on. `SendableInv` bounds the read-model
  by what some page sends, and `SendableIsSent` shows each such item is in the page of
  its quotient: a full sync that nothing crossed brings all items but the multiples of
  `Limit + 1`, no more and no less. This is why `FullSyncIsComplete` is violated, and
  `SmallFullSyncIsComplete` says for which stores it is not.
* `SessionProofs`. `SuspendedIsShutOut` is inductive as it stands, given the types: what is
  issued during a suspension is late, and the statement after the one that suspends revokes what
  was live before. `SessionBudget` is, once it is known that a login holds no token and so does
  not count as a rotation (`LoginToken`). `StatusInv`: while nothing is disturbed one request
  at most administers, and what it has written to the merchant is what it will write to the
  user. `Implementation`: each step of
  `ClientSession` is a step of `AuthSession` or leaves its variables alone, so all of it
  holds of the composition. `BrowserInv`: while calls take turns one tab is open at most, one
  request has a caller, and how far it got (`Due`) says which session is live; `BrowserAgrees`
  is what that leaves once the request is over.
* `ServicesProofs`. `EachService` splits the sum: the behaviour of each service satisfies
  that service's specification, and its property is proved there.
  `CacheInv`: an entry, and a load that is to become one, expire within the time to live of
  when they were read, and are no older than the invalidations they were not overtaken by.
  `OnbInv` and `SocInv` say what the rows are at each step of the one update, or worker,
  that is under way. `SupInv`: while nothing is muddled, counter and messages shown differ
  from what has arrived by exactly what the posts under way have yet to do. `PayInv` counts
  `Earned` commissions against `ClaimUnits`, the units claimed and about to be, sums of
  amounts being cardinalities; `OverdrawInv` counts the same of requests that overlap:
  the balance is overdrawn, but a request that passed its check holds no more than was earned,
  so claims stay within what was earned times the requests in flight. `OtpInv` counts, for each limit, what it has let through and the
  requests past its check: together less than the limit and the requests in flight; an hour that
  ends later holds, of the codes there are, a part of those it held.
  `ChildInv`: a replacement of a product's children that nothing disturbed is the only one,
  and its place says how far the children are those of its version. `WebhookInv`: a
  delivery is applied by one request, the one that recorded it, and neither the row nor a copy
  that is not stale is older than what is done. `AppliesReceived`: a request that applies a
  delivery finds it `received`, so the row moves forward only, and with it the webhooks
  implement `AtMostOnce`.
* `PluginEventsProofs`. `ListsInv`: the queue, and every copy of it a process works on, holds an
  event once and is no longer than its limit. `DeliveryInv`: a process that
  removes events has had an answer that stands for every one of its batch, and
  `CapturedIsKept` is inductive with it. `DriveInv`: a process drives the queue only while its
  own copy holds an event or it is about to schedule; one that emptied its copy has emptied
  the queue, so whoever captured an event since drives it. `remove_event` is
  modelled as the loop it is, a recursive function of the position; `RemovedList` says what
  it returns (all events but the one, none twice that was not, no longer than before) and is
  proved with the least position at which the fact would fail, since the library's theorem of
  induction takes an operator.

Every invariant and action property that a run checks is stated by a theorem. Only
model-checked: liveness (`SyncEnds`, `OrphanRunIsCleared`, `DisconnectLeavesNoRun`, `CollectedIsSettled`,
`QueueDrains`, `EventsAreDelivered`), which the proof system does not handle under fairness,
and the two counterexamples.

## Not modelled

* Screens, strings, types and mock adapters of the client, which are most of the
  repository's lines: they keep no state a protocol depends on. Their double presses, retries
  and parallel calls are the environment of the server's modules.
* Access control, RBAC, the SSRF guard: decisions over one request, which unit tests
  enumerate.
* Vault, redaction, audit, SMS configuration: cryptography, formatting and I/O. A
  signature is taken to be what it claims.
* The WooCommerce client's mapping of fields and its paging loop; the WordPress
  plugin's admin pages, previews and registration of hooks.
* The `sync_run` row of a plugin's envelope, which nobody reads but the list of runs, and
  `processPluginEvents`, which notes a time and audits.
* `PATCH …/stock` and `DELETE` of a product (`merchant.ts:876`, `merchant.ts:979`): the one
  writes a number of the row that `ReadModel` does not tell apart, the other removes the row.
* Rows that one statement writes whole: orders, customers, coupons, profiles,
  a ticket's status, notifications.
* Configuration, HTTP wiring, migrations and scripts. The constraints of the schema
  appear in the modules that rely on them.
