# CODkar in TLA+

CODkar is a Shopify app for cash-on-delivery shops. A buyer fills a form on the
storefront; the API prices and scores the submission and stores an order; a worker
turns the order into a Shopify draft order and completes it; the sale is then
reported to the merchant's sheet, ad pixels and dashboard, and webhooks from Shopify
carry the later life of the order back. This directory models the storefront's
scripts, the API and the parts of the admin where that can go wrong. Everything is
translated from the TypeScript source: `PROJECT.json` ("map") names, for each
definition, the lines it stands for.

    tlc -workers 2 -config push_safe.cfg MCOrders        # one of the runs below
    tlapm OrderPushProofs.tla                            # the proofs of a module

## 1. The system

The API runs as two kinds of process, `web` (Express) and `worker` (BullMQ), over one
Postgres and one Redis. The storefront runs three bundles in the shopper's page, the
admin is a page of its own. Paths are relative to `src/apps/api/src` unless they name
a package.

| Part | State it keeps | Operations | Talks to |
|---|---|---|---|
| Submission (`modules/orders/service.ts`, `pricing.ts`) | the new `CodOrder` row | `submitOrder` | forms, billing usage, Shopify prices, fraud engine, push queue, statistics |
| Push (`modules/orders/push.ts`, `gates.ts`, `jobs/pushOrder.ts`) | status, draft and order ids on the row; the job `push-<order>` | `pushOrder`, `markPushExhausted` | Shopify drafts, sheet and pixel queues, statistics |
| Order admin (`modules/orders/adminController.ts`, admin `useOrders.ts`) | the same rows and job; pages held by the browser | `retryPush`, `verifyOrder`, `listStuck` and its polling | push queue |
| Fraud (`modules/fraud`, `jobs/scanOrder.ts`) | verdict on the row, assessments, rules, block lists | `assess`, `rescanPending`, `rescanOrder`, `reviewAssessment`, edits | push queue |
| Queues (`queue/queues.ts`, `queue/worker.ts`) | one BullMQ job per id, its attempts, stalls and lock | add under an id, take, retry, stall check, removal | every job processor |
| Webhooks (`modules/webhooks`) | one receipt per webhook id | `dispatch`, `replay`, the order handlers | order rows, statistics |
| Statistics (`modules/analytics`, `jobs/rebuildStats.ts`) | one `daily_stats` row per shop and day, counters and JSON maps | `applyDelta`, `rebuildRange` | order rows |
| Sheets (`modules/sheets`, `google/sheets.ts`, `modules/google`) | `SheetConfig`, `sheetSyncStatus` of an order, rows in Google, one grant per shop | `syncOrder`, `backfill`, choosing a sheet, connecting | sheet queue |
| Pixels (`modules/pixels`, `pixels/`, `jobs/dispatchPixel.ts`) | `Pixel` rows, event log, totals and usage | edits, `dispatch` | ad platforms |
| Sessions (`shopify/`, `modules/auth`, life-cycle webhooks) | one offline token per shop, the shop row | install, exchange, load, renew, call, uninstall, scopes | every call to Shopify |
| Billing (`modules/billing`) | subscription row, usage per month and metric | `reconcile`, `checkUsage`, `recordUsage` | submission, pixels, forms |
| Retention (`jobs/enforceRetention.ts`, privacy webhooks) | blanked orders | nightly sweep, one customer's erasure, export | order rows |
| Forms (`modules/forms`) | forms and their fields | create, duplicate, activate, edit, replace fields, delete | storefront |
| Transfer (`modules/transfer`, `modules/audit`) | all settings rows, one audit row | export, import | storefront cache |
| Storefront API (`modules/storefront`, `lib/cache.ts`, `modules/postal`) | versioned cache tags, cached look-ups | read through, invalidate, look up | theme |
| Theme (`extensions/.../codflow.js`, `theme-src/src`) | a page: buttons, dialog, queue of events | mount, load, open, fill, submit, poll, report | storefront API |

**What is hard.** Handlers are sequences of single statements with awaits between
them and next to no locks or transactions, so the interleavings of two submissions,
of a push with a rescan and an admin request, of two webhooks about one order, of
two tabs of the admin or of two workers on one sheet are all real. Calls to Shopify,
Google and the ad platforms are answered, refused, or done and their answer lost. A
job may be tried again after any of its steps, taken from a dead worker, or, when a
live worker is too slow to renew its lock, run twice at once. Job ids stay in use
after a job has ended, so adding one can do nothing. Counters are written apart from
the rows they count. In the page, bundles, configurations, look-ups and answers
arrive in any order or never, while the shopper opens, types, submits and leaves; and
the same rules run twice, in the browser and on the server. `PROJECT.json` lists each
of these at its line ("hazards") with the properties that watch it.

**What makes each part correct.** A purchase submitted again makes no second order;
an order is created in Shopify at most once, the number on its row is that order's,
and sheet, pixels and statistics hear of it only then; nothing held is pushed and
nothing cleared is forgotten; a webhook counts once, and only what the row shows; a
day's counters agree with its orders and with each other; an order shown as synced
has one row; a platform hears of a sale once; the form shows, asks and charges what
the server does and says what became of the order; a shop keeps its token, its plan
settles, expired data goes; a settings file restores what it has; every job ends.

## 2. The modules

### The order
`Submission`: one action per await of `submitOrder` (`Receive`, `checkUsage`, `Price`,
`assessAndRecord`, `findRecentDuplicate`, `createWithTimeline`, `persistAssessment`,
`appendEvent`, `Enqueue`, `recordUsage`, and `Fail` at any of them), beside the
duplicate window passing, the order being pushed, failing or cancelled, and the scan
that reads it, writes a verdict and releases it. An order is named by the submission
that stored it. `since`, `lapsed`, `failed`, `peak` are history.

`OrderPush`: the row, the job `push-<order>`, each worker's run of `pushOrder` (`pc`, one
value per await), the drafts in Shopify (open, completed by the app, completed by the
merchant), and admin requests and scans in steps of their own. Each call to Shopify
may do its work and lose its answer; a worker may die anywhere; with `Steals` a live
run may lose its lock to another. `OrderDelivery` is the abstract specification
(create once, learn that number, then tell), which `OrderPush` implements under
`created` = the drafts the app completed, `known` = the number on the row
(`DeliverySpec`). `OrderPushInvariants` holds the inductive invariants,
`MCOrderPush` the refuted comments.

`OrderLifecycle`: what happens to the order in Shopify (`Happen`), the webhooks it
emits with a snapshot each, and requests handling deliveries: receipt under the unique
id, `locate`, the check on the row read, the stamp, the event, the count, the
receipt's end, or an error or the process's death at any of them.

`DailyStats`: a day's row as counters, one JSON map (countries; cities and products
are merged the same way) and the stored average; an increment as its four statements;
a rebuild as read orders, read rows, replace, one chunk of days after another, from
the start again when it fails.

`StuckOrders`: the three groups the database parts the unpushed orders into, their
`where` clauses, pages behind a cursor and capped counts; and the screen that holds
pages, polls them one after another, and drops what it held when the tab changes.

### Fraud
`FraudRules` is the pure part: each detector as the signals it can find and their
weights, the conditions of a merchant's rule with all twelve operators, the lists, the
look-up of the address, thresholds and the verdict. What an assessment waits for may
fail: the settings, the address's provider, each detector, the rules, or all of it at
the deadline. `FraudEngine` asks it of any order, rules, lists, settings and failures
(`Suspects`, `RuleLists`, `Configured`, `Failing`); the instance has orders with one oddity, two or all. `FraudDesk` is the desk: requests edit settings, lists and rules,
review orders and call `rescanPending`; scans read settings, lists and rules in steps
of their own, write a verdict, and release the push.

### After the sale
`JobQueue` is what BullMQ does with one job per id, from how `queue/` configures it.
`SheetSync` extends it with `syncOrder` await by await, the push and backfill that add
jobs, the merchant who chooses, moves, disconnects or loses the spreadsheet, and
Google's answer to a write: done, done but unanswered, or refused. Every step of a sync
that touches a job is a step of `JobQueue` (proved: `SyncUsesQueue`). `PixelDispatch`:
the sale's PURCHASE job, whose pixels run side by side (gates, duplicate check, send,
log row, counters), run again while a platform's failure may pass; and the merchant's
edits, which check a pixel's token on the row as it was read.

### The shop as a tenant
`ShopTenant` holds five modules. `ShopAccess`: a copy of the token, stored or in
memory, is described by what Shopify thinks of it now (newest, previous, dead);
operations of two processes install, exchange, load, renew, call (three attempts in all,
throttled, failed, refused or answered), purge, and handle `app/uninstalled` and scope webhooks late. `PlanBilling`: reconciliations
by webhook, page load and on demand, each writing whole the answer it got.
`ConfigCache`: the storefront's read-through cache with a versioned tag, beside saves
and uninstalls. `DataRetention`: the sweep in batches with its ceiling, failing shops
and restarts, and the erasure and export of one customer. `FormBuilder`: forms edited
from several tabs, each check apart from its write, and re-provisioning.
`SettingsTransfer`: export, import section after section without a transaction, other
screens' read-merge-write beside it, and what the audit log keeps.

### The storefront page
`Storefront` holds four modules. `StorefrontButtons` is the loader `codflow.js`: cached
and fresh configuration, the buttons it mounts, the theme's own buttons it hides.
`CodForm` is the dialog: each opening mounts a controller into the same body while the
earlier ones' requests and polls go on; submissions and their timeout, what the server
stores meanwhile, the expiring form token, the redirect. `BrowserPixels` is the pixel bundle and the
queue the other two fill before it came; form and pixels are composed, an announcement
of the one being a step of the other. `AddressLookup` is the postal code that fills in
the city, its endpoint, its cache of both answers and the provider.

`FieldRules` (conditions, coercion and validation of fields, run by browser and
server), `OrderPricing` (lines, bumps, fees, free shipping and rounding on the server,
the summary in the dialog, the draft) and `FormEntry` (a shopper at the dialog: what
controls show, which fields are shown and marked, what is sent, what the server makes
of it: the form as the merchant has it by then, which may be edited or inactive, the
bot's signs, the fields, whether the number is one of its country, whether the shop
delivers there, the stock and the limits; the allowance, the engine and the duplicates
are `Submission`'s). An amount is an integer in millionths of the currency's unit. What the forms and
offers of a shop are taken to be is stated there too (`FormsAreSound`, section 4).
`FormSamples` and `TransferSamples` are the instances' forms, offers, entries and files.

### Instances
`MCOrders`, `MCRecords`, `MCOffice`, `MCSettles`, `ShopTenant` and `Storefront` each check several
modules in one run. Their parts share rows that each sees as given (an order's form,
the shop's settings), so a behaviour is of one part, which the variable `part` names
and Init chooses; the others rest. That is a union of state spaces, not a product: it
claims nothing about parts interleaved. Where parts do interact, the interaction is
inside a module (the push and the scan in `Submission`; requests and scans in
`OrderPush`; the queue in `SheetSync`) or is composed step by step (the form's
announcements in `Storefront`). `MCOrders` is of two runs: `Parts` says which parts each has.

## 3. The runs

| Run | Instance | Shows |
|---|---|---|
| `push_safe` | 1 order, 2 workers, 1 request, 2 drafts, 2 attempts, 1 stall, outages, no stealing | one Shopify order at most (`AtMostOneShopifyOrder`), a pushed order names its draft (`PushedHasDraft`), its number is final (`OrderNumberIsFinal`), and the push implements `OrderDelivery` (`DeliverySpec`) |
| `orders` | *push*: as above, stealing, verify requests, fairness; *form*: the six sample forms, each in place of another while the page is open, and the offers, 4 acts | what holds when a job runs twice at once (`SaleReportedOnlyOnceReal`), that every push settles (`JobSettles`), and that the dialog shows, asks and charges what the server does (`FormIsHonest`) |
| `records` | *submit*: 2 submissions of 2 purchases, cap 1, one order rescanned, outages; *hooks*: 1 order, 2 webhooks of 5 topics, 2 handlers, outages; *count*: 2 orders, 2 days, a rebuild in chunks of 1 day; *retry*: 1 order, failing statements, 2 tries | a resubmission finds its order (`ResubmissionFindsOrder`), the cap is overshot only by overlap (`OvershootBounded`), a buyer is told of their own purchase (`AnswerNamesPurchase`), a stored order is queued or held (`StoredIsQueuedOrHeld`); a counter follows its row (`CountedOnlyIfStamped`), one webhook counts once (`CountedPerWebhook`); map and revenue agree (`MapAgreesWithRevenue`), days count their orders and an undisturbed rebuild restates them (`DaysAreExact`), averages come to be right (`AverageSettles`) |
| `office` | *engine*: two oddities, rules, lists, each failure; *desk*: 2 orders, 2 requests, 1 fault; *pixels*: 2 pixels (META and a custom endpoint), 2 runs, 1 edit, 1 loss; *transfer*: 2 requests, 1 failure; *stuck*: 2 orders on pages of 1; *sheet*: 1 order, 2 workers, 2 spreadsheets, 3 acts, outages | `EngineIsFair`, `DeskAgrees`, `PixelsTellTheTruth`, `TransferIsFaithful`, `StuckListIsWhole`, `SyncedIsInSheet`, `OneRunPerJob` |
| `settles` | the webhooks with an operator's replay, pixels, stuck list, desk and sheet (2 orders, top insertion), each smaller and with its fairness | `WebhookIsApplied`, `InProgressEnds`, `OfficeSettles` (the desk's requests and scans, the sale's job, the list), and one row per order (`OneRowPerOrder`) |
| `shop` | 2 operations in 2 processes; 2 shops of 2 orders; 2 reconciliations; 1 reader and 2 writers; 4 forms, 2 tabs, a limit of 2 | `KeepsGrant`, `ServedIsRecent`, `FormsHold`, and the liveness of the token, the plan and the erasure (`AccessSettles`, `PlanSettles`, `ExpiredIsErased`) |
| `storefront` | 2 openings, 2 orders posted, 5 ad tags, 1 answer to the banner; 4 configurations, 4 acts; 3 postal codes, 4 edits | `OrdersAreHonest`, `SaleHeardOnce`, `GatesHold`, `ConfigStaysWhileOpen`, `ChangeIsSeen`, `ResolvedIsForCode`, `WaitsEnd` |
| `claim_retry` | violation | a merchant's retry queues nothing while the failed job keeps its id |
| `claim_approval` | violation | approving a held order queues nothing |
| `claim_recovers` | violation, 3 days | a rebuild drops the cancellation of an order created before its chunk |
| `claim_symmetry` | violation, forms with a check box | what passes in the browser is refused by the server |
| `claim_recoverable` | violation, one request at a time | the audit log's snapshot is not the settings it was taken of |

**What the properties leave out.** Each exception is a thing the code does, written in
the property so that nothing else hides behind it. `DeskAgrees` does not speak of an
order whose edit queued no scan, whose scan id was still held, or whose read failed:
nothing goes back to it. `SaleToldOnce` excepts a pixel with deduplication off and one
whose log row was never written. `ServerSideHasToken` is about one request at a time:
with two, the token is cleared and the pixel switched to the server side by checks on
the same row, and TLC finds a pixel without a token. `OneIsActive` excepts a deletion
racing an activation and a reinstallation, `KeepsGrant` a token that was exchanged,
overwritten or lost, and a call that is refused for the first time on its last attempt: that one
purges the session with its refresh token unspent (`shopify/graphql.ts:129`), and `plain` ends there.
`FailureIsNotSuspicion` excepts what a failure does by the merchant's own hand: a list of trusted
shoppers that was not heard, rules that take points off and were not read, and rules whose points go
by the score or by the country of an address that could not be looked up (an outage makes
`ipCountryCode not_equals` true). `ServerAgrees` is about the server's check of the *fields* of the form as the
page got it: that the number is valid, the country served, the form still active and unedited, the
stock and the limits in order is the server's own to say, and `MessagesAreSeen` says only that it is said beside
a field on screen, but for a phone that a rule or a flag of the merchant's hides. It is checked, and proved, over forms whose conditions read an entry as they read
what is sent of it: a check box is not, and with one it fails, which is `claim_symmetry`. In the page a tag
that is called is taken to have heard; what its script throws is caught and lost (`theme-src/src/pixels.ts:569`).
Where a sheet's rows go is chosen once for a run of the model. `VisibilitySettles`
is for rules that do not go round in a circle. `ImportRestores` is for an import no
other write touched and none failed. `ChargedAsShown` allows a difference of less than
a coin of the coarser of the two formats, which the code does produce.

**Bounds.** Orders do not interact in the push, the webhooks or the queue (every
guard reads one order's row and job), so one order with two workers, two handlers or
two submissions holds every race of the code, which are all between two actors on one
row. Two drafts let a second draft be made; two attempts and one stall let a job be
retried, taken back and failed for good. In *submit* a cap of one is the boundary two
submissions race for. Two webhooks are the least that can overtake each other, report
one transition under two topics, or be one webhook twice. Two days with chunks of one
let a rebuild cross a chunk border; `claim_recovers` takes three. Two orders on pages
of one are the least of which one can leave between two pages. Two operations in the
shop race for one token in every pair of jobs, and `MaxTurns` lets the merchant do
something and the network fail. Two tabs and a limit of two race a limit, a deletion
and an activation. Two openings of the dialog are the least with an older controller
in the background. The five tags are one of each way a tag is gated: by consent, by a
list of events, by a provider that cannot address one tag among several, by Tag
Manager. The sample forms have chains of conditions, the field types that behave
differently, and values at the edge of each rule; the offers have currencies of 0, 2
and 3 digits, percent and flat fees, bumps, and free shipping on both sides of its
threshold. `Max...`, `LastDay` and the `...Limit`
constants cap what would grow without end. Where two values of a set are alike, `push_safe` takes
TLC's symmetry; `records` and `office`, whose other values are not alike, name them
instead: in the order of their first use (`D1First`, `FirstIsB1`, `C1First`), or the
second only beside the first (`SecondJoins`, `W2Joins`). `S1First` is no renaming but a
choice: of two submissions the rescanned one is the first, since a rescan touches its
own order and job only. Deadlock checking is off: the systems stop when
the bounded work is done.

**Fairness.** Workers keep running and take waiting jobs (a BullMQ worker polls for
ever; in `SheetSync` taking is strongly fair per job, since the queue is first in,
first out), the stall check runs every 30 s (`queue/worker.ts:52`), Shopify delivers
until answered, a handler that started goes on unless it dies, and the database runs
the transactions it was given. In the page, timers fire and a request is answered or
fails (the form's requests carry timeouts); a lookup is given up after its own
deadline, and codflow.js's fetches end as the browser ends them. The stuck list polls while it is
open. The sweep runs every night. `AccessSettles` and `PlanSettles` speak of a
merchant who keeps opening the admin (strong fairness of `Opening` and `PageLoads`),
because that is what the code relies on: nothing else repairs a token or a missed
subscription webhook. Nothing is assumed of buyers, outages or the end of a crash; a
part whose liveness needs their absence has `Outages = FALSE` in the instance.

**Violations** quote the line they refute ("findings"). Further disagreements between
a comment or a message and the code were met on the way; they have no run and no
definition here, and are listed for whoever changes those lines:

* `orders/push.ts:497`: an order may be marked FAILED although it was sent, when the
  failure came after the draft was completed. `push.ts:202`: a crash before the
  draft's id is stored makes a second draft. `adminController.ts:183`: verifying
  writes back a status read earlier.
* `jobs/scanOrder.ts:25`, `queue/queues.ts:115`: a released order whose `add` failed is
  swept by nothing. `queues.ts:129`: a retry after a lost answer may write a second row.
  `queues.ts:146`: a backfill adds nothing while the old job's id is kept.
* `webhooks/service.ts:32`: a receipt of a handler that died is not replayable.
  `ordersLifecycle.ts:24`: a transition that two topics report can count twice.
  `ordersLifecycle.ts:73`: an ignored webhook may be about an order of the app, whose
  number is written a moment later.
* `analytics/repository.ts:476` and `:552`: a rebuild loses telemetry counted while it
  runs and changes past revenue; `jobs/rebuildStats.ts:82`: one that fails has already
  replaced some days.
* `google/service.ts:165`: reconnecting does not activate the sheet again;
  `sheets/sync.ts:230`, `:253`, `sheets/repository.ts:159`: a sheet may be deactivated
  for another reason, the backlog misses orders IN_PROGRESS, a mark may outlive its row.
* `jobs/dispatchPixel.ts:30`: a resend may reach a platform that was already told.
  `forms/repository.ts:69`: none or two forms can be active.
* `shopify/graphql.ts:124`: the refresh token is not spent before the session is destroyed when the first
  refusal is of the last attempt. `lib/ipIntel.ts:25`: an outage of the provider is a missing country to
  a merchant's rule, which may add points for it. `transfer/dto.ts:21`: a settings file may have
  thresholds of 0 and in any order, which `fraud/dto.ts:32` and its neighbours refuse.
* `orders/service.ts:324`: the phone is present, in use and required, but a rule or a flag may hide it;
  such a form lets everything through in the browser and is refused on the server for ever.
* The loader may show an earlier configuration after a reload, from the browser's HTTP
  cache (`storefront/controller.ts:49`), and the postal contract's outage reads to the shopper as an unknown code.

## 4. The proofs

Every theorem is of a specification the runs check, for every value of the constants
that satisfies the named assumptions, and each assumption only keeps the null value
apart from the identifiers, makes limits natural numbers and sets of actors finite
(`PushAssumption`, `QueueAssumption`, `SheetAssumption`, `LifecycleAssumption`,
`SubmissionAssumption`, `StatsAssumption`, `AccessAssumption`, `CacheAssumption`,
`FormAssumption` of the dialog and of the builder, `ButtonsAssumption`,
`LookupAssumption`, `PixelsAssumption`, `RecordsAssumption`, `DeskAssumption`,
`PixelAssumption`, `StuckAssumption`; `SubmissionAssumption` and `StatsAssumption` are
hypotheses which `RecordsAssumption` implies of the instances). Four say what the inputs
are: `StorefrontAssumption` that an order's number is one of those the pixel bundle is told
of, `EditsAssumption` that an edit of a pixel is one the endpoint's schema lets through,
`TransferAssumption` that a settings file has the sections there are, and `EngineAssumption`
that rules and settings are what the endpoints accept (thresholds in 0..100 and in any order, as
`transfer/dto.ts` lets an imported file have them, an action for each level).
TLC evaluates all of them in its runs. What is proved of a bound in a guard (`Max...`) is
proved for every bound. A proof has one lemma per action or conjunct.

* `OrderPushProofs`, stealing allowed: `TypeCorrect`, `SalesAreReal` and
  `PushedOrdersHaveDrafts`. None is inductive by itself: a run carries a draft in
  hand from step to step, and a request a status it read. `IInv` adds that what a run
  holds belongs to its order (`RunDraftOwned`), that a row names its own drafts, and
  that a remembered status is still justified (`SeenPushedHasDraft`). Under
  `~Steals`: `OneShopifyOrder`, `RecordedOrders`, `NumbersAreFinal`,
  `DraftsAreReused` and the refinement `PushDelivers`. `OneRunInv`
  says a run past its first step owns its job, so nothing changed the draft or the
  number on the row since it read them (`RunInStep`), hence only the draft the row
  names is ever completed for it (`CompletedIsNamed`). With stealing these fail: TLC
  shows two Shopify orders for one COD order.
  The dialog's `FormStaysHonest` is there too, and told of below.
* `SubmissionProofs`: `SubmissionIsSound`, from `SubmissionInv`. The cap needs a count:
  whoever was admitted and not yet counted was in flight when the most were
  (`AdmittedWithinCap`, over cardinalities). That a purchase finds its order needs that the
  look-up saw every row that lives (`LookedUp`), and that a row lives until its window
  lapsed or something ended it (`LivesUntilLapsed`).
* `DailyStatsProofs`: `StatsAreSound`, from `StatsInv`. The merge of a map is sound
  because the row is locked from its read to its write (`MergeHoldsRow`); the
  average because whoever changed its columns still has it to compute; the rebuild
  because the orders it read are, as long as nothing disturbed it, the orders there are.
* `RecordsProofs`, first of the webhooks: `LifecycleTypes`, `CountsFollowRows` and
  `WebhooksCountOnce`.
  `HooksInv` says what a request applies is what its webhook says and what it counts
  its row shows; `OnceInv` that a webhook has one handler and each count spends
  one. The last is under `~Replays`, since a replay does count again; nothing in the
  build calls `replay` (an operator would, from a console), and the run has none.
  It then carries all three to the `records` run, as theorems of the very
  specification TLC checks: `MCRecords` has the submissions, the daily numbers twice and
  the webhooks in one behaviour, and a step of one leaves the others' variables alone.
* `OfficeProofs`, last part, of the spreadsheet: `QueueIsExclusive`, from `QueueInv` (a lock is on an active job, a
  run holds its lock, live jobs have attempts left), under `~Steals`;
  `SyncUsesQueue` (each step of a sync is a step or a stutter of the
  queue), so `SyncRunsOnce` inherits exclusiveness; and `SheetTypes`. `SyncedHasRow`
  needs, where rows are put at the top, that the row a run opened is blank until it fills it
  (`TopIsBlank`), which holds for one worker only; with two, one fills the other's row,
  and the property leaves that out. `OneRowEach`, under `~Steals`: whatever has a row has a
  completed job or a run with nothing left but to say so (`RowWritten`), so a run that
  comes to write finds none; and while the config is not deleted, what a run read of it
  still stands (`ConfigStands`), so nothing fails after the row. Every write is one row put
  into a sequence whose others stay or move down by one (`Puts`).
* `TenantProofs`, of the `shop` run's specification: `GrantSurvives` (`AccessInv`: a copy
  Shopify still takes, stored, in memory or in a running operation, is of a grant that
  has a token; while tokens are only refreshed, one of them is the stored one, and what is on its
way to a purge holds a copy it tried to refresh or `plain` has ended);
  `StorefrontIsRecent` (`CacheInv`: a version read before a save is never the
  version of a request that began after it, so what was written under the old
  one is not found); `FormsStayUsable` (`FormInv`; that the limit is overshot only by
  requests racing its check is a count, `RoomIsKept`).
* `StorefrontProofs`, of the `storefront` run's specification: `OrdersStayHonest` (`FormInv`: each
  request is of the controller that made it, one at a time, and what a
  controller says was stored); `AreaIsTheCodes` (`LookupInv`: the answer of the highest
  sequence number is for the code in the field); `OpenFormKeepsConfig`;
  `GatesStayShut` and `SalesAreHeardOnce`. The last two are about loops over a list of tags
  of any length and a queue of any length: `PixelInv` is preserved because one pass
  of the loop (`OnePixel`) preserves it.

* `OfficeProofs`, of the other parts of the back office:
  * `EngineIsFairHolds`, for every order, rule list, settings and set of failures. That one oddity
    never refuses an order is arithmetic, fact by fact: none weighs more than 60 however often it
    is found (`PointsAreFew`), the sum over all signals is that of the one (`TotalOfOne`), and
    the default threshold of a refusal is above it. That trust outranks suspicion and that what fails
    does not add to the score need what a sum does when terms are taken out: it falls, unless
    they were good news (`TotalGrows`, `TotalOfBoth`); the detectors together are bounded by
    `Worst` (`ReportsAreBounded`), the rules by `PointsOf` (`RulesAreBounded`), and rules that give points by neither
    the score nor a country that could not be looked up add the same (`RulesAddTheSame`).
  * `DeskHolds`. `DeskInv` follows each scan: while no request is under way, what it has read
    of settings, lists and rules is what the shop has (`ScanAgrees`), unless it is in doubt or
    its order is marked as missed. A step of a request leaves it under way or marks every order
    (`RequestMoves`), or is the rescan, which starts the scans of what waits over.
  * `SaleIsTold`, for any number of requests at once: that a platform hears of a sale once and the
    rows, totals and books follow what it took. Per pixel the four counts differ by what its
    part of the dispatch has in hand (`Fits`); the day's books need a cardinality, the parts whose row is
    written and not yet booked (`BooksFit`). `PixelsTruth` adds the token, and has a hypothesis:
    one request at a time, since `assertCoherent` checks the row as it was read.
  * `StuckListHolds`: the groups part what is stuck because their `where` clauses are cases of
    one another; the pages miss nothing because what is newer than a page's cursor and
    was in the tab throughout is on a page (`Covers`). A page is the newest rows below a cursor, as many as fit, and
    that one exists is proved, not assumed (`LeastNatural`, `PageIsFound`).
  * `TransferHolds`: an import that stands at a section has written the sections it is past and
    part of the one it is at, and those read as the file has them over what was there
    (`SectionReads`); a write of another screen ends its being alone. `StaleFits` says the
    cache is stale only while someone is still to invalidate it, or after a failure.

**The dialog.** `FormStaysHonest` is `FormsAreSound => (FormSpec => []FormIsHonest)`: browser and
server agree for every form, entry, price and moment at which the merchant changes the terms, edits the
form or puts another in its place. It
rests on three facts about the operators.
* *The passes settle* (`PassesSettle`): a field's rule looks at fields of a lower rank, so after pass
  `n` all fields of rank below `n` are decided, and one pass more than there are fields changes
  nothing. What is shown is the only way to show the form that a pass leaves alone (`OneWayToShow`).
* *Coercion is harmless*: what is coerced is coerced no further (`CoercedTwice`), so the server, whose
  rules coerce what they look at, validates alike (`CoercedIsAsGood`), and stores it as it came, which is
  what the controls showed; and since a rule reads what is sent as
  it reads what is kept, what the server shows is what the browser showed (`ServerSeesTheSame`).
* *The sums agree*: of whole coins only the courier's percentage is rounded, by half a coin
  at most (`RoundIsNear`); the draft's lines, a set, add up to the order's total because
  no two of them are one (`DraftComesTo`), and the summary is of the same parts (`SummaryComesTo`, `ShownIsCharged`).

The inductive invariant `FormInv` ties the controls to the values (a control shows the
value, or what it makes of the default), the fields on screen to the values, the sum to the cart, and the
terms to those of an offer in the same currency. `FormsAreSound` is evaluated by TLC on the samples
(`SoundAssumption`); it says of the inputs what follows, and why:
* an entry has the kind its control gives and a default is text (`EntriesFit`: `form.ts` buildControl);
* one field is the phone, in use and required (`HasPhone`: `forms/service.ts:99`), which a rule may still hide;
* the rules are free of circles (`RulesEnd`): the builder does not refuse one, and a form with one has
  no right answer, so nothing is claimed of it;
* a rule reads an entry as it reads what is sent of it (`ReadAlike`). The code does not see to it: it is
  false of a check box nobody ticked, the finding of `claim_symmetry`, and of text that a rule
  compares and a shopper enters with blanks around it, which the browser compares untrimmed and
  sends trimmed. Without it the server may ask for a field that was not on screen;
* a hidden field's default is valid (`AsidesAreRight`), and a default that is let through is the
  one its control shows (`DefaultIsShown`): both are in the merchant's hands, and the code checks neither;
* prices, fees and add-ons are whole coins, and the page's price is the shop's (`IsOffer`):
  `shop/dto.ts:75` takes at most two decimals, which makes them whole where a currency has two digits or
  three; of the yen it is an assumption, as it is that the page was rendered at the price charged;
* a merchant's change keeps the add-ons, if only for nothing.

Getting these models ready to be reasoned about changed some things in them that were
wrong or could not be reasoned about: a verdict's level and a rule's condition were a CASE over strings with an
arm the provers could not split, and are conditions of their own; the engine's samples were definitions of its
module, and are its constants; the expiry of a looked-up address was an action no behaviour
could reach, and is part of the look-up now; a row without questions was told apart
from one whose questions are absent in every section, and is in forms only; and a
page of the stuck list is a set of orders, since their order is that of their numbers.

**Loops and sums.** The library's induction theorems take an operator, which these provers cannot
instantiate. `FoldLemmas` starts one level lower, from the theorem that the finite subsets
of a set are well ordered by inclusion: a set of naturals that is not empty has a
least element (`LeastNatural`), so a set that has 0 and with each number the next is
everything (`NaturalsBySuccessor`). From that, a function defined by recursion over
`0..n` has the values its definition says (`LoopRuns`), and what one pass preserves the
loop preserves (`LoopKeeps`). The sum of a function over a finite set, which the community modules
fold by choice, is the same however it is chosen (`AddsAgree`, by the least number of elements for which it
is not), so it takes one term out or puts one in (`SumTakesOut`, `SumPutsIn`), splits over a union and rises with its
terms; the engine's scores and the order's sums are proved from these. What remains out of reach is RECURSIVE operators, which
the modules do not declare, and recursion that is not over a range of numbers.

**Only model-checked.** Everything under fairness is beyond this prover (`JobSettles`, `AccessSettles`,
`PlanSettles`, `ExpiredIsErased`, `WebhookIsApplied`, `InProgressEnds`,
`OfficeSettles`, `ChangeIsSeen`, `WaitsEnd`). The disagreements of the violation runs have no theorem. Every invariant of a run
has one: of `PixelsTellTheTruth` for one request at a time, of the push and the queue
without stealing where the property needs that, of the dialog for sound forms.

## 5. Not modelled, and the plan

`PROJECT.json` ("components") says part by part what is left out. Left out for good:
the content of sheet cells, mail, logs and timeline texts; layout, styling and
translation of the storefront, and the reading of prices from a theme's markup; the
admin's screens but for the stuck list, which keep no state of their own; static pages
and health probes; cryptography and token signatures; rate limits, start-up and the
maintenance scripts, which are I/O around the parts above; analytics reads and the
buyer's status page, single reads of what other parts write. BullMQ's backoff delays
and priorities, the one-time password's delivery, and a shop's redaction (a cascade
delete in one statement) are not modelled. What an import does when it dies half-way
is modelled and has no property: the code has no answer to it.

**Next.** The refinement of a sale's dispatch by an abstract "told at most once", shared by the
pixels' and the sheet's jobs. Two comments the models contradict and no run refutes yet:
`packages/shared/src/validation/conditions.ts:152` says each pass can only ever hide more fields
(a field shown while another is empty comes back once that one is hidden), and
`validation/fields.ts:138` that an unticked box is not valid consent (a CONSENT field whose
default is the text "true" shows unticked, and is accepted).
