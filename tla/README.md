# touch-engine: a TLA+ verification project

This directory holds TLA+ models of the server of touch-engine, the TLC runs
that check them on small instances, and theorems about them that TLAPS proves
for every value of their constants.

The server (`src/server`, Go) is the system's core: an HTTP API over one SQLite
database. `db.Open` limits the pool to one connection (`SetMaxOpenConns(1)`).
That decides what is atomic in every model here:

* a **transaction** is serialised with everything else, so it is one action;
* a **statement** outside a transaction is one action, and a handler that runs
  several of them is a *task* that takes one step per statement. `net/http`
  runs every request in its own goroutine, so the steps of different requests
  interleave, and a request can die between two of its steps (a crash, a
  database error, a canceled context) with nothing rolled back;
* an **outbound call** (reward domain, leads sink, text model, matrix) is a step
  whose answer may be late, negative or missing.

Contents: 1 inventory, 2 modules, 3 modules and code, 4 what is checked,
5 what is proved, 6 stated but not in a run, 7 known divergences, 8 not
modelled, 9 plan, 10 running.

## 1. Inventory

| Component | State it keeps | Operations | What is hard | What makes it correct |
|---|---|---|---|---|
| Reward ledger (`store_reward_ops.go`, `rewardops/`) | inventory batches, imported code pool, one benefit row per (participation, slot), append-only trail, official facts | create, pause or retire a batch; reserve, confirm, redeem, reverse, expire, summarise | replays, TTLs that lapse inside other transactions, several batches per slot, staging ids | a slot is granted once; a fact funds one grant; stock is not oversold; the trail recomputes the rows |
| Participation (`participation/`) | participations, publish attempts, single-use credentials | start, change content, cancel, create an attempt, hand off, redeem, revoke, fulfil, clean up | no transaction anywhere; an outbound reservation | one participation per key; a credential opens once; frozen attempts stay; terminal states do not revive |
| Publish handoff (`publishhandoff/`) | handoffs (a state machine with evidence), append-only events | start, cancel, mark opened/submitting/timed out, query, staff fact, platform receipt, resume | check-then-write by id; receipts repeated, forged, early, late | only a genuine receipt confirms; one that confirms is on record; terminal is final |
| Lead intake (`handlers_public_leads.go`, `leads.go`) | the form, the campaign's cap, submissions by key, the limiter's hits | configure, submit, revoke | rules read, then count, then insert; rules and day change meanwhile | one lead per key; the cap is overrun by no more than what is under way |
| Leads' outbox (`leads/forwarder.go`, `store_leads.go`) | sync states, outbox rows, what notify reports | a forwarder pass every 15 s (post, mark, poll, close) | at-least-once delivery, a revocation racing a post, restarts inside a pass | no invented receipt; a revocation is final; a delivery is learnt, also late |
| Read cache (`readcache/`) | entries with an epoch and a recency list, flights, the kill switch; the store's epoch | get or load, store, evict, drop, disable; bump the epoch | a load that races an edit, merged misses, a kill switch racing a store | one load per key at a time; no hit older than the last answered edit; nobody left waiting |
| Copy jobs and drafts (`copyjob/`, `copydraft/`) | jobs, drafts, copy versions, the campaign's texts | quote, confirm, generate, select, save, revoke; draft, accept | rows written back whole by id, one compare-and-swap, a paid call to a model | the platform gets a job once; what was typed by hand stays; what was filled in unconfirmed is not published |
| Content packs (`contentpack/`, `store_content_packs.go`) | packs, versions, the version each platform adopts, handoffs, signed links | version, return, adopt, block, hand off, redeem | five statements without a transaction, a version number counted before it is inserted | an adopted version was a platform's own; blocked refuses |
| Campaign configuration (`campaignenable/`, `channeladmission/`, `campaignrules/`) | the publish configuration, the table of channels, the rule set, a trail of each | save, enable, pause, resume; load a seed; save and delete rules | a check over facts read earlier, a seed loaded row by row | what guests were promised was checked, whole; trails replay |
| Campaigns, touchpoints, tags (`store.go`, `store_touchpoints.go`, `store_tags.go`) | campaigns, short codes, tags and groups, touchpoints with their stage | create, change status, bind, switch, advance, rebind, look up | checks in statements before the write, rows cached across edits and windows | a printed card lands; the cached rows decide like the tables |
| Customer publish and publish reward (`custpublish/`, `publishreward/`) | preparations, rule versions, postings, proofs | preview, revise, confirm, export; save a rule; claim; review | a consent stored after the copy changed; a claim under a rule not stored yet, or revised before it is posted | a consent is for what is shown; a version means one rule |
| Matrix handoff (`matrixhandoff/`, `matrixconsume/`) | a record of drafts with plans and approvals, in memory | post a video, remember the plan, confirm, note | one record shared by parallel requests, lost answers, restarts | the plan a merchant is told of is for his activity, version and video |
| Library (`assetlib/`, `videotpl/`) | references, pools, frozen draws, templates, versions, assignments | register, draw, publish, assign, delete | reads and writes of one request with deletions in between | one answer per draw; what a shop was given resolves |
| Extra jumps and brand (`extrajump/`, `brand_public.go`) | a campaign's jumps and return, the link's stamp, the registry | save, list, click | up to seven reads of one request, two of them of the registry | what a guest is offered was open while he asked |
| Members and agency (`store_agency.go`, `handlers_auth.go`) | members with role and shop, agency relations, the trail of sub-accounts | add, patch, take on, revoke, open a sub-account | authority read in three statements; rows written back whole | a sub-account is opened under a relation that held |
| Dashboards, workbench, spend, private domain, store motion | rows that are recorded and shown | reads, single insertions | | |
| Identity, sessions, HTTP assembly, configuration, web | sessions elsewhere | pure decisions and wiring | | |

`PROJECT.json` lists every component with its sources and its status, and under
`hazards` the places in the code where an interleaving, a repeat, a crash or a
bound bites, with the properties that cover them.

How they interact: a guest scans a **touchpoint**, whose lookup is answered
through the **read cache**, sees a campaign's page with its **jumps**, starts a
**participation**, prepares a **customer publish** or an attempt, and either
shows a staff code (**redeem**) or opens a **publish handoff**. The staff desk
confirms a benefit in the **reward ledger**; the platform's receipt confirms
the handoff. **Leads** flow to an outbox that a goroutine started by `main`
forwards. Merchants prepare what is shown: copy, packs, library, channels,
rules. Nearly all of it meets in the database only, by foreign keys and reads of
single rows, which is why the modules can be checked one by one; where a value
of another component matters (an asset that vanished, a registry that changed, a
campaign's window), the module lets it change at any time.

## 2. Modules

| Module | Models | Checked by | Proved |
|---|---|---|---|
| `RewardPromise`, `RewardLedger` | the promise of a slot; the ledger that implements it | `ledger_grants`, `ledger_batches` | `RewardLedgerProofs` |
| `Participation` | participation, attempts, credentials | `participation_sequential`, `participation_concurrent` | `ParticipationProofs` |
| `PublishHandoff` | handoffs, receipts, events | `publish` | `PublishHandoffProofs` |
| `LeadsOutbox` | submission, revocation, forwarder, notify | `leads_delivery` | `LeadsOutboxProofs` |
| `ReadCache` | the cache and the epoch | `cache_merged`, `cache_stale` | `ReadCacheProofs` |
| `CopyJobs` | copy jobs and drafts | `copies` | `CopyJobsProofs` |
| `Touchpoints` | campaigns, codes, tags, touchpoints, lookups | `public` | `PublicProofs` |
| `ExtraJumps` | jumps, return, brand decision | `public` | `PublicProofs` |
| `LeadIntake` | form, limiter, key, cap, revocation | `public` | `PublicProofs` |
| `PublishReward` | preparations, rules, claims, proofs | `public` | `PublicProofs` |
| `ContentPacks` | packs, versions, adoption, links | `console`, `packs_unblocked` | `ConsoleProofs` |
| `CampaignConfig` | publish configuration, channels, rules | `console` | `ConsoleProofs` |
| `Library` | assets, pools, draws, templates, assignments | `console` | `ConsoleProofs` |
| `MatrixHandoff` | posting drafts, the record, approvals | `console` | `ConsoleProofs` |
| `Memberships` | members, agents, sub-accounts | `console` | `ConsoleProofs` |
| `Public`, `Console` | the components of a group, one at a time | `public`, `console` | `PublicProofs`, `ConsoleProofs` |

`Public` (what customers reach) and `Console` (what merchants work with)
instantiate several modules each. The components of a group share no state, so
a behaviour picks one of them, its `focus`, and the variables of the others are
parked; where two modules name a variable alike, they share it. The group's run
explores the union of the components' state spaces, not their product, and loses
nothing by it: steps of components without common state commute. The `MC`
modules give the constants their values, and a module its inputs and symmetry.

## 3. The modules and the code

**`RewardLedger`** (`store/store_reward_ops.go`). Every mutating function runs in
one transaction and is one action: `ReserveRewardBenefit`,
`ConfirmRewardBenefit`, `RedeemRewardBenefit`, `ReverseRewardBenefit`,
`ExpireDueRewardReservations`, `CreateRewardInventory`. The lazy sweep of lapsed
reservations that each transaction starts with is part of the action
(`SweptRows`, `SweptTrail`). `SetRewardInventoryStatus` is not a transaction and
is two actions (`ReadInventoryStatus`, `WriteInventoryStatus`), with the
`request` variable between them. A transaction runs at a time `t` its handler
took before it got the connection: `RequestTimes` lets it be up to `MaxLag`
late. `rows` is `reward_benefits` by (participation, slot), `trail` the
operations of a slot, `pool` the owners of the codes a batch handed out,
`factOwner` the facts that were consumed. **`RewardPromise`** is what the ledger
promises to the holder of one slot; `ImplementsPromise` is the refinement: rows,
evidence and facts map to `promise`, `evidence` and `spentOn`, and every ledger
transaction is one step of the promise, with any number of holds lapsing in it,
or none.

**`Participation`** (`participation/service.go`). No method opens a transaction,
so each is split at its statements: an `Arrive` action makes the first read and
puts a task where `Step` continues. The task keeps the row it read (`seen`)
exactly where the code keeps it. `Reserve` is the outbound call: it may be
refused, fail before or after the reward domain acted, or succeed.

**`PublishHandoff`** (`publishhandoff/`). `transitions`, `requiredEvidence`,
`CheckTransition`, `Verify` and `BindReceipt` are the code's pure rules.
Operations read one row, check the rules and leave the statements they still
have to run in `task[r].todo`; `SetStatus`, `appendEvent`, `SetTimedOut` and
`CountQuery` run them one at a time without looking again, as `setState` does.
`mode` says whether requests run in parallel, as the server is wired, or one at a
time, where a request may die and the operations no route calls yet
(`MarkSubmitting`, `MarkTimedOut`, `Query`, `Resume`) and proofs of an opened
editor, which no deployment has a source of, are tried too.

**`LeadsOutbox`** (`store/store_leads.go`, `leads/forwarder.go`). `SubmitLead`
and `RevokeLeadSubmission` are transactions. The forwarder is one goroutine; its
place in the pass is the record `forwarder` (`at`, the rows left in `todo`,
`repair` for the second poll), and each of its statements and calls is an
action. `accepted` and `delivery` are notify's side, modelled from what the
client reads. A post may fail although notify has the fact. `Restart` puts the
forwarder back to the start of a pass; the tables stay.

**`LeadIntake`** (`handlers_public_leads.go`). A submission goes through
`Allow` (the limiter's sliding window), `Probe` (the row of its key),
`GetCampaignRulesByCampaign` (the cap of its campaign, if it has one), the count
of the contact's day over all the tenant's campaigns, the campaign's asset for
its trace and the transaction, in that order; the key holds the day at which it
was made, the row the day at which it is stored. `SaveCampaignRules` edits a
campaign's cap at any time. A row of the model remembers the cap that let it in,
which the table does not store. Forwarding is one step here.

**`ReadCache`** (`readcache/readcache.go`, with the epoch of `store.go` and the
handlers that read through a cache). A request takes one step per lock, atomic
or call: `CheckDisabled`, `ReadEpoch` and the lookup (`Hit`, `DropStale`,
`Absent`) are `get`, which a request runs twice, the second time as the leader
of a flight; `Lead`, `Join`, `Done` and `Delete` are `singleflight.do`; `Load`,
`CheckSet` and `Set` the flight's function; `Latch` and `Clear` are `Disable`.
An edit is `Write` and then `bumpEpoch`. A value is the number of edits its load
has seen; the rows of one load are read at one instant, though the code reads
them in up to four statements. Entries may lapse at any lookup, which stands for
every TTL. Views and lead counts do not bump the epoch and are not in the value.

**`Touchpoints`** (`store.go`, `store_tags.go`, `store_touchpoints.go`,
`store_readcache.go`). A console request is a task of at most three steps: what
it reads and checks, its statement or transaction, and the bump of the epoch.
A lookup through the cache is a task too: `handlePublicLink` and
`handlePublicTouchpoint` read the first row, `LoadCampaign`, `LoadStore` and
`LoadEntry` the others, one statement each, and `Keep` stores them, under the
epoch of then. `BumpEpoch` empties the cache, which stands for its entries being
stale, and marks lookups under way: what they keep is no longer `clean`.
`DecideLink` and `DecideTouchpoint` decide over the rows; `ResolveLink` and
`LoadTouchpointRows` are the tables at one moment.

**`CopyJobs`** (`copyjob/`, `handlers_copy_job.go`, `handlers_copy_draft.go`). A
handler reads the campaign and the job, changes the copy it holds and writes the
row back by id; `task[r]` is that copy and the statements to come. `seal`,
`Confirm`, `finishModelCall`, `WriteTitle` and `leaks` are the code's pure
functions. A fact is a price or an address with its standing; what is withheld is
what the merchant filled in without confirming it, since `leaks` skips texts that
are empty. A draft has a title, an intro and topics. `GenerateEnds` is every way
the model call may come back, with `submitted` counting what the platform
accepted. `mode` says whether requests run in parallel, one at a time, or one at
a time with a process that dies.

**`ContentPacks`** (`store_content_packs.go`). `versions` is the table in the
order of insertion; a request keeps the statements it still has to run.
`Distributable` is the code's gate. `wasCurrent` remembers which versions a
pointer has named.

**`CampaignConfig`** has three desks: promises (`UpsertPublishConfigDraft`,
`handlePublishConfigEnable` with `Check` over facts that are whatever they are,
`pin`, `EnablePublishConfig`, and `PausePublishConfig` with its audit row in one
transaction), channels (`LoadAdmissionSeed` record by record, by
release) and rules (`UpsertCampaignRules`, `DeleteCampaignRules`). `approved`
remembers what passed the check.

**`PublishReward`** has two desks: the customer (`Preview`, `ReadRevise`,
`ReadConfirm` and `Store`; `ReadRule`/`SaveRule`; `ReadClaim`, `ReadRuleOfClaim`,
`Freeze` and `Post`), and proofs with their review.

**`Library`** (`store_asset_lib.go`, `store_video_templates.go`): `DrawLibPool`
reads the frozen selection and then the pool, `InsertSelection` is its last
statement; templates are published, deleted and assigned with the check in a
step before the statement.

**`MatrixHandoff`** (`matrixconsume/consume.go`, `matrixhandoff/`):
`handleMatrixDraft`, `Schedule`, `PutDraft`, `StampPlan` and `Remember` are a
console's click, `stamp` the one plan number of the shared client and `recordMu`
the lock over setting and using it. `Drafts` are what the record tells apart, the
end of the offer included; `wireOf` is what of a draft goes over the wire, all
but the end, and `Answer` is the matrix's side, which replays a plan by it.
`Schedule` has a clock of its own: a request whose end has passed by it (`late`)
is posted and then refused by the record. The record is lost with the process.

**`ExtraJumps`**: `worlds` is the history of what merchant and registry saved; a
guest's request takes one step per read, each from whichever is the last at that
moment: `LinkPublication`, `ReadHost` and `ReadShell` (the registry, asked for
the guest's host and perhaps for the host the page was published on),
`GetTenant`, then jumps, return and hosts, and the clock when it answers.

**`Memberships`** (`store.go`, `handlers_auth.go`, `store_agency.go`):
`handleMemberPatch` makes out what to write from the row it read,
`ReadMember` and `WriteMember` are `UpdateMemberScoped`, which reads again and
writes the whole row; `SignIn`, `Authorize`, `NameRelation` and
`IssueSubAccount` are the four places at which an agent's authority is read or
used.

What the modules leave out of the handlers they name: request validation that
writes nothing, texts, listings, and audit rows nothing reads back.

## 4. What is checked

| Run | Bounds | What it shows |
|---|---|---|
| `ledger_grants` | 2 participations, 1 slot, 2 rule versions (staff evidence; official evidence from a code pool), 4 events, clocks up to 1 late | types; the trail recomputes the rows; a slot is granted once; facts and official grants match one to one; the ledger implements `RewardPromise` |
| `ledger_batches` | a coupon batch and a foreign campaign's code pool on one slot, one status request | evidence is justified by the benefit's own line; a slot served by one batch is never oversold |
| `participation_sequential` | 1 request at a time, 2 attempts, 2 credentials, expiry, retention | a handoff that froze an attempt gives it its credential |
| `participation_concurrent` | 2 requests of any methods, dying anywhere, the reward domain erring | single use, one attempt per handoff, an honest `confirmed` |
| `publish` | repeated, forged and non-confirming receipts; in parallel 2 requests and 2 handoffs of one attempt; in turn 1 handoff with every operation and crashes | only a genuine receipt for this attempt and content confirms; one that confirmed is recorded, or about to be; preparation ends; in turn, terminal handoffs are final |
| `leads_delivery` | 2 leads, a batch limit of 1, 1 route, 1 failed post per row, 1 restart anywhere | nothing counts as sent that notify does not have; a stop is justified; revocations are final; late deliveries are learnt, unless older rejected leads crowd them out |
| `cache_merged` | 2 requests, 2 keys, capacity 1, 1 edit, failing loads, the kill switch | one flight per key; a hit is of an epoch no older than the request; every request is answered |
| `copies` | 1 job, 1 draft without one, 2 requests, 1 edit by hand, a price that was filled in or none, a store that may move, 2 submissions; in parallel, in turn, in turn with crashes | a task is charged once; what was typed stays; what was withheld stays out; generations end |
| `public` | one component at a time, 2 requests: 2 campaigns, 2 codes, 1 tag, 2 touchpoints; a jump that is revoked and one that ends, 2 registries, 2 changes; 2 campaigns' forms with a cap of 0, of 1 or none, 2 changes of rules and assets, 1 contact, 3 leads of which 1 is handled on, a day of 1; 2 copies and 2 accounts, 1 fact, 2 rule versions; time 0..1 | the cache decides like the tables; cards land; offers were open; the cap's overrun is bounded; consents fit; a version is one rule |
| `console` | one component at a time, 2 requests: 2 platforms, 2 versions; 1 route, 2 editors, trails of 4; 2 assets, 1 pool, 1 draw, 1 template; 4 drafts of 2 activities, two of them alike but for the end, one without a video; 2 principals, 2 relations | adopted versions were current and are retired; promises were checked; trails replay; draws have one answer; assignments resolve; plans are told truly; sub-accounts were opened under a relation that held |
| `packs_unblocked`, `cache_stale` | the smallest instance that shows it; for packs one request at a time | a disagreement between the code and what its comments say, see section 7 |

Every passing run finishes, in a few minutes at most, over up to two million
distinct states; every property of a passing run is also run against a plausible
defect of the code it is about (`mutants` in `PROJECT.json`, the operators marked
*Mutant* in the modules) and is found violated.

Why the bounds are enough. Every race here is between two parties (two requests,
a request and the forwarder, a request and the clock), so two requests are
what it takes; two rows of a kind are what it takes to confuse one with another;
two batches, versions or attempts are what it takes to pick the wrong one. Time
matters through comparisons with a TTL, a window or a day only, so a clock that
passes a TTL of 1 sees before, at and after. `ledger_batches` keeps one slot
because stock is counted per batch. `leads_delivery` has two leads and polls one
at a time, so that a pass has several rows to keep apart and an older lead can
crowd out a newer one; with one try a failed post is given up at once,
and the repeated post happens through the restart between a post and its mark.
`cache_merged` has two keys and room for one so that every store evicts. `copies`
lets the model keep to the facts in one field and invent in the other. In
`public` the registries differ in whether the brand is ready, and the jumps' own
addresses are official ones (`PresentAt` drops others, no property is about it).
Three leads against a cap of one leave room for the overrun of two requests and
for one more, which must not come, and a cap of zero, which the code accepts, is
the boundary; two changes are enough to set a cap and lift it, or to set it for
both campaigns. In `console` a version may be pointed at by two platforms, the
drafts have an end that is moved, a video that is changed and another activity,
and a second relation is one that was made after the first was revoked.

Symmetry is used where no liveness property is checked and where the values are
interchangeable. `CHECK_DEADLOCK FALSE` stands where bounded rows, events or
clocks are used up and where terminal states are reached; the leads' forwarder
polls for ever and `leads_delivery` and the cache's runs check for deadlock.

### Fairness

* `RewardLedger`, and the components of `public` and `console`: none. Expiry is
  lazy: nothing in the code ever promises to run.
* `Participation`, `PublishHandoff`: weak fairness of the next step of a request
  that has arrived (`WF_vars(Step(r))`). Its goroutine is scheduled, its
  statements return. Nobody has to arrive, and what must happen is said of
  behaviours without crashes: with one, a freeze or a preparation is left half-way.
* `CopyJobs`: weak fairness of `Continue(r)`: the handler runs to its end, and
  the call to the model has a deadline. `GenerationEnds` is about requests in
  turn without a crash; with one, a job stays in generating.
* `LeadsOutbox`: weak fairness of `Tick`, because `Run` starts a pass at every
  tick of a 15 s ticker and a pass has no early return; weak fairness of
  `Settle`, notify's own promise for what it accepted; strong fairness of
  `PollAnswered`, a query that is repeated in every pass is answered in some.
  Posts may fail every time, and `Redrive` need not happen.
* `ReadCache`: weak fairness of the next step of each request: its goroutine is
  scheduled, no lock is held across a load, and a load returns, with rows or an
  error. A load that panics would leave its flight behind; the loads in the code
  do not.

## 5. What is proved

TLAPS proves the theorems that `PROJECT.json` lists, for every value of the
constants: any number of participations, batches, leads, retries, restarts,
keys, cards, requests. Nearly every safety property of section 4 is one of them,
and so is the refinement. An argument here has one shape. A handler reads a row
and writes later, so the invariant of a component says three things: the types of its tables, the
property, and **what a request under way still knows** of the tables when it
writes. It knows that because what it relies on only *grows*: rows stay, keys
and owners stay, what was frozen or decided stays. A step is then proved in two
halves, what it does for the request that takes it, and that it takes nothing
from the others. Whatever TLC can evaluate of an invariant was checked on a run
first.

| Module | Theorems (the property) | What the invariant adds |
|---|---|---|
| `RewardLedgerProofs` | `LedgerTypeCorrect` (`TypeOK`), `TrailIsTheBooks` (`TrailAgreesWithStatus`), `EverySlotGrantedOnce` (`GrantedOnce`), `EvidenceIsJustified` (`EvidenceJustified`), `OneFactOneGrant` (`FactFundsOneBenefit`), `GrantsAreNeverRewritten` (`FactsSurvive`), `SoleBatchIsNeverOversold` (`SoleBatchNeverOversold`), `LedgerKeepsItsPromise` (`ImplementsPromise`) | what the whole trail of a slot looks like in each status (`StoryInv`); that one step grants at most one benefit, with evidence a batch of its campaign and slot accepts and, if official, a fact nobody owns (`Grants`, `GrantsNothing`); that occupants are counted (`StockInv`: a slot's row has a batch of that slot, and the occupants of an only batch fit into it) |
| `ParticipationProofs` | `CredentialsAreSingleUse` (`SingleUse`), `HandoffsBindTheirAttempt` (`HandoffBindsAttempt`), `ConfirmationsAreHonest` (`ConfirmedIsHonest`), `OneKeyStartsOnce` (`OneStartPerKey`), `StatusesHaveTheirCause` (`StatusHasCause`), `FrozenAttemptsAreKept` (`FrozenAttemptsKeep`) | what a request may say of what it read (`Sound`), and that no two requests carry the same frozen attempt to a credential (`OneCarrier`), since the statement that freezes an attempt changes only one that is not frozen yet |
| `PublishHandoffProofs` | `HandoffTypeCorrect` (`TypeOK`), `ConfirmationIsTheWordOfThePlatform` (`ConfirmedIsOfficial`), `NoConfirmationGoesUnrecorded` (`ConfirmingReceiptIsRecorded`), `OneKeyOpensOneHandoff` (`OneHandoffPerKey`), `TerminalStatesAreFinal` (`TerminalIsFinal`) | that a statement still to run was allowed by the row when it was read (`Allowed`), and that one which confirms carries a receipt bound to the handoff's attempt and content (`Backed`), whose event is the request's next statement or on record |
| `LeadsOutboxProofs` | `OutboxNeverAhead` (`SentIsAccepted`), `NoReceiptIsMadeUp` (`ReceiptIsReal`), `StopsAreJustified` (`StopFollowsSubmission`), `RevocationIsFinal` (`RevokedIsFinal`) | what the forwarder has learnt and not yet written (`Learnt`): deliveries never become undelivered, and a verdict is a compare-and-set |
| `ReadCacheProofs` | `CacheTypeCorrect` (`TypeOK`), `MissesAreMerged` (`OneFlightPerKey`), `HitsAreOfTheEpoch` (`HitsAreCurrent`) | what each place in `GetOrLoad` may rely on (`Steady`): a request that flies for a key is the one its flight names, so a deletion never removes another's |
| `CopyJobsProofs` | `ChargesAreForTasks` (`ChargedOnce`), `TypedTextsStay` (`HandwrittenKept`), `WithheldFactsStayOut` (`WithheldStaysOut`), `ChosenDraftsAreVersions` (`SelectedIsAccepted`), `CopyTypeCorrect` (`TypeOK`) | that the row a request holds follows from the stored one by decisions of `copyjob` (`RowSound`, `TaskSound`): its draft mentions nothing that was withheld at the quote (`Covered`), and in turn, a row of a job that has a task has left the states that submit one |
| `ConsoleProofs` | `ToldPlansAreReal` (`ToldIsPosted`), `DrawsAreFrozen` (`OneAnswerPerDraw`), `PinsAlwaysResolve` (`PinsResolve`), `PromisesWereChecked` (`PinnedWasChecked`), `SubAccountsAreJustified` (`IssuedUnderActive`), `OneRecordEach` (`OneRecordPerAccount`), `AdoptionsWereCurrent` (`AdoptedWasCurrent`), `NoneIsLeftAdopted` (`SupersededIsRetired`), `NothingIsRewrittenSilently` (`TrailsReplay`) | per component: a plan in hand is the matrix's for what that draft sends (`PostedFor`); a ledger's row never changes; a published version keeps its template from being deleted; what is about to be enabled passed the check; an agent's relation, once read, stays his; a stamp that is still to come is *earned*, by a row that was current or a pointer that moves first (`Orderly`); in turn, the statements the one request still has to run are of a few forms (`InTurn`), and a pointer moves only over a version that is retired or will be (`Replaceable`, `Retiring`); a row without a later revision is what its last one says (`TrailInv`) |
| `PublicProofs` | `CardsAlwaysLand` (`CardsLand`), `CacheDecidesAlike` (`CachedRowsDecideAlike`), `StopsAreSeparate` (`SwitchesAreSeparate`), `GuestsAreLedWhereAllowed` (`OfferedWasOpen`), `CapIsNearlyKept` (`CapOverrunIsBounded`), `OneLeadAndItsSource` (`OneLeadPerKey`, `StopRepeatsSource`), `ConsentFollowsTheText` (`ConsentIsForWhatIsShown`), `VersionsAreTheirRules` (`VersionIsOneRule`), `RewardTypeCorrect`, `OneSubjectForAFact` (`OneSubjectPerFact`), `FirstReviewIsFinal` (`FirstReviewStands`) | see below |

`ConsoleProofs` and `PublicProofs` first prove `StepsOf`, that a behaviour takes
the steps of its focus alone; each component then has an invariant over its own
variables. Six arguments are worth telling.

* *The cap.* A count and an insertion are two statements, so the cap is overrun.
  `IntakeInv` bounds, for every n, the rows of the day that a cap of at most n let
  in **together with** the requests that may still insert such a row without
  counting again (`Loose`): those past the count, and those whose key is of an
  earlier day than the row will get. When a request passes the count, all rows of
  the day are below its cap, so those are, and no more than all requests are
  loose: the sum is at most n and all requests but one, whatever rules say by then;
  an insertion turns a loose request into a row. That requests are finitely many,
  and at least one, is `IntakeAssumption`, which the run evaluates.
* *The cache.* `TouchInv` says that while no request is between its commit and
  its bump, the rows that a clean lookup has read so far, and what it kept, are the
  tables' rows (`Fresh`): a step that writes leaves a bump to come, and the bump
  ends cleanness. The two ways to a verdict
  are compared row by row after that, at any time, since times enter only by the
  comparison itself. `CardsLand` needs that a campaign a card was made for keeps
  a code (`Landed`), and that the oldest of its codes exists, a least element of
  a set of naturals (`WFMin`).
* *The jumps.* `ExtraJumps` keeps the history of the world, so a request's
  knowledge is *there is an index since I began at which this was so*. The
  history only grows (`JumpsGrow`), which makes that stable.
* *The rules.* A claim knows of the version it read that it is stored with that
  trigger, or that it is the first and its trigger the default; a first version
  that is stored later has the default too (`FirstIsOfficial`), because another
  trigger is saved as the second.
* *The trails.* A row is compared with the seed before it is written, so the new
  revision of a row differs from the latest one; that needs the latest to be the
  row as it is, also for a row that a release loaded and a later one dropped. The
  table that is loaded at the start is listed in any order, once each (`Listed`):
  the routes are finitely many, which `BoundsAssumption` says.
* *The refinement.* Each transaction starts with a sweep that expires what is
  due. The step of `RewardPromise` it maps to is the sweep's set of lapses and
  the operation at once; a refused transaction maps to the sweep alone or to a
  stutter.

What the theorems assume. The named assumptions of the modules, which every run
evaluates, and, where a theorem says so in front, that the marker for *no row*
is no row and no number (`NoneIsNoJob`, `NoneIsNoPlan`, `NoneIsNoDraw`,
`NoneIsNoConfig`, `NoneIsNoMember`, `NoneIsNoRow`, `NoneIsNoRecord`,
`NoneIsNoVersion`, and `Idle` is no request). In the code that is the difference
between `sql.ErrNoRows` and a row; in the runs `None` and `Idle` are model values.
`SubAccountsAreJustified` and
`OneRecordEach` also take `PatchesAreRequests`: a patch asks for roles and
shops that exist, which the handler's validation ensures.

Model-checked only, because the prover does not reach them: the liveness
properties (`HandoffCompletes`, `PreparationEnds`, `DeliveryIsLearnt`,
`EveryRequestAnswered`, `GenerationEnds`), since they need fairness and
`ENABLED`; the typing of the forwarder's lists and `CacheIsBounded`, whose model
filters a sequence of any length (`SelectSeq`, an induction over data). Not proved
but within reach is `Participation!TypeOK`: the proofs use a weaker form (`Columns`,
any natural for a bounded counter).

## 6. Stated, but not in a run

These formulas stand in the modules, and TLC found them to hold on the instances
of section 4. They are kept because they say what a component maintains; the
runs name those that take more to break.

| Module | Formulas |
|---|---|
| `RewardLedger` | `FactsSurvive` (proved), `CodesNeverShared`, `FreshGrantsFit` |
| `Participation` | `OneStartPerKey`, `StatusHasCause`, `FrozenAttemptsKeep` (all proved), `TypeOK`; with one request at a time also `LegalTransitions`, `CanceledAttemptsBelong` |
| `PublishHandoff` | `TypeOK`, `OneHandoffPerKey` (both proved); with one request at a time also `NeverResubmitted` |
| `LeadsOutbox` | `ReceiptIsReal` (proved), `TypeOK`, `RowHandedOver`, `WaitingSettles` |
| `ReadCache` | `TypeOK` (proved), `CacheIsBounded` |
| `CopyJobs` | `TypeOK`, `SelectedIsAccepted` (both proved), `QuotaOverrunIsBounded` |
| `ContentPacks` | `PackTypeOK`, `OneVersionPerReturn`, `LinksAreShortLived` |
| `Library` | `PublishedIsFrozen` |
| `MatrixHandoff` | `OneApprovalPerActivity` |
| `Memberships` | `OneRecordPerAccount` (proved), `ScopeFitsRole` |
| `Touchpoints` | `SwitchesAreSeparate` (proved) |
| `LeadIntake` | `OneLeadPerKey`, `StopRepeatsSource` (both proved) |
| `PublishReward` | `RewardTypeOK`, `OneSubjectPerFact`, `FirstReviewStands` (all proved) |

To see one, name it in a copy of the component's configuration. `console` and
`public` instantiate their components under a letter (`B!PublishedIsFrozen`).

## 7. Known divergences

The two runs that expect a violation, and further formulas that are stated in
their modules and that TLC finds violated. No run is kept for the latter; they
are seen in the same way.

| Formula | What the code does | What it says |
|---|---|---|
| `StockNeverOversold` | a lapsed hold taken up again is checked against the batch that is picked but keeps its own (`store_reward_ops.go:802`) | design hui-1671:109: exhausted stock refuses, never oversold |
| `RefillsAreReached` | the batch is picked without `requireFree`, so an exhausted older batch hides a refill (`:760`) | `:555` batches without availability are skipped |
| `RetiredIsTerminal` | the status UPDATE is separated from its check (`:294`) | `:279` "Retired is terminal" |
| `OwnBatchAllowsEvidence` | a grant is judged by the batch of the version the caller names, not of the row (`:926`) | `:924` participations keep their original version |
| `FactNamesItsBenefit` | the fact and the code are bound to a staging id, the row gets a fresh one (`:970`, `:991`) | `:1062` "binds the fact to one benefit" |
| `SummarySweepsFirst` | the summary does not sweep (`:1226`) | hui-1671:107: lists and summaries sweep first |
| `ForeignSlotIsConflict` | a reserve for another campaign changes the row and then answers not found (`:839`) | `:840` "Treat as a conflict" |
| `CanceledIsFinal` | `BeginHandoff` and `Redeem` write a status by id after an earlier read (`service.go:518`, `:680`) | `:331` "Terminal states never resurrect" |
| `FulfilledIsFinal` | the same for a fulfilment, by `Cancel` and `Redeem` (`:340`) | `:767` a fulfilment is never downgraded |
| `OwnerAnswered` under concurrency | the loser of two starts of one key is answered with the winner's row (`:152`) | `:121` answered to the same visitor only |
| `CanceledAttemptsBelong` under concurrency | attempts are canceled although the cancellation changed no row (`:344`) | `:330` "ends an unfinished participation by its owner" |
| `LateReceiptsRewriteNothing` | `setState` updates by id after an earlier check (`publishhandoff/service.go:266`) | `handoff.go:82` late official results rewrite nothing |
| `AnswerIsConfirmed` | a start without a key is answered with the participation's old handoff, whatever its content (`:300`) | hui-1670 Q5, Q8: new content is a new handoff |
| `ConfirmationIsRecorded` | the replay check looks at one handoff, the unique index at all: a receipt for a second handoff of the attempt confirms it and records nothing (`:785`) | migration 0035:14 one receipt, one confirmation |
| `SentIsStopped` | a revocation between the forwarder's read and its mark enqueues no stop, and the withheld row is overwritten as sent (`forwarder.go:85`, `store_leads.go:490`) | `store_leads.go:375` the target converges even then; migration 0002:56 never sent |
| `EveryRowIsTried` | rows tried too often are skipped only after the query's limit (`forwarder.go:67`) | `:57` one bad row must not starve the others |
| `FreshAfterEdit` (run `cache_stale`) | an entry carries the epoch at which it is stored, so a load that began before an edit may store its rows under the epoch after it (`readcache.go:154`) | `readcache.go:8` "the epoch it was loaded under", `store.go:26`; `handlers_public.go:78` any edit is visible to the very next request |
| `DisabledStaysEmpty` | `Set` looks at the kill switch before the lock, so it may store after the cache was emptied (`readcache.go:142`) | `:197` "Set never stores" |
| `RejectedIsRepaired` | a poll takes the oldest leads up to its limit (`store_leads.go:252`), and rejected ones keep their places, so behind as many of them a newer rejected lead is never polled (`forwarder.go:127`) | `forwarder.go:117` a rejected row is "polled again only so a later delivered status on the same notify event can repair it" |
| `LeadSettles` | a restart between the mark of the row and the move of the lead leaves the lead `accepted` for good (`:105`) | `:5` accepted by notify is pending sync |
| `BlockedRefusesAlways` (run `packs_unblocked`) | adopting another version retires the one it replaces, blocked or not, and a retired one may be distributed (`store_content_packs.go:566`) | `contentpack.go:386` "Blocked refuses always" |
| `RevokedIsFinal` of `CopyJobs` | a generation that was under way writes its job back whole, over the revocation | `copyjob.go:369` a late result for a revoked job is discarded |
| `NothingInvented` | `leaks` looks for texts that were filled in; for a fact that was left empty there is none, and what the model makes up passes (`copydraft.go:255`, `:305`) | `copydraft.go:209` the system will not make up a price |
| `ConsentIsRecorded` | the consent must be to the current notice, and the row stores the version the form pins | `leads.go:57` "old submissions keep the version they consented to" |
| `CapIsKept` | two forms sent at once count before either inserts (`handlers_public_leads.go:189`) | the rule is a cap per contact and day, counted over all of the tenant's campaigns (`:174`) |
| `EndedIsFinal` | the status is written by id after an earlier check | `campaign.go:42` nothing leads out of ended |
| `StagesGoForward` | an advance that was checked before two others takes the touchpoint back | `store_touchpoints.go:39` "closed, forward-only pipeline" |
| `LiveWasChecked` | the draft is read and checked, and whatever draft there is by then is enabled | `handlers_campaign_config.go:63` the new version must pass the check before it is live |
| `TenantRowFirst` | the enabling check may go by everybody's record although the tenant has its own | `store_channel_admission.go:8` a tenant's own record goes first |
| `RulesCanBeSaved` | a save after a deletion starts at version one again, whose revision exists (`migrations/0005`: `UNIQUE (campaign_id, revision)`), and fails, every time | `store_campaign_rules.go:82` creates or replaces |
| `PublishedFits` | bindings are edited between the check and the publishing statement | `store_video_templates.go:10` bindings that do not fit refuse to be published |
| `PublishedIsKept` | a template is deleted after its versions were looked at, and one was published meanwhile | `migrations/0007` version rows are never deleted |
| `PlanIsOfOneDraft` | a draft's identity has the end of the offer in it (`matrixhandoff.go:678`), the wire request has not (`http_supply.go:204`), so after the end was moved the new draft is told the plan of the old one | `matrixhandoff.go:667` the two are different drafts |
| `LateIsNotPosted` | the handler and `Schedule` take a clock each, and the record looks at the end only after the post (`matrixhandoff.go:415`): a plan is posted that no record has | `consume.go:206` drafts are recorded and reused, so that no second plan is posted |
| `ScopeAlwaysFitsRole` | a patch keeps the shop of the row it read while another changes the role | `handlers_auth.go:155` managers alone carry a shop |
| `NeverMadeAgent` | the renewal of a relation writes back the whole row it read, role included | `store_agency.go:165` "an existing non-agent membership is never re-roled" |
| `RevokedIsDisabled` | a revocation that dies between its two statements is refused as done afterwards; a patch or a renewal that read before writes the row back enabled | `store_agency.go:9` revoking disables the agent's row |

What else was met while modelling, without a formula that is violated:

* `PublishHandoff`: `MarkSubmitting` goes through the same unguarded UPDATE as the
  rest (`:633`), so once a route calls it in parallel to others, `submitting` may
  be written over `unknown`, against `handoff.go:92` "queried, never resent".
  Taken one request at a time, `NeverResubmitted` holds.
* `copyjob`: `RejectLate` and `late_discarded` are reached by no handler; sealing
  a result asserts success even after `Revoke` or `MarkInputChanged`; a process
  that dies after the compare-and-swap leaves the job generating; a draft that a
  dying process had inserted already is not counted for its job; a reply of the
  platform that gets lost is an accepted task with a charge count of 0; a refused
  save, or a repeated confirmation, writes a stale row back.
* `PublishReward`: two revisions at once, one of the copy and one of the account,
  lose an update; `MarkTimedOut`, `Query` and `Resend` of `custpublish` are reached
  by no route.
* `ExtraJumps`: `decidePublicBrand` does not compare the brand of the publishing
  host with the page's; brand, registry and tenant are each good at some time of a
  request, not all at one; the page's document may mix halves of two saves.
* `LeadIntake`: a cap limits what is let in under it. Rows that came in before it
  was set or lowered, and rows of campaigns with a higher cap or none, are counted
  against it and not kept out by it.
* `Touchpoints`: rows that were loaded while an edit bumped the epoch are kept as
  new; `CachedRowsDecideAlike` excepts them, `cache_stale` shows them.

## 8. Not modelled

`PROJECT.json` gives the reason per component.

* Dashboards, funnel and workbench only read and project; activity spend, the
  private domain and directed notices, and the store's motion insert single rows
  whose only interplay is a foreign key.
* Authorisation, identity and sessions are pure decisions over a session that is
  kept elsewhere, apart from what an agent may do (`Memberships`); the HTTP
  assembly, the configuration, the database's opening and migrations run once,
  before requests come; the web front end consists of pages over the API and the
  supply stub is a test's counterpart.
* The kernel of reward rules (`rewardrule/`) grants and revokes in memory, under one
  mutex, and no route reaches it.
* Inside modelled components: previews, explanations, listings, CSV, QR and logo
  rendering, request validation that writes nothing; the planner of routes
  (`adapter.go`) and the explanation of an admission.
* Outside what the state of these models can express, and listed under the
  hazards: the limiter's map is shared without a lock (`leads.go:394`); a failed
  query is cached as no rows (`store_readcache.go:87`); times are compared as
  texts whose trailing zeros are trimmed (`store_reward_ops.go:509`).

## 9. Plan

Every component of the inventory whose state is worth a model has one; what the
partly modelled ones leave out is named in their notes in `PROJECT.json`. What is
left is to prove more, in this order:

1. `ContentPacks`: `OneVersionPerReturn`, from the forms that a request's
   statements have in turn (`InTurn`).
2. `LeadsOutbox`: `RowHandedOver`; `RewardLedger`: `CodesNeverShared`.
3. `CopyJobs`: `QuotaOverrunIsBounded`, counted as the cap is in `LeadIntake`.
4. `Library`: `PublishedIsFrozen`; `MatrixHandoff`: `OneApprovalPerActivity`.

The properties that `Console` and `Public` restrict to a component have the
same name in the component's module.

## 10. Running

`tlc -config <cfg> <MC module>` in this directory, with the names in
`PROJECT.json`; `tlapm <module>.tla` for the proofs of `RewardLedgerProofs`,
`ParticipationProofs`, `PublishHandoffProofs`, `LeadsOutboxProofs`,
`ReadCacheProofs`, `CopyJobsProofs`, `ConsoleProofs` and `PublicProofs`. From
nothing the last two take six to eight minutes each and the others less.
