# Formal models of price-checker

TLA+ models of the back end under `backend/app`: an HTTP service (FastAPI, one
process or several, PostgreSQL, Redis) with which shops order goods, collect
prices from a shopping search, compare them per unit, and are notified of the
result. Paths below are relative to `backend/app` unless they start with one of
the repository's top-level directories.

What goes wrong here goes wrong between statements: each request and each run
is a READ COMMITTED transaction of an ORM session opened with `autoflush=False`
and `expire_on_commit=False` (`db/session.py`), rows are read without locks, and
what was read is used after an `await`; Redis commands belong to no transaction.
The models therefore have one action per statement or command that touches
shared state, and keep what a session knows apart from what is committed. Waits
for a unique key or a row, commits, rollbacks, disconnects and crashes are
explicit.

## Inventory

| Component | State | Operations | What is hard | Module |
|---|---|---|---|---|
| price collection (`price_collection/`) | jobs, attempts, canonical result rows, outbox event of a run | create a job under an idempotency key, run it, list | concurrent creation, overlapping runs, stale reads, retries, replacement of all rows or none, one event per outcome | `PriceCollection`, `CollectionLedger` |
| search answer normalisation (`price_collection/normalization.py`) | none | eligible or not, price per unit | a quantity of zero, rounding | `UnitPricing` |
| notifications (`notifications/`): templates, events, deliveries | templates, versions, outbox events, deliveries, dead letters | create template and version, expand an event, SMS fallback | version numbers, template failures, duplicates, recipients changing meanwhile | `NotificationOutbox`, `OutboxPromise` |
| notifications: recipients, consents | recipients, consents | create, patch, deactivate; grant, revoke | lost updates, a grant against a revocation, unique phone numbers, deadlocks | `RecipientConsents` |
| quota (`services/quota_service.py`) | a Redis counter per tenant and month | consume, report | two commands that a crash or the end of a month separates; refused calls count | `Quota` |
| procurement (`procurement/`) | orders, uploaded results | create an order, upload a result, list, savings report | quota charged before checks, the event of an upload, a report of many statements | `Procurement` |
| search (`services/search_service.py`, `cache_service.py`) | result cache in Redis | search uploaded results through the cache | an answer stored after it became stale, uploads that do not invalidate | `ResultSearch` |
| authentication (`auth/`) | OAuth states in Redis, tenants and users of first logins, refresh tokens | sign in, refresh, logout | two uses of one state or token, two first logins, a logout against a refresh | `Auth` |
| option parsers (`parsers/regex_parser.py`, `unit_dictionary.py`, `unit_price.py`) | none | parse an option text, unit price | seven patterns whose order decides | `UnitPricing` |
| option text cache, language model (`parsers/option_parser.py`, `llm_parser.py`) | Redis, the table `option_text_cache`, a monthly allowance | parse through both caches | two parser versions side by side, one row per text, an allowance shared by concurrent callers | `OptionCache` |
| tenancy (`tenancy/`) | tenants, shops | create a shop, list; the dependencies that say who calls | little: single statements | partly in `RecipientConsents`, `Auth` |
| dispatch (`notifications/dispatcher.py`, `providers.py`) | none | none: the dispatcher is an empty module | nothing sends a delivery | not modelled |
| ranking and shipping (`services/ranking_service.py`, `shipping_policy.py`) | none | pure functions | called by nothing | not modelled |
| application shell, migrations, `ops-admin` | none of their own | configuration, logging, health, DDL, a React client | | not modelled |

How they interact: procurement and price collection write `procurement_results`
and, for completed orders, call notifications inside their own transaction (a
transactional outbox). Orders, uploads and searches consume quota first. Search
reads, through the cache, what uploads and collections wrote. Price collection
parses option texts. Recipients and template versions decide what the expansion
of an event adds. The tenant of every call is that of the user its access token
names.

`PROJECT.json` lists each hazard with the line where it bites and the properties
that would catch it.

## Modules

| Module | Extends | Proofs |
|---|---|---|
| `PriceCollection` (abstract: `CollectionLedger`) | | `PriceCollectionProofs` |
| `NotificationOutbox` (abstract: `OutboxPromise`) | | `NotificationOutboxProofs` |
| `RecipientConsents` | | `RecipientConsentsProofs` |
| `Quota` | | `QuotaProofs` |
| `Procurement` | `Quota` | `ReportProofs`, with `ResultSearch` |
| `ResultSearch` (the composition) | `Procurement` | `ResultSearchProofs` |
| `Auth` | | `AuthProofs` |
| `UnitPricing` (operators only) | | |
| `OptionCache` | `UnitPricing` | `OptionCacheProofs` |

A module `MCx` gives the constants of `x` the values the `.cfg` files use.
An operator under a comment that begins with "Wrong:" is a plausible mistake in
the operator behind it; no specification uses it, and it is there to show which
property would notice (`PROJECT.json`, "mutants").

## Runs

| Run | Instance | Checks |
|---|---|---|
| `overlap` | two jobs of one completed order, two workers, three runs that fail, crash, or store one eligible item or none | `StatusIsLastOutcome`, `EventsOfSuccesses`, `AttemptsWithinLog`, `ErrorsAreRecent`, the refinement `ImplementsLedger`, `CallsEnd` |
| `serial` | three requests that share keys, also across orders and for an order that does not exist; one worker, two runs, an empty answer and ties | `IdempotentCreation`, `OneJobPerOrderRows` |
| `expand` | one emitter, two recipients who come and go, two authors of four kinds of content | `Audience`, `CurrentTemplate`, `VersionsDense`, `VersionsImmutable` |
| `fallback` | two emitters of one result, one author, two fallbacks of a delivery, a consent that comes and goes | `EventsAnswered`, `FallbackOnce`, `FallbackConsented`, the refinement `ImplementsPromise`, `CallsEnd` |
| `recipients` | three calls, which choose among sixteen requests, on three recipients of two tenants, one consent, a shop created meanwhile | `OneRecipientPerPhone`, `LaterCallPrevails`, `RevocationHolds`, `CallsEnd` |
| `market` | an order and an upload share a quota of one at the end of a month, one collection, one report | `GrantsWithinQuota`, `RefusalIsFinal`, `OnlyCrashesLeak`, `TenantsApart`, `EventsOfUploads`, `ReportBracketed` |
| `search` | an upload, a collection and two searches of one key, one of them perhaps forced, an entry of an older release | `AnswersWereTrue`, `StaleEnds` |
| `auth` | three calls: first logins of two identities with one nickname, a returning user, refreshes, logouts | `AccountsArePaired`, `StateOnce`, `SessionsContinue`, `ReuseOnlyWhileOverlapping`, `LogoutEnds`, `CallsEnd` |
| `options` | a hundred texts, a table that is empty or has a row of either version, three callers of two parser versions, one without a session, an allowance of two more requests, two prices (7 and 99) | `ParsesAsWritten`, `PricedAsWritten`, `VersionsApart`, `ModelIsRationed`, `CachedOnceCommitted` |
| `duplicates`, `unrendered`, `zero` | small instances | violations: see "Divergences" |

None of the passing runs checks deadlock, because every one of them may stop
properly: each call is made once, and the numbers of runs, collections and
months are bounded. That nothing stops earlier is what `CallsEnd` says where it
is checked.

### Bounds, and why they are enough

- Calls, clients, workers, callers: two or three. A wait is for one other
  transaction, so that two actors show each kind of overlap and a third is what
  commits, fails or reads while two are in each other's way. Each call chooses
  among several requests, so that a run covers all of their combinations.
- `MaxRuns` (price collection): three allow a rerun of a job while the other
  job of the order is run; two are enough where one worker runs them in turn.
- `MaxCollections = 1`: one replacement between the reads of a report or of a
  search; a second differs in nothing from an upload.
- `LastMonth`: one end of a month (`market`), which is what calls can straddle;
  none where months do not matter (`search`).
- `MonthlyQuota` 1 with two calls: the limit is reached, by calls that fail
  later and by calls that succeed. 3 in `search` lets everything through.
- `Keys`, `OldEntries`: one key, where everybody meets, of a limit that cuts
  the ranking, with an entry that does not validate.
- `Texts`: every way of writing a quantity that the patterns are for, with
  values that tell the patterns apart, each with and without a number and
  parentheses around it. `ModelAnswers`: two different answers and a failure.
- `Cap` 3 with `PriorUse` 1: two of three concurrent callers may ask.
- `expand` uses the symmetry of recipients: no property tells them apart, and
  the run checks no liveness.

### Fairness

Every `FairSpec` assumes weak fairness of the steps of a call that was received:
the event loop runs ready tasks, HTTP clients have timeouts, PostgreSQL grants a
lock once it is free and breaks deadlocks, Redis drops what has expired. None is
assumed of aborts, of the passage of time, of users who change recipients or
consents, or between sessions. When a call is received depends on the module:

- `PriceCollection`, `RecipientConsents`, `Auth`: by a step of its own (a client's
  first lookup, `LoadJob`, `Begin`, `Request`), of which no fairness is assumed.
- `NotificationOutbox`: authors, emitters and fallbacks are calls received at the
  start, because the first statement of one may have to wait for a key. Their
  fairness therefore includes it, and `CallsEnd` says that every one of them ends.
- `ResultSearch`: when its quota is granted. Quota calls themselves, collections
  and reports have no fairness.

## Price collection: `PriceCollection`, `CollectionLedger`

Clients are `POST /orders/{id}/collect` requests; each is made once and asks
for an order under a key. Workers call `run_job`, which nothing in the
repository schedules: any worker may run any job at any time, as tests do. The
variables `jobs`, `attemptLog`, `results` and `events` are committed rows.
`request[c]` and `run[w]` are sessions:

| Field | Code |
|---|---|
| `run[w].row` | the job object in the identity map |
| `run[w].dirty` | columns its UPDATEs have written: a flush writes a column only when its value differs from the loaded one |
| `run[w].existing` | the list selected for replacement |
| `run[w].inserted`, `entry`, `event` | rows flushed and not committed |

| Actions | Code |
|---|---|
| `OrderMissing`, `LookUpJob` | `create_job` up to the first lookup by key |
| `InsertJob`, `InsertConflicts` | the flush: an insert waits for the uncommitted insert of the same unique key, then succeeds or fails |
| `RecoverJob`, `AnswerFound`, `CommitJob` | the handler of IntegrityError, the router's commit and its 200 or 201 |
| `AbortRequest`, `AbortRun` | a disconnect, an exception that is not retryable, a crash: a rollback |
| `LoadJob`, `MarkRunning` | the SELECT, which locks nothing, and the UPDATE, which locks the job's row |
| `SearchFails` | timeout or rate limit: back to pending, attempt logged |
| `SelectExisting`, `ReplaceRows`, `FinishRun` | the rows of the order selected, deleted and inserted, the verdict, the event |
| `CommitRun` | the commit, which overlays the dirty columns on the row |

`attemptLog` keeps with each attempt row the result rows its run stored, and
`since`, how many attempts were logged when its run loaded the job. These are
history: they decide nothing that the code does, and properties read them. Identifiers come from sequences
that a rollback does not wind back. Prices matter only by their order and ties,
so an offer is an eligibility and a price; an item without unit price is stored
with 0, as the code does.

`CollectionLedger` is the promise: creating a job, a failed run and a successful
run are atomic steps. A successful run replaces all of its job's rows by new
ones, decides the status from them, and owes an event exactly if the order is
completed and something was eligible. An entry says how long ago its run began
(`since`), which is how much of the log it may have overlapped. What the ledger leaves open is what the
code leaves open: rows of another job of the order are replaced whole or missed
whole. `ImplementsLedger` is checked over two overlapping workers.

With two workers `attempts` may fall behind the log (it is written from a value
read before the lock), a succeeded job can keep the error of a failed run it
overlapped (a column whose loaded value is already NULL is not written), and an
order can end with the rows of two jobs. `AttemptsWithinLog` says what remains
of the first, and `ErrorsAreRecent` of the second: an error that is kept is that
of a failure which every later success had overlapped, so that a success does
clear the failures it could have read of. `OneJobPerOrderRows` holds of one worker and is refuted for two by
`duplicates`.

## Notifications: `NotificationOutbox`, `OutboxPromise`

Recipients, consents, templates and versions decide what
`create_procurement_result_event` adds to its caller's transaction. The module
has one tenant and the one template code the expansion looks for. Sessions of
three kinds run against the committed rows:

| Session | Actions | Code (`notifications/service.py`) |
|---|---|---|
| author | `InsertTemplate`, `CommitTemplate` | `create_template`: unique code, 409 |
| author | `RefuseVersion`, `NumberVersion`, `InsertVersion`, `CommitVersion` | `create_version`: refusals, `SELECT max(version)`, the flush under the unique (template, version), the commit |
| emitter | `InsertEvent` | the flush of the event under its unique key |
| emitter | `ReadRecipients`, `ReadTemplate`, `RenderDeliveries` | `expand_procurement_result_event`, one action per query or loop, with the early returns that leave a dead letter |
| emitter | `CommitEvent` | the caller's commit of event, deliveries and dead letter |
| fallback | `LoadDelivery`, `CheckConsent`, `InsertFallback`, `CommitFallback` | `create_sms_fallback_for_delivery` |
| any | `AbortAuthor`, `AbortEvent`, `AbortFallback` | disconnects, crashes and other errors: a rollback |

`SetActive` and `SetConsent` are the committed effect of the endpoints that
`RecipientConsents` models in full. `stable`, `ever` and `floor` in an emitter,
and `ever` in a fallback, are history: what the transaction could have read.

A template version is reduced to what decides something: its channel, its
purpose, whether it is approved, whether its variables are all in the payload
(`renders`), whether it has a fallback body.

Procurement and price collection emit each result once, in the transaction that
creates it. Two emitters of one result are the replay that the unique key
guards against (notification-dispatch specification, "Duplicate event replay").
The guard works by failing: the handler of IntegrityError runs a query in a
session whose transaction the failed flush has ended, which raises again, so
that the caller is rolled back rather than given the existing row. The model
ends such a call as `"duplicate"`, with nothing written.

`OutboxPromise` is what the tables promise to whoever reads them: they only
grow, by atomic steps. A version is appended to the template's. A result gets its
one event and, in the same step, either a dead letter with one of the two reasons
for telling nobody, or a delivery to each of some recipients from one approved,
transactional version that renders. A delivery gets an SMS, if it carries a body
and its recipient has none for the result yet, or a dead letter with one of the
two reasons against it. Whom the audience holds and how new the version is
depends on the moment of the reads, which the promise leaves open and `Audience`
and `CurrentTemplate` bound. `fallback` checks the refinement with two emitters
and two fallbacks.

A recipient activated during the expansion may or may not be told. A consent
revoked after it was read does not stop the fallback: `FallbackConsented` says
that it was in force at some time of the call. Nothing sends a delivery, so
nothing is said of sending.

## Recipients and consents: `RecipientConsents`

`recipients`, `consents` and `shops` are committed rows; `work[c]` is a call with
its session. `changes` are the columns whose assigned value differs from the row
as loaded, which is what the flush writes (`Changes`); a call that changes
nothing sends no UPDATE. `clock` counts commits, and `since` and `until` say
between which of them a call read and wrote.

| Actions | Code |
|---|---|
| `Begin` | the dependencies that look the user and the tenant up, 401 |
| `LoadRecipient`, `LoadConsent` | `get_recipient_or_404`, `_get_consent`, and what is assigned |
| `CheckInput` | references to shops and users of the tenant (404), then the phone number (400) |
| `LockRow`, `PutPhone` | an UPDATE: the row first, then the unique number (409) |
| `InsertConsent`, `InsertShop` | inserts; the first grant's IntegrityError is handled by nothing (500) |
| `Commit`, `Abort`, `BreakDeadlock` | the end of the transaction; the last is PostgreSQL's detector |

Telephone numbers keep what `normalize_phone_e164` distinguishes: which lead is
replaced, the further zero that is kept, and whether enough digits follow.
`LaterCallPrevails` is what column-wise writing gives: calls that change
different columns both last. `RevocationHolds` says when a grant may undo a
revocation: only if it had read one, committed or there from the start.

## Quota, procurement, search: `Quota`, `Procurement`, `ResultSearch`

`Quota` has three moments of `check_and_consume` as actions, `NameKey` (the month
is read), `Increment` (INCRBY) and `Expire` (EXPIREAT, sent by the call that
created the counter), and `CutOff` and `NextMonth` between any of them.
`charge[c].at` remembers the month INCRBY ran in.

Straddling calls. A call that named its key before a month ended may run INCRBY
after it, on a counter that has expired and so starts at zero: it is granted
whatever the month used, and its EXPIREAT, in the past month's key, may name the
month after. Such calls are counted afresh, so that a month's key may admit more
than its quota, and no document says which month they belong to; the properties are
about the calls counted while their month lasted (`OnTime`). Keys name their
month, so the next month is not affected.

`Procurement` adds what a granted call does: `EnsureShop`, `InsertOrder`,
`CommitOrder`; `FindOrder`, `InsertResult`, `CommitResult`, the last with the
outbox event in one commit; `AbortWork`. The quota stays consumed on every
failure. `Collect` is a commit of price collection, whose detail is
`PriceCollection`. The report is `ListOrders`, then `ReadBest` and `ReadCount`
per order, then `Answer`. `history` is the table after each commit: the last
element is what statements read, and the rest is for properties. A report of many
statements is true of no single moment: `ReportBracketed` says what it still is,
sums between those of the least and of the greatest that each order had while it
ran.

`ResultSearch` adds searches: `StartSearch`, `ReadCache`, `Purge`, `LoadMatches`,
`CountResults`, `StoreAnswer`, and `ExpireEntry` for the TTL every SET carries. It
is the composition: one `Spec` in which orders, uploads, collections, reports and
searches share rows and quota. Nothing invalidates an entry, so a search may
store what an upload has made stale, also over a newer forced answer:
`AnswersWereTrue` states what an answer can be, and `StaleEnds` that no entry
stays stale once the rows stop changing.

## Sign-in: `Auth`

`oauth` is Redis; `tenants`, `users` and `tokens` are committed rows; `call[c]` is
a request with its transaction; `log` lists commits in order. Rows are named
after the call that inserts them, as no call inserts two of a kind.

| Actions | Code |
|---|---|
| `CreateState`, `ExpireState`, `ConsumeState` | the state's SET with a TTL, and the one DELETE whose answer decides |
| `Exchange` | the provider's two calls, as an outcome (502 or a profile) |
| `FindUser`, `InsertTenant`, `InsertUser` | the lookup, and the two inserts, each waiting for its unique key: `tenants.name`, and provider and id of a user |
| `LoadToken`, `RevokeOld`, `IssueTokens` | a refresh: the SELECT, the UPDATE by `jti`, which does not look at `revoked_at` again, the new token |
| `StartLogout`, `RevokePresented` | a logout; an unknown or invalid token is a 204 as well |
| `ExpireToken`, `Commit`, `Abort` | time, and the end of the transaction |

Signatures, issuers and claims are what `decode_refresh_token` accepts
(`Accepted`); access tokens are stateless.

## Parsing: `UnitPricing`, `OptionCache`

`UnitPricing` has no state. A text is a sequence of tokens, and a pattern is a
sequence of kinds of tokens that fits at the leftmost place, as `re.search`
does; `ParseOptionText` tries the seven patterns in the code's order.
The signs among the tokens go by their names, `open` and `comma`.
`Written(w)` and `Meant(w)` are the reference: the ways of writing a quantity and
what each means. A text `Says` w when w stands somewhere in it and nothing else
there is a quantity, a total or a gift; numbers, signs and words may stand
anywhere. `ParsesAsWritten` compares the two, and `PricedAsWritten` checks
the stored price against a definition without division: price times quantity is
within half a hundredth per unit.

`OptionCache` is `parse_option`, step by step: `ReadRedis`, `ReadRow`, `Refill`,
`ParseByRule`, `ConsumeTokens`, `AskModel`, `StoreRedis`, `InsertRow`,
`CommitRow`, with `ExpireEntry` and `CutOff`. The Redis key names the parser
version, the table's primary key is the hash of the text alone. At the start
Redis is empty and the table holds what some earlier call may have left (`Left`).
`ModelAnswers` may differ from call to call, as a model's answers do. A text
carries the writing that it says, for the properties alone (`TextsAssumption`);
that of one that only the model may understand is "none".

## Divergences

Each is shown by a run, and listed under "findings" in `PROJECT.json`.

- `duplicates`: two jobs of an order that overlap leave the rows of both, where
  the tests expect a collection to replace the order's rows.
- `unrendered`: the notification-templates specification marks a delivery that
  cannot be rendered as `render_failed`; the code raises, which rolls back the
  upload or the collection run, and leaves no delivery at all.
- `zero`: a quantity of 0 should have no unit price (landed-unit-price
  specification); price collection stores such an item as comparable at 0.00.

Observations that no run refutes, because the code has no counterpart of what a
document says, or because no document says anything:

- `PRICE_COLLECTION_MAX_ATTEMPTS` (`README.md:106`, `core/config.py:35`) is never
  read: retries are not bounded.
- A rerun of a completed order notifies again, since the event is keyed by a
  result id that every run renews (`price_collection/service.py:224`);
  `openspec/changes/pivot-noti-first-procurement/design.md:103` wants a key that
  would notify once.
- The savings report takes the minimum of all rows, also of ineligible ones that
  are stored with 0.00.
- The row of an older parser version stays in `option_text_cache` for ever: newer
  versions do not find it and cannot replace it, so that they parse the text
  again whenever Redis has dropped it.
- A text with several packs or a gift is counted in pieces even if its unit is a
  sheet; a lone "500g" is parsed by no rule. A multiplier without a unit ("x 3")
  that stands apart from a count is not a quantity: it is passed over, by the code
  and by the reference `Says`.
- "+82" followed by the trunk zero keeps the zero: one subscriber may be stored
  under two numbers.
- A first grant of a consent that loses the race to another answers 500; a grant
  that overlaps a revocation may be answered 201 although the consent ends
  revoked; two grants that overlap may leave the source of one with the evidence
  of the other.
- Two refreshes with one token that overlap both succeed.
- A counter whose first caller dies between INCRBY and EXPIREAT stays in Redis.

## Proofs

Every safety property that the passing runs check is also a theorem. The theorems
hold for every value of the constants that satisfies the named assumptions of the modules: types of what is
asked for, stored at the start or offered by the search
(`RequestAssumption`, `SearchesAssumption`, `WantsAssumption`,
`OldOrdersAssumption`, `OffersAssumption`, ...), finitely many calls where calls
are counted, unique keys that hold at the start (`RecipientAssumption`), `None`,
old identifiers and the sessions of one kind apart from those of another
(`SessionsAssumption`), prices above 0 and texts that say what their writing is
(`TextsAssumption`). TLC evaluates each of them in the runs. `PROJECT.json`
lists the theorems with the property each states.

None of the properties is inductive. What is added to make it so, after TLC
agreed that it is an invariant:

- `PriceCollectionProofs`. `TypeCorrect` strengthens the types with `RefsOK`
  (sessions refer to jobs that exist; a run about to commit has an outcome).
  `BestIsCheapest` shows that the CHOOSE behind `ORDER BY ... LIMIT 1` is never
  vacuous. `OneJobPerKey` rests on `KeyInv`, which says
  what the unique constraint makes true of rows not committed yet: an inserted
  row has a new id, no committed job has its key, no two inserted rows share
  one; and a request that found a job still finds it under its key.
  `StatusOfLastRun`, `AttemptsBounded` and `EventPerSuccess` rest on `RunInv`: of
  the runs of a job only one is past the UPDATE of "running" (`OneHolder`: the
  row lock, which is what the whole argument hangs on); rows of the table are
  those of logged runs and ids are never reused (`RowsLogged`, `IdsApart`); and
  what a session has selected is all of its own job's rows and, of another job
  of the order, all or none (`SessionFits`). So at its commit a run sees of its
  job what it inserted, and its verdict and event are those of its own offers.
  `ErrorsOfRecentFailures` rests on `ErrorsInv`: a session that has not written the
  error columns (it loaded them clear) while the committed row has an error began
  before the failure behind it was logged, and that failure is still one which every
  later success overlapped. So a success that leaves the error was itself overlapped.
  `LedgerImplemented` is the refinement: every commit is a step of
  `CollectionLedger` and every other step a stutter. `OneJobPerOrderWhenSerial`
  has the hypothesis that there is one worker, which `duplicates` shows is needed.
- `NotificationOutboxProofs`. `VersionsNumbered`, `VersionsKept` from
  `NumberInv`: the numbers are exactly 1 to some k, a number an author holds is
  at most k + 1, and uncommitted ones are new and distinct. So a number read too
  long ago is either taken, and the insert fails, or still the next.
  `AudienceTold`, `CurrentTemplateUsed`, `EventsAreAnswered`, `FallbackIsOnce`,
  `FallbackHadConsent` from `OutboxInv`: what an emitter or a fallback may hold
  in each state given who is active and what is the newest usable version
  (`EmitterFits`, `FallbackFits`); two sessions never both have, or will have,
  the event of one result or the fallback of one delivery (`OneClaim`,
  `OneFallback`); and the tables are exactly what committed sessions added
  (`Rows`). Versions only being added, the newest usable one gets no older.
  `PromiseImplemented` is the refinement: every commit is a step of
  `OutboxPromise` and every other step a stutter. It rests besides on
  `PromiseInv`: a session that is about to commit deliveries has rendered them
  from what its version still says, a letter's reason is one of its kind of
  session (a missing body is reported only of a delivery without one), and what
  an author has numbered may be published. That no SMS was added since the key
  was found free follows from `OneFallback`, and from an original being told
  apart by its result and recipient.
- `RecipientConsentsProofs`. `PhonesAreUnique`, `NoLostUpdate` and
  `RevokedStaysRevoked` from `RecipientInv`. `CallFits` says of one call what it
  holds: the changes are what it asked for, the row it is about exists, the
  number it is about to commit is nobody else's, and every column it does not
  write already has its value or was overwritten by a later commit. `Apart` says
  of two calls that are about to commit that they hold no row and no number
  both; without it the commit of one could break what the other relies on.
  `RowsFit` and `ConsentsFit` say that rows come from calls that are done, so
  that a number refused was really taken and a revocation that was read has a
  call behind it.
- `QuotaProofs`. `QuotaKept`, `RefusalKept`, `LeaksNeedCrashes` count the calls
  that are admitted or will be, those whose INCRBY returned at most the quota:
  in a month that has not ended they are no more than the counter says, because
  a counter is dropped only when its month is over.
- `ResultSearchProofs`. `ImplementsQuota` is a refinement: every step of the
  whole composition is a step of `Quota` or leaves it alone, and only granted
  calls work. The three theorems of `QuotaProofs` follow for the composition,
  and `WorkKeptWithinQuota`: what is committed is within the quota too.
  `RowsOfTheirTenants` and `UploadsHaveEvents` from `ProcurementInv`: what a call
  has found still belongs to its tenant when it inserts, and uncommitted orders
  have different new ids. `AnswersHeld` from `SearchInv`: what a search has read,
  and what every entry of the cache holds, is the ranking at one moment of the
  history, of the call itself unless the entry answered; every step only adds to
  orders and history (`Grows`), so that a ranking of the past stays what it was.
- `ReportProofs`. `ReportsBracketed` from `ReportInv`: at each moment of a report
  its sums are between those of the least and of the greatest that the orders
  read so far had since it began, and between the two statements about an order
  it holds what some moment of the report had. A commit widens the range of every
  order; the second statement adds one order within its range. The sums are
  folds over sets, so that the module first proves what `MapThenSumSet` does:
  `SumsExist`, that the recursion behind it has a solution, `TotalAdds`, that any
  element may be added last, `TotalGrows`. These are inductions over the subsets
  of a finite set (`AllSubsets`), stated of the set of those for which the claim
  holds, and derived from the well-foundedness of the naturals.
- `AuthProofs`, from one invariant. `Fits`: what a call may hold given what is
  committed; in particular, what committed before a refresh began had not used
  up its token. `KeysApart`: two open transactions never hold one unique key.
  `RowsFit`: rows come from calls that are done. `LogFits`: so do the entries of
  the log. A commit then preserves uniqueness because nobody else holds the key.
  `SessionsSurvive` adds `SessionsInv`: a call marks only the token it presented,
  a refresh that has marked it works for that token's user, and every revoked
  token has a committed call to blame, which for a refresh left a new token.
- `OptionCacheProofs`. `EntriesFit`: whatever anybody holds is of his version.
  `OneInserts`: while a row is not committed the table is empty and nobody else
  inserts. `KnowersRead`: who began when the row was there finds it. `Counted`:
  those who ask are no more than the requests counted, and the counter only
  grows. Upon these, `EntriesRuled`: what anybody holds of a text that the rules
  parse is what the rules make of it, for the model is asked only where they fail
  and no version disagrees with another. `ParsedAsWritten` needs besides what the
  rules make of a text, for any numbers, units and length: for each of the seven
  ways of writing, and a total besides, a lemma (`CountParsed` ... `DetailParsed`)
  that its own pattern fits in one place and the patterns tried before it in none
  (`NoMass`, `OneMass`, `NoPacks`, `NoBonus`). The patterns overlap, so that each
  of these depends on the order of `ParseOptionText` and on what may stand next
  to the quantity: "+" right behind a number of pieces would make it a gift.
  `Rounding` bounds what rounding loses, and `PricedAsMeant` follows at any price.

The types of price collection, the outbox, sign-in and the option cache (`TypeOK`)
are proved and not among the runs' properties; so is `WorkWithinQuota`.

Proving corrected the models in three places. `RevocationHolds` had not allowed
for a grant that reads a revocation from before the start. `Blockers` chose by a
CASE whose guards overlapped, which says nothing about which of them is taken.
What a text's writing stands for had been left to the instance, which happened to
put no second quantity and no gift beside the one that is meant.

Model-checked only: all liveness, `CallsEnd` and `StaleEnds`, because the prover
has neither fairness nor ENABLED. That a text with two quantities is parsed in
any particular way is stated nowhere: the code decides by the order of its
patterns, and no document says which one should count.

## Not modelled

- Columns that no decision reads, wording, logging, time of day. Listings and
  lookups that only read.
- Share locks of foreign keys, which delay some steps and decide nothing.
- The lexical layer of the patterns, decimals in numbers, and the rounding of
  binary floats before `Decimal`; `UnitPricing` counts in whole thousandths.
- The month's end of the model's allowance: it is that of `Quota`, without a
  second command that matters.
- `TenantService.create_tenant` and `touch_last_login`, called by nothing.
- The search client (one HTTP call, whose outcomes are inputs), dispatch (an
  empty module), ranking and shipping (called by nothing), the application
  shell, migrations (DDL, whose constraints are modelled from the ORM models)
  and the operations front end.
