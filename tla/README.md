# Verification project for energlens

energlens keeps electricity bills: a FastAPI backend (`backend/`) with a
Postgres database, an object store for the PDFs and an in-process job worker, a
React frontend (`frontend/`), a command line tool that extracts and uploads
bills (`ingest/`), and scripts for CI and development (`scripts/`). This
directory holds TLA+ models of the parts of it where order, failure,
concurrency or arithmetic decide whether it is right, the TLC runs that check
them, and TLAPS proofs about all of those that keep state a second actor
touches.

Run from this directory:

    tlasany JobQueue.tla                              # parse
    tlc -workers 2 -config QueueSafety.cfg MCJobQueue.tla
    tlapm JobQueueProofs.tla                          # prove

`PROJECT.json` maps every definition to the lines it models and lists the runs,
the mutants that show each property can fail, the findings, the hazards and the
theorems.

## 1. Inventory

| Part | State it keeps | Operations | What makes it correct | Model |
|---|---|---|---|---|
| Job queue, `services/jobs.py`, `models/bill_job.py` | `bill_jobs` rows: status, attempts, heartbeat, run_after | enqueue, claim, mark running, heartbeat, finish (three ways), reap | one active job per document; a claim is exclusive or fenced; bounded attempts; verdicts are final; every job settles | JobQueue |
| Worker, `worker.py`, lifespan in `main.py` | one asyncio task per process with its last reap and the job it holds | boot, reap, poll, run, beat, stop | never dies of an error; rescues what a dead process left | JobQueue |
| Sweep endpoint, `routers/internal.py` | none | reap on request | may run beside the workers' own reapers | JobQueue |
| Bill documents, `routers/bill_documents.py`, `services/documents.py` | `bill_documents` rows and objects in storage | upload, list, download, delete, purge | row implies object; one row per content; no object left behind; daily limit | DocumentStore |
| Place and account deletion, `routers/places.py`, `routers/account.py` | cascades over everything a user has | collect keys, delete, purge | nothing of the deleted account stays | DocumentStore |
| Bills, `routers/bills.py`, `models/bill.py` | `bills` rows, links to documents, corrections | create, edit, delete, list | one bill per invoice number, one per period without a number; links point at what exists | link: DocumentStore; period rule: BillEditor |
| Local storage, `storage/local.py` | files | put, get, delete | an object is complete or absent | LocalStorage |
| S3 storage, `storage/s3.py`, `storage/__init__.py` | a bucket | put, get, delete, sign | as the client library's | assumed atomic |
| Monthly series, `services/series.py`, `routers/series.py` | none | proration over months, points per bill, summary, each of the bills of one utility | the figures the browser derives from the same bills, to the digit | Series, Decimals |
| Extraction agent, `agent/extract.py`, `tools.py`, `recorder.py` | conversation with the model, `agent_runs`, `agent_steps` | turns, tool calls, record at start and end | every run ends in one outcome and is recorded with its cost | planned (AgentRun) |
| Agent schema, context, prices, prompts; `bill_math.py` | none | validate, look up, add up | pure | not modelled |
| Boot, configuration, migrations, seed | none after boot | checks | refuse to boot half-configured | not modelled |
| Authentication | library (fastapi-users) | login, OAuth | library | as Session uses it |
| Ingest tool, `ingest/` | append-only cache of extractions, API token | extract, upload, rerun | a PDF is paid for once, a bill is stored once | planned (Ingest) |
| Frontend session, `api/client.ts`, `auth/`, `AuthPage`, account actions of `SettingsPage` | token in localStorage (all tabs), user, loading, boot error and query cache (each tab) | boot, login, register, OAuth callback, requests, 401, logout, delete account | the places shown are those of the user shown; a valid token is kept; nobody is redirected or kept waiting for nothing | Session |
| Frontend bill editing, `PlaceDetailPage`, `BillForm`, `api/hooks.ts` | the bills query, the form, mutations under way | add, edit, delete, refetch, invalidate | the list ends as the server's; a save goes into its bill | BillEditor |
| Frontend figures, `lib/metrics.ts`, `lib/axis.ts`, `lib/compare.ts` | none | months from bills, deltas, findings, forecasts, axes, charts | months add up to bills, figures are true and agree, axes hold their data | Rationals, Metrics, Axis, Compare |
| Frontend screens, `pages/` and `components/charts/` | the mounted page and its controls | answer, switch place, open page, pick range, mode, metric, year | one figure has one value on every screen; a control changes what it says | PlaceScreens |
| Frontend theme, preferences, wording, drawing | two stored preferences | | not a matter of order | not modelled |
| `scripts/ci-alert.sh` | GitHub issues | open, comment, close | one open issue per failing topic, none when it passes | planned (CiAlert) |
| Other scripts, `docs/design/support.js` | local processes; none | | development only | not modelled |

How the parts interact. Requests, the worker and the sweep share the Postgres
tables and nothing else; each holds Python copies of rows across awaits
(`BillJob` in the worker, `BillDocument` in a request) while others change
them. Storage and database commit separately. The deletion of a document takes
its jobs along by a foreign key and sets the link of its bills to NULL. Several
API processes run at once only while a deployment replaces one by the next, yet
the queue is written for it (`jobs.py:9`), so the models have several. The
frontend sees all this through one `api()` function that reads the token when a
request leaves and clears it when a 401 arrives, and through a query cache that
is invalidated by mutations; every screen of a place derives its figures from
the one `bills` query, the management page asks the server for them.

What is hard here, and so what the properties are about:

* time against failure: heartbeats, staleness, backoff and reaping, with a
  worker that may be slow rather than dead;
* copies that are stale when used: the claim a worker believes it holds, the
  bill a form was opened for, the user and the places a tab shows;
* two-step decisions with no lock: count then insert, check then delete, check
  then insert, delete then purge;
* two stores that cannot commit together, and processes that die in between;
* threads that share a file name, tabs that share a token;
* answers that come late, twice overtaken, or never: after a logout, beside a
  second sign-in, into a form that is another one by then;
* arithmetic at its edges: local midnights 23 and 25 hours apart, shares of
  months computed once in doubles and once in Decimals of 28 digits, from the
  bills of every utility and of one, months without a reading, gaps in the
  record, windows of unequal length, axes of one value or of a credit;
* one figure derived five times, from bills, from months or by the server.

## 2. Modules

| Module | Role |
|---|---|
| `JobContract` | abstract: what is promised about a job, without workers, time or locks |
| `JobQueue`, `MCJobQueue` | the queue, its workers, sweeps and clients, as they are written |
| `JobQueueProofs` | invariants of `JobQueue`; it implements `JobContract` |
| `DocumentStore`, `MCDocumentStore`, `DocumentProofs` | documents, objects, bill links, deletions |
| `LocalStorage`, `MCLocalStorage`, `LocalStorageProofs` | put and delete on a file system |
| `Session`, `MCSession`, `SessionProofs` | who is signed in, over several tabs |
| `BillEditor`, `MCBillEditor`, `EditorProofs` | the page that edits bills, the query cache, the router |
| `Rationals`, `Decimals`, `Metrics`, `Axis`, `Compare`, `Series` | the pure figures, as operators |
| `RationalProofs` | the laws of fractions, sums in any order, rounding; how far products, sums and quotients of Decimals are from the exact ones |
| `PlaceScreens`, `MCPlaceScreens`, `ScreenProofs` | the screens that show them, and the references they are held to |
| `Images` | counting lemmas the proofs share |

### JobQueue

One action per committed statement or transaction. `enqueue_job` is
`EnqueueLock` (`SELECT ... FOR UPDATE` of the document row), `EnqueueCheck` and
`EnqueueInsert`; `DocLocked` keeps others out in between, and `EnqueueAbort` is
the request that dies. `reap_stale_jobs` is `ReapBury` (first UPDATE) and
`ReapRequeue` (second UPDATE and COMMIT): the rows the first has changed are in
`dying`, invisible to readers and, by `Writable`, closed to writers, which is
what PostgreSQL does with rows an open transaction has updated. A single
statement that updates at most one row is one action.

A worker (`pc`) goes `down` → `top` → (`reaping` → `polling`, when a reap is
due) → `claimed` → `handling` → `finishing` → `top`. `job`, `token` and
`outcome` are the `BillJob` object and the exception that `run_once` holds
while its row may change under it; `Ours` is `_still_ours`, evaluated at each
write. `Finish` is whichever of `mark_succeeded`, `mark_failed` and
`retry_or_bury` the outcome calls for. Each call may also fail: `ClaimLost`
(committed, answer lost), `MarkRunningFails` (before or after it took effect),
`FinishFails`, `StatementFails`, and `Crash` for the process.

Time is relative, in ticks of a minute. `hbAge[j]` is the age of the heartbeat,
`wait[j]` what is left until `run_after`, `reapAge[w]` the age of the last
reap. `Tick` moves all of them at once and is kept out of a reaper's
transaction, because `now()` is constant in a transaction. `Heartbeat` may
happen at any time or never. Only the assumption `Punctual`, used by one run
and one theorem, says that a live worker beats at least every `BeatWithin`.

The handler is whatever returns, raises `JobFailed` or raises something else;
`reached` remembers which verdicts handlers came to. Left out: `last_error` and
`claimed_at` (never read by the queue), the status `cancelled` (never written),
`kind` (there is one), `count_by_status` (a read).

### JobContract

`Submit`, `Lease`, `Settle`, `Revoke` (leases end without a verdict) and
`Remove`. The refinement hides everything but `status`, `attempts` and
`document_id`: `claimed` and `running` are both `leased`. It says, for any
interleaving: a job is leased only while it waits, at most `MaxAttempts` times,
gets a verdict only while leased, dies only with its leases used up, and
nothing leaves an outcome except removal.

### DocumentStore

One place, because keys and uniqueness are per place. `row[f]` is the document
row with content `f`, `stored` the keys that have an object, `link[b]` a bill's
`document_id`. A request (`rpc`, and `file`, `doc`, `keys` for what it holds)
is one step per await: `UploadStart`, `UploadDedupe`, `UploadLimit`,
`UploadPut`, `UploadInsert`, `UploadRecover`; `DeleteStart`, `DeleteCheck`,
`DeleteRow`; `ForgetStart`, `ForgetCollect`, `ForgetCascade` for a place and for
an account alike; `Purge`, `PurgeFails`, `PurgeDone`; `LinkStart`, `LinkInsert`.
`Die` ends a request anywhere: a crash, a disconnected client, a call that
raises. `raced` remembers which kinds of deletion have overlapped another
request, so that a property can say exactly when a promise holds.

Left out: the day's end in the daily limit (rows of one day are counted),
deletion by `uploaded_by` (the same set as by place, `documents.py:34`),
downloads, and duplicate rules of bills other than the link.

### LocalStorage

Names and files are apart, as in a file system: `tmp[k]` and `obj[k]` are the
files that `k.tmp` and `k` name, `data` what is in them, and a writer goes on
writing to the file it opened (`wfile`) whatever its name is now. `OpenTmp`
truncates what is there, `WriteChunk` writes at the writer's own offset,
`Replace` renames whatever `k.tmp` names *then*, `ReplaceRaises` is the
`FileNotFoundError` when it names nothing. Because a key is the digest of its
content, all puts of a key write the same chunks. `Crash` is a process crash;
loss of power, which may also lose or reorder what was written, is not
modelled. `DocumentStore` takes `put` to be atomic: `UnsharedIsComplete` is
what justifies that for local storage, and overlapping puts of one key are
where it does not hold (section 3, known limits).

### Session

Each tab has the React state of `AuthContext` (`user`, `loading`, `bootError`),
its route (`path`), `isSubmitting` of the form and whose places its query cache
holds (`cache`). `stored` is `localStorage['et_token']`, one for all tabs.
`requests` are the fetches under way, each with the token `getToken()` gave when
it left and with what the server answered; `heard` says whether the component
or query that sent it is still there. The server is `owner` (the account of
each token), `live` (tokens it accepts) and `accounts`.

What a user does is one action each (`Open`, `OpenCallback`, `Submit`,
`RetryBoot`, `AskPlaces`, `AskDelete`, `Logout`, `BackToLogin`); the server
answers in any order (`Serve`) or not (`Fail`), tokens expire (`Expire`), and
an answer is taken by the code that awaits it: `Unauthorized` is `api()` on a
401 with the handler `AuthContext` registers, `TakeUser`, `BootFails`,
`TakeToken`, `TakeAccount`, `SubmitFails`, `TakePlaces`, `TakeDeleted` the rest.
Rendering happens in the same step: `Show` sets the state and sends the tab
where `AuthPage` and `ProtectedRoute` would (`Routed`). `crossed` remembers the
tabs in which one account's session has met another's.

Left out: two requests that are equal in every field count as one; the cache
holds whole accounts, not single queries; e-mail, password, preferences and
export of the settings page.

### BillEditor

`list`, `listError` and `fetch` are the bills query of one place in the query
cache: `Invalidate` drops a fetch under way and asks again, except for the very
first, which is kept, as TanStack Query does (external, from how `hooks.ts`
uses it). `form` is the state of the page and of the `BillForm` it mounts:
`editing` is the bill a submit goes to, `origin` the bill whose values were
typed over, which differ once Edit is pressed with a form open, because the
form has no key. `requests` are the saves, deletions and imports under way;
`Check` and `Commit` are the two halves of a handler of `routers/bills.py`, and
`LoseRequest` loses the request or its answer. `Import` is a second writer.
`drifted` remembers that the list misses a write the page is not told of,
`overtaken` that something was committed between a check and its commit.

Left out: every field of a bill but its period and whether it has an invoice
number (which neither form nor import changes), the other queries that a save
invalidates, editing and deleting the place.

### Metrics, Axis, Compare, Series, Decimals

Function by function, with the names of the source: `MonthlyBuckets`,
`TrailingComparison`, `YoyDelta`, `Headline`, `TariffShape`, `Forecast`,
`NiceStep`, `PaddedDomain`, `BuildYoy` and so on. Numbers are exact fractions
(`Rationals`), rounded where the code rounds. A day is a number, a month an
index into `MonthStart`, and a `Date` the local midnight of a day, `HoursEast`
hours before midnight UTC: day counts are quotients of hours, as in the code,
and clock changes are part of every instance. `Null` is the API's null and is
never a zero. Left out: labels, notes, colours, `toCsv`.

JavaScript's doubles are taken as exact: the browser adds `1e-9` before it
rounds, so that a figure half way between two amounts goes up, and no figure of
a bill is as near to a half as the noise of a sum of doubles without being one.
Python's Decimals are not: `Decimal` rounds every result to `Digits` significant
digits, half to even, as the default context does with 28, and that decides on
which side of a half a month falls (finding 4).

`Series` is the second derivation of the months, on the server, from dates
without hours and in Decimals: `MonthlySeries` and `BillSeries` for `/series`,
`Summary` for `/stats/summary`, both over `FetchBills`, the bills of one
utility. Bills that start on one day come from the database in any order; the
model takes one. Left out: the `from` and `to` bounds, which no page sends, and
`/series/compare`, which reads the same figures for several places.

### PlaceScreens

The state is what React keeps: the answer of the bills query (`data`), the
months memoised on it (`buckets`) and the controls of the mounted page. What a
page prints is an operator over that state: `HeroRows`, `HeroTip`, `HeroAxes`,
`Evidence`, `Kpis`, `Finding` and `Recent` for the dashboard, `Chart`,
`CompareChart`, `TileFigures` and `Ribbon` for the comparison, `BillScreen`,
`Breakdown` and `Reading` for one bill, `PlaceRow` for the places table,
`SummaryTiles` and `PlaceCharts` for the management page. The pages have all
bills of the place (`Bills`), the management page's charts and summary those
that are for electricity (`Fetched`), which is what the server takes when no
query names a utility. Actions are an answer
of the query, a switch of place (the dashboard is not remounted and keeps its
controls), a link to another page (whose state starts afresh) and each control.
`Evidence` holds the scatter with both of its axes and the samples of its two
tariff curves; with no dot it has no axes. Left out: pending, error and empty
panels, creating and editing places.

## 3. Runs

| Run | Checks |
|---|---|
| queue_safety | eight safety properties and the refinement |
| queue_punctual | `PunctualKeepsClaim` |
| queue_liveness | `EveryJobSettles` |
| store_safety | documents, objects, links, deletions, the daily limit |
| put_safety | atomicity of local puts |
| session_safety | cache, waiting, tokens, redirects |
| editor_safety | list against table, form against save, the period rule |
| screens_safety | the figures and the screens |
| forgotten_pdf_stays, printed_day, half_cent, error_screen_sticks | one statement of a comment each, which TLC refutes |

**queue_safety.** Two clients, two workers, one document, two jobs, two
attempts, one fault, staleness after one tick: about a million states. Two jobs
are needed for one to be inserted while the other is active; two attempts for a
requeue to be followed by a second claim; two workers for a late one to meet
the next claimant. Nothing in the model counts beyond two of any of them. The
sweep is a reaper like the workers and is in the other runs.

**queue_punctual.** The real proportions: beats at most a tick apart, staleness
after two, a reap every tick, a sweep, two faults.

**queue_liveness.** Two workers and a sweep, three attempts as in the code, one
job, the real `STALE_AFTER` of two ticks. Fairness assumed (`Fairness` in
JobQueue): time passes, even though reapers' transactions keep interrupting it
(strong fairness of `Tick`); a process that is down is started again (Render
restarts it, and the sweep's request wakes it); its event loop keeps running
the worker task; a transaction under way ends; every handler call ends. Nothing
is assumed of heartbeats, clients, or the arrival of a sweep, and faults are
bounded by `MaxFaults` but `ClaimLost`, `FinishFails` and `MarkRunningFails` are
not: attempts bound them. No other run assumes fairness, and none needs to:
`WaitsForAnAnswer` and `QuietListIsServer` are stated as invariants of what is
under way, since nothing in the code bounds how long an answer takes.

**store_safety.** Three files against a daily limit of one and two requests are
the least with which the limit can be overshot by more than it may be. Two
requests of every kind overlap in every way and one call fails.

**put_safety.** Three writers, so that one can truncate while a second renames
and a third finds nothing; two chunks make a hole possible; one crash or failed
write.

**session_safety.** Two tabs, two accounts, two tokens, one page load and two
requests under way, over two million states. Two tabs for one to replace the
token under the other; two tokens for a refusal of the first to meet the
second; two requests for an answer to be overtaken. The load is one because
another one only drops what is under way and asks again.

**editor_safety.** A place with a bill entered by hand and the numbered invoice
of the same period, room for a third, two periods, two saves, one lost request,
over two million states. Two saves are what a check and a commit need to
overlap; the third id lets a bill be added beside an edit.

**half_cent.** The calendar has months of five and nine days and one bill over
both, five fourteenths of which is half way between two amounts: the smallest
case of the finding. The repeating fraction is cut below its exact value with 4
digits as with 28.

**screens_safety.** Seventeen records made of nine bills, on a calendar of
years of two months of two and three days: "a year back" is two entries back,
so a record of seven months is three and a half years. The bills span months,
overlap, leave a gap, lack a reading, lack their charges, are a credit of
money or of money and kWh, and share their last day; one spans the whole
calendar with a price that never moves and energy of half a cent; one record
has a gas bill between two for electricity; summer time begins, ends and
begins again inside them. `MoneyScale` is 10 and `PriceScale` 100, so that
rounding matters with small numbers, and `Digits` is 4 for the same reason:
shares of thirds and sevenths, their products and their sums are all cut.
Every page is visited with every record and every combination of its controls
that a user can reach with the metrics `total`, `eff` and `mix`, which between
them take the three ways of choosing an axis and a figure. What hangs on the
bills alone is looked at while the dashboard is mounted (`Home`): no control
changes it.

Bounds that exist only in the models: `MaxJobs`, `MaxFaults`, `MaxIds`,
`MaxTokens`, `MaxLoads`, `MaxRequests`, `MaxSaves`, `MaxBills`, and the caps on
ages (no comparison tells a larger age from the cap).
`CHECK_DEADLOCK FALSE` is used for DocumentStore alone: once a place is deleted
and its requests are answered nothing can happen to it any more.

### Findings

1. *A PDF that survives its account* (forgotten_pdf_stays): an upload under way
   during the deletion. The purge is best effort by design
   (`documents.py:51`), but here no call has failed.
2. *The day before* (printed_day): east of Greenwich, pages cut a bill's day out
   of the UTC text of its local midnight.
3. *An error screen with a Retry that does nothing* (error_screen_sticks): a
   boot error recorded beside a signed-in user outlives the session that a 401
   ends.
4. *Not to the digit* (half_cent): the server rounds the share of a month to 28
   digits first (`series.py:68`), the browser does not. A bill for Jan 22 to Feb
   18 of 140.07 costs January exactly 50.025: 50.02 from the server, 50.03 in the
   browser, against `metrics.ts:198`.

### Known limits

What the models also show, and the checked properties exclude by name:

* a verdict whose write fails on the last attempt leaves the job `dead`;
  `VerdictIsOfLastClaim` says no more than that a stored verdict is right;
* a document can be extracted twice at once: the fence guards the writes, not
  the start of a handler;
* a document deleted while the same file is uploaded again may leave a row
  without its object, or null the link of a bill created meanwhile.
  `store_safety` checks, and `DocumentProofs` proves, that without such an
  overlap neither happens. A document deleted between the check and the commit
  of a new bill also fails the bill's foreign key, which `bills.py:161` does not
  expect: the user is told that the invoice number is taken;
* two puts of one file share `k.tmp` and may publish a torn object;
  `TornIsBeingWritten` says that without faults it is only ever torn while
  somebody writes it, so that it heals;
* places of one account can stay on screen under another after a 401, after
  another tab signed in, or after a late `/users/me` (`crossed`), and then only;
* Edit pressed with a form open saves the first bill's values into the second
  (`switched`): that is what the code does, no save need be pending.
  `SaveIsOfItsBill` excepts those forms, and `SavesItsBill` adds that nothing
  but such an Edit turns a form to another bill;
* a bill entered by hand cannot be edited once the numbered invoice of its
  period is recorded, which ADR 0020 accepts;
* the first load of the list may be overtaken by a save and show the rows
  before it until the next refetch (`drifted`);
* in month-on-month charts the tooltip finds its row by the month's name, so
  beyond a year of rows, as in the default range of 24 months, it tells the
  first of that name; the year-on-year chart aligns by position and is right
  for up to one year or from two years of record without gaps
  (`ChartTellsItsMonth` excepts the rest);
* the last bill is the latest start in the browser and the latest end on the
  server; they differ only when another bill ends with the one that starts
  last, or later;
* a padded axis with a negative value does not hold it;
* the x axis of the scatter takes its domain from 0.9 and 1.06 of the data and
  its ticks from `zeroBasedDomain`: it holds every dot, but does not end on a
  tick and may have none (one bill of 130 kWh gives [117, 138], while the ticks
  are multiples of 50). `AxisHoldsData` claims of it that it holds its dots and
  the ticks it has;
* browser and server may show amounts a cent apart where the exact figure is as
  good as half way between them, and where the kWh of charges and credits
  cancel out the server may divide by what rounding has left of them:
  `AgreesWithSeries` and the charts in `ScreensAgree` allow what the digits of a
  Decimal explain (`SumSlack`, `PriceSlack`) and no more, and claim prices only
  of months whose kWh is no such rest;
* `/series` and `/stats/summary` answer for electricity alone
  (`routers/series.py:56-58`), `/bills` for every utility, so with a gas bill
  the management page's charts and the dashboard differ, against
  `metrics.ts:199`: `AgreesWithSeries` compares the two derivations on the
  same bills, the conjuncts of `ScreensAgree` about the management page are
  claimed of places with electricity alone (`AllElectric`);
* a bill with negative kWh, which the schema allows (`schemas/bill.py:21`), has
  a price per kWh in `bill_series` and in the places table and none in
  `effectivePrice`: the points per bill and the last bill's price disagree for
  it. `AgreesWithSeries` and `ScreensAgree` exclude it by name
  (`NegativeUse`), and one record of the run has such a bill.

## 4. Proofs

TLAPS checks 41 listed theorems and the lemmas under them, for every value of
the constants that meets the assumptions the modules state: the bounds are
naturals, the sets that are counted are finite, the model values are apart,
`BeatWithin <= StaleAfter`, `2^a` is a natural, and the bills recorded at the
start have one id each and keep the period rule. For the screens they are that
the calendar is a list of first days in order, that a year has more than one
month, that a zone stays within a day's
reach of UTC and moves by less than half a day (a place that changes its side
of the date line, as Samoa did in 2011, is excluded), that null is no month,
that a record is a list of bills with one id each that keep the schema, and
that no record is as long as the server's Decimals are precise
(`PrecisionAssumption`; with 28 digits, some 10^27 bills). TLC evaluates each
assumption in every run whose module states it.

| Module | Theorem | Property |
|---|---|---|
| JobQueueProofs | `TypeCorrect` | `TypeOK` |
| | `QueuedRowsCanRun` | `QueuedHasAttemptLeft` |
| | `OneActive` | `OneActivePerDocument` |
| | `TokensDistinct` | `ClaimTokensDistinct` |
| | `VerdictFenced` | `VerdictIsOfLastClaim` |
| | `OnTimeKeepsClaim` | `PunctualKeepsClaim` |
| | `TerminalStays` | `TerminalIsFinal` |
| | `ClaimantKeepsAlive` | `OnlyClaimantKeepsAlive` |
| | `Refinement` | `ImplementsContract` |
| DocumentProofs | `TypeCorrect` | `TypeOK` |
| | `RowsKeepTheirObjects` | `RowKeepsItsObject` |
| | `QuietStoresAgree` | `QuietIsConsistent` |
| | `ForgottenIsGone` | `ForgetIsComplete` |
| | `LinksSurvive` | `LinkSurvives` |
| | `OvershootIsBounded` | `LimitOvershoot` |
| LocalStorageProofs | `TypeCorrect` | `TypeOK` |
| | `UnsharedComplete` | `UnsharedIsComplete` |
| | `AloneFindsItsTmp` | `TmpIsMine` |
| | `TornHeals` | `TornIsBeingWritten` |
| SessionProofs | `TypeCorrect` | `TypeOK` |
| | `NobodyRedirectedInVain` | `RedirectIsHonest` |
| | `NothingWaitsInVain` | `WaitsForAnAnswer` |
| | `NoSessionLost` | `ValidTokenKept` |
| | `CacheOfUser` | `CacheIsOfUser` |
| EditorProofs | `TypeCorrect` | `TypeOK` |
| | `SavesItsBill` | `SaveIsOfItsBill` |
| | `OnlyRacesDuplicate` | `DuplicateOnlyByRace` |
| | `QuietListIsCurrent` | `QuietListIsServer` |
| ScreenProofs | `TypesHold` | `TypeOK` |
| | `MonthsAreTheirDays` | `MonthsMatchDays` |
| | `BrowserAgreesWithServer` | `AgreesWithSeries` |
| | `DotsAreOfTheMonths` | `DotsMatchMonths` |
| | `ScreensTellTheSame` | `ScreensAgree` |
| | `ChartsTellTheirMonth` | `ChartTellsItsMonth` |
| | `AxesHoldTheirData` | `AxisHoldsData` |
| | `FindingsAreTrue` | `FindingIsTrue` |
| | `LibraryFiguresHold` | `LibraryFigures` |
| | `TariffsExplainTheirBills` | `TariffExplains`, a part of `LibraryFigures` |
| | `ExcessIsPaid` | `ExcessAddsUp`, a part of `LibraryFigures` |
| | `ChipsDrawTheirYear` | `ChipDrawsItsYear` |

None of these is inductive alone. The arguments, which TLC was asked about
before they were proved:

**JobQueue.** `Core` (theorem `CoreInvariant`) adds to `TypeOK` that a busy
worker holds a job, that a row not yet inserted is as `Init` left it, that an
open reap has buried every stale exhausted row that is still there
(`ReapIsComplete`: this is why the second UPDATE, which does not look at
attempts, requeues only rows with attempts left), and `QueuedHasAttemptLeft`
itself, without which the next claim would leave `TypeOK`. `OneActiveInv` adds
that a client past its check still finds no active job for the document it has
locked. `FenceInv` adds that a worker's token is never ahead of its row's
attempts and that a verdict in hand is in `reached`: equal tokens then mean that
the latest claim is one's own. `PunctualInv` adds that the row of a busy
punctual worker is young. `Refinement` maps each action to a step of the
contract or to a stutter, using `Core` and `OneActiveInv`.

**DocumentStore.** `Solo`: a deletion that has overlapped nobody runs alone.
With it, `ReqOK` says what a request still knows of the tables it has read: the
row a deletion holds is the only one with its id and no bill points at it, the
keys a purge holds have no row, an insert has its object, the keys collected
for a cascade are those of all rows. `KeepsObject` and `NoOrphans` (an object
has a row, or somebody who will give it one or take it away) follow step by
step. `LimitOvershoot` needs `Room`: rows and uploads past the count are
together fewer than the limit and the requests, because the count is the only
step that lets one more upload past, and an insert trades one for the other.

**LocalStorage.** `OneName` (no file has two names), `OwnFile` (an open file
bears no name but those of its writer's key) and `Alone` (a writer whose key is
not shared is the only one of that key, finds its file under `k.tmp`, and the
file holds exactly what it has written so far) make a rename of an unshared key
publish a whole file. `Heals`, for the overlapping puts: of the writers of a
file the one that opened it last finds all it wrote in place, so an incomplete
file is never without somebody who will complete it. `NeverShort` counts names
and open files: there is always a fresh file to create.

**Session.** `Settled`: between two steps the router has nothing left to do, so
a tab is moved only by a step that changes what it decides from. `Refusals`: a
refused token stays refused, so a 401 can take a valid token only if it answers
a request sent with another one. `AllClean`: in a tab that is not crossed the
cache and the queries still heard are those of the user shown.
`WaitsForAnAnswer` is inductive beside `Inv`: whatever removes or stops hearing
the awaited request resets the flag.

**BillEditor.** `Room`: ids never run out, because a post leaves only when
there is one for it and for all under way. `Bodies`: an unswitched form and
its request have one bill; `EditStrays` goes through the steps that write the
form. `Unovertaken`: what a check has found still holds at the commit unless
something was committed in between. `Current`: a read that is not known to be
stale misses only writes of this page that are not answered yet, and each of
those answers asks again.

**PlaceScreens.** The state invariant is short: `DataInv`, the months are
`MonthlyBuckets(ParseBills(data))` for the record the page has, and the ranges
of the controls. The work is in the figures, which are sums over lists that
have been sorted and filtered. `Lists(P, B)` says that the list `P` holds each
bill of the set `B` once, parsed; `ParseBills` produces such a list and
`Sublist` (sort and filter by the places that pass) keeps one. `Total` is a
fold over a function, and `TotalsMatch` shows that two functions with the same
values up to zeros have the same total: with it the browser's sum over a list
with nulls left out and the server's sum over the bills that have a figure are
one number. The server's sum is one of rounded terms, rounded after each:
`DecimalSumIsNear` says how far it may be from the exact one, in units of its
last digit times what goes into it (the `Turnover`, in which a credit counts
like a charge), and `DecimalQuotientIsNear` how far the price. A price is only
claimed of months whose kWh is at least twice what rounding can leave, which
keeps the sign of the divisor (`SignStays`). `OverlapDaysWorks` counts the
days between two local midnights through the rounding of `inclusiveDays`, so
the shares agree as well; from there the months of `monthlyBuckets`, of
`monthly_series` and of a count by days are equal before the Decimals are
counted in, and rounding moves each by half a unit at most (`RoundedIsNear`).
`DotsMatchMonths` needs that a bill covers the month it ends in and no later
one (`LastMonthWorks`), so filtering by that month and slicing the months keep
the same bills. `ScreensAgree` compares sums that are rounded in one place and
not in another: the months are rounded already, a sum of multiples of a cent
is one (`TotalOnGrid`), and rounding leaves it alone (`RoundedStays`). A month
is found where it is listed (`MonthIsFound`), in a range as in the whole
record. `ChartTellsItsMonth` rests on two facts: a record without gaps makes
the range a run of months (`RunOfRange`), in which place and month differ by a
constant (`RunMonths`), so aligning by position is aligning by month; and
months of one name lie whole years apart (`NamesAYearApart`), so a tooltip
that finds its row by the name finds the right one within a year of rows.
`AxisHoldsData` is arithmetic: over a common denominator (`At`) fractions are
compared and rounded to multiples of a step as integers are (`AtFloor`,
`AtCeil`). A positive number lies between two powers of ten
(`MagnitudeWorks`), so the factor that `niceStep` looks for exists and the
ticks that were asked for span the data (`NiceStepWorks`); rounding the lower
end down to a multiple costs one tick more (`DomainHolds`). That the figures
are fractions at all, and not a quotient by zero, is `BucketIsFigured`. The
domain of the scatter's use spans the dots because 0.9 and 1.06 of a positive
number lie on either side of it (`ScatterWorks`); its dots have used something
because only such bills have a price (`DotsWork`). `FindingIsTrue` asks how
far rounding can carry a figure. `Within` says that two amounts are at most n
half cents apart; a month is within one of its days (`NearIsWithin`),
distances add (`WithinAdds`), and a sum of months that are rounded already is
not rounded again, so a year is within twelve of its days (`MonthsAddUp`). If
the rounded totals of two years are in an order, the days are in that order up
to twelve cents, which is what `FindingHolds` says (`More`). A change in
percent has the sign of the change whatever the sign of what it starts from
(`ChangeTellsSign`). The reading of a bill needs that an average of prices is
not zero: with no credit in the record no price is below zero
(`PricesNotBelow`), so one above it lifts the average (`AverageIsAbove`), and
twelve places back in the list reach at least twelve months back
(`EntriesApart`). Attempts to prove this property showed that it had been too
strong for records beyond those of the run: a total may be rounded to zero
that is not zero by its days, and a credit can make an average zero, or leave
the month of a priced bill without a price. Both are now in its statement.
`LibraryFigures` is seven arguments. The months are a list in order, so the
places of `fillMonths` that are no gap are those months again (`InOrderIs`).
Parts and rest of a composition are multiples of a cent, and so is their sum;
the rest of one bill is rounded from exact energy on its page and from rounded
energy in the composition, and the two differ when the energy lies half way
between two cents, by one cent (`RestsAreNear`). A quotient does not change
when both sides are doubled (`OverScales`), and a share of the first price and
the change since then differ by a hundred percent (`ShareAndChange`). The
months a forecast reaches are the first ones (`ReachedIsFirst`), and equal
steps add up to their number of steps (`StepsAddUp`), so the drift is the
step. `TariffExplains` needs that a median of entries that are all one value
is that value (`MedianOfOne`), with an even and with an odd number of them,
and that (1 + x/B)(p + f/k) is (B + x)/k where B is kp + f
(`CurveOfOwnTariff`). `ExcessAddsUp` bounds what rounding may miss of a month:
its rounded price times its rounded kWh lies as far from its cost as half a
unit of each of the three is worth (`PriceTimesUse`); such distances add
(`TotalNear`), and months without a price add nothing (`ExcessOfPriced`). The
last two are theorems of their own, and `LibraryFigures` joins all seven.
Three of its parts turned out, in the attempts to prove them, to hold of the
record in the run only: the two rests are not equal when energy is half a
cent, the bound of the excess did not count the rounding of the kWh, which
matters at a high price, and a bill whose charges are zero or a credit has a
tariff that `tariffShape` leaves out. The statements now say so, and the
record that shows the first of them is in the run.

Induction is first order throughout: a set of naturals that contains 0 and the
successor of each of its elements is all of them (`NatBySets`, from the
well-foundedness of the order), applied to the set of sizes for which the claim
holds. `Gcd` is a recursive function, and `GcdDefined` shows that its recursion
has a solution by naming one: the least positive combination of two numbers.

Model-checked only: `EveryJobSettles`, since liveness is out of the prover's
reach. Every other property of a passing run is the statement of a theorem.

## 5. Not modelled

Configuration, boot, migrations, schemas, prompts and `bill_math.py` hold no
state that more than one step of one actor touches; S3 is one library call per
operation; authentication is a library, modelled as Session uses it; theme,
preferences, wording and drawing are rendering. Not modelled for lack of a
model so far: the extraction agent with its run records, the ingest tool, the
CI alert script, the creation and editing of places, corrections of bills
(`corrects_bill_id`) and invoice numbers that change. Hazards of these parts are
listed in `PROJECT.json` with no property and a note. Within modelled parts, the
omissions are named under each module above.

## 6. Plan

1. **AgentRun** (`agent/extract.py`, `recorder.py`): turns with every stop
   reason, tool results, the row written twice, deletion of job and document
   in between, the file uploaded to the API. Abstract: a run starts once and
   ends with one outcome. Composed with the handler step of JobQueue.
2. **Ingest**: cache, crash, rerun, against a bills API that answers 409; its
   bills API is the router half of BillEditor.
3. **Bills**: invoice numbers that change under the unique constraint with
   PostgreSQL's NULL exemption, and corrections.
4. **CiAlert**: issues through a lagging index.
