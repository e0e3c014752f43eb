# Verification of QA Radar

TLA+ modules for QA Radar (`src/src/`, TypeScript on Node.js): what happens to an
analysis from `POST /api/scans` until retention forgets it, the services around
it, the pages that talk to them and the algorithms of the toolbox.
Paths below are relative to the repository; line numbers are in
`PROJECT.json`, which maps every definition to the lines it models.

## The system

Node runs one callback at a time, so nothing inside a synchronous stretch is
ever interrupted. What makes this server hard is everything around the awaits:
a request handler is several callbacks with other handlers, timers and runs in
between; updates of the database are sent and not awaited; the process may die
at any of these points, and the next one starts from the rows.

| Component | State | Operations | Interacts with |
| --- | --- | --- | --- |
| Analysis state machine (`job-state.ts`) | none | transition table, `isTerminalJobStatus`, `canTransitionJob` | everyone who sets a status |
| Scan queue (`job-queue.ts`) | `#jobs`, `#pending`, `#active` | enqueue, takeNext, finish, cancelQueued, delete | scheduler, routes, retention |
| Scheduler and runs (`server.ts`) | one async run per slot, deadline and retention timers | `schedule`, the run with its catch/finally, `expireJob`, recovery at boot | queue, scanner, reports, history, persistence, artifacts |
| Scan routes (`routes/scans.ts`) | requests in progress | create, cancel, list, delete, read | all of the above, keys |
| Idempotency keys (`idempotency-store.ts`) | key -> fingerprint, analysis | get, reserve, complete, release, expiry; in memory or in Postgres | creation |
| Persistence (`scan-job-persistence.ts`, `scan-job-repository.ts`) | table `scan_jobs` | insert, update, guarded transition, queries of recovery, delete by owner | creation, runs, boot |
| Scanner (`scanner*.ts`, `baseline.ts`, `fingerprint.ts`, `quality.ts`) | events and findings of one analysis | listen, deduplicate, compare, judge | browser, history |
| Baseline history (`history.ts`) | runs and `baseline.json` per project | find, store, promote | analyses of the same project |
| Sitemap and suite (`sitemap.ts`, `suite.ts`) | sitemaps to read, pages found, reports | discover, analyse each page, consolidate | scanner, network policy |
| Artifact storage (`artifact-storage.ts`) | uploaded files per execution | upload, remove, read | runs, retention, delete |
| Journeys (`routes/journeys-legacy.ts`, `legacy-journey-registry.ts`, `journey*.ts`) | one active journey, its browser | create, cancel, run, report | the queue, over one browser |
| Code execution (`routes/code-execution.ts`, `code-*.ts`) | one "active" flag, what is remembered of executions, child processes | start, run, report, expire | sandbox, browser, history |
| Codegen (`routes/codegen.ts`, `codegen-session-store.ts`) | one recording | start, stop, expire | browser |
| Hosted sandbox (`sandbox-*.ts`) | consumed nonces, containers and volumes, connections | verify, run, clean up, proxy | code execution, Docker |
| Accounts (`identity.ts`, `routes/auth.ts`) | users, sessions, single-use links | register, login, reset, link, change of password | every route with an owner |
| Applications, API collections, settings | rows per owner | save, archive, run with pruning, patch | history, pages |
| Histories and quality summaries (`execution-history.ts`, `quality-summary.ts`, `alerts.ts`) | none | merge, page, summarise | tables |
| Dashboard activity (`dashboard-activity-store.ts`) | a file and a chain of writes per session, subscribers | append, clear, subscribe | routes, page |
| Webhook bins, rate limiter, health checks | bounded maps; requests under way | create, push, sweep; consume, prune; probe | routes, network policy |
| Toolbox algorithms (`toolbox/*.ts`) | none | pairwise, boundary values, JSON and OpenAPI diff, JSON Schema, YAML, cURL | pages |
| Pages (`browser/*.ts`) | what is on the screen, requests out, localStorage | submit, poll, list, save, clear | all routes |
| Reports, markup, arguments, migrations | text and the outside world | | |

What makes each of the first six correct:

- **Queue and scheduler** - never more analyses than `config.concurrency`; one
  `finish()` per `takeNext()`; arrival order; no analysis waiting beside a free
  slot; an accepted cancellation is the outcome; an ended analysis does not
  change; everything ends and is forgotten, and nothing is forgotten early.
- **Persistence and boot** - a row ends when its analysis does and stays so; no
  row is left live with nobody working on it; an id is not run twice; deleting
  the history leaves live analyses alone.
- **Creation and keys** - a repeated request meets the analysis it created; a
  key never starts two; a failure leaves no key reserved for good; a replay belongs to
  the body that was sent; the queue keeps its limit.

- **Scanner and history** - the verdict and the counts are those of the findings
  reported; no run is compared with anything but one whole promoted run; a site is judged by
  all its pages.
- **Local runs and sandbox** - what holds an exclusive slot is alive, what died
  holds none; a signed request runs once; nothing is left running.
- **Accounts** - one account per person; a new password ends the old sessions.
- **History, evidence, workspace** - a page shows what is owed in order; what was
  erased stays erased; limits and versions hold against concurrent requests.
- **Pages** - what is on the screen answers the last question asked, however the
  answers cross; "saved" means stored.
- **Algorithms** - the result is that of a reference definition.

`PROJECT.json` lists the hazards of the program at the lines where they bite,
with the properties that watch them.

## The modules

### JobState
The five states and the transition table, shared by all the others.

### ScanQueue
The core: `JobQueue`, `schedule()`, the run, the timers, the end of
`POST /api/scans` and the cancel route.

- A `Job` is the `ScanJob` object and `IdOf` gives its id. Recovery may build a
  second object for a stored id, so `jobs` maps ids to objects, as `#jobs` does.
- An action is one callback: what runs between two awaits. The loop of
  `schedule()` is the exception. It is unfolded one iteration an action
  (`StartNext`, `LoopEnds`), and `turn` holds every other callback
  back until it ends: the same steps, at the grain the properties talk about.
- `step` says what a run awaits (`baseline`, `scan`, `reports`, `store`).
  `findHistoryBaseline` never rejects; each of the other awaits ends well
  (`Advance`, `Complete`), or rejects, or is followed by a `throwIfAborted` that
  throws (`Throw`). `Settle` is the catch and finally blocks as one callback:
  terminal transition, slot returned, deadline cleared, retention armed,
  scheduler called.
- `posting` holds the requests that have enqueued and await the key store.
- Left out: progress and stages, logging, tokens, the contents of reports, the
  artifact upload.

### AnalysisBoard
The promise of the queue to its callers: a line, a set of executing analyses,
outcomes. `ScanQueue!Board` is the refinement mapping (the line is `pending`
read through `jobs`), and `ImplementsBoard` includes the board's fairness: the
front of the line starts whenever there is room.

### ScanStore
Extends `ScanQueue` with the table. The insert comes before the queue
(`InsertRow`, `AdmitInserted`); every change of status is sent as an update that
lands or is lost later (`Send`, `UpdateLands`, `UpdateLost`); recovery is three
queries with requests in between (`ReadRunning`, `CloseOrphan`, `ReadQueued`,
`EnqueueRestored`), each of which may fail (`QueriesMayFail`): the persistence turns
a failed query into an empty list, so the rows behind it are `overlooked` until the
next boot (a failed update of the closing, `CloseFails`, also leaves the rest of its
rows); `Crash` drops the memory and the updates on their way, and
keeps the rows (the disk may be a new one); `ListHistory`, `DeleteRows` and
`ClearWiped` are the three phases of `DELETE /api/scans`. Updates are guarded as
in the SQL: `update` is not, `transition` is.

### ScanCreation
`POST /api/scans` for several requests at once, from the lookup of the key to
the answer; the queue is reduced to what the handler reads of it. `SharedStore`
chooses the store: in Postgres every call is a round trip; in memory those
awaits are promise jobs that end before any other callback runs (`MayRun`).
`FailingCalls` lists the store calls that may reject (without having had an
effect). Keys are longer lived than requests and runs (`KeyExpires`), as
`retentionMs` is. The process may die at any await (`Die`, at most `MaxDeaths`
times): its requests end unanswered, keys in memory go with it and keys in Postgres
stay as they are, reservations included. With `DurableJobs` a row that waited is
`stored` and enqueued again by the recovery of the next process (`Restored`), any other
analysis is known to `load()` only (`AfterDeath`). One database keeps both or neither
(`web.ts`).

### The proof modules
**ScanQueueProofs**, **ScanStoreProofs** (extends it), **ScanCreationProofs**,
**ServicesProofs** (extends `MCServices`) and **PagesProofs** (extends `OpenPages`
and `CaseDesign`) hold the theorems; see "What is proved". **Positions** has what the models and the
proofs share: a sequence taken apart by positions (`Picked`, the elements at some
positions, in order; `UpTo`, the first of them) and a finite set in an order
(`Ahead`, `FirstFew`), with the lemmas about both.

### Around an analysis

- **ScanPipeline** - analyses of one project side by side: `scan`, the reports,
  `storeRun` and the promotion of the baseline, with an abort at any await.
  Promotion copies over the file in place; the copy begins, ends, fails or is cut short by
  the death of the process, and who starts meanwhile reads what is there. A file
  that is no report fails the scan that would be compared with it.
- **ScanFindings** - what listeners and page rules saw, in any order: which of it
  is one problem, fingerprints and occurrences, the comparison with the baseline
  and the verdict.
- **SitemapSuite** - `discoverSitemapUrls` with redirects, network policy and
  limits, then one analysis per page and one verdict for all. What an address
  answers is a constant (`Sites`) chosen at the start. The policy looks a name up and the
  request looks it up again, in two steps; `Fickle` names may answer otherwise then.
- **JobTable** - the table of analyses as `scan-job-repository.ts` offers it to
  several instances: `claimNext` with its lock held between select and update, the
  guarded `transition`, deletion by id, owner and expiry, and the stand-in in memory.
- **ExecutionRetention** - one finished execution in memory, table, disk and
  object storage: expiry, deletion of the history, evidence, uploads under way
  and restarts.

### What runs code or a browser

- **LegacyJourneys** - journeys beside analyses over one browser: check, awaits,
  flag, deadline, cancellation. **JourneyRun** - one journey from file to report,
  an abort closing the browser under any step, or arriving while the directory is
  made or the browser launched, when nobody listens to the signal yet.
- **CodeExecution** - several `POST /api/code-execution` around one flag, with
  their undo; and, in the second half of the module, captures numbered by the
  fixtures against steps read from the source. **Codegen** - recordings and their process.
- **ChildProcess** - the six promises around child processes, settled by the
  first of output, deadline, error and close; a worker has a Playwright of its own.
- **SandboxRunner** (signed requests, nonces, clocks, capacity),
  **SandboxRuntime** (volume, proxy, job and their cleanup against a Docker daemon
  that acts late), **EgressProxy** (limits and paired sockets;
  tunnels, whose first bytes may come beside the CONNECT, and plain requests, several on
  one connection, with the bodies of both directions).

### Accounts and their data

- **Accounts** - `routes/auth.ts` statement by statement, several requests at
  once, in mixes chosen by `AuthMix`.
- **Workspace** - applications, collections with versions, API runs with pruning,
  settings. **Timeline** - three tables merged page by page while rows come, end and go;
  instants keep the fraction of a millisecond that a cursor loses.
- **DashboardActivity** - the chain of writes of a session and its streams. A read
  that fails is an empty history to the append that follows it.
- **WebhookBins** - bins and the limiter, on one clock. **HealthCheck** - the page,
  the route and the guarded fetch with redirects; DNS answers the guard, and then the
  fetch, which may be told something else.

### Toolbox algorithms

**CaseDesign** (pairwise row by row, boundary values point by point),
**JsonTools** (diff, schema validator), **OpenApiDiff**, **Yaml**, **Curl**. Each is
translated as it computes and held against a definition that does not
mention the algorithm: the pairs of all values, the patched document, the callers
that notice a change, the document a layout was written from.
Dates are their days, and a date beyond the years 0 to 9999 is the text that
`toISOString().slice(0, 10)` leaves of it, which is none; integers beyond 2^53 round to it.
`JsonTools` compares what `JSON.stringify` writes, in the order the keys have, where the
validator does.
`CaseDesign` builds its lists of test cases in steps and by positions, without
recursion, so that it can be proved about; `JsonTools`, `OpenApiDiff`, `Yaml` and
`Curl` have recursive operators, and no theorem.

### Pages

**ScannerPage**, **ListPages** (reports, quality and alerts; applications),
**ActivityPages** (journeys; the overview), **RequestPages** (API tests, with the
import of a file; the inspector of webhooks), **FormPages** (settings; `auth.ts` and `shell.ts`). A page is its fields, the requests it has
out and what it shows; an action is a click or an answer. The server is the
little of it that the page can tell (external), except in the settings of `FormPages`, which have
the route and the repository, and `HealthCheck`, which has both sides.

### Compositions

Inside the first modules components meet by extension (`ScanQueue` in `ScanStore`),
by refinement (`AnalysisBoard`) or by being modelled together (`LegacyJourneys` with
analyses, `HealthCheck` with page, route and policy, `SandboxRunner` with client
and network). What does not share state is checked side by side: **MCServices**
and **MCPages** extend their modules and a variable
`focus`, chosen at the start, says which takes the steps. A run is
thus as many independent runs, and a property such as `ScanVerdictIsSound` names
what each module promises; a state of one is never multiplied by those of another.
The pages meet first in **OpenPages**, which has no recursive operator and is what
`PagesProofs` extends, with `CaseDesign`; `MCPages` adds the other algorithms of
the toolbox.

## The runs

| Run | Instance | Question | States |
| --- | --- | --- | --- |
| `scan_queue` | 3 analyses, 2 slots, keyed and plain creations, symmetry | types, slots, order, no stranded work, retention, cancellation, final states | 60 thousand |
| `scan_queue_live` | 3 analyses, 1 slot, fair | everything ends, everything is forgotten, the queue implements the board | 150 thousand |
| `scan_store_quiet` | 2 ids with 2 objects each, 1 slot, 1 crash, 1 deletion, failing key store, updates may be lost, symmetry | final rows, one run per id, deletion spares live analyses | 2.36 million |
| `scan_store_boot` | 1 id with 2 objects, 2 slots, 2 crashes, 1 deletion, requests during recovery, whose queries may fail, fair | no ghost rows but overlooked ones, waiting rows end, slots add up | 376 thousand |
| `scan_store_boot_race` | 1 id, no crash, requests during recovery | finding: recovery takes an analysis of its own process | violation |
| `scan_creation` | 5 requests, 3 with the key, 2 bodies, limit 2, keys in memory | one live analysis per key, replays match, created is replayable | 367 thousand |
| `scan_creation_shared` | 3 requests with the key, limit 1, Postgres with any call failing, Turnstile, 1 death of the process, fair | reservations have an owner and resolve | 250 thousand |
| `scan_creation_race` | 4 requests, 3 with the key, limit 2, Postgres, nothing fails | finding: two simultaneous requests create two analyses | violation |
| `scan_creation_limit` | 5 requests, limit 1 | finding: the limit of the queue is exceeded | violation |
| `services` | the modules around the analyses, one at a time (below) | local runs, sandbox, processes, accounts, evidence, verdicts, histories, workspace, tools with a server | 3.56 million |
| `pages` | nine pages and seven algorithms, one at a time (below) | pages follow the server, forms keep their word, erased stays erased; suites of cases and algorithms against references | 1.52 million |
| `schema_recursion` | schemas with references, values two levels deep | finding: a recursive reference is not followed into the value | violation |

Why these bounds are enough. Three analyses over two slots are the smallest case
in which one waits while two run, so each way of freeing a slot (completion,
failure, deadline, cancellation) meets a waiting analysis and a second run; three
over one slot give a line of two, where order and removal from the middle show.
Two objects per id are all that a request and a recovery can build for it within
a process, and a crash gives both back. One crash reaches every pair of steps
around it; the second lets recovery itself be interrupted. Three requests with
one key are two that race and a third with another body, or one that comes after
both. Jobs never repeat an
id, so the behaviours end: deadlock is not checked.

`services`, by module: four requests over one address and one identity in four
mixes of registration, login, callback, reset, verification and change (Accounts);
each kind of child process; tests of three lines (CodeExecution); three executions,
one of them local; two recordings; three posts of two activities and a clear, with
room for one; two connections and two plain requests where one connection, two
requests and two bytes are allowed (EgressProxy); one kept execution, two
uploads, one restart; two endpoints of one host, three addresses one of them blocked, one redirect
(HealthCheck); journeys of two steps; two journeys and one analysis; two signed
requests, each delivered twice, with clients ahead of, behind and with the clock,
and a skew shorter than the behaviour, so that memory ends before it (SandboxRunner);
one sandbox with and without egress; three findings over a known and an unknown
address; two analyses of one project, one that accepts a baseline and one that
compares with it; 180 sites of four sitemaps that list, index, repeat and
redirect to each other, a private one and one of changing address among them, with limits of three sitemaps, one
redirect and two pages (SitemapSuite: the code has 10, 5 and 20; every limit is
reached); two analyses of two accounts claimed by two instances (JobTable);
three rows chosen from four kinds of execution, two of the reader's in one millisecond and
one of somebody else, pages of one;
three bins where two fit; two accounts with two
applications. In each, the smallest number with which two of a kind race while a
third is turned away.

`pages`, by module: two analyses submitted and one reopened; three pages of
executions, two filters, five requests; two applications; two executions with two
reads of steps; two analyses recorded by two tabs; two applications with two
requests, one file imported at a time, and three sends into a history of two
(bound `SendsApart`: a file is read before the first send, a second send comes where nothing
was pushed); two patches of each form; three entries; two boxes, one call
and two reads each. Algorithms: up to five parameters of up to five values typed
where four are allowed; limits from -3 to 4, with steps finer and coarser than the
decimals of the limits, beyond the first and the last date and the last exact integer; documents, schemas and contracts of each form with one
level of nesting; lines in each layout; commands of up to four options. All
of these are enumerated, and the algorithm meets each of its branches.

Every property has a mutant in `PROJECT.json`: a definition with a plausible
mistake (`FinishTwice`, `LeaveInPending`, `KeepKey`, ...) under which TLC
finds the property violated. The mutants stand before the definitions they
replace and nothing else uses them. A property that names several modules has a
mutant in each that it could break in.

### Assumptions of the runs

- `scan_queue` lets the key store fail (`KeyStoreMayFail`). When `complete()`
  rejects, the handler answers 500 without `schedule()` and the analysis stays in
  the queue until some other event looks at it; `NoStrandedWork` says that this is
  the only way to leave work beside a free slot. `scan_queue_live` takes a key
  store that cannot fail, because otherwise `EveryJobEnds` does not hold.
- `scan_store_quiet` serves no request before recovery ends. With requests
  during recovery, one id may run twice (`scan_store_boot_race`) and a row that
  ended may be written again; the code does not exclude it, since recovery is
  not awaited before `server.listen`.
- `OrderedWrites`: the update to `running` reaches a row before the one that
  ends it. The code sends both without waiting over a pool of five connections,
  and relies on a run being much longer than a statement.
- `scan_store_boot` loses no update: a lost terminal update leaves the row
  `running` until the next boot closes it, by design. Its recovery queries may fail,
  which leaves rows the same way: `NoGhostRow` and `EveryRowEnds` except exactly the
  ids that a failed query of the present boot did not tell of (`overlooked`).
- `scan_creation_shared` excuses a reservation in `ReservationHasOwner` when of all
  requests it was its own whose release was refused or whose process died;
  `ReservationResolves` excuses nothing, and rests on the retention of keys then.
  `scan_creation` lets the process die too, and with it the keys in memory.
- What the models ask of their constants is named in their `ASSUME`s, which TLC
  evaluates in every run: limits are natural numbers, and positive where the code
  has a positive constant; marks such as `NoScan`, `NoLink`, `NoBox` or the empty
  `Blank` of a form are none of the things they stand beside; rows of the timeline
  are finitely many, each of one table, with a fraction of a millisecond only
  where the database writes the instant; a site has finitely many addresses, and
  its answers are lists of locations or redirects to an address.
- `services` and `pages` have safety properties only. A lost call, an answer that
  never comes or a daemon that does not act is a behaviour that stops there.
- `AlignedWhenAllCaptured`, `RunsOnce`, `WalkIsSound`, `ErasedIsGone`, `ActivityIsSound`, `SuiteIsSound`,
  `HealthReportIsSound`, `BaselineIsSound`, `EgressWithinLimits`, `RestMeansAnswered`, `SavedWhereChosen`,
  `ClearReachesEveryCopy`, `WebhookPageIsSound`, `ReadsWhatIsWritten`, `CasesAreTheBoundaries` and
  `VerdictIsTheSchemas` each name the case they exclude in their comments; the
  cases are real and listed under "Further disagreements".

### Fairness

Weak fairness for the loop of `schedule()`, for callbacks of timers, for file
system and database calls: the event loop runs what is ready. A scan is only
required to end once its signal is aborted (`MustEnd`): the scanner closes the
browser when aborted, but before that a page may keep it busy, so `EveryJobEnds`
holds because of the deadline. Nothing is assumed of clients: no request has
to arrive, no analysis to be cancelled. Updates that are not lost land. A key whose
retention ended expires (`KeyExpires`): every lookup compares it with the clock.

## Findings

1. **Recovery takes live analyses for abandoned ones** (`server.ts:781`).
   `pending()` may return the row that a request of the same process has just
   inserted; its object is enqueued again, the map forgets the first, and both run
   in one directory. In the same window `recoverOrphans()` closes rows of
   analyses that are running here.
2. **Lookup and reservation of a key are not atomic** (`routes/scans.ts:254`).
   With keys in Postgres, or with Turnstile between the two, simultaneous
   requests with one key each create an analysis. If their bodies differ,
   `complete()` of the first fills the reservation of the second, and a replay
   of the second body describes the analysis of the first (`ReplayMatchesBody`
   fails in the same instance).
3. **The limit of the queue is checked before awaits and used after them**
   (`routes/scans.ts:227`).
4. **A schema that refers to itself is not followed into the value**
   (`toolbox/json-schema.ts:380`). References already met are passed over to stop
   cycles; the set goes down with the recursion into properties and items, so the
   second level of a recursive schema is approved unread and nothing is
   reported as unsupported.

### Further disagreements

Met while modelling, stated as properties that no run lists because the code does
not keep them; added to the INVARIANTS of the named configuration TLC shows each:

- `CodeExecution!OneExecutionAtATime` (`MCServices`): the flag is read before
  awaits and set after them, so two executions run (`code-execution.ts:129`).
- `CodeExecution!EvidenceOfItsStep` (`MCServices`): a step that left no
  capture shifts the captures of those after it.
- `Timeline!NoTiedRowIsSkipped` (`MCServices`): a cursor in milliseconds skips rows
  stamped by the database within the same millisecond.
- `ScanPipeline!BaselineStaysReadable` (`MCServices`): copies that overlap, or one cut short,
  leave half a file where the baseline is, and every later analysis that would be
  compared with it fails
  (`history.ts:71`). `ScanPipeline!CancelledLeavesNoBaseline`: the run is promoted before the
  last `throwIfAborted` (`server.ts:665`).
- `SitemapSuite!NothingPrivateIsReached`, `HealthCheck!NothingBlockedIsReached` (`MCServices`): the
  policy's answer of DNS is not bound to the request, which asks again
  (`sitemap.ts:49`, `51`; `routes/http-request.ts:68`).
- `DashboardActivity!NothingIsOverwritten` (`MCServices`): a read that fails for any reason counts
  as an empty file, and the append that follows replaces the history
  (`dashboard-activity-store.ts:43`).
- `CaseDesign!EveryCaseIsAValue` (`MCPages`): beside 0000-01-01 and 9999-12-31 the date that is
  "just beyond" is written as a text that is no date (`boundary-values.ts:84`, `146`).
- `ListPages!FormIsOffWhole` (`MCPages`): a failed load switches the form of applications
  off, its button included, since `applications.ts` says "Desligar é mais honesto" than a form
  that cannot save; the end of a save under way turns the button on again.
- `ScannerPage!EveryLinkOpens` (`MCPages`): a render that throws after it revoked the URLs of the
  reports leaves their links on the page (`browser/scanner.ts:318`).
- `ActivityPages!NoScanListedTwice`, `Curl!NoParameterIsLost`,
  `Yaml!RefusesWhatItDoesNotCover` (`MCPages`): one analysis under two ids;
  `-G` and repeated parameters lost in targets that take an object; a file with
  several documents, which the reader says it refuses, read as one.

Smaller ones, visible in the definitions:

- A query of the recovery that fails is an empty list to the boot
  (`scan-job-persistence.ts:129`, `138`): waiting rows are not restored and running ones not
  closed, and the server goes on as if there were none, until the next boot.
- Where the process dies between a reservation in Postgres and its analysis, or the
  release is refused, the client gets 409 until the retention of the key ends.
- An upload that ends after retention or deletion leaves orphans in the storage
  (`server.ts:695`).
- A login that verified the old password before a reset starts its session after the
  reset destroyed all sessions (`auth.ts:302`); a weak password burns the link of the
  reset (`auth.ts:293`).
- A second journey, analysis or recording may start between the check of a flag
  and its setting (`journeys-legacy.ts:41`, `codegen.ts:17`); limits of API collections are
  checked before the insert (`routes/applications.ts:183`).
- A request refused for lack of room has used its nonce up (`sandbox-runner.ts:215`).
- The egress proxy does not count the bytes sent beside a CONNECT
  (`sandbox-egress-proxy.ts:157`), and the chunk of a plain answer that exceeds the limit
  still reaches the client.
- A hole in the local list of saved requests makes every later save throw
  (`api-tests.ts:648`) and the imports of files fail; a file read while another application
  is chosen lands in that one.
- The JSON Schema validator compares texts of `JSON.stringify`: objects equal but for the
  order of their keys fail `enum` and `const` and pass `uniqueItems`
  (`json-schema.ts:171`, `274`); what stands beside a `$ref` is ignored.
- The YAML reader drops blank lines and comments inside `|` blocks, reads `- - x` as
  text and lets an empty item swallow what follows (`yaml.ts:243`, `267`).
- `formatCurl` quotes for JavaScript, not for a shell (`curl.ts:323`, `509`).
- Boundary values whose limits have more decimals than the step are classified by
  the value before rounding. A step below a millionth is written with an exponent,
  where `roundToStep` finds no decimal places: its points are rounded to integers,
  onto the limits or far from them (`boundary-values.ts:90`).
- Repeated entries of a sitemap index fill the queue of sitemaps and crowd others
  out (`sitemap.ts:100`); one sitemap that fails ends the whole analysis.
- The settings page calls every failure of the resend "Sem envio de e-mail" and
  paints late values over what was typed (`settings.ts:97`, `216`); the webhook page
  may show the answer of a box left behind; clearing the health checks does not
  stop those under way. `WebhookPageIsSound` excepts that answer.
- The Playwright of a hosted worker that was killed outlives it until it ends.
- A nonce is forgotten one skew after its arrival while a timestamp ahead of the
  clock stays valid longer: such a request may run again (`RunsOnce` excludes it).

## What is proved

TLC shows the properties on the instances above; the theorems hold for every
value of the constants that satisfies the named `ASSUME`s of the modules. None
of them uses anything else, except the hypotheses stated with a theorem.

### The queue (`ScanQueueProofs`)

For every finite set of objects, every assignment of ids and every positive
concurrency:

- `TypeCorrect`, `SlotsAccounted`: `Spec => []TypeOK`, `Spec => []SlotAccounting`
- `EndedStaysEnded`: `Spec => TerminalIsFinal`
- `CancellationHonoured`: `Spec => []CancelIsHonoured`
- `QueueTellsTheTruth`: `Spec => []PendingIsTheWaitingJobs`
- `RetentionIsSafe`: `Spec => []RetentionSparesLiveJobs`
- `NothingStranded`: `Spec => NoStrandedWork`
- `QueueKeepsToTheBoard`: `Spec => Board!BoardSafety`, the safety half of the
  refinement that `scan_queue_live` checks as `ImplementsBoard`

Types alone are not inductive: `finish()` keeps `#active` a natural number only
while it counts the runs. `SlotInv`, types and slot accounting together, is.
`LEMMA SlotInvStep` goes through the actions one by one; most leave statuses and
steps of the runs alone (`SlotsUntouched`), a start adds one element to `Running`
(`StartKeepsSlots`), a settlement takes one away (`SettleKeepsSlots`, by
`InFlightOccupiesSlot`). `OnlyLiveStatusChanges` lists the five ways a status
changes, which gives `EndedStaysEnded`. `CancelInv` strengthens
`CancelIsHonoured` with two facts: a request to cancel finds the signal aborted,
and only runs under way have an armed deadline; without the second a late
deadline could abort the signal of an analysis that has completed.

The order of the queue and the reach of retention need each other (`QueueInv`):
a timer that forgot a waiting analysis would leave an id in `#pending` without
an object, and an id met twice in `#pending` would let a start leave one behind.
The lemmas on `RemoveFirst` say what the removal keeps and in which order; they
rest on `LeastPosition`, the only use of well-founded induction. `NoStrandedWork`
is an action property: from a state in which nothing is stranded, only
`KeyFailed` leads to one where something is. The refinement goes step by step
(`BoardStep`): a creation is a `Submit`, a start
`StartFirst`, a cancellation of a waiting analysis `Withdraw`, a settlement `End`, and
every other step leaves line, executing and outcomes as they are.

### The table (`ScanStoreProofs`)

For every number of objects, crashes and deletions:

- `StoreTypeCorrect`, `StoreKeepsSlots`: `StoreSpec => []StoreTypeOK`,
  `StoreSpec => []SlotAccounting`
- `OneRunAtATime`: `~ServesDuringRecovery` gives `StoreSpec => []OneRunPerAnalysis`
- `WipeIsSafe`: `~ServesDuringRecovery` gives `StoreSpec => WipeSparesLiveJobs`
- `EndedRowStays`: `~ServesDuringRecovery` and `OrderedWrites` give
  `StoreSpec => RowTerminalIsFinal`
- `NoRowIsForgotten`: `OrderedWrites` and `~WritesMayFail` give
  `StoreSpec => []NoGhostRow`, with or without requests during recovery and whichever
  queries of recovery fail

The hypotheses are those of the runs that check the same properties ("Assumptions
of the runs"); without the first, the run `scan_store_boot_race` shows
`OneRunPerAnalysis` violated. `StoreInv` adds to types and slots which ids were given
out and to how many objects, which leaves recovery an object to build
(`ObjectAssumption`: two for each id within a life of the process). `QuietInv`
says that a booting process is alone, that one object of an id is in use, and
that what ended in the table ended in memory. `GhostInv` follows the table from the other
side: a row `running` is executed, told about, or one that recovery is about to
close; a row `queued` is cared for, or one it is about to restore, and either may
be one that a failed query of this boot overlooked; and an update to
`running` that is overdue is followed by the one that ends the row.

### The keys (`ScanCreationProofs`)

For every number of requests and bodies and every size of the queue:

- `CreationTypeCorrect`, `ReservationsHaveOwners`: `CreationSpec =>
  []CreationTypeOK`, `CreationSpec => []ReservationHasOwner`, with either store,
  whichever calls fail and however often the process dies
- `OneAnalysisPerKey`, `ReplaysMatch`, `CreatedStaysReplayable`: under
  `KeysInMemory`, `CreationSpec` gives `[]OneLiveAnalysisPerKey`,
  `[]ReplayMatchesBody` and `[]CreatedIsReplayable`

`KeysInMemory` is the server with its default configuration: keys in the memory
of the process, no human check between lookup and reservation, and a `complete()`
that does not fail, as in memory it does not. Finding 2 is what happens
otherwise. The invariant has two halves: no two
requests are between lookup and reservation, so what a lookup returned is still
the record (`LookupInv`); and the key is held by one request or leads to the one
analysis of it that lives (`KeyInv`).

### The services (`ServicesProofs`)

The modules of `MCServices` share no variable, so a step of the whole is a step
or a stutter of each (`OneServiceMoves`), the invariant of the whole is the
conjunction of theirs (`ServicesInv`), and each is proved by itself, by the name
of its module's actions. `ServicesSpec` gives `[]ServicesTypeOK`,
`[]LocalRunsAreSound`, `[]RunsOnce`, `[]SandboxKeepsItsLimits`,
`[]NothingLeftRunning`, `[]AccountsAreSound`, `WorkspaceIsSound`,
`[]EvidenceIsSound`, `[]ScanVerdictIsSound`, `[]HistoryIsSound` and
`ToolboxServicesAreSound`: every property of the run `services`. The parts of those
that name several modules are also theorems of the module alone, under its own
specification: `ErasureIsFinal`, `JourneyReportsAreSound`, `EvidenceStaysAligned`,
`BaselineStaysWhole`, `FindingsStaySound`, `SuitesStaySound`, `RowsGivenAndEndedOnce`,
`TableStaysInOrder`, `TimelineStaysSound`, `ActivityStaysSound`, `HealthStaysSound`
and `BinsAlwaysStaySound`.

What the invariants add to the properties, where it is not obvious:

- `RunnerInv`: a nonce outlives the validity of its stamp unless the client's
  clock was ahead; the slots taken are a finite set of (request, number of its
  run), so that one more or one less is one element more or less.
- `NetInv`: connections within their limit are counted apart from the ones turned
  away; each tunnel that reaches a target and each plain request under way spent one
  request; a chunk is counted before it is passed on, except what came beside a CONNECT,
  once a tunnel, and the last chunk of an answer that was cut, once a request.
- `AuthInv`: what a request awaits agrees with its kind; the account it holds
  exists and is the one its identity or address leads to; the sessions that were
  open when a password was set belong to requests that ended; and requests that
  got through with a link are no more than the links used up.
- `SpaceInv`: rows of runs are told apart by their instants, which only grow, so
  at most `MaxRuns` rows of an application are among its newest (`NewestAreFew`:
  their ranks are different and below the limit) and what is newest among all
  rows is newest among those that are left (`NewestOfFewer`): two prunes at once
  take no more than one. All rows of an application are its owner's, so erasing
  an owner's rows takes none of the newest of another.
- `RunInv`: the results are those of the steps before the present one, and every
  field that was filled is masked before a picture, except what a failed fill of
  this step left, which the failure masks.
- `PipelineInv`: a scan that stored its run promoted it if it was to, only scans that
  inspected their page come to promote, and what a scan read was whole; `TaskInv`:
  a row is given and ended once exactly if it runs or ended; `ArrivedInv`: the
  memory of one process holds each row once, in the order of the arrivals that are
  left.
- `EvidenceInv`: while no capture failed, the files are numbered from 0 without a
  hole and the file of an instrumented line has as its number how many such lines
  came before; the cursor of the report counts the same lines (`FilesAreOfTheirLines`).
- `FindingsInv` is little (observations and accepted identities are finite); the
  work is in the lemmas on the operators: what correlation drops has another
  observation of its address that is kept (`CorrelatingKeeps`, by cases of what
  repeats what), issues and identities are as many (`AsManyIssues`), and the sizes
  of two parts of a finite set add up (`ComparingAddsUp`).
- `DashInv`: the calls of a session settle in the order they arrived, since each
  waits for the one before (`ChainInv`), so what the file holds after the last that
  that settled is a function of the calls that took effect (`FileInv`): an append is
  listed until a clear, enough later ones (`Displacing`) or one that could not read the
  file (`Overwriting`) came.
- `HealthInv`: the guard keeps the answer of the resolver that it let pass and lets no
  later hop to the host pass with another; what the fetch is told is not part of it. The
  panel is of the endpoints that were in the form at the request.
- `MapInv`: bins are in the map in the order of their creation, so the first is the
  oldest, and what expired is swept before a bin is counted; `LimiterInv`: the calls
  let through since a window began are those its entry counts, so two windows
  bound any span of one.
- `LineInv`: what was returned descends and the cursor is at its last row; what a
  table answered for the page under way is before the cursor and leaves out only
  rows further down than all it answered (`LeftForLater`); hence a row owed is
  returned, in a part, or below everything returned (`OwedInv`), and a page with no
  next one leaves none. `SummaryAddsUp` and `ListedAreNewest` are about what readers
  make of the rows.
- `SuiteInv`: each sitemap visited but the one under way has everything it lists
  among the pages, visited or waiting, unless the lists were full (`DiscoveryInv`);
  the address under way is where the redirects lead (`ReadingInv`, `WaysAgree`). When
  nothing waits, the sitemaps visited are closed under what they list; as
  `AllSitemaps` is the least such set, they are all of them (`AllAreFound`). With the
  limit of sitemaps reached instead, the same follows from their number.

### The pages (`PagesProofs`)

`OpenPagesSpec` gives `[]PagesFollowTheServer`, `[]FormsKeepTheirWord` and
`ErasedStaysErased` (`OpenPagesFollowTheServer`, `OpenFormsKeepTheirWord`,
`WhatIsErasedStaysErased`), for every number of analyses, executions, filters,
applications, requests, boxes and answers under way. A behaviour of the pages
together is one of each (`OnePageMoves`, `EachPageBehaves`), and each has a theorem of
its own: `ScannerFollowsItsRun`, `ListFollowsFilter`, `AppListIsTheServers`,
`ReportsAreOfTheirExecution`, `ClearedStaysCleared`, `SavedRequestsStay`,
`ResponseIsTheLastRequests`, `WebhookPageIsOfItsBox`, `SavedSettingsAreStored` and
`EntryFormsAreKept`. What their inductive invariants add:

- A request under way is described by what was asked and when: loads are numbered
  and the current one carries the filter on the screen (`LoadsFollowTheFilter`);
  each reload of applications belongs to a save that was accepted or to the page
  (`ReloadsHaveACall`), and one that was read holds what the server has
  (`ListFollowsTheServer`).
- `ScannerInv`: a loop that renders has put its result on the panel, and the files
  it fetched are alive until another render begins, unless two renders overlapped.
- `DashPageInv`: once a clear has reached a copy, nothing under way carries what
  that copy lost (`ClearGoesOn`), so it cannot come back by it.
- `CollectionInv`: a collection holds only requests saved or imported for its place, and
  a flight carries those of its application (`PlacesAreKept`); `SendInv`: the history is
  of ended sends, in falling order.
- `WebhookPageInv`: what is listed, and what a read brings that was answered after
  the last emptying, is of the box shown and younger than the emptying.
- `SettingsInv`: the last patch of a form that no other overlapped is what the account
  holds once it was saved; `EntryInv`: the panel shown is one the server offers, and a
  button is busy exactly while its request is out.

### The generators of test cases (`PagesProofs`)

- `EveryPairIsCovered`: `PairwiseSpec => []SuiteCoversEveryPair`, for every number
  of parameters and values
- `BoundariesAreClassified`: `BoundarySpec => []CasesAreTheBoundaries`, for all
  steps and all limits the code accepts: integers that a double holds and dates of the
  years 0 to 9999
- `SuitesAreDesigned`: `PairwiseSpec /\ BoundarySpec => []CasesAreDesigned`, the
  two together, which is the property the run `pages` checks

The first is about a greedy algorithm, and its invariant `PairwiseInv` says what
every choice leaves true: the pairs uncovered are exactly the required ones that
no row has (`CoverageIsKept`), and none of them ends in a column that is already
done (`ColumnsAreAdded`). A best value exists whatever the pairs (`BestIsAValue`:
gains are bounded by the number of pairs), so rows only gain pairs (`LongerRow`,
`CoverageGrows`), and a column is left when no pair of it is uncovered. While
rows are dropped each one kept has a pair that neither the rows before it nor the
other kept ones have (`RowsAreReduced`); rows told apart by such pairs are at most
as many as the product (`NoMoreThanTheProduct`). `BoundaryInv` says that each of the six points
is still to come, or its value is taken, or its position is (`PointsArePlaced`);
together with what a position tells of its value (`PositionsTell`) that puts both
limits and a value beyond each in the list. `BoundaryAssumption` is what
`roundToStep` reads of a step: its last decimal place divides it.

That the steps end is not a theorem. TLC runs them all to the end on the instance
of `pages`.

### Sequences, sets in order, and the provers

The provers know nothing of `SelectSeq`, `SubSeq` past the end, folds, or functions
defined by recursion, so the models the theorems are about say the same by positions:
the elements of `s` that satisfy `P` are `Picked(s, {i : P(s[i])})`, the first `n` are
`UpTo(s, n)`, a sorted list is the function from a place to the element with so many
ahead. `Positions` proves once what each of these keeps: length, order, elements
and no repetition, from how many elements of a finite set come before one of them. A path of redirects is a function on `0..n` and the sitemaps
reached are the least closed set, instead of a recursion. `slice(0, n)` of the code stops at the end of a shorter list; `SubSeq(s, 1, n)` says nothing
there, which an instance with a limit of one never meets: `UpTo` stops as the code does.

### Only model-checked

- All liveness (`EveryJobEnds`, `EveryJobIsForgotten`, `EveryRowEnds`,
  `ReservationResolves`, the fair half of `ImplementsBoard`): fairness and
  `ENABLED` are out of the prover's reach.
- What compares and reads documents in the toolbox (`ComparisonsAreSound`,
  `TextsAreReadAsWritten` of the run `pages`): documents, schemas and texts are trees,
  the algorithms recurse over them, and a proof would be an induction over data.

## Plan

1. Executions in both places at once: `CodeExecution` over `SandboxRunner`, with
   the runner's answer in place of "the runner returns".
2. `JobTable` under `ScanStore`, so that recovery and the statements of the table meet
   in one module.

## Not modelled

- Text and constants: reports (`reporters.ts`, `journey-evidence-report.ts`), the
  API's own contract (`openapi.ts`), markup and styles (`web-*.ts`), migrations,
  the catalogue. There is no state to model.
- `test-data`, `jwt`, `regex-tester`, `timestamp`, `http-status` of the toolbox, and
  the pages of the toolbox other than the two that talk to the server: each formats
  or decodes a text. The policy that reads the code of a test (`code-policy.ts`) and
  the classification of addresses as private are text analysis; their verdict is a
  constant of the models that use it.
- Lighthouse, axe and the measures of performance: external programs whose
  numbers the scanner copies.
- Parsing of arguments and configuration; the dispatch of requests, headers,
  metrics and access tokens beyond being issued.
- Docker, DNS, Playwright, Postgres, object storage and mail are external: they do
  what the code that calls them allows for.
- Several servers sharing one table: the program's README describes one server and
  only tests call `claimNext`. `JobTable` shows what its statements promise to
  several; `update`, which asks nothing of the row it writes, is left to `ScanStore`,
  where one server writes.
