# A verification development for shankara-erp

TLA+ models of the item catalog of `shankara-erp`, TLC runs over small
instances of them, and theorems about them checked by TLAPS. Paths below are
relative to `src/`; `service.ts` stands for
`backend/src/item-master/item-master.service.ts`.

## 1. The system

Stewards export the item master from Tally, upload it, look at what the parse
skipped, and publish it; from then on everybody searches it. A NestJS backend
(one process) keeps everything in Postgres and the uploaded files on disk, and
runs parses as pg-boss jobs. A React client talks to it over HTTP.

### Inventory

| component | state | operations | talks to |
|---|---|---|---|
| versioned catalog (`service.ts`, entities) | `item_master_batch` (status, extra headers), `item_master_row` (versions: batch, code, `valid_to`, `is_deleted`) | `publishBatch`, `holdBatch`, `manualUpsert`, `manualDelete` | shares both tables with the parse job and search; clears the facet caches |
| upload and parse job (`service.ts`, pg-boss) | batch status, the queue `item-master-parse`, advisory locks | `processUpload`, `retryBatch`, `processBatchJob` | object store, parser, catalog tables |
| merge identity (`item-identity.ts`, `service.ts:349-512`) | none (reads live rows) | `dedupeByAlias`, matching by alias and code | decides what a parse inserts |
| parser (`parse/`, `detect/`, `common/`) | none | header detection, row ingest, CSV, dates | called by the job on a temporary copy of the file |
| search, facets, export (`item-search.service.ts`) | three in-memory caches, one minute each | `search`, `getFacets`, `getAvailableExtraFields`, `getExtraFacet`, history, export | reads the tables; `clearFacetsCache` is called after publish and hold |
| live sources (`meta.service.ts`) | none | `getLiveSources`, `getAsOf` | reads the tables |
| people and sessions (`users/`, `auth/`) | `app_user` (role, is_active, token_version, password_hash), signed tokens at the clients | `create`, `update`, `resetPassword`, `login`, `changePassword`, `logout`, `validate` | every route validates the token |
| audit log (`audit/`) | `audit_event` | `log` | inserted in the transaction of what it records |
| object store (`storage/`) | files under their hash, `source_file` | `put`, `get`, `exists` | upload writes, job reads |
| upload flow in the browser (`ItemUploadFlow.tsx`) | the batch shown, a poll timer | upload, poll, publish, hold, retry | HTTP |
| catalog page in the browser (`CatalogPage.tsx`) | query in the address, results, selection | debounced search, paging, export | HTTP |
| backup and restore (`ops/*.sh`) | dump and archive files | back up, prune, restore | database and uploads directory |
| host supervision (`ops/windows`, `ops/systemd`) | processes | watch, restart | starts the backend |

### Which behaviours are hard, and what makes each component correct

* **Catalog.** Nothing in the schema says that a code has one open version:
  that follows, or not, from how the updates of publish, absorb, hold, edit and
  delete compose, over any sequence of them. Correct: search shows a code once;
  publishing one file leaves the pending rows of the others; what was live comes
  back when a file is taken off; history is never lost; absorbing leaves one
  live file.
* **Parse job.** Status is written by the upload, the job, the job's failure
  handler, retries and stewards, in separate transactions, some from a copy
  read earlier. Jobs are delivered at least once, and a crash may lose one
  between commit and send. Correct: two runs never write one batch together;
  what can be published has been parsed; no batch stays in `processing`.
* **People and sessions.** `update` takes several row locks; `login` and
  `changePassword` wait for bcrypt between reading and acting. Correct: an
  active steward is always left; sessions follow password, role and activity;
  no request hangs.
* **Caches.** A query that started before a publish may fill a cache after it
  was cleared, and the parse job changes what search shows without clearing
  anything. Correct: once the changes stop, filters agree with the catalog
  again, a minute after the last answer is stored at the latest.
* **Merge identity, parser.** A sheet's meaning hangs on its first recognised
  row; a row is the item its alias or its code says, in the file and in the
  catalog; the decision is made at parse time and put on at publish time.
  Correct: every row is an item or a reported skip; the last row of an identity
  is what gets shown; a publish never makes an alias ambiguous.
* **Object store, backup.** Files and rows are written in separate steps, a
  path is shared by all uploads of one content, a backup is two files written in
  place. Correct: a batch's source file is there and whole, and stays so through a
  restore.
* **Browser.** Answers and timers arrive late, for a question no longer asked, and
  a new address is rendered later than it is written. Correct: what is shown, and
  acted on, is what the address says; what the user types is kept and searched for.

`PROJECT.json` lists the hazards line by line with the properties that cover
them.

## 2. The modules

| module | what it is |
|---|---|
| `Catalog` | the catalog tables, one action per transaction; the properties; the invariants |
| `MCCatalog` | the instances of the runs `catalog` and `catalog_republish` |
| `CatalogHistory`, `MCCatalogHistory` | `Catalog` with a history variable, for the run `catalog_hold_deleted` |
| `CatalogProofs` | theorems about `Catalog` |
| `ParseJob`, `MCParseJob` | upload, queue, runs of the job, retries, steward actions on status, crashes |
| `ParseJobProofs` | theorems about `ParseJob` |
| `AccountRules` | what people and sessions promise, every request at one instant |
| `Accounts`, `MCAccounts` | people and sessions; implements `AccountRules` |
| `AccountsProofs` | theorems about `Accounts`, and that it implements `AccountRules` |
| `SearchCache`, `MCSearchCache` | the three caches of search filters, and the changes of search that clear them or do not |
| `SearchCacheProofs` | theorems about `SearchCache` |
| `Layouts` | the four sheet layouts: header recognition, what a row turns into (operators) |
| `MergeIdentity` | which item a row is, in its file and in the catalog (operators) |
| `Intake`, `MCIntake` | one file from its first sheet to its publish, over the two above |
| `IntakeProofs` | theorems about `Intake` |
| `ObjectStore` | uploaded files on disk and their rows; uploads, the job's read, crashes |
| `Backup`, `MCBackup` | `ObjectStore` with `backup.sh` and `restore.sh` |
| `BackupProofs` | theorems about `Backup` |
| `UploadFlow`, `MCUploadFlow` | the upload page, its server and other stewards |
| `UploadFlowProofs` | theorems about `UploadFlow` |
| `ItemDrawer` | the drawer of the search page |
| `CatalogPage`, `MCCatalogPage` | the search page, with `ItemDrawer` in it |
| `CatalogPageProofs` | theorems about `CatalogPage` and its drawer |

An operator whose comment begins with `WRONG` is a broken variant of the
definition after it. Nothing uses it; replacing the definition by it makes TLC
report the property its comment names, which shows that the property would
notice that bug. `PROJECT.json` pairs them up.

### Catalog

`status[b]`, `headers[b]` are columns of `item_master_batch`, `row[r]` is the
row with id `r` of `item_master_row` (`open` is `valid_to IS NULL`), `lastRow`
its id sequence. `request[b]` and `checked` are requests between their two
transactions: `manualUpsert` and `manualDelete` commit a held one-row batch and
then call `publishBatch`, and `manualDelete` reads the live version before that.
`run[b]` is the status that a run of the parse job has read, `failing` the batches
whose run was rolled back, `retry[b]` the copy that `retryBatch` has yet to save.

| action | code |
|---|---|
| `Upload` | `processUpload`: the batch is committed |
| `StartRun` | a job is delivered, for the first time or again, whatever the status: lock, read |
| `ProcessBatchJob(b, f)` | the run writes and commits: earlier rows of `b` deleted, the rows of `f` inserted, headers set; the status becomes `held` if it is still `processing`, and else the one that was read (`SavedStatus`) |
| `FailRun`, `RejectBatch`, `RejectFails` | rollback; its failure handler, whatever the status is by then |
| `RetryRead`, `RetryBatch` | `retryBatch` reads and checks; and saves its copy later |
| `PublishBatch(b, d)` | `publishBatch` under the advisory lock: `Superseded` closes live versions of its codes, `Moved` and `MergedHeaders` absorb it into `d` |
| `HoldBatch` | `holdBatch` under the same lock: `Restored` reopens |
| `ManualUpsert`, `CheckDelete`, `ManualDelete` | the reads and first transactions of the manual requests |
| `ManualPublish`, `ManualFails` | their second transaction |
| `Crash` | what is between two transactions is lost |

Three parameters describe what `Catalog` takes from other components. `Uploads` are
the batches that have a source file. `Files` is what merging one of them may insert:
a sequence of codes, possibly with a code twice, and another one in every run,
because the merge looks at the catalog. `MaxRuns` and `MaxFaults` bound the runs at
one time and the repetitions, failures and retries; no assumption is made about the
queue.

All that a run writes is one step, from its inserts to its commit. A status that
another transaction saves between the second read of a run and its save is
overwritten as if it had never come, so that overlap adds nothing here; `ParseJob`
has the two apart.

What a run does to its own batch is the exception in the properties, because no
check in the code prevents it: a run on a batch that is live deletes its versions and
puts open rows in their place, superseding nothing (`relisted`), a run that started
on a held batch takes it off search without reopening anything (finding 3), and a
file may name a code twice (`twice`). The properties say that nothing else is
disturbed: no other batch's rows, no other code, no other version.

Abstracted: sheet names and `renameBatchSheet`, an item's other fields, audit
rows, timestamps. Versions are ordered by id where `holdBatch` orders them by
`valid_from` and then id; these differ only when a manual edit commits during a
parse.

### ParseJob

One file per batch (`file_sha256` is unique). `run[w]` is a call of
`processBatchJob` with the status it read first and the one it read again;
its steps are the points where other transactions can fall: `StartRun` (lock,
read), `WriteRows` (rows, second read), `SaveBatch` (commit), `FailRun`
(rollback), `RejectBatch` or `RejectFails` (the second transaction),
`CompleteJob`. `SkipRun` is a run that does not get the advisory lock.
`RetryRead` and `RetrySave` are the two halves of `retryBatch`, which checks the
status outside of its transaction and saves the copy it read; a second upload of
the same file calls it too. `SendJob` and `SendFails` follow a commit.

pg-boss is external: it hands out the next job when the handler returns or its
job has expired (`ExpireJob`, the handler goes on), and delivers the job of a
crashed process again. Postgres' part: the advisory lock of the batch
(`Writers`), and the key-share lock that inserted rows hold on their batch row,
for which publish and hold wait (`RowLocked`). `again` is a history variable.

### Accounts

`role`, `active`, `ver`, `pw` are columns of `app_user` (`pw` counts password
changes). `update[t]` is a transaction of `UsersService.update` between its
locks: `BeginUpdate` locks and reads the account, `LockSteward` locks one row of
the stewards' query and looks at it again as Postgres does after a wait, and
`SaveUpdate`, `RefuseUpdate` or `AbortDeadlocked` ends it. `login[q]` and
`change[q]` hold what `login` and `changePassword` have read across their
awaits. `Accepted` is `JwtStrategy.validate`.

Abstracted: which role may call which route, and that an admitted request acts
even if its caller has lost access meanwhile; so the actor of an update is not
in the model.

`AccountRules` has neither locks nor versions nor waits: accounts, passwords and
the sessions that are let in. `Accounts` implements it under
`sessions <- LiveSessions` (the tokens of sign-ins that `validate` accepts, each
with the role and password it was given for): a step that writes an account is a
step of the rules, a sign-in takes effect when its token is signed, or never when
the account has changed since, and everything else is a stutter. The tokens of
password changes are outside of it; finding 4 is why.

### SearchCache

`cache[s]` is the entry of a slot: the fixed facets, the list of extra columns,
or one extra column. `call[k]` is a call that found nothing to serve: `Begin`
looks, `Query` is the snapshot of one of its queries (the fixed facets run `FacetQueries`,
three in the code), `Fill` stores the answer, `Fail` gives up. `Commit` is the end of the
transaction of a publish or hold, `Clear` the `clearFacetsCache` that follows.
`CommitUncleared` is any other transaction that changes what search shows: a run of
the parse job on a batch that is live, its save of an old status, its failure handler,
a late save of `retryBatch`. None of them clears anything. `Tick` and `Restart` are
external.

Abstracted: an answer is the version of the catalog it comes from (how many
changes of what search shows had committed); an entry carries its age in ticks. The
field `overlapped` of a call and of an entry (a clear ran while the answer was
computed) and `silent` (the versions that came without a clear) are history.

### Layouts, MergeIdentity, Intake

A sheet is a sequence of rows, a row a sequence of cell texts; `NormalHeader` is
`normalizeHeader`, given as a function. An alias is stored as it is written and
converted in two ways: `Lower` is `trim()` and `toLowerCase()` of JavaScript
(`normalizeAlias`), `SqlLower` is `lower(trim())` of the query for live rows
(`service.ts:399`), which trims spaces only. `Fetched` is what that query returns for the
aliases of a file, `ToldApart` an alias that the two convert differently.
`Layouts` has the four detectors of `item-layout.registry.ts` as records
(`required`, `first`, `code`, `names`, `captured`), `LayoutOf` the first that accepts a
row as a header, `CodeOf`, `NameOf`, `Skips` and `ParsedItem` what a row under it is.
`MergeIdentity` has `identityKey` and `Kept` (`dedupeByAlias`), the lookup of a
row in the live catalog and its outcomes (`Refused`, `Unchanged`, `Incoming`).

| action of `Intake` | code |
|---|---|
| `OpenSheet`, `EndSheet` | start and end of `ingestSheet` |
| `FindHeader`, `ScanRow` | a row tried as header; after `HeaderLimit` of them the sheet is given up |
| `ParseRow` | a row below the header: an item or a reported skip |
| `Merge` | the merge loop of `processBatchJob` on the finished `ParseResult` |
| `EditItem`, `DeleteItem` | a steward's manual edit while the file waits |
| `PublishBatch` | `publishBatch`, on items instead of versions |

`ScanMatchesSheets` says what the scan of a whole file comes to without scanning: a row
is named by its sheet and its place in it, a sheet's header is the first of its rows
that a layout accepts, and `Lists` places the items, in order and one to one, on the rows
below those headers that are not skipped.

An item stands for its fingerprint. `read` (the sheets so far) and `fresh` (the
catalog is as it was at the merge) are history variables.

Abstracted: reading xlsx, xls and csv into rows, the format of dates and numbers,
the wording of skips. `Intake` has items where `Catalog` has versions; the two
meet in `Files`, which `Catalog` takes as any sequence of codes, also with a code
twice: a file may name one live code under two aliases (the exception in `FileShown`).

What the code does here that a reader might not expect, and the properties
except: a `-` in the first of two code columns makes the row a skip although the
second column has a code; a `-` alias is an identity like any other; a live item
whose alias ends in a tab is not found by the file that has the same alias, and is
there twice after the publish (the exception `ToldApart` in `AliasesStayUnique`).

### ObjectStore, Backup

`object[f]` is what the path of content `f` holds (absent, partial, whole), `rows`
the committed `source_file` rows, `upload[u]` an upload between its awaits (exists?,
open, write, stored), `reading[f]` and `parsed[f]` the job's copy of the object.
`OpenWrite` empties the path, `FailWrite` removes it, both whoever else is writing;
`Crash` leaves what there is.

`Backup` adds the files of the backup directory, which `backup.sh` writes under their
final names: `BeginBackup` opens the dump, `NextFile` ends it and opens the archive
(or none, without an uploads directory), `ArchiveObject` is `tar` coming to one object,
`FinishBackup` ends the archive and prunes by age. `StopBackup` is `set -e`, a full disk
or the host stopping at any point in between: what was written stays, cut off (`whole`
is false), with the newest stamp. `RestoreDatabase` and `RestoreUploads` run while the
backend is stopped. `latest` takes the newest file of each kind, cut off or not:
`RestoreCutDump` is `pg_restore` meeting the end of a dump, after which the tables are as
before, empty, or filled, and the script stops; of an archive that was cut off any
object may be missing or end early (`Extracted`).

History variables, each marking the cause an invariant excepts: `cut` (a write of
the file was cut off, or an archive took it half-written), `shared` (two uploads
had the file in hand together), `mixed` (a restore brought rows back without the
objects of the same backup, or with part of them). The three exceptions are real: `put`
takes any existing path for complete; a second upload may commit while the first is
still writing; `latest` picks the newest dump and the newest archive independently, and
takes a file that was cut off. `PairIsComplete` speaks of pairs whose two files were
finished; of a backup that was stopped nothing can be promised.

Abstracted: contents, temporary copies, everything of the database but `rows`; what
`pg_restore` has done when a dump ends is one of three outcomes for those rows.

### UploadFlow

`status` is the server's, `address` the batch id in the address, `shown` the batch
on the page, `dialog`, `act` (the publish, hold or retry under way) and `loads` (the
calls of `loadBatch` under way, a bag: nothing identifies or cancels them). A
request is sent, served (`ServeLoad`, `ServeAct`) and answered (`LoadAnswer`,
`ActAnswer`, or `LoadFails`, `ActFails`) in separate steps; `Parse` and `Elsewhere` are
the job and other stewards. A handler or effect of the page is one action.

History variables: `opened`, the batch whose dialog was opened on a quiet page;
`disturbed`, whether a request about another batch was under way, or one was lost,
since the address last changed. Without these two exceptions the properties fail:
an answer of a poll puts the batch the user has left back on the page, also under
an open dialog. Cancel is disabled in both dialogs while a request is under way
(`busy`). A dialog whose batch changes its status under it is not shown
any more but still open, until the address changes.

Abstracted: the upload as a request of its own, notes, the skipped rows, the
destination picked when publishing.

### ItemDrawer, CatalogPage

`address` is `searchParams`, `previous` the browser's entry before it, `draft` the
text in the box and the filter that is picked, `timers` the 300 ms delay with the
address of the render that began it, `requests` and `result` the searches,
`exporting` and `notice` the export, `creating` the saves of a new item. A change of the
address takes two steps, because `BrowserRouter` (`main.tsx:10`) renders it in a
transition and the effects of the page are passive. `Goes` writes it (`going`); until
`Arrive` renders it, keys are typed, handlers see the address of before, and another
change may take its place. `Arrive` runs the effects that depend on the address:
`Searches` (cancel and search again), `Follows` (drafts, delay, notice), `Turns` (the
drawer). `ItemDrawer`
has the drawer's item `history`, its `loads` (cancelled when it turns) and `works`:
saves, removals and the reads after them (`refetchHistory`, not cancelled).

`overtaken` in an export and in a drawer's work is a history variable, and an
exception with a cause in the code: an export that ends after the search
changed sets its notice anyway, and a save that ends after the drawer turned
shows the item that was saved while Delete removes the one of the address.

`typed` (of `going`) and `lost` are history too, for the two things that can happen
between `Goes` and `Arrive`. A key typed after the delayed search has fired is
overwritten when its page arrives, by `setDraftQ(q)` (`CatalogPage.tsx:298`):
`TypingIsKept` excepts it, and changes of the address that the user or the end of
saving a new item made. A click handled before the search for the text has been
rendered writes the address without that text, and no timer is left to search for it:
`CatchesUp` excepts it (`lost`). Both exceptions are needed; without either, TLC finds
the behaviour described.

Abstracted: the three fixed filters as one, the filters on uploaded columns, the
options of both, selection, row density, the form's fields, the upload tab.

## 3. The runs

| run | instance | shows |
|---|---|---|
| `catalog` | 3 batches, 2 codes, 3 row ids, 2 of the batches uploads, 3 files (one with an extra column, one with both codes, one that names a code twice), 1 manual request and 1 run at a time, 1 failure, repetition or retry | all invariants and action properties of `Catalog` |
| `catalog_republish` | the same without manual requests, failures and repetitions | finding 1 |
| `catalog_hold_deleted` | 3 manual batches, 1 code | finding 2 |
| `parse_job` | 1 file, 2 runs, 1 retry in flight, 2 jobs, 2 faults | mutual exclusion, status and parse agree, when a batch is parsed once, no batch stuck |
| `parse_job_stale_save` | the same, no faults | finding 3 |
| `accounts` | 2 people, 2 updates, 1 sign-in, 1 password change, 1 token | stewards, sessions, no hanging update, `AccountRules` implemented |
| `accounts_password` | 1 person | finding 4 |
| `search_cache` | 2 columns, 2 calls, room for 1 column, 2 queries for the fixed facets, 1 tick to live, 2 changes of search, with a clear or without | when an answer can be old, the size of the cache, convergence |
| `intake` | 8 rows (three headers, one short row, four items), 2 sheets, 4 rows in all, 2 header rows tried, 3 catalogs (one with an alias that ends in a tab) | the scan against a definition sheet by sheet, what a publish shows, aliases |
| `backup` | 1 file, 2 uploads, 3 backups that may stop at any point | committed files are stored, parses see whole files, a finished backup is complete |
| `upload_flow` | 2 batches, 2 loads, 3 moves, 1 lost request | the page and its address agree, confirming, moving on |
| `catalog_page` | 2 texts, 1 filter, 2 items, 2 pages, 5 moves, 1 failed search or export | what is shown is about the address, when typing is kept, the search catches up |

### Why the bounds are enough to be interesting

`catalog`: superseding, absorbing and restoring relate at most three batches (one
taken off, one that becomes live, one that stays) and three versions of a code;
two codes let an action on one disturb the other. Two of the batches are uploads and
the third is manual. The two are interchangeable, so
the run uses their symmetry (it checks no liveness). One fault is a job delivered again
for a batch that is held or live, a failed run or a retry: each of the exceptions
occurs with one, and each is needed. A held batch whose manual
request has ended stays publishable by anybody, so one request in flight loses
nothing but overlaps of two, and those are covered by ordinary publishes.
`parse_job`: overlap needs two runs; the third run would find the lock taken like
the second. Two faults let a crash follow an expiry. Different files share
nothing but the worker. `search_cache`: room for one column and
two columns make the cache overflow while the other call computes; two changes
let a call begin before the first and end after the second, and one of them clear the
caches and the other not; two snapshots of one answer may see different catalogs, as
three may. `accounts`: the race for the last steward needs two
stewards and two updates; the version bound allows an end of session and a
return of access, and one token is enough because every property speaks of one
token at a time (a second sign-in follows its expiry). `intake`: two sheets
show what one leaves to the next; four rows are a header and three items, or two
headers and an item under each, so two rows of one identity and two aliases of one code
occur; the code tries 20 rows as header, the run 2, and the count only matters at
its limit. `backup`: files share no path, so one is enough; a second upload can be
at any step of the first, and three backups let one be pruned and one be cut
off while a pair remains. `upload_flow`: an answer strays with two batches and two
loads; three moves go away and come back. `catalog_page`: two texts and two items
give every answer a wrong question to arrive at, five moves allow typing, going
elsewhere and typing again with a search and an export open.

Bounds (`MaxRow`, `MaxRequests`, `MaxRuns`, `MaxJobs`, `MaxFaults`, `MaxVersion`, `MaxTokens`,
`MaxSheets`, `MaxRows`, `MaxBackups`, `MaxLoads`, `MaxMoves`, `MaxPage`,
`MaxFailures`) appear in guards only. Deadlock is checked except in `upload_flow` and
`catalog_page`: there a user whose moves are used up may leave the page idle. In the
others something is always possible (a crash, a retry, a reset, an expiring token),
and `Intake` says when it is done (`Finished`).

### Fairness

`ParseJob`: weak fairness of the steps of a run, of `SendJob` and `RetrySave`
(straight-line code in a live process), strong fairness of starting or skipping a
run (the queue hands jobs out in order), and strong fairness of `RetryRead`: users
retry a batch they see stuck or failed, as the page invites them to. That last
assumption is needed: a job lost between commit and send has no other recovery in
the code, and `Settles` fails without it. Nothing makes a fault or a failure
happen, and nothing makes a parse succeed. `Accounts`: weak fairness of ending an
update and of Postgres' deadlock detection, strong fairness of a row lock, for
which Postgres queues. `SearchCache`: weak fairness of time, of `Clear` (it follows
the commit in the same call) and of queries and stores; none of publishing, so that
`Converges` speaks of what happens when it stops, which `MaxVersion` makes certain.
`UploadFlow`: weak fairness of serving and answering each request, strong fairness of
the poll, an interval timer; strong only because the bound on loads lets other
requests take its room. Losing a request is possible, not fair. `CatalogPage`: weak
fairness of the delay, of rendering (`Arrive`) and of answers; `MaxMoves` makes
the user stop, which is what `CatchesUp` presupposes. Of ordinary steps nothing else is assumed.

## 4. Findings

1. **Republishing hides items** (`service.ts:665`, run `catalog_republish`).
   File A is superseded by file B, A is taken off and published again: B's
   versions are closed and A's stay closed. Against `docs/ARCHITECTURE.md:20-21`.
2. **Hold resurrects deleted items** (`service.ts:803`, run
   `catalog_hold_deleted`). Add, delete, add again, hold: the version from before
   the deletion is live. Against `docs/ARCHITECTURE.md:189-191`.
3. **A second run un-publishes a batch** (`service.ts:567`, run
   `parse_job_stale_save`). The run saves the status it read at its start, against
   its own comment.
4. **A password change survives a reset** (`auth.service.ts:127`, run
   `accounts_password`). The new token is signed with a version read after the
   transaction. Against `docs/ARCHITECTURE.md:309-312`.

## 5. What is proved

TLAPS proves, for every value of the constants, every invariant and every action
property that the passing runs check, and the refinement `ImplementsRules`. In the
names below, a theorem is followed by the property it states.

The theorems have no hypotheses: each is `Spec => ...`, from the assumptions on the
constants alone. What the code does not ensure is an exception in the property.

`CatalogProofs`: `TypeCorrect` (`TypeOK`), `OtherUploadsUntouched`
(`HeldRowsUntouched`), `VersionsAreKept` (`HistoryKept`), `SearchChangesByItsCodes`
(`OnlyItsCodes`), `AbsorbedBatchIsEmpty` (`AbsorbsWhole`), `ExportColumnsAreCovered`
(`HeadersCoverRows`), `SearchIsUnambiguous` (`UniqueVisible`), `ItemsSurviveHold`
(`HoldKeepsCodes`), `HoldCanBeUndone` (`UndoIsExact`).

*Argument.* `UniqueVisible` is not inductive: a held batch with two open versions
of one code breaks it when it is published. The invariant `IInv` therefore adds
`OneOfferPerBatch`, which speaks of batches that are off search as well: publishing
closes the versions of other batches, and `OneOfferPerBatch` takes care of its own.
That is kept by absorbing because the rows that arrive have just closed those of
the same code, and by holding because a version is reopened only for a code that
is live nowhere else, and only the newest. A run of the parse job inserts one open row
per code unless the file names it twice, and says so in `twice`. `RowsInv` (rows belong to
batches that exist, ids above the sequence are unused, `relisted` names live
batches) is enough for the action properties. The actions of the pipeline that touch
no row are treated together (`Pipeline`, `StalledRows`).

`HoldKeepsCodes` needs the types only. A code that is live nowhere else after a hold has,
among its closed versions in published files, a newest one (`NewestRow`, by the library's
well-foundedness of the naturals), and that is the one the hold reopens
(`HoldRestores`); it may be an older version than the one in the property, which is why
the property speaks of codes. `UndoIsExact` needs the types only as well, and follows
row by row (`UndoRow`): no other batch showed a code of the file, so whatever of such a
code is shown elsewhere after the hold is what the hold reopened, and publishing again
closes exactly that. No order between the publishes of a code's versions is
needed. Where another batch shows a code of the file, the second publish would close
a version the hold never touched, which the property therefore excludes.

`AccountsProofs`: `TypeCorrect` (`TypeOK`), `AStewardIsLeft`
(`AlwaysASteward`), `LoginsFollowTheAccount` (`LoginTokensAreCurrent`),
`EndedSessionsStayEnded` (`NoRevival`), `ServesAtOneInstant` (`ImplementsRules`).

*Argument.* Whom an update has counted as a steward it has locked, and locks
exclude each other (`UpdatesInv`, `LocksExclude`), so nobody it counted can stop
being a steward before it commits. A token whose version is the account's was
signed for what the account still is (`Current`), because deactivation, a change of
role and a new password each raise the version; the versions only grow.

For the refinement, one lemma per action that writes something says which rule it is. The
invariant gives what they need: the stewards an update has
counted are stewards when it commits, all live sessions of an account are alike (so one that
expires is a sign-out), and a token signed late is one for the present account or is
refused. Raising the version ends the sessions of that account and of no other
(`SessionsEnd`).

`SearchCacheProofs`: `TypeCorrect` (`TypeOK`), `OldAnswersOverlapped`
(`StaleOnlyByOverlap`), `CacheIsBounded` (`CapHolds`).

*Argument.* `StaleOnlyByOverlap` looks at entries; what enters comes from calls. The
invariant adds `CallsMissSilent`: while nothing waits to be cleared, a call that no
clear overlapped misses only versions in `silent`. A commit makes
`clearing` positive, and the clear that brings it back to 0 marks every call. The
size of the cache follows from the fact that storing adds one entry at most.

`IntakeProofs` (among the assumptions: a live catalog names a code once):
`TypeCorrect` (`TypeOK`), `ScanIsComplete` (`ScanMatchesSheets`),
`PublishKeepsAliasesUnique` (`AliasesStayUnique`), `PublishShowsFile` (`FileShown`).

*Argument.* `TypeOK` needs that a row is left to try while a sheet has no header
(`ScanInv`) and that a sheet is read only after it was opened (`ReadInv`). The two
action properties follow from `PendingInv` (what waits was decided against the
present catalog, if that is fresh) and two lemmas about the operators alone:
`MergeKeepsAliasesUnique` and `MergeShowsFile`. The first rests on `FindsAlias`: a live
item of the same alias is fetched for a row of the file unless the database converts
its alias to something else.

`ScanMatchesSheets` speaks of finished sheets and is false while one is open. `SheetsInv`
says it of any prefix: the items list the accepted rows of what has been read, the
counts are those of the rows and sheets of that (`CountsRows`, `CountsSheets`), where a
sheet that is open and has no header yet is counted nowhere so far (`Untold`), and the
detector and the header of the scan are those of the open sheet (`OpenSheetRead`). That
a sheet's header stays what it is as rows are appended is `HeaderIsFirst`, that one more
row is below it or is it, `RowBelow` and `RowIsHeader`; `ListsOneMore` extends the
placing of the items by one. The counts use the library's theorems on finite
sets. The property is stated by places rather than by folding over sheets because what a
fold computes for every input takes induction over data, which is out of the prover's
reach.

`ParseJobProofs`: `TypeCorrect` (`TypeOK`), `RunsExclude` (`OneWriter`),
`PublishableIsParsed` (`HeldIsParsed`), `OneParseUnlessRepeated`
(`ParsedOnceUnlessRepeated`).

*Argument.* `OneWriter` and `HeldIsParsed` are inductive with the types, because what a
run has read is part of its step (`TypeOK`) and the lock is looked at when it starts.
`ParsedOnceUnlessRepeated` is not: it counts, and does not say that a run under way
excludes the job still being in the queue. `OneJob` says where the one job of an
unrepeated batch is: with its request, in the queue, or with the only run it ever
has; and no retry is under way for such a batch (`JobsInv`).

`BackupProofs`: `TypeCorrect` (`TypeOK`), `CommittedFilesAreStored`
(`CommittedIsStored`), `ParsesSeeWholeFiles` (`ParsedIsWhole`), `BackupsAreComplete`
(`PairIsComplete`).

*Argument.* The three lean on each other, so they are proved together, file by file
(`SoundFile`): what is committed or stored is on disk and a path that holds half a
file has a stream that will complete it (`OnDisk`), two uploads of one file are
marked as soon as they meet (`Marked`), and an archive has whole what the dump with its
stamp names, or has yet to come to it (`Archived`). A pair is complete because the dump
of a backup under way names rows that are still there (`StampsInv`), so that `tar` finds
their objects whenever it comes to them; a file that was stopped half way keeps what it
has. A restore is whole because the pair it takes is complete and nothing runs meanwhile
(`RestoreInv`). `TypeOK` needs that a non-empty
set of stamps has a greatest one (`GreatestStamp`, again by well-foundedness).

`UploadFlowProofs`: `TypeCorrect` (`TypeOK`), `PageShowsAddress` (`AddressIsShown`),
`DialogsActOnTheirBatch` (`ConfirmedIsOpened`).

*Argument.* `AddressIsShown` says something only when nothing is loading. The
invariant says why it will hold then: as long as the page is undisturbed, everything
under way is about the address, and a page that does not show its address waits
for a load (`AwaitsAddress`). A dialog that was opened on a quiet page finds the page
still quiet when it is confirmed (`StaysQuiet`): whatever could disturb it has
closed it. Loads are a bag, whose library has no theorems; the few facts needed
(what is in a bag after one is put in or taken out) are lemmas of the module.

`CatalogPageProofs`: `TypeCorrect` (`TypeOK`), `PageShowsItsAddress`
(`ShownIsCurrent`), `NothingRetypes` (`TypingIsKept`).

*Argument.* Whatever has neither been cancelled nor overtaken is about the address:
searches and their timer (`SearchesCurrent`), the export and its notice
(`ExportsCurrent`), the loads and works of the drawer (`DrawerCurrent`). All actions that
go somewhere set out alike (`NavigateStep`) and arrive in one step (`ArriveStep`). For
`TypingIsKept` the invariant gives that a delay that is still running holds the text of
the box, because typing cancels the delay before it, and that a change of the address
which the delayed search made has the text of the box until a key is typed (`DelayKept`).

Only model-checked: the liveness properties `Settles`, `NoUpdateHangs`, `Converges`,
`MovesOn` and `CatchesUp` (liveness under fairness, and with it `ENABLED`, is out of the
prover's reach).

## 6. Plan

Done: 1 `Catalog`, 2 `ParseJob`, 3 `Accounts`, 4 `SearchCache`, 5 `Layouts`,
`MergeIdentity` and `Intake`, 6 `UploadFlow`, 7 `ObjectStore` and `Backup`,
8 `ItemDrawer` and `CatalogPage`, 9 `AccountRules` as the abstract specification of
`Accounts`; proofs about `Catalog`, `ParseJob`, `Accounts`, `SearchCache`,
`Intake`, `Backup`, `UploadFlow` and `CatalogPage` with `ItemDrawer`: 10 `HoldKeepsCodes`
and `UndoIsExact`, 11 the upload page, 12 the search page, and the scan of
`Intake`. Next:

13. `LiveCatalog`: an abstract catalog (what is in search by code, which files are
    live) and `Catalog` as its implementation, where findings 1 and 2 say it is one.
14. The CSV reader as a recursive function over characters, against a reference.

## 7. Not modelled

Reading a workbook or a CSV file into rows, and the format of dates and numbers (library
calls and formatting; an `Intake` row is what they return), role checks per route
and the HTTP layer (static), the audit log (written, never
read by a decision), migrations and seed (run once; their constraints are stated
as assumptions), the ranking of search results (SQL), rendering, export formatting, host supervision scripts (they
restart whole processes, which `Crash` covers), and the fields of items except where
a property is about them.
