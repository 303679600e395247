# TLA+ models of Roundup, black and pyperf

The repository is a bundle of projects of the Python Software Foundation. Three of
them have a core of their own that is stateful, concurrent and easy to get wrong:

* **Roundup** (`src/bpo-roundup`), the issue tracker behind bugs.python.org: its
  *hyperdb*, a store of nodes with properties, links and journals, with
  transactions, on dbm files or an SQL database; and the programs around it, the
  web interface and the mail gateway, whose requests and runs overlap and end early;
* **black** (`src/black`), the code formatter: a run formats many files in a pool of
  processes and remembers in a cache file which ones need no formatting;
* **pyperf** (`src/pyperf`), the benchmark runner: a manager that calibrates a
  benchmark with one worker process after the other before it measures.

This project models these parts, checks the models with TLC and proves with TLAPS, for
every value of the constants, the safety properties that the passing runs check (of one, that
the journal tells what an edit replaced, the part that holds on every database).

Paths below are relative to `src/bpo-roundup/roundup/` unless they begin with `src/`.

## 1. Inventory

### The bundle

| Project | What it is | Here |
|---|---|---|
| `src/bpo-roundup` | the issue tracker | modelled, see below |
| `src/bpo-tracker-{cpython,jython,roundup}` | schemas, detectors and templates of three deployments | configuration of Roundup, not modelled |
| `src/bpo-rietveld`, `src/bpo-django-gae2django` | code review application on emulated App Engine interfaces | request handling, not modelled |
| `src/black` | code formatter | its cache, its process pool and its exit code are modelled; formatting itself is a transformation of syntax trees |
| `src/requests`, `src/requests-html` | HTTP client libraries | third-party; what they keep between calls is in the libraries below them; not modelled |
| `src/pyperf` | benchmark runner | its manager, calibration and workers are modelled |
| `src/psf-tuf-runbook`, `src/matterbridge-configuration` | procedures, provisioning scripts, configuration | no program to model |
| the other directories | policies and lists | text |

### Roundup's parts

| Part | State it keeps | Operations | Hard behaviour | What makes it correct |
|---|---|---|---|---|
| dbm store: `backends/back_anydbm.py` | per class a dbm file of nodes and one of journals, `_ids`; per open database a cache, `newnodes`, `destroyednodes` and a queue of commit methods | open/close, newid, create, set, retire, restore, destroy, lookup, list, find, count, hasnode, import, commit, rollback | edits alias the cached dictionaries the queue holds; an operation may raise half way; commit is a loop that may raise or die; the id counter is outside the transaction | a commit writes what the session saw; keys stay unique; the enumeration agrees with reads; journals agree with nodes; ids are never reused |
| SQL stores: `backends/rdbms_common.py`, `back_sqlite.py`, `back_postgresql.py`, `back_mysql.py` | tables; per connection an LRU cache of rows, a transaction, a list of file operations | as above, `filter_iter`; schema migration | several sessions at once; a cache inside a transaction that sees other commits; Multilinks fetched lazily and edited in place; an iterator that outlives edits; sqlite's newid commits | cached values are of this transaction; list and dictionary agree; a set writes what it was asked; a read raises only after a destroy |
| file contents: `backends/blobfiles.py` | `file` and `file.tmp` per FileClass node | storefile, getfile, doStoreFile, rollbackStoreFile, destroy | two commits that are not atomic together; readers repair a crash by renaming; several clients share one `file.tmp` | committed content is not lost; content never committed is not served |
| callers: `cgi/client.py`, `cgi/actions.py`, `mailgw.py`, `admin.py`, `xmlrpc.py` | one open database each | open, some operations, commit or not, close | what they do after an exception: stop and close (web, mail), commit all the same (a one-off `roundup-admin` command), go on (an XML-RPC multicall, an interactive `roundup-admin`) | a failed operation changes nothing |
| sessions and one-time keys: `backends/sessions_*.py`, `cgi/client.py` | web sessions, password-reset and csrf keys with a time stamp; the time of the last cleaning | exists, getall, set, updateTimestamp, destroy, clean, commit | each call is a step of its own, on dbm files even each key of a cleaning; deletions of an SQL table last only if the request commits | a session in use is kept; a logout is final; a recorded cleaning was one |
| edit collisions, auditors, reactors: `cgi/actions.py`, `cgi/templating.py`, `roundupdb.py`, detectors | the item's activity time, in whole seconds, in the item and in every page | submit, detectCollision, set_inner, commit | a form older than the item; two requests that pass the comparison before either commits; a page made from a transaction that is rolled back | no lost update; the journal tells what was replaced |
| full-text index: `backends/indexer_*.py` | words per property | add_text, find, save_index | updated before the commit, not rolled back | finds what is committed |
| security: `security.py` | permissions and roles | hasPermission | none; pure | - |
| mail gateway and mailer: `mailgw.py`, `mailer.py` | a mailbox file, POP maildrop or IMAP mailbox; the mails one run has listed, marked and handled | do_mailbox, do_imap, do_pop, handle_Message, bounce_message | removal, change, nosy mails and bounce are four effects with a crash possible between any two; runs overlap on IMAP; a bounce may fail or raise | no mail is lost; once per run; every mail is taken |
| templates, forms, dates, passwords, i18n, configuration, servers | little of their own | text processing and I/O | - | - |

### black's and pyperf's parts

| Part | State it keeps | Operations | Hard behaviour | What makes it correct |
|---|---|---|---|---|
| black's run: `black/__init__.py`, `cache.py`, `concurrency.py`, `report.py` | the cache file; per run the cache in memory, tasks, futures, sources_to_cache, the report | main, reformat_one, reformat_many, schedule_formatting, format_file_in_place, read_cache, write_cache, cancel, shutdown | several runs share files and cache; signals cancel tasks the pool has taken; a worker dies; a write is cut | a cached file is formatted; the exit code of --check is true; every source is counted; a cut file is reported; a run ends |
| black: formatting, command line, server | none | syntax trees | - | - |
| pyperf's manager: `_manager.py`, `_runner.py`, `_worker.py` | counters of a calibration, args.loops and args.warmups, the number of the benchmark in the main process and in the worker | create_bench, choose_next_run, handle_calibration, spawn_worker, the worker's computation | loops and warmups are calibrated in turn and restart each other; args outlives a benchmark | calibrations are bounded; values use their own calibration; a worker runs its benchmark; the program ends |
| pyperf: statistics, storage, system tuning | files | arithmetic, JSON | - | - |

How Roundup's parts interact: a caller opens a database (dbm: taking an exclusive lock file;
SQL: a connection), calls methods of its classes, and commits, rolls back or
closes. `Class.create/set/retire/...` run auditors, change the cache and the
queue (dbm) or rows and the cache (SQL), queue the file operations of
`blobfiles`, and run reactors. `commit()` writes the queue out, or commits the SQL
transaction and *then* runs the queued file operations. The web client keeps its sessions
in a store beside the database (dbm) or over a connection of its own (SQL), which is
committed when the request's actions commit; the mail gateway handles each mail in a
transaction of its own and sends mails from inside it.

The hazards this leads to are listed one by one, at their lines, under `hazards`
in `PROJECT.json`, with the property that watches each.

## 2. Modules

| Module | Models |
|---|---|
| `HyperdbContract` | what `hyperdb.Database` promises of a transaction, for any back end: edits change the session's view only, a commit makes the store equal to the view node by node, every other end of a transaction makes the view the store again; after an exception nothing is promised of the view and it must not be committed |
| `AnydbmStore` | `back_anydbm.py`: one class with a key property `name` and a Link `ref` to itself |
| `AnydbmProofs` | the theorems about `AnydbmStore` |
| `MCAnydbmStore` | values for its constants |
| `BlobFiles`, `MCBlobFiles` | `blobfiles.py`: one file, several clients, one step per file-system call |
| `BlobFilesProofs` | the theorems about `BlobFiles` |
| `RdbmsCache`, `MCRdbmsCache` | the row cache and the transaction of `rdbms_common.py`, newid of `back_sqlite.py` |
| `RdbmsCacheProofs` | the theorems about `RdbmsCache`, and lemmas about lists of keys |
| `WebEdit`, `MCWebEdit` | editing one item through the web: pages, `EditItemAction`, other interfaces, the database's isolation |
| `WebEditProofs` | the theorems about `WebEdit` |
| `WebSessions`, `MCWebSessions` | the sessions of `client.py` and both stores they are kept in |
| `WebSessionsProofs` | the theorems about `WebSessions` |
| `MailGateway`, `MCMailGateway` | runs of `mailgw.py` over the three kinds of mailbox |
| `MailGatewayProofs` | the theorems about `MailGateway` |
| `BlackRun`, `MCBlackRun` | runs of black over shared files and a shared cache |
| `BlackRunProofs` | the theorems about `BlackRun` |
| `PyperfManager`, `MCPyperfManager` | pyperf's main process, manager and workers |
| `PyperfProofs` | the theorems about `PyperfManager` |

In each module, definitions whose comment says *(mutant)* are not part of the
specification: each is a plausible mistake in the definition after it, and
`PROJECT.json` says which property finds it.

### AnydbmStore

State and code: `disk` and `journal` are the dbm files, `counter` is `_ids`,
`cache`, `newnodes`, `destroyed` and `queue` are `Database.cache`, `newnodes`,
`destroyednodes` and `transactions`. `phase` says whether a Database object exists
(one at a time: its constructor takes the lock file and `close` releases it) and whether
it is inside `commit()`; `at` is the position of the loop in `commit()`. `failed` and
`outcome` record what the caller knows: whether an operation of the transaction
raised.

Each operation of a Class is one action, with its exception path as another
(`CreateOk`/`CreateRaises`, `SetOk`/`SetRaises`). `commit()` is one action per
queued method. Three things of the code are worth pointing at.

* `doDestroyNode` deletes a node and then, in another file, its journal: two steps,
  `DoDestroyNode` and `DoDestroyJournal`, between which a commit may raise or die.
* A queued save holds the dictionary that is in the cache, so `DoSaveNode` writes
  `cache[id]` as it is when the commit runs.
* `SetRaises` keeps what `set_inner` did before it raised: properties come in
  dictionary order, so any subset of the good ones may already have been assigned
  into the cached node and their links journalled.

A queue entry is what the properties tell apart: an operation, an id and a journal
action. `destroynode` removes entries from the queue; the model turns them into
`removed`, which does nothing, so that positions do not move.

`caller` is the kind of session: `web` (also mail: an exception ends the request
without a commit), `operator` (an interactive `roundup-admin` user who rolls back
after an error), `oneoff` (`roundup-admin` with a command), `multicall` (XML-RPC),
`interactive` (an operator who ignores errors).

### BlobFiles

`file` and `tmp` hold a version number; `last` and `ever` record what was committed.
A client is a session; `Sharing` says which sessions may overlap. Reading is five
steps (`exists`, `tempexists`, `cleanup`, `recheck`, `read`) because between the
calls of `os.path.exists` and `os.rename` in `filename` another process runs. `crashed` and
`stranded` are history: a client died between the SQL commit and the rename, and did so before
it had removed an older `file`, which readers will take for the content until the next commit.

### RdbmsCache

`base` are the committed rows, `sql` the rows as this connection reads them, `cache` and
`lru` the two halves of the cache, `rows` what an open `filter_iter` has still to yield.
`SetOk` writes the *difference* from the node `getnode` returned, as `setnode` does.
An operation that meets the KeyError of `_cache_save` fails (`failed`): a set that cannot read its
node stops before it writes (`SetCannotRead`). `commit` may raise after the SQL transaction was
committed and before the cache is cleared (`CommitRaises`). `destroyed` and `seen` are history: the
ids destroyed since the cache was last cleared, and what the connection could have read.

### WebEdit

`row`, `activity`, `edits` and `entry` are the item and its journal as committed;
`fields`, `stamp` and `told` are a user's page: the form, its `@lastactivity`, and (history)
what the user was shown or warned of. A form may have no `@lastactivity` (`NoStamp`): then nothing
is compared. A request reads the node once and keeps it
(`cached`, `read`); `version` says after how many edits. `Submit` is `handle` up to the
comparison, `SetBegins` takes the time, `SetWrites` is the UPDATE, which locks the row,
`Commit` the rest. `EditElsewhere` is any other interface, `Reject` an auditor.
`FirstUpdaterWins` is a database above read committed (PostgreSQL); `Quick` lets two edits
fall in one second; `RejectLate` lets an auditor reject after the item was written (of
another item of the form).

### WebSessions

A request goes through `Session.__init__` (`Begin`, `Load`), `clean_up` (`CleanUp`, `Look`,
`Destroy`, `Stamp`), `determine_user` (`Identify`), `opendb`, which may do the first again
on a new database (`Reopen`), and an action that logs in (on a new session or on the one it came
with, and perhaps to be remembered, which updates the entry once more: `Remember`), logs out,
commits, or none. Whether the database is opened again is open in `Identify`, since it depends
on the optimisation in the configuration, on HTTP authorization and on who the user is. `cookie`
is the key the browser sent, which may name a session that is gone. An entry that is there keeps its
time when a login writes to it (`sessions_dbm.py:91-96`); `backdated`, history, are the sessions of
such logins if that time was more than a minute ago. `deleted` is what an SQL connection has deleted
and not committed; other connections wait for those rows (`Unlocked`).

### MailGateway

`spool` are the mails on the server or in the file, which are numbered as they arrive, and
`flagged` those that IMAP has marked as deleted; a run's `listed` are the mails it found and
`handled` those it is through with, which POP deletes when the run quits. A run lists the mails,
and for each: fetches (and on IMAP marks) it, parses, changes, commits or bounces it, and
removes at the end. `Abort` is an exception that leaves the loop, with
`do_imap`'s expunge on the way out, `Crash` is a process that is gone. A mail is only
its `kind`, what `handle_Message` makes of it: without a sender, and so dropped ("unsigned");
raising `IgnoreMessage` ("ignored"); refused before its author is committed ("refused") or
after that ("rejected"); or a change of the tracker ("good"). All are of one author, who
has no account at first: `Enroll` commits one, before the message is accepted. What the gateway
does not raise itself goes to the catch-all, which bounces twice, to the sender (phase "early" or
"fault", without and with a committed author) and to the administrator ("report").

### BlackRun

A file is what formatting would do with it, and a stamp for its mtime and size; between the
truncation and the end of a write it is "cut". Per run, `job` is the call in a worker
and `future` what the event loop knows of it: a cancelled future's call may go on. `LoopTurn`
is one turn of `while pending`, `CollectStamps` and `ReplaceCache` the halves of `write_cache`,
between which, as anywhere, other runs work. `Cancel`, `PoolBreaks`, `Kill`, `WriteFails` and
`ReplaceCacheFails` are the faults; `seenGood` is history for --check.

### PyperfManager

One state machine over the script (`BeginBench`, `EndBench`, for each benchmark and each
Python of --compare-to), the manager (`Spawn`, `Alternate`, `Collect`, the three outcomes of
a worker) and the worker, which numbers the benchmarks of the script for itself
(`WorkerSkips`, `WorkerExecutes`). What a calibration finds is any value.

## 3. Runs

All constants are in the `.cfg` of a run.

| Run | Checks | Shows |
|---|---|---|
| `anydbm_careful` | `TypeOK KeyUnique EnumerationMatchesReads JournalMatchesNodes IdNeverReused RefinesContract` | with callers that drop a failed transaction everything is right, destroy included |
| `anydbm_faulty` | `JournalAheadOnlyInDestruction RefinesContract` | what is left when a commit raises half way or the process dies in it, with imports too |
| `blob_files` | `CommittedContentKept ServesLatest ServesOwnEdit ServedWasCommitted` | one editor at a time or several readers, crashes between commit and rename and the repair after them |
| `blob_lost_commit` | `CommittedContentKept` violated | a reader's repair of a commit that is still under way makes the commit delete the content |
| `rdbms_cache` | `TypeOK LruMatchesCache CacheIsOfThisTransaction SetTakesEffect ReadsFailOnlyAfterDestroy` | a cache smaller than the table, other sessions, destroyed nodes, commits that raise, callers that roll back |
| `web_edit` | `TypeOK NothingUnseenIsReplaced JournalTellsHistory` | on a database that refuses the second of two updates no edit from a form with `@lastactivity` replaces what its author did not see |
| `web_lost_update` | `NothingUnseenIsReplaced` violated | at the default isolation level it may |
| `web_sessions` | `TypeOK KeptWhileUsed LogoutIsFinal CleanerLeavesNothingOld` | sessions on both stores, cleaned and logged into while they are used |
| `mail_gateway` | `TypeOK NoMailIsLost OncePerRun OneAccountPerAuthor EveryMailIsTaken` | two mails of one author, two runs, one of which may end early anywhere, one failure, on every kind of mailbox |
| `black_runs` | `TypeOK CachedIsFormatted CheckTellsTruth EverySourceCounted CutIsReported RunsEnd` | two runs of black, overlapping or with an editor in between, and one fault |
| `black_interrupted` | `ZeroMeansUnchanged` violated | an interrupted --check exits with 0 |
| `pyperf_manager` | `TypeOK CalibrationBounded ValuesUseCalibration WorkerRunsItsTask ProgramEnds` | two benchmarks, two Pythons, any calibration |

Each violated run is a disagreement between the code and one sentence of its docs
or comments; `findings` in `PROJECT.json` quotes it.

### Bounds

* dbm and SQL stores: `MaxId` ids, `MaxOps` operations in a whole behaviour (reads, commits,
  rollbacks and opens are not counted, and in `rdbms_cache` creations neither, which `MaxId`
  bounds), `CacheSize`. Two ids let two nodes compete for one of
  two keys, link to each other, be retired, restored and destroyed; five operations let a
  transaction retire, reuse the key and try to restore, and the next one use what was
  committed. The counterexamples under the other settings below take two to four
  operations. A cache of one under two nodes evicts at each read of the other, which is where
  list and dictionary could part; that they do not in a larger one is proved.
* files: `MaxVersion` contents. Two clients are enough for every race on two files because a
  step touches one file at a time; three are used where readers race.
* `web_edit`: two users, two fields, three values (a lost update needs an old value and one
  of each user), two edits and three seconds: a form that is older than an edit, two requests
  at once, and a second try after a refusal.
* `web_sessions`: a minute, hour and week of 1, 2 and 3 ticks; six ticks let a session grow old
  after having been renewed, and be found so by a cleaning that is not the first. Two requests
  are as many as meet in any of the races.
* `mail_gateway`: two mails (one before and one after the other in a mailbox, and an author
  whose second mail finds the account), two runs, one that ends before its time, and one failure
  (`MaxFaults`). `MCInit` adds that where two runs may overlap the last mail is accepted;
  without that bound all of the two million states were explored once, without an error.
* `black_runs`: two files, two runs, two workers, one save of an editor, one fault, which hits
  the first run. Two runs are needed for a race on the cache and for a cache that is believed;
  one fault suffices for every half-done write.
* `pyperf_manager`: `MAX_CALIBRATION` is the code's 5, with six numbers of loops and of warmups,
  so that the limit is passed; the bound is proved for any limit. Two benchmarks and two
  Pythons are what can inherit something from one another.

### Deadlock

It is checked for the three stores. It is not in the runs whose system really stops: all runs
of black or the program of pyperf have ended, all mails are taken, or the bounded clock has
stopped.

### Fairness

* `BlackRun`: weak fairness of each run's main process and of each call in a worker: the
  operating system runs both. None of starting a run, of faults, of editors.
* `PyperfManager`: weak fairness of `Progress`, any step of the program: one process at a
  time is at work and nothing else can take the step away.
* `MailGateway`: weak fairness of any progress: cron starts runs again and again, and a
  run goes on. Deliveries and crashes are not forced. `EveryMailIsTaken` holds because only
  `MaxAborts` runs are cut short. A mail whose bounce raises each time (`mailer.py:247-251`
  uses a name that does not exist) would stay in front of the others on POP and in a mailbox
  for ever.
* The other modules state no fairness: in the stores nothing must eventually happen but the
  end of a commit; of an edit or a session nothing is promised but safety.

### Other settings

These have no run of their own; each takes a `.cfg` of section 3 with one constant changed, or
with the property named here in place of its own, and shows something that the code does and
a caller should know.

* AnydbmStore, `Callers <- Multicall`: `KeyUnique` is violated. A set that raised half way has
  changed the cached node (`back_anydbm.py:1381`), and the next call of the multicall commits.
* `Callers <- OneOff`: `FailedOneOffChangesNothing` is violated: `admin.py:1658` commits
  after a failed command too, though one-off commands are to be committed if they succeed.
* `Importing = TRUE`: `NextIdIsFree` is violated: `admin.py:1348` lowers the counter to
  one above the last id of the imported file.
* RdbmsCache: `ReadsSucceed` is violated: destroy leaves the key in the LRU list
  (`rdbms_common.py:1214`), and its eviction raises a KeyError (`916`) in a later read.
* `NewIdCommits = TRUE`: a rollback leaves the edits before the last newid, which sqlite's commits
  (`back_sqlite.py:420`).
* `RollsBack = FALSE`: `SetTakesEffect` is violated: `set_inner` of the SQL back ends edits
  the cached Multilink in place before it has looked at the next property; a caller that goes
  on after the exception and repeats the set writes nothing.
* `EditsWhileIterating = TRUE`: `CacheIsOfThisTransaction` is violated: `filter_iter` caches
  rows it fetched before an edit.
* BlobFiles, `Sharing = "oneeditor"`: the race of `blob_lost_commit` in other forms; a reader may
  also find neither file between two calls of another process.
* `ReadsFirst = FALSE`: `ServedWasCommitted`, `CommittedContentKept` and `ServesLatest` are
  violated: after a crash between commit and
  rename, an edit that nobody commits replaces the committed content in `file.tmp`. The
  web form's parser reads the content of a node before it is edited (`form_parser.py:499`),
  and that read repairs the file first.
* WebEdit, `Quick = TRUE` or `RejectLate = TRUE`: `NothingUnseenIsReplaced` is violated even
  with `FirstUpdaterWins`. Two edits in one second have the same truncated activity; and the
  page after a late rejection carries the time of the edit that is being rolled back, so that
  an edit of somebody else before that time goes unnoticed. MySQL's repeatable read does
  not refuse the second update and behaves as `FirstUpdaterWins = FALSE`.
* `FirstUpdaterWins = FALSE`: besides the finding of `web_lost_update`, `JournalTellsHistory` is
  violated: the entry of a request that was overtaken is made from the node it has cached.
* MailGateway, `MtaLocks = FALSE`: `NoMailIsLost` is violated: what is delivered between the
  last read and `ftruncate` goes with it.
* BlackRun, `Editing = "any"`: `CachedIsFormatted` is violated: `write_cache` takes the
  stamps when all formatting is over, and a file saved in between is taken for formatted.

What the properties allow, since the code does it: a commit that ends between the halves of a
destruction leaves the journal of a node that is gone; one that dies before it has removed an
older `file` leaves its readers the older content (`stranded`), and of several readers that repair
a commit at once some may fail; a mailbox is emptied although a bounce could not be sent
(`squashed`); overlapping runs on IMAP handle a mail twice; a POP run that dies before quit has
its mails delivered again; an IMAP run whose bounce raises expunges what a crashed run had marked;
nosy mails go out before a commit that may fail; who is refused for want of permission after the
account was committed keeps it. An anonymous request that cleans an SQL session table rolls its
deletions back, while the cleaning is recorded (`unsaved`); a cleaning of a dbm file may remove a
session that was used after it was found old (`snatched`), or one that was just logged into and
kept an older time (`backdated`); a login into a session whose row is deleted in between is lost;
a form without `@lastactivity` is compared with nothing. pyperf's `--recalibrate-warmups` cannot
be reached (`WarmupsNeverRefined`), although `src/pyperf/doc/changelog.rst:134` tells of it. Not
visible in the properties: `hasnode` and `countnodes` of the dbm back end do not treat the
transaction's destructions as `getnode` does (`back_anydbm.py:545`, `554`).

## 4. Proofs

All theorems hold for every value of the constants.

`AnydbmProofs`:

| Theorem | States | Assumes |
|---|---|---|
| `TypeCorrect` | `Spec => []TypeOK` | - |
| `CacheConsistent` | `Spec => []CacheInv` | - |
| `EnumerationCorrect` | `Spec => []EnumerationMatchesReads` | - |
| `CommitsWhatItSees` | `Spec => RefinesContract` | `Callers \subseteq Careful` |
| `KeysStayUnique` | `Spec => []KeyUnique` | `Callers \subseteq Careful`, no faulty commits, no imports |
| `IdsAreNotReused` | `Spec => IdNeverReused` | no imports |
| `JournalsFollowTheStore` | `Spec => JournalAheadOnlyInDestruction` | - |
| `JournalsTellTheNodes` | `Spec => []JournalMatchesNodes` | `Callers \subseteq Careful`, no faulty commits, no imports |

`BlobFilesProofs`:

| Theorem | States | Assumes |
|---|---|---|
| `TypeCorrect` | `Spec => []TypeOK` | - |
| `OwnEditIsServed` | `Spec => []ServesOwnEdit` | `Alone` |
| `CommitsAreKept` | `Spec => []CommittedContentKept` | `Alone`, `Repaired` |
| `ReadsTheLatest` | `Spec => []ServesLatest` | `Alone`, `Repaired` |
| `ReadsTheCommitted` | `Spec => []ServedWasCommitted` | `Alone`, `ReadsFirst` |

`RdbmsCacheProofs`:

| Theorem | States | Assumes |
|---|---|---|
| `TypeCorrect` | `Spec => []TypeOK` | - |
| `ListMatchesDictionary` | `Spec => []LruMatchesCache` | `~EditsWhileIterating` |
| `CacheIsCurrent` | `Spec => []CacheIsOfThisTransaction` | `~EditsWhileIterating` |
| `SetsTakeEffect` | `Spec => SetTakesEffect` | `~EditsWhileIterating`, `RollsBack` |
| `ReadsFailForDestroyedOnly` | `Spec => ReadsFailOnlyAfterDestroy` | `~EditsWhileIterating` |

`WebSessionsProofs`:

| Theorem | States | Assumes |
|---|---|---|
| `TypeCorrect` | `Spec => []TypeOK` | - |
| `LogoutStands` | `Spec => []LogoutIsFinal` | - |
| `InUseIsKept` | `Spec => []KeptWhileUsed` | - |
| `CleaningIsThorough` | `Spec => []CleanerLeavesNothingOld` | - |

`MailGatewayProofs`:

| Theorem | States | Assumes |
|---|---|---|
| `TypeCorrect` | `Spec => []TypeOK` | - |
| `MailsAreKept` | `Spec => []NoMailIsLost` | `MtaLocks` |
| `OnceAndAgain` | `Spec => []OncePerRun` | - |
| `OneAccountEach` | `Spec => []OneAccountPerAuthor` | - |

`BlackRunProofs`:

| Theorem | States | Assumes |
|---|---|---|
| `TypeCorrect` | `Spec => []TypeOK` | - |
| `SourcesAreCounted` | `Spec => []EverySourceCounted` | - |
| `CutsAreReported` | `Spec => []CutIsReported` | - |
| `CachedFilesAreFormatted` | `Spec => []CachedIsFormatted` | `Editing # "any"` |
| `CheckIsTruthful` | `Spec => []CheckTellsTruth` | `Editing # "any"` |

`PyperfProofs`:

| Theorem | States | Assumes |
|---|---|---|
| `TypeCorrect` | `Spec => []TypeOK` | - |
| `CalibrationIsBounded` | `Spec => []CalibrationBounded` | - |
| `ValuesAreCalibrated` | `Spec => []ValuesUseCalibration` | - |
| `WorkersRunTheirTask` | `Spec => []WorkerRunsItsTask` | - |
| `WarmupsNeverRefined` | `Spec => []WarmupsMeasuredAfresh` | - |

`WebEditProofs`:

| Theorem | States | Assumes |
|---|---|---|
| `TypeCorrect` | `Spec => []TypeOK` | - |
| `NoLostUpdate` | `Spec => NothingUnseenIsReplaced` | `Serial` |
| `JournalErrsOnlyOvertaken` | `Spec => [][EditCommitted => TellsHistory \/ \E u \in Users : Overtaken(u)]_vars` | - |

("-": only the ASSUMEs of the module: bounds are numbers, the model value for "none" is none of
the others, the sets of black's files and of the mail gateway's runs are finite, an hour of
`WebSessions` ends before the bounded clock does. `Alone`: no session overlaps one that edits,
`Sharing # "oneeditor"`. `Repaired`: no commit dies before its rename, or editors read before they
write, `ReadsFirst \/ ~CrashBetween`. `Serial`: the database refuses the second update, no two
edits in one second, no late rejection.) The hypotheses are not for convenience. Nearly each is
refuted without them by one of the settings of section 3: `Callers`, imports, `Sharing`,
`ReadsFirst`, `EditsWhileIterating` (without which `ReadsFailOnlyAfterDestroy` still holds in the
run), `RollsBack`, `Serial`, `MtaLocks`, `Editing`. A commit that is cut short, and an import,
which "should not be sanity checked", may leave two nodes with one key; and a commit cut short may
leave a node stored whose journal does not begin yet.

The argument for AnydbmStore. `EnumerationMatchesReads` is not inductive: whether `GetNode` finds an
id depends on the cache, on `destroyed` and on the disk at once. `CacheInv` says how
these constrain each other (a new node is cached, a destroyed one is neither new nor
cached, the queue's pending destructions are what `destroyed` says, ...). Actions fall
in two classes: an *edit* changes one node of the cache and appends to the queue, a
*glance* only warms the cache; each action is shown to be one or the other once
(`CreateEdits`, `SetEdits`, `RetireEdits`, `OthersGlance`, ...) and the invariants
are shown to survive the class, so that no invariant needs a case per action twice.

`CommitsWhatItSees` needs more: that at every moment of a transaction the queue
*covers* the difference between view and store (`CommitInv`): a node the
session sees differently from the disk has a pending save, or a pending destruction
if it sees none. That is what makes `EndCommit` of the contract, `committed = view`,
follow when the position reaches the end of the queue. With an operation that raised
it is false (the cached dictionary has changed and no save is queued): the
refinement mapping then shows the phase `broken`, which the contract lets end in
anything but a commit, and the hypothesis on `Callers` is used here.

`KeysStayUnique` follows from the view: create and set add a key that `Lookup` did
not find, and by `EnumerationCorrect` `Lookup` looks at every node the view holds;
the store between commits is what the last commit saw.

`IdsAreNotReused` is a step's matter: a creation takes an id above the counter and nothing but
an import lowers it. `JournalsFollowTheStore` is about each step, also in the middle of a commit, and
of every caller. It holds because of the order in the queue (`JournalInv`): each entry that
journals a creation comes after a save of the same node, and the saves which the running commit has
executed have left their nodes in the store, since a destruction removes the saves of its node
from the queue. The one exception cannot be had away: the first half of a destruction.
`JournalsTellTheNodes` compares two things that come from different places, nodes from the
cache and journals from the queue; inside a transaction neither store agrees with the session. The
invariant (`MatchInv`) is therefore about the future: `JournalsWillMatch` says of the stored journal
of a node *together with* the entries that the commit has still to append that it begins with
the creation and ends in the retirement or restoration the session sees. It also needs that an
id not handed out has no journal, no entry in the queue and no link to it (`IdsKnown`,
`EditsKnown`), for a creation's entry must be the first.

For BlobFiles, `SessionInv` says what a client at each step knows of the two files, for instance that
`file` is gone between its remove and its rename. `LatestInv` is the heart: unless a commit has
stranded an older one, `file` has the last committed content, or a commit is between its halves, or
one has died and left the content in `file.tmp`, where no session has stored anything since.
That is where `Repaired` is used: an editor reads, and so promotes, before it writes. A reader in
the middle of a repair that another reader has done meanwhile finds the promoted content, or
fails. Where an older `file` was stranded this is false, and `PromotedInv` takes its place: when
`file` is not there, `file.tmp` has committed content, and no editor replaces it.

For RdbmsCache each operation of the cache on a key (refresh, save, delete) is shown once to give
a cache that *follows* the old one (`Follows`): other nodes are as they were or evicted, other
keys are not new. The list has no repetitions and a key for each cached node (`Sound`), which is
what makes `list.remove` and the eviction undo exactly one key; only rows that were destroyed
leave a key without a node (`KeysInv`), which is why the eviction, and with it a read, raises
after a destroy only. `SeenInv` ties a cached node, and a row that an iterator has still to yield,
to what could have been read in this transaction. With `EditsWhileIterating` only the types are
left (`TypeInv`, inductive by itself): an iterator caches a destroyed row again, whose old key is
still in the list, so that a key may be there twice, and `list.remove` takes the first of them.

For WebEdit the inductive invariant `IInv` says of a page that its stamp is not after the
item's activity, and that with an equal stamp the user was shown the item as it is
(`PageInv`); of a request that, unless an edit has overtaken it, what it has read is the item
as it is and what its user was shown, and that otherwise the activity it read is an old one
(`RequestInv`); and that nobody overtakes the holder of the lock (`LockInv`). The first is
needed because a rejection stamps a page with the activity that the request read; it is
inductive because each edit moves the activity on, which needs all of `Serial`. The lemma
`EditOvertakes` says once what an edit by anyone does to the others. All of this is about forms
that have a stamp. For the journal `ReadInv` suffices, which needs no assumption: what a request
has cached is the item unless an edit was committed since; so only the entry of a request that was
overtaken can be wrong, and the run shows that where the database refuses such a request none is.

For WebSessions, `KeptWhileUsed` is not inductive because a session is renewed lazily and its
deletion may be uncommitted for a while. `KeptInv` says that a session somebody may count on is
there and carries a time at most a minute before its last use, or that this use is as long ago as
a cleaning asks for, also when its deletion is still uncommitted. A login is a use; one that keeps
an older time takes the session out of this until its next use. `CleanInv` follows a cleaning:
what it has not yet looked at is in its list, and what it has looked at is young, or deleted, or
brought back by a rollback. `LogoutIsFinal` is inductive with these: no request under way can give
the user back, because an update of a row that is gone inserts one without a user.

For MailGateway, `HandInv` follows a mail through a run: what is handled has been dealt with, and
at the end of a mailbox file what was listed is all there is, which needs the lock that `MtaLocks`
is about. `FlagInv` says why it is safe that one run's expunge takes what another has marked.
`OncePerRun` counts: as long as a mail is on the server, each time it changed the tracker belongs
to a run that still has it in hand or behind it, or to one that was cut short (`Bound`);
afterwards only those which have it in hand can add to it. The induction moves runs between these
sets, so most of its steps are about cardinalities. `EnrollInv` counts in the same way: the
accounts of the author and the runs about to commit one are together no more than the runs that
can be under way at once, since a run makes an account only if it finds none.

For BlackRun the invariant without regard to editors (`IInv`) says that tasks are of sources, that a
call goes on without its task only after a signal or a death (`TaskInv`), that the counters, the
cancelled and the tasks partition the sources (`CountInv`), and that the stamps left suffice
for those who may still write (`StampInv`: without it the bound on stamps would be an assumption).
`CacheInv` says that a stamp which the cache file or a run knows is not in the future, and if it is
the present one, the file is formatted or is being written; the second is needed because two runs may
write the same file, and both write the same text. `SeenInv`: a source that --check has not seen
formatted has a task left, or will make the exit code differ from 0.

For PyperfManager the bound is not inductive: the counters of the two calibrations are raised
in turn, and a loop calibration sets the other one's counter back to 1. `StageInv` lists the
stages a benchmark goes through (before any calibration, after one of loops, after one of
warmups, done), and ties each counter to the number of processes that were spawned (`nloops`,
`nwarmups`, which are never set back) and each number in args to what measured it. `OptionInv`
says that what was given as an option is never calibrated and is restored between
benchmarks, and `WorkerInv` that the worker has the manager's numbers and executes the
benchmark it was spawned for.

Only model-checked is what must eventually happen: `RunsEnd`, `ProgramEnds` and `EveryMailIsTaken`,
since liveness under fairness is out of the prover's reach.

## 5. Not modelled, and why

* dbm store: `pack` (deletes old journal entries on request), Multilinks, several
  classes (a second class would be linked to as the class is linked to itself),
  filter and the full-text index, the contents of journal entries other than what was
  done.
* SQL stores: journals, retire and restore (they do not touch the cache; `is_retired`
  asks the database), schema migration, the SQL of `filter`.
* Files: `destroy`, old-style flat names (a read falls through to them and fails).
* Web: creation of items, several items and links between them in one form, registration, and
  the one-time keys (password reset, csrf). Auditors and reactors are known by what they
  can do: reject an edit, send mail.
* Mail: MIME, commands in the subject, PGP but for the failing bounce, `do_pipe`, confirming a
  registration by mail.
* black: which sources are chosen, standard input, the caches of other modes, the formatter
  (only whether it changes a text, and that its result is stable).
* pyperf: the timing, what metadata a worker collects, CPU affinity, memory tracking.
* The rest of section 1, with the reason in `components` of `PROJECT.json`.

## 6. Plan

Done, in this order: the contract; the dbm store with its callers; its proofs; the
files; the row cache; black's runs; pyperf's manager and its proofs; editing through the web;
the mail gateway; the sessions; the proofs about editing; the proofs about the sessions, the files,
the mail gateway, black's runs, the row cache and the journals of the dbm store.

Next:

1. One-time keys in `WebSessions`: password reset, registration and csrf keys that are used
   once, and their commit before that of what they allow.
2. `SqlStore`: keys and journals of the SQL back ends, with two sessions, their
   implementation of `HyperdbContract` and the blob files composed with the transaction.
3. `Indexer`: text added by set before the commit, abandoned transactions, reindex.
4. Pure algorithms: Multilink journal differences, the order of `support.Proptree`, the nosy
   list.

A theorem to go with the second: that `SqlStore` implements `HyperdbContract` for each of two
sessions as long as neither edits what the other reads.
