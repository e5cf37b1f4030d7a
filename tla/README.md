# TLA+ models of lwid

lwid publishes small web projects.  A client encrypts files, uploads them as
content-addressed blobs, uploads a *manifest* that lists them, and points the
project's *root* at the manifest with a signed request.  A project expires; a
*reaper* removes expired projects and the blobs only they use.  Projects also
have a key-value *store* for the data of the published app.

This directory holds models of that system, the model-checking runs and the
machine-checked proofs about them.  `PROJECT.json` maps each definition to the
source lines it stands for.

## Inventory

### Components, their state and operations

| component | source (under `src/crates/` unless said) | state | operations |
|---|---|---|---|
| project handlers | `lwid-server/src/api/projects.rs` | none of their own; locals between storage calls | create, get, update_root, update_name, extend_ttl, delete |
| reaper | `lwid-server/src/reaper.rs` | locals of one sweep: expired ids, live blob set | list, read all, delete expired, every 5 minutes |
| project store | `lwid-common/src/{project,s3}.rs` | one JSON record per project | create, get, update_* (get then put), delete (get then remove), list |
| blob handlers and store | `lwid-server/src/api/blobs.rs`, `lwid-common/src/{store,s3}.rs` | one file or object per CID | put (probe then write), get, exists, delete, usage |
| store handlers and key-value store | `lwid-server/src/api/store.rs`, `lwid-common/src/{kv,s3}.rs` | one file or object per project and key | put (with two quotas), get, delete, list, delete_all |
| database | `lwid-server/src/db.rs` | users, sessions, project_owners | upsert, create/get/delete session, set owner, count |
| sign-in | `lwid-server/src/auth/`, `db.rs`; `lwid-cli/src/{login,auth}.rs` | in-memory magic-link tokens and OAuth verifiers; users and sessions; cookies; the CLI's token file | send and verify link, OAuth login and callback, logout, CLI login |
| metrics | `lwid-server/src/metrics.rs` | last rendered snapshot | periodic collection, scrape |
| configuration | `lwid-server/src/{config,main}.rs` | read once at start | tier policies, backends |
| manifests, ids, limits, signatures | `lwid-common/src/{manifest,cid,limits,auth,wire}.rs` | none | pure functions |
| CLI | `lwid-cli/src/` | `.lwid.json` (project id and keys) | push, pull, clone, kv/blob store, login |
| web shell | `src/shell/index.html`, `src/shell/js/` | localStorage, open project | publish, restore a version, store bridge with a key index |
| sandbox | `src/shell/sandbox-sw.js`, `sandbox.html`, `lwid-sdk.js` | in-memory file cache, pending requests | hydrate, serve, relay |
| redirect, sandbox gate, skill pages | `lwid-server/src/{redirect,sandbox}.rs`, `api/skill.rs` | none | stateless answers |

The handlers and the reaper call the stores; the reaper and the handlers share
nothing else, and there is **no lock anywhere**: every storage call is an
`await`, so all tasks interleave at storage calls.  The CLI, the shell and the
SDK call the handlers over HTTP.

### What is hard

* A record is updated by reading it, changing the copy and writing the whole
  copy back.  Two updates, an update and a delete, or an update and the reaper
  interleave between the calls.
* A sweep works on snapshots: the list of expired ids and the set of blobs of
  live projects are taken in a first pass and used in a second.
* Failures in the middle: a record that cannot be read, a blob that cannot be
  deleted, a dropped connection, a restart.
* Check-then-act limits: project quota, store quotas.
* Time: deadlines against `Utc::now()`, TTLs clamped to the tier's maximum.

### What makes each part correct

* projects: a record lists exactly the blobs of its root and of every earlier version
  (the reaper frees and protects by that list); only the creator's key changes
  a record; no deadline exceeds the tier's maximum; quotas hold.
* reaper: removes nothing before its deadline, deletes no blob of a live
  project, and removes everything overdue in the end, blobs and values with it.
* key-value store: size limits hold; values do not outlive the project.
* clients: a push changes only the files it is about, a pull yields one version,
  what a tab marks as current is what it shows; the key index lists what is
  stored; a new project's keys are not lost.
* sign-in: a magic link works once and before it expires; sessions end.
* sandbox: a page shows the files of its shell once all is quiet, and every
  request of a page is answered, also after the browser ended the worker.
* metrics: what a refresh publishes counts the projects that were there.

The full list of hazards, each at its line and with the property that watches
it or the reason why none does, is in `PROJECT.json`.

## Modules

`Manifests` holds the immutable data: which blobs parse as manifests, their
files, parent and stated size.  A CID is a hash, so what it means never
changes; only the *presence* of a blob is state.  `History(c)` is the chain of
versions from `c` (the least parent-closed set, so no recursion is needed) and
`Closure(c)` adds their files.

`LwidServer` is the server: project, blob and store handlers, the reaper, the
clock, failures and restarts.

| variable | in the code |
|---|---|
| `projects` | records in the project store (`Project`, without timestamps, store token and client version) |
| `blobs` | CIDs in the blob store |
| `kv` | projects with values in the key-value store |
| `owner` | table `project_owners` |
| `clock` | `Utc::now()`, in ticks |
| `req` | per slot, the locals of one handler in flight |
| `reaper` | the locals of `sweep` |
| `faults`, `crashes` | how many of the bounded failures and restarts happened |
| `creator`, `touched`, `unread` | history only: the key that created a project; the projects written since this sweep listed them; those it failed to read |

**One action is one storage call** and the code up to the next: a handler has
an action per call (`UpdateRootFetch` verifies the signature on the first copy,
`UpdateRootManifest` and `UpdateRootWalk` read the chain of manifests,
`UpdateGet` reads the record again, `UpdatePut` writes it), and the reaper has
`ReaperList`, `ReaperRead`, `ReaperDeleteGet`, `ReaperRemove`, `ReaperBlob`,
`ReaperKv`.  A refusal at the first call changes nothing and is a stuttering
step; a later refusal frees the slot.  A storage call may fail
(`RequestFails`, `ReaperReadFails`, `ReaperCallFails`, each where the code
handles it differently) and the process may restart (`Crash`), which loses all
locals.

Abstractions: ids, keys, names, CIDs and users are model values; a signature is
the key that made it; TTLs are positions in `TTL_CHOICES`; a tier is what it
allows a caller (a `max_ttl` outside `TTL_CHOICES`, which clamps nothing, is
not modelled); `nanoid` never draws an id twice.  A record is read and written
as a whole: a file that is read while `fs::write` is writing it fails to parse,
which is a failed call here; `FsStores` shows the system calls.  The two
backends differ in one thing the model can see: removing a record that is
already gone fails on the file system and succeeds on S3 (`RemoveFails`).  `S3BlobStore::delete` probes and then deletes;
both are `ReaperBlob`, as the probe only decides what is counted.

Definitions called `Slip...` are plausible mistakes in the definition below
them.  Nothing uses them; `PROJECT.json` ("mutants") says which property
notices which one.

`MCLwidServer` gives the constants small values and adds two starting points
that are reachable in the code but would take many steps from an empty server:
`PublishedInit` (p1 has published and is due at time 1) and `SharedInit` (p2
has also published, shares p1's blobs, and is due at time 2).

`KvStore` is the key-value store of one project with the sizes that the two
quotas count.  `LwidServer` only knows whether a project has values; here every
call that measures or changes the store is an action, and on the file system
every file, as `fs` calls of two worker threads interleave there.

| variable | in the code |
|---|---|
| `backend` | `StorageConfig::backend` |
| `project` | the project's record exists |
| `size` | the length of the value under each key, or that there is none |
| `req` | per slot, the locals of `put_value` or `delete_value` and of the store's method |
| `remover`, `doomed` | the task that removes the project: its next step, and the keys `delete_all` listed and has still to delete |
| `racing` | history only: the keys with a put in flight when the record went |

A put is `PutFetch` (record, token, length), a walk (`PutMeasure`),
`PutTierCheck`, a second walk, `PutExisting`, `PutStoreCheck` (unsigned
arithmetic of `Width` bits), `PutWrite` and, on the file system, `PutData`:
`fs::write` empties the file and then fills it, and `linked` says whether the
open file still has its name.  A total counts bytes, each with its key and
position (`Bytes`), which adds the sizes up without recursion.  On S3 the second measurement and the old size
come from one listing, and a put is atomic.  A removal is `RemoveRecord`, and
`ClearList`, `ClearKey`, `ClearDone` for `delete_all`.  Contents are left out.

`StoreBridge` is the other side of that store: the clients.  The server sees
obfuscated keys only, so the clients keep the list of keys in the store itself,
under `_idx`; every set and delete changes its value, loads the list and saves
it.  The shell handles the messages of the sandboxed page in async functions
that overlap at each request; `lwid kv` and `lwid blob` do the same from other
machines.

| variable | in the code |
|---|---|
| `value`, `index` | what the server stores under each key, and under `_idx` |
| `page`, `nextId` | the page in the content frame and `nextId` of its `lwid-sdk.js` |
| `msg`, `pc`, `idx` | per call, the message, the next request of its handler, the list it is about to save |
| `status`, `answer` | what the caller knows: the entry in `pending`, how the promise was settled and by whose answer |
| `faults` | how many of the bounded failures happened |
| `clashed`, `crowded`, `stored`, `listed` | history only: which calls overlapped, and what the calls that did not left behind |

`Send` is `request`, `CliSet` a run of the CLI, `Timeout` the SDK's timer and
`Navigate` a new document in the content frame, which loses `pending` but not
the handlers in the shell.  A handler is `SetValue` or `DeleteValue`, then
`LoadIndex`, then `SaveIndex` unless the list is as it should be; `Read` stands
for `get`, `keys` and `list`.  `RequestFails` ends it with an error.  The JSON
and the blob functions run the same code on the same keys and the same list,
so they are one.  A value is the call that wrote it; encryption and the names
of keys are left out.  `KvStore`'s quotas appear as requests that fail.

`Publishing` is the clients that publish versions of one project: `lwid push`
and `lwid pull` in working directories, and tabs of the shell.  None of them
tells the server which root it started from, so what matters is where a
client's files come from when it publishes.

| variable | in the code |
|---|---|
| `version`, `root` | the published manifests, numbered, and the project's `root_cid` |
| `files` | a directory's files on disk; a tab's `currentFiles` |
| `shown` | a tab's `currentManifestCid` |
| `task` | per slot, the locals of a command or of an async function of the shell |
| `rev`, `faults` | how many contents were made, and how many bounded failures happened |
| `base`, `edited`, `torn` | history only: the version a place's files were taken from, what was edited since, and tabs where an assignment fell into another's load |

`PushBegin` collects the files (all, or those named), `OverlayBegin` is
`handlePushUpdate` or `LWID_HOST_SAVE` up to the first request, `RestoreBegin`
is `restoreVersion` with the version it pulled.  Then `GetParent` reads the
root (and merges, in a push of named files) and `Publish` is `update_root`,
which takes effect at once, as its own interleavings are `LwidServer`'s; a
request that fails may have had its effect (`RequestFails`).  The shell then
reloads (`Reload`, which marks the root as current, and `Load`, which has its
files) or settles a save (`Settle`).  A pull writes file by file (`PullFile`).
The functions of a tab overlap at each of these.  Uploads of blobs are left
out: a blob is never overwritten and is encrypted under a fresh nonce, so it
can only be missing, which is `LwidServer`'s concern.  Contents are numbers, a
restored or merged file keeps its number, and a directory is read as a whole.
Creation of a project, names and the secret scan are left out.  At most one
command runs in a directory at a time, which nothing in the code enforces.

`SignIn` is the accounts' side of the server, with the browsers and the CLI
that use it.  Links and OAuth states are in memory and go with the process;
users and sessions are rows and stay.

| variable | in the code |
|---|---|
| `magic_tokens`, `oauth_states` | `AppState::magic_tokens`, and the map of PKCE verifiers |
| `users`, `sessions` | the tables: `upsert_user`, `create_session`, `get_session` |
| `cookie` | the session cookie of a tab's browser, until its max-age |
| `flow` | the OAuth state a tab took to a provider |
| `cli`, `token_file` | whether `lwid login` listens, and the token it saved |
| `req` | per slot, the locals of a handler in flight |
| `clock`, `faults` | time in ticks (a day is `Day` of them); failed calls and restarts |
| `issued`, `proof`, `tier`, `via`, `signed_out` | history, and who may present a ticket: mailed to, or consented |

One action is one SQL statement or one call to a provider: `SendMagicLink`,
`SendEmail`; `VerifyMagicLink` or `OauthLogin`, `Consent` (the provider's, so
external), `OauthCallback`, `ExchangeCode`; then, for both, `InsertUser`,
`SelectUser`, `CreateSession`, `Answer`.  `Logout` deletes one session,
`LogoutBearer` all of its user's.  `CliLogin`, `CliCallback`, `AnswerCli` are
the login of the CLI through a tab.  `get_session` compares the *texts* of two
times that differ in the character behind the date, so it decides by the day:
`NotExpired`.  An operator may change a tier in the database (`SetTier`).

`FsStores` is the file-system backends system call by system call, which
`LwidServer` takes for single steps: opening a file cuts it to nothing, writing
it comes later, and other threads read, open and unlink in between.  `file`
holds the pages of each file, `task` the next system call of each thread;
`last` and `suspect` are history: what was last written to its end, and on
which files two writers met or one failed.  `Exporter` extends it with the
metrics exporter, whose refresh lists the records and reads each of them
(`ListProjects`, `GetProject`) while the store changes, and publishes how many
are expiring, expired or without a deadline (`Publish`).  `scan` is its local
state, `unsure` (history) the files that changed under it or could not be read.

`Registry` is the abstract specification of project records: a project has a
holder, who orders that its root, its name or its deadline be set, or that it
be deleted.  An order has a content: once admitted (`Admit`) it is drawn up
(`DrawUp`), which sets what it asks for, and nothing else, in the record as it
is then (`Set`), and carried out (`CarryOut`) when that draft replaces the
record, whatever the record is by then.  So an order that nobody wrote under
changes only what it sets, and of orders that overlap one may lose what
another set: the registry allows limit 3 below, because the code does, and
nothing beyond it.  A project seen past its deadline is doomed, and then
removed or spared; nothing else changes a record.
`ServerRegistry` states that `LwidServer` implements it: the refinement maps
`record` to `projects`, `holder` to `creator`, `now` to `clock`, `order` to
the handlers that have checked a signature and not yet written (`OrderOf`, with
what the request asked for, `Asked`, and from the second read of the record on
the record they are about to put as the draft), and `doomed` to what the sweep
found expired and has not come to (`DoomedNow`).

`Sandbox` is how decrypted files reach the page that runs a project.

| variable | in the code |
|---|---|
| `files`, `latest`, `resolving` | a shell's `currentFiles`, numbered; loads that look up their entry point |
| `bridge`, `greeting` | `sandbox.html` of a tab: absent, booting, booted, with a ready worker; its `SET_SHELL_ORIGIN` under way |
| `transfers`, `sent` | files between `postFilesToSW` and `FILES_READY`, with the message to the worker and its answer |
| `cache`, `origin`, `hydrating`, `matching`, `timers` | the worker's `fileCache`, `shellOrigin`, `hydratePromise`, `matchAll` and the 5 s timers, which nothing clears |
| `asked` | `REQUEST_FILES` on their way to shells |
| `req`, `page` | a frame's requests, and the version its document came from |
| `failed`, `crossed`, `events` | history: a timer fired or a transfer failed; loads overtook each other; terminations and closed tabs |

`Show` and `Send` are a load; `Boot`, `Register`, `PostToWorker`, `FilesReady`
the bridge; `SetFiles`, `handleRequest`, `AskClients`, `HydrationTimer` the
worker; `Resend` the shell's answer to it; `BootFails`, `RegisterFails`,
`TransferTimesOut` the failures; `Terminate` the browser ending the worker, and
`Browse` and `Close` the user.

The modules whose names end in `Proofs` hold the theorems.

## Runs

| run | instance | checks |
|---|---|---|
| `writers` | a published project, 2 concurrent requests of 2 keys (publish, rename, extend, delete), sweeps, file-system backend, 1 restart | `TypeOK`, `RootCoverage`, `KeyIsCreators`, `ExpiryBound`, `AuthorisedWrites`, and the refinement `ImplementsRegistry` |
| `lifecycle` | 3 projects of one user with a quota of one, 2 concurrent requests, 1 fault | `QuotaOverrunBounded` |
| `sweep` | 2 projects, one still to be created, every other operation of a client, sweeps, S3 backend, 1 fault | `ReapsOnlyOverdue`, `KeepsBlobsOfLive` |
| `reaper` | 2 projects sharing blobs, a client that extends deadlines, 1 fault, 1 restart, fairness | `OverdueIsReaped`, `OverdueLeavesNothing` |
| `kv_store` | 3 keys, 2 concurrent requests, both backends, 1 fault | `TypeOK`, `OverrunBounded`, `AdmitsOnlyFitting`, `OnlyRacingValuesStay` of `KvStore` |
| `store_bridge` | 2 keys, 3 calls, 2 pages, 1 fault | `TypeOK`, `AckedStored`, `AckedListed`, `AnswersOnPage` of `StoreBridge` |
| `publishing` | 1 directory, 1 tab, 2 files, 2 tasks, 3 versions, 2 contents, 1 fault | `TypeOK`, `PullsOneVersion`, `ShownMatches`, `UntouchedKept` of `Publishing` |
| `sign_in` | 1 account by mail or by provider, 2 links or states, 2 sessions, 2 concurrent requests, 1 tab, the CLI, 1 fault or restart | `TypeOK`, `OpensOneSession`, `SessionIsProvers`, `AccountKept`, `SessionWindow`, `SignedOutStaysOut`, `NoneLost` of `SignIn` |
| `files` | 2 records of 2 lengths, 1 blob, 2 threads, the exporter, 1 fault or restart | `ExporterTypeOK`, `RestIsWhole`, `TornStays`, `CountsUntouched` of `FsStores` and `Exporter` |
| `sandbox` | 1 tab, 2 versions, 3 transfers, 2 terminations or reloads, 2 timers, fairness | `TypeOK`, `FilesKnowTheirShell`, `QuietTabsShowTheirFiles`, `EveryRequestAnswered` of `Sandbox` |
| `wrong_answer` | 2 calls, 2 pages | finds `AnswersOwn` violated |
| `shared_blob_reaped` | creation and publication under a sweep | finds `KeepsBlobsDespiteWrites` violated |

What the passing runs show, together: whatever two requests and a sweep do to
a record, each write sets just what one request signed with its key asked for,
in a copy read after the signature was checked (updates that overlap can still
lose one another's, limit 3); the record covers its history and is removed for
age only past its deadline; a user's projects exceed
the quota by less than there are slots for requests; every overdue project
goes in the end, with its blobs and values if nothing failed; store values
stay within the quotas but for what racing puts add; clients that do not
meet on a key find what they stored; versions are published and pulled whole;
a link or state opens one session, of the account that proved itself; files
at rest are whole but for the cases named; a page shows what its shell shows.

**Bounds.**  Two versions (the second without the first one's file, so the
history matters) give chains of length one and two, the first of which needs
no walk.  Two requests are enough for each race, which is between two tasks:
an update against an update, a delete, or (with the reaper as the second
task) a sweep.  `MaxClock` reaches every deadline the instance starts with; a
deadline beyond it stands for any later one.  One fault and one restart occur
at every point of every task.  The requests of `writers` are interchangeable
and the run has no liveness property, so it uses symmetry.  The server may
have nothing to do (all projects gone, all bounds reached), so the runs do not
check for deadlock.

`lifecycle` has three projects because two requests that both found the quota
of one unused exceed it by one, and a third project shows that no more follow.

In `sign_in` two tickets are a link and a state, or two of one kind; two
requests present the same one at once, or sign up the same identity at once.
`Day` is two ticks and the clock reaches two days, so a session can be past its
expiry and still in its day, and past that.  In `files` a short value may
replace a long one and the reverse, which is what torn files are about; the
exporter's `DetailLimit` is one of the two projects, so both sides of it occur.
In `sandbox` one tab, two versions and three transfers give a load that
overtakes another, a re-hydration with either, and one after the browser ended
the worker; two timers, one that outlives its re-hydration.  A second tab does
not fit the time of a run; the theorems of `SandboxProofs` hold for any number
of tabs, `EveryRequestAnswered` is checked for one.

In `kv_store` the limit is one value and the tier's quota two, so three keys
are needed to pass what two racing puts may reach; `Width` is just wide enough
that no sum wraps, only a negative difference: a walk may add up what was never
stored at one time, up to a full value for each key.  Three racing requests were
explored by random simulation only.

In `store_bridge` three calls give two that overlap and one whose result is
known; two keys, one that they share and one that they do not.  Calls and keys
are interchangeable and the run has no liveness property, so it uses symmetry.
It ends when every call was made.

In `publishing` a third version is the least that can overtake a second one
based on a first, and also the least that leaves a version which is neither the
root nor its parent to load and restore.  Two tasks give every pair of commands
and functions; files and tasks are interchangeable, so the run uses symmetry.
It ends when the versions and contents are used up.

**Fairness.**  Weak fairness of the reaper's steps and of each handler's
steps: the runtime keeps polling tasks that are ready, and `spawn`'s loop ends
only with the process.  Clients, time, faults and restarts are under no
fairness.  The reaper's time between sweeps is not modelled; a sweep may start
whenever the last one ended.

In `sandbox`: weak fairness of the worker's handling of each request and of its
timers, which browsers guarantee for a worker that has work to do.  Nothing is
assumed of shells, bridges and networks, which may be gone.

### Known limits the models show

Each of these is a behaviour of the code against a sentence of the repository
or a reader's expectation; the first two are runs (see `findings`), the others
were seen while modelling, and the properties exempt them where it says so.

1. `shared_blob_reaped`: a version published under a sweep is not in its set
   of live blobs.
2. `wrong_answer`: the SDK numbers the calls of every page from 1 and the bridge
   relays answers to the page that is there now, so a late answer to the page
   before settles the new page's call of the same number.
3. Two updates on *one* replica can lose one: the later put writes back the
   name, deadline or version it read (`s3.rs:484`), although the comment at
   `s3.rs:23-25` restricts that to several replicas and calls a single one
   safe.  `Registry` allows it: a draft replaces whatever the record is.
4. The second pass of a sweep does not look at the deadline again: a project
   whose deadline was extended after the first pass is removed
   (`ReapsOnlyOverdue` exempts `touched`).
5. Two overlapping sets load the same key index, and the later save drops the
   other's key: the value stays and no list names it (`AckedListed` exempts
   `crowded`).
6. `delete_project` drops the record's blob list, so nothing ever collects the
   blobs of a project its owner deletes, which `project.rs:77` promises.
7. The tier's store quota counts the value that a put replaces
   (`api/store.rs:117`), the backend's quota does not: a store near its limit
   refuses to replace a value by a smaller one.
8. A record the sweep cannot read counts as holding no blobs, so blobs it
   shares with an expired project are deleted (`KeepsBlobsOfLive` exempts
   `unread`).
9. A stale put brings a deleted or reaped project back, without its values.
10. A call that fails, or a restart, after the reaper removed a record leaves
   the blobs for ever (`OverdueLeavesNothing` exempts failures); the same holds
   for the values when `delete_all` fails, also where S3 reports a failure of a
   single key, which the code does not look at.
11. Two concurrent creations of one user both pass the quota, and a stale put
   may bring a removed project back (`QuotaOverrunBounded` says by how much
   that exceeds it); expired projects count until they are swept; and
   rows of `project_owners` outlive their projects, so "total less owned" is
   not the number of anonymous projects.
12. A put whose old value was written between the two measurements computes a
    negative total, which wraps and refuses a value that fits (a debug build
    panics).  `AdmitsOnlyFitting` shows that it never admits one that does not.
13. The default store quotas of the free and pro tiers (100 MB and 1 GB,
    `config.rs:377,384`) cannot be used: the backends stop at
    `MAX_STORE_TOTAL_SIZE`, 50 MB.
14. A delete whose index update failed cannot be repeated: the second one throws
   at the missing value, before the index, and the key stays listed.
15. `lwid.store.keys()` and `lwid.blobs.list()` are documented as separate
   listings, but share one key space and one index.
16. The shell keeps its own `entry:` values in the same store and does not list
   them in the index.
17. Of two overlapping publications the later one's parent is the root it read:
    the overtaken version leaves the history and the record's blob list,
    its files the project.  `UntouchedKept` speaks of
    publications nobody overtook.
18. An upload or a viewer's save in a tab that shows an old version, or was not
    reloaded since, publishes all its files and so takes back what others
    changed; before the first load has finished it drops all other files.
19. A load that overlaps another load or a save leaves a tab whose mark says one
    version and whose files are another's (`ShownMatches` exempts these tabs:
    `torn`).
20. A pull removes no file: one that a version removed stays in the directory
    and returns with the next push of it.
21. A crash or a full disk in the middle of `fs::write` leaves a record that
    does not parse; no update, deletion or sweep gets past reading it, so it
    stays for ever (`TornStays`), and what is left of a blob's file counts as the
    blob (`RestIsWhole` exempts `suspect`).
22. Two updates of one record that have its file open at once can leave the end
    of the longer text behind the shorter one, which does not parse.
23. Links and OAuth states are lost at a restart, and those never used are kept
    until then; one taken by a handler whose later call fails is used up
    (`NoneLost`).
24. A session is accepted until the end of the day of its expiry
    (`SessionWindow`).  Signing out with the cookie deletes one session, with a
    bearer token all; `lwid logout` only removes its file.
25. A tab that is not signed in when the CLI sends it to `/auth/cli/callback`
    ends on `/` after signing in, although the comment at `handlers.rs:125`
    expects it back: the CLI waits until its user gives up.
26. A re-hydration's timer is never cleared, so it may end a later one early,
    and its requests are answered with Not Found.
27. Two tabs that show different versions of one project share one service
    worker and its files; and a load whose entry point takes longer to look up
    than the next one's overtakes it, so the page shows the files of the first
    (`QuietTabsShowTheirFiles` exempts `crossed`).
28. A crash between the creation of a project and the write of `.lwid.json`
    (`push.rs:540`), or an upload that fails in the shell before the keys are
    kept (`index.html:1943`), leaves a project nobody can change.

## Proofs

For every value of the constants that the named assumptions allow (any number
of projects, keys, users, manifests and requests, either backend, any bounds):

* `TypeCorrect`: `Spec => []TypeOK`.  `TypeOK` includes `LocalsOK`, what the
  handlers' locals hold when they make a call; it is inductive.
* `RootCoverageHolds`: `Spec => []RootCoverage`: a stored record lists exactly
  the blobs of its root and of the versions before it, none missing and none
  left over from a root that was replaced.  `RootCoverage` alone is not
  inductive: a put writes whatever the handler carries.  The invariant
  `CoverageInv` adds `CoveredLocals`: a handler about to put carries a covered
  record, and for one that walks the chain what it has collected and what the
  manifest it reads next leads to make up the closure of the new root.
  `HistoryClosed`, `HistoryStep` and `ClosureStep` state the facts about chains
  this rests on: the closure of a manifest is itself, its files and its
  parent's closure.  Then one lemma per place that changes a
  record or a local: `ModifyCovered`, `WalkedCovered`, `PutCovered`,
  `RemoveCovered`, `HandleCovered`, `ArriveCovered`.

* `ReapsOnlyOverdueHolds` and `KeepsBlobsOfLiveHolds`
  (`LwidServerSafetyProofs`).  Both speak of the second pass of a sweep and rest
  on what the first pass saw, so neither is inductive.  `SweepInv` says, of
  every record not written since the sweep began: an id noted as expired was
  expired at the start and still is (`ExpiredIsExpired`); one the first pass
  has read is noted as expired, or its blobs are noted as live, or it could not
  be read (`ReadIsAccounted`); and what the second pass is about to delete is
  not live (`SecondPassSpares`).  `OthersKeepSweepInv` is the lemma that makes
  it work: any step of another task keeps it, as the records it changes become
  `touched`.  With `RootCoverageHolds` it follows that no version of a live
  project loses a file (`KeepsVersionsOfLive`).
* `SweepIsCompleteHolds` (same module): a sweep in which no call failed leaves
  no project that was due when it began, unless its record was written
  meanwhile.  `NoneDropped` is the inductive invariant: such a project is still
  to be read, noted as expired, or about to be removed; `StillPending` takes
  one step.  This is the safety half of `OverdueIsReaped`: what TLC adds is
  that sweeps begin and end.
* `KeyIsCreatorsHolds`, `ExpiryBoundHolds`, `AuthorisedWritesHolds`
  (same module).  An update writes back a copy that it read
  earlier, so a property of the records needs the same property of the copies:
  `WriteInv` says that every record a handler carries has the creator's key
  and a bounded deadline, and that a handler past its check carries a request
  signed by the creator's key (`CarriedOK`, `BoundedExpiry`).
* `QuotaOverrunBoundedHolds` (same module).  Counting stored projects is not
  inductive: a request that counted too few has not stored one yet, and a put
  may bring a removed one back.  `QuotaInv` counts both: a request from the
  moment it listed too few projects (`Admitted`), and a project from the moment
  some request may store it or make it the user's (`Claimed`).  A project is
  claimed once however many requests carry it, which is why the bound does not
  grow with the number of requests that follow one another.
* `ServerImplementsRegistry` (same module): the refinement, step by step.  That
  the draft is the record of that moment with what was asked for set in it
  needs to know what the handler's locals stand for: `OrdersOK` says that a
  handler that walks the chain of parents knows the root it will set, that only
  updates come to a put and only deletions to a removal; `CoverageInv` says
  that the blobs collected by the end of the walk are those the version needs.
  `WriteInv` gives the holder's key and the bound of deadlines,
  `SweepInv` that what the sweep removes was seen past its deadline, and
  `ReaperInv` what the reaper holds between its passes.  Then one lemma for
  each of `Admit`, `DrawUp` and `CarryOut` (`AdmitOrder`, `DrawUpImplements`,
  `CarryOutImplements`).
* `TypeCorrect` and `AdmitsOnlyFittingHolds` (`KvStoreProofs`).  A put measures
  the store while others write, so its total is tied to no state of the store;
  `MeasuredInv` bounds it by what the files it has read can hold.  Then no sum
  wraps, a negative difference is refused (`AdmitsFitting`), and a put at its
  write fits by its own numbers.
* `OverrunBoundedHolds` (same module).  Neither the sizes nor the totals say how
  an overrun came about, so `OverrunInv` says that there is an explanation: an
  order of the puts in flight by when they began to measure, the youngest that
  has written (`last`), what the store held by its measurement with its own
  value in place (`cap`), the keys where a value may exceed that (`over`), and,
  for each younger put, what it has read so far (`view`) and which keys were
  written since it began (`missed`).  `Capped` is the count: `cap`, and a value
  for each key of `over` and each put in flight that is older than `last`, are
  within the bound.  An older put that stores its value moves from the second
  to the third (`LandKeeps`, `Trade`); a younger one that writes makes its own
  view the new `cap` and what it missed the new `over` (`NewCap`), which needs
  that it fits and that it has missed no more than the older ones that landed
  (`Views`); a step that stores nothing changes nothing (`QuietKeeps`).  The
  existential stands in the invariant, so the model needs no history variables.
  The total is at most `cap` and a value for each key of `over`
  (`CountCovered`).
* `OnlyRacingValuesStayHolds` (same module).  `RemovalInv` adds why: once
  the record is gone no put passes its check, so every put in flight is one of
  `racing`, and a value `delete_all` has not listed is one of theirs.  `Shape`
  keeps the part of the type that this needs.

* `TypeCorrect`, `AckedStoredHolds`, `AckedListedHolds`, `AnswersOnPageHolds`
  (`StoreBridgeProofs`).  A save overwrites the index with a copy that may be
  old, so `AckedListed` needs the same of every copy about to be saved
  (`HandlerOK`), that calls in flight have noted each other (`MeetingsNoted`)
  and that nothing is claimed of a key somebody writes (`WrittenIsOpen`):
  together `BridgeInv`.  There is one lemma for a call's start, one for a step
  in the middle and one for its end.  For the answers, `IdInv` says that the
  numbers of one page's calls differ and are below `nextId`.
* `TypeCorrect`, `PullsOneVersionHolds`, `UntouchedKeptHolds`, `ShownMatchesHolds`
  (`PublishingProofs`).  A directory in the middle of a pull has no version, so
  `PublishingInv` says of a pull what it has written (`PullOK`), which is true
  only if nothing else pulls or pushes there: `Alone`.  What a client publishes
  it read long before, so `CarriedOK` says that the files it carries differ from
  the version they come from in the files it is about only; a merge or a read
  of the root keeps that with the root as the parent, and `UntouchedKept`
  follows at the step that publishes.  Versions never change once published
  (`Grows`), which keeps all of this under others' steps.  For the marks,
  `ShownInv` says that a tab nothing tore is between loads, or in one load
  alone, whose version it marks already.
* `SignInProofs`.  `TypeCorrect`; `SignedOutStaysOutHolds` from `TokenInv` (a
  token is drawn once, and one that was signed out has no row and is in no
  handler that could write it); `AccountKeptHolds` from `AccountInv` (the insert
  that finds a row does nothing); `SessionWindowHolds` for any length of the
  day, from the division alone; `OpensOneSessionHolds` from `TicketInv` (a link
  or state is in its map, or with one handler, or has opened one session) over
  `KindInv`; `SessionIsProversHolds` from `MailInv` (a link is mailed to the
  account it was kept for) and `ProverInv` (what a handler carries past its
  ticket is the identity that proved it, up to the row it selects);
  `NoneLostHolds` as its own invariant.
* `ExporterProofs`.  `RestIsWhole` is not inductive: `WholeInv` adds that
  whoever writes an existing file found it empty, and is alone unless the file
  is suspect.  `TornStaysHolds` follows from that a task takes a record's name
  only after it parsed.  For `CountsUntouchedHolds`, `CountsInv` says of the
  projects read so far what the property says of all at the end; a project
  that changes moves from the sure to the unsure ones (`UnsureCounts`), and one
  that is read adds one to its class or to them (`GetCounts`).
* `SandboxProofs`.  `TypeCorrect`, which holds the reason why no request waits
  for ever: one that waits has a promise, and a promise has a timer.
  `FilesKnowTheirShellHolds`.  `QuietTabsShowTheirFilesHolds` speaks of states
  in which nothing is under way, so `QuietInv` says what holds on the way there.
  While nothing failed or crossed, versions are one tab's (`VersionsOwned`);
  transfers reach the worker in the order a shell sent them
  (`TransfersInOrder`); and of a tab that has sent its files (`Arrive`), all
  transfers the worker has not seen are its own, a stale one is followed by one
  of the tab's files, and these are on their way or the worker has nothing
  else, and likewise for the page.  `MovedArrive`, `StillArrive`,
  `AnsweredArrive`, `PostArrive` and `SetFilesArrive` are the ways in which a
  step keeps that.

Assumptions, which TLC evaluates in every run of their modules: `NoneIsNoCid`,
`ManifestsAreCids`, `ContentsType`, `ChainsHaveNoCycle`, `NoneIsNoValue`,
`DurationType`, `PolicyType`, `InstanceType` (finitely many project ids and
request slots), `NoneIsNoRecord`, `NoneIsNoOrder`; `LimitsType`,
`WidthSuffices` (`KvStore`); `BridgeType`, `NoneIsNoMessage`;
`PublishingType`, `NoneIsNoTask`; `NoneIsNoValue`, `AddressType`, `BoundsType`,
`NoneIsNoRecord` (`SignIn`); `NoneIsNoName`, `StoresAreApart`, `PagesType`,
`DeadlineType`, `LimitsType` (`FsStores`, `Exporter`); `BoundsType`
(`Sandbox`).

Model-checked only: what must eventually happen, `OverdueIsReaped`,
`OverdueLeavesNothing` and `EveryRequestAnswered` (the prover has no rules for
fairness and `ENABLED`; the safety half of the first is `SweepIsCompleteHolds`).
Every invariant and action property of the passing
runs is a theorem.

## Not modelled

* Configuration and start-up read files and the environment once; what they
  decide (tiers, quotas, the backend) are constants.  The default tiers that
  `serde` fills in are left out with them.
* Redirects, the sandbox gate and the skill pages are stateless answers.
* Cryptography (AES-GCM, Ed25519, signed cookies, PKCE) is assumed perfect, and
  `nanoid` never draws twice what it drew before.
* The creation of a project in the CLI and the shell: nothing recovers from a
  failure in the middle (known limit 28), so there is no guarantee to state.
* Sizes in manifests are natural numbers: the `u64` sum of the sizes a client
  states could wrap (`manifest.rs:68`), only with sizes no file has.
* Blob size limits, contents of store values, the gauges of the database and
  of the blob store, and the text the exporter renders.
* The secret scan is regular expressions over local files; the viewers,
  examples and packaging are not part of the protocol.
* In `Sandbox`, `READY` and `ERROR` messages only decide what the shell tells
  its user and are left out; so are the kinds of files and the viewers' assets.

## Plan

What is left, in this order: two tabs in the `sandbox` run, with a reduction
that fits its time; requests of `StoreBridge` that take effect after their
failure was reported; the creation of a project, should the clients learn to
recover from a failure in it.
