# A TLA+ model of go-tool-cache

go-tool-cache is a build cache for `cmd/go`. `cmd/go` starts a child process,
**go-cacher**, and asks it over stdin/stdout for the output of an action or
gives it one to keep. go-cacher keeps outputs in a directory and may share them
with other builders through an HTTP server, **gocached**, which keeps a SQLite
database and a directory of files and evicts what is old or too much.

This directory holds TLA+ modules that model those programs, the TLC
configurations that check them on small instances, and theorems about them that
TLAPS checks for every value of their constants. Source lines below are those
of the repository (`src/...`); `PROJECT.json` maps every definition to the lines
it stands for, and lists the runs, the hazards, the findings and, for every
property, a plausible bug of the code that breaks it (a *mutant*, marked as such
where it is defined).

## 1. Inventory

| component | state it keeps | operations | who it talks to |
|---|---|---|---|
| gocached storage (`gocached/gocached.go`) | tables `Blobs`, `Actions`; body files `ab/<sha>` and `ab/<sha>.lz4`; `accessDirty` | PUT, GET, HEAD, access-time flush, `usageStats`, cleaner (`runCleanLoop`, `cleanOldObjects`, `deleteBlobs`) | handlers, flush timer and cleaner share tables, files and `sqliteWriteMu` |
| gocached flush, locks, pool | `accessDirty`, `accessFlushTimer`, `sqliteWriteMu`, `mu`, `writeConn`, the `database/sql` pool | `enqueueAccessTimeBump`, `flushAccessTimeBumps`, every statement, `Close` | timers call back; `usageStats` calls the flush |
| gocached start and shutdown | the loops that run | `start` opens the database, runs a cleaning pass, loads the key sets, starts the loops; `Close` | the process dies and restarts |
| gocached migration | `gocached-v3.db`, `gocached-v4.db`, a temporary copy | `openDB`, `migrateV3ToV4` | first step of `start`; before it, the old server writes v3 |
| sessions and authorisation | `sessions` by token, statistics per session | token exchange, expiry, session cleaner | the JWT validator |
| JWT validator (`internal/jwt`) | key sets of the issuers | validate, refresh | the issuer, over HTTP |
| metrics and debug pages | counters, `lastUsage` | presentation | — |
| HTTPClient (`cachers/http.go`) | none of its own | Get, Put | DiskCache, the server; Put writes to disk in a goroutine beside its request |
| DiskCache (`cachers/disk*.go`) | an output file per output ID, an action file per action ID | Get, Put | the directory is shared by goroutines and processes |
| cacheproc (`cacheproc/cacheproc.go`) | requests in flight, counters | Run, handleGet, handlePut | `cmd/go` on one side, a cache on the other |
| go-cacher-server (`cmd/go-cacher-server`) | none of its own | PUT, GET of an action, GET of an output | a DiskCache, whose directory other processes may share |
| wire, cmd/go-cacher, cmd/gocached, logger | — | JSON types, flags, listeners | — |

What is hard in this code:

- **PUT against eviction.** A PUT renames its body into place, then takes
  `sqliteWriteMu`, then runs two transactions. The cleaner chooses blobs without
  the lock, and under it removes rows *and files*, the files before its commit.
- **Files and rows are two stores.** A crash, a failed statement or a failed
  unlink between a change to one and the other must not be visible as a lie.
- **Naming.** Which of its two names a body has is decided by PUT from a
  threshold and inferred by GET from two sizes; bodies migrated from v3 break
  the threshold rule.
- **The flush.** A timer that has fired may be reset; the flush takes two locks
  and a connection; it must not lose the wake-up of a pending access time, nor
  wait for somebody who waits for it.
- **go-cacher's directory.** Goroutines and processes read and write it without
  locks: the action file must never be visible before the output it names. On
  Windows they write its files in place, over each other's.
- **Upgrade.** A database is a main file and a log; the migration copies and
  renames main files, and may die anywhere.
- **Start, key sets, Close.** Key sets come over the network from several
  issuers; sessions outlive key sets and rotations, not the process; loops must
  end from wherever they are, and `Close` runs beside a flush that is getting its
  connection.
- **Partial failure of a get or a put.** The download fails after the server
  said yes; the disk write runs beside the request.

What makes each component correct:

- storage server: a hit is the entry some client stored for that action; rows
  agree with rows, and rows with files; limits are reached; PUTs and passes end.
- access times: what a row says is close to when its action was really used, and
  what is evicted was unused, or used the longest ago.
- flush: no pending access time without a wake-up; no circular wait; nobody adds
  to a batch while it is written.
- HTTPClient, DiskCache, cacheproc: a hit was offered for that action and was in
  the directory; an acknowledged put is on disk; every request is answered;
  `BestEffortHTTP` hides the network's failures.
- migration: at any point of death, the rows that could be read can be read, and
  the version changes once.
- sessions and key sets: what a handler runs for was signed by its own issuer and
  had the claims; key sets are there before anyone needs them, and catch up;
  expired sessions go; loops end.
- Windows directory, go-cacher-server: an entry was stored for its action; writers
  do not spoil each other; without errors, what is named and what is sent is whole.

## 2. Modules

| module | stands for |
|---|---|
| `GocachedTables` | bodies, rows and files, and what the SQL statements compute: the upsert, INSERT OR IGNORE, the join of GET, `usageStats`' sums, `cleanCandidates`, the batch of the size phase |
| `Gocached` | the server: PUT, GET, flush, cleaner, start, crash |
| `GocachedFiles` over `Gocached` | which files the rows have lost, and how |
| `GocachedUses` over `Gocached` | when actions were really used, beside what the rows say of it |
| `ActionCache` | abstract: what a build cache promises its clients |
| `GocachedFlush` | the flush, its timers, locks, the pool and `Close`, finer than in `Gocached` |
| `GocachedMigration` | the database files over an upgrade |
| `DatabaseUpgrade` | abstract: readable rows only grow, and the version changes once |
| `GocachedSessions` | key sets, token exchange, sessions, the background loops |
| `GocachedStart` over both | the life of a process: start, serve, `Close`, die, start again |
| `GoCacher` over `DiskCache` | go-cacher: cacheproc's requests, HTTPClient, the directory |
| `ReadThroughCache` | abstract: `ActionCache` for a cache that overwrites and fills from elsewhere; `GoCacher` and `GoCacherServer` implement it |
| `GoCacherServer` over `DiskCacheWindows` | go-cacher-server's handlers, and the directory as written on Windows |
| `MCGocached`, `MCGocachedFiles`, `MCGocachedUses`, `MCGocachedFlush`, `MCGoCacher`, `MCGoCacherServer` | the instances TLC checks |
| `GocachedProofs`, `GocachedFileProofs`, `GocachedCacheProofs` | theorems about `Gocached`: its tables, its files (with `GocachedFiles`), and that it is an `ActionCache` |
| `GocachedUsesProofs` | theorems about `GocachedUses`: access times, and what is evicted |
| `GoCacherProofs`, `GoCacherServerProofs` | theorems about `GoCacher` and about `GoCacherServer` |
| `GocachedFlushProofs`, `GocachedStartProofs` | theorems about `GocachedFlush` and `GocachedStart` |

### Gocached

Variables are the program's: `blobs` and `actions` (sets of rows), `lastBlobID`
(AUTOINCREMENT), `disk` (files, each a body's hash and whether it is the `.lz4`
name), `accessDirty`, `writeMu` (the holder of `sqliteWriteMu`); `put`, `get` and
`cleanPC` say where each goroutine is. An action is one atomic effect: a rename,
an unlink, a transaction at its commit, a section under `mu`.

| code | actions |
|---|---|
| `handlePut` | `PutStart`, `PutRename` (with `writeDiskBlob`), `PutBodyFails`, `PutUpsertBlob` (takes the lock), `PutInsertAction` (releases it), `PutFails` |
| `handleGetAction` | `GetLookup` (the join), `GetBump` (`maybeBumpAccessTime`, under `mu`), `GetOpen` (the file); a flush or a deletion may come between any two |
| `flushAccessTimeBumps` | `TimerFlush`; `CleanFlush` when `usageStats` calls it |
| `runCleanLoop`, `cleanOldObjects` | `CleanWake`, `CleanFlush`, `CleanStats`, `CleanAge`, `CleanSize`, `CleanQueryFails` |
| `deleteBlobs` | `DeleteBegin`, `DeleteRemove` (one blob's two unlinks: nobody can tell them apart unless the second fails), `DeleteCommit`, `DeleteFails` (which may leave the second name) |
| outside | `Tick`, `Crash`, `RemoveByHand` |

`Faults` says which of `"crash"`, `"io"` (statements, opens and unlinks that
fail) and `"hand"` (somebody removes a file) may happen. A body is a model value
with two sizes, its own and that of its lz4 frame; they decide on which side of
the inline and compression thresholds it falls. An initial state is an empty
database or what one PUT left to v3 and the migration kept.

Simplifications, each harmless to the properties: a HEAD is a GET that sends no
body; namespaces are one; `CreateTime` is not kept, since nothing reads it;
temporaries are not files, since nothing opens them (that a crash leaves them for
good is left out with them); BlobIDs have no gaps; counters and logs are left out. The
flush is one step here: it holds `sqliteWriteMu` and `mu` throughout. Its inside
is `GocachedFlush`, whose `FlushIsOneStep` (theorem `FlushesAreAtomic`) is what
allows this. That `maybeBumpAccessTime` looks at the clock before it has `mu`, and
`enqueueAccessTimeBump` once more under it, is one reading in `GetBump`. The size phase runs once: a batch smaller than the
candidates made up the excess, so the loop's condition fails, and a batch of all
of them makes the code stop (`AfterDelete`; its mutant loops).

### GocachedFiles

A row without its file is a miss: GET answers 404, and INSERT OR IGNORE keeps the
PUT of another output from replacing the row, so that nothing but a PUT of the
same body ends it before its eviction (the hazard at line 844). The comment
there knows of one way to get such a row, a file removed by hand. `GocachedFiles`
finds the others. It adds a history variable, `lost`: the names of files that were
removed by a deletion that then did not commit, so that its rows are there again
(`Torn`), or that were removed while a PUT which had renamed them waited for the
lock (`Robbed`), and that nobody has written since. `EveryRowAccounted` says that a
row outside the cleaner's batch has the file GET opens for it, or that file is
`lost`, or its body is one that PUT and GET name differently (`Misnamed`): one
whose lz4 frame is just as long as itself, which PUT, going by the body's length,
writes to the `.lz4` name, and GET, to which two equal sizes mean no compression,
looks for under the other. These exceptions are what the code does, at lines 1487,
1047 and 804; the first two end when somebody writes the file again. So what is left
cannot make such a row: a PUT that dies, or fails, between its rename and its
inserts, a body that ends early, two PUTs of one body or of one action, a row of
v3 that is put again and then has both files, an eviction of one body beside the
PUT of another.

### GocachedUses

The cleaner goes by the access times in the rows, and these are not the times of
the uses. A use less than a day (`relAtimeSeconds`) after the recorded one is not
recorded; a recorded one waits in `accessDirty`; later uses count for nothing
while one waits; the flush writes it over whatever the row holds by then, be it
the row of a newer PUT; a crash forgets it. `GocachedUses` says what can still be
said of the uses. It adds four history variables: each of its actions is one of
`Gocached` conjoined with an assignment to the four, and no guard reads them.
They are `lastUse`, when an action was last found by a GET (when `GetBump` notes
the use, not when the row was read) or stored by a PUT (a PUT of an action that is
there is no use: `INSERT OR IGNORE` leaves its row alone); `lag`, the longest
that a time has waited in the batch so far; `forgotten`, the actions whose last
use died with a process; `fresh`, those used since the flush of the cleaner's
pass, or that this flush did not write.

`Slack` is how far a row may be behind: less than a day, and `lag` on top of it,
since the time a GET has read from the row may be replaced, before the GET
compares it with the clock, by one that has waited in the batch; the GET then
takes its use for recent against a time the row no longer has. `lag` is not bounded by the "few seconds" of the comment at
`gocached.go:889`: each new bump sets the timer to five seconds again while the
batch has fewer than 1000, so a busy server may put a flush off for more than an
hour, and failing flushes for as long as they fail. The properties are:

- `AccessTimesTrackUses`: a row's time is never after the last use, and at most
  `Slack` before it unless a newer one is pending or forgotten;
- `OnlyUnusedAgeOut`: what `MaxAge` evicts was not used for `MaxAge` less `Slack`.
  With a `MaxAge` of a day or less that is nothing, which is the hazard at line 870;
- `LeastUsedGoFirst`: what `MaxSize` evicts was used no later, to within `Slack`,
  than something of every blob that stays.

The last two except what is `fresh` (candidates are chosen before the pass has the
lock, and nobody looks again: the hazard at line 1559) and what is `forgotten`.

### GocachedFlush

Every statement needs a connection of a pool of `PoolSize`
(`min(runtime.NumCPU(), 4)`), and the flush keeps one in `writeConn`. A timer is
a model value that may be armed, fired, and armed again by `Reset`. What
statements read is left out: whether an access time is a day old is any choice.
A statement that uses a connection while waiting for nothing else is one step;
the query of GET is two, because where it gives the connection back decides
whether the flush can wait in a circle with it (`WaitsInOrder`: whoever cannot go
on waits for somebody at work who is further on in the order `sqliteWriteMu`,
`mu`, connection; `OnlyTheseWaits`: there is nothing else to wait for). `CloseCancels` and `CloseLocked`
are the two halves of `Close`: it cancels the context, waits for `mu`, and
closes `writeConn` and the pool. What waits for a connection then fails; what
has one ends its statement (`CloseReleasesConns`). `FlushScheduled` holds after
`Close` as well, which is the hazard listed at line 447: the flush fails and
sets a new timer, for ever.

### GocachedMigration, GocachedSessions, GocachedStart

`GocachedMigration` has the two database files and the temporary copy. A file is
its rows and the statements of the migration it has had, and, of both, what
only its log has; copying and renaming take the main file (`MainFile`).
`OldPut` and `OldCheckpoint` are the server of the version before, which runs
when the new one does not. `MigrateCheckpoint`, `MigrateCopy`,
`MigrateStatement` (three statements in order), `MigrateClose` and
`MigrateRename` are the steps of `migrateV3ToV4`, and `MigrationStops` is an
error or a death after any of them. The refinement to `DatabaseUpgrade` maps the
rows to those GET can serve: a row that has no `UncompressedSize` is not one.

`GocachedSessions` has, for each issuer, the key set it publishes (`Rotate`
changes it) and the one the validator has. `LoadKeys` and `Serve` are the end of
`Server.start`; `RefreshWakes`, `FetchJWKS` and `FetchFails` are `updateJWKS`,
one issuer at a time, at start and every twelve hours; `Exchange`, `Admit` and
`Answer` are a token exchange and the two ends of a request, with a whole life of
the server between them; `CleanSessions` is a round of `runCleanSessionsLoop`;
`Close`, `LoopReturns` and `Stop` end loops and processes. A JWT is its issuer,
the key that signed it and whether its claims meet the two sets of claims.

`GocachedStart` puts both in order: the keys are loaded when the database is up,
a PUT writes a row if it is admitted, an error or a death takes all that is in
memory, and files stay.

### GoCacher

`req` is the requests in flight: those of one go-cacher, or of several on one
directory. `ReceiveGet`/`ReceivePut` are the decoder's loop; `GetLookup`,
`GetFetch`, `GetFetchOutput` and `GetSaved` are `HTTPClient.Get`, or the first
alone `DiskCache.Get` where there is no server (a file that cannot be read is then
an error, one that cannot be parsed a miss; to HTTPClient both are a miss), in both
protocols (one request with headers; or an index entry and a second request);
`SaveOutput` and `SaveAction` are the two renames of `DiskCache.Put`;
`PutSend` and `PutJoins` are the two halves of `HTTPClient.Put`; `GetStat` and
`PutStat` are the `Stat` before cacheproc answers; `Exit` is end of input or
death. An output file is never there, whole, of another length, or removed.
Of the server the model assumes only that a hit is an output some builder
offered for the action, which is what `Gocached` is shown to give by
`ImplementsActionCache`. Compression and JSON are data, and left out. The
`close` command and the counters change no state of the cache.

### DiskCacheWindows, GoCacherServer

An output file is a sequence of chunks, right or wrong; an action file is the
record written to it last, how much of that is left and how long the file is.
`PutStat` is the `Stat` and the hash of what is there, and decides about
`O_TRUNC`; `PutOpen`, `PutWrite` (a chunk) and `PutWritten` (the hash of what was
read) are the rest of `writeOutputFile`; `ActionOpen`, `ActionWrite` and
`ActionTruncate` are `writeActionFile`; `RemoveOutput` and `RemoveAction` are its
removals after an error, which fail on a file that somebody has open, as Windows
has it. `HandleGetAction`, `StatOutput` and `HandleGetOutput` are the server's
GETs, and `SendChunk` is `http.ServeFile`, which sends the length it found first.
The writers may be one process's or several's. A client that GETs an action then
GETs the output it names, unless it is told that the output is empty, in which
case it does not ask for it, as `HTTPClient` does not (`http.go:165`). In the refinement of `ReadThroughCache` the map is the
records that parse, so a record that is half overwritten is an entry that is not
there. A client is at work on an entry from the answer about its action until
it has the body; it has a hit when the body is as long as the answer promised,
and an error when it ends before. A 404 on the way is a client that leaves.

## 3. Runs

| run | shows |
|---|---|
| `store_limits` | with limits on age and size, no faults and fair scheduling: `EveryFileAccounted` (no file is left where the cleaner will not find it, whichever of its two names it has), `OnlyBatchFilesGo` (deleting takes away no other blob's file); PUTs and passes end; once PUTs stop, what actions name fits in the size limit, and nothing stays whose last recorded use is too old |
| `store_all_faults` | with limits and every fault: `NoMissingBlobRows` (an action row has its blob row, although the cleaner deletes blobs), and the server implements `ActionCache` |
| `store_files` | with limits, crashes and failing statements and unlinks: `EveryRowAccounted` (a row without its file is being deleted, or lost it in one of two ways, or is of a body whose frame is as long as itself), migrated rows included |
| `flush` | `FlushScheduled`: no lost wake-up; `WaitsInOrder` and `OnlyTheseWaits`: no circular wait, of few or of all; `FlushIsOneStep`: while a flush is at its statements nothing is added to the batch it will drop, and nobody else writes; `CloseReleasesConns`: `Close` leaves no connection behind, whatever flush was getting hold of one |
| `uses` | with limits on age and size, and crashes: `AccessTimesTrackUses`, `OnlyUnusedAgeOut`, `LeastUsedGoFirst` |
| `start` | `KeepsItsRows`: the migration implements `DatabaseUpgrade`, and no restart loses a row; `KeysLoaded`: nobody validates a JWT without key sets; `RequestsAreAuthorised`; `KeysCatchUp`: although another issuer always fails; `ExpiredSessionsGo`; `LoopsEnd` |
| `gocacher` | action files name outputs that were written; acknowledged puts are on disk; no request is left waiting (`RequestsGoOn`), and each step of one brings it nearer to its answer (`AnswersComeNearer`); go-cacher implements `ReadThroughCache` |
| `windows_server` | `EntriesWereStored`: an entry names what was stored for its action; `OnlyGoodBytes`: writers in place do not spoil a file; `NamedOutputsWhole`, `BodiesWhole`: without errors and wrong bodies, what is named and what a client gets is whole, deaths or not; `SecondWritesKeepEntries`: the promise of the comment at `disk_windows.go:41`; go-cacher-server implements `ReadThroughCache` (`ServesReadThroughCache`), with every fault |

The runs expected to find a violation show what a comment or a test says and the
code does not do:

| run | disagreement |
|---|---|
| `put_races_eviction` | A PUT renames its file over the one of an old blob of the same body; the cleaner deletes that blob with the file; the PUT then inserts a row without a file and answers 204. The comment at `gocached.go:844` knows of such rows only by hand. |
| `orphans_exceed_limit` | A PUT that loses to an earlier one of the same action leaves a blob no action names; it is neither counted nor evicted, so `WithMaxSize` does not bound what is stored. |
| `one_connection` | With one CPU the pool has one connection, and after the first flush `writeConn` keeps it; everybody else waits for good. |
| `best_effort` | "BestEffortHTTP ... makes all HTTP errors non-fatal" (`http.go:41`): a response that is cut short or not understood is an error all the same. |

### Bounds, and why they are enough

*Gocached.* Two PUTs at a time (two are what it takes for one body or one action
to be put twice, and the cleaner is the third actor), one GET (getters do not
affect each other), two actions, three bodies, one per kind of storage (inline,
plain file, lz4 file). `MCRequests` has one action with two outputs, two actions
with one body, and an output ID that is not the body's hash. `MaxTime` is at
least `MaxAge` so that objects become too old; `RelAtime` is 1, so that reads are
noted and not noted; `MaxSize` holds one body and never two (in `store_limits`,
not even the compressed one). `MaxBlobID` bounds PUTs: with 2, a body can be
stored, evicted and stored again under a new ID, or two be there at once; with 3,
in `store_files`, a body can be that beside another. `CandidateLimit` (10000 in
the code) is not reached, as the argument for a single batch does not depend on
it. `Init` may hold one migrated row, so that a body has both files at once.
Putters are symmetric except in `store_limits`, which has liveness. What these
bounds leave out of safety is in section 4: each safety property of these runs
is proved for all bounds.

*GocachedFiles.* No GET, which changes no row and no file; two PUTs of the bodies
of the three kinds of storage and of a fourth, whose lz4 frame is as long as
itself; a migrated row may be of each body that has a file.

*GocachedUses.* A day is two ticks (`RelAtime`), so that a use may be recorded,
not recorded for being within the day, or recorded and late; `MaxAge` is three, so
that something of it is left when `Slack` is taken off. Two actions name one body
or two, of which `MaxSize` lets one stay, so that there is an order of eviction,
and a blob with an action that was used and one that was not. One PUT and one GET
at a time beside the flush and the cleaner: what races is the GET that has read a
row, or its use, against a flush or a pass. `MaxTime` is four, two days, which is
what a GET needs that reads a row a day old, is overtaken by a flush of a time that
waited, and then takes its use for recent. Failing statements are left to the
theorems, which hold under every fault; in this run a flush may come late anyway,
and a crash may come in the midst of a deletion.

*GocachedFlush.* Two connections in the pool (the flush's and one that all share
is the tightest pool that works), two concurrent callbacks, three timers, two
scanners of which one deletes, a soft limit of two so that both sides of it
happen. Where all timers run, a new one counts as one of them (`NewTimers`), so
the bound takes no step away. Getters, callbacks and timers are
symmetric.

*GocachedStart.* Two issuers, of which one may fail each time and the other
rotates its keys, four keys of which one is not for signing, one token, one
request at a time, one row. `MaxTime` is the TTL and one more, so that a session
expires and the clock stops after it. A token is made once, in one life of the
server, and is presented in the next. One row is enough: rows do not affect each
other, and what a log has of it is what matters.

*GoCacherServer.* Two writers and a reader, one action with two outputs, two
chunks each, records of one and two units (so that each truncation cuts or
leaves a tail), wrong bodies shorter than the output. The faults come in sets,
chosen at the start (`FaultSets`): deaths; deaths and errors; wrong bodies, so
that each property can say which of them it bears.

*GoCacher.* Two requests at a time with two actions and two outputs: an action
that two builders built differently, and an output two actions share. A request
slot is used again after its answer, so there is no bound on the history.

Clocks are in units of a day (`relAtimeSeconds`), in `GocachedUses` of half a day,
so within one unit all orders happen.

### Fairness

`Gocached!Fairness` and `GocachedFlush!Fairness` assume that goroutines that can
run do, that timers fire, and that whoever waits for `sqliteWriteMu`, for `mu` or
for a connection again and again gets it: `sync.Mutex` hands over in FIFO order
when a waiter starves and `database/sql` queues requests for connections, hence
SF for steps that wait. Nothing is assumed of clients: an upload may stall, and
no request need ever come. Nothing is assumed of faults: they may happen for
ever where a run has them, which is why the runs with liveness have only those
that the property is about. `SessionsFairness` assumes that time passes, that
the loops run, and that a fetch is answered or fails, as its context ends after
a minute; SF for `LoopReturns`, since `select` takes each of two ready cases
again and again. `GoCacher` and `GoCacherServer` state no fairness; `RequestsGoOn` says
that no request is without a next step, and `AnswersComeNearer` that each step
brings it nearer to its answer.

Deadlock is checked in every run but `one_connection`, where the wait for a
connection that never comes is the finding.

## 4. Proofs

For any sets of clients, requests, bodies, timers, issuers, keys, tokens,
writers, readers and outputs, any limits, any lengths of files and any pool
the code can make (one to four connections), from the assumptions the modules name (`RequestsAssumption` and so on).
These say of the constants what their use does: that identifiers are offered for
some action, that sizes are numbers, and that the value that stands for nothing
there (`NoEntry`, `NoFile`, `NoOutput`) is not also an entry, a file or an output.

Of `Gocached`:

| theorem | assuming | argument |
|---|---|---|
| `TypeCorrect`: `Spec => []TypeOK` | — | one step per action |
| `NoActionDangles`: `[]NoMissingBlobRows` | nothing: every fault may happen | inductive invariant `TablesInv` |
| `NoFileLeaks`: `[]EveryFileAccounted` | no `"io"`, no `"crash"` | `TablesInv`, `EveryFileAccounted`, `RemovedStayRemoved` together |
| `DeletionsAreConfined`: `OnlyBatchFilesGo` | no `"hand"` | a step property from `TablesInv` |
| `RowsAreAccounted`: `[]EveryRowAccounted` | no `"hand"` | inductive invariant `RowsInv`, with `TypeOK` |
| `UnlimitedServesItsRows`: a row is servable, or of a body PUT and GET name differently | `MaxAge = MaxSize = 0`, no `"hand"` | nothing is deleted, so nothing is lost; then `RowsAreAccounted` |
| `IsAnActionCache`: `ImplementsActionCache` | nothing: every fault may happen | a step simulation from `TablesInv` |
| `HitsWereOffered`: who is told of an output and a body was told of what one PUT gave for its action | — | an invariant of `ActionCache`, through `IsAnActionCache` |

`NoMissingBlobRows` is not inductive: a PUT between its inserts has only a
number. `TablesInv` adds that the number's row is there (`BlobKept`), that a PUT
there and a cleaner between its statements hold the lock (`LockHeld`), and that
keys are unique (`KeysUnique`), without which the upsert could give the ID of
another body. `EveryFileAccounted` needs that files already removed by the
cleaner have not come back (`RemovedStayRemoved`), or the commit would take away
the row of one that has. `EveryRowAccounted` needs that a PUT that waits for the
lock has its file, or has lost it (`WaitingHaveFiles`). That the exceptions are
needed is what `put_races_eviction` shows of one of them; without limits the
two that come from deletions fall away, and `UnlimitedServesItsRows` is what a
server with the default options keeps of it.

The cache that clients of `Gocached` see is the join of its tables. That this is
a map at all is `TablesInv`: one row for an action, one blob for that row. Of the
steps, the insert of an action is `Insert`, and only of an action that has no row
(INSERT OR IGNORE), with the body of the BlobID the PUT was given, which is
why `BlobKept` is needed; the commit of a deletion is an `Evict` of all the
actions of its batch; a crash is a `Restart`, which takes the readers and leaves
the map; an upsert adds a blob no row names yet, and a flush changes access times
only, so both are stutters. A row keeps an output ID only when it is not the
body's hash; that what is read back is what was put needs that the value which
stands for "the same" is not an output ID. `HitsWereOffered` is then proved on the
few steps of the abstract cache, which is what the abstraction is for.

Of `GocachedUses`, under every fault:

| theorem | argument |
|---|---|
| `AccessTimesAreClose`: `[]AccessTimesTrackUses` | inductive invariant `TablesInv`, `UsesInv` and `FoundNotAhead` together |
| `OldOnesWereUnused`: `OnlyUnusedAgeOut`; `EvictionIsLeastRecentlyUsed`: `LeastUsedGoFirst` | step properties from the same invariant |

Each step of `UsesSpec` is one of `Gocached` (lemma `IsAStep`), so that what is
proved of `Gocached` can be used. `UsesInv` adds what the batch of access times holds (none after the last use of
its action, none that has waited longer than `lag`), `FoundNotAhead` how far a GET
that has read a row may be ahead of it (by `lag`, which is where `Slack` gets it
from), and `UsesInv` again what was true of the
cleaner's batch when it was chosen: `BatchUnused` and `BatchLeastUsed` speak of
the rows of now, so they say that rows which come, times that are written and
uses that happen between the choice and the deletion change nothing, or are
among the exceptions. Two facts of `TablesInv` are needed: one row for an action
(`KeysUnique`), or the flush and the watching variables would be about different
rows, and a blob row for each action (`NoMissingBlobRows`), or an action could
stay that was no candidate. `cleanCandidates` orders blobs by the `MAX` of their
actions' access times. That this is the time of one of them, and of the latest,
is `LastAccessIsLatest`, which finds the latest as the one that is the least
below a bound, by the well-ordering of the naturals (`LeastNatural`), so that no
induction over rows is needed.

Of `GocachedFlush` and `GocachedStart`:

| theorem | argument |
|---|---|
| `NoLostWakeUp`: `[]FlushScheduled` | inductive invariant `ScheduledInv` |
| `FlushTypes`: `[]TypeOK`; `CloseLeavesNoConnection`: `[]CloseReleasesConns` | inductive invariant `ConnsInv`, beside `BumpInv` |
| `WaitsAreOrdered`: `[]WaitsInOrder`, for two connections or more | from `ConnsInv` and the inductive invariant `HoldersInv` |
| `NobodyIsStuck`: while anybody is at work, somebody waits for nothing | from `WaitsAreOrdered`: who is furthest in the order waits for nobody |
| `FlushesAreAtomic`: `FlushIsOneStep` | a step property from `HoldersInv` |
| `UpgradeKeepsRows`: `KeepsItsRows` | a step simulation from the inductive invariant `MigrationInv` |
| `KeysAreLoaded`: `[]KeysLoaded` | inductive invariant `LoadedInv` |
| `OnlyAuthorisedRequests`: `[]RequestsAreAuthorised` | inductive invariant `AuthorisedInv` |
| `StartTypes`: `[]TypeOK` | one step per action |

`FlushScheduled` is not inductive: a full batch does not reset the timer, so
`ScheduledInv` adds that a timer which `accessFlushTimer` names runs or has a
callback that has not yet taken it away. `ConnsInv` counts connections as those of
scans and `writeConn`; it needs that a flush at its statements holds `mu`
(`MuHeld`), or `Close` and a second flush could come between the flush and its
connection. That the pool is never overdrawn, and nothing is returned twice, is
the part of `TypeOK` that needs it. `HoldersInv` says that who is past a lock has
it, and that who has it is past it. With one connection `WaitsAreOrdered` is false
(`one_connection`), which is why it assumes two; that who may go has a step is
`OnlyTheseWaits`, which is about ENABLED and left to TLC. `MigrationInv` says of each step which rows
are in main files. `LoadedInv` says that, while the server starts, who has been
asked has answered or an error is known; `AuthorisedInv` is about keys and
sessions as well as about requests.

Of `GoCacher`, with every fault and every combination of flags:

| theorem | argument |
|---|---|
| `TypesAreKept`: `[]TypeOK` | part of `Inv` |
| `NoDanglingEntries`: `[]EntriesHaveOutputs`; `AnsweredPutsAreStored`: `[]PutsAreStored` | inductive invariant `Inv` |
| `IsAReadThroughCache`: `ImplementsReadThroughCache` | a step simulation, proved with `Inv` for each action |
| `RequestsComeNearer`: `AnswersComeNearer` | a variant, `Distance`, on the kinds of requests that `Inv` allows |

Neither invariant is inductive: what a request may claim depends on how far it
is. `Inv` says for each kind of request (asked, told of a remote output, found in
the directory, saving, saved, done) which of three facts it has: that its output
was offered for its action, that the output's file has been there, that the
action has an entry. The last two stay true whatever the others do, because a
step may replace a file or damage it but none undoes that it was written
(`DiskGrows`); and the entry is written only by a request that has the second
fact. So the order of the two renames in `DiskCache.Put` is what carries both.

Of `GoCacherServer`:

| theorem | in force when | argument |
|---|---|---|
| `TypesAreKept`: `[]TypeOK` | always | inductive invariant `TypeInv` |
| `EntriesWereAlwaysStored`: `[]EntriesWereStored` | always | inductive invariant `StoredInv`, beside `TypeInv` |
| `ServesAReadThroughCache`: `ServesReadThroughCache` | always | a step simulation from `TypeInv` and `StoredInv` |
| `BytesAreAlwaysGood`: `[]OnlyGoodBytes` | no wrong bodies | inductive invariant `GoodInv` |
| `NamedOutputsAreWhole`: `[]NamedOutputsWhole`; `BodiesAreWhole`: `[]BodiesWhole` | no wrong bodies and no errors, but deaths | inductive invariant `WholeInv`, beside `GoodInv` |
| `SecondWritesAreIdempotent`: `SecondWritesKeepEntries` | as the property says: the record that is written is the one there, and no errors | a step property, from `TypeInv` and `RemovesAfterErrors` |

What is "in force when" is a condition of the property itself, on the `faults`
chosen at the start; no theorem adds one. `TypeInv` has `OpenFilesStay`: a file
that a writer or a client has open is there, which holds because Windows refuses
to remove it; without that, writing in place would be writing to nothing.
`StoredInv` speaks of the record an action file holds in part as well as in whole,
since a second writer may complete it. `GoodInv` finds why writers in place are
harmless: with right bodies nobody opens with `O_TRUNC` a file another may need,
since what is there is never longer than the body, and a writer's file always
reaches the place where it writes, so no hole appears (after a removal it starts
anew, and no file that is open is removed). `WholeInv` adds that an output is whole
from the moment its own put has passed it, which is before any record names
it, and that a client which has found it whole reads nothing else.

The theorems on `Gocached` rest on lemmas on the operators of `GocachedTables` (what the
upsert, the insert and the flush keep of types and keys, that candidates are
blobs and a batch is of candidates), stated once at the head of
`GocachedProofs`; those on `GoCacherServer` rest on lemmas on writing a chunk and on
cutting and overwriting a record, at the head of `GoCacherServerProofs`.

With these, every safety invariant, every action property and every refinement
that a passing run checks is stated by a theorem. Checked by TLC only:

- liveness (`PutsEnd`, `PassesEnd`, `SizeLimitReached`, `AgeLimitReached`,
  `KeysCatchUp`, `ExpiredSessionsGo`, `LoopsEnd`): the provers do not reason about
  fairness;
- `OnlyTheseWaits` and `RequestsGoOn`, which are about ENABLED;
- that `usage` holds numbers, which is not in `TypeOK`: that a sum over rows is a
  number needs induction over the rows, and nothing proved reads it.

## 5. Not modelled

- The statistics of a session (`/session/stats`), which are only shown, and which
  `handleSessionStats` reads while requests add to them (`gocached.go:1212`).
- Of a JWT, what the library checks: signature, expiry, audience, time of issue.
  It only refuses more.
- Two servers on one directory, and with them a checkpoint that finds the old
  server still writing.
- The log of `gocached-v4.db`: nobody copies that file.
- `NewServer` failing after `openDB` without closing the database: the model
  starts a new process, as cmd/gocached does.
- That the access token of `HTTPClient` is never renewed: to `GoCacher` a refused
  request is a request that failed.
- A connection kept by `usageStats` after a `Scan` error: integer columns of a
  STRICT table do not fail to scan.
- That `http.DefaultClient` has no timeout: GoCacher takes the network to answer
  or fail, so a server that never answers is outside it.
- Metrics, debug pages, logging, flags, JSON, cmd/gocached's listeners and its
  watch on its parent: presentation and I/O.

## 6. Plan

Done, in this order: tables and server, its abstract cache, proofs of the
server's tables and files, flush and pool, go-cacher and its abstract cache,
`Close`, migration and its abstract upgrade, sessions and key sets, the start
that composes them, proofs of these and of the flush, the directory on Windows
behind go-cacher-server, that it is a read-through cache too, proofs of go-cacher,
of go-cacher-server, and of all the refinements; then the waits and the atomicity
of the flush, the way of a request to its answer, and access times and eviction
by real uses, with their proofs.

What could follow, most important first:

1. Rows without files (`gocached.go:844`): how long an action that `lost` its
   file cannot be stored again, as a bound in terms of `MaxAge`.
2. The flush timer with its five seconds, so that `lag` of `GocachedUses` has a
   bound in terms of the rate of bumps.
3. Two servers on one directory, for the checkpoint that finds the database busy
   (`gocached.go:174`).
