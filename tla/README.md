# A TLA+ verification of TagIt, and of the replication and locks below it

This repository is GlusterFS with TagIt: every brick keeps an index of its files
(paths, stat fields, user attributes) in an SQLite database, and clients query
the databases of all bricks at once. This directory holds TLA+ modules of TagIt
and of two parts of GlusterFS under it, TLC configurations that check small
instances, and TLAPS proofs.

## The system

| part | source | how it interacts | modules |
| --- | --- | --- | --- |
| imess-server | `xlators/features/imess-server/src/imess-server.c` | on each brick, above posix; watches 13 file operations and reports each success to the index from its callback | `ImsServer`, `ImsAgree` |
| asynchronous updates | `imess-server-async.c` | callbacks append tasks to a queue, one worker thread carries them out (option `enable-async-update`) | `ImsServer`, `ImsAsyncIndex`, `ImsIndex` |
| index database | `imess-server-xdb.[ch]`, `imess-server-xdb-schema.sql` | SQL statements and transactions on SQLite connections | `ImsXdb` |
| query sessions, active execution | `imess-server-ipc.c` | answers `ipc` requests: a slice of a stored result, or a program run on the result | `ImsQuery` |
| DHT: ipc | `xlators/cluster/dht/src/dht-common.c` | sends an `ipc` to all bricks and merges the replies | `DhtIpc` |
| DHT: directories | `dht-common.c`, `dht-selfheal.c` | makes, removes and heals directories on all bricks; marks the mkdir of the hashed brick | `DhtDir` |
| ixsql, meta views | `tools/imess-cli/src`, `xlators/meta/src/imess*.c` | clients of the queries | `IxSql` |
| ixrecover | `tools/imess-recovery/src/ixrecover.c` | rebuilds a brick's database offline | `IxRecover` |
| features/locks | `xlators/features/locks/src` | inodelk and entrylk on each brick | `PlLocks` |
| AFR | `xlators/cluster/afr/src` | replicated writes, changelog, self-heal | `AfrTxn` |
| imess-client, ixview, posix | | no state of their own that matters here | |
| the rest of GlusterFS | | glusterd, RPC, NFS, erasure coding, ... | |

TagIt is about 6.7 thousand lines, upstream some 690 thousand. The brick's graph
has io-threads, so operations and their callbacks run on several threads.

With `enable-async-update` the worker has a connection to itself and queries
have a second one. Without it all threads share one connection: each SQLite call
is atomic, a transaction of several calls is not.

## Modules

Specifications: `ImsXdb` (operators only), `ImsServer`, `ImsIndex` (abstract),
`ImsAsyncIndex` (`ImsServer` with a history variable) and `ImsAgree`
(`ImsAsyncIndex` with more of them), `DhtIpc` and `ImsQuery` (components) composed
in `IxSql`, `DhtDir`, `IxRecover`, `PlLocks`, `AfrTxn`. Instances for TLC: `MC...`.
Proofs: `ImsXdbProofs` (lemmas for the two that follow), `ImsAsyncIndexProofs`
(about `ImsServer`, `ImsAsyncIndex` and `ImsAgree`), `IxRecoverProofs`, `IxRowsProofs` (lemmas) and `IxSqlProofs`,
`DhtDirProofs`, `PlLocksProofs`, `AfrTxnProofs`. Operators called `Bug...` are
faulty variants of the definition after them; with one of them in place of
that definition the property it was written for is violated.

### The index: ImsXdb, ImsServer

`ns` and `used` are the brick's file system as imess-server sees it (external):
the gfid at each path and the gfids created so far. `call[p]` is the program
counter, task and local `gid` of each brick thread and of the worker. `queue` is
the task queue. `disk` is the committed database, `view` the database as the
updating connection sees it, `intx` whether a transaction is open on it, `pend`
whether it holds SQLite's PENDING lock, `reading` whether a query holds a SHARED
lock.

In a database, `xgfid[gid]` is the gfid of row gid: rowids are one more than the
largest in use, and the code that would delete a row (`ims_xdb_remove_file`) has
no caller. `xfile[path]` is the gid of a path's row or 0. `xdata` are triples of
gid, name and value. Stat fields are represented by one of each class that
`ims_xdb_update_stat` tells apart: `st_mode` for the fields that only
`STAT_OP_ALL` writes, `st_uid` for the owner, `st_size` and `st_mtime` for those
that `STAT_OP_WRITE` writes.

- *File operations* (`ims_create`, `ims_symlink`, `ims_mkdir`, `ims_unlink` for
  unlink and rmdir, `ims_link`, `ims_rename`, `ims_setxattr`, `ims_setattr` for
  setattr, fsetattr, truncate, ftruncate and writev): the file system changes,
  and the callback is still to come. Failed operations report nothing and have
  no action.
- *Callbacks*: queue the task, or go on to the first statement on the calling
  thread. Two operations of different threads may be reported in either order.
- *Statements*: one action each. A failure goes to ROLLBACK or to the log as in
  the source. The results of BEGIN, END and ROLLBACK are ignored, as the source
  does: a nested BEGIN is an error without effect, ROLLBACK and END outside a
  transaction too.
- *SQLITE_BUSY*: the databases use a rollback journal (`db_initialize` executes
  `PRAGMA_SYNC` in asynchronous mode, nothing otherwise). END beside a reader
  fails; the transaction stays open with PENDING held, new queries are refused,
  and later tasks run inside it. A single statement outside a transaction is
  tried again in a loop, taking and releasing PENDING each time (`Busy`).
- `Crash`: the process restarts. Queue, open transaction and calls are gone;
  `init` finds the tables. `fini` neither stops the worker nor drains the queue,
  so a shutdown is the same step.
- `Rest`: every request is served. It keeps the end of a bounded run from
  counting as a deadlock; any other state without a successor is reported.

`ImsAsyncIndex` adds `base`, the view between two tasks of the worker, for the
refinement mapping to `ImsIndex`: whole updates, one after the other, in the
order they were reported. `ImsAgree` adds what the file system and the last
callbacks said, to state when the index is right.

### Queries: DhtIpc, ImsQuery, IxSql

`ipc_data`, `call` and `result` are the frame of an `ipc` in DHT, where each of
its calls is, and what it was unwound with. A callback is two steps: the merge
under the frame's lock, and the countdown after it. `index` is what the query
finds on a brick, `qres` the results it has built, `qrset` the result registered
for each session, `job` the requests the brick is serving, step by step.
`client` is the loop of `process_sql_sliced`, and `ctl` the settings of ixsql.
Rows come and go during a query, connections break (the request on the brick
runs on, unheard) and bricks restart (`MaxFault`).

### Directories: DhtDir

`dir` is the directory on each brick, `idx` and `known` what the brick's index has
of it (the row of the path, the gfids ever inserted), `queue` the tasks of the
brick's worker, `call` the requests under way and `op` the frame of each client.
mkdir goes to the hashed brick first, lookup heals by mkdir where the directory is
missing, rmdir goes to the hashed brick last and restores the directory after a
failure.

A request takes three steps on its brick, and steps of different requests are
interleaved freely: the file system carries it out (`posix_mkdir`, `posix_rmdir`),
the callback of imess-server puts the task in the queue and answers (`Unwind`), the
worker carries the task out (`ims_async_work`). An insert is refused when the gfid
or the path has a row already. A connection that breaks (`Disconnect`) takes the
request with it, or only the answer: the brick then carries the request out and
nobody hears of it. Asynchronous updates and dir-hash are on, bricks do not
restart, and a task is carried out whole and in order, which is what `ImsServer`
is shown to do (`ImplementsIndex`) unless a query refuses an END.

### Recovery: IxRecover

A run of ixrecover, statement by statement, on the operators of `ImsXdb`: `disk`
and `conn` are the committed database and the transaction's, `next` and
`gfid_num` the position in the log and the gfid that is made up next. Files
vanish, a path is listed twice, the process is killed and started again.

### Locks: PlLocks

inodelk or entrylk (`kind`) on one inode and domain. `granted`, `blocked` and
`lockers` are the lists of the domain and of each client, `ref` and `answers` the
references of a lock object and how often its frame was unwound. A step is a
critical section of `pl_inode->mutex`, except that the loop which grants blocked
locks is one step for each lock. The cleanup of a client that disconnects runs
beside grants and unlocks of other threads, requests of the client that are
still in io-threads come after it, and `pl_client_destroy_cbk` cleans up again.

### Replication: AfrTxn

One file on `Replicas` bricks. `data`, `dirty` and `pend` are each brick's copy,
its dirty count and its pending counts; `lk` the inodelks; `conn` the connections
of each process; `p` the frame of each client's truncate and the variables of the
self-heal. A copy is its size and the places that still have their original
bytes; its sequence of truncates is there for the properties only. Non-blocking
locks, blocking locks in order, pre-op, operation, post-op and unlock are steps
for each brick. The data self-heal is modelled from `afr_selfheal_data` to the
undo of the changelog: the locks, the choice of sources and sinks with
witnesses, truncation of the sinks, the second lock, the block, fsync, undo. A
request may be performed and its reply lost together with the connection and the
locks; processes die at any step.

## Runs

| run | configuration | properties | states | result |
| --- | --- | --- | --- | --- |
| `async` | 2 threads, worker, queries, 3 operations, 1 crash, dir-hash, fair | `TypeOK`, `FileReferencesGfid`, `DataReferencesGfid`, `IndexedWhole`, `TxOwned`, `GidsStable`, `ImplementsIndex`, `CatchesUp` | 102,892 | hold |
| `sync` | 2 threads on one connection, 3 operations, 1 crash, dir-hash | `FileReferencesGfid`, `TxOwned`, `GidsStable` | 67,446 | hold |
| `sync_stale_gid` | as `sync`, no crash | `DataReferencesGfid` | | violated |
| `agree` | 2 threads, worker, 2 values, 4 operations | `PathsAgree`, `AttrsAgree` | 123,364 (symmetry) | hold |
| `agree_sync` | 1 thread, 2 values, 3 operations | `AttrsAgree` | | violated |
| `query` | 2 bricks, 1 client, slices 0 to 2, 1 change, 1 fault, fair | `TypeOK`, `RowsWhole`, `HandedOnce`, `QueryEnds` | 343,229 | hold |
| `dir` | 3 bricks, 2 clients, 3 operations, 1 fault | `SameGfid`, `OneRecord`, `RecordKept` | 2,059,374 (symmetry) | hold |
| `recover` | 3 paths in a log of 4, `--count` 0 to 2, 2 runs | `TypeOK`, `RecoveredWhole`, `RecoveredPrefix`, `NotResumed` | 1,760 | hold |
| `locks` | both kinds, 3 clients, 2 threads, 3 lock objects, 1 disconnect | `TypeOK`, `NoConflict`, `RefCounted`, `AnsweredOnce`, `BlockedForReason`, `NoStaleLock` | 887,883 (symmetry) | hold |
| `afr` | 3 bricks, 2 clients, 2 truncates, 1 fault, 1 crash of a client | `TypeOK`, `ChangelogTells`, `AckedKept`, `SourceFresh`, `NoLockCycle` | 1,558,376 (symmetry) | hold |
| `afr_heal_fails` | 1 client, 1 truncate, a fault of the self-heal, 1 crash of the client | `ChangelogTells` | | violated |
| `afr_heal_dies` | 1 client, 2 truncates, 2 crashes, no faults | `AckedKept` | | violated |

The index:

- `FileReferencesGfid`, `DataReferencesGfid`: the foreign keys of the schema,
  which SQLite does not enforce by default.
- `IndexedWhole`: a file a query can see has all its stat rows.
- `TxOwned`: no path through the xdb functions leaves a transaction open, except
  an END that a reader refused.
- `GidsStable`: a committed gid never goes away or changes its file.
- `CatchesUp`: the queue is emptied again and again, with one exception: the
  worker may stay for ever in the loop that repeats a statement outside a
  transaction (`imess-server-xdb.c:735`), while queries read again and again.
  Failing updates, open transactions and crashes do not stop it.
- `ImplementsIndex`: the asynchronous index behaves like `ImsIndex`. That
  specification is as weak as the code: an update that "took effect" may be lost
  until it is on disk, because an END refused with SQLITE_BUSY leaves it in a
  transaction that a later failing update rolls back.
- `PathsAgree`: when all is quiet, a path's row is the row of its file, except
  paths whose update was logged as failed (a rename over an indexed path always
  is) or that two operations raced on. Dir-hash is off here: it leaves
  directories out on purpose.
- `AttrsAgree`: when all is quiet, stat rows hold what the last callback said.

Queries, directories, recovery:

- `RowsWhole`: a query that ends without an error has printed, of each brick that
  did not fail, the brick's result, each row once and in order.
- `HandedOnce`: no row of a result is handed to two replies (each frees it).
- `QueryEnds`: the loop of ixsql ends if the slice size is not zero.
- `SameGfid`: of two mkdirs one wins on all bricks, until an rmdir interferes.
- `OneRecord`: one brick has the index record of a directory, until a self-heal,
  whose mkdirs have no mark, creates it somewhere.
- `RecordKept`: when a brick has nothing left to do, its record is that of the
  directory it has, and the hashed brick has one. There are two exceptions, both
  needed (TLC finds a record lost without either). `raced`: a request was carried
  out while the callback of another was still to come, so that their tasks may be
  queued in the wrong order. `again`: the gfid had been in this index before;
  `xdb_xgfid` keeps it after an unlink and refuses it when a self-heal brings the
  directory back.
- `RecoveredWhole`, `RecoveredPrefix`: what ixrecover commits are whole files, of
  a beginning of its log. `NotResumed`: a second run changes nothing, because it
  makes up the same gfids.

Locks and replication:

- `NoConflict`, `RefCounted`, `AnsweredOnce`: exclusion; one reference of a lock
  object for each list it is on; one answer to each request.
- `BlockedForReason`: no grant is forgotten. `NoStaleLock`: a client that is gone
  has left no lock.
- `ChangelogTells`: when all is quiet and the changelog is zero, copies are equal.
- `AckedKept`: a truncate that succeeded is on a brick that is not accused, in a
  copy that nothing but truncates has changed.
- `SourceFresh`: a self-heal copies from a brick that has all that succeeded.
- `NoLockCycle`: transactions and self-heal never wait for each other in a circle.

### What the violated runs show

`sync_stale_gid`. Thread 1 creates a file: BEGIN, gfid, path, and `get_gid` for
the stat rows. Thread 2's `ims_xdb_setxattr` fails on the same connection and
executes ROLLBACK, which ends thread 1's transaction. Thread 1 then inserts stat
rows for a gid that is gone, and they are committed at once. The next new file
gets that gid and `unique (gid, nid)` keeps it out of the index. The schema
declares `gid integer not null references xdb_xgfid (gid)`.

`agree_sync`. `enable-async-update` is described as `Turn on the asynchronous
database update to speed up.` It also decides what is indexed: a synchronous
`ims_setattr_cbk` writes only the `STAT_OP_WRITE` fields, the worker all.

`afr_heal_fails`. A client dies after some bricks have been truncated; all are
dirty, none is accused. The self-heal picks its source by size, so the others are
in `healed_sinks` and not in `sinks`. One of them fails and is taken out of
`healed_sinks`; `afr_selfheal_undo_pending` keeps only bricks of `sinks` accused,
and takes back the dirty counts. The copies differ and the changelog is zero.

`afr_heal_dies`. A client dies after it has truncated one of three bricks to zero.
The self-heal takes a large copy as the source, extends the short one, and dies
before it has written the data. Sizes and dirty counts are equal now, and the
next self-heal takes the newest copy, which is the one just extended: its zeros
go over the good copies.

### What else was seen

Found while modelling, without a run of their own. The first three can be
repeated with `MCAfrTxn` and other constants.

- Without quorum (2 bricks, `Quorum` 0, 1 client that is flaky and mortal, 1
  truncate, 1 fault, 1 crash) `ChangelogTells` fails: a transaction that has
  locked one brick only raises no dirty count.
- When a connection of the self-heal breaks (`Flaky` the healer, `Mortal` the
  client, 2 truncates, 1 fault, 1 crash) `NoLockCycle` fails: the self-heal asks
  for its second lock, on the brick that it has lost and found again, while it
  keeps the first elsewhere. The circle lasts until the rpc times out.
- With the same constants `SourceFresh` fails too: a brick that the self-heal has
  locked and then lost answers nothing to its lookup, so its accusations count as
  none, and a brick that missed a successful truncate becomes the source.
- A truncate that failed on all bricks leaves them dirty. A dirty count can
  become negative, and the witness, a `uint64_t`, is huge then.
- The session of a query is never removed (`imess-server-ipc.c:603` deletes the
  key of a row). Replies of active execution have no `comeback`, so
  `dht_ipc_cbk` drops their output. Views set `clients` and not `cmask`, so their
  request goes to the first brick only, without a session, and fails. The mkdir
  of a self-heal has no mark, so several bricks index the directory.

### Bounds

`MaxFops`, `MaxOp`, `MaxQuery`, `MaxRun` and `MaxLock` bound operations, requests,
runs and lock objects; `MaxCrash`, `MaxFault`, `MaxChange` and `MaxLeave` crashes,
faults, changes of an index and disconnects.

- Index: two threads are enough for one to end the other's transaction. Three
  operations are enough for a file, a second name or attribute of it, and a
  failing update among them; two gfids for a gid to be taken over by another
  file. `agree` has a fourth for create, rename, create again and unlink. Query
  streams and retries are not bounded.
- Queries: three rows on one brick and one on the other make the bricks come back
  differently often, with every slice size up to two.
- Directories: on three bricks rmdir can succeed on one and fail on another. Three
  operations are a mkdir and two that race on the directory, mkdir, lookup or
  rmdir, of one client or of two, with one lost request or answer. Clients, gfids
  and the bricks other than the hashed one are symmetric.
- Recovery: the log has a repeated path, and the run starts on an empty database
  and on one with a row of the server.
- Locks: three lock objects make a lock wait behind a lock that waits. Two
  threads make a grant and a cleanup overlap. Client and thread names are
  symmetric.
- AFR: three bricks are the fewest with a majority; two truncates make one
  succeed after another failed. All truncates of `afr` are to size 0. With sizes
  {0, 2} the run has 5,619,068 states and the same result, but takes longer than
  a regular check should.

Sub-actions of `ImsServer` are in the next-state relations of `async`, `sync` and
`agree` under a conjunction with the history variables, so TLC counts them as one
action. `tlc -coverage` on `async` and `sync` shows that every branch of every
action of `ImsServer` is taken in one of the two.

`locks`, `afr` and the two violated AFR runs do not check for deadlock: requests
are bounded, and a client may keep a lock for ever.

### Fairness

`async`: threads run, that is weak fairness of the callbacks, of the worker's loop
and of the statements of each thread. Nothing is assumed of the queries, not even
that there are gaps between them. A statement outside a transaction is retried
without a pause, PENDING is released between attempts, and readers that overlap
for ever can refuse every attempt. TLC finds that starvation when `CatchesUp` is
stated without its exception, on a rename; the code relies on gaps between queries.

`query`: weak fairness of the client's loop, of the steps of a brick, of the
delivery of replies, of the countdown in DHT, and of the error for a call to a
brick that has restarted (protocol/client unwinds it). Nothing is assumed of
commands, changes and faults.

## Proofs

The theorems hold for any constants that satisfy the assumptions of the modules,
any number of operations, requests, faults and crashes included. The assumptions
say what the constants are:

| assumption | says |
| --- | --- |
| `NamesAssumption` (`ImsXdb`) | user attributes are not called like stat fields |
| `ServerAssumption` (`ImsServer`) | the worker is no brick thread, options are on or off, bounds are numbers |
| `FirstChildAssumption` (`DhtIpc`), `RowsAssumption` (`ImsQuery`) | finitely many bricks, the first child is one of them, each starts with some number of rows |
| `SessionAssumption` (`IxSql`) | a session is a client and its sequence number (`ixsql_new_session_id`); slices are numbers |
| `DirAssumption` (`DhtDir`) | the hashed brick is one of several, and having no directory is not a gfid |
| `LogAssumption`, `StartAssumption` (`IxRecover`) | the log lists paths, a file has one value for an attribute, made-up gfids are gfids, and the database to start on has the references of the schema, as the server leaves it (`FileReferences`, `DataReferences`) |
| `RequestAssumption` (`PlLocks`) | the fields of requests |
| `AfrAssumption` (`AfrTxn`) | at least two bricks, quorum is `auto` or a number of them, the self-heal daemon is no client, sizes are numbers |

"Asynchronous" marks theorems that assume `AsyncUpdate`. A module takes up to 20
minutes from nothing on two cores; most of that is spent in preparing the
obligations, and grows with what a module extends. Hence `IxRowsProofs` has what
can be proved of `IxSql` without the theorems on finite sets.

| theorem | statement | module |
| --- | --- | --- |
| `Invariance` | `Spec => []Inv` | `ImsAsyncIndexProofs` |
| `TypeCorrect` | `Spec => []TypeOK` | |
| `FileReferences` | `Spec => []FileReferencesGfid` | |
| `StableGids` | `Spec => GidsStable` | |
| `TransactionsOwned` | `Spec => []TxOwned` | |
| `DataReferences` | `Spec => []DataReferencesGfid`, asynchronous | |
| `FilesWhole` | `Spec => []IndexedWhole`, asynchronous | |
| `Refinement` | `SpecH => ImplementsIndex`, asynchronous | |
| `AttributesAgree` | `SpecD => []AttrsAgree`, asynchronous, no queries, no crashes | |
| `PathsOfIndexAgree` | `SpecD => []PathsAgree`, the same, no dir-hash | |
| `QueryTypes` | `Spec => []TypeOK` | `IxSqlProofs` |
| `RowsHandedOnce` | `Spec => []HandedOnce` | |
| `RowsArriveWhole` | `Spec => []RowsWhole` | |
| `SameGfidHolds` | `Spec => []SameGfid` | `DhtDirProofs` |
| `OneRecordHolds` | `Spec => []OneRecord` | |
| `RecordKeptHolds` | `Spec => []RecordKept` | |
| `RecoverTypes` | `Spec => []TypeOK` | `IxRecoverProofs` |
| `WholeHolds` | `Spec => []RecoveredWhole` | |
| `PrefixHolds` | `Spec => []RecoveredPrefix` | |
| `NeverResumed` | `Spec => NotResumed` | |
| `Invariance` | `Spec => []Inv` | `PlLocksProofs` |
| `Exclusive` | `Spec => []NoConflict` | |
| `NothingLeft` | `Spec => []NoStaleLock` | |
| `OneAnswer` | `Spec => []AnsweredOnce` | |
| `NoGrantForgotten` | `Spec => []BlockedForReason` | |
| `ReferencesCounted` | `Spec => []RefCounted` | |
| `TypeCorrect` | `Spec => []TypeOK` | |
| `AfrTypes` | `Spec => []TypeOK` | `AfrTxnProofs` |
| `AfrClientsNoCycle` | `Spec => []ClientsNoCycle` (`NoLockCycle` of the clients) | |
| `AfrNoLockCycle` | `Spec => []NoLockCycle`, no connection of the self-heal breaks | |

`ImsXdbProofs` shows of each statement that it returns a database, keeps every
gid for its file (`Grows`), keeps the references from `xfile` and from `xdata`
(`Keeps`), and what it does to the stat rows of a gid.

*Index.* None of the properties is inductive. `TypeOK` does not say that a process
at a statement has a task with the fields the statement binds: `CallOK` adds it.
`FileReferencesGfid` alone does not survive ROLLBACK or a commit by another
thread: `ConnOK` adds that the view has every committed gid, and that view and
disk are the same outside a transaction. Each step then gives `Inv'` and
`Grows(disk, disk')`, which is `GidsStable`. `TxOwned` is inductive relative to
`Inv`: the program counters in `TxPc` are left only through END or ROLLBACK.
`DataReferences` needs `DataOK`: with asynchronous updates only the worker is at
a statement, and at `stat` its gid is one of the view's. In synchronous mode
this is false, as `sync_stale_gid` shows. `FilesWhole` needs `WholeOK`:
between INSERT_GFID and INSERT_STAT the worker is in a transaction, the only file
of the view without stat rows is the newest, and `get_gid` finds that one.

*Refinement.* The mapping shows `ImsIndex` the database that the worker started its
task on, until the task commits or fails. `Progress` says how far the worker is:
at each statement the view is what the statements before it made of that
database (`Updated` for the fields of `ims_xdb_update_stat`, which commits once
but writes one by one). Every statement but the last of a task is then a stutter,
the last one the `Effect` of the whole task. The databases of the two
specifications have the same statements (`SameEffect`).

*Agreement.* `Events` sums up the steps: a thread starts an operation (`Begins`), its
callback queues the task (`Queues`), the worker is done with the first task
(`Finishes`), or nothing that matters happens (`Stays`). It rests on `Progress`,
and on `Calm`: without queries no END is refused, so the worker's base is the
database on disk. For `AttrsAgree` the tasks that report a file are compared by
their position: the last of them is the last report, and if there is none the
rows are (`Latest`). An update that fails found no row, and an insert cannot
fail on the gfid, since a gfid is inserted once (`Once`) and has one gid
(`Distinct`). For `PathsAgree` an induction over the queue would say what its
tasks make of the paths; `PathInv` has a witness in its place: there are `files`,
one more than tasks, each what the task before makes of the one before it, the
first what the disk has and the last what the file system has, except what
operations under way will still report. Paths in doubt are left out; a path comes
into doubt along the renames of the queue, and `Reached` says how: at the end of
a walk, a function again. A rename that fails, or finds no old row, would break
the chain; it cannot happen to paths without doubt, because the operation found
a file there (`Finds`). Two operations at once on a path put it in doubt
(`Lone`), so the tasks of those under way do not touch each other's paths. The
hypotheses are the constants of `agree`: a crash loses the queue, a refused END a
task, and dir-hash leaves directories out.

*Queries.* `HandedOnce` is a property of two requests of one session that run
side by side on a brick after a connection broke. The invariant says that a
result is reached through one session, by `qrset` or by a request that has built
it (`OneUser`); that the requests of a session that are still to be answered ask
for disjoint rows (`Apart`), below what the client has asked for (`Below`); and
that rows which were handed are neither asked for by such a request nor will be,
as they are below the client's offset (`Unhanded`). A slice size that changed in
the middle of a session would break it; the code changes it at the prompt only,
and a session does not outlive a return to the prompt (`Started`). For `TypeOK`,
`call_cnt` is the number of calls that have not returned (`Counted`): it cannot
pass zero. `RowsWhole` is stated with positions (`Shows`): the rows of a brick in
the output are at increasing positions. Its invariant `RowInv` follows the rows of
one brick from its result to the client: what is printed is the first part of the
result, up to the offset of the session (`Printed`); a request that is not
answered, a reply on its way and what has been merged are the next slice, with the
rows of other bricks before, between and behind (`Sliced`, `Served`, `Fetching`);
a call has one request, and that is of the slice which the client fetches
(`Linked`). What `dht_ipc_cbk` adds up as `comeback` is not zero while a brick has
more.

*Directories.* `Led`: until an rmdir has succeeded somewhere, what the other bricks
have, and what operations and requests under way carry once the hashed brick has
carried a mkdir out, is the gfid of the hashed brick; `Linked` ties the answer of
the hashed brick to the frame that waits for it. `Recorded`: only a self-heal makes
another brick record the directory, in its index or in its queue. `RecordKept`
speaks of bricks with nothing left to do; `Follows` and `Taken` extend it to all
states. As long as no two callbacks on a brick have passed each other, at most one
that will queue a task is due; an insert is queued behind an unlink only, so the
path is free when its turn comes; and the last task, or the index when there is
none, is what the directory is unless a callback is due (`Follows`). The hashed
brick's insert is not refused either: its gfid is not known to the index while the
task, or the callback that will queue it, is still to come (`Taken`).

*Recovery.* `Reading` says what `update_database` works with, `Own` that the gid it
inserts is the newest, has no rows before INSERT_STAT and belongs to no other
path. So INSERT_STAT and the inserts of attributes cannot fail, and an error,
which commits, leaves no path behind without its attributes (`Whole`). `Prefix`
relates the paths that were added to the position in the log, `Refused` says that
a run on a database with the first made-up gfid ends at its first statement.

*Locks.* `NoConflict` needs that the lock which the loop looks at exists (`Typed`:
a thread is in the loop just when its list is not empty, so `Least` is on it).
`NoStaleLock` needs that a lock which is granted or waits is on its client's list
(`Listed`), that a lock is on one list at a time and one thread in the loop
(`Apart`), so that what leaves one list has left them all, and that the list of a
client stays empty from the end of its last scan on (`Emptied`). For
`AnsweredOnce` the locks in the hands of a thread are `Waits(t)`; those sets are
disjoint from each other and from `blocked`, and a lock is unanswered just when it
is in one of them (`Waiting`). Steps move locks between `blocked` and a thread
(`Moved`) or answer all that a thread has (`Answered`). A cleanup finds a lock
that is not granted among the blocked ones because client lists have nothing
else (`Orderly`). `BlockedForReason` speaks of states without busy threads;
`Reasoned` extends it to all states: unless a thread is about to look at the
blocked locks, each of them has a reason, and what the loop has put back is older
than what it has yet to look at. For `RefCounted`, a lock has one reference for
the list it is queued on, one for the thread that grants it and one for the
cleanup that took it away (`Counted`), each at most once (`Placed`).

*Replication.* `Inv` has the types, and of locks that a brick's are those of one
process (`Exclusive`), and of a transaction or self-heal that is going on and
knows of them (`Locks`): nothing stays locked after an unlock, a broken connection
or a death. For `NoLockCycle` each process that waits is `Ordered`: it waits for a
brick behind all those where it has a lock. In a circle of waiting processes,
take the one that waits for the last brick; who has that one locked waits for a
later one. Clients are ordered since they release all locks before they wait
(`Txn`). The self-heal is not obviously so, as it asks for its second and third
lock while it has another; as long as none of its connections breaks it is
granted those at once where it has the first (`Settled`, `Steady`), and waits for
the first only. The hypothesis cannot be dropped (see "What else was seen").

Model-checked only: `ChangelogTells`, `AckedKept` and `SourceFresh`. They do not hold
for all constants: the runs `afr_heal_dies` and `afr_heal_fails` and the remarks
on quorum and on lookups say when not, and one fault, as in `afr`, is the bound for
which they are known. Liveness (`CatchesUp`, `QueryEnds`) is out of the prover's
reach, as are ENABLED, induction over data and RECURSIVE operators.

## Not modelled

- Torn commits: `journal_mode=memory` with `synchronous=0` can damage the file
  when the process dies while SQLite writes; commits are atomic here.
- Out of memory, errors of `sqlite3_prepare_v2` and of the bind functions.
- A query on the shared connection in synchronous mode: it runs between two
  statements, and may see an uncommitted transaction.
- Structure of paths: renaming a directory leaves the rows of its children.
- The type and text of attribute values; a setxattr of several attributes is
  represented by the one that is indexed.
- Return of a gfid to a brick that indexed it before: in `DhtDir` for directories
  (`again`), not in `ImsServer`.
- The stateless query of `imess-server-ipc.c`, which no client sends; what the
  programs of active execution do.
- DHT: layouts, the check of rmdir that a directory is empty, rebalance.
- Locks: POSIX locks (`lk`), counts for lookup, references of the inode,
  `clear-locks`, several domains.
- AFR: operations on an fd with eager locks and delayed post-op, entry and
  metadata transactions and self-heals, reads, arbiter, split-brain resolution,
  durability (fsync before the post-op), several self-heal daemons and the lock of
  their domain, the rpc frame timeout.
- imess-client passes everything through. ixview edits a table of views, one
  statement for each call. posix hides the database by one condition.
- The rest of GlusterFS, which this repository did not change.

## Plan

1. `AfrTxn` with the fd path: eager locks and delayed post-op.
2. `ImsServer` under `DhtDir`, with queries, crashes and the return of a gfid.
3. Proofs: `ChangelogTells` and `AckedKept` for clients that die and connections
   that hold.
