----------------------------- MODULE ImsServer ------------------------------
(***************************************************************************)
(* The imess-server translator of one brick: the file operations it        *)
(* intercepts, the callbacks that report them to the index, the queue and  *)
(* worker thread of asynchronous updates (imess-server-async.c), and the   *)
(* transactions that imess-server-xdb.c runs on its SQLite connection.     *)
(*                                                                         *)
(* Updates run statement by statement.  With AsyncUpdate the worker is the *)
(* only process on the updating connection and queries have a connection   *)
(* of their own; without it every thread that runs a callback uses the one *)
(* connection there is.                                                    *)
(***************************************************************************)
EXTENDS ImsXdb

CONSTANTS
  Thread,       \* brick threads that run file operations and callbacks
  Worker,       \* the thread that ims_async_init starts
  NoGfid,       \* a path that does not exist
  NoTask,
  Sb,           \* the stat values that files on the brick may have
  AsyncUpdate,  \* option enable-async-update
  DirHash,      \* option enable-dir-hash
  Queries,      \* clients query the index while it is updated
  MaxFops,      \* bound: file operations issued
  MaxCrash      \* bound: crashes of the brick process

ASSUME ServerAssumption ==
  /\ Worker \notin Thread
  /\ NoGfid \notin Gfid
  /\ Sb \subseteq Stat
  /\ AsyncUpdate \in BOOLEAN
  /\ DirHash \in BOOLEAN
  /\ Queries \in BOOLEAN
  /\ MaxFops \in Nat
  /\ MaxCrash \in Nat

Proc == Thread \cup {Worker}

VARIABLES
  ns,       \* the brick's file system: the gfid at each path
  used,     \* gfids of all files ever created on the brick
  call,     \* what each process does: program counter, task, gid read
  queue,    \* the task queue
  disk,     \* the committed database
  view,     \* the database as the updating connection sees it
  intx,     \* a transaction is open on the updating connection
  pend,     \* the updating connection holds SQLite's PENDING lock
  reading,  \* a query on the second connection holds a SHARED lock
  nfops,
  ncrash

brick == <<ns, used>>
conn  == <<disk, view, intx, pend>>
bound == <<nfops, ncrash>>
vars  == <<ns, used, call, queue, disk, view, intx, pend, reading,
           nfops, ncrash>>

\* Program counters.  "cbk": the file operation is done, its callback is to
\* come.  The others name the statement that is next; "warn" is the log of a
\* failed update.
UpdatePc == {"ugid", "ubegin"} \cup StatName
InsertPc == {"begin", "gfid", "file", "sgid", "stat"}
XattrPc  == {"xbegin", "xname", "xdata"}
SinglePc == {"link", "unlink", "rename"}
Pc == {"idle", "cbk", "commit", "rollback", "warn"}
        \cup InsertPc \cup UpdatePc \cup XattrPc \cup SinglePc

Idle == [pc |-> "idle", task |-> NoTask, gid |-> 0]

Init ==
  /\ ns = [p \in Path |-> NoGfid]
  /\ used = {}
  /\ call = [p \in Proc |-> Idle]
  /\ queue = << >>
  /\ disk = db_initialize
  /\ view = db_initialize
  /\ intx = FALSE
  /\ pend = FALSE
  /\ reading = FALSE
  /\ nfops = 0
  /\ ncrash = 0

At(p, pc) == call[p].pc = pc

Goto(p, pc) ==
  call' = IF pc = "idle"
          THEN [call EXCEPT ![p] = Idle]
          ELSE [call EXCEPT ![p].pc = pc]

-----------------------------------------------------------------------------
(* File operations: the child translators carry out the operation and the  *)
(* callback is left to run on the same thread.  A failed operation changes *)
(* nothing and its callback reports nothing.                               *)

CountFop ==
  /\ nfops < MaxFops
  /\ nfops' = nfops + 1
  /\ UNCHANGED ncrash

Wind(t, task) ==
  /\ At(t, "idle")
  /\ CountFop
  /\ call' = [call EXCEPT ![t] = [pc |-> "cbk", task |-> task, gid |-> 0]]
  /\ UNCHANGED <<queue, conn, reading>>

\* posix gives a new file a gfid that no other file has.
NewEntry(path, gfid) ==
  /\ ns[path] = NoGfid
  /\ gfid \notin used
  /\ ns' = [ns EXCEPT ![path] = gfid]
  /\ used' = used \cup {gfid}

\* Mutant: the task's stat buffer is not filled.
BugInsertOf(path, gfid, sb) ==
  [op |-> "insert", gfid |-> gfid, path |-> path]

InsertOf(path, gfid, sb) ==
  [op |-> "insert", gfid |-> gfid, path |-> path, sb |-> sb]

ims_create(t, path) ==
  \E gfid \in Gfid, sb \in Sb :
    NewEntry(path, gfid) /\ Wind(t, InsertOf(path, gfid, sb))

ims_symlink(t, path) ==
  \E gfid \in Gfid, sb \in Sb :
    NewEntry(path, gfid) /\ Wind(t, InsertOf(path, gfid, sb))

\* hashed is the value of imess-dht-hashed in xdata.  A directory that is
\* not hashed to this brick is created but not indexed.
ims_mkdir(t, path) ==
  \E gfid \in Gfid, sb \in Sb, hashed \in {"unset", "0", "1"} :
    /\ NewEntry(path, gfid)
    /\ IF DirHash /\ hashed = "0"
       THEN /\ At(t, "idle")
            /\ CountFop
            /\ UNCHANGED <<call, queue, conn, reading>>
       ELSE Wind(t, InsertOf(path, gfid, sb))

\* unlink and rmdir
ims_unlink(t, path) ==
  /\ ns[path] # NoGfid
  /\ ns' = [ns EXCEPT ![path] = NoGfid]
  /\ Wind(t, [op |-> "unlink", path |-> path])
  /\ UNCHANGED used

ims_link(t, old, new) ==
  /\ ns[old] # NoGfid
  /\ ns[new] = NoGfid
  /\ ns' = [ns EXCEPT ![new] = ns[old]]
  /\ Wind(t, [op |-> "link", gfid |-> ns[old], path |-> new])
  /\ UNCHANGED used

\* rename(2) leaves two links to one file alone.
ims_rename(t, old, new) ==
  /\ old # new
  /\ ns[old] # NoGfid
  /\ ns' = IF ns[new] = ns[old]
           THEN ns
           ELSE [ns EXCEPT ![old] = NoGfid, ![new] = ns[old]]
  /\ Wind(t, [op |-> "rename", path |-> old, extra |-> new])
  /\ UNCHANGED used

\* setattr, fsetattr, truncate, ftruncate and writev: sb is the file's stat
\* after the operation.  An open file may have lost its last path.
ims_setattr(t, gfid) ==
  /\ gfid \in used
  /\ \E sb \in Sb : Wind(t, [op |-> "update", gfid |-> gfid, sb |-> sb])
  /\ UNCHANGED brick

\* Of the indexed attributes in the request one is kept.
ims_setxattr(t, path) ==
  /\ ns[path] # NoGfid
  /\ \E name \in XName, val \in Val :
       Wind(t, [op |-> "xattr", gfid |-> ns[path], name |-> name, val |-> val])
  /\ UNCHANGED brick

-----------------------------------------------------------------------------
(* Callbacks and the asynchronous queue.                                   *)

\* The first statement of the xdb function that carries out a task.
Entry(task) ==
  CASE task.op = "insert" -> "begin"
    [] task.op = "update" -> "ugid"
    [] task.op = "xattr"  -> "xbegin"
    [] OTHER              -> task.op

\* Mutant: list_add instead of list_add_tail.
BugPutTask(t) ==
  /\ queue' = <<call[t].task>> \o queue
  /\ call' = [call EXCEPT ![t] = Idle]

ims_async_put_task(t) ==
  /\ queue' = Append(queue, call[t].task)
  /\ call' = [call EXCEPT ![t] = Idle]

Report(t, op) ==
  /\ At(t, "cbk")
  /\ call[t].task.op = op
  /\ IF AsyncUpdate
     THEN ims_async_put_task(t)
     ELSE /\ Goto(t, Entry(call[t].task))
          /\ UNCHANGED queue
  /\ UNCHANGED <<brick, conn, reading, bound>>

insert_new_xdb_entry(t) == Report(t, "insert")
unlink_from_xdb(t)      == Report(t, "unlink")
ims_setxattr_cbk(t)     == Report(t, "xattr")
ims_setattr_cbk(t)      == Report(t, "update")
ims_link_cbk(t)         == Report(t, "link")
ims_rename_cbk(t)       == Report(t, "rename")

ims_async_work ==
  /\ AsyncUpdate
  /\ At(Worker, "idle")
  /\ queue # << >>
  /\ call' = [call EXCEPT ![Worker] =
                [pc |-> Entry(Head(queue)), task |-> Head(queue), gid |-> 0]]
  /\ queue' = Tail(queue)
  /\ UNCHANGED <<brick, conn, reading, bound>>

-----------------------------------------------------------------------------
(* The updating connection.  Results of BEGIN, END and ROLLBACK are not    *)
(* looked at by the code that executes them.                               *)

Unmoved == <<brick, queue, reading, bound>>

\* Mutant: no BEGIN before the statements of a new file.
BugTxBegin(p) ==
  /\ \/ At(p, "begin") /\ Goto(p, "gfid") /\ UNCHANGED intx
     \/ At(p, "ubegin") /\ Goto(p, "st_mode") /\ intx' = TRUE
     \/ At(p, "xbegin") /\ Goto(p, "xname") /\ intx' = TRUE
  /\ UNCHANGED <<Unmoved, disk, view, pend>>

\* BEGIN TRANSACTION fails when a transaction is open already.
ims_xdb_tx_begin(p) ==
  /\ \/ At(p, "begin") /\ Goto(p, "gfid")
     \/ At(p, "ubegin") /\ Goto(p, IF AsyncUpdate THEN "st_mode" ELSE "st_size")
     \/ At(p, "xbegin") /\ Goto(p, "xname")
  /\ intx' = TRUE
  /\ UNCHANGED <<Unmoved, disk, view, pend>>

\* END TRANSACTION is an error outside a transaction.  A reader makes it
\* fail with SQLITE_BUSY: the transaction stays open and keeps the PENDING
\* lock.  Only a transaction that changed nothing can end beside a reader.
ims_xdb_tx_commit(p) ==
  /\ At(p, "commit")
  /\ \/ /\ ~intx
        /\ UNCHANGED conn
     \/ /\ intx
        /\ ~reading \/ view = disk
        /\ disk' = view
        /\ intx' = FALSE
        /\ pend' = FALSE
        /\ UNCHANGED view
     \/ /\ intx
        /\ reading
        /\ pend' = TRUE
        /\ UNCHANGED <<disk, view, intx>>
  /\ Goto(p, "idle")
  /\ UNCHANGED Unmoved

\* Mutant: a failed update ends its transaction instead of rolling it back.
BugTxRollback(p) ==
  /\ At(p, "rollback")
  /\ ~reading
  /\ disk' = view
  /\ intx' = FALSE
  /\ pend' = FALSE
  /\ Goto(p, "warn")
  /\ UNCHANGED <<Unmoved, view>>

\* ROLLBACK is an error outside a transaction; the view is the disk then.
ims_xdb_tx_rollback(p) ==
  /\ At(p, "rollback")
  /\ view' = disk
  /\ intx' = FALSE
  /\ pend' = FALSE
  /\ Goto(p, "warn")
  /\ UNCHANGED <<Unmoved, disk>>

\* sqlite3_step of a statement with result r.  Outside a transaction the
\* statement commits by itself; a reader then makes it return SQLITE_BUSY
\* and it is executed again (Busy, below).
Step(p, r, next, fail) ==
  /\ view' = r.db
  /\ IF intx
     THEN UNCHANGED <<disk, pend>>
     ELSE /\ ~reading \/ r.db = view
          /\ disk' = r.db
          /\ pend' = FALSE
  /\ Goto(p, IF r.ok THEN next ELSE fail)
  /\ UNCHANGED <<Unmoved, intx>>

ims_xdb_insert_gfid(p) ==
  /\ At(p, "gfid")
  /\ Step(p, INSERT_GFID(view, call[p].task.gfid), "file", "rollback")

ims_xdb_insert_file(p) ==
  /\ At(p, "file")
  /\ Step(p, INSERT_FILE(view, call[p].task.gfid, call[p].task.path),
          "sgid", "rollback")

\* Mutant: the select is stepped until it returns a row.
BugGetGid(p) ==
  LET gid == GET_GID(view, call[p].task.gfid)
  IN  /\ \/ At(p, "sgid") /\ call' = [call EXCEPT
              ![p].pc = IF gid = 0 THEN @ ELSE "stat", ![p].gid = gid]
         \/ At(p, "ugid") /\ call' = [call EXCEPT
              ![p].pc = IF gid = 0 THEN @ ELSE "ubegin", ![p].gid = gid]
      /\ UNCHANGED <<Unmoved, conn>>

\* The gid is kept in a local variable until a later statement binds it.
get_gid(p) ==
  LET gid == GET_GID(view, call[p].task.gfid)
  IN  /\ \/ At(p, "sgid") /\ call' = [call EXCEPT
              ![p].pc = IF gid = 0 THEN "rollback" ELSE "stat", ![p].gid = gid]
         \/ At(p, "ugid") /\ call' = [call EXCEPT
              ![p].pc = IF gid = 0 THEN "warn" ELSE "ubegin", ![p].gid = gid]
      /\ UNCHANGED <<Unmoved, conn>>

ims_xdb_insert_stat(p) ==
  /\ At(p, "stat")
  /\ Step(p, INSERT_STAT(view, call[p].gid, call[p].task.sb),
          "commit", "rollback")

\* Mutant: the owner is left out of STAT_OP_ALL.
BugNextStat(name) ==
  CASE name = "st_mode"  -> "st_size"
    [] name = "st_uid"   -> "st_size"
    [] name = "st_size"  -> "st_mtime"
    [] name = "st_mtime" -> "commit"

\* STAT_OP_ALL from the worker, STAT_OP_WRITE from a synchronous callback.
NextStat(name) ==
  CASE name = "st_mode"  -> "st_uid"
    [] name = "st_uid"   -> "st_size"
    [] name = "st_size"  -> "st_mtime"
    [] name = "st_mtime" -> "commit"

ims_xdb_update_stat(p) ==
  \E name \in StatName :
    /\ At(p, name)
    /\ Step(p, UPDATE_STAT(view, call[p].gid, name, call[p].task.sb[name]),
            NextStat(name), "rollback")

\* Mutant: the error path of INSERT_XDATA returns without a ROLLBACK.
BugSetxattr(p) ==
  LET task == call[p].task
  IN  \/ At(p, "xname") /\ Step(p, INSERT_XNAME(view, task.name),
                                "xdata", "rollback")
      \/ At(p, "xdata") /\ Step(p, INSERT_XDATA(view, task.gfid, task.name,
                                                task.val),
                                "commit", "warn")

ims_xdb_setxattr(p) ==
  LET task == call[p].task
  IN  \/ At(p, "xname") /\ Step(p, INSERT_XNAME(view, task.name),
                                "xdata", "rollback")
      \/ At(p, "xdata") /\ Step(p, INSERT_XDATA(view, task.gfid, task.name,
                                                task.val),
                                "commit", "rollback")

ims_xdb_link_file(p) ==
  /\ At(p, "link")
  /\ Step(p, INSERT_FILE(view, call[p].task.gfid, call[p].task.path),
          "idle", "warn")

ims_xdb_unlink_file(p) ==
  /\ At(p, "unlink")
  /\ Step(p, UNLINK_FILE(view, call[p].task.path), "idle", "warn")

ims_xdb_rename(p) ==
  /\ At(p, "rename")
  /\ Step(p, RENAME(view, call[p].task.path, call[p].task.extra),
          "idle", "warn")

\* The update failed: a line in the log is all there is.
Warn(p) ==
  /\ At(p, "warn")
  /\ Goto(p, "idle")
  /\ UNCHANGED <<Unmoved, conn>>

\* The result of the only statement of a link, unlink or rename task.
Single(db, task) ==
  CASE task.op = "link"   -> INSERT_FILE(db, task.gfid, task.path)
    [] task.op = "unlink" -> UNLINK_FILE(db, task.path)
    [] task.op = "rename" -> RENAME(db, task.path, task.extra)

\* The statement outside a transaction that a reader keeps from committing is
\* retried: every attempt takes the PENDING lock and gives it back.
Busy(p) ==
  /\ call[p].pc \in SinglePc
  /\ Single(view, call[p].task).db # view
  /\ ~intx
  /\ reading
  /\ pend' = ~pend
  /\ UNCHANGED <<Unmoved, disk, view, intx, call>>

-----------------------------------------------------------------------------
(* Queries and crashes.                                                    *)

\* With AsyncUpdate a query reads on the second connection, which refuses it
\* (EIO) under a PENDING lock.  Without, it runs between two statements of
\* the only connection and leaves no trace.
ims_xdb_direct_query ==
  /\ AsyncUpdate
  /\ Queries
  /\ \/ ~reading /\ ~pend /\ reading' = TRUE
     \/ reading /\ reading' = FALSE
  /\ UNCHANGED <<brick, call, queue, conn, bound>>

\* Mutant: init creates the tables anew although they are there.
BugCrash ==
  /\ ncrash < MaxCrash
  /\ ncrash' = ncrash + 1
  /\ call' = [p \in Proc |-> Idle]
  /\ queue' = << >>
  /\ disk' = db_initialize
  /\ view' = db_initialize
  /\ intx' = FALSE
  /\ pend' = FALSE
  /\ reading' = FALSE
  /\ UNCHANGED <<brick, nfops>>

\* The brick process dies (or fini lets go of the worker) and starts again:
\* init finds the four tables and nothing replays what was not committed.
Crash ==
  /\ ncrash < MaxCrash
  /\ ncrash' = ncrash + 1
  /\ call' = [p \in Proc |-> Idle]
  /\ queue' = << >>
  /\ view' = disk
  /\ intx' = FALSE
  /\ pend' = FALSE
  /\ reading' = FALSE
  /\ UNCHANGED <<brick, disk, nfops>>

\* Nobody sends another request.
Rest ==
  /\ nfops = MaxFops
  /\ queue = << >>
  /\ \A p \in Proc : At(p, "idle")
  /\ UNCHANGED vars

-----------------------------------------------------------------------------
Fop(t) ==
  \/ \E path \in Path :
       \/ ims_create(t, path)
       \/ ims_symlink(t, path)
       \/ ims_mkdir(t, path)
       \/ ims_unlink(t, path)
       \/ ims_setxattr(t, path)
  \/ \E old, new \in Path : ims_link(t, old, new) \/ ims_rename(t, old, new)
  \/ \E gfid \in Gfid : ims_setattr(t, gfid)

Cbk(t) ==
  \/ insert_new_xdb_entry(t)
  \/ unlink_from_xdb(t)
  \/ ims_setxattr_cbk(t)
  \/ ims_setattr_cbk(t)
  \/ ims_link_cbk(t)
  \/ ims_rename_cbk(t)

Statement(p) ==
  \/ ims_xdb_tx_begin(p)
  \/ ims_xdb_tx_commit(p)
  \/ ims_xdb_tx_rollback(p)
  \/ ims_xdb_insert_gfid(p)
  \/ ims_xdb_insert_file(p)
  \/ get_gid(p)
  \/ ims_xdb_insert_stat(p)
  \/ ims_xdb_update_stat(p)
  \/ ims_xdb_setxattr(p)
  \/ ims_xdb_link_file(p)
  \/ ims_xdb_unlink_file(p)
  \/ ims_xdb_rename(p)
  \/ Warn(p)

Next ==
  \/ \E t \in Thread : Fop(t) \/ Cbk(t)
  \/ ims_async_work
  \/ \E p \in Proc : Statement(p) \/ Busy(p)
  \/ ims_xdb_direct_query
  \/ Crash
  \/ Rest

Spec == Init /\ [][Next]_vars

-----------------------------------------------------------------------------
\* What init, the file operations, the callbacks and the statements of the xdb
\* functions may store: tasks carry the fields their opcode needs, and both
\* databases have the tables of the schema.
TypeOK ==
  /\ ns \in [Path -> Gfid \cup {NoGfid}]
  /\ used \subseteq Gfid
  /\ call \in [Proc -> [pc : Pc, task : Task \cup {NoTask}, gid : Nat]]
  /\ queue \in Seq(Task)
  /\ disk \in Db
  /\ view \in Db
  /\ intx \in BOOLEAN
  /\ pend \in BOOLEAN
  /\ reading \in BOOLEAN
  /\ nfops \in Nat
  /\ ncrash \in Nat

\* The row of a path refers to a row of xdb_xgfid, as the foreign key of
\* xdb_xfile declares and SQLite does not enforce: link, unlink, rename and
\* rollback never leave a path with a gid that is gone.
FileReferencesGfid ==
  \A db \in {disk, view}, p \in Path : db.xfile[p] \in 0 .. Len(db.xgfid)

\* The rows of xdb_xdata refer to rows of xdb_xgfid, as its foreign key
\* declares: a gid that get_gid read is still there when a later statement
\* writes it.
DataReferencesGfid ==
  \A db \in {disk, view} : \A row \in db.xdata : row[1] \in Gids(db)

\* Every file a query can see has all its stat rows: the three statements of
\* ims_xdb_insert_new_file reach the disk together or not at all, whatever
\* fails, crashes or reads in between.
IndexedWhole ==
  \A gid \in Gids(disk), n \in StatName :
    \E v \in Val : <<gid, n, v>> \in disk.xdata

\* Program counters from after a BEGIN up to the END or ROLLBACK.
TxPc == {"gfid", "file", "sgid", "stat", "xname", "xdata", "commit", "rollback"}
          \cup StatName

\* A transaction is open only while some process is between its BEGIN and its
\* END or ROLLBACK, or after an END that a reader refused with SQLITE_BUSY: no
\* error path of the xdb functions returns with a transaction open.
TxOwned ==
  intx => pend \/ \E p \in Proc : call[p].pc \in TxPc

\* A committed gid keeps its file for ever, across unlink, failed updates,
\* rollbacks of other threads and restarts: xdb_xfile and xdb_xdata rows never
\* come to mean another file.
GidsStable ==
  [][\A gid \in Gids(disk) :
       gid \in Gids(disk') /\ disk'.xgfid[gid] = disk.xgfid[gid]]_vars

-----------------------------------------------------------------------------
(* Fairness: the threads run.  Nothing is assumed of the queries: while    *)
(* they overlap, the second connection keeps its SHARED lock, and a         *)
(* statement that is only now and then able to commit may miss every chance.*)

Fairness ==
  /\ \A t \in Thread : WF_vars(Cbk(t))
  /\ WF_vars(ims_async_work)
  /\ \A p \in Proc : WF_vars(Statement(p))

\* The worker is in the retry loop of a link, an unlink or a rename, the
\* statements that are executed outside a transaction.
Retrying == call[Worker].pc \in SinglePc /\ ~intx

\* What the callbacks put in the queue is carried out: no task, failed update,
\* rollback, crash or COMMIT that a reader refuses stops the worker.  The one
\* thing that can is the loop on SQLITE_BUSY around a single statement, and
\* only against readers that never cease.
CatchesUp ==
  \/ queue # << >> ~> (queue = << >> /\ At(Worker, "idle"))
  \/ <>[]Retrying /\ []<>reading
=============================================================================
