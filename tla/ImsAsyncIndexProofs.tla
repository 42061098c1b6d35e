------------------------ MODULE ImsAsyncIndexProofs -------------------------
(***************************************************************************)
(* Proofs about the index of a server, for every set of paths, files,      *)
(* values and threads and every bound.  ImsServer: its types, the foreign  *)
(* key of xdb_xfile, the stability of gids and the ends of transactions in *)
(* both modes; the foreign key of xdb_xdata and whole files with           *)
(* asynchronous updates.  ImsAsyncIndex: the asynchronous server           *)
(* implements ImsIndex; the initial states map to initial states, and      *)
(* every step to a step or a stutter.  ImsAgree: the index agrees with the *)
(* brick once the queue is empty; the attributes, from the last report     *)
(* about a file among the tasks to be carried out; the paths, from the     *)
(* files the brick will have in the index after each task and the doubt    *)
(* that spreads along the renames among them.                              *)
(***************************************************************************)
EXTENDS ImsAgree, ImsXdbProofs

\* Most leaves are first-order: Zenon proves them.  A leaf that needs arithmetic,
\* record or sequence reasoning names SMT.
USE Zenon

-----------------------------------------------------------------------------
(* ImsServer: the invariant of both modes.                                 *)

\* A process at a statement has a task with the arguments of that statement.
TaskFits(pc, task) ==
  /\ pc \in InsertPc => task \in InsertTask
  /\ pc \in UpdatePc => task \in UpdateTask
  /\ pc \in XattrPc  => task \in XattrTask
  /\ pc = "link"     => task \in LinkTask
  /\ pc = "unlink"   => task \in UnlinkTask
  /\ pc = "rename"   => task \in RenameTask
  /\ pc = "cbk"      => task \in Task

BrickOK ==
  /\ ns \in [Path -> Gfid \cup {NoGfid}]
  /\ used \subseteq Gfid
  /\ nfops \in Nat
  /\ ncrash \in Nat

CallOK ==
  /\ call \in [Proc -> [pc : Pc, task : Task \cup {NoTask}, gid : Nat]]
  /\ queue \in Seq(Task)
  /\ \A p \in Proc : TaskFits(call[p].pc, call[p].task)

\* The connection's view has every committed gid, and outside a transaction it
\* is the disk.
ConnOK ==
  /\ Grows(disk, view)
  /\ FileRefs(disk)
  /\ FileRefs(view)
  /\ intx \in BOOLEAN
  /\ pend \in BOOLEAN
  /\ reading \in BOOLEAN
  /\ ~intx => view = disk

\* The inductive invariant.
Inv == BrickOK /\ CallOK /\ ConnOK

\* What every step keeps.
Kept == Inv' /\ Grows(disk, disk')

-----------------------------------------------------------------------------
\* The invariant implies the type invariant and the foreign key of xdb_xfile.
LEMMA InvImplies ==
  ASSUME Inv
  PROVE  TypeOK /\ FileReferencesGfid
<1>1. disk \in Db /\ view \in Db
  BY DEF Inv, ConnOK, Grows
<1>2. TypeOK
  BY <1>1 DEF Inv, BrickOK, CallOK, ConnOK, TypeOK
<1>3. FileReferencesGfid
  BY DEF Inv, ConnOK, FileReferencesGfid, FileRefs
<1> QED
  BY <1>2, <1>3

\* The invariant holds initially.
LEMMA InvInit ==
  ASSUME Init
  PROVE  Inv
<1>1. BrickOK
  BY DEF Init, BrickOK
<1>2. CallOK
  BY SMT DEF Init, CallOK, Idle, TaskFits, Pc, InsertPc, UpdatePc, XattrPc,
         SinglePc, StatName
<1>3. ConnOK
  BY EmptyDb DEF Init, ConnOK
<1> QED
  BY <1>1, <1>2, <1>3 DEF Inv

\* A step that leaves the connection alone keeps what holds of it.
LEMMA ConnSame ==
  ASSUME ConnOK, UNCHANGED conn, reading' \in BOOLEAN
  PROVE  ConnOK' /\ Grows(disk, disk')
BY SMT DEF ConnOK, conn, Grows, FileRefs

\* A process moves to a program counter that fits its task, or to rest.
LEMMA GotoKeeps ==
  ASSUME CallOK, NEW p \in Proc, NEW pc \in Pc, Goto(p, pc), UNCHANGED queue,
         TaskFits(pc, call[p].task)
  PROVE  CallOK'
<1>1. CASE pc = "idle"
  <2>1. call' = [call EXCEPT ![p] = Idle]
    BY <1>1 DEF Goto
  <2>2. /\ Idle \in [pc : Pc, task : Task \cup {NoTask}, gid : Nat]
        /\ TaskFits(Idle.pc, Idle.task)
    BY DEF Idle, Pc, TaskFits, InsertPc, UpdatePc, XattrPc, StatName
  <2> QED
    BY <2>1, <2>2 DEF CallOK
<1>2. CASE pc # "idle"
  <2>1. call' = [call EXCEPT ![p].pc = pc]
    BY <1>2 DEF Goto
  <2> QED
    BY <2>1 DEF CallOK
<1> QED
  BY <1>1, <1>2

\* A process is given a task and a program counter that fits it.
LEMMA GivenKeeps ==
  ASSUME CallOK, NEW p \in Proc, NEW pc \in Pc, NEW task \in Task,
         call' = [call EXCEPT ![p] = [pc |-> pc, task |-> task, gid |-> 0]],
         queue' \in Seq(Task), TaskFits(pc, task)
  PROVE  CallOK'
BY DEF CallOK

\* The program counter that starts a task fits it.
LEMMA EntryFits ==
  ASSUME NEW task \in Task
  PROVE  Entry(task) \in Pc /\ TaskFits(Entry(task), task)
BY DEF Task, InsertTask, UnlinkTask, UpdateTask, LinkTask, RenameTask, XattrTask,
       Entry, TaskFits, Pc, InsertPc, UpdatePc, XattrPc, SinglePc, StatName

-----------------------------------------------------------------------------
\* A file operation that is wound leaves the connection alone and gives its
\* thread the task that its callback will report.
LEMMA WindKeeps ==
  ASSUME Inv, NEW t \in Thread, NEW task \in Task, Wind(t, task),
         ns' \in [Path -> Gfid \cup {NoGfid}], used' \subseteq Gfid
  PROVE  Kept
<1>1. t \in Proc /\ "cbk" \in Pc /\ TaskFits("cbk", task)
  BY DEF Proc, Pc, TaskFits, InsertPc, UpdatePc, XattrPc, StatName
<1>2. CallOK'
  BY <1>1, GivenKeeps DEF Inv, CallOK, Wind
<1>3. BrickOK'
  BY SMT DEF Inv, BrickOK, Wind, CountFop
<1>4. ConnOK' /\ Grows(disk, disk')
  BY ConnSame DEF Inv, ConnOK, Wind
<1> QED
  BY <1>2, <1>3, <1>4 DEF Kept, Inv

\* create, symlink and mkdir
LEMMA NewEntryKeeps ==
  ASSUME Inv, NEW t \in Thread, NEW path \in Path,
         ims_create(t, path) \/ ims_symlink(t, path) \/ ims_mkdir(t, path)
  PROVE  Kept
<1>1. ASSUME NEW gfid \in Gfid, NewEntry(path, gfid)
      PROVE  ns' \in [Path -> Gfid \cup {NoGfid}] /\ used' \subseteq Gfid
  BY <1>1 DEF NewEntry, Inv, BrickOK
<1>2. ASSUME NEW gfid \in Gfid, NEW sb \in Sb
      PROVE  InsertOf(path, gfid, sb) \in Task
  BY ServerAssumption DEF InsertOf, InsertTask, Task
<1>3. CASE ims_create(t, path) \/ ims_symlink(t, path)
  BY <1>1, <1>2, <1>3, WindKeeps DEF ims_create, ims_symlink
<1>4. CASE ims_mkdir(t, path)
  <2>1. PICK gfid \in Gfid, sb \in Sb, hashed \in {"unset", "0", "1"} :
          /\ NewEntry(path, gfid)
          /\ IF DirHash /\ hashed = "0"
             THEN /\ At(t, "idle")
                  /\ CountFop
                  /\ UNCHANGED <<call, queue, conn, reading>>
             ELSE Wind(t, InsertOf(path, gfid, sb))
    BY <1>4 DEF ims_mkdir
  <2>2. CASE DirHash /\ hashed = "0"
    <3>1. BrickOK'
      BY <1>1, <2>1, <2>2, SMT DEF Inv, BrickOK, CountFop
    <3>2. CallOK'
      BY <2>1, <2>2 DEF Inv, CallOK
    <3>3. ConnOK' /\ Grows(disk, disk')
      BY <2>1, <2>2, ConnSame DEF Inv, ConnOK
    <3> QED
      BY <3>1, <3>2, <3>3 DEF Kept, Inv
  <2>3. CASE ~(DirHash /\ hashed = "0")
    BY <1>1, <1>2, <2>1, <2>3, WindKeeps
  <2> QED
    BY <2>2, <2>3
<1> QED
  BY <1>3, <1>4

\* The other file operations
LEMMA FopKeeps ==
  ASSUME Inv, NEW t \in Thread, Fop(t)
  PROVE  Kept
<1> USE DEF Inv, BrickOK
<1>1. ASSUME NEW path \in Path, ims_unlink(t, path)
      PROVE  Kept
  <2>1. [op |-> "unlink", path |-> path] \in Task
    BY DEF Task, UnlinkTask
  <2> QED
    BY <1>1, <2>1, WindKeeps DEF ims_unlink
<1>2. ASSUME NEW old \in Path, NEW new \in Path, ims_link(t, old, new)
      PROVE  Kept
  <2>1. [op |-> "link", gfid |-> ns[old], path |-> new] \in Task
    BY <1>2 DEF Task, LinkTask, ims_link
  <2> QED
    BY <1>2, <2>1, WindKeeps DEF ims_link
<1>3. ASSUME NEW old \in Path, NEW new \in Path, ims_rename(t, old, new)
      PROVE  Kept
  <2>1. [op |-> "rename", path |-> old, extra |-> new] \in Task
    BY DEF Task, RenameTask
  <2>2. ns' \in [Path -> Gfid \cup {NoGfid}] /\ used' \subseteq Gfid
    BY <1>3 DEF ims_rename
  <2> QED
    BY <1>3, <2>1, <2>2, WindKeeps DEF ims_rename
<1>4. ASSUME NEW gfid \in Gfid, ims_setattr(t, gfid)
      PROVE  Kept
  <2>1. ASSUME NEW sb \in Sb
        PROVE  [op |-> "update", gfid |-> gfid, sb |-> sb] \in Task
    BY ServerAssumption DEF Task, UpdateTask
  <2> QED
    BY <1>4, <2>1, WindKeeps DEF ims_setattr, brick
<1>5. ASSUME NEW path \in Path, ims_setxattr(t, path)
      PROVE  Kept
  <2>1. ASSUME NEW name \in XName, NEW val \in Val
        PROVE  [op |-> "xattr", gfid |-> ns[path], name |-> name, val |-> val]
                 \in Task
    BY <1>5 DEF Task, XattrTask, ims_setxattr
  <2> QED
    BY <1>5, <2>1, WindKeeps DEF ims_setxattr, brick
<1> QED
  BY <1>1, <1>2, <1>3, <1>4, <1>5, NewEntryKeeps DEF Fop

\* A callback queues its thread's task or goes on to the task's first
\* statement.
LEMMA CbkKeeps ==
  ASSUME Inv, NEW t \in Thread, Cbk(t)
  PROVE  Kept
<1>1. PICK op : Report(t, op)
  BY DEF Cbk, insert_new_xdb_entry, unlink_from_xdb, ims_setxattr_cbk,
         ims_setattr_cbk, ims_link_cbk, ims_rename_cbk
<1>2. t \in Proc /\ call[t].task \in Task
  BY <1>1 DEF Proc, Report, At, Inv, CallOK, TaskFits
<1>3. CallOK'
  <2>1. CASE AsyncUpdate
    <3>1. /\ queue' = Append(queue, call[t].task)
          /\ call' = [call EXCEPT ![t] = Idle]
      BY <1>1, <2>1 DEF Report, ims_async_put_task
    <3>2. queue' \in Seq(Task)
      BY <1>2, <3>1, SMT DEF Inv, CallOK
    <3>3. /\ Idle \in [pc : Pc, task : Task \cup {NoTask}, gid : Nat]
          /\ TaskFits(Idle.pc, Idle.task)
      BY DEF Idle, Pc, TaskFits, InsertPc, UpdatePc, XattrPc, StatName
    <3> QED
      BY <1>2, <3>1, <3>2, <3>3 DEF Inv, CallOK
  <2>2. CASE ~AsyncUpdate
    BY <1>1, <1>2, <2>2, EntryFits, GotoKeeps DEF Report, Inv
  <2> QED
    BY <2>1, <2>2
<1>4. BrickOK'
  BY <1>1 DEF Report, brick, bound, Inv, BrickOK
<1>5. ConnOK' /\ Grows(disk, disk')
  BY <1>1, ConnSame DEF Report, Inv, ConnOK
<1> QED
  BY <1>3, <1>4, <1>5 DEF Kept, Inv

\* The worker takes the first task of the queue.
LEMMA WorkKeeps ==
  ASSUME Inv, ims_async_work
  PROVE  Kept
<1>1. /\ Head(queue) \in Task
      /\ Tail(queue) \in Seq(Task)
      /\ Worker \in Proc
  BY SMT DEF Inv, CallOK, ims_async_work, Proc
<1>2. CallOK'
  BY <1>1, EntryFits, GivenKeeps DEF Inv, ims_async_work
<1>3. BrickOK'
  BY DEF ims_async_work, brick, bound, Inv, BrickOK
<1>4. ConnOK' /\ Grows(disk, disk')
  BY ConnSame DEF ims_async_work, Inv, ConnOK
<1> QED
  BY <1>2, <1>3, <1>4 DEF Kept, Inv

-----------------------------------------------------------------------------
\* A statement whose result keeps the database, in or out of a transaction.
LEMMA StepKeeps ==
  ASSUME Inv, NEW p \in Proc, NEW r, NEW next \in Pc, NEW fail \in Pc,
         Step(p, r, next, fail),
         Grows(view, r.db),
         FileRefs(view) => FileRefs(r.db),
         TaskFits(next, call[p].task),
         TaskFits(fail, call[p].task)
  PROVE  Kept
<1>1. CallOK'
  <2>1. (IF r.ok THEN next ELSE fail) \in Pc
    OBVIOUS
  <2>2. TaskFits(IF r.ok THEN next ELSE fail, call[p].task)
    OBVIOUS
  <2> QED
    BY <2>1, <2>2, GotoKeeps DEF Step, Unmoved, Inv
<1>2. BrickOK'
  BY DEF Step, Unmoved, brick, bound, Inv, BrickOK
<1>3. ConnOK' /\ Grows(disk, disk')
  <2>1. /\ view' = r.db
        /\ intx' = intx
        /\ reading' = reading
        /\ pend' \in BOOLEAN
    BY DEF Step, Unmoved, Inv, ConnOK
  <2>2. Grows(disk, r.db)
    BY GrowsTrans DEF Inv, ConnOK
  <2>3. CASE intx
    <3>1. disk' = disk
      BY <2>3 DEF Step
    <3>2. Grows(disk, disk)
      BY SMT DEF Inv, ConnOK, Grows, Db
    <3> QED
      BY <2>1, <2>2, <2>3, <3>1, <3>2 DEF Inv, ConnOK
  <2>4. CASE ~intx
    <3>1. disk' = r.db
      BY <2>4 DEF Step
    <3>2. Grows(r.db, r.db)
      BY <2>2, SMT DEF Grows, Db
    <3> QED
      BY <2>1, <2>2, <3>1, <3>2 DEF Inv, ConnOK
  <2> QED
    BY <2>3, <2>4 DEF Inv, ConnOK
<1> QED
  BY <1>1, <1>2, <1>3 DEF Kept, Inv

\* Where a process may go fits whatever task it has.
LEMMA AnyTaskFits ==
  ASSUME NEW task, NEW pc \in {"idle", "commit", "rollback", "warn"}
  PROVE  pc \in Pc /\ TaskFits(pc, task)
BY DEF TaskFits, Pc, InsertPc, UpdatePc, XattrPc, StatName

\* BEGIN, END and ROLLBACK
LEMMA TxKeeps ==
  ASSUME Inv, NEW p \in Proc,
         ims_xdb_tx_begin(p) \/ ims_xdb_tx_commit(p) \/ ims_xdb_tx_rollback(p)
  PROVE  Kept
<1>0. BrickOK' /\ reading' = reading /\ queue' = queue
  BY DEF ims_xdb_tx_begin, ims_xdb_tx_commit, ims_xdb_tx_rollback, Unmoved,
         brick, bound, Inv, BrickOK
<1>a. Grows(disk, disk) /\ Grows(view, view)
  BY SMT DEF Inv, ConnOK, Grows, Db
<1>1. CASE ims_xdb_tx_begin(p)
  <2>1. PICK pc \in Pc : Goto(p, pc) /\ TaskFits(pc, call[p].task)
    BY <1>1, SMT DEF ims_xdb_tx_begin, At, Inv, CallOK, TaskFits, Pc, InsertPc,
                UpdatePc, XattrPc, StatName
  <2>2. CallOK'
    BY <1>0, <2>1, GotoKeeps DEF Inv
  <2>3. ConnOK' /\ Grows(disk, disk')
    BY <1>0, <1>1, <1>a DEF ims_xdb_tx_begin, Inv, ConnOK
  <2> QED
    BY <1>0, <2>2, <2>3 DEF Kept, Inv
<1>2. CASE ims_xdb_tx_commit(p)
  <2>1. CallOK'
    BY <1>0, <1>2, AnyTaskFits, GotoKeeps DEF ims_xdb_tx_commit, Inv
  <2>2. ConnOK' /\ Grows(disk, disk')
    <3>1. CASE disk' = view /\ view' = view /\ intx' = FALSE /\ pend' = FALSE
      BY <1>0, <1>a, <3>1 DEF Inv, ConnOK
    <3>2. CASE disk' = disk /\ view' = view /\ intx' = intx /\ pend' \in BOOLEAN
      BY <1>0, <1>a, <3>2 DEF Inv, ConnOK
    <3> QED
      BY <1>2, <3>1, <3>2 DEF ims_xdb_tx_commit, conn, Inv, ConnOK
  <2> QED
    BY <1>0, <2>1, <2>2 DEF Kept, Inv
<1>3. CASE ims_xdb_tx_rollback(p)
  <2>1. CallOK'
    BY <1>0, <1>3, AnyTaskFits, GotoKeeps DEF ims_xdb_tx_rollback, Inv
  <2>2. ConnOK' /\ Grows(disk, disk')
    BY <1>0, <1>3, <1>a DEF ims_xdb_tx_rollback, Inv, ConnOK
  <2> QED
    BY <1>0, <2>1, <2>2 DEF Kept, Inv
<1> QED
  BY <1>1, <1>2, <1>3

\* The select of get_gid
LEMMA GetGidKeeps ==
  ASSUME Inv, NEW p \in Proc, get_gid(p)
  PROVE  Kept
<1> DEFINE gid == GET_GID(view, call[p].task.gfid)
<1>1. gid \in Nat
  <2>1. view \in Db /\ Len(view.xgfid) \in Nat
    BY SMT DEF Inv, ConnOK, Grows, Db
  <2> QED
    BY <2>1, GetGid, SMT
<1>2. PICK pc \in Pc : /\ call' = [call EXCEPT ![p].pc = pc, ![p].gid = gid]
                       /\ TaskFits(pc, call[p].task)
  <2> DEFINE spc == IF gid = 0 THEN "rollback" ELSE "stat"
             upc == IF gid = 0 THEN "warn" ELSE "ubegin"
  <2>1. CASE At(p, "sgid") /\ call' = [call EXCEPT ![p].pc = spc, ![p].gid = gid]
    <3>1. spc \in Pc /\ TaskFits(spc, call[p].task)
      BY <2>1 DEF At, Inv, CallOK, TaskFits, Pc, InsertPc, UpdatePc, XattrPc,
                  StatName
    <3> HIDE DEF spc
    <3> QED
      BY <2>1, <3>1
  <2>2. CASE At(p, "ugid") /\ call' = [call EXCEPT ![p].pc = upc, ![p].gid = gid]
    <3>1. upc \in Pc /\ TaskFits(upc, call[p].task)
      BY <2>2 DEF At, Inv, CallOK, TaskFits, Pc, InsertPc, UpdatePc, XattrPc,
                  StatName
    <3> HIDE DEF upc
    <3> QED
      BY <2>2, <3>1
  <2> QED
    BY <2>1, <2>2 DEF get_gid
<1> HIDE DEF gid
<1>3. CallOK'
  <2>1. queue' = queue
    BY DEF get_gid, Unmoved
  <2> QED
    BY <1>1, <1>2, <2>1 DEF Inv, CallOK
<1>4. BrickOK'
  BY DEF get_gid, Unmoved, brick, bound, Inv, BrickOK
<1>5. ConnOK' /\ Grows(disk, disk')
  BY ConnSame DEF get_gid, Unmoved, Inv, ConnOK
<1> QED
  BY <1>3, <1>4, <1>5 DEF Kept, Inv

\* The statement a process is at keeps the database it is executed on; the
\* foreign key of xdb_xdata needs a gid in use from INSERT_STAT.
LEMMA ResultsKeep ==
  ASSUME Inv, NEW p \in Proc
  PROVE  LET task == call[p].task
             gid  == call[p].gid
             stat == INSERT_STAT(view, gid, task.sb)
         IN  /\ At(p, "gfid") => Keeps(view, INSERT_GFID(view, task.gfid))
             /\ At(p, "file") \/ At(p, "link")
                  => Keeps(view, INSERT_FILE(view, task.gfid, task.path))
             /\ At(p, "stat") => /\ Grows(view, stat.db)
                                 /\ FileRefs(view) => FileRefs(stat.db)
                                 /\ gid \in Gids(view) => Keeps(view, stat)
             /\ \A name \in StatName :
                  At(p, name) => Keeps(view, UPDATE_STAT(view, gid, name, task.sb[name]))
             /\ At(p, "xname") => Keeps(view, INSERT_XNAME(view, task.name))
             /\ At(p, "xdata")
                  => Keeps(view, INSERT_XDATA(view, task.gfid, task.name, task.val))
             /\ At(p, "unlink") => Keeps(view, UNLINK_FILE(view, task.path))
             /\ At(p, "rename") => Keeps(view, RENAME(view, task.path, task.extra))
<1> DEFINE task == call[p].task
           gid  == call[p].gid
<1>0. /\ view \in Db
      /\ gid \in Nat
      /\ TaskFits(call[p].pc, task)
  BY DEF Inv, CallOK, ConnOK, Grows
<1> USE DEF At, TaskFits, InsertPc, UpdatePc, XattrPc
<1>1. At(p, "gfid") => Keeps(view, INSERT_GFID(view, task.gfid))
  BY <1>0, KeepsInsertGfid DEF InsertTask
<1>2. At(p, "file") \/ At(p, "link")
        => Keeps(view, INSERT_FILE(view, task.gfid, task.path))
  BY <1>0, KeepsInsertFile DEF InsertTask, LinkTask
<1>3. At(p, "stat") => task.sb \in Stat
  BY <1>0 DEF InsertTask
<1>4. ASSUME NEW name \in StatName, At(p, name)
      PROVE  Keeps(view, UPDATE_STAT(view, gid, name, task.sb[name]))
  <2>1. name \in Name /\ task.sb[name] \in Val
    BY <1>0, <1>4 DEF UpdateTask, Stat, Name
  <2> QED
    BY <1>0, <2>1, KeepsUpdateStat
<1>5. At(p, "xname") => Keeps(view, INSERT_XNAME(view, task.name))
  BY <1>0, KeepsInsertXname DEF XattrTask
<1>6. At(p, "xdata")
        => Keeps(view, INSERT_XDATA(view, task.gfid, task.name, task.val))
  BY <1>0, KeepsInsertXdata DEF XattrTask
<1>7. At(p, "unlink") => Keeps(view, UNLINK_FILE(view, task.path))
  BY <1>0, KeepsUnlinkFile DEF UnlinkTask
<1>8. At(p, "rename") => Keeps(view, RENAME(view, task.path, task.extra))
  BY <1>0, KeepsRename DEF RenameTask
<1> HIDE DEF task, gid, At
<1>9. At(p, "stat") =>
        LET stat == INSERT_STAT(view, gid, task.sb)
        IN  /\ Grows(view, stat.db)
            /\ FileRefs(view) => FileRefs(stat.db)
            /\ gid \in Gids(view) => Keeps(view, stat)
  BY <1>0, <1>3, KeepsInsertStat
<1> QED
  BY <1>1, <1>2, <1>4, <1>5, <1>6, <1>7, <1>8, <1>9 DEF task, gid

\* The statements that write rows, one step per function.
LEMMA RowsKeep ==
  ASSUME Inv, NEW p \in Proc,
         \/ ims_xdb_insert_gfid(p) \/ ims_xdb_insert_file(p)
         \/ ims_xdb_insert_stat(p) \/ ims_xdb_update_stat(p)
         \/ ims_xdb_setxattr(p) \/ ims_xdb_link_file(p)
         \/ ims_xdb_unlink_file(p) \/ ims_xdb_rename(p)
  PROVE  Kept
<1> DEFINE task == call[p].task
<1>0. TaskFits(call[p].pc, task)
  BY DEF Inv, CallOK
<1>1. CASE ims_xdb_insert_gfid(p)
  <2>1. "file" \in Pc /\ TaskFits("file", task)
    BY <1>0, <1>1 DEF ims_xdb_insert_gfid, At, Pc, TaskFits, InsertPc, UpdatePc,
                      XattrPc, StatName
  <2> QED
    BY <1>1, <2>1, AnyTaskFits, ResultsKeep, StepKeeps
       DEF ims_xdb_insert_gfid, Keeps
<1>2. CASE ims_xdb_insert_file(p)
  <2>1. "sgid" \in Pc /\ TaskFits("sgid", task)
    BY <1>0, <1>2 DEF ims_xdb_insert_file, At, Pc, TaskFits, InsertPc, UpdatePc,
                      XattrPc, StatName
  <2> QED
    BY <1>2, <2>1, AnyTaskFits, ResultsKeep, StepKeeps
       DEF ims_xdb_insert_file, Keeps
<1>3. CASE ims_xdb_insert_stat(p)
  BY <1>3, AnyTaskFits, ResultsKeep, StepKeeps DEF ims_xdb_insert_stat
<1>4. CASE ims_xdb_update_stat(p)
  <2>1. PICK name \in StatName :
          /\ At(p, name)
          /\ Step(p, UPDATE_STAT(view, call[p].gid, name, task.sb[name]),
                  NextStat(name), "rollback")
    BY <1>4 DEF ims_xdb_update_stat
  <2>2. task \in UpdateTask
    BY <1>0, <2>1 DEF At, TaskFits, UpdatePc
  <2>3. NextStat(name) \in Pc /\ TaskFits(NextStat(name), task)
    BY <2>2 DEF NextStat, Pc, TaskFits, InsertPc, UpdatePc, XattrPc, StatName
  <2> QED
    BY <2>1, <2>3, AnyTaskFits, ResultsKeep, StepKeeps DEF Keeps
<1>5. CASE ims_xdb_setxattr(p)
  <2>1. task \in XattrTask
    BY <1>0, <1>5 DEF ims_xdb_setxattr, At, TaskFits, XattrPc
  <2>2. "xdata" \in Pc /\ TaskFits("xdata", task)
    BY <2>1 DEF Pc, TaskFits, InsertPc, UpdatePc, XattrPc, StatName
  <2> QED
    BY <1>5, <2>2, AnyTaskFits, ResultsKeep, StepKeeps DEF ims_xdb_setxattr, Keeps
<1>6. CASE ims_xdb_link_file(p)
  BY <1>6, AnyTaskFits, ResultsKeep, StepKeeps DEF ims_xdb_link_file, Keeps
<1>7. CASE ims_xdb_unlink_file(p)
  BY <1>7, AnyTaskFits, ResultsKeep, StepKeeps DEF ims_xdb_unlink_file, Keeps
<1>8. CASE ims_xdb_rename(p)
  BY <1>8, AnyTaskFits, ResultsKeep, StepKeeps DEF ims_xdb_rename, Keeps
<1> QED
  BY <1>1, <1>2, <1>3, <1>4, <1>5, <1>6, <1>7, <1>8

\* Every step of the server keeps the invariant and the committed gids.
LEMMA InvNext ==
  ASSUME Inv, [Next]_vars
  PROVE  Kept
<1>0. Grows(disk, disk)
  <2>1. disk \in Db
    BY DEF Inv, ConnOK, Grows
  <2> QED
    BY <2>1, GrowsSame
<1>1. CASE UNCHANGED vars
  BY <1>0, <1>1 DEF Kept, Inv, BrickOK, CallOK, ConnOK, vars
<1>2. ASSUME NEW t \in Thread, Fop(t) \/ Cbk(t)
      PROVE  Kept
  BY <1>2, FopKeeps, CbkKeeps
<1>3. CASE ims_async_work
  BY <1>3, WorkKeeps
<1>4. ASSUME NEW p \in Proc, Statement(p)
      PROVE  Kept
  <2>1. CASE Warn(p)
    <3>1. CallOK'
      BY <2>1, AnyTaskFits, GotoKeeps DEF Warn, Unmoved, Inv
    <3>2. BrickOK'
      BY <2>1 DEF Warn, Unmoved, brick, bound, Inv, BrickOK
    <3>3. ConnOK' /\ Grows(disk, disk')
      BY <2>1, ConnSame DEF Warn, Unmoved, Inv, ConnOK
    <3> QED
      BY <3>1, <3>2, <3>3 DEF Kept, Inv
  <2> QED
    BY <1>4, <2>1, TxKeeps, GetGidKeeps, RowsKeep DEF Statement
<1>5. ASSUME NEW p \in Proc, Busy(p)
      PROVE  Kept
  BY <1>0, <1>5 DEF Busy, Unmoved, brick, bound, Kept, Inv, BrickOK, CallOK, ConnOK
<1>6. CASE ims_xdb_direct_query
  <2>1. BrickOK' /\ CallOK'
    BY <1>6 DEF ims_xdb_direct_query, brick, bound, Inv, BrickOK, CallOK
  <2>2. ConnOK' /\ Grows(disk, disk')
    BY <1>6, ConnSame DEF ims_xdb_direct_query, Inv
  <2> QED
    BY <2>1, <2>2 DEF Kept, Inv
<1>7. CASE Crash
  <2>1. BrickOK'
    BY <1>7, SMT DEF Crash, brick, Inv, BrickOK
  <2>2. CallOK'
    <3>1. /\ Idle \in [pc : Pc, task : Task \cup {NoTask}, gid : Nat]
          /\ TaskFits(Idle.pc, Idle.task)
      BY DEF Idle, Pc, TaskFits, InsertPc, UpdatePc, XattrPc, StatName
    <3> QED
      BY <1>7, <3>1, SMT DEF Crash, CallOK
  <2>3. ConnOK' /\ Grows(disk, disk')
    BY <1>0, <1>7 DEF Crash, Inv, ConnOK
  <2> QED
    BY <2>1, <2>2, <2>3 DEF Kept, Inv
<1>8. CASE Rest
  BY <1>1, <1>8 DEF Rest
<1> QED
  BY <1>1, <1>2, <1>3, <1>4, <1>5, <1>6, <1>7, <1>8 DEF Next

-----------------------------------------------------------------------------
\* Inv is an invariant of the server.
THEOREM Invariance == Spec => []Inv
<1>1. Init => Inv
  BY InvInit
<1>2. Inv /\ [Next]_vars => Inv'
  BY InvNext DEF Kept
<1> QED
  BY <1>1, <1>2, PTL DEF Spec

\* The state of the server always has its type: in particular a process at a
\* statement of imess-server-xdb.c has the task fields that it binds.
THEOREM TypeCorrect == Spec => []TypeOK
<1>1. Inv => TypeOK
  BY InvImplies
<1> QED
  BY <1>1, Invariance, PTL

\* In both modes, for any number of threads, files, queries and crashes, every
\* row of xdb_xfile refers to a row of xdb_xgfid, on disk and in the view.
THEOREM FileReferences == Spec => []FileReferencesGfid
<1>1. Inv => FileReferencesGfid
  BY InvImplies
<1> QED
  BY <1>1, Invariance, PTL

\* In both modes a committed gid keeps its file for ever.
THEOREM StableGids == Spec => GidsStable
<1>1. Inv /\ [Next]_vars =>
        [\A gid \in Gids(disk) :
           gid \in Gids(disk') /\ disk'.xgfid[gid] = disk.xgfid[gid]]_vars
  <2> SUFFICES ASSUME Inv, [Next]_vars
               PROVE  \A gid \in Gids(disk) :
                        gid \in Gids(disk') /\ disk'.xgfid[gid] = disk.xgfid[gid]
    OBVIOUS
  <2>1. Grows(disk, disk')
    BY InvNext DEF Kept
  <2>2. Len(disk.xgfid) \in Nat /\ Len(disk'.xgfid) \in Nat
    BY <2>1, SMT DEF Grows, Db
  <2> QED
    BY <2>1, <2>2, SMT DEF Grows, Gids
<1> QED
  BY <1>1, Invariance, PTL DEF Spec, GidsStable

-----------------------------------------------------------------------------
(* Transactions.                                                           *)

\* The only way out of a transaction is END or ROLLBACK.
LEMMA TxStays ==
  ASSUME Inv, TxOwned, NEW p \in Proc, NEW r, NEW next \in TxPc, NEW fail \in TxPc,
         Step(p, r, next, fail), call[p].pc \in TxPc
  PROVE  TxOwned'
<1>1. call'[p].pc \in TxPc
  <2>1. "idle" \notin TxPc
    BY DEF TxPc, StatName
  <2> QED
    BY <2>1 DEF Step, Goto, Inv, CallOK
<1> QED
  BY <1>1 DEF TxOwned

\* A step of one process from outside to outside a transaction.
LEMMA TxOutside ==
  ASSUME Inv, TxOwned, NEW p \in Proc, call[p].pc \notin TxPc,
         intx' => intx, intx' /\ pend => pend',
         \A q \in Proc \ {p} : call'[q] = call[q]
  PROVE  TxOwned'
BY DEF TxOwned

\* Every step of the server keeps TxOwned.
LEMMA TxNext ==
  ASSUME Inv, TxOwned, [Next]_vars
  PROVE  TxOwned'
<1> USE DEF TxPc, StatName
<1>0. call \in [Proc -> [pc : Pc, task : Task \cup {NoTask}, gid : Nat]]
  BY DEF Inv, CallOK
<1>1. CASE UNCHANGED vars
  BY <1>1 DEF vars, TxOwned
<1>2. ASSUME NEW t \in Thread, Fop(t)
      PROVE  TxOwned'
  <2>1. /\ At(t, "idle")
        /\ UNCHANGED conn
        /\ \A q \in Proc \ {t} : call'[q] = call[q]
    BY <1>0, <1>2 DEF Fop, ims_create, ims_symlink, ims_mkdir, ims_unlink,
         ims_link, ims_rename, ims_setattr, ims_setxattr, Wind
  <2> QED
    BY <2>1, TxOutside DEF At, conn, Proc
<1>3. ASSUME NEW t \in Thread, Cbk(t)
      PROVE  TxOwned'
  <2>1. PICK op : Report(t, op)
    BY <1>3 DEF Cbk, insert_new_xdb_entry, unlink_from_xdb, ims_setxattr_cbk,
         ims_setattr_cbk, ims_link_cbk, ims_rename_cbk
  <2>2. /\ At(t, "cbk")
        /\ UNCHANGED conn
        /\ \A q \in Proc \ {t} : call'[q] = call[q]
    BY <1>0, <2>1 DEF Report, ims_async_put_task, Goto
  <2> QED
    BY <2>2, TxOutside DEF At, conn, Proc
<1>4. CASE ims_async_work
  <2>1. /\ At(Worker, "idle")
        /\ UNCHANGED conn
        /\ \A q \in Proc \ {Worker} : call'[q] = call[q]
    BY <1>0, <1>4 DEF ims_async_work
  <2> QED
    BY <2>1, TxOutside DEF At, conn, Proc
<1>5. ASSUME NEW p \in Proc, Statement(p)
      PROVE  TxOwned'
  <2>1. CASE ims_xdb_tx_begin(p)
    <3>1. call'[p].pc \in TxPc
      BY <1>0, <2>1 DEF ims_xdb_tx_begin, Goto
    <3> QED
      BY <3>1 DEF TxOwned
  <2>2. CASE ims_xdb_tx_commit(p)
    BY <2>2 DEF ims_xdb_tx_commit, conn, TxOwned
  <2>3. CASE ims_xdb_tx_rollback(p)
    BY <2>3 DEF ims_xdb_tx_rollback, TxOwned
  <2>4. CASE get_gid(p)
    <3>1. CASE At(p, "sgid")
      <4>1. call'[p].pc \in TxPc
        BY <1>0, <2>4, <3>1 DEF get_gid, At
      <4> QED
        BY <4>1 DEF TxOwned
    <3>2. CASE At(p, "ugid")
      <4>1. UNCHANGED conn /\ \A q \in Proc \ {p} : call'[q] = call[q]
        BY <1>0, <2>4, <3>2 DEF get_gid, At
      <4> QED
        BY <3>2, <4>1, TxOutside DEF At, conn
    <3> QED
      BY <2>4, <3>1, <3>2 DEF get_gid
  <2>5. CASE ims_xdb_insert_gfid(p) \/ ims_xdb_insert_file(p) \/ ims_xdb_insert_stat(p)
    BY <2>5, TxStays DEF ims_xdb_insert_gfid, ims_xdb_insert_file,
                         ims_xdb_insert_stat, At
  <2>6. CASE ims_xdb_update_stat(p)
    <3>1. \A name \in StatName : NextStat(name) \in TxPc /\ name \in TxPc
      BY DEF NextStat
    <3> QED
      BY <2>6, <3>1, TxStays DEF ims_xdb_update_stat, At
  <2>7. CASE ims_xdb_setxattr(p)
    BY <2>7, TxStays DEF ims_xdb_setxattr, At
  <2>8. CASE ims_xdb_link_file(p) \/ ims_xdb_unlink_file(p) \/ ims_xdb_rename(p)
    <3>1. /\ call[p].pc \notin TxPc
          /\ intx' = intx
          /\ intx' => pend' = pend
          /\ \A q \in Proc \ {p} : call'[q] = call[q]
      BY <1>0, <2>8, SMT DEF ims_xdb_link_file, ims_xdb_unlink_file, ims_xdb_rename,
                        At, Step, Goto
    <3> QED
      BY <3>1, TxOutside, SMT
  <2>9. CASE Warn(p)
    <3>1. At(p, "warn") /\ UNCHANGED conn /\ \A q \in Proc \ {p} : call'[q] = call[q]
      BY <1>0, <2>9 DEF Warn, Goto
    <3> QED
      BY <3>1, TxOutside DEF At, conn
  <2> QED
    BY <1>5, <2>1, <2>2, <2>3, <2>4, <2>5, <2>6, <2>7, <2>8, <2>9 DEF Statement
<1>6. ASSUME NEW p \in Proc, Busy(p)
      PROVE  TxOwned'
  BY <1>6 DEF Busy, TxOwned
<1>7. CASE ims_xdb_direct_query
  BY <1>7 DEF ims_xdb_direct_query, conn, TxOwned
<1>8. CASE Crash
  BY <1>8 DEF Crash, TxOwned
<1>9. CASE Rest
  BY <1>1, <1>9 DEF Rest
<1> QED
  BY <1>1, <1>2, <1>3, <1>4, <1>5, <1>6, <1>7, <1>8, <1>9 DEF Next

\* In both modes a transaction is open only between some process's BEGIN and
\* its END or ROLLBACK, or after an END that a reader refused.
THEOREM TransactionsOwned == Spec => []TxOwned
<1>1. Init => TxOwned
  BY DEF Init, TxOwned
<1>2. Inv /\ TxOwned /\ [Next]_vars => TxOwned'
  BY TxNext
<1> QED
  BY <1>1, <1>2, Invariance, PTL DEF Spec

-----------------------------------------------------------------------------
(* The foreign key of xdb_xdata with asynchronous updates.                 *)

\* Strengthening of DataReferencesGfid: brick threads never touch the
\* connection, so that nothing comes between the worker's get_gid and its
\* INSERT_STAT.
DataOK ==
  /\ DataRefs(disk)
  /\ DataRefs(view)
  /\ \A t \in Thread : call[t].pc \in {"idle", "cbk"}
  /\ call[Worker].pc = "stat" => call[Worker].gid \in Gids(view)

\* Only the worker is at a statement.
LEMMA WorkerOnly ==
  ASSUME DataOK, NEW p \in Proc, call[p].pc \notin {"idle", "cbk"}
  PROVE  p = Worker
BY DEF DataOK, Proc

\* A statement of the worker that is not followed by INSERT_STAT.
LEMMA StepData ==
  ASSUME Inv, DataOK, NEW p \in Proc, NEW r, NEW next, NEW fail,
         Step(p, r, next, fail), call[p].pc \notin {"idle", "cbk"},
         next # "stat", fail # "stat", Keeps(view, r)
  PROVE  DataOK'
<1>1. p = Worker /\ Worker \notin Thread
  BY WorkerOnly, ServerAssumption
<1>2. call \in [Proc -> [pc : Pc, task : Task \cup {NoTask}, gid : Nat]]
  BY DEF Inv, CallOK
<1>3. (\A t \in Thread : call'[t] = call[t]) /\ call'[Worker].pc # "stat"
  BY <1>1, <1>2 DEF Step, Goto, Idle, Proc
<1>4. DataRefs(disk)' /\ DataRefs(view)'
  <2>1. DataRefs(r.db)
    BY DEF Keeps, DataOK
  <2> QED
    BY <2>1 DEF Step, DataOK
<1> QED
  BY <1>3, <1>4 DEF DataOK

\* A step that leaves the database, the threads' places and the worker alone.
LEMMA SameData ==
  ASSUME DataOK, disk' = disk, view' = view,
         \A t \in Thread : call'[t].pc \in {"idle", "cbk"},
         \/ call'[Worker] = call[Worker]
         \/ call'[Worker].pc # "stat"
  PROVE  DataOK'
BY DEF DataOK, DataRefs, Gids

\* With asynchronous updates every step keeps DataOK.
LEMMA DataNext ==
  ASSUME AsyncUpdate, Inv, DataOK, [Next]_vars
  PROVE  DataOK'
<1>0. /\ call \in [Proc -> [pc : Pc, task : Task \cup {NoTask}, gid : Nat]]
      /\ \A t \in Thread : call[t].pc \in {"idle", "cbk"} /\ t # Worker /\ t \in Proc
      /\ Worker \in Proc
  BY ServerAssumption DEF Inv, CallOK, DataOK, Proc
<1>1. CASE UNCHANGED vars
  BY <1>0, <1>1, SameData DEF vars
<1>2. ASSUME NEW t \in Thread, Fop(t)
      PROVE  DataOK'
  <2>1. (\E task : Wind(t, task)) \/ UNCHANGED <<call, conn>>
    BY <1>2, Zenon DEF Fop, ims_create, ims_symlink, ims_mkdir, ims_unlink,
         ims_link, ims_rename, ims_setattr, ims_setxattr
  <2>2. CASE UNCHANGED <<call, conn>>
    BY <1>0, <2>2, SameData DEF conn
  <2>3. ASSUME NEW task, Wind(t, task)
        PROVE  DataOK'
    <3>1. UNCHANGED conn /\ call' = [call EXCEPT ![t] =
                                      [pc |-> "cbk", task |-> task, gid |-> 0]]
      BY <2>3 DEF Wind
    <3>2. call'[Worker] = call[Worker] /\ \A s \in Thread : call'[s].pc \in {"idle", "cbk"}
      BY <1>0, <3>1
    <3> QED
      BY <3>1, <3>2, SameData DEF conn
  <2> QED
    BY <2>1, <2>2, <2>3
<1>3. ASSUME NEW t \in Thread, Cbk(t)
      PROVE  DataOK'
  <2>1. PICK op : Report(t, op)
    BY <1>3 DEF Cbk, insert_new_xdb_entry, unlink_from_xdb, ims_setxattr_cbk,
         ims_setattr_cbk, ims_link_cbk, ims_rename_cbk
  <2>2. /\ UNCHANGED conn
        /\ \A q \in Proc \ {t} : call'[q] = call[q]
        /\ call'[t].pc \in {"idle", "cbk"}
    BY <1>0, <2>1, SMT DEF Report, ims_async_put_task, Idle
  <2> QED
    BY <1>0, <2>2, SameData DEF conn
<1>4. CASE ims_async_work
  <2>1. /\ UNCHANGED conn
        /\ \A q \in Proc \ {Worker} : call'[q] = call[q]
        /\ call'[Worker].pc = Entry(Head(queue))
    BY <1>0, <1>4 DEF ims_async_work
  <2>2. Head(queue) \in Task
    BY <1>4, SMT DEF ims_async_work, Inv, CallOK
  <2>3. Entry(Head(queue)) # "stat"
    BY <2>2 DEF Entry, Task, InsertTask, UnlinkTask, UpdateTask, LinkTask,
                RenameTask, XattrTask
  <2> QED
    BY <1>0, <2>1, <2>3, SameData DEF conn
<1>5. ASSUME NEW p \in Proc, Statement(p)
      PROVE  DataOK'
  <2>1. CASE ims_xdb_tx_begin(p)
    <3>1. p = Worker
      BY <2>1, WorkerOnly DEF ims_xdb_tx_begin, At
    <3>2. (\A t \in Thread : call'[t] = call[t]) /\ call'[Worker].pc # "stat"
      BY <1>0, <2>1, <3>1, SMT DEF ims_xdb_tx_begin, Goto
    <3> QED
      BY <1>0, <2>1, <3>2, SameData DEF ims_xdb_tx_begin
  <2>2. CASE ims_xdb_tx_commit(p) \/ ims_xdb_tx_rollback(p) \/ Warn(p)
    <3>1. p = Worker
      BY <2>2, WorkerOnly DEF ims_xdb_tx_commit, ims_xdb_tx_rollback, Warn, At
    <3>2. (\A t \in Thread : call'[t] = call[t]) /\ call'[Worker].pc # "stat"
      BY <1>0, <2>2, <3>1, SMT DEF ims_xdb_tx_commit, ims_xdb_tx_rollback, Warn, Goto, Idle
    <3>3. disk' \in {disk, view} /\ view' \in {disk, view}
      BY <2>2 DEF ims_xdb_tx_commit, ims_xdb_tx_rollback, Warn, conn
    <3> QED
      BY <1>0, <3>2, <3>3 DEF DataOK
  <2>3. CASE get_gid(p)
    <3> DEFINE gid == GET_GID(view, call[p].task.gfid)
    <3>1. p = Worker
      BY <2>3, WorkerOnly DEF get_gid, At
    <3>2. view \in Db /\ Len(view.xgfid) \in Nat
      BY SMT DEF Inv, ConnOK, Grows, Db
    <3>3. gid \in 0 .. Len(view.xgfid)
      BY <3>2, GetGid
    <3>4. /\ \A t \in Thread : call'[t] = call[t]
          /\ call'[Worker].gid = gid
          /\ call'[Worker].pc = "stat" => gid # 0
      BY <1>0, <2>3, <3>1, SMT DEF get_gid
    <3> HIDE DEF gid
    <3>5. call'[Worker].pc = "stat" => call'[Worker].gid \in Gids(view)
      BY <3>2, <3>3, <3>4, SMT DEF Gids
    <3>6. disk' = disk /\ view' = view
      BY <2>3 DEF get_gid, conn
    <3> QED
      BY <1>0, <3>4, <3>5, <3>6 DEF DataOK
  <2>4. CASE ims_xdb_insert_gfid(p) \/ ims_xdb_insert_file(p)
    BY <2>4, ResultsKeep, StepData DEF ims_xdb_insert_gfid, ims_xdb_insert_file, At
  <2>5. CASE ims_xdb_insert_stat(p)
    <3>1. p = Worker /\ At(p, "stat")
      BY <2>5, WorkerOnly DEF ims_xdb_insert_stat, At
    <3>2. call[p].gid \in Gids(view)
      BY <3>1 DEF DataOK, At
    <3>3. Keeps(view, INSERT_STAT(view, call[p].gid, call[p].task.sb))
      BY <3>1, <3>2, ResultsKeep
    <3> QED
      BY <2>5, <3>1, <3>3, StepData DEF ims_xdb_insert_stat, At
  <2>6. CASE ims_xdb_update_stat(p)
    <3>1. \A name \in StatName : NextStat(name) # "stat" /\ name \notin {"idle", "cbk"}
      BY DEF NextStat, StatName
    <3>2. PICK name \in StatName :
            /\ At(p, name)
            /\ Step(p, UPDATE_STAT(view, call[p].gid, name, call[p].task.sb[name]),
                    NextStat(name), "rollback")
      BY <2>6 DEF ims_xdb_update_stat
    <3>3. Keeps(view, UPDATE_STAT(view, call[p].gid, name, call[p].task.sb[name]))
      BY <3>2, ResultsKeep
    <3> QED
      BY <3>1, <3>2, <3>3, StepData DEF At
  <2>7. CASE ims_xdb_setxattr(p)
    BY <2>7, ResultsKeep, StepData DEF ims_xdb_setxattr, At
  <2>8. CASE ims_xdb_link_file(p) \/ ims_xdb_unlink_file(p) \/ ims_xdb_rename(p)
    BY <2>8, ResultsKeep, StepData
       DEF ims_xdb_link_file, ims_xdb_unlink_file, ims_xdb_rename, At
  <2> QED
    BY <1>5, <2>1, <2>2, <2>3, <2>4, <2>5, <2>6, <2>7, <2>8 DEF Statement
<1>6. ASSUME NEW p \in Proc, Busy(p)
      PROVE  DataOK'
  BY <1>0, <1>6, SameData DEF Busy
<1>7. CASE ims_xdb_direct_query
  BY <1>0, <1>7, SameData DEF ims_xdb_direct_query, conn
<1>8. CASE Crash
  BY <1>0, <1>8 DEF Crash, Idle, DataOK
<1>9. CASE Rest
  BY <1>1, <1>9 DEF Rest
<1> QED
  BY <1>1, <1>2, <1>3, <1>4, <1>5, <1>6, <1>7, <1>8, <1>9 DEF Next

\* With asynchronous updates every row of xdb_xdata refers to a row of
\* xdb_xgfid, for any number of threads, files, queries and crashes.
THEOREM DataReferences ==
  ASSUME AsyncUpdate
  PROVE  Spec => []DataReferencesGfid
<1>1. Init => DataOK
  BY EmptyDb, ServerAssumption, SMT DEF Init, DataOK, Idle, Proc
<1>2. Inv /\ DataOK /\ [Next]_vars => DataOK'
  BY DataNext
<1>3. DataOK => DataReferencesGfid
  BY DEF DataOK, DataRefs, DataReferencesGfid, Gids
<1> QED
  BY <1>1, <1>2, <1>3, Invariance, PTL DEF Spec

-----------------------------------------------------------------------------
\* A step that is none of the worker's leaves its place and the connection.
Quiet ==
  /\ UNCHANGED <<disk, view, intx, ncrash>>
  /\ call'[Worker] = call[Worker]
  /\ queue' = queue \/ \E task \in Task : queue' = Append(queue, task)

\* With asynchronous updates the worker alone executes statements.
LEMMA StepShapes ==
  ASSUME AsyncUpdate, Inv, DataOK, [Next]_vars
  PROVE  Quiet \/ ims_async_work \/ Statement(Worker) \/ Crash
<1>0. /\ call \in [Proc -> [pc : Pc, task : Task \cup {NoTask}, gid : Nat]]
      /\ \A t \in Thread : call[t].pc \in {"idle", "cbk"} /\ t # Worker /\ t \in Proc
      /\ Worker \in Proc
  BY ServerAssumption DEF Inv, CallOK, DataOK, Proc
<1>1. CASE UNCHANGED vars
  BY <1>1 DEF vars, Quiet
<1>2. ASSUME NEW t \in Thread, Fop(t)
      PROVE  Quiet
  <2>1. (\E task : Wind(t, task)) \/ (CountFop /\ UNCHANGED <<call, queue, conn>>)
    BY <1>2, Zenon DEF Fop, ims_create, ims_symlink, ims_mkdir, ims_unlink,
         ims_link, ims_rename, ims_setattr, ims_setxattr
  <2>2. CASE CountFop /\ UNCHANGED <<call, queue, conn>>
    BY <2>2 DEF CountFop, conn, Quiet
  <2>3. ASSUME NEW task, Wind(t, task)
        PROVE  Quiet
    BY <1>0, <2>3 DEF Wind, CountFop, conn, Quiet
  <2> QED
    BY <2>1, <2>2, <2>3
<1>3. ASSUME NEW t \in Thread, Cbk(t)
      PROVE  Quiet
  <2>1. PICK op : Report(t, op)
    BY <1>3 DEF Cbk, insert_new_xdb_entry, unlink_from_xdb, ims_setxattr_cbk,
         ims_setattr_cbk, ims_link_cbk, ims_rename_cbk
  <2>2. call[t].task \in Task
    BY <1>0, <2>1 DEF Report, At, Inv, CallOK, TaskFits
  <2> QED
    BY <1>0, <2>1, <2>2 DEF Report, ims_async_put_task, conn, bound, Quiet
<1>4. ASSUME NEW p \in Proc, Statement(p)
      PROVE  Statement(Worker)
  <2>1. call[p].pc \notin {"idle", "cbk"}
    BY <1>4 DEF Statement, ims_xdb_tx_begin, ims_xdb_tx_commit, ims_xdb_tx_rollback,
         ims_xdb_insert_gfid, ims_xdb_insert_file, get_gid, ims_xdb_insert_stat,
         ims_xdb_update_stat, ims_xdb_setxattr, ims_xdb_link_file,
         ims_xdb_unlink_file, ims_xdb_rename, Warn, At, StatName
  <2> QED
    BY <1>4, <2>1, WorkerOnly
<1>5. ASSUME NEW p \in Proc, Busy(p)
      PROVE  Quiet
  BY <1>5 DEF Busy, Unmoved, bound, Quiet
<1>6. CASE ims_xdb_direct_query
  BY <1>6 DEF ims_xdb_direct_query, conn, bound, Quiet
<1>7. CASE Rest
  BY <1>1, <1>7 DEF Rest
<1> QED
  BY <1>1, <1>2, <1>3, <1>4, <1>5, <1>6, <1>7 DEF Next

\* Where a statement leaves the worker and the databases.
LEMMA StepMoves ==
  ASSUME Inv, NEW r, NEW next, NEW fail, Step(Worker, r, next, fail)
  PROVE  /\ view' = r.db /\ intx' = intx
         /\ disk' = IF intx THEN disk ELSE r.db
         /\ queue' = queue /\ ncrash' = ncrash
         /\ call'[Worker].pc = IF r.ok THEN next ELSE fail
         /\ next # "idle" /\ fail # "idle" =>
              /\ call'[Worker].task = call[Worker].task
              /\ call'[Worker].gid = call[Worker].gid
         /\ call'[Worker].pc # "idle" => call'[Worker].task = call[Worker].task
<1> DEFINE pc == IF r.ok THEN next ELSE fail
<1>1. /\ call \in [Proc -> [pc : Pc, task : Task \cup {NoTask}, gid : Nat]]
      /\ Worker \in Proc
  BY DEF Inv, CallOK, Proc
<1>2. Goto(Worker, pc)
  BY DEF Step
<1>3. /\ view' = r.db /\ intx' = intx
      /\ disk' = IF intx THEN disk ELSE r.db
      /\ queue' = queue /\ ncrash' = ncrash
  BY DEF Step, Unmoved, bound
<1> HIDE DEF pc
<1>4. /\ call'[Worker].pc = pc
      /\ pc # "idle" => /\ call'[Worker].task = call[Worker].task
                        /\ call'[Worker].gid = call[Worker].gid
  BY <1>1, <1>2 DEF Goto, Idle
<1>5. next # "idle" /\ fail # "idle" => pc # "idle"
  BY DEF pc
<1>6. /\ call'[Worker].pc = IF r.ok THEN next ELSE fail
      /\ next # "idle" /\ fail # "idle" =>
           /\ call'[Worker].task = call[Worker].task
           /\ call'[Worker].gid = call[Worker].gid
  BY <1>4, <1>5 DEF pc
<1>7. call'[Worker].pc # "idle" => call'[Worker].task = call[Worker].task
  BY <1>4
<1> QED
  BY <1>3, <1>6, <1>7

-----------------------------------------------------------------------------
(* The stat rows of files, with asynchronous updates.                      *)

\* Strengthening of IndexedWhole.  The worker alone makes a file whole: from
\* INSERT_GFID to INSERT_STAT it is in a transaction, the file without its
\* stat rows is the last one, and get_gid finds that one.  A failure on the
\* way is on its way to ROLLBACK.
WholeOK ==
  LET w      == call[Worker]
      newest == Len(view.xgfid)
  IN  /\ StatRows(disk, Gids(disk))
      /\ w.pc \in {"gfid", "file", "sgid", "stat"} => intx
      /\ w.pc \in {"file", "sgid", "stat"} =>
           /\ StatRows(view, Gids(view) \ {newest})
           /\ GET_GID(view, w.task.gfid) = newest
      /\ w.pc = "stat" => w.gid = newest
      /\ w.pc \notin {"file", "sgid", "stat", "rollback"} => StatRows(view, Gids(view))

\* A statement of the worker keeps the files of disk and view whole when it
\* leaves gids alone and takes no stat row away.
LEMMA StepWhole ==
  ASSUME Inv, WholeOK, NEW r, NEW next, NEW fail, Step(Worker, r, next, fail),
         StatRows(view, Gids(view)), r.db.xgfid = view.xgfid, StatRows(r.db, Gids(view)),
         {next, fail} \cap {"gfid", "file", "sgid", "stat"} = {}
  PROVE  WholeOK'
<1> DEFINE pc == IF r.ok THEN next ELSE fail
<1>1. view' = r.db /\ disk' \in {disk, r.db} /\ call'[Worker].pc = pc
  BY StepMoves
<1>2. pc \notin {"gfid", "file", "sgid", "stat"}
  OBVIOUS
<1> HIDE DEF pc
<1>3. Gids(r.db) = Gids(view)
  BY DEF Gids
<1>4. StatRows(disk', Gids(disk')) /\ StatRows(view', Gids(view'))
  BY <1>1, <1>3 DEF WholeOK
<1> QED
  BY <1>1, <1>2, <1>4 DEF WholeOK

\* The three statements of a new file.
LEMMA InsertWhole ==
  ASSUME Inv, WholeOK,
         \/ ims_xdb_insert_gfid(Worker) \/ ims_xdb_insert_file(Worker)
         \/ get_gid(Worker) \/ ims_xdb_insert_stat(Worker)
  PROVE  WholeOK'
<1> DEFINE w == call[Worker]
           task == w.task
           newest == Len(view.xgfid)
<1>0. /\ call \in [Proc -> [pc : Pc, task : Task \cup {NoTask}, gid : Nat]]
      /\ Worker \in Proc /\ view \in Db /\ newest \in Nat
      /\ TaskFits(w.pc, task)
  BY SMT DEF Inv, CallOK, ConnOK, Grows, Proc, Db
<1>1. CASE ims_xdb_insert_gfid(Worker)
  <2> DEFINE r == INSERT_GFID(view, task.gfid)
  <2>1. w.pc = "gfid" /\ intx /\ StatRows(view, Gids(view)) /\ task.gfid \in Gfid
    BY <1>0, <1>1 DEF ims_xdb_insert_gfid, At, WholeOK, TaskFits, InsertPc, InsertTask
  <2>2. /\ view' = r.db /\ disk' = disk /\ intx'
        /\ call'[Worker].pc = IF r.ok THEN "file" ELSE "rollback"
        /\ call'[Worker].task = task
    <3>1. Step(Worker, r, "file", "rollback")
      BY <1>1 DEF ims_xdb_insert_gfid
    <3>2. /\ view' = r.db /\ disk' = disk /\ intx' = intx
          /\ call'[Worker].pc = IF r.ok THEN "file" ELSE "rollback"
      BY <2>1, <3>1, StepMoves
    <3>3. call'[Worker].task = task
      BY <3>1, StepMoves, SMT
    <3> QED
      BY <2>1, <3>2, <3>3, Zenon
  <2>3. CASE ~r.ok
    BY <2>2, <2>3 DEF WholeOK
  <2>4. CASE r.ok
    <3>1. /\ r.db.xdata = view.xdata /\ Len(r.db.xgfid) = newest + 1
          /\ GET_GID(r.db, task.gfid) = Len(r.db.xgfid)
      BY <1>0, <2>1, <2>4, InsertedGfid
    <3>2. Gids(r.db) \ {Len(r.db.xgfid)} = Gids(view)
      BY <1>0, <3>1, SMT DEF Gids
    <3>3. StatRows(r.db, Gids(r.db) \ {Len(r.db.xgfid)})
      BY <2>1, <3>1, <3>2 DEF StatRows
    <3> HIDE DEF r
    <3> QED
      BY <2>2, <2>4, <3>1, <3>3 DEF WholeOK
  <2> QED
    BY <2>3, <2>4
<1>2. CASE ims_xdb_insert_file(Worker)
  <2> DEFINE r == INSERT_FILE(view, task.gfid, task.path)
  <2>1. /\ w.pc = "file" /\ intx /\ StatRows(view, Gids(view) \ {newest})
        /\ GET_GID(view, task.gfid) = newest
    BY <1>2 DEF ims_xdb_insert_file, At, WholeOK
  <2>2. /\ view' = r.db /\ disk' = disk /\ intx'
        /\ call'[Worker].pc = IF r.ok THEN "sgid" ELSE "rollback"
        /\ call'[Worker].task = task
    <3>1. Step(Worker, r, "sgid", "rollback")
      BY <1>2 DEF ims_xdb_insert_file
    <3>2. /\ view' = r.db /\ disk' = disk /\ intx' = intx
          /\ call'[Worker].pc = IF r.ok THEN "sgid" ELSE "rollback"
      BY <2>1, <3>1, StepMoves
    <3>3. call'[Worker].task = task
      BY <3>1, StepMoves, SMT
    <3> QED
      BY <2>1, <3>2, <3>3, Zenon
  <2>3. r.db.xgfid = view.xgfid /\ r.db.xdata = view.xdata
    BY <1>0, FileLeavesRows, SMT
  <2>4. GET_GID(r.db, task.gfid) = Len(r.db.xgfid)
    BY <2>1, <2>3, GetGidSame, ZenonT(40)
  <2>5. StatRows(r.db, Gids(r.db) \ {Len(r.db.xgfid)})
    BY <2>1, <2>3 DEF StatRows, Gids
  <2> HIDE DEF r
  <2>6. call'[Worker].pc \in {"sgid", "rollback"}
    BY <2>2
  <2> QED
    BY <2>2, <2>4, <2>5, <2>6 DEF WholeOK
<1>3. CASE get_gid(Worker)
  <2> DEFINE gid == GET_GID(view, task.gfid)
  <2>1. UNCHANGED <<disk, view, intx>>
    BY <1>3 DEF get_gid, conn
  <2>2. call'[Worker].task = task /\ call'[Worker].gid = gid
    BY <1>0, <1>3, ZenonT(40) DEF get_gid
  <2>3. CASE w.pc = "sgid"
    <3>1. call'[Worker].pc \in {"rollback", "stat"}
      BY <1>0, <1>3, <2>3, SMT DEF get_gid, At
    <3> QED
      BY <2>1, <2>2, <2>3, <3>1 DEF WholeOK
  <2>4. CASE w.pc = "ugid"
    <3>1. call'[Worker].pc \in {"warn", "ubegin"}
      BY <1>0, <1>3, <2>4, SMT DEF get_gid, At
    <3> QED
      BY <2>1, <2>2, <2>4, <3>1 DEF WholeOK
  <2> QED
    BY <1>3, <2>3, <2>4 DEF get_gid, At
<1>4. CASE ims_xdb_insert_stat(Worker)
  <2> DEFINE r == INSERT_STAT(view, w.gid, task.sb)
  <2>1. /\ w.pc = "stat" /\ intx /\ StatRows(view, Gids(view) \ {newest})
        /\ w.gid = newest /\ task.sb \in Stat
    BY <1>0, <1>4 DEF ims_xdb_insert_stat, At, WholeOK, TaskFits, InsertPc, InsertTask
  <2>2. /\ view' = r.db /\ disk' = disk
        /\ call'[Worker].pc = IF r.ok THEN "commit" ELSE "rollback"
    BY <1>4, <2>1, StepMoves DEF ims_xdb_insert_stat
  <2>3. CASE ~r.ok
    BY <2>2, <2>3 DEF WholeOK
  <2>4. CASE r.ok
    <3> DEFINE gids == Gids(view) \ {newest}
    <3>1. StatRows(view, gids)
      BY <2>1
    <3> HIDE DEF gids
    <3>2. r.db.xgfid = view.xgfid /\ StatRows(r.db, gids \cup {w.gid})
      BY <1>0, <2>1, <2>4, <3>1, StatCompletes
    <3>3. StatRows(r.db, Gids(r.db))
      BY <2>1, <3>2 DEF StatRows, Gids, gids
    <3> HIDE DEF r
    <3> QED
      BY <2>2, <2>4, <3>3 DEF WholeOK
  <2> QED
    BY <2>3, <2>4
<1> QED
  BY <1>1, <1>2, <1>3, <1>4

\* With asynchronous updates every step keeps WholeOK.
LEMMA WholeNext ==
  ASSUME AsyncUpdate, Inv, DataOK, WholeOK, [Next]_vars
  PROVE  WholeOK'
<1> DEFINE w == call[Worker]
           task == w.task
<1>0. /\ call \in [Proc -> [pc : Pc, task : Task \cup {NoTask}, gid : Nat]]
      /\ Worker \in Proc /\ view \in Db
      /\ TaskFits(w.pc, task)
  BY DEF Inv, CallOK, ConnOK, Grows, Proc
<1>1. CASE Quiet
  BY <1>1 DEF Quiet, WholeOK
<1>2. CASE ims_async_work
  <2>1. /\ w.pc = "idle" /\ UNCHANGED <<disk, view, intx>>
        /\ call'[Worker].pc = Entry(Head(queue))
    BY <1>0, <1>2 DEF ims_async_work, conn, At
  <2>2. Head(queue) \in Task
    BY <1>2, SMT DEF ims_async_work, Inv, CallOK
  <2>3. Entry(Head(queue)) \notin {"gfid", "file", "sgid", "stat"}
    BY <2>2 DEF Entry, Task, InsertTask, UnlinkTask, UpdateTask, LinkTask,
                RenameTask, XattrTask
  <2> QED
    BY <2>1, <2>3 DEF WholeOK
<1>3. CASE Crash
  BY <1>0, <1>3 DEF Crash, Idle, WholeOK
<1>4. CASE ims_xdb_tx_begin(Worker)
  <2>1. /\ call'[Worker].pc \notin {"file", "sgid", "stat"}
        /\ intx' /\ UNCHANGED <<disk, view>>
        /\ w.pc \in {"begin", "ubegin", "xbegin"}
    BY <1>0, <1>4 DEF ims_xdb_tx_begin, Goto, At
  <2> QED
    BY <2>1 DEF WholeOK
<1>5. CASE ims_xdb_tx_commit(Worker) \/ Warn(Worker)
  <2>1. /\ w.pc \in {"commit", "warn"} /\ call'[Worker].pc = "idle"
        /\ disk' \in {disk, view} /\ view' = view
    BY <1>0, <1>5, SMT DEF ims_xdb_tx_commit, Warn, Goto, At, conn, Idle
  <2> QED
    BY <2>1 DEF WholeOK
<1>6. CASE ims_xdb_tx_rollback(Worker)
  <2>1. call'[Worker].pc = "warn" /\ disk' = disk /\ view' = disk
    BY <1>0, <1>6 DEF ims_xdb_tx_rollback, Goto
  <2> QED
    BY <2>1 DEF WholeOK
<1>7. CASE ims_xdb_update_stat(Worker)
  <2>1. PICK name \in StatName :
          /\ At(Worker, name)
          /\ Step(Worker, UPDATE_STAT(view, w.gid, name, task.sb[name]),
                  NextStat(name), "rollback")
    BY <1>7 DEF ims_xdb_update_stat
  <2>2. task.sb[name] \in Val
    BY <1>0, <2>1 DEF At, TaskFits, UpdatePc, UpdateTask, Stat
  <2>3. StatRows(view, Gids(view))
    BY <2>1 DEF At, StatName, WholeOK
  <2>4. {NextStat(name), "rollback"} \cap {"gfid", "file", "sgid", "stat"} = {}
    BY DEF NextStat, StatName
  <2> QED
    BY <1>0, <2>1, <2>2, <2>3, <2>4, UpdateLeavesRows, StepWhole, SMT
<1>8. CASE ims_xdb_setxattr(Worker)
  <2>1. task \in XattrTask /\ StatRows(view, Gids(view))
    BY <1>0, <1>8 DEF ims_xdb_setxattr, At, TaskFits, XattrPc, WholeOK
  <2>2. CASE Step(Worker, INSERT_XNAME(view, task.name), "xdata", "rollback")
    <3>1. /\ INSERT_XNAME(view, task.name).db.xgfid = view.xgfid
          /\ StatRows(INSERT_XNAME(view, task.name).db, Gids(view))
      BY <1>0, <2>1, FileLeavesRows DEF StatRows
    <3> QED
      BY <2>1, <2>2, <3>1, StepWhole, SMT
  <2>3. CASE Step(Worker, INSERT_XDATA(view, task.gfid, task.name, task.val),
                  "commit", "rollback")
    <3>1. task.name \in XName
      BY <2>1 DEF XattrTask
    <3> QED
      BY <1>0, <2>1, <2>3, <3>1, XdataLeavesRows, StepWhole, SMT
  <2> QED
    BY <1>8, <2>2, <2>3 DEF ims_xdb_setxattr
<1>9. CASE ims_xdb_link_file(Worker) \/ ims_xdb_unlink_file(Worker) \/ ims_xdb_rename(Worker)
  <2>1. PICK r : /\ Step(Worker, r, "idle", "warn")
                 /\ r.db.xgfid = view.xgfid /\ r.db.xdata = view.xdata
    BY <1>0, <1>9, FileLeavesRows, SMT
       DEF ims_xdb_link_file, ims_xdb_unlink_file, ims_xdb_rename
  <2>2. StatRows(view, Gids(view))
    BY <1>9 DEF ims_xdb_link_file, ims_xdb_unlink_file, ims_xdb_rename, At, WholeOK
  <2>3. StatRows(r.db, Gids(view))
    BY <2>1, <2>2 DEF StatRows
  <2> QED
    BY <2>1, <2>2, <2>3, StepWhole
<1> QED
  BY <1>1, <1>2, <1>3, <1>4, <1>5, <1>6, <1>7, <1>8, <1>9, InsertWhole, StepShapes
     DEF Statement

\* With asynchronous updates every file that a query can see has all its stat
\* rows, for any number of threads, files, queries and crashes: INSERT_GFID,
\* INSERT_FILE and INSERT_STAT of ims_xdb_insert_new_file are committed together
\* and nobody else commits in between.
THEOREM FilesWhole ==
  ASSUME AsyncUpdate
  PROVE  Spec => []IndexedWhole
<1>1. Init => DataOK /\ WholeOK
  <2> SUFFICES ASSUME Init PROVE DataOK /\ WholeOK
    OBVIOUS
  <2>1. DataOK
    BY EmptyDb, ServerAssumption DEF Init, DataOK, Idle, Proc
  <2>2. Gids(db_initialize) = {}
    BY SMT DEF Gids, db_initialize
  <2>3. WholeOK
    BY <2>2 DEF Init, WholeOK, Idle, Proc, StatRows
  <2> QED
    BY <2>1, <2>3
<1>2. Inv /\ DataOK /\ WholeOK /\ [Next]_vars => (DataOK /\ WholeOK)'
  BY DataNext, WholeNext
<1>3. WholeOK => IndexedWhole
  BY DEF WholeOK, IndexedWhole, StatRows
<1> QED
  BY <1>1, <1>2, <1>3, Invariance, PTL DEF Spec

-----------------------------------------------------------------------------
(* ImsAsyncIndex implements ImsIndex.                                      *)

\* A database in which the stat fields fields of a file have been updated.
Updated(db, gid, sb, fields) ==
  [db EXCEPT !.xdata = {IF row[1] = gid /\ row[2] \in fields
                        THEN <<gid, row[2], sb[row[2]]>>
                        ELSE row : row \in @}]

\* The stat fields that ims_xdb_update_stat writes before the field name.
Earlier(name) ==
  CASE name = "st_mode"  -> {}
    [] name = "st_uid"   -> {"st_mode"}
    [] name = "st_size"  -> {"st_mode", "st_uid"}
    [] name = "st_mtime" -> {"st_mode", "st_uid", "st_size"}

\* How far the worker has come with its task, from the database base that it
\* started on.
Progress ==
  LET w    == call[Worker]
      task == w.task
      a    == INSERT_GFID(base, task.gfid)
      b    == INSERT_FILE(a.db, task.gfid, task.path)
      r    == Effect(base, task, StatName)
  IN  /\ base \in Db
      /\ w.pc \in {"idle", "begin", "xbegin", "ugid", "ubegin", "gfid", "xname"}
                    \cup SinglePc => view = base
      /\ w.pc \in TxPc \ {"rollback"} => intx
      /\ w.pc = "file" => a.ok /\ view = a.db
      /\ w.pc \in {"sgid", "stat"} => a.ok /\ b.ok /\ view = b.db
      /\ w.pc = "stat" => w.gid = GET_GID(view, task.gfid)
      /\ w.pc = "xdata" => view = INSERT_XNAME(base, task.name).db
      /\ w.pc \in StatName \cup {"ubegin"} =>
           w.gid = GET_GID(base, task.gfid) /\ w.gid # 0
      /\ w.pc \in StatName => view = Updated(base, w.gid, task.sb, Earlier(w.pc))
      /\ w.pc = "commit" => r.ok /\ view = r.db
      /\ w.pc = "rollback" => ~r.ok /\ task.op \in {"insert", "xattr"}
      /\ w.pc = "warn" =>
           /\ ~r.ok
           /\ view = IF task.op \in {"insert", "xattr"} THEN disk ELSE base

-----------------------------------------------------------------------------
(* The statements of ImsIndex are those of the server.                     *)

LEMMA SameStatName == Index!StatName = StatName
BY DEF Index!StatName, StatName

LEMMA SameGetGid ==
  ASSUME NEW db, NEW gfid
  PROVE  Index!GET_GID(db, gfid) = GET_GID(db, gfid)
BY DEF Index!GET_GID, GET_GID, Index!Gids, Gids

LEMMA SameInsertGfid ==
  ASSUME NEW db, NEW gfid
  PROVE  Index!INSERT_GFID(db, gfid) = INSERT_GFID(db, gfid)
BY SameGetGid DEF Index!INSERT_GFID, INSERT_GFID, Index!Done, Done, Index!Constraint, Constraint

LEMMA SameInsertFile ==
  ASSUME NEW db, NEW gfid, NEW path
  PROVE  Index!INSERT_FILE(db, gfid, path) = INSERT_FILE(db, gfid, path)
BY SameGetGid DEF Index!INSERT_FILE, INSERT_FILE, Index!Done, Done, Index!Constraint, Constraint

LEMMA SameInsertStat ==
  ASSUME NEW db, NEW gid, NEW sb
  PROVE  Index!INSERT_STAT(db, gid, sb) = INSERT_STAT(db, gid, sb)
BY DEF Index!INSERT_STAT, INSERT_STAT, Index!Rows, Rows, Index!StatName, StatName,
       Index!Done, Done, Index!Constraint, Constraint

LEMMA SameXattr ==
  ASSUME NEW db, NEW gfid, NEW name, NEW val
  PROVE  /\ Index!INSERT_XNAME(db, name) = INSERT_XNAME(db, name)
         /\ Index!INSERT_XDATA(db, gfid, name, val) = INSERT_XDATA(db, gfid, name, val)
BY SameGetGid DEF Index!INSERT_XNAME, INSERT_XNAME, Index!INSERT_XDATA, INSERT_XDATA,
   Index!Rows, Rows, Index!Done, Done, Index!Constraint, Constraint

LEMMA SameMoves ==
  ASSUME NEW db, NEW path, NEW new
  PROVE  /\ Index!UNLINK_FILE(db, path) = UNLINK_FILE(db, path)
         /\ Index!RENAME(db, path, new) = RENAME(db, path, new)
BY DEF Index!UNLINK_FILE, UNLINK_FILE, Index!RENAME, RENAME, Index!Done, Done,
       Index!Constraint, Constraint

LEMMA SameEffect ==
  ASSUME NEW db, NEW task, NEW fields
  PROVE  Index!Effect(db, task, fields) = Effect(db, task, fields)
BY SameGetGid, SameInsertGfid, SameInsertFile, SameInsertStat, SameXattr, SameMoves
   DEF Index!Effect, Effect, Index!Done, Done, Index!Constraint, Constraint

-----------------------------------------------------------------------------
(* ims_xdb_update_stat writes one field after the other; together that is  *)
(* the update of all fields.                                               *)

NewRow(row, gid, sb, fields) ==
  IF row[1] = gid /\ row[2] \in fields THEN <<gid, row[2], sb[row[2]]>> ELSE row

LEMMA UpdatedRows ==
  ASSUME NEW db \in Db, NEW gid, NEW sb, NEW fields
  PROVE  LET new == Updated(db, gid, sb, fields)
         IN  /\ new.xdata = {NewRow(row, gid, sb, fields) : row \in db.xdata}
             /\ new = [db EXCEPT !.xdata = {NewRow(row, gid, sb, fields) : row \in db.xdata}]
BY DEF Updated, NewRow, Db

LEMMA UpdatedNone ==
  ASSUME NEW db \in Db, NEW gid, NEW sb
  PROVE  Updated(db, gid, sb, {}) = db
<1>1. {NewRow(row, gid, sb, {}) : row \in db.xdata} = db.xdata
  BY DEF NewRow
<1>2. db = [db EXCEPT !.xdata = db.xdata]
  BY DEF Db
<1>3. Updated(db, gid, sb, {})
        = [db EXCEPT !.xdata = {NewRow(row, gid, sb, {}) : row \in db.xdata}]
  BY DEF Updated, NewRow
<1> QED
  BY <1>1, <1>2, <1>3

LEMMA UpdatedOne ==
  ASSUME NEW db \in Db, NEW gid, NEW sb, NEW fields, NEW name, name \notin fields
  PROVE  UPDATE_STAT(Updated(db, gid, sb, fields), gid, name, sb[name])
           = Done(Updated(db, gid, sb, fields \cup {name}))
<1> DEFINE Now(row) == NewRow(row, gid, sb, fields)
           Then(row) == NewRow(row, gid, sb, fields \cup {name})
           now  == {Now(row) : row \in db.xdata}
           then == {Then(row) : row \in db.xdata}
           mid  == [db EXCEPT !.xdata = now]
           end  == [db EXCEPT !.xdata = then]
           old  == {row \in now : row[1] = gid /\ row[2] \in {name}}
           one  == <<gid, name, sb[name]>>
<1>1. /\ Updated(db, gid, sb, fields) = mid /\ Updated(db, gid, sb, fields \cup {name}) = end
      /\ mid.xdata = now
      /\ [mid EXCEPT !.xdata = then] = end
  BY UpdatedRows DEF Updated, NewRow, Db
<1>2. Rows(mid, gid, {name}) = old
  BY <1>1 DEF Rows
<1>3. \A row \in db.xdata : Now(row)[1] = row[1] /\ Now(row)[2] = row[2]
  BY DEF Db, NewRow
<1>4. \A row \in db.xdata : ~(row[1] = gid /\ row[2] = name) => Then(row) = Now(row)
  BY DEF NewRow
<1>5. \A row \in db.xdata : row[1] = gid /\ row[2] = name => Then(row) = one
  BY DEF NewRow
<1> HIDE DEF Now, Then
<1>6. CASE old = {}
  <2>1. \A row \in db.xdata : ~(row[1] = gid /\ row[2] = name)
    BY <1>3, <1>6
  <2>2. then = now
    BY <1>4, <2>1
  <2>3. end = mid
    BY <2>2
  <2>4. UPDATE_STAT(mid, gid, name, sb[name]) = Done(mid)
    BY <1>2, <1>6 DEF UPDATE_STAT
  <2> QED
    BY <1>1, <2>3, <2>4
<1>7. CASE old # {}
  <2>1. PICK some \in db.xdata : some[1] = gid /\ some[2] = name
    BY <1>3, <1>7, SMT
  <2>2. ASSUME NEW row \in db.xdata PROVE Then(row) \in (now \ old) \cup {one}
    BY <1>3, <1>4, <1>5
  <2>3. one \in then
    BY <1>5, <2>1
  <2>4. ASSUME NEW row \in db.xdata, Now(row) \notin old PROVE Now(row) \in then
    <3>1. ~(row[1] = gid /\ row[2] = name)
      BY <1>3, <2>4
    <3> QED
      BY <1>4, <3>1
  <2>5. (now \ old) \cup {one} = then
    BY <2>2, <2>3, <2>4
  <2>6. UPDATE_STAT(mid, gid, name, sb[name]) = Done([mid EXCEPT !.xdata = (mid.xdata \ old) \cup {one}])
    BY <1>2, <1>7 DEF UPDATE_STAT
  <2>7. (mid.xdata \ old) \cup {one} = then
    BY <1>1, <2>5
  <2> HIDE DEF old, one, then, mid, end
  <2> QED
    BY <1>1, <2>6, <2>7
<1> QED
  BY <1>6, <1>7

LEMMA UpdatedAll ==
  ASSUME NEW db \in Db, NEW task, task.op = "update", GET_GID(db, task.gfid) # 0
  PROVE  Effect(db, task, StatName)
           = Done(Updated(db, GET_GID(db, task.gfid), task.sb, StatName))
BY DEF Effect, Updated

-----------------------------------------------------------------------------
(* The queue.                                                              *)

\* Taking the first of a queue.
LEMMA ConcatFirst ==
  ASSUME NEW S, NEW e \in S, NEW q \in Seq(S)
  PROVE  /\ <<e>> \o q # << >>
         /\ Head(<<e>> \o q) = e
         /\ Tail(<<e>> \o q) = q
BY SMT

LEMMA FirstConcat ==
  ASSUME NEW S, NEW q \in Seq(S), q # << >>
  PROVE  <<Head(q)>> \o Tail(q) = q
BY SMT

LEMMA ConcatAppend ==
  ASSUME NEW S, NEW s \in Seq(S), NEW q \in Seq(S), NEW e \in S
  PROVE  s \o Append(q, e) = Append(s \o q, e)
BY SMT

LEMMA ConcatNone ==
  ASSUME NEW S, NEW q \in Seq(S)
  PROVE  << >> \o q = q /\ q \o << >> = q
BY SMT

-----------------------------------------------------------------------------
(* Steps.                                                                  *)

\* The history variable follows the view whenever the worker is idle.
Follows == base' = IF call'[Worker].pc = "idle" THEN view' ELSE base

\* A step or a stutter of ImsIndex.
Maps == Index!IndexNext \/ UNCHANGED <<Todo, base, disk, ncrash>>

\* The types that the steps below rely on.
LEMMA WorkerTypes ==
  ASSUME Inv
  PROVE  /\ call \in [Proc -> [pc : Pc, task : Task \cup {NoTask}, gid : Nat]]
         /\ Worker \in Proc
         /\ queue \in Seq(Task \cup {NoTask})
         /\ call[Worker].task \in Task \cup {NoTask}
         /\ view \in Db /\ disk \in Db
         /\ TaskFits(call[Worker].pc, call[Worker].task)
<1>1. /\ call \in [Proc -> [pc : Pc, task : Task \cup {NoTask}, gid : Nat]]
      /\ Worker \in Proc /\ queue \in Seq(Task) /\ view \in Db /\ disk \in Db
      /\ TaskFits(call[Worker].pc, call[Worker].task)
  BY DEF Inv, CallOK, ConnOK, Grows, Proc
<1>2. queue \in Seq(Task \cup {NoTask})
  BY <1>1, SMT
<1> QED
  BY <1>1, <1>2

\* The worker goes on with its task: nothing happens in ImsIndex.
LEMMA GoesOn ==
  ASSUME Follows, call[Worker].pc # "idle", call'[Worker].pc # "idle",
         call'[Worker].task = call[Worker].task, UNCHANGED <<queue, disk, ncrash>>
  PROVE  base' = base /\ Maps
BY DEF Follows, Maps, Todo, At

\* The worker is done with its task.
LEMMA IsDone ==
  ASSUME Inv, Progress, Follows, call[Worker].pc # "idle", call'[Worker].pc = "idle",
         UNCHANGED <<queue, ncrash>>,
         NEW r, r = Effect(base, call[Worker].task, StatName),
         \/ r.ok /\ view' = r.db /\ disk' \in {disk, r.db}
         \/ /\ ~r.ok /\ disk' = disk
            /\ view' = IF call[Worker].task.op \in {"insert", "xattr"} THEN disk ELSE base
  PROVE  base' = view' /\ Maps
<1> DEFINE task == call[Worker].task
<1>1. base' = view'
  BY DEF Follows
<1>2. /\ Todo = <<task>> \o queue
      /\ Todo' = << >> \o queue
  BY DEF Todo, At
<1>3. queue \in Seq(Task \cup {NoTask}) /\ task \in Task \cup {NoTask}
  BY WorkerTypes
<1>4. << >> \o queue = queue
  BY <1>3, ConcatNone
<1>5. /\ Todo # << >> /\ Head(Todo) = task /\ Todo' = Tail(Todo)
  BY <1>2, <1>3, <1>4, ConcatFirst, SMT
<1>6. Index!Effect(base, Head(Todo), Index!StatName) = r
  BY <1>5, SameEffect, SameStatName
<1>7. Index!CarriedOut
  BY <1>1, <1>5, <1>6 DEF Index!CarriedOut, Index!Transactional
<1> QED
  BY <1>1, <1>7 DEF Maps, Index!IndexNext

\* Progress is about the worker, the two images of its database and the base only.
LEMMA SameProgress ==
  ASSUME Progress, call'[Worker] = call[Worker], UNCHANGED <<disk, view, intx, base>>
  PROVE  Progress'
BY ZenonT(60) DEF Progress

\* Threads, callbacks and queries.
LEMMA QuietMaps ==
  ASSUME Inv, Progress, Follows, Quiet
  PROVE  Progress' /\ Maps
<1>1. UNCHANGED <<disk, view, intx, ncrash>> /\ call'[Worker] = call[Worker]
  BY DEF Quiet
<1>2. base' = base
  BY <1>1 DEF Follows, Progress
<1>3. Progress'
  BY <1>1, <1>2, SameProgress
<1>4. Maps
  <2>1. CASE queue' = queue
    BY <1>1, <1>2, <2>1 DEF Maps, Todo, At
  <2>2. ASSUME NEW task \in Task, queue' = Append(queue, task)
        PROVE  Maps
    <3> DEFINE S == Task \cup {NoTask}
               first == IF At(Worker, "idle") THEN << >> ELSE <<call[Worker].task>>
    <3>1. queue \in Seq(S) /\ call[Worker].task \in S
      BY WorkerTypes
    <3>2. first \in Seq(S) /\ task \in S
      <4>1. task \in S
        OBVIOUS
      <4> HIDE DEF S
      <4>2. << >> \in Seq(S) /\ <<call[Worker].task>> \in Seq(S)
        BY <3>1, SMT
      <4> QED
        BY <4>1, <4>2
    <3>3. Todo = first \o queue /\ Todo' = first \o Append(queue, task)
      BY <1>1, <2>2 DEF Todo, At
    <3> HIDE DEF first, S
    <3>4. Todo' = Append(Todo, task)
      BY <3>1, <3>2, <3>3, ConcatAppend, SMT
    <3>5. task \in Index!Task
      BY Zenon DEF Index!Task, Index!InsertTask, Index!UnlinkTask, Index!UpdateTask,
             Index!LinkTask, Index!RenameTask, Index!XattrTask, Index!Stat,
             Index!StatName, Task, InsertTask, UnlinkTask, UpdateTask, LinkTask,
             RenameTask, XattrTask, Stat, StatName
    <3>6. Index!Reported
      BY <1>1, <1>2, <3>4, <3>5 DEF Index!Reported
    <3> QED
      BY <3>6 DEF Maps, Index!IndexNext
  <2> QED
    BY <2>1, <2>2 DEF Quiet
<1> QED
  BY <1>3, <1>4

\* The worker takes a task: it is still to be carried out.
LEMMA WorkMaps ==
  ASSUME Inv, Progress, Follows, ims_async_work
  PROVE  Progress' /\ Maps
<1> DEFINE entry == Entry(Head(queue))
<1>1. /\ call[Worker].pc = "idle" /\ queue # << >> /\ queue' = Tail(queue)
      /\ UNCHANGED <<disk, view, intx, ncrash>>
      /\ call'[Worker].pc = entry /\ call'[Worker].task = Head(queue)
  BY WorkerTypes DEF ims_async_work, At, conn, bound
<1>2. Head(queue) \in Task
  BY <1>1, SMT DEF Inv, CallOK
<1>3. entry \in {"begin", "ugid", "xbegin", "link", "unlink", "rename"}
  BY <1>2 DEF Entry, Task, InsertTask, UnlinkTask, UpdateTask, LinkTask,
              RenameTask, XattrTask
<1> HIDE DEF entry
<1>4. base' = base /\ view = base /\ base \in Db
  BY <1>1, <1>3 DEF Follows, Progress
<1>5. Progress'
  BY <1>1, <1>3, <1>4 DEF Progress, SinglePc, TxPc, StatName
<1>6. Todo' = Todo
  <2>1. queue \in Seq(Task \cup {NoTask})
    BY WorkerTypes
  <2>2. Todo = << >> \o queue /\ Todo' = <<Head(queue)>> \o Tail(queue)
    BY <1>1, <1>3 DEF Todo, At
  <2> QED
    BY <1>1, <2>1, <2>2, ConcatNone, FirstConcat
<1> QED
  BY <1>1, <1>4, <1>5, <1>6 DEF Maps

LEMMA CrashMaps ==
  ASSUME Inv, Progress, Follows, Crash
  PROVE  Progress' /\ Maps
<1>1. /\ call'[Worker] = Idle /\ queue' = << >> /\ view' = disk /\ disk' = disk
      /\ ncrash' = ncrash + 1 /\ disk \in Db
  BY WorkerTypes DEF Crash
<1>2. call'[Worker].pc = "idle" /\ base' = disk
  <2>1. Idle.pc = "idle"
    BY DEF Idle
  <2>2. call'[Worker].pc = "idle"
    BY <1>1, <2>1
  <2> QED
    BY <1>1, <2>2 DEF Follows
<1>3. Progress'
  <2>1. call'[Worker].pc \notin TxPc \cup StatName \cup {"ubegin", "warn"}
    BY <1>2 DEF TxPc, StatName
  <2> QED
    BY <1>1, <1>2, <2>1 DEF Progress, TxPc
<1>4. Todo' = << >>
  BY <1>1, SMT DEF Todo, At, Idle
<1> QED
  BY <1>1, <1>2, <1>3, <1>4 DEF Maps, Index!IndexNext, Index!Lost

\* What a task does as a whole, by its opcode.
LEMMA InsertEffect ==
  ASSUME NEW db, NEW task, task.op = "insert", NEW a, NEW b,
         a = INSERT_GFID(db, task.gfid), b = INSERT_FILE(a.db, task.gfid, task.path)
  PROVE  Effect(db, task, StatName)
           = IF a.ok THEN IF b.ok THEN INSERT_STAT(b.db, GET_GID(b.db, task.gfid), task.sb)
                          ELSE b
             ELSE a
BY DEF Effect

LEMMA XattrEffect ==
  ASSUME NEW db, NEW task, task.op = "xattr"
  PROVE  Effect(db, task, StatName)
           = INSERT_XDATA(INSERT_XNAME(db, task.name).db, task.gfid, task.name, task.val)
BY DEF Effect

LEMMA SingleEffect ==
  ASSUME NEW db, NEW task
  PROVE  /\ task.op = "link" =>
              Effect(db, task, StatName) = INSERT_FILE(db, task.gfid, task.path)
         /\ task.op = "unlink" =>
              Effect(db, task, StatName) = UNLINK_FILE(db, task.path)
         /\ task.op = "rename" =>
              Effect(db, task, StatName) = RENAME(db, task.path, task.extra)
BY DEF Effect

\* BEGIN, END, ROLLBACK and the log of a failure.
LEMMA TxMaps ==
  ASSUME AsyncUpdate, Inv, Progress, Follows,
         \/ ims_xdb_tx_begin(Worker) \/ ims_xdb_tx_commit(Worker)
         \/ ims_xdb_tx_rollback(Worker) \/ Warn(Worker)
  PROVE  Progress' /\ Maps
<1> DEFINE w == call[Worker]
           task == w.task
           r == Effect(base, task, StatName)
<1>0. /\ call \in [Proc -> [pc : Pc, task : Task \cup {NoTask}, gid : Nat]]
      /\ Worker \in Proc /\ base \in Db /\ view \in Db
  BY WorkerTypes DEF Progress
<1>1. CASE ims_xdb_tx_begin(Worker)
  <2>1. /\ UNCHANGED <<disk, view, queue, ncrash>> /\ intx'
        /\ call'[Worker].task = task /\ call'[Worker].gid = w.gid
    BY <1>0, <1>1 DEF ims_xdb_tx_begin, Goto, Unmoved, bound
  <2>2. \/ w.pc = "begin" /\ call'[Worker].pc = "gfid"
        \/ w.pc = "ubegin" /\ call'[Worker].pc = "st_mode"
        \/ w.pc = "xbegin" /\ call'[Worker].pc = "xname"
    BY <1>0, <1>1 DEF ims_xdb_tx_begin, Goto, At
  <2>3. base' = base /\ Maps
    BY <2>1, <2>2, GoesOn
  <2>4. view = base
    BY <2>2 DEF Progress
  <2>5. CASE w.pc = "ubegin"
    <3>1. w.gid = GET_GID(base, task.gfid) /\ w.gid # 0
      BY <2>5 DEF Progress
    <3>2. call'[Worker].pc = "st_mode" /\ Earlier("st_mode") = {}
      BY <2>2, <2>5 DEF Earlier
    <3>3. view = Updated(base, w.gid, task.sb, Earlier("st_mode"))
      BY <1>0, <2>4, <3>2, UpdatedNone
    <3> QED
      BY <1>0, <2>1, <2>3, <3>1, <3>2, <3>3 DEF Progress, SinglePc, TxPc, StatName
  <2>6. CASE w.pc # "ubegin"
    <3>1. call'[Worker].pc \in {"gfid", "xname"}
      BY <2>2, <2>6
    <3>2. Progress'
      BY <1>0, <2>1, <2>3, <2>4, <3>1 DEF Progress, SinglePc, TxPc, StatName
    <3> QED
      BY <2>3, <3>2
  <2> QED
    BY <2>5, <2>6
<1>2. CASE ims_xdb_tx_commit(Worker)
  <2>1. /\ w.pc = "commit" /\ call'[Worker].pc = "idle"
        /\ view' = view /\ disk' \in {disk, view} /\ UNCHANGED <<queue, ncrash>>
    BY <1>0, <1>2 DEF ims_xdb_tx_commit, Goto, At, Idle, conn, Unmoved, bound
  <2>2. r.ok /\ view = r.db
    BY <2>1 DEF Progress
  <2> HIDE DEF r
  <2>3. base' = view' /\ Maps
    BY <2>1, <2>2, IsDone DEF r
  <2>4. Progress'
    BY <1>0, <2>1, <2>3 DEF Progress, SinglePc, TxPc, StatName
  <2> QED
    BY <2>3, <2>4
<1>3. CASE ims_xdb_tx_rollback(Worker)
  <2>1. /\ w.pc = "rollback" /\ call'[Worker].pc = "warn" /\ call'[Worker].task = task
        /\ view' = disk /\ UNCHANGED <<disk, queue, ncrash>>
    BY <1>0, <1>3 DEF ims_xdb_tx_rollback, Goto, At, Unmoved, bound
  <2>2. base' = base /\ Maps
    BY <2>1, GoesOn
  <2>3. ~r.ok /\ task.op \in {"insert", "xattr"}
    BY <2>1 DEF Progress
  <2> HIDE DEF r
  <2>4. Progress'
    BY <1>0, <2>1, <2>2, <2>3 DEF Progress, SinglePc, TxPc, StatName, r
  <2> QED
    BY <2>2, <2>4
<1>4. CASE Warn(Worker)
  <2>1. /\ w.pc = "warn" /\ call'[Worker].pc = "idle"
        /\ UNCHANGED <<view, disk, queue, ncrash>>
    BY <1>0, <1>4 DEF Warn, Goto, At, Idle, conn, Unmoved, bound
  <2>2. ~r.ok /\ view = IF task.op \in {"insert", "xattr"} THEN disk ELSE base
    BY <2>1 DEF Progress
  <2> HIDE DEF r
  <2>3. base' = view' /\ Maps
    BY <2>1, <2>2, IsDone DEF r
  <2>4. Progress'
    BY <1>0, <2>1, <2>3 DEF Progress, SinglePc, TxPc, StatName
  <2> QED
    BY <2>3, <2>4
<1> QED
  BY <1>1, <1>2, <1>3, <1>4

\* link, unlink and rename: one statement is the whole task.
LEMMA SingleMaps ==
  ASSUME Inv, Progress, Follows, view' \in Db,
         \/ ims_xdb_link_file(Worker) \/ ims_xdb_unlink_file(Worker)
         \/ ims_xdb_rename(Worker)
  PROVE  Progress' /\ Maps
<1> DEFINE w == call[Worker]
           task == w.task
           r == Effect(base, task, StatName)
<1>0. /\ view \in Db /\ base \in Db /\ TaskFits(w.pc, task)
      /\ w.pc \in SinglePc /\ view = base
  BY WorkerTypes DEF Progress, ims_xdb_link_file, ims_xdb_unlink_file, ims_xdb_rename,
     At, SinglePc
<1>1. /\ Step(Worker, r, "idle", "warn")
      /\ task.op \notin {"insert", "xattr"}
      /\ r.ok \/ r.db = base
  <2>1. CASE ims_xdb_link_file(Worker)
    <3>1. task.op = "link"
      BY <1>0, <2>1 DEF ims_xdb_link_file, At, TaskFits, LinkTask
    <3>2. r = INSERT_FILE(base, task.gfid, task.path)
      BY <3>1, SingleEffect
    <3>3. r.ok \/ r.db = base
      BY <3>2, SMT DEF INSERT_FILE, Done, Constraint
    <3> QED
      BY <1>0, <2>1, <3>1, <3>2, <3>3 DEF ims_xdb_link_file
  <2>2. CASE ims_xdb_unlink_file(Worker)
    <3>1. task.op = "unlink"
      BY <1>0, <2>2 DEF ims_xdb_unlink_file, At, TaskFits, UnlinkTask
    <3>2. r = UNLINK_FILE(base, task.path)
      BY <3>1, SingleEffect
    <3>3. r.ok
      BY <3>2, SMT DEF UNLINK_FILE, Done
    <3> QED
      BY <1>0, <2>2, <3>1, <3>2, <3>3 DEF ims_xdb_unlink_file
  <2>3. CASE ims_xdb_rename(Worker)
    <3>1. task.op = "rename"
      BY <1>0, <2>3 DEF ims_xdb_rename, At, TaskFits, RenameTask
    <3>2. r = RENAME(base, task.path, task.extra)
      BY <3>1, SingleEffect
    <3>3. r.ok \/ r.db = base
      BY <3>2, SMT DEF RENAME, Done, Constraint
    <3> QED
      BY <1>0, <2>3, <3>1, <3>2, <3>3 DEF ims_xdb_rename
  <2> QED
    BY <2>1, <2>2, <2>3
<1>2. w.pc # "idle" /\ w.pc \notin TxPc
  BY <1>0 DEF SinglePc, TxPc, StatName
<1>3. ~intx => view = disk
  BY DEF Inv, ConnOK
<1>4. /\ view' = r.db /\ disk' = IF intx THEN disk ELSE r.db
      /\ UNCHANGED <<queue, ncrash>>
      /\ call'[Worker].pc = IF r.ok THEN "idle" ELSE "warn"
      /\ call'[Worker].pc # "idle" => call'[Worker].task = task
  BY <1>1, StepMoves
<1> HIDE DEF r
<1>5. CASE r.ok
  <2>1. call'[Worker].pc = "idle" /\ disk' \in {disk, r.db}
    BY <1>4, <1>5
  <2>2. base' = view' /\ Maps
    BY <1>2, <1>4, <1>5, <2>1, IsDone DEF r
  <2>3. Progress'
    BY <2>1, <2>2 DEF Progress, SinglePc, TxPc, StatName
  <2> QED
    BY <2>2, <2>3
<1>6. CASE ~r.ok
  <2>1. /\ call'[Worker].pc = "warn" /\ call'[Worker].task = task
        /\ r.db = base /\ disk' = disk
    BY <1>0, <1>1, <1>3, <1>4, <1>6
  <2>2. base' = base /\ Maps
    BY <1>2, <1>4, <2>1, GoesOn
  <2>3. Progress'
    BY <1>0, <1>1, <1>4, <1>6, <2>1, <2>2 DEF Progress, SinglePc, TxPc, StatName, r
  <2> QED
    BY <2>2, <2>3
<1> QED
  BY <1>5, <1>6

\* A statement in a transaction, on the way through a task.
LEMMA StepGoesOn ==
  ASSUME Inv, Progress, Follows, NEW s, NEW next, NEW fail, Step(Worker, s, next, fail),
         call[Worker].pc \in TxPc \ {"rollback"}, next # "idle", fail # "idle"
  PROVE  /\ view' = s.db /\ disk' = disk /\ intx' /\ base' = base /\ base \in Db
         /\ call'[Worker].task = call[Worker].task /\ call'[Worker].gid = call[Worker].gid
         /\ call'[Worker].pc = IF s.ok THEN next ELSE fail
         /\ Maps
<1>1. intx /\ base \in Db
  BY DEF Progress
<1>2. /\ view' = s.db /\ intx' = intx /\ UNCHANGED <<queue, ncrash>>
      /\ disk' = IF intx THEN disk ELSE s.db
      /\ call'[Worker].pc = IF s.ok THEN next ELSE fail
  BY StepMoves
<1>3. call'[Worker].task = call[Worker].task /\ call'[Worker].gid = call[Worker].gid
  BY StepMoves
<1>4. disk' = disk /\ intx'
  BY <1>1, <1>2, Zenon
<1>5. call'[Worker].pc # "idle" /\ call[Worker].pc # "idle"
  BY <1>2 DEF TxPc, StatName
<1>6. base' = base /\ Maps
  BY <1>2, <1>3, <1>4, <1>5, GoesOn
<1> QED
  BY <1>1, <1>2, <1>3, <1>4, <1>6

\* Where the failure of a transaction leads.
LEMMA FailProgress ==
  ASSUME base' = base, base \in Db, call'[Worker].pc = "rollback",
         call'[Worker].task = call[Worker].task,
         ~Effect(base, call[Worker].task, StatName).ok,
         call[Worker].task.op \in {"insert", "xattr"}
  PROVE  Progress'
<1> DEFINE r == Effect(base, call[Worker].task, StatName)
<1>1. Effect(base', call'[Worker].task, StatName) = r
  OBVIOUS
<1> HIDE DEF r
<1> QED
  BY <1>1 DEF Progress, SinglePc, TxPc, StatName, r

\* Where the success of a transaction leads.
LEMMA CommitProgress ==
  ASSUME base' = base, base \in Db, call'[Worker].pc = "commit", intx',
         call'[Worker].task = call[Worker].task,
         Effect(base, call[Worker].task, StatName).ok,
         view' = Effect(base, call[Worker].task, StatName).db
  PROVE  Progress'
<1> DEFINE r == Effect(base, call[Worker].task, StatName)
<1>1. Effect(base', call'[Worker].task, StatName) = r /\ r.ok /\ view' = r.db
  OBVIOUS
<1> HIDE DEF r
<1> QED
  BY <1>1 DEF Progress, SinglePc, TxPc, StatName

\* The statements of a new file, and get_gid.
LEMMA InsertMaps ==
  ASSUME Inv, Progress, Follows,
         \/ ims_xdb_insert_gfid(Worker) \/ ims_xdb_insert_file(Worker)
         \/ get_gid(Worker) \/ ims_xdb_insert_stat(Worker)
  PROVE  Progress' /\ Maps
<1> DEFINE w == call[Worker]
           task == w.task
           a == INSERT_GFID(base, task.gfid)
           b == INSERT_FILE(a.db, task.gfid, task.path)
           c == INSERT_STAT(b.db, GET_GID(b.db, task.gfid), task.sb)
           r == Effect(base, task, StatName)
<1>0. /\ call \in [Proc -> [pc : Pc, task : Task \cup {NoTask}, gid : Nat]]
      /\ Worker \in Proc /\ base \in Db /\ view \in Db /\ TaskFits(w.pc, task)
  BY WorkerTypes DEF Progress
<1>1. w.pc \in InsertPc => task.op = "insert" /\ task.gfid \in Gfid /\ task.path \in Path
  BY <1>0 DEF TaskFits, InsertTask
<1>2. w.pc \in InsertPc => r = IF a.ok THEN IF b.ok THEN c ELSE b ELSE a
  BY <1>1, InsertEffect
<1>3. CASE ims_xdb_insert_gfid(Worker)
  <2>1. w.pc = "gfid" /\ w.pc \in InsertPc /\ w.pc \in TxPc \ {"rollback"} /\ view = base
    BY <1>3 DEF ims_xdb_insert_gfid, At, InsertPc, TxPc, Progress
  <2>2. Step(Worker, a, "file", "rollback")
    BY <1>3, <2>1 DEF ims_xdb_insert_gfid
  <2> HIDE DEF a, b, c, r
  <2>3. /\ view' = a.db /\ intx' /\ base' = base /\ call'[Worker].task = task
        /\ call'[Worker].pc = IF a.ok THEN "file" ELSE "rollback"
        /\ Maps
    BY <2>1, <2>2, StepGoesOn
  <2>4. CASE a.ok
    BY <1>0, <2>3, <2>4 DEF Progress, SinglePc, TxPc, StatName, a
  <2>5. CASE ~a.ok
    <3>1. ~r.ok /\ task.op \in {"insert", "xattr"}
      BY <1>1, <1>2, <2>1, <2>5
    <3> QED
      BY <1>0, <2>3, <2>5, <3>1, FailProgress DEF r
  <2> QED
    BY <2>4, <2>5
<1>4. CASE ims_xdb_insert_file(Worker)
  <2>1. /\ w.pc = "file" /\ w.pc \in InsertPc /\ w.pc \in TxPc \ {"rollback"}
        /\ a.ok /\ view = a.db
    BY <1>4 DEF ims_xdb_insert_file, At, InsertPc, TxPc, Progress
  <2>2. Step(Worker, b, "sgid", "rollback")
    BY <1>4, <2>1 DEF ims_xdb_insert_file
  <2> HIDE DEF a, b, c, r
  <2>3. /\ view' = b.db /\ intx' /\ base' = base /\ call'[Worker].task = task
        /\ call'[Worker].pc = IF b.ok THEN "sgid" ELSE "rollback"
        /\ Maps
    BY <2>1, <2>2, StepGoesOn
  <2>4. CASE b.ok
    BY <1>0, <2>1, <2>3, <2>4 DEF Progress, SinglePc, TxPc, StatName, a, b
  <2>5. CASE ~b.ok
    <3>1. ~r.ok /\ task.op \in {"insert", "xattr"}
      BY <1>1, <1>2, <2>1, <2>5
    <3> QED
      BY <1>0, <2>3, <2>5, <3>1, FailProgress DEF r
  <2> QED
    BY <2>4, <2>5
<1>5. CASE get_gid(Worker) /\ w.pc = "sgid"
  <2> DEFINE gid == GET_GID(view, task.gfid)
  <2>1. w.pc \in InsertPc /\ a.ok /\ b.ok /\ view = b.db /\ intx
    BY <1>5 DEF InsertPc, TxPc, Progress
  <2>2. GET_GID(a.db, task.gfid) # 0
    BY <2>1 DEF INSERT_FILE, Constraint
  <2>3. a.db \in Db
    BY <1>0, <1>1, <2>1, KeepsInsertGfid DEF Keeps, Grows
  <2>4. gid # 0
    <3>1. ASSUME NEW d \in Db, NEW x, NEW y
          PROVE  INSERT_FILE(d, x, y).db.xgfid = d.xgfid
      BY DEF INSERT_FILE, Done, Constraint, Db
    <3>2. b.db.xgfid = a.db.xgfid
      BY <2>3, <3>1
    <3> QED
      BY <2>1, <2>2, <3>2, GetGidSame
  <2>5. /\ UNCHANGED <<disk, view, intx, queue, ncrash>>
        /\ call'[Worker].pc = "stat" /\ call'[Worker].gid = gid
        /\ call'[Worker].task = task
    BY <1>0, <1>5, <2>4, SMT DEF get_gid, At, conn, Unmoved, bound
  <2>6. base' = base /\ Maps
    BY <1>5, <2>5, GoesOn
  <2> HIDE DEF gid
  <2>7. Progress'
    BY <1>0, <2>1, <2>5, <2>6 DEF Progress, SinglePc, TxPc, StatName, gid
  <2> QED
    BY <2>6, <2>7
<1>6. CASE get_gid(Worker) /\ w.pc = "ugid"
  <2> DEFINE gid == GET_GID(base, task.gfid)
  <2>1. view = base /\ task.op = "update"
    BY <1>0, <1>6 DEF Progress, TaskFits, UpdatePc, UpdateTask
  <2>2. /\ UNCHANGED <<disk, view, intx, queue, ncrash>>
        /\ call'[Worker].pc = IF gid = 0 THEN "warn" ELSE "ubegin"
        /\ call'[Worker].gid = gid /\ call'[Worker].task = task
    BY <1>0, <1>6, <2>1, SMT DEF get_gid, At, conn, Unmoved, bound
  <2>3. base' = base /\ Maps
    BY <1>6, <2>2, GoesOn
  <2>4. gid = 0 => ~r.ok
    BY <2>1 DEF Effect, Constraint
  <2> HIDE DEF gid, r
  <2>5. CASE gid = 0
    BY <1>0, <2>1, <2>2, <2>3, <2>4, <2>5 DEF Progress, SinglePc, TxPc, StatName, r
  <2>6. CASE gid # 0
    BY <1>0, <2>1, <2>2, <2>3, <2>6 DEF Progress, SinglePc, TxPc, StatName, gid
  <2> QED
    BY <2>3, <2>5, <2>6
<1>7. CASE ims_xdb_insert_stat(Worker)
  <2>1. /\ w.pc = "stat" /\ w.pc \in InsertPc /\ w.pc \in TxPc \ {"rollback"}
        /\ a.ok /\ b.ok /\ view = b.db /\ w.gid = GET_GID(view, task.gfid)
    BY <1>7 DEF ims_xdb_insert_stat, At, InsertPc, TxPc, Progress
  <2>2. Step(Worker, c, "commit", "rollback")
    BY <1>7, <2>1 DEF ims_xdb_insert_stat
  <2> HIDE DEF a, b, c, r
  <2>3. r = c /\ task.op \in {"insert", "xattr"}
    BY <1>1, <1>2, <2>1
  <2>4. /\ view' = c.db /\ intx' /\ base' = base /\ call'[Worker].task = task
        /\ call'[Worker].pc = IF c.ok THEN "commit" ELSE "rollback"
        /\ Maps
    BY <2>1, <2>2, StepGoesOn
  <2>5. CASE c.ok
    BY <1>0, <2>3, <2>4, <2>5, CommitProgress DEF r
  <2>6. CASE ~c.ok
    BY <1>0, <2>3, <2>4, <2>6, FailProgress DEF r
  <2> QED
    BY <2>5, <2>6
<1> QED
  BY <1>3, <1>4, <1>5, <1>6, <1>7 DEF get_gid, At

\* The statements of an update, one field after the other.
LEMMA UpdateMaps ==
  ASSUME Inv, Progress, Follows, ims_xdb_update_stat(Worker)
  PROVE  Progress' /\ Maps
<1> DEFINE w == call[Worker]
           task == w.task
<1>1. PICK name \in StatName :
        /\ w.pc = name
        /\ Step(Worker, UPDATE_STAT(view, w.gid, name, task.sb[name]),
                NextStat(name), "rollback")
  BY DEF ims_xdb_update_stat, At
<1>2. /\ base \in Db /\ w.gid = GET_GID(base, task.gfid) /\ w.gid # 0
      /\ view = Updated(base, w.gid, task.sb, Earlier(name))
  BY <1>1 DEF Progress
<1>3. task.op = "update"
  BY <1>1, WorkerTypes DEF TaskFits, UpdatePc, UpdateTask
<1> DEFINE fields == Earlier(name) \cup {name}
           s == Done(Updated(base, w.gid, task.sb, fields))
<1>4. name \notin Earlier(name)
  BY DEF Earlier, StatName
<1>5. Step(Worker, s, NextStat(name), "rollback")
  BY <1>1, <1>2, <1>4, UpdatedOne, SMT
<1>6. s.ok /\ s.db = Updated(base, w.gid, task.sb, fields)
  BY DEF Done
<1>7. /\ w.pc \in TxPc \ {"rollback"} /\ NextStat(name) # "idle"
  BY <1>1 DEF TxPc, NextStat, StatName
<1> HIDE DEF s
<1>8. /\ view' = s.db /\ intx' /\ base' = base /\ call'[Worker].task = task
      /\ call'[Worker].gid = w.gid /\ call'[Worker].pc = NextStat(name)
      /\ Maps
  BY <1>5, <1>6, <1>7, StepGoesOn
<1>9. CASE name = "st_mtime"
  <2>1. NextStat(name) = "commit" /\ fields = StatName
    BY <1>9 DEF NextStat, Earlier, StatName
  <2>2. Effect(base, task, StatName) = Done(Updated(base, w.gid, task.sb, StatName))
    BY <1>2, <1>3, UpdatedAll
  <2> DEFINE r == Effect(base, task, StatName)
  <2>3. r.ok /\ view' = r.db
    BY <1>6, <1>8, <2>1, <2>2, SMT DEF Done
  <2> HIDE DEF r
  <2>4. Progress'
    BY <1>2, <1>8, <2>1, <2>3, CommitProgress DEF r
  <2> QED
    BY <1>8, <2>4
<1>10. CASE name # "st_mtime"
  <2> DEFINE next == NextStat(name)
  <2>1. next \in StatName /\ fields = Earlier(next)
    BY <1>10 DEF NextStat, Earlier, StatName
  <2> HIDE DEF next, fields
  <2>2. view' = Updated(base, w.gid, task.sb, Earlier(next))
    BY <1>6, <1>8, <2>1
  <2>3. call'[Worker].pc = next
    BY <1>8 DEF next
  <2>4. Progress'
    BY <1>2, <1>8, <2>1, <2>2, <2>3 DEF Progress, SinglePc, TxPc, StatName
  <2> QED
    BY <1>8, <2>4
<1> QED
  BY <1>9, <1>10

\* The statements of an extended attribute.
LEMMA XattrMaps ==
  ASSUME Inv, Progress, Follows, ims_xdb_setxattr(Worker)
  PROVE  Progress' /\ Maps
<1> DEFINE w == call[Worker]
           task == w.task
           n == INSERT_XNAME(base, task.name)
           r == Effect(base, task, StatName)
<1>1. /\ w.pc \in {"xname", "xdata"} /\ w.pc \in TxPc \ {"rollback"}
      /\ task.op = "xattr" /\ base \in Db
  BY WorkerTypes DEF ims_xdb_setxattr, At, TaskFits, XattrPc, XattrTask, TxPc, Progress
<1>2. r = INSERT_XDATA(n.db, task.gfid, task.name, task.val)
  BY <1>1, XattrEffect
<1>3. CASE w.pc = "xname"
  <2>1. Step(Worker, n, "xdata", "rollback")
    BY <1>3 DEF ims_xdb_setxattr, At, Progress
  <2>2. n.ok
    BY DEF INSERT_XNAME, Done
  <2> HIDE DEF n
  <2>3. /\ view' = n.db /\ intx' /\ base' = base /\ call'[Worker].task = task
        /\ call'[Worker].pc = "xdata"
        /\ Maps
    BY <1>1, <2>1, <2>2, StepGoesOn
  <2>4. Progress'
    BY <1>1, <2>3 DEF Progress, SinglePc, TxPc, StatName, n
  <2> QED
    BY <2>3, <2>4
<1>4. CASE w.pc = "xdata"
  <2>1. Step(Worker, r, "commit", "rollback")
    BY <1>2, <1>4 DEF ims_xdb_setxattr, At, Progress
  <2> HIDE DEF r
  <2>2. /\ view' = r.db /\ intx' /\ base' = base /\ call'[Worker].task = task
        /\ call'[Worker].pc = IF r.ok THEN "commit" ELSE "rollback"
        /\ Maps
    BY <1>1, <2>1, StepGoesOn
  <2>3. CASE r.ok
    BY <1>1, <2>2, <2>3, CommitProgress DEF r
  <2>4. CASE ~r.ok
    BY <1>1, <2>2, <2>4, FailProgress DEF r
  <2> QED
    BY <2>3, <2>4
<1> QED
  BY <1>1, <1>3, <1>4

\* Every step of the server is a step or a stutter of ImsIndex.
LEMMA NextMaps ==
  ASSUME AsyncUpdate, Inv, DataOK, Progress, [NextH]_<<vars, base>>
  PROVE  Progress' /\ Maps
<1>1. CASE UNCHANGED <<vars, base>>
  <2>1. UNCHANGED <<call, queue, disk, view, intx, ncrash, base>>
    BY <1>1 DEF vars
  <2>2. Progress'
    BY <2>1, SameProgress
  <2>3. Maps
    BY <2>1 DEF Maps, Todo, At
  <2> QED
    BY <2>2, <2>3
<1>2. CASE NextH
  <2>1. Next /\ Follows
    BY <1>2 DEF NextH, Follows
  <2>2. view' \in Db
    BY <2>1, InvNext DEF Kept, Inv, ConnOK, Grows
  <2>3. CASE Statement(Worker)
    BY <2>1, <2>2, <2>3, TxMaps, InsertMaps, UpdateMaps, XattrMaps, SingleMaps
       DEF Statement
  <2> QED
    BY <2>1, <2>3, StepShapes, QuietMaps, WorkMaps, CrashMaps
<1> QED
  BY <1>1, <1>2

\* With asynchronous updates the server implements ImsIndex: for any number of
\* threads, queries and crashes, the updates that the callbacks queue take
\* effect whole and in their order, a query sees only whole updates, and only
\* the failure of a transaction or a crash takes back what is not on disk.
THEOREM Refinement ==
  ASSUME AsyncUpdate
  PROVE  SpecH => ImplementsIndex
<1> DEFINE IInv == Inv /\ DataOK /\ Progress
<1>1. InitH => IInv /\ Index!IndexInit
  <2> SUFFICES ASSUME InitH PROVE IInv /\ Index!IndexInit
    OBVIOUS
  <2>1. Inv /\ DataOK
    BY InvInit, EmptyDb, ServerAssumption DEF InitH, Init, DataOK, Idle, Proc
  <2>2. /\ call[Worker] = Idle /\ view = db_initialize /\ base = db_initialize
        /\ disk = db_initialize /\ queue = << >> /\ ncrash = 0
    BY DEF InitH, Init, Proc
  <2>3. Progress
    BY <2>2, EmptyDb, SMT DEF Progress, Idle, SinglePc, TxPc, StatName
  <2>4. Todo = << >>
    BY <2>2, SMT DEF Todo, At, Idle
  <2> QED
    BY <2>1, <2>2, <2>3, <2>4 DEF Index!IndexInit, Index!db_initialize, db_initialize
<1>2. IInv /\ [NextH]_<<vars, base>> => IInv' /\ [Index!IndexNext]_(Index!ivars)
  <2> SUFFICES ASSUME IInv, [NextH]_<<vars, base>>
               PROVE  IInv' /\ [Index!IndexNext]_(Index!ivars)
    OBVIOUS
  <2>1. [Next]_vars
    BY DEF NextH, vars
  <2>2. Inv' /\ DataOK'
    BY <2>1, InvNext, DataNext DEF Kept
  <2> QED
    BY <2>2, NextMaps DEF Maps, Index!ivars
<1> QED
  BY <1>1, <1>2, PTL DEF SpecH, ImplementsIndex, Index!IndexSpec

-----------------------------------------------------------------------------
(* When the index agrees with the brick.                                   *)

\* Without queries no END is refused: the database that the worker started its
\* task on is the one on disk.
Calm ==
  /\ ~reading /\ ~pend /\ base = disk
  /\ intx => call[Worker].pc \in TxPc
  /\ call[Worker].pc # "idle" => call[Worker].task \in Task
  /\ call[Worker].task.op = "rename" => call[Worker].pc \in {"idle", "rename", "warn"}

\* The log of a failed update comes after the doubt.
Warned == At(Worker, "warn") => Touches(call[Worker].task) \subseteq doubtful

\* The stat rows of a gid are sb.
Stats(db, gid, sb) == Rows(db, gid, StatName) = {<<gid, n, sb[n]>> : n \in StatName}

\* A task that reports the stat of a file, or a new file.
Tells(task, gfid) == task.op \in {"insert", "update"} /\ task.gfid = gfid

Makes(task, gfid) == task.op = "insert" /\ task.gfid = gfid

\* The last report that is still to be carried out is the last that was made;
\* when there is none, the rows are.
Latest(gfid) ==
  /\ \A i \in 1 .. Len(Todo) :
       Tells(Todo[i], gfid) /\ (\A j \in 1 .. Len(Todo) : Tells(Todo[j], gfid) => j <= i)
         => Todo[i].sb = last[gfid]
  /\ (\A i \in 1 .. Len(Todo) : ~Tells(Todo[i], gfid)) /\ GET_GID(disk, gfid) # 0
       => Stats(disk, GET_GID(disk, gfid), last[gfid])

\* A file has all stat rows once.
Statted(db) == \A gid \in Gids(db) : \E sb \in Stat : Stats(db, gid, sb)

\* A file has a gid and is made once.
Distinct(db) == \A g, h \in Gids(db) : db.xgfid[g] = db.xgfid[h] => g = h

Coming(t, gfid) == At(t, "cbk") /\ Makes(call[t].task, gfid)

Once(gfid) ==
  /\ \A t \in Thread : Coming(t, gfid) =>
       /\ gfid \in used /\ GET_GID(disk, gfid) = 0
       /\ \A i \in 1 .. Len(Todo) : ~Makes(Todo[i], gfid)
       /\ \A u \in Thread : Coming(u, gfid) => u = t
  /\ \A i \in 1 .. Len(Todo) : Makes(Todo[i], gfid) =>
       /\ gfid \in used /\ GET_GID(disk, gfid) = 0
       /\ \A j \in 1 .. Len(Todo) : Makes(Todo[j], gfid) => j = i
  /\ GET_GID(disk, gfid) # 0 => gfid \in used

AttrInv == Distinct(disk) /\ Statted(disk) /\ \A gfid \in Gfid : Latest(gfid) /\ Once(gfid)

\* The file that a database has at a path.
File(db, p) == IF db.xfile[p] = 0 THEN NoGfid ELSE db.xgfid[db.xfile[p]]

\* What a task makes of the files at the paths.
Apply(files, task) ==
  CASE task.op \in {"insert", "link"} -> [files EXCEPT ![task.path] = task.gfid]
    [] task.op = "unlink"             -> [files EXCEPT ![task.path] = NoGfid]
    [] task.op = "rename" /\ files[task.extra] # files[task.path] ->
         [files EXCEPT ![task.path] = NoGfid, ![task.extra] = files[task.path]]
    [] OTHER                          -> files

\* Doubt spreads along renames: the paths that are doubtful once the first i
\* tasks have been carried out are those at the end of a walk.
Spreads(task, p, q) ==
  p = q \/ (task.op = "rename" /\ p \in Touches(task) /\ q \in Touches(task))

Walk(todo, from, walk, i) ==
  /\ walk[0] \in from
  /\ \A j \in 1 .. i : Spreads(todo[j], walk[j - 1], walk[j])

Reached(todo, from, i) ==
  {p \in Path : \E walk \in [0 .. i -> Path] : Walk(todo, from, walk, i) /\ walk[i] = p}

Doubted(i) == Reached(Todo, doubtful, i)

\* A rename finds the old path, unless there is doubt.
Finds(files, task, doubt) ==
  task.op = "rename" /\ Touches(task) \cap doubt = {} => files[task.path] # NoGfid

\* files[i] are the files that the index will have after i tasks: those of the
\* disk now, those of the brick at the end, but for the callbacks to come.
Leads(files) ==
  /\ \A p \in Path \ doubtful : File(disk, p) = files[0][p]
  /\ \A i \in 1 .. Len(Todo) :
       /\ files[i] = Apply(files[i - 1], Todo[i])
       /\ Finds(files[i - 1], Todo[i], Doubted(i - 1))

Ends(files, doubt) ==
  /\ \A p \in Path \ doubt :
       (\A t \in Thread : At(t, "cbk") => p \notin Touches(call[t].task)) => ns[p] = files[p]
  /\ \A t \in Thread : At(t, "cbk") /\ Touches(call[t].task) \cap doubt = {} =>
       /\ Finds(files, call[t].task, doubt)
       /\ \A p \in Touches(call[t].task) : ns[p] = Apply(files, call[t].task)[p]

Lone ==
  \A t, u \in Thread :
    /\ At(t, "cbk") /\ At(u, "cbk") /\ t # u
    /\ Touches(call[t].task) \cap Touches(call[u].task) # {}
    => Touches(call[t].task) \subseteq doubtful

Files == [Path -> Gfid \cup {NoGfid}]

PathInv ==
  /\ Lone
  /\ \E files \in [0 .. Len(Todo) -> Files] :
       Leads(files) /\ Ends(files[Len(Todo)], Doubted(Len(Todo)))

-----------------------------------------------------------------------------
\* What a statement of the worker is to the task it carries out, without queries:
\* the disk changes with the last one.
Works ==
  LET w == call[Worker]
      r == Effect(disk, w.task, StatName)
  IN  /\ UNCHANGED <<ns, used, queue>>
      /\ \A t \in Thread : call'[t] = call[t]
      /\ ~reading' /\ ~pend' /\ base' = disk'
      /\ intx' => call'[Worker].pc \in TxPc
      /\ w.pc # "idle"
      /\ w.pc \in {"rename", "warn"} => call'[Worker].pc \in {"idle", "warn"}
      /\ call'[Worker].pc # "idle" => call'[Worker].task = w.task /\ disk' = disk
      /\ call'[Worker].pc = "idle" =>
           /\ disk' = IF r.ok THEN r.db ELSE disk
           /\ ~r.ok => w.pc = "warn"

\* A statement in a transaction.
LEMMA StepWorks ==
  ASSUME Inv, Progress, Follows, Calm, NEW r, NEW next, NEW fail,
         Step(Worker, r, next, fail), call[Worker].pc \in TxPc \ {"rollback"},
         next \in TxPc, fail \in TxPc
  PROVE  Works
<1>1. /\ intx /\ next # "idle" /\ fail # "idle"
      /\ call[Worker].pc \notin {"idle", "rename", "warn"}
  BY DEF Progress, TxPc, StatName
<1>2. /\ disk' = disk /\ base' = base /\ call'[Worker].task = call[Worker].task
      /\ call'[Worker].pc = IF r.ok THEN next ELSE fail
  BY <1>1, StepGoesOn
<1>3. call'[Worker].pc \in TxPc /\ call'[Worker].pc # "idle"
  BY <1>1, <1>2
<1>4. UNCHANGED <<ns, used, queue, reading, pend>>
  BY <1>1 DEF Step, Unmoved, brick
<1>5. \A t \in Thread : call'[t] = call[t]
  BY WorkerTypes, ServerAssumption DEF Step, Goto, Proc
<1> QED
  BY <1>1, <1>2, <1>3, <1>4, <1>5 DEF Works, Calm

\* link, unlink and rename.
LEMMA SingleWorks ==
  ASSUME Inv, Progress, Follows, Calm,
         \/ ims_xdb_link_file(Worker) \/ ims_xdb_unlink_file(Worker)
         \/ ims_xdb_rename(Worker)
  PROVE  Works
<1> DEFINE w == call[Worker]
           task == w.task
           r == Effect(disk, task, StatName)
<1>0. /\ TaskFits(w.pc, task) /\ w.pc \in SinglePc /\ view = disk
  BY WorkerTypes DEF Progress, Calm, ims_xdb_link_file, ims_xdb_unlink_file, ims_xdb_rename,
     At, SinglePc
<1>1. Step(Worker, r, "idle", "warn") /\ (r.ok \/ r.db = disk)
  <2>1. CASE ims_xdb_link_file(Worker)
    <3>1. task.op = "link"
      BY <1>0, <2>1 DEF ims_xdb_link_file, At, TaskFits, LinkTask
    <3>2. r = INSERT_FILE(disk, task.gfid, task.path)
      BY <3>1, SingleEffect
    <3>3. r.ok \/ r.db = disk
      BY <3>2, SMT DEF INSERT_FILE, Done, Constraint
    <3> QED
      BY <1>0, <2>1, <3>2, <3>3 DEF ims_xdb_link_file
  <2>2. CASE ims_xdb_unlink_file(Worker)
    <3>1. task.op = "unlink"
      BY <1>0, <2>2 DEF ims_xdb_unlink_file, At, TaskFits, UnlinkTask
    <3>2. r = UNLINK_FILE(disk, task.path)
      BY <3>1, SingleEffect
    <3>3. r.ok
      BY <3>2, SMT DEF UNLINK_FILE, Done
    <3> QED
      BY <1>0, <2>2, <3>2, <3>3 DEF ims_xdb_unlink_file
  <2>3. CASE ims_xdb_rename(Worker)
    <3>1. task.op = "rename"
      BY <1>0, <2>3 DEF ims_xdb_rename, At, TaskFits, RenameTask
    <3>2. r = RENAME(disk, task.path, task.extra)
      BY <3>1, SingleEffect
    <3>3. r.ok \/ r.db = disk
      BY <3>2, SMT DEF RENAME, Done, Constraint
    <3> QED
      BY <1>0, <2>3, <3>2, <3>3 DEF ims_xdb_rename
  <2> QED
    BY <2>1, <2>2, <2>3
<1> HIDE DEF r
<1>2. w.pc # "idle" /\ ~intx
  BY <1>0 DEF SinglePc, TxPc, StatName, Calm
<1>3. /\ view' = r.db /\ disk' = r.db /\ ~intx'
      /\ call'[Worker].pc = IF r.ok THEN "idle" ELSE "warn"
      /\ call'[Worker].pc # "idle" => call'[Worker].task = task
  BY <1>1, <1>2, StepMoves
<1>4. UNCHANGED <<ns, used, queue, reading>> /\ ~pend'
  BY <1>1, <1>2 DEF Step, Unmoved, brick
<1>5. \A t \in Thread : call'[t] = call[t]
  BY <1>1, WorkerTypes, ServerAssumption DEF Step, Goto, Proc
<1>6. CASE r.ok
  <2>1. call'[Worker].pc = "idle" /\ base' = disk'
    BY <1>3, <1>6 DEF Follows
  <2> QED
    BY <1>2, <1>3, <1>4, <1>5, <1>6, <2>1 DEF Works, Calm, r
<1>7. CASE ~r.ok
  <2>1. call'[Worker].pc = "warn" /\ base' = base /\ disk' = disk
    BY <1>1, <1>3, <1>7 DEF Follows
  <2> QED
    BY <1>2, <1>3, <1>4, <1>5, <2>1 DEF Works, Calm
<1> QED
  BY <1>6, <1>7

\* BEGIN, END, ROLLBACK, get_gid and the log of a failure.
LEMMA TxWorks ==
  ASSUME AsyncUpdate, Inv, Progress, Follows, Calm,
         \/ ims_xdb_tx_begin(Worker) \/ ims_xdb_tx_commit(Worker)
         \/ ims_xdb_tx_rollback(Worker) \/ get_gid(Worker) \/ Warn(Worker)
  PROVE  Works
<1> DEFINE w == call[Worker]
           task == w.task
           r == Effect(disk, task, StatName)
<1>0. /\ call \in [Proc -> [pc : Pc, task : Task \cup {NoTask}, gid : Nat]]
      /\ Worker \in Proc /\ \A t \in Thread : t # Worker
  BY WorkerTypes, ServerAssumption
<1>a. base = disk /\ ~reading /\ ~pend /\ (intx => w.pc \in TxPc)
  BY DEF Calm
<1>b. \A t \in Thread : call'[t] = call[t]
  BY <1>0 DEF ims_xdb_tx_begin, ims_xdb_tx_commit, ims_xdb_tx_rollback, get_gid, Warn,
              Goto, Proc
<1>c. UNCHANGED <<ns, used, queue, reading>>
  BY DEF ims_xdb_tx_begin, ims_xdb_tx_commit, ims_xdb_tx_rollback, get_gid, Warn,
         Unmoved, brick
<1>d. ASSUME w.pc \notin {"idle", "rename", "warn"}, call'[Worker].pc # "idle", call'[Worker].task = task,
             UNCHANGED <<disk, pend>>, intx' => call'[Worker].pc \in TxPc
      PROVE  Works
  BY <1>a, <1>b, <1>c, <1>d DEF Works, Follows
<1>1. CASE ims_xdb_tx_begin(Worker)
  <2>1. UNCHANGED <<disk, pend>> /\ call'[Worker].task = task
    BY <1>0, <1>1 DEF ims_xdb_tx_begin, Goto
  <2>2. /\ w.pc \in {"begin", "ubegin", "xbegin"}
        /\ call'[Worker].pc \in {"gfid", "st_mode", "xname"}
    BY <1>0, <1>1 DEF ims_xdb_tx_begin, Goto, At
  <2> QED
    BY <1>d, <2>1, <2>2 DEF TxPc, StatName
<1>2. CASE ims_xdb_tx_commit(Worker)
  <2>1. w.pc = "commit" /\ call'[Worker].pc = "idle"
    BY <1>0, <1>2 DEF ims_xdb_tx_commit, Goto, At, Idle
  <2>2. r.ok /\ view = r.db /\ intx
    BY <1>a, <2>1 DEF Progress, TxPc
  <2> HIDE DEF r
  <2>3. disk' = view /\ view' = view /\ ~intx' /\ ~pend'
    BY <1>2, <1>a, <2>2 DEF ims_xdb_tx_commit
  <2>4. base' = disk'
    BY <2>1, <2>3 DEF Follows
  <2> QED
    BY <1>a, <1>b, <1>c, <2>1, <2>2, <2>3, <2>4 DEF Works, r
<1>3. CASE ims_xdb_tx_rollback(Worker)
  <2>1. /\ w.pc = "rollback" /\ call'[Worker].pc = "warn" /\ call'[Worker].task = task
        /\ disk' = disk /\ ~pend' /\ ~intx'
    BY <1>0, <1>3 DEF ims_xdb_tx_rollback, Goto, At
  <2> QED
    BY <1>a, <1>b, <1>c, <2>1 DEF Works, Follows
<1>4. CASE get_gid(Worker)
  <2>1. UNCHANGED <<disk, intx, pend>> /\ call'[Worker].task = task
    BY <1>0, <1>4, SMTT(20) DEF get_gid, conn
  <2>2. \/ w.pc = "sgid" /\ call'[Worker].pc \in {"rollback", "stat"}
        \/ w.pc = "ugid" /\ call'[Worker].pc \in {"warn", "ubegin"}
    BY <1>0, <1>4, SMTT(20) DEF get_gid, At
  <2> QED
    BY <1>a, <1>d, <2>1, <2>2 DEF TxPc, StatName
<1>5. CASE Warn(Worker)
  <2>1. w.pc = "warn" /\ call'[Worker].pc = "idle" /\ UNCHANGED <<view, disk, intx, pend>>
    BY <1>0, <1>5 DEF Warn, Goto, At, Idle, conn
  <2>2. ~r.ok /\ view = disk /\ ~intx
    BY <1>a, <2>1 DEF Progress, TxPc, StatName
  <2> HIDE DEF r
  <2>3. base' = disk'
    BY <2>1, <2>2 DEF Follows
  <2> QED
    BY <1>a, <1>b, <1>c, <2>1, <2>2, <2>3 DEF Works, r
<1> QED
  BY <1>1, <1>2, <1>3, <1>4, <1>5

LEMMA StatementWorks ==
  ASSUME AsyncUpdate, Inv, Progress, Follows, Calm, Statement(Worker)
  PROVE  Works
<1>0. /\ {"gfid", "file", "stat", "xname", "xdata"} \subseteq TxPc \ {"rollback"}
      /\ {"file", "sgid", "commit", "xdata", "rollback"} \subseteq TxPc
  BY DEF TxPc
<1>1. CASE ims_xdb_insert_gfid(Worker)
  BY <1>0, <1>1, StepWorks DEF ims_xdb_insert_gfid, At
<1>2. CASE ims_xdb_insert_file(Worker)
  BY <1>0, <1>2, StepWorks DEF ims_xdb_insert_file, At
<1>3. CASE ims_xdb_insert_stat(Worker)
  BY <1>0, <1>3, StepWorks DEF ims_xdb_insert_stat, At
<1>4. CASE ims_xdb_setxattr(Worker)
  BY <1>0, <1>4, StepWorks DEF ims_xdb_setxattr, At
<1>5. CASE ims_xdb_update_stat(Worker)
  <2>1. PICK name \in StatName :
          /\ call[Worker].pc = name
          /\ Step(Worker, UPDATE_STAT(view, call[Worker].gid, name, call[Worker].task.sb[name]),
                  NextStat(name), "rollback")
    BY <1>5 DEF ims_xdb_update_stat, At
  <2>2. name \in TxPc \ {"rollback"} /\ NextStat(name) \in TxPc
    BY DEF TxPc, NextStat, StatName
  <2> QED
    BY <1>0, <2>1, <2>2, StepWorks
<1> QED
  BY <1>1, <1>2, <1>3, <1>4, <1>5, SingleWorks, TxWorks DEF Statement

-----------------------------------------------------------------------------
(* The steps, as the properties see them.                                  *)

\* A step that no path or attribute depends on.
Stays ==
  /\ UNCHANGED <<Todo, disk>> /\ \A gfid \in Gfid : last'[gfid] = last[gfid]
  /\ used \subseteq used' /\ (~DirHash => ns' = ns)
  /\ doubtful \subseteq doubtful'
  /\ \A t \in Thread : call'[t] = call[t]

\* Thread t starts an operation.
Starts(t, task) ==
  /\ task \in Task
  /\ ns' = Apply(ns, task)
  /\ task.op = "rename" => ns[task.path] # NoGfid
  /\ used \subseteq used'
  /\ task.op = "insert" => task.gfid \notin used /\ task.gfid \in used'

Begins(t, task) ==
  /\ Starts(t, task)
  /\ ~At(t, "cbk") /\ call'[t].pc = "cbk" /\ call'[t].task = task
  /\ \A u \in Thread \ {t} : call'[u] = call[u]
  /\ UNCHANGED <<Todo, disk>> /\ \A gfid \in Gfid : last'[gfid] = last[gfid]
  /\ doubtful \subseteq doubtful'
  /\ \A u \in Thread \ {t} :
       At(u, "cbk") /\ Touches(call[u].task) \cap Touches(task) # {}
         => Touches(call[u].task) \cup Touches(task) \subseteq doubtful'

\* Its callback queues the task.
Queues(t) ==
  /\ At(t, "cbk") /\ call'[t].pc # "cbk"
  /\ \A u \in Thread \ {t} : call'[u] = call[u]
  /\ Todo' = Append(Todo, call[t].task)
  /\ UNCHANGED <<disk, ns, used>>
  /\ \A gfid \in Gfid :
       last'[gfid] = IF Tells(call[t].task, gfid) THEN call[t].task.sb ELSE last[gfid]
  /\ doubtful \subseteq doubtful'

\* The worker is done with the first task, whose result is r.
Finishes(task, r) ==
  /\ Todo # << >> /\ task = Head(Todo) /\ r = Effect(disk, task, StatName)
  /\ Todo' = Tail(Todo)
  /\ disk' = IF r.ok THEN r.db ELSE disk
  /\ UNCHANGED <<ns, used>> /\ \A gfid \in Gfid : last'[gfid] = last[gfid]
  /\ \A t \in Thread : call'[t] = call[t]
  /\ doubtful \subseteq doubtful'
  /\ ~r.ok => Touches(task) \subseteq doubtful'
  /\ task.op = "rename" /\ Touches(task) \cap doubtful # {} => Touches(task) \subseteq doubtful'

\* What the next states of the history variables are.
Remembers ==
  /\ doubtful' = doubtful \cup UNION {Doubt(p) : p \in Proc}
  /\ last' = [gfid \in Gfid |-> LastOf(gfid)]

LEMMA NothingTold ==
  ASSUME Remembers, \A t \in Thread : ~Reports(t)
  PROVE  \A gfid \in Gfid : last'[gfid] = last[gfid]
<1>1. \A gfid \in Gfid : LastOf(gfid) = last[gfid]
  BY DEF LastOf
<1> QED
  BY <1>1 DEF Remembers

\* The tasks to be carried out.
LEMMA TodoTypes ==
  ASSUME Inv, Calm
  PROVE  /\ Todo \in Seq(Task) /\ queue \in Seq(Task)
         /\ At(Worker, "idle") => Todo = queue
         /\ ~At(Worker, "idle") =>
              /\ Todo # << >> /\ Head(Todo) = call[Worker].task /\ Tail(Todo) = queue
              /\ call[Worker].task \in Task
<1>1. queue \in Seq(Task)
  BY DEF Inv, CallOK
<1>2. CASE At(Worker, "idle")
  BY <1>1, <1>2, ConcatNone DEF Todo
<1>3. CASE ~At(Worker, "idle")
  <2>1. call[Worker].task \in Task /\ Todo = <<call[Worker].task>> \o queue
    BY <1>3 DEF Calm, At, Todo
  <2>2. <<call[Worker].task>> \in Seq(Task)
    BY <2>1, SMT
  <2>3. Todo \in Seq(Task)
    BY <1>1, <2>1, <2>2, SMT
  <2> QED
    BY <1>1, <1>3, <2>1, <2>3, ConcatFirst
<1> QED
  BY <1>1, <1>2, <1>3

\* Without queries and crashes.
LEMMA Kinds ==
  ASSUME AsyncUpdate, ~Queries, MaxCrash = 0, Inv, DataOK, ~reading, Next
  PROVE  \/ UNCHANGED vars
         \/ \E t \in Thread : Fop(t) \/ Cbk(t)
         \/ ims_async_work
         \/ Statement(Worker)
<1>1. ASSUME NEW p \in Proc, Statement(p) PROVE Statement(Worker)
  <2>1. call[p].pc \notin {"idle", "cbk"}
    BY <1>1 DEF Statement, ims_xdb_tx_begin, ims_xdb_tx_commit, ims_xdb_tx_rollback,
         ims_xdb_insert_gfid, ims_xdb_insert_file, get_gid, ims_xdb_insert_stat,
         ims_xdb_update_stat, ims_xdb_setxattr, ims_xdb_link_file,
         ims_xdb_unlink_file, ims_xdb_rename, Warn, At, StatName
  <2> QED
    BY <1>1, <2>1, WorkerOnly
<1>2. ~Crash
  BY SMT DEF Crash, Inv, BrickOK
<1>3. \A p \in Proc : ~Busy(p)
  BY DEF Busy
<1> QED
  BY <1>1, <1>2, <1>3 DEF Next, ims_xdb_direct_query, Rest

\* What a file operation does to the brick and its thread.
LEMMA FopStarts ==
  ASSUME Inv, NEW t \in Thread, Fop(t)
  PROVE  \/ \E task \in Task : Wind(t, task) /\ Starts(t, task)
         \/ /\ DirHash /\ UNCHANGED <<call, queue, conn, reading>>
            /\ used \subseteq used'
<1>0. Inv /\ ns \in [Path -> Gfid \cup {NoGfid}] /\ Sb \subseteq Stat
  BY ServerAssumption DEF Inv, BrickOK
<1> USE DEF Starts, Apply
<1>1. ASSUME NEW path \in Path, NEW gfid \in Gfid, NEW sb \in Sb, NewEntry(path, gfid),
             Wind(t, InsertOf(path, gfid, sb))
      PROVE  \E task \in Task : Wind(t, task) /\ Starts(t, task)
  <2> DEFINE task == InsertOf(path, gfid, sb)
  <2>1. task \in Task /\ task.op = "insert" /\ task.path = path /\ task.gfid = gfid
    BY <1>0 DEF InsertOf, Task, InsertTask
  <2> HIDE DEF task
  <2>2. Starts(t, task)
    BY <1>1, <2>1 DEF NewEntry
  <2> QED
    BY <1>1, <2>1, <2>2 DEF task
<1>2. ASSUME NEW path \in Path, ims_create(t, path) \/ ims_symlink(t, path)
      PROVE  \E task \in Task : Wind(t, task) /\ Starts(t, task)
  BY <1>1, <1>2 DEF ims_create, ims_symlink
<1>3. ASSUME NEW path \in Path, ims_mkdir(t, path)
      PROVE  \/ \E task \in Task : Wind(t, task) /\ Starts(t, task)
             \/ /\ DirHash /\ UNCHANGED <<call, queue, conn, reading>>
                /\ used \subseteq used'
  <2>1. PICK gfid \in Gfid, sb \in Sb, hashed \in {"unset", "0", "1"} :
          /\ NewEntry(path, gfid)
          /\ IF DirHash /\ hashed = "0"
             THEN UNCHANGED <<call, queue, conn, reading>>
             ELSE Wind(t, InsertOf(path, gfid, sb))
    BY <1>3 DEF ims_mkdir
  <2>2. CASE DirHash /\ hashed = "0"
    BY <2>1, <2>2 DEF NewEntry
  <2> QED
    BY <1>1, <2>1, <2>2
<1>4. ASSUME NEW path \in Path, ims_unlink(t, path)
      PROVE  \E task \in Task : Wind(t, task) /\ Starts(t, task)
  <2> DEFINE task == [op |-> "unlink", path |-> path]
  <2>1. task \in Task /\ task.op = "unlink" /\ task.path = path
    BY DEF Task, UnlinkTask
  <2>2. Wind(t, task) /\ ns' = [ns EXCEPT ![path] = NoGfid] /\ used' = used
    BY <1>4 DEF ims_unlink
  <2> HIDE DEF task
  <2> QED
    BY <2>1, <2>2
<1>5. ASSUME NEW old \in Path, NEW new \in Path, ims_link(t, old, new)
      PROVE  \E task \in Task : Wind(t, task) /\ Starts(t, task)
  <2> DEFINE task == [op |-> "link", gfid |-> ns[old], path |-> new]
  <2>1. task \in Task /\ task.op = "link" /\ task.path = new /\ task.gfid = ns[old]
    BY <1>0, <1>5 DEF ims_link, Task, LinkTask
  <2>2. Wind(t, task) /\ ns' = [ns EXCEPT ![new] = ns[old]] /\ used' = used
    BY <1>5 DEF ims_link
  <2> HIDE DEF task
  <2> QED
    BY <2>1, <2>2
<1>6. ASSUME NEW old \in Path, NEW new \in Path, ims_rename(t, old, new)
      PROVE  \E task \in Task : Wind(t, task) /\ Starts(t, task)
  <2> DEFINE task == [op |-> "rename", path |-> old, extra |-> new]
  <2>1. task \in Task /\ task.op = "rename" /\ task.path = old /\ task.extra = new
    BY DEF Task, RenameTask
  <2>2. /\ Wind(t, task) /\ ns[old] # NoGfid /\ used' = used
        /\ ns' = IF ns[new] = ns[old]
                 THEN ns
                 ELSE [ns EXCEPT ![old] = NoGfid, ![new] = ns[old]]
    BY <1>6 DEF ims_rename
  <2> HIDE DEF task
  <2> QED
    BY <2>1, <2>2
<1>7. ASSUME NEW gfid \in Gfid, ims_setattr(t, gfid)
      PROVE  \E task \in Task : Wind(t, task) /\ Starts(t, task)
  <2>1. PICK sb \in Sb : Wind(t, [op |-> "update", gfid |-> gfid, sb |-> sb])
    BY <1>7 DEF ims_setattr
  <2> DEFINE task == [op |-> "update", gfid |-> gfid, sb |-> sb]
  <2>2. task \in Task /\ task.op = "update"
    BY <1>0 DEF Task, UpdateTask
  <2>3. UNCHANGED <<ns, used>>
    BY <1>7 DEF ims_setattr, brick
  <2> HIDE DEF task
  <2> QED
    BY <2>1, <2>2, <2>3 DEF task
<1>8. ASSUME NEW path \in Path, ims_setxattr(t, path)
      PROVE  \E task \in Task : Wind(t, task) /\ Starts(t, task)
  <2>1. PICK name \in XName, val \in Val :
          Wind(t, [op |-> "xattr", gfid |-> ns[path], name |-> name, val |-> val])
    BY <1>8 DEF ims_setxattr
  <2> DEFINE task == [op |-> "xattr", gfid |-> ns[path], name |-> name, val |-> val]
  <2>2. task \in Task /\ task.op = "xattr"
    BY <1>0, <1>8 DEF ims_setxattr, Task, XattrTask
  <2>3. UNCHANGED <<ns, used>>
    BY <1>8 DEF ims_setxattr, brick
  <2> HIDE DEF task
  <2> QED
    BY <2>1, <2>2, <2>3 DEF task
<1> QED
  BY <1>2, <1>3, <1>4, <1>5, <1>6, <1>7, <1>8 DEF Fop

\* Doubt is kept, and a step adds the doubt of each process.
LEMMA DoubtKept ==
  ASSUME Remembers, NEW p \in Proc
  PROVE  doubtful \subseteq doubtful' /\ Doubt(p) \subseteq doubtful'
BY DEF Remembers

LEMMA FopBegins ==
  ASSUME AsyncUpdate, Inv, DataOK, Calm, Warned, Follows, Remembers,
         NEW t \in Thread, Fop(t)
  PROVE  Calm' /\ Warned' /\ (Stays \/ \E task \in Task : Begins(t, task))
<1>0. /\ call \in [Proc -> [pc : Pc, task : Task \cup {NoTask}, gid : Nat]]
      /\ t \in Proc /\ t # Worker /\ Worker \in Proc
      /\ view = disk \/ ~At(Worker, "idle")
  <2>1. At(Worker, "idle") => ~intx
    BY DEF Calm, At, TxPc, StatName
  <2> QED
    BY <2>1, WorkerTypes, ServerAssumption DEF Proc, Inv, ConnOK
<1>1. ASSUME UNCHANGED <<queue, conn, reading>>, call'[Worker] = call[Worker]
      PROVE  Calm' /\ Warned' /\ UNCHANGED <<Todo, disk>> /\ doubtful \subseteq doubtful'
  <2>1. UNCHANGED <<disk, view, intx, pend>>
    BY <1>1 DEF conn
  <2>2. base' = disk'
    BY <1>0, <1>1, <2>1 DEF Follows, Calm, At
  <2>3. doubtful \subseteq doubtful'
    BY <1>0, DoubtKept
  <2> QED
    BY <1>1, <2>1, <2>2, <2>3 DEF Calm, Warned, Todo, At
<1>2. ASSUME DirHash, UNCHANGED <<call, queue, conn, reading>>, used \subseteq used'
      PROVE  Calm' /\ Warned' /\ Stays
  <2>1. Calm' /\ Warned' /\ UNCHANGED <<Todo, disk>> /\ doubtful \subseteq doubtful'
    BY <1>1, <1>2
  <2>2. \A gfid \in Gfid : last'[gfid] = last[gfid]
    BY <1>2, NothingTold DEF Reports, At
  <2> QED
    BY <1>2, <2>1, <2>2 DEF Stays
<1>3. ASSUME NEW task \in Task, Wind(t, task), Starts(t, task)
      PROVE  Calm' /\ Warned' /\ Begins(t, task)
  <2>1. /\ At(t, "idle") /\ UNCHANGED <<queue, conn, reading>>
        /\ call'[t].pc = "cbk" /\ call'[t].task = task
        /\ \A u \in Proc \ {t} : call'[u] = call[u]
    BY <1>0, <1>3 DEF Wind
  <2>2. Calm' /\ Warned' /\ UNCHANGED <<Todo, disk>> /\ doubtful \subseteq doubtful'
    BY <1>0, <1>1, <2>1
  <2>3. \A gfid \in Gfid : last'[gfid] = last[gfid]
    <3>1. \A u \in Thread : u = t \/ call'[u] = call[u]
      BY <2>1 DEF Proc
    <3>2. \A u \in Thread : ~Reports(u)
      BY <2>1, <3>1 DEF Reports, At
    <3> QED
      BY <3>2, NothingTold
  <2>4. ASSUME NEW u \in Thread \ {t}, At(u, "cbk"),
               Touches(call[u].task) \cap Touches(task) # {}
        PROVE  Touches(call[u].task) \cup Touches(task) \subseteq doubtful'
    <3>1. u \in {q \in Proc \ {t} : At(q, "cbk")}
      BY <2>4 DEF Proc
    <3>2. Touches(task) \cup Touches(call[u].task) \subseteq Overlap(t)
      BY <2>1, <2>4, <3>1 DEF Overlap
    <3>3. Doubt(t) = Overlap(t)
      BY <2>1 DEF Doubt
    <3> QED
      BY <1>0, <3>2, <3>3, DoubtKept
  <2>5. ~At(t, "cbk") /\ \A u \in Thread \ {t} : call'[u] = call[u]
    BY <2>1 DEF At, Proc
  <2> QED
    BY <1>3, <2>1, <2>2, <2>3, <2>4, <2>5 DEF Begins
<1> QED
  BY <1>2, <1>3, FopStarts

LEMMA CbkQueues ==
  ASSUME AsyncUpdate, Inv, DataOK, Calm, Warned, Follows, Remembers,
         NEW t \in Thread, Cbk(t)
  PROVE  Calm' /\ Warned' /\ Queues(t)
<1>0. /\ call \in [Proc -> [pc : Pc, task : Task \cup {NoTask}, gid : Nat]]
      /\ t \in Proc /\ t # Worker /\ Worker \in Proc
      /\ view = disk \/ ~At(Worker, "idle")
  <2>1. At(Worker, "idle") => ~intx
    BY DEF Calm, At, TxPc, StatName
  <2> QED
    BY <2>1, WorkerTypes, ServerAssumption DEF Proc, Inv, ConnOK
<1>1. PICK op : Report(t, op)
  BY DEF Cbk, insert_new_xdb_entry, unlink_from_xdb, ims_setxattr_cbk, ims_setattr_cbk,
         ims_link_cbk, ims_rename_cbk
<1>2. /\ At(t, "cbk") /\ queue' = Append(queue, call[t].task)
      /\ call'[t].pc = "idle" /\ \A u \in Proc \ {t} : call'[u] = call[u]
      /\ UNCHANGED <<ns, used, disk, view, intx, pend, reading>>
  BY <1>0, <1>1, SMT DEF Report, ims_async_put_task, Idle, brick, conn
<1>3. call[t].task \in Task
  BY <1>0, <1>2 DEF At, Inv, CallOK, TaskFits
<1>4. call'[Worker] = call[Worker]
  BY <1>0, <1>2
<1>5. base' = disk' /\ doubtful \subseteq doubtful'
  BY <1>0, <1>2, <1>4, DoubtKept DEF Follows, Calm, At
<1>6. Calm' /\ Warned'
  BY <1>2, <1>4, <1>5 DEF Calm, Warned, At
<1>7. Todo' = Append(Todo, call[t].task)
  <2> DEFINE first == IF At(Worker, "idle") THEN << >> ELSE <<call[Worker].task>>
  <2>1. queue \in Seq(Task) /\ (~At(Worker, "idle") => call[Worker].task \in Task)
    BY TodoTypes
  <2>2. << >> \in Seq(Task) /\ (~At(Worker, "idle") => <<call[Worker].task>> \in Seq(Task))
    BY <2>1, SMT
  <2>3. first \in Seq(Task)
    BY <2>2
  <2>4. Todo = first \o queue /\ Todo' = first \o Append(queue, call[t].task)
    BY <1>2, <1>4 DEF Todo, At
  <2> HIDE DEF first
  <2> QED
    BY <1>3, <2>1, <2>3, <2>4, ConcatAppend, SMT
<1>8. \A u \in Thread : Reports(u) <=> u = t
  BY <1>2 DEF Reports, At, Proc
<1>9. ASSUME NEW gfid \in Gfid
      PROVE  last'[gfid] = IF Tells(call[t].task, gfid) THEN call[t].task.sb ELSE last[gfid]
  <2> DEFINE about == {call[p].task :
                         p \in {p \in Thread : Reports(p) /\ call[p].task.op \in {"insert", "update"}}}
  <2>1. \A task \in about : task = call[t].task /\ task.op \in {"insert", "update"}
    BY <1>8
  <2>2. call[t].task.op \in {"insert", "update"} => call[t].task \in about
    BY <1>8
  <2>3. LastOf(gfid) = IF \E task \in about : task.gfid = gfid
                       THEN (CHOOSE task \in about : task.gfid = gfid).sb
                       ELSE last[gfid]
    BY DEF LastOf
  <2> HIDE DEF about
  <2>4. CASE Tells(call[t].task, gfid)
    <3>1. call[t].task \in about /\ call[t].task.gfid = gfid
      BY <2>2, <2>4 DEF Tells
    <3>2. (CHOOSE task \in about : task.gfid = gfid) = call[t].task
      BY <2>1, <3>1
    <3> QED
      BY <2>3, <2>4, <3>1, <3>2 DEF Remembers
  <2>5. CASE ~Tells(call[t].task, gfid)
    <3>1. ~ \E task \in about : task.gfid = gfid
      BY <2>1, <2>5 DEF Tells
    <3> QED
      BY <2>3, <2>5, <3>1 DEF Remembers
  <2> QED
    BY <2>4, <2>5
<1> QED
  BY <1>2, <1>5, <1>6, <1>7, <1>9 DEF Queues, Proc

LEMMA WorkStays ==
  ASSUME AsyncUpdate, Inv, DataOK, Calm, Warned, Follows, Remembers, ims_async_work
  PROVE  Calm' /\ Warned' /\ Stays
<1>0. /\ call \in [Proc -> [pc : Pc, task : Task \cup {NoTask}, gid : Nat]]
      /\ Worker \in Proc /\ \A t \in Thread : t # Worker
  BY WorkerTypes, ServerAssumption
<1> DEFINE entry == Entry(Head(queue))
<1>1. /\ At(Worker, "idle") /\ queue # << >> /\ queue' = Tail(queue)
      /\ UNCHANGED <<ns, used, disk, view, intx, pend, reading>>
      /\ call'[Worker].pc = entry /\ call'[Worker].task = Head(queue)
      /\ \A t \in Thread : call'[t] = call[t]
  BY <1>0 DEF ims_async_work, conn, brick, Proc
<1>2. Head(queue) \in Task
  BY <1>1, SMT DEF Inv, CallOK
<1>3. /\ entry \in {"begin", "ugid", "xbegin", "link", "unlink", "rename"}
      /\ Head(queue).op = "rename" => entry = "rename"
  BY <1>2 DEF Entry, Task, InsertTask, UnlinkTask, UpdateTask, LinkTask,
              RenameTask, XattrTask
<1> HIDE DEF entry
<1>4. base' = disk' /\ doubtful \subseteq doubtful' /\ ~intx
  BY <1>0, <1>1, <1>3, DoubtKept DEF Follows, Calm, At, TxPc, StatName
<1>5. Calm' /\ Warned'
  BY <1>1, <1>2, <1>3, <1>4 DEF Calm, Warned, At
<1>6. Todo' = Todo
  <2>1. queue \in Seq(Task)
    BY TodoTypes
  <2>2. Todo = << >> \o queue /\ Todo' = <<Head(queue)>> \o Tail(queue)
    BY <1>1, <1>3 DEF Todo, At
  <2> QED
    BY <1>1, <2>1, <2>2, ConcatNone, FirstConcat
<1>7. \A gfid \in Gfid : last'[gfid] = last[gfid]
  BY <1>1, NothingTold DEF Reports, At
<1> QED
  BY <1>1, <1>4, <1>5, <1>6, <1>7 DEF Stays

LEMMA StatementFinishes ==
  ASSUME AsyncUpdate, Inv, DataOK, Progress, Calm, Warned, Follows, Remembers,
         Statement(Worker)
  PROVE  Calm' /\ Warned' /\ (Stays \/ \E task \in Task : Finishes(task, Effect(disk, task, StatName)))
<1> DEFINE w == call[Worker]
           task == w.task
           r == Effect(disk, task, StatName)
<1>1. Works
  BY StatementWorks
<1>2. Worker \in Proc /\ ~At(Worker, "idle") /\ \A t \in Thread : call'[t] = call[t]
  BY <1>1 DEF Works, Proc, At
<1>3. doubtful \subseteq doubtful' /\ Doubt(Worker) \subseteq doubtful'
  BY <1>2, DoubtKept
<1>4. \A gfid \in Gfid : last'[gfid] = last[gfid]
  BY <1>2, NothingTold DEF Reports, At
<1>5. /\ Todo # << >> /\ Head(Todo) = task /\ Tail(Todo) = queue
      /\ task \in Task /\ queue \in Seq(Task) /\ Todo = <<task>> \o queue
  BY <1>2, TodoTypes DEF Todo
<1>6. Calm'
  BY <1>1, <1>5 DEF Works, Calm
<1>7. Warned'
  <2>1. CASE call'[Worker].pc = "warn"
    <3>1. Doubt(Worker) = Touches(task)
      BY <1>2, <2>1 DEF Doubt
    <3>2. call'[Worker].task = task
      BY <1>1, <2>1 DEF Works
    <3>3. Touches(call'[Worker].task) = Touches(task)
      BY <3>2
    <3> QED
      BY <1>3, <3>1, <3>3 DEF Warned, Touches
  <2> QED
    BY <2>1 DEF Warned, At
<1>8. CASE call'[Worker].pc # "idle"
  <2>1. /\ call'[Worker].task = task /\ UNCHANGED <<disk, queue, ns, used>>
    BY <1>1, <1>8 DEF Works
  <2>2. Todo' = Todo
    BY <1>2, <1>8, <2>1 DEF Todo, At
  <2> QED
    BY <1>2, <1>3, <1>4, <1>6, <1>7, <2>1, <2>2 DEF Stays
<1>9. CASE call'[Worker].pc = "idle"
  <2>1. /\ disk' = IF r.ok THEN r.db ELSE disk
        /\ ~r.ok => w.pc = "warn"
        /\ UNCHANGED <<queue, ns, used>>
    BY <1>1, <1>9 DEF Works
  <2> HIDE DEF r
  <2>2. Todo' = Tail(Todo)
    BY <1>5, <1>9, <2>1, ConcatNone DEF Todo, At
  <2>3. ~r.ok => Touches(task) \subseteq doubtful'
    BY <1>3, <2>1 DEF Warned, At
  <2>4. ASSUME task.op = "rename", Touches(task) \cap doubtful # {}
        PROVE  Touches(task) \subseteq doubtful'
    <3>1. At(Worker, "rename") \/ At(Worker, "warn")
      BY <1>2, <2>4 DEF Calm, At
    <3>2. CASE At(Worker, "rename")
      <4>1. Doubt(Worker) = Touches(task)
        BY <1>2, <1>9, <2>4, <3>2 DEF Doubt
      <4> QED
        BY <1>3, <4>1
    <3> QED
      BY <1>3, <3>1, <3>2 DEF Warned
  <2>5. Finishes(task, r)
    BY <1>2, <1>3, <1>4, <1>5, <2>1, <2>2, <2>3, <2>4 DEF Finishes, r
  <2> QED
    BY <1>5, <1>6, <1>7, <2>5 DEF r
<1> QED
  BY <1>8, <1>9

LEMMA Events ==
  ASSUME AsyncUpdate, ~Queries, MaxCrash = 0, Inv, DataOK, Progress, Calm, Warned,
         [NextD]_<<vars, base, doubtful, last>>
  PROVE  /\ Calm' /\ Warned'
         /\ \/ Stays
            \/ \E t \in Thread : Queues(t) \/ \E task \in Task : Begins(t, task)
            \/ \E task \in Task : Finishes(task, Effect(disk, task, StatName))
<1>1. ASSUME UNCHANGED <<vars, base, doubtful>>, \A gfid \in Gfid : last'[gfid] = last[gfid]
      PROVE  Calm' /\ Warned' /\ Stays
  BY <1>1 DEF vars, Calm, Warned, At, Stays, Todo
<1>2. CASE NextD
  <2>1. Next /\ Follows /\ Remembers
    BY <1>2 DEF NextD, NextH, Follows, Remembers
  <2>2. CASE UNCHANGED vars
    <3>1. UNCHANGED <<call, queue, disk, view, intx, pend, reading, ns, used>>
      BY <2>2 DEF vars
    <3>2. base' = disk'
      BY <2>1, <3>1 DEF Follows, Calm, At, TxPc, StatName, Inv, ConnOK
    <3>3. Worker \in Proc
      BY DEF Proc
    <3>4. doubtful \subseteq doubtful'
      BY <2>1, <3>3, DoubtKept
    <3>5. \A gfid \in Gfid : last'[gfid] = last[gfid]
      BY <2>1, <3>1, NothingTold DEF Reports, At
    <3> QED
      BY <3>1, <3>2, <3>4, <3>5 DEF Calm, Warned, At, Stays, Todo
  <2>3. ASSUME NEW t \in Thread, Fop(t) \/ Cbk(t)
        PROVE  /\ Calm' /\ Warned'
               /\ Stays \/ Queues(t) \/ \E task \in Task : Begins(t, task)
    BY <2>1, <2>3, FopBegins, CbkQueues
  <2>4. CASE ims_async_work
    BY <2>1, <2>4, WorkStays
  <2>5. CASE Statement(Worker)
    BY <2>1, <2>5, StatementFinishes
  <2>6. ~reading
    BY DEF Calm
  <2> QED
    BY <2>1, <2>2, <2>3, <2>4, <2>5, <2>6, Kinds
<1> QED
  BY <1>1, <1>2

-----------------------------------------------------------------------------
(* What a task does to the attributes in the index.                        *)

\* get_gid finds the row of a file.
LEMMA GidOf ==
  ASSUME NEW db \in Db, Distinct(db), NEW gfid
  PROVE  /\ GET_GID(db, gfid) # 0 =>
              GET_GID(db, gfid) \in Gids(db) /\ db.xgfid[GET_GID(db, gfid)] = gfid
         /\ \A gid \in Gids(db) : db.xgfid[gid] = gfid => GET_GID(db, gfid) = gid /\ gid # 0
<1>1. 0 \notin Gids(db)
  BY SMT DEF Gids, Db
<1>2. CASE \E gid \in Gids(db) : db.xgfid[gid] = gfid
  <2>1. GET_GID(db, gfid) \in Gids(db) /\ db.xgfid[GET_GID(db, gfid)] = gfid
    BY <1>2 DEF GET_GID
  <2> QED
    BY <1>1, <2>1 DEF Distinct
<1>3. CASE ~ \E gid \in Gids(db) : db.xgfid[gid] = gfid
  BY <1>3 DEF GET_GID
<1> QED
  BY <1>2, <1>3

\* What holds of the result of a task, for a database and for what it becomes.
Attributes(db, new, task) ==
  /\ Distinct(new)
  /\ \A gfid \in Gfid : ~Makes(task, gfid) => GET_GID(new, gfid) = GET_GID(db, gfid)
  /\ \A gfid \in Gfid : Tells(task, gfid) /\ GET_GID(new, gfid) # 0 =>
       Stats(new, GET_GID(new, gfid), task.sb)
  /\ \A gfid \in Gfid : ~Tells(task, gfid) /\ GET_GID(db, gfid) # 0 =>
       Rows(new, GET_GID(db, gfid), StatName) = Rows(db, GET_GID(db, gfid), StatName)

\* link, unlink and rename leave attributes alone.
LEMMA SingleAttributes ==
  ASSUME NEW db \in Db, Distinct(db), NEW task, task.op \notin {"insert", "update"}, NEW new,
         new.xgfid = db.xgfid,
         \A gid : Rows(new, gid, StatName) = Rows(db, gid, StatName)
  PROVE  Attributes(db, new, task)
<1>1. Distinct(new)
  BY DEF Distinct, Gids
<1>2. \A gfid : GET_GID(new, gfid) = GET_GID(db, gfid)
  BY GetGidSame
<1> QED
  BY <1>1, <1>2 DEF Attributes, Tells

LEMMA XattrAttributes ==
  ASSUME NEW db \in Db, Distinct(db), NEW task \in XattrTask, NEW r,
         r = Effect(db, task, StatName), r.ok
  PROVE  Attributes(db, r.db, task)
<1> DEFINE mid == INSERT_XNAME(db, task.name).db
           gid == GET_GID(mid, task.gfid)
           rows == (mid.xdata \ Rows(mid, gid, {task.name}))
                     \cup {<<gid, task.name, task.val>>}
           new == [mid EXCEPT !.xdata = rows]
<1>1. task.op = "xattr" /\ task.name \in XName /\ task.name \notin StatName
  BY NamesAssumption DEF XattrTask
<1>2. r = INSERT_XDATA(mid, task.gfid, task.name, task.val)
  BY <1>1, XattrEffect
<1>3. mid \in Db /\ mid.xgfid = db.xgfid /\ mid.xdata = db.xdata
  BY <1>1, KeepsInsertXname, FileLeavesRows DEF Keeps, Grows
<1> HIDE DEF mid
<1>4. r.db = new
  BY <1>2, SMT DEF INSERT_XDATA, Done, Constraint
<1>5. new.xgfid = mid.xgfid /\ new.xdata = rows
  BY <1>3, SMT DEF Db
<1>6. ASSUME NEW g PROVE Rows(r.db, g, StatName) = Rows(db, g, StatName)
  <2>1. \A row \in Rows(mid, gid, {task.name}) : row[2] \notin StatName
    BY <1>1 DEF Rows
  <2>2. <<gid, task.name, task.val>>[2] \notin StatName
    BY <1>1
  <2>3. Rows(r.db, g, StatName) = {row \in rows : row[1] = g /\ row[2] \in StatName}
    BY <1>4, <1>5 DEF Rows
  <2>4. Rows(db, g, StatName) = {row \in mid.xdata : row[1] = g /\ row[2] \in StatName}
    BY <1>3 DEF Rows
  <2> QED
    BY <2>1, <2>2, <2>3, <2>4
<1>7. r.db.xgfid = db.xgfid
  BY <1>3, <1>4, <1>5
<1> QED
  BY <1>1, <1>6, <1>7, SingleAttributes

LEMMA UpdateAttributes ==
  ASSUME NEW db \in Db, Distinct(db), Statted(db), NEW task \in UpdateTask, NEW r,
         r = Effect(db, task, StatName), r.ok
  PROVE  Attributes(db, r.db, task)
<1> DEFINE gid == GET_GID(db, task.gfid)
           Now(row) == NewRow(row, gid, task.sb, StatName)
           rows == {Now(row) : row \in db.xdata}
<1>1. task.op = "update" /\ gid # 0
  BY SMT DEF UpdateTask, Effect, Constraint
<1>2. r.db = Updated(db, gid, task.sb, StatName)
  BY <1>1, UpdatedAll, SMT DEF Done
<1>3. r.db.xdata = rows /\ r.db.xgfid = db.xgfid
  <2>1. r.db = [db EXCEPT !.xdata = rows]
    BY <1>2 DEF Updated, NewRow
  <2> HIDE DEF rows
  <2> QED
    BY <2>1 DEF Db
<1>4. \A row \in db.xdata : Now(row)[1] = row[1] /\ Now(row)[2] = row[2]
  BY DEF Db, NewRow
<1>5. \A row \in db.xdata : ~(row[1] = gid /\ row[2] \in StatName) => Now(row) = row
  BY DEF NewRow
<1>6. \A row \in db.xdata : row[1] = gid /\ row[2] \in StatName =>
        Now(row) = <<gid, row[2], task.sb[row[2]]>>
  BY DEF NewRow
<1> HIDE DEF Now
<1>7. ASSUME NEW g, g # gid PROVE Rows(r.db, g, StatName) = Rows(db, g, StatName)
  BY <1>3, <1>4, <1>5, <1>7 DEF Rows
<1>8. Stats(r.db, gid, task.sb)
  <2>1. gid \in Gids(db)
    BY <1>1, GidOf
  <2>2. PICK sb \in Stat : Rows(db, gid, StatName) = {<<gid, n, sb[n]>> : n \in StatName}
    BY <2>1 DEF Statted, Stats
  <2>3. ASSUME NEW n \in StatName PROVE <<gid, n, task.sb[n]>> \in Rows(r.db, gid, StatName)
    <3>1. <<gid, n, sb[n]>> \in Rows(db, gid, StatName)
      BY <2>2
    <3> DEFINE row == <<gid, n, sb[n]>>
    <3>2. row \in db.xdata /\ row[1] = gid /\ row[2] = n
      BY <3>1 DEF Rows
    <3>3. Now(row) = <<gid, n, task.sb[n]>>
      BY <1>6, <3>2
    <3>4. Now(row) \in rows
      BY <3>2
    <3> HIDE DEF row
    <3>5. <<gid, n, task.sb[n]>> \in r.db.xdata
      BY <1>3, <3>3, <3>4
    <3> QED
      BY <3>5 DEF Rows
  <2>4. ASSUME NEW row \in Rows(r.db, gid, StatName)
        PROVE  row \in {<<gid, n, task.sb[n]>> : n \in StatName}
    <3>1. PICK was \in db.xdata : row = Now(was)
      BY <1>3 DEF Rows
    <3>2. was[1] = gid /\ was[2] \in StatName
      BY <1>4, <3>1 DEF Rows
    <3> QED
      BY <1>6, <3>1, <3>2
  <2> QED
    BY <2>3, <2>4 DEF Stats
<1>9. \A gfid : GET_GID(r.db, gfid) = GET_GID(db, gfid)
  BY <1>3, GetGidSame
<1>10. Distinct(r.db)
  BY <1>3 DEF Distinct, Gids
<1>11. \A gfid \in Gfid : Tells(task, gfid) <=> gfid = task.gfid
  BY <1>1 DEF Tells
<1>12. \A gfid \in Gfid : gfid # task.gfid /\ GET_GID(db, gfid) # 0 => GET_GID(db, gfid) # gid
  BY <1>1, GidOf, SMT
<1> QED
  BY <1>7, <1>8, <1>9, <1>10, <1>11, <1>12 DEF Attributes

\* A new file.
LEMMA InsertAttributes ==
  ASSUME NEW db \in Db, Distinct(db), NEW task \in InsertTask, NEW r,
         r = Effect(db, task, StatName), r.ok
  PROVE  Attributes(db, r.db, task)
<1> DEFINE a == INSERT_GFID(db, task.gfid)
           b == INSERT_FILE(a.db, task.gfid, task.path)
           gid == GET_GID(b.db, task.gfid)
           rows == b.db.xdata \cup {<<gid, n, task.sb[n]>> : n \in StatName}
<1>1. /\ task.op = "insert" /\ task.gfid \in Gfid /\ task.path \in Path
      /\ a.ok \in BOOLEAN /\ b.ok \in BOOLEAN
  BY DEF InsertTask, INSERT_GFID, INSERT_FILE, Done, Constraint
<1>2. a.ok /\ b.ok /\ r = INSERT_STAT(b.db, gid, task.sb)
  <2>1. r = IF a.ok THEN IF b.ok THEN INSERT_STAT(b.db, gid, task.sb) ELSE b ELSE a
    BY <1>1, InsertEffect
  <2> HIDE DEF a, b
  <2> QED
    BY <1>1, <2>1
<1>3. /\ a.db \in Db /\ a.db.xgfid = Append(db.xgfid, task.gfid) /\ a.db.xdata = db.xdata
      /\ GET_GID(db, task.gfid) = 0
  <2>1. a.db \in Db
    BY <1>1, KeepsInsertGfid DEF Keeps, Grows
  <2>2. GET_GID(db, task.gfid) = 0
    BY <1>2, SMT DEF INSERT_GFID, Constraint
  <2> QED
    BY <1>1, <1>2, <2>1, <2>2, InsertedGfid
<1> HIDE DEF a
<1>4. /\ b.db \in Db /\ b.db.xgfid = a.db.xgfid /\ b.db.xdata = a.db.xdata
  BY <1>1, <1>3, KeepsInsertFile, FileLeavesRows DEF Keeps, Grows
<1> HIDE DEF b
<1>5. /\ Rows(b.db, gid, StatName) = {}
      /\ r.db = [b.db EXCEPT !.xdata = rows]
  <2>1. CASE Rows(b.db, gid, StatName) = {}
    BY <1>2, <2>1, SMT DEF INSERT_STAT, Done
  <2>2. CASE Rows(b.db, gid, StatName) # {}
    BY <1>2, <2>2, SMT DEF INSERT_STAT, Constraint
  <2> QED
    BY <2>1, <2>2
<1> HIDE DEF gid
<1>6. r.db.xgfid = Append(db.xgfid, task.gfid) /\ r.db.xdata = rows /\ r.db \in Db
  <2>1. r.db.xgfid = b.db.xgfid /\ r.db.xdata = rows
    <3> HIDE DEF rows
    <3> QED
      BY <1>4, <1>5 DEF Db
  <2>2. rows \in SUBSET (Nat \X Name \X Val)
    <3>1. gid \in Nat
      <4>1. GET_GID(b.db, task.gfid) \in 0 .. Len(b.db.xgfid)
        BY <1>4, GetGid
      <4>2. Len(b.db.xgfid) \in Nat
        BY <1>4, SMT DEF Db
      <4> QED
        BY <4>1, <4>2, SMT DEF gid
    <3>2. \A n \in StatName : n \in Name /\ task.sb[n] \in Val
      BY DEF InsertTask, Stat, Name
    <3> QED
      BY <1>4, <3>1, <3>2, SMT DEF Db
  <2>3. r.db \in Db
    <3> HIDE DEF rows
    <3> QED
      BY <1>4, <1>5, <2>2, KeepsData DEF Grows
  <2> QED
    BY <1>3, <1>4, <2>1, <2>3
<1>7. PICK n \in Nat : n = Len(db.xgfid)
  BY SMT DEF Db
<1>8. /\ Len(r.db.xgfid) = n + 1 /\ r.db.xgfid[n + 1] = task.gfid
      /\ \A i \in 1 .. n : r.db.xgfid[i] = db.xgfid[i]
  BY <1>1, <1>6, <1>7, SMT DEF Db
<1>9. \A i \in 1 .. n : db.xgfid[i] # task.gfid
  BY <1>3, <1>7, GidOf DEF Gids
<1>10. Distinct(r.db)
  <2>1. \A g, h \in 1 .. n : db.xgfid[g] = db.xgfid[h] => g = h
    BY <1>7 DEF Distinct, Gids
  <2>2. \A g \in 1 .. n + 1 : g \in 1 .. n \/ g = n + 1
    BY SMT
  <2> QED
    BY <1>8, <1>9, <2>1, <2>2, SMT DEF Distinct, Gids
<1>11. ASSUME NEW gfid \in Gfid, gfid # task.gfid
       PROVE  GET_GID(r.db, gfid) = GET_GID(db, gfid)
  <2>0. \A g \in 1 .. n + 1 : g \in 1 .. n \/ g = n + 1
    BY SMT
  <2>a. Gids(db) = 1 .. n /\ Gids(r.db) = 1 .. n + 1 /\ \A g \in 1 .. n : g \in 1 .. n + 1
    BY <1>7, <1>8, SMT DEF Gids
  <2>1. CASE \E g \in Gids(db) : db.xgfid[g] = gfid
    <3>1. PICK g \in Gids(db) : db.xgfid[g] = gfid
      BY <2>1
    <3>2. g \in Gids(r.db) /\ r.db.xgfid[g] = gfid
      BY <1>8, <2>a, <3>1
    <3>3. GET_GID(db, gfid) = g
      BY <3>1, GidOf
    <3>4. GET_GID(r.db, gfid) = g
      <4>1. r.db \in Db
        BY <1>6
      <4>2. \A h \in Gids(r.db) : r.db.xgfid[h] = gfid => GET_GID(r.db, gfid) = h
        BY <1>10, <4>1, GidOf, SMT
      <4> QED
        BY <3>2, <4>2
    <3> QED
      BY <3>3, <3>4
  <2>2. CASE ~ \E g \in Gids(db) : db.xgfid[g] = gfid
    <3>1. ~ \E g \in Gids(r.db) : r.db.xgfid[g] = gfid
      BY <1>8, <1>11, <2>0, <2>a, <2>2
    <3> QED
      BY <2>2, <3>1 DEF GET_GID
  <2> QED
    BY <2>1, <2>2
<1>12. GET_GID(r.db, task.gfid) = gid
  <2>1. r.db.xgfid = b.db.xgfid
    BY <1>3, <1>4, <1>6
  <2>2. GET_GID(r.db, task.gfid) = GET_GID(b.db, task.gfid)
    BY <2>1, GetGidSame
  <2> QED
    BY <2>2 DEF gid
<1>13. Stats(r.db, gid, task.sb)
  <2>1. \A row \in b.db.xdata : ~(row[1] = gid /\ row[2] \in StatName)
    BY <1>5 DEF Rows
  <2>2. \A m \in StatName : <<gid, m, task.sb[m]>>[1] = gid /\ <<gid, m, task.sb[m]>>[2] = m
    OBVIOUS
  <2>3. Rows(r.db, gid, StatName) = {row \in rows : row[1] = gid /\ row[2] \in StatName}
    BY <1>6 DEF Rows
  <2> QED
    BY <2>1, <2>2, <2>3, SMT DEF Stats
<1>14. ASSUME NEW g, g # gid PROVE Rows(r.db, g, StatName) = Rows(db, g, StatName)
  <2>1. \A m \in StatName : <<gid, m, task.sb[m]>>[1] # g
    BY <1>14
  <2>2. Rows(r.db, g, StatName) = {row \in rows : row[1] = g /\ row[2] \in StatName}
    BY <1>6 DEF Rows
  <2>3. Rows(db, g, StatName) = {row \in b.db.xdata : row[1] = g /\ row[2] \in StatName}
    BY <1>3, <1>4 DEF Rows
  <2> QED
    BY <2>1, <2>2, <2>3
<1>15. ASSUME NEW gfid \in Gfid, gfid # task.gfid, GET_GID(db, gfid) # 0
       PROVE  GET_GID(db, gfid) # gid
  <2>1. GET_GID(r.db, gfid) # GET_GID(r.db, task.gfid) \/ GET_GID(r.db, task.gfid) = 0
    BY <1>6, <1>10, <1>15, GidOf, SMT
  <2>2. GET_GID(r.db, gfid) # 0
    BY <1>11, <1>15
  <2> QED
    BY <1>11, <1>12, <1>15, <2>1, <2>2
<1>16. \A gfid \in Gfid : /\ Tells(task, gfid) <=> gfid = task.gfid
                          /\ Makes(task, gfid) <=> gfid = task.gfid
  BY <1>1 DEF Tells, Makes
<1> QED
  BY <1>10, <1>11, <1>12, <1>13, <1>14, <1>15, <1>16 DEF Attributes

LEMMA TaskAttributes ==
  ASSUME NEW db \in Db, Distinct(db), Statted(db), NEW task \in Task, NEW r,
         r = Effect(db, task, StatName), r.ok
  PROVE  Attributes(db, r.db, task)
<1>1. ASSUME task.op \in {"link", "unlink", "rename"},
             r.db.xgfid = db.xgfid, r.db.xdata = db.xdata
      PROVE  Attributes(db, r.db, task)
  <2>1. \A gid : Rows(r.db, gid, StatName) = Rows(db, gid, StatName)
    BY <1>1 DEF Rows
  <2> QED
    BY <1>1, <2>1, SingleAttributes
<1>2. CASE task \in LinkTask
  <2>1. task.op = "link"
    BY <1>2 DEF LinkTask
  <2>2. r = INSERT_FILE(db, task.gfid, task.path)
    BY <2>1, SingleEffect
  <2> QED
    BY <1>1, <2>1, <2>2, FileLeavesRows, SMT
<1>3. CASE task \in UnlinkTask
  <2>1. task.op = "unlink"
    BY <1>3 DEF UnlinkTask
  <2>2. r = UNLINK_FILE(db, task.path)
    BY <2>1, SingleEffect
  <2> QED
    BY <1>1, <2>1, <2>2, FileLeavesRows, SMT
<1>4. CASE task \in RenameTask
  <2>1. task.op = "rename"
    BY <1>4 DEF RenameTask
  <2>2. r = RENAME(db, task.path, task.extra)
    BY <2>1, SingleEffect
  <2> QED
    BY <1>1, <2>1, <2>2, FileLeavesRows, SMT
<1> QED
  BY <1>2, <1>3, <1>4, InsertAttributes, UpdateAttributes, XattrAttributes DEF Task

-----------------------------------------------------------------------------
(* The attributes.                                                         *)

LEMMA AppendIs ==
  ASSUME NEW S, NEW s \in Seq(S), NEW e \in S, NEW q, q = Append(s, e)
  PROVE  \E n \in Nat : /\ Len(s) = n /\ Len(q) = n + 1 /\ q[n + 1] = e
                        /\ \A i \in 1 .. n : q[i] = s[i]
                        /\ \A i \in 1 .. n + 1 : i \in 1 .. n \/ i = n + 1
                        /\ \A i \in 1 .. n : i \in 1 .. n + 1 /\ i # n + 1 /\ ~(n + 1 <= i)
                        /\ n + 1 \in 1 .. n + 1 /\ \A i \in 1 .. n + 1 : i <= n + 1
BY SMT

LEMMA TailIs ==
  ASSUME NEW S, NEW s \in Seq(S), s # << >>, NEW q, q = Tail(s)
  PROVE  \E n \in Nat : /\ Len(s) = n + 1 /\ Len(q) = n /\ s[1] = Head(s)
                        /\ \A i \in 1 .. n : q[i] = s[i + 1]
                        /\ \A i \in 1 .. n + 1 : i = 1 \/ \E j \in 1 .. n : i = j + 1
                        /\ \A i \in 1 .. n : i + 1 \in 1 .. n + 1 /\ 1 <= i + 1 /\ i + 1 # 1
                        /\ 1 \in 1 .. n + 1 /\ 1 <= 1
                        /\ \A i, j \in 1 .. n : /\ i <= j <=> i + 1 <= j + 1
                                                /\ i + 1 = j + 1 => i = j
BY SMT

LEMMA AttrStays ==
  ASSUME AttrInv, Stays
  PROVE  AttrInv'
<1>1. disk' = disk /\ Todo' = Todo
  BY DEF Stays
<1>2. Distinct(disk') /\ Statted(disk')
  BY <1>1 DEF AttrInv
<1>3. ASSUME NEW gfid \in Gfid PROVE Latest(gfid)'
  <2>1. last'[gfid] = last[gfid] /\ Latest(gfid)
    BY DEF Stays, AttrInv
  <2> QED
    BY <1>1, <2>1 DEF Latest
<1>4. ASSUME NEW gfid \in Gfid PROVE Once(gfid)'
  <2>1. Once(gfid) /\ used \subseteq used'
    BY DEF Stays, AttrInv
  <2>2. \A t \in Thread : Coming(t, gfid)' <=> Coming(t, gfid)
    BY DEF Stays, Coming, At
  <2> QED
    BY <1>1, <2>1, <2>2 DEF Once
<1> QED
  BY <1>2, <1>3, <1>4 DEF AttrInv

LEMMA AttrBegins ==
  ASSUME AttrInv, NEW t \in Thread, NEW task \in Task, Begins(t, task)
  PROVE  AttrInv'
<1>1. disk' = disk /\ Todo' = Todo
  BY DEF Begins
<1>2. Distinct(disk') /\ Statted(disk')
  BY <1>1 DEF AttrInv
<1>3. ASSUME NEW gfid \in Gfid PROVE Latest(gfid)'
  <2>1. last'[gfid] = last[gfid] /\ Latest(gfid)
    BY DEF Begins, AttrInv
  <2> QED
    BY <1>1, <2>1 DEF Latest
<1>4. ASSUME NEW gfid \in Gfid PROVE Once(gfid)'
  <2>1. Once(gfid) /\ used \subseteq used'
    BY DEF Begins, Starts, AttrInv
  <2>2. \A u \in Thread : u # t => (Coming(u, gfid)' <=> Coming(u, gfid))
    BY DEF Begins, Coming, At
  <2>3. Coming(t, gfid)' => gfid \notin used /\ gfid \in used'
    BY DEF Begins, Starts, Coming, Makes
  <2>4. gfid \notin used => /\ \A u \in Thread : ~Coming(u, gfid)
                            /\ \A i \in 1 .. Len(Todo) : ~Makes(Todo[i], gfid)
                            /\ GET_GID(disk, gfid) = 0
    BY <2>1 DEF Once
  <2>5. ASSUME NEW u \in Thread, Coming(u, gfid)'
        PROVE  /\ gfid \in used' /\ GET_GID(disk, gfid) = 0
               /\ \A i \in 1 .. Len(Todo) : ~Makes(Todo[i], gfid)
               /\ \A v \in Thread : Coming(v, gfid)' => v = u
    <3>1. CASE Coming(t, gfid)'
      <4>1. \A v \in Thread : Coming(v, gfid)' => v = t
        BY <2>2, <2>3, <2>4, <3>1
      <4> QED
        BY <2>3, <2>4, <2>5, <3>1, <4>1
    <3>2. CASE ~Coming(t, gfid)'
      BY <2>1, <2>2, <2>5, <3>2 DEF Once
    <3> QED
      BY <3>1, <3>2
  <2> QED
    BY <1>1, <2>1, <2>5 DEF Once
<1> QED
  BY <1>2, <1>3, <1>4 DEF AttrInv

LEMMA AttrQueues ==
  ASSUME Inv, Calm, AttrInv, NEW t \in Thread, Queues(t)
  PROVE  AttrInv'
<1> DEFINE task == call[t].task
<1>1. disk' = disk /\ Todo' = Append(Todo, task) /\ used' = used
  BY DEF Queues
<1>2. task \in Task /\ Todo \in Seq(Task)
  BY TodoTypes DEF Queues, At, Inv, CallOK, TaskFits, Proc
<1>3. PICK n \in Nat :
        /\ Len(Todo) = n /\ Len(Todo') = n + 1 /\ Todo'[n + 1] = task
        /\ \A i \in 1 .. n : Todo'[i] = Todo[i]
        /\ \A i \in 1 .. n + 1 : i \in 1 .. n \/ i = n + 1
        /\ \A i \in 1 .. n : i \in 1 .. n + 1 /\ i # n + 1 /\ ~(n + 1 <= i)
        /\ n + 1 \in 1 .. n + 1 /\ \A i \in 1 .. n + 1 : i <= n + 1
  BY <1>1, <1>2, AppendIs, SMT
<1>4. Distinct(disk') /\ Statted(disk')
  BY <1>1 DEF AttrInv
<1>5. ASSUME NEW gfid \in Gfid PROVE Latest(gfid)'
  <2>1. Latest(gfid) /\ last'[gfid] = IF Tells(task, gfid) THEN task.sb ELSE last[gfid]
    BY DEF Queues, AttrInv
  <2> HIDE DEF task
  <2>2. CASE Tells(task, gfid)
    <3>1. last'[gfid] = task.sb
      BY <2>1, <2>2
    <3>2. ASSUME NEW i \in 1 .. n + 1,
                 \A j \in 1 .. n + 1 : Tells(Todo'[j], gfid) => j <= i
          PROVE  Todo'[i].sb = last'[gfid]
      BY <1>3, <2>2, <3>1, <3>2
    <3> QED
      BY <1>3, <2>2, <3>2 DEF Latest
  <2>3. CASE ~Tells(task, gfid)
    <3>1. last'[gfid] = last[gfid]
      BY <2>1, <2>3
    <3>2. ASSUME NEW i \in 1 .. n + 1, Tells(Todo'[i], gfid),
                 \A j \in 1 .. n + 1 : Tells(Todo'[j], gfid) => j <= i
          PROVE  Todo'[i].sb = last'[gfid]
      <4>1. i \in 1 .. n /\ Todo'[i] = Todo[i]
        BY <1>3, <2>3, <3>2
      <4>2. \A j \in 1 .. n : Tells(Todo[j], gfid) => j <= i
        BY <1>3, <3>2
      <4> QED
        BY <1>3, <2>1, <3>1, <3>2, <4>1, <4>2 DEF Latest
    <3>3. (\A i \in 1 .. n + 1 : ~Tells(Todo'[i], gfid)) =>
            \A i \in 1 .. n : ~Tells(Todo[i], gfid)
      BY <1>3
    <3> QED
      BY <1>1, <1>3, <2>1, <3>1, <3>2, <3>3 DEF Latest
  <2> QED
    BY <2>2, <2>3
<1>6. ASSUME NEW gfid \in Gfid PROVE Once(gfid)'
  <2>1. Once(gfid)
    BY DEF AttrInv
  <2>2. /\ ~Coming(t, gfid)'
        /\ \A u \in Thread : u # t => (Coming(u, gfid)' <=> Coming(u, gfid))
    BY DEF Queues, Coming, At
  <2>3. Makes(task, gfid) <=> Coming(t, gfid)
    BY DEF Queues, Coming
  <2> HIDE DEF task
  <2>4. ASSUME NEW u \in Thread, Coming(u, gfid)'
        PROVE  /\ gfid \in used' /\ GET_GID(disk, gfid) = 0
               /\ \A i \in 1 .. n + 1 : ~Makes(Todo'[i], gfid)
               /\ \A v \in Thread : Coming(v, gfid)' => v = u
    <3>1. u # t /\ Coming(u, gfid)
      BY <2>2, <2>4
    <3>2. ~Makes(task, gfid)
      BY <2>1, <2>3, <3>1 DEF Once
    <3> QED
      BY <1>1, <1>3, <2>1, <2>2, <3>1, <3>2 DEF Once
  <2>5. ASSUME NEW i \in 1 .. n + 1, Makes(Todo'[i], gfid)
        PROVE  /\ gfid \in used' /\ GET_GID(disk, gfid) = 0
               /\ \A j \in 1 .. n + 1 : Makes(Todo'[j], gfid) => j = i
    <3>1. CASE i = n + 1
      <4>1. Coming(t, gfid)
        BY <1>3, <2>3, <2>5, <3>1
      <4>2. gfid \in used /\ GET_GID(disk, gfid) = 0 /\ \A j \in 1 .. n : ~Makes(Todo[j], gfid)
        BY <1>3, <2>1, <4>1 DEF Once
      <4> QED
        BY <1>1, <1>3, <3>1, <4>2
    <3>2. CASE i \in 1 .. n
      <4>1. Makes(Todo[i], gfid)
        BY <1>3, <2>5, <3>2
      <4>2. /\ gfid \in used /\ GET_GID(disk, gfid) = 0
            /\ \A j \in 1 .. n : Makes(Todo[j], gfid) => j = i
        BY <1>3, <2>1, <3>2, <4>1 DEF Once
      <4>3. ~Makes(task, gfid)
        BY <1>3, <2>1, <2>3, <3>2, <4>1 DEF Once
      <4> QED
        BY <1>1, <1>3, <4>2, <4>3
    <3> QED
      BY <1>3, <3>1, <3>2
  <2>6. GET_GID(disk, gfid) # 0 => gfid \in used
    BY <2>1 DEF Once
  <2> QED
    BY <1>1, <1>3, <2>4, <2>5, <2>6 DEF Once
<1> QED
  BY <1>4, <1>5, <1>6 DEF AttrInv

LEMMA AttrFinishes ==
  ASSUME Inv, Calm, disk \in Db, disk' \in Db, AttrInv, NEW task \in Task,
         Finishes(task, Effect(disk, task, StatName))
  PROVE  AttrInv'
<1> DEFINE r == Effect(disk, task, StatName)
<1>0. /\ Todo # << >> /\ task = Head(Todo) /\ Todo' = Tail(Todo) /\ used' = used
      /\ r.ok => disk' = r.db
      /\ ~r.ok => disk' = disk
  BY DEF Finishes
<1>1. Todo \in Seq(Task)
  BY TodoTypes
<1>2. PICK n \in Nat :
        /\ Len(Todo) = n + 1 /\ Len(Todo') = n /\ Todo[1] = task
        /\ \A i \in 1 .. n : Todo'[i] = Todo[i + 1]
        /\ \A i \in 1 .. n + 1 : i = 1 \/ \E j \in 1 .. n : i = j + 1
        /\ \A i \in 1 .. n : i + 1 \in 1 .. n + 1 /\ 1 <= i + 1 /\ i + 1 # 1
        /\ 1 \in 1 .. n + 1 /\ 1 <= 1
        /\ \A i, j \in 1 .. n : (i <= j <=> i + 1 <= j + 1) /\ (i + 1 = j + 1 => i = j)
  BY <1>0, <1>1, TailIs, SMT
<1>3. Distinct(disk) /\ Statted(disk) /\ \A gfid \in Gfid : Latest(gfid) /\ Once(gfid)
  BY DEF AttrInv
<1>4. r.ok => Attributes(disk, disk', task)
  BY <1>0, <1>3, TaskAttributes
<1>5. ASSUME NEW gfid \in Gfid, ~r.ok, Tells(task, gfid) PROVE GET_GID(disk, gfid) = 0
  <2>1. CASE task.op = "insert"
    BY <1>2, <1>3, <1>5, <2>1 DEF Once, Makes, Tells
  <2>2. CASE task.op = "update"
    <3>1. ASSUME GET_GID(disk, task.gfid) # 0 PROVE r.ok
      BY <2>2, <3>1 DEF Effect, Done
    <3> QED
      BY <1>5, <3>1 DEF Tells
  <2> QED
    BY <1>5, <2>1, <2>2 DEF Tells
<1> HIDE DEF r
<1>6. ASSUME NEW gfid \in Gfid, ~Makes(task, gfid)
      PROVE  GET_GID(disk', gfid) = GET_GID(disk, gfid)
  BY <1>0, <1>4, <1>6 DEF Attributes
<1>7. ASSUME NEW gfid \in Gfid, ~Tells(task, gfid), GET_GID(disk, gfid) # 0
      PROVE  Rows(disk', GET_GID(disk, gfid), StatName) = Rows(disk, GET_GID(disk, gfid), StatName)
  BY <1>0, <1>4, <1>7 DEF Attributes
<1>8. ASSUME NEW gfid \in Gfid, Tells(task, gfid), GET_GID(disk', gfid) # 0
      PROVE  r.ok /\ Stats(disk', GET_GID(disk', gfid), task.sb)
  BY <1>0, <1>4, <1>5, <1>8 DEF Attributes
<1>9. Distinct(disk')
  BY <1>0, <1>3, <1>4 DEF Attributes
<1>10. Statted(disk')
  <2>1. SUFFICES ASSUME NEW gid \in Gids(disk') PROVE \E sb \in Stat : Stats(disk', gid, sb)
    BY DEF Statted
  <2> DEFINE gfid == disk'.xgfid[gid]
  <2>2. gfid \in Gfid
    BY SMT DEF Gids, Db
  <2>3. GET_GID(disk', gfid) = gid /\ gid # 0
    BY <1>9, GidOf
  <2> HIDE DEF gfid
  <2>4. CASE Tells(task, gfid)
    <3>1. Stats(disk', gid, task.sb)
      BY <1>8, <2>2, <2>3, <2>4
    <3>2. task.sb \in Stat
      BY <2>4 DEF Tells, Task, InsertTask, UpdateTask, XattrTask, LinkTask, UnlinkTask, RenameTask
    <3> QED
      BY <3>1, <3>2
  <2>5. CASE ~Tells(task, gfid)
    <3>1. GET_GID(disk, gfid) = gid
      BY <1>6, <2>2, <2>3, <2>5 DEF Tells, Makes
    <3>2. gid \in Gids(disk)
      BY <1>3, <2>3, <3>1, GidOf
    <3>3. PICK sb \in Stat : Stats(disk, gid, sb)
      BY <1>3, <3>2 DEF Statted
    <3>4. Stats(disk', gid, sb)
      BY <1>7, <2>2, <2>3, <2>5, <3>1, <3>3 DEF Stats
    <3> QED
      BY <3>4
  <2> QED
    BY <2>4, <2>5
<1>11. ASSUME NEW gfid \in Gfid PROVE Latest(gfid)'
  <2>1. last'[gfid] = last[gfid] /\ Latest(gfid)
    BY <1>3 DEF Finishes
  <2>2. ASSUME NEW i \in 1 .. n, Tells(Todo'[i], gfid),
               \A j \in 1 .. n : Tells(Todo'[j], gfid) => j <= i
        PROVE  Todo'[i].sb = last'[gfid]
    <3>1. i + 1 \in 1 .. n + 1 /\ Tells(Todo[i + 1], gfid)
      BY <1>2, <2>2
    <3>2. ASSUME NEW j \in 1 .. n + 1, Tells(Todo[j], gfid) PROVE j <= i + 1
      <4>1. CASE j = 1
        BY <1>2, <4>1
      <4>2. CASE \E k \in 1 .. n : j = k + 1
        <5>1. PICK k \in 1 .. n : j = k + 1
          BY <4>2
        <5>2. k <= i
          BY <1>2, <2>2, <3>2, <5>1
        <5> QED
          BY <1>2, <5>1, <5>2
      <4> QED
        BY <1>2, <4>1, <4>2
    <3>3. Todo[i + 1].sb = last[gfid]
      BY <1>2, <2>1, <3>1, <3>2 DEF Latest
    <3> QED
      BY <1>2, <2>1, <3>3
  <2>3. ASSUME \A i \in 1 .. n : ~Tells(Todo'[i], gfid), GET_GID(disk', gfid) # 0
        PROVE  Stats(disk', GET_GID(disk', gfid), last'[gfid])
    <3>1. \A i \in 1 .. n + 1 : i = 1 \/ ~Tells(Todo[i], gfid)
      BY <1>2, <2>3, SMT
    <3>2. CASE Tells(task, gfid)
      <4>1. task.sb = last[gfid]
        BY <1>2, <2>1, <3>1, <3>2 DEF Latest
      <4> QED
        BY <1>8, <2>1, <2>3, <3>2, <4>1
    <3>3. CASE ~Tells(task, gfid)
      <4>1. GET_GID(disk', gfid) = GET_GID(disk, gfid)
        BY <1>6, <3>3 DEF Tells, Makes
      <4>2. Stats(disk, GET_GID(disk, gfid), last[gfid])
        BY <1>2, <2>1, <2>3, <3>1, <3>3, <4>1 DEF Latest
      <4> QED
        BY <1>7, <2>1, <2>3, <3>3, <4>1, <4>2 DEF Stats
    <3> QED
      BY <3>2, <3>3
  <2> QED
    BY <1>2, <2>2, <2>3 DEF Latest
<1>12. ASSUME NEW gfid \in Gfid PROVE Once(gfid)'
  <2>1. Once(gfid)
    BY <1>3
  <2>2. \A t \in Thread : Coming(t, gfid)' <=> Coming(t, gfid)
    BY DEF Finishes, Coming, At
  <2>3. ASSUME NEW t \in Thread, Coming(t, gfid)
        PROVE  /\ gfid \in used' /\ GET_GID(disk', gfid) = 0
               /\ \A i \in 1 .. n : ~Makes(Todo'[i], gfid)
               /\ \A u \in Thread : Coming(u, gfid) => u = t
    <3>1. ~Makes(task, gfid)
      BY <1>2, <2>1, <2>3 DEF Once
    <3> QED
      BY <1>0, <1>2, <1>6, <2>1, <2>3, <3>1 DEF Once
  <2>4. ASSUME NEW i \in 1 .. n, Makes(Todo'[i], gfid)
        PROVE  /\ gfid \in used' /\ GET_GID(disk', gfid) = 0
               /\ \A j \in 1 .. n : Makes(Todo'[j], gfid) => j = i
    <3>1. i + 1 \in 1 .. n + 1 /\ Makes(Todo[i + 1], gfid) /\ i + 1 # 1
      BY <1>2, <2>4
    <3>2. /\ gfid \in used /\ GET_GID(disk, gfid) = 0
          /\ \A j \in 1 .. n + 1 : Makes(Todo[j], gfid) => j = i + 1
      BY <1>2, <2>1, <3>1 DEF Once
    <3>3. ~Makes(task, gfid)
      BY <1>2, <3>1, <3>2
    <3> QED
      BY <1>0, <1>2, <1>6, <3>2, <3>3, SMT
  <2>5. GET_GID(disk', gfid) # 0 => gfid \in used'
    BY <1>0, <1>2, <1>6, <2>1, SMT DEF Once
  <2> QED
    BY <1>2, <2>2, <2>3, <2>4, <2>5 DEF Once
<1> QED
  BY <1>9, <1>10, <1>11, <1>12 DEF AttrInv

\* In the first state, in every step, and what follows.
LEMMA AttrInitial ==
  ASSUME InitD
  PROVE  Calm /\ Warned /\ AttrInv
<1>1. /\ disk = db_initialize /\ queue = << >> /\ base = disk /\ ~reading /\ ~pend /\ ~intx
      /\ \A p \in Proc : call[p] = Idle
  BY DEF InitD, InitH, Init
<1>2. Todo = << >> /\ \A p \in Proc : call[p].pc = "idle" /\ call[p].task = NoTask
  BY <1>1, ConcatNone, SMT DEF Todo, At, Idle, Proc
<1>3. Gids(disk) = {}
  BY <1>1, SMT DEF Gids, db_initialize
<1>4. Len(Todo) = 0 /\ 1 .. Len(Todo) = {}
  BY <1>2, SMT
<1>5. \A gfid \in Gfid : GET_GID(disk, gfid) = 0
  BY <1>3 DEF GET_GID
<1>6. AttrInv
  BY <1>2, <1>3, <1>4, <1>5 DEF AttrInv, Distinct, Statted, Latest, Once, Coming, At, Proc
<1>7. Worker \in Proc
  BY DEF Proc
<1>8. Calm
  BY <1>1, <1>2, <1>7 DEF Calm
<1> QED
  BY <1>2, <1>6, <1>7, <1>8 DEF Warned, At

LEMMA AttrSteps ==
  ASSUME AsyncUpdate, ~Queries, MaxCrash = 0, Inv, DataOK, Progress, Calm, Warned, AttrInv,
         Inv', [NextD]_<<vars, base, doubtful, last>>
  PROVE  Calm' /\ Warned' /\ AttrInv'
<1>1. disk \in Db /\ disk' \in Db
  BY DEF Inv, ConnOK, Grows
<1>2. ASSUME Stays PROVE AttrInv'
  BY <1>2, AttrStays
<1>3. ASSUME NEW t \in Thread, Queues(t) PROVE AttrInv'
  BY <1>3, AttrQueues
<1>4. ASSUME NEW t \in Thread, NEW task \in Task, Begins(t, task) PROVE AttrInv'
  BY <1>4, AttrBegins
<1>5. ASSUME NEW task \in Task, Finishes(task, Effect(disk, task, StatName)) PROVE AttrInv'
  BY <1>1, <1>5, AttrFinishes
<1> QED
  BY <1>2, <1>3, <1>4, <1>5, Events

LEMMA AttrAgrees ==
  ASSUME AttrInv
  PROVE  AttrsAgree
<1> SUFFICES ASSUME Drained PROVE AttrsAgree
  BY DEF AttrsAgree
<1>1. Todo = << >>
  BY ConcatNone, SMT DEF Drained, Todo, At, Proc
<1>2. 1 .. Len(Todo) = {}
  BY <1>1, SMT
<1> QED
  BY <1>2 DEF AttrsAgree, AttrInv, Latest, Stats

\* What the server's own invariants give the proofs about agreement.
LEMMA ServerSteps ==
  ASSUME AsyncUpdate, Inv, DataOK, Progress, [NextD]_<<vars, base, doubtful, last>>
  PROVE  Inv' /\ DataOK' /\ Progress'
<1>1. [NextH]_<<vars, base>>
  BY DEF NextD
<1>2. [Next]_vars
  BY <1>1 DEF NextH, vars
<1> QED
  BY <1>1, <1>2, InvNext, DataNext, NextMaps DEF Kept

LEMMA ServerStarts ==
  ASSUME InitD
  PROVE  Inv /\ DataOK /\ Progress
<1>1. Init /\ InitH
  BY DEF InitD, InitH
<1>2. Inv /\ DataOK
  BY <1>1, InvInit, EmptyDb, ServerAssumption DEF Init, DataOK, Idle, Proc
<1>3. call[Worker] = Idle /\ view = db_initialize /\ base = db_initialize
  BY <1>1 DEF InitH, Init, Proc
<1> QED
  BY <1>2, <1>3, EmptyDb, SMT DEF Progress, Idle, SinglePc, TxPc, StatName

\* Once the queue is empty, the stat rows of every indexed file are those that
\* a callback reported last: with enable-async-update, for every number of
\* threads, files, values and operations.  Without crashes, since the queue is
\* in memory; without queries, since the second connection's lock makes END
\* fail and the worker drops the task.
THEOREM AttributesAgree ==
  ASSUME AsyncUpdate, ~Queries, MaxCrash = 0
  PROVE  SpecD => []AttrsAgree
<1> DEFINE IInv == Inv /\ DataOK /\ Progress /\ Calm /\ Warned /\ AttrInv
<1>1. InitD => IInv
  BY ServerStarts, AttrInitial
<1>2. IInv /\ [NextD]_<<vars, base, doubtful, last>> => IInv'
  BY ServerSteps, AttrSteps
<1>3. IInv => AttrsAgree
  BY AttrAgrees
<1> QED
  BY <1>1, <1>2, <1>3, PTL DEF SpecD

-----------------------------------------------------------------------------
(* The paths.                                                              *)

\* How doubt spreads along a list of tasks.
LEMMA ReachFrom ==
  ASSUME NEW todo, NEW from, NEW i \in Nat
  PROVE  /\ Path \cap from \subseteq Reached(todo, from, i)
         /\ Reached(todo, from, 0) \subseteq from
<1>1. ASSUME NEW p \in Path \cap from PROVE p \in Reached(todo, from, i)
  <2> DEFINE walk == [j \in 0 .. i |-> p]
  <2>1. 0 \in 0 .. i /\ i \in 0 .. i /\ \A j \in 1 .. i : j \in 0 .. i /\ j - 1 \in 0 .. i
    BY SMT
  <2>2. walk \in [0 .. i -> Path] /\ walk[0] = p /\ walk[i] = p
    BY <2>1
  <2>3. \A j \in 1 .. i : walk[j - 1] = walk[j]
    BY <2>1
  <2> HIDE DEF walk
  <2>4. Walk(todo, from, walk, i)
    BY <2>2, <2>3 DEF Walk, Spreads
  <2> QED
    BY <2>2, <2>4 DEF Reached
<1> QED
  BY <1>1 DEF Reached, Walk

LEMMA ReachMore ==
  ASSUME NEW todo, NEW from, NEW new, NEW more, NEW i \in Nat,
         from \subseteq more, \A j \in 1 .. i : new[j] = todo[j]
  PROVE  Reached(todo, from, i) \subseteq Reached(new, more, i)
BY DEF Reached, Walk

LEMMA ReachOn ==
  ASSUME NEW todo, NEW from, NEW i \in Nat, NEW p \in Reached(todo, from, i),
         NEW q \in Path, Spreads(todo[i + 1], p, q)
  PROVE  q \in Reached(todo, from, i + 1)
<1>1. PICK walk \in [0 .. i -> Path] : Walk(todo, from, walk, i) /\ walk[i] = p
  BY DEF Reached
<1> DEFINE new == [j \in 0 .. i + 1 |-> IF j = i + 1 THEN q ELSE walk[j]]
<1>2. /\ 0 \in 0 .. i + 1 /\ i + 1 \in 0 .. i + 1 /\ 0 # i + 1
      /\ \A j \in 0 .. i + 1 : j # i + 1 => j \in 0 .. i
      /\ \A j \in 1 .. i : j \in 0 .. i + 1 /\ j - 1 \in 0 .. i + 1 /\ j # i + 1 /\ j - 1 # i + 1
      /\ i \in 0 .. i + 1 /\ i # i + 1 /\ (i + 1) - 1 = i
      /\ \A j \in 1 .. i + 1 : j = i + 1 \/ j \in 1 .. i
  BY SMT
<1>3. new \in [0 .. i + 1 -> Path]
  BY <1>2
<1>4. /\ new[0] = walk[0] /\ new[i] = p /\ new[i + 1] = q
      /\ \A j \in 1 .. i : new[j] = walk[j] /\ new[j - 1] = walk[j - 1]
  BY <1>1, <1>2
<1> HIDE DEF new
<1>5. Walk(todo, from, new, i + 1)
  BY <1>1, <1>2, <1>4 DEF Walk
<1> QED
  BY <1>3, <1>4, <1>5 DEF Reached

LEMMA ReachShift ==
  ASSUME NEW todo, NEW from, NEW new, NEW more, NEW i \in Nat,
         \A j \in 1 .. i : new[j] = todo[j + 1],
         \A p \in Path \cap from : \A q \in Path : Spreads(todo[1], p, q) => q \in more
  PROVE  Reached(todo, from, i + 1) \subseteq Reached(new, more, i)
<1> SUFFICES ASSUME NEW q \in Reached(todo, from, i + 1) PROVE q \in Reached(new, more, i)
  OBVIOUS
<1>1. PICK walk \in [0 .. i + 1 -> Path] : Walk(todo, from, walk, i + 1) /\ walk[i + 1] = q
  BY DEF Reached
<1> DEFINE rest == [j \in 0 .. i |-> walk[j + 1]]
<1>2. /\ 0 \in 0 .. i /\ i \in 0 .. i /\ 0 \in 0 .. i + 1 /\ 1 \in 1 .. i + 1 /\ 1 - 1 = 0 /\ 0 + 1 = 1
      /\ \A j \in 0 .. i : j + 1 \in 0 .. i + 1
      /\ \A j \in 1 .. i : j \in 0 .. i /\ j - 1 \in 0 .. i /\ (j - 1) + 1 = (j + 1) - 1
                           /\ j + 1 \in 1 .. i + 1
      /\ 1 \in 0 .. i + 1
  BY SMT
<1>3. rest \in [0 .. i -> Path]
  BY <1>2
<1>4. /\ rest[0] = walk[1] /\ rest[i] = q
      /\ \A j \in 1 .. i : rest[j] = walk[j + 1] /\ rest[j - 1] = walk[(j + 1) - 1]
  BY <1>1, <1>2
<1> HIDE DEF rest
<1>5. Spreads(todo[1], walk[0], walk[1]) /\ walk[0] \in Path \cap from /\ walk[1] \in Path
  BY <1>1, <1>2 DEF Walk
<1>6. rest[0] \in more
  BY <1>4, <1>5
<1>7. \A j \in 1 .. i : Spreads(new[j], rest[j - 1], rest[j])
  BY <1>1, <1>2, <1>4 DEF Walk
<1>8. Walk(new, more, rest, i)
  BY <1>6, <1>7 DEF Walk
<1> QED
  BY <1>3, <1>4, <1>8 DEF Reached

\* A task changes the files at the paths it touches, as the files there say.
LEMMA ApplyIs ==
  ASSUME NEW task \in Task, NEW files \in Files
  PROVE  /\ Touches(task) \subseteq Path
         /\ Apply(files, task) \in Files
         /\ \A p \in Path \ Touches(task) : Apply(files, task)[p] = files[p]
         /\ \A f \in Files : (\A p \in Touches(task) : f[p] = files[p]) =>
              \A p \in Touches(task) : Apply(f, task)[p] = Apply(files, task)[p]
<1>1. CASE task.op \in {"insert", "link"}
  <2>1. task.path \in Path /\ task.gfid \in Gfid /\ Touches(task) = {task.path}
    BY <1>1 DEF Touches, Task, InsertTask, UpdateTask, XattrTask, LinkTask, UnlinkTask, RenameTask
  <2>2. \A f : Apply(f, task) = [f EXCEPT ![task.path] = task.gfid]
    BY <1>1 DEF Apply
  <2> QED
    BY <2>1, <2>2, SMT DEF Files
<1>2. CASE task.op = "unlink"
  <2>1. task.path \in Path /\ Touches(task) = {task.path}
    BY <1>2 DEF Touches, Task, InsertTask, UpdateTask, XattrTask, LinkTask, UnlinkTask, RenameTask
  <2>2. \A f : Apply(f, task) = [f EXCEPT ![task.path] = NoGfid]
    BY <1>2 DEF Apply
  <2> QED
    BY <2>1, <2>2, SMT DEF Files
<1>3. CASE task.op = "rename"
  <2>1. task.path \in Path /\ task.extra \in Path /\ Touches(task) = {task.path, task.extra}
    BY <1>3 DEF Touches, Task, InsertTask, UpdateTask, XattrTask, LinkTask, UnlinkTask, RenameTask
  <2>2. \A f : f[task.extra] # f[task.path] => Apply(f, task) =
          [f EXCEPT ![task.path] = NoGfid, ![task.extra] = f[task.path]]
    BY <1>3 DEF Apply
  <2>3. \A f : f[task.extra] = f[task.path] => Apply(f, task) = f
    BY <1>3 DEF Apply
  <2>4. ASSUME NEW f \in Files, f[task.extra] # f[task.path]
        PROVE  /\ Apply(f, task) \in Files
               /\ Apply(f, task)[task.path] = NoGfid /\ Apply(f, task)[task.extra] = f[task.path]
               /\ \A p \in Path \ {task.path, task.extra} : Apply(f, task)[p] = f[p]
    <3>1. task.path # task.extra
      BY <2>4
    <3> QED
      BY <2>1, <2>2, <2>4, <3>1, SMT DEF Files
  <2>5. CASE files[task.extra] = files[task.path]
    BY <2>1, <2>3, <2>5
  <2>6. CASE files[task.extra] # files[task.path]
    BY <2>1, <2>4, <2>6, SMT
  <2> QED
    BY <2>5, <2>6
<1>4. CASE task.op \notin {"insert", "link", "unlink", "rename"}
  <2>1. Touches(task) = {}
    BY <1>4 DEF Touches
  <2>2. Apply(files, task) = files
    BY <1>4 DEF Apply
  <2> QED
    BY <2>1, <2>2
<1> QED
  BY <1>1, <1>2, <1>3, <1>4

\* More doubt leaves fewer claims.
LEMMA FindsLess ==
  ASSUME NEW files, NEW task, NEW doubt, NEW more, doubt \subseteq more, Finds(files, task, doubt)
  PROVE  Finds(files, task, more)
BY DEF Finds

LEMMA LeadsOn ==
  ASSUME NEW n \in Nat, Len(Todo) = n, Todo' = Todo, disk' = disk, doubtful \subseteq doubtful',
         NEW files, Leads(files)
  PROVE  Leads(files)' /\ Doubted(n) \subseteq Doubted(n)'
<1>1. ASSUME NEW i \in Nat PROVE Doubted(i) \subseteq Doubted(i)'
  BY ReachMore DEF Doubted
<1>2. \A i \in 1 .. n : i - 1 \in Nat
  BY SMT
<1>3. ASSUME NEW i \in 1 .. n PROVE Finds(files[i - 1], Todo'[i], Doubted(i - 1)')
  BY <1>1, <1>2, FindsLess DEF Leads
<1>4. \A p \in Path \ doubtful' : File(disk', p) = files[0][p]
  BY DEF Leads
<1> QED
  BY <1>1, <1>3, <1>4 DEF Leads

LEMMA PathTypes ==
  ASSUME Inv, Calm
  PROVE  /\ ns \in Files
         /\ \A t \in Thread : At(t, "cbk") => call[t].task \in Task
         /\ \E n \in Nat : Len(Todo) = n
<1>1. ns \in Files
  BY DEF Inv, BrickOK, Files
<1>2. ASSUME NEW t \in Thread, At(t, "cbk") PROVE call[t].task \in Task
  BY <1>2 DEF At, Inv, CallOK, TaskFits, Proc
<1>3. Len(Todo) \in Nat
  BY TodoTypes, SMT
<1> QED
  BY <1>1, <1>2, <1>3

LEMMA PathStays ==
  ASSUME ~DirHash, Inv, Calm, PathInv, Stays
  PROVE  PathInv'
<1>1. disk' = disk /\ Todo' = Todo /\ ns' = ns /\ doubtful \subseteq doubtful'
  BY DEF Stays
<1>2. \A t \in Thread : call'[t] = call[t] /\ (At(t, "cbk")' <=> At(t, "cbk"))
  BY DEF Stays, At
<1>3. Lone'
  BY <1>1, <1>2 DEF PathInv, Lone
<1>4. PICK n \in Nat : Len(Todo) = n
  BY PathTypes
<1>5. PICK files \in [0 .. n -> Files] : Leads(files) /\ Ends(files[n], Doubted(n))
  BY <1>4 DEF PathInv
<1>6. Leads(files)' /\ Doubted(n) \subseteq Doubted(n)'
  BY <1>1, <1>4, <1>5, LeadsOn
<1>7. Ends(files[n], Doubted(n))'
  <2>1. ASSUME NEW t \in Thread, At(t, "cbk")', Touches(call'[t].task) \cap Doubted(n)' = {}
        PROVE  /\ Finds(files[n], call'[t].task, Doubted(n)')
               /\ \A p \in Touches(call'[t].task) : ns'[p] = Apply(files[n], call'[t].task)[p]
    <3>1. At(t, "cbk") /\ Touches(call[t].task) \cap Doubted(n) = {} /\ call'[t].task = call[t].task
      BY <1>2, <1>6, <2>1
    <3>2. /\ Finds(files[n], call[t].task, Doubted(n))
          /\ \A p \in Touches(call[t].task) : ns[p] = Apply(files[n], call[t].task)[p]
      BY <1>5, <3>1 DEF Ends
    <3> QED
      BY <1>1, <1>6, <3>1, <3>2, FindsLess
  <2>2. \A p \in Path \ Doubted(n)' :
          (\A t \in Thread : At(t, "cbk")' => p \notin Touches(call'[t].task)) => ns'[p] = files[n][p]
    BY <1>1, <1>2, <1>5, <1>6 DEF Ends
  <2> QED
    BY <2>1, <2>2 DEF Ends
<1>8. Len(Todo') = n
  BY <1>1, <1>4
<1> QED
  BY <1>3, <1>5, <1>6, <1>7, <1>8 DEF PathInv

LEMMA PathBegins ==
  ASSUME Inv, Calm, PathInv, NEW t \in Thread, NEW task \in Task, Begins(t, task)
  PROVE  PathInv'
<1>1. disk' = disk /\ Todo' = Todo /\ ns' = Apply(ns, task) /\ doubtful \subseteq doubtful'
  BY DEF Begins, Starts
<1>2. /\ \A u \in Thread \ {t} : call'[u] = call[u] /\ (At(u, "cbk")' <=> At(u, "cbk"))
      /\ ~At(t, "cbk") /\ At(t, "cbk")' /\ call'[t].task = task
  BY DEF Begins, At
<1>3. \A u \in Thread \ {t} :
        At(u, "cbk") /\ Touches(call[u].task) \cap Touches(task) # {}
          => Touches(call[u].task) \subseteq doubtful' /\ Touches(task) \subseteq doubtful'
  BY DEF Begins
<1>4. Lone'
  <2>1. SUFFICES ASSUME NEW u \in Thread, NEW v \in Thread, At(u, "cbk")', At(v, "cbk")', u # v,
                        Touches(call'[u].task) \cap Touches(call'[v].task) # {}
                 PROVE  Touches(call'[u].task) \subseteq doubtful'
    BY DEF Lone
  <2>2. CASE u = t
    <3>1. /\ v \in Thread \ {t} /\ At(v, "cbk") /\ call'[v].task = call[v].task
          /\ Touches(call[v].task) \cap Touches(task) # {}
      BY <1>2, <2>1, <2>2
    <3> QED
      BY <1>2, <1>3, <2>2, <3>1
  <2>3. CASE v = t
    <3>1. /\ u \in Thread \ {t} /\ At(u, "cbk") /\ call'[u].task = call[u].task
          /\ Touches(call[u].task) \cap Touches(task) # {}
      BY <1>2, <2>1, <2>3
    <3> QED
      BY <1>3, <3>1
  <2>4. CASE u # t /\ v # t
    <3>1. Touches(call[u].task) \subseteq doubtful
      BY <1>2, <2>1, <2>4 DEF PathInv, Lone
    <3> QED
      BY <1>1, <1>2, <2>4, <3>1
  <2> QED
    BY <2>2, <2>3, <2>4
<1>5. PICK n \in Nat : Len(Todo) = n
  BY PathTypes
<1>6. PICK files \in [0 .. n -> Files] : Leads(files) /\ Ends(files[n], Doubted(n))
  BY <1>5 DEF PathInv
<1>7. Leads(files)' /\ Doubted(n) \subseteq Doubted(n)'
  BY <1>1, <1>5, <1>6, LeadsOn
<1>8. n \in 0 .. n
  BY SMT
<1>9. ns \in Files /\ files[n] \in Files
  BY <1>6, <1>8, PathTypes
<1>10. Path \cap doubtful' \subseteq Doubted(n)'
  BY ReachFrom DEF Doubted
<1>11. Touches(task) \subseteq Path /\ \A p \in Path \ Touches(task) : ns'[p] = ns[p]
  BY <1>1, <1>9, ApplyIs
<1>12. ASSUME NEW p \in Path \ Doubted(n)',
              \A u \in Thread : At(u, "cbk")' => p \notin Touches(call'[u].task)
       PROVE  ns'[p] = files[n][p]
  <2>1. p \notin Touches(task) /\ p \notin Doubted(n)
    BY <1>2, <1>7, <1>12
  <2>2. \A u \in Thread : At(u, "cbk") => p \notin Touches(call[u].task)
    BY <1>2, <1>12
  <2> QED
    BY <1>6, <1>11, <2>1, <2>2 DEF Ends
<1>13. ASSUME NEW u \in Thread, At(u, "cbk")', Touches(call'[u].task) \cap Doubted(n)' = {}
       PROVE  /\ Finds(files[n], call'[u].task, Doubted(n)')
              /\ \A p \in Touches(call'[u].task) : ns'[p] = Apply(files[n], call'[u].task)[p]
  <2>1. CASE u = t
    <3>0. Touches(task) \cap Doubted(n)' = {} /\ call'[u].task = task
      BY <1>2, <1>13, <2>1
    <3>1. ASSUME NEW p \in Touches(task) PROVE ns[p] = files[n][p]
      <4>1. p \in Path /\ p \notin Doubted(n)' /\ p \notin Doubted(n) /\ p \notin doubtful'
        BY <1>7, <1>10, <1>11, <3>0, <3>1
      <4>2. \A v \in Thread : At(v, "cbk") => p \notin Touches(call[v].task)
        BY <1>2, <1>3, <3>1, <4>1
      <4> QED
        BY <1>6, <4>1, <4>2 DEF Ends
    <3>2. Finds(files[n], task, Doubted(n)')
      <4>1. task.op = "rename" => ns[task.path] # NoGfid /\ task.path \in Touches(task)
        BY DEF Begins, Starts, Touches
      <4> QED
        BY <3>1, <4>1 DEF Finds
    <3>3. \A p \in Touches(task) : Apply(ns, task)[p] = Apply(files[n], task)[p]
      BY <1>9, <3>1, ApplyIs
    <3> QED
      BY <1>1, <3>0, <3>2, <3>3
  <2>2. CASE u # t
    <3>1. At(u, "cbk") /\ call'[u].task = call[u].task
      BY <1>2, <1>13, <2>2
    <3>2. call[u].task \in Task /\ Touches(call[u].task) \subseteq Path
      BY <1>9, <3>1, PathTypes, ApplyIs
    <3>3. /\ Finds(files[n], call[u].task, Doubted(n))
          /\ \A p \in Touches(call[u].task) : ns[p] = Apply(files[n], call[u].task)[p]
      BY <1>6, <1>7, <1>13, <3>1 DEF Ends
    <3>4. ASSUME NEW p \in Touches(call[u].task) PROVE p \notin Touches(task)
      BY <1>3, <1>10, <1>13, <2>2, <3>1, <3>2, <3>4
    <3>5. Finds(files[n], call'[u].task, Doubted(n)')
      BY <1>7, <3>1, <3>3, FindsLess
    <3> QED
      BY <1>11, <3>1, <3>2, <3>3, <3>4, <3>5
  <2> QED
    BY <2>1, <2>2
<1>14. Ends(files[n], Doubted(n))'
  BY <1>12, <1>13 DEF Ends
<1>15. Len(Todo') = n
  BY <1>1, <1>5
<1> QED
  BY <1>4, <1>6, <1>7, <1>14, <1>15 DEF PathInv

LEMMA PathQueues ==
  ASSUME Inv, Calm, PathInv, NEW t \in Thread, Queues(t)
  PROVE  PathInv'
<1> DEFINE task == call[t].task
<1>1. disk' = disk /\ Todo' = Append(Todo, task) /\ ns' = ns /\ doubtful \subseteq doubtful'
  BY DEF Queues
<1>2. /\ \A u \in Thread \ {t} : call'[u] = call[u] /\ (At(u, "cbk")' <=> At(u, "cbk"))
      /\ At(t, "cbk") /\ ~At(t, "cbk")'
  BY DEF Queues, At
<1>3. task \in Task /\ Todo \in Seq(Task) /\ ns \in Files
  BY <1>2, TodoTypes, PathTypes
<1> HIDE DEF task
<1>4. PICK n \in Nat :
        /\ Len(Todo) = n /\ Len(Todo') = n + 1 /\ Todo'[n + 1] = task
        /\ \A i \in 1 .. n : Todo'[i] = Todo[i]
        /\ \A i \in 1 .. n + 1 : i \in 1 .. n \/ i = n + 1
  BY <1>1, <1>3, AppendIs, SMT
<1>5. PICK files \in [0 .. n -> Files] : Leads(files) /\ Ends(files[n], Doubted(n))
  BY <1>4 DEF PathInv
<1> DEFINE list == [i \in 0 .. n + 1 |-> IF i = n + 1 THEN Apply(files[n], task) ELSE files[i]]
<1>6. /\ n \in 0 .. n /\ n \in 0 .. n + 1 /\ n + 1 \in 0 .. n + 1 /\ n # n + 1 /\ (n + 1) - 1 = n
      /\ 0 \in 0 .. n + 1 /\ 0 # n + 1
      /\ \A i \in 0 .. n + 1 : i = n + 1 \/ i \in 0 .. n
      /\ \A i \in 1 .. n : /\ i - 1 \in Nat /\ i \in 0 .. n + 1 /\ i # n + 1
                           /\ i - 1 \in 0 .. n + 1 /\ i - 1 # n + 1
                           /\ \A j \in 1 .. i - 1 : j \in 1 .. n
  BY SMT
<1>7. files[n] \in Files /\ Apply(files[n], task) \in Files
  BY <1>3, <1>5, <1>6, ApplyIs
<1>8. list \in [0 .. n + 1 -> Files]
  BY <1>5, <1>6, <1>7
<1>9. PICK new \in [0 .. n + 1 -> Files] :
        /\ new[0] = files[0] /\ new[n] = files[n] /\ new[n + 1] = Apply(files[n], task)
        /\ \A i \in 1 .. n : new[i] = files[i] /\ new[i - 1] = files[i - 1]
  <2>1. /\ list[0] = files[0] /\ list[n] = files[n] /\ list[n + 1] = Apply(files[n], task)
        /\ \A i \in 1 .. n : list[i] = files[i] /\ list[i - 1] = files[i - 1]
    BY <1>6
  <2> HIDE DEF list
  <2> QED
    BY <1>8, <2>1
<1>10. /\ \A i \in 1 .. n : Doubted(i - 1) \subseteq Doubted(i - 1)'
       /\ Doubted(n) \subseteq Doubted(n)'
  BY <1>1, <1>4, <1>6, ReachMore DEF Doubted
<1>11. \A p \in Doubted(n) : \A q \in Path : Spreads(task, p, q) => q \in Doubted(n + 1)'
  <2>1. \A p \in Doubted(n)' : \A q \in Path : Spreads(Todo'[n + 1], p, q) => q \in Doubted(n + 1)'
    BY ReachOn DEF Doubted
  <2> QED
    BY <1>4, <1>10, <2>1
<1>12. Doubted(n) \subseteq Path /\ Doubted(n) \subseteq Doubted(n + 1)'
  BY <1>11 DEF Doubted, Reached, Spreads
<1>13. /\ Path \cap doubtful \subseteq Doubted(n)
       /\ Touches(task) \subseteq Path
       /\ \A p \in Path \ Touches(task) : new[n + 1][p] = files[n][p]
  BY <1>3, <1>7, <1>9, ReachFrom, ApplyIs, SMT DEF Doubted
<1>14. Touches(task) \cap Doubted(n) = {} =>
         /\ Finds(files[n], task, Doubted(n))
         /\ \A p \in Touches(task) : ns[p] = new[n + 1][p]
  BY <1>2, <1>5, <1>9, SMT DEF Ends, task
<1>15. Leads(new)'
  <2>1. \A p \in Path \ doubtful' : File(disk', p) = new[0][p]
    BY <1>1, <1>5, <1>9 DEF Leads
  <2>2. ASSUME NEW i \in 1 .. n
        PROVE  /\ new[i] = Apply(new[i - 1], Todo'[i])
               /\ Finds(new[i - 1], Todo'[i], Doubted(i - 1)')
    <3>1. /\ files[i] = Apply(files[i - 1], Todo[i])
          /\ Finds(files[i - 1], Todo[i], Doubted(i - 1))
      BY <1>4, <1>5 DEF Leads
    <3> QED
      BY <1>4, <1>9, <1>10, <3>1, FindsLess
  <2>3. /\ new[n + 1] = Apply(new[(n + 1) - 1], Todo'[n + 1])
        /\ Finds(new[(n + 1) - 1], Todo'[n + 1], Doubted((n + 1) - 1)')
    <3>1. Finds(files[n], task, Doubted(n)')
      BY <1>10, <1>14 DEF Finds
    <3> QED
      BY <1>4, <1>6, <1>9, <3>1
  <2> QED
    BY <1>4, <2>1, <2>2, <2>3 DEF Leads
<1>16. ASSUME NEW p \in Path \ Doubted(n + 1)',
              \A u \in Thread : At(u, "cbk")' => p \notin Touches(call'[u].task)
       PROVE  ns'[p] = new[n + 1][p]
  <2>1. CASE p \notin Touches(task)
    <3>1. \A u \in Thread : At(u, "cbk") => p \notin Touches(call[u].task)
      BY <1>2, <1>16, <2>1 DEF task
    <3> QED
      BY <1>1, <1>5, <1>12, <1>13, <1>16, <2>1, <3>1 DEF Ends
  <2>2. CASE p \in Touches(task)
    <3>1. ASSUME NEW q \in Touches(task) PROVE Spreads(task, q, p)
      BY <2>2, <3>1 DEF Spreads, Touches
    <3>2. Touches(task) \cap Doubted(n) = {}
      BY <1>11, <1>16, <3>1
    <3> QED
      BY <1>1, <1>14, <2>2, <3>2
  <2> QED
    BY <2>1, <2>2
<1>17. ASSUME NEW u \in Thread, At(u, "cbk")', Touches(call'[u].task) \cap Doubted(n + 1)' = {}
       PROVE  /\ Finds(new[n + 1], call'[u].task, Doubted(n + 1)')
              /\ \A p \in Touches(call'[u].task) : ns'[p] = Apply(new[n + 1], call'[u].task)[p]
  <2> DEFINE his == call[u].task
  <2>1. u # t /\ At(u, "cbk") /\ call'[u].task = his
    BY <1>2, <1>17
  <2>2. his \in Task
    BY <2>1, PathTypes
  <2>3. Touches(his) \cap Doubted(n) = {}
    BY <1>12, <1>17, <2>1
  <2>4. /\ Finds(files[n], his, Doubted(n))
        /\ \A p \in Touches(his) : ns[p] = Apply(files[n], his)[p]
    BY <1>5, <2>1, <2>3 DEF Ends
  <2>5. Touches(his) \cap Touches(task) # {} => Touches(his) \subseteq doubtful
    BY <1>2, <2>1 DEF PathInv, Lone, task
  <2> HIDE DEF his
  <2>6. Touches(his) \subseteq Path
    BY <1>7, <2>2, ApplyIs
  <2>7. ASSUME NEW p \in Touches(his) PROVE new[n + 1][p] = files[n][p]
    BY <1>13, <2>3, <2>5, <2>6, <2>7
  <2>8. new[n + 1] \in Files
    BY <1>7, <1>9
  <2>9. \A p \in Touches(his) : Apply(new[n + 1], his)[p] = Apply(files[n], his)[p]
    BY <1>7, <2>2, <2>7, <2>8, ApplyIs
  <2>10. Finds(new[n + 1], his, Doubted(n + 1)')
    BY <2>3, <2>4, <2>7 DEF Finds, Touches
  <2> QED
    BY <1>1, <2>1, <2>4, <2>9, <2>10
<1>18. Ends(new[n + 1], Doubted(n + 1))'
  BY <1>16, <1>17 DEF Ends
<1>19. Lone'
  <2>1. ASSUME NEW u \in Thread, NEW v \in Thread, At(u, "cbk")', At(v, "cbk")', u # v,
               Touches(call'[u].task) \cap Touches(call'[v].task) # {}
        PROVE  Touches(call'[u].task) \subseteq doubtful'
    <3>1. u # t /\ v # t
      BY <1>2, <2>1
    <3>2. Touches(call[u].task) \subseteq doubtful
      BY <1>2, <2>1, <3>1 DEF PathInv, Lone
    <3> QED
      BY <1>1, <1>2, <3>1, <3>2
  <2> QED
    BY <2>1 DEF Lone
<1> QED
  BY <1>4, <1>15, <1>18, <1>19 DEF PathInv

-----------------------------------------------------------------------------
\* What a task that succeeds does to the files at the paths of the index.
Moved(db, new, task) ==
  /\ \A p \in Path \ Touches(task) : File(new, p) = File(db, p)
  /\ task.op \in {"insert", "link"} => File(new, task.path) = task.gfid
  /\ task.op = "unlink" => File(new, task.path) = NoGfid
  /\ task.op = "rename" /\ File(db, task.path) # NoGfid =>
       /\ task.path = task.extra => File(new, task.path) = File(db, task.path)
       /\ task.path # task.extra =>
            /\ File(db, task.extra) = NoGfid
            /\ File(new, task.path) = NoGfid /\ File(new, task.extra) = File(db, task.path)

\* A path that has a row has a file.
LEMMA FileOf ==
  ASSUME NEW db \in Db, FileRefs(db), NEW p \in Path
  PROVE  /\ db.xfile[p] = 0 <=> File(db, p) = NoGfid
         /\ db.xfile[p] # 0 => /\ db.xfile[p] \in Gids(db) /\ File(db, p) \in Gfid
                               /\ File(db, p) = db.xgfid[db.xfile[p]]
<1>1. ASSUME db.xfile[p] # 0
      PROVE  db.xfile[p] \in 1 .. Len(db.xgfid) /\ db.xgfid[db.xfile[p]] \in Gfid
  BY <1>1, SMT DEF FileRefs, Db
<1> QED
  BY <1>1, ServerAssumption DEF File, Gids

\* One more file at a path: INSERT_FILE.
LEMMA FileInserts ==
  ASSUME NEW db \in Db, NEW gfid \in Gfid, NEW path \in Path, NEW r,
         r = INSERT_FILE(db, gfid, path), r.ok
  PROVE  /\ r.db.xgfid = db.xgfid
         /\ File(r.db, path) = gfid
         /\ \A p \in Path \ {path} : File(r.db, p) = File(db, p)
<1>1. /\ GET_GID(db, gfid) # 0
      /\ r.db = [db EXCEPT !.xfile[path] = GET_GID(db, gfid)]
  BY DEF INSERT_FILE, Done, Constraint
<1>2. db.xgfid[GET_GID(db, gfid)] = gfid
  BY <1>1 DEF GET_GID
<1>3. /\ r.db.xgfid = db.xgfid /\ r.db.xfile = [db.xfile EXCEPT ![path] = GET_GID(db, gfid)]
  BY <1>1 DEF Db
<1>4. db.xfile \in [Path -> Nat]
  BY DEF Db
<1>5. /\ r.db.xfile[path] = GET_GID(db, gfid)
      /\ \A p \in Path \ {path} : r.db.xfile[p] = db.xfile[p]
  BY <1>3, <1>4
<1> QED
  BY <1>1, <1>2, <1>3, <1>5 DEF File

\* Rows of attributes are no rows of paths.
LEMMA DataMoves ==
  ASSUME NEW db \in Db, NEW rows
  PROVE  /\ [db EXCEPT !.xdata = rows].xgfid = db.xgfid
         /\ [db EXCEPT !.xdata = rows].xfile = db.xfile
BY DEF Db

LEMMA SameFiles ==
  ASSUME NEW db, NEW new, new.xgfid = db.xgfid, new.xfile = db.xfile
  PROVE  \A p : File(new, p) = File(db, p)
BY DEF File

LEMMA InsertMoves ==
  ASSUME NEW db \in Db, FileRefs(db), NEW task \in InsertTask, NEW r,
         r = Effect(db, task, StatName), r.ok
  PROVE  Moved(db, r.db, task)
<1> DEFINE a == INSERT_GFID(db, task.gfid)
           b == INSERT_FILE(a.db, task.gfid, task.path)
           gid == GET_GID(b.db, task.gfid)
           rows == b.db.xdata \cup {<<gid, n, task.sb[n]>> : n \in StatName}
<1>1. /\ task.op = "insert" /\ task.gfid \in Gfid /\ task.path \in Path
      /\ a.ok \in BOOLEAN /\ b.ok \in BOOLEAN /\ Touches(task) = {task.path}
  BY DEF InsertTask, INSERT_GFID, INSERT_FILE, Done, Constraint, Touches
<1>2. a.ok /\ b.ok /\ r = INSERT_STAT(b.db, gid, task.sb)
  <2>1. r = IF a.ok THEN IF b.ok THEN INSERT_STAT(b.db, gid, task.sb) ELSE b ELSE a
    BY <1>1, InsertEffect
  <2> HIDE DEF a, b
  <2> QED
    BY <1>1, <2>1
<1>3. a.db \in Db /\ a.db.xgfid = Append(db.xgfid, task.gfid) /\ a.db.xfile = db.xfile
  <2>1. a.db \in Db
    BY <1>1, KeepsInsertGfid DEF Keeps, Grows
  <2> QED
    BY <1>1, <1>2, <2>1, InsertedGfid
<1>4. ASSUME NEW p \in Path PROVE File(a.db, p) = File(db, p)
  <2> HIDE DEF a
  <2>1. db.xgfid \in Seq(Gfid) /\ db.xfile[p] \in 0 .. Len(db.xgfid)
    BY DEF Db, FileRefs
  <2>2. db.xfile[p] # 0 => a.db.xgfid[db.xfile[p]] = db.xgfid[db.xfile[p]]
    BY <1>3, <2>1, SMT
  <2> QED
    BY <1>3, <2>2 DEF File
<1> HIDE DEF a
<1>5. /\ b.db \in Db
      /\ File(b.db, task.path) = task.gfid
      /\ \A p \in Path \ {task.path} : File(b.db, p) = File(a.db, p)
  <2>1. b.db \in Db
    BY <1>1, <1>3, KeepsInsertFile DEF Keeps, Grows
  <2> QED
    BY <1>1, <1>2, <1>3, <2>1, FileInserts, SMT
<1> HIDE DEF b
<1>6. r.db = [b.db EXCEPT !.xdata = rows]
  <2>1. CASE Rows(b.db, gid, StatName) = {}
    BY <1>2, <2>1, SMT DEF INSERT_STAT, Done
  <2>2. CASE Rows(b.db, gid, StatName) # {}
    BY <1>2, <2>2, SMT DEF INSERT_STAT, Constraint
  <2> QED
    BY <2>1, <2>2
<1> HIDE DEF rows
<1>7. \A p : File(r.db, p) = File(b.db, p)
  <2>1. r.db.xgfid = b.db.xgfid /\ r.db.xfile = b.db.xfile
    BY <1>5, <1>6, DataMoves, SMT
  <2> QED
    BY <2>1, SameFiles
<1> QED
  BY <1>1, <1>4, <1>5, <1>7 DEF Moved

LEMMA RenameMoves ==
  ASSUME NEW db \in Db, FileRefs(db), NEW task \in RenameTask, NEW r,
         r = Effect(db, task, StatName), r.ok
  PROVE  Moved(db, r.db, task)
<1> DEFINE old == task.path
           to == task.extra
           files == [[db.xfile EXCEPT ![old] = 0] EXCEPT ![to] = db.xfile[old]]
<1>1. task.op = "rename" /\ old \in Path /\ to \in Path /\ Touches(task) = {old, to}
  BY DEF RenameTask, Touches
<1>2. r = RENAME(db, old, to)
  BY <1>1, SingleEffect
<1>3. db.xfile \in [Path -> Nat]
  BY DEF Db
<1>4. CASE db.xfile[old] = 0
  <2>1. r.db = db
    BY <1>2, <1>4, SMT DEF RENAME, Done
  <2>2. File(db, old) = NoGfid
    BY <1>4 DEF File
  <2> QED
    BY <1>1, <2>1, <2>2 DEF Moved
<1>5. CASE db.xfile[old] # 0
  <2>1. db.xfile[to] = 0 \/ to = old
    <3>1. CASE db.xfile[to] # 0 /\ to # old
      BY <1>2, <1>5, <3>1, SMT DEF RENAME, Constraint
    <3> QED
      BY <3>1
  <2>2. r.db = [db EXCEPT !.xfile = files]
    BY <1>2, <1>5, <2>1, SMT DEF RENAME, Done
  <2>3. /\ files[to] = db.xfile[old]
        /\ \A p \in Path \ {old, to} : files[p] = db.xfile[p]
        /\ to # old => files[old] = 0
    BY <1>1, <1>3
  <2> HIDE DEF files
  <2>4. r.db.xgfid = db.xgfid /\ r.db.xfile = files
    BY <2>2 DEF Db
  <2> QED
    BY <1>1, <1>5, <2>1, <2>3, <2>4 DEF Moved, File
<1> QED
  BY <1>4, <1>5

LEMMA TaskMoves ==
  ASSUME NEW db \in Db, FileRefs(db), NEW task \in Task, NEW r,
         r = Effect(db, task, StatName), r.ok
  PROVE  Moved(db, r.db, task)
<1>1. ASSUME task.op \in {"update", "xattr"}, r.db.xgfid = db.xgfid, r.db.xfile = db.xfile
      PROVE  Moved(db, r.db, task)
  <2>1. \A p : File(r.db, p) = File(db, p)
    BY <1>1, SameFiles
  <2> QED
    BY <1>1, <2>1 DEF Moved
<1>2. CASE task \in UpdateTask
  <2> DEFINE gid == GET_GID(db, task.gfid)
             rows == {NewRow(row, gid, task.sb, StatName) : row \in db.xdata}
  <2>1. task.op = "update" /\ gid # 0
    BY <1>2, SMT DEF UpdateTask, Effect, Constraint
  <2>2. r.db = Updated(db, gid, task.sb, StatName)
    BY <1>2, <2>1, UpdatedAll, SMT DEF Done
  <2>3. r.db = [db EXCEPT !.xdata = rows]
    BY <2>2 DEF Updated, NewRow
  <2> HIDE DEF rows
  <2> QED
    BY <1>1, <2>1, <2>3, DataMoves, SMT
<1>3. CASE task \in XattrTask
  <2> DEFINE mid == INSERT_XNAME(db, task.name).db
             gid == GET_GID(mid, task.gfid)
             rows == (mid.xdata \ Rows(mid, gid, {task.name}))
                       \cup {<<gid, task.name, task.val>>}
  <2>1. task.op = "xattr" /\ task.name \in XName
    BY <1>3 DEF XattrTask
  <2>2. r = INSERT_XDATA(mid, task.gfid, task.name, task.val)
    BY <2>1, XattrEffect
  <2>3. mid \in Db
    BY <2>1, KeepsInsertXname DEF Keeps, Grows
  <2>4. mid.xgfid = db.xgfid /\ mid.xfile = db.xfile
    BY DEF INSERT_XNAME, Done, Db
  <2> HIDE DEF mid
  <2>5. r.db = [mid EXCEPT !.xdata = rows]
    BY <2>2, SMT DEF INSERT_XDATA, Done, Constraint
  <2> HIDE DEF rows
  <2> QED
    BY <1>1, <2>1, <2>3, <2>4, <2>5, DataMoves, SMT
<1>4. CASE task \in LinkTask
  <2>1. task.op = "link" /\ task.path \in Path /\ task.gfid \in Gfid /\ Touches(task) = {task.path}
    BY <1>4 DEF LinkTask, Touches
  <2>2. r = INSERT_FILE(db, task.gfid, task.path)
    BY <2>1, SingleEffect
  <2> QED
    BY <2>1, <2>2, FileInserts, SMT DEF Moved
<1>5. CASE task \in UnlinkTask
  <2>1. task.op = "unlink" /\ task.path \in Path /\ Touches(task) = {task.path}
    BY <1>5 DEF UnlinkTask, Touches
  <2>2. r = UNLINK_FILE(db, task.path)
    BY <2>1, SingleEffect
  <2>3. r.db = [db EXCEPT !.xfile[task.path] = 0]
    BY <2>2, SMT DEF UNLINK_FILE, Done
  <2>4. r.db.xgfid = db.xgfid /\ r.db.xfile = [db.xfile EXCEPT ![task.path] = 0]
    BY <2>3 DEF Db
  <2>5. r.db.xfile[task.path] = 0 /\ \A p \in Path \ {task.path} : r.db.xfile[p] = db.xfile[p]
    BY <2>1, <2>4 DEF Db
  <2> QED
    BY <2>1, <2>4, <2>5 DEF Moved, File
<1> QED
  BY <1>2, <1>3, <1>4, <1>5, InsertMoves, RenameMoves DEF Task

\* The files of the disk move on with the files expected of the first task.
LEMMA DiskFollows ==
  ASSUME NEW db \in Db, FileRefs(db), NEW task \in Task, NEW r,
         r = Effect(db, task, StatName), r.ok, NEW files \in Files,
         \A q \in Touches(task) : File(db, q) = files[q],
         task.op = "rename" => files[task.path] # NoGfid, NEW p \in Touches(task)
  PROVE  File(r.db, p) = Apply(files, task)[p]
<1>1. Moved(db, r.db, task)
  BY TaskMoves
<1>2. CASE task.op \in {"insert", "link"}
  <2>1. p = task.path /\ p \in Path
    BY <1>2, ApplyIs DEF Touches
  <2>2. Apply(files, task)[p] = task.gfid
    BY <1>2, <2>1 DEF Apply, Files
  <2> QED
    BY <1>1, <1>2, <2>1, <2>2 DEF Moved
<1>3. CASE task.op = "unlink"
  <2>1. p = task.path /\ p \in Path
    BY <1>3, ApplyIs DEF Touches
  <2>2. Apply(files, task)[p] = NoGfid
    BY <1>3, <2>1 DEF Apply, Files
  <2> QED
    BY <1>1, <1>3, <2>1, <2>2 DEF Moved
<1>4. CASE task.op = "rename"
  <2> DEFINE old == task.path
             to == task.extra
  <2>1. old \in Path /\ to \in Path /\ p \in {old, to}
    BY <1>4, ApplyIs DEF Touches
  <2>2. /\ File(db, old) = files[old] /\ File(db, to) = files[to] /\ File(db, old) # NoGfid
    BY <1>4 DEF Touches
  <2>3. CASE old = to
    <3>1. Apply(files, task) = files
      BY <1>4, <2>3 DEF Apply
    <3> QED
      BY <1>1, <1>4, <2>1, <2>2, <2>3, <3>1 DEF Moved
  <2>4. CASE old # to
    <3>1. File(db, to) = NoGfid /\ File(r.db, old) = NoGfid /\ File(r.db, to) = files[old]
      BY <1>1, <1>4, <2>2, <2>4 DEF Moved
    <3>2. Apply(files, task) = [files EXCEPT ![old] = NoGfid, ![to] = files[old]]
      BY <1>4, <2>2, <3>1 DEF Apply
    <3>3. Apply(files, task)[old] = NoGfid /\ Apply(files, task)[to] = files[old]
      BY <2>1, <2>4, <3>2 DEF Files
    <3> QED
      BY <2>1, <3>1, <3>3
  <2> QED
    BY <2>3, <2>4
<1>5. task.op \in {"insert", "link", "unlink", "rename"}
  BY DEF Touches
<1> QED
  BY <1>2, <1>3, <1>4, <1>5

LEMMA PathFinishes ==
  ASSUME Inv, Calm, disk \in Db, FileRefs(disk), PathInv, NEW task \in Task,
         Finishes(task, Effect(disk, task, StatName))
  PROVE  PathInv'
<1> DEFINE r == Effect(disk, task, StatName)
<1>1. /\ Todo # << >> /\ task = Head(Todo) /\ Todo' = Tail(Todo) /\ ns' = ns
      /\ r.ok => disk' = r.db
      /\ ~r.ok => disk' = disk /\ Touches(task) \subseteq doubtful'
      /\ doubtful \subseteq doubtful'
      /\ task.op = "rename" /\ Touches(task) \cap doubtful # {} => Touches(task) \subseteq doubtful'
  BY DEF Finishes
<1>2. \A t \in Thread : call'[t] = call[t] /\ (At(t, "cbk")' <=> At(t, "cbk"))
  BY DEF Finishes, At
<1>3. Todo \in Seq(Task)
  BY TodoTypes
<1>4. PICK n \in Nat :
        /\ Len(Todo) = n + 1 /\ Len(Todo') = n /\ Todo[1] = task
        /\ \A i \in 1 .. n : Todo'[i] = Todo[i + 1]
  BY <1>1, <1>3, TailIs, SMT
<1>5. PICK files \in [0 .. n + 1 -> Files] : Leads(files) /\ Ends(files[n + 1], Doubted(n + 1))
  BY <1>4 DEF PathInv
<1>6. /\ 0 \in 0 .. n /\ n \in 0 .. n /\ 0 \in 0 .. n + 1 /\ 1 \in 1 .. n + 1 /\ 1 - 1 = 0 /\ 0 + 1 = 1
      /\ \A i \in 0 .. n : i + 1 \in 0 .. n + 1
      /\ \A i \in 1 .. n : /\ i \in 0 .. n /\ i - 1 \in 0 .. n /\ i - 1 \in Nat /\ i + 1 \in 1 .. n + 1
                           /\ (i - 1) + 1 = i /\ (i + 1) - 1 = i
                           /\ \A j \in 1 .. i - 1 : j \in 1 .. n
  BY SMT
<1>7. PICK new \in [0 .. n -> Files] :
        /\ new[0] = files[1] /\ new[n] = files[n + 1]
        /\ \A i \in 1 .. n : new[i] = files[i + 1] /\ new[i - 1] = files[i]
  <2> DEFINE list == [i \in 0 .. n |-> files[i + 1]]
  <2>1. list \in [0 .. n -> Files]
    BY <1>5, <1>6
  <2>2. /\ list[0] = files[1] /\ list[n] = files[n + 1]
        /\ \A i \in 1 .. n : list[i] = files[i + 1] /\ list[i - 1] = files[i]
    BY <1>6
  <2> HIDE DEF list
  <2> QED
    BY <2>1, <2>2
<1>8. \A p \in Path \cap doubtful : \A q \in Path : Spreads(Todo[1], p, q) => q \in doubtful'
  BY <1>1, <1>4 DEF Spreads
<1>9. /\ Doubted(n + 1) \subseteq Doubted(n)'
      /\ \A i \in 1 .. n : Doubted(i) \subseteq Doubted(i - 1)'
  <2>1. Doubted(n + 1) \subseteq Doubted(n)'
    BY <1>4, <1>8, ReachShift DEF Doubted
  <2>2. ASSUME NEW i \in 1 .. n PROVE Doubted((i - 1) + 1) \subseteq Doubted(i - 1)'
    <3>1. i - 1 \in Nat /\ \A j \in 1 .. i - 1 : Todo'[j] = Todo[j + 1]
      BY <1>4, <1>6
    <3> QED
      BY <1>8, <3>1, ReachShift DEF Doubted
  <2> QED
    BY <1>6, <2>1, <2>2
<1>10. files[0] \in Files /\ files[1] = Apply(files[0], task) /\ Finds(files[0], task, Doubted(0))
  BY <1>4, <1>5, <1>6 DEF Leads
<1>11. Doubted(0) \subseteq doubtful
  BY ReachFrom DEF Doubted
<1>12. Touches(task) \subseteq Path /\ \A p \in Path \ Touches(task) : files[1][p] = files[0][p]
  <2>1. /\ Touches(task) \subseteq Path
        /\ \A p \in Path \ Touches(task) : Apply(files[0], task)[p] = files[0][p]
    BY <1>10, ApplyIs
  <2> QED
    BY <1>10, <2>1
<1>13. ASSUME NEW p \in Path \ doubtful' PROVE File(disk', p) = new[0][p]
  <2>1. \A q \in Path \ doubtful : File(disk, q) = files[0][q]
    BY <1>5 DEF Leads
  <2>2. CASE p \notin Touches(task)
    <3>1. File(disk', p) = File(disk, p)
      <4>1. CASE r.ok
        <5>1. Moved(disk, r.db, task)
          BY <4>1, TaskMoves
        <5> QED
          BY <1>1, <2>2, <4>1, <5>1 DEF Moved
      <4>2. CASE ~r.ok
        BY <1>1, <4>2
      <4> QED
        BY <4>1, <4>2
    <3> QED
      BY <1>1, <1>7, <1>12, <1>13, <2>1, <2>2, <3>1
  <2>3. CASE p \in Touches(task)
    <3>1. r.ok /\ disk' = r.db
      BY <1>1, <1>13, <2>3
    <3>2. \A q \in Touches(task) : q \notin doubtful
      <4>1. CASE task.op = "rename"
        BY <1>1, <1>13, <2>3, <4>1
      <4>2. CASE task.op # "rename"
        <5>1. \A q \in Touches(task) : q = p
          BY <2>3, <4>2 DEF Touches
        <5> QED
          BY <1>1, <1>13, <5>1
      <4> QED
        BY <4>1, <4>2
    <3>3. \A q \in Touches(task) : File(disk, q) = files[0][q]
      BY <1>12, <2>1, <3>2
    <3>4. task.op = "rename" => files[0][task.path] # NoGfid
      BY <1>10, <1>11, <3>2 DEF Finds
    <3> HIDE DEF r
    <3>5. File(r.db, p) = Apply(files[0], task)[p]
      BY <1>10, <2>3, <3>1, <3>3, <3>4, DiskFollows, SMT DEF r
    <3> QED
      BY <1>7, <1>10, <3>1, <3>5
  <2> QED
    BY <2>2, <2>3
<1>14. Leads(new)'
  <2>1. ASSUME NEW i \in 1 .. n
        PROVE  /\ new[i] = Apply(new[i - 1], Todo'[i])
               /\ Finds(new[i - 1], Todo'[i], Doubted(i - 1)')
    <3>1. /\ files[i + 1] = Apply(files[(i + 1) - 1], Todo[i + 1])
          /\ Finds(files[(i + 1) - 1], Todo[i + 1], Doubted((i + 1) - 1))
      BY <1>4, <1>5, <1>6 DEF Leads
    <3>2. files[i + 1] = Apply(files[i], Todo[i + 1]) /\ Finds(files[i], Todo[i + 1], Doubted(i))
      BY <1>6, <3>1
    <3>3. Finds(files[i], Todo[i + 1], Doubted(i - 1)')
      BY <1>9, <3>2, FindsLess
    <3> QED
      BY <1>4, <1>7, <3>2, <3>3
  <2> QED
    BY <1>4, <1>13, <2>1 DEF Leads
<1>15. Ends(new[n], Doubted(n))'
  <2>1. ASSUME NEW t \in Thread, At(t, "cbk")', Touches(call'[t].task) \cap Doubted(n)' = {}
        PROVE  /\ Finds(new[n], call'[t].task, Doubted(n)')
               /\ \A p \in Touches(call'[t].task) : ns'[p] = Apply(new[n], call'[t].task)[p]
    <3>1. /\ At(t, "cbk") /\ Touches(call[t].task) \cap Doubted(n + 1) = {}
          /\ call'[t].task = call[t].task
      BY <1>2, <1>9, <2>1
    <3>2. /\ Finds(new[n], call[t].task, Doubted(n + 1))
          /\ \A p \in Touches(call[t].task) : ns[p] = Apply(new[n], call[t].task)[p]
      BY <1>5, <1>7, <3>1, SMT DEF Ends
    <3> QED
      BY <1>1, <1>9, <3>1, <3>2, FindsLess
  <2>2. \A p \in Path \ Doubted(n)' :
          (\A t \in Thread : At(t, "cbk")' => p \notin Touches(call'[t].task)) => ns'[p] = new[n][p]
    BY <1>1, <1>2, <1>5, <1>7, <1>9 DEF Ends
  <2> QED
    BY <2>1, <2>2 DEF Ends
<1>16. Lone'
  BY <1>1, <1>2 DEF PathInv, Lone
<1> QED
  BY <1>4, <1>14, <1>15, <1>16 DEF PathInv

LEMMA PathInitial ==
  ASSUME InitD
  PROVE  PathInv
<1>1. /\ disk = db_initialize /\ queue = << >> /\ ns = [p \in Path |-> NoGfid]
      /\ \A p \in Proc : call[p] = Idle
  BY DEF InitD, InitH, Init
<1>2. Todo = << >> /\ \A p \in Proc : ~At(p, "cbk")
  BY <1>1, ConcatNone, SMT DEF Todo, At, Idle, Proc
<1>3. Lone
  BY <1>2 DEF Lone, Proc
<1>4. Len(Todo) = 0 /\ 1 .. Len(Todo) = {} /\ 0 \in 0 .. 0
  BY <1>2, SMT
<1> DEFINE files == [i \in 0 .. 0 |-> ns]
<1>5. files \in [0 .. 0 -> Files] /\ files[0] = ns
  BY <1>1, <1>4 DEF Files
<1> HIDE DEF files
<1>6. \A p \in Path : File(disk, p) = ns[p]
  BY <1>1 DEF File, db_initialize
<1>7. Leads(files)
  BY <1>4, <1>5, <1>6 DEF Leads
<1>8. Ends(files[0], Doubted(0))
  BY <1>2, <1>5 DEF Ends, Proc
<1> QED
  BY <1>3, <1>4, <1>5, <1>7, <1>8 DEF PathInv

LEMMA PathSteps ==
  ASSUME AsyncUpdate, ~DirHash, ~Queries, MaxCrash = 0, Inv, DataOK, Progress, Calm, Warned,
         PathInv, [NextD]_<<vars, base, doubtful, last>>
  PROVE  PathInv'
<1>1. disk \in Db /\ FileRefs(disk)
  BY DEF Inv, ConnOK, Grows
<1>2. ASSUME Stays PROVE PathInv'
  BY <1>2, PathStays
<1>3. ASSUME NEW t \in Thread, Queues(t) PROVE PathInv'
  BY <1>3, PathQueues
<1>4. ASSUME NEW t \in Thread, NEW task \in Task, Begins(t, task) PROVE PathInv'
  BY <1>4, PathBegins
<1>5. ASSUME NEW task \in Task, Finishes(task, Effect(disk, task, StatName)) PROVE PathInv'
  BY <1>1, <1>5, PathFinishes
<1> QED
  BY <1>2, <1>3, <1>4, <1>5, Events

LEMMA PathAgrees ==
  ASSUME Inv, AttrInv, PathInv
  PROVE  PathsAgree
<1> SUFFICES ASSUME Drained, NEW p \in Path \ doubtful
             PROVE  IF ns[p] = NoGfid THEN disk.xfile[p] = 0
                                      ELSE disk.xfile[p] = GET_GID(disk, ns[p])
  BY DEF PathsAgree
<1>1. Todo = << >> /\ \A t \in Thread : ~At(t, "cbk")
  BY ConcatNone, SMT DEF Drained, Todo, At, Proc
<1>2. Len(Todo) = 0
  BY <1>1, SMT
<1>3. PICK files : Leads(files) /\ Ends(files[0], Doubted(0))
  BY <1>2 DEF PathInv
<1>4. p \notin Doubted(0)
  BY ReachFrom DEF Doubted
<1>5. ns[p] = files[0][p] /\ File(disk, p) = files[0][p]
  BY <1>1, <1>3, <1>4 DEF Leads, Ends
<1>6. disk \in Db /\ FileRefs(disk) /\ Distinct(disk)
  BY DEF Inv, ConnOK, Grows, AttrInv
<1>7. CASE ns[p] = NoGfid
  BY <1>5, <1>6, <1>7, FileOf
<1>8. CASE ns[p] # NoGfid
  <2>1. disk.xfile[p] \in Gids(disk) /\ disk.xgfid[disk.xfile[p]] = ns[p]
    BY <1>5, <1>6, <1>8, FileOf
  <2>2. GET_GID(disk, ns[p]) = disk.xfile[p]
    BY <1>6, <2>1, GidOf, SMT
  <2> QED
    BY <1>8, <2>2
<1> QED
  BY <1>7, <1>8

\* Once the queue is empty, the paths in the index are the paths on the brick,
\* each with its file, but for the paths of updates that were logged as failed
\* and of operations that raced.  enable-dir-hash leaves directories out of the
\* index on purpose; crashes and queries as for AttributesAgree.
THEOREM PathsOfIndexAgree ==
  ASSUME AsyncUpdate, ~DirHash, ~Queries, MaxCrash = 0
  PROVE  SpecD => []PathsAgree
<1> DEFINE IInv == Inv /\ DataOK /\ Progress /\ Calm /\ Warned /\ AttrInv /\ PathInv
<1>1. InitD => IInv
  BY ServerStarts, AttrInitial, PathInitial
<1>2. IInv /\ [NextD]_<<vars, base, doubtful, last>> => IInv'
  BY ServerSteps, AttrSteps, PathSteps
<1>3. IInv => PathsAgree
  BY PathAgrees
<1> QED
  BY <1>1, <1>2, <1>3, PTL DEF SpecD
=============================================================================
