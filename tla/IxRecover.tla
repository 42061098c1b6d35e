------------------------------ MODULE IxRecover ------------------------------
(***************************************************************************)
(* ixrecover (ixrecover.c): rebuilds the index database of a brick from a  *)
(* list of paths.  One transaction spans the run; it is committed when the *)
(* run ends, also after an error, and lost when the process is killed.     *)
(* The tool makes up the gfids: it counts from zero in every run.          *)
(***************************************************************************)
EXTENDS ImsXdb

CONSTANTS
  Log,       \* the paths of the log file, comments left out
  Content,   \* the stat and the extended attributes of each path
  NotRead,   \* the value of a path that cannot be read
  InitDb,    \* the databases a run may be started on
  Counts,    \* the values of --count, 0 when it is not given
  MaxRun     \* bound: how often the tool is started

\* gid references xdb_xgfid, in xdb_xfile and in xdb_xdata.
References(db) ==
  /\ \A p \in Path : db.xfile[p] \in 0 .. Len(db.xgfid)
  /\ \A row \in db.xdata : row[1] \in Gids(db)

\* A file has one value for each extended attribute.
ASSUME LogAssumption ==
  /\ Log \in Seq(Path)
  /\ Content \in [Path -> [stat : Stat, xattr : SUBSET (XName \X Val)]]
  /\ \A p \in Path : \A x, y \in Content[p].xattr : x[1] = y[1] => x = y
  /\ 0 .. Len(Log) \subseteq Gfid

ASSUME StartAssumption ==
  /\ InitDb \subseteq Db
  /\ \A db \in InitDb : References(db)
  /\ MaxRun \in Nat

VARIABLES
  disk,      \* the committed database
  conn,      \* the database as the open transaction sees it
  file,      \* what the brick has at each path
  pc,        \* the statement that update_database executes next
  count,     \* --count of the run
  next,      \* the position of the next log entry
  gfid_num,
  fattr,     \* what read_attributes read, and the gid of INSERT_GFID
  before,    \* history: the database the run was started on
  runs

vars == <<disk, conn, file, pc, count, next, gfid_num, fattr, before, runs>>

NoAttr == [file |-> "none", gfid |-> 0, gid |-> 0, attr |-> NotRead, xattrs |-> {}]

Init ==
  /\ disk \in InitDb
  /\ conn = disk
  /\ before = disk
  /\ file = Content
  /\ pc = "exit"
  /\ count = 0
  /\ next = 1
  /\ gfid_num = 0
  /\ fattr = NoAttr
  /\ runs = 0

\* Mutant: the counter goes on where the database stands.
Bugdb_connect ==
  /\ pc = "exit"
  /\ runs < MaxRun
  /\ runs' = runs + 1
  /\ conn' = disk
  /\ before' = disk
  /\ pc' = "loop"
  /\ count' \in Counts
  /\ next' = 1
  /\ gfid_num' = Len(disk.xgfid)
  /\ fattr' = NoAttr
  /\ UNCHANGED <<disk, file>>

\* A process starts: its static variables are zero, and db_connect begins the
\* transaction.
db_connect ==
  /\ pc = "exit"
  /\ runs < MaxRun
  /\ runs' = runs + 1
  /\ conn' = disk
  /\ before' = disk
  /\ pc' = "loop"
  /\ count' \in Counts
  /\ next' = 1
  /\ gfid_num' = 0
  /\ fattr' = NoAttr
  /\ UNCHANGED <<disk, file>>

Finished == next > Len(Log) \/ (count # 0 /\ next > count)

\* Mutant: a file that is gone is tried again.
BugRetry ==
  /\ pc = "loop"
  /\ ~Finished
  /\ gfid_num' = gfid_num + 1
  /\ LET attr == file[Log[next]]
     IN  IF attr = NotRead
         THEN UNCHANGED <<pc, next, fattr>>
         ELSE /\ pc' = "gfid"
              /\ next' = next + 1
              /\ fattr' = [file |-> Log[next], gfid |-> gfid_num, gid |-> 0,
                           attr |-> attr, xattrs |-> attr.xattr]
  /\ UNCHANGED <<disk, conn, file, before, count, runs>>

\* Mutant: a file that is gone is passed over.
BugSkip ==
  /\ pc = "loop"
  /\ ~Finished
  /\ next' = next + 1
  /\ gfid_num' = gfid_num + 1
  /\ LET attr == file[Log[next]]
     IN  IF attr = NotRead
         THEN UNCHANGED <<pc, fattr>>
         ELSE /\ pc' = "gfid"
              /\ fattr' = [file |-> Log[next], gfid |-> gfid_num, gid |-> 0,
                           attr |-> attr, xattrs |-> attr.xattr]
  /\ UNCHANGED <<disk, conn, file, before, count, runs>>

\* A gfid is made up before the file is looked at; a file that is gone ends
\* the run.
read_attributes ==
  /\ pc = "loop"
  /\ ~Finished
  /\ next' = next + 1
  /\ gfid_num' = gfid_num + 1
  /\ LET attr == file[Log[next]]
     IN  IF attr = NotRead
         THEN /\ pc' = "out"
              /\ fattr' = NoAttr
         ELSE /\ pc' = "gfid"
              /\ fattr' = [file |-> Log[next], gfid |-> gfid_num, gid |-> 0,
                           attr |-> attr, xattrs |-> attr.xattr]
  /\ UNCHANGED <<disk, conn, file, before, count, runs>>

do_recovery_done ==
  /\ pc = "loop"
  /\ Finished
  /\ pc' = "out"
  /\ UNCHANGED <<disk, conn, file, next, gfid_num, fattr, before, count, runs>>

\* A statement that fails ends update_database and with it the run; what the
\* statements before it did stays in the transaction.
Executes(here, res, there) ==
  /\ pc = here
  /\ conn' = res.db
  /\ pc' = IF res.ok THEN there ELSE "out"
  /\ UNCHANGED <<disk, file, next, gfid_num, before, count, runs>>

\* sqlite3_last_insert_rowid gives the gid.
Insert_gfid ==
  LET res == INSERT_GFID(conn, fattr.gfid)
  IN  /\ Executes("gfid", res, "file")
      /\ fattr' = [fattr EXCEPT !.gid = Len(res.db.xgfid)]

\* The tool binds the gid; it is the one that GET_GID finds for the gfid.
Insert_file ==
  /\ Executes("file", INSERT_FILE(conn, fattr.gfid, fattr.file), "stat")
  /\ UNCHANGED fattr

\* Mutant: the rows are inserted for the number that was made up.
BugInsert_stat ==
  /\ Executes("stat", INSERT_STAT(conn, fattr.gfid, fattr.attr.stat), "xattr")
  /\ UNCHANGED fattr

Insert_stat ==
  /\ Executes("stat", INSERT_STAT(conn, fattr.gid, fattr.attr.stat), "xattr")
  /\ UNCHANGED fattr

\* One attribute: its name, then its value.
Insert_xattr ==
  \E x \in fattr.xattrs :
    /\ Executes("xattr",
                INSERT_XDATA(INSERT_XNAME(conn, x[1]).db, fattr.gfid, x[1], x[2]),
                "xattr")
    /\ fattr' = [fattr EXCEPT !.xattrs = @ \ {x}]

Insert_done ==
  /\ pc = "xattr"
  /\ fattr.xattrs = {}
  /\ pc' = "loop"
  /\ UNCHANGED <<disk, conn, file, next, gfid_num, fattr, before, count, runs>>

update_database ==
  Insert_gfid \/ Insert_file \/ Insert_stat \/ Insert_xattr \/ Insert_done

\* main calls db_disconnect whatever do_recovery returned.
db_disconnect ==
  /\ pc = "out"
  /\ disk' = conn
  /\ pc' = "exit"
  /\ UNCHANGED <<conn, file, next, gfid_num, fattr, before, count, runs>>

\* The process is killed: the transaction is rolled back when the database is
\* opened again.
Kill ==
  /\ pc # "exit"
  /\ pc' = "exit"
  /\ conn' = disk
  /\ UNCHANGED <<disk, file, next, gfid_num, fattr, before, count, runs>>

\* A path of the log vanishes, or is there again, while no other is missing.
FileChange ==
  /\ \E p \in Path :
       file' = [Content EXCEPT ![p] = IF file[p] = NotRead THEN @ ELSE NotRead]
  /\ UNCHANGED <<disk, conn, pc, next, gfid_num, fattr, before, count, runs>>

Next == \/ db_connect \/ read_attributes \/ do_recovery_done
        \/ update_database \/ db_disconnect \/ Kill \/ FileChange

Spec == Init /\ [][Next]_vars

-----------------------------------------------------------------------------
\* Every variable has its type: in both databases, and in the one that a run of
\* do_recovery began with, a row refers to a gid that has a row.
TypeOK ==
  /\ {disk, conn, before} \subseteq Db
  /\ \A db \in {disk, conn, before} : References(db)
  /\ pc \in {"exit", "loop", "gfid", "file", "stat", "xattr", "out"}
  /\ gfid_num \in 0 .. Len(Log)
  /\ runs \in 0 .. MaxRun

\* The attributes the database has for a path.
Indexed(db, p) ==
  {<<row[2], row[3]>> : row \in Rows(db, db.xfile[p], Name)}

Expected(p) ==
  {<<n, Content[p].stat[n]>> : n \in StatName} \cup Content[p].xattr

Recovered == {p \in Path : disk.xfile[p] # 0 /\ before.xfile[p] = 0}

\* A path that ixrecover has committed has exactly the attributes of that
\* path, although the commit in db_disconnect also follows a run that stopped
\* in the middle of a file, and although the statements of one file are tied
\* together by sqlite3_last_insert_rowid only.
RecoveredWhole ==
  \A p \in Recovered : Indexed(disk, p) = Expected(p)

\* A run adds the paths of a beginning of the log, and all of them or, when
\* it is killed, none: no path is skipped by do_recovery.
RecoveredPrefix ==
  pc = "exit" =>
    \/ disk = before
    \/ \E n \in 0 .. Len(Log) :
         Recovered = {Log[i] : i \in 1 .. n} \ {p \in Path : before.xfile[p] # 0}

\* Once a run has committed a row under the first gfid that is made up, no
\* later run changes the database: read_attributes makes up the same gfid
\* again and INSERT_GFID refuses it.  A recovery that stopped early is not
\* completed by another.
NotResumed ==
  [][GET_GID(disk, 0) # 0 => disk' = disk]_vars
=============================================================================
