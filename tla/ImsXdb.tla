------------------------------- MODULE ImsXdb -------------------------------
(***************************************************************************)
(* The index database of one brick (imess-server-xdb.c, the schema in      *)
(* imess-server-xdb-schema.sql): its tables and the SQL statements that    *)
(* change them.  A statement is an operator from a database to a result    *)
(* [ok, db]; a statement that violates a constraint is undone by SQLite    *)
(* and leaves the database as it was.                                      *)
(***************************************************************************)
EXTENDS Naturals, Sequences

CONSTANTS
  Path,     \* paths of files, directories and links on the brick
  Gfid,     \* GlusterFS file identifiers
  XName,    \* names of the indexed extended attributes (user.imess.*)
  Val       \* values of stat fields and of extended attributes

\* One representative of each class of stat(2) fields that
\* ims_xdb_update_stat tells apart: st_mode stands for the fields only
\* STAT_OP_ALL writes, st_uid for the owner, st_size and st_mtime for the
\* fields STAT_OP_WRITE writes.
StatName == {"st_mode", "st_uid", "st_size", "st_mtime"}

ASSUME NamesAssumption == XName \cap StatName = {}

Stat == [StatName -> Val]

Name == StatName \cup XName

-----------------------------------------------------------------------------
\* xgfid: the gfid of row gid at position gid.  The gid is SQLite's rowid, one
\* more than the largest in use, and no statement that is ever executed
\* deletes a row, so the rows in use are 1..Len(xgfid).
\* xfile: the gid of a path's row, 0 when the path (unique) has no row.
\* xname: the registered extended attribute names.
\* xdata: rows <<gid, name, value>>.
Db ==
  [ xgfid : Seq(Gfid),
    xfile : [Path -> Nat],
    xname : SUBSET XName,
    xdata : SUBSET (Nat \X Name \X Val) ]

\* The database that db_initialize creates from the schema.
db_initialize ==
  [ xgfid |-> << >>,
    xfile |-> [p \in Path |-> 0],
    xname |-> {},
    xdata |-> {} ]

Done(db) == [ok |-> TRUE, db |-> db]

Constraint(db) == [ok |-> FALSE, db |-> db]

Gids(db) == 1 .. Len(db.xgfid)

\* select gid from xdb_xgfid where gfid=?; 0 stands for no row (NULL).
GET_GID(db, gfid) ==
  IF \E gid \in Gids(db) : db.xgfid[gid] = gfid
  THEN CHOOSE gid \in Gids(db) : db.xgfid[gid] = gfid
  ELSE 0

INSERT_GFID(db, gfid) ==
  IF GET_GID(db, gfid) = 0
  THEN Done([db EXCEPT !.xgfid = Append(@, gfid)])
  ELSE Constraint(db)

\* INSERT_FILE and LINK_FILE are the same statement: gid is not null and
\* path is unique.
INSERT_FILE(db, gfid, path) ==
  IF GET_GID(db, gfid) # 0 /\ db.xfile[path] = 0
  THEN Done([db EXCEPT !.xfile[path] = GET_GID(db, gfid)])
  ELSE Constraint(db)

Rows(db, gid, names) ==
  {row \in db.xdata : row[1] = gid /\ row[2] \in names}

\* One row for every stat field; (gid, nid) is unique.
INSERT_STAT(db, gid, sb) ==
  IF Rows(db, gid, StatName) = {}
  THEN Done([db EXCEPT !.xdata = @ \cup {<<gid, n, sb[n]>> : n \in StatName}])
  ELSE Constraint(db)

\* Updates the row of (gid, name) when there is one; no row is no error.
UPDATE_STAT(db, gid, name, val) ==
  LET old == Rows(db, gid, {name})
  IN  Done(IF old = {}
           THEN db
           ELSE [db EXCEPT !.xdata = (@ \ old) \cup {<<gid, name, val>>}])

\* Mutant: unlink deletes the gfid row too, though a hard link may need it.
BugUnlinkGfid(db, path) ==
  LET n == Len(db.xgfid)
  IN  Done([db EXCEPT !.xfile[path] = 0,
                      !.xgfid = IF db.xfile[path] = n /\ n > 0
                                THEN SubSeq(@, 1, n - 1)
                                ELSE @])

UNLINK_FILE(db, path) ==
  Done([db EXCEPT !.xfile[path] = 0])

\* Moves the row of the old path when there is one, unless the new path has
\* a row of its own.
RENAME(db, old, new) ==
  IF db.xfile[old] = 0
  THEN Done(db)
  ELSE IF db.xfile[new] # 0 /\ new # old
       THEN Constraint(db)
       ELSE Done([db EXCEPT !.xfile =
                    [[@ EXCEPT ![old] = 0] EXCEPT ![new] = db.xfile[old]]])

INSERT_XNAME(db, name) ==
  Done([db EXCEPT !.xname = @ \cup {name}])

\* insert or replace; gid and nid are not null.
INSERT_XDATA(db, gfid, name, val) ==
  LET gid == GET_GID(db, gfid)
  IN  IF gid # 0 /\ name \in db.xname
      THEN Done([db EXCEPT !.xdata =
                   (@ \ Rows(db, gid, {name})) \cup {<<gid, name, val>>}])
      ELSE Constraint(db)

-----------------------------------------------------------------------------
\* ims_task_t: what a callback tells the index, one record per opcode.
InsertTask == [op : {"insert"}, gfid : Gfid, path : Path, sb : Stat]
UnlinkTask == [op : {"unlink"}, path : Path]
UpdateTask == [op : {"update"}, gfid : Gfid, sb : Stat]
LinkTask   == [op : {"link"}, gfid : Gfid, path : Path]
RenameTask == [op : {"rename"}, path : Path, extra : Path]
XattrTask  == [op : {"xattr"}, gfid : Gfid, name : XName, val : Val]

Task == InsertTask \cup UnlinkTask \cup UpdateTask \cup LinkTask
          \cup RenameTask \cup XattrTask

\* The whole of a task on a database nobody else uses.  fields are the stat
\* fields an update writes.
Effect(db, task, fields) ==
  LET gid == GET_GID(db, task.gfid)
      a == INSERT_GFID(db, task.gfid)
      b == INSERT_FILE(a.db, task.gfid, task.path)
      c == INSERT_STAT(b.db, GET_GID(b.db, task.gfid), task.sb)
      New(row) == IF row[1] = gid /\ row[2] \in fields
                  THEN <<gid, row[2], task.sb[row[2]]>>
                  ELSE row
  IN  CASE task.op = "insert" -> IF a.ok THEN IF b.ok THEN c ELSE b ELSE a
        [] task.op = "update" -> IF gid = 0
                                 THEN Constraint(db)
                                 ELSE Done([db EXCEPT !.xdata = {New(row) : row \in @}])
        [] task.op = "xattr"  -> INSERT_XDATA(INSERT_XNAME(db, task.name).db,
                                              task.gfid, task.name, task.val)
        [] task.op = "link"   -> INSERT_FILE(db, task.gfid, task.path)
        [] task.op = "unlink" -> UNLINK_FILE(db, task.path)
        [] task.op = "rename" -> RENAME(db, task.path, task.extra)
=============================================================================
