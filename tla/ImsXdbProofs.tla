---------------------------- MODULE ImsXdbProofs ----------------------------
(***************************************************************************)
(* What each SQL statement of ImsXdb keeps: the type of the database, the  *)
(* meaning of the gids in use, and the references between the tables.      *)
(***************************************************************************)
EXTENDS ImsXdb, TLAPS

\* Most leaves are first-order: Zenon proves them.  A leaf that needs arithmetic,
\* record or sequence reasoning names SMT.
USE Zenon

\* new is a database that still has every gid of old, for the same file.
Grows(old, new) ==
  /\ old \in Db
  /\ new \in Db
  /\ Len(old.xgfid) <= Len(new.xgfid)
  /\ \A gid \in 1 .. Len(old.xgfid) : new.xgfid[gid] = old.xgfid[gid]

\* The foreign keys of xdb_xfile and of xdb_xdata hold.
FileRefs(db) == \A p \in Path : db.xfile[p] \in 0 .. Len(db.xgfid)
DataRefs(db) == \A row \in db.xdata : row[1] \in 1 .. Len(db.xgfid)

\* A statement with result r took old to a database that keeps all this.
Keeps(old, r) ==
  /\ r.ok \in BOOLEAN
  /\ Grows(old, r.db)
  /\ FileRefs(old) => FileRefs(r.db)
  /\ DataRefs(old) => DataRefs(r.db)

-----------------------------------------------------------------------------
\* A statement that changes no row, or a constraint failure, keeps everything.
LEMMA KeepsSame ==
  ASSUME NEW db \in Db
  PROVE  /\ Keeps(db, Done(db))
         /\ Keeps(db, Constraint(db))
BY SMT DEF Keeps, Grows, Done, Constraint, Db

\* A database has its own gids.
LEMMA GrowsSame ==
  ASSUME NEW db \in Db
  PROVE  Grows(db, db)
<1>1. Len(db.xgfid) \in Nat
  BY SMT DEF Db
<1> QED
  BY <1>1, SMT DEF Grows

\* Growth is transitive: what holds over one statement holds over many.
LEMMA GrowsTrans ==
  ASSUME NEW a, NEW b, NEW c, Grows(a, b), Grows(b, c)
  PROVE  Grows(a, c)
BY SMT DEF Grows, Db

\* The empty database is a database, grows into itself and has sound keys.
LEMMA EmptyDb ==
  /\ db_initialize \in Db
  /\ Grows(db_initialize, db_initialize)
  /\ FileRefs(db_initialize)
  /\ DataRefs(db_initialize)
BY SMT DEF db_initialize, Db, Grows, FileRefs, DataRefs

\* select gid from xdb_xgfid returns a gid in use, or 0 for no row.
LEMMA GetGid ==
  ASSUME NEW db \in Db, NEW gfid
  PROVE  GET_GID(db, gfid) \in 0 .. Len(db.xgfid)
<1>1. Len(db.xgfid) \in Nat
  BY SMT DEF Db
<1>2. CASE \E gid \in Gids(db) : db.xgfid[gid] = gfid
  <2>1. GET_GID(db, gfid) \in Gids(db)
    BY <1>2 DEF GET_GID
  <2> QED
    BY <1>1, <2>1, SMT DEF Gids
<1>3. CASE ~ \E gid \in Gids(db) : db.xgfid[gid] = gfid
  BY <1>1, <1>3, SMT DEF GET_GID
<1> QED
  BY <1>2, <1>3

\* The new row gets the next gid; the rows before it stay.
LEMMA KeepsInsertGfid ==
  ASSUME NEW db \in Db, NEW gfid \in Gfid
  PROVE  Keeps(db, INSERT_GFID(db, gfid))
<1>1. CASE GET_GID(db, gfid) = 0
  <2> DEFINE new == [db EXCEPT !.xgfid = Append(@, gfid)]
  <2>1. /\ db.xgfid \in Seq(Gfid)
        /\ Len(db.xgfid) \in Nat
        /\ Append(db.xgfid, gfid) \in Seq(Gfid)
    BY SMT DEF Db
  <2>2. new.xgfid = Append(db.xgfid, gfid)
    BY DEF Db
  <2>3. /\ new.xfile = db.xfile
        /\ new.xdata = db.xdata
    BY DEF Db
  <2>4. new \in Db
    BY <2>1 DEF Db
  <2>5. /\ Len(new.xgfid) = Len(db.xgfid) + 1
        /\ \A gid \in 1 .. Len(db.xgfid) : new.xgfid[gid] = db.xgfid[gid]
    BY <2>1, <2>2, SMT
  <2> HIDE DEF new
  <2>6. Grows(db, new)
    BY <2>1, <2>4, <2>5, SMT DEF Grows
  <2>7. \A n : n \in 0 .. Len(db.xgfid) => n \in 0 .. Len(new.xgfid)
    BY <2>1, <2>5, SMT
  <2>8. FileRefs(db) => FileRefs(new)
    BY <2>3, <2>7 DEF FileRefs
  <2>9. DataRefs(db) => DataRefs(new)
    BY <2>1, <2>3, <2>5, SMT DEF DataRefs
  <2> QED
    BY <1>1, <2>6, <2>8, <2>9 DEF Keeps, INSERT_GFID, Done, new
<1>2. CASE GET_GID(db, gfid) # 0
  BY <1>2, KeepsSame DEF INSERT_GFID
<1> QED
  BY <1>1, <1>2

\* The row of a path gets the gid of its file, which is in use.
LEMMA KeepsInsertFile ==
  ASSUME NEW db \in Db, NEW gfid, NEW path \in Path
  PROVE  Keeps(db, INSERT_FILE(db, gfid, path))
<1> DEFINE gid == GET_GID(db, gfid)
<1>1. gid \in 0 .. Len(db.xgfid)
  BY GetGid
<1>2. CASE gid # 0 /\ db.xfile[path] = 0
  <2> DEFINE new == [db EXCEPT !.xfile[path] = gid]
  <2>1. /\ new.xgfid = db.xgfid
        /\ new.xfile = [db.xfile EXCEPT ![path] = gid]
        /\ new.xdata = db.xdata
    BY DEF Db
  <2>2. /\ db.xfile \in [Path -> Nat]
        /\ Len(db.xgfid) \in Nat
    BY SMT DEF Db
  <2>3. new \in Db
    <3>1. gid \in Nat
      BY <1>1, <2>2, SMT
    <3> HIDE DEF gid
    <3> QED
      BY <3>1 DEF Db
  <2> HIDE DEF new, gid
  <2>4. Grows(db, new)
    BY <2>1, <2>2, <2>3, SMT DEF Grows
  <2>5. FileRefs(db) => FileRefs(new)
    BY <1>1, <2>1, <2>2 DEF FileRefs
  <2>6. DataRefs(db) => DataRefs(new)
    BY <2>1 DEF DataRefs
  <2> QED
    BY <1>2, <2>4, <2>5, <2>6 DEF Keeps, INSERT_FILE, Done, new, gid
<1>3. CASE ~(gid # 0 /\ db.xfile[path] = 0)
  BY <1>3, KeepsSame DEF INSERT_FILE
<1> QED
  BY <1>2, <1>3

\* A statement that replaces only rows of xdb_xdata keeps the rest; it keeps
\* the references when the rows it adds are of gids in use.
LEMMA KeepsData ==
  ASSUME NEW db \in Db, NEW rows \in SUBSET (Nat \X Name \X Val)
  PROVE  LET new == [db EXCEPT !.xdata = rows]
         IN  /\ Grows(db, new)
             /\ FileRefs(db) => FileRefs(new)
             /\ (\A row \in rows : row[1] \in 1 .. Len(db.xgfid)) => DataRefs(new)
<1> DEFINE new == [db EXCEPT !.xdata = rows]
<1>1. /\ new.xgfid = db.xgfid
      /\ new.xfile = db.xfile
      /\ new.xdata = rows
      /\ new \in Db
  BY DEF Db
<1>2. Len(db.xgfid) \in Nat
  BY SMT DEF Db
<1> HIDE DEF new
<1>3. Grows(db, new)
  BY <1>1, <1>2, SMT DEF Grows
<1>4. FileRefs(db) => FileRefs(new)
  BY <1>1 DEF FileRefs
<1>5. (\A row \in rows : row[1] \in 1 .. Len(db.xgfid)) => DataRefs(new)
  BY <1>1 DEF DataRefs
<1> QED
  BY <1>3, <1>4, <1>5 DEF new

\* INSERT_STAT keeps all but the references of xdb_xdata, and these too when
\* the gid it is given is in use.
LEMMA KeepsInsertStat ==
  ASSUME NEW db \in Db, NEW gid \in Nat, NEW sb \in Stat
  PROVE  LET r == INSERT_STAT(db, gid, sb)
         IN  /\ r.ok \in BOOLEAN
             /\ Grows(db, r.db)
             /\ FileRefs(db) => FileRefs(r.db)
             /\ gid \in Gids(db) => Keeps(db, r)
<1> DEFINE rows == db.xdata \cup {<<gid, n, sb[n]>> : n \in StatName}
           new  == [db EXCEPT !.xdata = rows]
<1>1. rows \in SUBSET (Nat \X Name \X Val)
  <2>1. db.xdata \in SUBSET (Nat \X Name \X Val)
    BY DEF Db
  <2>2. \A n \in StatName : n \in Name /\ sb[n] \in Val
    BY DEF Stat, Name
  <2> QED
    BY <2>1, <2>2, SMT
<1>2. gid \in Gids(db) /\ DataRefs(db) => \A row \in rows : row[1] \in 1 .. Len(db.xgfid)
  BY SMT DEF DataRefs, Gids
<1> HIDE DEF rows
<1>3. /\ Grows(db, new)
      /\ FileRefs(db) => FileRefs(new)
      /\ gid \in Gids(db) /\ DataRefs(db) => DataRefs(new)
  BY <1>1, <1>2, KeepsData
<1>4. CASE Rows(db, gid, StatName) = {}
  <2>1. INSERT_STAT(db, gid, sb) = Done(new)
    BY <1>4 DEF INSERT_STAT, rows
  <2> QED
    BY <1>3, <2>1, SMT DEF Keeps, Done
<1>5. CASE Rows(db, gid, StatName) # {}
  <2>1. INSERT_STAT(db, gid, sb) = Constraint(db)
    BY <1>5 DEF INSERT_STAT
  <2> QED
    BY <2>1, KeepsSame DEF Keeps, Constraint
<1> QED
  BY <1>4, <1>5

\* UPDATE_STAT writes a row only where there was one.
LEMMA KeepsUpdateStat ==
  ASSUME NEW db \in Db, NEW gid \in Nat, NEW name \in Name, NEW val \in Val
  PROVE  Keeps(db, UPDATE_STAT(db, gid, name, val))
<1> DEFINE old  == Rows(db, gid, {name})
           rows == (db.xdata \ old) \cup {<<gid, name, val>>}
           new  == [db EXCEPT !.xdata = rows]
<1>1. CASE old = {}
  BY <1>1, KeepsSame DEF UPDATE_STAT
<1>2. CASE old # {}
  <2>1. rows \in SUBSET (Nat \X Name \X Val)
    BY SMT DEF Db
  <2>2. DataRefs(db) => \A row \in rows : row[1] \in 1 .. Len(db.xgfid)
    BY <1>2, SMT DEF DataRefs, Rows
  <2>3. UPDATE_STAT(db, gid, name, val) = Done(new)
    BY <1>2 DEF UPDATE_STAT
  <2> HIDE DEF rows
  <2>4. /\ Grows(db, new)
        /\ FileRefs(db) => FileRefs(new)
        /\ DataRefs(db) => DataRefs(new)
    BY <2>1, <2>2, KeepsData
  <2> QED
    BY <2>3, <2>4, SMT DEF Keeps, Done
<1> QED
  BY <1>1, <1>2

\* INSERT_XDATA looks its gid up in the same statement.
LEMMA KeepsInsertXdata ==
  ASSUME NEW db \in Db, NEW gfid, NEW name \in XName, NEW val \in Val
  PROVE  Keeps(db, INSERT_XDATA(db, gfid, name, val))
<1> DEFINE gid  == GET_GID(db, gfid)
           rows == (db.xdata \ Rows(db, gid, {name})) \cup {<<gid, name, val>>}
           new  == [db EXCEPT !.xdata = rows]
<1>1. gid \in 0 .. Len(db.xgfid) /\ Len(db.xgfid) \in Nat
  BY GetGid, SMT DEF Db
<1>2. CASE gid # 0 /\ name \in db.xname
  <2>1. INSERT_XDATA(db, gfid, name, val) = Done(new)
    BY <1>2 DEF INSERT_XDATA
  <2>2. gid \in Nat /\ gid \in 1 .. Len(db.xgfid)
    BY <1>1, <1>2, SMT
  <2> HIDE DEF gid
  <2>3. rows \in SUBSET (Nat \X Name \X Val)
    BY <2>2, SMT DEF Db, Name
  <2>4. DataRefs(db) => \A row \in rows : row[1] \in 1 .. Len(db.xgfid)
    BY <2>2, SMT DEF DataRefs
  <2> HIDE DEF rows
  <2>5. /\ Grows(db, new)
        /\ FileRefs(db) => FileRefs(new)
        /\ DataRefs(db) => DataRefs(new)
    BY <2>3, <2>4, KeepsData
  <2> QED
    BY <2>1, <2>5, SMT DEF Keeps, Done
<1>3. CASE ~(gid # 0 /\ name \in db.xname)
  BY <1>3, KeepsSame DEF INSERT_XDATA
<1> QED
  BY <1>2, <1>3

\* Registering a name changes xdb_xname only.
LEMMA KeepsInsertXname ==
  ASSUME NEW db \in Db, NEW name \in XName
  PROVE  Keeps(db, INSERT_XNAME(db, name))
<1> DEFINE new == [db EXCEPT !.xname = @ \cup {name}]
<1>1. /\ new.xgfid = db.xgfid
      /\ new.xfile = db.xfile
      /\ new.xdata = db.xdata
      /\ new \in Db
  BY DEF Db
<1>2. Len(db.xgfid) \in Nat
  BY SMT DEF Db
<1>3. INSERT_XNAME(db, name) = Done(new)
  BY DEF INSERT_XNAME
<1> HIDE DEF new
<1> QED
  BY <1>1, <1>2, <1>3, SMT DEF Keeps, Grows, FileRefs, DataRefs, Done

\* A statement on xdb_xfile keeps its references when the new rows have gids
\* in use.
LEMMA KeepsFile ==
  ASSUME NEW db \in Db, NEW files \in [Path -> Nat]
  PROVE  LET new == [db EXCEPT !.xfile = files]
         IN  /\ Grows(db, new)
             /\ (\A p \in Path : files[p] \in 0 .. Len(db.xgfid)) => FileRefs(new)
             /\ DataRefs(db) => DataRefs(new)
<1> DEFINE new == [db EXCEPT !.xfile = files]
<1>1. /\ new.xgfid = db.xgfid
      /\ new.xfile = files
      /\ new.xdata = db.xdata
      /\ new \in Db
  BY DEF Db
<1>2. Len(db.xgfid) \in Nat
  BY SMT DEF Db
<1> HIDE DEF new
<1>3. Grows(db, new)
  BY <1>1, <1>2, SMT DEF Grows
<1>4. (\A p \in Path : files[p] \in 0 .. Len(db.xgfid)) => FileRefs(new)
  BY <1>1 DEF FileRefs
<1>5. DataRefs(db) => DataRefs(new)
  BY <1>1 DEF DataRefs
<1> QED
  BY <1>3, <1>4, <1>5 DEF new

\* Deleting the row of a path leaves every other row alone.
LEMMA KeepsUnlinkFile ==
  ASSUME NEW db \in Db, NEW path \in Path
  PROVE  Keeps(db, UNLINK_FILE(db, path))
<1> DEFINE files == [db.xfile EXCEPT ![path] = 0]
           new   == [db EXCEPT !.xfile = files]
<1>1. /\ files \in [Path -> Nat]
      /\ db.xfile \in [Path -> Nat]
      /\ Len(db.xgfid) \in Nat
  BY SMT DEF Db
<1>2. FileRefs(db) => \A p \in Path : files[p] \in 0 .. Len(db.xgfid)
  <2>1. \A p \in Path : files[p] \in {0, db.xfile[p]}
    BY <1>1
  <2>2. 0 \in 0 .. Len(db.xgfid)
    BY <1>1, SMT
  <2> HIDE DEF files
  <2> QED
    BY <2>1, <2>2 DEF FileRefs
<1>3. UNLINK_FILE(db, path) = Done(new)
  BY DEF UNLINK_FILE
<1> HIDE DEF files
<1>4. /\ Grows(db, new)
      /\ FileRefs(db) => FileRefs(new)
      /\ DataRefs(db) => DataRefs(new)
  BY <1>1, <1>2, KeepsFile
<1> QED
  BY <1>3, <1>4, SMT DEF Keeps, Done

\* A rename moves a gid from one path to another.
LEMMA KeepsRename ==
  ASSUME NEW db \in Db, NEW old \in Path, NEW new \in Path
  PROVE  Keeps(db, RENAME(db, old, new))
<1> DEFINE files == [[db.xfile EXCEPT ![old] = 0] EXCEPT ![new] = db.xfile[old]]
           moved == [db EXCEPT !.xfile = files]
<1>1. /\ files \in [Path -> Nat]
      /\ db.xfile \in [Path -> Nat]
      /\ Len(db.xgfid) \in Nat
  BY SMT DEF Db
<1>2. FileRefs(db) => \A p \in Path : files[p] \in 0 .. Len(db.xgfid)
  <2>1. \A p \in Path : files[p] \in {0, db.xfile[p], db.xfile[old]}
    BY <1>1
  <2>2. 0 \in 0 .. Len(db.xgfid)
    BY <1>1, SMT
  <2> HIDE DEF files
  <2> QED
    BY <2>1, <2>2 DEF FileRefs
<1>3. RENAME(db, old, new) \in {Done(db), Constraint(db), Done(moved)}
  BY DEF RENAME
<1> HIDE DEF files
<1>4. /\ Grows(db, moved)
      /\ FileRefs(db) => FileRefs(moved)
      /\ DataRefs(db) => DataRefs(moved)
  BY <1>1, <1>2, KeepsFile
<1>5. Keeps(db, Done(moved))
  BY <1>4 DEF Keeps, Done
<1> HIDE DEF moved
<1> QED
  BY <1>3, <1>5, KeepsSame

-----------------------------------------------------------------------------
(* The stat rows of files.                                                 *)

\* The files gids have all their stat rows.
StatRows(db, gids) ==
  \A gid \in gids, n \in StatName : \E v \in Val : <<gid, n, v>> \in db.xdata

\* INSERT_GFID adds a row whose gid is the number of rows, and get_gid finds it.
LEMMA InsertedGfid ==
  ASSUME NEW db \in Db, NEW gfid \in Gfid, INSERT_GFID(db, gfid).ok
  PROVE  LET new == INSERT_GFID(db, gfid).db
         IN  /\ new.xgfid = Append(db.xgfid, gfid)
             /\ new.xfile = db.xfile
             /\ new.xname = db.xname
             /\ new.xdata = db.xdata
             /\ Len(new.xgfid) = Len(db.xgfid) + 1
             /\ GET_GID(new, gfid) = Len(new.xgfid)
<1> DEFINE new == [db EXCEPT !.xgfid = Append(@, gfid)]
<1>1. GET_GID(db, gfid) = 0 /\ INSERT_GFID(db, gfid).db = new
  BY DEF INSERT_GFID, Done, Constraint
<1>2. /\ new.xgfid = Append(db.xgfid, gfid) /\ new.xfile = db.xfile
      /\ new.xname = db.xname /\ new.xdata = db.xdata
      /\ db.xgfid \in Seq(Gfid)
  BY DEF Db
<1> HIDE DEF new
<1>3. /\ Len(db.xgfid) \in Nat /\ Len(new.xgfid) = Len(db.xgfid) + 1
      /\ new.xgfid[Len(db.xgfid) + 1] = gfid
      /\ \A i \in 1 .. Len(db.xgfid) : new.xgfid[i] = db.xgfid[i]
  BY <1>2, SMT
<1>4. \A i \in Gids(db) : db.xgfid[i] # gfid
  <2> SUFFICES ASSUME NEW i \in Gids(db), db.xgfid[i] = gfid PROVE FALSE
    OBVIOUS
  <2>1. GET_GID(db, gfid) \in Gids(db)
    BY DEF GET_GID
  <2> QED
    BY <1>1, <2>1, SMT DEF Gids
<1>5. \A i \in Gids(new) : new.xgfid[i] = gfid => i = Len(new.xgfid)
  BY <1>3, <1>4, SMT DEF Gids
<1>6. Len(new.xgfid) \in Gids(new) /\ new.xgfid[Len(new.xgfid)] = gfid
  BY <1>3, SMT DEF Gids
<1>7. GET_GID(new, gfid) = Len(new.xgfid)
  BY <1>5, <1>6 DEF GET_GID
<1> QED
  BY <1>1, <1>2, <1>3, <1>7

\* Statements that write neither gids nor stat rows.
LEMMA FileLeavesRows ==
  ASSUME NEW db \in Db, NEW gfid, NEW path, NEW path2, NEW name
  PROVE  /\ INSERT_FILE(db, gfid, path).db.xgfid = db.xgfid
         /\ INSERT_FILE(db, gfid, path).db.xdata = db.xdata
         /\ UNLINK_FILE(db, path).db.xgfid = db.xgfid
         /\ UNLINK_FILE(db, path).db.xdata = db.xdata
         /\ RENAME(db, path, path2).db.xgfid = db.xgfid
         /\ RENAME(db, path, path2).db.xdata = db.xdata
         /\ INSERT_XNAME(db, name).db.xgfid = db.xgfid
         /\ INSERT_XNAME(db, name).db.xdata = db.xdata
<1>1. INSERT_FILE(db, gfid, path).db.xgfid = db.xgfid
      /\ INSERT_FILE(db, gfid, path).db.xdata = db.xdata
  BY DEF INSERT_FILE, Done, Constraint, Db
<1>2. UNLINK_FILE(db, path).db.xgfid = db.xgfid
      /\ UNLINK_FILE(db, path).db.xdata = db.xdata
  BY DEF UNLINK_FILE, Done, Db
<1>3. RENAME(db, path, path2).db.xgfid = db.xgfid
      /\ RENAME(db, path, path2).db.xdata = db.xdata
  BY DEF RENAME, Done, Constraint, Db
<1>4. INSERT_XNAME(db, name).db.xgfid = db.xgfid
      /\ INSERT_XNAME(db, name).db.xdata = db.xdata
  BY DEF INSERT_XNAME, Done, Db
<1> QED
  BY <1>1, <1>2, <1>3, <1>4

\* UPDATE_STAT writes a new value into rows that are there.
LEMMA UpdateLeavesRows ==
  ASSUME NEW db \in Db, NEW gid, NEW name, NEW val \in Val, NEW gids, StatRows(db, gids)
  PROVE  /\ UPDATE_STAT(db, gid, name, val).db.xgfid = db.xgfid
         /\ StatRows(UPDATE_STAT(db, gid, name, val).db, gids)
<1> DEFINE old == Rows(db, gid, {name})
           rows == (db.xdata \ old) \cup {<<gid, name, val>>}
           new == [db EXCEPT !.xdata = rows]
<1>1. CASE old = {}
  BY <1>1 DEF UPDATE_STAT, Done
<1>2. CASE old # {}
  <2>1. UPDATE_STAT(db, gid, name, val).db = new
    BY <1>2 DEF UPDATE_STAT, Done
  <2>2. new.xgfid = db.xgfid /\ new.xdata = rows
    BY DEF Db
  <2>3. ASSUME NEW g \in gids, NEW n \in StatName
        PROVE  \E v \in Val : <<g, n, v>> \in rows
    <3>1. PICK v \in Val : <<g, n, v>> \in db.xdata
      BY DEF StatRows
    <3>2. <<g, n, v>> \in old => g = gid /\ n = name
      BY DEF Rows
    <3> QED
      BY <3>1, <3>2
  <2> QED
    BY <2>1, <2>2, <2>3 DEF StatRows
<1> QED
  BY <1>1, <1>2

\* INSERT_XDATA replaces rows of extended attributes only.
LEMMA XdataLeavesRows ==
  ASSUME NEW db \in Db, NEW gfid, NEW name \in XName, NEW val, NEW gids, StatRows(db, gids)
  PROVE  /\ INSERT_XDATA(db, gfid, name, val).db.xgfid = db.xgfid
         /\ StatRows(INSERT_XDATA(db, gfid, name, val).db, gids)
<1> DEFINE gid == GET_GID(db, gfid)
           rows == (db.xdata \ Rows(db, gid, {name})) \cup {<<gid, name, val>>}
           new == [db EXCEPT !.xdata = rows]
<1>1. CASE ~(gid # 0 /\ name \in db.xname)
  BY <1>1 DEF INSERT_XDATA, Constraint
<1>2. CASE gid # 0 /\ name \in db.xname
  <2>1. INSERT_XDATA(db, gfid, name, val).db = new
    BY <1>2 DEF INSERT_XDATA, Done
  <2>2. new.xgfid = db.xgfid /\ new.xdata = rows
    BY DEF Db
  <2>3. ASSUME NEW g \in gids, NEW n \in StatName
        PROVE  \E v \in Val : <<g, n, v>> \in rows
    <3>1. PICK v \in Val : <<g, n, v>> \in db.xdata
      BY DEF StatRows
    <3>2. <<g, n, v>> \notin Rows(db, gid, {name})
      BY NamesAssumption DEF Rows
    <3> QED
      BY <3>1, <3>2
  <2> QED
    BY <2>1, <2>2, <2>3 DEF StatRows
<1> QED
  BY <1>1, <1>2

\* INSERT_STAT completes the file that it is given.
LEMMA StatCompletes ==
  ASSUME NEW db \in Db, NEW gid, NEW sb \in Stat, NEW gids, StatRows(db, gids),
         INSERT_STAT(db, gid, sb).ok
  PROVE  /\ INSERT_STAT(db, gid, sb).db.xgfid = db.xgfid
         /\ StatRows(INSERT_STAT(db, gid, sb).db, gids \cup {gid})
<1> DEFINE rows == db.xdata \cup {<<gid, n, sb[n]>> : n \in StatName}
           new == [db EXCEPT !.xdata = rows]
<1>1. INSERT_STAT(db, gid, sb).db = new
  BY DEF INSERT_STAT, Done, Constraint
<1>2. new.xgfid = db.xgfid /\ new.xdata = rows
  BY DEF Db
<1>3. ASSUME NEW g \in gids \cup {gid}, NEW n \in StatName
      PROVE  \E v \in Val : <<g, n, v>> \in rows
  BY DEF StatRows, Stat
<1> QED
  BY <1>1, <1>2, <1>3 DEF StatRows

\* select gid looks at xdb_xgfid only.
LEMMA GetGidSame ==
  ASSUME NEW a, NEW b, a.xgfid = b.xgfid, NEW gfid
  PROVE  GET_GID(a, gfid) = GET_GID(b, gfid)
BY DEF GET_GID, Gids
=============================================================================
