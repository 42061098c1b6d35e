--------------------------- MODULE IxRecoverProofs ---------------------------
(***************************************************************************)
(* Proofs about IxRecover for any log, contents, databases to start on and *)
(* number of runs: every variable has its type, a path that was committed  *)
(* has its attributes, a run adds a beginning of the log or nothing, and a *)
(* recovery that stopped is not completed by another.                      *)
(***************************************************************************)
EXTENDS IxRecover, ImsXdbProofs

\* Most leaves are first-order: Zenon proves them.  A leaf that needs arithmetic,
\* record or sequence reasoning names SMT.
USE Zenon

\* The paths that the database of the run began with, and those that the run
\* has added in its transaction.
Old == {p \in Path : before.xfile[p] # 0}
Added == {p \in Path : conn.xfile[p] # 0} \ Old

\* The paths of the first k log entries that the run could add.
Upto(k) == {Log[i] : i \in 1 .. k} \ Old

Attr == [file : Path \cup {"none"}, gfid : Nat, gid : Nat,
         attr : {Content[p] : p \in Path} \cup {NotRead}, xattrs : SUBSET (XName \X Val)]

Typed ==
  /\ disk \in Db /\ conn \in Db /\ before \in Db
  /\ References(disk) /\ References(conn) /\ References(before)
  /\ pc \in {"exit", "loop", "gfid", "file", "stat", "xattr", "out"}
  /\ next \in 1 .. Len(Log) + 1
  /\ gfid_num = next - 1
  /\ runs \in 0 .. MaxRun
  /\ \A p \in Path : file[p] \in {Content[p], NotRead}
  /\ fattr \in Attr

\* A run works on what the database was, and changes no row of an old path.
Apart ==
  /\ pc # "exit" => disk = before
  /\ pc = "exit" => conn = disk
  /\ \A p \in Old : conn.xfile[p] = before.xfile[p]

\* What read_attributes read, while update_database uses it.
Reading ==
  pc \in {"gfid", "file", "stat", "xattr"} =>
    /\ next >= 2
    /\ fattr.file = Log[next - 1]
    /\ fattr.gfid = next - 2
    /\ fattr.attr = Content[fattr.file]
    /\ fattr.xattrs \in SUBSET Content[fattr.file].xattr
    /\ pc # "xattr" => fattr.xattrs = Content[fattr.file].xattr

\* The gid of the file that update_database inserts is the newest, and belongs
\* to no other path.  Its rows are what the statements so far have inserted.
Own ==
  pc \in {"file", "stat", "xattr"} =>
    /\ fattr.gid = Len(conn.xgfid) /\ fattr.gid # 0
    /\ GET_GID(conn, fattr.gfid) = fattr.gid
    /\ \A p \in Path : (pc = "file" \/ p # fattr.file) => conn.xfile[p] # fattr.gid
    /\ pc # "file" => conn.xfile[fattr.file] = fattr.gid /\ fattr.file \notin Old
    /\ pc # "xattr" => \A row \in conn.xdata : row[1] # fattr.gid
    /\ pc = "xattr" => Indexed(conn, fattr.file) = Expected(fattr.file) \ fattr.xattrs

\* Every path that the run has added, except for the one it is about to
\* complete, has its attributes.
Whole ==
  \A p \in Added :
    Indexed(conn, p) = Expected(p) \/ (pc \in {"stat", "xattr"} /\ p = fattr.file)

\* The run has added the paths up to the log entry it works on.
Prefix ==
  /\ pc \in {"loop", "stat", "xattr"} => Added = Upto(next - 1)
  /\ pc \in {"gfid", "file"} => Added = Upto(next - 2)
  /\ pc = "out" => \E n \in 0 .. Len(Log) : Added = Upto(n)
  /\ pc = "exit" => conn = before \/ \E n \in 0 .. Len(Log) : Added = Upto(n)

\* A run on a database that has the first gfid ends at its first INSERT_GFID.
Refused ==
  pc # "exit" /\ GET_GID(before, 0) # 0 =>
    /\ conn = before
    /\ pc \notin {"file", "stat", "xattr"}
    /\ pc = "loop" => next = 1
    /\ pc = "gfid" => next = 2

\* The inductive invariant.
Inv == Typed /\ Apart /\ Reading /\ Own /\ Whole /\ Prefix /\ Refused

-----------------------------------------------------------------------------
\* INSERT_FILE adds the row of a path that has none, or changes nothing.
LEMMA FileInserted ==
  ASSUME NEW db \in Db, NEW gfid, NEW path \in Path, NEW r, r = INSERT_FILE(db, gfid, path)
  PROVE  /\ r.ok \in BOOLEAN
         /\ ~ r.ok => r.db = db
         /\ r.ok => /\ db.xfile[path] = 0 /\ GET_GID(db, gfid) # 0
                    /\ r.db.xgfid = db.xgfid /\ r.db.xdata = db.xdata
                    /\ r.db.xfile = [db.xfile EXCEPT ![path] = GET_GID(db, gfid)]
BY DEF INSERT_FILE, Done, Constraint, Db

\* INSERT_STAT succeeds for a gid without rows.
LEMMA StatInserted ==
  ASSUME NEW db \in Db, NEW gid, NEW sb, NEW r, r = INSERT_STAT(db, gid, sb),
         \A row \in db.xdata : row[1] # gid
  PROVE  /\ r.ok
         /\ r.db.xgfid = db.xgfid /\ r.db.xfile = db.xfile
         /\ r.db.xdata = db.xdata \cup {<<gid, n, sb[n]>> : n \in StatName}
<1>1. Rows(db, gid, StatName) = {}
  BY DEF Rows
<1>2. r = Done([db EXCEPT !.xdata = @ \cup {<<gid, n, sb[n]>> : n \in StatName}])
  BY <1>1 DEF INSERT_STAT
<1> QED
  BY <1>2, SMT DEF Done, Db

\* INSERT_XNAME adds a name and nothing else.
LEMMA NameInserted ==
  ASSUME NEW db \in Db, NEW name \in XName, NEW r, r = INSERT_XNAME(db, name)
  PROVE  /\ r.db \in Db /\ r.db.xgfid = db.xgfid /\ r.db.xfile = db.xfile
         /\ r.db.xdata = db.xdata /\ name \in r.db.xname
BY DEF INSERT_XNAME, Done, Db

\* Two sets of attributes are the same when they have the same values for each
\* name.
LEMMA SamePairs ==
  ASSUME NEW A \in SUBSET (Name \X Val), NEW B \in SUBSET (Name \X Val),
         \A n \in Name, v \in Val : <<n, v>> \in A <=> <<n, v>> \in B
  PROVE  A = B
<1>1. \A x \in Name \X Val : x = <<x[1], x[2]>> /\ x[1] \in Name /\ x[2] \in Val
  BY SMT
<1>2. \A x \in Name \X Val : x \in A <=> x \in B
  BY <1>1, SMT
<1> QED
  BY <1>2

\* The attributes that a database has for a path.
LEMMA IndexedIs ==
  ASSUME NEW db \in Db, NEW p
  PROVE  /\ Indexed(db, p) \in SUBSET (Name \X Val)
         /\ \A n \in Name, v \in Val :
              <<n, v>> \in Indexed(db, p) <=> <<db.xfile[p], n, v>> \in db.xdata
<1>1. db.xdata \in SUBSET (Nat \X Name \X Val)
  BY DEF Db
<1>2. Indexed(db, p) \in SUBSET (Name \X Val)
  BY <1>1, SMT DEF Indexed, Rows
<1>3. ASSUME NEW n \in Name, NEW v \in Val, <<db.xfile[p], n, v>> \in db.xdata
      PROVE  <<n, v>> \in Indexed(db, p)
  BY <1>3, SMT DEF Indexed, Rows
<1>4. ASSUME NEW n \in Name, NEW v \in Val, <<n, v>> \in Indexed(db, p)
      PROVE  <<db.xfile[p], n, v>> \in db.xdata
  <2>1. PICK row \in db.xdata : row[1] = db.xfile[p] /\ <<n, v>> = <<row[2], row[3]>>
    BY <1>4 DEF Indexed, Rows
  <2>2. row = <<row[1], row[2], row[3]>>
    BY <1>1, SMT
  <2> QED
    BY <2>1, <2>2
<1> QED
  BY <1>2, <1>3, <1>4

\* What the index is to have for a path.
LEMMA ExpectedIs ==
  ASSUME NEW p \in Path
  PROVE  /\ Expected(p) \in SUBSET (Name \X Val)
         /\ Content[p].stat \in Stat /\ Content[p].xattr \in SUBSET (XName \X Val)
         /\ \A n \in StatName, v \in Val : <<n, v>> \in Expected(p) <=> v = Content[p].stat[n]
         /\ \A n \in XName, v \in Val : <<n, v>> \in Expected(p) <=> <<n, v>> \in Content[p].xattr
<1>1. Content[p] \in [stat : Stat, xattr : SUBSET (XName \X Val)]
  BY LogAssumption
<1>2. /\ Content[p].stat \in Stat /\ Content[p].xattr \in SUBSET (XName \X Val)
  BY <1>1
<1>3. \A n \in StatName : Content[p].stat[n] \in Val /\ n \in Name /\ n \notin XName
  BY <1>2, NamesAssumption DEF Stat, Name
<1>4. \A n \in XName : n \in Name /\ n \notin StatName
  BY NamesAssumption DEF Name
<1>5. Expected(p) \in SUBSET (Name \X Val)
  BY <1>2, <1>3, <1>4, SMT DEF Expected
<1>6. \A n \in StatName, v \in Val : <<n, v>> \in Expected(p) <=> v = Content[p].stat[n]
  BY <1>2, <1>3 DEF Expected
<1>7. \A n \in XName, v \in Val : <<n, v>> \in Expected(p) <=> <<n, v>> \in Content[p].xattr
  BY <1>2, <1>4 DEF Expected
<1> QED
  BY <1>2, <1>5, <1>6, <1>7

\* A statement that leaves the gid of a path and the rows of that gid alone.
LEMMA IndexedSame ==
  ASSUME NEW db \in Db, NEW new \in Db, NEW p, new.xfile[p] = db.xfile[p],
         \A n, v : <<db.xfile[p], n, v>> \in new.xdata <=> <<db.xfile[p], n, v>> \in db.xdata
  PROVE  Indexed(new, p) = Indexed(db, p)
<1>1. \A n \in Name, v \in Val : <<n, v>> \in Indexed(new, p) <=> <<n, v>> \in Indexed(db, p)
  BY IndexedIs
<1>2. Indexed(new, p) \in SUBSET (Name \X Val) /\ Indexed(db, p) \in SUBSET (Name \X Val)
  BY IndexedIs
<1> QED
  BY <1>1, <1>2, SamePairs

\* The keys of the databases.
LEMMA ReferencesIs ==
  ASSUME NEW db
  PROVE  References(db) <=> FileRefs(db) /\ DataRefs(db)
BY DEF References, FileRefs, DataRefs, Gids

-----------------------------------------------------------------------------
\* What a step leaves alone that writes neither the transaction nor the history.
LEMMA SameDb ==
  ASSUME UNCHANGED <<conn, before>>
  PROVE  /\ Old' = Old /\ Added' = Added
         /\ \A k : Upto(k)' = Upto(k)
         /\ \A p : Indexed(conn, p)' = Indexed(conn, p)
         /\ \A p : Expected(p)' = Expected(p)
         /\ \A g : GET_GID(conn, g)' = GET_GID(conn, g)
         /\ GET_GID(before, 0)' = GET_GID(before, 0)
         /\ References(conn)' = References(conn) /\ References(before)' = References(before)
BY DEF Old, Added, Upto, Indexed, Rows, Expected, GET_GID, Gids, References

\* Nothing is added to a database that is the one the run began with.
LEMMA NothingAdded ==
  ASSUME conn = before
  PROVE  Added = {}
BY DEF Added, Old

\* No path is among the first zero entries.
LEMMA UptoZero == Upto(0) = {}
BY SMT DEF Upto

\* The length of the log.
LEMMA LogLen == Len(Log) \in Nat /\ Log \in Seq(Path)
BY LogAssumption, SMT

\* What fattr holds outside of update_database.
LEMMA NoAttrTyped == NoAttr \in Attr
BY DEF NoAttr, Attr

\* Before the first run.
LEMMA InitInv ==
  ASSUME Init
  PROVE  Inv
<1>1. disk \in Db /\ References(disk) /\ conn = disk /\ before = disk /\ pc = "exit"
  BY StartAssumption DEF Init
<1>2. Typed
  BY <1>1, StartAssumption, LogLen, NoAttrTyped, SMT DEF Init, Typed
<1>3. Apart /\ Reading /\ Own /\ Whole /\ Prefix /\ Refused
  BY <1>1, NothingAdded DEF Apart, Reading, Own, Whole, Prefix, Refused, Old
<1> QED
  BY <1>2, <1>3 DEF Inv

\* db_connect: the run begins with what is on disk.
LEMMA ConnectInv ==
  ASSUME Inv, db_connect
  PROVE  Inv'
<1> USE DEF Inv
<1>1. /\ runs < MaxRun /\ runs' = runs + 1 /\ conn' = disk /\ before' = disk /\ pc' = "loop"
      /\ next' = 1 /\ gfid_num' = 0 /\ fattr' = NoAttr /\ disk' = disk /\ file' = file
  BY DEF db_connect
<1>2. Typed'
  BY <1>1, LogLen, NoAttrTyped, StartAssumption, SMT DEF Typed, References, Gids, Attr
<1>3. Added' = {} /\ Upto(0)' = {}
  BY <1>1, SMT DEF Added, Old, Upto
<1>4. Apart' /\ Reading' /\ Own' /\ Whole'
  BY <1>1, <1>3 DEF Apart, Reading, Own, Whole, Old
<1>5. Prefix'
  <2>1. next' - 1 = 0
    BY <1>1, SMT
  <2>2. Upto(next - 1)' = {}
    BY <2>1, SMT DEF Upto
  <2> QED
    BY <1>1, <1>3, <2>2 DEF Prefix
<1>6. Refused'
  BY <1>1 DEF Refused
<1> QED
  BY <1>2, <1>4, <1>5, <1>6

\* read_attributes: the next entry of the log.
LEMMA ReadInv ==
  ASSUME Inv, read_attributes
  PROVE  Inv'
<1> USE DEF Inv
<1>1. /\ pc = "loop" /\ ~ Finished /\ next' = next + 1 /\ gfid_num' = gfid_num + 1
      /\ UNCHANGED <<disk, conn, file, before, runs>>
      /\ \/ pc' = "out" /\ fattr' = NoAttr
         \/ /\ pc' = "gfid" /\ file[Log[next]] # NotRead
            /\ fattr' = [file |-> Log[next], gfid |-> gfid_num, gid |-> 0,
                         attr |-> file[Log[next]], xattrs |-> file[Log[next]].xattr]
  BY DEF read_attributes
<1>2. next \in 1 .. Len(Log) /\ Len(Log) \in Nat /\ Log[next] \in Path
  BY <1>1, LogLen, SMT DEF Finished, Typed
<1>3. /\ next' \in 2 .. Len(Log) + 1 /\ next' - 1 = next /\ next' - 2 = next - 1
      /\ gfid_num = next - 1 /\ gfid_num' = next' - 1 /\ gfid_num \in Nat
  BY <1>1, <1>2, SMT DEF Typed
<1>4. CASE pc' = "gfid"
  <2>1. /\ fattr'.file = Log[next] /\ fattr'.gfid = next - 1 /\ fattr'.gid = 0
        /\ fattr'.attr = Content[Log[next]] /\ fattr'.xattrs = Content[Log[next]].xattr
        /\ fattr' = [file |-> Log[next], gfid |-> next - 1, gid |-> 0,
                     attr |-> Content[Log[next]], xattrs |-> Content[Log[next]].xattr]
    <3>1. file[Log[next]] = Content[Log[next]]
      BY <1>1, <1>2, <1>4 DEF Typed
    <3>2. fattr' = [file |-> Log[next], gfid |-> next - 1, gid |-> 0,
                    attr |-> Content[Log[next]], xattrs |-> Content[Log[next]].xattr]
      BY <1>1, <1>3, <1>4, <3>1
    <3> QED
      BY <3>2
  <2>2. Content[Log[next]].xattr \in SUBSET (XName \X Val)
    BY <1>2, ExpectedIs
  <2>3. fattr' \in Attr
    BY <1>2, <1>3, <2>1, <2>2, SMTT(20) DEF Attr
  <2>4. Typed'
    BY <1>1, <1>3, <1>4, <2>3, LogLen, SMT DEF Typed, References, Gids, Attr
  <2>5. Reading'
    BY <1>3, <1>4, <2>1, SMT DEF Reading
  <2>6. Apart' /\ Own' /\ Whole'
    BY <1>1, <1>4, SameDb DEF Apart, Own, Whole
  <2>7. Prefix'
    <3>1. Upto(next - 2)' = Upto(next - 1)
      BY <1>1, <1>3 DEF Upto, Old
    <3> QED
      BY <1>1, <1>4, <3>1, SameDb DEF Prefix
  <2>8. Refused'
    <3>1. GET_GID(before, 0)' # 0 => conn = before /\ next = 1
      BY <1>1, SameDb DEF Refused
    <3> QED
      BY <1>1, <1>4, <3>1, SMT DEF Refused
  <2> QED
    BY <2>4, <2>5, <2>6, <2>7, <2>8
<1>5. CASE pc' = "out"
  <2>1. fattr' = NoAttr
    BY <1>1, <1>5
  <2>2. Typed'
    BY <1>1, <1>3, <1>5, <2>1, LogLen, NoAttrTyped, SMT DEF Typed, References, Gids, Attr
  <2>3. Apart' /\ Reading' /\ Own' /\ Whole' /\ Refused'
    BY <1>1, <1>5, SameDb DEF Apart, Reading, Own, Whole, Refused
  <2>4. Prefix'
    <3>1. PICK n : n = next - 1
      OBVIOUS
    <3>2. n \in 0 .. Len(Log) /\ Added = Upto(n)
      BY <1>1, <1>2, <3>1, SMT DEF Prefix
    <3>3. Added' = Upto(n)'
      BY <1>1, <3>2, SameDb
    <3> QED
      BY <1>5, <3>2, <3>3 DEF Prefix
  <2> QED
    BY <2>2, <2>3, <2>4
<1> QED
  BY <1>1, <1>4, <1>5

\* A step after which the run is about to commit, with nothing new.
LEMMA OutInv ==
  ASSUME Inv, pc \in {"loop", "gfid", "file"}, pc' = "out", fattr' \in Attr,
         UNCHANGED <<disk, file, next, gfid_num, before, runs>>,
         conn'.xfile = conn.xfile, conn'.xdata = conn.xdata, conn' \in Db, References(conn)',
         GET_GID(before, 0) # 0 => conn' = conn
  PROVE  Inv'
<1> USE DEF Inv
<1>1. Typed'
  BY LogLen DEF Typed, References, Gids, Attr
<1>2. /\ Old' = Old /\ Added' = Added /\ \A k : Upto(k)' = Upto(k)
      /\ \A p : Indexed(conn, p)' = Indexed(conn, p)
      /\ \A p : Expected(p)' = Expected(p)
      /\ GET_GID(before, 0)' = GET_GID(before, 0)
  BY DEF Old, Added, Upto, Indexed, Rows, Expected, GET_GID, Gids
<1>3. Apart' /\ Reading' /\ Own' /\ Whole' /\ Refused'
  BY <1>2 DEF Apart, Reading, Own, Whole, Refused
<1>4. Prefix'
  <2>1. \E n \in 0 .. Len(Log) : Added = Upto(n)
    <3>1. CASE pc = "loop"
      <4>1. next - 1 \in 0 .. Len(Log)
        BY LogLen, SMT DEF Typed
      <4> QED
        BY <3>1, <4>1 DEF Prefix
    <3>2. CASE pc \in {"gfid", "file"}
      <4>1. next - 2 \in 0 .. Len(Log)
        BY <3>2, LogLen, SMT DEF Typed, Reading
      <4> QED
        BY <3>2, <4>1 DEF Prefix
    <3> QED
      BY <3>1, <3>2
  <2> QED
    BY <1>2, <2>1 DEF Prefix
<1> QED
  BY <1>1, <1>3, <1>4

\* do_recovery_done: the log is at its end.
LEMMA DoneInv ==
  ASSUME Inv, do_recovery_done
  PROVE  Inv'
<1>1. fattr' \in Attr /\ conn' \in Db /\ References(conn)'
  BY DEF do_recovery_done, Inv, Typed, Attr, References, Gids
<1> QED
  BY <1>1, OutInv DEF do_recovery_done

\* What update_database knows of the file it inserts.
LEMMA ReadingIs ==
  ASSUME Inv, pc \in {"gfid", "file", "stat", "xattr"}
  PROVE  /\ fattr \in Attr /\ fattr.file \in Path /\ fattr.gfid \in Gfid
         /\ next \in 2 .. Len(Log) + 1 /\ fattr.file = Log[next - 1] /\ fattr.gfid = next - 2
         /\ fattr.attr.stat \in Stat
<1>1. /\ fattr \in Attr /\ next \in 2 .. Len(Log) + 1 /\ fattr.file = Log[next - 1]
      /\ fattr.gfid = next - 2 /\ fattr.attr = Content[fattr.file]
  BY LogLen, SMT DEF Inv, Typed, Reading
<1>2. next - 1 \in 1 .. Len(Log) /\ next - 2 \in 0 .. Len(Log)
  BY <1>1, LogLen, SMT
<1>3. fattr.file \in Path
  BY <1>1, <1>2, LogLen, SMT
<1>4. fattr.gfid \in Gfid
  BY <1>1, <1>2, LogAssumption
<1> QED
  BY <1>1, <1>3, <1>4, ExpectedIs

\* Insert_gfid: the made-up gfid gets the next gid, or the run ends.
LEMMA GfidInv ==
  ASSUME Inv, Insert_gfid
  PROVE  Inv'
<1>1. PICK res : res = INSERT_GFID(conn, fattr.gfid)
  OBVIOUS
<1>2. /\ pc = "gfid" /\ conn' = res.db /\ pc' = IF res.ok THEN "file" ELSE "out"
      /\ UNCHANGED <<disk, file, next, gfid_num, before, runs>>
      /\ fattr' = [fattr EXCEPT !.gid = Len(res.db.xgfid)]
  BY <1>1 DEF Insert_gfid, Executes
<1>3. /\ fattr \in Attr /\ fattr.file \in Path /\ fattr.gfid \in Gfid
      /\ next \in 2 .. Len(Log) + 1 /\ fattr.file = Log[next - 1] /\ fattr.gfid = next - 2
  BY <1>2, ReadingIs
<1>4. /\ conn \in Db /\ Keeps(conn, res) /\ References(conn)
  BY <1>1, <1>3, KeepsInsertGfid DEF Inv, Typed
<1>5. res.ok \in BOOLEAN /\ res.db \in Db /\ References(res.db) /\ Len(res.db.xgfid) \in Nat
  BY <1>4, ReferencesIs, SMT DEF Keeps, Grows, Db
<1>6. /\ fattr' \in Attr /\ fattr'.gid = Len(res.db.xgfid) /\ fattr'.file = fattr.file
      /\ fattr'.gfid = fattr.gfid /\ fattr'.attr = fattr.attr /\ fattr'.xattrs = fattr.xattrs
  BY <1>2, <1>3, <1>5 DEF Attr
<1>7. conn' \in Db /\ References(conn)'
  BY <1>2, <1>5 DEF References, Gids
<1>8. CASE ~ res.ok
  <2>1. res.db = conn
    BY <1>1, <1>8 DEF INSERT_GFID, Done, Constraint
  <2> QED
    BY <1>2, <1>6, <1>7, <1>8, <2>1, OutInv
<1>9. CASE res.ok
  <2>1. /\ conn'.xfile = conn.xfile /\ conn'.xdata = conn.xdata
        /\ Len(conn'.xgfid) = Len(conn.xgfid) + 1 /\ Len(conn.xgfid) \in Nat
        /\ GET_GID(conn', fattr.gfid) = Len(conn'.xgfid)
    BY <1>1, <1>2, <1>3, <1>4, <1>9, InsertedGfid, SMTT(20) DEF Db
  <2>2. pc' = "file"
    BY <1>2, <1>9
  <2>3. /\ Old' = Old /\ Added' = Added /\ \A k : Upto(k)' = Upto(k)
        /\ \A p : Indexed(conn, p)' = Indexed(conn, p)
        /\ \A p : Expected(p)' = Expected(p)
        /\ GET_GID(before, 0)' = GET_GID(before, 0)
    BY <1>2, <2>1 DEF Old, Added, Upto, Indexed, Rows, Expected, GET_GID, Gids
  <2>4. Typed'
    BY <1>2, <1>6, <1>7, <2>2 DEF Inv, Typed, References, Gids, Attr
  <2>5. Apart' /\ Whole'
    BY <1>2, <2>1, <2>2, <2>3 DEF Inv, Apart, Whole
  <2>6. Reading'
    BY <1>2, <1>6, <2>2 DEF Inv, Reading
  <2>7. Own'
    <3>1. \A p \in Path : conn.xfile[p] # Len(conn'.xgfid)
      BY <1>4, <2>1, SMT DEF References
    <3>2. \A row \in conn.xdata : row[1] # Len(conn'.xgfid)
      BY <1>4, <2>1, SMT DEF References, Gids
    <3>3. GET_GID(conn, fattr.gfid)' = GET_GID(conn', fattr.gfid)
      BY <1>6 DEF GET_GID, Gids
    <3>4. fattr'.gid = Len(conn'.xgfid) /\ fattr'.gid # 0
      BY <1>2, <1>6, <2>1, SMT
    <3> QED
      BY <2>1, <2>2, <3>1, <3>2, <3>3, <3>4 DEF Own
  <2>8. Prefix'
    <3>1. Upto(next - 2)' = Upto(next - 2)
      BY <1>2, <2>3 DEF Upto
    <3> QED
      BY <1>2, <2>2, <2>3, <3>1 DEF Inv, Prefix
  <2>9. Refused'
    <3>1. GET_GID(conn, fattr.gfid) = 0
      BY <1>1, <1>9 DEF INSERT_GFID, Done, Constraint
    <3>2. GET_GID(before, 0) # 0 => conn = before /\ next = 2
      BY <1>2 DEF Inv, Refused
    <3>3. GET_GID(before, 0) = 0
      BY <1>3, <3>1, <3>2, SMT
    <3> QED
      BY <2>3, <3>3 DEF Refused
  <2> QED
    BY <2>4, <2>5, <2>6, <2>7, <2>8, <2>9 DEF Inv
<1> QED
  BY <1>5, <1>8, <1>9

\* Insert_file: the path gets the gid, or has a row and the run ends.
LEMMA FileInv ==
  ASSUME Inv, Insert_file
  PROVE  Inv'
<1>1. PICK res : res = INSERT_FILE(conn, fattr.gfid, fattr.file)
  OBVIOUS
<1>2. /\ pc = "file" /\ conn' = res.db /\ pc' = IF res.ok THEN "stat" ELSE "out"
      /\ UNCHANGED <<disk, file, next, gfid_num, before, runs, fattr>>
  BY <1>1 DEF Insert_file, Executes
<1>3. /\ fattr \in Attr /\ fattr.file \in Path /\ fattr.gfid \in Gfid
      /\ next \in 2 .. Len(Log) + 1 /\ fattr.file = Log[next - 1]
  BY <1>2, ReadingIs
<1>4. /\ conn \in Db /\ Keeps(conn, res) /\ References(conn)
  BY <1>1, <1>3, KeepsInsertFile DEF Inv, Typed
<1>5. res.ok \in BOOLEAN /\ res.db \in Db /\ References(res.db)
  BY <1>4, ReferencesIs DEF Keeps, Grows
<1>6. conn' \in Db /\ References(conn)' /\ fattr' \in Attr
  BY <1>2, <1>3, <1>5 DEF References, Gids
<1>7. CASE ~ res.ok
  <2>1. res.db = conn
    BY <1>1, <1>7 DEF INSERT_FILE, Done, Constraint
  <2> QED
    BY <1>2, <1>6, <1>7, <2>1, OutInv
<1>8. CASE res.ok
  <2>1. /\ conn.xfile[fattr.file] = 0
        /\ conn'.xgfid = conn.xgfid /\ conn'.xdata = conn.xdata
        /\ conn'.xfile = [conn.xfile EXCEPT ![fattr.file] = fattr.gid]
    <3>1. fattr.gid = GET_GID(conn, fattr.gfid)
      BY <1>2 DEF Inv, Own
    <3>2. /\ conn.xfile[fattr.file] = 0
          /\ res.db.xgfid = conn.xgfid /\ res.db.xdata = conn.xdata
          /\ res.db.xfile = [conn.xfile EXCEPT ![fattr.file] = GET_GID(conn, fattr.gfid)]
      BY <1>1, <1>3, <1>4, <1>8, FileInserted, SMTT(30)
    <3> QED
      BY <1>2, <3>1, <3>2
  <2>2. pc' = "stat" /\ conn.xfile \in [Path -> Nat]
    BY <1>2, <1>4, <1>8 DEF Db
  <2>3. /\ conn'.xfile[fattr.file] = fattr.gid
        /\ \A p \in Path : p # fattr.file => conn'.xfile[p] = conn.xfile[p]
    BY <1>3, <2>1, <2>2
  <2>4. /\ Old' = Old /\ \A k : Upto(k)' = Upto(k)
        /\ \A p : Expected(p)' = Expected(p)
        /\ GET_GID(before, 0)' = GET_GID(before, 0)
    BY <1>2 DEF Old, Upto, Expected, GET_GID, Gids
  <2>5. fattr.file \notin Old
    <3>1. fattr.file \in Old => conn.xfile[fattr.file] # 0
      BY DEF Inv, Apart, Old
    <3> QED
      BY <2>1, <3>1
  <2>6. fattr.gid # 0 /\ fattr.gid = Len(conn.xgfid) /\ GET_GID(conn, fattr.gfid) = fattr.gid
    BY <1>2 DEF Inv, Own
  <2>7. Added' = Added \cup {fattr.file}
    BY <1>3, <2>1, <2>3, <2>4, <2>5, <2>6 DEF Added
  <2>8. Typed'
    BY <1>2, <1>6, <2>2 DEF Inv, Typed, References, Gids, Attr
  <2>9. Apart'
    BY <1>2, <2>2, <2>3, <2>4, <2>5 DEF Inv, Apart, Old
  <2>10. Reading'
    BY <1>2, <2>2 DEF Inv, Reading
  <2>11. Own'
    <3>1. GET_GID(conn, fattr.gfid)' = GET_GID(conn, fattr.gfid)
      BY <1>2, <2>1 DEF GET_GID, Gids
    <3>2. \A p \in Path : p # fattr.file => conn'.xfile[p] # fattr.gid
      BY <1>2, <2>3 DEF Inv, Own
    <3>3. \A row \in conn.xdata : row[1] # fattr.gid
      BY <1>2 DEF Inv, Own
    <3> QED
      BY <1>2, <2>1, <2>2, <2>3, <2>4, <2>5, <2>6, <3>1, <3>2, <3>3 DEF Own
  <2>12. Whole'
    <3>1. ASSUME NEW p \in Added, p # fattr.file
          PROVE  Indexed(conn, p)' = Expected(p)
      <4>1. p \in Path /\ conn'.xfile[p] = conn.xfile[p]
        BY <2>3, <3>1 DEF Added
      <4>2. Indexed(conn', p) = Indexed(conn, p)
        BY <1>4, <1>6, <2>1, <4>1, IndexedSame
      <4>3. Indexed(conn, p) = Expected(p)
        BY <1>2, <3>1 DEF Inv, Whole
      <4> QED
        BY <4>2, <4>3 DEF Indexed, Rows
    <3> QED
      BY <1>2, <2>2, <2>4, <2>7, <3>1 DEF Whole
  <2>13. Prefix'
    <3>1. Added = Upto(next - 2)
      BY <1>2 DEF Inv, Prefix
    <3>2. 1 .. next - 1 = (1 .. next - 2) \cup {next - 1}
      BY <1>3, LogLen, SMT
    <3>3. Upto(next - 1) = Upto(next - 2) \cup {fattr.file}
      BY <1>3, <2>5, <3>2 DEF Upto
    <3>4. Upto(next - 1)' = Upto(next - 1)
      BY <1>2, <2>4 DEF Upto
    <3> QED
      BY <2>2, <2>7, <3>1, <3>3, <3>4 DEF Prefix
  <2>14. Refused'
    BY <1>2, <2>4 DEF Inv, Refused
  <2> QED
    BY <2>8, <2>9, <2>10, <2>11, <2>12, <2>13, <2>14 DEF Inv
<1> QED
  BY <1>5, <1>7, <1>8

\* Insert_stat: the stat rows of the new gid.
LEMMA StatInv ==
  ASSUME Inv, Insert_stat
  PROVE  Inv'
<1>1. PICK res : res = INSERT_STAT(conn, fattr.gid, fattr.attr.stat)
  OBVIOUS
<1>2. /\ pc = "stat" /\ conn' = res.db /\ pc' = IF res.ok THEN "xattr" ELSE "out"
      /\ UNCHANGED <<disk, file, next, gfid_num, before, runs, fattr>>
  BY <1>1 DEF Insert_stat, Executes
<1>3. /\ fattr \in Attr /\ fattr.file \in Path /\ fattr.attr.stat \in Stat
      /\ fattr.attr = Content[fattr.file] /\ fattr.xattrs = Content[fattr.file].xattr
  BY <1>2, ReadingIs DEF Inv, Reading
<1>4. /\ conn \in Db /\ References(conn) /\ fattr.gid = Len(conn.xgfid) /\ fattr.gid # 0
      /\ GET_GID(conn, fattr.gfid) = fattr.gid
      /\ conn.xfile[fattr.file] = fattr.gid /\ fattr.file \notin Old
      /\ \A p \in Path : p # fattr.file => conn.xfile[p] # fattr.gid
      /\ \A row \in conn.xdata : row[1] # fattr.gid
  BY <1>2 DEF Inv, Typed, Own
<1>5. fattr.gid \in Gids(conn)
  BY <1>4, SMT DEF Gids, Db
<1>6. /\ res.ok /\ conn'.xgfid = conn.xgfid /\ conn'.xfile = conn.xfile
      /\ conn'.xdata = conn.xdata \cup {<<fattr.gid, n, fattr.attr.stat[n]>> : n \in StatName}
  BY <1>1, <1>2, <1>4, StatInserted, SMT
<1>7. Keeps(conn, res)
  BY <1>1, <1>3, <1>4, <1>5, KeepsInsertStat, SMT
<1>8. conn' \in Db /\ References(conn')
  BY <1>2, <1>4, <1>7, ReferencesIs DEF Keeps, Grows
<1>9. pc' = "xattr"
  BY <1>2, <1>6
<1>10. /\ Old' = Old /\ Added' = Added /\ \A k : Upto(k)' = Upto(k)
       /\ \A p : Expected(p)' = Expected(p)
       /\ \A p : Indexed(conn, p)' = Indexed(conn', p)
       /\ GET_GID(before, 0)' = GET_GID(before, 0)
       /\ GET_GID(conn, fattr.gfid)' = GET_GID(conn, fattr.gfid)
  BY <1>2, <1>6 DEF Old, Added, Upto, Indexed, Rows, Expected, GET_GID, Gids
<1>11. ASSUME NEW p \in Path, p # fattr.file
       PROVE  Indexed(conn', p) = Indexed(conn, p)
  <2>1. \A n, v : <<conn.xfile[p], n, v>> \in conn'.xdata <=> <<conn.xfile[p], n, v>> \in conn.xdata
    BY <1>4, <1>6, <1>11
  <2>2. conn'.xfile[p] = conn.xfile[p]
    BY <1>6
  <2> QED
    BY <1>4, <1>8, <2>1, <2>2, IndexedSame
<1>12. Indexed(conn', fattr.file) = Expected(fattr.file) \ fattr.xattrs
  <2>1. PICK f, gid : f = fattr.file /\ gid = fattr.gid
    OBVIOUS
  <2>2. /\ f \in Path /\ conn'.xfile[f] = gid
        /\ conn'.xdata = conn.xdata \cup {<<gid, n, Content[f].stat[n]>> : n \in StatName}
        /\ \A row \in conn.xdata : row[1] # gid
        /\ fattr.xattrs = Content[f].xattr
    BY <1>3, <1>4, <1>6, <2>1
  <2>3. \A n \in Name, v \in Val : <<n, v>> \in Indexed(conn', f) <=> <<gid, n, v>> \in conn'.xdata
    BY <1>8, <2>2, IndexedIs
  <2>4. \A n \in Name, v \in Val :
          <<gid, n, v>> \in conn'.xdata <=> n \in StatName /\ v = Content[f].stat[n]
    BY <2>2
  <2>5. \A n \in Name, v \in Val :
          <<n, v>> \in Expected(f) \ fattr.xattrs <=> n \in StatName /\ v = Content[f].stat[n]
    <3>1. /\ Content[f].xattr \in SUBSET (XName \X Val)
          /\ \A n \in StatName, v \in Val : <<n, v>> \in Expected(f) <=> v = Content[f].stat[n]
          /\ \A n \in XName, v \in Val : <<n, v>> \in Expected(f) <=> <<n, v>> \in Content[f].xattr
      BY <2>2, ExpectedIs
    <3>2. \A n \in Name : n \in StatName \/ n \in XName
      BY DEF Name
    <3>3. \A n \in StatName : \A v : <<n, v>> \notin Content[f].xattr
      BY <3>1, NamesAssumption
    <3> QED
      BY <2>2, <3>1, <3>2, <3>3, NamesAssumption
  <2>6. /\ Indexed(conn', f) \in SUBSET (Name \X Val)
        /\ Expected(f) \ fattr.xattrs \in SUBSET (Name \X Val)
    BY <1>8, <2>2, IndexedIs, ExpectedIs
  <2>7. \A n \in Name, v \in Val :
          <<n, v>> \in Indexed(conn', f) <=> <<n, v>> \in Expected(f) \ fattr.xattrs
    BY <2>3, <2>4, <2>5
  <2>8. Indexed(conn', f) = Expected(f) \ fattr.xattrs
    BY <2>6, <2>7, SamePairs
  <2> QED
    BY <2>1, <2>8
<1>13. Typed'
  BY <1>2, <1>8, <1>9 DEF Inv, Typed, References, Gids, Attr
<1>14. Apart'
  BY <1>2, <1>6, <1>9, <1>10 DEF Inv, Apart
<1>15. Reading'
  BY <1>2, <1>9 DEF Inv, Reading
<1>16. Own'
  BY <1>2, <1>4, <1>6, <1>9, <1>10, <1>12 DEF Own
<1>17. Whole'
  <2>1. Added \subseteq Path
    BY DEF Added
  <2> QED
    BY <1>2, <1>9, <1>10, <1>11, <2>1 DEF Inv, Whole
<1>18. Prefix'
  <2>1. Upto(next - 1)' = Upto(next - 1)
    BY <1>2, <1>10 DEF Upto
  <2> QED
    BY <1>2, <1>9, <1>10, <2>1 DEF Inv, Prefix
<1>19. Refused'
  BY <1>2, <1>10 DEF Inv, Refused
<1> QED
  BY <1>13, <1>14, <1>15, <1>16, <1>17, <1>18, <1>19 DEF Inv

\* The attributes of a file after the statements for one of them.
LEMMA XattrRows ==
  ASSUME NEW db \in Db, NEW new \in Db, NEW f \in Path, NEW gid, db.xfile[f] = gid,
         NEW todo \in SUBSET Content[f].xattr, NEW x \in todo,
         Indexed(db, f) = Expected(f) \ todo, new.xfile = db.xfile,
         \A n, v : <<gid, n, v>> \in new.xdata <=>
                     (n = x[1] /\ v = x[2]) \/ (n # x[1] /\ <<gid, n, v>> \in db.xdata)
  PROVE  Indexed(new, f) = Expected(f) \ (todo \ {x})
<1>1. /\ Content[f].xattr \in SUBSET (XName \X Val)
      /\ Expected(f) \in SUBSET (Name \X Val)
      /\ \A n \in XName, v \in Val : <<n, v>> \in Expected(f) <=> <<n, v>> \in Content[f].xattr
  BY ExpectedIs
<1>2. PICK xn \in XName, xv \in Val : x = <<xn, xv>>
  BY <1>1, SMT
<1>3. x[1] = xn /\ x[2] = xv /\ xn \in Name
  BY <1>2 DEF Name
<1>4. \A n \in Name, v \in Val : <<n, v>> \in Indexed(db, f) <=> <<gid, n, v>> \in db.xdata
  BY IndexedIs
<1>5. \A n \in Name, v \in Val : <<n, v>> \in Indexed(new, f) <=> <<gid, n, v>> \in new.xdata
  BY IndexedIs
<1>6. ASSUME NEW n \in Name, NEW v \in Val, n # xn
      PROVE  <<n, v>> \in Indexed(new, f) <=> <<n, v>> \in Expected(f) \ (todo \ {x})
  <2>1. <<gid, n, v>> \in new.xdata <=> <<gid, n, v>> \in db.xdata
    BY <1>3, <1>6
  <2>2. <<n, v>> # x
    BY <1>2, <1>6
  <2> QED
    BY <1>4, <1>5, <2>1, <2>2
<1>7. ASSUME NEW v \in Val
      PROVE  <<xn, v>> \in Indexed(new, f) <=> <<xn, v>> \in Expected(f) \ (todo \ {x})
  <2>1. <<gid, xn, v>> \in new.xdata <=> v = xv
    BY <1>3
  <2>2. CASE v = xv
    BY <1>1, <1>2, <1>3, <1>5, <2>1, <2>2
  <2>3. CASE v # xv
    <3>1. x \in Content[f].xattr
      OBVIOUS
    <3>2. \A y \in Content[f].xattr : y[1] = x[1] => y = x
      BY <3>1, LogAssumption
    <3>3. <<xn, v>> \notin Content[f].xattr
      BY <1>2, <1>3, <2>3, <3>2
    <3> QED
      BY <1>1, <1>3, <1>5, <2>1, <2>3, <3>3
  <2> QED
    BY <2>2, <2>3
<1>8. \A n \in Name, v \in Val :
        <<n, v>> \in Indexed(new, f) <=> <<n, v>> \in Expected(f) \ (todo \ {x})
  BY <1>6, <1>7
<1>9. /\ Indexed(new, f) \in SUBSET (Name \X Val)
      /\ Expected(f) \ (todo \ {x}) \in SUBSET (Name \X Val)
  BY <1>1, IndexedIs
<1> QED
  BY <1>8, <1>9, SamePairs, ZenonT(40)

\* Insert_xattr: one more attribute of the new gid.
LEMMA XattrInv ==
  ASSUME Inv, Insert_xattr
  PROVE  Inv'
<1>1. PICK x \in fattr.xattrs :
        /\ Executes("xattr",
                    INSERT_XDATA(INSERT_XNAME(conn, x[1]).db, fattr.gfid, x[1], x[2]),
                    "xattr")
        /\ fattr' = [fattr EXCEPT !.xattrs = @ \ {x}]
  BY DEF Insert_xattr
<1>2. PICK mid : mid = INSERT_XNAME(conn, x[1])
  OBVIOUS
<1>3. PICK res : res = INSERT_XDATA(mid.db, fattr.gfid, x[1], x[2])
  OBVIOUS
<1>4. /\ pc = "xattr" /\ conn' = res.db /\ pc' = IF res.ok THEN "xattr" ELSE "out"
      /\ UNCHANGED <<disk, file, next, gfid_num, before, runs>>
  BY <1>1, <1>2, <1>3 DEF Executes
<1>5. /\ fattr \in Attr /\ fattr.file \in Path
      /\ fattr.xattrs \in SUBSET Content[fattr.file].xattr
  BY <1>4, ReadingIs DEF Inv, Reading
<1>6. x[1] \in XName /\ x[2] \in Val
  BY <1>5 DEF Attr
<1>7. /\ conn \in Db /\ References(conn) /\ fattr.gid = Len(conn.xgfid) /\ fattr.gid # 0
      /\ GET_GID(conn, fattr.gfid) = fattr.gid
      /\ conn.xfile[fattr.file] = fattr.gid /\ fattr.file \notin Old
      /\ \A p \in Path : p # fattr.file => conn.xfile[p] # fattr.gid
      /\ Indexed(conn, fattr.file) = Expected(fattr.file) \ fattr.xattrs
  BY <1>4 DEF Inv, Typed, Own
<1>8. /\ res.ok = TRUE /\ conn'.xgfid = conn.xgfid /\ conn'.xfile = conn.xfile
      /\ \A g, n, v : <<g, n, v>> \in conn'.xdata <=>
           IF g = fattr.gid /\ n = x[1] THEN v = x[2] ELSE <<g, n, v>> \in conn.xdata
  <2>1. PICK gfid, xn, xv, m : gfid = fattr.gfid /\ xn = x[1] /\ xv = x[2] /\ m = mid.db
    OBVIOUS
  <2>2. /\ m \in Db /\ m.xgfid = conn.xgfid /\ m.xfile = conn.xfile
        /\ m.xdata = conn.xdata /\ xn \in m.xname
    BY <1>2, <1>6, <1>7, <2>1, NameInserted, SMT
  <2>3. GET_GID(m, gfid) = fattr.gid /\ GET_GID(m, gfid) # 0
    BY <1>7, <2>1, <2>2, GetGidSame, SMT
  <2>4. res = INSERT_XDATA(m, gfid, xn, xv)
    BY <1>3, <2>1
  <2>5. PICK gid : gid = fattr.gid
    OBVIOUS
  <2>6. PICK rows : rows = (m.xdata \ Rows(m, gid, {xn})) \cup {<<gid, xn, xv>>}
    OBVIOUS
  <2>7. res = Done([m EXCEPT !.xdata = rows])
    BY <2>2, <2>3, <2>4, <2>5, <2>6 DEF INSERT_XDATA
  <2>8. res.ok = TRUE /\ res.db.xgfid = m.xgfid /\ res.db.xfile = m.xfile /\ res.db.xdata = rows
    BY <2>2, <2>7 DEF Done, Db
  <2>9. \A g, n, v : <<g, n, v>> \in rows <=>
                        IF g = gid /\ n = xn THEN v = xv ELSE <<g, n, v>> \in m.xdata
    BY <2>6 DEF Rows
  <2> QED
    BY <1>4, <2>1, <2>2, <2>5, <2>8, <2>9
<1>9. mid.db \in Db /\ References(mid.db)
  <2>1. Keeps(conn, mid)
    BY <1>2, <1>6, <1>7, KeepsInsertXname
  <2> QED
    BY <1>7, <2>1, ReferencesIs DEF Keeps, Grows
<1>10. conn' \in Db /\ References(conn')
  <2>1. Keeps(mid.db, res)
    BY <1>3, <1>6, <1>9, KeepsInsertXdata
  <2> QED
    BY <1>4, <1>9, <2>1, ReferencesIs DEF Keeps, Grows
<1>11. pc' = "xattr"
  BY <1>4, <1>8
<1>12. /\ fattr' \in Attr /\ fattr'.xattrs = fattr.xattrs \ {x}
       /\ fattr'.file = fattr.file /\ fattr'.gid = fattr.gid /\ fattr'.gfid = fattr.gfid
       /\ fattr'.attr = fattr.attr
  BY <1>1, <1>5 DEF Attr
<1>13. /\ Old' = Old /\ Added' = Added /\ \A k : Upto(k)' = Upto(k)
       /\ \A p : Expected(p)' = Expected(p)
       /\ \A p : Indexed(conn, p)' = Indexed(conn', p)
       /\ GET_GID(before, 0)' = GET_GID(before, 0)
  BY <1>4, <1>8 DEF Old, Added, Upto, Indexed, Rows, Expected, GET_GID, Gids
<1>14. ASSUME NEW p \in Path, p # fattr.file
       PROVE  Indexed(conn', p) = Indexed(conn, p)
  <2>1. \A n, v : <<conn.xfile[p], n, v>> \in conn'.xdata <=> <<conn.xfile[p], n, v>> \in conn.xdata
    BY <1>7, <1>8, <1>14
  <2>2. conn'.xfile[p] = conn.xfile[p]
    BY <1>8
  <2> QED
    BY <1>7, <1>10, <2>1, <2>2, IndexedSame
<1>15. Indexed(conn', fattr.file) = Expected(fattr.file) \ (fattr.xattrs \ {x})
  <2>1. PICK f, gid, todo : f = fattr.file /\ gid = fattr.gid /\ todo = fattr.xattrs
    OBVIOUS
  <2>2. /\ f \in Path /\ todo \in SUBSET Content[f].xattr /\ x \in todo /\ conn.xfile[f] = gid
        /\ Indexed(conn, f) = Expected(f) \ todo /\ conn'.xfile = conn.xfile
    BY <1>5, <1>7, <1>8, <2>1
  <2>3. \A n, v : <<gid, n, v>> \in conn'.xdata <=>
                    (n = x[1] /\ v = x[2]) \/ (n # x[1] /\ <<gid, n, v>> \in conn.xdata)
    BY <1>8, <2>1
  <2>4. Indexed(conn', f) = Expected(f) \ (todo \ {x})
    BY <1>7, <1>10, <2>2, <2>3, XattrRows, SMT
  <2> QED
    BY <2>1, <2>4
<1>16. Typed'
  BY <1>4, <1>10, <1>11, <1>12 DEF Inv, Typed, References, Gids, Attr
<1>17. Apart'
  BY <1>4, <1>8, <1>11, <1>13 DEF Inv, Apart
<1>18. Reading'
  BY <1>4, <1>5, <1>11, <1>12 DEF Inv, Reading
<1>19. Own'
  <2>1. GET_GID(conn, fattr.gfid)' = GET_GID(conn, fattr.gfid)
    BY <1>8, <1>12 DEF GET_GID, Gids
  <2>2. (Indexed(conn, fattr.file) = Expected(fattr.file) \ fattr.xattrs)'
    BY <1>12, <1>15 DEF Indexed, Rows, Expected
  <2> QED
    BY <1>7, <1>8, <1>11, <1>12, <1>13, <2>1, <2>2 DEF Own
<1>20. Whole'
  <2>1. Added \subseteq Path
    BY DEF Added
  <2> QED
    BY <1>4, <1>11, <1>12, <1>13, <1>14, <2>1 DEF Inv, Whole
<1>21. Prefix'
  <2>1. Upto(next - 1)' = Upto(next - 1)
    BY <1>4, <1>13 DEF Upto
  <2> QED
    BY <1>4, <1>11, <1>13, <2>1 DEF Inv, Prefix
<1>22. Refused'
  BY <1>4, <1>13 DEF Inv, Refused
<1> QED
  BY <1>16, <1>17, <1>18, <1>19, <1>20, <1>21, <1>22 DEF Inv

\* Insert_done: the file has its attributes.
LEMMA InsertDoneInv ==
  ASSUME Inv, Insert_done
  PROVE  Inv'
<1>1. /\ pc = "xattr" /\ pc' = "loop" /\ fattr.xattrs = {}
      /\ UNCHANGED <<disk, conn, file, next, gfid_num, fattr, before, runs>>
  BY DEF Insert_done
<1>2. Typed'
  BY <1>1 DEF Inv, Typed, References, Gids, Attr
<1>3. Apart' /\ Reading' /\ Own'
  BY <1>1, SameDb DEF Inv, Apart, Reading, Own
<1>4. Indexed(conn, fattr.file) = Expected(fattr.file)
  BY <1>1 DEF Inv, Own
<1>5. Whole'
  BY <1>1, <1>4, SameDb DEF Inv, Whole
<1>6. Prefix'
  <2>1. Upto(next - 1)' = Upto(next - 1)
    BY <1>1 DEF Upto, Old
  <2> QED
    BY <1>1, <2>1, SameDb DEF Inv, Prefix
<1>7. Refused'
  BY <1>1, SameDb DEF Inv, Refused
<1> QED
  BY <1>2, <1>3, <1>5, <1>6, <1>7 DEF Inv

\* db_disconnect: the transaction is on disk.
LEMMA DisconnectInv ==
  ASSUME Inv, db_disconnect
  PROVE  Inv'
<1>1. /\ pc = "out" /\ pc' = "exit" /\ disk' = conn
      /\ UNCHANGED <<conn, file, next, gfid_num, fattr, before, runs>>
  BY DEF db_disconnect
<1>2. Typed'
  BY <1>1 DEF Inv, Typed, References, Gids, Attr
<1>3. Apart' /\ Reading' /\ Own' /\ Whole' /\ Refused'
  BY <1>1, SameDb DEF Inv, Apart, Reading, Own, Whole, Refused
<1>4. Prefix'
  BY <1>1, SameDb DEF Inv, Prefix
<1> QED
  BY <1>2, <1>3, <1>4 DEF Inv

\* Kill: the transaction is gone.
LEMMA KillInv ==
  ASSUME Inv, Kill
  PROVE  Inv'
<1>1. /\ pc # "exit" /\ pc' = "exit" /\ conn' = disk /\ disk = before
      /\ UNCHANGED <<disk, file, next, gfid_num, fattr, before, runs>>
  BY DEF Kill, Inv, Apart
<1>2. Typed'
  BY <1>1 DEF Inv, Typed, References, Gids, Attr
<1>3. Added' = {}
  BY <1>1 DEF Added, Old
<1>4. Apart' /\ Reading' /\ Own' /\ Whole' /\ Prefix' /\ Refused'
  BY <1>1, <1>3 DEF Apart, Reading, Own, Whole, Prefix, Refused, Old
<1> QED
  BY <1>2, <1>4 DEF Inv

\* A step that changes no more than the files of the brick.
LEMMA SameInv ==
  ASSUME Inv, UNCHANGED <<disk, conn, pc, next, gfid_num, fattr, before, runs>>,
         \A p \in Path : file'[p] \in {Content[p], NotRead}
  PROVE  Inv'
<1>1. Typed'
  BY DEF Inv, Typed, References, Gids, Attr
<1>2. Apart' /\ Reading' /\ Own' /\ Whole' /\ Refused'
  BY SameDb DEF Inv, Apart, Reading, Own, Whole, Refused
<1>3. Prefix'
  <2>1. Upto(next - 1)' = Upto(next - 1) /\ Upto(next - 2)' = Upto(next - 2)
    BY DEF Upto, Old
  <2> QED
    BY <2>1, SameDb DEF Inv, Prefix
<1> QED
  BY <1>1, <1>2, <1>3 DEF Inv

\* FileChange: what read_attributes will find.
LEMMA FileChangeInv ==
  ASSUME Inv, FileChange
  PROVE  Inv'
<1>1. PICK q \in Path :
        file' = [Content EXCEPT ![q] = IF file[q] = NotRead THEN @ ELSE NotRead]
  BY DEF FileChange
<1>2. \A p \in Path : file'[p] \in {Content[p], NotRead}
  BY <1>1, LogAssumption
<1> QED
  BY <1>2, SameInv DEF FileChange

\* Inv is inductive.
LEMMA Invariance == Spec => []Inv
<1>1. Init => Inv
  BY InitInv
<1>2. Inv /\ [Next]_vars => Inv'
  <2> SUFFICES ASSUME Inv, [Next]_vars PROVE Inv'
    OBVIOUS
  <2>1. CASE update_database
    BY <2>1, GfidInv, FileInv, StatInv, XattrInv, InsertDoneInv DEF update_database
  <2>2. CASE UNCHANGED vars
    <3>1. \A p \in Path : file'[p] \in {Content[p], NotRead}
      BY <2>2 DEF vars, Inv, Typed
    <3> QED
      BY <2>2, <3>1, SameInv DEF vars
  <2> QED
    BY <2>1, <2>2, ConnectInv, ReadInv, DoneInv, DisconnectInv, KillInv, FileChangeInv DEF Next
<1> QED
  BY <1>1, <1>2, PTL DEF Spec

-----------------------------------------------------------------------------
\* What the run has committed is what it has added, or nothing.
LEMMA RecoveredIs ==
  ASSUME Inv
  PROVE  Recovered = (IF pc = "exit" THEN Added ELSE {})
BY DEF Inv, Apart, Recovered, Added, Old

\* ixrecover keeps the types of its variables and, in the databases on disk and
\* in its transaction, the foreign keys of the schema, which sqlite does not
\* enforce: every gid of a path or of an attribute is the gid of a gfid.
THEOREM RecoverTypes == Spec => []TypeOK
<1>1. Inv => TypeOK
  <2> SUFFICES ASSUME Inv PROVE TypeOK
    OBVIOUS
  <2>1. gfid_num \in 0 .. Len(Log)
    BY LogLen, SMT DEF Inv, Typed
  <2> QED
    BY <2>1 DEF Inv, Typed, TypeOK
<1> QED
  BY <1>1, Invariance, PTL

\* Every path that a run of ixrecover committed has exactly the attributes of
\* its file, also when the run was ended by an error, for the statement that
\* fails is the first or the second of update_database.
THEOREM WholeHolds == Spec => []RecoveredWhole
<1>1. Inv => RecoveredWhole
  <2> SUFFICES ASSUME Inv, NEW p \in Recovered PROVE Indexed(disk, p) = Expected(p)
    BY DEF RecoveredWhole
  <2>1. pc = "exit" /\ p \in Added
    BY RecoveredIs
  <2>2. conn = disk
    BY <2>1 DEF Inv, Apart
  <2> QED
    BY <2>1, <2>2 DEF Inv, Whole
<1> QED
  BY <1>1, Invariance, PTL

\* The paths that a run of do_recovery adds are those of a beginning of the
\* log, whatever ended it.
THEOREM PrefixHolds == Spec => []RecoveredPrefix
<1>1. Inv => RecoveredPrefix
  <2> SUFFICES ASSUME Inv, pc = "exit", disk # before PROVE RecoveredPrefix
    BY DEF RecoveredPrefix
  <2>1. conn = disk /\ Recovered = Added
    BY RecoveredIs DEF Inv, Apart
  <2>2. PICK n \in 0 .. Len(Log) : Added = Upto(n)
    BY <2>1 DEF Inv, Prefix
  <2>3. Recovered = {Log[i] : i \in 1 .. n} \ {p \in Path : before.xfile[p] # 0}
    BY <2>1, <2>2 DEF Upto, Old
  <2> QED
    BY <2>3 DEF RecoveredPrefix
<1> QED
  BY <1>1, Invariance, PTL

\* No run of ixrecover changes a database that has the first gfid that
\* read_attributes makes up.
THEOREM NeverResumed == Spec => NotResumed
<1>1. Inv /\ [Next]_vars => [GET_GID(disk, 0) # 0 => disk' = disk]_vars
  <2> SUFFICES ASSUME Inv, Next, GET_GID(disk, 0) # 0 PROVE disk' = disk
    OBVIOUS
  <2>1. CASE db_disconnect
    <3>1. disk = before
      BY <2>1 DEF db_disconnect, Inv, Apart
    <3>2. conn = before
      BY <2>1, <3>1 DEF db_disconnect, Inv, Refused
    <3> QED
      BY <2>1, <3>1, <3>2 DEF db_disconnect
  <2>2. CASE update_database
    BY <2>2 DEF update_database, Insert_gfid, Insert_file, Insert_stat, Insert_xattr,
                Insert_done, Executes
  <2> QED
    BY <2>1, <2>2 DEF Next, db_connect, read_attributes, do_recovery_done, Kill, FileChange
<1> QED
  BY <1>1, Invariance, PTL DEF Spec, NotResumed
=============================================================================
