------------------------------ MODULE ImsAgree ------------------------------
(***************************************************************************)
(* When the index is right about the brick: the paths it lists against the *)
(* paths that exist, and the stat rows against what the callbacks reported.*)
(***************************************************************************)
EXTENDS ImsAsyncIndex

\* History: the paths about which the index may be wrong.  An update that
\* failed was logged; two operations on one path that were under way at once
\* may be reported in either order; a rename of or to a doubtful path makes
\* both its paths doubtful.
VARIABLE doubtful

\* History: the stat that a callback reported last for each file.
VARIABLE last

Touches(task) ==
  CASE task.op \in {"insert", "unlink", "link"} -> {task.path}
    [] task.op = "rename"                       -> {task.path, task.extra}
    [] OTHER                                    -> {}

\* Paths of an operation p starts while an operation on one of them waits for
\* its callback, and the paths of that operation.
Overlap(p) ==
  LET mine == Touches(call'[p].task)
      others == {Touches(call[q].task) : q \in {q \in Proc \ {p} : At(q, "cbk")}}
  IN  UNION {mine \cup s : s \in {s \in others : s \cap mine # {}}}

Doubt(p) ==
  IF At(p, "idle") /\ call'[p].pc = "cbk"
  THEN Overlap(p)
  ELSE IF call'[p].pc = "warn"
  THEN Touches(call[p].task)
  ELSE IF At(p, "rename") /\ Touches(call[p].task) \cap doubtful # {}
  THEN Touches(call[p].task)
  ELSE {}

Reports(p) == At(p, "cbk") /\ call'[p].pc # "cbk"

LastOf(gfid) ==
  LET reports == {p \in Thread : Reports(p) /\ call[p].task.op \in {"insert", "update"}}
      about   == {call[p].task : p \in reports}
  IN  IF \E task \in about : task.gfid = gfid
      THEN (CHOOSE task \in about : task.gfid = gfid).sb
      ELSE last[gfid]

InitD ==
  /\ InitH
  /\ doubtful = {}
  /\ last = [gfid \in Gfid |-> NoTask]

NextD ==
  /\ NextH
  /\ doubtful' = doubtful \cup UNION {Doubt(p) : p \in Proc}
  /\ last' = [gfid \in Gfid |-> LastOf(gfid)]

SpecD == InitD /\ [][NextD]_<<vars, base, doubtful, last>>

Drained == queue = << >> /\ \A p \in Proc : At(p, "idle")

\* Once every callback has run and the queue is empty, the row of a path is
\* the row of the file at that path and a path without a file has no row,
\* unless an update of the path was logged as failed or raced with another
\* operation on it: queue, worker and transactions add no error of their own.
PathsAgree ==
  Drained =>
    \A p \in Path \ doubtful :
      LET row == disk.xfile[p]
      IN  IF ns[p] = NoGfid
          THEN row = 0
          ELSE row = GET_GID(disk, ns[p])

\* Once the queue is empty, the stat rows of an indexed file hold what the
\* last callback of a create, setattr, truncate or write reported of it.
AttrsAgree ==
  Drained =>
    \A gfid \in Gfid :
      LET gid == GET_GID(disk, gfid)
      IN  gid # 0 =>
            Rows(disk, gid, StatName) = {<<gid, n, last[gfid][n]>> : n \in StatName}
=============================================================================
