------------------------------- MODULE DhtDir -------------------------------
(***************************************************************************)
(* One directory of a distributed volume: dht_mkdir, dht_rmdir and the     *)
(* lookup that heals it, run by several clients on bricks that imess-server*)
(* indexes.  A directory is on every brick; dht_mkdir creates it on its    *)
(* hashed brick first and marks that request in xdata, so that only one    *)
(* brick records it in its index.                                          *)
(*                                                                         *)
(* A mkdir or rmdir on a brick takes three steps: the brick's file system  *)
(* carries it out, the callback of imess-server puts a task in the queue   *)
(* and answers, the worker brings the index up to date (enable-async-update*)
(* is on; off, the callback does the worker's part itself).  Steps of      *)
(* several requests are interleaved in every way.  A lookup or an opendir  *)
(* changes nothing on the brick and is one step.                           *)
(***************************************************************************)
EXTENDS Integers, Sequences

CONSTANTS
  Brick,
  Hashed,     \* the brick the directory's name hashes to
  Client,
  Gfid,       \* gfids for new directories
  NoDir,      \* no directory on the brick
  MaxOp,      \* bound: operations
  MaxFault    \* bound: calls whose answer is lost with the connection

ASSUME DirAssumption ==
  /\ Hashed \in Brick
  /\ Brick # {Hashed}
  /\ NoDir \notin Gfid

VARIABLES
  dir,     \* the gfid of the directory on each brick, or NoDir
  idx,     \* the gfid in the path's row of each brick's xdb_xfile, or NoDir
  known,   \* the gfids in each brick's xdb_xgfid
  queue,   \* each brick's tasks: the gfid to insert, or NoDir to unlink
  call,    \* the requests that are on their way to a brick or on it
  op,      \* the operation each client is in
  nop,     \* the number of operations so far
  used,    \* the gfids that mkdirs have brought
  faults,
  healed,  \* history: a self-heal has created the directory on some brick
  removed, \* history: the directory has been removed from some brick
  raced,   \* history: the brick carried out a request while the callback of
           \* another one was still to come
  again    \* history: the brick had indexed its directory's gfid before

brick == <<dir, idx, known, queue, raced, again>>
vars  == <<brick, call, op, nop, used, faults, healed, removed>>

Others == Brick \ {Hashed}

\* dht_local_t: the bricks still to answer, what the others answered, and the
\* flags of rmdir.  n tells the operation from former ones.
Idle == [pc |-> "idle", n |-> 0, gfid |-> NoDir, wait |-> {},
         err |-> [b \in Brick |-> "none"],
         need_selfheal |-> FALSE, fop_succeeded |-> FALSE]

Init ==
  /\ dir = [b \in Brick |-> NoDir]
  /\ idx = [b \in Brick |-> NoDir]
  /\ known = [b \in Brick |-> {}]
  /\ queue = [b \in Brick |-> << >>]
  /\ call = {}
  /\ op = [c \in Client |-> Idle]
  /\ nop = 0
  /\ used = {}
  /\ faults = 0
  /\ healed = FALSE
  /\ removed = FALSE
  /\ raced = [b \in Brick |-> FALSE]
  /\ again = [b \in Brick |-> FALSE]

-----------------------------------------------------------------------------
(* Requests on a brick.                                                    *)

MkdirFop == {"mkhashed", "mkdir", "heal"}
RmdirFop == {"rmdir", "rmhashed"}

\* Mutant: the mark is cleared before the hashed brick is asked.
BugMark(fop) == IF fop = "heal" THEN "unset" ELSE "0"

\* The mark in xdata: dht_mkdir sets it for the hashed brick and clears it
\* for the others, the mkdirs of a self-heal have none.
Mark(fop) == CASE fop = "mkhashed" -> "1"
               [] fop = "mkdir"    -> "0"
               [] fop = "heal"     -> "unset"

\* The callback of the request, if it is carried out, will update the index.
Indexed(r) == r.fop \in RmdirFop \/ Mark(r.fop) # "0"

\* History: r is carried out while the callback of another request that
\* updates the index is still to come.
Races(r) == Indexed(r) /\ \E s \in call : /\ s.brick = r.brick
                                          /\ s.ret = "0"
                                          /\ Indexed(s)

\* History: the gfid of r is in the brick's index or about to be.
Comes(r) == \/ r.gfid \in known[r.brick]
            \/ \E i \in 1..Len(queue[r.brick]) : queue[r.brick][i] = r.gfid

Answer(r, ret) == call' = (call \ {r}) \cup {[r EXCEPT !.ret = ret]}

\* mkdir(2) on the brick, as storage/posix calls it: it fails when the
\* directory is there already.
posix_mkdir(r) ==
  /\ r.fop \in MkdirFop /\ r.ret = "none"
  /\ \/ /\ dir[r.brick] = NoDir
        /\ dir' = [dir EXCEPT ![r.brick] = r.gfid]
        /\ Answer(r, "0")
        /\ healed' = (healed \/ r.fop = "heal")
        /\ raced' = [raced EXCEPT ![r.brick] = @ \/ Races(r)]
        /\ again' = [again EXCEPT ![r.brick] = Comes(r)]
     \/ /\ dir[r.brick] # NoDir
        /\ Answer(r, "EEXIST")
        /\ UNCHANGED <<dir, healed, raced, again>>
  /\ UNCHANGED <<idx, known, queue, op, nop, used, faults, removed>>

\* rmdir(2) on the brick; the directory is empty.
posix_rmdir(r) ==
  /\ r.fop \in RmdirFop /\ r.ret = "none"
  /\ \/ /\ dir[r.brick] # NoDir
        /\ dir' = [dir EXCEPT ![r.brick] = NoDir]
        /\ Answer(r, "0")
        /\ removed' = TRUE
        /\ raced' = [raced EXCEPT ![r.brick] = @ \/ Races(r)]
     \/ /\ dir[r.brick] = NoDir
        /\ Answer(r, "ENOENT")
        /\ UNCHANGED <<dir, removed, raced>>
  /\ UNCHANGED <<idx, known, queue, op, nop, used, faults, healed, again>>

ims_async_put_task(b, task) == queue' = [queue EXCEPT ![b] = Append(@, task)]

\* Mutant: the mark is not looked at.
Bugims_mkdir_cbk(r) ==
  IF r.ret = "0" THEN ims_async_put_task(r.brick, r.gfid)
  ELSE UNCHANGED queue

\* ims_mkdir keeps the path for its callback unless the mark is 0; without a
\* mark the brick indexes the directory.
ims_mkdir_cbk(r) ==
  IF r.ret = "0" /\ Mark(r.fop) # "0"
  THEN ims_async_put_task(r.brick, r.gfid)
  ELSE UNCHANGED queue

ims_rmdir_cbk(r) ==
  IF r.ret = "0" THEN ims_async_put_task(r.brick, NoDir)
  ELSE UNCHANGED queue

\* The worker's next task.  An insert is rolled back when the gfid or the
\* path is there already; an unlink leaves the row of the gfid.
ims_async_work(b) ==
  /\ queue[b] # << >>
  /\ LET task == Head(queue[b])
     IN  \/ /\ task = NoDir
            /\ idx' = [idx EXCEPT ![b] = NoDir]
            /\ UNCHANGED known
         \/ /\ task \notin known[b] \cup {NoDir}
            /\ idx[b] = NoDir
            /\ idx' = [idx EXCEPT ![b] = task]
            /\ known' = [known EXCEPT ![b] = @ \cup {task}]
         \/ /\ task # NoDir
            /\ task \in known[b] \/ idx[b] # NoDir
            /\ UNCHANGED <<idx, known>>
  /\ queue' = [queue EXCEPT ![b] = Tail(@)]
  /\ UNCHANGED <<dir, raced, again, call, op, nop, used, faults, healed,
                 removed>>

-----------------------------------------------------------------------------
(* A client's frame.                                                       *)

At(c, pc) == op[c].pc = pc

\* What the answers to the former requests left in the frame is not read again.
Sends(local, pc, bricks) ==
  [local EXCEPT !.pc = pc, !.wait = bricks, !.err = Idle.err,
                !.need_selfheal = FALSE, !.fop_succeeded = FALSE]

\* The requests with which a frame enters its state.
Requests(c, local) ==
  {[client |-> c, n |-> local.n, brick |-> b, fop |-> local.pc,
    gfid |-> local.gfid, ret |-> "none"] :
     b \in IF local.pc \in MkdirFop \cup RmdirFop THEN local.wait ELSE {}}

\* Tells an operation of c from those that have requests left.
Number(c) == IF \E r \in call : r.client = c THEN nop' ELSE 0

Begin(c, pc, bricks, gfid) ==
  /\ At(c, "idle")
  /\ nop < MaxOp
  /\ nop' = nop + 1
  /\ LET local == [Sends(Idle, pc, bricks) EXCEPT !.gfid = gfid, !.n = Number(c)]
     IN  /\ op' = [op EXCEPT ![c] = local]
         /\ call' = call \cup Requests(c, local)
  /\ UNCHANGED <<brick, faults, healed, removed>>

\* The frame goes on; rest is what there is of its former requests.
Continue(c, local, rest) ==
  /\ op' = [op EXCEPT ![c] = local]
  /\ call' = IF local.pc = op[c].pc THEN rest
             ELSE rest \cup Requests(c, local)

\* The answer err of brick b is merged into the layout.
Merged(local, b, err) == [local EXCEPT !.wait = @ \ {b}, !.err[b] = err]

\* Brick b has answered, and it is not read again with what.
Counted(local, b) == [local EXCEPT !.wait = @ \ {b}]

Answers(local, err) == {b \in Brick : local.err[b] = err}

FindErrno(b) == IF dir[b] = NoDir THEN "ENOENT" ELSE "0"

\* A connection breaks.
Breaks == faults < MaxFault /\ faults' = faults + 1

-----------------------------------------------------------------------------
(* The callbacks of mkdir, self-heal and rmdir: what becomes of the frame. *)

\* Mutant: EEXIST is taken for success here, too.
Bugdht_mkdir_hashed_cbk(local, err) ==
  IF err # "ENOTCONN" THEN Sends(local, "mkdir", Others) ELSE Idle

\* The hashed brick has answered: on success the other bricks follow.
dht_mkdir_hashed_cbk(local, err) ==
  IF err = "0" THEN Sends(local, "mkdir", Others) ELSE Idle

\* EEXIST is taken for success.  The last callback sets the layout and ends.
dht_mkdir_cbk(local, b) ==
  IF local.wait = {b} THEN Idle ELSE Counted(local, b)

dht_selfheal_dir_mkdir_cbk(local, b) ==
  IF local.wait = {b} THEN Idle ELSE Counted(local, b)

\* dht_selfheal_restore creates the directory on all bricks again.
dht_selfheal_restore(local) == Sends(local, "heal", Brick)

\* The other bricks are first.  When one fails and another has removed the
\* directory it is restored, otherwise the hashed brick's turn comes.
dht_rmdir_cbk(local, b, err) ==
  LET next == [Counted(local, b) EXCEPT
                 !.need_selfheal = @ \/ err = "ENOTCONN",
                 !.fop_succeeded = @ \/ err = "0"]
  IN  CASE next.wait # {} -> next
        [] next.wait = {} /\ next.need_selfheal /\ next.fop_succeeded ->
             dht_selfheal_restore(next)
        [] OTHER -> Sends(next, "rmhashed", {Hashed})

dht_rmdir_hashed_subvol_cbk(local, err) ==
  IF err = "ENOTCONN" THEN dht_selfheal_restore(local) ELSE Idle

Callback(local, b, err) ==
  CASE local.pc = "mkhashed" -> dht_mkdir_hashed_cbk(local, err)
    [] local.pc = "mkdir"    -> dht_mkdir_cbk(local, b)
    [] local.pc = "heal"     -> dht_selfheal_dir_mkdir_cbk(local, b)
    [] local.pc = "rmdir"    -> dht_rmdir_cbk(local, b, err)
    [] local.pc = "rmhashed" -> dht_rmdir_hashed_subvol_cbk(local, err)

\* The client still waits for the answer to r.
Awaits(r) ==
  /\ r.n = op[r.client].n
  /\ r.fop = op[r.client].pc
  /\ r.brick \in op[r.client].wait

\* The callbacks of a request that was carried out or refused: imess-server's
\* and, when the answer reaches it, the client's.
Unwind(r) ==
  /\ r.ret # "none"
  /\ \/ r.fop \in MkdirFop /\ ims_mkdir_cbk(r)
     \/ r.fop \in RmdirFop /\ ims_rmdir_cbk(r)
  /\ \/ /\ Awaits(r)
        /\ Continue(r.client, Callback(op[r.client], r.brick, r.ret),
                    call \ {r})
     \/ /\ ~Awaits(r)
        /\ call' = call \ {r}
        /\ UNCHANGED op
  /\ UNCHANGED <<dir, idx, known, raced, again, nop, used, faults, healed,
                 removed>>

\* The connection breaks while the client waits for the answer to r.  The
\* request is lost if it has not got through to the brick; otherwise the
\* brick carries it out, or has done so, and nobody hears of it.
Disconnect(r) ==
  /\ Awaits(r)
  /\ Breaks
  /\ \E rest \in {call} \cup (IF r.ret = "none" THEN {call \ {r}} ELSE {}) :
       Continue(r.client, Callback(op[r.client], r.brick, "ENOTCONN"), rest)
  /\ UNCHANGED <<brick, nop, used, healed, removed>>

-----------------------------------------------------------------------------
(* The operations, and the callbacks of lookup and opendir.                *)

\* Every mkdir brings a gfid of its own (gfid-req).
dht_mkdir(c) ==
  \E gfid \in Gfid \ used :
    /\ used' = used \cup {gfid}
    /\ Begin(c, "mkhashed", {Hashed}, gfid)

dht_lookup_directory(c) ==
  Begin(c, "lookup", Brick, NoDir) /\ UNCHANGED used

\* The caller has looked the directory up.
dht_rmdir(c) ==
  \E b \in Brick :
    /\ dir[b] # NoDir
    /\ Begin(c, "opendir", Brick, dir[b])
    /\ UNCHANGED used

\* dht_selfheal_directory: nothing is done while a brick is down; otherwise
\* the directory is created where it is missing (dht_selfheal_dir_mkdir).
dht_selfheal_directory(local) ==
  IF Answers(local, "ENOTCONN") # {} \/ Answers(local, "0") = {}
     \/ Answers(local, "ENOENT") = {}
  THEN Idle
  ELSE Sends(local, "heal", Answers(local, "ENOENT"))

\* The gfid healed with is that of the first callback, which is not always
\* that of the brick that was first to look.
dht_lookup_dir_cbk(c, b) ==
  /\ At(c, "lookup")
  /\ b \in op[c].wait
  /\ \/ \E gfid \in IF op[c].gfid = NoDir THEN {dir[b]}
                    ELSE {op[c].gfid, dir[b]} \ {NoDir} :
          LET found == [Merged(op[c], b, FindErrno(b)) EXCEPT !.gfid = gfid]
          IN  /\ Continue(c, IF found.wait = {}
                             THEN dht_selfheal_directory(found) ELSE found,
                          call)
              /\ UNCHANGED faults
     \/ LET found == Merged(op[c], b, "ENOTCONN")
        IN  /\ Continue(c, IF found.wait = {}
                           THEN dht_selfheal_directory(found) ELSE found, call)
            /\ Breaks
  /\ UNCHANGED <<brick, nop, used, healed, removed>>

\* The directory is opened everywhere to see that it is empty; an
\* unreachable brick fails the rmdir, one without the directory does not.
dht_rmdir_opendir_cbk(c, b) ==
  /\ At(c, "opendir")
  /\ b \in op[c].wait
  /\ \E local \in {Counted(op[c], b), Merged(op[c], b, "ENOTCONN")} :
       /\ IF local.err[b] = "ENOTCONN" THEN Breaks ELSE UNCHANGED faults
       /\ Continue(c, CASE local.wait # {} -> local
                        [] local.wait = {}
                           /\ Answers(local, "ENOTCONN") # {} -> Idle
                        [] OTHER -> Sends(local, "rmdir", Others),
                   call)
  /\ UNCHANGED <<brick, nop, used, healed, removed>>

-----------------------------------------------------------------------------
\* The brick has nothing left to do for the directory.
Settled(b) ==
  queue[b] = << >> /\ \A r \in call : r.brick = b => r.ret # "0"

\* All operations are done; the end of a bounded run.
Rest ==
  /\ call = {}
  /\ \A b \in Brick : queue[b] = << >>
  /\ \A c \in Client : At(c, "idle")
  /\ UNCHANGED vars

Next ==
  \/ \E c \in Client :
       \/ dht_mkdir(c) \/ dht_lookup_directory(c) \/ dht_rmdir(c)
       \/ \E b \in Brick : dht_lookup_dir_cbk(c, b) \/ dht_rmdir_opendir_cbk(c, b)
  \/ \E r \in call : posix_mkdir(r) \/ posix_rmdir(r) \/ Unwind(r) \/ Disconnect(r)
  \/ \E b \in Brick : ims_async_work(b)
  \/ Rest

Spec == Init /\ [][Next]_vars

-----------------------------------------------------------------------------
\* The directory has one gfid on all bricks that have it, whatever mkdirs,
\* lookups and failures there are, until an rmdir has removed it somewhere:
\* the hashed brick decides which of two mkdirs wins.
SameGfid ==
  removed \/ \A b1, b2 \in Brick :
    NoDir \notin {dir[b1], dir[b2]} => dir[b1] = dir[b2]

\* enable-dir-hash: at most one brick has a record, until a self-heal has
\* created the directory on a brick.
OneRecord ==
  healed \/ \A b1, b2 \in Brick : NoDir \notin {idx[b1], idx[b2]} => b1 = b2

\* Once a brick has nothing left to do, its record is that of its directory,
\* and the hashed brick has one, through every mkdir, rmdir, self-heal and
\* lost answer.  Two ways of losing it remain in the code.  The callbacks of
\* two requests on the brick can pass each other.  And a self-heal after an
\* rmdir brings a gfid back that xdb_xgfid still has, which refuses it.
RecordKept ==
  \A b \in Brick : Settled(b) /\ ~raced[b] =>
    /\ idx[b] \in {NoDir, dir[b]}
    /\ b = Hashed /\ ~again[b] => idx[b] = dir[b]
=============================================================================
