---------------------------- MODULE DhtDirProofs -----------------------------
(***************************************************************************)
(* Proofs about DhtDir for any bricks, clients, gfids and bounds: one gfid *)
(* on all bricks, one record in their indexes, and records that follow the *)
(* directory, each as long as the code promises it.                        *)
(***************************************************************************)
EXTENDS DhtDir, TLAPS

\* Most leaves are first-order: Zenon proves them.  A leaf that needs arithmetic,
\* record or sequence reasoning names SMT.
USE Zenon

Errno == {"none", "0", "ENOENT", "ENOTCONN"}

Fop == MkdirFop \cup RmdirFop

Local ==
  [pc : {"idle", "lookup", "opendir"} \cup Fop, n : Nat,
   gfid : Gfid \cup {NoDir}, wait : SUBSET Brick, err : [Brick -> Errno],
   need_selfheal : BOOLEAN, fop_succeeded : BOOLEAN]

Request ==
  [client : Client, n : Nat, brick : Brick, fop : Fop, gfid : Gfid,
   ret : {"none", "0", "EEXIST", "ENOENT"}]

\* What a frame is sure of: every operation but a lookup has a gfid, and a
\* lookup has one as soon as a brick has answered with success.
Sure(local) ==
  /\ local \in Local
  /\ local.pc \notin {"idle", "lookup"} => local.gfid # NoDir
  /\ local.pc = "lookup" =>
       \A b \in Brick : local.err[b] = "0" => local.gfid # NoDir

TypedBricks ==
  /\ dir \in [Brick -> Gfid \cup {NoDir}]
  /\ idx \in [Brick -> Gfid \cup {NoDir}]
  /\ known \in [Brick -> SUBSET Gfid]
  /\ queue \in [Brick -> Seq(Gfid \cup {NoDir})]
  /\ raced \in [Brick -> BOOLEAN]
  /\ again \in [Brick -> BOOLEAN]

\* The frames and their requests.  Only the hashed brick gets the mkdir with
\* the mark 1, only the others get the one with the mark 0.
TypedFrames ==
  /\ nop \in Nat
  /\ healed \in BOOLEAN
  /\ removed \in BOOLEAN
  /\ op \in [Client -> Local]
  /\ \A c \in Client : Sure(op[c]) /\ op[c].n <= nop
  /\ call \subseteq Request
  /\ \A r \in call : /\ r.n <= nop
                     /\ r.fop = "mkhashed" => r.brick = Hashed
                     /\ r.fop = "mkdir" => r.brick # Hashed

\* The mkdir on the hashed brick that a client waits for brings the gfid of
\* the client's frame.
Linked ==
  \A r \in call :
    r.fop = "mkhashed" /\ op[r.client].pc = "mkhashed" /\ r.n = op[r.client].n =>
      r.gfid = op[r.client].gfid

\* Until an rmdir has removed it, the hashed brick has the directory first and
\* for ever: what other bricks have, and what the operations and requests under
\* way carry once the hashed brick has carried out a mkdir, is its gfid.
Led ==
  ~removed =>
    /\ \A b \in Brick : dir[b] \in {NoDir, dir[Hashed]}
    /\ \A c \in Client :
         op[c].pc \notin {"idle", "mkhashed"} => op[c].gfid \in {NoDir, dir[Hashed]}
    /\ \A r \in call :
         r.fop # "mkhashed" \/ r.ret = "0" => r.gfid = dir[Hashed]

\* Only a self-heal makes another brick than the hashed one record the
\* directory.
Recorded ==
  ~healed => /\ \A b \in Others : /\ idx[b] = NoDir
                                  /\ \A i \in 1..Len(queue[b]) : queue[b][i] = NoDir
             /\ \A r \in call : r.ret = "0" => r.fop # "heal"

\* The requests on b that were carried out and whose callback will put a task
\* in the queue.
Due(b) == {r \in call : r.brick = b /\ r.ret = "0" /\ Indexed(r)}

\* What the index has or will have before the i-th task, and after the last.
Before(b, i) == IF i = 1 THEN idx[b] ELSE queue[b][i - 1]
Last(b) == Before(b, Len(queue[b]) + 1)

\* While no callbacks have passed each other on b, at most one is due.  An
\* insert is put behind an unlink; the last task is the one for the directory
\* that b has, when no callback is due.
Follows(b) ==
  ~raced[b] =>
    /\ \A r, s \in Due(b) : r = s
    /\ \A i \in 1..Len(queue[b]) : queue[b][i] # NoDir => Before(b, i) = NoDir
    /\ \A r \in Due(b) : r.fop \in MkdirFop => dir[b] = r.gfid /\ Last(b) = NoDir
    /\ \A r \in Due(b) : r.fop \in RmdirFop /\ b = Hashed => dir[b] = NoDir
    /\ Due(b) = {} => Last(b) \in {NoDir, dir[b]}

\* The insert of the hashed brick's directory is not refused: its gfid is new
\* to the index until the task is carried out.
Taken(b) ==
  b = Hashed /\ ~raced[b] /\ ~again[b] /\ dir[b] # NoDir =>
    /\ \A i \in 1..(Len(queue[b]) - 1) : queue[b][i] # dir[b]
    /\ Due(b) = {} => Last(b) = dir[b]
    /\ Due(b) # {} => dir[b] \notin known[b] /\ Last(b) # dir[b]
    /\ queue[b] # << >> => dir[b] \notin known[b]

\* The inductive invariant.
Inv ==
  /\ TypedBricks /\ TypedFrames /\ Linked /\ Led /\ Recorded
  /\ \A b \in Brick : Follows(b) /\ Taken(b)

-----------------------------------------------------------------------------
\* The idle frame, a frame that has sent its next requests, and one that has
\* taken an answer.
LEMMA IdleLocal == Sure(Idle) /\ Idle.pc = "idle" /\ Idle.n = 0 /\ Idle.gfid = NoDir
BY SMT DEF Sure, Idle, Local, Errno, Fop, MkdirFop, RmdirFop

LEMMA SendsLocal ==
  ASSUME NEW local \in Local, NEW bricks \in SUBSET Brick,
         NEW pc \in {"lookup", "opendir"} \cup Fop
  PROVE  /\ Sends(local, pc, bricks) \in Local
         /\ Sends(local, pc, bricks).pc = pc
         /\ Sends(local, pc, bricks).n = local.n
         /\ Sends(local, pc, bricks).wait = bricks
         /\ Sends(local, pc, bricks).gfid = local.gfid
<1>1. Idle.err \in [Brick -> Errno]
  BY SMT DEF Idle, Errno
<1> QED
  BY <1>1 DEF Sends, Local

LEMMA MergedLocal ==
  ASSUME NEW local \in Local, NEW b \in Brick, NEW err \in Errno
  PROVE  /\ Merged(local, b, err) \in Local
         /\ Merged(local, b, err).pc = local.pc
         /\ Merged(local, b, err).n = local.n
         /\ Merged(local, b, err).gfid = local.gfid
         /\ Merged(local, b, err).err = [local.err EXCEPT ![b] = err]
BY DEF Merged, Local

LEMMA CountedLocal ==
  ASSUME NEW local \in Local, NEW b \in Brick
  PROVE  /\ Counted(local, b) \in Local
         /\ Counted(local, b).pc = local.pc
         /\ Counted(local, b).n = local.n
         /\ Counted(local, b).gfid = local.gfid
BY SMT DEF Counted, Local

-----------------------------------------------------------------------------
\* What a callback of mkdir, self-heal or rmdir makes of its frame: an
\* operation keeps its gfid, and only a success on the hashed brick takes a
\* mkdir to the others.
Goes(local, next, err) ==
  /\ Sure(next)
  /\ next.n <= local.n
  /\ next.pc # "mkhashed"
  /\ next.pc = "mkdir" /\ local.pc # "mkdir" => next.wait \subseteq Others
  /\ next.pc # "idle" => next.gfid = local.gfid
  /\ local.pc = "mkhashed" => next.pc = "idle" \/ err = "0"

LEMMA GoesIdle ==
  ASSUME NEW local, NEW err, local.n \in Nat
  PROVE  Goes(local, Idle, err)
BY IdleLocal, SMT DEF Goes

LEMMA GoesCounted ==
  ASSUME NEW local, NEW err, Sure(local), local.pc \in {"mkdir", "heal"}, NEW b \in Brick
  PROVE  Goes(local, Counted(local, b), err)
<1> DEFINE next == Counted(local, b)
<1>1. local \in Local /\ local.n \in Nat /\ local.gfid # NoDir
  BY SMT DEF Sure, Local
<1>2. next \in Local /\ next.pc = local.pc /\ next.n = local.n /\ next.gfid = local.gfid
  BY <1>1, CountedLocal
<1> HIDE DEF next
<1>3. Sure(next)
  BY <1>1, <1>2, SMT DEF Sure
<1>4. next.n <= local.n
  BY <1>1, <1>2, SMT
<1>5. Goes(local, next, err)
  BY <1>2, <1>3, <1>4, SMT DEF Goes
<1> QED
  BY <1>5 DEF next

LEMMA GoesSends ==
  ASSUME NEW local \in Local, NEW err, local.gfid # NoDir,
         NEW pc \in {"mkdir", "heal", "rmhashed"}, NEW bricks \in SUBSET Brick,
         pc = "mkdir" => bricks \subseteq Others /\ err = "0",
         local.pc = "mkhashed" => pc = "mkdir"
  PROVE  Goes(local, Sends(local, pc, bricks), err)
<1> DEFINE next == Sends(local, pc, bricks)
<1>1. pc \in {"lookup", "opendir"} \cup Fop
  BY SMT DEF Fop, MkdirFop, RmdirFop
<1>2. /\ next \in Local /\ next.pc = pc /\ next.n = local.n /\ next.wait = bricks
      /\ next.gfid = local.gfid
  BY <1>1, SendsLocal
<1>3. local.n \in Nat
  BY SMT DEF Local
<1> HIDE DEF next
<1>4. Sure(next) /\ next.n <= local.n
  BY <1>2, <1>3, SMT DEF Sure
<1>5. Goes(local, next, err)
  BY <1>2, <1>4, SMT DEF Goes
<1> QED
  BY <1>5 DEF next

LEMMA GoesRmdir ==
  ASSUME NEW local, NEW err, Sure(local), local.pc = "rmdir", NEW b \in Brick
  PROVE  Goes(local, dht_rmdir_cbk(local, b, err), err)
<1> DEFINE next == [Counted(local, b) EXCEPT
                      !.need_selfheal = @ \/ err = "ENOTCONN",
                      !.fop_succeeded = @ \/ err = "0"]
<1>1. local \in Local /\ local.gfid # NoDir /\ local.n \in Nat
  BY SMT DEF Sure, Local
<1>2. /\ Counted(local, b) \in Local /\ Counted(local, b).pc = "rmdir"
      /\ Counted(local, b).n = local.n /\ Counted(local, b).gfid = local.gfid
  BY <1>1, CountedLocal, SMT
<1>3. next \in Local /\ next.pc = "rmdir" /\ next.n = local.n /\ next.gfid = local.gfid
  BY <1>2 DEF Local
<1>4. dht_rmdir_cbk(local, b, err) \in
        {next, dht_selfheal_restore(next), Sends(next, "rmhashed", {Hashed})}
  BY DEF dht_rmdir_cbk
<1> HIDE DEF next
<1>5. Goes(local, next, err)
  <2>1. Sure(next) /\ next.n <= local.n
    BY <1>1, <1>3, SMT DEF Sure
  <2> QED
    BY <1>3, <2>1, SMT DEF Goes
<1>6. Goes(next, Sends(next, "heal", Brick), err)
  BY <1>1, <1>3, GoesSends
<1>7. Goes(next, Sends(next, "rmhashed", {Hashed}), err)
  BY <1>1, <1>3, GoesSends, DirAssumption
<1>8. \A sent : Goes(next, sent, err) /\ sent.pc # "mkdir" => Goes(local, sent, err)
  BY <1>3 DEF Goes
<1>9. Sends(next, "heal", Brick).pc = "heal" /\ Sends(next, "rmhashed", {Hashed}).pc = "rmhashed"
  <2>1. /\ "heal" \in {"lookup", "opendir"} \cup Fop
        /\ "rmhashed" \in {"lookup", "opendir"} \cup Fop
    BY SMT DEF Fop, MkdirFop, RmdirFop
  <2>2. Brick \in SUBSET Brick /\ {Hashed} \in SUBSET Brick
    BY DirAssumption
  <2> QED
    BY <1>3, <2>1, <2>2, SendsLocal, SMT
<1> QED
  BY <1>4, <1>5, <1>6, <1>7, <1>8, <1>9 DEF dht_selfheal_restore

LEMMA CallbackGoes ==
  ASSUME NEW local, NEW err, Sure(local), local.pc \in Fop, NEW b \in Brick
  PROVE  Goes(local, Callback(local, b, err), err)
<1>1. local \in Local /\ local.gfid # NoDir /\ local.n \in Nat
  BY SMT DEF Sure, Local, Fop, MkdirFop, RmdirFop
<1>2. Others \in SUBSET Brick /\ {Hashed} \in SUBSET Brick
  BY DirAssumption DEF Others
<1>3. CASE local.pc = "mkhashed"
  <2>1. Callback(local, b, err) = dht_mkdir_hashed_cbk(local, err)
    BY <1>3, SMT DEF Callback
  <2> QED
    BY <1>1, <1>2, <1>3, <2>1, GoesIdle, GoesSends DEF dht_mkdir_hashed_cbk
<1>4. CASE local.pc = "mkdir"
  <2>1. Callback(local, b, err) = dht_mkdir_cbk(local, b)
    BY <1>4, SMT DEF Callback
  <2> QED
    BY <1>1, <1>4, <2>1, GoesIdle, GoesCounted DEF dht_mkdir_cbk
<1>5. CASE local.pc = "heal"
  <2>1. Callback(local, b, err) = dht_selfheal_dir_mkdir_cbk(local, b)
    BY <1>5, SMT DEF Callback
  <2> QED
    BY <1>1, <1>5, <2>1, GoesIdle, GoesCounted DEF dht_selfheal_dir_mkdir_cbk
<1>6. CASE local.pc = "rmdir"
  <2>1. Callback(local, b, err) = dht_rmdir_cbk(local, b, err)
    BY <1>6, SMT DEF Callback
  <2> QED
    BY <1>6, <2>1, GoesRmdir
<1>7. CASE local.pc = "rmhashed"
  <2>1. Callback(local, b, err) = dht_rmdir_hashed_subvol_cbk(local, err)
    BY <1>7, SMT DEF Callback
  <2> QED
    BY <1>1, <1>7, <2>1, GoesIdle, GoesSends
    DEF dht_rmdir_hashed_subvol_cbk, dht_selfheal_restore
<1> QED
  BY <1>3, <1>4, <1>5, <1>6, <1>7 DEF Fop, MkdirFop, RmdirFop

-----------------------------------------------------------------------------
\* The requests of a frame.
LEMMA RequestsAre ==
  ASSUME NEW c \in Client, NEW local, Sure(local)
  PROVE  \A r \in Requests(c, local) :
           /\ r \in Request /\ r.client = c /\ r.n = local.n /\ r.brick \in local.wait
           /\ r.fop = local.pc /\ r.gfid = local.gfid /\ r.ret = "none"
           /\ local.pc \in Fop
<1> TAKE r \in Requests(c, local)
<1>1. PICK b \in IF local.pc \in MkdirFop \cup RmdirFop THEN local.wait ELSE {} :
        r = [client |-> c, n |-> local.n, brick |-> b, fop |-> local.pc,
             gfid |-> local.gfid, ret |-> "none"]
  BY DEF Requests
<1>2. local.pc \in Fop /\ b \in local.wait
  BY <1>1 DEF Fop
<1>3. /\ b \in Brick /\ local.n \in Nat /\ local.gfid \in Gfid \cup {NoDir}
  BY <1>2 DEF Sure, Local
<1>4. local.gfid \in Gfid
  BY <1>2, <1>3 DEF Sure, Fop, MkdirFop, RmdirFop
<1>5. r \in Request
  BY <1>1, <1>2, <1>3, <1>4 DEF Request
<1> QED
  BY <1>1, <1>2, <1>5

\* The frame of c becomes local, and what call has then was in call before or
\* is one of the requests of local.  The bricks stay as they are.
Framed(c, local) ==
  /\ op' = [op EXCEPT ![c] = local]
  /\ Sure(local)
  /\ local.n <= nop'
  /\ \A r \in call' : r \in call \/ r \in Requests(c, local)
  /\ local.pc # "idle" /\ local.pc # "mkhashed" /\ ~removed =>
       local.gfid \in {NoDir, dir[Hashed]}
  /\ UNCHANGED <<dir, healed, removed>>

LEMMA FramedTyped ==
  ASSUME TypedFrames, NEW c \in Client, NEW local, Framed(c, local),
         nop' \in Nat, nop <= nop',
         \A r \in call' \ call : /\ r.fop = "mkhashed" => r.brick = Hashed
                                 /\ r.fop = "mkdir" => r.brick # Hashed
  PROVE  TypedFrames'
<1>1. op' \in [Client -> Local]
  BY DEF Framed, Sure, TypedFrames
<1>2. ASSUME NEW d \in Client PROVE Sure(op'[d]) /\ op'[d].n <= nop'
  <2>1. CASE d = c
    BY <2>1 DEF Framed, TypedFrames
  <2>2. CASE d # c
    <3>1. op'[d] = op[d] /\ op[d] \in Local /\ Sure(op[d]) /\ op[d].n <= nop
      BY <2>2 DEF Framed, TypedFrames
    <3>2. op[d].n \in Nat /\ nop \in Nat
      BY <3>1 DEF Local, TypedFrames
    <3>3. op[d].n <= nop'
      BY <3>1, <3>2, SMT
    <3> QED
      BY <3>1, <3>3
  <2> QED
    BY <2>1, <2>2
<1>3. ASSUME NEW r \in call'
      PROVE  /\ r \in Request /\ r.n <= nop'
             /\ r.fop = "mkhashed" => r.brick = Hashed
             /\ r.fop = "mkdir" => r.brick # Hashed
  <2>1. CASE r \in call
    <3>1. r \in Request /\ r.n <= nop
      BY <2>1 DEF TypedFrames
    <3>2. r.n \in Nat /\ nop \in Nat
      BY <3>1 DEF Request, TypedFrames
    <3>3. r.n <= nop'
      BY <3>1, <3>2, SMT
    <3> QED
      BY <2>1, <3>1, <3>3 DEF TypedFrames
  <2>2. CASE r \notin call
    <3>1. r \in Requests(c, local) /\ Sure(local) /\ local.n <= nop'
      BY <1>3, <2>2 DEF Framed
    <3>2. r \in Request /\ r.n = local.n
      BY <3>1, RequestsAre, SMT
    <3> QED
      BY <1>3, <2>2, <3>1, <3>2
  <2> QED
    BY <2>1, <2>2
<1>4. healed' \in BOOLEAN /\ removed' \in BOOLEAN
  BY DEF Framed, TypedFrames
<1>5. call' \subseteq Request
  BY <1>3
<1>6. \A d \in Client : Sure(op'[d]) /\ op'[d].n <= nop'
  BY <1>2
<1>7. \A r \in call' : /\ r.n <= nop'
                       /\ r.fop = "mkhashed" => r.brick = Hashed
                       /\ r.fop = "mkdir" => r.brick # Hashed
  BY <1>3
<1> QED
  BY <1>1, <1>4, <1>5, <1>6, <1>7 DEF TypedFrames, Sure

LEMMA FramedLed ==
  ASSUME TypedFrames, Led, NEW c \in Client, NEW local, Framed(c, local)
  PROVE  Led'
<1> SUFFICES ASSUME ~removed
             PROVE  /\ \A b \in Brick : dir[b] \in {NoDir, dir[Hashed]}
                    /\ \A d \in Client : op'[d].pc \notin {"idle", "mkhashed"} =>
                         op'[d].gfid \in {NoDir, dir[Hashed]}
                    /\ \A r \in call' : r.fop # "mkhashed" \/ r.ret = "0" =>
                         r.gfid = dir[Hashed]
  BY DEF Led, Framed
<1>1. \A b \in Brick : dir[b] \in {NoDir, dir[Hashed]}
  BY DEF Led
<1>2. ASSUME NEW d \in Client, op'[d].pc \notin {"idle", "mkhashed"}
      PROVE  op'[d].gfid \in {NoDir, dir[Hashed]}
  BY <1>2 DEF Framed, Led, TypedFrames
<1>3. ASSUME NEW r \in call', r.fop # "mkhashed" \/ r.ret = "0"
      PROVE  r.gfid = dir[Hashed]
  <2>1. CASE r \in call
    BY <1>3, <2>1 DEF Led
  <2>2. CASE r \in Requests(c, local)
    <3>0. Sure(local)
      BY DEF Framed
    <3>1. /\ r \in Request /\ r.fop = local.pc /\ r.gfid = local.gfid /\ r.ret = "none"
          /\ local.pc \in Fop
      BY <2>2, <3>0, RequestsAre, SMT
    <3>2. local.pc \notin {"idle", "mkhashed"}
      BY <1>3, <3>1 DEF Fop, MkdirFop, RmdirFop
    <3>3. local.gfid \in {NoDir, dir[Hashed]}
      BY <3>2 DEF Framed
    <3>4. r.gfid # NoDir
      BY <3>1, DirAssumption DEF Request
    <3> QED
      BY <3>1, <3>3, <3>4
  <2> QED
    BY <1>3, <2>1, <2>2 DEF Framed
<1> QED
  BY <1>1, <1>2, <1>3

\* A frame that was not begun just now does not become one that asks the
\* hashed brick for a mkdir.
LEMMA FramedLinked ==
  ASSUME TypedFrames, Linked, NEW c \in Client, NEW local, Framed(c, local),
         local.pc # "mkhashed"
  PROVE  Linked'
<1> SUFFICES ASSUME NEW r \in call', r.fop = "mkhashed",
                    op'[r.client].pc = "mkhashed", r.n = op'[r.client].n
             PROVE  r.gfid = op'[r.client].gfid
  BY DEF Linked
<1>1. op' = [op EXCEPT ![c] = local] /\ op \in [Client -> Local] /\ Sure(local)
  BY DEF Framed, TypedFrames
<1>2. r \in call
  <2>1. CASE r \in Requests(c, local)
    BY <1>1, <2>1, RequestsAre, SMT
  <2> QED
    BY <2>1 DEF Framed
<1>3. r.client \in Client /\ r.client # c
  BY <1>1, <1>2 DEF TypedFrames, Request
<1>4. op'[r.client] = op[r.client]
  BY <1>1, <1>3
<1> QED
  BY <1>2, <1>4 DEF Linked

-----------------------------------------------------------------------------
\* A brick and the callbacks due on it stay as they are.
LEMMA QuietBrick ==
  ASSUME NEW b \in Brick, Follows(b), Taken(b),
         dir'[b] = dir[b], idx'[b] = idx[b], known'[b] = known[b], queue'[b] = queue[b],
         raced'[b] = raced[b], again'[b] = again[b], Due(b)' = Due(b)
  PROVE  Follows(b)' /\ Taken(b)'
<1>1. Last(b)' = Last(b) /\ \A i : Before(b, i)' = Before(b, i)
  BY DEF Last, Before
<1>2. Follows(b)'
  BY <1>1 DEF Follows
<1>3. Taken(b)'
  BY <1>1 DEF Taken
<1> QED
  BY <1>2, <1>3

\* The bricks, and the requests that were carried out on them, stay as they
\* are.
LEMMA QuietBricks ==
  ASSUME TypedBricks, Recorded, \A b \in Brick : Follows(b) /\ Taken(b),
         UNCHANGED <<brick, healed>>,
         \A r \in call' : r.ret = "0" => r \in call,
         \A b \in Brick : Due(b)' = Due(b)
  PROVE  TypedBricks' /\ Recorded' /\ \A b \in Brick : (Follows(b) /\ Taken(b))'
<1>1. UNCHANGED <<dir, idx, known, queue, raced, again, healed>>
  BY DEF brick
<1>2. TypedBricks'
  BY <1>1 DEF TypedBricks
<1>3. Recorded'
  <2> SUFFICES ASSUME ~healed PROVE Recorded'
    BY <1>1, SMT DEF Recorded
  <2>1. \A r \in call' : r.ret = "0" => r.fop # "heal"
    BY DEF Recorded
  <2> QED
    BY <1>1, <2>1 DEF Recorded
<1>4. ASSUME NEW b \in Brick PROVE (Follows(b) /\ Taken(b))'
  BY <1>1, QuietBrick
<1> QED
  BY <1>2, <1>3, <1>4

\* The callbacks due on a brick, when the requests carried out are the same.
LEMMA SameDue ==
  ASSUME \A r : r \in call' /\ r.ret = "0" <=> r \in call /\ r.ret = "0"
  PROVE  (\A r \in call' : r.ret = "0" => r \in call) /\ \A b : Due(b)' = Due(b)
BY DEF Due, Indexed

\* The frame of a client goes on, and no request is carried out.
LEMMA ContinueInv ==
  ASSUME Inv, NEW c \in Client, NEW local, NEW rest, Sure(local),
         rest \subseteq call, \A r \in call \ rest : r.ret # "0",
         Continue(c, local, rest), UNCHANGED <<brick, nop, healed, removed>>,
         local.n <= nop, local.pc # "mkhashed",
         local.pc = "mkdir" /\ op[c].pc # "mkdir" => local.wait \subseteq Others,
         local.pc # "idle" /\ ~removed => local.gfid \in {NoDir, dir[Hashed]}
  PROVE  Inv'
<1>1. \A r \in call' : r \in rest \/ (r \in Requests(c, local) /\ local.pc # op[c].pc)
  BY DEF Continue
<1>2. rest \subseteq call'
  BY DEF Continue
<1>3. Framed(c, local)
  BY <1>1 DEF Framed, Continue, brick
<1>4. nop' \in Nat /\ nop <= nop'
  BY SMT DEF Inv, TypedFrames
<1>5. ASSUME NEW r \in call' \ call
      PROVE  (r.fop = "mkhashed" => r.brick = Hashed) /\ (r.fop = "mkdir" => r.brick # Hashed)
  <2>1. r \in Requests(c, local) /\ local.pc # op[c].pc
    BY <1>1, <1>5
  <2>2. r.fop = local.pc /\ r.brick \in local.wait
    BY <2>1, RequestsAre, SMT
  <2> QED
    BY <2>1, <2>2 DEF Others
<1>6. TypedFrames'
  BY <1>3, <1>4, <1>5, FramedTyped DEF Inv
<1>7. Led' /\ Linked'
  BY <1>3, FramedLed, FramedLinked DEF Inv
<1>8. \A r : r \in call' /\ r.ret = "0" <=> r \in call /\ r.ret = "0"
  <2>1. \A r \in Requests(c, local) : r.ret = "none"
    BY RequestsAre, SMT
  <2> QED
    BY <1>1, <1>2, <2>1
<1>9. TypedBricks' /\ Recorded' /\ \A b \in Brick : (Follows(b) /\ Taken(b))'
  BY <1>8, SameDue, QuietBricks DEF Inv
<1> QED
  BY <1>6, <1>7, <1>9 DEF Inv

-----------------------------------------------------------------------------
LEMMA InitInv == Init => Inv
<1> SUFFICES ASSUME Init PROVE Inv
  OBVIOUS
<1>1. TypedBricks
  BY SMT DEF Init, TypedBricks
<1>2. TypedFrames
  <2>1. op \in [Client -> Local] /\ \A c \in Client : Sure(op[c]) /\ op[c].n <= nop
    <3>1. Idle \in Local /\ Sure(Idle) /\ Idle.n = 0 /\ 0 <= 0
      BY IdleLocal, SMT DEF Sure
    <3> QED
      BY <3>1 DEF Init
  <2>2. nop \in Nat /\ call = {}
    BY SMT DEF Init
  <2> QED
    BY <2>1, <2>2 DEF Init, TypedFrames
<1>3. Linked
  BY DEF Init, Linked
<1>4. Led
  BY DirAssumption, IdleLocal DEF Init, Led
<1>5. Recorded
  <2>1. \A b \in Brick : queue[b] = << >> /\ idx[b] = NoDir
    BY DEF Init
  <2>2. 1..Len(<< >>) = {}
    BY SMT
  <2> QED
    BY <2>1, <2>2 DEF Init, Recorded, Others
<1>6. ASSUME NEW b \in Brick PROVE Follows(b) /\ Taken(b)
  <2>1. queue[b] = << >> /\ idx[b] = NoDir /\ dir[b] = NoDir /\ Due(b) = {}
    BY <1>6 DEF Init, Due
  <2>2. Len(queue[b]) + 1 = 1 /\ 1..Len(queue[b]) = {}
    BY <2>1, SMT
  <2>3. Last(b) = NoDir
    BY <2>1, <2>2 DEF Last, Before
  <2> QED
    BY <2>1, <2>2, <2>3 DEF Follows, Taken
<1> QED
  BY <1>1, <1>2, <1>3, <1>4, <1>5, <1>6 DEF Inv

\* A client begins with a number that no request has.
LEMMA BeginInv ==
  ASSUME Inv, NEW c \in Client, NEW pc \in {"mkhashed", "lookup", "opendir"},
         NEW bricks \in SUBSET Brick, NEW gfid \in Gfid \cup {NoDir},
         Begin(c, pc, bricks, gfid),
         pc = "mkhashed" => bricks = {Hashed}, pc # "lookup" => gfid # NoDir,
         pc = "mkhashed" \/ gfid = NoDir \/ \E b \in Brick : gfid = dir[b]
  PROVE  Inv'
<1> DEFINE local == [Sends(Idle, pc, bricks) EXCEPT !.gfid = gfid, !.n = Number(c)]
<1>1. /\ op' = [op EXCEPT ![c] = local] /\ call' = call \cup Requests(c, local)
      /\ nop' = nop + 1 /\ UNCHANGED <<brick, healed, removed>>
  BY DEF Begin
<1>2. nop \in Nat /\ nop' \in Nat /\ nop <= nop' /\ nop' <= nop' /\ 0 <= nop' /\ ~(nop' <= nop)
  BY <1>1, SMT DEF Inv, TypedFrames
<1>10. /\ Number(c) \in Nat /\ Number(c) <= nop'
       /\ \A r \in call : r.client = c => Number(c) = nop'
  BY <1>2, SMT DEF Number
<1>3. /\ local \in Local /\ local.pc = pc /\ local.n = Number(c) /\ local.wait = bricks
      /\ local.gfid = gfid /\ local.err = Idle.err
  <2>1. Idle.err \in [Brick -> Errno] /\ pc \in {"idle", "lookup", "opendir"} \cup Fop
    BY SMT DEF Idle, Errno, Fop, MkdirFop, RmdirFop
  <2>2. Idle \in Local
    BY IdleLocal DEF Sure
  <2> QED
    BY <1>10, <2>1, <2>2 DEF Sends, Local
<1> HIDE DEF local
<1>4. Sure(local)
  <2>1. \A b \in Brick : local.err[b] = "none"
    BY <1>3 DEF Idle
  <2> QED
    BY <1>3, <2>1 DEF Sure
<1>5. Framed(c, local)
  <2>1. pc # "mkhashed" /\ ~removed => gfid \in {NoDir, dir[Hashed]}
    BY DEF Inv, Led
  <2> QED
    BY <1>1, <1>3, <1>4, <1>10, <2>1 DEF Framed, brick
<1>6. TypedFrames'
  <2>1. ASSUME NEW r \in call' \ call
        PROVE  (r.fop = "mkhashed" => r.brick = Hashed) /\ (r.fop = "mkdir" => r.brick # Hashed)
    <3>1. r.fop = local.pc /\ r.brick \in local.wait
      BY <1>1, <1>4, <2>1, RequestsAre, SMT
    <3> QED
      BY <1>3, <3>1
  <2> QED
    BY <1>2, <1>5, <2>1, FramedTyped DEF Inv
<1>7. Led'
  BY <1>5, FramedLed DEF Inv
<1>8. Linked'
  <2> SUFFICES ASSUME NEW r \in call', r.fop = "mkhashed",
                      op'[r.client].pc = "mkhashed", r.n = op'[r.client].n
               PROVE  r.gfid = op'[r.client].gfid
    BY DEF Linked
  <2>1. op \in [Client -> Local]
    BY DEF Inv, TypedFrames
  <2>2. CASE r \in Requests(c, local)
    <3>1. r.client = c /\ r.gfid = local.gfid
      BY <1>4, <2>2, RequestsAre
    <3> QED
      BY <1>1, <2>1, <3>1
  <2>3. CASE r \in call
    <3>1. r.client \in Client /\ r.n <= nop
      BY <2>3 DEF Inv, TypedFrames, Request
    <3>2. r.client # c
      BY <1>1, <1>2, <1>3, <1>10, <2>1, <2>3, <3>1
    <3>3. op'[r.client] = op[r.client]
      BY <1>1, <2>1, <3>1, <3>2
    <3> QED
      BY <2>3, <3>3 DEF Inv, Linked
  <2> QED
    BY <1>1, <2>2, <2>3
<1>9. TypedBricks' /\ Recorded' /\ \A b \in Brick : (Follows(b) /\ Taken(b))'
  <2>1. \A r \in Requests(c, local) : r.ret = "none"
    BY <1>4, RequestsAre, SMT
  <2>2. \A r : r \in call' /\ r.ret = "0" <=> r \in call /\ r.ret = "0"
    BY <1>1, <2>1
  <2> QED
    BY <1>1, <2>2, SameDue, QuietBricks DEF Inv
<1> QED
  BY <1>6, <1>7, <1>8, <1>9 DEF Inv

-----------------------------------------------------------------------------
(* The operations, and the callbacks of lookup and opendir.                *)

LEMMA MkdirInv ==
  ASSUME Inv, NEW c \in Client, dht_mkdir(c)
  PROVE  Inv'
<1>1. PICK gfid \in Gfid : Begin(c, "mkhashed", {Hashed}, gfid)
  BY DEF dht_mkdir
<1>2. gfid # NoDir /\ {Hashed} \in SUBSET Brick /\ gfid \in Gfid \cup {NoDir}
  BY DirAssumption
<1>3. "mkhashed" # "lookup"
  OBVIOUS
<1> QED
  BY <1>1, <1>2, <1>3, BeginInv

LEMMA LookupInv ==
  ASSUME Inv, NEW c \in Client, dht_lookup_directory(c)
  PROVE  Inv'
<1>1. Begin(c, "lookup", Brick, NoDir)
  BY DEF dht_lookup_directory
<1>2. Brick \in SUBSET Brick /\ NoDir \in Gfid \cup {NoDir}
  OBVIOUS
<1> QED
  BY <1>1, <1>2, BeginInv

LEMMA RmdirInv ==
  ASSUME Inv, NEW c \in Client, dht_rmdir(c)
  PROVE  Inv'
<1>1. PICK b \in Brick : dir[b] # NoDir /\ Begin(c, "opendir", Brick, dir[b])
  BY DEF dht_rmdir
<1>2. Brick \in SUBSET Brick /\ dir[b] \in Gfid \cup {NoDir}
  BY DEF Inv, TypedBricks
<1> QED
  BY <1>1, <1>2, BeginInv

\* next is the frame after the answer err of brick b to a lookup, with gfid.
Finds(local, b, err, gfid, next) ==
  LET found == [Merged(local, b, err) EXCEPT !.gfid = gfid]
  IN  next = IF found.wait = {} THEN dht_selfheal_directory(found) ELSE found

Looks(local, gfid, next) ==
  /\ Sure(next) /\ next.n <= local.n /\ next.pc \in {"idle", "lookup", "heal"}
  /\ next.pc # "idle" => next.gfid = gfid

\* A lookup carries the gfid of a brick that answered with success, and heals
\* only when one did.
LEMMA FoundSure ==
  ASSUME NEW local, Sure(local), local.pc = "lookup", NEW b \in Brick,
         NEW err \in Errno, NEW gfid \in Gfid \cup {NoDir},
         err = "0" => gfid # NoDir, local.gfid # NoDir => gfid # NoDir,
         NEW next, Finds(local, b, err, gfid, next)
  PROVE  Looks(local, gfid, next)
<1> DEFINE merged == Merged(local, b, err)
           found == [merged EXCEPT !.gfid = gfid]
<1>0. next = IF found.wait = {} THEN dht_selfheal_directory(found) ELSE found
  BY DEF Finds
<1>1. local \in Local /\ local.n \in Nat /\ local.err \in [Brick -> Errno]
  BY DEF Sure, Local
<1>2. /\ merged \in Local /\ merged.pc = "lookup" /\ merged.n = local.n
      /\ merged.err = [local.err EXCEPT ![b] = err]
  BY <1>1, MergedLocal, SMT
<1> HIDE DEF merged
<1>3. /\ found \in Local /\ found.pc = "lookup" /\ found.n = local.n
      /\ found.err = [local.err EXCEPT ![b] = err] /\ found.gfid = gfid
  BY <1>2 DEF Local
<1> HIDE DEF found
<1>4. ASSUME NEW a \in Brick, found.err[a] = "0" PROVE found.gfid # NoDir
  <2>1. CASE a = b
    BY <1>1, <1>3, <1>4, <2>1
  <2>2. CASE a # b
    <3>1. local.err[a] = "0"
      BY <1>1, <1>3, <1>4, <2>2
    <3> QED
      BY <1>3, <3>1 DEF Sure
  <2> QED
    BY <2>1, <2>2
<1>5. local.n <= local.n /\ 0 <= local.n
  BY <1>1, SMT
<1>6. CASE next = Idle
  BY <1>5, <1>6, IdleLocal DEF Looks
<1>7. CASE next = found
  <2>1. Sure(found)
    BY <1>3, <1>4 DEF Sure
  <2> QED
    BY <1>3, <1>5, <1>7, <2>1 DEF Looks
<1>8. CASE next = Sends(found, "heal", Answers(found, "ENOENT")) /\ Answers(found, "0") # {}
  <2>1. found.gfid # NoDir
    BY <1>4, <1>8 DEF Answers
  <2>2. Answers(found, "ENOENT") \in SUBSET Brick
    BY DEF Answers
  <2>3. "heal" \in {"lookup", "opendir"} \cup Fop
    BY SMT DEF Fop, MkdirFop, RmdirFop
  <2> DEFINE sent == Sends(found, "heal", Answers(found, "ENOENT"))
  <2>4. sent \in Local /\ sent.pc = "heal" /\ sent.n = found.n /\ sent.gfid = found.gfid
    <3>1. found \in Local
      BY <1>3
    <3> QED
      BY <2>2, <2>3, <3>1, SendsLocal, SMT
  <2> HIDE DEF sent
  <2>5. Sure(sent)
    BY <2>1, <2>4 DEF Sure
  <2>6. next = sent
    BY <1>8 DEF sent
  <2> QED
    BY <1>3, <1>5, <2>4, <2>5, <2>6 DEF Looks
<1> QED
  BY <1>0, <1>6, <1>7, <1>8 DEF dht_selfheal_directory

LEMMA LookupCbkInv ==
  ASSUME Inv, NEW c \in Client, NEW b \in Brick, dht_lookup_dir_cbk(c, b)
  PROVE  Inv'
<1>1. /\ op[c] \in Local /\ Sure(op[c]) /\ op[c].pc = "lookup" /\ op[c].n <= nop
      /\ op[c].n \in Nat /\ nop \in Nat /\ op[c].gfid \in Gfid \cup {NoDir}
      /\ dir[b] \in Gfid \cup {NoDir} /\ UNCHANGED <<brick, nop, healed, removed>>
  BY DEF dht_lookup_dir_cbk, At, Inv, TypedBricks, TypedFrames, Local
<1>2. ~removed => {dir[b], op[c].gfid} \subseteq {NoDir, dir[Hashed]}
  BY <1>1 DEF Inv, Led
<1>3. ASSUME NEW err \in Errno, NEW gfid \in {op[c].gfid, dir[b]},
             err = "0" => gfid # NoDir, op[c].gfid # NoDir => gfid # NoDir,
             NEW next, Finds(op[c], b, err, gfid, next), Continue(c, next, call)
      PROVE  Inv'
  <2>1. gfid \in Gfid \cup {NoDir}
    BY <1>1
  <2>2. /\ Sure(next) /\ next.n <= op[c].n /\ next.pc \in {"idle", "lookup", "heal"}
        /\ next.pc # "idle" => next.gfid = gfid
    <3>1. Looks(op[c], gfid, next)
      BY <1>1, <1>3, <2>1, FoundSure
    <3> QED
      BY <3>1 DEF Looks
  <2>3. next.n \in Nat
    BY <2>2 DEF Sure, Local
  <2>4. next.n <= nop
    BY <1>1, <2>2, <2>3, SMT
  <2>5. next.pc # "idle" /\ ~removed => next.gfid \in {NoDir, dir[Hashed]}
    BY <1>2, <2>2
  <2>6. next.pc # "mkhashed" /\ next.pc # "mkdir"
    BY <2>2
  <2>7. call \subseteq call /\ \A r \in call \ call : r.ret # "0"
    OBVIOUS
  <2> QED
    BY <1>1, <1>3, <2>2, <2>4, <2>5, <2>6, <2>7, ContinueInv
<1>4. CASE \E gfid \in IF op[c].gfid = NoDir THEN {dir[b]}
                       ELSE {op[c].gfid, dir[b]} \ {NoDir} :
             LET found == [Merged(op[c], b, FindErrno(b)) EXCEPT !.gfid = gfid]
             IN  /\ Continue(c, IF found.wait = {}
                                THEN dht_selfheal_directory(found) ELSE found,
                             call)
                 /\ UNCHANGED faults
  <2>1. PICK gfid \in IF op[c].gfid = NoDir THEN {dir[b]}
                      ELSE {op[c].gfid, dir[b]} \ {NoDir} :
             LET found == [Merged(op[c], b, FindErrno(b)) EXCEPT !.gfid = gfid]
             IN  /\ Continue(c, IF found.wait = {}
                                THEN dht_selfheal_directory(found) ELSE found,
                             call)
                 /\ UNCHANGED faults
    BY <1>4
  <2>2. /\ FindErrno(b) \in Errno /\ (FindErrno(b) = "0" => dir[b] # NoDir)
    BY DEF FindErrno, Errno
  <2>3. /\ gfid \in {op[c].gfid, dir[b]} /\ (op[c].gfid # NoDir => gfid # NoDir)
        /\ FindErrno(b) = "0" => gfid # NoDir
    BY <2>1, <2>2
  <2> QED
    BY <1>3, <2>1, <2>2, <2>3 DEF Finds
<1>5. CASE LET found == Merged(op[c], b, "ENOTCONN")
           IN  /\ Continue(c, IF found.wait = {}
                              THEN dht_selfheal_directory(found) ELSE found, call)
               /\ Breaks
  <2>1. Merged(op[c], b, "ENOTCONN")
          = [Merged(op[c], b, "ENOTCONN") EXCEPT !.gfid = op[c].gfid]
    <3>1. "ENOTCONN" \in Errno
      BY DEF Errno
    <3> DEFINE merged == Merged(op[c], b, "ENOTCONN")
    <3>2. merged \in Local /\ merged.gfid = op[c].gfid
      BY <1>1, <3>1, MergedLocal
    <3> HIDE DEF merged
    <3>3. merged = [merged EXCEPT !.gfid = op[c].gfid]
      BY <3>2, SMT DEF Local
    <3> QED
      BY <3>3 DEF merged
  <2>2. "ENOTCONN" \in Errno /\ "ENOTCONN" # "0"
    BY DEF Errno
  <2> QED
    BY <1>3, <1>5, <2>1, <2>2 DEF Finds
<1> QED
  BY <1>4, <1>5 DEF dht_lookup_dir_cbk

\* An unreachable brick ends the rmdir; otherwise it turns to the other bricks.
LEMMA OpendirInv ==
  ASSUME Inv, NEW c \in Client, NEW b \in Brick, dht_rmdir_opendir_cbk(c, b)
  PROVE  Inv'
<1>1. /\ op[c] \in Local /\ op[c].pc = "opendir" /\ op[c].gfid # NoDir
      /\ op[c].n <= nop /\ op[c].n \in Nat /\ nop \in Nat
      /\ UNCHANGED <<brick, nop, healed, removed>>
  BY DEF dht_rmdir_opendir_cbk, At, Inv, TypedFrames, Sure, Local
<1>2. PICK merged \in {Counted(op[c], b), Merged(op[c], b, "ENOTCONN")} :
        Continue(c, CASE merged.wait # {} -> merged
                      [] merged.wait = {}
                         /\ Answers(merged, "ENOTCONN") # {} -> Idle
                      [] OTHER -> Sends(merged, "rmdir", Others),
                 call)
  BY DEF dht_rmdir_opendir_cbk
<1> DEFINE next == CASE merged.wait # {} -> merged
                     [] merged.wait = {} /\ Answers(merged, "ENOTCONN") # {} -> Idle
                     [] OTHER -> Sends(merged, "rmdir", Others)
<1>3. "ENOTCONN" \in Errno
  BY DEF Errno
<1>4. /\ merged \in Local /\ merged.pc = "opendir" /\ merged.gfid = op[c].gfid
      /\ merged.n = op[c].n
  <2>1. CASE merged = Counted(op[c], b)
    BY <1>1, <2>1, CountedLocal
  <2>2. CASE merged = Merged(op[c], b, "ENOTCONN")
    BY <1>1, <1>3, <2>2, MergedLocal
  <2> QED
    BY <2>1, <2>2
<1>5. Continue(c, next, call)
  BY <1>2
<1>6. next \in {merged, Idle, Sends(merged, "rmdir", Others)}
  OBVIOUS
<1> HIDE DEF next
<1>7. 0 <= nop
  BY <1>1, SMT
<1>8. /\ Sure(next) /\ next.n <= nop /\ next.pc \in {"idle", "opendir", "rmdir"}
      /\ next.pc # "idle" => next.gfid = op[c].gfid
  <2>1. CASE next = Idle
    BY <1>7, <2>1, IdleLocal
  <2>2. CASE next = merged
    <3>1. Sure(merged)
      BY <1>1, <1>4 DEF Sure
    <3> QED
      BY <1>1, <1>4, <2>2, <3>1
  <2>3. CASE next = Sends(merged, "rmdir", Others)
    <3>1. Others \in SUBSET Brick /\ "rmdir" \in {"lookup", "opendir"} \cup Fop
      BY SMT DEF Others, Fop, MkdirFop, RmdirFop
    <3>2. next \in Local /\ next.pc = "rmdir" /\ next.gfid = op[c].gfid /\ next.n = op[c].n
      BY <1>4, <2>3, <3>1, SendsLocal, SMT
    <3>3. Sure(next)
      BY <1>1, <3>2 DEF Sure
    <3> QED
      BY <1>1, <3>2, <3>3
  <2> QED
    BY <1>6, <2>1, <2>2, <2>3
<1>9. next.pc # "idle" /\ ~removed => next.gfid \in {NoDir, dir[Hashed]}
  BY <1>1, <1>8 DEF Inv, Led
<1>10. next.pc # "mkhashed" /\ next.pc # "mkdir"
  BY <1>8
<1>11. call \subseteq call /\ \A r \in call \ call : r.ret # "0"
  OBVIOUS
<1> QED
  BY <1>1, <1>5, <1>8, <1>9, <1>10, <1>11, ContinueInv

-----------------------------------------------------------------------------
(* A connection breaks.                                                    *)

\* The frame that waits for r after the callback.
LEMMA AwaitsGoes ==
  ASSUME Inv, NEW r \in call, Awaits(r), NEW err,
         NEW next, next = Callback(op[r.client], r.brick, err)
  PROVE  /\ r.client \in Client /\ Sure(next) /\ next.n <= nop /\ next.pc # "mkhashed"
         /\ next.pc = "mkdir" /\ op[r.client].pc # "mkdir" => next.wait \subseteq Others
         /\ next.pc # "idle" /\ ~removed /\ (err = "0" => r.ret = "0") =>
              next.gfid \in {NoDir, dir[Hashed]}
<1> DEFINE local == op[r.client]
<1>1. /\ r.client \in Client /\ r.brick \in Brick /\ r.fop \in Fop
      /\ r.fop = local.pc /\ r.n = local.n
  BY DEF Inv, TypedFrames, Request, Awaits
<1>2. Sure(local) /\ local \in Local /\ local.n <= nop /\ local.n \in Nat /\ nop \in Nat
  BY <1>1 DEF Inv, TypedFrames, Local
<1>3. Goes(local, next, err)
  BY <1>1, <1>2, CallbackGoes
<1>4. next.n \in Nat /\ next.n <= local.n
  BY <1>3 DEF Goes, Sure, Local
<1>5. next.n <= nop
  BY <1>2, <1>4, SMT
<1>6. ASSUME next.pc # "idle", ~removed, err = "0" => r.ret = "0"
      PROVE  next.gfid \in {NoDir, dir[Hashed]}
  <2>1. next.gfid = local.gfid
    BY <1>3, <1>6 DEF Goes
  <2>2. CASE local.pc = "mkhashed"
    <3>1. r.ret = "0" /\ r.fop = "mkhashed"
      BY <1>1, <1>3, <1>6, <2>2 DEF Goes
    <3>2. r.gfid = dir[Hashed]
      BY <1>6, <3>1 DEF Inv, Led
    <3>3. r.gfid = local.gfid
      BY <1>1, <2>2, <3>1 DEF Inv, Linked
    <3> QED
      BY <2>1, <3>2, <3>3
  <2>3. CASE local.pc # "mkhashed"
    <3>1. local.pc # "idle"
      BY <1>1 DEF Fop, MkdirFop, RmdirFop
    <3> QED
      BY <1>1, <1>6, <2>1, <2>3, <3>1 DEF Inv, Led
  <2> QED
    BY <2>2, <2>3
<1>7. /\ Sure(next) /\ next.pc # "mkhashed"
      /\ next.pc = "mkdir" /\ local.pc # "mkdir" => next.wait \subseteq Others
  BY <1>3 DEF Goes
<1> QED
  BY <1>1, <1>5, <1>6, <1>7

LEMMA DisconnectInv ==
  ASSUME Inv, NEW r \in call, Disconnect(r)
  PROVE  Inv'
<1> DEFINE next == Callback(op[r.client], r.brick, "ENOTCONN")
<1>1. PICK rest \in {call} \cup (IF r.ret = "none" THEN {call \ {r}} ELSE {}) :
        Continue(r.client, next, rest)
  BY DEF Disconnect
<1>2. Awaits(r) /\ UNCHANGED <<brick, nop, healed, removed>>
  BY DEF Disconnect
<1>3. /\ r.client \in Client /\ Sure(next) /\ next.n <= nop /\ next.pc # "mkhashed"
      /\ next.pc = "mkdir" /\ op[r.client].pc # "mkdir" => next.wait \subseteq Others
      /\ next.pc # "idle" /\ ~removed /\ ("ENOTCONN" = "0" => r.ret = "0") =>
           next.gfid \in {NoDir, dir[Hashed]}
  BY <1>2, AwaitsGoes
<1> HIDE DEF next
<1>4. rest \subseteq call /\ \A s \in call \ rest : s.ret # "0"
  BY <1>1
<1>5. next.pc # "idle" /\ ~removed => next.gfid \in {NoDir, dir[Hashed]}
  BY <1>3
<1> QED
  BY <1>1, <1>2, <1>3, <1>4, <1>5, ContinueInv

-----------------------------------------------------------------------------
(* The callbacks of a request.                                             *)

\* A task is put behind the others for the request whose callback is due.
LEMMA PutFollows ==
  ASSUME Inv, NEW r \in call, r.ret = "0", Indexed(r), NEW b, b = r.brick,
         NEW task, queue' = [queue EXCEPT ![b] = Append(@, task)],
         r.fop \in MkdirFop => task = r.gfid, r.fop \in RmdirFop => task = NoDir,
         UNCHANGED <<dir, idx, known, raced, again>>,
         \A s : s \in call' /\ s.ret = "0" <=> s \in call /\ s # r /\ s.ret = "0"
  PROVE  Follows(b)' /\ Taken(b)'
<1> DEFINE q == queue[b]
<1>1. /\ b \in Brick /\ r.gfid \in Gfid /\ r.fop \in MkdirFop \cup RmdirFop
      /\ Follows(b) /\ Taken(b)
  BY DEF Inv, TypedFrames, Request, Fop
<1>2. q \in Seq(Gfid \cup {NoDir}) /\ queue'[b] = Append(q, task) /\ Len(q) \in Nat
  <2>1. q \in Seq(Gfid \cup {NoDir}) /\ queue'[b] = Append(q, task)
    BY <1>1 DEF Inv, TypedBricks
  <2> QED
    BY <2>1, SMT
<1>3. /\ Len(queue'[b]) = Len(q) + 1
      /\ \A i \in 1..Len(q) : queue'[b][i] = q[i]
      /\ queue'[b][Len(q) + 1] = task
  BY <1>2, SMT
<1>4. Last(b)' = task
  <2>1. (Len(q) + 1) + 1 # 1 /\ ((Len(q) + 1) + 1) - 1 = Len(q) + 1
    BY <1>2, SMT
  <2> QED
    BY <1>3, <2>1 DEF Last, Before
<1>5. ASSUME NEW i \in 1..(Len(q) + 1) PROVE Before(b, i)' = Before(b, i)
  <2>1. i # 1 => i - 1 \in 1..Len(q)
    BY <1>2, <1>5, SMT
  <2> QED
    BY <1>3, <2>1 DEF Before
<1>6. Last(b) = Before(b, Len(q) + 1)
  BY DEF Last
<1> SUFFICES ASSUME ~raced[b] PROVE Follows(b)' /\ Taken(b)'
  BY DEF Follows, Taken
<1>7. Due(b) = {r} /\ Due(b)' = {}
  <2>1. r \in Due(b)
    BY DEF Due
  <2>2. \A s \in Due(b) : s = r
    BY <1>1, <2>1 DEF Follows
  <2>3. ASSUME NEW s \in Due(b)' PROVE FALSE
    <3>1. s \in call /\ s # r /\ s.ret = "0" /\ s.brick = b /\ Indexed(s)
      BY <2>3 DEF Due, Indexed
    <3>2. s \in Due(b)
      BY <3>1 DEF Due
    <3> QED
      BY <2>2, <3>1, <3>2
  <2> QED
    BY <2>1, <2>2, <2>3
<1>8. task # NoDir => task = dir[b] /\ Last(b) = NoDir
  BY <1>1, <1>7 DEF Follows
<1>9. Follows(b)'
  <2>1. ASSUME NEW i \in 1..Len(queue'[b]), queue'[b][i] # NoDir PROVE Before(b, i)' = NoDir
    <3>1. i \in 1..(Len(q) + 1)
      BY <1>3, <2>1
    <3>2. CASE i = Len(q) + 1
      BY <1>3, <1>5, <1>6, <1>8, <2>1, <3>1, <3>2
    <3>3. CASE i # Len(q) + 1
      <4>1. i \in 1..Len(q)
        BY <1>2, <3>1, <3>3, SMT
      <4>2. q[i] # NoDir
        BY <1>3, <2>1, <4>1
      <4> QED
        BY <1>1, <1>5, <3>1, <4>1, <4>2 DEF Follows
    <3> QED
      BY <3>2, <3>3
  <2>2. task \in {NoDir, dir[b]}
    BY <1>8
  <2> QED
    BY <1>4, <1>7, <2>1, <2>2 DEF Follows
<1>10. Taken(b)'
  <2> SUFFICES ASSUME b = Hashed, ~again[b], dir[b] # NoDir PROVE Taken(b)'
    BY DEF Taken
  <2>1. /\ \A i \in 1..(Len(q) - 1) : q[i] # dir[b]
        /\ dir[b] \notin known[b] /\ Last(b) # dir[b]
    BY <1>1, <1>7 DEF Taken
  <2>2. r.fop \in MkdirFop
    BY <1>1, <1>7 DEF Follows
  <2>3. task = dir[b]
    BY <1>1, <1>7, <2>2 DEF Follows
  <2>4. ASSUME NEW i \in 1..(Len(queue'[b]) - 1) PROVE queue'[b][i] # dir[b]
    <3>1. i \in 1..Len(q)
      BY <1>2, <1>3, <2>4, SMT
    <3>2. CASE i \in 1..(Len(q) - 1)
      BY <1>3, <2>1, <3>1, <3>2
    <3>3. CASE i \notin 1..(Len(q) - 1)
      <4>1. i = Len(q) /\ Len(q) + 1 # 1 /\ (Len(q) + 1) - 1 = i
        BY <1>2, <3>1, <3>3, SMT
      <4>2. Last(b) = q[i]
        BY <4>1 DEF Last, Before
      <4> QED
        BY <1>3, <2>1, <3>1, <4>2
    <3> QED
      BY <3>2, <3>3
  <2> QED
    BY <1>4, <1>7, <2>1, <2>3, <2>4 DEF Taken
<1> QED
  BY <1>9, <1>10

\* The task is NoDir, or the brick is the hashed one, or it is a self-heal's.
LEMMA PutRecorded ==
  ASSUME Inv, NEW r \in call, r.ret = "0", Indexed(r),
         NEW task \in Gfid \cup {NoDir},
         queue' = [queue EXCEPT ![r.brick] = Append(@, task)],
         r.fop \in RmdirFop => task = NoDir,
         UNCHANGED <<dir, idx, known, raced, again, healed>>,
         \A s \in call' : s.ret = "0" => s \in call
  PROVE  TypedBricks' /\ Recorded'
<1>1. /\ r.brick \in Brick /\ r.fop \in MkdirFop \cup RmdirFop
      /\ r.fop = "mkhashed" => r.brick = Hashed
      /\ queue \in [Brick -> Seq(Gfid \cup {NoDir})]
  BY DEF Inv, TypedBricks, TypedFrames, Request, Fop
<1>2. /\ queue[r.brick] \in Seq(Gfid \cup {NoDir})
      /\ Append(queue[r.brick], task) \in Seq(Gfid \cup {NoDir})
  BY <1>1, SMT
<1>3. TypedBricks'
  BY <1>1, <1>2 DEF Inv, TypedBricks
<1>4. Recorded'
  <2> SUFFICES ASSUME ~healed PROVE Recorded'
    BY SMT DEF Recorded
  <2>1. \A s \in call' : s.ret = "0" => s.fop # "heal"
    BY DEF Inv, Recorded
  <2>2. ASSUME NEW b \in Others, NEW i \in 1..Len(queue'[b]) PROVE queue'[b][i] = NoDir
    <3>1. b \in Brick /\ \A j \in 1..Len(queue[b]) : queue[b][j] = NoDir
      BY DEF Inv, Recorded, Others
    <3>2. CASE b # r.brick
      BY <1>1, <2>2, <3>1, <3>2
    <3>3. CASE b = r.brick
      <4>1. r.fop \in RmdirFop
        <5>1. r.fop # "heal"
          BY DEF Inv, Recorded
        <5>2. r.fop # "mkhashed"
          BY <1>1, <2>2, <3>3 DEF Others
        <5>3. r.fop # "mkdir"
          <6>1. "mkdir" \notin RmdirFop /\ Mark("mkdir") = "0"
            BY SMT DEF RmdirFop, Mark
          <6> QED
            BY <6>1 DEF Indexed
        <5> QED
          BY <1>1, <5>1, <5>2, <5>3 DEF MkdirFop
      <4>2. task = NoDir /\ queue'[b] = Append(queue[b], task)
        BY <1>1, <3>1, <3>3, <4>1
      <4>3. queue[b] \in Seq(Gfid \cup {NoDir})
        BY <1>1, <3>1
      <4> QED
        BY <2>2, <3>1, <4>2, <4>3, SMT
    <3> QED
      BY <3>2, <3>3
  <2>3. \A b \in Others : idx'[b] = NoDir
    BY DEF Inv, Recorded
  <2> QED
    BY <2>1, <2>2, <2>3 DEF Recorded
<1> QED
  BY <1>3, <1>4

\* What imess-server's callback does to the bricks.
LEMMA UnwindBricks ==
  ASSUME Inv, NEW r \in call, r.ret # "none",
         \/ r.fop \in MkdirFop /\ ims_mkdir_cbk(r)
         \/ r.fop \in RmdirFop /\ ims_rmdir_cbk(r),
         UNCHANGED <<dir, idx, known, raced, again, healed>>,
         \A s : s \in call' /\ s.ret = "0" <=> s \in call /\ s # r /\ s.ret = "0"
  PROVE  TypedBricks' /\ Recorded' /\ \A b \in Brick : (Follows(b) /\ Taken(b))'
<1>1. \A s \in call' : s.ret = "0" => s \in call
  OBVIOUS
<1>2. r.brick \in Brick /\ r.gfid \in Gfid /\ MkdirFop \cap RmdirFop = {}
  BY DEF Inv, TypedFrames, Request, MkdirFop, RmdirFop
<1>3. CASE UNCHANGED queue /\ ~(r.ret = "0" /\ Indexed(r))
  <2>1. ASSUME NEW b \in Brick PROVE Due(b)' = Due(b)
    BY <1>3 DEF Due, Indexed
  <2>2. UNCHANGED <<brick, healed>>
    BY <1>3 DEF brick
  <2> QED
    BY <1>1, <2>1, <2>2, QuietBricks DEF Inv
<1>4. ASSUME r.ret = "0", Indexed(r), NEW task \in Gfid \cup {NoDir},
             queue' = [queue EXCEPT ![r.brick] = Append(@, task)],
             r.fop \in MkdirFop => task = r.gfid, r.fop \in RmdirFop => task = NoDir
      PROVE  TypedBricks' /\ Recorded' /\ \A b \in Brick : (Follows(b) /\ Taken(b))'
  <2>1. TypedBricks' /\ Recorded'
    BY <1>1, <1>4, PutRecorded
  <2>2. ASSUME NEW b \in Brick PROVE (Follows(b) /\ Taken(b))'
    <3>1. CASE b = r.brick
      BY <1>4, <3>1, PutFollows
    <3>2. CASE b # r.brick
      <4>1. Due(b)' = Due(b)
        BY <3>2 DEF Due, Indexed
      <4>2. queue'[b] = queue[b]
        BY <1>4, <2>2, <3>2 DEF Inv, TypedBricks
      <4>3. Follows(b) /\ Taken(b)
        BY DEF Inv
      <4> QED
        BY <4>1, <4>2, <4>3, QuietBrick
    <3> QED
      BY <3>1, <3>2
  <2> QED
    BY <2>1, <2>2
<1>5. CASE r.fop \in MkdirFop /\ ims_mkdir_cbk(r)
  <2>1. Indexed(r) <=> Mark(r.fop) # "0"
    BY <1>2, <1>5 DEF Indexed
  <2>2. CASE r.ret = "0" /\ Mark(r.fop) # "0"
    <3>1. queue' = [queue EXCEPT ![r.brick] = Append(@, r.gfid)]
      BY <1>5, <2>2 DEF ims_mkdir_cbk, ims_async_put_task
    <3>2. r.fop \notin RmdirFop /\ r.gfid \in Gfid \cup {NoDir}
      BY <1>2, <1>5
    <3> QED
      BY <1>4, <2>1, <2>2, <3>1, <3>2
  <2>3. CASE ~(r.ret = "0" /\ Mark(r.fop) # "0")
    BY <1>3, <1>5, <2>1, <2>3 DEF ims_mkdir_cbk
  <2> QED
    BY <2>2, <2>3
<1>6. CASE r.fop \in RmdirFop /\ ims_rmdir_cbk(r)
  <2>1. Indexed(r)
    BY <1>6 DEF Indexed
  <2>2. CASE r.ret = "0"
    <3>1. queue' = [queue EXCEPT ![r.brick] = Append(@, NoDir)]
      BY <1>6, <2>2 DEF ims_rmdir_cbk, ims_async_put_task
    <3>2. r.fop \notin MkdirFop /\ NoDir \in Gfid \cup {NoDir}
      BY <1>2, <1>6
    <3> QED
      BY <1>4, <2>1, <2>2, <3>1, <3>2
  <2>3. CASE r.ret # "0"
    BY <1>3, <1>6, <2>3 DEF ims_rmdir_cbk
  <2> QED
    BY <2>2, <2>3
<1> QED
  BY <1>5, <1>6

LEMMA UnwindInv ==
  ASSUME Inv, NEW r \in call, Unwind(r)
  PROVE  Inv'
<1>1. /\ r.ret # "none" /\ UNCHANGED <<dir, idx, known, raced, again, nop, healed, removed>>
      /\ \/ r.fop \in MkdirFop /\ ims_mkdir_cbk(r)
         \/ r.fop \in RmdirFop /\ ims_rmdir_cbk(r)
  BY DEF Unwind
<1>2. nop' \in Nat /\ nop <= nop'
  BY <1>1, SMT DEF Inv, TypedFrames
<1>3. CASE /\ Awaits(r)
           /\ Continue(r.client, Callback(op[r.client], r.brick, r.ret), call \ {r})
  <2> DEFINE next == Callback(op[r.client], r.brick, r.ret)
             c == r.client
  <2>1. /\ c \in Client /\ Sure(next) /\ next.n <= nop /\ next.pc # "mkhashed"
        /\ next.pc = "mkdir" /\ op[c].pc # "mkdir" => next.wait \subseteq Others
        /\ next.pc # "idle" /\ ~removed => next.gfid \in {NoDir, dir[Hashed]}
    BY <1>3, AwaitsGoes
  <2>2. Continue(c, next, call \ {r})
    BY <1>3
  <2> HIDE DEF next, c
  <2>3. \A s \in call' : s \in call \ {r} \/ (s \in Requests(c, next) /\ next.pc # op[c].pc)
    BY <2>2 DEF Continue
  <2>4. call \ {r} \subseteq call'
    BY <2>2 DEF Continue
  <2>5. Framed(c, next)
    BY <1>1, <2>1, <2>2, <2>3 DEF Framed, Continue
  <2>6. ASSUME NEW s \in call' \ call
        PROVE  (s.fop = "mkhashed" => s.brick = Hashed) /\ (s.fop = "mkdir" => s.brick # Hashed)
    <3>1. s \in Requests(c, next) /\ next.pc # op[c].pc
      BY <2>3, <2>6
    <3>2. s.fop = next.pc /\ s.brick \in next.wait
      BY <2>1, <3>1, RequestsAre, SMT
    <3> QED
      BY <2>1, <3>1, <3>2 DEF Others
  <2>7. TypedFrames' /\ Led' /\ Linked'
    BY <1>2, <2>1, <2>5, <2>6, FramedTyped, FramedLed, FramedLinked DEF Inv
  <2>8. \A s : s \in call' /\ s.ret = "0" <=> s \in call /\ s # r /\ s.ret = "0"
    <3>1. \A s \in Requests(c, next) : s.ret = "none"
      BY <2>1, RequestsAre, SMT
    <3> QED
      BY <2>3, <2>4, <3>1
  <2>9. TypedBricks' /\ Recorded' /\ \A b \in Brick : (Follows(b) /\ Taken(b))'
    BY <1>1, <2>8, UnwindBricks
  <2> QED
    BY <2>7, <2>9 DEF Inv
<1>4. CASE call' = call \ {r} /\ UNCHANGED op
  <2>1. TypedFrames'
    BY <1>1, <1>2, <1>4 DEF Inv, TypedFrames, Sure
  <2>2. Linked'
    BY <1>4 DEF Inv, Linked
  <2>3. Led'
    BY <1>1, <1>4 DEF Inv, Led
  <2>4. \A s : s \in call' /\ s.ret = "0" <=> s \in call /\ s # r /\ s.ret = "0"
    BY <1>4
  <2>5. TypedBricks' /\ Recorded' /\ \A b \in Brick : (Follows(b) /\ Taken(b))'
    BY <1>1, <2>4, UnwindBricks
  <2> QED
    BY <2>1, <2>2, <2>3, <2>5 DEF Inv
<1> QED
  BY <1>3, <1>4 DEF Unwind

-----------------------------------------------------------------------------
(* A request is carried out or refused.                                    *)

\* The request with its answer.
Answered(r, ret) == [r EXCEPT !.ret = ret]

LEMMA AnsweredIs ==
  ASSUME Inv, NEW r \in call, NEW ret \in {"none", "0", "EEXIST", "ENOENT"}
  PROVE  /\ Answered(r, ret) \in Request /\ Answered(r, ret).ret = ret
         /\ Answered(r, ret).client = r.client /\ Answered(r, ret).n = r.n
         /\ Answered(r, ret).brick = r.brick /\ Answered(r, ret).fop = r.fop
         /\ Answered(r, ret).gfid = r.gfid
<1>1. r \in Request
  BY DEF Inv, TypedFrames
<1> QED
  BY <1>1 DEF Answered, Request

LEMMA AnswerFrames ==
  ASSUME Inv, NEW r \in call, NEW ret \in {"none", "0", "EEXIST", "ENOENT"},
         Answer(r, ret), UNCHANGED <<op, nop>>, healed' \in BOOLEAN, removed' \in BOOLEAN
  PROVE  TypedFrames' /\ Linked'
<1> DEFINE a == Answered(r, ret)
<1>1. /\ a \in Request /\ a.client = r.client /\ a.n = r.n /\ a.brick = r.brick
      /\ a.fop = r.fop /\ a.gfid = r.gfid
  BY AnsweredIs
<1>2. call' = (call \ {r}) \cup {a}
  BY DEF Answer, Answered
<1> HIDE DEF a
<1>3. TypedFrames'
  BY <1>1, <1>2 DEF Inv, TypedFrames, Sure
<1>4. Linked'
  BY <1>1, <1>2 DEF Inv, Linked
<1> QED
  BY <1>3, <1>4

\* The callbacks due when a request is carried out, and when it is refused.
LEMMA AnswerDue ==
  ASSUME Inv, NEW r \in call, r.ret = "none", NEW ret \in {"0", "EEXIST", "ENOENT"},
         Answer(r, ret), NEW b \in Brick
  PROVE  Due(b)' = IF b = r.brick /\ ret = "0" /\ Indexed(r)
                   THEN Due(b) \cup {Answered(r, "0")} ELSE Due(b)
<1> DEFINE a == Answered(r, ret)
<1>1. a.ret = ret /\ a.brick = r.brick /\ a.fop = r.fop
  BY AnsweredIs
<1>2. call' = (call \ {r}) \cup {a}
  BY DEF Answer, Answered
<1>3. ret = "0" => a = Answered(r, "0")
  OBVIOUS
<1> HIDE DEF a
<1>4. Due(b)' = {s \in (call \ {r}) \cup {a} : s.brick = b /\ s.ret = "0" /\ Indexed(s)}
  BY <1>2 DEF Due, Indexed
<1>5. Indexed(a) <=> Indexed(r)
  BY <1>1 DEF Indexed
<1>6. r \notin Due(b)
  BY DEF Due
<1>7. CASE b = r.brick /\ ret = "0" /\ Indexed(r)
  BY <1>1, <1>3, <1>4, <1>5, <1>6, <1>7 DEF Due
<1>8. CASE ~(b = r.brick /\ ret = "0" /\ Indexed(r))
  BY <1>1, <1>4, <1>5, <1>6, <1>8 DEF Due
<1> QED
  BY <1>7, <1>8

LEMMA RefusedInv ==
  ASSUME Inv, NEW r \in call, r.ret = "none", NEW ret \in {"EEXIST", "ENOENT"},
         Answer(r, ret), UNCHANGED <<brick, op, nop, healed, removed>>
  PROVE  Inv'
<1>1. ret \in {"none", "0", "EEXIST", "ENOENT"} /\ ret \in {"0", "EEXIST", "ENOENT"} /\ ret # "0"
  OBVIOUS
<1>2. TypedFrames' /\ Linked'
  BY <1>1, AnswerFrames DEF Inv, TypedFrames
<1>3. \A b \in Brick : Due(b)' = Due(b)
  BY <1>1, AnswerDue
<1> DEFINE a == Answered(r, ret)
<1>4. a.ret = ret /\ a.fop = r.fop /\ a.gfid = r.gfid
  BY <1>1, AnsweredIs
<1>5. call' = (call \ {r}) \cup {a}
  BY DEF Answer, Answered
<1> HIDE DEF a
<1>6. \A s \in call' : s.ret = "0" => s \in call
  BY <1>1, <1>4, <1>5
<1>7. Led'
  BY <1>1, <1>4, <1>5 DEF Inv, Led, brick
<1>8. TypedBricks' /\ Recorded' /\ \A b \in Brick : (Follows(b) /\ Taken(b))'
  BY <1>3, <1>6, QuietBricks DEF Inv
<1> QED
  BY <1>2, <1>7, <1>8 DEF Inv

\* No two callbacks pass each other as long as none is due when the next
\* request is carried out.
LEMMA RacesDue ==
  ASSUME NEW r \in call, Indexed(r), ~Races(r)
  PROVE  Due(r.brick) = {}
BY DEF Races, Due

\* Another brick than that of the request.
LEMMA ElsewhereFollows ==
  ASSUME Inv, NEW r \in call, r.ret = "none", Answer(r, "0"), NEW b \in Brick, b # r.brick,
         UNCHANGED <<idx, known, queue>>, dir'[b] = dir[b], raced'[b] = raced[b],
         again'[b] = again[b]
  PROVE  Follows(b)' /\ Taken(b)'
<1>1. Due(b)' = Due(b)
  BY AnswerDue
<1>2. Follows(b) /\ Taken(b)
  BY DEF Inv
<1> QED
  BY <1>1, <1>2, QuietBrick

\* The directory is created on the brick of the request.
LEMMA CreatedFollows ==
  ASSUME Inv, NEW r \in call, r.ret = "none", r.fop \in MkdirFop, Answer(r, "0"),
         NEW b \in Brick, b = r.brick, dir[b] = NoDir, dir'[b] = r.gfid,
         UNCHANGED <<idx, known, queue>>,
         raced'[b] = (raced[b] \/ Races(r)), again'[b] = Comes(r)
  PROVE  Follows(b)' /\ Taken(b)'
<1>1. r.gfid \in Gfid /\ r.gfid # NoDir /\ Follows(b) /\ (r.fop = "mkdir" => b # Hashed)
  BY DirAssumption DEF Inv, TypedFrames, Request
<1>2. Last(b)' = Last(b) /\ \A i : Before(b, i)' = Before(b, i)
  BY DEF Last, Before
<1>3. \A s \in Due(b) : s.gfid \in Gfid /\ s.gfid # NoDir
  BY DirAssumption DEF Due, Inv, TypedFrames, Request
<1> SUFFICES ASSUME ~raced'[b] PROVE Follows(b)' /\ Taken(b)'
  BY DEF Follows, Taken
<1>4. ~raced[b] /\ ~Races(r)
  OBVIOUS
<1>5. CASE Indexed(r)
  <2>1. Due(b) = {}
    BY <1>4, <1>5, RacesDue
  <2>2. Due(b)' = {Answered(r, "0")}
    BY <1>5, <2>1, AnswerDue
  <2>3. Last(b) = NoDir
    BY <1>1, <1>4, <2>1 DEF Follows
  <2>4. Answered(r, "0").gfid = r.gfid /\ Answered(r, "0").fop = r.fop
    BY AnsweredIs
  <2>5. r.fop \notin RmdirFop
    BY DEF MkdirFop, RmdirFop
  <2>6. Follows(b)'
    BY <1>1, <1>2, <1>4, <2>2, <2>3, <2>4, <2>5 DEF Follows
  <2>7. ASSUME ~again'[b]
        PROVE  r.gfid \notin known[b] /\ \A i \in 1..Len(queue[b]) : queue[b][i] # r.gfid
    BY <2>7 DEF Comes
  <2>8. queue[b] \in Seq(Gfid \cup {NoDir})
    BY DEF Inv, TypedBricks
  <2>9. 1..(Len(queue[b]) - 1) \subseteq 1..Len(queue[b])
    BY <2>8, SMT
  <2>10. Taken(b)'
    BY <1>1, <1>2, <2>2, <2>3, <2>7, <2>9 DEF Taken
  <2> QED
    BY <2>6, <2>10
<1>6. CASE ~Indexed(r)
  <2>1. Due(b)' = Due(b)
    BY <1>6, AnswerDue
  <2>2. r.fop = "mkdir"
    <3>1. Mark("mkhashed") # "0" /\ Mark("heal") # "0"
      BY SMT DEF Mark
    <3> QED
      BY <1>6, <3>1 DEF Indexed, MkdirFop
  <2>3. \A s \in Due(b) : s.fop \notin MkdirFop
    BY <1>1, <1>3, <1>4 DEF Follows
  <2>4. Due(b) = {} => Last(b) = NoDir
    BY <1>1, <1>4 DEF Follows
  <2>5. Follows(b)'
    BY <1>1, <1>2, <1>4, <2>1, <2>2, <2>3, <2>4 DEF Follows
  <2>6. Taken(b)'
    BY <1>1, <2>2 DEF Taken
  <2> QED
    BY <2>5, <2>6
<1> QED
  BY <1>5, <1>6

\* The directory is removed from the brick of the request.
LEMMA RemovedFollows ==
  ASSUME Inv, NEW r \in call, r.ret = "none", r.fop \in RmdirFop, Answer(r, "0"),
         NEW b \in Brick, b = r.brick, dir'[b] = NoDir,
         UNCHANGED <<idx, known, queue>>, raced'[b] = (raced[b] \/ Races(r))
  PROVE  Follows(b)' /\ Taken(b)'
<1>1. Follows(b) /\ Indexed(r)
  BY DEF Inv, Indexed
<1>2. Last(b)' = Last(b) /\ \A i : Before(b, i)' = Before(b, i)
  BY DEF Last, Before
<1>3. Taken(b)'
  BY DEF Taken
<1> SUFFICES ASSUME ~raced'[b] PROVE Follows(b)'
  BY <1>3 DEF Follows
<1>4. Due(b) = {} /\ ~raced[b]
  BY <1>1, RacesDue
<1>5. Due(b)' = {Answered(r, "0")}
  BY <1>1, <1>4, AnswerDue
<1>6. Answered(r, "0").fop \notin MkdirFop
  <2>1. r.fop \notin MkdirFop
    BY DEF MkdirFop, RmdirFop
  <2> QED
    BY <2>1, AnsweredIs
<1> QED
  BY <1>1, <1>2, <1>4, <1>5, <1>6 DEF Follows

LEMMA PosixMkdirInv ==
  ASSUME Inv, NEW r \in call, posix_mkdir(r)
  PROVE  Inv'
<1>1. r.fop \in MkdirFop /\ r.ret = "none" /\ UNCHANGED <<idx, known, queue, op, nop, removed>>
  BY DEF posix_mkdir
<1>2. /\ r.brick \in Brick /\ r.gfid \in Gfid /\ r.gfid # NoDir
      /\ r.fop = "mkhashed" => r.brick = Hashed
  BY DirAssumption DEF Inv, TypedFrames, Request
<1>3. CASE dir[r.brick] # NoDir /\ Answer(r, "EEXIST") /\ UNCHANGED <<dir, healed, raced, again>>
  <2>1. UNCHANGED <<brick, op, nop, healed, removed>>
    BY <1>1, <1>3 DEF brick
  <2> QED
    BY <1>1, <1>3, <2>1, RefusedInv
<1>4. CASE /\ dir[r.brick] = NoDir
           /\ dir' = [dir EXCEPT ![r.brick] = r.gfid]
           /\ Answer(r, "0")
           /\ healed' = (healed \/ r.fop = "heal")
           /\ raced' = [raced EXCEPT ![r.brick] = @ \/ Races(r)]
           /\ again' = [again EXCEPT ![r.brick] = Comes(r)]
  <2> DEFINE a == Answered(r, "0")
  <2>1. a.ret = "0" /\ a.fop = r.fop /\ a.gfid = r.gfid
    BY AnsweredIs
  <2>2. call' = (call \ {r}) \cup {a}
    BY <1>4 DEF Answer, Answered
  <2> HIDE DEF a
  <2>3. /\ dir \in [Brick -> Gfid \cup {NoDir}] /\ raced \in [Brick -> BOOLEAN]
        /\ again \in [Brick -> BOOLEAN] /\ healed \in BOOLEAN /\ removed \in BOOLEAN
    BY DEF Inv, TypedBricks, TypedFrames
  <2>4. TypedFrames' /\ Linked'
    <3>1. healed' \in BOOLEAN /\ removed' \in BOOLEAN
      BY <1>1, <1>4, <2>3
    <3> QED
      BY <1>1, <1>4, <3>1, AnswerFrames
  <2>5. TypedBricks'
    <3>1. Races(r) \in BOOLEAN /\ Comes(r) \in BOOLEAN
      BY DEF Races, Comes
    <3>2. /\ dir' \in [Brick -> Gfid \cup {NoDir}] /\ raced' \in [Brick -> BOOLEAN]
          /\ again' \in [Brick -> BOOLEAN]
      BY <1>2, <1>4, <2>3, <3>1
    <3> QED
      BY <1>1, <3>2 DEF Inv, TypedBricks
  <2>6. Recorded'
    <3> SUFFICES ASSUME ~healed' PROVE Recorded'
      BY DEF Recorded
    <3>1. ~healed /\ r.fop # "heal"
      BY <1>4
    <3> QED
      BY <1>1, <2>1, <2>2, <3>1 DEF Inv, Recorded
  <2>7. Led'
    <3> SUFFICES ASSUME ~removed PROVE Led'
      BY <1>1, SMT DEF Led
    <3>1. \A b \in Brick : dir[b] \in {NoDir, dir[Hashed]}
      BY DEF Inv, Led
    <3>2. CASE dir[Hashed] = NoDir
      <4>1. r.fop = "mkhashed" /\ r.brick = Hashed
        BY <1>2, <3>2 DEF Inv, Led
      <4>2. dir'[Hashed] = r.gfid /\ \A b \in Brick : dir'[b] \in {NoDir, dir'[Hashed]}
        BY <1>4, <2>3, <3>1, <3>2, <4>1, DirAssumption
      <4>3. \A s \in call : ~(s.fop # "mkhashed" \/ s.ret = "0")
        BY <3>2, DirAssumption DEF Inv, Led, TypedFrames, Request
      <4>4. \A s \in call' : s.fop # "mkhashed" \/ s.ret = "0" => s.gfid = dir'[Hashed]
        BY <2>1, <2>2, <4>2, <4>3
      <4>5. \A c \in Client :
              op'[c].pc \notin {"idle", "mkhashed"} => op'[c].gfid \in {NoDir, dir'[Hashed]}
        BY <1>1, <3>2 DEF Inv, Led
      <4> QED
        BY <4>2, <4>4, <4>5 DEF Led
    <3>3. CASE dir[Hashed] # NoDir
      <4>1. r.brick # Hashed
        BY <1>4, <3>3
      <4>2. r.gfid = dir[Hashed]
        BY <1>2, <4>1 DEF Inv, Led
      <4>3. dir'[Hashed] = dir[Hashed]
        BY <1>4, <2>3, <4>1, DirAssumption
      <4>4. \A b \in Brick : dir'[b] \in {NoDir, dir'[Hashed]}
        BY <1>4, <2>3, <3>1, <4>2, <4>3
      <4>5. \A s \in call' : s.fop # "mkhashed" \/ s.ret = "0" => s.gfid = dir'[Hashed]
        BY <2>1, <2>2, <4>2, <4>3 DEF Inv, Led
      <4>6. \A c \in Client :
              op'[c].pc \notin {"idle", "mkhashed"} => op'[c].gfid \in {NoDir, dir'[Hashed]}
        BY <1>1, <4>3 DEF Inv, Led
      <4> QED
        BY <4>4, <4>5, <4>6 DEF Led
    <3> QED
      BY <3>2, <3>3
  <2>8. ASSUME NEW b \in Brick PROVE (Follows(b) /\ Taken(b))'
    <3>1. CASE b = r.brick
      <4>1. /\ dir'[b] = r.gfid /\ raced'[b] = (raced[b] \/ Races(r)) /\ again'[b] = Comes(r)
            /\ dir[b] = NoDir
        BY <1>4, <2>3, <3>1
      <4> QED
        BY <1>1, <1>4, <3>1, <4>1, CreatedFollows
    <3>2. CASE b # r.brick
      <4>1. dir'[b] = dir[b] /\ raced'[b] = raced[b] /\ again'[b] = again[b]
        BY <1>4, <2>3, <2>8, <3>2
      <4> QED
        BY <1>1, <1>4, <3>2, <4>1, ElsewhereFollows
    <3> QED
      BY <3>1, <3>2
  <2> QED
    BY <2>4, <2>5, <2>6, <2>7, <2>8 DEF Inv
<1> QED
  BY <1>3, <1>4 DEF posix_mkdir

LEMMA PosixRmdirInv ==
  ASSUME Inv, NEW r \in call, posix_rmdir(r)
  PROVE  Inv'
<1>1. /\ r.fop \in RmdirFop /\ r.ret = "none"
      /\ UNCHANGED <<idx, known, queue, op, nop, healed, again>>
  BY DEF posix_rmdir
<1>2. r.brick \in Brick
  BY DEF Inv, TypedFrames, Request
<1>3. CASE dir[r.brick] = NoDir /\ Answer(r, "ENOENT") /\ UNCHANGED <<dir, removed, raced>>
  <2>1. UNCHANGED <<brick, op, nop, healed, removed>>
    BY <1>1, <1>3 DEF brick
  <2> QED
    BY <1>1, <1>3, <2>1, RefusedInv
<1>4. CASE /\ dir[r.brick] # NoDir
           /\ dir' = [dir EXCEPT ![r.brick] = NoDir]
           /\ Answer(r, "0")
           /\ removed' = TRUE
           /\ raced' = [raced EXCEPT ![r.brick] = @ \/ Races(r)]
  <2> DEFINE a == Answered(r, "0")
  <2>1. a.fop = r.fop
    BY AnsweredIs
  <2>2. call' = (call \ {r}) \cup {a}
    BY <1>4 DEF Answer, Answered
  <2> HIDE DEF a
  <2>3. /\ dir \in [Brick -> Gfid \cup {NoDir}] /\ raced \in [Brick -> BOOLEAN]
        /\ healed \in BOOLEAN
    BY DEF Inv, TypedBricks, TypedFrames
  <2>4. TypedFrames' /\ Linked'
    <3>1. healed' \in BOOLEAN /\ removed' \in BOOLEAN
      BY <1>1, <1>4, <2>3
    <3> QED
      BY <1>1, <1>4, <3>1, AnswerFrames
  <2>5. TypedBricks'
    <3>1. Races(r) \in BOOLEAN
      BY DEF Races
    <3>2. dir' \in [Brick -> Gfid \cup {NoDir}] /\ raced' \in [Brick -> BOOLEAN]
      BY <1>2, <1>4, <2>3, <3>1
    <3> QED
      BY <1>1, <3>2 DEF Inv, TypedBricks
  <2>6. Recorded'
    <3> SUFFICES ASSUME ~healed PROVE Recorded'
      BY <1>1, SMT DEF Recorded
    <3>1. r.fop # "heal"
      BY <1>1 DEF RmdirFop
    <3> QED
      BY <1>1, <2>1, <2>2, <3>1 DEF Inv, Recorded
  <2>7. Led'
    BY <1>4 DEF Led
  <2>8. ASSUME NEW b \in Brick PROVE (Follows(b) /\ Taken(b))'
    <3>1. CASE b = r.brick
      <4>1. dir'[b] = NoDir /\ raced'[b] = (raced[b] \/ Races(r))
        BY <1>4, <2>3, <3>1
      <4> QED
        BY <1>1, <1>4, <3>1, <4>1, RemovedFollows
    <3>2. CASE b # r.brick
      <4>1. dir'[b] = dir[b] /\ raced'[b] = raced[b] /\ again'[b] = again[b]
        BY <1>1, <1>4, <2>3, <2>8, <3>2
      <4> QED
        BY <1>1, <1>4, <3>2, <4>1, ElsewhereFollows
    <3> QED
      BY <3>1, <3>2
  <2> QED
    BY <2>4, <2>5, <2>6, <2>7, <2>8 DEF Inv
<1> QED
  BY <1>3, <1>4 DEF posix_rmdir

-----------------------------------------------------------------------------
(* The worker.                                                             *)

\* What a task leaves on its brick.
LEMMA WorkedFollows ==
  ASSUME Inv, NEW b \in Brick, ims_async_work(b)
  PROVE  Follows(b)' /\ Taken(b)'
<1> DEFINE q == queue[b]
           task == Head(queue[b])
<1>1. /\ q \in Seq(Gfid \cup {NoDir}) /\ q # << >> /\ queue'[b] = Tail(q)
      /\ idx \in [Brick -> Gfid \cup {NoDir}] /\ known \in [Brick -> SUBSET Gfid]
      /\ Follows(b) /\ Taken(b)
      /\ UNCHANGED <<dir, raced, again, call>>
  BY DEF ims_async_work, Inv, TypedBricks
<1>2. /\ Len(q) \in Nat /\ 1 \in 1..Len(q) /\ task = q[1] /\ Len(queue'[b]) = Len(q) - 1
      /\ \A i \in 1..(Len(q) - 1) : queue'[b][i] = q[i + 1] /\ i + 1 \in 2..Len(q)
  BY <1>1, SMT
<1>3. \/ task = NoDir /\ idx'[b] = NoDir /\ known'[b] = known[b]
      \/ /\ task # NoDir /\ idx[b] = NoDir /\ idx'[b] = task
         /\ known'[b] = known[b] \cup {task}
      \/ /\ task # NoDir /\ (task \in known[b] \/ idx[b] # NoDir)
         /\ idx'[b] = idx[b] /\ known'[b] = known[b]
  BY <1>1 DEF ims_async_work
<1> HIDE DEF task
<1>4. Due(b)' = Due(b)
  BY <1>1 DEF Due, Indexed
<1> SUFFICES ASSUME ~raced[b] PROVE Follows(b)' /\ Taken(b)'
  BY <1>1 DEF Follows, Taken
<1>5. task # NoDir => idx[b] = NoDir
  BY <1>1, <1>2 DEF Follows, Before
<1>6. idx'[b] \in {NoDir, task}
  BY <1>3, <1>5
<1>9. Len(q) # 0
  BY <1>1, SMT
<1>7. CASE Len(q) = 1
  <2>1. Last(b) = task
    <3>1. Len(q) + 1 # 1 /\ (Len(q) + 1) - 1 = 1
      BY <1>7, SMT
    <3> QED
      BY <1>2, <3>1 DEF Last, Before
  <2>2. Last(b)' = idx'[b]
    <3>1. Len(queue'[b]) + 1 = 1
      BY <1>2, <1>7, SMT
    <3> QED
      BY <3>1 DEF Last, Before
  <2>3. 1..Len(queue'[b]) = {} /\ 1..(Len(queue'[b]) - 1) = {} /\ queue'[b] = << >>
    <3>0. ASSUME NEW s \in Seq(Gfid \cup {NoDir}), Len(s) = 0 PROVE s = << >>
      BY <3>0, SMT
    <3>1. Tail(q) = << >>
      <4>1. Tail(q) \in Seq(Gfid \cup {NoDir})
        BY <1>1, SMT
      <4>2. Len(Tail(q)) = 0
        BY <1>1, <1>7, SMT
      <4> QED
        BY <4>1, <4>2, <3>0
    <3>2. Len(queue'[b]) = 0
      BY <1>2, <1>7, SMT
    <3>3. 1..0 = {} /\ 1..(0 - 1) = {}
      BY SMT
    <3> QED
      BY <1>1, <3>1, <3>2, <3>3
  <2>4. Follows(b)'
    BY <1>1, <1>4, <1>6, <2>1, <2>2, <2>3 DEF Follows
  <2>5. Taken(b)'
    <3> SUFFICES ASSUME b = Hashed, ~again[b], dir[b] # NoDir PROVE Taken(b)'
      BY <1>1 DEF Taken
    <3>1. dir[b] \notin known[b]
      BY <1>1 DEF Taken
    <3>2. Due(b) = {} => Last(b)' = dir[b]
      BY <1>1, <1>3, <1>5, <2>1, <2>2, <3>1 DEF Taken
    <3>3. Due(b) # {} => dir[b] \notin known'[b] /\ Last(b)' # dir[b]
      BY <1>1, <1>3, <1>6, <2>1, <2>2, <3>1 DEF Taken
    <3> QED
      BY <1>1, <1>4, <2>3, <3>2, <3>3 DEF Taken
  <2> QED
    BY <2>4, <2>5
<1>8. CASE Len(q) # 1
  <2>1. Last(b)' = Last(b)
    <3>0. ASSUME NEW n \in Nat, n # 0, n # 1
          PROVE  /\ n + 1 # 1 /\ (n + 1) - 1 = n
                 /\ (n - 1) + 1 # 1 /\ ((n - 1) + 1) - 1 = n - 1
                 /\ n - 1 \in 1..(n - 1) /\ (n - 1) + 1 = n
      BY <3>0, SMT
    <3>1. /\ Len(q) + 1 # 1 /\ (Len(q) + 1) - 1 = Len(q)
          /\ Len(queue'[b]) + 1 # 1 /\ (Len(queue'[b]) + 1) - 1 = Len(q) - 1
          /\ Len(q) - 1 \in 1..(Len(q) - 1) /\ (Len(q) - 1) + 1 = Len(q)
      BY <1>2, <1>8, <1>9, <3>0
    <3>2. queue'[b][Len(q) - 1] = q[Len(q)]
      BY <1>2, <3>1
    <3> QED
      BY <3>1, <3>2 DEF Last, Before
  <2>2. ASSUME NEW i \in 1..Len(queue'[b]), queue'[b][i] # NoDir PROVE Before(b, i)' = NoDir
    <3>1. /\ i \in 1..(Len(q) - 1) /\ i + 1 \in 1..Len(q) /\ i + 1 # 1 /\ (i + 1) - 1 = i
          /\ i # 1 => i - 1 \in 1..(Len(q) - 1) /\ (i - 1) + 1 = i
      BY <1>2, <2>2, SMT
    <3>2. q[i + 1] # NoDir
      BY <1>2, <2>2, <3>1
    <3>3. q[i] = NoDir
      BY <1>1, <3>1, <3>2 DEF Follows, Before
    <3>4. CASE i = 1
      BY <1>2, <1>6, <3>3, <3>4 DEF Before
    <3>5. CASE i # 1
      BY <1>2, <3>1, <3>3, <3>5 DEF Before
    <3> QED
      BY <3>4, <3>5
  <2>3. Follows(b)'
    BY <1>1, <1>4, <2>1, <2>2 DEF Follows
  <2>4. Taken(b)'
    <3> SUFFICES ASSUME b = Hashed, ~again[b], dir[b] # NoDir PROVE Taken(b)'
      BY <1>1 DEF Taken
    <3>1. dir[b] \notin known[b] /\ \A i \in 1..(Len(q) - 1) : q[i] # dir[b]
      BY <1>1 DEF Taken
    <3>0. ASSUME NEW n \in Nat, n # 0, n # 1 PROVE 1 \in 1..(n - 1)
      BY <3>0, SMT
    <3>2. 1 \in 1..(Len(q) - 1)
      BY <1>2, <1>8, <1>9, <3>0
    <3>3. dir[b] \notin known'[b]
      BY <1>2, <1>3, <3>1, <3>2
    <3>4. ASSUME NEW i \in 1..(Len(queue'[b]) - 1) PROVE queue'[b][i] # dir[b]
      <4>1. i \in 1..(Len(q) - 1) /\ i + 1 \in 1..(Len(q) - 1)
        BY <1>2, <3>4, SMT
      <4> QED
        BY <1>2, <3>1, <4>1
    <3>5. /\ Due(b) = {} => Last(b) = dir[b]
          /\ Due(b) # {} => Last(b) # dir[b]
      BY <1>1 DEF Taken
    <3> QED
      BY <1>1, <1>4, <2>1, <3>3, <3>4, <3>5 DEF Taken
  <2> QED
    BY <2>3, <2>4
<1> QED
  BY <1>7, <1>8

LEMMA WorkInv ==
  ASSUME Inv, NEW b \in Brick, ims_async_work(b)
  PROVE  Inv'
<1> DEFINE task == Head(queue[b])
<1>1. /\ queue[b] # << >> /\ queue' = [queue EXCEPT ![b] = Tail(@)]
      /\ UNCHANGED <<dir, raced, again, call, op, nop, healed, removed>>
  BY DEF ims_async_work
<1>2. /\ queue \in [Brick -> Seq(Gfid \cup {NoDir})] /\ idx \in [Brick -> Gfid \cup {NoDir}]
      /\ known \in [Brick -> SUBSET Gfid]
  BY DEF Inv, TypedBricks
<1>3. /\ Len(queue[b]) \in Nat /\ 1 \in 1..Len(queue[b]) /\ task = queue[b][1]
      /\ task \in Gfid \cup {NoDir} /\ Tail(queue[b]) \in Seq(Gfid \cup {NoDir})
      /\ Len(Tail(queue[b])) = Len(queue[b]) - 1
      /\ \A i \in 1..(Len(queue[b]) - 1) :
           Tail(queue[b])[i] = queue[b][i + 1] /\ i + 1 \in 1..Len(queue[b])
  <2>1. queue[b] \in Seq(Gfid \cup {NoDir})
    BY <1>2
  <2> QED
    BY <1>1, <2>1, SMT
<1>4. \/ idx' = [idx EXCEPT ![b] = NoDir] /\ UNCHANGED known
      \/ /\ task # NoDir /\ idx' = [idx EXCEPT ![b] = task]
         /\ known' = [known EXCEPT ![b] = @ \cup {task}]
      \/ UNCHANGED <<idx, known>>
  BY DEF ims_async_work
<1> HIDE DEF task
<1>5. TypedFrames' /\ Linked' /\ Led'
  BY <1>1 DEF Inv, TypedFrames, Sure, Linked, Led
<1>6. TypedBricks'
  <2>1. queue' \in [Brick -> Seq(Gfid \cup {NoDir})]
    BY <1>1, <1>2, <1>3
  <2>2. idx' \in [Brick -> Gfid \cup {NoDir}] /\ known' \in [Brick -> SUBSET Gfid]
    <3>1. CASE task # NoDir
      <4>1. task \in Gfid
        BY <1>3, <3>1
      <4> QED
        BY <1>2, <1>4, <4>1
    <3>2. CASE task = NoDir
      BY <1>2, <1>4, <3>2
    <3> QED
      BY <3>1, <3>2
  <2> QED
    BY <1>1, <2>1, <2>2 DEF Inv, TypedBricks
<1>7. Recorded'
  <2> SUFFICES ASSUME ~healed PROVE Recorded'
    BY <1>1, SMT DEF Recorded
  <2>1. ASSUME NEW a \in Others
        PROVE  idx'[a] = NoDir /\ \A i \in 1..Len(queue'[a]) : queue'[a][i] = NoDir
    <3>1. /\ a \in Brick /\ idx[a] = NoDir
          /\ \A i \in 1..Len(queue[a]) : queue[a][i] = NoDir
      BY DEF Inv, Recorded, Others
    <3>2. CASE a # b
      BY <1>1, <1>2, <1>4, <3>1, <3>2
    <3>3. CASE a = b
      <4>1. task = NoDir
        BY <1>3, <3>1, <3>3
      <4>2. idx'[a] = NoDir
        BY <1>2, <1>4, <3>1, <3>3, <4>1
      <4>3. queue'[a] = Tail(queue[b])
        BY <1>1, <1>2, <3>1, <3>3
      <4> QED
        BY <1>3, <3>1, <3>3, <4>2, <4>3
    <3> QED
      BY <3>2, <3>3
  <2> QED
    BY <1>1, <2>1 DEF Inv, Recorded
<1>8. ASSUME NEW a \in Brick PROVE (Follows(a) /\ Taken(a))'
  <2>1. CASE a = b
    BY <2>1, WorkedFollows
  <2>2. CASE a # b
    <3>1. idx'[a] = idx[a] /\ known'[a] = known[a] /\ queue'[a] = queue[a]
      BY <1>1, <1>2, <1>4, <1>8, <2>2
    <3>2. Due(a)' = Due(a)
      BY <1>1 DEF Due, Indexed
    <3>3. Follows(a) /\ Taken(a)
      BY DEF Inv
    <3> QED
      BY <1>1, <3>1, <3>2, <3>3, QuietBrick
  <2> QED
    BY <2>1, <2>2
<1> QED
  BY <1>5, <1>6, <1>7, <1>8 DEF Inv

-----------------------------------------------------------------------------
LEMMA StepInv ==
  ASSUME Inv, [Next]_vars
  PROVE  Inv'
<1>1. ASSUME NEW c \in Client, dht_mkdir(c) PROVE Inv'
  BY <1>1, MkdirInv
<1>2. ASSUME NEW c \in Client, dht_lookup_directory(c) PROVE Inv'
  BY <1>2, LookupInv
<1>3. ASSUME NEW c \in Client, dht_rmdir(c) PROVE Inv'
  BY <1>3, RmdirInv
<1>4. ASSUME NEW c \in Client, NEW b \in Brick, dht_lookup_dir_cbk(c, b) PROVE Inv'
  BY <1>4, LookupCbkInv
<1>5. ASSUME NEW c \in Client, NEW b \in Brick, dht_rmdir_opendir_cbk(c, b) PROVE Inv'
  BY <1>5, OpendirInv
<1>6. ASSUME NEW r \in call, posix_mkdir(r) PROVE Inv'
  BY <1>6, PosixMkdirInv
<1>7. ASSUME NEW r \in call, posix_rmdir(r) PROVE Inv'
  BY <1>7, PosixRmdirInv
<1>8. ASSUME NEW r \in call, Unwind(r) PROVE Inv'
  BY <1>8, UnwindInv
<1>9. ASSUME NEW r \in call, Disconnect(r) PROVE Inv'
  BY <1>9, DisconnectInv
<1>10. ASSUME NEW b \in Brick, ims_async_work(b) PROVE Inv'
  BY <1>10, WorkInv
<1>11. CASE UNCHANGED vars
  <2>1. UNCHANGED <<brick, call, op, nop, healed, removed>>
    BY <1>11 DEF vars
  <2>2. UNCHANGED <<dir, idx, known, queue, raced, again>>
    BY <2>1 DEF brick
  <2>3. \A b \in Brick : Due(b)' = Due(b)
    BY <2>1 DEF Due, Indexed
  <2>4. TypedBricks' /\ Recorded' /\ \A b \in Brick : (Follows(b) /\ Taken(b))'
    BY <2>1, <2>3, QuietBricks DEF Inv
  <2>5. TypedFrames' /\ Linked' /\ Led'
    BY <2>1, <2>2 DEF Inv, TypedFrames, Sure, Linked, Led
  <2> QED
    BY <2>4, <2>5 DEF Inv
<1> QED
  BY <1>1, <1>2, <1>3, <1>4, <1>5, <1>6, <1>7, <1>8, <1>9, <1>10, <1>11 DEF Next, Rest

\* The invariant holds throughout.
THEOREM Invariance == Spec => []Inv
BY InitInv, StepInv, PTL DEF Spec

\* Until an rmdir has removed the directory somewhere it has one gfid on all
\* bricks that have it: the hashed brick's answer decides which of two dht_mkdir
\* calls goes on to the other bricks, and every self-heal brings the gfid that
\* a brick gave.
THEOREM SameGfidHolds == Spec => []SameGfid
<1>1. Inv => SameGfid
  BY DEF Inv, Led, SameGfid
<1> QED
  BY <1>1, Invariance, PTL

\* enable-dir-hash: the mark with which dht_mkdir sends its requests makes one
\* brick record the directory, whatever order the callbacks and the workers run
\* in, until a self-heal, whose requests have no mark, creates it on a brick.
THEOREM OneRecordHolds == Spec => []OneRecord
<1>1. ASSUME Inv PROVE OneRecord
  <2> SUFFICES ASSUME ~healed, NEW b1 \in Brick, NEW b2 \in Brick,
                      NoDir \notin {idx[b1], idx[b2]}
               PROVE  b1 = b2
    BY DEF OneRecord
  <2>1. \A b \in Others : idx[b] = NoDir
    BY <1>1 DEF Inv, Recorded
  <2>2. b1 = Hashed /\ b2 = Hashed
    BY <2>1 DEF Others
  <2> QED
    BY <2>2
<1> QED
  BY <1>1, Invariance, PTL

\* When a brick's callbacks and worker are through, its record is that of its
\* directory: always on the hashed brick, elsewhere if there is one.  This holds
\* through concurrent mkdirs, rmdirs, self-heals and lost answers as long as no
\* two callbacks passed each other on the brick and the gfid is new to it.
THEOREM RecordKeptHolds == Spec => []RecordKept
<1>1. ASSUME Inv PROVE RecordKept
  <2> SUFFICES ASSUME NEW b \in Brick, Settled(b), ~raced[b]
               PROVE  /\ idx[b] \in {NoDir, dir[b]}
                      /\ b = Hashed /\ ~again[b] => idx[b] = dir[b]
    BY DEF RecordKept
  <2>1. Due(b) = {}
    BY DEF Settled, Due
  <2>2. Last(b) = idx[b]
    <3>1. Len(<< >>) + 1 = 1
      BY SMT
    <3> QED
      BY <3>1 DEF Settled, Last, Before
  <2>3. idx[b] \in {NoDir, dir[b]}
    BY <1>1, <2>1, <2>2 DEF Inv, Follows
  <2>4. ASSUME b = Hashed, ~again[b] PROVE idx[b] = dir[b]
    <3>1. CASE dir[b] = NoDir
      BY <2>3, <3>1
    <3>2. CASE dir[b] # NoDir
      BY <1>1, <2>1, <2>2, <2>4, <3>2 DEF Inv, Taken
    <3> QED
      BY <3>1, <3>2
  <2> QED
    BY <2>3, <2>4
<1> QED
  BY <1>1, Invariance, PTL
=============================================================================
