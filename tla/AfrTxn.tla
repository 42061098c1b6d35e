------------------------------- MODULE AfrTxn --------------------------------
(***************************************************************************)
(* Replication of one file by cluster/afr: the truncates of several        *)
(* clients (data transactions without an fd: afr-transaction.c,            *)
(* afr-lk-common.c, afr-inode-write.c) and the data self-heal of one       *)
(* daemon (afr-self-heal-data.c, afr-self-heal-common.c), over bricks that *)
(* keep a changelog: a dirty count, and for each brick the number of       *)
(* operations that it has missed.                                          *)
(*                                                                         *)
(* A request that goes to several bricks reaches them one by one, in any   *)
(* order.  Connections break between requests, or between a request and    *)
(* its reply; a process that dies leaves the rest of its requests unsent.  *)
(*                                                                         *)
(* Truncates start in the file's first block and lock up to its end, so    *)
(* they conflict with each other and with every lock of the self-heal.     *)
(***************************************************************************)
EXTENDS Integers, Sequences, FiniteSetsExt, Functions

CONSTANTS
  Replicas,   \* priv->child_count
  Quorum,     \* priv->quorum_count: 0 for none, AFR_QUORUM_AUTO, or a number
  AFR_QUORUM_AUTO,   \* quorum-type auto: more than half of the bricks
  Client,
  Healer,     \* the self-heal daemon
  Flaky,      \* the processes whose connections break
  Mortal,     \* the processes that die
  Full,       \* the size of the file in the beginning
  Sizes,      \* the sizes it is truncated to
  MaxOp,      \* bound: truncates
  MaxFault,   \* bound: connections that break, truncates that a brick refuses
  MaxCrash    \* bound: processes that die

Brick == 1 .. Replicas

ASSUME AfrAssumption ==
  /\ Replicas \in Nat \ {0, 1}
  /\ Quorum = AFR_QUORUM_AUTO \/ Quorum \in 0 .. Replicas
  /\ Healer \notin Client
  /\ Full \in Nat /\ Sizes \subseteq Nat
  /\ Flaky \subseteq Client \cup {Healer} /\ Mortal \subseteq Client \cup {Healer}

Proc == Client \cup {Healer}

VARIABLES
  data,    \* for each brick, its copy of the file
  dirty,   \* for each brick, trusted.afr.dirty
  pend,    \* pend[b][j]: what b's trusted.afr.*-client-j says j has missed
  lk,      \* for each brick, the inodelks granted: <<process, kind>>
  conn,    \* for each process, the bricks it is connected to
  p,       \* for each process, what it is doing
  acked,   \* operations that succeeded, as far as the application knows
  ops, faults, crashes

brickVars == <<data, dirty, pend>>
vars == <<brickVars, lk, conn, p, acked, ops, faults, crashes>>

Zero == [b \in Brick |-> 0]

\* A copy of the file: its size and its places that still have what was written
\* there (the others have zeros).  ops are the truncates it has been through.
Fresh == [size |-> Full, orig |-> 0 .. Full - 1, ops |-> << >>]

Resized(copy, n) == [copy EXCEPT !.size = n, !.orig = @ \cap 0 .. n - 1]

Truncated(copy, o, n) == [Resized(copy, n) EXCEPT !.ops = Append(@, <<o, n>>)]

\* What is read from one copy is written over another.
Written(copy, buf) ==
  IF buf.size >= copy.size THEN buf
  ELSE [copy EXCEPT !.orig = buf.orig \cup {i \in @ : i >= buf.size}]

Same(copy1, copy2) == copy1.size = copy2.size /\ copy1.orig = copy2.orig

\* The local of a transaction's frame.
Idle == [pc |-> "idle", up |-> {}, todo |-> {}, locked |-> {}, failed |-> {},
         ok |-> FALSE, op |-> 0, size |-> 0]

\* The variables of a self-heal: kind is the lock it is after and locked where
\* it has it; on is data_lock, which it keeps when the lock is released; dirty
\* and pend are what it read then, and size the size of the source; buf is what
\* it has read from the source.
Asleep == [pc |-> "idle", kind |-> "data", todo |-> {}, locked |-> {}, eagain |-> FALSE,
           on |-> {}, source |-> 0, sinks |-> {}, healed |-> {}, size |-> 0,
           dirty |-> Zero, pend |-> [b \in Brick |-> Zero], buf |-> Fresh]

Init ==
  /\ data = [b \in Brick |-> Fresh]
  /\ dirty = Zero
  /\ pend = [b \in Brick |-> Zero]
  /\ lk = [b \in Brick |-> {}]
  /\ conn = [q \in Proc |-> Brick]
  /\ p = [q \in Proc |-> IF q = Healer THEN Asleep ELSE Idle]
  /\ acked = {}
  /\ ops = 0 /\ faults = 0 /\ crashes = 0

-----------------------------------------------------------------------------
(* Connections, and the locks of features/locks                            *)

\* The locks of q of one kind are released.
Unlocked(q, kind) == [b \in Brick |-> lk[b] \ {<<q, kind>>}]

\* All of q's locks on the bricks of S are dropped.
Dropped(q, S) == [b \in Brick |-> IF b \in S THEN {l \in lk[b] : l[1] # q} ELSE lk[b]]

\* No lock on b conflicts with one of q's.
Free(q, b) == \A l \in lk[b] : l[1] = q

\* Another process has asked for a lock on b and is to wait for it.
Awaited(q, b) == \E r \in Proc \ {q} : /\ p[r].pc = "block"
                                       /\ b \in conn[r]
                                       /\ b = Min(p[r].todo)

\* Replies of a non-blocking lock.  If another waits, it is refused though it
\* is free, unless q has a lock on b already or its request comes first.
Answers(q, b) ==
  IF b \notin conn[q] THEN {"ENOTCONN"}
  ELSE IF ~Free(q, b) THEN {"EAGAIN"}
  ELSE IF lk[b] = {} /\ Awaited(q, b) THEN {"ok", "EAGAIN"}
  ELSE {"ok"}

\* How a request of q to b ends: "lost" is one that b has performed but whose
\* reply does not come back.
Outcomes(q, b) ==
  IF b \notin conn[q] THEN {"unsent"}
  ELSE {"ok"} \cup (IF q \in Flaky /\ faults < MaxFault THEN {"lost"} ELSE {})

Performed == {"ok", "lost"}

\* The connection of q and b after such a request.
Carried(q, b, out) ==
  IF out = "lost"
  THEN /\ faults' = faults + 1
       /\ conn' = [conn EXCEPT ![q] = @ \ {b}]
  ELSE UNCHANGED <<faults, conn>>

\* The locks after it, left being those that q keeps anyway.
LocksAfter(q, b, out, left) ==
  lk' = IF out = "lost" THEN [left EXCEPT ![b] = {l \in @ : l[1] # q}] ELSE left

Disconnect(q, b) ==
  /\ q \in Flaky
  /\ b \in conn[q]
  /\ faults < MaxFault
  /\ faults' = faults + 1
  /\ conn' = [conn EXCEPT ![q] = @ \ {b}]
  /\ lk' = Dropped(q, {b})
  /\ UNCHANGED <<brickVars, p, acked, ops, crashes>>

Connect(q, b) ==
  /\ b \notin conn[q]
  /\ conn' = [conn EXCEPT ![q] = @ \cup {b}]
  /\ UNCHANGED <<brickVars, lk, p, acked, ops, faults, crashes>>

\* A process dies in the middle of what it does, and is started again.
Crash(q) ==
  /\ q \in Mortal
  /\ crashes < MaxCrash
  /\ p[q].pc # "idle"
  /\ crashes' = crashes + 1
  /\ lk' = Dropped(q, Brick)
  /\ p' = [p EXCEPT ![q] = IF q = Healer THEN Asleep ELSE Idle]
  /\ UNCHANGED <<brickVars, conn, acked, ops, faults>>

-----------------------------------------------------------------------------
(* Transactions                                                            *)

\* afr_has_quorum
HasQuorum(S) ==
  \/ /\ Quorum = AFR_QUORUM_AUTO
     /\ \/ Cardinality(S) > Replicas \div 2
        \/ 2 * Cardinality(S) = Replicas /\ 1 \in S
  \/ /\ Quorum # AFR_QUORUM_AUTO
     /\ Cardinality(S) >= Quorum

BugDirtied(t) == Cardinality(t.locked) > 2

\* dirty is incremented unless the change is made on one brick only.
Dirtied(t) == Cardinality(t.locked) > 1

\* afr_txn_nothing_failed
NothingFailed(t) == t.locked = Brick /\ t.failed = {}

BugOver(c, b, out) ==
  /\ p' = [p EXCEPT ![c] = Idle]
  /\ LocksAfter(c, b, out, lk)

\* The transaction is over: afr_unlock, then transaction.done.  The lock that
\* a lost reply took with it is gone already.
Over(c, b, out) ==
  /\ p' = [p EXCEPT ![c] = Idle]
  /\ LocksAfter(c, b, out, Unlocked(c, "data"))

\* t goes on.
GoesOn(c, b, out, t) ==
  /\ p' = [p EXCEPT ![c] = t]
  /\ LocksAfter(c, b, out, lk)

afr_truncate(c) ==
  /\ p[c].pc = "idle"
  /\ conn[c] # {}
  /\ ops < MaxOp
  /\ ops' = ops + 1
  /\ \E n \in Sizes :
       p' = [p EXCEPT ![c] = [Idle EXCEPT !.pc = "trylock", !.up = conn[c], !.todo = conn[c],
                                          !.op = ops + 1, !.size = n]]
  /\ UNCHANGED <<brickVars, lk, conn, acked, faults, crashes>>

BugReleased(c, granted) == granted

\* afr_unlock_inodelk of a transaction that has not begun its pre-op.
Released(c, granted) == [b \in Brick |-> granted[b] \ {<<c, "data">>}]

\* afr_changelog_pre_op, up to where it sends its xattrops, for a transaction
\* that has locked what it could; granted are the locks as they are then.
afr_changelog_pre_op(c, t, granted) ==
  IF t.locked # {} /\ (Quorum = 0 \/ HasQuorum(t.locked))
  THEN /\ p' = [p EXCEPT ![c] = [t EXCEPT !.pc = "preop", !.todo = t.locked,
                                          !.failed = Brick \ t.locked]]
       /\ lk' = granted
  ELSE /\ p' = [p EXCEPT ![c] = Idle]
       /\ lk' = Released(c, granted)

\* A reply to the non-blocking locks.  After the last one, if some brick is
\* not locked, all are unlocked and asked for one after the other.
afr_nonblocking_inodelk_cbk(c, b) ==
  /\ p[c].pc = "trylock"
  /\ b \in p[c].todo
  /\ \E a \in Answers(c, b) :
       LET granted == IF a = "ok" THEN [lk EXCEPT ![b] = @ \cup {<<c, "data">>}] ELSE lk
           t == [p[c] EXCEPT !.todo = @ \ {b}, !.locked = IF a = "ok" THEN @ \cup {b} ELSE @]
       IN  \/ /\ t.todo # {}
              /\ p' = [p EXCEPT ![c] = t]
              /\ lk' = granted
           \/ /\ t.todo = {} /\ t.locked = t.up
              /\ afr_changelog_pre_op(c, t, granted)
           \/ /\ t.todo = {} /\ t.locked # t.up
              /\ p' = [p EXCEPT ![c] = [t EXCEPT !.pc = "block", !.todo = t.up, !.locked = {}]]
              /\ lk' = Released(c, granted)
  /\ UNCHANGED <<brickVars, conn, acked, ops, faults, crashes>>

\* The blocking locks, in the order of the bricks: one that is granted, or
\* that fails because the brick is not connected.
afr_lock_blocking(c) ==
  /\ p[c].pc = "block"
  /\ LET b == Min(p[c].todo)
         got == b \in conn[c]
         granted == IF got THEN [lk EXCEPT ![b] = @ \cup {<<c, "data">>}] ELSE lk
         t == [p[c] EXCEPT !.todo = @ \ {b}, !.locked = IF got THEN @ \cup {b} ELSE @]
     IN  /\ got => Free(c, b)
         /\ \/ /\ t.todo # {}
               /\ p' = [p EXCEPT ![c] = t]
               /\ lk' = granted
            \/ /\ t.todo = {}
               /\ afr_changelog_pre_op(c, t, granted)
  /\ UNCHANGED <<brickVars, conn, acked, ops, faults, crashes>>

\* A brick performs the pre-op; the operation is sent when all have replied,
\* to those as well where the pre-op failed.
afr_changelog_pre_op_cbk(c, b) ==
  /\ p[c].pc = "preop"
  /\ b \in p[c].todo
  /\ \E out \in Outcomes(c, b) :
       LET t == [p[c] EXCEPT !.todo = @ \ {b}, !.failed = IF out = "ok" THEN @ ELSE @ \cup {b}]
       IN  /\ dirty' = IF out \in Performed /\ Dirtied(t) THEN [dirty EXCEPT ![b] = @ + 1]
                                                          ELSE dirty
           /\ GoesOn(c, b, out, IF t.todo = {} THEN [t EXCEPT !.pc = "fop", !.todo = t.locked]
                                               ELSE t)
           /\ Carried(c, b, out)
  /\ UNCHANGED <<data, pend, acked, ops, crashes>>

\* afr_changelog_post_op_now after the replies to the operation: the verdict
\* of afr_handle_quorum, and whether there is anything to send.
Succeeds(t) == t.ok /\ (Quorum = 0 \/ HasQuorum(t.locked \ t.failed))

PostOpNeeded(t) == Succeeds(t) /\ ~(NothingFailed(t) /\ ~Dirtied(t))

\* A brick performs the operation.  The application gets its answer after the
\* last reply if nothing has failed, otherwise at the end.  (Symmetric errors,
\* which forgive the bricks that failed, are errors of all: the transaction
\* fails, and no brick is accused anyway.)
afr_truncate_wind_cbk(c, b) ==
  /\ p[c].pc = "fop"
  /\ b \in p[c].todo
  /\ \E out \in Outcomes(c, b) \cup (IF b \in conn[c] /\ faults < MaxFault THEN {"refused"} ELSE {}) :
       LET t == [p[c] EXCEPT !.todo = @ \ {b}, !.failed = IF out = "ok" THEN @ ELSE @ \cup {b},
                             !.ok = @ \/ out = "ok"]
       IN  /\ data' = IF out \in Performed THEN [data EXCEPT ![b] = Truncated(@, t.op, t.size)] ELSE data
           /\ IF out = "refused" THEN faults' = faults + 1 /\ UNCHANGED conn
                                 ELSE Carried(c, b, out)
           /\ \/ /\ t.todo # {}
                 /\ GoesOn(c, b, out, t)
                 /\ UNCHANGED acked
              \/ /\ t.todo = {} /\ PostOpNeeded(t)
                 /\ GoesOn(c, b, out, [t EXCEPT !.pc = "postop", !.todo = t.locked])
                 /\ acked' = IF NothingFailed(t) THEN acked \cup {t.op} ELSE acked
              \/ /\ t.todo = {} /\ ~PostOpNeeded(t)
                 /\ Over(c, b, out)
                 /\ acked' = IF Succeeds(t) THEN acked \cup {t.op} ELSE acked
  /\ UNCHANGED <<dirty, pend, ops, crashes>>

BugBlamed(t) == t.locked

\* Those that the post-op says have missed the operation.
Blamed(t) == t.failed

\* A brick performs the post-op: it is no longer dirty, and accuses the bricks
\* that have failed, itself included.
afr_changelog_post_op_cbk(c, b) ==
  /\ p[c].pc = "postop"
  /\ b \in p[c].todo
  /\ \E out \in Outcomes(c, b) :
       LET t == [p[c] EXCEPT !.todo = @ \ {b}]
       IN  /\ IF out \in Performed
              THEN /\ dirty' = IF Dirtied(t) THEN [dirty EXCEPT ![b] = @ - 1] ELSE dirty
                   /\ pend' = [pend EXCEPT ![b] = [j \in Brick |->
                                 IF j \in Blamed(t) THEN @[j] + 1 ELSE @[j]]]
              ELSE UNCHANGED <<dirty, pend>>
           /\ Carried(c, b, out)
           /\ \/ /\ t.todo # {}
                 /\ GoesOn(c, b, out, t)
                 /\ UNCHANGED acked
              \/ /\ t.todo = {}
                 /\ Over(c, b, out)
                 /\ acked' = acked \cup {t.op}
  /\ UNCHANGED <<data, ops, crashes>>

-----------------------------------------------------------------------------
(* Data self-heal                                                          *)

H == p[Healer]

Becomes(h) == p' = [p EXCEPT ![Healer] = h]

\* The self-heal is over, done or given up, and its locks are released.
HealOver ==
  /\ Becomes(Asleep)
  /\ lk' = Dropped(Healer, Brick)

\* afr_selfheal_inodelk of one kind: "data" is the whole file, "compat" a range
\* that no file has, "block" the first block.
Ask(h, kind) == [h EXCEPT !.pc = "trylock", !.kind = kind, !.todo = conn[Healer],
                          !.locked = {}, !.eagain = FALSE]

\* A file is healed if a brick's index lists it, which it does while its
\* changelog is not zero.  (The lock of the self-heal domain keeps other
\* daemons away, and there is no other here.)
afr_selfheal_data ==
  /\ H.pc = "idle"
  /\ \E b \in conn[Healer] : dirty[b] # 0 \/ pend[b] # Zero
  /\ Cardinality(conn[Healer]) > 1
  /\ Becomes(Ask(Asleep, "data"))
  /\ UNCHANGED <<brickVars, lk, conn, acked, ops, faults, crashes>>

afr_selfheal_lock_cbk(b) ==
  /\ H.pc = "trylock"
  /\ b \in H.todo
  /\ \E a \in Answers(Healer, b) :
       /\ lk' = IF a = "ok" THEN [lk EXCEPT ![b] = @ \cup {<<Healer, H.kind>>}] ELSE lk
       /\ Becomes([H EXCEPT !.todo = @ \ {b}, !.locked = IF a = "ok" THEN @ \cup {b} ELSE @,
                            !.eagain = @ \/ a = "EAGAIN"])
  /\ UNCHANGED <<brickVars, conn, acked, ops, faults, crashes>>

\* All have replied: a lock held by another makes it release what it has got
\* and wait for the locks one by one.
afr_selfheal_inodelk ==
  /\ H.pc = "trylock"
  /\ H.todo = {}
  /\ \/ /\ H.eagain
        /\ lk' = Unlocked(Healer, H.kind)
        /\ Becomes([H EXCEPT !.pc = "block", !.todo = Brick, !.locked = {}])
     \/ /\ ~H.eagain
        /\ Becomes([H EXCEPT !.pc = "locked"])
        /\ UNCHANGED lk
  /\ UNCHANGED <<brickVars, conn, acked, ops, faults, crashes>>

AFR_SEQ ==
  /\ H.pc = "block"
  /\ LET b == Min(H.todo)
         got == b \in conn[Healer]
     IN  /\ got => Free(Healer, b)
         /\ lk' = IF got THEN [lk EXCEPT ![b] = @ \cup {<<Healer, H.kind>>}] ELSE lk
         /\ Becomes([H EXCEPT !.todo = @ \ {b}, !.locked = IF got THEN @ \cup {b} ELSE @,
                              !.pc = IF H.todo = {b} THEN "locked" ELSE @])
  /\ UNCHANGED <<brickVars, conn, acked, ops, faults, crashes>>

\* afr_selfheal_find_direction, from the changelogs m and d that were read.
SelfAccused(m) == {i \in Brick : m[i][i] # 0}

Accused(m) == {j \in Brick : \E i \in Brick \ SelfAccused(m) : m[i][j] # 0}

BugSources(m, on) == on

Sources(m, on) == on \ Accused(m)

Sinks(m, on) ==
  IF Sources(m, on) = {} THEN on
  ELSE {j \in Brick : \E i \in Sources(m, on) \ SelfAccused(m) : m[i][j] # 0}

\* The operations that a brick has witnessed, a uint64_t: what is negative is
\* larger than all other counts.
Uint64 == 2 ^ 30

witness(m, d, i) ==
  LET others == FoldSet(LAMBDA j, n : n + m[i][j], 0, Brick \ {i})
      w == d[i] + IF i \notin SelfAccused(m) THEN 0
                  ELSE others + IF \E j \in Brick \ {i} : m[i][j] # 0 THEN 0 ELSE m[i][i]
  IN  IF w < 0 THEN w + Uint64 ELSE w

\* __afr_selfheal_data_finalize_source: the sources that are left.  If their
\* sizes differ or there are witnesses it is one of the largest, of those one
\* that has witnessed most, and of those the newest, which may be any.
FinalSources(m, d, on, R) ==
  LET S == Sources(m, on)
      size == [s \in S |-> IF s \in R THEN data[s].size ELSE 0]
      mismatch == \E s, t \in S \cap R : size[s] # size[t]
      large == {s \in S : \A t \in S : size[t] <= size[s]}
      most == {s \in large : \A t \in large : witness(m, d, t) <= witness(m, d, s)}
  IN  IF ~mismatch /\ \A s \in S : witness(m, d, s) = 0
      THEN {S} ELSE {{s} : s \in most}

\* With the file locked: which bricks to heal, and from which one.
__afr_selfheal_data_prepare ==
  /\ H.pc = "locked" /\ H.kind = "data"
  /\ LET R == conn[Healer]
         m == [i \in Brick |-> IF i \in R THEN pend[i] ELSE Zero]
         d == [i \in Brick |-> IF i \in R THEN dirty[i] ELSE 0]
         on == H.locked
         sinks == Sinks(m, on)
         split == sinks \cap on = on \/ Sources(m, on) = {}
     IN  \/ /\ Cardinality(on) < 2 \/ Cardinality(R) < 2 \/ split
            /\ HealOver
         \/ /\ ~(Cardinality(on) < 2 \/ Cardinality(R) < 2 \/ split)
            /\ \E S \in FinalSources(m, d, on, R) :
                 \/ /\ on = S
                    /\ HealOver
                 \/ /\ on # S
                    /\ Becomes([H EXCEPT !.pc = "truncate", !.on = on, !.source = Min(S),
                                         !.sinks = sinks, !.healed = on \ S, !.todo = on \ S,
                                         !.dirty = d, !.pend = m,
                                         !.size = IF Min(S) \in R THEN data[Min(S)].size ELSE 0])
                    /\ UNCHANGED lk
  /\ UNCHANGED <<brickVars, conn, acked, ops, faults, crashes>>

\* A sink gets the size that the source had.  If it is the same copy then, it
\* counts as one that has been through the same truncates.
__afr_selfheal_truncate_sinks(b) ==
  /\ H.pc = "truncate"
  /\ b \in H.todo
  /\ \E out \in Outcomes(Healer, b) :
       LET h == [H EXCEPT !.todo = @ \ {b}, !.healed = IF out = "ok" THEN @ ELSE @ \ {b}]
           cut == Resized(data[b], H.size)
       IN  /\ data' = IF out \notin Performed THEN data
                      ELSE [data EXCEPT ![b] = IF Same(cut, data[H.source]) THEN data[H.source]
                                                                            ELSE cut]
           /\ Becomes(h)
           /\ LocksAfter(Healer, b, out, lk)
           /\ Carried(Healer, b, out)
  /\ UNCHANGED <<dirty, pend, acked, ops, crashes>>

\* The lock that keeps older daemons away is asked for while the whole file
\* is still locked.
CompatLock ==
  /\ H.pc = "truncate" /\ H.todo = {}
  /\ Becomes(Ask(H, "compat"))
  /\ UNCHANGED <<brickVars, lk, conn, acked, ops, faults, crashes>>

\* The file is unlocked, whether or not the second lock was got, and
\* afr_selfheal_data_do locks the block, if there is one.
afr_selfheal_data_do ==
  /\ H.pc = "locked" /\ H.kind = "compat"
  /\ \/ /\ H.size = 0
        /\ Becomes([H EXCEPT !.pc = "fsync"])
        /\ lk' = Unlocked(Healer, "data")
     \/ /\ H.size > 0 /\ H.healed # {}
        /\ Becomes(Ask(H, "block"))
        /\ lk' = Unlocked(Healer, "data")
     \/ /\ H.size > 0 /\ H.healed = {}
        /\ HealOver
  /\ UNCHANGED <<brickVars, conn, acked, ops, faults, crashes>>

\* afr_selfheal_data_block, and the read of __afr_selfheal_data_read_write:
\* if the checksums match, or nothing can be read, nothing is written.
afr_selfheal_data_block ==
  /\ H.pc = "locked" /\ H.kind = "block"
  /\ LET src == data[H.source]
         readable == /\ Cardinality(H.locked) >= Cardinality(H.healed)
                     /\ H.source \in conn[Healer]
         done == \/ src.size = 0
                 \/ \A b \in H.healed : b \in conn[Healer] /\ Same(data[b], src)
     IN  \/ /\ readable /\ ~done
            /\ Becomes([H EXCEPT !.pc = "write", !.todo = H.healed, !.buf = src])
            /\ UNCHANGED lk
         \/ /\ readable /\ done
            /\ Becomes([H EXCEPT !.pc = "fsync"])
            /\ lk' = Unlocked(Healer, "block")
         \/ /\ ~readable
            /\ HealOver
  /\ UNCHANGED <<brickVars, conn, acked, ops, faults, crashes>>

\* The block is written to the sinks in their order.  A sink that fails is not
\* healed; the last one's result is also that of the whole.
__afr_selfheal_data_read_write ==
  /\ H.pc = "write"
  /\ LET b == Min(H.todo)
     IN  \E out \in Outcomes(Healer, b) :
           LET h == [H EXCEPT !.todo = @ \ {b}, !.healed = IF out = "ok" THEN @ ELSE @ \ {b}]
           IN  /\ data' = IF out \in Performed THEN [data EXCEPT ![b] = Written(@, H.buf)] ELSE data
               /\ Carried(Healer, b, out)
               /\ \/ /\ h.todo # {}
                     /\ Becomes(h)
                     /\ LocksAfter(Healer, b, out, lk)
                  \/ /\ h.todo = {} /\ out = "ok"
                     /\ Becomes([h EXCEPT !.pc = "fsync"])
                     /\ lk' = Unlocked(Healer, "block")
                  \/ /\ h.todo = {} /\ out # "ok"
                     /\ HealOver
  /\ UNCHANGED <<dirty, pend, acked, ops, crashes>>

afr_selfheal_data_fsync ==
  /\ H.pc = "fsync"
  /\ Becomes([H EXCEPT !.pc = "undo", !.healed = @ \cap conn[Healer], !.todo = H.on])
  /\ UNCHANGED <<brickVars, lk, conn, acked, ops, faults, crashes>>

\* The changelog that was read is taken back, brick by brick, except that the
\* sinks that could not be healed are accused once more.
afr_selfheal_undo_pending ==
  /\ H.pc = "undo"
  /\ LET b == Min(H.todo)
         unhealed == H.sinks \ H.healed
     IN  \E out \in Outcomes(Healer, b) :
           /\ IF out \in Performed
              THEN /\ dirty' = IF b \in unhealed THEN dirty
                               ELSE [dirty EXCEPT ![b] = @ - H.dirty[b]]
                   /\ pend' = [pend EXCEPT ![b] = [j \in Brick |->
                                 IF j \in unhealed THEN @[j] + 1 ELSE @[j] - H.pend[b][j]]]
              ELSE UNCHANGED <<dirty, pend>>
           /\ Carried(Healer, b, out)
           /\ \/ /\ H.todo # {b}
                 /\ Becomes([H EXCEPT !.todo = @ \ {b}])
                 /\ LocksAfter(Healer, b, out, lk)
              \/ /\ H.todo = {b}
                 /\ HealOver
  /\ UNCHANGED <<data, acked, ops, crashes>>

-----------------------------------------------------------------------------
Transaction(c) ==
  \/ afr_truncate(c)
  \/ \E b \in Brick : afr_nonblocking_inodelk_cbk(c, b)
  \/ afr_lock_blocking(c)
  \/ \E b \in Brick : afr_changelog_pre_op_cbk(c, b)
  \/ \E b \in Brick : afr_truncate_wind_cbk(c, b)
  \/ \E b \in Brick : afr_changelog_post_op_cbk(c, b)

SelfHeal ==
  \/ afr_selfheal_data
  \/ \E b \in Brick : afr_selfheal_lock_cbk(b)
  \/ afr_selfheal_inodelk
  \/ AFR_SEQ
  \/ __afr_selfheal_data_prepare
  \/ \E b \in Brick : __afr_selfheal_truncate_sinks(b)
  \/ CompatLock
  \/ afr_selfheal_data_do
  \/ afr_selfheal_data_block
  \/ __afr_selfheal_data_read_write
  \/ afr_selfheal_data_fsync
  \/ afr_selfheal_undo_pending

Next ==
  \/ \E c \in Client : Transaction(c)
  \/ SelfHeal
  \/ \E q \in Proc, b \in Brick : Disconnect(q, b) \/ Connect(q, b)
  \/ \E q \in Proc : Crash(q)

Spec == Init /\ [][Next]_vars

-----------------------------------------------------------------------------
(* Properties                                                              *)

\* Every variable has its type, who waits for a lock or a reply waits for some
\* brick, and a brick's locks are those of transactions and self-heals that are
\* going on and know of them: none is left behind.
TypeOK ==
  /\ \A b \in Brick : data[b].orig \subseteq 0 .. data[b].size - 1
  /\ dirty \in [Brick -> Int] /\ pend \in [Brick -> [Brick -> Int]]
  /\ conn \in [Proc -> SUBSET Brick]
  /\ acked \subseteq 1 .. ops
  /\ \A q \in Proc :
       p[q].pc \in {"block", "preop", "fop", "postop", "write", "undo"} => p[q].todo # {}
  /\ \A b \in Brick : \A l \in lk[b] :
       \/ l[1] \in Client /\ l[2] = "data" /\ b \in p[l[1]].locked
       \/ l[1] = Healer /\ l[2] \in {"data", "compat", "block"} /\ H.pc # "idle"

Quiet == \A q \in Proc : p[q].pc = "idle"

Clean == dirty = Zero /\ \A b \in Brick : pend[b] = Zero

\* When nothing is going on and the changelog is zero on all bricks there is
\* nothing to recover: whatever died or lost its connection, they hold the same.
ChangelogTells == Quiet /\ Clean => \A a, b \in Brick : Same(data[a], data[b])

\* The truncates that a copy has been through, and they alone, have made it
\* what it is.
Intact(copy) ==
  LET ns == {Full} \cup {o[2] : o \in Range(copy.ops)}
  IN  /\ copy.orig = 0 .. Min(ns) - 1
      /\ copy.size = IF copy.ops = << >> THEN Full ELSE copy.ops[Len(copy.ops)][2]

Good(copy, o) == Intact(copy) /\ \E x \in Range(copy.ops) : x[1] = o

\* An operation that has succeeded is on a brick that is not accused and has
\* lost nothing, from where a self-heal can recover it.
AckedKept == \A o \in acked : \E b \in Brick \ Accused(pend) : Good(data[b], o)

\* What a self-heal copies to the sinks has all the operations that succeeded,
\* and nothing but operations: it goes from a good copy to the others, never
\* the other way.
SourceFresh == H.source # 0 => /\ Intact(data[H.source])
                               /\ \A o \in acked : Good(data[H.source], o)

\* q waits for a lock that conflicts with one of r's.
WaitsFor(q, r) ==
  /\ p[q].pc = "block" /\ q # r
  /\ LET b == Min(p[q].todo) IN b \in conn[q] /\ \E l \in lk[b] : l[1] = r

\* Transactions and self-heals never wait for each other in a circle.
NoLockCycle ==
  ~ \E S \in (SUBSET Proc) \ {{}} : \A q \in S : \E r \in S : WaitsFor(q, r)

=============================================================================
