---------------------------- MODULE AfrTxnProofs -----------------------------
(***************************************************************************)
(* Proofs about AfrTxn, for any number of bricks and clients, any quorum,  *)
(* any number of truncates, faults and crashes: types and locks, and that  *)
(* nobody waits in a circle.                                               *)
(***************************************************************************)
EXTENDS AfrTxn, FiniteSetTheorems, WellFoundedInduction, TLAPS

\* Most leaves are first-order: Zenon proves them.  A leaf that needs arithmetic,
\* record or sequence reasoning names SMT.
USE Zenon

Copy ==
  {copy \in [size : Nat, orig : SUBSET Nat, ops : Seq(Nat \X Nat)] :
     copy.orig \subseteq 0 .. copy.size - 1}

Kind == {"data", "compat", "block"}

Local ==
  [pc : {"idle", "trylock", "block", "preop", "fop", "postop"}, up : SUBSET Brick,
   todo : SUBSET Brick, locked : SUBSET Brick, failed : SUBSET Brick, ok : BOOLEAN,
   op : Nat, size : Nat]

HealLocal ==
  [pc : {"idle", "trylock", "block", "locked", "truncate", "write", "fsync", "undo"},
   kind : Kind, todo : SUBSET Brick, locked : SUBSET Brick, eagain : BOOLEAN,
   on : SUBSET Brick, source : Nat, sinks : SUBSET Brick, healed : SUBSET Brick,
   size : Nat, dirty : [Brick -> Int], pend : [Brick -> [Brick -> Int]], buf : Copy]

BricksTyped ==
  /\ data \in [Brick -> Copy]
  /\ dirty \in [Brick -> Int]
  /\ pend \in [Brick -> [Brick -> Int]]

Typed ==
  /\ BricksTyped
  /\ lk \in [Brick -> SUBSET (Proc \X Kind)]
  /\ conn \in [Proc -> SUBSET Brick]
  /\ p \in [Proc -> Local \cup HealLocal]
  /\ ops \in Nat /\ acked \subseteq 1 .. ops

\* A transaction that is one of the first n, has somebody to wait for, and asks
\* for locks in the order of the bricks.
Txn(t, n) ==
  /\ t \in Local
  /\ t.pc = "idle" => t.locked = {}
  /\ t.pc # "idle" => t.op \in 1 .. n
  /\ t.pc \in {"trylock", "block"} => t.up # {} /\ t.todo # {}
  /\ t.pc \in {"preop", "fop", "postop"} => t.todo # {} /\ t.locked # {}
  /\ t.pc = "block" => \A x \in t.locked, y \in t.todo : x < y

\* A self-heal past its first lock has bricks to heal and a source.
Heal(h) ==
  /\ h \in HealLocal
  /\ h.pc \in {"block", "write", "undo"} => h.todo # {}
  /\ \/ h.pc \in {"truncate", "write", "fsync", "undo"}
     \/ h.pc \in {"trylock", "block", "locked"} /\ h.kind # "data"
     => h.on # {} /\ h.source \in Brick

\* Whose a lock on b can be.
Known(b, l) ==
  \/ l[1] \in Client /\ l[2] = "data" /\ b \in p[l[1]].locked
  \/ l[1] = Healer /\ H.pc # "idle"

Locks == \A b \in Brick : \A l \in lk[b] : Known(b, l)

\* A brick's locks are those of one process.
Exclusive == \A b \in Brick : \A l, m \in lk[b] : l[1] = m[1]

Inv ==
  /\ Typed
  /\ \A c \in Client : Txn(p[c], ops)
  /\ Heal(H)
  /\ Locks
  /\ Exclusive

-----------------------------------------------------------------------------
(* Bricks, numbers and copies                                              *)

LEMMA BrickIs == Brick \in SUBSET Nat /\ Brick # {} /\ Replicas \in Nat
BY AfrAssumption, SMT DEF Brick

\* A set of numbers that is not empty has a least one.
LEMMA LeastExists ==
  ASSUME NEW S \in SUBSET Nat, S # {}
  PROVE  \E i \in S : \A j \in S : i <= j
<1>1. PICK i \in S : \A j \in S : ~ (<<j, i>> \in OpToRel(<, Nat))
  BY WFMin, NatLessThanWellFounded
<1>2. \A j \in S : ~ (j < i)
  BY <1>1 DEF OpToRel
<1> QED
  BY <1>2, SMT

\* The brick that a blocking lock is asked for.
LEMMA MinIs ==
  ASSUME NEW S \in SUBSET Brick, S # {}
  PROVE  Min(S) \in S /\ \A j \in S : Min(S) <= j
<1>1. S \in SUBSET Nat
  BY BrickIs
<1> QED
  BY <1>1, LeastExists DEF Min

\* A set of bricks has a last one.
LEMMA GreatestExists ==
  ASSUME NEW S \in SUBSET Brick, S # {}
  PROVE  \E i \in S : \A j \in S : j <= i
<1> DEFINE T == {k \in 0 .. Replicas : Replicas - k \in S}
<1>1. T \in SUBSET Nat
  BY BrickIs, SMT
<1>2. \A j \in S : Replicas - j \in T
  BY BrickIs, SMT DEF Brick
<1>3. PICK k \in T : \A j \in T : k <= j
  BY <1>1, <1>2, LeastExists
<1>4. Replicas - k \in S
  OBVIOUS
<1>5. \A j \in S : j <= Replicas - k
  <2>1. ASSUME NEW j \in S
        PROVE  j <= Replicas - k
    <3>1. k <= Replicas - j
      BY <1>2, <1>3
    <3> QED
      BY <3>1, BrickIs, SMT DEF Brick
  <2> QED
    BY <2>1
<1> QED
  BY <1>4, <1>5

LEMMA FreshCopy == Fresh \in Copy
BY AfrAssumption, SMT DEF Fresh, Copy

LEMMA ResizedCopy ==
  ASSUME NEW copy \in Copy, NEW n \in Nat
  PROVE  Resized(copy, n) \in Copy
<1> DEFINE orig == copy.orig \cap 0 .. n - 1
           new == [copy EXCEPT !.size = n, !.orig = orig]
<1>1. copy \in [size : Nat, orig : SUBSET Nat, ops : Seq(Nat \X Nat)]
  BY DEF Copy
<1>2. orig \in SUBSET Nat /\ orig \subseteq 0 .. n - 1
  BY SMT
<1>3. Resized(copy, n) = new
  BY DEF Resized
<1> HIDE DEF orig
<1>4. new \in [size : Nat, orig : SUBSET Nat, ops : Seq(Nat \X Nat)]
  BY <1>1, <1>2
<1>5. new.orig = orig /\ new.size = n
  BY <1>1, SMT
<1> HIDE DEF new
<1> QED
  BY <1>2, <1>3, <1>4, <1>5 DEF Copy

LEMMA TruncatedCopy ==
  ASSUME NEW copy \in Copy, NEW o \in Nat, NEW n \in Nat
  PROVE  Truncated(copy, o, n) \in Copy
<1> DEFINE r == Resized(copy, n)
           long == [r EXCEPT !.ops = Append(@, <<o, n>>)]
<1>1. r \in Copy
  BY ResizedCopy
<1> HIDE DEF r
<1>2. r \in [size : Nat, orig : SUBSET Nat, ops : Seq(Nat \X Nat)] /\ r.orig \subseteq 0 .. r.size - 1
  BY <1>1 DEF Copy
<1>3. Append(r.ops, <<o, n>>) \in Seq(Nat \X Nat)
  BY <1>2, SMT
<1>4. long \in [size : Nat, orig : SUBSET Nat, ops : Seq(Nat \X Nat)]
  BY <1>2, <1>3
<1>5. long.orig = r.orig /\ long.size = r.size
  BY <1>2, SMT
<1>6. Truncated(copy, o, n) = long
  BY DEF Truncated, r
<1> HIDE DEF long
<1> QED
  BY <1>2, <1>4, <1>5, <1>6 DEF Copy

LEMMA WrittenCopy ==
  ASSUME NEW copy \in Copy, NEW buf \in Copy
  PROVE  Written(copy, buf) \in Copy
<1> DEFINE orig == buf.orig \cup {i \in copy.orig : i >= buf.size}
           new == [copy EXCEPT !.orig = orig]
<1>1. /\ copy \in [size : Nat, orig : SUBSET Nat, ops : Seq(Nat \X Nat)]
      /\ buf \in [size : Nat, orig : SUBSET Nat, ops : Seq(Nat \X Nat)]
      /\ copy.orig \subseteq 0 .. copy.size - 1 /\ buf.orig \subseteq 0 .. buf.size - 1
  BY DEF Copy
<1>2. CASE buf.size >= copy.size
  BY <1>2 DEF Written
<1>3. CASE ~ (buf.size >= copy.size)
  <2>1. orig \subseteq 0 .. copy.size - 1 /\ orig \in SUBSET Nat
    BY <1>1, <1>3, SMT
  <2>2. Written(copy, buf) = new
    BY <1>3 DEF Written
  <2> HIDE DEF orig
  <2>3. new \in [size : Nat, orig : SUBSET Nat, ops : Seq(Nat \X Nat)]
    BY <1>1, <2>1
  <2>4. new.orig = orig /\ new.size = copy.size
    BY <1>1, SMT
  <2> HIDE DEF new
  <2> QED
    BY <2>1, <2>2, <2>3, <2>4 DEF Copy
<1> QED
  BY <1>2, <1>3

\* By f, every brick has the self-heal's lock of that kind.
Held(f, kind) == \A b \in Brick : <<Healer, kind>> \in f[b]

\* A self-heal h whose connections do not break, with the locks f.  It gets its
\* locks on all bricks, and has one already when it asks for the second and the
\* third, so it is never refused one of those: it waits for the first only, with
\* the locks that it has on the bricks before the one it waits for.
Settled(h, f) ==
  /\ h.pc = "trylock" /\ ~h.eagain => h.locked \cup h.todo = Brick
  /\ h.pc = "block" => /\ h.locked \cup h.todo = Brick
                       /\ h.kind = "data"
                       /\ \A x \in h.locked, y \in h.todo : x < y
  /\ h.pc \in {"trylock", "block", "locked"} => \A b \in h.locked : <<Healer, h.kind>> \in f[b]
  /\ h.pc = "locked" => h.locked = Brick
  /\ h.kind = "data" /\ h.pc \in {"trylock", "block"} =>
       \A b \in Brick : \A l \in f[b] : l[1] = Healer => l[2] = "data" /\ b \in h.locked
  /\ h.pc = "truncate" => Held(f, "data")
  /\ h.kind = "compat" /\ h.pc \in {"trylock", "locked"} => Held(f, "data") /\ ~h.eagain
  /\ h.kind = "block" /\ h.pc = "trylock" => Held(f, "compat") /\ ~h.eagain

Steady == conn[Healer] = Brick /\ Settled(H, lk)

-----------------------------------------------------------------------------
(* Locks                                                                   *)

LockMaps == [Brick -> SUBSET (Proc \X Kind)]

\* f is what lk may be after a step of q: the others' locks are as they were,
\* and q has got a lock only on bricks where the others have none.
Keeps(f, q) ==
  /\ f \in LockMaps
  /\ \A b \in Brick : \A l \in Proc \X Kind : l[1] # q => (l \in f[b] <=> l \in lk[b])
  /\ \A b \in Brick : \A l \in f[b] : l[1] = q => l \in lk[b] \/ Free(q, b)

\* The locks of c in f are those of a transaction that has locked S.
Knows(f, c, S) ==
  \A b \in Brick : \A l \in f[b] : l[1] = c => l[2] = "data" /\ b \in S

LEMMA KeepsSame ==
  ASSUME lk \in LockMaps, NEW q
  PROVE  Keeps(lk, q)
BY DEF Keeps

LEMMA KeepsGrant ==
  ASSUME lk \in LockMaps, NEW q \in Proc, NEW k \in Kind, NEW b \in Brick, Free(q, b)
  PROVE  Keeps([lk EXCEPT ![b] = @ \cup {<<q, k>>}], q)
<1> DEFINE f == [lk EXCEPT ![b] = @ \cup {<<q, k>>}]
<1>1. /\ \A a \in Brick : f[a] = IF a = b THEN lk[b] \cup {<<q, k>>} ELSE lk[a]
      /\ \A a \in Brick : lk[a] \in SUBSET (Proc \X Kind)
      /\ <<q, k>> \in Proc \X Kind
  BY DEF LockMaps
<1>2. f \in LockMaps
  BY <1>1 DEF LockMaps
<1> HIDE DEF f
<1>3. \A a \in Brick : \A l \in Proc \X Kind : l[1] # q => (l \in f[a] <=> l \in lk[a])
  <2>1. <<q, k>>[1] = q
    OBVIOUS
  <2> QED
    BY <1>1, <2>1
<1>4. \A a \in Brick : \A l \in f[a] : l[1] = q => l \in lk[a] \/ Free(q, a)
  BY <1>1
<1>5. Keeps(f, q)
  BY <1>2, <1>3, <1>4 DEF Keeps
<1> QED
  BY <1>5 DEF f

\* q may also give up locks.
LEMMA KeepsLess ==
  ASSUME NEW q, NEW f, Keeps(f, q), NEW g,
         g \in [Brick -> SUBSET (Proc \X Kind)],
         \A b \in Brick : g[b] \subseteq f[b],
         \A b \in Brick : \A l \in f[b] : l[1] # q => l \in g[b]
  PROVE  Keeps(g, q)
BY DEF Keeps, LockMaps

LEMMA KeepsWithout ==
  ASSUME NEW q, NEW k, NEW f, Keeps(f, q)
  PROVE  Keeps([b \in Brick |-> f[b] \ {<<q, k>>}], q)
<1> DEFINE g == [b \in Brick |-> f[b] \ {<<q, k>>}]
<1>1. \A b \in Brick : g[b] = f[b] \ {<<q, k>>}
  OBVIOUS
<1>2. \A b \in Brick : f[b] \in SUBSET (Proc \X Kind)
  BY DEF Keeps, LockMaps
<1>3. g \in [Brick -> SUBSET (Proc \X Kind)]
  BY <1>1, <1>2
<1>4. <<q, k>>[1] = q
  OBVIOUS
<1> HIDE DEF g
<1>5. \A b \in Brick : \A l \in f[b] : l[1] # q => l \in g[b]
  BY <1>1, <1>4
<1>6. Keeps(g, q)
  BY <1>1, <1>3, <1>5, KeepsLess
<1> QED
  BY <1>6 DEF g

LEMMA KeepsDropped ==
  ASSUME lk \in LockMaps, NEW q, NEW S
  PROVE  Keeps(Dropped(q, S), q)
<1> DEFINE g == Dropped(q, S)
<1>1. \A b \in Brick : g[b] = IF b \in S THEN {l \in lk[b] : l[1] # q} ELSE lk[b]
  BY DEF Dropped
<1>2. \A b \in Brick : lk[b] \in SUBSET (Proc \X Kind)
  BY DEF LockMaps
<1>3. \A b \in Brick : g[b] \in SUBSET (Proc \X Kind)
  BY <1>1, <1>2
<1>4. g \in [Brick -> SUBSET (Proc \X Kind)]
  BY <1>3 DEF Dropped
<1> HIDE DEF g
<1>5. \A b \in Brick : g[b] \subseteq lk[b]
  BY <1>1
<1>6. \A b \in Brick : \A l \in lk[b] : l[1] # q => l \in g[b]
  BY <1>1
<1>7. Keeps(g, q)
  BY <1>4, <1>5, <1>6, KeepsSame, KeepsLess
<1> QED
  BY <1>7 DEF g

LEMMA KeepsAfter ==
  ASSUME NEW q, NEW b \in Brick, NEW out, NEW left, Keeps(left, q),
         LocksAfter(q, b, out, left)
  PROVE  Keeps(lk', q) /\ \A a \in Brick : lk'[a] \subseteq left[a]
<1>1. left \in [Brick -> SUBSET (Proc \X Kind)]
  BY DEF Keeps, LockMaps
<1>2. CASE out = "lost"
  <2>1. lk' = [left EXCEPT ![b] = {l \in left[b] : l[1] # q}]
    BY <1>2 DEF LocksAfter
  <2>2. \A a \in Brick : lk'[a] = IF a = b THEN {l \in left[b] : l[1] # q} ELSE left[a]
    BY <1>1, <2>1
  <2>3. \A a \in Brick : lk'[a] \subseteq left[a]
    BY <2>2
  <2>4. \A a \in Brick : \A l \in left[a] : l[1] # q => l \in lk'[a]
    BY <2>2
  <2>5. lk' \in [Brick -> SUBSET (Proc \X Kind)]
    <3>1. {l \in left[b] : l[1] # q} \in SUBSET (Proc \X Kind)
      BY <1>1
    <3> QED
      BY <1>1, <2>1, <3>1
  <2> QED
    BY <2>3, <2>4, <2>5, KeepsLess
<1>3. CASE out # "lost"
  BY <1>3 DEF LocksAfter
<1> QED
  BY <1>2, <1>3

\* One process at a time.
LEMMA KeepsExclusive ==
  ASSUME lk \in LockMaps, Exclusive, NEW q \in Proc, Keeps(lk', q)
  PROVE  Exclusive'
<1> SUFFICES ASSUME NEW b \in Brick, NEW l \in lk'[b], NEW m \in lk'[b], l[1] # m[1]
             PROVE  FALSE
  BY DEF Exclusive
<1>1. l \in Proc \X Kind /\ m \in Proc \X Kind
  BY DEF Keeps, LockMaps
<1>2. ASSUME NEW x \in lk'[b], NEW y \in lk'[b], x[1] = q, y[1] # q, y \in Proc \X Kind
      PROVE  FALSE
  <2>1. y \in lk[b]
    BY <1>2 DEF Keeps
  <2>2. x \in lk[b] \/ Free(q, b)
    BY <1>2 DEF Keeps
  <2> QED
    BY <1>2, <2>1, <2>2 DEF Exclusive, Free
<1>3. CASE l[1] = q
  BY <1>1, <1>2, <1>3
<1>4. CASE m[1] = q
  BY <1>1, <1>2, <1>4
<1>5. CASE l[1] # q /\ m[1] # q
  BY <1>1, <1>5 DEF Keeps, Exclusive
<1> QED
  BY <1>3, <1>4, <1>5

LEMMA KnowsLess ==
  ASSUME NEW c, NEW S, NEW f, Knows(f, c, S), NEW g, \A b \in Brick : g[b] \subseteq f[b]
  PROVE  Knows(g, c, S)
BY DEF Knows

\* Without its "data" locks a transaction has none.
LEMMA KnowsWithout ==
  ASSUME NEW c, NEW S, NEW T, NEW f, f \in LockMaps, Knows(f, c, S)
  PROVE  Knows([b \in Brick |-> f[b] \ {<<c, "data">>}], c, T)
<1> SUFFICES ASSUME NEW b \in Brick, NEW l \in f[b] \ {<<c, "data">>}, l[1] = c
             PROVE  FALSE
  BY DEF Knows
<1>1. l[2] = "data"
  BY DEF Knows
<1>2. l \in Proc \X Kind
  BY DEF LockMaps
<1>3. l = <<l[1], l[2]>>
  BY <1>2, SMT
<1> QED
  BY <1>1, <1>3

LEMMA KnowsGrant ==
  ASSUME lk \in LockMaps, NEW c, NEW S, Knows(lk, c, S), NEW b \in Brick
  PROVE  Knows([lk EXCEPT ![b] = @ \cup {<<c, "data">>}], c, S \cup {b})
<1> DEFINE f == [lk EXCEPT ![b] = @ \cup {<<c, "data">>}]
<1>1. \A a \in Brick : f[a] = IF a = b THEN lk[b] \cup {<<c, "data">>} ELSE lk[a]
  BY DEF LockMaps
<1>2. <<c, "data">>[2] = "data"
  OBVIOUS
<1> HIDE DEF f
<1>3. Knows(f, c, S \cup {b})
  BY <1>1, <1>2 DEF Knows
<1> QED
  BY <1>3 DEF f

LEMMA InvKnows ==
  ASSUME Inv, NEW c \in Client
  PROVE  Knows(lk, c, p[c].locked)
BY AfrAssumption DEF Inv, Locks, Known, Knows

-----------------------------------------------------------------------------
(* A step of a process that keeps to its own part of the state             *)

LEMMA Procs == Client \subseteq Proc /\ Healer \in Proc /\ \A c \in Client : c # Healer
BY AfrAssumption DEF Proc

LEMMA TxnTyped ==
  ASSUME Inv, NEW c \in Client
  PROVE  /\ p[c] \in Local /\ conn[c] \in SUBSET Brick /\ ops \in Nat /\ lk \in LockMaps
         /\ Txn(p[c], ops)
BY Procs DEF Inv, Typed, Txn, LockMaps

LEMMA HealTyped ==
  ASSUME Inv
  PROVE  H \in HealLocal /\ conn[Healer] \in SUBSET Brick /\ lk \in LockMaps /\ Heal(H)
BY Procs DEF Inv, Typed, Heal, LockMaps

LEMMA TxnLater ==
  ASSUME NEW t, NEW n \in Nat, Txn(t, n), NEW m \in Nat, n <= m
  PROVE  Txn(t, m)
<1>1. t.pc # "idle" => t.op \in 1 .. m
  BY SMT DEF Txn
<1> QED
  BY <1>1 DEF Txn

\* A step of c is none of the self-heal, and leaves the locks of the others.
Aside(c) == Keeps(lk', c) /\ H' = H

LEMMA TxnStep ==
  ASSUME Inv, NEW c \in Client, NEW t,
         p' = [p EXCEPT ![c] = t], Txn(t, ops'),
         BricksTyped', conn' \in [Proc -> SUBSET Brick],
         ops' \in Nat, ops <= ops', acked' \subseteq 1 .. ops',
         Keeps(lk', c), Knows(lk', c, t.locked)
  PROVE  Inv' /\ Aside(c)
<1>1. p' \in [Proc -> Local \cup HealLocal]
  BY DEF Inv, Typed, Txn
<1>2. \A q \in Proc : p'[q] = IF q = c THEN t ELSE p[q]
  BY DEF Inv, Typed
<1>3. Typed'
  BY <1>1 DEF Typed, BricksTyped, Keeps, LockMaps
<1>4. \A d \in Client : Txn(p'[d], ops')
  <2>1. ASSUME NEW d \in Client, d # c
        PROVE  Txn(p'[d], ops')
    <3>1. p'[d] = p[d] /\ Txn(p[d], ops) /\ ops \in Nat
      BY <1>2, <2>1, Procs DEF Inv, Typed
    <3> QED
      BY <3>1, TxnLater
  <2> QED
    BY <1>2, <2>1, Procs
<1>5. H' = H
  BY <1>2, Procs DEF H
<1>6. Locks'
  <2> SUFFICES ASSUME NEW b \in Brick, NEW l \in lk'[b]
               PROVE  Known(b, l)'
    BY DEF Locks
  <2>1. CASE l[1] = c
    BY <1>2, <2>1, Procs DEF Known, Knows
  <2>2. CASE l[1] # c
    <3>1. l \in Proc \X Kind
      BY DEF Keeps, LockMaps
    <3>2. l \in lk[b]
      BY <2>2, <3>1 DEF Keeps
    <3>3. Known(b, l)
      BY <3>2 DEF Inv, Locks
    <3> QED
      BY <1>2, <1>5, <2>2, <3>3, Procs DEF Known
  <2> QED
    BY <2>1, <2>2
<1>7. Exclusive'
  BY KeepsExclusive, Procs DEF Inv, Typed, LockMaps
<1> QED
  BY <1>3, <1>4, <1>5, <1>6, <1>7 DEF Inv, Aside

LEMMA HealStep ==
  ASSUME Inv, NEW h, Becomes(h), Heal(h),
         BricksTyped', conn' \in [Proc -> SUBSET Brick], UNCHANGED <<ops, acked>>,
         Keeps(lk', Healer),
         h.pc = "idle" => \A b \in Brick : \A l \in lk'[b] : l[1] # Healer
  PROVE  Inv'
<1>1. p' = [p EXCEPT ![Healer] = h] /\ p' \in [Proc -> Local \cup HealLocal]
  BY DEF Inv, Typed, Heal, Becomes
<1>2. \A q \in Proc : p'[q] = IF q = Healer THEN h ELSE p[q]
  BY <1>1 DEF Inv, Typed
<1>3. Typed'
  BY <1>1 DEF Inv, Typed, BricksTyped, Keeps, LockMaps
<1>4. \A d \in Client : Txn(p'[d], ops') /\ p'[d] = p[d]
  BY <1>2, Procs DEF Inv
<1>5. H' = h
  BY <1>2, Procs DEF H
<1>6. Locks'
  <2> SUFFICES ASSUME NEW b \in Brick, NEW l \in lk'[b]
               PROVE  Known(b, l)'
    BY DEF Locks
  <2>1. CASE l[1] = Healer
    BY <1>5, <2>1 DEF Known
  <2>2. CASE l[1] # Healer
    <3>1. l \in Proc \X Kind
      BY DEF Keeps, LockMaps
    <3>2. l \in lk[b]
      BY <2>2, <3>1 DEF Keeps
    <3>3. Known(b, l)
      BY <3>2 DEF Inv, Locks
    <3> QED
      BY <1>4, <2>2, <3>3 DEF Known
  <2> QED
    BY <2>1, <2>2
<1>7. Exclusive'
  BY KeepsExclusive, Procs DEF Inv, Typed, LockMaps
<1> QED
  BY <1>3, <1>4, <1>5, <1>6, <1>7 DEF Inv

-----------------------------------------------------------------------------
(* Transactions                                                            *)

LEMMA IdleTxn ==
  ASSUME NEW n
  PROVE  Txn(Idle, n) /\ Idle.locked = {}
BY SMT DEF Txn, Idle, Local

LEMMA CarriedConn ==
  ASSUME conn \in [Proc -> SUBSET Brick], NEW q \in Proc, NEW b, NEW out, Carried(q, b, out)
  PROVE  conn' \in [Proc -> SUBSET Brick]
<1>1. conn[q] \ {b} \in SUBSET Brick
  OBVIOUS
<1>2. CASE out = "lost"
  BY <1>1, <1>2 DEF Carried
<1>3. CASE out # "lost"
  BY <1>3 DEF Carried
<1> QED
  BY <1>2, <1>3

LEMMA TruncateInv ==
  ASSUME Inv, NEW c \in Client, afr_truncate(c)
  PROVE  Inv' /\ Aside(c)
<1>1. PICK n \in Sizes :
        p' = [p EXCEPT ![c] = [Idle EXCEPT !.pc = "trylock", !.up = conn[c], !.todo = conn[c],
                                           !.op = ops + 1, !.size = n]]
  BY DEF afr_truncate
<1> DEFINE t == [Idle EXCEPT !.pc = "trylock", !.up = conn[c], !.todo = conn[c],
                             !.op = ops + 1, !.size = n]
<1>2. n \in Nat /\ ops \in Nat /\ conn[c] \in SUBSET Brick /\ conn[c] # {} /\ ops' = ops + 1
  BY TxnTyped, AfrAssumption DEF afr_truncate
<1>3. Txn(t, ops') /\ t.locked = {}
  <2>1. /\ t.pc = "trylock" /\ t.up = conn[c] /\ t.todo = conn[c] /\ t.locked = {}
        /\ t.op = ops + 1
    BY SMT DEF Idle
  <2>2. ops + 1 \in Nat /\ ops + 1 \in 1 .. ops'
    BY <1>2, SMT
  <2>3. Idle \in Local
    BY IdleTxn DEF Txn
  <2>4. t \in Local
    BY <1>2, <2>2, <2>3 DEF Local
  <2> HIDE DEF t
  <2> QED
    BY <1>2, <2>1, <2>2, <2>4 DEF Txn
<1>4. Knows(lk, c, {}) /\ Keeps(lk, c)
  <2>1. p[c].locked = {} /\ lk \in LockMaps
    BY TxnTyped DEF Txn, afr_truncate
  <2> QED
    BY <2>1, InvKnows, KeepsSame
<1>5. ops' \in Nat /\ ops <= ops' /\ acked' \subseteq 1 .. ops'
  BY <1>2, SMT DEF Inv, Typed, afr_truncate
<1>6. lk' = lk /\ BricksTyped' /\ conn' \in [Proc -> SUBSET Brick]
  BY DEF Inv, Typed, BricksTyped, brickVars, afr_truncate
<1>7. p' = [p EXCEPT ![c] = t]
  BY <1>1
<1> HIDE DEF t
<1> QED
  BY <1>3, <1>4, <1>5, <1>6, <1>7, TxnStep

\* A step that is about locks only.
LEMMA LockStep ==
  ASSUME Inv, NEW c \in Client, NEW t, p' = [p EXCEPT ![c] = t], Txn(t, ops),
         Keeps(lk', c), Knows(lk', c, t.locked), UNCHANGED <<brickVars, conn, acked, ops>>
  PROVE  Inv' /\ Aside(c)
<1>1. BricksTyped' /\ conn' \in [Proc -> SUBSET Brick]
  BY DEF Inv, Typed, BricksTyped, brickVars
<1>2. ops' \in Nat /\ ops <= ops' /\ acked' \subseteq 1 .. ops'
  BY SMT DEF Inv, Typed
<1> QED
  BY <1>1, <1>2, TxnStep

LEMMA PreOpInv ==
  ASSUME Inv, NEW c \in Client, NEW t \in Local, t.op \in 1 .. ops, NEW granted,
         Keeps(granted, c), Knows(granted, c, t.locked),
         afr_changelog_pre_op(c, t, granted), UNCHANGED <<brickVars, conn, acked, ops>>
  PROVE  Inv' /\ Aside(c)
<1>1. CASE t.locked # {} /\ (Quorum = 0 \/ HasQuorum(t.locked))
  <2> DEFINE u == [t EXCEPT !.pc = "preop", !.todo = t.locked, !.failed = Brick \ t.locked]
  <2>1. p' = [p EXCEPT ![c] = u] /\ lk' = granted
    BY <1>1 DEF afr_changelog_pre_op
  <2>2. u.pc = "preop" /\ u.todo = t.locked /\ u.locked = t.locked /\ u.op = t.op
    BY SMT DEF Local
  <2>3. Brick \ t.locked \in SUBSET Brick /\ t.locked \in SUBSET Brick
    BY SMT DEF Local
  <2>4. u \in Local
    BY <2>3 DEF Local
  <2> HIDE DEF u
  <2>5. Txn(u, ops)
    BY <1>1, <2>2, <2>4 DEF Txn
  <2> QED
    BY <2>1, <2>2, <2>5, LockStep
<1>2. CASE ~ (t.locked # {} /\ (Quorum = 0 \/ HasQuorum(t.locked)))
  <2>1. p' = [p EXCEPT ![c] = Idle] /\ lk' = Released(c, granted)
    BY <1>2 DEF afr_changelog_pre_op
  <2>2. granted \in LockMaps
    BY DEF Keeps
  <2>3. Keeps(lk', c) /\ Knows(lk', c, {})
    BY <2>1, <2>2, KeepsWithout, KnowsWithout DEF Released
  <2> QED
    BY <2>1, <2>3, IdleTxn, LockStep
<1> QED
  BY <1>1, <1>2

LEMMA NonblockingInv ==
  ASSUME Inv, NEW c \in Client, NEW b \in Brick, afr_nonblocking_inodelk_cbk(c, b)
  PROVE  Inv' /\ Aside(c)
<1> DEFINE g(a) == IF a = "ok" THEN [lk EXCEPT ![b] = @ \cup {<<c, "data">>}] ELSE lk
           got(a) == IF a = "ok" THEN p[c].locked \cup {b} ELSE p[c].locked
           t(a) == [p[c] EXCEPT !.todo = p[c].todo \ {b}, !.locked = got(a)]
           u(a) == [t(a) EXCEPT !.pc = "block", !.todo = t(a).up, !.locked = {}]
<1>1. PICK a \in Answers(c, b) :
        \/ t(a).todo # {} /\ p' = [p EXCEPT ![c] = t(a)] /\ lk' = g(a)
        \/ t(a).todo = {} /\ afr_changelog_pre_op(c, t(a), g(a))
        \/ t(a).todo = {} /\ p' = [p EXCEPT ![c] = u(a)] /\ lk' = Released(c, g(a))
  BY DEF afr_nonblocking_inodelk_cbk
<1>2. UNCHANGED <<brickVars, conn, acked, ops>> /\ p[c].pc = "trylock"
  BY DEF afr_nonblocking_inodelk_cbk
<1>3. p[c] \in Local /\ lk \in LockMaps /\ p[c].op \in 1 .. ops /\ p[c].up # {}
  BY <1>2, TxnTyped DEF Txn
<1>4. Keeps(g(a), c) /\ Knows(g(a), c, got(a)) /\ got(a) \in SUBSET Brick
  <2>1. CASE a = "ok"
    <3>1. Free(c, b)
      BY <2>1 DEF Answers
    <3>2. "data" \in Kind /\ c \in Proc
      BY Procs DEF Kind
    <3>3. p[c].locked \in SUBSET Brick
      BY <1>3, SMT DEF Local
    <3> QED
      BY <1>3, <2>1, <3>1, <3>2, <3>3, KeepsGrant, KnowsGrant, InvKnows
  <2>2. CASE a # "ok"
    <3>1. p[c].locked \in SUBSET Brick
      BY <1>3, SMT DEF Local
    <3> QED
      BY <1>3, <2>2, <3>1, KeepsSame, InvKnows
  <2> QED
    BY <2>1, <2>2
<1> HIDE DEF got, g
<1>9. t(a) \in Local
  <2>1. p[c].todo \ {b} \in SUBSET Brick
    BY <1>3, SMT DEF Local
  <2> QED
    BY <1>3, <1>4, <2>1 DEF Local
<1>5. t(a).op = p[c].op /\ t(a).pc = "trylock" /\ t(a).up = p[c].up /\ t(a).locked = got(a)
  BY <1>2, <1>3, SMT DEF Local
<1> HIDE DEF t
<1>6. CASE t(a).todo # {} /\ p' = [p EXCEPT ![c] = t(a)] /\ lk' = g(a)
  <2>1. Txn(t(a), ops)
    BY <1>3, <1>5, <1>6, <1>9 DEF Txn
  <2> QED
    BY <1>2, <1>4, <1>5, <1>6, <2>1, LockStep
<1>7. CASE t(a).todo = {} /\ afr_changelog_pre_op(c, t(a), g(a))
  BY <1>2, <1>3, <1>4, <1>5, <1>7, <1>9, PreOpInv
<1>8. CASE t(a).todo = {} /\ p' = [p EXCEPT ![c] = u(a)] /\ lk' = Released(c, g(a))
  <2>4. /\ u(a).pc = "block" /\ u(a).todo = p[c].up /\ u(a).up = p[c].up /\ u(a).locked = {}
        /\ u(a).op = p[c].op
    BY <1>5, <1>9, SMT DEF Local
  <2>5. u(a) \in Local
    <3>1. t(a).up \in SUBSET Brick
      BY <1>9, SMT DEF Local
    <3> QED
      BY <1>9, <3>1 DEF Local
  <2>2. g(a) \in LockMaps
    BY <1>4 DEF Keeps
  <2>3. Keeps(lk', c) /\ Knows(lk', c, {})
    BY <1>4, <1>8, <2>2, KeepsWithout, KnowsWithout DEF Released
  <2> HIDE DEF u
  <2>1. Txn(u(a), ops)
    BY <1>3, <2>4, <2>5 DEF Txn
  <2> QED
    BY <1>2, <1>8, <2>1, <2>3, <2>4, LockStep
<1> QED
  BY <1>1, <1>6, <1>7, <1>8

LEMMA BlockingInv ==
  ASSUME Inv, NEW c \in Client, afr_lock_blocking(c)
  PROVE  Inv' /\ Aside(c)
<1> DEFINE b == Min(p[c].todo)
           got == b \in conn[c]
           g == IF got THEN [lk EXCEPT ![b] = @ \cup {<<c, "data">>}] ELSE lk
           S == IF got THEN p[c].locked \cup {b} ELSE p[c].locked
           T == p[c].todo \ {b}
           t == [p[c] EXCEPT !.todo = T, !.locked = S]
<1>1. /\ got => Free(c, b)
      /\ \/ t.todo # {} /\ p' = [p EXCEPT ![c] = t] /\ lk' = g
         \/ t.todo = {} /\ afr_changelog_pre_op(c, t, g)
  BY DEF afr_lock_blocking
<1>2. UNCHANGED <<brickVars, conn, acked, ops>> /\ p[c].pc = "block"
  BY DEF afr_lock_blocking
<1>3. /\ p[c] \in Local /\ lk \in LockMaps /\ p[c].op \in 1 .. ops /\ p[c].up # {}
      /\ p[c].todo # {} /\ \A x \in p[c].locked, y \in p[c].todo : x < y
  BY <1>2, TxnTyped DEF Txn
<1>4. p[c].todo \in SUBSET Brick /\ p[c].locked \in SUBSET Brick
  BY <1>3, SMT DEF Local
<1>5. b \in p[c].todo /\ \A y \in p[c].todo : b <= y
  BY <1>3, <1>4, MinIs
<1> HIDE DEF b
<1>6. Keeps(g, c) /\ Knows(g, c, S) /\ S \in SUBSET Brick
  <2>1. "data" \in Kind /\ c \in Proc /\ b \in Brick
    BY <1>4, <1>5, Procs DEF Kind
  <2>2. CASE got
    BY <1>1, <1>3, <1>4, <2>1, <2>2, KeepsGrant, KnowsGrant, InvKnows
  <2>3. CASE ~got
    BY <1>3, <1>4, <2>3, KeepsSame, InvKnows
  <2> QED
    BY <2>2, <2>3
<1>7. \A x \in S, y \in T : x < y
  <2>1. \A y \in T : b < y
    <3>1. \A y \in T : b <= y /\ b # y /\ b \in Nat /\ y \in Nat
      BY <1>4, <1>5, BrickIs
    <3> QED
      BY <3>1, SMT
  <2> QED
    BY <1>3, <2>1
<1> HIDE DEF got, g, S
<1>8. t \in Local
  <2>1. T \in SUBSET Brick
    BY <1>4
  <2> QED
    BY <1>3, <1>6, <2>1 DEF Local
<1>9. t.op = p[c].op /\ t.pc = "block" /\ t.up = p[c].up /\ t.locked = S /\ t.todo = T
  BY <1>2, <1>3, SMT DEF Local
<1> HIDE DEF t
<1>10. CASE t.todo # {} /\ p' = [p EXCEPT ![c] = t] /\ lk' = g
  <2>1. Txn(t, ops)
    BY <1>3, <1>7, <1>8, <1>9, <1>10 DEF Txn
  <2> QED
    BY <1>2, <1>6, <1>9, <1>10, <2>1, LockStep
<1>11. CASE t.todo = {} /\ afr_changelog_pre_op(c, t, g)
  BY <1>2, <1>3, <1>6, <1>8, <1>9, <1>11, PreOpInv
<1> QED
  BY <1>1, <1>10, <1>11

\* A reply after which the transaction goes on, and one after which it is over.
LEMMA GoesOnInv ==
  ASSUME Inv, NEW c \in Client, NEW b \in Brick, NEW out, NEW t, GoesOn(c, b, out, t),
         Txn(t, ops), t.locked = p[c].locked,
         BricksTyped', conn' \in [Proc -> SUBSET Brick], ops' = ops, acked' \subseteq 1 .. ops
  PROVE  Inv' /\ Aside(c)
<1>1. p' = [p EXCEPT ![c] = t] /\ LocksAfter(c, b, out, lk)
  BY DEF GoesOn
<1>2. Keeps(lk, c) /\ Knows(lk, c, t.locked)
  BY TxnTyped, KeepsSame, InvKnows
<1>3. Keeps(lk', c) /\ \A a \in Brick : lk'[a] \subseteq lk[a]
  BY <1>1, <1>2, KeepsAfter
<1>4. Knows(lk', c, t.locked)
  BY <1>2, <1>3, KnowsLess
<1>5. ops' \in Nat /\ ops <= ops'
  BY SMT DEF Inv, Typed
<1> QED
  BY <1>1, <1>3, <1>4, <1>5, TxnStep

LEMMA OverInv ==
  ASSUME Inv, NEW c \in Client, NEW b \in Brick, NEW out, Over(c, b, out),
         BricksTyped', conn' \in [Proc -> SUBSET Brick], ops' = ops, acked' \subseteq 1 .. ops
  PROVE  Inv' /\ Aside(c)
<1> DEFINE f == Unlocked(c, "data")
<1>1. p' = [p EXCEPT ![c] = Idle] /\ LocksAfter(c, b, out, f)
  BY DEF Over
<1>2. lk \in LockMaps /\ Keeps(lk, c) /\ Knows(lk, c, p[c].locked)
  BY TxnTyped, KeepsSame, InvKnows
<1>3. Keeps(f, c) /\ Knows(f, c, {})
  BY <1>2, KeepsWithout, KnowsWithout DEF Unlocked
<1> HIDE DEF f
<1>4. Keeps(lk', c) /\ \A a \in Brick : lk'[a] \subseteq f[a]
  BY <1>1, <1>3, KeepsAfter
<1>5. Knows(lk', c, {})
  BY <1>3, <1>4, KnowsLess
<1>6. ops' \in Nat /\ ops <= ops'
  BY SMT DEF Inv, Typed
<1> QED
  BY <1>1, <1>4, <1>5, <1>6, IdleTxn, TxnStep

\* A transaction that has locked some bricks, waits for replies of one phase
\* or goes on to the next.
LEMMA MidTxn ==
  ASSUME NEW n, NEW t \in Local, t.locked # {}, t.op \in 1 .. n,
         t.pc \in {"preop", "fop", "postop"}
  PROVE  /\ t.todo # {} => Txn(t, n)
         /\ \A pc \in {"preop", "fop", "postop"} :
              /\ Txn([t EXCEPT !.pc = pc, !.todo = t.locked], n)
              /\ [t EXCEPT !.pc = pc, !.todo = t.locked].locked = t.locked
<1>1. t.todo # {} => Txn(t, n)
  BY DEF Txn
<1>2. ASSUME NEW pc \in {"preop", "fop", "postop"}
      PROVE  /\ Txn([t EXCEPT !.pc = pc, !.todo = t.locked], n)
             /\ [t EXCEPT !.pc = pc, !.todo = t.locked].locked = t.locked
  <2> DEFINE u == [t EXCEPT !.pc = pc, !.todo = t.locked]
  <2>1. t.locked \in SUBSET Brick
    BY SMT DEF Local
  <2>2. u \in Local
    BY <1>2, <2>1 DEF Local
  <2>3. u.pc = pc /\ u.todo = t.locked /\ u.locked = t.locked /\ u.op = t.op
    BY SMT DEF Local
  <2> HIDE DEF u
  <2>4. Txn(u, n)
    BY <1>2, <2>2, <2>3 DEF Txn
  <2> QED
    BY <2>3, <2>4 DEF u
<1> QED
  BY <1>1, <1>2

LEMMA MidIs ==
  ASSUME Inv, NEW c \in Client, p[c].pc \in {"preop", "fop", "postop"}
  PROVE  /\ p[c] \in Local /\ p[c].locked # {} /\ p[c].op \in 1 .. ops
         /\ p[c].todo \in SUBSET Brick /\ p[c].failed \in SUBSET Brick
         /\ p[c].op \in Nat /\ p[c].size \in Nat /\ p[c].ok \in BOOLEAN
<1>1. p[c] \in Local /\ p[c].locked # {} /\ p[c].op \in 1 .. ops
  BY TxnTyped DEF Txn
<1> QED
  BY <1>1, SMT DEF Local

LEMMA PreOpCbkInv ==
  ASSUME Inv, NEW c \in Client, NEW b \in Brick, afr_changelog_pre_op_cbk(c, b)
  PROVE  Inv' /\ Aside(c)
<1> DEFINE F(out) == IF out = "ok" THEN p[c].failed ELSE p[c].failed \cup {b}
           t(out) == [p[c] EXCEPT !.todo = p[c].todo \ {b}, !.failed = F(out)]
<1>1. PICK out \in Outcomes(c, b) :
        /\ dirty' = IF out \in Performed /\ Dirtied(t(out)) THEN [dirty EXCEPT ![b] = @ + 1]
                                                            ELSE dirty
        /\ GoesOn(c, b, out, IF t(out).todo = {}
                             THEN [t(out) EXCEPT !.pc = "fop", !.todo = t(out).locked]
                             ELSE t(out))
        /\ Carried(c, b, out)
  BY DEF afr_changelog_pre_op_cbk
<1>2. UNCHANGED <<data, pend, acked, ops>> /\ p[c].pc = "preop"
  BY DEF afr_changelog_pre_op_cbk
<1>3. /\ p[c] \in Local /\ p[c].locked # {} /\ p[c].op \in 1 .. ops
      /\ p[c].todo \in SUBSET Brick /\ p[c].failed \in SUBSET Brick
  BY <1>2, MidIs
<1>4. F(out) \in SUBSET Brick /\ p[c].todo \ {b} \in SUBSET Brick
  BY <1>3
<1> HIDE DEF F
<1>5. t(out) \in Local
  BY <1>3, <1>4 DEF Local
<1>6. t(out).pc = "preop" /\ t(out).locked = p[c].locked /\ t(out).op = p[c].op
  BY <1>2, <1>3, SMT DEF Local
<1> HIDE DEF t
<1> DEFINE u == IF t(out).todo = {} THEN [t(out) EXCEPT !.pc = "fop", !.todo = t(out).locked]
                                    ELSE t(out)
<1>7. Txn(u, ops) /\ u.locked = p[c].locked
  BY <1>3, <1>5, <1>6, MidTxn
<1>8. BricksTyped'
  <2>1. data \in [Brick -> Copy] /\ dirty \in [Brick -> Int] /\ pend \in [Brick -> [Brick -> Int]]
    BY DEF Inv, Typed, BricksTyped
  <2>2. dirty' \in [Brick -> Int]
    <3>1. dirty[b] + 1 \in Int
      BY <2>1, SMT
    <3> QED
      BY <1>1, <2>1, <3>1
  <2> QED
    BY <1>2, <2>1, <2>2 DEF BricksTyped
<1>9. conn' \in [Proc -> SUBSET Brick] /\ ops' = ops /\ acked' \subseteq 1 .. ops
  BY <1>1, <1>2, CarriedConn, Procs DEF Inv, Typed
<1>10. GoesOn(c, b, out, u)
  BY <1>1
<1> HIDE DEF u
<1> QED
  BY <1>7, <1>8, <1>9, <1>10, GoesOnInv

LEMMA WindCbkInv ==
  ASSUME Inv, NEW c \in Client, NEW b \in Brick, afr_truncate_wind_cbk(c, b)
  PROVE  Inv' /\ Aside(c)
<1> DEFINE F(out) == IF out = "ok" THEN p[c].failed ELSE p[c].failed \cup {b}
           ok(out) == p[c].ok \/ out = "ok"
           t(out) == [p[c] EXCEPT !.todo = p[c].todo \ {b}, !.failed = F(out), !.ok = ok(out)]
           u(out) == [t(out) EXCEPT !.pc = "postop", !.todo = t(out).locked]
<1>1. PICK out \in Outcomes(c, b) \cup (IF b \in conn[c] /\ faults < MaxFault THEN {"refused"} ELSE {}) :
        /\ data' = IF out \in Performed THEN [data EXCEPT ![b] = Truncated(@, t(out).op, t(out).size)]
                                        ELSE data
        /\ IF out = "refused" THEN faults' = faults + 1 /\ UNCHANGED conn ELSE Carried(c, b, out)
        /\ \/ t(out).todo # {} /\ GoesOn(c, b, out, t(out)) /\ UNCHANGED acked
           \/ /\ GoesOn(c, b, out, u(out))
              /\ acked' = IF NothingFailed(t(out)) THEN acked \cup {t(out).op} ELSE acked
           \/ /\ Over(c, b, out)
              /\ acked' = IF Succeeds(t(out)) THEN acked \cup {t(out).op} ELSE acked
  BY ZenonT(60) DEF afr_truncate_wind_cbk
<1>2. UNCHANGED <<dirty, pend, ops>> /\ p[c].pc = "fop"
  BY DEF afr_truncate_wind_cbk
<1>3. /\ p[c] \in Local /\ p[c].locked # {} /\ p[c].op \in 1 .. ops
      /\ p[c].todo \in SUBSET Brick /\ p[c].failed \in SUBSET Brick
      /\ p[c].op \in Nat /\ p[c].size \in Nat
  BY <1>2, MidIs
<1>4. F(out) \in SUBSET Brick /\ p[c].todo \ {b} \in SUBSET Brick /\ ok(out) \in BOOLEAN
  BY <1>3
<1> HIDE DEF F, ok
<1>5. t(out) \in Local
  BY <1>3, <1>4 DEF Local
<1>6. /\ t(out).pc = "fop" /\ t(out).locked = p[c].locked /\ t(out).op = p[c].op
      /\ t(out).size = p[c].size
  BY <1>2, <1>3, SMT DEF Local
<1> HIDE DEF t
<1>7. /\ t(out).todo # {} => Txn(t(out), ops)
      /\ Txn(u(out), ops) /\ u(out).locked = p[c].locked
  BY <1>3, <1>5, <1>6, MidTxn
<1> HIDE DEF u
<1>8. BricksTyped'
  <2>1. data \in [Brick -> Copy] /\ dirty \in [Brick -> Int] /\ pend \in [Brick -> [Brick -> Int]]
    BY DEF Inv, Typed, BricksTyped
  <2>2. Truncated(data[b], t(out).op, t(out).size) \in Copy
    BY <1>3, <1>6, <2>1, TruncatedCopy
  <2>3. data' \in [Brick -> Copy]
    BY <1>1, <2>1, <2>2
  <2> QED
    BY <1>2, <2>1, <2>3 DEF BricksTyped
<1>9. conn' \in [Proc -> SUBSET Brick]
  BY <1>1, CarriedConn, Procs DEF Inv, Typed
<1>10. acked' \subseteq 1 .. ops
  <2>1. acked \subseteq 1 .. ops /\ t(out).op \in 1 .. ops
    BY <1>3, <1>6 DEF Inv, Typed
  <2> QED
    BY <1>1, <2>1
<1>11. CASE t(out).todo # {} /\ GoesOn(c, b, out, t(out))
  BY <1>2, <1>6, <1>7, <1>8, <1>9, <1>10, <1>11, GoesOnInv
<1>12. CASE GoesOn(c, b, out, u(out))
  BY <1>2, <1>7, <1>8, <1>9, <1>10, <1>12, GoesOnInv
<1>13. CASE Over(c, b, out)
  BY <1>2, <1>8, <1>9, <1>10, <1>13, OverInv
<1> QED
  BY <1>1, <1>11, <1>12, <1>13

LEMMA PostOpCbkInv ==
  ASSUME Inv, NEW c \in Client, NEW b \in Brick, afr_changelog_post_op_cbk(c, b)
  PROVE  Inv' /\ Aside(c)
<1> DEFINE t == [p[c] EXCEPT !.todo = @ \ {b}]
<1>1. PICK out \in Outcomes(c, b) :
        /\ IF out \in Performed
           THEN /\ dirty' = IF Dirtied(t) THEN [dirty EXCEPT ![b] = @ - 1] ELSE dirty
                /\ pend' = [pend EXCEPT ![b] = [j \in Brick |->
                              IF j \in Blamed(t) THEN pend[b][j] + 1 ELSE pend[b][j]]]
           ELSE UNCHANGED <<dirty, pend>>
        /\ Carried(c, b, out)
        /\ \/ t.todo # {} /\ GoesOn(c, b, out, t) /\ UNCHANGED acked
           \/ Over(c, b, out) /\ acked' = acked \cup {t.op}
  BY DEF afr_changelog_post_op_cbk
<1>2. UNCHANGED <<data, ops>> /\ p[c].pc = "postop"
  BY DEF afr_changelog_post_op_cbk
<1>3. /\ p[c] \in Local /\ p[c].locked # {} /\ p[c].op \in 1 .. ops
      /\ p[c].todo \in SUBSET Brick
  BY <1>2, MidIs
<1>4. t \in Local
  <2>1. p[c].todo \ {b} \in SUBSET Brick
    BY <1>3
  <2> QED
    BY <1>3, <2>1 DEF Local
<1>5. t.pc = "postop" /\ t.locked = p[c].locked /\ t.op = p[c].op
  BY <1>2, <1>3, SMT DEF Local
<1> HIDE DEF t
<1>6. t.todo # {} => Txn(t, ops)
  BY <1>3, <1>4, <1>5, MidTxn
<1>7. BricksTyped'
  <2>1. data \in [Brick -> Copy] /\ dirty \in [Brick -> Int] /\ pend \in [Brick -> [Brick -> Int]]
    BY DEF Inv, Typed, BricksTyped
  <2>2. dirty' \in [Brick -> Int]
    <3>1. dirty[b] - 1 \in Int
      BY <2>1, SMT
    <3> QED
      BY <1>1, <2>1, <3>1
  <2>3. pend' \in [Brick -> [Brick -> Int]]
    <3> DEFINE row == [j \in Brick |-> IF j \in Blamed(t) THEN pend[b][j] + 1 ELSE pend[b][j]]
    <3>1. \A j \in Brick : pend[b][j] \in Int
      BY <2>1
    <3>2. \A j \in Brick : pend[b][j] + 1 \in Int
      BY <3>1, SMT
    <3>3. row \in [Brick -> Int]
      BY <3>1, <3>2
    <3>4. pend' = [pend EXCEPT ![b] = row] \/ pend' = pend
      BY <1>1
    <3> HIDE DEF row
    <3> QED
      BY <2>1, <3>3, <3>4
  <2> QED
    BY <1>2, <2>1, <2>2, <2>3 DEF BricksTyped
<1>8. conn' \in [Proc -> SUBSET Brick]
  BY <1>1, CarriedConn, Procs DEF Inv, Typed
<1>9. acked' \subseteq 1 .. ops
  <2>1. acked \subseteq 1 .. ops /\ t.op \in 1 .. ops
    BY <1>3, <1>5 DEF Inv, Typed
  <2> QED
    BY <1>1, <2>1
<1>10. CASE t.todo # {} /\ GoesOn(c, b, out, t)
  BY <1>2, <1>5, <1>6, <1>7, <1>8, <1>9, <1>10, GoesOnInv
<1>11. CASE Over(c, b, out)
  BY <1>2, <1>7, <1>8, <1>9, <1>11, OverInv
<1> QED
  BY <1>1, <1>10, <1>11

LEMMA TransactionInv ==
  ASSUME Inv, NEW c \in Client, Transaction(c)
  PROVE  Inv' /\ Aside(c)
BY TruncateInv, NonblockingInv, BlockingInv, PreOpCbkInv, WindCbkInv, PostOpCbkInv
   DEF Transaction

LEMMA ConnectionInv ==
  ASSUME Inv, NEW q \in Proc, NEW b \in Brick, Disconnect(q, b) \/ Connect(q, b)
  PROVE  Inv'
<1>1. BricksTyped' /\ UNCHANGED <<p, ops, acked>>
  BY DEF Inv, Typed, BricksTyped, brickVars, Disconnect, Connect
<1>2. conn' \in [Proc -> SUBSET Brick]
  <2>1. conn[q] \ {b} \in SUBSET Brick /\ conn[q] \cup {b} \in SUBSET Brick
    BY DEF Inv, Typed
  <2> QED
    BY <2>1 DEF Inv, Typed, Disconnect, Connect
<1>3. Keeps(lk', q) /\ \A a \in Brick : lk'[a] \subseteq lk[a]
  <2>1. lk \in LockMaps
    BY DEF Inv, Typed, LockMaps
  <2>2. CASE lk' = lk
    BY <2>1, <2>2, KeepsSame
  <2>3. CASE lk' = Dropped(q, {b})
    BY <2>1, <2>3, KeepsDropped DEF Dropped
  <2> QED
    BY <2>2, <2>3 DEF Disconnect, Connect
<1>4. Typed'
  BY <1>1, <1>2, <1>3 DEF Inv, Typed, Keeps, LockMaps
<1>5. Locks'
  BY <1>1, <1>3 DEF Inv, Locks, Known, H
<1>6. Exclusive'
  BY <1>3, KeepsExclusive DEF Inv, Typed, LockMaps
<1> QED
  BY <1>1, <1>4, <1>5, <1>6 DEF Inv, H

-----------------------------------------------------------------------------
(* Self-heal                                                               *)

LEMMA AsleepHeal == Heal(Asleep) /\ Asleep.pc = "idle"
<1>1. Zero \in [Brick -> Int] /\ [b \in Brick |-> Zero] \in [Brick -> [Brick -> Int]]
  BY SMT DEF Zero
<1>2. Asleep \in HealLocal
  BY <1>1, FreshCopy, SMT DEF Asleep, HealLocal, Kind
<1>3. Asleep.pc = "idle"
  BY SMT DEF Asleep
<1> QED
  BY <1>2, <1>3 DEF Heal

\* The fields of a self-heal.
LEMMA HealFields ==
  ASSUME Inv
  PROVE  /\ H \in HealLocal
         /\ H.pc \in {"idle", "trylock", "block", "locked", "truncate", "write", "fsync", "undo"}
         /\ H.kind \in Kind /\ H.todo \in SUBSET Brick /\ H.locked \in SUBSET Brick
         /\ H.eagain \in BOOLEAN /\ H.on \in SUBSET Brick /\ H.sinks \in SUBSET Brick
         /\ H.healed \in SUBSET Brick /\ H.size \in Nat
         /\ H.dirty \in [Brick -> Int] /\ H.pend \in [Brick -> [Brick -> Int]] /\ H.buf \in Copy
<1>1. H \in HealLocal
  BY HealTyped
<1> QED
  BY <1>1, SMT DEF HealLocal

LEMMA HealOverInv ==
  ASSUME Inv, HealOver, BricksTyped', conn' \in [Proc -> SUBSET Brick], UNCHANGED <<ops, acked>>
  PROVE  Inv'
<1>1. Becomes(Asleep) /\ lk' = Dropped(Healer, Brick)
  BY DEF HealOver
<1>2. Keeps(lk', Healer)
  BY <1>1, HealTyped, KeepsDropped
<1>3. \A b \in Brick : \A l \in lk'[b] : l[1] # Healer
  BY <1>1 DEF Dropped
<1> QED
  BY <1>1, <1>2, <1>3, AsleepHeal, HealStep

\* A step of a self-heal that is not over and leaves the bricks alone.
LEMMA HealOnInv ==
  ASSUME Inv, NEW h, Becomes(h), Heal(h), h.pc # "idle", Keeps(lk', Healer),
         UNCHANGED <<brickVars, conn, ops, acked>>
  PROVE  Inv'
<1>1. BricksTyped' /\ conn' \in [Proc -> SUBSET Brick]
  BY DEF Inv, Typed, BricksTyped, brickVars
<1> QED
  BY <1>1, HealStep

\* A self-heal that has a source asks for a lock.
LEMMA AskHeal ==
  ASSUME Inv, NEW h \in HealLocal, NEW kind \in Kind,
         kind # "data" => h.on # {} /\ h.source \in Brick
  PROVE  Heal(Ask(h, kind)) /\ Ask(h, kind).pc = "trylock"
<1> DEFINE a == Ask(h, kind)
<1>1. conn[Healer] \in SUBSET Brick
  BY HealTyped
<1>2. a \in HealLocal
  BY <1>1 DEF HealLocal, Ask
<1>3. a.pc = "trylock" /\ a.kind = kind /\ a.on = h.on /\ a.source = h.source
  BY SMT DEF HealLocal, Ask
<1> HIDE DEF a
<1>4. Heal(a)
  BY <1>2, <1>3 DEF Heal
<1> QED
  BY <1>3, <1>4 DEF a

LEMMA SelfHealDataInv ==
  ASSUME Inv, afr_selfheal_data
  PROVE  Inv'
<1>1. Becomes(Ask(Asleep, "data")) /\ UNCHANGED <<brickVars, lk, conn, acked, ops>>
  BY DEF afr_selfheal_data
<1>2. Asleep \in HealLocal /\ "data" \in Kind
  BY AsleepHeal DEF Heal, Kind
<1>3. Heal(Ask(Asleep, "data")) /\ Ask(Asleep, "data").pc = "trylock"
  BY <1>2, AskHeal
<1>4. Keeps(lk', Healer)
  BY <1>1, HealTyped, KeepsSame
<1> QED
  BY <1>1, <1>3, <1>4, HealOnInv

LEMMA HealLockCbkInv ==
  ASSUME Inv, NEW b \in Brick, afr_selfheal_lock_cbk(b)
  PROVE  Inv'
<1> DEFINE S(a) == IF a = "ok" THEN H.locked \cup {b} ELSE H.locked
           e(a) == H.eagain \/ a = "EAGAIN"
           h(a) == [H EXCEPT !.todo = H.todo \ {b}, !.locked = S(a), !.eagain = e(a)]
<1>1. PICK a \in Answers(Healer, b) :
        /\ lk' = IF a = "ok" THEN [lk EXCEPT ![b] = @ \cup {<<Healer, H.kind>>}] ELSE lk
        /\ Becomes(h(a))
  BY DEF afr_selfheal_lock_cbk
<1>2. H.pc = "trylock" /\ UNCHANGED <<brickVars, conn, acked, ops>>
  BY DEF afr_selfheal_lock_cbk
<1>3. Keeps(lk', Healer)
  <2>1. CASE a = "ok"
    <3>1. Free(Healer, b)
      BY <2>1 DEF Answers
    <3> QED
      BY <1>1, <2>1, <3>1, KeepsGrant, HealTyped, HealFields, Procs
  <2>2. CASE a # "ok"
    BY <1>1, <2>2, KeepsSame, HealTyped
  <2> QED
    BY <2>1, <2>2
<1>4. S(a) \in SUBSET Brick /\ e(a) \in BOOLEAN /\ H.todo \ {b} \in SUBSET Brick
  BY HealFields
<1> HIDE DEF S, e
<1>5. h(a) \in HealLocal
  BY <1>4, HealFields DEF HealLocal
<1>6. /\ h(a).pc = "trylock" /\ h(a).kind = H.kind /\ h(a).on = H.on /\ h(a).source = H.source
  BY <1>2, HealFields, SMT DEF HealLocal
<1> HIDE DEF h
<1>7. Heal(h(a))
  BY <1>2, <1>5, <1>6, HealTyped DEF Heal
<1> QED
  BY <1>1, <1>2, <1>3, <1>6, <1>7, HealOnInv

LEMMA HealInodelkInv ==
  ASSUME Inv, afr_selfheal_inodelk
  PROVE  Inv'
<1>1. H.pc = "trylock" /\ UNCHANGED <<brickVars, conn, acked, ops>>
  BY DEF afr_selfheal_inodelk
<1>2. CASE lk' = Unlocked(Healer, H.kind)
           /\ Becomes([H EXCEPT !.pc = "block", !.todo = Brick, !.locked = {}])
  <2> DEFINE h == [H EXCEPT !.pc = "block", !.todo = Brick, !.locked = {}]
  <2>1. h \in HealLocal
    BY HealFields DEF HealLocal
  <2>2. h.pc = "block" /\ h.todo = Brick /\ h.kind = H.kind /\ h.on = H.on /\ h.source = H.source
    BY HealFields, SMT DEF HealLocal
  <2> HIDE DEF h
  <2>3. Heal(h)
    BY <1>1, <2>1, <2>2, HealTyped, BrickIs DEF Heal
  <2>4. Keeps(lk', Healer)
    BY <1>2, HealTyped, KeepsSame, KeepsWithout DEF Unlocked
  <2> QED
    BY <1>1, <1>2, <2>2, <2>3, <2>4, HealOnInv DEF h
<1>3. CASE Becomes([H EXCEPT !.pc = "locked"]) /\ UNCHANGED lk
  <2> DEFINE h == [H EXCEPT !.pc = "locked"]
  <2>1. h \in HealLocal
    BY HealFields DEF HealLocal
  <2>2. h.pc = "locked" /\ h.kind = H.kind /\ h.on = H.on /\ h.source = H.source
    BY HealFields, SMT DEF HealLocal
  <2> HIDE DEF h
  <2>3. Heal(h)
    BY <1>1, <2>1, <2>2, HealTyped DEF Heal
  <2>4. Keeps(lk', Healer)
    BY <1>3, HealTyped, KeepsSame
  <2> QED
    BY <1>1, <1>3, <2>2, <2>3, <2>4, HealOnInv DEF h
<1> QED
  BY <1>2, <1>3 DEF afr_selfheal_inodelk

LEMMA HealSeqInv ==
  ASSUME Inv, AFR_SEQ
  PROVE  Inv'
<1> DEFINE b == Min(H.todo)
           got == b \in conn[Healer]
           S == IF got THEN H.locked \cup {b} ELSE H.locked
           T == H.todo \ {b}
           pc == IF H.todo = {b} THEN "locked" ELSE H.pc
           h == [H EXCEPT !.todo = T, !.locked = S, !.pc = pc]
<1>1. /\ got => Free(Healer, b)
      /\ lk' = IF got THEN [lk EXCEPT ![b] = @ \cup {<<Healer, H.kind>>}] ELSE lk
      /\ Becomes(h)
  BY DEF AFR_SEQ
<1>2. H.pc = "block" /\ UNCHANGED <<brickVars, conn, acked, ops>>
  BY DEF AFR_SEQ
<1>3. H.todo # {}
  BY <1>2, HealTyped DEF Heal
<1>4. b \in H.todo /\ b \in Brick
  BY <1>3, HealFields, MinIs
<1> HIDE DEF b
<1>5. Keeps(lk', Healer)
  <2>1. CASE got
    BY <1>1, <1>4, <2>1, KeepsGrant, HealTyped, HealFields, Procs
  <2>2. CASE ~got
    BY <1>1, <2>2, KeepsSame, HealTyped
  <2> QED
    BY <2>1, <2>2
<1>6. S \in SUBSET Brick /\ T \in SUBSET Brick /\ pc \in {"block", "locked"}
      /\ (pc = "block" => T # {})
  BY <1>2, <1>3, <1>4, HealFields
<1> HIDE DEF S, T, pc
<1>7. h \in HealLocal
  BY <1>6, HealFields DEF HealLocal
<1>8. h.pc = pc /\ h.todo = T /\ h.kind = H.kind /\ h.on = H.on /\ h.source = H.source
  BY HealFields, SMT DEF HealLocal
<1> HIDE DEF h
<1>9. Heal(h) /\ h.pc # "idle"
  BY <1>2, <1>6, <1>7, <1>8, HealTyped DEF Heal
<1> QED
  BY <1>1, <1>2, <1>5, <1>9, HealOnInv

\* The source is a brick that was locked.
LEMMA FinalIs ==
  ASSUME NEW m, NEW d, NEW on, NEW R, Sources(m, on) # {}, NEW S \in FinalSources(m, d, on, R)
  PROVE  S \subseteq on /\ S # {}
<1> DEFINE src == Sources(m, on)
           size == [s \in src |-> IF s \in R THEN data[s].size ELSE 0]
           large == {s \in src : \A t \in src : size[t] <= size[s]}
           most == {s \in large : \A t \in large : witness(m, d, t) <= witness(m, d, s)}
<1>1. src \subseteq on
  BY DEF Sources
<1>2. most \subseteq src
  OBVIOUS
<1>3. S \in {src} \/ S \in {{s} : s \in most}
  BY DEF FinalSources
<1> HIDE DEF src, most
<1> QED
  BY <1>1, <1>2, <1>3 DEF src

LEMMA PrepareInv ==
  ASSUME Inv, __afr_selfheal_data_prepare
  PROVE  Inv'
<1> DEFINE R == conn[Healer]
           m == [i \in Brick |-> IF i \in R THEN pend[i] ELSE Zero]
           d == [i \in Brick |-> IF i \in R THEN dirty[i] ELSE 0]
           on == H.locked
           sinks == Sinks(m, on)
           n(S) == IF Min(S) \in R THEN data[Min(S)].size ELSE 0
           h(S) == [H EXCEPT !.pc = "truncate", !.on = on, !.source = Min(S),
                             !.sinks = sinks, !.healed = on \ S, !.todo = on \ S,
                             !.dirty = d, !.pend = m, !.size = n(S)]
<1>1. \/ HealOver
      \/ /\ Sources(m, on) # {}
         /\ \E S \in FinalSources(m, d, on, R) : Becomes(h(S)) /\ UNCHANGED lk
  BY DEF __afr_selfheal_data_prepare
<1>2. UNCHANGED <<brickVars, conn, acked, ops>>
  BY DEF __afr_selfheal_data_prepare
<1>3. /\ data \in [Brick -> Copy] /\ dirty \in [Brick -> Int] /\ pend \in [Brick -> [Brick -> Int]]
      /\ conn \in [Proc -> SUBSET Brick]
  BY DEF Inv, Typed, BricksTyped
<1>4. CASE HealOver
  BY <1>2, <1>3, <1>4, HealOverInv DEF brickVars, BricksTyped
<1>5. ASSUME Sources(m, on) # {}, NEW S \in FinalSources(m, d, on, R), Becomes(h(S)), UNCHANGED lk
      PROVE  Inv'
  <2> HIDE DEF m, d, on, R, h
  <2>1. S \subseteq on /\ S # {}
    BY <1>5, FinalIs
  <2> USE DEF m, d, on, R, h
  <2>2. Min(S) \in Brick
    BY <2>1, HealFields, MinIs
  <2>3. n(S) \in Nat
    <3>1. data[Min(S)] \in Copy
      BY <1>3, <2>2
    <3>2. data[Min(S)].size \in Nat
      BY <3>1, SMT DEF Copy
    <3>3. 0 \in Nat
      BY SMT
    <3> QED
      BY <3>2, <3>3
  <2>4. Zero \in [Brick -> Int] /\ 0 \in Int
    BY SMT DEF Zero
  <2>5. d \in [Brick -> Int] /\ m \in [Brick -> [Brick -> Int]]
    BY <1>3, <2>4
  <2>6. sinks \in SUBSET Brick /\ on \in SUBSET Brick /\ on \ S \in SUBSET Brick /\ Min(S) \in Nat
    BY <2>2, HealFields, BrickIs DEF Sinks
  <2> HIDE DEF n, d, m, sinks, on
  <2>7. h(S) \in HealLocal
    BY <2>3, <2>5, <2>6, HealFields DEF HealLocal
  <2>8. h(S).pc = "truncate" /\ h(S).on = on /\ h(S).source = Min(S)
    BY HealFields, SMT DEF HealLocal
  <2> HIDE DEF h
  <2>9. Heal(h(S))
    BY <2>1, <2>2, <2>7, <2>8 DEF Heal
  <2>10. Keeps(lk', Healer)
    BY <1>5, HealTyped, KeepsSame
  <2> QED
    BY <1>2, <1>5, <2>8, <2>9, <2>10, HealOnInv
<1> QED
  BY <1>1, <1>4, <1>5

\* A step of a self-heal at a brick, after which it goes on or is over.
LEMMA HealAtInv ==
  ASSUME Inv, NEW b \in Brick, NEW out, Carried(Healer, b, out), BricksTyped',
         UNCHANGED <<ops, acked>>, NEW h,
         \/ HealOver
         \/ Becomes(h) /\ Heal(h) /\ h.pc # "idle" /\ (\/ LocksAfter(Healer, b, out, lk)
                                                       \/ lk' = Unlocked(Healer, "block"))
  PROVE  Inv'
<1>1. conn' \in [Proc -> SUBSET Brick]
  BY CarriedConn, Procs DEF Inv, Typed
<1>2. CASE HealOver
  BY <1>1, <1>2, HealOverInv
<1>3. CASE Becomes(h) /\ Heal(h) /\ h.pc # "idle" /\ LocksAfter(Healer, b, out, lk)
  <2>1. Keeps(lk', Healer)
    BY <1>3, HealTyped, KeepsSame, KeepsAfter
  <2> QED
    BY <1>1, <1>3, <2>1, HealStep
<1>4. CASE Becomes(h) /\ Heal(h) /\ h.pc # "idle" /\ lk' = Unlocked(Healer, "block")
  <2>0. Keeps(lk, Healer)
    BY HealTyped, KeepsSame
  <2>1. Keeps(lk', Healer)
    BY <1>4, <2>0, KeepsWithout DEF Unlocked
  <2> QED
    BY <1>1, <1>4, <2>1, HealStep
<1> QED
  BY <1>2, <1>3, <1>4

LEMMA TruncateSinksInv ==
  ASSUME Inv, NEW b \in Brick, __afr_selfheal_truncate_sinks(b)
  PROVE  Inv'
<1> DEFINE D(out) == IF out = "ok" THEN H.healed ELSE H.healed \ {b}
           h(out) == [H EXCEPT !.todo = H.todo \ {b}, !.healed = D(out)]
           cut == Resized(data[b], H.size)
           copy == IF Same(cut, data[H.source]) THEN data[H.source] ELSE cut
<1>1. PICK out \in Outcomes(Healer, b) :
        /\ data' = IF out \notin Performed THEN data ELSE [data EXCEPT ![b] = copy]
        /\ Becomes(h(out))
        /\ LocksAfter(Healer, b, out, lk)
        /\ Carried(Healer, b, out)
  BY DEF __afr_selfheal_truncate_sinks
<1>2. H.pc = "truncate" /\ UNCHANGED <<dirty, pend, acked, ops>>
  BY DEF __afr_selfheal_truncate_sinks
<1>3. H.on # {} /\ H.source \in Brick
  BY <1>2, HealTyped DEF Heal
<1>4. BricksTyped'
  <2>1. data \in [Brick -> Copy] /\ dirty \in [Brick -> Int] /\ pend \in [Brick -> [Brick -> Int]]
    BY DEF Inv, Typed, BricksTyped
  <2>2. copy \in Copy
    BY <1>3, <2>1, ResizedCopy, HealFields
  <2> HIDE DEF copy
  <2> QED
    BY <1>1, <1>2, <2>1, <2>2 DEF BricksTyped
<1>5. D(out) \in SUBSET Brick /\ H.todo \ {b} \in SUBSET Brick
  BY HealFields
<1> HIDE DEF D
<1>6. h(out) \in HealLocal
  BY <1>5, HealFields DEF HealLocal
<1>7. h(out).pc = "truncate" /\ h(out).on = H.on /\ h(out).source = H.source
  BY <1>2, HealFields, SMT DEF HealLocal
<1> HIDE DEF h
<1>8. Heal(h(out))
  BY <1>3, <1>6, <1>7 DEF Heal
<1> QED
  BY <1>1, <1>2, <1>4, <1>7, <1>8, HealAtInv

LEMMA CompatLockInv ==
  ASSUME Inv, CompatLock
  PROVE  Inv'
<1>1. H.pc = "truncate" /\ Becomes(Ask(H, "compat")) /\ UNCHANGED <<brickVars, lk, conn, acked, ops>>
  BY DEF CompatLock
<1>2. H.on # {} /\ H.source \in Brick /\ H \in HealLocal /\ "compat" \in Kind
  BY <1>1, HealTyped DEF Heal, Kind
<1>3. Heal(Ask(H, "compat")) /\ Ask(H, "compat").pc = "trylock"
  BY <1>2, AskHeal
<1>4. Keeps(lk', Healer)
  BY <1>1, HealTyped, KeepsSame
<1> QED
  BY <1>1, <1>3, <1>4, HealOnInv

\* A self-heal that is past the locks goes to the next of its last phases.
LEMMA LastPhase ==
  ASSUME Inv, H.on # {}, H.source \in Brick
  PROVE  /\ Heal([H EXCEPT !.pc = "fsync"]) /\ [H EXCEPT !.pc = "fsync"].pc = "fsync"
         /\ \A T, D \in SUBSET Brick : T # {} =>
              LET h == [H EXCEPT !.pc = "undo", !.healed = D, !.todo = T]
              IN  Heal(h) /\ h.pc = "undo"
<1> DEFINE f == [H EXCEPT !.pc = "fsync"]
<1>1. f \in HealLocal
  BY HealFields DEF HealLocal
<1>2. f.pc = "fsync" /\ f.on = H.on /\ f.source = H.source
  BY HealFields, SMT DEF HealLocal
<1> HIDE DEF f
<1>3. Heal(f)
  BY <1>1, <1>2 DEF Heal
<1>4. ASSUME NEW T \in SUBSET Brick, NEW D \in SUBSET Brick, T # {}
      PROVE  LET h == [H EXCEPT !.pc = "undo", !.healed = D, !.todo = T]
             IN  Heal(h) /\ h.pc = "undo"
  <2> DEFINE h == [H EXCEPT !.pc = "undo", !.healed = D, !.todo = T]
  <2>1. h \in HealLocal
    BY HealFields DEF HealLocal
  <2>2. h.pc = "undo" /\ h.on = H.on /\ h.source = H.source /\ h.todo = T
    BY HealFields, SMT DEF HealLocal
  <2> HIDE DEF h
  <2>3. Heal(h)
    BY <1>4, <2>1, <2>2 DEF Heal
  <2> QED
    BY <2>2, <2>3 DEF h
<1> QED
  BY <1>2, <1>3, <1>4 DEF f

LEMMA DataDoInv ==
  ASSUME Inv, afr_selfheal_data_do
  PROVE  Inv'
<1>1. H.pc = "locked" /\ H.kind = "compat" /\ UNCHANGED <<brickVars, conn, acked, ops>>
  BY DEF afr_selfheal_data_do
<1>2. H.on # {} /\ H.source \in Brick /\ H \in HealLocal /\ "block" \in Kind
  BY <1>1, HealTyped DEF Heal, Kind
<1>3. Keeps(Unlocked(Healer, "data"), Healer)
  BY HealTyped, KeepsSame, KeepsWithout DEF Unlocked
<1>4. CASE Becomes([H EXCEPT !.pc = "fsync"]) /\ lk' = Unlocked(Healer, "data")
  BY <1>1, <1>2, <1>3, <1>4, LastPhase, HealOnInv
<1>5. CASE Becomes(Ask(H, "block")) /\ lk' = Unlocked(Healer, "data")
  BY <1>1, <1>2, <1>3, <1>5, AskHeal, HealOnInv
<1>6. CASE HealOver
  BY <1>1, <1>6, HealOverInv DEF Inv, Typed, BricksTyped, brickVars
<1> QED
  BY <1>4, <1>5, <1>6 DEF afr_selfheal_data_do

LEMMA DataBlockInv ==
  ASSUME Inv, afr_selfheal_data_block
  PROVE  Inv'
<1> DEFINE src == data[H.source]
           h == [H EXCEPT !.pc = "write", !.todo = H.healed, !.buf = src]
<1>1. \/ (\E b \in H.healed : ~ (b \in conn[Healer] /\ Same(data[b], src))) /\ Becomes(h) /\ UNCHANGED lk
      \/ Becomes([H EXCEPT !.pc = "fsync"]) /\ lk' = Unlocked(Healer, "block")
      \/ HealOver
  BY DEF afr_selfheal_data_block
<1>2. H.pc = "locked" /\ H.kind = "block" /\ UNCHANGED <<brickVars, conn, acked, ops>>
  BY DEF afr_selfheal_data_block
<1>3. H.on # {} /\ H.source \in Brick
  BY <1>2, HealTyped DEF Heal
<1>4. CASE H.healed # {} /\ Becomes(h) /\ UNCHANGED lk
  <2>1. src \in Copy
    BY <1>3 DEF Inv, Typed, BricksTyped
  <2> HIDE DEF src
  <2>2. h \in HealLocal
    BY <2>1, HealFields DEF HealLocal
  <2>3. h.pc = "write" /\ h.todo = H.healed /\ h.on = H.on /\ h.source = H.source
    BY HealFields, SMT DEF HealLocal
  <2> HIDE DEF h
  <2>4. Heal(h)
    BY <1>3, <1>4, <2>2, <2>3 DEF Heal
  <2>5. Keeps(lk', Healer)
    BY <1>4, HealTyped, KeepsSame
  <2> QED
    BY <1>2, <1>4, <2>3, <2>4, <2>5, HealOnInv
<1>5. CASE Becomes([H EXCEPT !.pc = "fsync"]) /\ lk' = Unlocked(Healer, "block")
  <2>1. Keeps(Unlocked(Healer, "block"), Healer)
    BY HealTyped, KeepsSame, KeepsWithout DEF Unlocked
  <2> QED
    BY <1>2, <1>3, <1>5, <2>1, LastPhase, HealOnInv
<1>6. CASE HealOver
  BY <1>2, <1>6, HealOverInv DEF Inv, Typed, BricksTyped, brickVars
<1> QED
  BY <1>1, <1>4, <1>5, <1>6

LEMMA ReadWriteInv ==
  ASSUME Inv, __afr_selfheal_data_read_write
  PROVE  Inv'
<1> DEFINE b == Min(H.todo)
           D(out) == IF out = "ok" THEN H.healed ELSE H.healed \ {b}
           h(out) == [H EXCEPT !.todo = H.todo \ {b}, !.healed = D(out)]
           f(out) == [h(out) EXCEPT !.pc = "fsync"]
<1>1. PICK out \in Outcomes(Healer, b) :
        /\ data' = IF out \in Performed THEN [data EXCEPT ![b] = Written(@, H.buf)] ELSE data
        /\ Carried(Healer, b, out)
        /\ \/ h(out).todo # {} /\ Becomes(h(out)) /\ LocksAfter(Healer, b, out, lk)
           \/ Becomes(f(out)) /\ lk' = Unlocked(Healer, "block")
           \/ HealOver
  BY DEF __afr_selfheal_data_read_write
<1>2. H.pc = "write" /\ UNCHANGED <<dirty, pend, acked, ops>>
  BY DEF __afr_selfheal_data_read_write
<1>3. H.on # {} /\ H.source \in Brick /\ H.todo # {}
  BY <1>2, HealTyped DEF Heal
<1>4. b \in Brick
  BY <1>3, HealFields, MinIs
<1> HIDE DEF b
<1>5. BricksTyped'
  <2>1. data \in [Brick -> Copy] /\ dirty \in [Brick -> Int] /\ pend \in [Brick -> [Brick -> Int]]
    BY DEF Inv, Typed, BricksTyped
  <2>2. Written(data[b], H.buf) \in Copy
    BY <1>4, <2>1, WrittenCopy, HealFields
  <2>3. data' \in [Brick -> Copy]
    BY <1>1, <2>1, <2>2
  <2> QED
    BY <1>2, <2>1, <2>3 DEF BricksTyped
<1>6. D(out) \in SUBSET Brick /\ H.todo \ {b} \in SUBSET Brick
  BY HealFields
<1> HIDE DEF D
<1>7. h(out) \in HealLocal
  BY <1>6, HealFields DEF HealLocal
<1>8. h(out).pc = "write" /\ h(out).on = H.on /\ h(out).source = H.source
  BY <1>2, HealFields, SMT DEF HealLocal
<1> HIDE DEF h
<1>9. f(out) \in HealLocal
  BY <1>7 DEF HealLocal
<1>10. f(out).pc = "fsync" /\ f(out).on = H.on /\ f(out).source = H.source
  BY <1>7, <1>8, SMT DEF HealLocal
<1> HIDE DEF f
<1>11. Heal(f(out)) /\ (h(out).todo # {} => Heal(h(out)))
  BY <1>3, <1>7, <1>8, <1>9, <1>10 DEF Heal
<1> QED
  BY <1>1, <1>2, <1>4, <1>5, <1>8, <1>10, <1>11, HealAtInv

LEMMA FsyncInv ==
  ASSUME Inv, afr_selfheal_data_fsync
  PROVE  Inv'
<1> DEFINE D == H.healed \cap conn[Healer]
<1>1. /\ H.pc = "fsync" /\ UNCHANGED <<brickVars, lk, conn, acked, ops>>
      /\ Becomes([H EXCEPT !.pc = "undo", !.healed = D, !.todo = H.on])
  BY DEF afr_selfheal_data_fsync
<1>2. H.on # {} /\ H.source \in Brick /\ H.on \in SUBSET Brick /\ D \in SUBSET Brick
  BY <1>1, HealTyped, HealFields DEF Heal
<1> HIDE DEF D
<1>3. Keeps(lk', Healer)
  BY <1>1, HealTyped, KeepsSame
<1> QED
  BY <1>1, <1>2, <1>3, LastPhase, HealOnInv

LEMMA UndoInv ==
  ASSUME Inv, afr_selfheal_undo_pending
  PROVE  Inv'
<1> DEFINE b == Min(H.todo)
           un == H.sinks \ H.healed
           row == [j \in Brick |-> IF j \in un THEN pend[b][j] + 1 ELSE pend[b][j] - H.pend[b][j]]
           h == [H EXCEPT !.todo = H.todo \ {b}]
<1>1. PICK out \in Outcomes(Healer, b) :
        /\ IF out \in Performed
           THEN /\ dirty' = IF b \in un THEN dirty ELSE [dirty EXCEPT ![b] = @ - H.dirty[b]]
                /\ pend' = [pend EXCEPT ![b] = row]
           ELSE UNCHANGED <<dirty, pend>>
        /\ Carried(Healer, b, out)
        /\ \/ H.todo # {b} /\ Becomes(h) /\ LocksAfter(Healer, b, out, lk)
           \/ HealOver
  BY DEF afr_selfheal_undo_pending
<1>2. H.pc = "undo" /\ UNCHANGED <<data, acked, ops>>
  BY DEF afr_selfheal_undo_pending
<1>3. H.on # {} /\ H.source \in Brick /\ H.todo # {}
  BY <1>2, HealTyped DEF Heal
<1>4. b \in Brick
  BY <1>3, HealFields, MinIs
<1>5. BricksTyped'
  <2>1. data \in [Brick -> Copy] /\ dirty \in [Brick -> Int] /\ pend \in [Brick -> [Brick -> Int]]
    BY DEF Inv, Typed, BricksTyped
  <2>2. dirty' \in [Brick -> Int]
    <3>1. dirty[b] - H.dirty[b] \in Int
      BY <1>4, <2>1, HealFields, SMT
    <3> QED
      BY <1>1, <2>1, <3>1
  <2>3. pend' \in [Brick -> [Brick -> Int]]
    <3>1. \A j \in Brick : pend[b][j] \in Int /\ H.pend[b][j] \in Int
      BY <1>4, <2>1, HealFields
    <3>2. \A j \in Brick : pend[b][j] + 1 \in Int /\ pend[b][j] - H.pend[b][j] \in Int
      BY <3>1, SMT
    <3>3. row \in [Brick -> Int]
      BY <3>2
    <3> HIDE DEF row
    <3> QED
      BY <1>1, <2>1, <3>3
  <2> QED
    BY <1>2, <2>1, <2>2, <2>3 DEF BricksTyped
<1> HIDE DEF b
<1>6. h \in HealLocal
  <2>1. H.todo \ {b} \in SUBSET Brick
    BY HealFields
  <2> QED
    BY <2>1, HealFields DEF HealLocal
<1>7. h.pc = "undo" /\ h.on = H.on /\ h.source = H.source /\ h.todo = H.todo \ {b}
  BY <1>2, HealFields, SMT DEF HealLocal
<1> HIDE DEF h
<1>8. H.todo # {b} => Heal(h)
  BY <1>3, <1>6, <1>7 DEF Heal
<1> HIDE DEF row, un
<1> QED
  BY <1>1, <1>2, <1>4, <1>5, <1>7, <1>8, HealAtInv

LEMMA SelfHealInv ==
  ASSUME Inv, SelfHeal
  PROVE  Inv'
BY SelfHealDataInv, HealLockCbkInv, HealInodelkInv, HealSeqInv, PrepareInv, TruncateSinksInv,
   CompatLockInv, DataDoInv, DataBlockInv, ReadWriteInv, FsyncInv, UndoInv DEF SelfHeal

LEMMA CrashInv ==
  ASSUME Inv, NEW q \in Proc, Crash(q)
  PROVE  Inv'
<1>1. /\ lk' = Dropped(q, Brick) /\ UNCHANGED <<brickVars, conn, acked, ops>>
      /\ p' = [p EXCEPT ![q] = IF q = Healer THEN Asleep ELSE Idle]
  BY DEF Crash
<1>2. Keeps(lk', q)
  BY <1>1, KeepsDropped DEF Inv, Typed, LockMaps
<1>3. CASE q = Healer
  BY <1>1, <1>3, HealOverInv DEF HealOver, Becomes, Inv, Typed, BricksTyped, brickVars
<1>4. CASE q \in Client
  <2>1. Knows(lk', q, {})
    BY <1>1 DEF Knows, Dropped
  <2>2. p' = [p EXCEPT ![q] = Idle]
    BY <1>1, <1>4, Procs
  <2> QED
    BY <1>1, <1>2, <1>4, <2>1, <2>2, IdleTxn, LockStep
<1> QED
  BY <1>3, <1>4 DEF Proc

LEMMA InitInv == Init => Inv
<1> SUFFICES ASSUME Init
             PROVE  Inv
  OBVIOUS
<1>1. 0 \in Nat /\ 0 \in Int /\ Zero \in [Brick -> Int]
  BY SMT DEF Zero
<1>2. BricksTyped
  BY <1>1, FreshCopy DEF Init, BricksTyped
<1>3. /\ \A c \in Client : p[c] = Idle
      /\ H = Asleep
      /\ p \in [Proc -> Local \cup HealLocal]
  <2>1. Idle \in Local /\ Asleep \in HealLocal
    BY IdleTxn, AsleepHeal DEF Txn, Heal
  <2> QED
    BY <2>1, Procs DEF Init, H
<1>4. Typed
  BY <1>1, <1>2, <1>3 DEF Init, Typed
<1>5. Locks /\ Exclusive
  BY DEF Init, Locks, Exclusive
<1> QED
  BY <1>3, <1>4, <1>5, IdleTxn, AsleepHeal DEF Inv

LEMMA NextInv == Inv /\ [Next]_vars => Inv'
<1> SUFFICES ASSUME Inv, [Next]_vars
             PROVE  Inv'
  OBVIOUS
<1>1. CASE Next
  BY <1>1, TransactionInv, SelfHealInv, ConnectionInv, CrashInv DEF Next
<1>2. CASE UNCHANGED vars
  <2>1. UNCHANGED <<data, dirty, pend, lk, conn, p, acked, ops>>
    BY <1>2 DEF vars, brickVars
  <2> QED
    BY <2>1 DEF Inv, Typed, BricksTyped, Locks, Known, Exclusive, H
<1> QED
  BY <1>1, <1>2

LEMMA SpecInv == Spec => []Inv
BY InitInv, NextInv, PTL DEF Spec

LEMMA InvTypeOK == Inv => TypeOK
<1> SUFFICES ASSUME Inv
             PROVE  TypeOK
  OBVIOUS
<1>1. \A b \in Brick : data[b].orig \subseteq 0 .. data[b].size - 1
  BY DEF Inv, Typed, BricksTyped, Copy
<1>2. \A c \in Client :
        p[c].pc \in {"block", "preop", "fop", "postop", "write", "undo"} => p[c].todo # {}
  <2> SUFFICES ASSUME NEW c \in Client
               PROVE  p[c].pc \in {"block", "preop", "fop", "postop", "write", "undo"} => p[c].todo # {}
    OBVIOUS
  <2>1. p[c].pc \in {"idle", "trylock", "block", "preop", "fop", "postop"}
    BY TxnTyped, SMT DEF Local
  <2> QED
    BY <2>1, TxnTyped DEF Txn
<1>3. H.pc \in {"block", "preop", "fop", "postop", "write", "undo"} => H.todo # {}
  BY HealFields, HealTyped DEF Heal
<1>4. \A q \in Proc :
        p[q].pc \in {"block", "preop", "fop", "postop", "write", "undo"} => p[q].todo # {}
  BY <1>2, <1>3 DEF Proc, H
<1>5. \A b \in Brick : \A l \in lk[b] :
        \/ l[1] \in Client /\ l[2] = "data" /\ b \in p[l[1]].locked
        \/ l[1] = Healer /\ l[2] \in {"data", "compat", "block"} /\ H.pc # "idle"
  <2> SUFFICES ASSUME NEW b \in Brick, NEW l \in lk[b]
               PROVE  \/ l[1] \in Client /\ l[2] = "data" /\ b \in p[l[1]].locked
                      \/ l[1] = Healer /\ l[2] \in {"data", "compat", "block"} /\ H.pc # "idle"
    OBVIOUS
  <2>1. l \in Proc \X Kind
    BY DEF Inv, Typed
  <2>2. l[2] \in Kind
    BY <2>1, SMT
  <2> QED
    BY <2>2 DEF Inv, Locks, Known, Kind
<1> QED
  BY <1>1, <1>4, <1>5 DEF TypeOK, Inv, Typed, BricksTyped

\* Whatever fails or dies, every variable of a replicated file keeps its type, a
\* process that waits waits for some brick, and no brick has a lock whose owner
\* has finished, given up or forgotten it.
THEOREM AfrTypes == Spec => []TypeOK
BY SpecInv, InvTypeOK, PTL

-----------------------------------------------------------------------------
(* Nobody waits in a circle                                                *)

\* What q has locked comes before what it waits for.
Ordered(q) ==
  p[q].pc = "block" => \A b \in Brick : \A l \in lk[b] :
                         l[1] = q => \A y \in p[q].todo : b < y

LEMMA NoCircle ==
  ASSUME Inv, NEW S \in SUBSET Proc, S # {}, \A q \in S : Ordered(q),
         \A q \in S : \E r \in S : WaitsFor(q, r)
  PROVE  FALSE
<1> DEFINE at(q) == Min(p[q].todo)
           T == {at(q) : q \in S}
<1>1. \A q \in S : at(q) \in Brick /\ at(q) \in p[q].todo
  <2> SUFFICES ASSUME NEW q \in S
               PROVE  at(q) \in Brick /\ at(q) \in p[q].todo
    OBVIOUS
  <2>1. p[q].pc = "block"
    BY DEF WaitsFor
  <2>2. p[q].todo # {} /\ p[q].todo \in SUBSET Brick
    <3>1. CASE q = Healer
      BY <2>1, <3>1, HealTyped, HealFields DEF Heal, H
    <3>2. CASE q \in Client
      <4>1. Txn(p[q], ops) /\ p[q] \in Local
        BY <3>2, TxnTyped
      <4>2. p[q].todo \in SUBSET Brick
        BY <4>1, SMT DEF Local
      <4> QED
        BY <2>1, <4>1, <4>2 DEF Txn
    <3> QED
      BY <3>1, <3>2 DEF Proc
  <2> QED
    BY <2>2, MinIs
<1>2. T \in SUBSET Brick /\ T # {}
  BY <1>1
<1>3. PICK g \in T : \A j \in T : j <= g
  BY <1>2, GreatestExists
<1>4. PICK q \in S : g = at(q)
  BY <1>3
<1>5. PICK r \in S : WaitsFor(q, r)
  OBVIOUS
<1>6. PICK l \in lk[g] : l[1] = r
  BY <1>4, <1>5 DEF WaitsFor
<1>7. p[r].pc = "block"
  BY DEF WaitsFor
<1>8. g < at(r)
  BY <1>1, <1>2, <1>3, <1>6, <1>7 DEF Ordered
<1>9. at(r) <= g /\ g \in Nat /\ at(r) \in Nat
  BY <1>1, <1>2, <1>3, BrickIs
<1> HIDE DEF at
<1> QED
  BY <1>8, <1>9, SMT

LEMMA ClientOrdered ==
  ASSUME Inv, NEW c \in Client
  PROVE  Ordered(c)
<1>1. Txn(p[c], ops) /\ Knows(lk, c, p[c].locked)
  BY TxnTyped, InvKnows
<1> QED
  BY <1>1 DEF Ordered, Txn, Knows

\* Clients that truncate a file, whatever they lose, never wait in a circle for
\* each other's locks: the blocking locks are asked for in the order of the
\* bricks, after the others have been released.
ClientsNoCycle ==
  ~ \E S \in (SUBSET Client) \ {{}} : \A q \in S : \E r \in S : WaitsFor(q, r)

\* For any number of bricks and clients, any faults and crashes.
THEOREM AfrClientsNoCycle == Spec => []ClientsNoCycle
<1>1. Inv => ClientsNoCycle
  <2> SUFFICES ASSUME Inv, NEW S \in SUBSET Client, S # {},
                      \A q \in S : \E r \in S : WaitsFor(q, r)
               PROVE  FALSE
    BY DEF ClientsNoCycle
  <2>1. S \in SUBSET Proc
    BY Procs
  <2> QED
    BY <2>1, NoCircle, ClientOrdered
<1> QED
  BY <1>1, SpecInv, PTL

LEMMA HealOrdered ==
  ASSUME Inv, Steady
  PROVE  Ordered(Healer)
BY DEF Ordered, Steady, Settled, H

LEMMA SteadyNoCycle ==
  ASSUME Inv, Steady
  PROVE  NoLockCycle
<1> SUFFICES ASSUME NEW S \in SUBSET Proc, S # {},
                    \A q \in S : \E r \in S : WaitsFor(q, r)
             PROVE  FALSE
  BY DEF NoLockCycle
<1>1. \A q \in Proc : Ordered(q)
  BY ClientOrdered, HealOrdered DEF Proc
<1> QED
  BY <1>1, NoCircle

-----------------------------------------------------------------------------
(* A self-heal whose connections do not break                              *)

LEMMA SettledRest ==
  ASSUME NEW h, NEW f, h.pc \in {"idle", "write", "fsync", "undo"}
  PROVE  Settled(h, f)
BY DEF Settled

LEMMA SteadyStep ==
  ASSUME Inv, Steady, NEW h, Becomes(h), Settled(h, lk'), conn'[Healer] = conn[Healer]
  PROVE  Steady'
<1>1. H' = h
  BY Procs DEF Inv, Typed, Becomes, H
<1> QED
  BY <1>1 DEF Steady

LEMMA SteadyOver ==
  ASSUME Inv, Steady, HealOver, conn'[Healer] = conn[Healer]
  PROVE  Steady'
<1>1. Asleep.pc \in {"idle", "write", "fsync", "undo"}
  BY AsleepHeal
<1>2. Settled(Asleep, lk')
  BY <1>1, AsleepHeal DEF Settled
<1> QED
  BY <1>2, SteadyStep DEF HealOver

\* The others' steps do not touch its locks.
LEMMA SteadyAside ==
  ASSUME Inv, Steady, NEW c \in Client, Aside(c), conn'[Healer] = conn[Healer]
  PROVE  Steady'
<1>1. \A b \in Brick, k \in Kind : <<Healer, k>> \in lk[b] => <<Healer, k>> \in lk'[b]
  <2> SUFFICES ASSUME NEW b \in Brick, NEW k \in Kind, <<Healer, k>> \in lk[b]
               PROVE  <<Healer, k>> \in lk'[b]
    OBVIOUS
  <2>1. <<Healer, k>> \in Proc \X Kind /\ <<Healer, k>>[1] = Healer
    BY Procs
  <2> QED
    BY <2>1, Procs DEF Aside, Keeps
<1>2. \A b \in Brick : \A l \in lk'[b] : l[1] = Healer => l \in lk[b]
  <2> SUFFICES ASSUME NEW b \in Brick, NEW l \in lk'[b], l[1] = Healer
               PROVE  l \in lk[b]
    OBVIOUS
  <2>1. l \in Proc \X Kind
    BY DEF Aside, Keeps, LockMaps
  <2> QED
    BY <2>1, Procs DEF Aside, Keeps
<1>3. H.kind \in Kind /\ "data" \in Kind /\ "compat" \in Kind /\ H.locked \in SUBSET Brick
  BY HealFields DEF Kind
<1>4. Held(lk, "data") => Held(lk', "data")
  BY <1>1, <1>3 DEF Held
<1>5. Held(lk, "compat") => Held(lk', "compat")
  BY <1>1, <1>3 DEF Held
<1>6. Settled(H, lk')
  BY <1>1, <1>2, <1>3, <1>4, <1>5 DEF Steady, Settled
<1> QED
  BY <1>6 DEF Steady, Aside

\* Nothing that it sends is lost.
LEMMA SteadyOutcome ==
  ASSUME Steady, Healer \notin Flaky, NEW b \in Brick, NEW out \in Outcomes(Healer, b)
  PROVE  /\ out = "ok"
         /\ Carried(Healer, b, out) => conn' = conn
         /\ LocksAfter(Healer, b, out, lk) => lk' = lk
<1>1. out = "ok"
  BY DEF Steady, Outcomes
<1> QED
  BY <1>1 DEF Carried, LocksAfter

\* It asks for a lock on all bricks.
LEMMA AskIs ==
  ASSUME Inv, Steady, NEW h \in HealLocal, NEW kind \in Kind
  PROVE  LET a == Ask(h, kind)
         IN  /\ a.pc = "trylock" /\ a.kind = kind /\ a.locked = {} /\ a.todo = Brick
             /\ a.eagain = FALSE
BY SMT DEF HealLocal, Ask, Steady

LEMMA SelfHealDataSteady ==
  ASSUME Inv, Steady, afr_selfheal_data
  PROVE  Steady'
<1> DEFINE h == Ask(Asleep, "data")
<1>1. Becomes(h) /\ UNCHANGED <<lk, conn>> /\ H.pc = "idle"
  BY DEF afr_selfheal_data
<1>2. Asleep \in HealLocal /\ "data" \in Kind
  BY AsleepHeal DEF Heal, Kind
<1>3. h.pc = "trylock" /\ h.kind = "data" /\ h.locked = {} /\ h.todo = Brick /\ h.eagain = FALSE
  BY <1>2, AskIs
<1> HIDE DEF h
<1>4. \A b \in Brick : \A l \in lk[b] : l[1] # Healer
  BY <1>1, AfrAssumption DEF Inv, Locks, Known
<1>5. Settled(h, lk')
  BY <1>1, <1>3, <1>4 DEF Settled
<1> QED
  BY <1>1, <1>5, SteadyStep

\* A lock on a brick where it has one is granted.
LEMMA SecondLock ==
  ASSUME Inv, Steady, NEW b \in Brick, NEW k, <<Healer, k>> \in lk[b], NEW a \in Answers(Healer, b)
  PROVE  a = "ok"
<1>1. <<Healer, k>>[1] = Healer
  OBVIOUS
<1>2. Free(Healer, b)
  BY <1>1 DEF Inv, Exclusive, Free
<1> QED
  BY <1>2 DEF Answers, Steady

LEMMA HealLockCbkSteady ==
  ASSUME Inv, Steady, NEW b \in Brick, afr_selfheal_lock_cbk(b)
  PROVE  Steady'
<1> DEFINE S(a) == IF a = "ok" THEN H.locked \cup {b} ELSE H.locked
           e(a) == H.eagain \/ a = "EAGAIN"
           h(a) == [H EXCEPT !.todo = H.todo \ {b}, !.locked = S(a), !.eagain = e(a)]
<1>1. PICK a \in Answers(Healer, b) :
        /\ lk' = IF a = "ok" THEN [lk EXCEPT ![b] = @ \cup {<<Healer, H.kind>>}] ELSE lk
        /\ Becomes(h(a))
  BY DEF afr_selfheal_lock_cbk
<1>2. H.pc = "trylock" /\ b \in H.todo /\ UNCHANGED conn
  BY DEF afr_selfheal_lock_cbk
<1>3. /\ h(a).pc = "trylock" /\ h(a).kind = H.kind /\ h(a).todo = H.todo \ {b}
      /\ h(a).locked = S(a) /\ h(a).eagain = e(a)
  BY <1>2, HealFields, SMT DEF HealLocal
<1> HIDE DEF h
<1>4. a \in {"ok", "EAGAIN"}
  BY DEF Answers, Steady
<1>5. \A d \in Brick : lk'[d] = IF a = "ok" /\ d = b THEN lk[b] \cup {<<Healer, H.kind>>} ELSE lk[d]
  BY <1>1, HealTyped DEF LockMaps
<1>6. \A d \in Brick : lk[d] \subseteq lk'[d]
  BY <1>5
<1>7. H.kind # "data" => a = "ok"
  <2>1. H.kind = "compat" => <<Healer, "data">> \in lk[b]
    BY <1>2 DEF Steady, Settled, Held
  <2>2. H.kind = "block" => <<Healer, "compat">> \in lk[b]
    BY <1>2 DEF Steady, Settled, Held
  <2> QED
    BY <2>1, <2>2, HealFields, SecondLock DEF Kind
<1>8. ~e(a) => S(a) \cup (H.todo \ {b}) = Brick
  BY <1>2, <1>4 DEF Steady, Settled
<1>9. \A d \in S(a) : <<Healer, H.kind>> \in lk'[d]
  <2>1. \A d \in H.locked : <<Healer, H.kind>> \in lk[d] /\ d \in Brick
    BY <1>2, HealFields DEF Steady, Settled
  <2> QED
    BY <1>5, <2>1
<1>10. H.kind = "data" => \A d \in Brick : \A l \in lk'[d] : l[1] = Healer => l[2] = "data" /\ d \in S(a)
  <2>1. H.kind = "data" => \A d \in Brick : \A l \in lk[d] : l[1] = Healer => l[2] = "data" /\ d \in H.locked
    BY <1>2 DEF Steady, Settled
  <2>2. <<Healer, "data">>[2] = "data"
    OBVIOUS
  <2>3. ASSUME H.kind = "data", NEW d \in Brick, NEW l \in lk'[d], l[1] = Healer
        PROVE  l[2] = "data" /\ d \in S(a)
    <3>1. CASE l \in lk[d]
      BY <2>1, <2>3, <3>1
    <3>2. CASE l \notin lk[d]
      BY <1>5, <2>2, <2>3, <3>2
    <3> QED
      BY <3>1, <3>2
  <2> QED
    BY <2>3
<1>11. /\ H.kind = "compat" => Held(lk', "data") /\ ~e(a)
       /\ H.kind = "block" => Held(lk', "compat") /\ ~e(a)
  BY <1>2, <1>6, <1>7 DEF Steady, Settled, Held
<1> HIDE DEF S, e
<1>12. Settled(h(a), lk')
  BY <1>3, <1>8, <1>9, <1>10, <1>11 DEF Settled
<1> QED
  BY <1>1, <1>2, <1>12, SteadyStep

LEMMA HealInodelkSteady ==
  ASSUME Inv, Steady, afr_selfheal_inodelk
  PROVE  Steady'
<1>1. H.pc = "trylock" /\ H.todo = {} /\ UNCHANGED conn
  BY DEF afr_selfheal_inodelk
<1>2. CASE H.eagain /\ lk' = Unlocked(Healer, H.kind)
           /\ Becomes([H EXCEPT !.pc = "block", !.todo = Brick, !.locked = {}])
  <2> DEFINE h == [H EXCEPT !.pc = "block", !.todo = Brick, !.locked = {}]
  <2>1. h.pc = "block" /\ h.todo = Brick /\ h.kind = H.kind /\ h.locked = {}
    BY HealFields, SMT DEF HealLocal
  <2> HIDE DEF h
  <2>2. H.kind = "data"
    BY <1>1, <1>2, HealFields DEF Steady, Settled, Kind
  <2>3. \A b \in Brick : \A l \in lk'[b] : l[1] # Healer
    <3> SUFFICES ASSUME NEW b \in Brick, NEW l \in lk'[b], l[1] = Healer
                 PROVE  FALSE
      OBVIOUS
    <3>1. l \in lk[b] /\ l # <<Healer, "data">>
      BY <1>2, <2>2 DEF Unlocked
    <3>2. l[2] = "data"
      BY <1>1, <2>2, <3>1 DEF Steady, Settled
    <3>3. l \in Proc \X Kind
      BY <3>1, HealTyped DEF LockMaps
    <3>4. l = <<l[1], l[2]>>
      BY <3>3, SMT
    <3> QED
      BY <3>1, <3>2, <3>4
  <2>4. Settled(h, lk')
    BY <2>1, <2>2, <2>3 DEF Settled
  <2> QED
    BY <1>1, <1>2, <2>4, SteadyStep DEF h
<1>3. CASE ~H.eagain /\ Becomes([H EXCEPT !.pc = "locked"]) /\ UNCHANGED lk
  <2> DEFINE h == [H EXCEPT !.pc = "locked"]
  <2>1. h.pc = "locked" /\ h.kind = H.kind /\ h.locked = H.locked /\ h.eagain = H.eagain
    BY HealFields, SMT DEF HealLocal
  <2> HIDE DEF h
  <2>2. H.locked = Brick
    BY <1>1, <1>3 DEF Steady, Settled
  <2>3. Settled(h, lk)
    BY <1>1, <1>3, <2>1, <2>2 DEF Steady, Settled
  <2> QED
    BY <1>1, <1>3, <2>3, SteadyStep DEF h
<1> QED
  BY <1>2, <1>3 DEF afr_selfheal_inodelk

LEMMA HealSeqSteady ==
  ASSUME Inv, Steady, AFR_SEQ
  PROVE  Steady'
<1> DEFINE b == Min(H.todo)
           S == H.locked \cup {b}
           T == H.todo \ {b}
           pc == IF H.todo = {b} THEN "locked" ELSE H.pc
           h == [H EXCEPT !.todo = T, !.locked = S, !.pc = pc]
<1>1. H.pc = "block" /\ UNCHANGED conn
  BY DEF AFR_SEQ
<1>2. H.todo # {} /\ H.todo \in SUBSET Brick
  BY <1>1, HealTyped, HealFields DEF Heal
<1>3. b \in H.todo /\ b \in Brick /\ \A y \in H.todo : b <= y
  BY <1>2, MinIs
<1>4. lk' = [lk EXCEPT ![b] = @ \cup {<<Healer, H.kind>>}] /\ Becomes(h)
  BY <1>3 DEF AFR_SEQ, Steady
<1> HIDE DEF b
<1>5. /\ H.locked \cup H.todo = Brick /\ H.kind = "data"
      /\ \A x \in H.locked, y \in H.todo : x < y
      /\ \A d \in H.locked : <<Healer, "data">> \in lk[d]
      /\ \A d \in Brick : \A l \in lk[d] : l[1] = Healer => l[2] = "data" /\ d \in H.locked
  BY <1>1 DEF Steady, Settled
<1>6. \A d \in Brick : lk'[d] = IF d = b THEN lk[b] \cup {<<Healer, "data">>} ELSE lk[d]
  BY <1>4, <1>5, HealTyped DEF LockMaps
<1>7. S \cup T = Brick /\ (H.todo = {b} => S = Brick)
  BY <1>3, <1>5
<1>8. \A x \in S, y \in T : x < y
  <2>1. \A y \in T : b <= y /\ b # y /\ b \in Nat /\ y \in Nat
    BY <1>2, <1>3, BrickIs
  <2>2. \A y \in T : b < y
    BY <2>1, SMT
  <2> QED
    BY <1>5, <2>2
<1>9. \A d \in S : <<Healer, "data">> \in lk'[d]
  BY <1>3, <1>5, <1>6
<1>10. \A d \in Brick : \A l \in lk'[d] : l[1] = Healer => l[2] = "data" /\ d \in S
  <2>1. <<Healer, "data">>[2] = "data"
    OBVIOUS
  <2> SUFFICES ASSUME NEW d \in Brick, NEW l \in lk'[d], l[1] = Healer
               PROVE  l[2] = "data" /\ d \in S
    OBVIOUS
  <2>2. CASE l \in lk[d]
    BY <1>5, <2>2
  <2>3. CASE l \notin lk[d]
    BY <1>6, <2>1, <2>3
  <2> QED
    BY <2>2, <2>3
<1>11. pc \in {"block", "locked"} /\ (pc = "locked" => S = Brick)
  BY <1>1, <1>7
<1> HIDE DEF S, T, pc
<1>12. h.pc = pc /\ h.todo = T /\ h.kind = H.kind /\ h.locked = S
  BY HealFields, SMT DEF HealLocal
<1> HIDE DEF h
<1>13. Settled(h, lk')
  BY <1>5, <1>7, <1>8, <1>9, <1>10, <1>11, <1>12 DEF Settled
<1> QED
  BY <1>1, <1>4, <1>13, SteadyStep

LEMMA PrepareSteady ==
  ASSUME Inv, Steady, __afr_selfheal_data_prepare
  PROVE  Steady'
<1>1. H.pc = "locked" /\ H.kind = "data" /\ UNCHANGED conn
  BY DEF __afr_selfheal_data_prepare
<1>2. CASE HealOver
  BY <1>1, <1>2, SteadyOver
<1>3. ASSUME NEW on, NEW src, NEW sinks, NEW healed, NEW d, NEW m, NEW n, UNCHANGED lk,
             Becomes([H EXCEPT !.pc = "truncate", !.on = on, !.source = src, !.sinks = sinks,
                               !.healed = healed, !.todo = healed, !.dirty = d, !.pend = m,
                               !.size = n])
      PROVE  Steady'
  <2> DEFINE h == [H EXCEPT !.pc = "truncate", !.on = on, !.source = src, !.sinks = sinks,
                            !.healed = healed, !.todo = healed, !.dirty = d, !.pend = m,
                            !.size = n]
  <2>1. h.pc = "truncate" /\ h.kind = H.kind
    BY HealFields, SMT DEF HealLocal
  <2> HIDE DEF h
  <2>2. Held(lk, "data")
    BY <1>1 DEF Steady, Settled, Held
  <2>3. Settled(h, lk)
    BY <1>1, <2>1, <2>2 DEF Settled
  <2> QED
    BY <1>1, <1>3, <2>3, SteadyStep DEF h
<1> DEFINE R == conn[Healer]
           m0 == [i \in Brick |-> IF i \in R THEN pend[i] ELSE Zero]
           d0 == [i \in Brick |-> IF i \in R THEN dirty[i] ELSE 0]
           n0(S) == IF Min(S) \in R THEN data[Min(S)].size ELSE 0
<1>4. \/ HealOver
      \/ \E S : /\ UNCHANGED lk
                /\ Becomes([H EXCEPT !.pc = "truncate", !.on = H.locked, !.source = Min(S),
                                     !.sinks = Sinks(m0, H.locked), !.healed = H.locked \ S,
                                     !.todo = H.locked \ S, !.dirty = d0, !.pend = m0,
                                     !.size = n0(S)])
  BY DEF __afr_selfheal_data_prepare
<1> HIDE DEF m0, d0, n0
<1> QED
  BY <1>2, <1>3, <1>4

LEMMA TruncateSinksSteady ==
  ASSUME Inv, Steady, Healer \notin Flaky, NEW b \in Brick, __afr_selfheal_truncate_sinks(b)
  PROVE  Steady'
<1> DEFINE D(out) == IF out = "ok" THEN H.healed ELSE H.healed \ {b}
           h(out) == [H EXCEPT !.todo = H.todo \ {b}, !.healed = D(out)]
<1>1. PICK out \in Outcomes(Healer, b) :
        Becomes(h(out)) /\ LocksAfter(Healer, b, out, lk) /\ Carried(Healer, b, out)
  BY DEF __afr_selfheal_truncate_sinks
<1>2. H.pc = "truncate"
  BY DEF __afr_selfheal_truncate_sinks
<1>3. UNCHANGED <<conn, lk>>
  BY <1>1, SteadyOutcome
<1>4. h(out).pc = "truncate"
  BY <1>2, HealFields, SMT DEF HealLocal
<1> HIDE DEF h
<1>5. Settled(h(out), lk)
  BY <1>2, <1>4 DEF Steady, Settled
<1> QED
  BY <1>1, <1>3, <1>5, SteadyStep

LEMMA CompatLockSteady ==
  ASSUME Inv, Steady, CompatLock
  PROVE  Steady'
<1> DEFINE h == Ask(H, "compat")
<1>1. H.pc = "truncate" /\ Becomes(h) /\ UNCHANGED <<lk, conn>>
  BY DEF CompatLock
<1>2. H \in HealLocal /\ "compat" \in Kind
  BY HealFields DEF Kind
<1>3. h.pc = "trylock" /\ h.kind = "compat" /\ h.locked = {} /\ h.todo = Brick /\ h.eagain = FALSE
  BY <1>2, AskIs
<1> HIDE DEF h
<1>4. Settled(h, lk)
  BY <1>1, <1>3 DEF Steady, Settled
<1> QED
  BY <1>1, <1>4, SteadyStep

LEMMA FsyncPc ==
  ASSUME Inv
  PROVE  [H EXCEPT !.pc = "fsync"].pc = "fsync"
BY HealFields, SMT DEF HealLocal

LEMMA DataDoSteady ==
  ASSUME Inv, Steady, afr_selfheal_data_do
  PROVE  Steady'
<1>1. H.pc = "locked" /\ H.kind = "compat" /\ UNCHANGED conn
  BY DEF afr_selfheal_data_do
<1>2. CASE Becomes([H EXCEPT !.pc = "fsync"])
  <2>1. Settled([H EXCEPT !.pc = "fsync"], lk')
    BY FsyncPc DEF Settled
  <2> QED
    BY <1>1, <1>2, <2>1, SteadyStep
<1>3. CASE Becomes(Ask(H, "block")) /\ lk' = Unlocked(Healer, "data")
  <2> DEFINE h == Ask(H, "block")
  <2>1. H \in HealLocal /\ "block" \in Kind
    BY HealFields DEF Kind
  <2>2. h.pc = "trylock" /\ h.kind = "block" /\ h.locked = {} /\ h.todo = Brick /\ h.eagain = FALSE
    BY <2>1, AskIs
  <2>3. Held(lk', "compat")
    <3>1. \A b \in Brick : <<Healer, "compat">> \in lk[b]
      BY <1>1 DEF Steady, Settled
    <3>2. <<Healer, "compat">> # <<Healer, "data">>
      BY SMT
    <3> QED
      BY <1>3, <3>1, <3>2 DEF Held, Unlocked
  <2> HIDE DEF h
  <2>4. Settled(h, lk')
    BY <2>2, <2>3 DEF Settled
  <2> QED
    BY <1>1, <1>3, <2>4, SteadyStep DEF h
<1>4. CASE HealOver
  BY <1>1, <1>4, SteadyOver
<1> QED
  BY <1>2, <1>3, <1>4 DEF afr_selfheal_data_do

LEMMA DataBlockSteady ==
  ASSUME Inv, Steady, afr_selfheal_data_block
  PROVE  Steady'
<1>1. UNCHANGED conn
  BY DEF afr_selfheal_data_block
<1>2. CASE Becomes([H EXCEPT !.pc = "write", !.todo = H.healed, !.buf = data[H.source]])
  <2> DEFINE h == [H EXCEPT !.pc = "write", !.todo = H.healed, !.buf = data[H.source]]
  <2>1. h.pc = "write"
    BY HealFields, SMT DEF HealLocal
  <2> HIDE DEF h
  <2>2. Settled(h, lk')
    BY <2>1 DEF Settled
  <2> QED
    BY <1>1, <1>2, <2>2, SteadyStep DEF h
<1>3. CASE Becomes([H EXCEPT !.pc = "fsync"])
  <2>1. Settled([H EXCEPT !.pc = "fsync"], lk')
    BY FsyncPc DEF Settled
  <2> QED
    BY <1>1, <1>3, <2>1, SteadyStep
<1>4. CASE HealOver
  BY <1>1, <1>4, SteadyOver
<1> QED
  BY <1>2, <1>3, <1>4 DEF afr_selfheal_data_block

LEMMA ReadWriteSteady ==
  ASSUME Inv, Steady, Healer \notin Flaky, __afr_selfheal_data_read_write
  PROVE  Steady'
<1> DEFINE b == Min(H.todo)
           D(out) == IF out = "ok" THEN H.healed ELSE H.healed \ {b}
           h(out) == [H EXCEPT !.todo = H.todo \ {b}, !.healed = D(out)]
           f(out) == [h(out) EXCEPT !.pc = "fsync"]
<1>1. PICK out \in Outcomes(Healer, b) :
        Carried(Healer, b, out) /\ (Becomes(h(out)) \/ Becomes(f(out)) \/ HealOver)
  BY DEF __afr_selfheal_data_read_write
<1>2. H.pc = "write"
  BY DEF __afr_selfheal_data_read_write
<1>3. b \in Brick
  BY <1>2, HealTyped, HealFields, MinIs DEF Heal
<1> HIDE DEF b
<1>4. UNCHANGED conn
  BY <1>1, <1>3, SteadyOutcome
<1>5. h(out).pc = "write" /\ f(out).pc = "fsync"
  BY <1>2, HealFields, SMT DEF HealLocal
<1> HIDE DEF h, f
<1>6. Settled(h(out), lk') /\ Settled(f(out), lk')
  BY <1>5 DEF Settled
<1> QED
  BY <1>1, <1>4, <1>6, SteadyStep, SteadyOver

LEMMA FsyncSteady ==
  ASSUME Inv, Steady, afr_selfheal_data_fsync
  PROVE  Steady'
<1> DEFINE h == [H EXCEPT !.pc = "undo", !.healed = H.healed \cap conn[Healer], !.todo = H.on]
<1>1. Becomes(h) /\ UNCHANGED conn
  BY DEF afr_selfheal_data_fsync
<1>2. h.pc = "undo"
  BY HealFields, SMT DEF HealLocal
<1> HIDE DEF h
<1>3. Settled(h, lk')
  BY <1>2 DEF Settled
<1> QED
  BY <1>1, <1>3, SteadyStep

LEMMA UndoSteady ==
  ASSUME Inv, Steady, Healer \notin Flaky, afr_selfheal_undo_pending
  PROVE  Steady'
<1> DEFINE b == Min(H.todo)
           h == [H EXCEPT !.todo = H.todo \ {b}]
<1>1. PICK out \in Outcomes(Healer, b) : Carried(Healer, b, out) /\ (Becomes(h) \/ HealOver)
  BY DEF afr_selfheal_undo_pending
<1>2. H.pc = "undo"
  BY DEF afr_selfheal_undo_pending
<1>3. b \in Brick
  BY <1>2, HealTyped, HealFields, MinIs DEF Heal
<1> HIDE DEF b
<1>4. UNCHANGED conn
  BY <1>1, <1>3, SteadyOutcome
<1>5. h.pc = "undo"
  BY <1>2, HealFields, SMT DEF HealLocal
<1> HIDE DEF h
<1>6. Settled(h, lk')
  BY <1>5 DEF Settled
<1> QED
  BY <1>1, <1>4, <1>6, SteadyStep, SteadyOver

LEMMA SelfHealSteady ==
  ASSUME Inv, Steady, Healer \notin Flaky, SelfHeal
  PROVE  Steady'
BY SelfHealDataSteady, HealLockCbkSteady, HealInodelkSteady, HealSeqSteady, PrepareSteady,
   TruncateSinksSteady, CompatLockSteady, DataDoSteady, DataBlockSteady, ReadWriteSteady,
   FsyncSteady, UndoSteady DEF SelfHeal

\* A process that loses a connection loses one of its own.
LEMMA OwnConnection ==
  ASSUME Inv, NEW c \in Client
  PROVE  /\ \A b, out : Carried(c, b, out) => conn'[Healer] = conn[Healer]
         /\ \A b : conn' = [conn EXCEPT ![c] = @ \ {b}] => conn'[Healer] = conn[Healer]
         /\ \A b : conn' = [conn EXCEPT ![c] = @ \cup {b}] => conn'[Healer] = conn[Healer]
BY Procs DEF Carried, Inv, Typed

LEMMA TransactionConn ==
  ASSUME Inv, NEW c \in Client, Transaction(c)
  PROVE  conn'[Healer] = conn[Healer]
<1>1. UNCHANGED conn \/ \E b, out : Carried(c, b, out)
  <2>1. CASE afr_truncate(c)
    BY <2>1 DEF afr_truncate
  <2>2. ASSUME NEW b \in Brick, afr_nonblocking_inodelk_cbk(c, b)
        PROVE  UNCHANGED conn
    BY <2>2 DEF afr_nonblocking_inodelk_cbk
  <2>3. CASE afr_lock_blocking(c)
    BY <2>3 DEF afr_lock_blocking
  <2>4. ASSUME NEW b \in Brick, afr_changelog_pre_op_cbk(c, b)
        PROVE  \E out : Carried(c, b, out)
    BY <2>4 DEF afr_changelog_pre_op_cbk
  <2>5. ASSUME NEW b \in Brick, afr_truncate_wind_cbk(c, b)
        PROVE  UNCHANGED conn \/ \E out : Carried(c, b, out)
    BY <2>5 DEF afr_truncate_wind_cbk
  <2>6. ASSUME NEW b \in Brick, afr_changelog_post_op_cbk(c, b)
        PROVE  \E out : Carried(c, b, out)
    BY <2>6 DEF afr_changelog_post_op_cbk
  <2> QED
    BY <2>1, <2>2, <2>3, <2>4, <2>5, <2>6 DEF Transaction
<1> QED
  BY <1>1, OwnConnection

LEMMA ConnectionSteady ==
  ASSUME Inv, Steady, Healer \notin Flaky, NEW q \in Proc, NEW b \in Brick,
         Disconnect(q, b) \/ Connect(q, b)
  PROVE  Steady'
<1>1. q # Healer
  BY DEF Disconnect, Connect, Steady
<1>2. q \in Client
  BY <1>1 DEF Proc
<1>3. H' = H /\ lk \in LockMaps /\ (lk' = lk \/ lk' = Dropped(q, {b}))
  BY HealTyped DEF Disconnect, Connect, H
<1>4. Keeps(lk', q)
  BY <1>3, KeepsSame, KeepsDropped
<1>5. conn'[Healer] = conn[Healer]
  BY <1>2, OwnConnection DEF Disconnect, Connect
<1> QED
  BY <1>2, <1>3, <1>4, <1>5, SteadyAside DEF Aside

LEMMA CrashSteady ==
  ASSUME Inv, Steady, NEW q \in Proc, Crash(q)
  PROVE  Steady'
<1>1. /\ lk' = Dropped(q, Brick) /\ UNCHANGED conn
      /\ p' = [p EXCEPT ![q] = IF q = Healer THEN Asleep ELSE Idle]
  BY DEF Crash
<1>2. CASE q = Healer
  BY <1>1, <1>2, SteadyOver DEF HealOver, Becomes
<1>3. CASE q \in Client
  <2>1. Keeps(lk', q)
    BY <1>1, HealTyped, KeepsDropped
  <2>2. H' = H
    BY <1>1, <1>3, Procs DEF H, Inv, Typed
  <2> QED
    BY <1>1, <1>3, <2>1, <2>2, SteadyAside DEF Aside
<1> QED
  BY <1>2, <1>3 DEF Proc

LEMMA InitSteady == Init => Steady
<1> SUFFICES ASSUME Init
             PROVE  Steady
  OBVIOUS
<1>1. H = Asleep /\ conn[Healer] = Brick
  BY Procs DEF Init, H
<1> QED
  BY <1>1, AsleepHeal DEF Steady, Settled

LEMMA NextSteady ==
  ASSUME Healer \notin Flaky, Inv, Steady, [Next]_vars
  PROVE  Steady'
<1>1. ASSUME NEW c \in Client, Transaction(c)
      PROVE  Steady'
  BY <1>1, TransactionInv, TransactionConn, SteadyAside
<1>2. CASE Next
  BY <1>1, <1>2, SelfHealSteady, ConnectionSteady, CrashSteady DEF Next
<1>3. CASE UNCHANGED vars
  <2>1. UNCHANGED <<lk, conn, p>>
    BY <1>3 DEF vars
  <2> QED
    BY <2>1 DEF Steady, H
<1> QED
  BY <1>2, <1>3

\* Transactions and a self-heal whose connections do not break never wait for
\* each other in a circle, whatever the clients lose and whoever dies: the
\* self-heal waits for its first lock only, in the order of the bricks, and is
\* granted the others where it has one.
THEOREM AfrNoLockCycle ==
  ASSUME Healer \notin Flaky
  PROVE  Spec => []NoLockCycle
<1>1. Init => Steady
  BY InitSteady
<1>2. Inv /\ Steady /\ [Next]_vars => Steady'
  BY NextSteady
<1>3. Inv /\ Steady => NoLockCycle
  BY SteadyNoCycle
<1> QED
  BY <1>1, <1>2, <1>3, SpecInv, PTL DEF Spec
=============================================================================
