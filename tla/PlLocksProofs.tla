---------------------------- MODULE PlLocksProofs ----------------------------
(***************************************************************************)
(* Proofs about PlLocks for any clients, owners, threads, requests and     *)
(* bounds: locks granted at the same time do not conflict; a client that   *)
(* is gone has left no lock behind; every request that is granted or waits *)
(* is answered once; no grant is forgotten; a lock has one reference for   *)
(* each list it is on; every variable has its type.                        *)
(***************************************************************************)
EXTENDS PlLocks, FiniteSetTheorems, SequenceTheorems, WellFoundedInduction, TLAPS

\* Most leaves are first-order: Zenon proves them.  A leaf that needs arithmetic,
\* record or sequence reasoning names SMT.
USE Zenon

LockRec == [client : Client, owner : Owner, req : Request]

ThreadRec == [pc : {"idle", "scan", "splice", "loop", "unwind", "unref"},
              client : Client \cup {"none"}, splice : SUBSET Nat, batch : SUBSET Nat,
              bounce : Seq(Nat), released : Seq(Nat)]

Ids == 1 .. Len(lock)

\* The types of what the two theorems depend on.  A thread in the loop has a
\* lock to look at, and a thread that is not idle has a client.
Typed ==
  /\ lock \in Seq(LockRec)
  /\ gtime \in Seq(Nat) /\ Len(gtime) = Len(lock)
  /\ \A i \in Ids : gtime[i] <= Len(lock) + 1
  /\ granted \in SUBSET Ids
  /\ blocked \in SUBSET Ids
  /\ lockers \in [Client -> SUBSET Ids]
  /\ conn \in [Client -> {"up", "down", "dying", "gone"}]
  /\ thr \in [Thread -> ThreadRec]
  /\ \A t \in Thread :
       /\ thr[t].splice \in SUBSET Ids
       /\ thr[t].pc = "loop" <=> thr[t].splice # {}
       /\ thr[t].pc # "idle" => thr[t].client \in Client

\* pl_inode->mutex: one thread at a time is in the loop, and a lock is on one
\* list at a time.
Apart ==
  /\ granted \cap blocked = {}
  /\ \A t \in Thread :
       /\ thr[t].splice \cap (granted \cup blocked) = {}
       /\ \A u \in Thread : thr[t].pc = "loop" /\ thr[u].pc = "loop" => t = u

\* A lock that is granted or waits is on the list of its client.
Listed ==
  /\ \A i \in granted \cup blocked : i \in lockers[lock[i].client]
  /\ \A t \in Thread : \A i \in thr[t].splice : i \in lockers[lock[i].client]

\* Once the last cleanup of a client has been through its list, the list stays
\* empty.
Emptied ==
  \A c \in Client :
    /\ conn[c] = "gone" => lockers[c] = {}
    /\ conn[c] = "dying" =>
         \A t \in Thread :
           thr[t].client = c /\ thr[t].pc \notin {"idle", "scan"} => lockers[c] = {}

\* The inductive invariant.
Inv == Typed /\ Apart /\ Listed /\ Emptied /\ NoConflict

-----------------------------------------------------------------------------
\* A set of numbers that is not empty has a least one.
LEMMA LeastExists ==
  ASSUME NEW S \in SUBSET Nat, S # {}
  PROVE  \E i \in S : \A j \in S : i <= j
<1>1. PICK i \in S : \A j \in S : ~ (<<j, i>> \in OpToRel(<, Nat))
  BY WFMin, NatLessThanWellFounded
<1>2. \A j \in S : ~ (j < i)
  BY <1>1, Zenon DEF OpToRel
<1> QED
  BY <1>2, SMT

\* Least, which the loop takes from its list, is on it.
LEMMA LeastIn ==
  ASSUME NEW S \in SUBSET Nat, S # {}
  PROVE  Least(S) \in S
BY LeastExists, Zenon DEF Least

\* A bounded set of numbers that is not empty has a greatest one.
LEMMA GreatestExists ==
  ASSUME NEW n \in Nat, NEW S \in SUBSET (0 .. n), S # {}
  PROVE  \E i \in S : \A j \in S : i >= j
<1> DEFINE T == {k \in 0 .. n : n - k \in S}
<1>1. T \in SUBSET Nat
  BY SMT
<1>2. \A j \in S : n - j \in 0 .. n /\ n - (n - j) = j
  BY SMT
<1>3. T # {}
  BY <1>2, Zenon
<1>4. PICK k \in T : \A m \in T : k <= m
  BY <1>1, <1>3, LeastExists, Zenon
<1>5. \A j \in S : n - j \in T
  BY <1>2
<1>6. n - k \in S /\ k \in Int
  BY <1>4, SMT
<1>7. \A j \in S : n - k >= j
  BY <1>4, <1>5, <1>6, SMT
<1> QED
  BY <1>6, <1>7

\* cleanup_scan takes a lock of the client's list.
LEMMA NextLockerIn ==
  ASSUME Typed, NEW c \in Client, lockers[c] # {}
  PROVE  NextLocker(c) \in lockers[c]
<1>1. Len(lock) \in Nat /\ lockers[c] \in SUBSET (0 .. Len(lock))
  BY SMT DEF Typed, Ids
<1>2. CASE kind = "inodelk"
  BY <1>1, <1>2, LeastExists, SMTT(20) DEF NextLocker
<1>3. CASE kind # "inodelk"
  BY <1>1, <1>3, GreatestExists, Zenon DEF NextLocker
<1> QED
  BY <1>2, <1>3

\* An unlock takes a lock that matches it.
LEMMA NewestIn ==
  ASSUME Typed, NEW S \in SUBSET Ids, S # {}
  PROVE  Newest(S) \in S
<1> DEFINE T == {gtime[i] : i \in S}
<1>1. Len(lock) + 1 \in Nat /\ \A i \in S : gtime[i] \in 0 .. Len(lock) + 1
  BY SMT DEF Typed, Ids
<1>2. T \in SUBSET (0 .. Len(lock) + 1) /\ T # {}
  BY <1>1
<1>3. \E g \in T : \A h \in T : g >= h
  BY <1>1, <1>2, GreatestExists, Zenon
<1>4. \E i \in S : \A j \in S : gtime[i] >= gtime[j]
  BY <1>3
<1> QED
  BY <1>4 DEF Newest

\* Now is one more than a number of locks.
LEMMA NowBounded ==
  ASSUME Typed
  PROVE  Now \in Nat /\ Now <= Len(lock) + 1
<1> DEFINE S == {i \in DOMAIN gtime : gtime[i] # 0}
<1>1. Len(lock) \in Nat /\ DOMAIN gtime = 1 .. Len(lock)
  BY SMT DEF Typed
<1>2. IsFiniteSet(1 .. Len(lock)) /\ Cardinality(1 .. Len(lock)) = Len(lock)
  BY <1>1, FS_Interval, SMTT(20)
<1>3. IsFiniteSet(S) /\ Cardinality(S) <= Len(lock)
  BY <1>1, <1>2, FS_Subset, SMT
<1>4. Cardinality(S) \in Nat
  BY <1>3, FS_CardinalityType
<1> QED
  BY <1>1, <1>3, <1>4, SMT DEF Now

\* Every lock has a client.
LEMMA ClientOf ==
  ASSUME Typed, NEW i \in Ids
  PROVE  lock[i].client \in Client
<1>1. lock[i] \in LockRec
  BY SMT DEF Typed, Ids
<1> QED
  BY <1>1 DEF LockRec

\* To conflict, and to have one owner, are symmetric.
LEMMA Symmetric ==
  ASSUME NEW a, NEW b
  PROVE  /\ Conflict(a, b) <=> Conflict(b, a)
         /\ same_inodelk_owner(a, b) <=> same_inodelk_owner(b, a)
BY DEF Conflict, inodelk_conflict, names_conflict, same_inodelk_owner

\* What takes locks from the list of granted locks creates no conflict.
LEMMA FewerGranted ==
  ASSUME NoConflict, granted' \in SUBSET granted, UNCHANGED <<kind, lock>>
  PROVE  NoConflict'
BY DEF NoConflict, Conflict, inodelk_conflict, names_conflict, same_inodelk_owner

-----------------------------------------------------------------------------
\* The invariant holds in the beginning.
LEMMA InitInv ==
  ASSUME Init
  PROVE  Inv
<1>1. Typed
  BY SMT DEF Init, Typed, Ids, LockRec, ThreadRec, IdleThread
<1>2. Apart /\ Listed /\ Emptied /\ NoConflict
  BY DEF Init, Apart, Listed, Emptied, NoConflict, IdleThread
<1> QED
  BY <1>1, <1>2 DEF Inv

\* pl_inode_setlk: the new lock is on one list, and on its client's.
LEMMA SetlkInv ==
  ASSUME Inv, NEW l \in LockRec, NEW can_block \in BOOLEAN, pl_inode_setlk(l, can_block)
  PROVE  Inv'
<1> DEFINE n == Len(lock) + 1
<1> USE DEF Inv
<1>1. /\ Free /\ CtxFree(l.client)
      /\ lock' = Append(lock, l)
      /\ lockers' = [lockers EXCEPT ![l.client] = @ \cup {n}]
      /\ gtime' = Append(gtime, 0) \/ gtime' = Append(gtime, Now)
      /\ UNCHANGED <<kind, conn, thr>>
      /\ \/ Grantable(l) /\ granted' = granted \cup {n} /\ blocked' = blocked
         \/ granted' = granted /\ blocked' = blocked \cup {n}
  BY DEF pl_inode_setlk
<1>2. /\ Len(lock) \in Nat /\ Len(lock') = n
      /\ lock' \in Seq(LockRec)
      /\ \A i \in Ids : lock'[i] = lock[i]
      /\ lock'[n] = l
      /\ Ids' = Ids \cup {n} /\ n \notin Ids
  BY <1>1, AppendProperties, SMT DEF Typed, Ids
<1>3. LockRec' = LockRec /\ l.client \in Client
  BY <1>1 DEF LockRec, Request
<1>4. Typed'
  <2>1. \E g \in Nat : g <= Len(lock) + 1 /\ gtime' = Append(gtime, g)
    BY <1>1, <1>2, NowBounded, SMT
  <2>2. /\ gtime' \in Seq(Nat) /\ Len(gtime') = n
        /\ \A i \in Ids \cup {n} : gtime'[i] <= n + 1
    BY <1>2, <2>1, AppendProperties, SMTT(20) DEF Typed, Ids
  <2> QED
    BY <1>1, <1>2, <1>3, <2>2 DEF Typed
<1>5. Apart'
  BY <1>1, <1>2, SMT DEF Typed, Apart
<1>6. Listed'
  <2>1. \A i \in Ids : lock[i].client \in Client
    BY ClientOf
  <2>2. \A c \in Client : lockers[c] \subseteq lockers'[c]
    BY <1>1 DEF Typed
  <2>3. \A i \in Ids : i \in lockers[lock[i].client] => i \in lockers'[lock'[i].client]
    BY <1>2, <2>1, <2>2
  <2>4. n \in lockers'[lock'[n].client]
    BY <1>1, <1>2, <1>3 DEF Typed
  <2>5. \A i \in granted' \cup blocked' : i \in lockers'[lock'[i].client]
    BY <1>1, <2>3, <2>4, Zenon DEF Typed, Listed
  <2>6. \A t \in Thread : \A i \in thr'[t].splice : i \in lockers'[lock'[i].client]
    BY <1>1, <2>3, Zenon DEF Typed, Listed
  <2> QED
    BY <2>5, <2>6 DEF Listed
<1>7. Emptied'
  BY <1>1, <1>3 DEF Typed, Emptied, CtxFree
<1>8. NoConflict'
  <2>1. ASSUME NEW i \in granted', NEW j \in granted', Conflict(lock'[i], lock'[j])
        PROVE  same_inodelk_owner(lock'[i], lock'[j])
    <3>1. CASE i \in granted /\ j \in granted
      BY <1>2, <2>1, <3>1 DEF Typed, NoConflict
    <3>2. CASE i = n /\ j = n
      BY <3>2 DEF same_inodelk_owner
    <3>3. CASE i = n /\ j \in granted /\ n \in granted'
      <4>1. Grantable(l) /\ lock'[i] = l /\ lock'[j] = lock[j]
        BY <1>1, <1>2, <3>3, Zenon DEF Typed
      <4> QED
        BY <2>1, <3>3, <4>1 DEF Grantable, __inodelk_grantable
    <3>4. CASE i \in granted /\ j = n /\ n \in granted'
      <4>1. Grantable(l) /\ lock'[j] = l /\ lock'[i] = lock[i]
        BY <1>1, <1>2, <3>4, Zenon DEF Typed
      <4>2. Conflict(l, lock[i])
        BY <2>1, <4>1, Symmetric
      <4>3. same_inodelk_owner(l, lock[i])
        BY <3>4, <4>1, <4>2 DEF Grantable, __inodelk_grantable
      <4> QED
        BY <4>1, <4>3, Symmetric
    <3> QED
      BY <1>1, <3>1, <3>2, <3>3, <3>4, Zenon
  <2>2. \A a, b : Conflict(a, b)' <=> Conflict(a, b)
    BY <1>1 DEF Conflict
  <2> QED
    BY <2>1, <2>2 DEF NoConflict, Conflict, same_inodelk_owner
<1> QED
  BY <1>4, <1>5, <1>6, <1>7, <1>8

\* pl_inode_unlock: a lock leaves its list together with its client's.
LEMMA UnlockInv ==
  ASSUME Inv, NEW t \in Thread, NEW l \in LockRec, pl_inode_unlock(t, l)
  PROVE  Inv'
<1> USE DEF Inv
<1>1. /\ Free /\ CtxFree(l.client) /\ thr[t].pc = "idle"
      /\ thr' = [thr EXCEPT ![t].pc = "splice", ![t].client = l.client]
      /\ UNCHANGED <<kind, lock, gtime, blocked, conn>>
  BY DEF pl_inode_unlock
<1>2. LockRec' = LockRec /\ l.client \in Client /\ Ids' = Ids
  BY <1>1 DEF LockRec, Request, Ids
<1>3. \/ UNCHANGED <<granted, lockers>>
      \/ \E k \in granted : /\ granted' = granted \ {k}
                             /\ lockers' = [lockers EXCEPT ![l.client] = @ \ {k}]
  <2> DEFINE match == {i \in granted : Equal(lock[i], l) /\ same_inodelk_owner(lock[i], l)}
  <2>1. match # {} => Newest(match) \in granted
    BY NewestIn, Zenon DEF Typed
  <2> QED
    BY <2>1 DEF pl_inode_unlock
<1>4. /\ granted' \in SUBSET granted
      /\ lockers' \in [Client -> SUBSET Ids]
      /\ \A c \in Client : lockers'[c] \in SUBSET lockers[c]
  BY <1>2, <1>3, SMT DEF Typed
<1>5. /\ thr' \in [Thread -> ThreadRec]
      /\ \A u \in Thread \ {t} : thr'[u] = thr[u]
      /\ thr'[t].splice = thr[t].splice /\ thr'[t].pc = "splice" /\ thr'[t].client = l.client
  <2> DEFINE r == [thr[t] EXCEPT !.pc = "splice", !.client = l.client]
  <2>1. thr[t] \in ThreadRec /\ thr \in [Thread -> ThreadRec]
    BY DEF Typed
  <2>2. /\ r \in ThreadRec
        /\ r.splice = thr[t].splice /\ r.pc = "splice" /\ r.client = l.client
    BY <1>2, <2>1, Zenon DEF ThreadRec
  <2>3. thr' = [thr EXCEPT ![t] = r]
    BY <1>1, Zenon
  <2> QED
    BY <2>1, <2>2, <2>3, Zenon
<1>6. Typed'
  BY <1>1, <1>2, <1>4, <1>5 DEF Typed
<1>7. Apart'
  BY <1>1, <1>4, <1>5, ZenonT(40) DEF Typed, Apart
<1>8. Listed'
  <2>1. \A u \in Thread : thr'[u].splice = {}
    BY <1>1, <1>5 DEF Typed, Free
  <2>2. ASSUME NEW i \in granted' \cup blocked'
        PROVE  i \in lockers'[lock[i].client]
    <3>1. i \in Ids /\ i \in granted \cup blocked
      BY <1>1, <1>4 DEF Typed
    <3>2. i \in lockers[lock[i].client] /\ lock[i].client \in Client
      BY <3>1, ClientOf DEF Listed
    <3>3. CASE UNCHANGED lockers
      BY <3>2, <3>3
    <3>4. ASSUME NEW k \in granted, granted' = granted \ {k},
                 lockers' = [lockers EXCEPT ![l.client] = @ \ {k}]
          PROVE  i \in lockers'[lock[i].client]
      <4>1. i # k
        BY <1>1, <3>4 DEF Apart
      <4> QED
        BY <1>2, <3>2, <3>4, <4>1 DEF Typed
    <3> QED
      BY <1>3, <3>3, <3>4
  <2> QED
    BY <1>1, <2>1, <2>2, Zenon DEF Listed
<1>9. Emptied'
  BY <1>1, <1>4, <1>5, SMT DEF Typed, Emptied, CtxFree
<1> QED
  BY <1>1, <1>4, <1>6, <1>7, <1>8, <1>9, FewerGranted

\* A step that leaves the lists alone, and whose thread stays out of the loop
\* and keeps its client or becomes idle.
LEMMA ThreadInv ==
  ASSUME Inv, UNCHANGED <<kind, lock, granted, gtime, blocked, lockers>>,
         NEW t \in Thread, NEW r \in ThreadRec,
         thr' = [thr EXCEPT ![t] = r],
         r.splice = {}, r.pc # "loop", thr[t].pc # "loop",
         r.pc # "idle" => r.client \in Client,
         conn' \in [Client -> {"up", "down", "dying", "gone"}], Emptied'
  PROVE  Inv'
<1> USE DEF Inv
<1>1. LockRec' = LockRec /\ Ids' = Ids
  BY DEF LockRec, Request, Ids
<1>2. thr[t].splice = {} /\ thr' \in [Thread -> ThreadRec]
  BY DEF Typed
<1>3. Typed'
  BY <1>1, <1>2 DEF Typed
<1>4. Apart'
  BY <1>2 DEF Typed, Apart
<1>5. Listed'
  BY <1>2 DEF Typed, Listed
<1> QED
  BY <1>3, <1>4, <1>5, FewerGranted

\* grant_blocked_begin: the blocked locks move to the thread's list.
LEMMA BeginInv ==
  ASSUME Inv, NEW t \in Thread, grant_blocked_begin(t)
  PROVE  Inv'
<1> USE DEF Inv
<1>1. /\ thr[t].pc = "splice" /\ Free
      /\ blocked' = {}
      /\ UNCHANGED <<kind, lock, granted, gtime, lockers, conn>>
  BY DEF grant_blocked_begin
<1>2. LockRec' = LockRec /\ Ids' = Ids
  BY <1>1 DEF LockRec, Request, Ids
<1>3. PICK pc \in {"unwind", "loop"} :
        /\ pc = "loop" <=> blocked # {}
        /\ thr' = [thr EXCEPT ![t].pc = pc, ![t].splice = blocked]
  BY Zenon DEF grant_blocked_begin
<1>4. /\ thr' \in [Thread -> ThreadRec]
      /\ \A u \in Thread \ {t} : thr'[u] = thr[u]
      /\ thr'[t].splice = blocked /\ thr'[t].client = thr[t].client
      /\ thr'[t].pc = pc
  <2>1. thr[t] \in ThreadRec /\ blocked \in SUBSET Nat
    BY SMT DEF Typed, Ids
  <2> QED
    BY <1>3, <2>1, Zenon DEF Typed, ThreadRec
<1>5. \A u \in Thread : thr[u].splice = {} /\ thr[u].pc # "loop"
  BY <1>1 DEF Typed, Free
<1>6. Typed'
  BY <1>1, <1>2, <1>3, <1>4, <1>5 DEF Typed
<1>7. Apart'
  BY <1>1, <1>3, <1>4, <1>5 DEF Apart
<1>8. Listed'
  BY <1>1, <1>4, <1>5 DEF Listed
<1>9. Emptied'
  BY <1>1, <1>3, <1>4, ZenonT(40) DEF Typed, Emptied
<1> QED
  BY <1>1, <1>6, <1>7, <1>8, <1>9, FewerGranted

\* __grant_blocked_inode_locks: the next lock is granted, when it conflicts
\* with no other owner's, or goes back to the blocked ones.
LEMMA LoopInv ==
  ASSUME Inv, NEW t \in Thread, __grant_blocked_inode_locks(t)
  PROVE  Inv'
<1> USE DEF Inv
<1> DEFINE n    == Least(thr[t].splice)
           rest == thr[t].splice \ {n}
<1>1. /\ thr[t].pc = "loop" /\ thr[t].splice # {}
      /\ UNCHANGED <<kind, lock, lockers, conn>>
  BY Zenon DEF __grant_blocked_inode_locks, Typed
<1>2. n \in thr[t].splice /\ n \in Ids /\ rest \in SUBSET Ids
  <2>1. thr[t].splice \in SUBSET Ids /\ Ids \in SUBSET Nat
    BY SMT DEF Typed, Ids
  <2> QED
    BY <1>1, <2>1, LeastIn
<1> HIDE DEF n
<1>3. PICK pc \in {"unwind", "loop"}, batch \in SUBSET Nat :
        /\ pc = "loop" <=> rest # {}
        /\ thr' = [thr EXCEPT ![t].splice = rest, ![t].pc = pc, ![t].batch = batch]
  <2>1. thr[t] \in ThreadRec /\ thr[t].batch \in SUBSET Nat /\ n \in Nat
    BY <1>2 DEF Typed, Ids, ThreadRec
  <2>2. thr[t].batch \cup {n} \in SUBSET Nat
    BY <2>1
  <2>3. CASE Grantable(lock[n])
    BY <2>2, <2>3, Zenon DEF __grant_blocked_inode_locks, n
  <2>4. CASE ~ Grantable(lock[n])
    <3>1. thr' = [thr EXCEPT ![t].splice = rest, ![t].pc = IF rest = {} THEN "unwind" ELSE "loop"]
      BY <2>4 DEF __grant_blocked_inode_locks, n
    <3>2. thr' = [thr EXCEPT ![t].splice = rest, ![t].pc = IF rest = {} THEN "unwind" ELSE "loop",
                             ![t].batch = thr[t].batch]
      BY <2>1, <3>1, Zenon DEF Typed, ThreadRec
    <3> QED
      BY <2>1, <3>2, Zenon
  <2> QED
    BY <2>3, <2>4, Zenon
<1>4. \/ /\ Grantable(lock[n])
         /\ granted' = granted \cup {n} /\ blocked' = blocked
         /\ gtime' = [gtime EXCEPT ![n] = Now]
      \/ granted' = granted /\ blocked' = blocked \cup {n} /\ gtime' = gtime
  BY Zenon DEF __grant_blocked_inode_locks, n
<1>5. LockRec' = LockRec /\ Ids' = Ids
  BY <1>1 DEF LockRec, Request, Ids
<1>6. /\ thr' \in [Thread -> ThreadRec]
      /\ \A u \in Thread \ {t} : thr'[u] = thr[u]
      /\ thr'[t].splice = rest /\ thr'[t].client = thr[t].client /\ thr'[t].pc = pc
  <2>1. thr[t] \in ThreadRec /\ rest \in SUBSET Nat
    BY <1>2, SMT DEF Typed, Ids
  <2> QED
    BY <1>3, <2>1, Zenon DEF Typed, ThreadRec
<1>7. \A u \in Thread \ {t} : thr[u].splice = {} /\ thr[u].pc # "loop"
  BY <1>1 DEF Typed, Apart
<1>8. Typed'
  <2>1. /\ gtime' \in Seq(Nat) /\ Len(gtime') = Len(lock)
        /\ \A i \in Ids : gtime'[i] <= Len(lock) + 1
    <3>1. /\ gtime \in Seq(Nat) /\ Len(gtime) = Len(lock)
          /\ n \in 1 .. Len(gtime) /\ \A i \in 1 .. Len(gtime) : gtime[i] <= Len(lock) + 1
          /\ Now \in Nat /\ Now <= Len(lock) + 1
      BY <1>2, NowBounded DEF Typed, Ids
    <3> HIDE DEF Inv
    <3>2. /\ [gtime EXCEPT ![n] = Now] \in Seq(Nat)
          /\ Len([gtime EXCEPT ![n] = Now]) = Len(gtime)
          /\ \A j \in 1 .. Len(gtime) :
               [gtime EXCEPT ![n] = Now][j] = IF j = n THEN Now ELSE gtime[j]
      BY <3>1, ExceptSeq, SMT
    <3>3. gtime' = gtime \/ gtime' = [gtime EXCEPT ![n] = Now]
      BY <1>4
    <3> QED
      BY <3>1, <3>2, <3>3, Zenon DEF Ids
  <2> QED
    BY <1>1, <1>2, <1>3, <1>4, <1>5, <1>6, <1>7, <2>1 DEF Typed
<1>9. Apart'
  BY <1>1, <1>2, <1>4, <1>6, <1>7 DEF Apart
<1>10. Listed'
  BY <1>1, <1>2, <1>4, <1>6, <1>7, ZenonT(40) DEF Listed
<1>11. Emptied'
  BY <1>1, <1>6, SMT DEF Typed, Emptied
<1>12. NoConflict'
  <2>1. CASE granted' = granted
    BY <1>1, <2>1, FewerGranted
  <2>2. CASE Grantable(lock[n]) /\ granted' = granted \cup {n}
    <3>1. \A j \in granted : Conflict(lock[n], lock[j]) => same_inodelk_owner(lock[n], lock[j])
      BY <2>2 DEF Grantable, __inodelk_grantable
    <3>2. \A j \in granted : Conflict(lock[j], lock[n]) => same_inodelk_owner(lock[j], lock[n])
      BY <3>1, Symmetric
    <3>3. same_inodelk_owner(lock[n], lock[n])
      BY DEF same_inodelk_owner
    <3>4. \A i, j \in granted' : Conflict(lock[i], lock[j]) => same_inodelk_owner(lock[i], lock[j])
      BY <2>2, <3>1, <3>2, <3>3 DEF NoConflict
    <3> QED
      BY <1>1, <3>4 DEF NoConflict, Conflict, same_inodelk_owner
  <2> QED
    BY <1>4, <2>1, <2>2
<1> QED
  BY <1>8, <1>9, <1>10, <1>11, <1>12

\* grant_blocked_unwind only answers.
LEMMA UnwindInv ==
  ASSUME Inv, NEW t \in Thread, grant_blocked_unwind(t)
  PROVE  Inv'
<1> DEFINE r == [thr[t] EXCEPT !.pc = "unref"]
<1>1. /\ thr[t].pc = "unwind" /\ thr' = [thr EXCEPT ![t] = r]
      /\ UNCHANGED <<kind, lock, granted, gtime, blocked, lockers, conn>>
  BY DEF grant_blocked_unwind, Become
<1>2. /\ r \in ThreadRec /\ r.pc = "unref" /\ r.splice = {} /\ r.client = thr[t].client
      /\ r.client \in Client
  BY <1>1, Zenon DEF Inv, Typed, ThreadRec
<1> HIDE DEF r
<1>3. Emptied'
  BY <1>1, <1>2 DEF Inv, Typed, Emptied
<1> QED
  BY <1>1, <1>2, <1>3, ThreadInv, Zenon DEF Inv, Typed

\* A client that was dying is gone.
Gone(c) == IF conn[c] = "dying" THEN [conn EXCEPT ![c] = "gone"] ELSE conn

\* The last cleanup of a client ends when the client's list is empty.
LEMMA EndInv ==
  ASSUME Inv, UNCHANGED <<kind, lock, granted, gtime, blocked, lockers>>,
         NEW t \in Thread, thr[t].pc \notin {"idle", "loop"},
         thr' = [thr EXCEPT ![t] = IdleThread], conn' = Gone(thr[t].client),
         conn[thr[t].client] = "dying" => lockers[thr[t].client] = {}
  PROVE  Inv'
<1>1. thr[t].client \in Client /\ conn' \in [Client -> {"up", "down", "dying", "gone"}]
  BY DEF Inv, Typed, Gone
<1>2. IdleThread \in ThreadRec /\ IdleThread.pc = "idle" /\ IdleThread.splice = {}
  BY SMT DEF ThreadRec, IdleThread
<1>3. \A c \in Client : conn'[c] = "dying" => conn[c] = "dying"
  BY <1>1 DEF Inv, Typed, Gone
<1>4. \A c \in Client : conn'[c] = "gone" => conn[c] = "gone" \/ lockers[c] = {}
  BY <1>1 DEF Inv, Typed, Gone
<1>5. Emptied'
  BY <1>2, <1>3, <1>4 DEF Inv, Typed, Emptied
<1> QED
  BY <1>1, <1>2, <1>5, ThreadInv, Zenon

\* grant_blocked_end: the end, or the next lock that the cleanup released.
LEMMA GrantEndInv ==
  ASSUME Inv, NEW t \in Thread, grant_blocked_end(t)
  PROVE  Inv'
<1>1. /\ thr[t].pc = "unref" /\ thr[t].client \in Client /\ thr[t] \in ThreadRec
      /\ UNCHANGED <<kind, lock, granted, gtime, blocked, lockers>>
  BY DEF grant_blocked_end, Inv, Typed
<1>2. CASE Len(thr[t].released) > 1
  <2> DEFINE r == [thr[t] EXCEPT !.pc = "splice", !.batch = {}, !.released = Tail(@)]
  <2>1. thr' = [thr EXCEPT ![t] = r] /\ conn' = conn
    BY <1>2, Zenon DEF grant_blocked_end
  <2>2. thr[t].released \in Seq(Nat) /\ thr[t].released # << >>
    BY <1>1, <1>2, SMT DEF ThreadRec
  <2>3. Tail(thr[t].released) \in Seq(Nat)
    BY <2>2, HeadTailProperties
  <2>4. /\ r \in ThreadRec /\ r.pc = "splice" /\ r.splice = {} /\ r.client = thr[t].client
    BY <1>1, <2>3, Zenon DEF Inv, Typed, ThreadRec
  <2> HIDE DEF r
  <2>5. Emptied'
    BY <1>1, <2>1, <2>4 DEF Inv, Typed, Emptied
  <2> QED
    BY <1>1, <2>1, <2>4, <2>5, ThreadInv, Zenon DEF Inv, Typed
<1>3. CASE ~ (Len(thr[t].released) > 1)
  <2>1. thr' = [thr EXCEPT ![t] = IdleThread] /\ conn' = Gone(thr[t].client)
    BY <1>3 DEF grant_blocked_end, Gone
  <2>2. conn[thr[t].client] = "dying" => lockers[thr[t].client] = {}
    BY <1>1 DEF Inv, Emptied
  <2> QED
    BY <1>1, <2>1, <2>2, EndInv, Zenon
<1> QED
  BY <1>2, <1>3

\* pl_client_disconnect_cbk, pl_client_destroy_cbk: a cleanup begins.
LEMMA CleanupInv ==
  ASSUME Inv, NEW t \in Thread, NEW c \in Client,
         pl_client_disconnect_cbk(t, c) \/ pl_client_destroy_cbk(t, c)
  PROVE  Inv'
<1> DEFINE r == [thr[t] EXCEPT !.pc = "scan", !.client = c]
<1>1. /\ thr[t].pc = "idle" /\ thr' = [thr EXCEPT ![t] = r]
      /\ UNCHANGED <<kind, lock, granted, gtime, blocked, lockers>>
  BY Zenon DEF pl_client_disconnect_cbk, pl_client_destroy_cbk, domVars
<1>2. /\ r \in ThreadRec /\ r.pc = "scan" /\ r.splice = {} /\ r.client = c
  BY <1>1, Zenon DEF Inv, Typed, ThreadRec
<1> HIDE DEF r
<1>3. /\ conn' \in [Client -> {"up", "down", "dying", "gone"}]
      /\ \A d \in Client : conn'[d] = "gone" => conn[d] = "gone"
      /\ \A d \in Client : conn'[d] = "dying" =>
           conn[d] = "dying" \/ \A u \in Thread : thr[u].client # d
  BY DEF Inv, Typed, pl_client_disconnect_cbk, pl_client_destroy_cbk
<1>4. Emptied'
  BY <1>1, <1>2, <1>3 DEF Inv, Typed, Emptied
<1> QED
  BY <1>1, <1>2, <1>3, <1>4, ThreadInv, Zenon

\* cleanup_scan: a lock leaves its client's list together with the list of
\* granted or blocked locks; no thread is in the loop.
LEMMA ScanInv ==
  ASSUME Inv, NEW t \in Thread, cleanup_scan(t)
  PROVE  Inv'
<1> USE DEF Inv
<1> DEFINE c == thr[t].client
           k == NextLocker(c)
<1>1. /\ thr[t].pc = "scan" /\ Free /\ lockers[c] # {}
      /\ lockers' = [lockers EXCEPT ![c] = @ \ {k}]
      /\ UNCHANGED <<kind, lock, gtime, conn>>
  BY DEF cleanup_scan
<1>2. c \in Client /\ thr[t] \in ThreadRec
  BY <1>1 DEF Typed
<1>3. k \in lockers[c] /\ k \in Ids /\ k \in Nat
  BY <1>1, <1>2, NextLockerIn, SMT DEF Typed, Ids
<1>4. \/ /\ granted' = granted \ {k} /\ blocked' = blocked /\ k \in granted
         /\ thr' = [thr EXCEPT ![t].released = Append(@, k)]
      \/ /\ granted' = granted /\ blocked' = blocked \ {k} /\ k \notin granted
         /\ thr' = [thr EXCEPT ![t].bounce = Append(@, k)]
  BY DEF cleanup_scan
<1> HIDE DEF k
<1>5. LockRec' = LockRec /\ Ids' = Ids
  BY <1>1 DEF LockRec, Request, Ids
<1>6. /\ thr' \in [Thread -> ThreadRec]
      /\ \A u \in Thread : /\ thr'[u].pc = thr[u].pc /\ thr'[u].client = thr[u].client
                             /\ thr'[u].splice = thr[u].splice
  <2>1. /\ Append(thr[t].released, k) \in Seq(Nat)
        /\ Append(thr[t].bounce, k) \in Seq(Nat)
    BY <1>2, <1>3, AppendProperties DEF ThreadRec
  <2>2. CASE thr' = [thr EXCEPT ![t].released = Append(@, k)]
    BY <1>2, <2>1, <2>2, Zenon DEF Typed, ThreadRec
  <2>3. CASE thr' = [thr EXCEPT ![t].bounce = Append(@, k)]
    BY <1>2, <2>1, <2>3, Zenon DEF Typed, ThreadRec
  <2> QED
    BY <1>4, <2>2, <2>3
<1>7. \A u \in Thread : thr[u].splice = {} /\ thr[u].pc # "loop"
  BY <1>1 DEF Typed, Free
<1>8. /\ granted' \in SUBSET granted /\ blocked' \in SUBSET blocked
      /\ k \notin granted' \cup blocked'
  BY <1>4 DEF Apart
<1>9. /\ lockers' \in [Client -> SUBSET Ids]
      /\ \A d \in Client : /\ lockers'[d] \in SUBSET lockers[d]
                            /\ lockers[d] \ {k} \in SUBSET lockers'[d]
  BY <1>1, <1>2 DEF Typed
<1>10. Typed'
  BY <1>1, <1>5, <1>6, <1>8, <1>9 DEF Typed
<1>11. Apart'
  BY <1>6, <1>7, <1>8 DEF Apart
<1>12. Listed'
  <2>1. ASSUME NEW i \in granted' \cup blocked'
        PROVE  i \in lockers'[lock[i].client]
    <3>1. i \in Ids /\ i # k /\ i \in granted \cup blocked
      BY <1>8 DEF Typed
    <3>2. i \in lockers[lock[i].client] /\ lock[i].client \in Client
      BY <3>1, ClientOf DEF Listed
    <3> QED
      BY <1>9, <3>1, <3>2
  <2> QED
    BY <1>1, <1>6, <1>7, <2>1 DEF Listed
<1>13. Emptied'
  BY <1>1, <1>6, <1>9, SMT DEF Typed, Emptied
<1> QED
  BY <1>1, <1>8, <1>10, <1>11, <1>12, <1>13, FewerGranted

\* cleanup_unwind: the client's list is empty.
LEMMA CleanupUnwindInv ==
  ASSUME Inv, NEW t \in Thread, cleanup_unwind(t)
  PROVE  Inv'
<1> DEFINE all == thr[t].released \o thr[t].bounce
<1>1. /\ thr[t].pc = "scan" /\ lockers[thr[t].client] = {}
      /\ UNCHANGED <<kind, lock, granted, gtime, blocked, lockers>>
  BY DEF cleanup_unwind
<1>2. thr[t].client \in Client /\ thr[t] \in ThreadRec
  BY <1>1 DEF Inv, Typed
<1>3. CASE all = << >>
  <2>1. thr' = [thr EXCEPT ![t] = IdleThread] /\ conn' = Gone(thr[t].client)
    BY <1>3 DEF cleanup_unwind, Gone
  <2> QED
    BY <1>1, <2>1, EndInv, Zenon
<1>4. CASE all # << >>
  <2> DEFINE r == [thr[t] EXCEPT !.pc = "splice", !.bounce = << >>, !.released = all]
  <2>1. thr' = [thr EXCEPT ![t] = r] /\ conn' = conn
    BY <1>4, Zenon DEF cleanup_unwind
  <2>2. all \in Seq(Nat) /\ << >> \in Seq(Nat)
    BY <1>2, ConcatProperties, SMT DEF ThreadRec
  <2> HIDE DEF all
  <2>3. r \in ThreadRec /\ r.pc = "splice" /\ r.splice = {} /\ r.client = thr[t].client
    BY <1>1, <1>2, <2>2, Zenon DEF Inv, Typed, ThreadRec
  <2> HIDE DEF r
  <2>4. Emptied'
    BY <1>1, <1>2, <2>1, <2>3 DEF Inv, Typed, Emptied
  <2> QED
    BY <1>1, <1>2, <2>1, <2>3, <2>4, ThreadInv, Zenon DEF Inv, Typed
<1> QED
  BY <1>3, <1>4

-----------------------------------------------------------------------------
\* Every step keeps the invariant.
LEMMA StepInv ==
  ASSUME Inv, [Next]_vars
  PROVE  Inv'
<1>1. ASSUME NEW l \in LockRec, NEW can_block \in BOOLEAN, pl_inode_setlk(l, can_block)
      PROVE  Inv'
  BY <1>1, SetlkInv
<1>2. ASSUME NEW l \in LockRec, NEW t \in Thread, pl_inode_unlock(t, l)
      PROVE  Inv'
  BY <1>2, UnlockInv
<1>3. ASSUME NEW t \in Thread, NEW c \in Client,
             pl_client_disconnect_cbk(t, c) \/ pl_client_destroy_cbk(t, c)
      PROVE  Inv'
  BY <1>3, CleanupInv
<1>4. ASSUME NEW t \in Thread, Step(t)
      PROVE  Inv'
  BY <1>4, BeginInv, LoopInv, UnwindInv, GrantEndInv, ScanInv, CleanupUnwindInv DEF Step
<1>5. CASE UNCHANGED vars
  BY <1>5, SMT DEF vars, domVars, Inv, Typed, Apart, Listed, Emptied, NoConflict, LockRec,
              Request, Ids, Conflict, same_inodelk_owner
<1> QED
  BY <1>1, <1>2, <1>3, <1>4, <1>5 DEF Next, LockRec

\* The inductive invariant holds in every state.
THEOREM Invariance == Spec => []Inv
<1>1. Init => Inv
  BY InitInv
<1>2. Inv /\ [Next]_vars => Inv'
  BY StepInv
<1> QED
  BY <1>1, <1>2, PTL DEF Spec

\* __inodelk_grantable, grant_blocked_inode_locks: however grants, unlocks and
\* cleanups interleave, two locks that are granted at the same time conflict
\* only when they have one owner.
THEOREM Exclusive == Spec => []NoConflict
<1>1. Inv => NoConflict
  BY DEF Inv
<1> QED
  BY <1>1, Invariance, PTL

\* pl_client_destroy_cbk: no lock of a client that is gone is granted or
\* blocked.
THEOREM NothingLeft == Spec => []NoStaleLock
<1>1. Inv => NoStaleLock
  <2>1. ASSUME Inv, NEW i \in granted \cup blocked
        PROVE  conn[lock[i].client] # "gone"
    <3>1. i \in Ids /\ i \in lockers[lock[i].client]
      BY <2>1 DEF Inv, Typed, Listed
    <3>2. lock[i].client \in Client
      BY <2>1, <3>1, ClientOf DEF Inv
    <3> QED
      BY <2>1, <3>1, <3>2 DEF Inv, Emptied
  <2> QED
    BY <2>1 DEF NoStaleLock
<1> QED
  BY <1>1, Invariance, PTL

-----------------------------------------------------------------------------
(* Answers, grants and references                                          *)

\* The locks whose frames thread t is to unwind, or has yet to grant or to put
\* back.
Waits(t) ==
  thr[t].splice \cup Elems(thr[t].bounce)
    \cup (IF thr[t].pc \in {"loop", "unwind"} THEN thr[t].batch ELSE {})

\* The lists of a thread are empty where it does not use them, and a lock is on
\* the list of its own client, if it is on any, only while it is granted or
\* waits.
Orderly ==
  /\ \A t \in Thread :
       /\ thr[t].batch \cap thr[t].splice = {}
       /\ thr[t].batch # {} => thr[t].pc \in {"loop", "unwind", "unref"}
       /\ thr[t].bounce # << >> => thr[t].pc = "scan"
  /\ \A c \in Client : \A i \in lockers[c] :
       /\ lock[i].client = c
       /\ i \in granted \cup blocked \/ \E t \in Thread : i \in thr[t].splice

\* A lock waits in one place, and waits as long as it is not answered.
Waiting ==
  /\ answers \in Seq(Nat) /\ Len(answers) = Len(lock)
  /\ \A t \in Thread :
       /\ Waits(t) \in SUBSET Ids
       /\ Waits(t) \cap blocked = {}
       /\ \A u \in Thread : t # u => Waits(t) \cap Waits(u) = {}
  /\ \A i \in Ids :
       answers[i] = IF i \in blocked \/ \E t \in Thread : i \in Waits(t) THEN 0 ELSE 1

\* The inductive invariant with what AnsweredOnce needs.
AnswerInv == Inv /\ Orderly /\ Waiting

-----------------------------------------------------------------------------
\* Elements of the lists that a cleanup builds.
LEMMA ElemsAppend ==
  ASSUME NEW s \in Seq(Nat), NEW k \in Nat
  PROVE  Elems(Append(s, k)) = Elems(s) \cup {k}
<1>1. /\ Append(s, k) \in Seq(Nat) /\ Len(Append(s, k)) = Len(s) + 1 /\ Len(s) \in Nat
      /\ \A i \in 1 .. Len(s) : Append(s, k)[i] = s[i]
      /\ Append(s, k)[Len(s) + 1] = k
  BY AppendProperties, SMT
<1>2. DOMAIN s = 1 .. Len(s) /\ DOMAIN Append(s, k) = 1 .. Len(s) + 1
  BY <1>1, SMT
<1>3. 1 .. Len(s) + 1 = (1 .. Len(s)) \cup {Len(s) + 1}
  BY <1>1, SMT
<1> QED
  BY <1>1, <1>2, <1>3, SMT DEF Elems

\* An empty list has no elements.
LEMMA ElemsEmpty == Elems(<< >>) = {}
BY SMT DEF Elems

\* A step that moves no waiting lock.
LEMMA SameWaits ==
  ASSUME Waiting, UNCHANGED <<lock, blocked, answers>>,
         \A t \in Thread : Waits(t)' = Waits(t)
  PROVE  Waiting'
BY SMT DEF Waiting, Ids

\* A thread answers the locks that wait with it.
LEMMA Answered ==
  ASSUME Waiting, UNCHANGED <<lock, blocked>>, NEW t \in Thread,
         Waits(t)' = {}, \A u \in Thread \ {t} : Waits(u)' = Waits(u),
         answers' = [i \in DOMAIN answers |->
                       IF i \in Waits(t) THEN answers[i] + 1 ELSE answers[i]]
  PROVE  Waiting'
<1>1. answers \in [Ids -> Nat] /\ Len(lock) \in Nat /\ Ids = 1 .. Len(lock)
  BY SMT DEF Waiting, Ids
<1>2. answers' \in [1 .. Len(lock) -> Nat]
  BY <1>1, SMT
<1>3. answers' \in Seq(Nat) /\ Len(answers') = Len(lock)
  BY <1>1, <1>2, SMT
<1>4. Ids' = Ids
  BY DEF Ids
<1>5. ASSUME NEW i \in Ids
      PROVE  answers'[i] = IF i \in blocked \/ \E u \in Thread : i \in Waits(u)' THEN 0 ELSE 1
  <2>1. CASE i \in Waits(t)
    <3>1. answers[i] = 0 /\ answers'[i] = answers[i] + 1
      BY <1>1, <2>1 DEF Waiting
    <3>2. i \notin blocked /\ \A u \in Thread : i \notin Waits(u)'
      BY <2>1, SMT DEF Waiting
    <3> QED
      BY <3>1, <3>2, SMT
  <2>2. CASE i \notin Waits(t)
    <3>1. answers'[i] = answers[i]
      BY <1>1, <2>2
    <3>2. (\E u \in Thread : i \in Waits(u)') <=> (\E u \in Thread : i \in Waits(u))
      BY <2>2
    <3> QED
      BY <3>1, <3>2 DEF Waiting
  <2> QED
    BY <2>1, <2>2
<1>6. ASSUME NEW u \in Thread
      PROVE  /\ Waits(u)' \in SUBSET Ids
             /\ Waits(u)' \cap blocked = {}
             /\ \A v \in Thread : u # v => Waits(u)' \cap Waits(v)' = {}
  BY DEF Waiting
<1> QED
  BY <1>3, <1>4, <1>5, <1>6, Zenon DEF Waiting

\* A set of locks moves between the blocked ones and a thread that is to grant
\* or to answer them.
LEMMA Moved ==
  ASSUME Waiting, UNCHANGED <<lock, answers>>, NEW t \in Thread,
         \A u \in Thread \ {t} : Waits(u)' = Waits(u),
         Waits(t)' \cup blocked' = Waits(t) \cup blocked,
         Waits(t)' \cap blocked' = {}, blocked \in SUBSET Ids
  PROVE  Waiting'
<1>1. Ids' = Ids
  BY DEF Ids
<1>2. ASSUME NEW u \in Thread
      PROVE  /\ Waits(u)' \in SUBSET Ids
             /\ Waits(u)' \cap blocked' = {}
             /\ \A v \in Thread : u # v => Waits(u)' \cap Waits(v)' = {}
  <2>1. CASE u = t
    BY <2>1, SMT DEF Waiting
  <2>2. CASE u # t
    BY <2>2, SMT DEF Waiting
  <2> QED
    BY <2>1, <2>2
<1>3. ASSUME NEW i \in Ids
      PROVE  (i \in blocked' \/ \E u \in Thread : i \in Waits(u)')
               <=> (i \in blocked \/ \E u \in Thread : i \in Waits(u))
  OBVIOUS
<1> QED
  BY <1>1, <1>2, <1>3 DEF Waiting

-----------------------------------------------------------------------------
\* pl_inode_setlk: a lock is answered at once, or is blocked.
LEMMA SetlkWaits ==
  ASSUME AnswerInv, NEW l \in LockRec, NEW can_block \in BOOLEAN, pl_inode_setlk(l, can_block)
  PROVE  Orderly' /\ Waiting'
<1> USE DEF AnswerInv, Inv
<1> DEFINE n == Len(lock) + 1
<1>1. /\ lock' = Append(lock, l)
      /\ lockers' = [lockers EXCEPT ![l.client] = @ \cup {n}]
      /\ UNCHANGED thr
      /\ \/ granted' = granted \cup {n} /\ blocked' = blocked /\ answers' = Append(answers, 1)
         \/ granted' = granted /\ blocked' = blocked \cup {n} /\ answers' = Append(answers, 0)
  BY DEF pl_inode_setlk
<1>2. /\ Len(lock) \in Nat /\ Len(lock') = n
      /\ \A i \in Ids : lock'[i] = lock[i]
      /\ lock'[n] = l
      /\ Ids' = Ids \cup {n} /\ n \notin Ids
  BY <1>1, AppendProperties, SMT DEF Typed, Ids
<1>3. l.client \in Client
  BY DEF LockRec
<1>4. Orderly'
  <2>1. ASSUME NEW c \in Client, NEW i \in lockers'[c]
        PROVE  /\ lock'[i].client = c
               /\ i \in granted' \cup blocked' \/ \E t \in Thread : i \in thr'[t].splice
    <3>1. CASE i \in lockers[c]
      <4>1. i \in Ids
        BY <3>1 DEF Typed
      <4>2. lock'[i] = lock[i] /\ granted \subseteq granted' /\ blocked \subseteq blocked'
        BY <1>1, <1>2, <4>1, Zenon
      <4>3. /\ lock[i].client = c
            /\ i \in granted \cup blocked \/ \E t \in Thread : i \in thr[t].splice
        BY <3>1 DEF Orderly
      <4> QED
        BY <1>1, <4>2, <4>3
    <3>2. CASE i = n /\ c = l.client
      BY <1>1, <1>2, <3>2
    <3> QED
      BY <1>1, <1>3, <3>1, <3>2, Zenon DEF Typed
  <2> QED
    BY <1>1, <2>1, Zenon DEF Orderly
<1>5. \A t \in Thread : Waits(t)' = Waits(t)
  BY <1>1 DEF Waits
<1>6. \E a \in {0, 1} : answers' = Append(answers, a) /\ (a = 0 <=> n \in blocked')
  BY <1>1, <1>2, SMT DEF Typed
<1>7. /\ answers' \in Seq(Nat) /\ Len(answers') = n
      /\ \A i \in Ids : answers'[i] = answers[i]
      /\ answers'[n] = IF n \in blocked' THEN 0 ELSE 1
  BY <1>2, <1>6, AppendProperties, SMT DEF Waiting, Ids
<1>8. \A t \in Thread : n \notin Waits(t)
  BY <1>2 DEF Waiting
<1>9. \A i \in Ids : i \in blocked' <=> i \in blocked
  BY <1>1, <1>2, SMT
<1>10. Waiting'
  <2>1. \A t \in Thread :
          /\ Waits(t)' \in SUBSET Ids'
          /\ Waits(t)' \cap blocked' = {}
          /\ \A u \in Thread : t # u => Waits(t)' \cap Waits(u)' = {}
    BY <1>1, <1>2, <1>5, <1>8, ZenonT(40) DEF Waiting
  <2>2. \A i \in Ids' :
          answers'[i] = IF i \in blocked' \/ \E t \in Thread : i \in Waits(t)' THEN 0 ELSE 1
    BY <1>2, <1>5, <1>7, <1>8, <1>9, SMT DEF Waiting
  <2> QED
    BY <1>2, <1>7, <2>1, <2>2 DEF Waiting
<1> QED
  BY <1>4, <1>10

\* pl_inode_unlock moves no lock that waits.
LEMMA UnlockWaits ==
  ASSUME AnswerInv, NEW t \in Thread, NEW l \in LockRec, pl_inode_unlock(t, l)
  PROVE  Orderly' /\ Waiting'
<1> USE DEF AnswerInv, Inv
<1>1. /\ thr[t].pc = "idle"
      /\ thr' = [thr EXCEPT ![t].pc = "splice", ![t].client = l.client]
      /\ UNCHANGED <<lock, blocked, answers>>
  BY DEF pl_inode_unlock
<1>2. l.client \in Client
  BY DEF LockRec
<1>3. \/ UNCHANGED <<granted, lockers>>
      \/ \E k \in granted : /\ granted' = granted \ {k} /\ lock[k].client = l.client
                             /\ lockers' = [lockers EXCEPT ![l.client] = @ \ {k}]
  <2> DEFINE match == {i \in granted : Equal(lock[i], l) /\ same_inodelk_owner(lock[i], l)}
  <2>1. match # {} => Newest(match) \in match
    BY NewestIn, Zenon DEF Typed
  <2>2. match # {} => Newest(match) \in granted /\ lock[Newest(match)].client = l.client
    BY <2>1 DEF same_inodelk_owner
  <2> QED
    BY <2>2, Zenon DEF pl_inode_unlock
<1>4. /\ \A u \in Thread \ {t} : thr'[u] = thr[u]
      /\ thr'[t].splice = thr[t].splice /\ thr'[t].batch = thr[t].batch
      /\ thr'[t].bounce = thr[t].bounce /\ thr'[t].pc = "splice"
  BY <1>1, <1>2 DEF Typed, ThreadRec
<1>5. \A c \in Client : \A i \in lockers'[c] :
        /\ i \in lockers[c]
        /\ i \in granted => i \in granted'
  <2>1. CASE UNCHANGED <<granted, lockers>>
    BY <2>1
  <2>2. ASSUME NEW k \in granted, granted' = granted \ {k}, lock[k].client = l.client,
               lockers' = [lockers EXCEPT ![l.client] = @ \ {k}],
               NEW c \in Client, NEW i \in lockers'[c]
        PROVE  i \in lockers[c] /\ (i \in granted => i \in granted')
    <3>1. i \in lockers[c] /\ (c = l.client => i # k)
      BY <1>2, <2>2 DEF Typed
    <3>2. lock[i].client = c
      BY <3>1 DEF Orderly
    <3> QED
      BY <2>2, <3>1, <3>2
  <2> QED
    BY <1>3, <2>1, <2>2
<1>6. Orderly'
  <2>1. \A u \in Thread :
          /\ thr'[u].batch \cap thr'[u].splice = {}
          /\ thr'[u].batch # {} => thr'[u].pc \in {"loop", "unwind", "unref"}
          /\ thr'[u].bounce # << >> => thr'[u].pc = "scan"
    <3>1. thr[t].batch = {} /\ thr[t].bounce = << >>
      BY <1>1 DEF Orderly
    <3>2. /\ thr'[t].batch = {} /\ thr'[t].bounce = << >>
      BY <1>4, <3>1
    <3>3. ASSUME NEW u \in Thread \ {t}
          PROVE  /\ thr'[u].batch \cap thr'[u].splice = {}
                 /\ thr'[u].batch # {} => thr'[u].pc \in {"loop", "unwind", "unref"}
                 /\ thr'[u].bounce # << >> => thr'[u].pc = "scan"
      BY <1>4, SMT DEF Orderly
    <3> QED
      BY <3>2, <3>3
  <2>2. \A u \in Thread : thr'[u].splice = thr[u].splice
    BY <1>4
  <2>3. ASSUME NEW c \in Client, NEW i \in lockers'[c]
        PROVE  /\ lock'[i].client = c
               /\ i \in granted' \cup blocked' \/ \E u \in Thread : i \in thr'[u].splice
    <3>1. i \in lockers[c] /\ (i \in granted => i \in granted')
      BY <1>5
    <3>2. /\ lock[i].client = c
          /\ i \in granted \cup blocked \/ \E u \in Thread : i \in thr[u].splice
      BY <3>1 DEF Orderly
    <3> QED
      BY <1>1, <2>2, <3>1, <3>2, Zenon
  <2> QED
    BY <2>1, <2>3 DEF Orderly
<1>7. \A u \in Thread : Waits(u)' = Waits(u)
  <2>1. thr[t].batch = {}
    BY <1>1 DEF Orderly
  <2> QED
    BY <1>1, <1>4, <2>1, Zenon DEF Waits
<1> QED
  BY <1>1, <1>6, <1>7, SameWaits

\* A step that leaves the lists and lock objects alone.
LEMMA ThreadOrderly ==
  ASSUME AnswerInv, UNCHANGED <<lock, granted, blocked, lockers>>,
         NEW t \in Thread, NEW r \in ThreadRec,
         thr' = [thr EXCEPT ![t] = r],
         r.splice = {}, thr[t].splice = {},
         r.batch # {} => r.pc = "unref",
         r.bounce # << >> => r.pc = "scan"
  PROVE  Orderly'
<1>1. thr'[t] = r /\ \A u \in Thread \ {t} : thr'[u] = thr[u]
  BY DEF AnswerInv, Inv, Typed
<1>2. \A u \in Thread : thr'[u].splice = thr[u].splice
  BY <1>1, Zenon
<1> QED
  BY <1>1, <1>2, SMT DEF AnswerInv, Orderly

\* grant_blocked_begin: the blocked locks wait with the thread.
LEMMA BeginWaits ==
  ASSUME AnswerInv, NEW t \in Thread, grant_blocked_begin(t)
  PROVE  Orderly' /\ Waiting'
<1> USE DEF AnswerInv, Inv
<1>1. /\ thr[t].pc = "splice" /\ Free /\ blocked' = {}
      /\ UNCHANGED <<lock, granted, lockers, answers>>
  BY DEF grant_blocked_begin
<1>2. PICK pc \in {"unwind", "loop"} :
        /\ pc = "loop" <=> blocked # {}
        /\ thr' = [thr EXCEPT ![t].pc = pc, ![t].splice = blocked]
  BY Zenon DEF grant_blocked_begin
<1>3. /\ \A u \in Thread \ {t} : thr'[u] = thr[u]
      /\ thr'[t].splice = blocked /\ thr'[t].pc = pc
      /\ thr'[t].batch = thr[t].batch /\ thr'[t].bounce = thr[t].bounce
  BY <1>2 DEF Typed, ThreadRec
<1>4. \A u \in Thread : thr[u].splice = {}
  BY <1>1 DEF Typed, Free
<1>5. thr[t].batch = {} /\ thr[t].bounce = << >>
  BY <1>1 DEF Orderly
<1>6. Orderly'
  <2>1. \A u \in Thread :
          /\ thr'[u].batch \cap thr'[u].splice = {}
          /\ thr'[u].batch # {} => thr'[u].pc \in {"loop", "unwind", "unref"}
          /\ thr'[u].bounce # << >> => thr'[u].pc = "scan"
    BY <1>3, <1>5, SMT DEF Orderly
  <2>2. \A c \in Client : \A i \in lockers[c] :
          lock[i].client = c /\ i \in granted \cup thr'[t].splice
    BY <1>3, <1>4 DEF Orderly
  <2> QED
    BY <1>1, <2>1, <2>2 DEF Orderly
<1>7. Waits(t) = {} /\ Waits(t)' = blocked
  BY <1>1, <1>3, <1>4, <1>5, ElemsEmpty DEF Waits
<1>8. \A u \in Thread \ {t} : Waits(u)' = Waits(u)
  BY <1>3 DEF Waits
<1> QED
  BY <1>1, <1>6, <1>7, <1>8, Moved DEF Typed

\* The loop: a lock waits to be answered, or is blocked again.
LEMMA LoopWaits ==
  ASSUME AnswerInv, NEW t \in Thread, __grant_blocked_inode_locks(t)
  PROVE  Orderly' /\ Waiting'
<1> USE DEF AnswerInv, Inv
<1> DEFINE n    == Least(thr[t].splice)
           rest == thr[t].splice \ {n}
           pc   == IF rest = {} THEN "unwind" ELSE "loop"
<1>1. /\ thr[t].pc = "loop" /\ thr[t].splice # {}
      /\ UNCHANGED <<lock, lockers, answers>>
  BY Zenon DEF __grant_blocked_inode_locks, Typed
<1>2. n \in thr[t].splice /\ n \in Nat /\ thr[t] \in ThreadRec
  <2>1. thr[t].splice \in SUBSET Nat
    BY SMT DEF Typed, Ids
  <2> QED
    BY <1>1, <2>1, LeastIn DEF Typed
<1>3. \/ /\ granted' = granted \cup {n} /\ blocked' = blocked
         /\ thr' = [thr EXCEPT ![t].splice = rest, ![t].pc = pc, ![t].batch = @ \cup {n}]
      \/ /\ granted' = granted /\ blocked' = blocked \cup {n}
         /\ thr' = [thr EXCEPT ![t].splice = rest, ![t].pc = pc]
  BY Zenon DEF __grant_blocked_inode_locks
<1>4. rest \in SUBSET thr[t].splice /\ pc \in {"unwind", "loop"}
  OBVIOUS
<1>5. thr[t].splice = rest \cup {n} /\ n \notin rest
  BY <1>2
<1> HIDE DEF n, rest, pc
<1>6. /\ \A u \in Thread \ {t} : thr'[u] = thr[u]
      /\ thr'[t].splice = rest /\ thr'[t].pc = pc /\ thr'[t].bounce = thr[t].bounce
      /\ \/ /\ granted' = granted \cup {n} /\ blocked' = blocked
            /\ thr'[t].batch = thr[t].batch \cup {n}
         \/ /\ granted' = granted /\ blocked' = blocked \cup {n}
            /\ thr'[t].batch = thr[t].batch
  <2>1. CASE thr' = [thr EXCEPT ![t].splice = rest, ![t].pc = pc, ![t].batch = @ \cup {n}]
               /\ granted' = granted \cup {n} /\ blocked' = blocked
    BY <1>2, <2>1 DEF Typed, ThreadRec
  <2>2. CASE thr' = [thr EXCEPT ![t].splice = rest, ![t].pc = pc]
               /\ granted' = granted /\ blocked' = blocked \cup {n}
    BY <1>2, <2>2 DEF Typed, ThreadRec
  <2> QED
    BY <1>3, <2>1, <2>2
<1>7. thr[t].bounce = << >> /\ thr[t].batch \cap thr[t].splice = {}
  BY <1>1 DEF Orderly
<1>8. Orderly'
  <2>1. \A u \in Thread :
          /\ thr'[u].batch \cap thr'[u].splice = {}
          /\ thr'[u].batch # {} => thr'[u].pc \in {"loop", "unwind", "unref"}
          /\ thr'[u].bounce # << >> => thr'[u].pc = "scan"
    BY <1>4, <1>5, <1>6, <1>7, SMT DEF Orderly
  <2>2. ASSUME NEW c \in Client, NEW i \in lockers[c]
        PROVE  /\ lock[i].client = c
               /\ i \in granted' \cup blocked' \/ \E u \in Thread : i \in thr'[u].splice
    <3>1. lock[i].client = c
      BY <2>2 DEF Orderly
    <3>2. CASE i \in granted \cup blocked
      BY <1>6, <3>1, <3>2
    <3>3. ASSUME NEW u \in Thread, i \in thr[u].splice
          PROVE  i \in granted' \cup blocked' \/ i \in thr'[u].splice
      BY <1>5, <1>6, <3>3
    <3> QED
      BY <2>2, <3>1, <3>2, <3>3 DEF Orderly
  <2> QED
    BY <1>1, <2>1, <2>2 DEF Orderly
<1>9. \A u \in Thread \ {t} : Waits(u)' = Waits(u)
  BY <1>6 DEF Waits
<1>10. /\ Waits(t) = rest \cup {n} \cup thr[t].batch
       /\ Waits(t)' = rest \cup thr'[t].batch
  BY <1>1, <1>4, <1>5, <1>6, <1>7, ElemsEmpty DEF Waits
<1>11. Waits(t) \cap blocked = {} /\ blocked \in SUBSET Ids
  BY DEF Waiting, Typed
<1>12. /\ Waits(t)' \cup blocked' = Waits(t) \cup blocked
       /\ Waits(t)' \cap blocked' = {}
  BY <1>2, <1>5, <1>6, <1>7, <1>10, <1>11, SMTT(20)
<1> QED
  BY <1>1, <1>8, <1>9, <1>11, <1>12, Moved

\* grant_blocked_unwind answers the locks that were granted.
LEMMA UnwindWaits ==
  ASSUME AnswerInv, NEW t \in Thread, grant_blocked_unwind(t)
  PROVE  Orderly' /\ Waiting'
<1> DEFINE r == [thr[t] EXCEPT !.pc = "unref"]
<1>1. /\ thr[t].pc = "unwind" /\ thr' = [thr EXCEPT ![t] = r]
      /\ answers' = [i \in DOMAIN answers |->
                       IF i \in thr[t].batch THEN answers[i] + 1 ELSE answers[i]]
      /\ UNCHANGED <<lock, granted, blocked, lockers>>
  BY DEF grant_blocked_unwind, Become
<1>2. thr[t].splice = {} /\ thr[t].bounce = << >> /\ thr[t] \in ThreadRec
  BY <1>1 DEF AnswerInv, Inv, Typed, Orderly
<1>3. r \in ThreadRec /\ r.pc = "unref" /\ r.splice = {} /\ r.bounce = << >>
  BY <1>2, Zenon DEF ThreadRec
<1> HIDE DEF r
<1>4. thr'[t] = r /\ \A u \in Thread \ {t} : thr'[u] = thr[u]
  BY <1>1 DEF AnswerInv, Inv, Typed
<1>5. Waits(t) = thr[t].batch /\ Waits(t)' = {}
  BY <1>1, <1>2, <1>3, <1>4, ElemsEmpty DEF Waits
<1>6. \A u \in Thread \ {t} : Waits(u)' = Waits(u)
  BY <1>4 DEF Waits
<1>7. Waiting'
  BY <1>1, <1>5, <1>6, Answered DEF AnswerInv
<1> QED
  BY <1>1, <1>2, <1>3, <1>7, ThreadOrderly, Zenon

\* grant_blocked_end moves no lock that waits.
LEMMA GrantEndWaits ==
  ASSUME AnswerInv, NEW t \in Thread, grant_blocked_end(t)
  PROVE  Orderly' /\ Waiting'
<1>1. /\ thr[t].pc = "unref" /\ thr[t] \in ThreadRec
      /\ thr[t].splice = {} /\ thr[t].bounce = << >>
      /\ UNCHANGED <<lock, granted, blocked, lockers, answers>>
  BY DEF grant_blocked_end, AnswerInv, Inv, Typed, Orderly
<1>2. PICK r \in ThreadRec :
        /\ thr' = [thr EXCEPT ![t] = r]
        /\ r.pc \in {"splice", "idle"} /\ r.splice = {} /\ r.batch = {} /\ r.bounce = << >>
  <2>1. CASE Len(thr[t].released) > 1
    <3> DEFINE r == [thr[t] EXCEPT !.pc = "splice", !.batch = {}, !.released = Tail(@)]
    <3>1. thr' = [thr EXCEPT ![t] = r]
      BY <2>1, Zenon DEF grant_blocked_end
    <3>2. thr[t].released \in Seq(Nat) /\ thr[t].released # << >>
      BY <1>1, <2>1, SMT DEF ThreadRec
    <3>3. Tail(thr[t].released) \in Seq(Nat)
      BY <3>2, HeadTailProperties
    <3>4. /\ r \in ThreadRec /\ r.pc = "splice" /\ r.splice = {} /\ r.batch = {}
          /\ r.bounce = << >>
      BY <1>1, <3>3, Zenon DEF ThreadRec
    <3> QED
      BY <3>1, <3>4, Zenon
  <2>2. CASE ~ (Len(thr[t].released) > 1)
    <3>1. thr' = [thr EXCEPT ![t] = IdleThread]
      BY <2>2 DEF grant_blocked_end
    <3>2. /\ IdleThread \in ThreadRec /\ IdleThread.pc = "idle" /\ IdleThread.splice = {}
          /\ IdleThread.batch = {} /\ IdleThread.bounce = << >>
      BY SMT DEF IdleThread, ThreadRec
    <3> QED
      BY <3>1, <3>2, Zenon
  <2> QED
    BY <2>1, <2>2
<1>3. thr'[t] = r /\ \A u \in Thread \ {t} : thr'[u] = thr[u]
  BY <1>2 DEF AnswerInv, Inv, Typed
<1>4. \A u \in Thread : Waits(u)' = Waits(u)
  BY <1>1, <1>2, <1>3 DEF Waits
<1>5. Waiting'
  BY <1>1, <1>4, SameWaits DEF AnswerInv
<1> QED
  BY <1>1, <1>2, <1>5, ThreadOrderly, Zenon

\* The beginning of a cleanup moves no lock that waits.
LEMMA CleanupWaits ==
  ASSUME AnswerInv, NEW t \in Thread, NEW c \in Client,
         pl_client_disconnect_cbk(t, c) \/ pl_client_destroy_cbk(t, c)
  PROVE  Orderly' /\ Waiting'
<1> DEFINE r == [thr[t] EXCEPT !.pc = "scan", !.client = c]
<1>1. /\ thr[t].pc = "idle" /\ thr' = [thr EXCEPT ![t] = r]
      /\ UNCHANGED <<lock, granted, blocked, lockers, answers>>
  BY Zenon DEF pl_client_disconnect_cbk, pl_client_destroy_cbk, domVars
<1>2. /\ thr[t].splice = {} /\ thr[t].batch = {} /\ thr[t].bounce = << >>
      /\ thr[t] \in ThreadRec
  BY <1>1 DEF AnswerInv, Inv, Typed, Orderly
<1>3. /\ r \in ThreadRec /\ r.pc = "scan" /\ r.splice = {} /\ r.batch = {}
      /\ r.bounce = << >>
  BY <1>2, Zenon DEF ThreadRec
<1> HIDE DEF r
<1>4. thr'[t] = r /\ \A u \in Thread \ {t} : thr'[u] = thr[u]
  BY <1>1 DEF AnswerInv, Inv, Typed
<1>5. \A u \in Thread : Waits(u)' = Waits(u)
  BY <1>1, <1>2, <1>3, <1>4 DEF Waits
<1>6. Waiting'
  BY <1>1, <1>5, SameWaits DEF AnswerInv
<1> QED
  BY <1>1, <1>2, <1>3, <1>6, ThreadOrderly, Zenon

\* cleanup_scan: a blocked lock waits with the thread, to be refused.
LEMMA ScanWaits ==
  ASSUME AnswerInv, NEW t \in Thread, cleanup_scan(t)
  PROVE  Orderly' /\ Waiting'
<1> USE DEF AnswerInv, Inv
<1> DEFINE c == thr[t].client
           k == NextLocker(c)
<1>1. /\ thr[t].pc = "scan" /\ Free /\ lockers[c] # {}
      /\ lockers' = [lockers EXCEPT ![c] = @ \ {k}]
      /\ UNCHANGED <<lock, answers>>
  BY DEF cleanup_scan
<1>2. c \in Client /\ thr[t] \in ThreadRec /\ thr[t].batch = {}
  BY <1>1, Zenon DEF Typed, Orderly
<1>3. k \in lockers[c] /\ k \in Nat
  BY <1>1, <1>2, NextLockerIn, SMTT(20) DEF Typed, Ids
<1>4. \/ /\ granted' = granted \ {k} /\ blocked' = blocked
         /\ thr' = [thr EXCEPT ![t].released = Append(@, k)]
      \/ /\ granted' = granted /\ blocked' = blocked \ {k} /\ k \notin granted
         /\ thr' = [thr EXCEPT ![t].bounce = Append(@, k)]
  BY DEF cleanup_scan
<1> HIDE DEF k
<1>5. \A u \in Thread : thr[u].splice = {}
  BY <1>1 DEF Typed, Free
<1>6. lock[k].client = c /\ k \in granted \cup blocked
  BY <1>2, <1>3, <1>5 DEF Orderly
<1>7. /\ \A u \in Thread \ {t} : thr'[u] = thr[u]
      /\ thr'[t].pc = "scan" /\ thr'[t].splice = {} /\ thr'[t].batch = {}
      /\ \/ /\ granted' = granted \ {k} /\ blocked' = blocked
            /\ thr'[t].bounce = thr[t].bounce
         \/ /\ granted' = granted /\ blocked' = blocked \ {k} /\ k \notin granted
            /\ thr'[t].bounce = Append(thr[t].bounce, k)
  <2>1. CASE /\ granted' = granted \ {k} /\ blocked' = blocked
             /\ thr' = [thr EXCEPT ![t].released = Append(@, k)]
    BY <1>1, <1>2, <1>5, <2>1 DEF Typed, ThreadRec
  <2>2. CASE /\ granted' = granted /\ blocked' = blocked \ {k} /\ k \notin granted
             /\ thr' = [thr EXCEPT ![t].bounce = Append(@, k)]
    BY <1>1, <1>2, <1>5, <2>2 DEF Typed, ThreadRec
  <2> QED
    BY <1>4, <2>1, <2>2
<1>8. Orderly'
  <2>1. \A u \in Thread :
          /\ thr'[u].batch \cap thr'[u].splice = {}
          /\ thr'[u].batch # {} => thr'[u].pc \in {"loop", "unwind", "unref"}
          /\ thr'[u].bounce # << >> => thr'[u].pc = "scan"
    BY <1>7, SMT DEF Orderly
  <2>2. ASSUME NEW d \in Client, NEW i \in lockers'[d]
        PROVE  lock[i].client = d /\ i \in granted' \cup blocked'
    <3>1. i \in lockers[d] /\ (d = c => i # k)
      BY <1>1, <1>2, <2>2 DEF Typed
    <3>2. lock[i].client = d /\ i \in granted \cup blocked
      BY <1>5, <3>1 DEF Orderly
    <3>3. i # k
      BY <1>6, <3>1, <3>2
    <3> QED
      BY <1>7, <3>2, <3>3
  <2> QED
    BY <1>1, <2>1, <2>2 DEF Orderly
<1>9. \A u \in Thread \ {t} : Waits(u)' = Waits(u)
  BY <1>7 DEF Waits
<1>10. Waits(t) = Elems(thr[t].bounce) /\ Waits(t)' = Elems(thr'[t].bounce)
  BY <1>1, <1>2, <1>5, <1>7 DEF Waits, Elems
<1>11. Elems(Append(thr[t].bounce, k)) = Elems(thr[t].bounce) \cup {k}
  BY <1>2, <1>3, ElemsAppend DEF ThreadRec
<1>12. Waits(t) \cap blocked = {} /\ blocked \in SUBSET Ids
  BY DEF Waiting, Typed
<1>13. /\ Waits(t)' \cup blocked' = Waits(t) \cup blocked
       /\ Waits(t)' \cap blocked' = {}
  <2>1. CASE blocked' = blocked /\ thr'[t].bounce = thr[t].bounce
    BY <1>10, <1>12, <2>1
  <2>2. CASE /\ blocked' = blocked \ {k} /\ k \notin granted
             /\ thr'[t].bounce = Append(thr[t].bounce, k)
    <3>1. k \in blocked /\ Waits(t)' = Waits(t) \cup {k}
      BY <1>6, <1>10, <1>11, <2>2
    <3> QED
      BY <1>12, <2>2, <3>1
  <2> QED
    BY <1>7, <2>1, <2>2
<1> QED
  BY <1>1, <1>8, <1>9, <1>12, <1>13, Moved

\* cleanup_unwind answers the locks that were blocked.
LEMMA CleanupUnwindWaits ==
  ASSUME AnswerInv, NEW t \in Thread, cleanup_unwind(t)
  PROVE  Orderly' /\ Waiting'
<1> DEFINE all == thr[t].released \o thr[t].bounce
<1>1. /\ thr[t].pc = "scan"
      /\ UNCHANGED <<lock, granted, blocked, lockers>>
      /\ answers' = [i \in DOMAIN answers |->
                       IF i \in Elems(thr[t].bounce) THEN answers[i] + 1 ELSE answers[i]]
  BY DEF cleanup_unwind, Elems
<1>2. thr[t].splice = {} /\ thr[t].batch = {} /\ thr[t] \in ThreadRec
  BY <1>1, Zenon DEF AnswerInv, Inv, Typed, Orderly
<1>3. PICK r \in ThreadRec :
        /\ thr' = [thr EXCEPT ![t] = r]
        /\ r.pc \in {"splice", "idle"} /\ r.splice = {} /\ r.batch = {} /\ r.bounce = << >>
  <2>1. CASE all = << >>
    <3>1. thr' = [thr EXCEPT ![t] = IdleThread]
      BY <2>1 DEF cleanup_unwind
    <3>2. /\ IdleThread \in ThreadRec /\ IdleThread.pc = "idle" /\ IdleThread.splice = {}
          /\ IdleThread.batch = {} /\ IdleThread.bounce = << >>
      BY SMT DEF IdleThread, ThreadRec
    <3> QED
      BY <3>1, <3>2, Zenon
  <2>2. CASE all # << >>
    <3> DEFINE r == [thr[t] EXCEPT !.pc = "splice", !.bounce = << >>, !.released = all]
    <3>1. thr' = [thr EXCEPT ![t] = r]
      BY <2>2, Zenon DEF cleanup_unwind
    <3>2. all \in Seq(Nat) /\ << >> \in Seq(Nat)
      BY <1>2, ConcatProperties, SMT DEF ThreadRec
    <3> HIDE DEF all
    <3>3. /\ r \in ThreadRec /\ r.pc = "splice" /\ r.splice = {} /\ r.batch = {}
          /\ r.bounce = << >>
      BY <1>2, <3>2, Zenon DEF ThreadRec
    <3> QED
      BY <3>1, <3>3, Zenon
  <2> QED
    BY <2>1, <2>2
<1>4. thr'[t] = r /\ \A u \in Thread \ {t} : thr'[u] = thr[u]
  BY <1>3 DEF AnswerInv, Inv, Typed
<1>5. Waits(t) = Elems(thr[t].bounce) /\ Waits(t)' = {}
  <2>1. Waits(t) = {} \cup Elems(thr[t].bounce) \cup {}
    BY <1>1, <1>2 DEF Waits
  <2>2. Waits(t)' = {} \cup Elems(<< >>) \cup {}
    BY <1>3, <1>4, SMT DEF Waits, Elems
  <2> QED
    BY <2>1, <2>2, ElemsEmpty
<1>6. \A u \in Thread \ {t} : Waits(u)' = Waits(u)
  BY <1>4 DEF Waits
<1>7. Waiting'
  BY <1>1, <1>5, <1>6, Answered DEF AnswerInv
<1> QED
  BY <1>1, <1>2, <1>3, <1>7, ThreadOrderly, Zenon

\* Every step keeps the larger invariant.
LEMMA StepWaits ==
  ASSUME AnswerInv, [Next]_vars
  PROVE  AnswerInv'
<1>1. ASSUME NEW l \in LockRec, NEW can_block \in BOOLEAN, pl_inode_setlk(l, can_block)
      PROVE  Orderly' /\ Waiting'
  BY <1>1, SetlkWaits
<1>2. ASSUME NEW l \in LockRec, NEW t \in Thread, pl_inode_unlock(t, l)
      PROVE  Orderly' /\ Waiting'
  BY <1>2, UnlockWaits
<1>3. ASSUME NEW t \in Thread, NEW c \in Client,
             pl_client_disconnect_cbk(t, c) \/ pl_client_destroy_cbk(t, c)
      PROVE  Orderly' /\ Waiting'
  BY <1>3, CleanupWaits
<1>4. ASSUME NEW t \in Thread, Step(t)
      PROVE  Orderly' /\ Waiting'
  BY <1>4, BeginWaits, LoopWaits, UnwindWaits, GrantEndWaits, ScanWaits, CleanupUnwindWaits DEF Step
<1>5. ASSUME UNCHANGED vars
      PROVE  Orderly' /\ Waiting'
  <2>1. UNCHANGED <<lock, granted, blocked, lockers, answers, thr>>
    BY <1>5 DEF vars, domVars
  <2>2. Orderly'
    BY <2>1 DEF AnswerInv, Orderly
  <2>3. \A t \in Thread : Waits(t)' = Waits(t)
    BY <2>1 DEF Waits, Elems
  <2> QED
    BY <2>1, <2>2, <2>3, SameWaits DEF AnswerInv
<1>6. Orderly' /\ Waiting'
  BY <1>1, <1>2, <1>3, <1>4, <1>5 DEF Next, LockRec
<1> QED
  BY <1>6, StepInv DEF AnswerInv

\* The larger invariant holds in the beginning.
LEMMA InitAnswer ==
  ASSUME Init
  PROVE  AnswerInv
<1>1. /\ lock = << >> /\ blocked = {} /\ answers = << >>
      /\ \A c \in Client : lockers[c] = {}
      /\ \A t \in Thread : /\ thr[t].splice = {} /\ thr[t].batch = {}
                            /\ thr[t].bounce = << >>
  BY DEF Init, IdleThread
<1>2. Orderly
  BY <1>1 DEF Orderly
<1>3. \A t \in Thread : Waits(t) = {}
  BY <1>1, ElemsEmpty DEF Waits
<1>4. Waiting
  BY <1>1, <1>3, SMT DEF Waiting, Ids
<1> QED
  BY <1>2, <1>4, InitInv DEF AnswerInv

\* pl_inodelk_client_cleanup, grant_blocked_inode_locks: a request that is
\* granted or waits is answered once, by one thread, however many threads
\* grant and clean up at the same time.
THEOREM OneAnswer == Spec => []AnsweredOnce
<1>1. Init => AnswerInv
  BY InitAnswer
<1>2. AnswerInv /\ [Next]_vars => AnswerInv'
  BY StepWaits
<1>3. AnswerInv => AnsweredOnce
  <2>1. ASSUME AnswerInv, NEW i \in DOMAIN lock
        PROVE  answers[i] = One(/\ i \notin blocked
                                /\ \A t \in Thread :
                                     /\ i \notin thr[t].splice
                                     /\ i \notin Elems(thr[t].bounce)
                                     /\ thr[t].pc \in {"loop", "unwind"} => i \notin thr[t].batch)
    <3>1. i \in Ids
      BY <2>1, SMT DEF AnswerInv, Inv, Typed, Ids
    <3>2. answers[i] = IF i \in blocked \/ \E t \in Thread : i \in Waits(t) THEN 0 ELSE 1
      BY <2>1, <3>1 DEF AnswerInv, Waiting
    <3> QED
      BY <3>2 DEF Waits, One
  <2> QED
    BY <2>1, Zenon DEF AnsweredOnce
<1> QED
  BY <1>1, <1>2, <1>3, PTL DEF Spec

-----------------------------------------------------------------------------
(* No grant is forgotten                                                   *)

\* A thread that is about to look at the blocked locks.
Pending(t) ==
  \/ thr[t].pc = "splice"
  \/ thr[t].pc = "scan" /\ (thr[t].released # << >> \/ thr[t].bounce # << >>)

\* Why lock i is blocked.
Reason(i) ==
  \/ \E j \in granted : Conflict(lock[i], lock[j]) /\ ~ same_inodelk_owner(lock[i], lock[j])
  \/ \E j \in blocked : j < i /\ Conflict(lock[i], lock[j])

\* The locks that the loop has put back are older than those it has yet to
\* look at.  Unless a thread is about to look at the blocked locks, each of
\* them has a reason.
Reasoned ==
  /\ \A t \in Thread : \A i \in blocked, j \in thr[t].splice : i < j
  /\ (\E t \in Thread : Pending(t)) \/ (\A i \in blocked : Reason(i))

\* A lock that may not be granted has a reason to be blocked.
LEMMA NotGrantable ==
  ASSUME Typed, NEW l, ~ Grantable(l)
  PROVE  \/ \E j \in granted : Conflict(l, lock[j]) /\ ~ same_inodelk_owner(l, lock[j])
         \/ \E j \in blocked : Conflict(l, lock[j])
BY DEF Grantable, __inodelk_grantable, __blocked_lock_conflict

\* A reason remains while locks are added.
LEMMA ReasonKept ==
  ASSUME Typed, NEW i \in blocked, Reason(i), kind' = kind,
         granted \in SUBSET granted', blocked \in SUBSET blocked',
         \A k \in Ids : lock'[k] = lock[k]
  PROVE  Reason(i)'
<1>1. i \in Ids /\ \A j \in granted \cup blocked : j \in Ids
  BY DEF Typed
<1>2. \A a, b : Conflict(a, b)' <=> Conflict(a, b)
  BY DEF Conflict
<1>3. lock'[i] = lock[i] /\ \A j \in granted \cup blocked : lock'[j] = lock[j]
  BY <1>1
<1>4. CASE \E j \in granted : Conflict(lock[i], lock[j]) /\ ~ same_inodelk_owner(lock[i], lock[j])
  <2>1. PICK j \in granted : Conflict(lock[i], lock[j]) /\ ~ same_inodelk_owner(lock[i], lock[j])
    BY <1>4
  <2>2. j \in granted' /\ lock'[j] = lock[j]
    BY <1>3
  <2> QED
    BY <1>3, <2>1, <2>2 DEF Reason, Conflict, same_inodelk_owner
<1>5. CASE \E j \in blocked : j < i /\ Conflict(lock[i], lock[j])
  <2>1. PICK j \in blocked : j < i /\ Conflict(lock[i], lock[j])
    BY <1>5
  <2>2. j \in blocked' /\ lock'[j] = lock[j]
    BY <1>3
  <2> QED
    BY <1>3, <2>1, <2>2 DEF Reason, Conflict
<1> QED
  BY <1>4, <1>5 DEF Reason

\* pl_inode_setlk blocks a lock for a reason.
LEMMA SetlkReasoned ==
  ASSUME Inv, Reasoned, NEW l \in LockRec, NEW can_block \in BOOLEAN, pl_inode_setlk(l, can_block)
  PROVE  Reasoned'
<1> USE DEF Inv
<1>0. PICK n : n = Len(lock) + 1
  OBVIOUS
<1>1. /\ Free /\ lock' = Append(lock, l)
      /\ UNCHANGED <<kind, thr>>
      /\ \/ granted' = granted \cup {n} /\ blocked' = blocked
         \/ ~ Grantable(l) /\ granted' = granted /\ blocked' = blocked \cup {n}
  BY <1>0 DEF pl_inode_setlk
<1>2. /\ \A i \in Ids : lock'[i] = lock[i] /\ i < n
      /\ lock'[n] = l /\ n \notin Ids
  BY <1>0, <1>1, AppendProperties, SMTT(20) DEF Typed, Ids
<1>3. \A t \in Thread : thr[t].splice = {}
  BY <1>1 DEF Typed, Free
<1>4. granted \in SUBSET granted' /\ blocked \in SUBSET blocked'
  BY <1>1
<1>5. \A t \in Thread : Pending(t)' <=> Pending(t)
  BY <1>1 DEF Pending
<1>6. ASSUME \A i \in blocked : Reason(i)
      PROVE  \A i \in blocked' : Reason(i)'
  <2>1. \A i \in blocked : Reason(i)'
    BY <1>1, <1>2, <1>4, <1>6, ReasonKept
  <2>2. CASE ~ Grantable(l) /\ granted' = granted /\ blocked' = blocked \cup {n}
    <3>1. \A j \in granted \cup blocked : lock'[j] = lock[j] /\ j < n
      BY <1>2 DEF Typed
    <3>2. CASE \E j \in granted : Conflict(l, lock[j]) /\ ~ same_inodelk_owner(l, lock[j])
      <4>1. PICK j \in granted : Conflict(l, lock[j]) /\ ~ same_inodelk_owner(l, lock[j])
        BY <3>2
      <4>2. j \in granted' /\ lock'[j] = lock[j]
        BY <2>2, <3>1
      <4>3. Reason(n)'
        BY <1>1, <1>2, <4>1, <4>2 DEF Reason, Conflict, same_inodelk_owner
      <4> QED
        BY <2>1, <2>2, <4>3
    <3>3. CASE \E j \in blocked : Conflict(l, lock[j])
      <4>1. PICK j \in blocked : Conflict(l, lock[j])
        BY <3>3
      <4>2. j \in blocked' /\ lock'[j] = lock[j] /\ j < n
        BY <2>2, <3>1
      <4>3. Reason(n)'
        BY <1>1, <1>2, <4>1, <4>2 DEF Reason, Conflict
      <4> QED
        BY <2>1, <2>2, <4>3
    <3> QED
      BY <2>2, <3>2, <3>3, NotGrantable
  <2> QED
    BY <1>1, <2>1, <2>2
<1> QED
  BY <1>1, <1>3, <1>5, <1>6 DEF Reasoned

\* The loop puts back what it may not grant, and has put back older locks only.
LEMMA LoopReasoned ==
  ASSUME Inv, Reasoned, NEW t \in Thread, __grant_blocked_inode_locks(t)
  PROVE  Reasoned'
<1> USE DEF Inv
<1>0. PICK n : n = Least(thr[t].splice)
  OBVIOUS
<1> DEFINE rest == thr[t].splice \ {n}
           pc   == IF rest = {} THEN "unwind" ELSE "loop"
<1>1. /\ thr[t].pc = "loop" /\ thr[t].splice # {}
      /\ UNCHANGED <<kind, lock>>
  BY Zenon DEF __grant_blocked_inode_locks, Typed
<1>2. n \in thr[t].splice /\ n \in Nat /\ thr[t] \in ThreadRec /\ \A j \in thr[t].splice : n <= j
  <2>1. thr[t].splice \in SUBSET Nat
    BY SMT DEF Typed, Ids
  <2>2. n \in thr[t].splice /\ \A j \in thr[t].splice : n <= j
    BY <1>0, <1>1, <2>1, LeastExists, Zenon DEF Least
  <2> QED
    BY <2>1, <2>2 DEF Typed
<1>3. /\ thr' = [thr EXCEPT ![t].splice = rest, ![t].pc = pc, ![t].batch = @ \cup {n}]
           \/ thr' = [thr EXCEPT ![t].splice = rest, ![t].pc = pc]
      /\ \/ granted' = granted \cup {n} /\ blocked' = blocked
         \/ ~ Grantable(lock[n]) /\ granted' = granted /\ blocked' = blocked \cup {n}
  BY <1>0, Zenon DEF __grant_blocked_inode_locks
<1>4. /\ rest \in SUBSET thr[t].splice /\ pc \in {"unwind", "loop"} /\ n \notin rest
  OBVIOUS
<1> HIDE DEF rest, pc
<1>5. /\ \A u \in Thread \ {t} : thr'[u] = thr[u]
      /\ thr'[t].splice = rest /\ thr'[t].pc = pc
  BY <1>2, <1>3, SMT DEF Typed, ThreadRec
<1>6. \A u \in Thread \ {t} : thr[u].splice = {}
  BY <1>1 DEF Typed, Apart
<1>7. \A i \in blocked : i < n /\ i \in Nat
  BY <1>2, SMT DEF Reasoned, Typed, Ids
<1>8. \A u \in Thread : \A i \in blocked', j \in thr'[u].splice : i < j
  <2>1. \A j \in rest : n < j
    <3>1. rest \in SUBSET Nat
      BY <1>4, SMT DEF Typed, Ids
    <3> QED
      BY <1>2, <1>4, <3>1, SMTT(20)
  <2>2. \A i \in blocked', j \in rest : i < j
    BY <1>3, <1>4, <2>1, SMTT(20) DEF Reasoned
  <2> QED
    BY <1>5, <1>6, <2>2
<1>9. (\E u \in Thread : Pending(u)) => (\E u \in Thread : Pending(u)')
  <2>1. ~ Pending(t)
    BY <1>1 DEF Pending
  <2>2. \A u \in Thread \ {t} : Pending(u)' <=> Pending(u)
    BY <1>5 DEF Pending
  <2> QED
    BY <2>1, <2>2
<1>10. ASSUME \A i \in blocked : Reason(i)
       PROVE  \A i \in blocked' : Reason(i)'
  <2>1. granted \in SUBSET granted' /\ blocked \in SUBSET blocked'
    BY <1>3
  <2>2. \A i \in blocked : Reason(i)'
    BY <1>1, <1>10, <2>1, ReasonKept
  <2>3. CASE ~ Grantable(lock[n]) /\ granted' = granted /\ blocked' = blocked \cup {n}
    <3>1. Reason(n)'
      BY <1>1, <1>7, <2>3, NotGrantable DEF Reason, Conflict, same_inodelk_owner
    <3> QED
      BY <2>2, <2>3, <3>1
  <2> QED
    BY <1>3, <2>2, <2>3
<1> QED
  BY <1>8, <1>9, <1>10 DEF Reasoned

\* A step that only changes what a thread does, and whose thread stays about to
\* look at the blocked locks if it was.
LEMMA ThreadReasoned ==
  ASSUME Inv, Reasoned, UNCHANGED <<kind, lock, granted, blocked>>,
         NEW t \in Thread, NEW r \in ThreadRec, thr' = [thr EXCEPT ![t] = r],
         r.splice = {}, Pending(t) => Pending(t)'
  PROVE  Reasoned'
<1>1. thr'[t] = r /\ \A u \in Thread \ {t} : thr'[u] = thr[u]
  BY DEF Inv, Typed
<1>2. \A u \in Thread : Pending(u) => Pending(u)'
  BY <1>1 DEF Pending
<1>3. \A i \in blocked : Reason(i)' <=> Reason(i)
  BY DEF Reason, Conflict, same_inodelk_owner
<1> QED
  BY <1>1, <1>2, <1>3 DEF Reasoned

\* A thread that is about to look at the blocked locks makes up for all of
\* them.
LEMMA PendingReasoned ==
  ASSUME NEW t \in Thread, Pending(t)', \A u \in Thread : thr'[u].splice = {}
  PROVE  Reasoned'
BY DEF Reasoned

\* Every other step keeps Reasoned.
LEMMA OtherReasoned ==
  ASSUME Inv, Reasoned, NEW t \in Thread,
         \/ \E l \in LockRec : pl_inode_unlock(t, l)
         \/ \E c \in Client : pl_client_disconnect_cbk(t, c) \/ pl_client_destroy_cbk(t, c)
         \/ grant_blocked_begin(t) \/ grant_blocked_unwind(t) \/ grant_blocked_end(t)
         \/ cleanup_scan(t) \/ cleanup_unwind(t)
  PROVE  Reasoned'
<1> USE DEF Inv
<1>0. thr[t] \in ThreadRec /\ thr \in [Thread -> ThreadRec]
  BY DEF Typed
<1>1. ASSUME NEW l \in LockRec, pl_inode_unlock(t, l)
      PROVE  Reasoned'
  <2>1. Free /\ thr' = [thr EXCEPT ![t].pc = "splice", ![t].client = l.client]
    BY <1>1 DEF pl_inode_unlock
  <2>2. /\ thr'[t].pc = "splice"
        /\ \A u \in Thread : thr'[u].splice = thr[u].splice
    BY <1>0, <2>1 DEF ThreadRec
  <2>3. \A u \in Thread : thr'[u].splice = {}
    BY <2>1, <2>2 DEF Typed, Free
  <2> QED
    BY <2>2, <2>3, PendingReasoned DEF Pending
<1>2. ASSUME NEW c \in Client, pl_client_disconnect_cbk(t, c) \/ pl_client_destroy_cbk(t, c)
      PROVE  Reasoned'
  <2> DEFINE r == [thr[t] EXCEPT !.pc = "scan", !.client = c]
  <2>1. /\ thr[t].pc = "idle" /\ thr' = [thr EXCEPT ![t] = r]
        /\ UNCHANGED <<kind, lock, granted, blocked>>
    BY <1>2, Zenon DEF pl_client_disconnect_cbk, pl_client_destroy_cbk, domVars
  <2>2. r \in ThreadRec /\ r.splice = {}
    BY <2>1, <1>0, Zenon DEF Typed, ThreadRec
  <2> HIDE DEF r
  <2>3. ~ Pending(t)
    BY <2>1 DEF Pending
  <2> QED
    BY <2>1, <2>2, <2>3, ThreadReasoned, Zenon
<1>3. CASE grant_blocked_begin(t)
  <2>1. /\ Free /\ blocked' = {}
    BY <1>3 DEF grant_blocked_begin
  <2> QED
    BY <2>1 DEF Reasoned
<1>4. CASE grant_blocked_unwind(t)
  <2> DEFINE r == [thr[t] EXCEPT !.pc = "unref"]
  <2>1. /\ thr[t].pc = "unwind" /\ thr' = [thr EXCEPT ![t] = r]
        /\ UNCHANGED <<kind, lock, granted, blocked>>
    BY <1>4 DEF grant_blocked_unwind, Become
  <2>2. r \in ThreadRec /\ r.splice = {}
    BY <2>1, <1>0, Zenon DEF Typed, ThreadRec
  <2> HIDE DEF r
  <2>3. ~ Pending(t)
    BY <2>1 DEF Pending
  <2> QED
    BY <2>1, <2>2, <2>3, ThreadReasoned, Zenon
<1>5. CASE grant_blocked_end(t)
  <2>1. thr[t].pc = "unref" /\ UNCHANGED <<kind, lock, granted, blocked>>
    BY <1>5 DEF grant_blocked_end
  <2>2. ~ Pending(t) /\ thr[t].splice = {}
    BY <2>1 DEF Pending, Typed
  <2>3. CASE Len(thr[t].released) > 1
    <3> DEFINE r == [thr[t] EXCEPT !.pc = "splice", !.batch = {}, !.released = Tail(@)]
    <3>1. thr' = [thr EXCEPT ![t] = r]
      BY <1>5, <2>3, Zenon DEF grant_blocked_end
    <3>2. thr[t].released \in Seq(Nat) /\ thr[t].released # << >>
      BY <1>0, <2>3, SMTT(20) DEF ThreadRec
    <3>3. Tail(thr[t].released) \in Seq(Nat)
      BY <3>2, HeadTailProperties
    <3>4. r \in ThreadRec /\ r.splice = {}
      BY <1>0, <2>2, <3>3, Zenon DEF ThreadRec
    <3> HIDE DEF r
    <3> QED
      BY <2>1, <2>2, <3>1, <3>4, ThreadReasoned, Zenon
  <2>4. CASE ~ (Len(thr[t].released) > 1)
    <3>1. thr' = [thr EXCEPT ![t] = IdleThread]
      BY <1>5, <2>4 DEF grant_blocked_end
    <3>2. IdleThread \in ThreadRec /\ IdleThread.splice = {}
      BY SMT DEF IdleThread, ThreadRec
    <3> QED
      BY <2>1, <2>2, <3>1, <3>2, ThreadReasoned, Zenon
  <2> QED
    BY <2>3, <2>4
<1>6. CASE cleanup_scan(t)
  <2> DEFINE k == NextLocker(thr[t].client)
  <2>1. /\ thr[t].pc = "scan" /\ Free
        /\ \/ thr' = [thr EXCEPT ![t].released = Append(@, k)]
           \/ thr' = [thr EXCEPT ![t].bounce = Append(@, k)]
        /\ lockers[thr[t].client] # {}
    BY <1>6 DEF cleanup_scan
  <2>2. k \in Nat
    <3>1. thr[t].client \in Client
      BY <2>1 DEF Typed
    <3> QED
      BY <2>1, <3>1, NextLockerIn, SMTT(20) DEF Typed, Ids
  <2> HIDE DEF k
  <2>3. Append(thr[t].released, k) # << >> /\ Append(thr[t].bounce, k) # << >>
    <3>1. thr[t].released \in Seq(Nat) /\ thr[t].bounce \in Seq(Nat)
      BY <1>0 DEF ThreadRec
    <3>2. \A s \in Seq(Nat) : Len(Append(s, k)) # 0
      BY <2>2, AppendProperties, SMTT(20)
    <3>3. Len(<< >>) = 0
      OBVIOUS
    <3> QED
      BY <3>1, <3>2, <3>3, Zenon
  <2>4. /\ \A u \in Thread : thr'[u].splice = thr[u].splice
        /\ thr'[t].pc = "scan"
        /\ thr'[t].released # << >> \/ thr'[t].bounce # << >>
    <3>1. CASE thr' = [thr EXCEPT ![t].released = Append(@, k)]
      BY <1>0, <2>1, <2>3, <3>1 DEF ThreadRec
    <3>2. CASE thr' = [thr EXCEPT ![t].bounce = Append(@, k)]
      BY <1>0, <2>1, <2>3, <3>2 DEF ThreadRec
    <3> QED
      BY <2>1, <3>1, <3>2
  <2>5. \A u \in Thread : thr'[u].splice = {}
    BY <2>1, <2>4 DEF Typed, Free
  <2> QED
    BY <2>4, <2>5, PendingReasoned DEF Pending
<1>7. CASE cleanup_unwind(t)
  <2> DEFINE all == thr[t].released \o thr[t].bounce
  <2>1. thr[t].pc = "scan" /\ thr[t].splice = {} /\ UNCHANGED <<kind, lock, granted, blocked>>
    BY <1>7 DEF cleanup_unwind, Typed
  <2>2. all \in Seq(Nat) /\ Len(all) = Len(thr[t].released) + Len(thr[t].bounce)
    BY <1>0, ConcatProperties, SMTT(20) DEF ThreadRec
  <2>3. CASE all = << >>
    <3>1. thr' = [thr EXCEPT ![t] = IdleThread]
      BY <1>7, <2>3 DEF cleanup_unwind
    <3>2. IdleThread \in ThreadRec /\ IdleThread.splice = {}
      BY SMTT(20) DEF IdleThread, ThreadRec
    <3>3. thr[t].released = << >> /\ thr[t].bounce = << >>
      BY <1>0, <2>2, <2>3, EmptySeq, SMTT(20) DEF ThreadRec
    <3>4. ~ Pending(t)
      BY <2>1, <3>3 DEF Pending
    <3> QED
      BY <2>1, <3>1, <3>2, <3>4, ThreadReasoned, Zenon
  <2>4. CASE all # << >>
    <3> DEFINE r == [thr[t] EXCEPT !.pc = "splice", !.bounce = << >>, !.released = all]
    <3>1. thr' = [thr EXCEPT ![t] = r]
      BY <1>7, <2>4, Zenon DEF cleanup_unwind
    <3>2. << >> \in Seq(Nat)
      BY SMT
    <3> HIDE DEF all
    <3>3. r \in ThreadRec /\ r.splice = {} /\ r.pc = "splice"
      BY <1>0, <2>1, <2>2, <3>2, Zenon DEF ThreadRec
    <3> HIDE DEF r
    <3>4. Pending(t)'
      BY <1>0, <3>1, <3>3 DEF Pending
    <3> QED
      BY <2>1, <3>1, <3>3, <3>4, ThreadReasoned, Zenon
  <2> QED
    BY <2>3, <2>4
<1> QED
  BY <1>1, <1>2, <1>3, <1>4, <1>5, <1>6, <1>7

\* pl_inode_unlock, pl_inodelk_client_cleanup, grant_blocked_inode_locks: no
\* grant is forgotten.  When no thread is busy, a blocked lock conflicts with a
\* granted one of another owner or with a blocked one before it.
THEOREM NoGrantForgotten == Spec => []BlockedForReason
<1>1. Init => Inv /\ Reasoned
  <2>1. Init => Reasoned
    BY DEF Init, IdleThread, Reasoned
  <2> QED
    BY <2>1, InitInv
<1>2. ASSUME Inv, Reasoned, [Next]_vars
      PROVE  Inv' /\ Reasoned'
  <2>1. ASSUME NEW l \in LockRec, NEW can_block \in BOOLEAN, pl_inode_setlk(l, can_block)
        PROVE  Reasoned'
    BY <1>2, <2>1, SetlkReasoned
  <2>2. ASSUME NEW t \in Thread, __grant_blocked_inode_locks(t)
        PROVE  Reasoned'
    BY <1>2, <2>2, LoopReasoned
  <2>3. ASSUME NEW t \in Thread,
               \/ \E l \in LockRec : pl_inode_unlock(t, l)
               \/ \E c \in Client : pl_client_disconnect_cbk(t, c) \/ pl_client_destroy_cbk(t, c)
               \/ grant_blocked_begin(t) \/ grant_blocked_unwind(t) \/ grant_blocked_end(t)
               \/ cleanup_scan(t) \/ cleanup_unwind(t)
        PROVE  Reasoned'
    BY <1>2, <2>3, OtherReasoned
  <2>4. ASSUME UNCHANGED vars
        PROVE  Reasoned'
    BY <1>2, <2>4, ZenonT(40) DEF vars, domVars, Reasoned, Reason, Pending, Conflict, same_inodelk_owner
  <2>5. Reasoned'
    BY <1>2, <2>1, <2>2, <2>3, <2>4 DEF Next, Step, LockRec
  <2> QED
    BY <1>2, <2>5, StepInv
<1>3. Reasoned => BlockedForReason
  BY DEF Reasoned, Pending, Reason, BlockedForReason
<1> QED
  BY <1>1, <1>2, <1>3, PTL DEF Spec

-----------------------------------------------------------------------------
(* lock->ref                                                               *)

\* The locks that the cleanup of thread t has taken from their lists.
Held(t) == Elems(thr[t].released) \cup Elems(thr[t].bounce)

Distinct(s) == \A a, b \in DOMAIN s : s[a] = s[b] => a = b

\* What a lock has a reference for: a list of the domain, or the list of the
\* loop; a thread that has granted it; a cleanup that has taken it away.
Queued(i) == i \in granted \cup blocked \/ \E t \in Thread : i \in thr[t].splice
Granting(i) == \E t \in Thread : i \in thr[t].batch
Leaving(i) == \E t \in Thread : i \in Held(t)

\* A lock is with one thread that grants it and with one cleanup, at most; it
\* is granted once, and a cleanup takes it from the list of its client.
Placed ==
  \A t \in Thread :
    /\ thr[t].batch \in SUBSET Ids
    /\ Held(t) \in SUBSET Ids
    /\ thr[t].batch \cap blocked = {}
    /\ \A u \in Thread : /\ thr[t].batch \cap thr[u].splice = {}
                         /\ t # u => thr[t].batch \cap thr[u].batch = {}
                         /\ t # u => Held(t) \cap Held(u) = {}
    /\ \A c \in Client : Held(t) \cap lockers[c] = {}
    /\ Distinct(thr[t].released) /\ Distinct(thr[t].bounce)
    /\ Elems(thr[t].released) \cap Elems(thr[t].bounce) = {}

Counted ==
  /\ ref \in Seq(Int) /\ Len(ref) = Len(lock)
  /\ \A i \in Ids : ref[i] = One(Queued(i)) + One(Granting(i)) + One(Leaving(i))

\* The inductive invariant with what RefCounted and TypeOK need.
RefInv == AnswerInv /\ Placed /\ Counted /\ kind \in Kinds

\* A list that gets a new element.
LEMMA DistinctAppend ==
  ASSUME NEW s \in Seq(Nat), NEW k \in Nat, k \notin Elems(s), Distinct(s)
  PROVE  Distinct(Append(s, k))
<1>1. /\ Append(s, k) \in Seq(Nat) /\ Len(Append(s, k)) = Len(s) + 1 /\ Len(s) \in Nat
      /\ \A i \in 1 .. Len(s) : Append(s, k)[i] = s[i]
      /\ Append(s, k)[Len(s) + 1] = k
  BY AppendProperties, SMT
<1>2. DOMAIN s = 1 .. Len(s) /\ DOMAIN Append(s, k) = 1 .. Len(s) + 1
  BY <1>1, SMT
<1>3. 1 .. Len(s) + 1 = (1 .. Len(s)) \cup {Len(s) + 1}
  BY <1>1, SMT
<1>4. \A i \in 1 .. Len(s) : s[i] # k
  BY <1>2 DEF Elems
<1>5. \A a, b \in 1 .. Len(s) : s[a] = s[b] => a = b
  BY <1>2 DEF Distinct
<1>6. \A a, b \in (1 .. Len(s)) \cup {Len(s) + 1} : Append(s, k)[a] = Append(s, k)[b] => a = b
  BY <1>1, <1>4, <1>5
<1> QED
  BY <1>2, <1>3, <1>6, Zenon DEF Distinct

\* A list that loses its first element.
LEMMA DistinctTail ==
  ASSUME NEW s \in Seq(Nat), s # << >>, Distinct(s)
  PROVE  Distinct(Tail(s)) /\ Elems(Tail(s)) = Elems(s) \ {Head(s)}
<1>1. /\ Tail(s) \in Seq(Nat) /\ Len(Tail(s)) = Len(s) - 1
      /\ \A i \in 1 .. Len(Tail(s)) : Tail(s)[i] = s[i + 1]
      /\ Head(s) = s[1] /\ Len(s) \in Nat /\ Len(s) >= 1
  BY HeadTailProperties, EmptySeq, SMTT(20)
<1>2. DOMAIN s = 1 .. Len(s) /\ DOMAIN Tail(s) = 1 .. Len(s) - 1
  BY <1>1, SMTT(20)
<1>3. \A i \in 1 .. Len(s) - 1 : i + 1 \in 1 .. Len(s) /\ i + 1 # 1 /\ Tail(s)[i] = s[i + 1]
  BY <1>1, SMTT(20)
<1>4. \A j \in 1 .. Len(s) : j # 1 => j - 1 \in 1 .. Len(s) - 1 /\ (j - 1) + 1 = j
  BY <1>1, SMT
<1>5. Distinct(Tail(s))
  <2>1. ASSUME NEW a \in 1 .. Len(s) - 1, NEW b \in 1 .. Len(s) - 1, Tail(s)[a] = Tail(s)[b]
        PROVE  a = b
    <3>1. s[a + 1] = s[b + 1] /\ a + 1 \in DOMAIN s /\ b + 1 \in DOMAIN s
      BY <1>2, <1>3, <2>1
    <3>2. a + 1 = b + 1
      BY <3>1, Zenon DEF Distinct
    <3> QED
      BY <1>1, <3>2, SMTT(20)
  <2> QED
    BY <1>2, <2>1 DEF Distinct
<1>6. ASSUME NEW x \in Elems(Tail(s))
      PROVE  x \in Elems(s) \ {Head(s)}
  <2>1. PICK a \in 1 .. Len(s) - 1 : x = Tail(s)[a]
    BY <1>2 DEF Elems
  <2>2. x = s[a + 1] /\ a + 1 \in DOMAIN s /\ a + 1 # 1 /\ 1 \in DOMAIN s
    BY <1>1, <1>2, <1>3, <2>1, SMTT(20)
  <2>3. x # s[1]
    BY <2>2, Zenon DEF Distinct
  <2> QED
    BY <1>1, <2>2, <2>3, Zenon DEF Elems
<1>7. ASSUME NEW x \in Elems(s), x # Head(s)
      PROVE  x \in Elems(Tail(s))
  <2>1. PICK j \in 1 .. Len(s) : x = s[j]
    BY <1>2 DEF Elems
  <2>2. j # 1
    BY <1>1, <1>7, <2>1
  <2>3. j - 1 \in 1 .. Len(s) - 1 /\ Tail(s)[j - 1] = s[j]
    BY <1>3, <1>4, <2>2
  <2> QED
    BY <1>2, <2>1, <2>3, Zenon DEF Elems
<1> QED
  BY <1>5, <1>6, <1>7

\* A list that is put after another one.
LEMMA DistinctConcat ==
  ASSUME NEW s \in Seq(Nat), NEW u \in Seq(Nat), Distinct(s), Distinct(u),
         Elems(s) \cap Elems(u) = {}
  PROVE  Distinct(s \o u) /\ Elems(s \o u) = Elems(s) \cup Elems(u)
<1> DEFINE m == Len(s)
           n == Len(u)
           w == s \o u
<1>1. /\ w \in Seq(Nat) /\ Len(w) = m + n /\ m \in Nat /\ n \in Nat
      /\ \A i \in 1 .. m + n : w[i] = IF i <= m THEN s[i] ELSE u[i - m]
  BY ConcatProperties, SMTT(20)
<1>2. DOMAIN s = 1 .. m /\ DOMAIN u = 1 .. n /\ DOMAIN w = 1 .. m + n
  BY <1>1, SMTT(20)
<1> HIDE DEF m, n, w
<1>3. \A i \in 1 .. m : i \in 1 .. m + n /\ w[i] = s[i]
  BY <1>1, SMT
<1>4. \A i \in 1 .. n : m + i \in 1 .. m + n /\ w[m + i] = u[i]
  <2>1. \A i \in 1 .. n : m + i \in 1 .. m + n /\ ~ (m + i <= m) /\ (m + i) - m = i
    BY <1>1, SMTT(20)
  <2> QED
    BY <1>1, <2>1
<1>5. \A i \in 1 .. m + n : i \in 1 .. m \/ (i - m \in 1 .. n /\ i = m + (i - m))
  BY <1>1, SMT
<1>6. Elems(w) = Elems(s) \cup Elems(u)
  <2>1. \A x \in Elems(s) \cup Elems(u) : x \in Elems(w)
    BY <1>2, <1>3, <1>4 DEF Elems
  <2>2. \A i \in 1 .. m + n : w[i] \in Elems(s) \cup Elems(u)
    BY <1>2, <1>3, <1>4, <1>5, ZenonT(40) DEF Elems
  <2>3. \A x \in Elems(w) : x \in Elems(s) \cup Elems(u)
    BY <1>2, <2>2 DEF Elems
  <2> QED
    BY <2>1, <2>3
<1>7. ASSUME NEW a \in 1 .. m + n, NEW b \in 1 .. m + n, w[a] = w[b]
      PROVE  a = b
  <2>1. CASE a \in 1 .. m /\ b \in 1 .. m
    BY <1>2, <1>3, <1>7, <2>1, Zenon DEF Distinct
  <2>2. CASE a - m \in 1 .. n /\ b - m \in 1 .. n
    <3>1. w[a] = u[a - m] /\ w[b] = u[b - m]
      BY <1>1, <1>4, <2>2, SMTT(20)
    <3>2. a - m = b - m
      BY <1>2, <1>7, <2>2, <3>1, Zenon DEF Distinct
    <3> QED
      BY <1>1, <3>2, SMTT(20)
  <2>3. ASSUME NEW i \in 1 .. m, NEW j \in 1 .. n
        PROVE  w[i] # w[m + j]
    <3>1. w[i] \in Elems(s) /\ w[m + j] \in Elems(u)
      BY <1>2, <1>3, <1>4, Zenon DEF Elems
    <3> QED
      BY <3>1
  <2> QED
    BY <1>5, <1>7, <2>1, <2>2, <2>3, ZenonT(40)
<1> QED
  BY <1>2, <1>6, <1>7 DEF Distinct, w

\* A step that moves no lock to another list.
LEMMA SameCounts ==
  ASSUME Counted, UNCHANGED <<lock, ref>>,
         \A i \in Ids : /\ Queued(i)' <=> Queued(i)
                        /\ Granting(i)' <=> Granting(i)
                        /\ Leaving(i)' <=> Leaving(i)
  PROVE  Counted'
<1>1. Ids' = Ids
  BY DEF Ids
<1>2. \A i \in Ids : /\ One(Queued(i))' = One(Queued(i))
                     /\ One(Granting(i))' = One(Granting(i))
                     /\ One(Leaving(i))' = One(Leaving(i))
  BY DEF One
<1> QED
  BY <1>1, <1>2 DEF Counted

\* A step of a thread that takes nothing new.
LEMMA FewerPlaced ==
  ASSUME Typed, Placed, lock' = lock, blocked' \in SUBSET blocked, NEW t \in Thread,
         \A u \in Thread \ {t} : thr'[u] = thr[u],
         thr'[t].batch \in SUBSET thr[t].batch, thr'[t].splice \in SUBSET thr[t].splice,
         Held(t)' \in SUBSET Held(t),
         \A c \in Client : lockers'[c] \in SUBSET lockers[c],
         Distinct(thr'[t].released), Distinct(thr'[t].bounce),
         Elems(thr'[t].released) \cap Elems(thr'[t].bounce) = {}
  PROVE  Placed'
<1>1. Ids' = Ids
  BY DEF Ids
<1>2. \A u \in Thread : /\ thr'[u].batch \in SUBSET thr[u].batch
                        /\ thr'[u].splice \in SUBSET thr[u].splice
                        /\ Held(u)' \in SUBSET Held(u)
  <2>1. \A u \in Thread \ {t} : Held(u)' = Held(u)
    BY SMT DEF Held, Elems
  <2> QED
    BY <2>1
<1>3. \A u \in Thread : /\ Distinct(thr'[u].released) /\ Distinct(thr'[u].bounce)
                        /\ Elems(thr'[u].released) \cap Elems(thr'[u].bounce) = {}
  BY DEF Placed
<1>4. ASSUME NEW u \in Thread
      PROVE  /\ thr'[u].batch \in SUBSET Ids
             /\ Held(u)' \in SUBSET Ids
             /\ thr'[u].batch \cap blocked' = {}
             /\ \A c \in Client : Held(u)' \cap lockers'[c] = {}
  BY <1>2, ZenonT(40) DEF Placed
<1>5. ASSUME NEW u \in Thread, NEW v \in Thread
      PROVE  /\ thr'[u].batch \cap thr'[v].splice = {}
             /\ u # v => thr'[u].batch \cap thr'[v].batch = {}
             /\ u # v => Held(u)' \cap Held(v)' = {}
  <2>1. /\ thr[u].batch \cap thr[v].splice = {}
        /\ u # v => thr[u].batch \cap thr[v].batch = {}
        /\ u # v => Held(u) \cap Held(v) = {}
    BY DEF Placed
  <2> QED
    BY <1>2, <2>1
<1> QED
  BY <1>1, <1>3, <1>4, <1>5 DEF Placed, Distinct, Elems

\* pl_inode_setlk: the new lock has a reference for its list.
LEMMA SetlkCounted ==
  ASSUME RefInv, NEW l \in LockRec, NEW can_block \in BOOLEAN, pl_inode_setlk(l, can_block)
  PROVE  Placed' /\ Counted'
<1> USE DEF RefInv, AnswerInv, Inv
<1>0. PICK n : n = Len(lock) + 1
  OBVIOUS
<1>1. /\ lock' = Append(lock, l) /\ ref' = Append(ref, 1)
      /\ lockers' = [lockers EXCEPT ![l.client] = @ \cup {n}]
      /\ UNCHANGED thr
      /\ \/ granted' = granted \cup {n} /\ blocked' = blocked
         \/ granted' = granted /\ blocked' = blocked \cup {n}
  BY <1>0 DEF pl_inode_setlk
<1>2. Len(lock) \in Nat /\ Ids' = Ids \cup {n} /\ n \notin Ids /\ Len(lock') = n
  <2>1. Len(lock) \in Nat /\ Len(lock') = Len(lock) + 1
    BY <1>1, AppendProperties, SMT DEF Typed
  <2> QED
    BY <1>0, <2>1, SMT DEF Ids
<1>3. \A t \in Thread : Held(t)' = Held(t)
  BY <1>1 DEF Held, Elems
<1>4. \A c \in Client : lockers'[c] \in SUBSET (lockers[c] \cup {n})
  BY <1>1 DEF Typed
<1>5. Placed'
  <2>1. ASSUME NEW t \in Thread
        PROVE  /\ thr[t].batch \in SUBSET Ids'
               /\ Held(t) \in SUBSET Ids'
               /\ thr[t].batch \cap blocked' = {}
               /\ \A c \in Client : Held(t) \cap lockers'[c] = {}
    <3>1. /\ thr[t].batch \in SUBSET Ids /\ Held(t) \in SUBSET Ids
          /\ thr[t].batch \cap blocked = {}
          /\ \A c \in Client : Held(t) \cap lockers[c] = {}
      BY DEF Placed
    <3> QED
      BY <1>1, <1>2, <1>4, <3>1, SMTT(20)
  <2>2. \A t \in Thread :
          /\ \A u \in Thread : /\ thr'[t].batch \cap thr'[u].splice = {}
                               /\ t # u => thr'[t].batch \cap thr'[u].batch = {}
                               /\ t # u => Held(t)' \cap Held(u)' = {}
          /\ Distinct(thr'[t].released) /\ Distinct(thr'[t].bounce)
          /\ Elems(thr'[t].released) \cap Elems(thr'[t].bounce) = {}
    BY <1>1, <1>3, Zenon DEF Placed
  <2>3. \A t \in Thread :
          /\ thr'[t].batch \in SUBSET Ids'
          /\ Held(t)' \in SUBSET Ids'
          /\ thr'[t].batch \cap blocked' = {}
          /\ \A c \in Client : Held(t)' \cap lockers'[c] = {}
    BY <1>1, <1>3, <2>1
  <2> QED
    BY <2>2, <2>3 DEF Placed, Distinct, Elems
<1>6. /\ ref' \in Seq(Int) /\ Len(ref') = n
      /\ \A i \in Ids : ref'[i] = ref[i]
      /\ ref'[n] = 1
  BY <1>0, <1>1, <1>2, AppendProperties, SMTT(20) DEF Counted, Ids
<1>7. /\ Queued(n)' /\ ~ Granting(n)' /\ ~ Leaving(n)'
  BY <1>1, <1>2, <1>3 DEF Queued, Granting, Leaving, Placed
<1>8. \A i \in Ids : /\ Queued(i)' <=> Queued(i)
                     /\ Granting(i)' <=> Granting(i)
                     /\ Leaving(i)' <=> Leaving(i)
  BY <1>1, <1>2, <1>3 DEF Queued, Granting, Leaving
<1>9. \A i \in Ids : ref'[i] = One(Queued(i))' + One(Granting(i))' + One(Leaving(i))'
  BY <1>6, <1>8 DEF Counted, One
<1>10. ref'[n] = One(Queued(n))' + One(Granting(n))' + One(Leaving(n))'
  BY <1>6, <1>7, SMTT(20) DEF One
<1>11. \A i \in Ids' : ref'[i] = One(Queued(i))' + One(Granting(i))' + One(Leaving(i))'
  BY <1>2, <1>9, <1>10
<1> QED
  BY <1>2, <1>5, <1>6, <1>11 DEF Counted

\* pl_inode_unlock: the lock loses the reference for its list.
LEMMA UnlockCounted ==
  ASSUME RefInv, NEW t \in Thread, NEW l \in LockRec, pl_inode_unlock(t, l)
  PROVE  Placed' /\ Counted'
<1> USE DEF RefInv, AnswerInv, Inv
<1>1. /\ thr' = [thr EXCEPT ![t].pc = "splice", ![t].client = l.client]
      /\ UNCHANGED <<lock, blocked>>
  BY DEF pl_inode_unlock
<1>2. \/ UNCHANGED <<granted, lockers, ref>>
      \/ \E k \in granted : /\ granted' = granted \ {k}
                            /\ lockers' = [lockers EXCEPT ![l.client] = @ \ {k}]
                            /\ ref' = [ref EXCEPT ![k] = @ - 1]
  <2> DEFINE match == {i \in granted : Equal(lock[i], l) /\ same_inodelk_owner(lock[i], l)}
  <2>1. match # {} => Newest(match) \in match
    BY NewestIn, Zenon DEF Typed
  <2> QED
    BY <2>1, Zenon DEF pl_inode_unlock
<1>3. /\ \A u \in Thread \ {t} : thr'[u] = thr[u]
      /\ \A u \in Thread : /\ thr'[u].splice = thr[u].splice /\ thr'[u].batch = thr[u].batch
                           /\ thr'[u].released = thr[u].released
                           /\ thr'[u].bounce = thr[u].bounce
  <2>1. l.client \in Client
    BY DEF LockRec
  <2> QED
    BY <1>1, <2>1 DEF Typed, ThreadRec
<1>4. \A u \in Thread : Held(u)' = Held(u)
  BY <1>3, SMT DEF Held, Elems
<1>5. \A c \in Client : lockers'[c] \in SUBSET lockers[c]
  <2>1. lockers \in [Client -> SUBSET Ids]
    BY DEF Typed
  <2>2. \A k : \A c \in Client : [lockers EXCEPT ![l.client] = @ \ {k}][c] \in SUBSET lockers[c]
    BY <2>1
  <2> QED
    BY <1>2, <2>2
<1>6. Placed'
  <2>1. /\ Distinct(thr[t].released) /\ Distinct(thr[t].bounce)
        /\ Elems(thr[t].released) \cap Elems(thr[t].bounce) = {}
    BY DEF Placed
  <2> QED
    BY <1>1, <1>3, <1>4, <1>5, <2>1, FewerPlaced
<1>7. \A i : /\ Granting(i)' <=> Granting(i)
             /\ Leaving(i)' <=> Leaving(i)
  BY <1>3, <1>4 DEF Granting, Leaving
<1>8. CASE UNCHANGED <<granted, lockers, ref>>
  <2>1. \A i : Queued(i)' <=> Queued(i)
    BY <1>1, <1>3, <1>8 DEF Queued
  <2> QED
    BY <1>1, <1>6, <1>7, <1>8, <2>1, SameCounts
<1>9. ASSUME NEW k \in granted, granted' = granted \ {k}, ref' = [ref EXCEPT ![k] = @ - 1]
      PROVE  Counted'
  <2>1. Ids' = Ids /\ k \in Ids /\ Ids = 1 .. Len(ref) /\ Len(lock') = Len(ref) /\ ref \in Seq(Int)
    BY <1>1 DEF Ids, Typed, Counted
  <2>2. ref' = [ref EXCEPT ![k] = ref[k] - 1] /\ ref[k] - 1 \in Int
    BY <1>9, <2>1, SMTT(20)
  <2>3. /\ ref' \in Seq(Int) /\ Len(ref') = Len(ref)
        /\ \A j \in 1 .. Len(ref) : ref'[j] = IF j = k THEN ref[k] - 1 ELSE ref[j]
    BY <2>1, <2>2, ExceptSeq, SMTT(20)
  <2>4. Queued(k) /\ ~ Queued(k)'
    BY <1>1, <1>3, <1>9 DEF Queued, Apart
  <2>5. \A i \in Ids : i # k => (Queued(i)' <=> Queued(i))
    BY <1>1, <1>3, <1>9 DEF Queued
  <2>6. ref'[k] = One(Queued(k))' + One(Granting(k))' + One(Leaving(k))'
    BY <1>7, <2>1, <2>3, <2>4, SMTT(20) DEF Counted, One
  <2>7. \A i \in Ids : i # k => ref'[i] = One(Queued(i))' + One(Granting(i))' + One(Leaving(i))'
    BY <1>7, <2>1, <2>3, <2>5 DEF Counted, One
  <2> QED
    BY <2>1, <2>3, <2>6, <2>7 DEF Counted
<1> QED
  BY <1>2, <1>6, <1>8, <1>9

\* grant_blocked_begin: the locks keep their references on the way to the
\* thread's list.
LEMMA BeginCounted ==
  ASSUME RefInv, NEW t \in Thread, grant_blocked_begin(t)
  PROVE  Placed' /\ Counted'
<1> USE DEF RefInv, AnswerInv, Inv
<1>1. /\ thr[t].pc = "splice" /\ Free /\ blocked' = {}
      /\ UNCHANGED <<lock, granted, lockers, ref>>
  BY DEF grant_blocked_begin
<1>2. PICK pc \in {"unwind", "loop"} :
        thr' = [thr EXCEPT ![t].pc = pc, ![t].splice = blocked]
  BY Zenon DEF grant_blocked_begin
<1>3. /\ \A u \in Thread : /\ thr'[u].batch = thr[u].batch
                           /\ thr'[u].released = thr[u].released
                           /\ thr'[u].bounce = thr[u].bounce
      /\ \A u \in Thread \ {t} : thr'[u].splice = thr[u].splice
      /\ thr'[t].splice = blocked
  BY <1>2 DEF Typed, ThreadRec
<1>4. \A u \in Thread : thr[u].splice = {}
  BY <1>1 DEF Typed, Free
<1>5. \A u \in Thread : Held(u)' = Held(u)
  BY <1>3, SMT DEF Held, Elems
<1>6. Ids' = Ids
  BY <1>1 DEF Ids
<1>7. Placed'
  <2>1. \A u, v \in Thread : thr'[u].batch \cap thr'[v].splice = {}
    BY <1>3, <1>4 DEF Placed
  <2>2. \A u \in Thread :
          /\ thr'[u].batch \in SUBSET Ids' /\ Held(u)' \in SUBSET Ids'
          /\ thr'[u].batch \cap blocked' = {}
          /\ \A v \in Thread : u # v => thr'[u].batch \cap thr'[v].batch = {}
          /\ \A v \in Thread : u # v => Held(u)' \cap Held(v)' = {}
          /\ \A c \in Client : Held(u)' \cap lockers'[c] = {}
    BY <1>1, <1>3, <1>5, <1>6 DEF Placed
  <2>3. \A u \in Thread :
          /\ Distinct(thr'[u].released) /\ Distinct(thr'[u].bounce)
          /\ Elems(thr'[u].released) \cap Elems(thr'[u].bounce) = {}
    BY <1>3 DEF Placed
  <2> QED
    BY <2>1, <2>2, <2>3 DEF Placed, Distinct, Elems
<1>8. \A i : /\ Queued(i)' <=> Queued(i)
             /\ Granting(i)' <=> Granting(i)
             /\ Leaving(i)' <=> Leaving(i)
  BY <1>1, <1>3, <1>4, <1>5 DEF Queued, Granting, Leaving
<1> QED
  BY <1>1, <1>7, <1>8, SameCounts

\* The loop: a lock that is granted gets a reference for the thread that will
\* answer it.
LEMMA LoopCounted ==
  ASSUME RefInv, NEW t \in Thread, __grant_blocked_inode_locks(t)
  PROVE  Placed' /\ Counted'
<1> USE DEF RefInv, AnswerInv, Inv
<1>0. PICK n : n = Least(thr[t].splice)
  OBVIOUS
<1> DEFINE rest == thr[t].splice \ {n}
           pc   == IF rest = {} THEN "unwind" ELSE "loop"
<1>1. /\ thr[t].pc = "loop" /\ thr[t].splice # {}
      /\ UNCHANGED <<lock, lockers>>
  BY Zenon DEF __grant_blocked_inode_locks, Typed
<1>2. n \in thr[t].splice /\ n \in Ids /\ thr[t] \in ThreadRec /\ thr \in [Thread -> ThreadRec]
  <2>1. thr[t].splice \in SUBSET Nat /\ thr[t].splice \in SUBSET Ids
    BY SMT DEF Typed, Ids
  <2> QED
    BY <1>0, <1>1, <2>1, LeastIn DEF Typed
<1>3. \/ /\ granted' = granted \cup {n} /\ blocked' = blocked
         /\ ref' = [ref EXCEPT ![n] = @ + 1]
         /\ thr' = [thr EXCEPT ![t].splice = rest, ![t].pc = pc, ![t].batch = @ \cup {n}]
      \/ /\ granted' = granted /\ blocked' = blocked \cup {n} /\ ref' = ref
         /\ thr' = [thr EXCEPT ![t].splice = rest, ![t].pc = pc]
  BY <1>0, Zenon DEF __grant_blocked_inode_locks
<1>4. thr[t].splice = rest \cup {n} /\ n \notin rest
  BY <1>2
<1> HIDE DEF rest, pc
<1>5. /\ \A u \in Thread \ {t} : thr'[u] = thr[u]
      /\ thr'[t].splice = rest
      /\ thr'[t].released = thr[t].released /\ thr'[t].bounce = thr[t].bounce
      /\ \/ /\ granted' = granted \cup {n} /\ blocked' = blocked
            /\ ref' = [ref EXCEPT ![n] = @ + 1]
            /\ thr'[t].batch = thr[t].batch \cup {n}
         \/ /\ granted' = granted /\ blocked' = blocked \cup {n} /\ ref' = ref
            /\ thr'[t].batch = thr[t].batch
  <2>1. CASE /\ granted' = granted \cup {n} /\ blocked' = blocked
             /\ ref' = [ref EXCEPT ![n] = @ + 1]
             /\ thr' = [thr EXCEPT ![t].splice = rest, ![t].pc = pc, ![t].batch = @ \cup {n}]
    BY <1>2, <2>1 DEF ThreadRec
  <2>2. CASE /\ granted' = granted /\ blocked' = blocked \cup {n} /\ ref' = ref
             /\ thr' = [thr EXCEPT ![t].splice = rest, ![t].pc = pc]
    BY <1>2, <2>2 DEF ThreadRec
  <2> QED
    BY <1>3, <2>1, <2>2
<1>6. \A u \in Thread : /\ Held(u)' = Held(u)
                        /\ thr'[u].released = thr[u].released /\ thr'[u].bounce = thr[u].bounce
  BY <1>5, SMTT(20) DEF Held, Elems
<1>7. \A u \in Thread \ {t} : thr[u].splice = {}
  BY <1>1 DEF Typed, Apart
<1>8. Ids' = Ids
  BY <1>1 DEF Ids
<1>9. \A u \in Thread : n \notin thr[u].batch /\ n \notin blocked
  BY <1>2 DEF Placed, Apart
<1>10. \A u, v \in Thread :
         /\ thr'[u].batch \in SUBSET Ids
         /\ thr'[u].batch \cap blocked' = {}
         /\ thr'[u].batch \cap thr'[v].splice = {}
         /\ u # v => thr'[u].batch \cap thr'[v].batch = {}
  <2>1. \A u, v \in Thread :
          /\ thr[u].batch \in SUBSET Ids
          /\ thr[u].batch \cap blocked = {}
          /\ thr[u].batch \cap thr[v].splice = {}
          /\ u # v => thr[u].batch \cap thr[v].batch = {}
    BY DEF Placed
  <2>2. CASE blocked' = blocked /\ thr'[t].batch = thr[t].batch \cup {n}
    BY <1>2, <1>4, <1>5, <1>7, <1>9, <2>1, <2>2, SMTT(20)
  <2>3. CASE blocked' = blocked \cup {n} /\ thr'[t].batch = thr[t].batch
    BY <1>2, <1>4, <1>5, <1>7, <1>9, <2>1, <2>3, SMTT(20)
  <2> QED
    BY <1>5, <2>2, <2>3
<1>11. Placed'
  <2>1. \A u \in Thread :
          /\ Held(u)' \in SUBSET Ids
          /\ \A v \in Thread : u # v => Held(u)' \cap Held(v)' = {}
          /\ \A c \in Client : Held(u)' \cap lockers'[c] = {}
          /\ Distinct(thr'[u].released) /\ Distinct(thr'[u].bounce)
          /\ Elems(thr'[u].released) \cap Elems(thr'[u].bounce) = {}
    BY <1>1, <1>6, ZenonT(40) DEF Placed
  <2> QED
    BY <1>8, <1>10, <2>1 DEF Placed, Distinct, Elems
<1>12. \A i : /\ Queued(i)' <=> Queued(i)
              /\ Leaving(i)' <=> Leaving(i)
              /\ i # n => (Granting(i)' <=> Granting(i))
  BY <1>2, <1>4, <1>5, <1>6, <1>7, SMT DEF Queued, Granting, Leaving
<1>13. CASE ref' = ref /\ thr'[t].batch = thr[t].batch
  <2>1. \A i : Granting(i)' <=> Granting(i)
    BY <1>5, <1>13 DEF Granting
  <2> QED
    BY <1>1, <1>11, <1>12, <1>13, <2>1, SameCounts
<1>14. CASE ref' = [ref EXCEPT ![n] = @ + 1] /\ thr'[t].batch = thr[t].batch \cup {n}
  <2>1. Ids = 1 .. Len(ref) /\ Len(lock') = Len(ref) /\ ref \in Seq(Int)
    BY <1>1 DEF Ids, Counted
  <2>2. ref' = [ref EXCEPT ![n] = ref[n] + 1] /\ ref[n] + 1 \in Int
    BY <1>2, <1>14, <2>1, SMTT(20)
  <2>3. /\ ref' \in Seq(Int) /\ Len(ref') = Len(ref)
        /\ \A j \in 1 .. Len(ref) : ref'[j] = IF j = n THEN ref[n] + 1 ELSE ref[j]
    BY <1>2, <2>1, <2>2, ExceptSeq, SMTT(20)
  <2>4. ~ Granting(n) /\ Granting(n)'
    BY <1>9, <1>14 DEF Granting
  <2>5. ref'[n] = One(Queued(n))' + One(Granting(n))' + One(Leaving(n))'
    BY <1>2, <1>12, <2>1, <2>3, <2>4, SMTT(20) DEF Counted, One
  <2>6. \A i \in Ids : i # n => ref'[i] = One(Queued(i))' + One(Granting(i))' + One(Leaving(i))'
    BY <1>12, <2>1, <2>3 DEF Counted, One
  <2> QED
    BY <1>8, <1>11, <2>1, <2>3, <2>5, <2>6 DEF Counted
<1> QED
  BY <1>5, <1>13, <1>14

\* Answers, and the beginning of a cleanup, change no reference.
LEMMA QuietCounted ==
  ASSUME RefInv, NEW t \in Thread,
         \/ grant_blocked_unwind(t)
         \/ \E c \in Client : pl_client_disconnect_cbk(t, c) \/ pl_client_destroy_cbk(t, c)
  PROVE  Placed' /\ Counted'
<1> USE DEF RefInv, AnswerInv, Inv
<1>1. UNCHANGED <<lock, granted, blocked, lockers, ref>>
  BY DEF grant_blocked_unwind, pl_client_disconnect_cbk, pl_client_destroy_cbk, domVars
<1>2. \/ thr' = [thr EXCEPT ![t].pc = "unref"]
      \/ \E c \in Client : thr' = [thr EXCEPT ![t].pc = "scan", ![t].client = c]
  BY Zenon DEF grant_blocked_unwind, Become, pl_client_disconnect_cbk, pl_client_destroy_cbk
<1>3. /\ \A u \in Thread \ {t} : thr'[u] = thr[u]
      /\ \A u \in Thread : /\ thr'[u].splice = thr[u].splice /\ thr'[u].batch = thr[u].batch
                           /\ thr'[u].released = thr[u].released
                           /\ thr'[u].bounce = thr[u].bounce
  <2>1. CASE thr' = [thr EXCEPT ![t].pc = "unref"]
    BY <2>1 DEF Typed, ThreadRec
  <2>2. ASSUME NEW c \in Client, thr' = [thr EXCEPT ![t].pc = "scan", ![t].client = c]
        PROVE  /\ \A u \in Thread \ {t} : thr'[u] = thr[u]
               /\ \A u \in Thread : /\ thr'[u].splice = thr[u].splice
                                    /\ thr'[u].batch = thr[u].batch
                                    /\ thr'[u].released = thr[u].released
                                    /\ thr'[u].bounce = thr[u].bounce
    BY <2>2 DEF Typed, ThreadRec
  <2> QED
    BY <1>2, <2>1, <2>2
<1>4. \A u \in Thread : Held(u)' = Held(u)
  BY <1>3, SMT DEF Held, Elems
<1>5. Placed'
  <2>1. /\ Distinct(thr[t].released) /\ Distinct(thr[t].bounce)
        /\ Elems(thr[t].released) \cap Elems(thr[t].bounce) = {}
    BY DEF Placed
  <2> QED
    BY <1>1, <1>3, <1>4, <2>1, FewerPlaced
<1>6. \A i : /\ Queued(i)' <=> Queued(i)
             /\ Granting(i)' <=> Granting(i)
             /\ Leaving(i)' <=> Leaving(i)
  BY <1>1, <1>3, <1>4 DEF Queued, Granting, Leaving
<1> QED
  BY <1>1, <1>5, <1>6, SameCounts

\* cleanup_unwind: a cleanup keeps its reference to each lock that it has
\* taken away, also to those it has refused.
LEMMA CleanupUnwindCounted ==
  ASSUME RefInv, NEW t \in Thread, cleanup_unwind(t)
  PROVE  Placed' /\ Counted'
<1> USE DEF RefInv, AnswerInv, Inv
<1> DEFINE all == thr[t].released \o thr[t].bounce
<1>1. thr[t].pc = "scan" /\ UNCHANGED <<lock, granted, blocked, lockers, ref>>
  BY DEF cleanup_unwind
<1>2. /\ thr[t] \in ThreadRec /\ thr \in [Thread -> ThreadRec]
      /\ thr[t].released \in Seq(Nat) /\ thr[t].bounce \in Seq(Nat)
      /\ thr[t].splice = {} /\ thr[t].batch = {}
  <2>1. thr[t] \in ThreadRec /\ thr \in [Thread -> ThreadRec] /\ thr[t].splice = {}
    BY <1>1 DEF Typed
  <2>2. thr[t].batch = {}
    BY <1>1, Zenon DEF Orderly
  <2> QED
    BY <2>1, <2>2 DEF ThreadRec
<1>3. /\ Distinct(all) /\ Elems(all) = Held(t)
      /\ Distinct(<< >>) /\ Elems(<< >>) = {}
  <2>1. /\ Distinct(thr[t].released) /\ Distinct(thr[t].bounce)
        /\ Elems(thr[t].released) \cap Elems(thr[t].bounce) = {}
    BY DEF Placed
  <2>2. Distinct(all) /\ Elems(all) = Elems(thr[t].released) \cup Elems(thr[t].bounce)
    BY <1>2, <2>1, DistinctConcat
  <2>3. Distinct(<< >>)
    BY SMT DEF Distinct
  <2> QED
    BY <2>2, <2>3, ElemsEmpty DEF Held
<1>4. \/ all = << >> /\ thr' = [thr EXCEPT ![t] = IdleThread]
      \/ thr' = [thr EXCEPT ![t].pc = "splice", ![t].bounce = << >>, ![t].released = all]
  BY Zenon DEF cleanup_unwind
<1> HIDE DEF all
<1>5. /\ \A u \in Thread \ {t} : thr'[u] = thr[u]
      /\ thr'[t].splice = {} /\ thr'[t].batch = {}
      /\ thr'[t].released = all /\ thr'[t].bounce = << >>
  <2>1. CASE all = << >> /\ thr' = [thr EXCEPT ![t] = IdleThread]
    BY <1>2, <2>1 DEF IdleThread
  <2>2. CASE thr' = [thr EXCEPT ![t].pc = "splice", ![t].bounce = << >>, ![t].released = all]
    BY <1>2, <2>2 DEF ThreadRec
  <2> QED
    BY <1>4, <2>1, <2>2
<1>6. \A u \in Thread : Held(u)' = Held(u)
  <2>1. Held(t)' = Held(t)
    BY <1>3, <1>5, SMTT(20) DEF Held, Elems
  <2>2. \A u \in Thread \ {t} : Held(u)' = Held(u)
    BY <1>5 DEF Held, Elems
  <2> QED
    BY <2>1, <2>2
<1>7. /\ Distinct(thr'[t].released) /\ Distinct(thr'[t].bounce)
      /\ Elems(thr'[t].released) \cap Elems(thr'[t].bounce) = {}
  BY <1>3, <1>5
<1>8. Placed'
  <2>1. /\ thr'[t].batch \in SUBSET thr[t].batch /\ thr'[t].splice \in SUBSET thr[t].splice
        /\ Held(t)' \in SUBSET Held(t)
        /\ blocked' \in SUBSET blocked
        /\ \A c \in Client : lockers'[c] \in SUBSET lockers[c]
    BY <1>1, <1>2, <1>5, <1>6
  <2> QED
    BY <1>1, <1>5, <1>7, <2>1, FewerPlaced
<1>9. \A i : /\ Queued(i)' <=> Queued(i)
             /\ Granting(i)' <=> Granting(i)
             /\ Leaving(i)' <=> Leaving(i)
  BY <1>1, <1>2, <1>5, <1>6 DEF Queued, Granting, Leaving
<1> QED
  BY <1>1, <1>8, <1>9, SameCounts

\* cleanup_scan: the reference for the list becomes the cleanup's.
LEMMA ScanCounted ==
  ASSUME RefInv, NEW t \in Thread, cleanup_scan(t)
  PROVE  Placed' /\ Counted'
<1> USE DEF RefInv, AnswerInv, Inv
<1> DEFINE c == thr[t].client
<1>0. PICK k : k = NextLocker(c)
  OBVIOUS
<1>1. /\ thr[t].pc = "scan" /\ Free /\ lockers[c] # {}
      /\ lockers' = [lockers EXCEPT ![c] = @ \ {k}]
      /\ UNCHANGED <<lock, ref>>
  BY <1>0 DEF cleanup_scan
<1>2. /\ c \in Client /\ thr[t] \in ThreadRec /\ thr \in [Thread -> ThreadRec]
      /\ thr[t].released \in Seq(Nat) /\ thr[t].bounce \in Seq(Nat)
  <2>1. c \in Client /\ thr[t] \in ThreadRec /\ thr \in [Thread -> ThreadRec]
    BY <1>1 DEF Typed
  <2> QED
    BY <2>1 DEF ThreadRec
<1>3. k \in lockers[c] /\ k \in Ids /\ k \in Nat
  BY <1>0, <1>1, <1>2, NextLockerIn, SMTT(20) DEF Typed, Ids
<1>4. \/ /\ granted' = granted \ {k} /\ blocked' = blocked /\ k \in granted
         /\ thr' = [thr EXCEPT ![t].released = Append(@, k)]
      \/ /\ granted' = granted /\ blocked' = blocked \ {k} /\ k \notin granted
         /\ thr' = [thr EXCEPT ![t].bounce = Append(@, k)]
  BY <1>0 DEF cleanup_scan
<1>5. \A u \in Thread : thr[u].splice = {}
  BY <1>1 DEF Typed, Free
<1>6. lock[k].client = c /\ k \in granted \cup blocked
  BY <1>2, <1>3, <1>5 DEF Orderly
<1>7. k \notin granted' \cup blocked' /\ \A i : i # k => (i \in granted' \cup blocked' <=> i \in granted \cup blocked)
  BY <1>4 DEF Apart
<1>8. \A d \in Client : k \notin lockers'[d] /\ lockers'[d] \in SUBSET lockers[d]
  <2>1. \A d \in Client : d # c => k \notin lockers[d]
    BY <1>6 DEF Orderly
  <2> QED
    BY <1>1, <1>2, <2>1 DEF Typed
<1>9. \A u \in Thread : k \notin Held(u)
  BY <1>2, <1>3 DEF Placed
<1>10. /\ \A u \in Thread \ {t} : thr'[u] = thr[u]
       /\ thr'[t].splice = thr[t].splice /\ thr'[t].batch = thr[t].batch
       /\ \/ /\ thr'[t].released = Append(thr[t].released, k)
             /\ thr'[t].bounce = thr[t].bounce
          \/ /\ thr'[t].released = thr[t].released
             /\ thr'[t].bounce = Append(thr[t].bounce, k)
  <2>1. CASE thr' = [thr EXCEPT ![t].released = Append(@, k)]
    BY <1>2, <2>1 DEF ThreadRec
  <2>2. CASE thr' = [thr EXCEPT ![t].bounce = Append(@, k)]
    BY <1>2, <2>2 DEF ThreadRec
  <2> QED
    BY <1>4, <2>1, <2>2
<1>11. k \notin Elems(thr[t].released) /\ k \notin Elems(thr[t].bounce)
  BY <1>9 DEF Held
<1>12. /\ Distinct(thr'[t].released) /\ Distinct(thr'[t].bounce)
       /\ Elems(thr'[t].released) \cap Elems(thr'[t].bounce) = {}
       /\ Elems(thr'[t].released) \cup Elems(thr'[t].bounce) = Held(t) \cup {k}
  <2>1. /\ Distinct(thr[t].released) /\ Distinct(thr[t].bounce)
        /\ Elems(thr[t].released) \cap Elems(thr[t].bounce) = {}
        /\ Held(t) = Elems(thr[t].released) \cup Elems(thr[t].bounce)
    BY DEF Placed, Held
  <2>2. \A s \in Seq(Nat) : k \notin Elems(s) /\ Distinct(s) =>
          Distinct(Append(s, k)) /\ Elems(Append(s, k)) = Elems(s) \cup {k}
    BY <1>3, DistinctAppend, ElemsAppend
  <2>3. \A s \in {thr[t].released, thr[t].bounce} :
          Distinct(Append(s, k)) /\ Elems(Append(s, k)) = Elems(s) \cup {k}
    BY <1>2, <1>11, <2>1, <2>2, Zenon
  <2>4. CASE /\ thr'[t].released = Append(thr[t].released, k)
             /\ thr'[t].bounce = thr[t].bounce
    BY <1>11, <2>1, <2>3, <2>4
  <2>5. CASE /\ thr'[t].released = thr[t].released
             /\ thr'[t].bounce = Append(thr[t].bounce, k)
    BY <1>11, <2>1, <2>3, <2>5
  <2> QED
    BY <1>10, <2>4, <2>5
<1>13. Held(t)' = Held(t) \cup {k} /\ \A u \in Thread \ {t} : Held(u)' = Held(u)
  <2>1. \A u \in Thread : Held(u)' = Elems(thr'[u].released) \cup Elems(thr'[u].bounce)
    BY DEF Held, Elems
  <2>2. \A u \in Thread \ {t} : Held(u)' = Held(u)
    BY <1>10, <2>1 DEF Held
  <2> QED
    BY <1>12, <2>1, <2>2
<1>14. Ids' = Ids
  BY <1>1 DEF Ids
<1>15. Placed'
  <2>1. \A u, v \in Thread :
          /\ thr'[u].batch \in SUBSET Ids
          /\ thr'[u].batch \cap blocked' = {}
          /\ thr'[u].batch \cap thr'[v].splice = {}
          /\ u # v => thr'[u].batch \cap thr'[v].batch = {}
    <3>1. \A u \in Thread : thr'[u].splice = thr[u].splice /\ thr'[u].batch = thr[u].batch
      BY <1>10
    <3>2. blocked' \in SUBSET blocked
      BY <1>4
    <3> QED
      BY <3>1, <3>2 DEF Placed
  <2>2. \A u, v \in Thread : u # v => Held(u)' \cap Held(v)' = {}
    <3>1. \A u, v \in Thread : u # v => Held(u) \cap Held(v) = {}
      BY DEF Placed
    <3> QED
      BY <1>9, <1>13, <3>1, SMTT(20)
  <2>3. \A u \in Thread :
          /\ Held(u)' \in SUBSET Ids
          /\ \A d \in Client : Held(u)' \cap lockers'[d] = {}
    <3>1. \A u \in Thread : /\ Held(u) \in SUBSET Ids
                            /\ \A d \in Client : Held(u) \cap lockers[d] = {}
      BY DEF Placed
    <3>2. ASSUME NEW u \in Thread
          PROVE  /\ Held(u)' \in SUBSET (Held(u) \cup {k})
      BY <1>13
    <3>3. ASSUME NEW u \in Thread, NEW d \in Client
          PROVE  Held(u)' \cap lockers'[d] = {}
      <4>1. k \notin lockers'[d] /\ lockers'[d] \in SUBSET lockers[d]
        BY <1>8
      <4> QED
        BY <3>1, <3>2, <4>1
    <3> QED
      BY <1>3, <3>1, <3>2, <3>3
  <2>4. \A u \in Thread :
          /\ Distinct(thr'[u].released) /\ Distinct(thr'[u].bounce)
          /\ Elems(thr'[u].released) \cap Elems(thr'[u].bounce) = {}
    BY <1>10, <1>12 DEF Placed
  <2> QED
    BY <1>14, <2>1, <2>2, <2>3, <2>4 DEF Placed, Distinct, Elems
<1>16. /\ Queued(k) /\ ~ Queued(k)' /\ Leaving(k)' /\ ~ Leaving(k)
       /\ Granting(k)' <=> Granting(k)
  BY <1>5, <1>6, <1>7, <1>9, <1>10, <1>13 DEF Queued, Leaving, Granting
<1>17. \A i : i # k => /\ Queued(i)' <=> Queued(i)
                       /\ Leaving(i)' <=> Leaving(i)
                       /\ Granting(i)' <=> Granting(i)
  BY <1>5, <1>7, <1>10, <1>13 DEF Queued, Leaving, Granting
<1>18. ref'[k] = One(Queued(k))' + One(Granting(k))' + One(Leaving(k))'
  BY <1>1, <1>3, <1>16, SMTT(20) DEF Counted, One
<1>19. \A i \in Ids : i # k => ref'[i] = One(Queued(i))' + One(Granting(i))' + One(Leaving(i))'
  BY <1>1, <1>17 DEF Counted, One
<1> QED
  BY <1>1, <1>14, <1>15, <1>18, <1>19 DEF Counted

\* grant_blocked_end: the references for the locks just answered, and the
\* cleanup's to the lock it has released, are dropped.
LEMMA GrantEndCounted ==
  ASSUME RefInv, NEW t \in Thread, grant_blocked_end(t)
  PROVE  Placed' /\ Counted'
<1> USE DEF RefInv, AnswerInv, Inv
<1>0. PICK rel, batch : rel = thr[t].released /\ batch = thr[t].batch
  OBVIOUS
<1> DEFINE Last(i) == rel # << >> /\ i = Head(rel)
<1>1. /\ thr[t].pc = "unref" /\ UNCHANGED <<lock, granted, blocked, lockers>>
      /\ ref' = [i \in DOMAIN ref |-> ref[i] - (One(i \in batch) + One(Last(i)))]
  <2> DEFINE drop == [i \in DOMAIN ref |->
                        (IF i \in thr[t].batch THEN 1 ELSE 0)
                          + (IF thr[t].released # << >> /\ i = Head(thr[t].released) THEN 1 ELSE 0)]
  <2>1. /\ thr[t].pc = "unref" /\ UNCHANGED <<lock, granted, blocked, lockers>>
        /\ ref' = [i \in DOMAIN ref |-> ref[i] - drop[i]]
    BY DEF grant_blocked_end
  <2>2. \A i \in DOMAIN ref : drop[i] = One(i \in batch) + One(Last(i))
    BY <1>0 DEF One
  <2> HIDE DEF drop, Last
  <2> QED
    BY <2>1, <2>2
<1>2. /\ thr[t] \in ThreadRec /\ thr \in [Thread -> ThreadRec]
      /\ rel \in Seq(Nat) /\ thr[t].bounce = << >> /\ thr[t].splice = {} /\ Distinct(rel)
  <2>1. thr[t] \in ThreadRec /\ thr \in [Thread -> ThreadRec] /\ thr[t].splice = {}
    BY <1>1 DEF Typed
  <2>2. thr[t].bounce = << >> /\ Distinct(rel)
    BY <1>0, <1>1 DEF Orderly, Placed
  <2> QED
    BY <1>0, <2>1, <2>2 DEF ThreadRec
<1>3. \E s \in Seq(Nat) :
        /\ \A u \in Thread \ {t} : thr'[u] = thr[u]
        /\ thr'[t].splice = {} /\ thr'[t].batch = {} /\ thr'[t].bounce = << >>
        /\ thr'[t].released = s /\ Distinct(s) /\ Elems(s) = Elems(rel) \ {i \in Elems(rel) : Last(i)}
  <2>1. CASE Len(rel) > 1
    <3>1. rel # << >> /\ Tail(rel) \in Seq(Nat)
      BY <1>2, <2>1, HeadTailProperties, SMTT(20)
    <3>2. Distinct(Tail(rel)) /\ Elems(Tail(rel)) = Elems(rel) \ {Head(rel)}
      BY <1>2, <3>1, DistinctTail
    <3>3. Elems(Tail(rel)) = Elems(rel) \ {i \in Elems(rel) : Last(i)}
      BY <3>1, <3>2
    <3>4. thr' = [thr EXCEPT ![t].pc = "splice", ![t].batch = {}, ![t].released = Tail(rel)]
      BY <1>0, <2>1, Zenon DEF grant_blocked_end
    <3>5. /\ \A u \in Thread \ {t} : thr'[u] = thr[u]
          /\ thr'[t].splice = {} /\ thr'[t].batch = {} /\ thr'[t].bounce = << >>
          /\ thr'[t].released = Tail(rel)
      BY <1>2, <3>4 DEF ThreadRec
    <3> HIDE DEF Last
    <3> QED
      BY <3>1, <3>2, <3>3, <3>5, Zenon
  <2>2. CASE ~ (Len(rel) > 1)
    <3>1. thr' = [thr EXCEPT ![t] = IdleThread]
      BY <1>0, <2>2, Zenon DEF grant_blocked_end
    <3>2. /\ \A u \in Thread \ {t} : thr'[u] = thr[u]
          /\ thr'[t].splice = {} /\ thr'[t].batch = {} /\ thr'[t].bounce = << >>
          /\ thr'[t].released = << >>
      BY <1>2, <3>1 DEF IdleThread
    <3>3. << >> \in Seq(Nat) /\ Distinct(<< >>) /\ Elems(<< >>) = {}
      BY ElemsEmpty, SMT DEF Distinct
    <3>4. \A i \in Elems(rel) : Last(i)
      <4>1. ASSUME NEW i \in Elems(rel)
            PROVE  Last(i)
        <5>1. PICK a \in DOMAIN rel : i = rel[a]
          BY DEF Elems
        <5>2. Len(rel) \in Nat /\ DOMAIN rel = 1 .. Len(rel)
          BY <1>2, SMTT(20)
        <5>3. a = 1 /\ Len(rel) = 1
          BY <2>2, <5>1, <5>2, SMTT(20)
        <5>4. rel # << >>
          <6>1. Len(rel) # 0 /\ Len(<< >>) = 0
            BY <5>3, SMTT(20)
          <6> QED
            BY <6>1, Zenon
        <5>5. Head(rel) = rel[1]
          BY <1>2, <5>4, HeadTailProperties, SMTT(20)
        <5> QED
          BY <5>1, <5>3, <5>4, <5>5
      <4> QED
        BY <4>1
    <3> HIDE DEF Last
    <3>5. Elems(<< >>) = Elems(rel) \ {i \in Elems(rel) : Last(i)}
      BY <3>3, <3>4
    <3> QED
      BY <3>2, <3>3, <3>5, Zenon
  <2> QED
    BY <2>1, <2>2
<1>4. PICK s \in Seq(Nat) :
        /\ \A u \in Thread \ {t} : thr'[u] = thr[u]
        /\ thr'[t].splice = {} /\ thr'[t].batch = {} /\ thr'[t].bounce = << >>
        /\ thr'[t].released = s /\ Distinct(s) /\ Elems(s) = Elems(rel) \ {i \in Elems(rel) : Last(i)}
  BY <1>3, Zenon
<1>5. \A i : Last(i) => i \in Elems(rel)
  <2>1. rel # << >> => Len(rel) \in Nat /\ Len(rel) >= 1 /\ DOMAIN rel = 1 .. Len(rel) /\ Head(rel) = rel[1]
    BY <1>2, HeadTailProperties, EmptySeq, SMTT(20)
  <2> QED
    BY <2>1, SMTT(20) DEF Elems
<1> HIDE DEF Last
<1>6. Held(t) = Elems(rel) /\ Held(t)' = Elems(s)
  <2>1. Held(t)' = Elems(thr'[t].released) \cup Elems(thr'[t].bounce)
    BY DEF Held, Elems
  <2> QED
    BY <1>0, <1>2, <1>4, <2>1, ElemsEmpty DEF Held
<1>7. \A u \in Thread \ {t} : Held(u)' = Held(u)
  BY <1>4, SMTT(20) DEF Held, Elems
<1>8. Placed'
  <2>1. Distinct(<< >>) /\ Elems(s) \cap Elems(<< >>) = {}
    BY ElemsEmpty, SMT DEF Distinct
  <2>2. /\ thr'[t].batch \in SUBSET thr[t].batch /\ thr'[t].splice \in SUBSET thr[t].splice
        /\ Held(t)' \in SUBSET Held(t)
        /\ blocked' \in SUBSET blocked
        /\ \A c \in Client : lockers'[c] \in SUBSET lockers[c]
        /\ Distinct(thr'[t].released) /\ Distinct(thr'[t].bounce)
        /\ Elems(thr'[t].released) \cap Elems(thr'[t].bounce) = {}
    BY <1>1, <1>2, <1>4, <1>6, <2>1
  <2> QED
    BY <1>1, <1>4, <2>2, FewerPlaced
<1>9. ASSUME NEW i \in Ids
      PROVE  /\ Queued(i)' <=> Queued(i)
             /\ One(Granting(i))' = One(Granting(i)) - One(i \in batch)
             /\ One(Leaving(i))' = One(Leaving(i)) - One(Last(i))
  <2>1. Queued(i)' <=> Queued(i)
    BY <1>1, <1>2, <1>4 DEF Queued
  <2>2. i \in batch => Granting(i) /\ ~ Granting(i)'
    BY <1>0, <1>4 DEF Granting, Placed
  <2>3. i \notin batch => (Granting(i)' <=> Granting(i))
    BY <1>0, <1>4 DEF Granting
  <2>4. Last(i) => Leaving(i) /\ ~ Leaving(i)'
    <3>1. Last(i) => i \in Held(t) /\ i \notin Held(t)'
      BY <1>4, <1>5, <1>6
    <3>2. \A u \in Thread \ {t} : i \in Held(t) => i \notin Held(u)
      BY DEF Placed
    <3> QED
      BY <1>7, <3>1, <3>2 DEF Leaving
  <2>5. ~ Last(i) => (Leaving(i)' <=> Leaving(i))
    <3>1. ~ Last(i) => (i \in Held(t)' <=> i \in Held(t))
      BY <1>4, <1>6
    <3> QED
      BY <1>7, <3>1 DEF Leaving
  <2>6. One(Granting(i))' = One(Granting(i)) - One(i \in batch)
    BY <2>2, <2>3, SMTT(20) DEF One
  <2>7. One(Leaving(i))' = One(Leaving(i)) - One(Last(i))
    BY <2>4, <2>5, SMTT(20) DEF One
  <2> QED
    BY <2>1, <2>6, <2>7
<1>10. /\ Ids' = Ids /\ Ids = 1 .. Len(ref) /\ Len(lock') = Len(ref) /\ ref \in Seq(Int)
       /\ Len(ref) \in Nat /\ DOMAIN ref = 1 .. Len(ref)
  BY <1>1, SMTT(20) DEF Ids, Counted
<1>11. /\ ref' \in Seq(Int) /\ Len(ref') = Len(ref)
       /\ \A i \in Ids : ref'[i] = ref[i] - (One(i \in batch) + One(Last(i)))
  <2>1. \A i \in 1 .. Len(ref) : ref[i] - (One(i \in batch) + One(Last(i))) \in Int
    BY <1>10, SMTT(20) DEF One
  <2>2. ref' \in [1 .. Len(ref) -> Int]
    BY <1>1, <1>10, <2>1
  <2> QED
    BY <1>1, <1>10, <2>2, SMTT(20)
<1>12. ASSUME NEW i \in Ids
       PROVE  ref'[i] = One(Queued(i))' + One(Granting(i))' + One(Leaving(i))'
  <2>1. ref[i] = One(Queued(i)) + One(Granting(i)) + One(Leaving(i))
    BY DEF Counted
  <2>2. One(Queued(i))' = One(Queued(i))
    BY <1>9 DEF One
  <2>3. \A b : One(b) \in Int
    BY SMT DEF One
  <2> QED
    BY <1>9, <1>11, <2>1, <2>2, <2>3, SMTT(20)
<1> QED
  BY <1>8, <1>10, <1>11, <1>12 DEF Counted

\* Every step keeps the invariant with the references.
LEMMA StepRef ==
  ASSUME RefInv, [Next]_vars
  PROVE  RefInv'
<1>1. ASSUME NEW l \in LockRec, NEW can_block \in BOOLEAN, pl_inode_setlk(l, can_block)
      PROVE  Placed' /\ Counted'
  BY <1>1, SetlkCounted
<1>2. ASSUME NEW l \in LockRec, NEW t \in Thread, pl_inode_unlock(t, l)
      PROVE  Placed' /\ Counted'
  BY <1>2, UnlockCounted
<1>3. ASSUME NEW t \in Thread,
             \/ grant_blocked_unwind(t)
             \/ \E c \in Client : pl_client_disconnect_cbk(t, c) \/ pl_client_destroy_cbk(t, c)
      PROVE  Placed' /\ Counted'
  BY <1>3, QuietCounted
<1>4. ASSUME NEW t \in Thread,
             \/ grant_blocked_begin(t) \/ __grant_blocked_inode_locks(t) \/ grant_blocked_end(t)
             \/ cleanup_scan(t) \/ cleanup_unwind(t)
      PROVE  Placed' /\ Counted'
  BY <1>4, BeginCounted, LoopCounted, GrantEndCounted, ScanCounted, CleanupUnwindCounted
<1>5. ASSUME UNCHANGED vars
      PROVE  Placed' /\ Counted'
  <2>1. UNCHANGED <<lock, granted, blocked, lockers, ref, thr>>
    BY <1>5 DEF vars, domVars
  <2>2. \A t \in Thread : Held(t)' = Held(t)
    BY <2>1 DEF Held, Elems
  <2>3. \A i : /\ Queued(i)' <=> Queued(i)
               /\ Granting(i)' <=> Granting(i)
               /\ Leaving(i)' <=> Leaving(i)
    BY <2>1, <2>2 DEF Queued, Granting, Leaving
  <2>4. Counted'
    BY <2>1, <2>3, SameCounts DEF RefInv
  <2>5. Ids' = Ids /\ Placed
    BY <2>1 DEF Ids, RefInv
  <2>6. \A t \in Thread : /\ Distinct(thr'[t].released) /\ Distinct(thr'[t].bounce)
                          /\ Elems(thr'[t].released) \cap Elems(thr'[t].bounce) = {}
    BY <2>1, <2>5 DEF Placed
  <2>7. Placed'
    BY <2>1, <2>2, <2>5, <2>6 DEF Placed, Distinct, Elems
  <2> QED
    BY <2>4, <2>7
<1>6. Placed' /\ Counted'
  BY <1>1, <1>2, <1>3, <1>4, <1>5 DEF Next, Step, LockRec
<1>7. AnswerInv'
  BY StepWaits DEF RefInv
<1>8. kind' = kind
  BY ZenonT(40) DEF Next, Step, vars, domVars, pl_inode_setlk, pl_inode_unlock, pl_client_disconnect_cbk,
         pl_client_destroy_cbk, grant_blocked_begin, __grant_blocked_inode_locks,
         grant_blocked_unwind, grant_blocked_end, cleanup_scan, cleanup_unwind
<1> QED
  BY <1>6, <1>7, <1>8 DEF RefInv

\* A set without two elements.
LEMMA NoneOrOne ==
  ASSUME NEW S, \A a, b \in S : a = b
  PROVE  Cardinality(S) = One(S # {})
<1>1. CASE S = {}
  BY <1>1, FS_EmptySet DEF One
<1>2. CASE S # {}
  <2>1. PICK x : x \in S
    BY <1>2
  <2>2. S = {x}
    BY <2>1
  <2>3. Cardinality({x}) = 1
    BY FS_Singleton
  <2> QED
    BY <1>2, <2>2, <2>3 DEF One
<1> QED
  BY <1>1, <1>2

\* The invariant says what RefCounted says.
LEMMA RefInvCounts ==
  ASSUME RefInv
  PROVE  RefCounted
<1> USE DEF RefInv, AnswerInv, Inv
<1>1. ASSUME NEW i \in DOMAIN lock
      PROVE  ref[i] = One(i \in granted) + One(i \in blocked)
                        + Cardinality({t \in Thread : i \in thr[t].splice})
                        + Cardinality({t \in Thread : i \in thr[t].batch})
                        + Cardinality({t \in Thread :
                              i \in Elems(thr[t].released) \cup Elems(thr[t].bounce)})
  <2> DEFINE S == {t \in Thread : i \in thr[t].splice}
             B == {t \in Thread : i \in thr[t].batch}
             H == {t \in Thread : i \in Held(t)}
  <2>1. i \in Ids
    BY <1>1, SMT DEF Typed, Ids
  <2>2. Cardinality(S) = One(S # {})
    <3>1. \A t, u \in S : t = u
      BY DEF Typed, Apart
    <3> QED
      BY <3>1, NoneOrOne
  <2>3. Cardinality(B) = One(Granting(i))
    <3>1. \A t, u \in B : t = u
      BY DEF Placed
    <3>2. B # {} <=> Granting(i)
      BY DEF Granting
    <3> QED
      BY <3>1, <3>2, NoneOrOne DEF One
  <2>4. Cardinality(H) = One(Leaving(i))
    <3>1. \A t, u \in H : t = u
      BY DEF Placed
    <3>2. H # {} <=> Leaving(i)
      BY DEF Leaving
    <3> QED
      BY <3>1, <3>2, NoneOrOne DEF One
  <2>5. One(Queued(i)) = One(i \in granted) + One(i \in blocked) + One(S # {})
    <3>1. /\ ~ (i \in granted /\ i \in blocked)
          /\ S # {} => i \notin granted /\ i \notin blocked
          /\ Queued(i) <=> i \in granted \/ i \in blocked \/ S # {}
      BY DEF Apart, Queued
    <3> HIDE DEF S
    <3> QED
      BY <3>1, SMT DEF One
  <2>6. ref[i] = One(Queued(i)) + One(Granting(i)) + One(Leaving(i))
    BY <2>1 DEF Counted
  <2>7. H = {t \in Thread : i \in Elems(thr[t].released) \cup Elems(thr[t].bounce)}
    BY DEF Held
  <2> HIDE DEF S, B, H
  <2>8. ref[i] = One(i \in granted) + One(i \in blocked)
                   + Cardinality(S) + Cardinality(B) + Cardinality(H)
    BY <2>2, <2>3, <2>4, <2>5, <2>6
  <2> QED
    BY <2>7, <2>8, Zenon DEF S, B
<1> QED
  BY <1>1, Zenon DEF RefCounted

\* The invariant says what TypeOK says.
LEMMA RefInvTypes ==
  ASSUME RefInv
  PROVE  TypeOK
<1>1. Inv /\ Typed /\ Orderly /\ Waiting /\ Placed /\ Counted /\ kind \in Kinds
  BY DEF RefInv, AnswerInv, Inv
<1>2. DOMAIN lock = Ids /\ DOMAIN ref = Ids /\ DOMAIN answers = Ids /\ DOMAIN gtime = Ids
  BY <1>1, SMT DEF Typed, Waiting, Counted, Ids
<1>3. \A t \in Thread :
        /\ thr[t].pc \in {"idle", "scan", "splice", "loop", "unwind", "unref"}
        /\ thr[t].splice \subseteq Ids /\ thr[t].batch \subseteq Ids
        /\ thr[t].splice # {} => thr[t].pc = "loop"
        /\ thr[t].batch # {} => thr[t].pc \in {"loop", "unwind", "unref"}
  <2>1. \A t \in Thread : thr[t] \in ThreadRec
    BY <1>1 DEF Typed
  <2>2. \A t \in Thread : thr[t].pc \in {"idle", "scan", "splice", "loop", "unwind", "unref"}
    BY <2>1 DEF ThreadRec
  <2> QED
    BY <1>1, <2>2 DEF Typed, Placed, Orderly
<1> QED
  BY <1>1, <1>2, <1>3 DEF TypeOK, Typed, LockRec

\* The invariant with the references holds in every state.
LEMMA RefInvariance == Spec => []RefInv
<1>1. Init => RefInv
  <2>1. ASSUME Init
        PROVE  Placed /\ Counted /\ kind \in Kinds
    <3>1. /\ lock = << >> /\ ref = << >> /\ blocked = {} /\ kind \in Kinds
          /\ \A c \in Client : lockers[c] = {}
          /\ \A t \in Thread : /\ thr[t].splice = {} /\ thr[t].batch = {}
                               /\ thr[t].bounce = << >> /\ thr[t].released = << >>
      BY <2>1 DEF Init, IdleThread
    <3>2. \A t \in Thread : Held(t) = {}
      BY <3>1, ElemsEmpty DEF Held
    <3>3. Placed
      BY <3>1, <3>2, ElemsEmpty, SMTT(20) DEF Placed, Distinct
    <3>4. Counted
      BY <3>1, SMT DEF Counted, Ids
    <3> QED
      BY <3>1, <3>3, <3>4
  <2> QED
    BY <2>1, InitAnswer DEF RefInv
<1>2. RefInv /\ [Next]_vars => RefInv'
  BY StepRef
<1> QED
  BY <1>1, <1>2, PTL DEF Spec

\* lock->ref: a lock has one reference for each list it is on, so that none is
\* freed under a thread that answers or releases it and none is leaked.
THEOREM ReferencesCounted == Spec => []RefCounted
<1>1. RefInv => RefCounted
  BY RefInvCounts
<1> QED
  BY <1>1, RefInvariance, PTL

\* Every variable of PlLocks has its type, and a thread has locks to look at
\* only in the loop.
THEOREM TypeCorrect == Spec => []TypeOK
<1>1. RefInv => TypeOK
  BY RefInvTypes
<1> QED
  BY <1>1, RefInvariance, PTL
=============================================================================
