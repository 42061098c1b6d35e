------------------------------- MODULE PlLocks -------------------------------
(***************************************************************************)
(* Internal locks of features/locks on one inode and one domain: inodelk   *)
(* (ranges of a file, inodelk.c) or entrylk (names in a directory,         *)
(* entrylk.c).  The two files have the same structure and differ in what   *)
(* conflicts and in what an unlock removes.                                *)
(*                                                                         *)
(* A step is a critical section of pl_inode->mutex, except the loop that   *)
(* grants blocked locks: it is one step for each lock, with the mutex      *)
(* held.  Frames are unwound outside of the mutex.  A client that          *)
(* disconnects loses its locks while other threads grant and unlock, and   *)
(* its late requests are still served.                                     *)
(***************************************************************************)
EXTENDS Integers, Sequences, FiniteSets

CONSTANTS
  Kinds,      \* "inodelk", "entrylk"
  Client,
  Owner,      \* lk-owners of a client
  Thread,
  InodeReq,   \* requests: [fl_type, fl_start, fl_end]
  EntryReq,   \* requests: [type, basename]
  AllNames,   \* the basename NULL
  MaxLock,    \* bound: lock objects
  MaxLeave    \* bound: clients that disconnect

ASSUME RequestAssumption ==
  /\ InodeReq \subseteq [fl_type : {"RDLCK", "WRLCK"}, fl_start : Int, fl_end : Int]
  /\ \A r \in EntryReq : DOMAIN r = {"type", "basename"}

VARIABLES
  kind,      \* which of the two kinds of locks
  lock,      \* the lock objects: client, owner, request
  granted,   \* dom->inodelk_list, dom->entrylk_list
  gtime,     \* the order in which the locks in granted got there
  blocked,   \* dom->blocked_inodelks, dom->blocked_entrylks
  lockers,   \* ctx->inodelk_lockers, ctx->entrylk_lockers of each client
  ref,       \* lock->ref; the object is freed at 0
  answers,   \* how often the frame of each lock request was unwound
  conn,      \* what has become of each client
  thr        \* what each thread is doing

domVars == <<lock, granted, gtime, blocked, lockers, ref, answers>>

vars == <<kind, domVars, conn, thr>>

\* splice: the loop's own list.  batch: locks it has granted.  bounce and
\* released: the lists of a cleanup.
IdleThread == [pc |-> "idle", client |-> "none", splice |-> {}, batch |-> {},
               bounce |-> << >>, released |-> << >>]

Init ==
  /\ kind \in Kinds
  /\ lock = << >>
  /\ granted = {}
  /\ gtime = << >>
  /\ blocked = {}
  /\ lockers = [c \in Client |-> {}]
  /\ ref = << >>
  /\ answers = << >>
  /\ conn = [c \in Client |-> "up"]
  /\ thr = [t \in Thread |-> IdleThread]

-----------------------------------------------------------------------------
inodelk_conflict(l1, l2) ==
  /\ l1.fl_end >= l2.fl_start
  /\ l2.fl_end >= l1.fl_start
  /\ l1.fl_type = "WRLCK" \/ l2.fl_type = "WRLCK"

names_conflict(l1, l2) ==
  \/ l1.basename = AllNames
  \/ l2.basename = AllNames
  \/ l1.basename = l2.basename

Conflict(a, b) ==
  IF kind = "inodelk" THEN inodelk_conflict(a.req, b.req)
                      ELSE names_conflict(a.req, b.req)

\* What an unlock matches: the type counts for entrylk only.
Equal(a, b) ==
  IF kind = "inodelk"
  THEN a.req.fl_start = b.req.fl_start /\ a.req.fl_end = b.req.fl_end
  ELSE a.req = b.req

same_inodelk_owner(a, b) == a.owner = b.owner /\ a.client = b.client

\* Mutant: a lock is compared with the locks of its own client only.
Bug__inodelk_grantable(l) ==
  \A i \in granted : (Conflict(l, lock[i]) /\ l.client = lock[i].client) =>
                        same_inodelk_owner(l, lock[i])

__inodelk_grantable(l) ==
  \A i \in granted : Conflict(l, lock[i]) => same_inodelk_owner(l, lock[i])

__blocked_lock_conflict(l) == \E i \in blocked : Conflict(l, lock[i])

__owner_has_lock(l) ==
  \E i \in granted \cup blocked : same_inodelk_owner(l, lock[i])

\* __lock_inodelk, __lock_entrylk: to keep blocked locks from starving, a lock
\* that conflicts with one of them waits, too, unless its owner has a lock.
Grantable(l) ==
  /\ __inodelk_grantable(l)
  /\ __blocked_lock_conflict(l) => __owner_has_lock(l)

\* The lock objects are numbered in the order of the requests.  A lock is
\* blocked in the critical section that numbers it, and the loop keeps the
\* order, so that blocked is a list sorted by number.
Least(S) == CHOOSE i \in S : \A j \in S : i <= j

Newest(S) == CHOOSE i \in S : \A j \in S : gtime[i] >= gtime[j]

Now == Cardinality({i \in DOMAIN gtime : gtime[i] # 0}) + 1

-----------------------------------------------------------------------------
\* pl_inode->mutex is free.
Free == \A t \in Thread : thr[t].pc # "loop"

\* ctx->lock of the client is free, and frames of it can still arrive.
CtxFree(c) ==
  /\ conn[c] \in {"up", "down"}
  /\ \A t \in Thread : thr[t].pc = "scan" => thr[t].client # c

Become(t, pc) == thr' = [thr EXCEPT ![t].pc = pc]

\* pl_inode_setlk, pl_common_entrylk: the request is granted, or blocked when
\* it may wait; a request that may not wait is refused and leaves nothing.
pl_inode_setlk(l, can_block) ==
  LET n == Len(lock) + 1
  IN  /\ Free
      /\ CtxFree(l.client)
      /\ n <= MaxLock
      /\ Grantable(l) \/ can_block
      /\ lock' = Append(lock, l)
      /\ ref' = Append(ref, 1)
      /\ lockers' = [lockers EXCEPT ![l.client] = @ \cup {n}]
      /\ IF Grantable(l)
         THEN /\ granted' = granted \cup {n}
              /\ gtime' = Append(gtime, Now)
              /\ answers' = Append(answers, 1)
              /\ UNCHANGED blocked
         ELSE /\ blocked' = blocked \cup {n}
              /\ gtime' = Append(gtime, 0)
              /\ answers' = Append(answers, 0)
              /\ UNCHANGED granted
      /\ UNCHANGED <<kind, conn, thr>>

\* __inode_unlock_lock, __unlock_entrylk: the newest match goes, and the
\* thread goes on to grant blocked locks; for entrylk it does so without a
\* match, too.
pl_inode_unlock(t, l) ==
  LET match == {i \in granted : Equal(lock[i], l) /\ same_inodelk_owner(lock[i], l)}
      i == Newest(match)
  IN  /\ Free
      /\ CtxFree(l.client)
      /\ thr[t].pc = "idle"
      /\ match # {} \/ kind = "entrylk"
      /\ IF match = {}
         THEN UNCHANGED <<granted, lockers, ref>>
         ELSE /\ granted' = granted \ {i}
              /\ lockers' = [lockers EXCEPT ![l.client] = @ \ {i}]
              /\ ref' = [ref EXCEPT ![i] = @ - 1]
      /\ thr' = [thr EXCEPT ![t].pc = "splice", ![t].client = l.client]
      /\ UNCHANGED <<kind, lock, gtime, blocked, answers, conn>>

-----------------------------------------------------------------------------
(* grant_blocked_inode_locks, grant_blocked_entry_locks                    *)

\* The mutex is taken, and the blocked locks are moved to a list of the
\* thread's own.
grant_blocked_begin(t) ==
  /\ thr[t].pc = "splice"
  /\ Free
  /\ thr' = [thr EXCEPT ![t].pc = IF blocked = {} THEN "unwind" ELSE "loop",
                        ![t].splice = blocked]
  /\ blocked' = {}
  /\ UNCHANGED <<kind, lock, granted, gtime, lockers, ref, answers, conn>>

\* Mutant: no reference for the thread that will unwind the frame.
Bug__grant_blocked_inode_locks(t) ==
  LET n    == Least(thr[t].splice)
      rest == thr[t].splice \ {n}
      pc   == IF rest = {} THEN "unwind" ELSE "loop"
  IN  /\ thr[t].pc = "loop"
      /\ IF Grantable(lock[n])
         THEN /\ granted' = granted \cup {n}
              /\ gtime' = [gtime EXCEPT ![n] = Now]
              /\ ref' = [ref EXCEPT ![n] = @]
              /\ thr' = [thr EXCEPT ![t].splice = rest, ![t].pc = pc,
                                    ![t].batch = @ \cup {n}]
              /\ UNCHANGED blocked
         ELSE /\ blocked' = blocked \cup {n}
              /\ thr' = [thr EXCEPT ![t].splice = rest, ![t].pc = pc]
              /\ UNCHANGED <<granted, gtime, ref>>
      /\ UNCHANGED <<kind, lock, lockers, answers, conn>>

\* __grant_blocked_inode_locks: the next lock is granted or blocked again.
__grant_blocked_inode_locks(t) ==
  LET n    == Least(thr[t].splice)
      rest == thr[t].splice \ {n}
      pc   == IF rest = {} THEN "unwind" ELSE "loop"
  IN  /\ thr[t].pc = "loop"
      /\ IF Grantable(lock[n])
         THEN /\ granted' = granted \cup {n}
              /\ gtime' = [gtime EXCEPT ![n] = Now]
              /\ ref' = [ref EXCEPT ![n] = @ + 1]
              /\ thr' = [thr EXCEPT ![t].splice = rest, ![t].pc = pc,
                                    ![t].batch = @ \cup {n}]
              /\ UNCHANGED blocked
         ELSE /\ blocked' = blocked \cup {n}
              /\ thr' = [thr EXCEPT ![t].splice = rest, ![t].pc = pc]
              /\ UNCHANGED <<granted, gtime, ref>>
      /\ UNCHANGED <<kind, lock, lockers, answers, conn>>

\* Frames of the locks just granted are unwound.
grant_blocked_unwind(t) ==
  /\ thr[t].pc = "unwind"
  /\ answers' = [i \in DOMAIN answers |->
                   IF i \in thr[t].batch THEN answers[i] + 1 ELSE answers[i]]
  /\ Become(t, "unref")
  /\ UNCHANGED <<kind, lock, granted, gtime, blocked, lockers, ref, conn>>

\* Mutant: the locks stay on the thread's list of granted locks.
Buggrant_blocked_end(t) ==
  LET rel  == thr[t].released
      drop == [i \in DOMAIN ref |->
                 (IF i \in thr[t].batch THEN 1 ELSE 0)
                   + (IF rel # << >> /\ i = Head(rel) THEN 1 ELSE 0)]
      c    == thr[t].client
  IN  /\ thr[t].pc = "unref"
      /\ Free
      /\ ref' = [i \in DOMAIN ref |-> ref[i] - drop[i]]
      /\ IF Len(rel) > 1
         THEN /\ thr' = [thr EXCEPT ![t].pc = "splice", ![t].released = Tail(rel)]
              /\ UNCHANGED conn
         ELSE /\ thr' = [thr EXCEPT ![t] = IdleThread]
              /\ conn' = IF conn[c] = "dying" THEN [conn EXCEPT ![c] = "gone"] ELSE conn
      /\ UNCHANGED <<kind, lock, granted, gtime, blocked, lockers, answers>>

\* A cleanup drops its reference to the lock it released, and goes on with
\* the next.
grant_blocked_end(t) ==
  LET rel  == thr[t].released
      drop == [i \in DOMAIN ref |->
                 (IF i \in thr[t].batch THEN 1 ELSE 0)
                   + (IF rel # << >> /\ i = Head(rel) THEN 1 ELSE 0)]
      c    == thr[t].client
  IN  /\ thr[t].pc = "unref"
      /\ Free
      /\ ref' = [i \in DOMAIN ref |-> ref[i] - drop[i]]
      /\ IF Len(rel) > 1
         THEN /\ thr' = [thr EXCEPT ![t].pc = "splice", ![t].batch = {},
                                    ![t].released = Tail(rel)]
              /\ UNCHANGED conn
         ELSE /\ thr' = [thr EXCEPT ![t] = IdleThread]
              /\ conn' = IF conn[c] = "dying" THEN [conn EXCEPT ![c] = "gone"] ELSE conn
      /\ UNCHANGED <<kind, lock, granted, gtime, blocked, lockers, answers>>

-----------------------------------------------------------------------------
(* pl_inodelk_client_cleanup, pl_entrylk_client_cleanup                    *)

pl_client_disconnect_cbk(t, c) ==
  /\ conn[c] = "up"
  /\ Cardinality({d \in Client : conn[d] # "up"}) < MaxLeave
  /\ thr[t].pc = "idle"
  /\ conn' = [conn EXCEPT ![c] = "down"]
  /\ thr' = [thr EXCEPT ![t].pc = "scan", ![t].client = c]
  /\ UNCHANGED <<kind, domVars>>

\* Mutant: locks that came after the disconnect are not cleaned up.
Bugpl_client_destroy_cbk(t, c) ==
  /\ conn[c] = "down"
  /\ thr[t].pc = "idle"
  /\ \A u \in Thread : thr[u].client # c
  /\ \A i \in DOMAIN lock : lock[i].client = c => answers[i] > 0
  /\ conn' = [conn EXCEPT ![c] = "gone"]
  /\ UNCHANGED <<kind, domVars, thr>>

\* The last frame of the client is gone, and with it the client.
pl_client_destroy_cbk(t, c) ==
  /\ conn[c] = "down"
  /\ thr[t].pc = "idle"
  /\ \A u \in Thread : thr[u].client # c
  /\ \A i \in DOMAIN lock : lock[i].client = c => answers[i] > 0
  /\ conn' = [conn EXCEPT ![c] = "dying"]
  /\ thr' = [thr EXCEPT ![t].pc = "scan", ![t].client = c]
  /\ UNCHANGED <<kind, domVars>>

\* entrylk puts new locks at the head of the client's list.
NextLocker(c) ==
  CHOOSE i \in lockers[c] :
    \A j \in lockers[c] : IF kind = "inodelk" THEN i <= j ELSE i >= j

\* Mutant: a lock that another thread has granted a moment ago is taken for
\* blocked, since that thread has not unwound its frame.
Bugcleanup_scan(t) ==
  LET c == thr[t].client
      i == NextLocker(c)
  IN  /\ thr[t].pc = "scan"
      /\ Free
      /\ lockers[c] # {}
      /\ lockers' = [lockers EXCEPT ![c] = @ \ {i}]
      /\ IF i \in granted /\ answers[i] > 0
         THEN /\ granted' = granted \ {i}
              /\ thr' = [thr EXCEPT ![t].released = Append(@, i)]
              /\ UNCHANGED blocked
         ELSE /\ blocked' = blocked \ {i}
              /\ granted' = granted \ {i}
              /\ thr' = [thr EXCEPT ![t].bounce = Append(@, i)]
      /\ UNCHANGED <<kind, lock, gtime, ref, answers, conn>>

\* With ctx->lock held, the next lock of the client is taken from its list.
cleanup_scan(t) ==
  LET c == thr[t].client
      i == NextLocker(c)
  IN  /\ thr[t].pc = "scan"
      /\ Free
      /\ lockers[c] # {}
      /\ lockers' = [lockers EXCEPT ![c] = @ \ {i}]
      /\ IF i \in granted
         THEN /\ granted' = granted \ {i}
              /\ thr' = [thr EXCEPT ![t].released = Append(@, i)]
              /\ UNCHANGED blocked
         ELSE /\ blocked' = blocked \ {i}
              /\ thr' = [thr EXCEPT ![t].bounce = Append(@, i)]
              /\ UNCHANGED granted
      /\ UNCHANGED <<kind, lock, gtime, ref, answers, conn>>

\* Mutant: after the cleanup of a client nothing is granted for its blocked
\* locks.
Bugcleanup_unwind(t) ==
  LET bounce == {thr[t].bounce[k] : k \in DOMAIN thr[t].bounce}
      c      == thr[t].client
  IN  /\ thr[t].pc = "scan"
      /\ lockers[c] = {}
      /\ answers' = [i \in DOMAIN answers |->
                       IF i \in bounce THEN answers[i] + 1 ELSE answers[i]]
      /\ ref' = [i \in DOMAIN ref |-> IF i \in bounce THEN ref[i] - 1 ELSE ref[i]]
      /\ IF thr[t].released = << >>
         THEN /\ thr' = [thr EXCEPT ![t] = IdleThread]
              /\ conn' = IF conn[c] = "dying" THEN [conn EXCEPT ![c] = "gone"] ELSE conn
         ELSE /\ thr' = [thr EXCEPT ![t].pc = "splice", ![t].bounce = << >>]
              /\ UNCHANGED conn
      /\ UNCHANGED <<kind, lock, granted, gtime, blocked, lockers>>

\* The frames of blocked locks are unwound with EAGAIN; what they kept waiting
\* is granted like what the released locks kept waiting.
cleanup_unwind(t) ==
  LET bounce == {thr[t].bounce[k] : k \in DOMAIN thr[t].bounce}
      all    == thr[t].released \o thr[t].bounce
      c      == thr[t].client
  IN  /\ thr[t].pc = "scan"
      /\ lockers[c] = {}
      /\ answers' = [i \in DOMAIN answers |->
                       IF i \in bounce THEN answers[i] + 1 ELSE answers[i]]
      /\ IF all = << >>
         THEN /\ thr' = [thr EXCEPT ![t] = IdleThread]
              /\ conn' = IF conn[c] = "dying" THEN [conn EXCEPT ![c] = "gone"] ELSE conn
         ELSE /\ thr' = [thr EXCEPT ![t].pc = "splice", ![t].bounce = << >>,
                                    ![t].released = all]
              /\ UNCHANGED conn
      /\ UNCHANGED <<kind, lock, granted, gtime, blocked, lockers, ref>>

-----------------------------------------------------------------------------
Request == IF kind = "inodelk" THEN InodeReq ELSE EntryReq

Step(t) ==
  \/ grant_blocked_begin(t) \/ __grant_blocked_inode_locks(t)
  \/ grant_blocked_unwind(t) \/ grant_blocked_end(t)
  \/ cleanup_scan(t) \/ cleanup_unwind(t)

Next ==
  \/ \E l \in [client : Client, owner : Owner, req : Request] :
       \/ \E can_block \in BOOLEAN : pl_inode_setlk(l, can_block)
       \/ \E t \in Thread : pl_inode_unlock(t, l)
  \/ \E t \in Thread :
       \/ \E c \in Client : pl_client_disconnect_cbk(t, c) \/ pl_client_destroy_cbk(t, c)
       \/ Step(t)

Spec == Init /\ [][Next]_vars

-----------------------------------------------------------------------------
Elems(s) == {s[k] : k \in DOMAIN s}

\* Every variable has its type; a thread has locks to look at only while it is
\* in the loop that grants them, and locks to unwind only until they are.
TypeOK ==
  /\ kind \in Kinds
  /\ lock \in Seq([client : Client, owner : Owner, req : Request])
  /\ granted \subseteq DOMAIN lock
  /\ blocked \subseteq DOMAIN lock
  /\ lockers \in [Client -> SUBSET DOMAIN lock]
  /\ DOMAIN ref = DOMAIN lock /\ DOMAIN answers = DOMAIN lock
  /\ DOMAIN gtime = DOMAIN lock
  /\ conn \in [Client -> {"up", "down", "dying", "gone"}]
  /\ \A t \in Thread :
       /\ thr[t].pc \in {"idle", "scan", "splice", "loop", "unwind", "unref"}
       /\ thr[t].splice \subseteq DOMAIN lock /\ thr[t].batch \subseteq DOMAIN lock
       /\ thr[t].splice # {} => thr[t].pc = "loop"
       /\ thr[t].batch # {} => thr[t].pc \in {"loop", "unwind", "unref"}

\* __inodelk_grantable: two locks that are granted at the same time conflict
\* only when they have one owner, whatever grants, unlocks and cleanups run
\* side by side.
NoConflict ==
  \A i, j \in granted :
    Conflict(lock[i], lock[j]) => same_inodelk_owner(lock[i], lock[j])

One(b) == IF b THEN 1 ELSE 0

\* lock->ref: the object of a lock has one reference for each of the lists it
\* is on, so it is never freed under a thread that still unwinds or releases
\* it, and none is leaked.
RefCounted ==
  \A i \in DOMAIN lock :
    ref[i] = One(i \in granted) + One(i \in blocked)
               + Cardinality({t \in Thread : i \in thr[t].splice})
               + Cardinality({t \in Thread : i \in thr[t].batch})
               + Cardinality({t \in Thread :
                     i \in Elems(thr[t].released) \cup Elems(thr[t].bounce)})

\* Every request that waits is answered once: by the thread that granted it,
\* or by the cleanup of its client, never by both, although a lock may be
\* granted by one while the other takes it away.
AnsweredOnce ==
  \A i \in DOMAIN lock :
    answers[i] = One(/\ i \notin blocked
                     /\ \A t \in Thread :
                          /\ i \notin thr[t].splice
                          /\ i \notin Elems(thr[t].bounce)
                          /\ thr[t].pc \in {"loop", "unwind"} => i \notin thr[t].batch)

\* No grant is forgotten: when no thread is busy, a blocked lock has a reason,
\* a granted lock of another owner or a blocked lock before it.
BlockedForReason ==
  (\A t \in Thread : thr[t].pc = "idle") =>
    \A i \in blocked :
      \/ \E j \in granted : Conflict(lock[i], lock[j])
                              /\ ~same_inodelk_owner(lock[i], lock[j])
      \/ \E j \in blocked : j < i /\ Conflict(lock[i], lock[j])

\* pl_client_destroy_cbk: a client that is gone has left no lock behind, also
\* when requests of it came after it had disconnected.
NoStaleLock ==
  \A i \in granted \cup blocked : conn[lock[i].client] # "gone"
=============================================================================
