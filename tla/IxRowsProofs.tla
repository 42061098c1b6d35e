---------------------------- MODULE IxRowsProofs ----------------------------
(***************************************************************************)
(* The invariants of IxSql and the steps that keep them without counting:  *)
(* who has been handed which rows of a result, and what of a result a      *)
(* query in slices has printed.                                            *)
(***************************************************************************)
EXTENDS IxSql, TLAPS

\* Most leaves are first-order: Zenon proves them.  A leaf that needs arithmetic,
\* record or sequence reasoning names SMT.
USE Zenon

ReplyType == [op_ret : {0, 1}, whole : BOOLEAN, rows : Seq(Row), comeback : Nat]

IpcType == [call_cnt : Nat, rows : Seq(Row), comeback : Nat, from : SUBSET Subvol]

ResultType ==
  {Pending} \cup [state : {"null"}, op_ret : {0, 1}]
    \cup [state : {"dict"}, rows : Seq(Row), comeback : Nat, from : SUBSET Subvol]

JobType ==
  [frame : Frame, type : {"query", "exec"}, session : Session \cup {NoSession},
   offset : Nat, count : Nat, live : BOOLEAN,
   pc : {"ipc", "query", "register", "slice", "exec", "reply"}, res : Nat, reply : ReplyType]

ResType == [rows : Seq(Row), handed : SUBSET Nat, again : SUBSET Nat]

ClientType == [pc : ClientPc, seq : 0 .. MaxQuery, offset : Nat, out : Seq(Row)]

CtlType == [cli_mask : SUBSET Subvol, slice_count : Slices]

DhtTyped ==
  /\ ipc_data \in [Frame -> IpcType]
  /\ call \in [Frame -> [Subvol -> CallState]]
  /\ result \in [Frame -> ResultType]

BrickTyped ==
  /\ index \in [Subvol -> Seq(Row)]
  /\ fresh \in [Subvol -> Nat]
  /\ qres \in [Subvol -> Seq(ResType)]
  /\ qrset \in [Subvol -> [Session -> Nat]]
  /\ job \in [Subvol -> SUBSET JobType]

ClientTyped ==
  /\ ctl \in [Frame -> CtlType]
  /\ client \in [Frame -> ClientType]
  /\ \A c \in Frame : client[c].pc # "idle" => client[c].seq # 0

\* The calls that have been wound and have not returned.
Open(f) == {s \in Subvol : call[f][s] \in {"wound", "merged", "dropped"}}

CountOk(f) == ipc_data[f].call_cnt = Cardinality(Open(f))

\* call_cnt is their number, and a client that has asked for nothing has none.
Counted ==
  /\ \A f \in Frame : CountOk(f)
  /\ \A f \in Frame : client[f].seq = 0 => Open(f) = {}

\* Where the requests are in ims_ipc, and what they refer to.
Placed ==
  /\ \A b \in Subvol, s \in Session : qrset[b][s] <= Len(qres[b])
  /\ \A b \in Subvol : \A j \in job[b] :
       /\ j.pc \in {"query", "register", "slice"} => j.type = "query" /\ j.session \in Session
       /\ j.pc \in {"register", "slice"} => j.res \in 1 .. Len(qres[b])
       /\ j.pc \in {"ipc", "query"} => j.res = 0
       /\ j.res <= Len(qres[b])

\* Sessions are used once the client has made the request.
Started ==
  /\ \A b \in Subvol, s \in Session : qrset[b][s] # 0 => s[2] <= client[s[1]].seq
  /\ \A b \in Subvol : \A j \in job[b] :
       j.session \in Session => j.session[2] <= client[j.session[1]].seq

\* The requests of sessions that are still to be answered on b.
Active(b) == {j \in job[b] : j.type = "query" /\ j.session # NoSession /\ j.pc # "reply"}

\* The sessions through which result r of b can be reached.
Uses(b, s, r) == qrset[b][s] = r \/ \E j \in Active(b) : j.session = s /\ j.res = r

\* Row i is in the slice that j asks for.
Takes(j, i) == j.offset < i /\ i <= j.offset + j.count

Asking(c) == client[c].pc \in {"ask", "fetch"}

\* The end of what the session of c has asked for.
Bound(c) == IF At(c, "ask") THEN client[c].offset ELSE client[c].offset + ctl[c].slice_count

\* A result is reached through one session.
OneUser ==
  \A b \in Subvol : \A s, t \in Session : \A r \in DOMAIN qres[b] :
    Uses(b, s, r) /\ Uses(b, t, r) => s = t

\* The requests of a session ask for different rows, below its bound.
Apart ==
  \A b \in Subvol : \A j, k \in Active(b) :
    j # k /\ j.session = k.session => \A i \in Nat : ~ (Takes(j, i) /\ Takes(k, i))

Below ==
  \A c \in Frame, b \in Subvol : \A j \in Active(b) :
    Asking(c) /\ j.session = session(c) => \A i \in Nat : Takes(j, i) => i <= Bound(c)

\* What has been handed is not asked for, and will not be.
Unhanded ==
  \A b \in Subvol, s \in Session : \A r \in DOMAIN qres[b] :
    Uses(b, s, r) => \A i \in qres[b][r].handed :
      /\ \A j \in Active(b) : j.session = s => ~ Takes(j, i)
      /\ \A c \in Frame : Asking(c) /\ session(c) = s => i <= Bound(c)

Handed == OneUser /\ Apart /\ Below /\ Unhanded /\ HandedOnce

\* The inductive invariant.
Inv == DhtTyped /\ BrickTyped /\ ClientTyped /\ Counted /\ Placed /\ Started /\ Handed

-----------------------------------------------------------------------------
(* Who has been handed which rows.                                         *)

\* A reply of a brick.
LEMMA ReplyTyped ==
  ASSUME NEW n \in {0, 1}, NEW w \in BOOLEAN, NEW rows \in Seq(Row), NEW cb \in Nat
  PROVE  Reply(n, w, rows, cb) \in ReplyType /\ ErrorReply \in ReplyType
BY SMT DEF Reply, ErrorReply, ReplyType

\* A dictionary that replies are merged into.
LEMMA IpcTyped ==
  ASSUME NEW data \in IpcType, NEW s \in Subvol, NEW reply \in ReplyType
  PROVE  /\ NoIpc \in IpcType
         /\ Merge(data, s, reply) \in IpcType
         /\ Merge(data, s, reply).call_cnt = data.call_cnt
         /\ Dict(data) \in ResultType
         /\ Null(0) \in ResultType /\ Null(reply.op_ret) \in ResultType
<1>1. NoIpc \in IpcType
  BY SMT DEF NoIpc, IpcType
<1>2. data.rows \o reply.rows \in Seq(Row) /\ data.comeback + reply.comeback \in Nat
  BY SMT DEF IpcType, ReplyType
<1>3. Merge(data, s, reply) \in IpcType /\ Merge(data, s, reply).call_cnt = data.call_cnt
  BY <1>2 DEF Merge, IpcType
<1>4. Dict(data) \in ResultType
  BY DEF Dict, ResultType, IpcType
<1>5. Null(0) \in ResultType /\ Null(reply.op_ret) \in ResultType
  BY DEF Null, ResultType, ReplyType
<1> QED
  BY <1>1, <1>3, <1>4, <1>5

\* default_ipc winds a call that is not counted.
LEMMA DefaultIpcTyped ==
  ASSUME DhtTyped, NEW f \in Frame, default_ipc(f), Open(f) = {}
  PROVE  DhtTyped' /\ \A g \in Frame : Open(g)' = Open(g) /\ ipc_data'[g] = ipc_data[g]
<1>1. /\ call' = [call EXCEPT ![f][FirstChild] = "default"]
      /\ result' = [result EXCEPT ![f] = Pending] /\ ipc_data' = ipc_data
  BY DEF default_ipc
<1>2. DhtTyped'
  BY <1>1 DEF DhtTyped, ResultType, CallState
<1>3. \A g \in Frame : Open(g)' = Open(g)
  BY <1>1, FirstChildAssumption DEF DhtTyped, Open
<1> QED
  BY <1>1, <1>2, <1>3

\* Its callback.
LEMMA DefaultCbkTyped ==
  ASSUME DhtTyped, NEW f \in Frame, NEW reply \in ReplyType, default_ipc_cbk(f, reply)
  PROVE  DhtTyped' /\ \A g \in Frame : Open(g)' = Open(g) /\ ipc_data'[g] = ipc_data[g]
<1>1. PICK res : res = IF reply.op_ret = 0 THEN Dict(Merge(NoIpc, FirstChild, reply))
                                           ELSE Null(reply.op_ret)
  OBVIOUS
<1>2. /\ call[f][FirstChild] = "default"
      /\ call' = [call EXCEPT ![f][FirstChild] = "none"]
      /\ result' = [result EXCEPT ![f] = res] /\ ipc_data' = ipc_data
  BY <1>1 DEF default_ipc_cbk
<1>3. NoIpc \in IpcType
  BY SMT DEF NoIpc, IpcType
<1>4. Merge(NoIpc, FirstChild, reply) \in IpcType
  BY <1>3, IpcTyped, FirstChildAssumption
<1>5. Dict(Merge(NoIpc, FirstChild, reply)) \in ResultType /\ Null(reply.op_ret) \in ResultType
  BY <1>4, IpcTyped, FirstChildAssumption
<1>6. res \in ResultType
  BY <1>1, <1>5
<1>7. DhtTyped'
  BY <1>2, <1>6 DEF DhtTyped, CallState
<1>8. \A g \in Frame : Open(g)' = Open(g)
  BY <1>2, FirstChildAssumption DEF DhtTyped, Open
<1> QED
  BY <1>2, <1>7, <1>8

\* The callback of a counted call, up to the unlock.
LEMMA CbkTyped ==
  ASSUME DhtTyped, NEW f \in Frame, NEW s \in Subvol, NEW reply \in ReplyType,
         dht_ipc_cbk(f, s, reply)
  PROVE  /\ DhtTyped'
         /\ \A g \in Frame : Open(g)' = Open(g) /\ ipc_data'[g].call_cnt = ipc_data[g].call_cnt
<1>1. PICK new : new = IF reply.op_ret = 0 /\ reply.whole THEN Merge(ipc_data[f], s, reply)
                                                          ELSE ipc_data[f]
  OBVIOUS
<1>2. ipc_data[f] \in IpcType
  BY DEF DhtTyped
<1>3. new \in IpcType /\ new.call_cnt = ipc_data[f].call_cnt
  BY <1>1, <1>2, IpcTyped
<1>4. PICK st \in {"merged", "dropped"} : call' = [call EXCEPT ![f][s] = st]
  BY DEF dht_ipc_cbk
<1>5. call[f][s] = "wound" /\ result' = result /\ ipc_data' = [ipc_data EXCEPT ![f] = new]
  BY <1>1 DEF dht_ipc_cbk, DhtTyped
<1>6. DhtTyped'
  BY <1>3, <1>4, <1>5 DEF DhtTyped, CallState
<1>7. \A g \in Frame : ipc_data'[g].call_cnt = ipc_data[g].call_cnt
  BY <1>3, <1>5 DEF DhtTyped
<1>8. \A g \in Frame : Open(g)' = Open(g)
  BY <1>4, <1>5 DEF DhtTyped, Open
<1> QED
  BY <1>6, <1>7, <1>8

\* k asks for the same rows as j, in the same session.
Copies(k, j) == k.session = j.session /\ k.offset = j.offset /\ k.count = j.count

\* A step that hands nothing and winds no request of a session.
LEMMA KeepHanded ==
  ASSUME Handed,
         \A b \in Subvol : \A k \in Active(b)' : \E j \in Active(b) : Copies(k, j),
         \A b \in Subvol : \A k1, k2 \in Active(b)' : k1 # k2 =>
           \E j1, j2 \in Active(b) : j1 # j2 /\ Copies(k1, j1) /\ Copies(k2, j2),
         \A b \in Subvol : \A r \in DOMAIN qres'[b] :
           \/ /\ r \in DOMAIN qres[b] /\ qres'[b][r] = qres[b][r]
              /\ \A s \in Session : Uses(b, s, r)' => Uses(b, s, r)
           \/ /\ qres'[b][r].handed = {} /\ qres'[b][r].again = {}
              /\ \A s, t \in Session : Uses(b, s, r)' /\ Uses(b, t, r)' => s = t,
         \A c \in Frame : Asking(c)' =>
           \/ Asking(c) /\ session(c)' = session(c) /\ Bound(c)' = Bound(c)
           \/ \A b \in Subvol : /\ \A j \in Active(b) : j.session # session(c)'
                                /\ \A r \in DOMAIN qres[b] : ~ Uses(b, session(c)', r)
  PROVE  Handed'
<1>1. OneUser'
  BY DEF Handed, OneUser
<1>2. Apart'
  <2> SUFFICES ASSUME NEW b \in Subvol, NEW k1 \in Active(b)', NEW k2 \in Active(b)',
                      k1 # k2, k1.session = k2.session, NEW i \in Nat
               PROVE  ~ (Takes(k1, i) /\ Takes(k2, i))
    BY DEF Apart, Takes
  <2>1. PICK j1 \in Active(b), j2 \in Active(b) : j1 # j2 /\ Copies(k1, j1) /\ Copies(k2, j2)
    OBVIOUS
  <2>2. j1.session = j2.session
    BY <2>1 DEF Copies
  <2>3. Apart
    BY DEF Handed
  <2>4. ~ (Takes(j1, i) /\ Takes(j2, i))
    BY <2>1, <2>2, <2>3 DEF Apart
  <2> QED
    BY <2>1, <2>4 DEF Takes, Copies
<1>3. Below'
  <2> SUFFICES ASSUME NEW c \in Frame, NEW b \in Subvol, NEW k \in Active(b)',
                      Asking(c)', k.session = session(c)', NEW i \in Nat, Takes(k, i)
               PROVE  i <= Bound(c)'
    BY DEF Below, Takes
  <2>1. PICK j \in Active(b) : Copies(k, j)
    OBVIOUS
  <2>2. j.session = session(c)' /\ Takes(j, i)
    BY <2>1 DEF Copies, Takes
  <2>3. Asking(c) /\ session(c)' = session(c) /\ Bound(c)' = Bound(c)
    BY <2>2
  <2> QED
    BY <2>2, <2>3 DEF Handed, Below
<1>4. Unhanded'
  <2> SUFFICES ASSUME NEW b \in Subvol, NEW s \in Session, NEW r \in DOMAIN qres'[b],
                      Uses(b, s, r)', NEW i \in qres'[b][r].handed
               PROVE  /\ \A k \in Active(b)' : k.session = s => ~ Takes(k, i)
                      /\ \A c \in Frame : Asking(c)' /\ session(c)' = s => i <= Bound(c)'
    BY DEF Unhanded, Takes
  <2>1. Uses(b, s, r) /\ r \in DOMAIN qres[b] /\ i \in qres[b][r].handed
    OBVIOUS
  <2>2. ASSUME NEW k \in Active(b)', k.session = s
        PROVE  ~ Takes(k, i)
    <3>1. PICK j \in Active(b) : Copies(k, j)
      OBVIOUS
    <3>2. ~ Takes(j, i)
      BY <2>1, <2>2, <3>1 DEF Handed, Unhanded, Copies
    <3> QED
      BY <3>1, <3>2 DEF Copies, Takes
  <2>3. ASSUME NEW c \in Frame, Asking(c)', session(c)' = s
        PROVE  i <= Bound(c)'
    <3>1. Asking(c) /\ session(c)' = session(c) /\ Bound(c)' = Bound(c)
      BY <2>1, <2>3
    <3> QED
      BY <2>1, <2>3, <3>1 DEF Handed, Unhanded
  <2> QED
    BY <2>2, <2>3
<1>5. HandedOnce'
  BY DEF Handed, HandedOnce
<1> QED
  BY <1>1, <1>2, <1>3, <1>4, <1>5 DEF Handed

\* What a step of a client that winds nothing leaves alone.
LEMMA SameJobs ==
  ASSUME UNCHANGED <<job, qrset>>
  PROVE  /\ \A b : Active(b)' = Active(b)
         /\ \A b, s, r : Uses(b, s, r)' = Uses(b, s, r)
BY DEF Active, Uses

\* What a step leaves alone that does not concern the clients.
LEMMA SameClients ==
  ASSUME UNCHANGED <<client, ctl>>
  PROVE  \A c : /\ Asking(c)' = Asking(c) /\ session(c)' = session(c) /\ Bound(c)' = Bound(c)
BY DEF Asking, session, Bound, At

\* A step that changes neither, nor a result.
LEMMA SameHanded ==
  ASSUME Handed, UNCHANGED <<job, qrset, qres, client, ctl>>
  PROVE  Handed'
<1>1. \A b : Active(b)' = Active(b)
  BY SameJobs
<1>2. \A b, s, r : Uses(b, s, r)' = Uses(b, s, r)
  BY SameJobs
<1>3. \A c : Asking(c)' = Asking(c) /\ session(c)' = session(c) /\ Bound(c)' = Bound(c)
  BY SameClients
<1> QED
  BY <1>1, <1>2, <1>3, KeepHanded DEF Copies

\* k is what j becomes in a step of a brick.
Kept(k, j) ==
  /\ k \in JobType
  /\ k.frame = j.frame /\ k.type = j.type /\ k.session = j.session
  /\ k.offset = j.offset /\ k.count = j.count /\ k.live = j.live

\* The requests on the bricks when one of them takes a step.
LEMMA Moved ==
  ASSUME BrickTyped, NEW b \in Subvol, NEW j \in job[b], NEW k \in JobType, Moves(b, j, k)
  PROVE  /\ job' \in [Subvol -> SUBSET JobType]
         /\ job'[b] = (job[b] \ {j}) \cup {k}
         /\ \A a \in Subvol \ {b} : job'[a] = job[a]
BY DEF BrickTyped, Moves

\* It stays in its place, and refers to what there is.
LEMMA MovedPlaced ==
  ASSUME BrickTyped, Placed, Started, NEW b \in Subvol, NEW j \in job[b], NEW k,
         Kept(k, j), Moves(b, j, k), UNCHANGED client,
         \A a \in Subvol : Len(qres[a]) \in Nat /\ Len(qres'[a]) \in Nat /\ Len(qres[a]) <= Len(qres'[a]),
         \A a \in Subvol, s \in Session :
           qrset'[a][s] = qrset[a][s] \/ (a = b /\ s = j.session /\ qrset'[a][s] \in 1 .. Len(qres'[a])),
         k.pc \in {"query", "register", "slice"} => k.type = "query" /\ k.session \in Session,
         k.pc \in {"register", "slice"} => k.res # 0,
         k.pc \in {"ipc", "query"} => k.res = 0,
         k.res <= Len(qres'[b])
  PROVE  Placed' /\ Started'
<1>1. /\ k \in JobType /\ j \in JobType /\ job'[b] = (job[b] \ {j}) \cup {k}
      /\ \A a \in Subvol \ {b} : job'[a] = job[a]
      /\ k.session = j.session
  BY Moved, SMT DEF Kept, BrickTyped
<1>2. \A a \in Subvol, s \in Session : qrset[a][s] \in Nat
  BY DEF BrickTyped
<1>3. \A a \in Subvol, s \in Session : qrset'[a][s] <= Len(qres'[a])
  BY <1>2, SMT DEF Placed
<1>4. ASSUME NEW a \in Subvol, NEW x \in job'[a], x \in job[a]
      PROVE  /\ x.pc \in {"query", "register", "slice"} => x.type = "query" /\ x.session \in Session
             /\ x.pc \in {"register", "slice"} => x.res \in 1 .. Len(qres'[a])
             /\ x.pc \in {"ipc", "query"} => x.res = 0
             /\ x.res <= Len(qres'[a])
  <2>1. x \in JobType /\ x.res \in Nat
    BY <1>4, SMT DEF BrickTyped, JobType
  <2> QED
    BY <1>4, <2>1, SMT DEF Placed
<1>5. k.pc \in {"register", "slice"} => k.res \in 1 .. Len(qres'[b])
  BY <1>1, SMT DEF JobType
<1>6. \A a \in Subvol : \A x \in job'[a] : x \in job[a] \/ (a = b /\ x = k)
  BY <1>1
<1>7. Placed'
  BY <1>3, <1>4, <1>5, <1>6 DEF Placed
<1>8. \A a \in Subvol : \A x \in job'[a] :
        x.session \in Session => x.session[2] <= client[x.session[1]].seq
  BY <1>1, <1>6, SMT DEF Started
<1>9. \A a \in Subvol, s \in Session : qrset'[a][s] # 0 => s[2] <= client[s[1]].seq
  BY DEF Started
<1> QED
  BY <1>7, <1>8, <1>9 DEF Started

\* The requests of sessions before and after such a step.
LEMMA MovedActive ==
  ASSUME BrickTyped, NEW b \in Subvol, NEW j \in job[b], NEW k,
         Kept(k, j), Moves(b, j, k), j.pc # "reply"
  PROVE  /\ \A a \in Subvol \ {b} : Active(a)' = Active(a)
         /\ \A x \in Active(b)' : (x = k /\ j \in Active(b)) \/ (x # k /\ x \in Active(b) /\ x # j)
         /\ \A a \in Subvol : \A x \in Active(a)' : \E y \in Active(a) : Copies(x, y)
         /\ \A a \in Subvol : \A x1, x2 \in Active(a)' : x1 # x2 =>
              \E y1, y2 \in Active(a) : y1 # y2 /\ Copies(x1, y1) /\ Copies(x2, y2)
<1>1. /\ k \in JobType /\ j \in JobType /\ job'[b] = (job[b] \ {j}) \cup {k}
      /\ \A a \in Subvol \ {b} : job'[a] = job[a]
      /\ Copies(k, j) /\ k.type = j.type /\ k.session = j.session
  BY Moved, SMT DEF Kept, BrickTyped, Copies
<1>2. \A a \in Subvol \ {b} : Active(a)' = Active(a)
  BY <1>1 DEF Active
<1>3. \A x \in Active(b)' : (x = k /\ j \in Active(b)) \/ (x # k /\ x \in Active(b) /\ x # j)
  BY <1>1 DEF Active
<1>4. \A a \in Subvol : \A x \in Active(a)' : \E y \in Active(a) : Copies(x, y)
  BY <1>1, <1>2, <1>3 DEF Copies
<1>5. ASSUME NEW a \in Subvol, NEW x1 \in Active(a)', NEW x2 \in Active(a)', x1 # x2
      PROVE  \E y1, y2 \in Active(a) : y1 # y2 /\ Copies(x1, y1) /\ Copies(x2, y2)
  <2>1. CASE a # b
    BY <1>2, <1>5, <2>1 DEF Copies
  <2>2. CASE a = b /\ x1 = k
    BY <1>1, <1>3, <1>5, <2>2 DEF Copies
  <2>3. CASE a = b /\ x2 = k
    BY <1>1, <1>3, <1>5, <2>3 DEF Copies
  <2>4. CASE a = b /\ x1 # k /\ x2 # k
    BY <1>1, <1>3, <1>5, <2>4 DEF Copies
  <2> QED
    BY <2>1, <2>2, <2>3, <2>4
<1>6. \A a \in Subvol : \A x1, x2 \in Active(a)' : x1 # x2 =>
        \E y1, y2 \in Active(a) : y1 # y2 /\ Copies(x1, y1) /\ Copies(x2, y2)
  BY <1>5
<1> QED
  BY <1>2, <1>3, <1>4, <1>6

\* It hands nothing, and reaches no result that its session did not reach.
LEMMA MovedHanded ==
  ASSUME BrickTyped, Handed, NEW b \in Subvol, NEW j \in job[b], NEW k,
         Kept(k, j), Moves(b, j, k), UNCHANGED <<qres, client, ctl>>,
         j.pc # "reply",
         \A a \in Subvol, s \in Session : \A r \in DOMAIN qres[a] :
           qrset'[a][s] = r => Uses(a, s, r),
         \A r \in DOMAIN qres[b] : k \in Active(b)' /\ k.res = r => Uses(b, k.session, r)
  PROVE  Handed'
<1>1. ASSUME NEW a \in Subvol, NEW s \in Session, NEW r \in DOMAIN qres[a], Uses(a, s, r)'
      PROVE  Uses(a, s, r)
  <2>1. CASE qrset'[a][s] = r
    BY <2>1
  <2>2. CASE \E x \in Active(a)' : x.session = s /\ x.res = r
    <3>1. PICK x \in Active(a)' : x.session = s /\ x.res = r
      BY <2>2
    <3>2. CASE x \in Active(a)
      BY <3>1, <3>2 DEF Uses
    <3>3. CASE a = b /\ x = k
      BY <3>1, <3>3
    <3> QED
      BY <3>1, <3>2, <3>3, MovedActive
  <2> QED
    BY <1>1, <2>1, <2>2 DEF Uses
<1>2. \A c : Asking(c)' = Asking(c) /\ session(c)' = session(c) /\ Bound(c)' = Bound(c)
  BY SameClients
<1>3. \A a \in Subvol : \A x \in Active(a)' : \E y \in Active(a) : Copies(x, y)
  BY MovedActive
<1>4. \A a \in Subvol : \A x1, x2 \in Active(a)' : x1 # x2 =>
        \E y1, y2 \in Active(a) : y1 # y2 /\ Copies(x1, y1) /\ Copies(x2, y2)
  BY MovedActive
<1> QED
  BY <1>1, <1>2, <1>3, <1>4, KeepHanded

\* What a step of ims_ipc makes of a request that goes on.
LEMMA KeptPc ==
  ASSUME NEW j \in JobType, NEW pc \in {"query", "slice", "exec"}, NEW k, k = [j EXCEPT !.pc = pc]
  PROVE  Kept(k, j) /\ k.pc = pc /\ k.res = j.res
BY DEF JobType, Kept

\* What a step of a brick leaves alone besides its requests.
LEMMA MovedTyped ==
  ASSUME BrickTyped, NEW b \in Subvol, NEW j \in job[b], NEW k, Kept(k, j), Moves(b, j, k),
         UNCHANGED <<index, fresh, qrset>>, qres' \in [Subvol -> Seq(ResType)]
  PROVE  BrickTyped'
<1>1. job' \in [Subvol -> SUBSET JobType]
  BY Moved DEF Kept
<1> QED
  BY <1>1 DEF BrickTyped

\* A step of a brick that builds, registers and hands nothing: k is answered, or
\* goes on with what its session has.
LEMMA PlainStep ==
  ASSUME BrickTyped, Placed, Started, Handed, NEW b \in Subvol, NEW j \in job[b], NEW k,
         Kept(k, j), Moves(b, j, k), UNCHANGED <<index, fresh, qrset, qres, client, ctl>>,
         j.pc # "reply",
         \/ k.pc \in {"reply", "exec"} /\ k.res = j.res
         \/ k.pc = "query" /\ k.res = 0 /\ k.type = "query" /\ k.session \in Session
         \/ /\ k.pc = "slice" /\ k.type = "query" /\ k.session \in Session
            /\ k.res = qrset[b][k.session] /\ k.res # 0
  PROVE  BrickTyped' /\ Placed' /\ Started' /\ Handed'
<1>1. BrickTyped'
  BY MovedTyped DEF BrickTyped
<1>2. \A a \in Subvol : Len(qres[a]) \in Nat /\ Len(qres'[a]) \in Nat /\ Len(qres[a]) <= Len(qres'[a])
  BY SMT DEF BrickTyped
<1>3. j.res <= Len(qres[b]) /\ k.res <= Len(qres'[b]) /\ k \in JobType /\ j \in JobType
  <2>1. 0 <= Len(qres[b])
    BY <1>2, SMT
  <2> QED
    BY <1>2, <2>1 DEF Placed, Kept, BrickTyped
<1>4. Placed' /\ Started'
  BY <1>2, <1>3, MovedPlaced
<1>5. \A a \in Subvol, s \in Session : \A r \in DOMAIN qres[a] : qrset'[a][s] = r => Uses(a, s, r)
  BY DEF Uses
<1>6. ASSUME NEW r \in DOMAIN qres[b], k \in Active(b)', k.res = r
      PROVE  Uses(b, k.session, r)
  <2>1. r # 0 /\ DOMAIN qres[b] = 1 .. Len(qres[b])
    BY SMT DEF BrickTyped
  <2>2. k.pc # "reply" /\ k.type = "query" /\ k.session # NoSession
    BY <1>6 DEF Active
  <2>3. CASE k.pc = "exec" /\ k.res = j.res
    <3>1. j \in Active(b) /\ j.session = k.session
      BY <2>2 DEF Active, Kept
    <3> QED
      BY <1>6, <2>3, <3>1 DEF Uses
  <2>4. CASE k.pc = "slice" /\ k.res = qrset[b][k.session]
    BY <1>6, <2>4 DEF Uses
  <2> QED
    BY <1>6, <2>1, <2>2, <2>3, <2>4
<1>7. Handed'
  BY <1>5, <1>6, MovedHanded
<1> QED
  BY <1>1, <1>4, <1>7

\* ims_ipc
LEMMA IpcStep ==
  ASSUME BrickTyped, Placed, Started, Handed, NEW b \in Subvol, NEW j \in job[b],
         ims_ipc(b, j), UNCHANGED <<client, ctl>>
  PROVE  BrickTyped' /\ Placed' /\ Started' /\ Handed'
<1>1. /\ j \in JobType /\ j.pc = "ipc" /\ j.res = 0 /\ ErrorReply \in ReplyType
      /\ UNCHANGED <<index, fresh, qres, qrset>>
  BY ReplyTyped DEF ims_ipc, BrickTyped, Placed, ErrorReply, Reply, ReplyType
<1>2. CASE Answers(b, j, ErrorReply)
  <2>1. PICK k : k = [j EXCEPT !.pc = "reply", !.reply = ErrorReply]
    OBVIOUS
  <2>2. Kept(k, j) /\ k.pc = "reply" /\ k.res = j.res
    BY <1>1, <2>1 DEF JobType, Kept
  <2>3. Moves(b, j, k)
    BY <1>2, <2>1 DEF Answers
  <2> QED
    BY <1>1, <2>2, <2>3, PlainStep
<1>3. CASE j.type = "query" /\ j.session # NoSession
  <2>1. j.session \in Session
    BY <1>1, <1>3 DEF JobType
  <2>2. CASE qrset[b][j.session] = 0
    <3>1. PICK k : k = [j EXCEPT !.pc = "query"]
      OBVIOUS
    <3>2. Kept(k, j) /\ k.pc = "query" /\ k.res = 0 /\ Moves(b, j, k)
      BY <1>1, <1>3, <2>2, <3>1, KeptPc, SMT DEF Goto, ims_ipc
    <3>3. k.type = "query" /\ k.session \in Session
      BY <1>3, <2>1, <3>2 DEF Kept
    <3> QED
      BY <1>1, <3>2, <3>3, PlainStep
  <2>3. CASE qrset[b][j.session] # 0
    <3>1. PICK r, k : r = qrset[b][j.session] /\ k = [j EXCEPT !.pc = "slice", !.res = r]
      OBVIOUS
    <3>2. r \in Nat
      BY <2>1, <3>1 DEF BrickTyped
    <3>3. Kept(k, j) /\ k.pc = "slice" /\ k.res = r
      BY <1>1, <3>1, <3>2 DEF JobType, Kept
    <3>4. Moves(b, j, k)
      BY <1>3, <2>3, <3>1 DEF ims_ipc
    <3>5. k.type = "query" /\ k.session \in Session /\ k.session = j.session
      BY <1>3, <2>1, <3>3 DEF Kept
    <3> QED
      BY <1>1, <2>3, <3>1, <3>3, <3>4, <3>5, PlainStep
  <2> QED
    BY <2>2, <2>3
<1>4. CASE j.type = "exec" /\ Goto(b, j, "exec")
  <2>1. PICK k : k = [j EXCEPT !.pc = "exec"]
    OBVIOUS
  <2>2. Kept(k, j) /\ k.pc = "exec" /\ k.res = j.res /\ Moves(b, j, k)
    BY <1>1, <1>4, <2>1, KeptPc DEF Goto
  <2> QED
    BY <1>1, <2>2, PlainStep
<1> QED
  BY <1>2, <1>3, <1>4 DEF ims_ipc

\* ims_ipc_active_exec
LEMMA ExecStep ==
  ASSUME BrickTyped, Placed, Started, Handed, NEW b \in Subvol, NEW j \in job[b],
         ims_ipc_active_exec(b, j), UNCHANGED <<client, ctl>>
  PROVE  BrickTyped' /\ Placed' /\ Started' /\ Handed'
<1>1. PICK reply \in ReplyType : Answers(b, j, reply)
  <2>1. index[b] \in Seq(Row)
    BY DEF BrickTyped
  <2>2. Reply(0, FALSE, index[b], 0) \in ReplyType /\ ErrorReply \in ReplyType
    BY <2>1, ReplyTyped
  <2> QED
    BY <2>2 DEF ims_ipc_active_exec
<1>2. j \in JobType /\ j.pc = "exec" /\ UNCHANGED <<index, fresh, qres, qrset>>
  BY DEF ims_ipc_active_exec, BrickTyped
<1>3. PICK k : k = [j EXCEPT !.pc = "reply", !.reply = reply]
  OBVIOUS
<1>4. Kept(k, j) /\ k.pc = "reply" /\ k.res = j.res
  BY <1>2, <1>3 DEF JobType, Kept
<1>5. Moves(b, j, k)
  BY <1>1, <1>3 DEF Answers
<1> QED
  BY <1>2, <1>4, <1>5, PlainStep

\* ims_xdb_register_result: the session reaches what its request has built.
LEMMA RegisterStep ==
  ASSUME BrickTyped, Placed, Started, Handed, NEW b \in Subvol, NEW j \in job[b],
         ims_xdb_register_result(b, j), UNCHANGED <<client, ctl>>
  PROVE  BrickTyped' /\ Placed' /\ Started' /\ Handed'
<1>1. PICK k : k = [j EXCEPT !.pc = "slice"]
  OBVIOUS
<1>2. /\ j.pc = "register" /\ Moves(b, j, k) /\ UNCHANGED <<index, fresh, qres>>
      /\ qrset' = [qrset EXCEPT ![b][j.session] = j.res]
  BY <1>1 DEF ims_xdb_register_result, Goto
<1>3. j \in JobType /\ j.type = "query" /\ j.session \in Session /\ j.res \in 1 .. Len(qres[b])
  BY <1>2 DEF Placed, BrickTyped
<1>4. Kept(k, j) /\ k.pc = "slice" /\ k.res = j.res /\ k.type = "query" /\ k.session = j.session
  BY <1>1, <1>3, KeptPc, SMT DEF Kept
<1>5. qrset' \in [Subvol -> [Session -> Nat]] /\ j.res \in Nat
  BY <1>2, <1>3 DEF BrickTyped, JobType
<1>6. \A a \in Subvol, s \in Session :
        qrset'[a][s] = IF a = b /\ s = j.session THEN j.res ELSE qrset[a][s]
  BY <1>2, <1>3 DEF BrickTyped
<1>7. BrickTyped'
  BY <1>2, <1>4, <1>5, Moved DEF BrickTyped, Kept
<1>8. Placed' /\ Started'
  <2>1. \A a \in Subvol : Len(qres[a]) \in Nat /\ Len(qres'[a]) \in Nat /\ Len(qres[a]) <= Len(qres'[a])
    BY <1>2, SMT DEF BrickTyped
  <2>2. \A a \in Subvol, s \in Session :
          qrset'[a][s] = qrset[a][s] \/ (a = b /\ s = j.session /\ qrset'[a][s] \in 1 .. Len(qres'[a]))
    BY <1>2, <1>3, <1>6, SMT
  <2>3. k.res # 0 /\ k.res <= Len(qres'[b])
    BY <1>2, <1>3, <1>4, <2>1, SMT
  <2> QED
    BY <1>2, <1>3, <1>4, <2>1, <2>2, <2>3, MovedPlaced
<1>9. j \in Active(b)
  BY <1>2, <1>3, SessionAssumption DEF Active
<1>10. Handed'
  <2>1. \A a \in Subvol, s \in Session : \A r \in DOMAIN qres[a] : qrset'[a][s] = r => Uses(a, s, r)
    BY <1>6, <1>9, SMT DEF Uses
  <2>2. \A r \in DOMAIN qres[b] : k \in Active(b)' /\ k.res = r => Uses(b, k.session, r)
    BY <1>4, <1>9 DEF Uses
  <2> QED
    BY <1>2, <1>4, <2>1, <2>2, MovedHanded
<1> QED
  BY <1>7, <1>8, <1>10

\* ims_xdb_direct_query: a result that nobody else can reach.
LEMMA QueryStep ==
  ASSUME BrickTyped, Placed, Started, Handed, NEW b \in Subvol, NEW j \in job[b],
         ims_xdb_direct_query(b, j), UNCHANGED <<client, ctl>>
  PROVE  BrickTyped' /\ Placed' /\ Started' /\ Handed'
<1>1. /\ j.pc = "query" /\ j.res = 0 /\ UNCHANGED <<index, fresh, qrset>>
      /\ j \in JobType /\ j.type = "query" /\ j.session \in Session
  BY DEF ims_xdb_direct_query, Placed, BrickTyped
<1>2. CASE Answers(b, j, ErrorReply) /\ UNCHANGED qres
  <2>1. PICK k : k = [j EXCEPT !.pc = "reply", !.reply = ErrorReply]
    OBVIOUS
  <2>2. ErrorReply \in ReplyType
    BY SMT DEF ErrorReply, Reply, ReplyType
  <2>3. Kept(k, j) /\ k.pc = "reply" /\ k.res = j.res
    BY <1>1, <2>1, <2>2 DEF JobType, Kept
  <2>4. Moves(b, j, k)
    BY <1>2, <2>1 DEF Answers
  <2> QED
    BY <1>1, <1>2, <2>3, <2>4, PlainStep
<1>3. CASE /\ qres' = [qres EXCEPT
                ![b] = Append(@, [rows |-> index[b], handed |-> {}, again |-> {}])]
           /\ Moves(b, j, [j EXCEPT !.pc = "register", !.res = Len(qres[b]) + 1])
  <2>1. PICK new : new = [rows |-> index[b], handed |-> {}, again |-> {}]
    OBVIOUS
  <2>2. PICK r0 : r0 = Len(qres[b]) + 1
    OBVIOUS
  <2>3. PICK k : k = [j EXCEPT !.pc = "register", !.res = r0]
    OBVIOUS
  <2>4. /\ qres' = [qres EXCEPT ![b] = Append(qres[b], new)]
        /\ Moves(b, j, k)
    BY <1>3, <2>1, <2>2, <2>3
  <2>5. qres[b] \in Seq(ResType) /\ index[b] \in Seq(Row) /\ qres \in [Subvol -> Seq(ResType)]
    BY DEF BrickTyped
  <2>6. new \in ResType /\ new.handed = {} /\ new.again = {}
    BY <2>1, <2>5 DEF ResType
  <2>7. /\ Len(qres[b]) \in Nat /\ r0 \in Nat /\ r0 # 0
        /\ Append(qres[b], new) \in Seq(ResType)
        /\ Len(Append(qres[b], new)) = r0 /\ Append(qres[b], new)[r0] = new
        /\ \A r \in 1 .. Len(qres[b]) : Append(qres[b], new)[r] = qres[b][r]
    BY <2>2, <2>5, <2>6, SMT
  <2>8. /\ qres'[b] = Append(qres[b], new) /\ \A a \in Subvol \ {b} : qres'[a] = qres[a]
        /\ qres' \in [Subvol -> Seq(ResType)]
    BY <2>4, <2>5, <2>7
  <2>9. Kept(k, j) /\ k.pc = "register" /\ k.res = r0 /\ k.type = "query" /\ k.session = j.session
    BY <1>1, <2>3, <2>7 DEF JobType, Kept
  <2>10. BrickTyped'
    BY <1>1, <2>4, <2>8, <2>9, MovedTyped
  <2>11. Placed' /\ Started'
    <3>1. \A a \in Subvol : Len(qres[a]) \in Nat /\ Len(qres'[a]) \in Nat /\ Len(qres[a]) <= Len(qres'[a])
      <4>1. Len(qres[b]) <= Len(qres'[b]) /\ Len(qres'[b]) \in Nat
        BY <2>2, <2>7, <2>8, SMT
      <4>2. \A a \in Subvol : Len(qres[a]) \in Nat
        BY <2>5, SMT
      <4> QED
        BY <2>8, <4>1, <4>2, SMT
    <3>2. k.res # 0 /\ k.res <= Len(qres'[b])
      BY <2>7, <2>8, <2>9, SMT
    <3> QED
      BY <1>1, <2>4, <2>9, <3>1, <3>2, MovedPlaced
  <2>12. ASSUME NEW a \in Subvol, NEW s \in Session, NEW r \in DOMAIN qres'[a], Uses(a, s, r)'
         PROVE  \/ r \in DOMAIN qres[a] /\ qres'[a][r] = qres[a][r] /\ Uses(a, s, r)
                \/ a = b /\ r = r0 /\ s = j.session
    <3>1. DOMAIN qres[a] = 1 .. Len(qres[a]) /\ DOMAIN qres'[a] = 1 .. Len(qres'[a]) /\ Len(qres[a]) \in Nat
      BY <2>5, <2>8, SMT
    <3>2. CASE qrset'[a][s] = r
      <4>1. r \in DOMAIN qres[a]
        BY <1>1, <3>1, <3>2, SMT DEF Placed, BrickTyped
      <4> QED
        BY <1>1, <2>7, <2>8, <3>1, <3>2, <4>1, SMT DEF Uses
    <3>3. ASSUME NEW x \in Active(a)', x.session = s, x.res = r
          PROVE  \/ r \in DOMAIN qres[a] /\ qres'[a][r] = qres[a][r] /\ Uses(a, s, r)
                 \/ a = b /\ r = r0 /\ s = j.session
      <4>1. CASE x \in Active(a)
        <5>1. x \in JobType /\ x.res <= Len(qres[a]) /\ x.res \in Nat
          BY <4>1, SMT DEF Active, Placed, BrickTyped, JobType
        <5>2. r \in DOMAIN qres[a]
          BY <3>1, <3>3, <5>1, SMT
        <5> QED
          BY <2>7, <2>8, <3>1, <3>3, <4>1, <5>2, SMT DEF Uses
      <4>2. CASE a = b /\ x = k
        BY <2>9, <3>3, <4>2
      <4>3. (a = b /\ x = k) \/ x \in Active(a)
        <5>1. CASE a = b
          BY <1>1, <2>4, <2>9, <5>1, MovedActive
        <5>2. CASE a # b
          BY <1>1, <2>4, <2>9, <5>2, MovedActive
        <5> QED
          BY <5>1, <5>2
      <4> QED
        BY <4>1, <4>2, <4>3
    <3> QED
      BY <2>12, <3>2, <3>3 DEF Uses
  <2>13. ASSUME NEW a \in Subvol, NEW r \in DOMAIN qres'[a]
         PROVE  \/ /\ r \in DOMAIN qres[a] /\ qres'[a][r] = qres[a][r]
                   /\ \A s \in Session : Uses(a, s, r)' => Uses(a, s, r)
                \/ /\ qres'[a][r].handed = {} /\ qres'[a][r].again = {}
                   /\ \A s, t \in Session : Uses(a, s, r)' /\ Uses(a, t, r)' => s = t
    <3>1. DOMAIN qres[a] = 1 .. Len(qres[a]) /\ DOMAIN qres'[a] = 1 .. Len(qres'[a]) /\ Len(qres[a]) \in Nat
      BY <2>5, <2>8, SMT
    <3>2. CASE a = b /\ r = r0
      <4>1. r \notin DOMAIN qres[a] /\ qres'[a][r] = new
        BY <2>2, <2>7, <2>8, <3>1, <3>2, SMT
      <4> QED
        BY <2>6, <2>12, <4>1
    <3>3. CASE ~ (a = b /\ r = r0)
      <4>1. r \in DOMAIN qres[a] /\ qres'[a][r] = qres[a][r]
        BY <2>2, <2>7, <2>8, <3>1, <3>3, SMT
      <4> QED
        BY <2>12, <3>3, <4>1
    <3> QED
      BY <3>2, <3>3
  <2>14. Handed'
    <3>1. \A a \in Subvol : \A x \in Active(a)' : \E y \in Active(a) : Copies(x, y)
      BY <1>1, <2>4, <2>9, MovedActive
    <3>2. \A a \in Subvol : \A x1, x2 \in Active(a)' : x1 # x2 =>
            \E y1, y2 \in Active(a) : y1 # y2 /\ Copies(x1, y1) /\ Copies(x2, y2)
      BY <1>1, <2>4, <2>9, MovedActive
    <3>3. \A c : Asking(c)' = Asking(c) /\ session(c)' = session(c) /\ Bound(c)' = Bound(c)
      BY SameClients
    <3> QED
      BY <2>13, <3>1, <3>2, <3>3, KeepHanded
  <2> QED
    BY <2>10, <2>11, <2>14
<1> QED
  BY <1>2, <1>3 DEF ims_xdb_direct_query

\* The positions that a request takes are an interval of the rows.
LEMMA SliceSpan ==
  ASSUME NEW rows \in Seq(Row), NEW offset \in Nat, NEW count \in Nat
  PROVE  \E hi \in Nat : /\ hi = IF offset + count <= Len(rows) THEN offset + count ELSE Len(rows)
                         /\ Positions(Len(rows), offset, count) = offset + 1 .. hi
<1>1. Len(rows) \in Nat
  BY SMT
<1>2. PICK hi \in Nat : hi = IF offset + count <= Len(rows) THEN offset + count ELSE Len(rows)
  BY <1>1, SMT
<1>3. Positions(Len(rows), offset, count) = offset + 1 .. hi
  BY <1>1, <1>2, SMT DEF Positions
<1> QED
  BY <1>2, <1>3

\* Requests and sessions that are gone.
LEMMA FewerJobs ==
  ASSUME BrickTyped, Placed, Started, Handed, UNCHANGED <<qres, client, ctl>>,
         \A b \in Subvol : job'[b] \subseteq job[b],
         \A b \in Subvol, s \in Session : qrset'[b][s] \in {qrset[b][s], 0}
  PROVE  Placed' /\ Started' /\ Handed'
<1>1. \A b \in Subvol : \A x \in Active(b)' : x \in Active(b)
  BY DEF Active
<1>2. \A b \in Subvol : Len(qres[b]) \in Nat /\ DOMAIN qres[b] = 1 .. Len(qres[b])
  BY SMT DEF BrickTyped
<1>3. Placed'
  BY <1>2, SMT DEF Placed
<1>4. Started'
  BY DEF Started
<1>5. \A b \in Subvol, s \in Session : \A r \in DOMAIN qres[b] : Uses(b, s, r)' => Uses(b, s, r)
  BY <1>1, <1>2, SMT DEF Uses
<1>6. \A c : Asking(c)' = Asking(c) /\ session(c)' = session(c) /\ Bound(c)' = Bound(c)
  BY SameClients
<1>7. \A b \in Subvol : \A x \in Active(b)' : \E y \in Active(b) : Copies(x, y)
  BY <1>1 DEF Copies
<1>8. \A b \in Subvol : \A x1, x2 \in Active(b)' : x1 # x2 =>
        \E y1, y2 \in Active(b) : y1 # y2 /\ Copies(x1, y1) /\ Copies(x2, y2)
  BY <1>1 DEF Copies
<1>9. Handed'
  BY <1>5, <1>6, <1>7, <1>8, KeepHanded
<1> QED
  BY <1>3, <1>4, <1>9

\* Restart: a brick without its requests and sessions.
LEMMA RestartStep ==
  ASSUME BrickTyped, Placed, Started, Handed, NEW b \in Subvol, Restart(b), UNCHANGED <<client, ctl>>
  PROVE  BrickTyped' /\ Placed' /\ Started' /\ Handed'
<1>1. /\ qrset' = [qrset EXCEPT ![b] = [s \in Session |-> 0]] /\ job' = [job EXCEPT ![b] = {}]
      /\ UNCHANGED <<index, fresh, qres>>
  BY DEF Restart
<1>2. BrickTyped'
  <2>1. job' \in [Subvol -> SUBSET JobType]
    BY <1>1 DEF BrickTyped
  <2>2. qrset' \in [Subvol -> [Session -> Nat]]
    BY <1>1 DEF BrickTyped
  <2> QED
    BY <1>1, <2>1, <2>2 DEF BrickTyped
<1>3. \A a \in Subvol : job'[a] \subseteq job[a]
  BY <1>1 DEF BrickTyped
<1>4. \A a \in Subvol, s \in Session : qrset'[a][s] \in {qrset[a][s], 0}
  BY <1>1 DEF BrickTyped
<1> QED
  BY <1>1, <1>2, <1>3, <1>4, FewerJobs

\* Deliver: the request has been answered.
LEMMA DeliverStep ==
  ASSUME BrickTyped, Placed, Started, Handed, NEW b \in Subvol, NEW j \in job[b],
         job' = [job EXCEPT ![b] = @ \ {j}], UNCHANGED <<index, fresh, qres, qrset, client, ctl>>
  PROVE  BrickTyped' /\ Placed' /\ Started' /\ Handed'
<1>1. BrickTyped'
  BY DEF BrickTyped
<1>2. \A a \in Subvol : job'[a] \subseteq job[a]
  BY DEF BrickTyped
<1>3. \A a \in Subvol, s \in Session : qrset'[a][s] \in {qrset[a][s], 0}
  OBVIOUS
<1> QED
  BY <1>1, <1>2, <1>3, FewerJobs

\* Insert and Remove: what the next query finds.
LEMMA ChangeStep ==
  ASSUME BrickTyped, Placed, Started, Handed, NEW b \in Subvol, Insert(b) \/ Remove(b),
         UNCHANGED <<client, ctl>>
  PROVE  BrickTyped' /\ Placed' /\ Started' /\ Handed'
<1>1. UNCHANGED <<qres, qrset, job>> /\ fresh' = [fresh EXCEPT ![b] = @ + 1]
  BY DEF Insert, Remove
<1>2. index' \in [Subvol -> Seq(Row)]
  <2>1. index[b] \in Seq(Row) /\ <<b, fresh[b]>> \in Row /\ index \in [Subvol -> Seq(Row)]
    BY DEF BrickTyped, Row
  <2>2. CASE Insert(b)
    <3>1. Append(index[b], <<b, fresh[b]>>) \in Seq(Row)
      BY <2>1, SMT
    <3> QED
      BY <2>1, <2>2, <3>1 DEF Insert
  <2>3. CASE Remove(b)
    <3>1. index[b] # << >> /\ Tail(index[b]) \in Seq(Row)
      BY <2>1, <2>3, SMT DEF Remove
    <3> QED
      BY <2>1, <2>3, <3>1 DEF Remove
  <2> QED
    BY <2>2, <2>3
<1>3. fresh' \in [Subvol -> Nat]
  BY <1>1, SMT DEF BrickTyped
<1>4. BrickTyped'
  BY <1>1, <1>2, <1>3 DEF BrickTyped
<1>5. \A a \in Subvol : job'[a] \subseteq job[a]
  BY <1>1
<1>6. \A a \in Subvol, s \in Session : qrset'[a][s] \in {qrset[a][s], 0}
  BY <1>1
<1> QED
  BY <1>1, <1>4, <1>5, <1>6, FewerJobs

\* Orphan: requests whose client does not wait any more.
LEMMA OrphanStep ==
  ASSUME BrickTyped, Placed, Started, Handed, NEW b \in Subvol, NEW f \in Frame, Orphan(b, f),
         UNCHANGED <<index, fresh, qres, qrset, client, ctl>>
  PROVE  BrickTyped' /\ Placed' /\ Started' /\ Handed'
<1>1. PICK new : new = {[j EXCEPT !.live = j.live /\ j.frame # f] : j \in job[b]}
  OBVIOUS
<1>2. job' = [job EXCEPT ![b] = new]
  BY <1>1 DEF Orphan
<1>3. ASSUME NEW k \in new
      PROVE  \E j \in job[b] : /\ k \in JobType /\ Copies(k, j) /\ k.type = j.type /\ k.pc = j.pc
                               /\ k.res = j.res /\ k = [j EXCEPT !.live = @ /\ j.frame # f]
  <2>1. PICK j \in job[b] : k = [j EXCEPT !.live = @ /\ j.frame # f]
    BY <1>1
  <2>2. j \in JobType
    BY DEF BrickTyped
  <2>3. k = [j EXCEPT !.live = (j.live /\ j.frame # f)]
    BY <2>1, <2>2 DEF JobType
  <2>4. (j.live /\ j.frame # f) \in BOOLEAN
    BY Zenon
  <2>5. k \in JobType /\ Copies(k, j) /\ k.type = j.type /\ k.pc = j.pc /\ k.res = j.res
    BY <2>2, <2>3, <2>4 DEF JobType, Copies
  <2> QED
    BY <2>1, <2>5
<1>4. job'[b] = new /\ \A a \in Subvol \ {b} : job'[a] = job[a]
  BY <1>2 DEF BrickTyped
<1>5. new \in SUBSET JobType
  BY <1>3
<1>6. BrickTyped'
  BY <1>2, <1>5 DEF BrickTyped
<1>7. Placed' /\ Started'
  <2>1. \A k \in new : \E j \in job[b] :
          k.session = j.session /\ k.type = j.type /\ k.pc = j.pc /\ k.res = j.res
    BY <1>3 DEF Copies
  <2>2. \A k \in new : /\ k.pc \in {"query", "register", "slice"} => k.type = "query" /\ k.session \in Session
                       /\ k.pc \in {"register", "slice"} => k.res \in 1 .. Len(qres[b])
                       /\ k.pc \in {"ipc", "query"} => k.res = 0
                       /\ k.res <= Len(qres[b])
    BY <2>1 DEF Placed
  <2>3. \A k \in new : k.session \in Session => k.session[2] <= client[k.session[1]].seq
    BY <2>1 DEF Started
  <2>4. Placed'
    BY <1>4, <2>2 DEF Placed
  <2> QED
    BY <1>4, <2>3, <2>4 DEF Started
<1>8. \A a \in Subvol \ {b} : Active(a)' = Active(a)
  BY <1>4 DEF Active
<1>9. \A k \in Active(b)' : \E j \in Active(b) :
         Copies(k, j) /\ k.res = j.res /\ k = [j EXCEPT !.live = @ /\ j.frame # f]
  BY <1>3, <1>4, SMT DEF Active, Copies
<1>10. \A a \in Subvol : \A x \in Active(a)' : \E y \in Active(a) : Copies(x, y)
  BY <1>8, <1>9, SMT DEF Copies
<1>11. ASSUME NEW a \in Subvol, NEW x1 \in Active(a)', NEW x2 \in Active(a)', x1 # x2
       PROVE  \E y1, y2 \in Active(a) : y1 # y2 /\ Copies(x1, y1) /\ Copies(x2, y2)
  <2>1. CASE a = b
    <3>1. PICK y1 \in Active(b) : Copies(x1, y1) /\ x1 = [y1 EXCEPT !.live = @ /\ y1.frame # f]
      BY <1>9, <2>1
    <3>2. PICK y2 \in Active(b) : Copies(x2, y2) /\ x2 = [y2 EXCEPT !.live = @ /\ y2.frame # f]
      BY <1>9, <2>1
    <3>3. y1 # y2
      BY <1>11, <3>1, <3>2
    <3> QED
      BY <2>1, <3>1, <3>2, <3>3
  <2>2. CASE a # b
    BY <1>8, <1>11, <2>2 DEF Copies
  <2> QED
    BY <2>1, <2>2
<1>12. \A a \in Subvol, s \in Session : \A r \in DOMAIN qres[a] : Uses(a, s, r)' => Uses(a, s, r)
  <2>1. \A s, r : Uses(b, s, r)' => Uses(b, s, r)
    BY <1>9, SMT DEF Uses, Copies
  <2>2. \A a \in Subvol \ {b} : \A s, r : Uses(a, s, r)' => Uses(a, s, r)
    BY <1>8 DEF Uses
  <2> QED
    BY <2>1, <2>2
<1>13. \A c : Asking(c)' = Asking(c) /\ session(c)' = session(c) /\ Bound(c)' = Bound(c)
  BY SameClients
<1>14. Handed'
  BY <1>10, <1>11, <1>12, <1>13, KeepHanded
<1> QED
  BY <1>6, <1>7, <1>14

\* A step of a client that winds no request of a session.
LEMMA ClientHanded ==
  ASSUME BrickTyped, ClientTyped, ClientTyped', Started, Handed, UNCHANGED <<qres, qrset>>,
         \A b \in Subvol : Active(b)' = Active(b),
         \A c \in Frame : Asking(c)' =>
           \/ Asking(c) /\ session(c)' = session(c) /\ Bound(c)' = Bound(c)
           \/ client[c].seq < client'[c].seq
  PROVE  Handed'
<1>1. \A b \in Subvol : \A s, r : Uses(b, s, r)' = Uses(b, s, r)
  BY DEF Uses
<1>2. ASSUME NEW c \in Frame, Asking(c)', client[c].seq < client'[c].seq, NEW b \in Subvol
      PROVE  /\ \A j \in Active(b) : j.session # session(c)'
             /\ \A r \in DOMAIN qres[b] : ~ Uses(b, session(c)', r)
  <2>1. PICK s : s = session(c)'
    OBVIOUS
  <2>2. client[c].seq \in Nat /\ client'[c].seq \in 1 .. MaxQuery
    BY <1>2, SessionAssumption, SMT DEF ClientTyped, ClientType, Asking
  <2>3. s \in Session /\ s[1] = c /\ s[2] = client'[c].seq
    BY <2>1, <2>2, SessionAssumption DEF session
  <2>4. ~ (s[2] <= client[s[1]].seq)
    BY <1>2, <2>2, <2>3, SMT
  <2>5. \A j \in Active(b) : j.session # s
    BY <2>3, <2>4 DEF Active, Started
  <2>6. qrset[b][s] = 0
    BY <2>3, <2>4 DEF Started
  <2>7. DOMAIN qres[b] = 1 .. Len(qres[b])
    BY SMT DEF BrickTyped
  <2> QED
    BY <2>1, <2>5, <2>6, <2>7, SMT DEF Uses
<1>3. \A b \in Subvol : \A x1, x2 \in Active(b)' : x1 # x2 =>
        \E y1, y2 \in Active(b) : y1 # y2 /\ Copies(x1, y1) /\ Copies(x2, y2)
  BY DEF Copies
<1>4. \A b \in Subvol : \A x \in Active(b)' : \E y \in Active(b) : Copies(x, y)
  BY DEF Copies
<1>5. \A b \in Subvol : \A r \in DOMAIN qres'[b] :
         /\ r \in DOMAIN qres[b] /\ qres'[b][r] = qres[b][r]
         /\ \A s \in Session : Uses(b, s, r)' => Uses(b, s, r)
  BY <1>1
<1>6. \A c \in Frame : Asking(c)' =>
        \/ Asking(c) /\ session(c)' = session(c) /\ Bound(c)' = Bound(c)
        \/ \A b \in Subvol : /\ \A j \in Active(b) : j.session # session(c)'
                             /\ \A r \in DOMAIN qres[b] : ~ Uses(b, session(c)', r)
  BY <1>2
<1> QED
  BY <1>3, <1>4, <1>5, <1>6, KeepHanded

\* The sequence numbers of the clients grow.
LEMMA LaterStarted ==
  ASSUME Started, BrickTyped, ClientTyped, ClientTyped', UNCHANGED <<job, qrset>>,
         \A c \in Frame : client[c].seq <= client'[c].seq
  PROVE  Started'
<1>1. \A s \in Session : s[1] \in Frame /\ s[2] \in Nat
  BY SessionAssumption, SMT
<1>2. \A c \in Frame : client[c].seq \in Nat /\ client'[c].seq \in Nat
  BY SessionAssumption, SMT DEF ClientTyped, ClientType
<1>3. \A s \in Session : s[2] <= client[s[1]].seq => s[2] <= client'[s[1]].seq
  BY <1>1, <1>2, SMT
<1> QED
  BY <1>3 DEF Started

\* A new request.
LEMMA JobIs ==
  ASSUME NEW f \in Frame, NEW type \in {"query", "exec"}, NEW s \in Session \cup {NoSession},
         NEW offset \in Nat, NEW count \in Nat, NEW new, new = Job(f, type, s, offset, count)
  PROVE  /\ new \in JobType /\ new.type = type /\ new.session = s /\ new.offset = offset
         /\ new.count = count /\ new.pc = "ipc" /\ new.res = 0
<1>1. ErrorReply \in ReplyType
  BY SMT DEF ErrorReply, Reply, ReplyType
<1> QED
  BY <1>1 DEF Job, JobType

\* It is wound to the bricks of the mask.
LEMMA WindsPlaced ==
  ASSUME BrickTyped, Placed, Started, ClientTyped, ClientTyped', NEW c, NEW cmask \in SUBSET Subvol,
         NEW new \in JobType, new.pc = "ipc", new.res = 0, Winds(c, cmask, new),
         \A f \in Frame : client[f].seq <= client'[f].seq,
         new.session \in Session => new.session[2] <= client'[new.session[1]].seq
  PROVE  /\ BrickTyped' /\ Placed' /\ Started'
         /\ \A b \in Subvol : job'[b] = IF b \in cmask THEN job[b] \cup {new} ELSE job[b]
<1>1. /\ UNCHANGED <<index, fresh, qres, qrset>>
      /\ job' = [b \in Subvol |-> IF b \in cmask THEN job[b] \cup {new} ELSE job[b]]
  BY DEF Winds
<1>2. \A b \in Subvol : job'[b] = IF b \in cmask THEN job[b] \cup {new} ELSE job[b]
  BY <1>1
<1>3. job' \in [Subvol -> SUBSET JobType]
  BY <1>1 DEF BrickTyped
<1>4. BrickTyped'
  BY <1>1, <1>3 DEF BrickTyped
<1>5. \A b \in Subvol : \A x \in job'[b] : x \in job[b] \/ x = new
  BY <1>2
<1>6. \A b \in Subvol : Len(qres[b]) \in Nat
  BY SMT DEF BrickTyped
<1>7. Placed'
  BY <1>1, <1>5, <1>6, SMT DEF Placed
<1>8. Started'
  <2>1. \A s \in Session : s[1] \in Frame /\ s[2] \in Nat
    BY SessionAssumption, SMT
  <2>2. \A f \in Frame : client[f].seq \in Nat /\ client'[f].seq \in Nat
    BY SessionAssumption, SMT DEF ClientTyped, ClientType
  <2>3. \A s \in Session : s[2] <= client[s[1]].seq => s[2] <= client'[s[1]].seq
    BY <2>1, <2>2, SMT
  <2> QED
    BY <1>1, <1>5, <2>3 DEF Started
<1> QED
  BY <1>2, <1>4, <1>7, <1>8

\* The part of the invariant about calls, after a step without any.
LEMMA SameCalls ==
  ASSUME DhtTyped, Counted, UNCHANGED dhtVars, ClientTyped, ClientTyped',
         \A c \in Frame : client[c].seq <= client'[c].seq
  PROVE  DhtTyped' /\ Counted'
<1>1. \A f \in Frame : Open(f)' = Open(f) /\ CountOk(f)' = CountOk(f)
  BY DEF Open, CountOk, dhtVars
<1>2. \A c \in Frame : client[c].seq \in Nat /\ client'[c].seq \in Nat
  BY SessionAssumption, SMT DEF ClientTyped, ClientType
<1>3. Counted'
  BY <1>1, <1>2, SMT DEF Counted
<1> QED
  BY <1>3 DEF DhtTyped, dhtVars

\* Commands: the client asks for nothing.
LEMMA CommandStep ==
  ASSUME Inv, NEW c \in Frame, UNCHANGED <<dhtVars, brickVars>>, Goes(c, "idle"),
         \/ \E m \in SUBSET Subvol : ctl' = [ctl EXCEPT ![c].cli_mask = m]
         \/ \E n \in Slices : ctl' = [ctl EXCEPT ![c].slice_count = n]
  PROVE  Inv'
<1>1. client' = [client EXCEPT ![c].pc = "idle"]
  BY DEF Goes
<1>2. /\ client'[c].pc = "idle" /\ client'[c].seq = client[c].seq
      /\ \A d \in Frame \ {c} : client'[d] = client[d] /\ ctl'[d] = ctl[d]
  BY <1>1 DEF Inv, ClientTyped, ClientType
<1>3. ctl \in [Frame -> CtlType] /\ client \in [Frame -> ClientType]
  BY DEF Inv, ClientTyped
<1>4. ClientTyped'
  <2>1. ASSUME NEW m \in SUBSET Subvol, ctl' = [ctl EXCEPT ![c].cli_mask = m]
        PROVE  ctl' \in [Frame -> CtlType]
    BY <1>3, <2>1, SMT DEF CtlType
  <2>2. ASSUME NEW n \in Slices, ctl' = [ctl EXCEPT ![c].slice_count = n]
        PROVE  ctl' \in [Frame -> CtlType]
    BY <1>3, <2>2, SMT DEF CtlType
  <2>3. client' \in [Frame -> ClientType]
    BY <1>1, <1>3 DEF ClientType, ClientPc
  <2>4. ctl' \in [Frame -> CtlType]
    BY <2>1, <2>2
  <2> QED
    BY <1>2, <2>3, <2>4 DEF Inv, ClientTyped
<1>5. \A d \in Frame : client[d].seq <= client'[d].seq
  <2>1. \A d \in Frame : client[d].seq \in Nat
    BY SessionAssumption, SMT DEF Inv, ClientTyped, ClientType
  <2> QED
    BY <1>2, <2>1, SMT
<1>6. DhtTyped' /\ Counted'
  BY <1>4, <1>5, SameCalls DEF Inv
<1>7. BrickTyped' /\ Placed'
  BY DEF Inv, BrickTyped, Placed, brickVars
<1>8. Started'
  BY <1>4, <1>5, LaterStarted DEF Inv, brickVars
<1>9. \A d \in Frame : Asking(d)' => Asking(d) /\ session(d)' = session(d) /\ Bound(d)' = Bound(d)
  BY <1>2 DEF Asking, session, Bound, At
<1>10. \A b \in Subvol : Active(b)' = Active(b)
  BY DEF Active, brickVars
<1>11. Handed'
  BY <1>4, <1>9, <1>10, ClientHanded DEF Inv, brickVars
<1> QED
  BY <1>4, <1>6, <1>7, <1>8, <1>11 DEF Inv

\* set_clients
LEMMA ClientsStep ==
  ASSUME Inv, NEW c \in Frame, NEW cli \in Subvol \cup {"all", "none"}, set_clients(c, cli)
  PROVE  Inv'
<1>1. PICK mask : mask = ctl[c].cli_mask
  OBVIOUS
<1>2. PICK m : m = CASE cli = "all"  -> Subvol
                     [] cli = "none" -> {}
                     [] OTHER -> IF cli \in mask THEN mask \ {cli} ELSE mask \cup {cli}
  OBVIOUS
<1>3. mask \in SUBSET Subvol
  BY <1>1 DEF Inv, ClientTyped, CtlType
<1>4. m \in SUBSET Subvol
  <2>1. CASE cli = "all"
    BY <1>2, <2>1
  <2>2. CASE cli = "none"
    BY <1>2, <2>2
  <2>3. CASE cli # "all" /\ cli # "none"
    BY <1>2, <1>3, <2>3
  <2> QED
    BY <2>1, <2>2, <2>3
<1>5. ctl' = [ctl EXCEPT ![c].cli_mask = m]
  BY <1>1, <1>2 DEF set_clients, Inv, ClientTyped, CtlType
<1>6. Goes(c, "idle") /\ UNCHANGED <<dhtVars, brickVars>>
  BY DEF set_clients
<1> QED
  BY <1>4, <1>5, <1>6, CommandStep

\* Starts: the next request of a client.
LEMMA StartsTyped ==
  ASSUME Inv, NEW c \in Frame, NEW pc \in ClientPc, Starts(c, pc), UNCHANGED ctl
  PROVE  /\ ClientTyped' /\ \A d \in Frame : client[d].seq <= client'[d].seq
         /\ client'[c].seq = client[c].seq + 1 /\ client'[c].pc = pc /\ client'[c].offset = 0
         /\ \A d \in Frame \ {c} : client'[d] = client[d]
<1>1. client[c].seq \in 0 .. MaxQuery /\ client[c].seq < MaxQuery /\ MaxQuery \in Nat
  BY SessionAssumption DEF Inv, ClientTyped, ClientType, Starts
<1>2. PICK new : new = [pc |-> pc, seq |-> client[c].seq + 1, offset |-> 0, out |-> << >>]
  OBVIOUS
<1>3. new \in ClientType /\ new.seq = client[c].seq + 1 /\ new.pc = pc /\ new.offset = 0
  BY <1>1, <1>2, SMT DEF ClientType
<1>4. client' = [client EXCEPT ![c] = new]
  BY <1>2 DEF Starts
<1>5. client'[c] = new /\ \A d \in Frame \ {c} : client'[d] = client[d]
  BY <1>4 DEF Inv, ClientTyped
<1>6. client' \in [Frame -> ClientType]
  BY <1>3, <1>4 DEF Inv, ClientTyped
<1>7. \A d \in Frame : client[d].seq \in Nat
  BY SessionAssumption, SMT DEF Inv, ClientTyped, ClientType
<1>8. \A d \in Frame : client[d].seq <= client'[d].seq
  BY <1>3, <1>5, <1>7, SMT
<1>9. ClientTyped'
  BY <1>1, <1>3, <1>5, <1>6, SMT DEF Inv, ClientTyped
<1> QED
  BY <1>3, <1>5, <1>8, <1>9

\* What starting leaves alone of the sessions.
LEMMA StartsAsking ==
  ASSUME Inv, NEW c \in Frame, NEW pc \in ClientPc, Starts(c, pc), UNCHANGED ctl
  PROVE  \A d \in Frame : Asking(d)' =>
           \/ Asking(d) /\ session(d)' = session(d) /\ Bound(d)' = Bound(d)
           \/ client[d].seq < client'[d].seq
<1>1. client[c].seq < client'[c].seq
  BY StartsTyped, SessionAssumption, SMT DEF Inv, ClientTyped, ClientType
<1>2. \A d \in Frame \ {c} : client'[d] = client[d]
  BY StartsTyped
<1>3. \A d \in Frame \ {c} :
        Asking(d)' = Asking(d) /\ session(d)' = session(d) /\ Bound(d)' = Bound(d)
  BY <1>2 DEF Asking, session, Bound, At
<1> QED
  BY <1>1, <1>3

\* process_sql_sliced: a new session.
LEMMA SlicedStep ==
  ASSUME Inv, NEW c \in Frame, process_sql_sliced(c)
  PROVE  Inv'
<1>1. Starts(c, "ask") /\ UNCHANGED <<dhtVars, brickVars, ctl>> /\ "ask" \in ClientPc
  BY DEF process_sql_sliced, ClientPc
<1>2. ClientTyped' /\ \A d \in Frame : client[d].seq <= client'[d].seq
  BY <1>1, StartsTyped
<1>3. DhtTyped' /\ Counted'
  BY <1>1, <1>2, SameCalls DEF Inv
<1>4. BrickTyped' /\ Placed'
  BY <1>1 DEF Inv, BrickTyped, Placed, brickVars
<1>5. Started'
  BY <1>1, <1>2, LaterStarted DEF Inv, brickVars
<1>6. \A b \in Subvol : Active(b)' = Active(b)
  BY <1>1 DEF Active, brickVars
<1>7. \A d \in Frame : Asking(d)' =>
           \/ Asking(d) /\ session(d)' = session(d) /\ Bound(d)' = Bound(d)
           \/ client[d].seq < client'[d].seq
  BY <1>1, StartsAsking
<1>8. Handed'
  BY <1>1, <1>2, <1>6, <1>7, ClientHanded DEF Inv, brickVars
<1> QED
  BY <1>2, <1>3, <1>4, <1>5, <1>8 DEF Inv

\* A client moves on without asking for anything, and its bound stays.
LEMMA QuietStep ==
  ASSUME Inv, NEW c \in Frame, NEW new \in ClientType, client' = [client EXCEPT ![c] = new],
         UNCHANGED <<dhtVars, brickVars, ctl>>, new.seq = client[c].seq, new.seq # 0,
         new.pc \in {"ask", "fetch"} => Asking(c) /\ Bound(c)' = Bound(c)
  PROVE  Inv'
<1>1. client'[c] = new /\ \A d \in Frame \ {c} : client'[d] = client[d]
  BY DEF Inv, ClientTyped
<1>2. client' \in [Frame -> ClientType]
  BY DEF Inv, ClientTyped
<1>3. ClientTyped'
  BY <1>1, <1>2 DEF Inv, ClientTyped
<1>4. \A d \in Frame : client[d].seq \in Nat
  BY SessionAssumption, SMT DEF Inv, ClientTyped, ClientType
<1>5. \A d \in Frame : client[d].seq <= client'[d].seq
  BY <1>1, <1>4, SMT
<1>6. DhtTyped' /\ Counted'
  BY <1>3, <1>5, SameCalls DEF Inv
<1>7. BrickTyped' /\ Placed'
  BY DEF Inv, BrickTyped, Placed, brickVars
<1>8. Started'
  BY <1>3, <1>5, LaterStarted DEF Inv, brickVars
<1>9. \A d \in Frame : Asking(d)' => Asking(d) /\ session(d)' = session(d) /\ Bound(d)' = Bound(d)
  <2>1. ASSUME NEW d \in Frame, Asking(d)', d # c
        PROVE  Asking(d) /\ session(d)' = session(d) /\ Bound(d)' = Bound(d)
    BY <1>1, <2>1, SMT DEF Asking, session, Bound, At
  <2>2. ASSUME Asking(c)' PROVE Asking(c) /\ session(c)' = session(c) /\ Bound(c)' = Bound(c)
    BY <1>1, <2>2 DEF Asking, session
  <2> QED
    BY <2>1, <2>2
<1>10. \A b \in Subvol : Active(b)' = Active(b)
  BY DEF Active, brickVars
<1>11. Handed'
  BY <1>3, <1>9, <1>10, ClientHanded DEF Inv, brickVars
<1> QED
  BY <1>3, <1>6, <1>7, <1>8, <1>11 DEF Inv

\* Goes, from a request to its end.
LEMMA EndStep ==
  ASSUME Inv, NEW c \in Frame, NEW pc \in ClientPc \ {"ask", "fetch", "idle"}, Goes(c, pc),
         client[c].pc # "idle", UNCHANGED <<dhtVars, brickVars, ctl>>
  PROVE  Inv'
<1>1. PICK new : new = [client[c] EXCEPT !.pc = pc]
  OBVIOUS
<1>2. client[c] \in ClientType /\ client[c].seq # 0
  BY DEF Inv, ClientTyped
<1>3. new \in ClientType /\ new.seq = client[c].seq /\ new.pc = pc
  BY <1>1, <1>2 DEF ClientType
<1>4. client' = [client EXCEPT ![c] = new]
  BY <1>1 DEF Goes
<1> QED
  BY <1>2, <1>3, <1>4, QuietStep

\* process_sql_sliced after ixsql_sql_query.
LEMMA FetchedStep ==
  ASSUME Inv, NEW c \in Frame, Fetched(c)
  PROVE  Inv'
<1>1. UNCHANGED <<dhtVars, brickVars, ctl>> /\ client[c].pc = "fetch" /\ result[c] # Pending
  BY DEF Fetched, At
<1>2. CASE result[c].state = "null"
  <2>1. Goes(c, "error") /\ "error" \in ClientPc \ {"ask", "fetch", "idle"}
    BY <1>2 DEF Fetched, ClientPc
  <2> QED
    BY <1>1, <2>1, EndStep
<1>3. CASE result[c].state # "null"
  <2>1. PICK new : new = [client[c] EXCEPT !.pc = IF result[c].comeback > 0 THEN "ask" ELSE "done",
                                           !.out = client[c].out \o result[c].rows,
                                           !.offset = client[c].offset + ctl[c].slice_count]
    OBVIOUS
  <2>2. client[c] \in ClientType /\ client[c].seq # 0
    BY <1>1 DEF Inv, ClientTyped
  <2>3. result[c] \in [state : {"dict"}, rows : Seq(Row), comeback : Nat, from : SUBSET Subvol]
    BY <1>1, <1>3 DEF Inv, DhtTyped, ResultType
  <2>4. ctl[c].slice_count \in Nat
    BY SessionAssumption DEF Inv, ClientTyped, CtlType
  <2>5. /\ client[c].out \o result[c].rows \in Seq(Row)
        /\ client[c].offset + ctl[c].slice_count \in Nat
    BY <2>2, <2>3, <2>4, SMT DEF ClientType
  <2>6. /\ new \in ClientType /\ new.seq = client[c].seq /\ new.pc \in {"ask", "done"}
        /\ new.offset = client[c].offset + ctl[c].slice_count
    BY <2>1, <2>2, <2>5 DEF ClientType, ClientPc
  <2>7. client' = [client EXCEPT ![c] = new]
    BY <1>3, <2>1 DEF Fetched
  <2>8. client'[c] = new /\ ctl'[c] = ctl[c]
    BY <1>1, <2>7 DEF Inv, ClientTyped
  <2>9. new.pc = "ask" => Asking(c) /\ Bound(c)' = Bound(c)
    BY <1>1, <2>6, <2>8 DEF Asking, Bound, At
  <2> QED
    BY <1>1, <2>2, <2>6, <2>7, <2>9, QuietStep
<1> QED
  BY <1>2, <1>3

\* ixsql exits, or the lookup of the view ends.
LEMMA AnsweredStep ==
  ASSUME Inv, NEW c \in Frame, Answered(c)
  PROVE  Inv'
<1>1. /\ UNCHANGED <<dhtVars, brickVars, ctl>> /\ client[c].pc # "idle" /\ Goes(c, "exit")
      /\ "exit" \in ClientPc \ {"ask", "fetch", "idle"}
  BY DEF Answered, ClientPc
<1> QED
  BY <1>1, EndStep

\* A request that belongs to no session: --exec, and the lookup of a view.
LEMMA WindsStep ==
  ASSUME Inv, NEW c \in Frame, NEW cmask \in SUBSET Subvol, NEW pc \in ClientPc, Starts(c, pc),
         UNCHANGED ctl, NEW new \in JobType, new.pc = "ipc", new.res = 0, new.session = NoSession,
         Winds(c, cmask, new)
  PROVE  BrickTyped' /\ Placed' /\ Started' /\ Handed'
<1>1. ClientTyped' /\ \A d \in Frame : client[d].seq <= client'[d].seq
  BY StartsTyped
<1>2. new.session \notin Session
  BY SessionAssumption
<1>3. /\ BrickTyped' /\ Placed' /\ Started'
      /\ \A b \in Subvol : job'[b] = IF b \in cmask THEN job[b] \cup {new} ELSE job[b]
  BY <1>1, <1>2, WindsPlaced DEF Inv
<1>4. \A b \in Subvol : Active(b)' = Active(b)
  BY <1>3 DEF Active
<1>5. \A d \in Frame : Asking(d)' =>
           \/ Asking(d) /\ session(d)' = session(d) /\ Bound(d)' = Bound(d)
           \/ client[d].seq < client'[d].seq
  BY StartsAsking
<1>6. UNCHANGED <<qres, qrset>>
  BY DEF Winds
<1>7. Handed'
  BY <1>1, <1>4, <1>5, <1>6, ClientHanded DEF Inv
<1> QED
  BY <1>3, <1>7

\* meta_imess_view_dir_hook
LEMMA ViewStep ==
  ASSUME Inv, NEW c \in Frame, meta_imess_view_dir_hook(c)
  PROVE  Inv'
<1>1. PICK cmask, new : cmask = {FirstChild} /\ new = Job(c, "query", NoSession, 0, 0)
  OBVIOUS
<1>2. /\ Starts(c, "view") /\ default_ipc(c) /\ Winds(c, cmask, new) /\ UNCHANGED ctl
      /\ client[c].seq = 0 /\ "view" \in ClientPc
  BY <1>1 DEF meta_imess_view_dir_hook, ClientPc
<1>3. cmask \in SUBSET Subvol
  BY <1>1, FirstChildAssumption
<1>4. new \in JobType /\ new.pc = "ipc" /\ new.res = 0 /\ new.session = NoSession
  BY <1>1, JobIs, SMT
<1>5. BrickTyped' /\ Placed' /\ Started' /\ Handed'
  BY <1>2, <1>3, <1>4, WindsStep
<1>6. /\ ClientTyped' /\ \A d \in Frame \ {c} : client'[d] = client[d]
  BY <1>2, StartsTyped
<1>7. Open(c) = {}
  BY <1>2 DEF Inv, Counted
<1>8. DhtTyped' /\ \A g \in Frame : Open(g)' = Open(g) /\ ipc_data'[g] = ipc_data[g]
  BY <1>2, <1>7, DefaultIpcTyped DEF Inv
<1>9. Counted'
  BY <1>6, <1>7, <1>8 DEF Inv, Counted, CountOk
<1> QED
  BY <1>5, <1>6, <1>8, <1>9 DEF Inv

\* The next request of a session asks for rows that none before it did.
LEMMA AskHanded ==
  ASSUME Inv, BrickTyped', ClientTyped', NEW c \in Frame, client[c].pc = "ask", Goes(c, "fetch"),
         NEW cmask \in SUBSET Subvol, NEW new \in JobType, new.res = 0, new.pc = "ipc",
         new.session = session(c), new.offset = client[c].offset,
         new.count = ctl[c].slice_count, new.type = "query", UNCHANGED <<ctl, qres, qrset>>,
         \A b \in Subvol : job'[b] = IF b \in cmask THEN job[b] \cup {new} ELSE job[b]
  PROVE  Handed'
<1>1. /\ client[c].offset \in Nat /\ ctl[c].slice_count \in Nat
      /\ client'[c].pc = "fetch" /\ client'[c].offset = client[c].offset
      /\ \A d \in Frame : session(d)' = session(d) /\ Asking(d)' = Asking(d)
      /\ \A d \in Frame \ {c} : client'[d] = client[d]
  BY SessionAssumption, SMT DEF Goes, Inv, ClientTyped, ClientType, CtlType, Asking, session
<1>2. /\ Bound(c) = new.offset /\ Bound(c)' = new.offset + new.count
      /\ new.offset \in Nat /\ new.count \in Nat /\ Asking(c)
  BY <1>1 DEF Bound, At, Asking
<1>3. \A d \in Frame \ {c} : Bound(d)' = Bound(d)
  BY <1>1 DEF Bound, At
<1>4. \A d \in Frame : Bound(d) \in Nat
  <2>1. \A d \in Frame : client[d].offset \in Nat /\ ctl[d].slice_count \in Nat
    BY SessionAssumption DEF Inv, ClientTyped, ClientType, CtlType
  <2> QED
    BY <2>1, SMT DEF Bound
<1>5. \A i \in Nat : \A d \in Frame : i <= Bound(d) => i <= Bound(d)'
  BY <1>2, <1>3, <1>4, SMT
<1>6. \A b \in Subvol : \A x \in Active(b)' : x \in Active(b) \/ x = new
  BY DEF Active
<1>7. \A b \in Subvol : \A r \in DOMAIN qres[b] : r # 0
  BY SMT DEF Inv, BrickTyped
<1>8. \A b \in Subvol : \A r \in DOMAIN qres[b] : \A s : Uses(b, s, r)' => Uses(b, s, r)
  BY <1>6, <1>7 DEF Uses
<1>9. OneUser'
  BY <1>8 DEF Inv, Handed, OneUser
<1>10. \A i \in Nat : i <= Bound(c) => ~ Takes(new, i)
  BY <1>2, SMT DEF Takes
<1>11. \A d \in Frame : session(d) = session(c) => d = c
  BY DEF session
<1>12. ASSUME NEW b \in Subvol, NEW k \in Active(b), k.session = new.session, NEW i \in Nat
       PROVE  ~ (Takes(k, i) /\ Takes(new, i))
  BY <1>2, <1>10, <1>12 DEF Inv, Handed, Below
<1>13. Apart'
  BY <1>6, <1>12 DEF Inv, Handed, Apart, Takes
<1>14. Below'
  BY <1>1, <1>2, <1>5, <1>6, <1>11, SMTT(20) DEF Inv, Handed, Below, Takes
<1>15. ASSUME NEW b \in Subvol, NEW s \in Session, NEW r \in DOMAIN qres[b], Uses(b, s, r),
              NEW i \in qres[b][r].handed
       PROVE  /\ \A j \in Active(b)' : j.session = s => ~ Takes(j, i)
              /\ \A d \in Frame : Asking(d)' /\ session(d)' = s => i <= Bound(d)'
  <2>1. i \in Nat
    <3>1. qres[b][r] \in ResType
      BY <1>15, SMT DEF Inv, BrickTyped
    <3> QED
      BY <1>15, <3>1 DEF ResType
  <2>2. /\ \A j \in Active(b) : j.session = s => ~ Takes(j, i)
        /\ \A d \in Frame : Asking(d) /\ session(d) = s => i <= Bound(d)
    BY <1>15 DEF Inv, Handed, Unhanded
  <2>3. new.session = s => ~ Takes(new, i)
    BY <1>2, <1>10, <2>1, <2>2
  <2> QED
    BY <1>1, <1>5, <1>6, <2>1, <2>2, <2>3
<1>16. Unhanded'
  BY <1>8, <1>15 DEF Unhanded, Takes
<1>17. HandedOnce'
  BY DEF Inv, Handed, HandedOnce
<1> QED
  BY <1>9, <1>13, <1>14, <1>16, <1>17 DEF Handed

\* A callback: a reply, or the error of a broken connection.
LEMMA AnyCbk ==
  ASSUME DhtTyped, Counted, NEW f \in Frame, NEW b \in Subvol, NEW reply \in ReplyType,
         UNCHANGED client, dht_ipc_cbk(f, b, reply) \/ default_ipc_cbk(f, reply)
  PROVE  DhtTyped' /\ Counted'
<1>1. /\ DhtTyped'
      /\ \A g \in Frame : Open(g)' = Open(g) /\ ipc_data'[g].call_cnt = ipc_data[g].call_cnt
  <2>1. CASE dht_ipc_cbk(f, b, reply)
    BY <2>1, CbkTyped
  <2>2. CASE default_ipc_cbk(f, reply)
    BY <2>2, DefaultCbkTyped
  <2> QED
    BY <2>1, <2>2
<1>2. \A g \in Frame : CountOk(g)'
  BY <1>1 DEF CountOk, Counted
<1> QED
  BY <1>1, <1>2 DEF Counted

\* A reply reaches the client, or nobody waits for it any more.
LEMMA AnsweredCall ==
  ASSUME Inv, NEW b \in Subvol, NEW j \in job[b], Deliver(b, j)
  PROVE  Inv'
<1>1. /\ job' = [job EXCEPT ![b] = @ \ {j}]
      /\ UNCHANGED <<index, fresh, qres, qrset, ctl, client>>
  BY DEF Deliver
<1>2. BrickTyped' /\ Placed' /\ Started' /\ Handed'
  BY <1>1, DeliverStep DEF Inv
<1>3. ClientTyped'
  BY <1>1 DEF Inv, ClientTyped
<1>4. j.frame \in Frame /\ j.reply \in ReplyType
  BY SMT DEF Inv, BrickTyped, JobType
<1>5. CASE j.live
  <2>1. dht_ipc_cbk(j.frame, b, j.reply) \/ default_ipc_cbk(j.frame, j.reply)
    BY <1>5 DEF Deliver
  <2> QED
    BY <1>1, <1>2, <1>3, <1>4, <2>1, AnyCbk DEF Inv
<1>6. CASE ~ j.live
  <2>1. DhtTyped' /\ Counted'
    BY <1>1, <1>6 DEF Deliver, Inv, DhtTyped, Counted, CountOk, Open, dhtVars
  <2> QED
    BY <1>2, <1>3, <2>1 DEF Inv
<1> QED
  BY <1>5, <1>6

\* A connection breaks.
LEMMA DisconnectStep ==
  ASSUME Inv, NEW f \in Frame, NEW b \in Subvol, Disconnect(f, b)
  PROVE  Inv'
<1>1. Fails(f, b) /\ Orphan(b, f) /\ UNCHANGED <<index, fresh, qres, qrset, ctl, client>>
  BY DEF Disconnect
<1>2. ErrorReply \in ReplyType
  BY SMT DEF ErrorReply, Reply, ReplyType
<1>3. DhtTyped' /\ Counted'
  BY <1>1, <1>2, AnyCbk DEF Fails, Inv
<1>4. BrickTyped' /\ Placed' /\ Started' /\ Handed'
  BY <1>1, OrphanStep DEF Inv
<1>5. ClientTyped'
  BY <1>1 DEF Inv, ClientTyped
<1> QED
  BY <1>3, <1>4, <1>5 DEF Inv

\* A client learns that its request died with the brick.
LEMMA UnheardStep ==
  ASSUME Inv, NEW f \in Frame, NEW b \in Subvol, Unheard(f, b)
  PROVE  Inv'
<1>1. Fails(f, b) /\ UNCHANGED <<brickVars, ctl, client>>
  BY DEF Unheard
<1>2. ErrorReply \in ReplyType
  BY SMT DEF ErrorReply, Reply, ReplyType
<1>3. DhtTyped' /\ Counted'
  BY <1>1, <1>2, AnyCbk DEF Fails, Inv
<1>4. ClientTyped' /\ BrickTyped' /\ Placed' /\ Started'
  BY <1>1 DEF Inv, ClientTyped, BrickTyped, Placed, Started, brickVars
<1>5. Handed'
  BY <1>1, SameHanded DEF Inv, brickVars
<1> QED
  BY <1>3, <1>4, <1>5 DEF Inv

\* A brick restarts, or its index changes.
LEMMA BrickStep ==
  ASSUME Inv, NEW b \in Subvol, BrickRestart(b) \/ Change(b)
  PROVE  Inv'
<1>1. UNCHANGED <<dhtVars, ctl, client>> /\ (Restart(b) \/ Insert(b) \/ Remove(b))
  BY DEF BrickRestart, Change
<1>2. BrickTyped' /\ Placed' /\ Started' /\ Handed'
  BY <1>1, RestartStep, ChangeStep DEF Inv
<1>3. ClientTyped'
  BY <1>1 DEF Inv, ClientTyped
<1>4. DhtTyped' /\ Counted'
  BY <1>1 DEF Inv, DhtTyped, Counted, CountOk, Open, dhtVars
<1> QED
  BY <1>2, <1>3, <1>4 DEF Inv

\* Nothing happens.
LEMMA StutterStep ==
  ASSUME Inv, UNCHANGED vars
  PROVE  Inv'
<1>1. UNCHANGED <<ipc_data, call, result, index, fresh, qres, qrset, job, ctl, client>>
  BY DEF vars, dhtVars, brickVars
<1>2. ClientTyped' /\ BrickTyped' /\ Placed' /\ Started'
  BY <1>1 DEF Inv, ClientTyped, BrickTyped, Placed, Started
<1>3. DhtTyped' /\ Counted'
  BY <1>1 DEF Inv, DhtTyped, Counted, CountOk, Open
<1>4. Handed'
  BY <1>1, SameHanded DEF Inv
<1> QED
  BY <1>2, <1>3, <1>4 DEF Inv

-----------------------------------------------------------------------------
(* What has been printed.                                                  *)

\* The requests of c on b.
Sent(c, b) == {j \in job[b] : j.frame = c}

\* Those it waits for.
Heard(c, b) == {j \in Sent(c, b) : j.live}

\* The request of the slice that c fetches.
Current(c, j) ==
  /\ j.type = "query" /\ j.session = session(c)
  /\ j.offset = client[c].offset /\ j.count = ctl[c].slice_count

\* The call of c to b has one request, of the slice that c fetches; a session is its
\* client's.
Linked(c, b) ==
  /\ \A j \in Sent(c, b) : j.session \in Session => j.session[1] = c
  /\ Heard(c, b) # {} => client[c].pc \in {"fetch", "exec", "view", "exit"}
  /\ At(c, "fetch") =>
       /\ call[c][b] # "default"
       /\ \A j \in Heard(c, b) : call[c][b] = "wound" /\ Current(c, j)
       /\ \A j, k \in Heard(c, b) : j = k

\* The frame is unwound when every call has returned, with what was merged.
Unwound(c) ==
  At(c, "fetch") /\ result[c] # Pending =>
    /\ Open(c) = {}
    /\ result[c].state = "dict" =>
         result[c].rows = ipc_data[c].rows /\ result[c].comeback = ipc_data[c].comeback

\* The rows that come from b are of b.
Of(b, rows) == \A i \in 1 .. Len(rows) : rows[i][1] = b

Owned(b) ==
  /\ Of(b, index[b])
  /\ \A r \in DOMAIN qres[b] : Of(b, qres[b][r].rows)
  /\ \A j \in job[b] : Of(b, j.reply.rows)

\* The first n rows, and the n rows from offset on.
First(rows, n) == [i \in 1 .. (IF n <= Len(rows) THEN n ELSE Len(rows)) |-> rows[i]]

Slice(rows, offset, n) ==
  [i \in 1 .. (IF Len(rows) <= offset THEN 0
               ELSE IF offset + n <= Len(rows) THEN n ELSE Len(rows) - offset) |-> rows[offset + i]]

\* The result of the session of c on b.
Got(c, b) == qrset[b][session(c)]

Found(c, b) == qres[b][Got(c, b)].rows

\* c has printed what b found, up to the offset.
Printed(c, b) ==
  IF Got(c, b) = 0 THEN client[c].offset = 0 /\ Shows(client[c].out, b, << >>)
                   ELSE Shows(client[c].out, b, First(Found(c, b), client[c].offset))

\* rows and comeback, of a reply or of merged replies, have the slice of b.
Sliced(c, b, rows, comeback) ==
  /\ Got(c, b) # 0
  /\ Shows(rows, b, Slice(Found(c, b), client[c].offset, ctl[c].slice_count))
  /\ comeback = 0 => Len(Found(c, b)) <= client[c].offset + ctl[c].slice_count

\* Where a request of the slice is on b.
Served(c, b, j) ==
  /\ j.pc # "exec"
  /\ j.pc \in {"query", "register"} => Got(c, b) = 0
  /\ j.pc = "slice" => Got(c, b) = j.res
  /\ j.pc = "reply" /\ j.reply.op_ret = 0 =>
       j.reply.whole /\ Sliced(c, b, j.reply.rows, j.reply.comeback)

\* The slice of b is in a request or has been merged.
Fetching(c, b) ==
  /\ \A j \in Heard(c, b) : Served(c, b, j)
  /\ IF call[c][b] = "wound" THEN Heard(c, b) # {} /\ Shows(ipc_data[c].rows, b, << >>)
     ELSE /\ call[c][b] # "dropped"
          /\ Sliced(c, b, ipc_data[c].rows, ipc_data[c].comeback)

\* A brick that did not fail c.
Good(c, b) == b \in ctl[c].cli_mask /\ b \notin failed[c]

\* What c has, and will get, from it.
Whole(c, b) ==
  Good(c, b) =>
    /\ client[c].pc \in {"ask", "fetch", "done"} => \A j \in Sent(c, b) : j.session = session(c) => j.live
    /\ At(c, "ask") => Printed(c, b)
    /\ At(c, "fetch") => Printed(c, b) /\ Fetching(c, b)
    /\ At(c, "done") => Got(c, b) # 0 /\ Shows(client[c].out, b, Found(c, b))

RowInv ==
  /\ failed \in [Frame -> SUBSET Subvol]
  /\ \A b \in Subvol : Owned(b)
  /\ \A c \in Frame : Unwound(c)
  /\ \A c \in Frame, b \in Subvol : Linked(c, b) /\ Whole(c, b)

-----------------------------------------------------------------------------
\* Nothing is shown of a brick whose rows are not there.
LEMMA ShowsNone ==
  ASSUME NEW b, NEW out \in Seq(Row), \A k \in 1 .. Len(out) : out[k][1] # b
  PROVE  Shows(out, b, << >>)
<1>1. PICK at : at = [i \in 1 .. 0 |-> 0]
  OBVIOUS
<1>2. /\ at \in [1 .. Len(<< >>) -> 1 .. Len(out)]
      /\ \A i \in 1 .. Len(<< >>) : out[at[i]] = << >>[i]
      /\ \A i, j \in 1 .. Len(<< >>) : i < j => at[i] < at[j]
  BY <1>1, SMT
<1> QED
  BY <1>2 DEF Shows

\* The rows of a brick show it.
LEMMA ShowsOwn ==
  ASSUME NEW b, NEW rows \in Seq(Row)
  PROVE  Shows(rows, b, rows)
<1>1. PICK at : at = [i \in 1 .. Len(rows) |-> i]
  OBVIOUS
<1>2. /\ at \in [1 .. Len(rows) -> 1 .. Len(rows)]
      /\ \A i \in 1 .. Len(rows) : at[i] = i
  BY <1>1
<1>3. /\ \A i \in 1 .. Len(rows) : rows[at[i]] = rows[i]
      /\ \A i, j \in 1 .. Len(rows) : i < j => at[i] < at[j]
      /\ \A k \in 1 .. Len(rows) : rows[k][1] = b => \E i \in 1 .. Len(rows) : at[i] = k
  BY <1>2
<1> QED
  BY <1>2, <1>3 DEF Shows

\* What is shown by two parts.
LEMMA ShowsBoth ==
  ASSUME NEW b, NEW o1 \in Seq(Row), NEW o2 \in Seq(Row), NEW r1 \in Seq(Row), NEW r2 \in Seq(Row),
         NEW r \in Seq(Row), Shows(o1, b, r1), Shows(o2, b, r2), Len(r) = Len(r1) + Len(r2),
         \A i \in 1 .. Len(r1) : r[i] = r1[i],
         \A i \in 1 .. Len(r2) : r[Len(r1) + i] = r2[i]
  PROVE  Shows(o1 \o o2, b, r)
<1>1. PICK m1, m2, n1, n2 : m1 = Len(r1) /\ m2 = Len(r2) /\ n1 = Len(o1) /\ n2 = Len(o2)
  OBVIOUS
<1>2. m1 \in Nat /\ m2 \in Nat /\ n1 \in Nat /\ n2 \in Nat
  BY <1>1, SMT
<1>3. PICK at1 \in [1 .. m1 -> 1 .. n1] :
        /\ \A i \in 1 .. m1 : o1[at1[i]] = r1[i]
        /\ \A i, j \in 1 .. m1 : i < j => at1[i] < at1[j]
        /\ \A k \in 1 .. n1 : o1[k][1] = b => \E i \in 1 .. m1 : at1[i] = k
  BY <1>1 DEF Shows
<1>4. PICK at2 \in [1 .. m2 -> 1 .. n2] :
        /\ \A i \in 1 .. m2 : o2[at2[i]] = r2[i]
        /\ \A i, j \in 1 .. m2 : i < j => at2[i] < at2[j]
        /\ \A k \in 1 .. n2 : o2[k][1] = b => \E i \in 1 .. m2 : at2[i] = k
  BY <1>1 DEF Shows
<1>5. PICK at : at = [i \in 1 .. (m1 + m2) |-> IF i <= m1 THEN at1[i] ELSE n1 + at2[i - m1]]
  OBVIOUS
<1>6. PICK o : o = o1 \o o2
  OBVIOUS
<1>7. /\ Len(o) = n1 + n2 /\ \A k \in 1 .. n1 : o[k] = o1[k]
      /\ \A k \in 1 .. n2 : o[n1 + k] = o2[k]
  BY <1>1, <1>6, SMT
<1>8. /\ \A i \in 1 .. m1 : i \in 1 .. (m1 + m2) /\ i <= m1
      /\ \A i \in 1 .. m2 : m1 + i \in 1 .. (m1 + m2) /\ ~ (m1 + i <= m1) /\ (m1 + i) - m1 = i
  BY <1>2, SMT
<1>9. /\ \A i \in 1 .. m1 : at[i] = at1[i] /\ at1[i] \in 1 .. n1
      /\ \A i \in 1 .. m2 : at[m1 + i] = n1 + at2[i] /\ at2[i] \in 1 .. n2
  BY <1>5, <1>8
<1>10. \A i \in 1 .. (m1 + m2) : i \in 1 .. m1 \/ \E x \in 1 .. m2 : i = m1 + x
  <2> SUFFICES ASSUME NEW i \in 1 .. (m1 + m2), i \notin 1 .. m1
               PROVE  \E x \in 1 .. m2 : i = m1 + x
    OBVIOUS
  <2>1. i - m1 \in 1 .. m2 /\ i = m1 + (i - m1)
    BY <1>2, SMT
  <2> QED
    BY <2>1
<1>11. \A k \in 1 .. (n1 + n2) : k \in 1 .. n1 \/ \E x \in 1 .. n2 : k = n1 + x
  <2> SUFFICES ASSUME NEW k \in 1 .. (n1 + n2), k \notin 1 .. n1
               PROVE  \E x \in 1 .. n2 : k = n1 + x
    OBVIOUS
  <2>1. k - n1 \in 1 .. n2 /\ k = n1 + (k - n1)
    BY <1>2, SMT
  <2> QED
    BY <2>1
<1>12. \A x \in 1 .. n1 : x \in 1 .. (n1 + n2)
  BY <1>2, SMT
<1>13. \A x \in 1 .. n2 : n1 + x \in 1 .. (n1 + n2)
  BY <1>2, SMT
<1>14. ASSUME NEW i \in 1 .. (m1 + m2)
       PROVE  at[i] \in 1 .. (n1 + n2) /\ o[at[i]] = r[i]
  <2>1. CASE i \in 1 .. m1
    <3>1. at[i] = at1[i] /\ at1[i] \in 1 .. n1
      BY <1>9, <2>1
    <3>2. o[at[i]] = o1[at1[i]] /\ o1[at1[i]] = r1[i] /\ r[i] = r1[i]
      BY <1>1, <1>3, <1>7, <2>1, <3>1, SMT
    <3> QED
      BY <1>12, <3>1, <3>2
  <2>2. CASE \E x \in 1 .. m2 : i = m1 + x
    <3>1. PICK x \in 1 .. m2 : i = m1 + x
      BY <2>2
    <3>2. at[i] = n1 + at2[x] /\ at2[x] \in 1 .. n2
      BY <1>9, <3>1
    <3>3. o[at[i]] = o2[at2[x]] /\ o2[at2[x]] = r2[x] /\ r[i] = r2[x]
      BY <1>1, <1>4, <1>7, <3>1, <3>2
    <3> QED
      BY <1>13, <3>2, <3>3
  <2> QED
    BY <1>10, <2>1, <2>2
<1>15. at \in [1 .. (m1 + m2) -> 1 .. (n1 + n2)]
  BY <1>5, <1>14
<1>16. ASSUME NEW i \in 1 .. (m1 + m2), NEW j \in 1 .. (m1 + m2), i < j
       PROVE  at[i] < at[j]
  <2>1. CASE i \in 1 .. m1 /\ j \in 1 .. m1
    BY <1>3, <1>9, <1>16, <2>1
  <2>2. ASSUME i \in 1 .. m1, NEW y \in 1 .. m2, j = m1 + y
        PROVE  at[i] < at[j]
    <3>1. at[i] \in 1 .. n1 /\ at[j] = n1 + at2[y] /\ at2[y] \in 1 .. n2
      BY <1>9, <2>2
    <3> QED
      BY <1>2, <3>1, SMT
  <2>3. ASSUME NEW x \in 1 .. m2, i = m1 + x, NEW y \in 1 .. m2, j = m1 + y
        PROVE  at[i] < at[j]
    <3>1. /\ at[i] = n1 + at2[x] /\ at2[x] \in 1 .. n2
          /\ at[j] = n1 + at2[y] /\ at2[y] \in 1 .. n2
      BY <1>9, <2>3
    <3>2. x < y
      BY <1>2, <1>16, <2>3, SMT
    <3>3. at2[x] < at2[y]
      BY <1>4, <3>2
    <3> QED
      BY <1>2, <3>1, <3>3, SMT
  <2>4. ASSUME NEW x \in 1 .. m2, i = m1 + x, j \in 1 .. m1
        PROVE  at[i] < at[j]
    BY <1>2, <1>16, <2>4, SMT
  <2> QED
    BY <1>10, <2>1, <2>2, <2>3, <2>4
<1>17. ASSUME NEW k \in 1 .. (n1 + n2), o[k][1] = b
       PROVE  \E i \in 1 .. (m1 + m2) : at[i] = k
  <2>1. CASE k \in 1 .. n1
    <3>1. PICK i \in 1 .. m1 : at1[i] = k
      BY <1>3, <1>7, <1>17, <2>1
    <3> QED
      BY <1>8, <1>9, <3>1
  <2>2. ASSUME NEW x \in 1 .. n2, k = n1 + x
        PROVE  \E i \in 1 .. (m1 + m2) : at[i] = k
    <3>1. PICK i \in 1 .. m2 : at2[i] = x
      BY <1>4, <1>7, <1>17, <2>2
    <3>2. m1 + i \in 1 .. (m1 + m2) /\ at[m1 + i] = k
      BY <1>8, <1>9, <2>2, <3>1
    <3> QED
      BY <3>2
  <2> QED
    BY <1>11, <2>1, <2>2
<1>18. /\ at \in [1 .. Len(r) -> 1 .. Len(o)]
       /\ \A i \in 1 .. Len(r) : o[at[i]] = r[i]
       /\ \A i, j \in 1 .. Len(r) : i < j => at[i] < at[j]
       /\ \A k \in 1 .. Len(o) : o[k][1] = b => \E i \in 1 .. Len(r) : at[i] = k
  BY <1>1, <1>7, <1>14, <1>15, <1>16, <1>17
<1>19. Shows(o, b, r)
  BY <1>18 DEF Shows
<1> QED
  BY <1>6, <1>19

\* The parts of a result.
LEMMA FirstIs ==
  ASSUME NEW rows \in Seq(Row), NEW n \in Nat
  PROVE  /\ First(rows, n) \in Seq(Row)
         /\ Len(First(rows, n)) = IF n <= Len(rows) THEN n ELSE Len(rows)
         /\ \A i \in 1 .. Len(First(rows, n)) : First(rows, n)[i] = rows[i]
         /\ n = 0 => First(rows, n) = << >>
         /\ Len(rows) <= n => First(rows, n) = rows
<1>1. PICK m : m = IF n <= Len(rows) THEN n ELSE Len(rows)
  OBVIOUS
<1>2. m \in Nat /\ m <= Len(rows) /\ Len(rows) \in Nat
  BY <1>1, SMT
<1>3. PICK f : f = [i \in 1 .. m |-> rows[i]]
  OBVIOUS
<1>4. f \in Seq(Row) /\ Len(f) = m /\ \A i \in 1 .. m : f[i] = rows[i]
  BY <1>2, <1>3, SMT
<1>5. n = 0 => f = << >>
  BY <1>1, <1>2, <1>4, SMT
<1>6. Len(rows) <= n => f = rows
  BY <1>1, <1>2, <1>4, SMT
<1>7. First(rows, n) = f
  BY <1>1, <1>3 DEF First
<1> QED
  BY <1>1, <1>4, <1>5, <1>6, <1>7

LEMMA SliceOf ==
  ASSUME NEW rows \in Seq(Row), NEW offset \in Nat, NEW n \in Nat
  PROVE  /\ Slice(rows, offset, n) \in Seq(Row)
         /\ Len(Slice(rows, offset, n)) = IF Len(rows) <= offset THEN 0
                 ELSE IF offset + n <= Len(rows) THEN n ELSE Len(rows) - offset
         /\ \A i \in 1 .. Len(Slice(rows, offset, n)) : Slice(rows, offset, n)[i] = rows[offset + i]
<1>1. PICK m : m = IF Len(rows) <= offset THEN 0
                   ELSE IF offset + n <= Len(rows) THEN n ELSE Len(rows) - offset
  OBVIOUS
<1>2. m \in Nat /\ Len(rows) \in Nat /\ \A i \in 1 .. m : offset + i \in 1 .. Len(rows)
  BY <1>1, SMT
<1>3. PICK f : f = [i \in 1 .. m |-> rows[offset + i]]
  OBVIOUS
<1>4. f \in Seq(Row) /\ Len(f) = m /\ \A i \in 1 .. m : f[i] = rows[offset + i]
  BY <1>2, <1>3, SMT
<1>5. Slice(rows, offset, n) = f
  BY <1>1, <1>3 DEF Slice
<1> QED
  BY <1>1, <1>4, <1>5

\* The slice comes after what was printed.
LEMMA ShowsNext ==
  ASSUME NEW b, NEW rows \in Seq(Row), NEW offset \in Nat, NEW n \in Nat,
         NEW o1 \in Seq(Row), NEW o2 \in Seq(Row),
         Shows(o1, b, First(rows, offset)), Shows(o2, b, Slice(rows, offset, n))
  PROVE  Shows(o1 \o o2, b, First(rows, offset + n))
<1>1. PICK r1, r2, r : r1 = First(rows, offset) /\ r2 = Slice(rows, offset, n)
                       /\ r = First(rows, offset + n)
  OBVIOUS
<1>2. /\ r1 \in Seq(Row) /\ Len(r1) = (IF offset <= Len(rows) THEN offset ELSE Len(rows))
      /\ \A i \in 1 .. Len(r1) : r1[i] = rows[i]
  BY <1>1, FirstIs
<1>3. /\ r2 \in Seq(Row)
      /\ Len(r2) = (IF Len(rows) <= offset THEN 0
                    ELSE IF offset + n <= Len(rows) THEN n ELSE Len(rows) - offset)
      /\ \A i \in 1 .. Len(r2) : r2[i] = rows[offset + i]
  BY <1>1, SliceOf
<1>4. offset + n \in Nat /\ Len(rows) \in Nat
  BY SMT
<1>5. /\ r \in Seq(Row) /\ Len(r) = (IF offset + n <= Len(rows) THEN offset + n ELSE Len(rows))
      /\ \A i \in 1 .. Len(r) : r[i] = rows[i]
  BY <1>1, <1>4, FirstIs
<1>6. Len(r) = Len(r1) + Len(r2)
  <2>1. PICK len, a, c, d : len = Len(rows) /\ a = Len(r1) /\ c = Len(r2) /\ d = Len(r)
    OBVIOUS
  <2>2. /\ len \in Nat /\ a = (IF offset <= len THEN offset ELSE len)
        /\ c = (IF len <= offset THEN 0 ELSE IF offset + n <= len THEN n ELSE len - offset)
        /\ d = (IF offset + n <= len THEN offset + n ELSE len)
    BY <1>2, <1>3, <1>4, <1>5, <2>1
  <2>3. d = a + c
    BY <2>2, SMT
  <2> QED
    BY <2>1, <2>3
<1>7. \A i \in 1 .. Len(r1) : i \in 1 .. Len(r)
  BY <1>2, <1>4, <1>5, SMT
<1>8. \A i \in 1 .. Len(r2) : Len(r1) + i \in 1 .. Len(r) /\ Len(r1) = offset
  BY <1>2, <1>3, <1>4, <1>5, SMT
<1>9. \A i \in 1 .. Len(r1) : r[i] = r1[i]
  BY <1>2, <1>5, <1>7
<1>10. \A i \in 1 .. Len(r2) : r[Len(r1) + i] = r2[i]
  BY <1>3, <1>5, <1>8
<1> QED
  BY <1>1, <1>2, <1>3, <1>5, <1>6, <1>9, <1>10, ShowsBoth

\* Rows of another brick are added.
LEMMA ShowsMore ==
  ASSUME NEW a, NEW b, a # b, NEW o1 \in Seq(Row), NEW o2 \in Seq(Row), NEW r \in Seq(Row),
         Shows(o1, b, r), Of(a, o2)
  PROVE  Shows(o1 \o o2, b, r)
<1>1. Shows(o2, b, << >>)
  BY ShowsNone DEF Of
<1>2. PICK none : none = << >>
  OBVIOUS
<1>3. none \in Seq(Row) /\ Len(r) = Len(r) + Len(none) /\ \A i \in 1 .. Len(none) : FALSE
  BY <1>2, SMT
<1> QED
  BY <1>1, <1>2, <1>3, ShowsBoth

\* The rows of the brick are added.
LEMMA ShowsLast ==
  ASSUME NEW b, NEW o1 \in Seq(Row), NEW o2 \in Seq(Row), NEW r \in Seq(Row),
         Shows(o1, b, << >>), Shows(o2, b, r)
  PROVE  Shows(o1 \o o2, b, r)
<1>1. PICK none : none = << >>
  OBVIOUS
<1>2. /\ none \in Seq(Row) /\ Len(r) = Len(none) + Len(r) /\ \A i \in 1 .. Len(none) : FALSE
      /\ \A i \in 1 .. Len(r) : Len(none) + i = i
  BY <1>1, SMT
<1> QED
  BY <1>1, <1>2, ShowsBoth

-----------------------------------------------------------------------------
\* The session of a client that has asked, and what it has found.
LEMMA SessionIs ==
  ASSUME Inv, NEW c \in Frame, client[c].pc # "idle", NEW b \in Subvol
  PROVE  /\ session(c) \in Session /\ session(c)[1] = c
         /\ Got(c, b) \in Nat
         /\ Got(c, b) # 0 => Got(c, b) \in DOMAIN qres[b] /\ Found(c, b) \in Seq(Row)
<1>1. client[c].seq \in 1 .. MaxQuery
  BY SessionAssumption, SMT DEF Inv, ClientTyped, ClientType
<1>2. session(c) \in Session /\ session(c)[1] = c
  BY <1>1, SessionAssumption DEF session
<1>3. Got(c, b) \in Nat /\ Got(c, b) <= Len(qres[b])
  BY <1>2 DEF Inv, BrickTyped, Placed, Got
<1>4. qres[b] \in Seq(ResType) /\ DOMAIN qres[b] = 1 .. Len(qres[b]) /\ Len(qres[b]) \in Nat
  BY SMT DEF Inv, BrickTyped
<1>5. Got(c, b) # 0 => Got(c, b) \in DOMAIN qres[b]
  BY <1>3, <1>4, SMT
<1>6. ASSUME NEW r \in DOMAIN qres[b] PROVE qres[b][r].rows \in Seq(Row)
  <2>1. qres[b][r] \in ResType
    BY <1>4, SMT
  <2> QED
    BY <2>1 DEF ResType
<1> QED
  BY <1>2, <1>3, <1>5, <1>6 DEF Found

\* Where a client is.
LEMMA ClientIs ==
  ASSUME Inv, NEW c \in Frame
  PROVE  /\ client[c] \in ClientType /\ client[c].offset \in Nat /\ client[c].out \in Seq(Row)
         /\ client[c].pc \in ClientPc /\ ctl[c].slice_count \in Nat /\ ctl[c].cli_mask \in SUBSET Subvol
         /\ ipc_data[c] \in IpcType /\ ipc_data[c].rows \in Seq(Row) /\ ipc_data[c].comeback \in Nat
<1>1. client[c] \in ClientType /\ ctl[c] \in CtlType /\ ipc_data[c] \in IpcType
  BY DEF Inv, ClientTyped, DhtTyped
<1>2. Slices \subseteq Nat
  BY SessionAssumption
<1> QED
  BY <1>1, <1>2 DEF ClientType, CtlType, IpcType

\* A step that leaves a call, its client and its requests alone.
LEMMA SameLinked ==
  ASSUME NEW c, NEW b, Linked(c, b), client'[c] = client[c], ctl'[c] = ctl[c],
         call'[c][b] = call[c][b] \/ (call[c][b] # "wound" /\ call'[c][b] # "default"),
         Sent(c, b)' \subseteq Sent(c, b), Heard(c, b)' \subseteq Heard(c, b)
  PROVE  Linked(c, b)'
<1>1. session(c)' = session(c)
  BY DEF session
<1>2. \A j : Current(c, j)' = Current(c, j)
  BY <1>1 DEF Current
<1> QED
  BY <1>2 DEF Linked, At

LEMMA SameUnwound ==
  ASSUME NEW c, Unwound(c), client'[c].pc = client[c].pc, result'[c] = result[c],
         ipc_data'[c] = ipc_data[c], call'[c] = call[c]
  PROVE  Unwound(c)'
BY DEF Unwound, At, Open

\* It keeps what the client has and will get.
LEMMA SameWhole ==
  ASSUME NEW c, NEW b, Whole(c, b), Good(c, b)' => Good(c, b), client'[c] = client[c],
         ctl'[c] = ctl[c],
         \/ call'[c][b] = call[c][b]
         \/ call[c][b] # "wound" /\ call'[c][b] \notin {"wound", "dropped"}
         \/ ~ At(c, "fetch"),
         ipc_data'[c].rows = ipc_data[c].rows, ipc_data'[c].comeback = ipc_data[c].comeback,
         Sent(c, b)' \subseteq Sent(c, b), Heard(c, b)' = Heard(c, b),
         client[c].pc \in {"ask", "fetch", "done"} =>
           /\ Got(c, b)' = Got(c, b)
           /\ Got(c, b) # 0 => Found(c, b)' = Found(c, b)
  PROVE  Whole(c, b)'
<1> SUFFICES ASSUME Good(c, b)'
             PROVE  Whole(c, b)'
  BY DEF Whole
<1>1. session(c)' = session(c) /\ \A pc : At(c, pc)' = At(c, pc)
  BY DEF session, At
<1>2. CASE client[c].pc \in {"ask", "fetch", "done"}
  <2>1. Printed(c, b)' = Printed(c, b)
    BY <1>2 DEF Printed
  <2>2. \A rows, cb : Sliced(c, b, rows, cb)' = Sliced(c, b, rows, cb)
    BY <1>2 DEF Sliced
  <2>3. \A j : Served(c, b, j)' = Served(c, b, j)
    BY <1>2, <2>2 DEF Served
  <2>4. At(c, "fetch") /\ Fetching(c, b) => Fetching(c, b)'
    BY <2>2, <2>3 DEF Fetching
  <2> QED
    BY <1>1, <1>2, <2>1, <2>4 DEF Whole
<1>3. CASE client[c].pc \notin {"ask", "fetch", "done"}
  BY <1>3 DEF Whole, At
<1> QED
  BY <1>2, <1>3

\* Nothing is said of a client that asks for nothing.
LEMMA RestWhole ==
  ASSUME NEW c, NEW b, client'[c].pc \notin {"ask", "fetch", "done"}
  PROVE  Whole(c, b)' /\ Unwound(c)'
BY DEF Whole, Unwound, At

\* j has become k among the requests of f on b, and those of others are the same.
Replaced(b, j, k, f) ==
  /\ \A c \in Frame, a \in Subvol : ~ (c = f /\ a = b) =>
       Sent(c, a)' = Sent(c, a) /\ Heard(c, a)' = Heard(c, a)
  /\ Sent(f, b)' = (Sent(f, b) \ {j}) \cup {k}
  /\ j.live => Heard(f, b)' = (Heard(f, b) \ {j}) \cup {k} /\ j \in Heard(f, b)
  /\ ~ j.live => Heard(f, b)' = Heard(f, b)

\* The requests of the clients when a brick takes a step.
LEMMA MovedSent ==
  ASSUME BrickTyped, NEW b \in Subvol, NEW j \in job[b], NEW k, NEW f, f = j.frame,
         Kept(k, j), Moves(b, j, k)
  PROVE  Replaced(b, j, k, f)
<1>1. k \in JobType /\ k.frame = j.frame /\ k.live = j.live
  BY DEF Kept
<1>2. job'[b] = (job[b] \ {j}) \cup {k} /\ \A a \in Subvol \ {b} : job'[a] = job[a]
  BY <1>1, Moved
<1>3. \A c \in Frame, a \in Subvol : ~ (c = f /\ a = b) => Sent(c, a)' = Sent(c, a)
  BY <1>1, <1>2 DEF Sent
<1>4. Sent(f, b)' = (Sent(f, b) \ {j}) \cup {k}
  BY <1>1, <1>2 DEF Sent
<1>5. j \in Sent(f, b)
  BY DEF Sent
<1> QED
  BY <1>1, <1>3, <1>4, <1>5 DEF Heard, Replaced

\* The calls after a step of a brick.
LEMMA MovedLinked ==
  ASSUME BrickTyped, NEW b \in Subvol, NEW j \in job[b], NEW k, NEW f \in Frame, f = j.frame,
         Kept(k, j), Moves(b, j, k),
         UNCHANGED <<call, client, ctl>>, \A c \in Frame, a \in Subvol : Linked(c, a)
  PROVE  \A c \in Frame, a \in Subvol : Linked(c, a)'
<1>0. Replaced(b, j, k, f)
  BY MovedSent
<1>1. ASSUME NEW c \in Frame, NEW a \in Subvol, ~ (c = j.frame /\ a = b)
      PROVE  Linked(c, a)'
  <2>1. Sent(c, a)' = Sent(c, a) /\ Heard(c, a)' = Heard(c, a)
    BY <1>0, <1>1 DEF Replaced
  <2>2. Linked(c, a)
    OBVIOUS
  <2> QED
    BY <2>1, <2>2, SameLinked
<1>2. Linked(f, b)'
  <2>2. /\ Sent(f, b)' = (Sent(f, b) \ {j}) \cup {k}
        /\ j.live => Heard(f, b)' = (Heard(f, b) \ {j}) \cup {k} /\ j \in Heard(f, b)
        /\ ~ j.live => Heard(f, b)' = Heard(f, b)
    BY <1>0 DEF Replaced
  <2>3. Linked(f, b)
    OBVIOUS
  <2>4. session(f)' = session(f) /\ \A x : Current(f, x)' = Current(f, x)
    BY DEF session, Current
  <2>5. j \in Sent(f, b) /\ k.session = j.session
    BY DEF Sent, Kept
  <2>6. \A x \in Sent(f, b)' : x.session \in Session => x.session[1] = f
    BY <2>2, <2>3, <2>5, SMT DEF Linked
  <2>7. CASE ~ j.live
    BY <2>2, <2>3, <2>4, <2>6, <2>7, SMT DEF Linked, At
  <2>8. CASE j.live
    <3>1. Current(f, j) => Current(f, k)
      BY DEF Current, Kept
    <3> QED
      BY <2>2, <2>3, <2>4, <2>6, <2>8, <3>1, SMT DEF Linked, At
  <2> QED
    BY <2>7, <2>8
<1> QED
  BY <1>1, <1>2

\* What the clients have and will get after it.
LEMMA MovedRows ==
  ASSUME Inv, RowInv, NEW b \in Subvol, NEW j \in job[b], NEW k, NEW f \in Frame, f = j.frame,
         Kept(k, j), Moves(b, j, k),
         UNCHANGED <<dhtVars, client, ctl, failed, index>>, Of(b, k.reply.rows),
         \A a \in Subvol : \A r \in DOMAIN qres'[a] :
           qres'[a][r].rows = index[a] \/ (r \in DOMAIN qres[a] /\ qres'[a][r].rows = qres[a][r].rows),
         \A a \in Subvol : \A r \in DOMAIN qres[a] : qres'[a][r].rows = qres[a][r].rows,
         \A a \in Subvol, s \in Session : qrset'[a][s] = qrset[a][s] \/ (a = b /\ s = j.session),
         j.live /\ At(f, "fetch") /\ Current(f, j) /\ Served(f, b, j) /\ Printed(f, b) =>
           Served(f, b, k)' /\ Printed(f, b)'
  PROVE  RowInv'
<1>1. BrickTyped /\ UNCHANGED <<call, ipc_data, result>>
  BY DEF Inv, dhtVars
<1>0. Replaced(b, j, k, f)
  BY <1>1, MovedSent
<1>2. \A c \in Frame, a \in Subvol : Linked(c, a)'
  BY <1>1, MovedLinked DEF RowInv
<1>3. \A c \in Frame : Unwound(c)'
  BY <1>1, SameUnwound DEF RowInv
<1>4. ASSUME NEW a \in Subvol PROVE Owned(a)'
  <2>1. Owned(a) /\ Owned(b)
    BY DEF RowInv
  <2>2. \A x \in job'[a] : x \in job[a] \/ (a = b /\ x = k)
    <3>1. k \in JobType
      BY DEF Kept
    <3>2. job'[b] = (job[b] \ {j}) \cup {k} /\ \A d \in Subvol \ {b} : job'[d] = job[d]
      BY <1>1, <3>1 DEF BrickTyped, Moves
    <3> QED
      BY <3>2
  <2> QED
    BY <2>1, <2>2 DEF Owned
<1>5. ASSUME NEW c \in Frame, NEW a \in Subvol, client[c].pc \in {"ask", "fetch", "done"}
      PROVE  /\ session(c)' = session(c) /\ session(c) \in Session
             /\ session(c) # j.session => Got(c, a)' = Got(c, a)
             /\ Got(c, a)' = Got(c, a) /\ Got(c, a) # 0 => Found(c, a)' = Found(c, a)
             /\ session(c) = j.session => c = f
             /\ a # b => Got(c, a)' = Got(c, a)
  <2>1. /\ session(c) \in Session /\ session(c)[1] = c
        /\ Got(c, a) # 0 => Got(c, a) \in DOMAIN qres[a]
    BY <1>5, SessionIs
  <2>2. session(c)' = session(c)
    BY DEF session
  <2>3. session(c) = j.session => c = f
    <3>1. j \in Sent(f, b) /\ Linked(f, b)
      BY DEF Sent, RowInv
    <3> QED
      BY <2>1, <3>1 DEF Linked
  <2> QED
    BY <2>1, <2>2, <2>3, SMT DEF Got, Found
<1>6. ASSUME NEW c \in Frame, NEW a \in Subvol, ~ (c = f /\ a = b)
      PROVE  Whole(c, a)'
  <2>1. Sent(c, a)' = Sent(c, a) /\ Heard(c, a)' = Heard(c, a)
    BY <1>0, <1>6 DEF Replaced
  <2>2. Whole(c, a) /\ (Good(c, a)' => Good(c, a))
    BY DEF RowInv, Good
  <2>3. client[c].pc \in {"ask", "fetch", "done"} =>
           /\ Got(c, a)' = Got(c, a)
           /\ Got(c, a) # 0 => Found(c, a)' = Found(c, a)
    BY <1>5, <1>6
  <2> QED
    BY <1>1, <2>1, <2>2, <2>3, SameWhole
<1>7. Whole(f, b)'
  <2> SUFFICES ASSUME Good(f, b), client[f].pc \in {"ask", "fetch", "done"}
               PROVE  Whole(f, b)'
    BY RestWhole DEF Whole, Good
  <2>1. Whole(f, b) /\ Linked(f, b) /\ j \in Sent(f, b)
    BY DEF RowInv, Sent
  <2>2. /\ Sent(f, b)' = (Sent(f, b) \ {j}) \cup {k}
        /\ j.live => Heard(f, b)' = (Heard(f, b) \ {j}) \cup {k} /\ j \in Heard(f, b)
        /\ ~ j.live => Heard(f, b)' = Heard(f, b)
        /\ k.session = j.session /\ k.live = j.live
    <3>1. k.session = j.session /\ k.live = j.live
      BY DEF Kept
    <3> QED
      BY <1>0, <3>1 DEF Replaced
  <2>3. session(f)' = session(f)
    BY <1>5
  <2>4. \A x \in Sent(f, b)' : x.session = session(f)' => x.live
    BY <2>1, <2>2, <2>3 DEF Whole
  <2>5. CASE ~ j.live
    <3>1. j.session # session(f)
      BY <2>1, <2>5 DEF Whole
    <3>2. Got(f, b)' = Got(f, b) /\ (Got(f, b) # 0 => Found(f, b)' = Found(f, b))
      BY <1>5, <3>1
    <3>3. Printed(f, b)' = Printed(f, b)
      BY <3>2 DEF Printed
    <3>4. \A rows, cb : Sliced(f, b, rows, cb) => Sliced(f, b, rows, cb)'
      BY <3>2 DEF Sliced
    <3>5. ASSUME NEW x, Served(f, b, x) PROVE Served(f, b, x)'
      <4>1. x.pc = "reply" /\ x.reply.op_ret = 0 =>
              x.reply.whole /\ Sliced(f, b, x.reply.rows, x.reply.comeback)'
        BY <3>4, <3>5 DEF Served
      <4> QED
        BY <3>2, <3>5, <4>1 DEF Served
    <3>6. Fetching(f, b) => Fetching(f, b)'
      <4>1. Heard(f, b)' = Heard(f, b)
        BY <2>2, <2>5
      <4> QED
        BY <1>1, <3>4, <3>5, <4>1 DEF Fetching
    <3> QED
      BY <2>1, <2>4, <3>2, <3>3, <3>6 DEF Whole, At
  <2>6. CASE j.live
    <3>1. At(f, "fetch") /\ call[f][b] = "wound" /\ Current(f, j) /\ Heard(f, b) = {j}
      BY <2>1, <2>2, <2>6, SMT DEF Linked, At
    <3>2. Printed(f, b) /\ Fetching(f, b)
      BY <2>1, <3>1 DEF Whole
    <3>3. Served(f, b, k)' /\ Printed(f, b)' /\ Heard(f, b)' = {k}
      BY <2>2, <2>6, <3>1, <3>2 DEF Fetching
    <3>4. Fetching(f, b)'
      BY <1>1, <3>1, <3>2, <3>3 DEF Fetching
    <3> QED
      BY <2>4, <3>1, <3>3, <3>4 DEF Whole, At
  <2> QED
    BY <2>5, <2>6
<1> QED
  BY <1>2, <1>3, <1>4, <1>6, <1>7 DEF RowInv

\* A step of a brick that builds and registers nothing.
LEMMA PlainRows ==
  ASSUME Inv, RowInv, NEW b \in Subvol, NEW j \in job[b], NEW k, NEW f \in Frame, f = j.frame,
         Kept(k, j), Moves(b, j, k),
         UNCHANGED <<dhtVars, client, ctl, failed, index, qres, qrset>>, Of(b, k.reply.rows),
         j.live /\ At(f, "fetch") /\ Current(f, j) /\ Served(f, b, j) => Served(f, b, k)
  PROVE  RowInv'
<1>1. session(f)' = session(f)
  BY DEF session
<1>2. Got(f, b)' = Got(f, b)
  BY <1>1 DEF Got
<1>3. Found(f, b)' = Found(f, b)
  BY <1>2 DEF Found
<1>4. Printed(f, b)' = Printed(f, b)
  BY <1>2, <1>3 DEF Printed
<1>5. \A rows, cb : Sliced(f, b, rows, cb)' = Sliced(f, b, rows, cb)
  BY <1>2, <1>3 DEF Sliced
<1>6. Served(f, b, k)' = Served(f, b, k)
  BY <1>2, <1>5 DEF Served
<1> QED
  BY <1>4, <1>6, MovedRows

\* An error is no slice.
LEMMA ErrorIs ==
  /\ ErrorReply \in ReplyType /\ ErrorReply.op_ret = 1 /\ ErrorReply.rows = << >>
  /\ \A b : Of(b, ErrorReply.rows)
<1>1. ErrorReply \in ReplyType /\ ErrorReply.op_ret = 1 /\ ErrorReply.rows = << >>
  BY SMT DEF ErrorReply, Reply, ReplyType
<1>2. \A i \in 1 .. Len(<< >>) : FALSE
  BY SMT
<1> QED
  BY <1>1, <1>2 DEF Of

\* The request is answered with an error.
LEMMA ErrorRows ==
  ASSUME Inv, RowInv, NEW b \in Subvol, NEW j \in job[b], Answers(b, j, ErrorReply),
         UNCHANGED <<dhtVars, client, ctl, failed, index, qres, qrset>>
  PROVE  RowInv'
<1>1. PICK k : k = [j EXCEPT !.pc = "reply", !.reply = ErrorReply]
  OBVIOUS
<1>2. j \in JobType /\ j.frame \in Frame
  BY SMT DEF Inv, BrickTyped, JobType
<1>3. Kept(k, j) /\ k.pc = "reply" /\ k.reply = ErrorReply
  BY <1>1, <1>2, ErrorIs DEF JobType, Kept
<1>4. Moves(b, j, k)
  BY <1>1 DEF Answers
<1>5. PICK f \in Frame : f = j.frame
  BY <1>2
<1>6. Served(f, b, k)
  BY <1>3, ErrorIs, SMT DEF Served
<1> QED
  BY <1>3, <1>4, <1>5, <1>6, ErrorIs, PlainRows

\* ims_ipc
LEMMA IpcRows ==
  ASSUME Inv, RowInv, NEW b \in Subvol, NEW j \in job[b], ims_ipc(b, j),
         UNCHANGED <<dhtVars, client, ctl, failed>>
  PROVE  RowInv'
<1>1. /\ j \in JobType /\ j.pc = "ipc" /\ UNCHANGED <<index, fresh, qres, qrset>> /\ j.frame \in Frame
      /\ j.reply \in ReplyType /\ Of(b, j.reply.rows)
  BY SMT DEF ims_ipc, Inv, BrickTyped, JobType, RowInv, Owned
<1>2. PICK f \in Frame : f = j.frame
  BY <1>1
<1>3. CASE Answers(b, j, ErrorReply)
  BY <1>1, <1>3, ErrorRows
<1>4. CASE j.type = "query" /\ j.session # NoSession
  <2>1. j.session \in Session
    BY <1>1, <1>4 DEF JobType
  <2>2. CASE qrset[b][j.session] = 0
    <3>1. PICK k : k = [j EXCEPT !.pc = "query"]
      OBVIOUS
    <3>2. Kept(k, j) /\ k.pc = "query" /\ Moves(b, j, k)
      BY <1>1, <1>4, <2>2, <3>1, KeptPc, SMT DEF Goto, ims_ipc
    <3>3. k.reply = j.reply
      BY <1>1, <3>1 DEF JobType
    <3>4. Current(f, j) => Served(f, b, k)
      BY <2>2, <3>2 DEF Current, Served, Got
    <3> QED
      BY <1>1, <1>2, <3>2, <3>3, <3>4, PlainRows
  <2>3. CASE qrset[b][j.session] # 0
    <3>1. PICK r, k : r = qrset[b][j.session] /\ k = [j EXCEPT !.pc = "slice", !.res = r]
      OBVIOUS
    <3>2. r \in Nat
      BY <2>1, <3>1 DEF Inv, BrickTyped
    <3>3. Kept(k, j) /\ k.pc = "slice" /\ k.res = r /\ k.reply = j.reply
      BY <1>1, <3>1, <3>2 DEF JobType, Kept
    <3>4. Moves(b, j, k)
      BY <1>4, <2>3, <3>1 DEF ims_ipc
    <3>5. Current(f, j) => Served(f, b, k)
      BY <3>1, <3>3 DEF Current, Served, Got
    <3> QED
      BY <1>1, <1>2, <3>3, <3>4, <3>5, PlainRows
  <2> QED
    BY <2>2, <2>3
<1>5. CASE j.type = "exec" /\ Goto(b, j, "exec")
  <2>1. PICK k : k = [j EXCEPT !.pc = "exec"]
    OBVIOUS
  <2>2. Kept(k, j) /\ Moves(b, j, k)
    BY <1>1, <1>5, <2>1, KeptPc DEF Goto
  <2>3. k.reply = j.reply
    BY <1>1, <2>1 DEF JobType
  <2>4. ~ Current(f, j)
    BY <1>5 DEF Current
  <2> QED
    BY <1>1, <1>2, <2>2, <2>3, <2>4, PlainRows
<1> QED
  BY <1>3, <1>4, <1>5 DEF ims_ipc

\* ims_ipc_active_exec
LEMMA ExecRows ==
  ASSUME Inv, RowInv, NEW b \in Subvol, NEW j \in job[b], ims_ipc_active_exec(b, j),
         UNCHANGED <<dhtVars, client, ctl, failed>>
  PROVE  RowInv'
<1>1. /\ j \in JobType /\ j.pc = "exec" /\ UNCHANGED <<index, fresh, qres, qrset>> /\ j.frame \in Frame
      /\ index[b] \in Seq(Row) /\ Of(b, index[b])
  BY SMT DEF ims_ipc_active_exec, Inv, BrickTyped, JobType, RowInv, Owned
<1>2. PICK reply : reply = Reply(0, FALSE, index[b], 0)
  OBVIOUS
<1>3. reply \in ReplyType /\ reply.rows = index[b]
  BY <1>1, <1>2, ReplyTyped DEF Reply
<1>4. CASE Answers(b, j, reply)
  <2>1. PICK k : k = [j EXCEPT !.pc = "reply", !.reply = reply]
    OBVIOUS
  <2>2. Kept(k, j) /\ k.reply = reply
    BY <1>1, <1>3, <2>1 DEF JobType, Kept
  <2>3. Moves(b, j, k)
    BY <1>4, <2>1 DEF Answers
  <2>4. PICK f \in Frame : f = j.frame
    BY <1>1
  <2>5. ~ Served(f, b, j)
    BY <1>1 DEF Served
  <2> QED
    BY <1>1, <1>3, <2>2, <2>3, <2>4, <2>5, PlainRows
<1>5. CASE Answers(b, j, ErrorReply)
  BY <1>1, <1>5, ErrorRows
<1> QED
  BY <1>2, <1>4, <1>5 DEF ims_ipc_active_exec

\* ims_xdb_register_result: nothing had been printed.
LEMMA RegisterRows ==
  ASSUME Inv, RowInv, NEW b \in Subvol, NEW j \in job[b], ims_xdb_register_result(b, j),
         UNCHANGED <<dhtVars, client, ctl, failed>>
  PROVE  RowInv'
<1>1. PICK k : k = [j EXCEPT !.pc = "slice"]
  OBVIOUS
<1>2. /\ j.pc = "register" /\ Moves(b, j, k) /\ UNCHANGED <<index, fresh, qres>>
      /\ qrset' = [qrset EXCEPT ![b][j.session] = j.res]
  BY <1>1 DEF ims_xdb_register_result, Goto
<1>3. j \in JobType /\ j.session \in Session /\ j.res \in 1 .. Len(qres[b]) /\ j.frame \in Frame
  BY <1>2, SMT DEF Inv, Placed, BrickTyped, JobType
<1>4. Kept(k, j) /\ k.pc = "slice" /\ k.res = j.res
  BY <1>1, <1>3, KeptPc, SMT
<1>5. k.reply = j.reply /\ Of(b, j.reply.rows)
  BY <1>1, <1>3 DEF JobType, RowInv, Owned
<1>6. \A a \in Subvol, s \in Session :
        qrset'[a][s] = IF a = b /\ s = j.session THEN j.res ELSE qrset[a][s]
  BY <1>2, <1>3 DEF Inv, BrickTyped
<1>7. PICK f \in Frame : f = j.frame
  BY <1>3
<1>8. ASSUME Current(f, j), Served(f, b, j), Printed(f, b)
      PROVE  Served(f, b, k)' /\ Printed(f, b)'
  <2>1. Got(f, b)' = j.res
    BY <1>3, <1>6, <1>8 DEF Got, Current, session
  <2>2. j.res # 0 /\ qres[b][j.res] \in ResType
    BY <1>3, SMT DEF Inv, BrickTyped
  <2>3. qres[b][j.res].rows \in Seq(Row) /\ Found(f, b)' = qres[b][j.res].rows
    BY <1>2, <2>1, <2>2 DEF ResType, Found
  <2>4. Served(f, b, k)'
    BY <1>4, <2>1 DEF Served
  <2>5. client[f].offset = 0 /\ Shows(client[f].out, b, << >>)
    BY <1>2, <1>8 DEF Served, Printed
  <2>6. PICK rows \in Seq(Row) : rows = qres[b][j.res].rows
    BY <2>3
  <2>7. First(rows, 0) = << >>
    <3>1. 0 \in Nat
      BY SMT
    <3> QED
      BY <3>1, FirstIs
  <2>8. Printed(f, b)'
    BY <2>1, <2>2, <2>3, <2>5, <2>6, <2>7 DEF Printed
  <2> QED
    BY <2>4, <2>8
<1> QED
  BY <1>2, <1>4, <1>5, <1>6, <1>7, <1>8, MovedRows, SMT

\* ims_xdb_direct_query: the result is not registered yet.
LEMMA QueryRows ==
  ASSUME Inv, RowInv, NEW b \in Subvol, NEW j \in job[b], ims_xdb_direct_query(b, j),
         UNCHANGED <<dhtVars, client, ctl, failed>>
  PROVE  RowInv'
<1>1. /\ j.pc = "query" /\ UNCHANGED <<index, fresh, qrset>>
      /\ j \in JobType /\ j.session \in Session /\ j.frame \in Frame /\ Of(b, j.reply.rows)
  BY SMT DEF ims_xdb_direct_query, Inv, Placed, BrickTyped, JobType, RowInv, Owned
<1>2. CASE Answers(b, j, ErrorReply) /\ UNCHANGED qres
  BY <1>1, <1>2, ErrorRows
<1>3. CASE /\ qres' = [qres EXCEPT
                ![b] = Append(@, [rows |-> index[b], handed |-> {}, again |-> {}])]
           /\ Moves(b, j, [j EXCEPT !.pc = "register", !.res = Len(qres[b]) + 1])
  <2>1. PICK new : new = [rows |-> index[b], handed |-> {}, again |-> {}]
    OBVIOUS
  <2>2. PICK r0 : r0 = Len(qres[b]) + 1
    OBVIOUS
  <2>3. PICK k : k = [j EXCEPT !.pc = "register", !.res = r0]
    OBVIOUS
  <2>4. /\ qres' = [qres EXCEPT ![b] = Append(qres[b], new)]
        /\ Moves(b, j, k)
    BY <1>3, <2>1, <2>2, <2>3
  <2>5. qres[b] \in Seq(ResType) /\ index[b] \in Seq(Row) /\ qres \in [Subvol -> Seq(ResType)]
    BY DEF Inv, BrickTyped
  <2>6. new.rows = index[b] /\ new \in ResType
    BY <2>1, <2>5 DEF ResType
  <2>7. /\ r0 \in Nat
        /\ \A r \in DOMAIN qres[b] : Append(qres[b], new)[r] = qres[b][r]
        /\ \A r \in DOMAIN Append(qres[b], new) : r \in DOMAIN qres[b] \/ Append(qres[b], new)[r] = new
    BY <2>2, <2>5, <2>6, SMT
  <2>8. qres'[b] = Append(qres[b], new) /\ \A a \in Subvol \ {b} : qres'[a] = qres[a]
    BY <2>4, <2>5
  <2>9. Kept(k, j) /\ k.pc = "register" /\ k.reply = j.reply
    BY <1>1, <2>3, <2>7 DEF JobType, Kept
  <2>10. \A a \in Subvol : \A r \in DOMAIN qres'[a] :
           qres'[a][r].rows = index[a] \/ (r \in DOMAIN qres[a] /\ qres'[a][r].rows = qres[a][r].rows)
    BY <2>6, <2>7, <2>8
  <2>11. \A a \in Subvol : \A r \in DOMAIN qres[a] : qres'[a][r].rows = qres[a][r].rows
    BY <2>7, <2>8
  <2>12. PICK f \in Frame : f = j.frame
    BY <1>1
  <2>13. ASSUME Served(f, b, j), Printed(f, b)
         PROVE  Served(f, b, k)' /\ Printed(f, b)'
    <3>1. Got(f, b)' = 0 /\ Got(f, b) = 0
      BY <1>1, <2>13 DEF Served, Got, session
    <3> QED
      BY <2>9, <2>13, <3>1 DEF Served, Printed
  <2> QED
    BY <1>1, <2>4, <2>9, <2>10, <2>11, <2>12, <2>13, MovedRows
<1> QED
  BY <1>2, <1>3 DEF ims_xdb_direct_query

-----------------------------------------------------------------------------
\* The calls of a client that is not in the loop.
LEMMA RestLinked ==
  ASSUME NEW c, NEW b, Linked(c, b), client'[c].pc = client[c].pc, client[c].pc # "fetch",
         Sent(c, b)' \subseteq Sent(c, b), Heard(c, b)' \subseteq Heard(c, b)
  PROVE  Linked(c, b)'
BY DEF Linked, At

\* What a client has of its slices, when their results stay.
LEMMA SameSliced ==
  ASSUME NEW c, NEW b, UNCHANGED <<client, ctl, qres, qrset>>
  PROVE  /\ Got(c, b)' = Got(c, b) /\ Found(c, b)' = Found(c, b) /\ Printed(c, b)' = Printed(c, b)
         /\ \A rows, cb : Sliced(c, b, rows, cb)' = Sliced(c, b, rows, cb)
         /\ \A j : Served(c, b, j)' = Served(c, b, j)
<1>1. session(c)' = session(c)
  BY DEF session
<1>2. Got(c, b)' = Got(c, b)
  BY <1>1 DEF Got
<1>3. Found(c, b)' = Found(c, b)
  BY <1>2 DEF Found
<1>4. Printed(c, b)' = Printed(c, b)
  BY <1>2, <1>3 DEF Printed
<1>5. \A rows, cb : Sliced(c, b, rows, cb)' = Sliced(c, b, rows, cb)
  BY <1>2, <1>3 DEF Sliced
<1>6. \A j : Served(c, b, j)' = Served(c, b, j)
  BY <1>2, <1>5 DEF Served
<1> QED
  BY <1>2, <1>3, <1>4, <1>5, <1>6

\* The rows of the reply of b are added to what was merged from another brick.
LEMMA MergedOther ==
  ASSUME Inv, NEW f \in Frame, NEW a \in Subvol, NEW b \in Subvol, a # b, client[f].pc # "idle",
         NEW reply \in ReplyType, Of(b, reply.rows), NEW rows \in Seq(Row), NEW cb \in Nat
  PROVE  /\ Shows(rows, a, << >>) => Shows(rows \o reply.rows, a, << >>)
         /\ Sliced(f, a, rows, cb) => Sliced(f, a, rows \o reply.rows, cb + reply.comeback)
<1>1. reply.rows \in Seq(Row) /\ reply.comeback \in Nat
  BY DEF ReplyType
<1>2. << >> \in Seq(Row)
  BY SMT
<1>3. Shows(rows, a, << >>) => Shows(rows \o reply.rows, a, << >>)
  BY <1>1, <1>2, ShowsMore
<1>4. ASSUME Sliced(f, a, rows, cb) PROVE Sliced(f, a, rows \o reply.rows, cb + reply.comeback)
  <2>1. Found(f, a) \in Seq(Row) /\ client[f].offset \in Nat /\ ctl[f].slice_count \in Nat
    BY <1>4, SessionIs, ClientIs DEF Sliced
  <2>2. PICK sl : sl = Slice(Found(f, a), client[f].offset, ctl[f].slice_count)
    OBVIOUS
  <2>3. sl \in Seq(Row)
    BY <2>1, <2>2, SliceOf
  <2>4. Shows(rows \o reply.rows, a, sl)
    BY <1>1, <1>4, <2>2, <2>3, ShowsMore DEF Sliced
  <2>5. cb + reply.comeback = 0 => cb = 0
    BY <1>1, SMT
  <2> QED
    BY <1>4, <2>2, <2>4, <2>5 DEF Sliced
<1> QED
  BY <1>3, <1>4

\* The slice of b is added.
LEMMA MergedOwn ==
  ASSUME Inv, NEW f \in Frame, NEW b \in Subvol, client[f].pc # "idle", NEW reply \in ReplyType,
         NEW rows \in Seq(Row), NEW cb \in Nat,
         Shows(rows, b, << >>), Sliced(f, b, reply.rows, reply.comeback)
  PROVE  Sliced(f, b, rows \o reply.rows, cb + reply.comeback)
<1>1. reply.rows \in Seq(Row) /\ reply.comeback \in Nat
  BY DEF ReplyType
<1>2. Found(f, b) \in Seq(Row) /\ client[f].offset \in Nat /\ ctl[f].slice_count \in Nat
  BY SessionIs, ClientIs DEF Sliced
<1>3. PICK sl : sl = Slice(Found(f, b), client[f].offset, ctl[f].slice_count)
  OBVIOUS
<1>4. sl \in Seq(Row)
  BY <1>2, <1>3, SliceOf
<1>5. Shows(rows \o reply.rows, b, sl)
  BY <1>1, <1>3, <1>4, ShowsLast DEF Sliced
<1>6. cb + reply.comeback = 0 => reply.comeback = 0
  BY <1>1, SMT
<1> QED
  BY <1>3, <1>5, <1>6 DEF Sliced

\* dht_ipc_cbk with the reply of a request that c waits for.
LEMMA CbkRows ==
  ASSUME Inv, RowInv, NEW b \in Subvol, NEW j \in job[b], j.live, j.pc = "reply",
         NEW f \in Frame, f = j.frame, At(f, "fetch"), dht_ipc_cbk(f, b, j.reply),
         UNCHANGED <<qres, qrset, client, ctl>>, NEW a \in Subvol, Good(f, a)' => Good(f, a),
         j.reply.op_ret # 0 => ~ Good(f, b)',
         a # b => Sent(f, a)' = Sent(f, a) /\ Heard(f, a)' = Heard(f, a),
         Sent(f, b)' \subseteq Sent(f, b), Heard(f, b)' = {}
  PROVE  Linked(f, a)' /\ Whole(f, a)'
<1>1. PICK reply : reply = j.reply
  OBVIOUS
<1>2. reply \in ReplyType /\ Of(b, reply.rows)
  BY <1>1, SMT DEF Inv, BrickTyped, JobType, RowInv, Owned
<1>3. PICK data : data = ipc_data[f]
  OBVIOUS
<1>4. /\ data \in IpcType /\ data.rows \in Seq(Row) /\ data.comeback \in Nat
      /\ client[f].pc # "idle" /\ client[f].pc = "fetch"
  BY <1>3, ClientIs DEF At
<1>5. call \in [Frame -> [Subvol -> CallState]] /\ ipc_data \in [Frame -> IpcType]
  BY DEF Inv, DhtTyped
<1>6. PICK st \in {"merged", "dropped"} : call' = [call EXCEPT ![f][b] = st]
  BY DEF dht_ipc_cbk
<1>7. call'[f][b] = st /\ (a # b => call'[f][a] = call[f][a]) /\ call[f][b] = "wound"
  BY <1>5, <1>6 DEF dht_ipc_cbk
<1>8. IF reply.op_ret = 0 /\ reply.whole
      THEN /\ ipc_data'[f].rows = data.rows \o reply.rows
           /\ ipc_data'[f].comeback = data.comeback + reply.comeback
           /\ st = "merged"
      ELSE ipc_data'[f] = data
  <2>1. CASE reply.op_ret = 0 /\ reply.whole
    <3>1. ipc_data' = [ipc_data EXCEPT ![f] = Merge(ipc_data[f], b, reply)]
          /\ call' = [call EXCEPT ![f][b] = "merged"]
      BY <1>1, <1>5, <2>1 DEF dht_ipc_cbk
    <3>2. ipc_data'[f] = Merge(data, b, reply)
      BY <1>3, <1>5, <3>1
    <3>3. st = "merged"
      BY <1>5, <1>7, <3>1
    <3>4. /\ Merge(data, b, reply).rows = data.rows \o reply.rows
          /\ Merge(data, b, reply).comeback = data.comeback + reply.comeback
      BY <1>4 DEF Merge, IpcType
    <3> QED
      BY <2>1, <3>2, <3>3, <3>4
  <2>2. CASE ~ (reply.op_ret = 0 /\ reply.whole)
    BY <1>1, <1>3, <2>2 DEF dht_ipc_cbk
  <2> QED
    BY <2>1, <2>2
<1>9. Linked(f, a) /\ Linked(f, b) /\ Whole(f, a) /\ Whole(f, b)
  BY DEF RowInv
<1>10. CASE a # b
  <2>1. Linked(f, a)'
    BY <1>7, <1>9, <1>10, SameLinked
  <2>2. ASSUME Good(f, a)
        PROVE  /\ Printed(f, a)' /\ Fetching(f, a)'
               /\ \A x \in Sent(f, a)' : x.session = session(f)' => x.live
    <3>1. Printed(f, a) /\ Fetching(f, a) /\ \A x \in Sent(f, a) : x.session = session(f) => x.live
      BY <1>4, <1>9, <2>2 DEF Whole, At
    <3>2. /\ Shows(data.rows, a, << >>) => Shows(data.rows \o reply.rows, a, << >>)
          /\ Sliced(f, a, data.rows, data.comeback) =>
               Sliced(f, a, data.rows \o reply.rows, data.comeback + reply.comeback)
      BY <1>2, <1>4, <1>10, MergedOther
    <3>3. Printed(f, a)' = Printed(f, a)
      BY SameSliced
    <3>4. \A rows, cb : Sliced(f, a, rows, cb)' = Sliced(f, a, rows, cb)
      <4>1. Got(f, a)' = Got(f, a) /\ Found(f, a)' = Found(f, a)
        BY SameSliced
      <4> QED
        BY <4>1 DEF Sliced
    <3>5. \A x : Served(f, a, x)' = Served(f, a, x)
      BY SameSliced
    <3>6. /\ \A x \in Heard(f, a)' : Served(f, a, x)'
          /\ call'[f][a] = call[f][a] /\ Heard(f, a)' = Heard(f, a)
      BY <1>7, <1>10, <3>1, <3>5 DEF Fetching
    <3>7. CASE call[f][a] = "wound"
      <4>1. Heard(f, a) # {} /\ Shows(data.rows, a, << >>)
        BY <1>3, <3>1, <3>7 DEF Fetching
      <4>2. Shows(ipc_data'[f].rows, a, << >>)
        BY <1>8, <3>2, <4>1
      <4> QED
        BY <1>10, <3>1, <3>3, <3>6, <3>7, <4>1, <4>2 DEF Fetching, session
    <3>8. CASE call[f][a] # "wound"
      <4>1. call[f][a] # "dropped" /\ Sliced(f, a, data.rows, data.comeback)
        BY <1>3, <3>1, <3>8 DEF Fetching
      <4>2. Sliced(f, a, ipc_data'[f].rows, ipc_data'[f].comeback)
        BY <1>8, <3>2, <4>1
      <4>3. Sliced(f, a, ipc_data[f].rows, ipc_data[f].comeback)'
        BY <4>2, SameSliced DEF Sliced
      <4> QED
        BY <1>10, <3>1, <3>3, <3>6, <3>8, <4>1, <4>3 DEF Fetching, session
    <3> QED
      BY <3>7, <3>8
  <2>3. Whole(f, a)'
    BY <1>4, <2>2 DEF Whole, At
  <2> QED
    BY <2>1, <2>3
<1>11. CASE a = b
  <2>1. Linked(f, b)'
    BY <1>7, <1>9 DEF Linked
  <2>2. ASSUME Good(f, b)'
        PROVE  /\ Printed(f, b)' /\ Fetching(f, b)'
               /\ \A x \in Sent(f, b)' : x.session = session(f)' => x.live
    <3>1. reply.op_ret = 0 /\ Good(f, b)
      BY <1>1, <1>11, <2>2
    <3>2. Printed(f, b) /\ Fetching(f, b) /\ \A x \in Sent(f, b) : x.session = session(f) => x.live
      BY <1>4, <1>9, <3>1 DEF Whole, At
    <3>3. j \in Heard(f, b)
      BY DEF Heard, Sent
    <3>4. Served(f, b, j) /\ Shows(data.rows, b, << >>)
      BY <1>3, <1>7, <3>2, <3>3 DEF Fetching
    <3>5. reply.whole /\ Sliced(f, b, reply.rows, reply.comeback)
      BY <1>1, <3>1, <3>4 DEF Served
    <3>6. Sliced(f, b, data.rows \o reply.rows, data.comeback + reply.comeback)
      BY <1>2, <1>4, <3>4, <3>5, MergedOwn
    <3>7. Sliced(f, b, ipc_data'[f].rows, ipc_data'[f].comeback) /\ st = "merged"
      BY <1>8, <3>1, <3>5, <3>6
    <3>8. Sliced(f, b, ipc_data[f].rows, ipc_data[f].comeback)'
      BY <3>7, SameSliced DEF Sliced
    <3>9. Fetching(f, b)'
      BY <1>7, <3>7, <3>8 DEF Fetching
    <3>10. Printed(f, b)'
      BY <3>2, SameSliced
    <3> QED
      BY <3>2, <3>9, <3>10 DEF session
  <2>3. Whole(f, b)'
    BY <1>4, <2>2 DEF Whole, At
  <2> QED
    BY <1>11, <2>1, <2>3
<1> QED
  BY <1>10, <1>11

\* What has come stays the bricks' own.
LEMMA SameOwned ==
  ASSUME NEW b, Owned(b), index'[b] = index[b], qres'[b] = qres[b], job'[b] \subseteq job[b]
  PROVE  Owned(b)'
BY DEF Owned

\* A frame that a call is open for has not been unwound.
LEMMA OpenPending ==
  ASSUME RowInv, NEW f \in Frame, At(f, "fetch"), NEW b \in Subvol,
         call[f][b] \in {"wound", "merged", "dropped"}
  PROVE  result[f] = Pending
BY DEF RowInv, Unwound, Open

\* Deliver
LEMMA DeliverRows ==
  ASSUME Inv, RowInv, NEW b \in Subvol, NEW j \in job[b], Deliver(b, j)
  PROVE  RowInv'
<1>1. /\ j.pc = "reply" /\ job' = [job EXCEPT ![b] = @ \ {j}]
      /\ UNCHANGED <<index, qres, qrset, ctl, client>>
      /\ failed' = IF j.live /\ j.reply.op_ret # 0
                   THEN [failed EXCEPT ![j.frame] = @ \cup {b}] ELSE failed
  BY DEF Deliver
<1>2. PICK f \in Frame : f = j.frame
  BY SMT DEF Inv, BrickTyped, JobType
<1>3. /\ failed \in [Frame -> SUBSET Subvol] /\ job \in [Subvol -> SUBSET JobType]
      /\ \A c \in Frame, a \in Subvol : Linked(c, a) /\ Whole(c, a)
      /\ \A c \in Frame : Unwound(c)
  BY DEF RowInv, Inv, BrickTyped
<1>4. /\ failed' \in [Frame -> SUBSET Subvol] /\ \A c \in Frame : failed[c] \subseteq failed'[c]
      /\ j.live /\ j.reply.op_ret # 0 => b \in failed'[f]
      /\ \A c \in Frame, a \in Subvol : Good(c, a)' => Good(c, a)
  <2>1. failed' \in [Frame -> SUBSET Subvol] /\ \A c \in Frame : failed[c] \subseteq failed'[c]
    BY <1>1, <1>2, <1>3
  <2>2. j.live /\ j.reply.op_ret # 0 => b \in failed'[f]
    BY <1>1, <1>2, <1>3
  <2> QED
    BY <1>1, <2>1, <2>2 DEF Good
<1>5. job'[b] = job[b] \ {j} /\ \A a \in Subvol \ {b} : job'[a] = job[a]
  BY <1>1, <1>3
<1>6. \A a \in Subvol : Owned(a)'
  BY <1>1, <1>5, SameOwned DEF RowInv
<1>7. /\ \A c \in Frame, a \in Subvol : Sent(c, a)' \subseteq Sent(c, a) /\ Heard(c, a)' \subseteq Heard(c, a)
      /\ \A c \in Frame, a \in Subvol : ~ (c = f /\ a = b) =>
           Sent(c, a)' = Sent(c, a) /\ Heard(c, a)' = Heard(c, a)
      /\ ~ j.live => Heard(f, b)' = Heard(f, b)
      /\ Heard(f, b)' = Heard(f, b) \ {j} /\ (j.live => j \in Heard(f, b))
  BY <1>2, <1>5 DEF Sent, Heard
<1>8. ASSUME NEW c \in Frame, call'[c] = call[c], ipc_data'[c] = ipc_data[c], result'[c] = result[c],
             \A a \in Subvol : Heard(c, a)' = Heard(c, a)
      PROVE  Unwound(c)' /\ \A a \in Subvol : Linked(c, a)' /\ Whole(c, a)'
  <2>1. Unwound(c)'
    BY <1>1, <1>3, <1>8, SameUnwound
  <2>2. ASSUME NEW a \in Subvol PROVE Linked(c, a)' /\ Whole(c, a)'
    <3>1. Linked(c, a)'
      BY <1>1, <1>3, <1>7, <1>8, SameLinked
    <3>2. Got(c, a)' = Got(c, a) /\ Found(c, a)' = Found(c, a)
      BY <1>1, SameSliced
    <3>3. Whole(c, a) /\ (Good(c, a)' => Good(c, a)) /\ Sent(c, a)' \subseteq Sent(c, a)
      BY <1>3, <1>4, <1>7
    <3>4. Whole(c, a)'
      BY <1>1, <1>8, <3>2, <3>3, SameWhole
    <3> QED
      BY <3>1, <3>4
  <2> QED
    BY <2>1, <2>2
<1>9. CASE ~ j.live
  <2>1. UNCHANGED <<call, ipc_data, result>>
    BY <1>9 DEF Deliver, dhtVars
  <2>2. \A c \in Frame, a \in Subvol : Heard(c, a)' = Heard(c, a)
    BY <1>7, <1>9
  <2> QED
    BY <1>4, <1>6, <1>8, <2>1, <2>2 DEF RowInv
<1>10. CASE j.live
  <2>1. dht_ipc_cbk(f, b, j.reply) \/ (b = FirstChild /\ default_ipc_cbk(f, j.reply))
    BY <1>2, <1>10 DEF Deliver
  <2>2. \A c \in Frame \ {f} : call'[c] = call[c] /\ ipc_data'[c] = ipc_data[c] /\ result'[c] = result[c]
    BY <2>1, Zenon DEF dht_ipc_cbk, default_ipc_cbk, Inv, DhtTyped
  <2>3. \A c \in Frame \ {f} : Unwound(c)' /\ \A a \in Subvol : Linked(c, a)' /\ Whole(c, a)'
    BY <1>7, <1>8, <2>2
  <2>4. CASE ~ At(f, "fetch")
    <3>1. client[f].pc \in {"exec", "view", "exit"}
      BY <1>3, <1>7, <1>10, <2>4 DEF Linked, At
    <3>2. client'[f].pc \notin {"ask", "fetch", "done"} /\ client'[f].pc = client[f].pc /\ client[f].pc # "fetch"
      BY <1>1, <3>1
    <3>3. Unwound(f)' /\ \A a \in Subvol : Whole(f, a)'
      BY <3>2, RestWhole
    <3>4. \A a \in Subvol : Linked(f, a)'
      BY <1>3, <1>7, <3>2, RestLinked
    <3> QED
      BY <1>4, <1>6, <2>3, <3>3, <3>4 DEF RowInv
  <2>5. CASE At(f, "fetch")
    <3>1. call[f][b] = "wound" /\ Heard(f, b)' = {}
      BY <1>3, <1>7, <1>10, <2>5, SMT DEF Linked
    <3>2. dht_ipc_cbk(f, b, j.reply)
      BY <2>1, <3>1 DEF default_ipc_cbk
    <3>3. Unwound(f)'
      <4>1. result[f] = Pending /\ result' = result
        BY <2>5, <3>1, <3>2, OpenPending DEF dht_ipc_cbk
      <4> QED
        BY <4>1 DEF Unwound
    <3>4. j.reply.op_ret # 0 => ~ Good(f, b)'
      BY <1>4, <1>10 DEF Good
    <3>5. \A a \in Subvol : Linked(f, a)' /\ Whole(f, a)'
      BY <1>1, <1>2, <1>4, <1>7, <1>10, <2>5, <3>1, <3>2, <3>4, CbkRows
    <3> QED
      BY <1>4, <1>6, <2>3, <3>3, <3>5 DEF RowInv
  <2> QED
    BY <2>4, <2>5
<1> QED
  BY <1>9, <1>10

\* Clients whose calls and requests are left alone.
LEMMA OtherRows ==
  ASSUME Inv, RowInv, NEW c \in Frame, NEW a \in Subvol, UNCHANGED <<qres, qrset, ctl, client>>,
         call'[c][a] = call[c][a], ipc_data'[c].rows = ipc_data[c].rows,
         ipc_data'[c].comeback = ipc_data[c].comeback, failed[c] \subseteq failed'[c],
         Sent(c, a)' = Sent(c, a), Heard(c, a)' = Heard(c, a)
  PROVE  Linked(c, a)' /\ Whole(c, a)'
<1>1. Linked(c, a) /\ Whole(c, a) /\ (Good(c, a)' => Good(c, a))
  BY DEF RowInv, Good
<1>2. Got(c, a)' = Got(c, a) /\ Found(c, a)' = Found(c, a)
  BY SameSliced
<1>3. Linked(c, a)'
  BY <1>1, SameLinked
<1>4. Whole(c, a)'
  BY <1>1, <1>2, SameWhole
<1> QED
  BY <1>3, <1>4

\* A call that fails, when b has failed f or f does not wait for it.
LEMMA FailsRows ==
  ASSUME Inv, RowInv, NEW f \in Frame, NEW b \in Subvol, Fails(f, b),
         UNCHANGED <<qres, qrset, ctl, client>>, failed' \in [Frame -> SUBSET Subvol],
         \A c \in Frame : failed[c] \subseteq failed'[c], \A a \in Subvol : Owned(a)',
         \A c \in Frame, a \in Subvol : ~ (c = f /\ a = b) =>
           Sent(c, a)' = Sent(c, a) /\ Heard(c, a)' = Heard(c, a),
         \A x \in Sent(f, b)' : x.session \in Session => x.session[1] = f,
         Heard(f, b)' = {}, Whole(f, b)'
  PROVE  RowInv'
<1>1. /\ ipc_data' = ipc_data /\ call[f][b] \in {"wound", "default"}
      /\ \E st \in {"none", "dropped"} : call' = [call EXCEPT ![f][b] = st]
      /\ call[f][b] = "wound" => result' = result
      /\ \A c \in Frame \ {f} : result'[c] = result[c]
  <2>1. result \in [Frame -> ResultType]
    BY DEF Inv, DhtTyped
  <2>2. CASE dht_ipc_cbk(f, b, ErrorReply)
    <3>1. ~ (ErrorReply.op_ret = 0)
      BY ErrorIs, SMT
    <3> QED
      BY <2>2, <3>1 DEF dht_ipc_cbk
  <2>3. CASE b = FirstChild /\ default_ipc_cbk(f, ErrorReply)
    BY <2>1, <2>3 DEF default_ipc_cbk
  <2> QED
    BY <2>2, <2>3 DEF Fails
<1>2. /\ \A c \in Frame, a \in Subvol : ~ (c = f /\ a = b) => call'[c][a] = call[c][a]
      /\ \A c \in Frame \ {f} : call'[c] = call[c]
      /\ call'[f][b] \in {"none", "dropped"}
  BY <1>1, SMT DEF Inv, DhtTyped
<1>3. \A c \in Frame, a \in Subvol : ~ (c = f /\ a = b) => Linked(c, a)' /\ Whole(c, a)'
  BY <1>1, <1>2, OtherRows
<1>4. Linked(f, b)'
  BY <1>2 DEF Linked
<1>5. \A c \in Frame \ {f} : Unwound(c)'
  BY <1>1, <1>2, SameUnwound DEF RowInv
<1>6. Unwound(f)'
  <2> SUFFICES ASSUME At(f, "fetch")
               PROVE  Unwound(f)'
    BY DEF Unwound, At
  <2>1. call[f][b] = "wound"
    BY <1>1 DEF RowInv, Linked
  <2>2. result'[f] = Pending
    BY <1>1, <2>1, OpenPending
  <2> QED
    BY <2>2 DEF Unwound
<1> QED
  BY <1>3, <1>4, <1>5, <1>6 DEF RowInv

\* The requests of a client that has stopped waiting for b.
LEMMA OrphanSent ==
  ASSUME BrickTyped, NEW b \in Subvol, NEW f \in Frame, Orphan(b, f)
  PROVE  /\ \A c \in Frame, a \in Subvol : ~ (c = f /\ a = b) =>
              Sent(c, a)' = Sent(c, a) /\ Heard(c, a)' = Heard(c, a)
         /\ \A x \in Sent(f, b)' : \E j \in Sent(f, b) : x.session = j.session
         /\ Heard(f, b)' = {}
         /\ \A a \in Subvol : \A x \in job'[a] : \E j \in job[a] : x.reply = j.reply
<1>1. PICK new : new = {[j EXCEPT !.live = j.live /\ j.frame # f] : j \in job[b]}
  OBVIOUS
<1>2. job'[b] = new /\ \A a \in Subvol \ {b} : job'[a] = job[a]
  BY <1>1 DEF Orphan, BrickTyped
<1>3. ASSUME NEW j \in job[b], NEW k, k = [j EXCEPT !.live = j.live /\ j.frame # f]
      PROVE  /\ k.frame = j.frame /\ k.session = j.session /\ k.reply = j.reply
             /\ j.frame # f => k = j
             /\ j.frame = f => k.live = FALSE
  <2>1. j \in JobType
    BY DEF BrickTyped
  <2>2. PICK v : v = (j.live /\ j.frame # f)
    OBVIOUS
  <2>3. v \in BOOLEAN /\ k = [j EXCEPT !.live = v]
    BY <1>3, <2>2
  <2>4. k.frame = j.frame /\ k.session = j.session /\ k.reply = j.reply /\ k.live = v
    BY <2>1, <2>3 DEF JobType
  <2>5. j.frame = f => v = FALSE
    BY <2>2
  <2>6. j.live \in BOOLEAN
    BY <2>1 DEF JobType
  <2>7. ASSUME j.frame # f PROVE k = j
    <3>1. v = j.live
      BY <2>2, <2>6, <2>7
    <3>2. j = [j EXCEPT !.live = j.live]
      BY <2>1 DEF JobType
    <3> QED
      BY <2>3, <3>1, <3>2
  <2> QED
    BY <2>4, <2>5, <2>7
<1>4. \A k \in new : \E j \in job[b] :
        /\ k.frame = j.frame /\ k.session = j.session /\ k.reply = j.reply
        /\ j.frame # f => k = j
        /\ j.frame = f => k.live = FALSE
  BY <1>1, <1>3
<1>5. \A j \in job[b] : j.frame # f => j \in new
  BY <1>1, <1>3
<1>6. \A c \in Frame : c # f => Sent(c, b)' = Sent(c, b)
  BY <1>2, <1>4, <1>5 DEF Sent
<1>7. \A c \in Frame, a \in Subvol : ~ (c = f /\ a = b) => Sent(c, a)' = Sent(c, a)
  BY <1>2, <1>6 DEF Sent
<1>8. \A c \in Frame, a \in Subvol : ~ (c = f /\ a = b) => Heard(c, a)' = Heard(c, a)
  BY <1>7 DEF Heard
<1>9. \A x \in Sent(f, b)' : \E j \in Sent(f, b) : x.session = j.session
  BY <1>2, <1>4 DEF Sent
<1>10. Heard(f, b)' = {}
  BY <1>2, <1>4 DEF Heard, Sent
<1>11. \A a \in Subvol : \A x \in job'[a] : \E j \in job[a] : x.reply = j.reply
  BY <1>2, <1>4
<1> QED
  BY <1>7, <1>8, <1>9, <1>10, <1>11

\* Disconnect
LEMMA DisconnectRows ==
  ASSUME Inv, RowInv, NEW f \in Frame, NEW b \in Subvol, Disconnect(f, b)
  PROVE  RowInv'
<1>1. /\ Fails(f, b) /\ Orphan(b, f) /\ failed' = [failed EXCEPT ![f] = @ \cup {b}]
      /\ UNCHANGED <<index, qres, qrset, ctl, client>> /\ BrickTyped
  BY DEF Disconnect, Inv
<1>2. /\ failed' \in [Frame -> SUBSET Subvol] /\ \A c \in Frame : failed[c] \subseteq failed'[c]
      /\ b \in failed'[f]
  BY <1>1 DEF RowInv
<1>3. \A c \in Frame, a \in Subvol : ~ (c = f /\ a = b) =>
        Sent(c, a)' = Sent(c, a) /\ Heard(c, a)' = Heard(c, a)
  BY <1>1, OrphanSent
<1>4. Heard(f, b)' = {}
  BY <1>1, OrphanSent
<1>5. \A x \in Sent(f, b)' : x.session \in Session => x.session[1] = f
  <2>1. \A x \in Sent(f, b)' : \E j \in Sent(f, b) : x.session = j.session
    BY <1>1, OrphanSent
  <2> QED
    BY <2>1, SMT DEF RowInv, Linked
<1>6. Whole(f, b)'
  BY <1>2 DEF Whole, Good
<1>7. \A a \in Subvol : Owned(a)'
  <2>1. \A a \in Subvol : \A x \in job'[a] : \E j \in job[a] : x.reply = j.reply
    BY <1>1, OrphanSent
  <2> QED
    BY <1>1, <2>1 DEF RowInv, Owned
<1> QED
  BY <1>1, <1>2, <1>3, <1>4, <1>5, <1>6, <1>7, FailsRows

\* Unheard: the brick that f waits for has failed it.
LEMMA UnheardRows ==
  ASSUME Inv, RowInv, NEW f \in Frame, NEW b \in Subvol, Unheard(f, b)
  PROVE  RowInv'
<1>1. /\ Fails(f, b) /\ UNCHANGED <<index, qres, qrset, job, ctl, client, failed>>
      /\ \A j \in job[b] : j.frame # f \/ ~ j.live
  BY DEF Unheard, brickVars
<1>2. \A c \in Frame, a \in Subvol : Sent(c, a)' = Sent(c, a) /\ Heard(c, a)' = Heard(c, a)
  BY <1>1 DEF Sent, Heard
<1>3. Heard(f, b) = {}
  BY <1>1 DEF Heard, Sent
<1>4. Linked(f, b) /\ Whole(f, b) /\ (Good(f, b)' => Good(f, b))
  BY <1>1 DEF RowInv, Good
<1>5. \A x \in Sent(f, b)' : x.session \in Session => x.session[1] = f
  BY <1>2, <1>4 DEF Linked
<1>6. CASE At(f, "fetch")
  <2>1. call[f][b] = "wound"
    BY <1>1, <1>4, <1>6 DEF Fails, dht_ipc_cbk, default_ipc_cbk, Linked
  <2>2. ~ Good(f, b)
    BY <1>3, <1>4, <1>6, <2>1 DEF Whole, Fetching
  <2> QED
    BY <1>1, <1>2, <1>3, <1>4, <1>5, <2>2, FailsRows, SameOwned DEF Whole, RowInv
<1>7. CASE ~ At(f, "fetch")
  <2>1. Got(f, b)' = Got(f, b) /\ Found(f, b)' = Found(f, b)
    BY <1>1, SameSliced
  <2>2. ipc_data' = ipc_data
    <3>1. ~ (ErrorReply.op_ret = 0)
      BY ErrorIs, SMT
    <3> QED
      BY <1>1, <3>1 DEF Fails, dht_ipc_cbk, default_ipc_cbk
  <2>3. Whole(f, b)'
    BY <1>1, <1>2, <1>4, <1>7, <2>1, <2>2, SameWhole
  <2>4. \A a \in Subvol : Owned(a)'
    BY <1>1, SameOwned DEF RowInv
  <2>5. failed' \in [Frame -> SUBSET Subvol] /\ \A c \in Frame : failed[c] \subseteq failed'[c]
    BY <1>1 DEF RowInv
  <2> QED
    BY <1>1, <1>2, <1>3, <1>5, <2>3, <2>4, <2>5, FailsRows
<1> QED
  BY <1>6, <1>7

\* BrickRestart
LEMMA RestartRows ==
  ASSUME Inv, RowInv, NEW b \in Subvol, BrickRestart(b)
  PROVE  RowInv'
<1>1. /\ qrset' = [qrset EXCEPT ![b] = [s \in Session |-> 0]] /\ job' = [job EXCEPT ![b] = {}]
      /\ UNCHANGED <<index, qres, ipc_data, call, result, ctl, client>>
      /\ failed' = [c \in Frame |-> failed[c] \cup {b}]
  BY DEF BrickRestart, Restart, dhtVars
<1>2. /\ job'[b] = {} /\ \A a \in Subvol \ {b} : job'[a] = job[a] /\ qrset'[a] = qrset[a]
      /\ \A c \in Frame : failed'[c] = failed[c] \cup {b}
      /\ failed' \in [Frame -> SUBSET Subvol]
  BY <1>1 DEF Inv, BrickTyped, RowInv
<1>3. \A a \in Subvol : Owned(a)'
  BY <1>1, <1>2, SameOwned DEF RowInv
<1>4. \A c \in Frame : Unwound(c)'
  BY <1>1, SameUnwound DEF RowInv
<1>5. ASSUME NEW c \in Frame PROVE Linked(c, b)' /\ Whole(c, b)'
  <2>1. Sent(c, b)' = {} /\ Heard(c, b)' = {}
    BY <1>2 DEF Sent, Heard
  <2>2. Linked(c, b)
    BY DEF RowInv
  <2> QED
    BY <1>1, <1>2, <2>1, <2>2, SameLinked DEF Whole, Good
<1>6. ASSUME NEW c \in Frame, NEW a \in Subvol, a # b PROVE Linked(c, a)' /\ Whole(c, a)'
  <2>1. Sent(c, a)' = Sent(c, a) /\ Heard(c, a)' = Heard(c, a)
    BY <1>2, <1>6 DEF Sent, Heard
  <2>2. Linked(c, a) /\ Whole(c, a) /\ (Good(c, a)' => Good(c, a))
    BY <1>1, <1>2 DEF RowInv, Good
  <2>3. session(c)' = session(c)
    BY <1>1 DEF session
  <2>4. Got(c, a)' = Got(c, a) /\ Found(c, a)' = Found(c, a)
    BY <1>1, <1>2, <1>6, <2>3 DEF Got, Found
  <2>5. Linked(c, a)'
    BY <1>1, <2>1, <2>2, SameLinked
  <2>6. Whole(c, a)'
    BY <1>1, <2>1, <2>2, <2>4, SameWhole
  <2> QED
    BY <2>5, <2>6
<1> QED
  BY <1>2, <1>3, <1>4, <1>5, <1>6 DEF RowInv

\* Change: the new row is of the brick.
LEMMA ChangeRows ==
  ASSUME Inv, RowInv, NEW b \in Subvol, Change(b)
  PROVE  RowInv'
<1>1. UNCHANGED <<qres, qrset, job, ipc_data, call, result, ctl, client, failed>>
  BY DEF Change, Insert, Remove, dhtVars
<1>2. index \in [Subvol -> Seq(Row)] /\ index[b] \in Seq(Row) /\ <<b, fresh[b]>> \in Row
  BY DEF Inv, BrickTyped, Row
<1>3. Of(b, index[b])
  BY DEF RowInv, Owned
<1>4. (\A a \in Subvol \ {b} : index'[a] = index[a]) /\ Of(b, index'[b])
  <2>1. CASE Insert(b)
    <3>1. PICK row \in Row : row = <<b, fresh[b]>>
      BY <1>2
    <3>2. row[1] = b
      BY <3>1
    <3>3. index' = [index EXCEPT ![b] = Append(index[b], row)]
      BY <2>1, <3>1 DEF Insert
    <3>4. \A i \in 1 .. Len(Append(index[b], row)) :
            Append(index[b], row)[i] = row \/ (i \in 1 .. Len(index[b]) /\ Append(index[b], row)[i] = index[b][i])
      BY <1>2, SMT
    <3> QED
      BY <1>2, <1>3, <3>2, <3>3, <3>4, SMT DEF Of
  <2>2. CASE Remove(b)
    <3>1. index[b] # << >> /\ index' = [index EXCEPT ![b] = Tail(index[b])]
      BY <2>2 DEF Remove
    <3>2. \A i \in 1 .. Len(Tail(index[b])) :
            i + 1 \in 1 .. Len(index[b]) /\ Tail(index[b])[i] = index[b][i + 1]
      BY <1>2, <3>1, SMT
    <3> QED
      BY <1>2, <1>3, <3>1, <3>2 DEF Of
  <2> QED
    BY <2>1, <2>2 DEF Change
<1>5. \A a \in Subvol : Owned(a)'
  BY <1>1, <1>4 DEF RowInv, Owned
<1>6. \A c \in Frame : Unwound(c)'
  BY <1>1, SameUnwound DEF RowInv
<1>7. \A c \in Frame, a \in Subvol : Sent(c, a)' = Sent(c, a) /\ Heard(c, a)' = Heard(c, a)
  BY <1>1 DEF Sent, Heard
<1>8. \A c \in Frame, a \in Subvol : Linked(c, a)' /\ Whole(c, a)'
  BY <1>1, <1>7, OtherRows
<1> QED
  BY <1>1, <1>5, <1>6, <1>8 DEF RowInv

-----------------------------------------------------------------------------
\* A step of one client.
LEMMA OneRows ==
  ASSUME Inv, RowInv, NEW c \in Frame, UNCHANGED <<index, qres, qrset>>,
         failed' \in [Frame -> SUBSET Subvol],
         \A d \in Frame \ {c} :
           /\ client'[d] = client[d] /\ ctl'[d] = ctl[d] /\ failed'[d] = failed[d]
           /\ call'[d] = call[d] /\ ipc_data'[d] = ipc_data[d] /\ result'[d] = result[d]
           /\ \A a \in Subvol : Sent(d, a)' = Sent(d, a),
         \A a \in Subvol : Owned(a)',
         Unwound(c)', \A a \in Subvol : Linked(c, a)' /\ Whole(c, a)'
  PROVE  RowInv'
<1>1. \A d \in Frame \ {c} : Unwound(d)'
  BY SameUnwound DEF RowInv
<1>2. ASSUME NEW d \in Frame \ {c}, NEW a \in Subvol PROVE Linked(d, a)' /\ Whole(d, a)'
  <2>1. Sent(d, a)' = Sent(d, a) /\ Heard(d, a)' = Heard(d, a)
    BY DEF Heard
  <2>2. Linked(d, a) /\ Whole(d, a) /\ (Good(d, a)' => Good(d, a))
    BY DEF RowInv, Good
  <2>3. session(d)' = session(d)
    BY DEF session
  <2>4. Got(d, a)' = Got(d, a)
    BY <2>3 DEF Got
  <2>5. Found(d, a)' = Found(d, a)
    BY <2>4 DEF Found
  <2>6. Linked(d, a)'
    BY <2>1, <2>2, SameLinked
  <2>7. Whole(d, a)'
    BY <2>1, <2>2, <2>4, <2>5, SameWhole
  <2> QED
    BY <2>6, <2>7
<1> QED
  BY <1>1, <1>2 DEF RowInv

\* A client that asks for nothing: it waits for nothing if it was resting.
LEMMA StopRows ==
  ASSUME Inv, RowInv, NEW c \in Frame, UNCHANGED <<dhtVars, brickVars, failed>>,
         \A d \in Frame \ {c} : client'[d] = client[d] /\ ctl'[d] = ctl[d],
         client'[c].pc \notin {"ask", "fetch", "done"},
         \/ client'[c].pc \in {"exec", "view", "exit"}
         \/ \A a \in Subvol : Heard(c, a) = {}
  PROVE  RowInv'
<1>1. UNCHANGED <<ipc_data, call, result, index, qres, qrset, job>>
  BY DEF dhtVars, brickVars
<1>2. \A d \in Frame, a \in Subvol : Sent(d, a)' = Sent(d, a) /\ Heard(d, a)' = Heard(d, a)
  BY <1>1 DEF Sent, Heard
<1>3. \A a \in Subvol : Owned(a)'
  BY <1>1, SameOwned DEF RowInv
<1>4. \A a \in Subvol : Whole(c, a)' /\ Unwound(c)'
  BY RestWhole
<1>5. \A a \in Subvol : Linked(c, a)'
  BY <1>2, SMT DEF RowInv, Linked, At
<1>6. Unwound(c)'
  BY <1>4, FirstChildAssumption
<1>7. failed' \in [Frame -> SUBSET Subvol]
  BY DEF RowInv
<1> QED
  BY <1>1, <1>2, <1>3, <1>4, <1>5, <1>6, <1>7, OneRows

\* A client at rest waits for nothing, and neither does one that has its answer.
LEMMA Unheeded ==
  ASSUME RowInv, NEW c \in Frame, NEW a \in Subvol,
         \/ client[c].pc \in {"idle", "ask", "done", "error"}
         \/ At(c, "fetch") /\ result[c] # Pending
  PROVE  Heard(c, a) = {}
<1>1. Linked(c, a) /\ Unwound(c)
  BY DEF RowInv
<1>2. CASE client[c].pc \in {"idle", "ask", "done", "error"}
  BY <1>1, <1>2 DEF Linked
<1>3. CASE At(c, "fetch") /\ result[c] # Pending
  BY <1>1, <1>3 DEF Linked, Unwound, Open
<1> QED
  BY <1>2, <1>3

\* set_clients and ixsql_cmd_slice
LEMMA CommandRows ==
  ASSUME Inv, RowInv, NEW c \in Frame, Prompt(c), Goes(c, "idle"),
         UNCHANGED <<dhtVars, brickVars, failed>>,
         \A d \in Frame \ {c} : ctl'[d] = ctl[d]
  PROVE  RowInv'
<1>1. client'[c].pc = "idle" /\ \A d \in Frame \ {c} : client'[d] = client[d]
  BY DEF Goes, Inv, ClientTyped, ClientType
<1>2. client[c].pc \in {"idle", "done", "error"}
  BY DEF Prompt, Resting
<1>3. \A a \in Subvol : Heard(c, a) = {}
  BY <1>2, Unheeded
<1>4. client'[c].pc \notin {"ask", "fetch", "done"}
  BY <1>1
<1> QED
  BY <1>1, <1>3, <1>4, StopRows

\* Starts: nothing is known of the next session.
LEMMA StartsRows ==
  ASSUME Inv, Inv', NEW c \in Frame, NEW pc \in ClientPc, Starts(c, pc), UNCHANGED ctl, UNCHANGED qrset,
         pc # "idle", NEW a \in Subvol
  PROVE  /\ qrset'[a][session(c)'] = 0
         /\ \A j \in job[a] : j.session # session(c)'
         /\ client'[c].pc = pc /\ client'[c].offset = 0 /\ client'[c].out = << >>
         /\ \A d \in Frame \ {c} : client'[d] = client[d]
<1>1. /\ client'[c].seq = client[c].seq + 1 /\ client'[c].pc = pc /\ client'[c].offset = 0
      /\ \A d \in Frame \ {c} : client'[d] = client[d]
  BY StartsTyped
<1>2. client'[c].out = << >>
  BY DEF Starts, Inv, ClientTyped
<1>3. client[c].seq \in Nat /\ client'[c].seq \in 1 .. MaxQuery
  BY <1>1, SessionAssumption, SMT DEF Inv, ClientTyped, ClientType
<1>4. PICK s : s = session(c)'
  OBVIOUS
<1>5. s \in Session /\ s[1] = c /\ s[2] = client'[c].seq
  BY <1>3, <1>4, SessionAssumption DEF session
<1>6. ~ (s[2] <= client[s[1]].seq)
  BY <1>1, <1>3, <1>5, SMT
<1>7. qrset[a][s] = 0 /\ \A j \in job[a] : j.session # s
  BY <1>5, <1>6 DEF Inv, Started
<1> QED
  BY <1>1, <1>2, <1>4, <1>7

\* process_sql_sliced
LEMMA SlicedRows ==
  ASSUME Inv, Inv', RowInv, NEW c \in Frame, process_sql_sliced(c)
  PROVE  RowInv'
<1>1. /\ Starts(c, "ask") /\ UNCHANGED <<dhtVars, brickVars, ctl>> /\ "ask" \in ClientPc
      /\ client[c].pc \in {"idle", "done", "error"}
      /\ UNCHANGED <<ipc_data, call, result, index, qres, qrset, job>>
  BY DEF process_sql_sliced, ClientPc, dhtVars, brickVars, Prompt, Resting
<1>2. /\ failed' \in [Frame -> SUBSET Subvol]
      /\ \A d \in Frame \ {c} : failed'[d] = failed[d]
  BY <1>1 DEF RowInv, Starts
<1>3. \A a \in Subvol :
        /\ Got(c, a)' = 0 /\ \A j \in job[a] : j.session # session(c)'
        /\ client'[c].pc = "ask" /\ client'[c].offset = 0 /\ client'[c].out = << >>
        /\ \A d \in Frame \ {c} : client'[d] = client[d]
  BY <1>1, StartsRows DEF Got
<1>4. \A d \in Frame, a \in Subvol : Sent(d, a)' = Sent(d, a) /\ Heard(d, a)' = Heard(d, a)
  BY <1>1 DEF Sent, Heard
<1>5. ASSUME NEW a \in Subvol PROVE Linked(c, a)' /\ Whole(c, a)' /\ Unwound(c)'
  <2>1. Linked(c, a) /\ Heard(c, a) = {}
    BY <1>1, Unheeded DEF RowInv
  <2>2. Linked(c, a)'
    BY <1>3, <1>4, <2>1 DEF Linked, At
  <2>3. Shows(<< >>, a, << >>)
    <3>1. << >> \in Seq(Row) /\ \A k \in 1 .. Len(<< >>) : FALSE
      BY SMT
    <3> QED
      BY <3>1, ShowsNone
  <2>4. Printed(c, a)'
    BY <1>3, <2>3 DEF Printed
  <2>5. Whole(c, a)'
    BY <1>1, <1>3, <2>4 DEF Whole, At, Sent
  <2> QED
    BY <1>3, <2>2, <2>5 DEF Unwound, At
<1>6. \A a \in Subvol : Owned(a)'
  BY <1>1, SameOwned DEF RowInv
<1>7. Unwound(c)' /\ \A d \in Frame \ {c} : client'[d] = client[d]
  BY <1>3, <1>5, FirstChildAssumption
<1> QED
  BY <1>1, <1>2, <1>4, <1>5, <1>6, <1>7, OneRows

\* The requests after it has been wound.
LEMMA WoundSent ==
  ASSUME BrickTyped, NEW c \in Frame, NEW cmask \in SUBSET Subvol, NEW new, new.frame = c, new.live,
         new.reply = ErrorReply, Winds(c, cmask, new), \A b \in Subvol : Owned(b)
  PROVE  /\ UNCHANGED <<index, qres, qrset>>
         /\ \A d \in Frame \ {c} : \A a \in Subvol : Sent(d, a)' = Sent(d, a)
         /\ \A a \in Subvol : Sent(c, a)' = IF a \in cmask THEN Sent(c, a) \cup {new} ELSE Sent(c, a)
         /\ \A a \in Subvol : Heard(c, a)' = IF a \in cmask THEN Heard(c, a) \cup {new} ELSE Heard(c, a)
         /\ \A a \in Subvol : Owned(a)'
<1>1. /\ UNCHANGED <<index, qres, qrset>>
      /\ \A b \in Subvol : job'[b] = IF b \in cmask THEN job[b] \cup {new} ELSE job[b]
  BY DEF Winds
<1>2. \A d \in Frame \ {c} : \A a \in Subvol : Sent(d, a)' = Sent(d, a)
  BY <1>1 DEF Sent
<1>3. \A a \in Subvol : Sent(c, a)' = IF a \in cmask THEN Sent(c, a) \cup {new} ELSE Sent(c, a)
  BY <1>1 DEF Sent
<1>4. \A a \in Subvol : Heard(c, a)' = IF a \in cmask THEN Heard(c, a) \cup {new} ELSE Heard(c, a)
  BY <1>3 DEF Heard
<1>5. ASSUME NEW a \in Subvol PROVE Owned(a)'
  <2>1. \A x \in job'[a] : x \in job[a] \/ x = new
    BY <1>1
  <2>2. Of(a, new.reply.rows)
    BY ErrorIs
  <2> QED
    BY <1>1, <2>1, <2>2 DEF Owned
<1> QED
  BY <1>1, <1>2, <1>3, <1>4, <1>5

\* ixsql_sql_query: each brick of the mask gets the request of the slice.
LEMMA AskRows ==
  ASSUME Inv, RowInv, NEW c \in Frame, ixsql_sql_query(c)
  PROVE  RowInv'
<1>1. client[c].pc = "ask" /\ UNCHANGED <<ctl, failed>> /\ \A a \in Subvol : Heard(c, a) = {}
  BY Unheeded DEF ixsql_sql_query, At
<1>2. CASE ctl[c].cli_mask = {}
  <2>1. Goes(c, "error") /\ UNCHANGED <<dhtVars, brickVars>>
    BY <1>2 DEF ixsql_sql_query
  <2>2. client'[c].pc = "error" /\ \A d \in Frame \ {c} : client'[d] = client[d]
    BY <2>1 DEF Goes, Inv, ClientTyped, ClientType
  <2>3. client'[c].pc \notin {"ask", "fetch", "done"}
    BY <2>2
  <2> QED
    BY <1>1, <2>1, <2>2, <2>3, StopRows
<1>3. CASE ctl[c].cli_mask # {}
  <2>1. PICK mask, new : /\ mask = ctl[c].cli_mask
                         /\ new = Job(c, "query", session(c), client[c].offset, ctl[c].slice_count)
    OBVIOUS
  <2>2. dht_ipc(c, mask) /\ Winds(c, mask, new) /\ Goes(c, "fetch")
    BY <1>3, <2>1 DEF ixsql_sql_query
  <2>3. mask \in SUBSET Subvol
    BY <2>1, ClientIs
  <2>4. /\ new.frame = c /\ new.type = "query" /\ new.session = session(c) /\ new.pc = "ipc"
        /\ new.offset = client[c].offset /\ new.count = ctl[c].slice_count
        /\ new.live = TRUE /\ new.reply = ErrorReply
    BY <2>1 DEF Job
  <2>5. /\ UNCHANGED <<index, qres, qrset>>
        /\ \A d \in Frame \ {c} : \A a \in Subvol : Sent(d, a)' = Sent(d, a)
        /\ \A a \in Subvol : Sent(c, a)' = IF a \in mask THEN Sent(c, a) \cup {new} ELSE Sent(c, a)
        /\ \A a \in Subvol : Heard(c, a)' = IF a \in mask THEN Heard(c, a) \cup {new} ELSE Heard(c, a)
        /\ \A a \in Subvol : Owned(a)'
    BY <2>2, <2>3, <2>4, WoundSent DEF RowInv, Inv
  <2>6. /\ client'[c].pc = "fetch" /\ client'[c].seq = client[c].seq
        /\ client'[c].offset = client[c].offset /\ client'[c].out = client[c].out
        /\ \A d \in Frame \ {c} : client'[d] = client[d]
    BY <2>2 DEF Goes, Inv, ClientTyped, ClientType
  <2>7. /\ \A d \in Frame \ {c} : call'[d] = call[d] /\ ipc_data'[d] = ipc_data[d] /\ result'[d] = result[d]
        /\ \A a \in Subvol : call'[c][a] = IF a \in mask THEN "wound" ELSE "none"
        /\ result'[c] = Pending
        /\ ipc_data'[c] = [NoIpc EXCEPT !.call_cnt = Cardinality(mask)]
    BY <2>2 DEF dht_ipc, Inv, DhtTyped
  <2>8. ipc_data'[c].rows = << >>
    BY <2>7 DEF NoIpc
  <2>9. Unwound(c)'
    BY <2>7 DEF Unwound
  <2>10. session(c)' = session(c) /\ \A a : Got(c, a)' = Got(c, a)
    BY <2>5, <2>6 DEF session, Got
  <2>11. Current(c, new)'
    BY <1>1, <2>4, <2>6, <2>10 DEF Current
  <2>12. ASSUME NEW a \in Subvol PROVE Linked(c, a)' /\ Whole(c, a)'
    <3>1. Linked(c, a) /\ Whole(c, a)
      BY DEF RowInv
    <3>2. \A j \in Sent(c, a)' : j.session \in Session => j.session[1] = c
      <4>1. session(c)[1] = c
        BY DEF session
      <4> QED
        BY <2>4, <2>5, <3>1, <4>1 DEF Linked
    <3>3. Heard(c, a)' = IF a \in mask THEN {new} ELSE {}
      BY <1>1, <2>5
    <3>4. Linked(c, a)'
      BY <2>6, <2>7, <2>11, <3>2, <3>3, SMT DEF Linked
    <3>5. ASSUME Good(c, a)'
          PROVE  /\ Printed(c, a)' /\ Fetching(c, a)'
                 /\ \A j \in Sent(c, a)' : j.session = session(c)' => j.live
      <4>1. a \in mask /\ Good(c, a)
        BY <1>1, <2>1, <3>5 DEF Good
      <4>2. Printed(c, a) /\ \A j \in Sent(c, a) : j.session = session(c) => j.live
        BY <1>1, <3>1, <4>1 DEF Whole, At
      <4>3. \A j \in Sent(c, a)' : j.session = session(c)' => j.live
        BY <2>4, <2>5, <2>10, <4>2
      <4>4. Found(c, a)' = Found(c, a)
        BY <2>5, <2>10 DEF Found
      <4>5. Printed(c, a)'
        BY <2>6, <2>10, <4>2, <4>4 DEF Printed
      <4>6. Served(c, a, new)'
        BY <2>4 DEF Served
      <4>7. Shows(<< >>, a, << >>)
        <5>1. << >> \in Seq(Row) /\ \A k \in 1 .. Len(<< >>) : FALSE
          BY SMT
        <5> QED
          BY <5>1, ShowsNone
      <4>8. Fetching(c, a)'
        BY <2>7, <2>8, <3>3, <4>1, <4>6, <4>7 DEF Fetching
      <4> QED
        BY <4>3, <4>5, <4>8
    <3>6. Whole(c, a)'
      BY <2>6, <3>5 DEF Whole, At
    <3> QED
      BY <3>4, <3>6
  <2>13. failed' \in [Frame -> SUBSET Subvol]
    BY <1>1 DEF RowInv
  <2> QED
    BY <1>1, <2>5, <2>6, <2>7, <2>9, <2>12, <2>13, OneRows
<1> QED
  BY <1>2, <1>3

\* A client that is not in the loop makes a request without a session.
LEMMA OnceRows ==
  ASSUME Inv, Inv', RowInv, NEW c \in Frame, NEW pc \in {"exec", "view"}, Starts(c, pc), UNCHANGED ctl,
         NEW cmask \in SUBSET Subvol, NEW new, new.frame = c, new.live, new.reply = ErrorReply,
         new.session = NoSession, Winds(c, cmask, new),
         \A d \in Frame \ {c} : call'[d] = call[d] /\ ipc_data'[d] = ipc_data[d] /\ result'[d] = result[d]
  PROVE  RowInv'
<1>1. /\ UNCHANGED <<index, qres, qrset>>
      /\ \A d \in Frame \ {c} : \A a \in Subvol : Sent(d, a)' = Sent(d, a)
      /\ \A a \in Subvol : Sent(c, a)' = IF a \in cmask THEN Sent(c, a) \cup {new} ELSE Sent(c, a)
      /\ \A a \in Subvol : Owned(a)'
  BY WoundSent DEF RowInv, Inv
<1>2. pc \in ClientPc
  BY DEF ClientPc
<1>3. client'[c].pc = pc /\ \A d \in Frame \ {c} : client'[d] = client[d]
  BY <1>2, StartsTyped
<1>4. failed' \in [Frame -> SUBSET Subvol] /\ \A d \in Frame \ {c} : failed'[d] = failed[d]
  BY DEF Starts, RowInv
<1>5. client'[c].pc \notin {"ask", "fetch", "done"}
  BY <1>3
<1>6. ASSUME NEW a \in Subvol PROVE Linked(c, a)' /\ Whole(c, a)' /\ Unwound(c)'
  <2>1. Whole(c, a)' /\ Unwound(c)'
    BY <1>5, RestWhole
  <2>2. \A j \in Sent(c, a)' : j.session \in Session => j.session[1] = c
    BY <1>1, SessionAssumption, SMT DEF RowInv, Linked
  <2> QED
    BY <1>3, <2>1, <2>2 DEF Linked, At
<1>7. Unwound(c)'
  BY <1>6, FirstChildAssumption
<1> QED
  BY <1>1, <1>3, <1>4, <1>6, <1>7, OneRows

\* Fetched: the merged slices are printed.
LEMMA FetchedRows ==
  ASSUME Inv, RowInv, NEW c \in Frame, Fetched(c)
  PROVE  RowInv'
<1>1. /\ client[c].pc = "fetch" /\ At(c, "fetch") /\ result[c] # Pending
      /\ UNCHANGED <<dhtVars, brickVars, ctl, failed>>
      /\ UNCHANGED <<ipc_data, call, result, index, qres, qrset, job>>
  BY DEF Fetched, At, dhtVars, brickVars
<1>2. \A a \in Subvol : Heard(c, a) = {}
  BY <1>1, Unheeded
<1>3. CASE result[c].state = "null"
  <2>1. client'[c].pc = "error" /\ \A d \in Frame \ {c} : client'[d] = client[d]
    BY <1>3 DEF Fetched, Goes, Inv, ClientTyped, ClientType
  <2>2. client'[c].pc \notin {"ask", "fetch", "done"}
    BY <2>1
  <2> QED
    BY <1>1, <1>2, <2>1, <2>2, StopRows
<1>4. CASE result[c].state # "null"
  <2>1. PICK rows, cb, off, n : /\ rows = ipc_data[c].rows /\ cb = ipc_data[c].comeback
                                /\ off = client[c].offset /\ n = ctl[c].slice_count
    OBVIOUS
  <2>2. rows \in Seq(Row) /\ cb \in Nat /\ off \in Nat /\ n \in Nat /\ client[c].out \in Seq(Row)
    BY <2>1, ClientIs
  <2>3. Open(c) = {} /\ result[c].rows = rows /\ result[c].comeback = cb
    <3>1. result[c] \in ResultType
      BY DEF Inv, DhtTyped
    <3>2. result[c].state = "dict"
      BY <1>1, <1>4, <3>1 DEF ResultType
    <3> QED
      BY <1>1, <2>1, <3>2 DEF RowInv, Unwound
  <2>4. PICK new : new = [client[c] EXCEPT !.pc = IF cb > 0 THEN "ask" ELSE "done",
                                           !.out = client[c].out \o rows, !.offset = off + n]
    OBVIOUS
  <2>5. client' = [client EXCEPT ![c] = new]
    BY <1>4, <2>1, <2>3, <2>4 DEF Fetched
  <2>6. /\ new.pc = (IF cb > 0 THEN "ask" ELSE "done") /\ new.seq = client[c].seq
        /\ new.out = client[c].out \o rows /\ new.offset = off + n
    BY <2>4 DEF Inv, ClientTyped, ClientType
  <2>7. client'[c] = new /\ \A d \in Frame \ {c} : client'[d] = client[d]
    BY <2>5 DEF Inv, ClientTyped
  <2>8. \A d \in Frame, a \in Subvol : Sent(d, a)' = Sent(d, a) /\ Heard(d, a)' = Heard(d, a)
    BY <1>1 DEF Sent, Heard
  <2>9. session(c)' = session(c) /\ \A a : Got(c, a)' = Got(c, a)
    BY <1>1, <2>6, <2>7 DEF session, Got
  <2>10. \A a : Found(c, a)' = Found(c, a)
    BY <1>1, <2>9 DEF Found
  <2>11. new.pc \in {"ask", "done"}
    BY <2>6
  <2>12. ASSUME NEW a \in Subvol PROVE Linked(c, a)' /\ Whole(c, a)'
    <3>1. Linked(c, a) /\ Whole(c, a)
      BY DEF RowInv
    <3>2. Linked(c, a)'
      BY <1>2, <2>7, <2>8, <2>11, <3>1 DEF Linked, At
    <3>3. ASSUME Good(c, a)'
          PROVE  /\ Got(c, a)' # 0
                 /\ Shows(new.out, a, First(Found(c, a), off + n))
                 /\ cb = 0 => Shows(new.out, a, Found(c, a))
                 /\ \A j \in Sent(c, a) : j.session = session(c) => j.live
      <4>1. a \in ctl[c].cli_mask /\ Good(c, a)
        BY <1>1, <3>3 DEF Good
      <4>2. /\ Printed(c, a) /\ Fetching(c, a)
            /\ \A j \in Sent(c, a) : j.session = session(c) => j.live
        BY <1>1, <3>1, <4>1 DEF Whole
      <4>3. call[c][a] # "wound"
        BY <2>3 DEF Open
      <4>4. Sliced(c, a, rows, cb)
        BY <2>1, <4>2, <4>3 DEF Fetching
      <4>5. Got(c, a) # 0 /\ Found(c, a) \in Seq(Row)
        BY <1>1, <4>4, SessionIs DEF Sliced
      <4>6. PICK found \in Seq(Row) : found = Found(c, a)
        BY <4>5
      <4>7. Shows(client[c].out, a, First(found, off))
        BY <2>1, <4>2, <4>5, <4>6 DEF Printed
      <4>8. Shows(rows, a, Slice(found, off, n)) /\ (cb = 0 => Len(found) <= off + n)
        BY <2>1, <4>4, <4>6 DEF Sliced
      <4>9. Shows(client[c].out \o rows, a, First(found, off + n))
        BY <2>2, <4>7, <4>8, ShowsNext
      <4>10. off + n \in Nat
        BY <2>2, SMT
      <4>11. cb = 0 => First(found, off + n) = found
        BY <4>8, <4>10, FirstIs
      <4> QED
        BY <2>6, <2>9, <4>2, <4>5, <4>6, <4>9, <4>11
    <3>4. Whole(c, a)'
      <4>1. ~ (cb > 0) => cb = 0
        BY <2>2, SMT
      <4>2. CASE new.pc = "ask"
        BY <2>6, <2>7, <2>8, <2>9, <2>10, <3>3, <4>2 DEF Whole, Printed, At
      <4>3. CASE new.pc = "done"
        BY <2>6, <2>7, <2>8, <2>9, <2>10, <3>3, <4>1, <4>3 DEF Whole, At
      <4> QED
        BY <2>11, <4>2, <4>3
    <3> QED
      BY <3>2, <3>4
  <2>13. Unwound(c)'
    BY <2>7, <2>11 DEF Unwound, At
  <2>14. \A a \in Subvol : Owned(a)'
    BY <1>1, SameOwned DEF RowInv
  <2>15. failed' \in [Frame -> SUBSET Subvol]
    BY <1>1 DEF RowInv
  <2> QED
    BY <1>1, <2>7, <2>8, <2>12, <2>13, <2>14, <2>15, OneRows
<1> QED
  BY <1>3, <1>4

\* The steps of the clients.
LEMMA ClientRows ==
  ASSUME Inv, Inv', RowInv, NEW c \in Frame,
         \/ \E cli \in Subvol \cup {"all", "none"} : set_clients(c, cli)
         \/ ixsql_cmd_slice(c)
         \/ process_sql_sliced(c) \/ ixsql_exec(c) \/ meta_imess_view_dir_hook(c)
         \/ ClientStep(c)
  PROVE  RowInv'
<1>1. ASSUME NEW cli \in Subvol \cup {"all", "none"}, set_clients(c, cli) PROVE RowInv'
  BY <1>1, CommandRows DEF set_clients, Inv, ClientTyped
<1>2. CASE ixsql_cmd_slice(c)
  BY <1>2, CommandRows DEF ixsql_cmd_slice, Inv, ClientTyped
<1>3. CASE process_sql_sliced(c)
  BY <1>3, SlicedRows
<1>4. CASE ixsql_exec(c)
  <2>1. PICK new : new = Job(c, "exec", NoSession, 0, 0)
    OBVIOUS
  <2>2. /\ Starts(c, "exec") /\ UNCHANGED ctl /\ Winds(c, ctl[c].cli_mask, new)
        /\ dht_ipc(c, ctl[c].cli_mask)
    BY <1>4, <2>1 DEF ixsql_exec
  <2>3. new.frame = c /\ new.live /\ new.reply = ErrorReply /\ new.session = NoSession
    BY <2>1 DEF Job
  <2>4. ctl[c].cli_mask \in SUBSET Subvol
    BY ClientIs
  <2>5. \A d \in Frame \ {c} : call'[d] = call[d] /\ ipc_data'[d] = ipc_data[d] /\ result'[d] = result[d]
    BY <2>2 DEF dht_ipc, Inv, DhtTyped
  <2> QED
    BY <2>2, <2>3, <2>4, <2>5, OnceRows
<1>5. CASE meta_imess_view_dir_hook(c)
  <2>1. PICK new : new = Job(c, "query", NoSession, 0, 0)
    OBVIOUS
  <2>2. /\ Starts(c, "view") /\ UNCHANGED ctl /\ Winds(c, {FirstChild}, new) /\ default_ipc(c)
    BY <1>5, <2>1 DEF meta_imess_view_dir_hook
  <2>3. new.frame = c /\ new.live /\ new.reply = ErrorReply /\ new.session = NoSession
    BY <2>1 DEF Job
  <2>4. {FirstChild} \in SUBSET Subvol
    BY FirstChildAssumption
  <2>5. \A d \in Frame \ {c} : call'[d] = call[d] /\ ipc_data'[d] = ipc_data[d] /\ result'[d] = result[d]
    BY <2>2 DEF default_ipc, Inv, DhtTyped
  <2> QED
    BY <2>2, <2>3, <2>4, <2>5, OnceRows
<1>6. CASE ixsql_sql_query(c)
  BY <1>6, AskRows
<1>7. CASE Fetched(c)
  BY <1>7, FetchedRows
<1>8. CASE Answered(c)
  <2>1. /\ client'[c].pc = "exit" /\ \A d \in Frame \ {c} : client'[d] = client[d]
        /\ UNCHANGED <<dhtVars, brickVars, ctl, failed>>
    BY <1>8 DEF Answered, Goes, Inv, ClientTyped, ClientType
  <2>2. client'[c].pc \notin {"ask", "fetch", "done"} /\ client'[c].pc \in {"exec", "view", "exit"}
    BY <2>1
  <2> QED
    BY <2>1, <2>2, StopRows
<1> QED
  BY <1>1, <1>2, <1>3, <1>4, <1>5, <1>6, <1>7, <1>8 DEF ClientStep

LEMMA RowInitial ==
  ASSUME Init
  PROVE  RowInv
<1>1. /\ failed = [c \in Frame |-> {}] /\ job = [b \in Subvol |-> {}]
      /\ index = [b \in Subvol |-> [n \in 1 .. InitRows[b] |-> <<b, n>>]]
      /\ qres = [b \in Subvol |-> << >>] /\ client = [c \in Frame |-> Idle]
  BY DEF Init, BrickInit
<1>2. \A c \in Frame : client[c].pc = "idle"
  BY <1>1 DEF Idle
<1>3. \A c \in Frame, b \in Subvol : Sent(c, b) = {} /\ Heard(c, b) = {}
  BY <1>1 DEF Sent, Heard
<1>4. \A c \in Frame, b \in Subvol : Linked(c, b) /\ Whole(c, b) /\ Unwound(c)
  BY <1>2, <1>3 DEF Linked, Whole, Unwound, At
<1>5. ASSUME NEW b \in Subvol PROVE Owned(b)
  <2>1. PICK n \in Nat : n = InitRows[b]
    BY RowsAssumption
  <2>2. index[b] = [i \in 1 .. n |-> <<b, i>>]
    BY <1>1, <2>1
  <2>3. \A i \in 1 .. n : index[b][i][1] = b
    BY <2>2, SMT
  <2>4. Len(index[b]) = n
    BY <2>2, SMT
  <2>5. Of(b, index[b])
    BY <2>3, <2>4 DEF Of
  <2>6. DOMAIN qres[b] = {}
    <3>1. qres[b] = << >>
      BY <1>1
    <3> QED
      BY <3>1, SMT
  <2> QED
    BY <1>1, <2>5, <2>6 DEF Owned
<1>6. \A c \in Frame : Unwound(c)
  BY <1>4, FirstChildAssumption
<1> QED
  BY <1>1, <1>4, <1>5, <1>6 DEF RowInv
=============================================================================
