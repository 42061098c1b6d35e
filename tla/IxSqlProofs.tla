---------------------------- MODULE IxSqlProofs -----------------------------
(***************************************************************************)
(* Proofs about IxSql for any bricks, clients, slices and numbers of       *)
(* requests, faults and changes: every variable has its type, the count of *)
(* calls of dht_ipc is the number of calls that have not returned, no row  *)
(* of a result is given to two replies, and what a query in slices prints  *)
(* from a brick that did not fail is the brick's result.                   *)
(***************************************************************************)
EXTENDS IxRowsProofs, FiniteSetTheorems

\* Most leaves are first-order: Zenon proves them.  A leaf that needs arithmetic,
\* record or sequence reasoning names SMT.
USE Zenon

\* The bricks are finite in number, and so are the calls.
LEMMA OpenFinite ==
  ASSUME NEW f
  PROVE  /\ IsFiniteSet(Open(f))
         /\ Cardinality(Open(f)) \in Nat
         /\ Cardinality(Open(f)) <= Cardinality(Subvol)
         /\ Cardinality(Subvol) \in Nat
<1>1. Open(f) \in SUBSET Subvol
  BY DEF Open
<1> QED
  BY <1>1, FirstChildAssumption, FS_Subset, FS_CardinalityType

\* dht_ipc winds one call to each subvolume of the mask.
LEMMA DhtIpcTyped ==
  ASSUME DhtTyped, NEW f \in Frame, NEW cmask \in SUBSET Subvol, dht_ipc(f, cmask)
  PROVE  /\ DhtTyped'
         /\ \A g \in Frame \ {f} : ipc_data'[g] = ipc_data[g] /\ Open(g)' = Open(g)
         /\ ipc_data'[f].call_cnt = Cardinality(Open(f)')
<1>1. Cardinality(cmask) \in Nat
  BY FirstChildAssumption, FS_Subset, FS_CardinalityType
<1>2. PICK new : new = [NoIpc EXCEPT !.call_cnt = Cardinality(cmask)]
  OBVIOUS
<1>3. new \in IpcType /\ new.call_cnt = Cardinality(cmask)
  <2>1. NoIpc \in IpcType
    BY SMT DEF NoIpc, IpcType
  <2> QED
    BY <1>1, <1>2, <2>1 DEF IpcType
<1>4. PICK calls : calls = [s \in Subvol |-> IF s \in cmask THEN "wound" ELSE "none"]
  OBVIOUS
<1>5. calls \in [Subvol -> CallState]
  BY <1>4 DEF CallState
<1>6. /\ ipc_data' = [ipc_data EXCEPT ![f] = new] /\ call' = [call EXCEPT ![f] = calls]
      /\ result' = [result EXCEPT ![f] = Pending]
  BY <1>2, <1>4 DEF dht_ipc
<1>7. DhtTyped'
  BY <1>3, <1>5, <1>6 DEF DhtTyped, ResultType
<1>8. \A g \in Frame \ {f} : ipc_data'[g] = ipc_data[g] /\ Open(g)' = Open(g)
  BY <1>6 DEF DhtTyped, Open
<1>9. Open(f)' = cmask
  BY <1>4, <1>6 DEF DhtTyped, Open
<1>10. ipc_data'[f].call_cnt = Cardinality(cmask)
  BY <1>3, <1>6 DEF DhtTyped
<1> QED
  BY <1>7, <1>8, <1>9, <1>10

\* The rest of it: the call returns.
LEMMA ReturnTyped ==
  ASSUME DhtTyped, NEW f \in Frame, NEW s \in Subvol, dht_ipc_return(f, s),
         \A g \in Frame : CountOk(g)
  PROVE  /\ DhtTyped'
         /\ \A g \in Frame : CountOk(g)' /\ Open(g)' \subseteq Open(g)
<1>1. /\ call[f][s] \in {"merged", "dropped"}
      /\ ipc_data' = [ipc_data EXCEPT ![f].call_cnt = @ - 1]
      /\ call' = [call EXCEPT ![f][s] = "none"]
  BY DEF dht_ipc_return
<1>2. PICK res \in ResultType : result' = [result EXCEPT ![f] = res]
  <2>1. ipc_data[f] \in IpcType /\ ErrorReply \in ReplyType /\ result[f] \in ResultType
    BY ReplyTyped, SMT DEF DhtTyped, ErrorReply, Reply, ReplyType
  <2>2. Dict(ipc_data[f]) \in ResultType /\ Null(0) \in ResultType
    BY <2>1, IpcTyped
  <2>3. result = [result EXCEPT ![f] = result[f]]
    BY DEF DhtTyped
  <2> QED
    BY <2>1, <2>2, <2>3 DEF dht_ipc_return
<1>3. s \in Open(f) /\ Open(f)' = Open(f) \ {s} /\ \A g \in Frame \ {f} : Open(g)' = Open(g)
  BY <1>1 DEF DhtTyped, Open
<1>4. Cardinality(Open(f)') = Cardinality(Open(f)) - 1
  BY <1>3, OpenFinite, FS_RemoveElement
<1>5. Cardinality(Open(f)') \in Nat
  BY OpenFinite, <1>3, FS_RemoveElement, FS_CardinalityType
<1>6. ipc_data[f] \in IpcType /\ ipc_data[f].call_cnt = Cardinality(Open(f))
  BY DEF DhtTyped, CountOk
<1>7. ipc_data'[f] = [ipc_data[f] EXCEPT !.call_cnt = Cardinality(Open(f)')]
  BY <1>1, <1>4, <1>6 DEF DhtTyped
<1>8. ipc_data'[f] \in IpcType /\ ipc_data'[f].call_cnt = Cardinality(Open(f)')
  BY <1>5, <1>6, <1>7 DEF IpcType
<1>9. /\ \A g \in Frame \ {f} : ipc_data'[g] = ipc_data[g]
      /\ DOMAIN ipc_data' = Frame /\ ipc_data' = [g \in Frame |-> ipc_data'[g]]
  BY <1>1 DEF DhtTyped
<1>10. ipc_data' \in [Frame -> IpcType]
  BY <1>8, <1>9 DEF DhtTyped
<1>11. DhtTyped'
  BY <1>1, <1>2, <1>10 DEF DhtTyped, CallState
<1>12. \A g \in Frame : CountOk(g)'
  BY <1>3, <1>8, <1>9, SMT DEF CountOk
<1> QED
  BY <1>3, <1>11, <1>12

LEMMA SliceCounts ==
  ASSUME NEW rows \in Seq(Row), NEW offset \in Nat, NEW count \in Nat, NEW taken,
         taken = Positions(Len(rows), offset, count)
  PROVE  Cardinality(taken) = IF Len(rows) <= offset THEN 0
                 ELSE IF offset + count <= Len(rows) THEN count ELSE Len(rows) - offset
<1>1. PICK hi \in Nat : /\ hi = IF offset + count <= Len(rows) THEN offset + count ELSE Len(rows)
                        /\ taken = offset + 1 .. hi
  BY SliceSpan
<1>2. PICK n, len : n = Cardinality(taken) /\ len = Len(rows)
  OBVIOUS
<1>3. n = IF offset + 1 > hi THEN 0 ELSE hi - offset
  <2>1. PICK lo \in Int : lo = offset + 1
    BY SMT
  <2>2. Cardinality(lo .. hi) = IF lo > hi THEN 0 ELSE hi - lo + 1
    <3>1. hi \in Int
      BY SMT
    <3> QED
      BY <3>1, FS_Interval
  <2> QED
    BY <1>1, <1>2, <2>1, <2>2, SMT
<1>4. len \in Nat /\ hi = IF offset + count <= len THEN offset + count ELSE len
  BY <1>1, <1>2, SMT
<1>5. n = IF len <= offset THEN 0 ELSE IF offset + count <= len THEN count ELSE len - offset
  BY <1>3, <1>4, SMT
<1> QED
  BY <1>2, <1>5

LEMMA SliceIs ==
  ASSUME NEW rows \in Seq(Row), NEW offset \in Nat, NEW count \in Nat, NEW taken,
         taken = Positions(Len(rows), offset, count)
  PROVE  /\ taken \in SUBSET (1 .. Len(rows)) /\ Cardinality(taken) \in Nat
         /\ \A i \in taken : i \in Nat /\ offset < i /\ i <= offset + count
         /\ \A i \in 1 .. Cardinality(taken) : offset + i \in 1 .. Len(rows)
<1>1. Len(rows) \in Nat
  BY SMT
<1>2. PICK hi \in Nat : /\ hi = IF offset + count <= Len(rows) THEN offset + count ELSE Len(rows)
                        /\ taken = offset + 1 .. hi
  BY SliceSpan
<1>3. PICK n : n = Cardinality(taken)
  OBVIOUS
<1>4. n = IF Len(rows) <= offset THEN 0
          ELSE IF offset + count <= Len(rows) THEN count ELSE Len(rows) - offset
  BY <1>3, SliceCounts
<1>5. n \in Nat /\ \A i \in 1 .. n : offset + i \in 1 .. Len(rows)
  BY <1>1, <1>4, SMT
<1>6. \A i \in taken : i \in Nat /\ offset < i /\ i <= offset + count /\ i \in 1 .. Len(rows)
  BY <1>1, <1>2, SMT
<1> QED
  BY <1>3, <1>5, <1>6

\* ims_ipc_process_query_result: the rows of the slice are handed to the reply.
LEMMA SliceStep ==
  ASSUME BrickTyped, Placed, Started, Handed, NEW b \in Subvol, NEW j \in job[b],
         ims_ipc_process_query_result(b, j), UNCHANGED <<client, ctl>>
  PROVE  BrickTyped' /\ Placed' /\ Started' /\ Handed'
<1>1. PICK r0, rows : r0 = j.res /\ rows = qres[b][j.res].rows
  OBVIOUS
<1>2. PICK taken : taken = Positions(Len(rows), j.offset, j.count)
  OBVIOUS
<1>3. PICK reply, k :
        /\ reply = Reply(0, TRUE, [i \in 1 .. Cardinality(taken) |-> rows[j.offset + i]],
                         IF j.offset + Cardinality(taken) < Len(rows) THEN 1 ELSE 0)
        /\ k = [j EXCEPT !.pc = "reply", !.reply = reply]
  OBVIOUS
<1>4. /\ j.pc = "slice" /\ UNCHANGED <<index, fresh, qrset>>
      /\ qres' = [qres EXCEPT ![b][r0] = Hands(@, taken)]
      /\ Moves(b, j, k)
  BY <1>1, <1>2, <1>3 DEF ims_ipc_process_query_result, Answers
<1>5. /\ j \in JobType /\ j.type = "query" /\ j.session \in Session /\ r0 \in 1 .. Len(qres[b])
      /\ j.offset \in Nat /\ j.count \in Nat
  BY <1>1, <1>4, SMT DEF Placed, BrickTyped, JobType
<1>6. /\ qres \in [Subvol -> Seq(ResType)] /\ qres[b] \in Seq(ResType) /\ Len(qres[b]) \in Nat
      /\ DOMAIN qres[b] = 1 .. Len(qres[b]) /\ qres[b][r0] \in ResType
  BY <1>5, SMT DEF BrickTyped
<1>7. rows \in Seq(Row) /\ qres[b][r0].handed \in SUBSET Nat /\ qres[b][r0].again \in SUBSET Nat
  BY <1>1, <1>6 DEF ResType
<1>8. /\ taken \in SUBSET (1 .. Len(rows)) /\ Cardinality(taken) \in Nat
      /\ [i \in 1 .. Cardinality(taken) |-> rows[j.offset + i]] \in Seq(Row)
      /\ \A i \in taken : i \in Nat /\ Takes(j, i)
  <2>1. PICK off, cnt : off = j.offset /\ cnt = j.count
    OBVIOUS
  <2>2. off \in Nat /\ cnt \in Nat /\ taken = Positions(Len(rows), off, cnt)
    BY <1>2, <1>5, <2>1
  <2>3. /\ taken \in SUBSET (1 .. Len(rows)) /\ Cardinality(taken) \in Nat
        /\ \A i \in taken : i \in Nat /\ off < i /\ i <= off + cnt
        /\ \A i \in 1 .. Cardinality(taken) : off + i \in 1 .. Len(rows)
    BY <1>7, <2>2, SliceIs
  <2>4. [i \in 1 .. Cardinality(taken) |-> rows[off + i]] \in Seq(Row)
    BY <1>7, <2>3, SMT
  <2> QED
    BY <2>1, <2>3, <2>4 DEF Takes
<1>9. reply \in ReplyType
  BY <1>3, <1>8, ReplyTyped
<1>10. Kept(k, j) /\ k.pc = "reply" /\ k.res = j.res
  BY <1>3, <1>5, <1>9 DEF JobType, Kept
<1>11. PICK new : new = Hands(qres[b][r0], taken)
  OBVIOUS
<1>12. /\ new \in ResType /\ new.handed = qres[b][r0].handed \cup taken
       /\ new.again = qres[b][r0].again \cup (taken \cap qres[b][r0].handed)
  <2>1. taken \in SUBSET Nat
    BY <1>8
  <2> QED
    BY <1>6, <1>11, <2>1 DEF Hands, ResType
<1>13. /\ qres' \in [Subvol -> Seq(ResType)] /\ \A a \in Subvol : Len(qres'[a]) = Len(qres[a])
       /\ \A a \in Subvol : DOMAIN qres'[a] = DOMAIN qres[a]
       /\ qres'[b][r0] = new
       /\ \A a \in Subvol : \A r \in DOMAIN qres[a] :
            ~ (a = b /\ r = r0) => qres'[a][r] = qres[a][r]
  <2>1. qres' = [qres EXCEPT ![b] = [qres[b] EXCEPT ![r0] = new]]
    BY <1>4, <1>6, <1>11
  <2>2. PICK seq : seq = [qres[b] EXCEPT ![r0] = new]
    OBVIOUS
  <2>3. /\ seq \in Seq(ResType) /\ Len(seq) = Len(qres[b]) /\ DOMAIN seq = DOMAIN qres[b]
        /\ seq[r0] = new /\ \A r \in DOMAIN qres[b] : r # r0 => seq[r] = qres[b][r]
    BY <1>5, <1>6, <1>12, <2>2, SMT
  <2>4. qres'[b] = seq /\ \A a \in Subvol \ {b} : qres'[a] = qres[a]
    BY <1>6, <2>1, <2>2
  <2>5. qres' \in [Subvol -> Seq(ResType)]
    BY <1>6, <2>1, <2>2, <2>3
  <2> QED
    BY <2>3, <2>4, <2>5
<1>14. BrickTyped'
  BY <1>4, <1>10, <1>13, MovedTyped
<1>15. Placed' /\ Started'
  <2>1. \A a \in Subvol : Len(qres[a]) \in Nat /\ Len(qres'[a]) \in Nat /\ Len(qres[a]) <= Len(qres'[a])
    BY <1>6, <1>13, SMT
  <2>2. k.res <= Len(qres'[b])
    BY <1>1, <1>5, <1>10, <1>13, SMT
  <2> QED
    BY <1>4, <1>10, <2>1, <2>2, MovedPlaced
<1>16. j \in Active(b) /\ Uses(b, j.session, r0)
  BY <1>1, <1>4, <1>5, SessionAssumption DEF Active, Uses
<1>17. /\ \A a \in Subvol : \A x \in Active(a)' : x \in Active(a)
       /\ \A x \in Active(b)' : x # j
  <2>1. k \notin Active(b)'
    BY <1>10 DEF Active
  <2> QED
    BY <1>4, <1>10, <2>1, MovedActive
<1>18. \A a \in Subvol, s \in Session : \A r \in DOMAIN qres[a] : Uses(a, s, r)' => Uses(a, s, r)
  BY <1>4, <1>17 DEF Uses
<1>19. \A c : Asking(c)' = Asking(c) /\ session(c)' = session(c) /\ Bound(c)' = Bound(c)
  BY SameClients
<1>20. OneUser'
  BY <1>13, <1>18 DEF Handed, OneUser
<1>21. Apart' /\ Below'
  BY <1>17, <1>19 DEF Handed, Apart, Below, Takes
<1>22. Unhanded'
  <2> SUFFICES ASSUME NEW a \in Subvol, NEW s \in Session, NEW r \in DOMAIN qres[a],
                      Uses(a, s, r)', NEW i \in qres'[a][r].handed
               PROVE  /\ \A x \in Active(a)' : x.session = s => ~ Takes(x, i)
                      /\ \A c \in Frame : Asking(c)' /\ session(c)' = s => i <= Bound(c)'
    BY <1>13 DEF Unhanded, Takes
  <2>1. Uses(a, s, r)
    BY <1>18
  <2>2. CASE i \in qres[a][r].handed
    BY <1>17, <1>19, <2>1, <2>2 DEF Handed, Unhanded
  <2>3. CASE i \notin qres[a][r].handed
    <3>1. a = b /\ r = r0 /\ i \in taken
      BY <1>12, <1>13, <2>3
    <3>2. s = j.session
      BY <1>5, <1>6, <1>16, <2>1, <3>1 DEF Handed, OneUser
    <3>3. i \in Nat /\ Takes(j, i)
      BY <1>8, <3>1
    <3>4. \A x \in Active(b)' : x.session = s => ~ Takes(x, i)
      BY <1>16, <1>17, <3>2, <3>3 DEF Handed, Apart
    <3>5. \A c \in Frame : Asking(c) /\ session(c) = s => i <= Bound(c)
      BY <1>16, <3>2, <3>3 DEF Handed, Below
    <3> QED
      BY <1>19, <3>1, <3>4, <3>5
  <2> QED
    BY <2>2, <2>3
<1>23. HandedOnce'
  <2>1. taken \cap qres[b][r0].handed = {}
    BY <1>5, <1>6, <1>8, <1>16 DEF Handed, Unhanded
  <2>2. new.again = {}
    BY <1>5, <1>6, <1>12, <2>1 DEF Handed, HandedOnce
  <2> QED
    BY <1>13, <2>2 DEF Handed, HandedOnce
<1> QED
  BY <1>14, <1>15, <1>20, <1>21, <1>22, <1>23 DEF Handed

\* The calls of a client that winds a request.
LEMMA CallsCounted ==
  ASSUME Inv, ClientTyped', NEW c \in Frame, NEW cmask \in SUBSET Subvol, dht_ipc(c, cmask),
         \A d \in Frame \ {c} : client'[d] = client[d], client'[c].seq # 0
  PROVE  DhtTyped' /\ Counted'
<1>1. /\ DhtTyped'
      /\ \A g \in Frame \ {c} : ipc_data'[g] = ipc_data[g] /\ Open(g)' = Open(g)
      /\ ipc_data'[c].call_cnt = Cardinality(Open(c)')
  BY DhtIpcTyped DEF Inv
<1>2. \A g \in Frame : CountOk(g)'
  BY <1>1 DEF CountOk, Inv, Counted
<1>3. \A g \in Frame : client'[g].seq = 0 => Open(g)' = {}
  BY <1>1 DEF Inv, Counted
<1> QED
  BY <1>1, <1>2, <1>3 DEF Counted

\* ixsql_exec
LEMMA ixsqlExecStep ==
  ASSUME Inv, NEW c \in Frame, ixsql_exec(c)
  PROVE  Inv'
<1>1. PICK cmask, new : cmask = ctl[c].cli_mask /\ new = Job(c, "exec", NoSession, 0, 0)
  OBVIOUS
<1>2. /\ Starts(c, "exec") /\ dht_ipc(c, cmask) /\ Winds(c, cmask, new) /\ UNCHANGED ctl
      /\ "exec" \in ClientPc
  BY <1>1 DEF ixsql_exec, ClientPc
<1>3. cmask \in SUBSET Subvol
  BY <1>1 DEF Inv, ClientTyped, CtlType
<1>4. new \in JobType /\ new.pc = "ipc" /\ new.res = 0 /\ new.session = NoSession
  BY <1>1, JobIs, SMT
<1>5. BrickTyped' /\ Placed' /\ Started' /\ Handed'
  BY <1>2, <1>3, <1>4, WindsStep
<1>6. /\ ClientTyped' /\ client'[c].seq = client[c].seq + 1
      /\ \A d \in Frame \ {c} : client'[d] = client[d]
  BY <1>2, StartsTyped
<1>7. client'[c].seq # 0
  BY <1>6, SessionAssumption, SMT DEF Inv, ClientTyped, ClientType
<1>8. DhtTyped' /\ Counted'
  BY <1>2, <1>3, <1>6, <1>7, CallsCounted
<1> QED
  BY <1>5, <1>6, <1>8 DEF Inv

\* ixsql_sql_query
LEMMA AskStep ==
  ASSUME Inv, NEW c \in Frame, ixsql_sql_query(c)
  PROVE  Inv'
<1>1. client[c].pc = "ask" /\ UNCHANGED ctl
  BY DEF ixsql_sql_query, At
<1>2. CASE ctl[c].cli_mask = {}
  <2>1. /\ Goes(c, "error") /\ UNCHANGED <<dhtVars, brickVars>>
        /\ "error" \in ClientPc \ {"ask", "fetch", "idle"}
    BY <1>2 DEF ixsql_sql_query, ClientPc
  <2> QED
    BY <1>1, <2>1, EndStep
<1>3. CASE ctl[c].cli_mask # {}
  <2>1. PICK cmask, new :
          /\ cmask = ctl[c].cli_mask
          /\ new = Job(c, "query", session(c), client[c].offset, ctl[c].slice_count)
    OBVIOUS
  <2>2. dht_ipc(c, cmask) /\ Winds(c, cmask, new) /\ Goes(c, "fetch")
    BY <1>3, <2>1 DEF ixsql_sql_query
  <2>3. /\ cmask \in SUBSET Subvol /\ ctl[c].slice_count \in Nat /\ client[c].offset \in Nat
        /\ client[c].seq \in 1 .. MaxQuery /\ client[c].seq \in Nat
    <3>1. ctl[c] \in CtlType /\ client[c] \in ClientType /\ client[c].seq # 0
      BY <1>1 DEF Inv, ClientTyped
    <3>2. Slices \subseteq Nat /\ MaxQuery \in Nat
      BY SessionAssumption
    <3>3. cmask \in SUBSET Subvol /\ ctl[c].slice_count \in Nat
      BY <2>1, <3>1, <3>2 DEF CtlType
    <3> QED
      BY <3>1, <3>2, <3>3, SMT DEF ClientType
  <2>4. session(c) \in Session /\ session(c)[1] = c /\ session(c)[2] = client[c].seq
    BY <2>3, SessionAssumption DEF session
  <2>5. /\ new \in JobType /\ new.type = "query" /\ new.session = session(c)
        /\ new.offset = client[c].offset /\ new.count = ctl[c].slice_count
        /\ new.pc = "ipc" /\ new.res = 0
    BY <2>1, <2>3, <2>4, JobIs, SMT
  <2>6. /\ client'[c].seq = client[c].seq /\ client'[c].pc = "fetch"
        /\ \A d \in Frame \ {c} : client'[d] = client[d]
        /\ client' \in [Frame -> ClientType]
    BY <2>2 DEF Goes, Inv, ClientTyped, ClientType, ClientPc
  <2>7. ClientTyped'
    BY <1>1, <2>3, <2>6 DEF Inv, ClientTyped
  <2>8. \A d \in Frame : client[d].seq \in Nat
    BY SessionAssumption, SMT DEF Inv, ClientTyped, ClientType
  <2>9. \A d \in Frame : client[d].seq <= client'[d].seq
    BY <2>6, <2>8, SMTT(20)
  <2>10. new.session \in Session => new.session[2] <= client'[new.session[1]].seq
    <3>1. new.session[2] = client[c].seq /\ new.session[1] = c
      BY <2>4, <2>5
    <3> QED
      BY <2>3, <2>6, <3>1, SMT
  <2>11. /\ BrickTyped' /\ Placed' /\ Started'
         /\ \A b \in Subvol : job'[b] = IF b \in cmask THEN job[b] \cup {new} ELSE job[b]
    <3>1. BrickTyped /\ Placed /\ Started /\ ClientTyped
      BY DEF Inv
    <3>2. /\ cmask \in SUBSET Subvol /\ Winds(c, cmask, new)
          /\ new \in JobType /\ new.pc = "ipc" /\ new.res = 0
      BY <2>2, <2>3, <2>5
    <3> QED
      BY <2>7, <2>9, <2>10, <3>1, <3>2, WindsPlaced, Zenon
  <2>12. UNCHANGED <<qres, qrset>>
    BY <2>2 DEF Winds
  <2>13. Handed'
    BY <1>1, <2>2, <2>3, <2>5, <2>7, <2>11, <2>12, AskHanded
  <2>14. client'[c].seq # 0
    BY <2>3, <2>6, SMT
  <2>15. DhtTyped' /\ Counted'
    BY <2>2, <2>3, <2>6, <2>7, <2>14, CallsCounted
  <2> QED
    BY <2>7, <2>11, <2>13, <2>15 DEF Inv
<1> QED
  BY <1>2, <1>3

\* A request moves on a brick.
LEMMA ServeStep ==
  ASSUME Inv, NEW b \in Subvol, NEW j \in job[b], Serve(b, j)
  PROVE  Inv'
<1>1. UNCHANGED <<dhtVars, ctl, client>>
  BY DEF Serve
<1>2. BrickTyped' /\ Placed' /\ Started' /\ Handed'
  <2>1. CASE ims_ipc(b, j)
    BY <1>1, <2>1, IpcStep DEF Inv
  <2>2. CASE ims_xdb_direct_query(b, j)
    BY <1>1, <2>2, QueryStep DEF Inv
  <2>3. CASE ims_xdb_register_result(b, j)
    BY <1>1, <2>3, RegisterStep DEF Inv
  <2>4. CASE ims_ipc_process_query_result(b, j)
    BY <1>1, <2>4, SliceStep DEF Inv
  <2>5. CASE ims_ipc_active_exec(b, j)
    BY <1>1, <2>5, ExecStep DEF Inv
  <2> QED
    BY <2>1, <2>2, <2>3, <2>4, <2>5 DEF Serve
<1>3. ClientTyped'
  BY <1>1 DEF Inv, ClientTyped
<1>4. DhtTyped' /\ Counted'
  BY <1>1 DEF Inv, DhtTyped, Counted, CountOk, Open, dhtVars
<1> QED
  BY <1>2, <1>3, <1>4 DEF Inv

\* The rest of the callback.
LEMMA ReturnStep ==
  ASSUME Inv, NEW f \in Frame, NEW b \in Subvol, Return(f, b)
  PROVE  Inv'
<1>1. dht_ipc_return(f, b) /\ UNCHANGED <<brickVars, ctl, client>>
  BY DEF Return
<1>2. DhtTyped' /\ \A g \in Frame : CountOk(g)' /\ Open(g)' \subseteq Open(g)
  BY <1>1, ReturnTyped DEF Inv, Counted
<1>3. Counted'
  BY <1>1, <1>2 DEF Inv, Counted
<1>4. ClientTyped' /\ BrickTyped' /\ Placed' /\ Started'
  BY <1>1 DEF Inv, ClientTyped, BrickTyped, Placed, Started, brickVars
<1>5. Handed'
  BY <1>1, SameHanded DEF Inv, brickVars
<1> QED
  BY <1>2, <1>3, <1>4, <1>5 DEF Inv

\* The initial states.
LEMMA Initial == Init => Inv
<1> SUFFICES ASSUME Init PROVE Inv
  OBVIOUS
<1> USE DEF Init
<1>1. DhtTyped
  <2>1. NoIpc \in IpcType
    BY SMT DEF NoIpc, IpcType
  <2> QED
    BY <2>1 DEF DhtInit, DhtTyped, ResultType, CallState
<1>2. BrickTyped
  <2>1. \A b \in Subvol : InitRows[b] \in Nat /\ InitRows[b] + 1 \in Nat
    BY RowsAssumption, SMT
  <2>2. \A b \in Subvol : [n \in 1 .. InitRows[b] |-> <<b, n>>] \in Seq(Row)
    BY <2>1, SMT DEF Row
  <2>3. index \in [Subvol -> Seq(Row)] /\ fresh \in [Subvol -> Nat]
    BY <2>1, <2>2 DEF BrickInit
  <2>4. << >> \in Seq(ResType) /\ {} \in SUBSET JobType /\ 0 \in Nat
    BY SMT
  <2>5. qres \in [Subvol -> Seq(ResType)] /\ qrset \in [Subvol -> [Session -> Nat]]
    BY <2>4 DEF BrickInit
  <2>6. job \in [Subvol -> SUBSET JobType]
    BY <2>4 DEF BrickInit
  <2> QED
    BY <2>3, <2>5, <2>6 DEF BrickTyped
<1>3. ClientTyped
  <2>1. PICK n \in Slices : n = CHOOSE m \in Slices : TRUE
    BY SessionAssumption
  <2>2. ctl = [c \in Frame |-> [cli_mask |-> Subvol, slice_count |-> n]]
    BY <2>1
  <2>3. ctl \in [Frame -> CtlType]
    BY <2>2, SMT DEF CtlType
  <2>4. 0 \in 0 .. MaxQuery /\ << >> \in Seq(Row)
    BY SessionAssumption, SMT
  <2>5. Idle \in ClientType /\ Idle.pc = "idle"
    BY <2>4 DEF Idle, ClientType, ClientPc
  <2> QED
    BY <2>3, <2>5 DEF ClientTyped
<1>4. Counted
  <2>1. \A f \in Frame : Open(f) = {} /\ ipc_data[f].call_cnt = 0
    BY DEF DhtInit, Open, NoIpc
  <2>2. Cardinality({}) = 0
    BY FS_EmptySet
  <2> QED
    BY <2>1, <2>2 DEF Counted, CountOk
<1>5. /\ \A b \in Subvol : job[b] = {} /\ qres[b] = << >>
      /\ \A b \in Subvol, s \in Session : qrset[b][s] = 0
  BY DEF BrickInit
<1>6. Placed /\ Started
  BY <1>5, SMT DEF Placed, Started
<1>7. Handed
  <2>1. \A b \in Subvol : Active(b) = {} /\ DOMAIN qres[b] = {}
    BY <1>5, SMT DEF Active
  <2> QED
    BY <2>1 DEF Handed, OneUser, Apart, Below, Unhanded, HandedOnce
<1> QED
  BY <1>1, <1>2, <1>3, <1>4, <1>6, <1>7 DEF Inv

\* Every step keeps the invariant.
LEMMA Steps == Inv /\ [Next]_vars => Inv'
<1> SUFFICES ASSUME Inv, [Next]_vars PROVE Inv'
  OBVIOUS
<1>1. ASSUME NEW c \in Frame, NEW cli \in Subvol \cup {"all", "none"}, set_clients(c, cli)
      PROVE  Inv'
  BY <1>1, ClientsStep
<1>2. ASSUME NEW c \in Frame, ixsql_cmd_slice(c) PROVE Inv'
  <2>1. /\ \E n \in Slices : ctl' = [ctl EXCEPT ![c].slice_count = n]
        /\ Goes(c, "idle") /\ UNCHANGED <<dhtVars, brickVars>>
    BY <1>2 DEF ixsql_cmd_slice
  <2> QED
    BY <2>1, CommandStep
<1>3. ASSUME NEW c \in Frame, process_sql_sliced(c) PROVE Inv'
  BY <1>3, SlicedStep
<1>4. ASSUME NEW c \in Frame, ixsql_exec(c) PROVE Inv'
  BY <1>4, ixsqlExecStep
<1>5. ASSUME NEW c \in Frame, meta_imess_view_dir_hook(c) PROVE Inv'
  BY <1>5, ViewStep
<1>6. ASSUME NEW c \in Frame, ClientStep(c) PROVE Inv'
  BY <1>6, AskStep, FetchedStep, AnsweredStep DEF ClientStep
<1>7. ASSUME NEW b \in Subvol, NEW j \in job[b], Serve(b, j) \/ Deliver(b, j) PROVE Inv'
  BY <1>7, ServeStep, AnsweredCall
<1>8. ASSUME NEW b \in Subvol, NEW f \in Frame, Return(f, b) \/ Disconnect(f, b) \/ Unheard(f, b)
      PROVE  Inv'
  BY <1>8, ReturnStep, DisconnectStep, UnheardStep
<1>9. ASSUME NEW b \in Subvol, BrickRestart(b) \/ Change(b) PROVE Inv'
  BY <1>9, BrickStep
<1>10. CASE Rest \/ UNCHANGED vars
  BY <1>10, StutterStep DEF Rest
<1> QED
  BY <1>1, <1>2, <1>3, <1>4, <1>5, <1>6, <1>7, <1>8, <1>9, <1>10 DEF Next

\* The invariant holds throughout.
LEMMA Invariance == Spec => []Inv
BY Initial, Steps, PTL DEF Spec

\* dht_ipc and ims_ipc: the count of calls of dht_ipc_data_t stays between 0
\* and the number of bricks, a registered result exists, and every variable
\* has its type.
THEOREM QueryTypes == Spec => []TypeOK
<1>1. Inv => TypeOK
  <2> SUFFICES ASSUME Inv PROVE TypeOK
    OBVIOUS
  <2>1. \A f \in Frame : ipc_data[f].call_cnt \in 0 .. Cardinality(Subvol)
    BY OpenFinite, SMT DEF Inv, Counted, CountOk
  <2>2. call \in [Frame -> [Subvol -> CallState]]
    BY DEF Inv, DhtTyped
  <2>3. \A b \in Subvol : \A i \in DOMAIN index[b] : index[b][i] \in Row
    BY SMTT(20) DEF Inv, BrickTyped
  <2>4. \A b \in Subvol : \A s \in Session : qrset[b][s] \in 0 .. Len(qres[b])
    BY SMT DEF Inv, BrickTyped, Placed
  <2>5. \A c \in Frame : ctl[c] \in CtlType /\ client[c] \in ClientType
    BY DEF Inv, ClientTyped
  <2>6. \A c \in Frame : /\ ctl[c].cli_mask \subseteq Subvol /\ ctl[c].slice_count \in Slices
                         /\ client[c].pc \in ClientPc /\ client[c].seq \in 0 .. MaxQuery
    BY <2>5 DEF CtlType, ClientType
  <2> QED
    BY <2>1, <2>2, <2>3, <2>4, <2>6 DEF TypeOK
<1> QED
  BY <1>1, Invariance, PTL

\* ims_ipc_process_query_result: whatever connections break, bricks restart
\* and requests of one session run side by side, no row of a result is given
\* to two replies.
THEOREM RowsHandedOnce == Spec => []HandedOnce
<1>1. Inv => HandedOnce
  BY DEF Inv, Handed
<1> QED
  BY <1>1, Invariance, PTL

-----------------------------------------------------------------------------
(* What the loop prints is whole.                                          *)

\* ims_ipc_process_query_result: the reply is the slice.
LEMMA SliceRows ==
  ASSUME Inv, RowInv, NEW b \in Subvol, NEW j \in job[b], ims_ipc_process_query_result(b, j),
         UNCHANGED <<dhtVars, client, ctl, failed>>
  PROVE  RowInv'
<1>1. PICK r0, rows, off, cnt :
        r0 = j.res /\ rows = qres[b][j.res].rows /\ off = j.offset /\ cnt = j.count
  OBVIOUS
<1>2. PICK taken, n : taken = Positions(Len(rows), off, cnt) /\ n = Cardinality(taken)
  OBVIOUS
<1>3. PICK out, cb : out = [i \in 1 .. n |-> rows[off + i]] /\ cb = IF off + n < Len(rows) THEN 1 ELSE 0
  OBVIOUS
<1>4. PICK reply, k : reply = Reply(0, TRUE, out, cb) /\ k = [j EXCEPT !.pc = "reply", !.reply = reply]
  OBVIOUS
<1>5. /\ j.pc = "slice" /\ UNCHANGED <<index, fresh, qrset>>
      /\ qres' = [qres EXCEPT ![b][r0] = Hands(@, taken)]
      /\ Moves(b, j, k)
  BY <1>1, <1>2, <1>3, <1>4 DEF ims_ipc_process_query_result, Answers
<1>6. /\ j \in JobType /\ j.session \in Session /\ r0 \in 1 .. Len(qres[b])
      /\ off \in Nat /\ cnt \in Nat /\ j.frame \in Frame
  BY <1>1, <1>5, SMT DEF Inv, Placed, BrickTyped, JobType
<1>7. /\ qres \in [Subvol -> Seq(ResType)] /\ qres[b] \in Seq(ResType) /\ r0 \in DOMAIN qres[b]
      /\ qres[b][r0] \in ResType /\ r0 # 0
  BY <1>6, SMT DEF Inv, BrickTyped
<1>8. rows \in Seq(Row) /\ Of(b, rows)
  BY <1>1, <1>7 DEF ResType, RowInv, Owned
<1>9. /\ \A i \in 1 .. n : off + i \in 1 .. Len(rows)
      /\ n = IF Len(rows) <= off THEN 0 ELSE IF off + cnt <= Len(rows) THEN cnt ELSE Len(rows) - off
      /\ n \in Nat
  <2>1. taken = Positions(Len(rows), off, cnt)
    BY <1>2
  <2>2. Cardinality(taken) \in Nat /\ \A i \in 1 .. Cardinality(taken) : off + i \in 1 .. Len(rows)
    BY <1>6, <1>8, <2>1, SliceIs
  <2>3. Cardinality(taken) = IF Len(rows) <= off THEN 0
                             ELSE IF off + cnt <= Len(rows) THEN cnt ELSE Len(rows) - off
    BY <1>6, <1>8, <2>1, SliceCounts
  <2> QED
    BY <1>2, <2>2, <2>3
<1>10. out \in Seq(Row) /\ cb \in Nat /\ Len(out) = n
  BY <1>3, <1>8, <1>9, SMT
<1>11. out = Slice(rows, off, cnt) /\ (cb = 0 => Len(rows) <= off + cnt)
  <2>1. out = Slice(rows, off, cnt)
    BY <1>3, <1>9 DEF Slice
  <2>2. cb = 0 => Len(rows) <= off + cnt
    BY <1>3, <1>6, <1>8, <1>9, SMT
  <2> QED
    BY <2>1, <2>2
<1>12. Of(b, out)
  BY <1>3, <1>8, <1>9, <1>10 DEF Of
<1>13. reply \in ReplyType /\ reply.op_ret = 0 /\ reply.whole /\ reply.rows = out /\ reply.comeback = cb
  BY <1>4, <1>10, ReplyTyped DEF Reply
<1>14. Kept(k, j) /\ k.pc = "reply" /\ k.reply = reply
  BY <1>4, <1>6, <1>13 DEF JobType, Kept
<1>15. PICK new : new = Hands(qres[b][r0], taken)
  OBVIOUS
<1>16. new.rows = rows
  BY <1>1, <1>7, <1>15 DEF Hands, ResType
<1>17. \A a \in Subvol : /\ DOMAIN qres'[a] = DOMAIN qres[a]
                         /\ \A r \in DOMAIN qres[a] : qres'[a][r].rows = qres[a][r].rows
  <2>1. qres' = [qres EXCEPT ![b] = [qres[b] EXCEPT ![r0] = new]]
    BY <1>5, <1>7, <1>15
  <2>2. PICK seq : seq = [qres[b] EXCEPT ![r0] = new]
    OBVIOUS
  <2>3. DOMAIN seq = DOMAIN qres[b] /\ \A r \in DOMAIN qres[b] : seq[r] = IF r = r0 THEN new ELSE qres[b][r]
    BY <1>7, <2>2
  <2>4. qres'[b] = seq /\ \A a \in Subvol \ {b} : qres'[a] = qres[a]
    BY <1>7, <2>1, <2>2
  <2> QED
    BY <1>1, <1>16, <2>3, <2>4
<1>18. PICK f \in Frame : f = j.frame
  BY <1>6
<1>19. ASSUME Current(f, j), Served(f, b, j), Printed(f, b)
       PROVE  Served(f, b, k)' /\ Printed(f, b)'
  <2>1. Got(f, b)' = r0 /\ Got(f, b) = r0
    BY <1>1, <1>5, <1>19 DEF Served, Got, session
  <2>2. Found(f, b)' = rows /\ Found(f, b) = rows
    BY <1>1, <1>7, <1>17, <2>1 DEF Found
  <2>3. Printed(f, b)'
    BY <1>19, <2>1, <2>2 DEF Printed
  <2>4. Shows(out, b, out)
    BY <1>10, ShowsOwn
  <2>5. Sliced(f, b, out, cb)'
    BY <1>1, <1>7, <1>11, <1>19, <2>1, <2>2, <2>4 DEF Sliced, Current
  <2> QED
    BY <1>13, <1>14, <2>3, <2>5 DEF Served
<1>20. \A a \in Subvol : \A r \in DOMAIN qres'[a] :
         qres'[a][r].rows = index[a] \/ (r \in DOMAIN qres[a] /\ qres'[a][r].rows = qres[a][r].rows)
  BY <1>17
<1>21. \A a \in Subvol : \A r \in DOMAIN qres[a] : qres'[a][r].rows = qres[a][r].rows
  BY <1>17
<1>22. Of(b, k.reply.rows)
  BY <1>12, <1>13, <1>14
<1>23. \A a \in Subvol, s \in Session : qrset'[a][s] = qrset[a][s]
  BY <1>5
<1>24. Kept(k, j) /\ Moves(b, j, k) /\ UNCHANGED <<index, dhtVars, client, ctl, failed>>
  BY <1>5, <1>14
<1> QED
  BY <1>18, <1>19, <1>20, <1>21, <1>22, <1>23, <1>24, MovedRows

\* dht_ipc_return
LEMMA ReturnRows ==
  ASSUME Inv, RowInv, NEW f \in Frame, NEW s \in Subvol, Return(f, s)
  PROVE  RowInv'
<1>1. /\ call[f][s] \in {"merged", "dropped"}
      /\ ipc_data' = [ipc_data EXCEPT ![f].call_cnt = @ - 1]
      /\ result' = IF ipc_data[f].call_cnt > 1 THEN result
                   ELSE [result EXCEPT ![f] = IF call[f][s] = "merged"
                                              THEN Dict(ipc_data[f])
                                              ELSE Null(0)]
      /\ call' = [call EXCEPT ![f][s] = "none"]
      /\ UNCHANGED <<index, qres, qrset, job, ctl, client, failed>>
  BY DEF Return, dht_ipc_return, brickVars
<1>2. /\ call \in [Frame -> [Subvol -> CallState]] /\ ipc_data \in [Frame -> IpcType]
      /\ result \in [Frame -> ResultType]
  BY DEF Inv, DhtTyped
<1>3. /\ \A c \in Frame, a \in Subvol : ~ (c = f /\ a = s) => call'[c][a] = call[c][a]
      /\ \A c \in Frame \ {f} : call'[c] = call[c] /\ ipc_data'[c] = ipc_data[c] /\ result'[c] = result[c]
      /\ call'[f][s] = "none"
  BY <1>1, <1>2
<1>4. \A c \in Frame : ipc_data'[c].rows = ipc_data[c].rows /\ ipc_data'[c].comeback = ipc_data[c].comeback
  BY <1>1, <1>2 DEF IpcType
<1>5. \A c \in Frame, a \in Subvol : Sent(c, a)' = Sent(c, a) /\ Heard(c, a)' = Heard(c, a)
  BY <1>1 DEF Sent, Heard
<1>6. \A c \in Frame, a \in Subvol : ~ (c = f /\ a = s) => Linked(c, a)' /\ Whole(c, a)'
  BY <1>1, <1>3, <1>4, <1>5, OtherRows
<1>7. Linked(f, s)' /\ Whole(f, s)'
  <2>1. Linked(f, s) /\ Whole(f, s) /\ (Good(f, s)' => Good(f, s))
    BY <1>1 DEF RowInv, Good
  <2>2. Got(f, s)' = Got(f, s) /\ Found(f, s)' = Found(f, s)
    BY <1>1, SameSliced
  <2>3. call[f][s] # "wound" /\ call'[f][s] \notin {"wound", "dropped", "default"}
    BY <1>1, <1>3
  <2>4. Linked(f, s)'
    BY <1>1, <1>5, <2>1, <2>3, SameLinked
  <2>5. Whole(f, s)'
    BY <1>1, <1>4, <1>5, <2>1, <2>2, <2>3, SameWhole
  <2> QED
    BY <2>4, <2>5
<1>8. \A c \in Frame \ {f} : Unwound(c)'
  BY <1>1, <1>3, SameUnwound DEF RowInv
<1>9. Unwound(f)'
  <2> SUFFICES ASSUME At(f, "fetch"), result'[f] # Pending
               PROVE  Unwound(f)'
    BY <1>1 DEF Unwound, At
  <2>1. result[f] = Pending
    BY <1>1, OpenPending
  <2>2. ~ (ipc_data[f].call_cnt > 1)
    BY <1>1, <2>1
  <2>3. ipc_data[f].call_cnt = Cardinality(Open(f)) /\ IsFiniteSet(Open(f)) /\ Cardinality(Open(f)) \in Nat
    BY OpenFinite DEF Inv, Counted, CountOk
  <2>4. s \in Open(f) /\ Open(f)' = Open(f) \ {s}
    BY <1>1, <1>2 DEF Open
  <2>5. IsFiniteSet(Open(f)') /\ Cardinality(Open(f)') = Cardinality(Open(f)) - 1
        /\ Cardinality(Open(f)') \in Nat
    BY <2>3, <2>4, FS_RemoveElement, FS_CardinalityType, SMT
  <2>6. Cardinality(Open(f)') = 0
    BY <2>2, <2>3, <2>5, SMT
  <2>7. Open(f)' = {}
    BY <2>5, <2>6, FS_EmptySet
  <2>8. result'[f] = IF call[f][s] = "merged" THEN Dict(ipc_data[f]) ELSE Null(0)
    BY <1>1, <1>2, <2>2
  <2>9. result'[f].state = "dict" =>
          result'[f].rows = ipc_data[f].rows /\ result'[f].comeback = ipc_data[f].comeback
    BY <2>8, SMT DEF Dict, Null
  <2> QED
    BY <1>4, <2>7, <2>9 DEF Unwound
<1>10. \A b \in Subvol : Owned(b)'
  BY <1>1, SameOwned DEF RowInv
<1> QED
  BY <1>1, <1>6, <1>7, <1>8, <1>9, <1>10 DEF RowInv

\* Every step.
LEMMA RowSteps ==
  ASSUME Inv, Inv', RowInv, [Next]_vars
  PROVE  RowInv'
<1>1. ASSUME NEW c \in Frame,
             \/ \E cli \in Subvol \cup {"all", "none"} : set_clients(c, cli)
             \/ ixsql_cmd_slice(c)
             \/ process_sql_sliced(c) \/ ixsql_exec(c) \/ meta_imess_view_dir_hook(c)
             \/ ClientStep(c)
      PROVE  RowInv'
  BY <1>1, ClientRows
<1>2. ASSUME NEW b \in Subvol, NEW j \in job[b], Serve(b, j)
      PROVE  RowInv'
  <2>1. UNCHANGED <<dhtVars, client, ctl, failed>>
    BY <1>2 DEF Serve
  <2> QED
    BY <1>2, <2>1, IpcRows, QueryRows, RegisterRows, SliceRows, ExecRows DEF Serve
<1>3. ASSUME NEW b \in Subvol, NEW j \in job[b], Deliver(b, j)
      PROVE  RowInv'
  BY <1>3, DeliverRows
<1>4. ASSUME NEW b \in Subvol, NEW f \in Frame, Return(f, b) \/ Disconnect(f, b) \/ Unheard(f, b)
      PROVE  RowInv'
  BY <1>4, ReturnRows, DisconnectRows, UnheardRows
<1>5. ASSUME NEW b \in Subvol, BrickRestart(b) \/ Change(b)
      PROVE  RowInv'
  BY <1>5, RestartRows, ChangeRows
<1>6. CASE UNCHANGED vars
  <2>1. /\ UNCHANGED <<ipc_data, call, result, index, qres, qrset, job, ctl, client, failed>>
    BY <1>6 DEF vars, dhtVars, brickVars
  <2>2. \A c \in Frame, a \in Subvol : Sent(c, a)' = Sent(c, a) /\ Heard(c, a)' = Heard(c, a)
    BY <2>1 DEF Sent, Heard
  <2>3. \A c \in Frame, a \in Subvol : Linked(c, a)' /\ Whole(c, a)'
    BY <2>1, <2>2, OtherRows
  <2>4. \A c \in Frame : Unwound(c)'
    BY <2>1, SameUnwound DEF RowInv
  <2>5. \A a \in Subvol : Owned(a)'
    BY <2>1, SameOwned DEF RowInv
  <2> QED
    BY <2>1, <2>3, <2>4, <2>5 DEF RowInv
<1> QED
  BY <1>1, <1>2, <1>3, <1>4, <1>5, <1>6 DEF Next, Rest

\* process_sql_sliced, with slices fetched over connections that break from bricks
\* that restart while their rows change: when the loop ends without an error, what
\* it printed from a brick that did not fail is the result of its session, whole
\* and in order.
THEOREM RowsArriveWhole == Spec => []RowsWhole
<1>1. RowInv => RowsWhole
  BY DEF RowInv, RowsWhole, Whole, Good, Got, Found
<1>2. Inv /\ RowInv /\ [Next]_vars => Inv' /\ RowInv'
  BY Steps, RowSteps
<1>3. Init => Inv /\ RowInv
  BY Initial, RowInitial
<1> QED
  BY <1>1, <1>2, <1>3, PTL DEF Spec
=============================================================================
