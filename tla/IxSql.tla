-------------------------------- MODULE IxSql --------------------------------
(***************************************************************************)
(* ixsql asks the bricks through DHT.  A select is fetched in slices under *)
(* a new session: every brick is asked for the rows from offset to         *)
(* offset + slice - 1 until no brick says come back.  Active execution and *)
(* the lookup of a view directory by the meta translator are one request   *)
(* each.  Connections break and bricks restart at any moment.              *)
(***************************************************************************)
EXTENDS ImsQuery

CONSTANTS
  Slices,     \* slice sizes
  MaxQuery,   \* bound: requests made by one client
  MaxFault    \* bound: broken connections and restarts

\* ixsql_new_session_id: host, process and a sequence number.
ASSUME SessionAssumption ==
  /\ Session = Frame \X (1 .. MaxQuery)
  /\ NoSession \notin Session
  /\ Slices \subseteq Nat /\ Slices # {}
  /\ MaxQuery \in Nat

VARIABLES
  ctl,      \* each client's settings: cli_mask and slice_count
  client,   \* each client's loop, and what it has printed
  failed,   \* history: bricks that failed the client's current request
  faults

vars == <<dhtVars, brickVars, ctl, client, failed, faults>>

Idle == [pc |-> "idle", seq |-> 0, offset |-> 0, out |-> << >>]

Init ==
  /\ DhtInit
  /\ BrickInit
  /\ ctl = [c \in Frame |-> [cli_mask |-> Subvol,
                             slice_count |-> CHOOSE n \in Slices : TRUE]]
  /\ client = [c \in Frame |-> Idle]
  /\ failed = [c \in Frame |-> {}]
  /\ faults = 0

At(c, pc) == client[c].pc = pc

Resting(c) == client[c].pc \in {"idle", "done", "error"}

Goes(c, pc) == client' = [client EXCEPT ![c].pc = pc]

\* At the prompt of ixsql, with requests still to come.
Prompt(c) == Resting(c) /\ client[c].seq < MaxQuery

-----------------------------------------------------------------------------
(* Commands.  They are given between requests.                             *)

\* ".client all", ".client none" and ".client n"
set_clients(c, cli) ==
  /\ Prompt(c)
  /\ ctl' = [ctl EXCEPT ![c].cli_mask =
               CASE cli = "all"  -> Subvol
                 [] cli = "none" -> {}
                 [] OTHER -> IF cli \in @ THEN @ \ {cli} ELSE @ \cup {cli}]
  /\ Goes(c, "idle")
  /\ UNCHANGED <<dhtVars, brickVars, failed, faults>>

ixsql_cmd_slice(c) ==
  /\ Prompt(c)
  /\ \E n \in Slices : ctl' = [ctl EXCEPT ![c].slice_count = n]
  /\ Goes(c, "idle")
  /\ UNCHANGED <<dhtVars, brickVars, failed, faults>>

-----------------------------------------------------------------------------
(* Requests.                                                               *)

Starts(c, pc) ==
  /\ Resting(c)
  /\ client[c].seq < MaxQuery
  /\ client' = [client EXCEPT
       ![c] = [pc |-> pc, seq |-> @.seq + 1, offset |-> 0, out |-> << >>]]
  /\ failed' = [failed EXCEPT ![c] = {}]

process_sql_sliced(c) ==
  /\ Prompt(c)
  /\ Starts(c, "ask")
  /\ UNCHANGED <<dhtVars, brickVars, ctl, faults>>

session(c) == <<c, client[c].seq>>

Winds(c, cmask, request) ==
  /\ job' = [b \in Subvol |-> IF b \in cmask THEN job[b] \cup {request} ELSE job[b]]
  /\ UNCHANGED <<index, fresh, qres, qrset>>

\* Mutant: without an active client it waits for one.
Bugixsql_sql_query(c) ==
  /\ At(c, "ask")
  /\ IF ctl[c].cli_mask = {}
     THEN UNCHANGED <<dhtVars, brickVars, client>>
     ELSE /\ dht_ipc(c, ctl[c].cli_mask)
          /\ Winds(c, ctl[c].cli_mask,
                   Job(c, "query", session(c), client[c].offset,
                       ctl[c].slice_count))
          /\ Goes(c, "fetch")
  /\ UNCHANGED <<ctl, failed, faults>>

\* Without an active client there is no request and no result, which ends
\* the loop.
ixsql_sql_query(c) ==
  /\ At(c, "ask")
  /\ IF ctl[c].cli_mask = {}
     THEN /\ Goes(c, "error")
          /\ UNCHANGED <<dhtVars, brickVars>>
     ELSE /\ dht_ipc(c, ctl[c].cli_mask)
          /\ Winds(c, ctl[c].cli_mask,
                   Job(c, "query", session(c), client[c].offset,
                       ctl[c].slice_count))
          /\ Goes(c, "fetch")
  /\ UNCHANGED <<ctl, failed, faults>>

\* The body of the loop after ixsql_sql_query returns.
Fetched(c) ==
  /\ At(c, "fetch")
  /\ result[c] # Pending
  /\ IF result[c].state = "null"
     THEN Goes(c, "error")
     ELSE client' = [client EXCEPT
            ![c].pc = IF result[c].comeback > 0 THEN "ask" ELSE "done",
            ![c].out = @ \o result[c].rows,
            ![c].offset = @ + ctl[c].slice_count]
  /\ UNCHANGED <<dhtVars, brickVars, ctl, failed, faults>>

\* Option --exec: the only request of its process.  The options that set the
\* mask leave at least one client in it.
ixsql_exec(c) ==
  /\ Prompt(c)
  /\ client[c].seq = 0
  /\ ctl[c].cli_mask # {}
  /\ Starts(c, "exec")
  /\ dht_ipc(c, ctl[c].cli_mask)
  /\ Winds(c, ctl[c].cli_mask, Job(c, "exec", NoSession, 0, 0))
  /\ UNCHANGED <<ctl, faults>>

\* The caller is a mount, and looks a view up: "clients" is set in the
\* request, the mask is not.
meta_imess_view_dir_hook(c) ==
  /\ At(c, "idle")
  /\ client[c].seq = 0
  /\ Starts(c, "view")
  /\ default_ipc(c)
  /\ Winds(c, {FirstChild}, Job(c, "query", NoSession, 0, 0))
  /\ UNCHANGED <<ctl, faults>>

\* ixsql exits, or the lookup of the view ends.
Answered(c) ==
  /\ client[c].pc \in {"exec", "view"}
  /\ result[c] # Pending
  /\ Goes(c, "exit")
  /\ UNCHANGED <<dhtVars, brickVars, ctl, failed, faults>>

-----------------------------------------------------------------------------
Serve(b, j) ==
  /\ \/ ims_ipc(b, j)
     \/ ims_xdb_direct_query(b, j)
     \/ ims_xdb_register_result(b, j)
     \/ ims_ipc_process_query_result(b, j)
     \/ ims_ipc_active_exec(b, j)
  /\ UNCHANGED <<dhtVars, ctl, client, failed, faults>>

Deliver(b, j) ==
  /\ j.pc = "reply"
  /\ job' = [job EXCEPT ![b] = @ \ {j}]
  /\ IF j.live
     THEN \/ dht_ipc_cbk(j.frame, b, j.reply)
          \/ b = FirstChild /\ default_ipc_cbk(j.frame, j.reply)
     ELSE UNCHANGED dhtVars
  /\ failed' = IF j.live /\ j.reply.op_ret # 0
               THEN [failed EXCEPT ![j.frame] = @ \cup {b}] ELSE failed
  /\ UNCHANGED <<index, fresh, qres, qrset, ctl, client, faults>>

Return(f, s) ==
  /\ dht_ipc_return(f, s)
  /\ UNCHANGED <<brickVars, ctl, client, failed, faults>>

Fails(f, b) ==
  \/ dht_ipc_cbk(f, b, ErrorReply)
  \/ b = FirstChild /\ default_ipc_cbk(f, ErrorReply)

\* protocol/client unwinds the call with ENOTCONN.
Disconnect(f, b) ==
  /\ faults < MaxFault
  /\ faults' = faults + 1
  /\ Fails(f, b)
  /\ Orphan(b, f)
  /\ failed' = [failed EXCEPT ![f] = @ \cup {b}]
  /\ UNCHANGED <<index, fresh, qres, qrset, ctl, client>>

\* Clients that wait for the brick notice on their own; see Unheard.
BrickRestart(b) ==
  /\ faults < MaxFault
  /\ faults' = faults + 1
  /\ Restart(b)
  /\ failed' = [c \in Frame |-> failed[c] \cup {b}]
  /\ UNCHANGED <<dhtVars, ctl, client>>

\* The call of a client whose request died with the brick.
Unheard(f, b) ==
  /\ \A j \in job[b] : j.frame # f \/ ~j.live
  /\ Fails(f, b)
  /\ UNCHANGED <<brickVars, ctl, client, failed, faults>>

\* Every client is done; the end of a bounded run.
Rest ==
  /\ \A c \in Frame : At(c, "exit") \/ (Resting(c) /\ client[c].seq = MaxQuery)
  /\ UNCHANGED vars

Change(b) ==
  /\ Insert(b) \/ Remove(b)
  /\ UNCHANGED <<dhtVars, ctl, client, failed, faults>>

ClientStep(c) == ixsql_sql_query(c) \/ Fetched(c) \/ Answered(c)

Next ==
  \/ \E c \in Frame :
       \/ \E cli \in Subvol \cup {"all", "none"} : set_clients(c, cli)
       \/ ixsql_cmd_slice(c)
       \/ process_sql_sliced(c) \/ ixsql_exec(c)
       \/ meta_imess_view_dir_hook(c)
       \/ ClientStep(c)
  \/ \E b \in Subvol :
       \/ \E j \in job[b] : Serve(b, j) \/ Deliver(b, j)
       \/ \E f \in Frame : Return(f, b) \/ Disconnect(f, b) \/ Unheard(f, b)
       \/ BrickRestart(b)
       \/ Change(b)
  \/ Rest

Spec == Init /\ [][Next]_vars

\* Threads run, on bricks and clients, and a call to a dead brick fails.
FairSpec ==
  /\ Spec
  /\ \A c \in Frame : WF_vars(ClientStep(c))
  /\ \A b \in Subvol :
       /\ WF_vars(\E j \in job[b] : Serve(b, j))
       /\ WF_vars(\E j \in job[b] : Deliver(b, j))
       /\ \A f \in Frame : WF_vars(Return(f, b)) /\ WF_vars(Unheard(f, b))

-----------------------------------------------------------------------------
ClientPc ==
  {"idle", "ask", "fetch", "exec", "view", "done", "error", "exit"}

\* Every variable has its type; counts, registered results and the states of
\* calls stay in range.
TypeOK ==
  /\ \A f \in Frame : ipc_data[f].call_cnt \in 0 .. Cardinality(Subvol)
  /\ call \in [Frame -> [Subvol -> CallState]]
  /\ \A b \in Subvol :
       /\ \A i \in DOMAIN index[b] : index[b][i] \in Row
       /\ \A s \in Session : qrset[b][s] \in 0 .. Len(qres[b])
  /\ \A c \in Frame :
       /\ ctl[c].cli_mask \subseteq Subvol /\ ctl[c].slice_count \in Slices
       /\ client[c].pc \in ClientPc /\ client[c].seq \in 0 .. MaxQuery

\* The rows of b in out are rows, in this order: at gives the place of each.
Shows(out, b, rows) ==
  \E at \in [1 .. Len(rows) -> 1 .. Len(out)] :
    /\ \A i \in 1 .. Len(rows) : out[at[i]] = rows[i]
    /\ \A i, j \in 1 .. Len(rows) : i < j => at[i] < at[j]
    /\ \A k \in 1 .. Len(out) : out[k][1] = b => \E i \in 1 .. Len(rows) : at[i] = k

\* process_sql_sliced: when the loop ends without an error, what it printed
\* from a brick that did not fail is the result the brick built for the
\* session, each row once and in order, although other rows came and went
\* meanwhile and replies of other bricks were merged around them.
RowsWhole ==
  \A c \in Frame, b \in Subvol :
    (At(c, "done") /\ b \in ctl[c].cli_mask \ failed[c]) =>
      /\ qrset[b][session(c)] # 0
      /\ Shows(client[c].out, b, qres[b][qrset[b][session(c)]].rows)

\* ims_ipc_process_query_result gives the string of a row to the reply, which
\* frees it: no row of a result may be handed to two replies.
HandedOnce ==
  \A b \in Subvol : \A r \in DOMAIN qres[b] : qres[b][r].again = {}

\* The loop of process_sql_sliced ends, whatever fails, if the slice size is
\* not zero.
QueryEnds ==
  \A c \in Frame :
    (At(c, "ask") /\ ctl[c].slice_count > 0) ~> Resting(c)
=============================================================================
