------------------------------ MODULE ImsQuery ------------------------------
(***************************************************************************)
(* ipc requests on the bricks (imess-server-ipc.c): a query is executed    *)
(* once, its rows are kept in qrset under the session of the client, and   *)
(* each request of the session takes a slice of them.  Active execution    *)
(* answers in one reply.  Requests run on io-threads, so two requests of   *)
(* one session, the first of them given up by the client, may run side by  *)
(* side.                                                                   *)
(***************************************************************************)
EXTENDS DhtIpc

CONSTANTS
  Session,     \* session identifiers
  NoSession,   \* a request without one
  InitRows,    \* rows the query finds on each brick at the start
  MaxChange    \* bound: changes of a brick's index

ASSUME RowsAssumption == InitRows \in [Subvol -> Nat]

VARIABLES
  index,   \* what the query finds on each brick now
  fresh,   \* the number of each brick's next row; every change takes one
  qres,    \* the results a brick has built: rows, positions handed to a
           \* reply, and positions handed to another one again
  qrset,   \* the result registered for each session, 0 if there is none
  job      \* the requests on each brick

brickVars == <<index, fresh, qres, qrset, job>>

Row == Subvol \X Nat

\* live: the client still waits for the reply.
Job(f, type, session, offset, count) ==
  [frame |-> f, type |-> type, session |-> session, offset |-> offset,
   count |-> count, live |-> TRUE, pc |-> "ipc", res |-> 0,
   reply |-> ErrorReply]

BrickInit ==
  /\ index = [b \in Subvol |-> [n \in 1 .. InitRows[b] |-> <<b, n>>]]
  /\ fresh = [b \in Subvol |-> InitRows[b] + 1]
  /\ qres = [b \in Subvol |-> << >>]
  /\ qrset = [b \in Subvol |-> [s \in Session |-> 0]]
  /\ job = [b \in Subvol |-> {}]

Moves(b, j, k) == job' = [job EXCEPT ![b] = (@ \ {j}) \cup {k}]

Goto(b, j, pc) == Moves(b, j, [j EXCEPT !.pc = pc])

Answers(b, j, reply) ==
  Moves(b, j, [j EXCEPT !.pc = "reply", !.reply = reply])

-----------------------------------------------------------------------------
\* Dispatch on the type; a query looks for the result of its session.
ims_ipc(b, j) ==
  /\ j.pc = "ipc"
  /\ \/ j.type = "query" /\ j.session = NoSession /\ Answers(b, j, ErrorReply)
     \/ /\ j.type = "query" /\ j.session # NoSession
        /\ IF qrset[b][j.session] = 0
           THEN Goto(b, j, "query")
           ELSE Moves(b, j, [j EXCEPT !.pc = "slice",
                                      !.res = qrset[b][j.session]])
     \/ j.type = "exec" /\ Goto(b, j, "exec")
  /\ UNCHANGED <<index, fresh, qres, qrset>>

\* ims_ipc_new_query: the rows of the moment, or an error of SQLite.
ims_xdb_direct_query(b, j) ==
  /\ j.pc = "query"
  /\ \/ /\ qres' = [qres EXCEPT
             ![b] = Append(@, [rows |-> index[b], handed |-> {}, again |-> {}])]
        /\ Moves(b, j, [j EXCEPT !.pc = "register", !.res = Len(qres[b]) + 1])
     \/ Answers(b, j, ErrorReply) /\ UNCHANGED qres
  /\ UNCHANGED <<index, fresh, qrset>>

ims_xdb_register_result(b, j) ==
  /\ j.pc = "register"
  /\ qrset' = [qrset EXCEPT ![b][j.session] = j.res]
  /\ Goto(b, j, "slice")
  /\ UNCHANGED <<index, fresh, qres>>

\* Mutant: the slice takes one row too many.
BugPositions(total, offset, count) ==
  {p \in 1 .. total : offset < p /\ p <= offset + count + 1}

\* Positions of the result that a request takes.
Positions(total, offset, count) ==
  {p \in 1 .. total : offset < p /\ p <= offset + count}

Hands(res, taken) ==
  [res EXCEPT !.handed = @ \cup taken,
              !.again = @ \cup (taken \cap res.handed)]

\* The strings of the rows become the reply's, which frees them.  The
\* session is not removed at the end: dict_del is called with a row's key.
ims_ipc_process_query_result(b, j) ==
  LET rows  == qres[b][j.res].rows
      taken == Positions(Len(rows), j.offset, j.count)
      more  == j.offset + Cardinality(taken) < Len(rows)
  IN  /\ j.pc = "slice"
      /\ qres' = [qres EXCEPT ![b][j.res] = Hands(@, taken)]
      /\ Answers(b, j, Reply(0, TRUE,
                             [i \in 1 .. Cardinality(taken) |-> rows[j.offset + i]],
                             IF more THEN 1 ELSE 0))
      /\ UNCHANGED <<index, fresh, qrset>>

\* The operator runs on every file the query finds; its output goes into the
\* reply, with count, ret and runtime but without comeback.
ims_ipc_active_exec(b, j) ==
  /\ j.pc = "exec"
  /\ \/ Answers(b, j, Reply(0, FALSE, index[b], 0))
     \/ Answers(b, j, ErrorReply)
  /\ UNCHANGED <<index, fresh, qres, qrset>>

-----------------------------------------------------------------------------
\* File operations change what the query finds.
Insert(b) ==
  /\ fresh[b] <= InitRows[b] + MaxChange
  /\ index' = [index EXCEPT ![b] = Append(@, <<b, fresh[b]>>)]
  /\ fresh' = [fresh EXCEPT ![b] = @ + 1]
  /\ UNCHANGED <<qres, qrset, job>>

Remove(b) ==
  /\ fresh[b] <= InitRows[b] + MaxChange
  /\ index[b] # << >>
  /\ index' = [index EXCEPT ![b] = Tail(@)]
  /\ fresh' = [fresh EXCEPT ![b] = @ + 1]
  /\ UNCHANGED <<qres, qrset, job>>

\* A client stops waiting for the brick: its requests run on, unheard.
Orphan(b, f) ==
  job' = [job EXCEPT ![b] =
            {[j EXCEPT !.live = j.live /\ j.frame # f] : j \in job[b]}]

\* The brick process is restarted: sessions and requests are gone.
Restart(b) ==
  /\ qrset' = [qrset EXCEPT ![b] = [s \in Session |-> 0]]
  /\ job' = [job EXCEPT ![b] = {}]
  /\ UNCHANGED <<index, fresh, qres>>
=============================================================================
