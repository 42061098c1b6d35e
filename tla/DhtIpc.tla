------------------------------- MODULE DhtIpc -------------------------------
(***************************************************************************)
(* dht_ipc of the distribute translator: one ipc request is wound to every *)
(* subvolume of its client mask, the callbacks merge the replies into one  *)
(* dictionary, and the callback that brings the count of calls to zero     *)
(* unwinds the frame.  Callbacks run on the client's event threads, so the *)
(* merge of one reply and the countdown of another interleave.             *)
(***************************************************************************)
EXTENDS Integers, Sequences, FiniteSets

CONSTANTS
  Subvol,       \* the subvolumes: one brick each
  FirstChild,   \* the subvolume of the default handler
  Frame         \* the callers; each has one request at a time

ASSUME FirstChildAssumption == IsFiniteSet(Subvol) /\ FirstChild \in Subvol

VARIABLES
  ipc_data,  \* dht_ipc_data_t of each frame
  call,      \* where each wound call is
  result     \* what each frame was unwound with

dhtVars == <<ipc_data, call, result>>

\* A reply that carries all of count, ret, from, runtime and comeback is
\* whole.  Errors and partial replies have no rows for the merge.
Reply(op_ret, whole, rows, comeback) ==
  [op_ret |-> op_ret, whole |-> whole, rows |-> rows, comeback |-> comeback]

ErrorReply == Reply(1, FALSE, << >>, 0)

\* The dictionary of merged replies: rows under 0, 1, ..., the sum of the
\* comebacks, and the subvolumes that have a "<from>:count" entry.
NoIpc == [call_cnt |-> 0, rows |-> << >>, comeback |-> 0, from |-> {}]

\* No answer yet.
Pending == [state |-> "pending"]
\* Unwound with no dictionary.
Null(op_ret) == [state |-> "null", op_ret |-> op_ret]
Dict(data) ==
  [state |-> "dict", rows |-> data.rows, comeback |-> data.comeback,
   from |-> data.from]

CallState == {"none", "wound", "default", "merged", "dropped"}

DhtInit ==
  /\ ipc_data = [f \in Frame |-> NoIpc]
  /\ call = [f \in Frame |-> [s \in Subvol |-> "none"]]
  /\ result = [f \in Frame |-> Pending]

-----------------------------------------------------------------------------
Merge(data, s, reply) ==
  [data EXCEPT !.rows = @ \o reply.rows,
               !.comeback = @ + reply.comeback,
               !.from = @ \cup {s}]

\* Mutant: the count of calls is left to be set later.
Bugdht_ipc(f, cmask) ==
  /\ ipc_data' = [ipc_data EXCEPT ![f] = NoIpc]
  /\ call' = [call EXCEPT
       ![f] = [s \in Subvol |-> IF s \in cmask THEN "wound" ELSE "none"]]
  /\ result' = [result EXCEPT ![f] = Pending]

\* A request without a client mask goes to the default handler.  Otherwise
\* it is wound to the subvolumes of its mask; none of them, no call.
dht_ipc(f, cmask) ==
  /\ ipc_data' = [ipc_data EXCEPT
       ![f] = [NoIpc EXCEPT !.call_cnt = Cardinality(cmask)]]
  /\ call' = [call EXCEPT
       ![f] = [s \in Subvol |-> IF s \in cmask THEN "wound" ELSE "none"]]
  /\ result' = [result EXCEPT ![f] = Pending]

default_ipc(f) ==
  /\ call' = [call EXCEPT ![f][FirstChild] = "default"]
  /\ result' = [result EXCEPT ![f] = Pending]
  /\ UNCHANGED ipc_data

default_ipc_cbk(f, reply) ==
  /\ call[f][FirstChild] = "default"
  /\ call' = [call EXCEPT ![f][FirstChild] = "none"]
  /\ result' = [result EXCEPT
       ![f] = IF reply.op_ret = 0 THEN Dict(Merge(NoIpc, FirstChild, reply))
                                  ELSE Null(reply.op_ret)]
  /\ UNCHANGED ipc_data

\* The callback up to the unlock: a whole reply is merged under the lock, any
\* other is passed over.
dht_ipc_cbk(f, s, reply) ==
  /\ call[f][s] = "wound"
  /\ IF reply.op_ret = 0 /\ reply.whole
     THEN /\ ipc_data' = [ipc_data EXCEPT ![f] = Merge(@, s, reply)]
          /\ call' = [call EXCEPT ![f][s] = "merged"]
     ELSE /\ call' = [call EXCEPT ![f][s] = "dropped"]
          /\ UNCHANGED ipc_data
  /\ UNCHANGED result

\* Mutant: the first callback to return unwinds the frame.
Bugdht_ipc_return(f, s) ==
  /\ call[f][s] \in {"merged", "dropped"}
  /\ ipc_data' = [ipc_data EXCEPT ![f].call_cnt = @ - 1]
  /\ result' = [result EXCEPT ![f] = Dict(ipc_data[f])]
  /\ call' = [call EXCEPT ![f][s] = "none"]

\* The rest of the callback: the last one to count down unwinds with its own
\* dict_req, which is NULL when its reply was not merged.
dht_ipc_return(f, s) ==
  /\ call[f][s] \in {"merged", "dropped"}
  /\ ipc_data' = [ipc_data EXCEPT ![f].call_cnt = @ - 1]
  /\ result' = IF ipc_data[f].call_cnt > 1 THEN result
               ELSE [result EXCEPT ![f] = IF call[f][s] = "merged"
                                          THEN Dict(ipc_data[f])
                                          ELSE Null(0)]
  /\ call' = [call EXCEPT ![f][s] = "none"]
=============================================================================
