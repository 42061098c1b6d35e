--------------------------- MODULE ImsAsyncIndex ----------------------------
(***************************************************************************)
(* The asynchronous server implements ImsIndex.                            *)
(***************************************************************************)
EXTENDS ImsServer

\* History: the connection's view between two tasks of the worker.
VARIABLE base

InitH == Init /\ base = view

NextH ==
  /\ Next
  /\ base' = IF call'[Worker].pc = "idle" THEN view' ELSE base

SpecH == InitH /\ [][NextH]_<<vars, base>> /\ Fairness

\* The task in the worker's hands is still to be carried out.
Todo == (IF At(Worker, "idle") THEN << >> ELSE <<call[Worker].task>>) \o queue

Index == INSTANCE ImsIndex WITH todo <- Todo, open <- base, died <- ncrash

\* Every behaviour of callbacks, queue, worker, statements, locks, queries and
\* crashes is one of ImsIndex: tasks leave the queue in the order their
\* callbacks put them in, the statements of one (ims_xdb_insert_new_file,
\* ims_xdb_update_stat, ims_xdb_setxattr) take effect together, a query never
\* sees part of one, and only a failed transaction or a crash undoes anything.
ImplementsIndex == Index!IndexSpec
=============================================================================
