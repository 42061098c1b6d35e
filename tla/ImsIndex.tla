------------------------------ MODULE ImsIndex ------------------------------
(***************************************************************************)
(* What the asynchronous index promises its readers, without connections,  *)
(* locks, statements or threads: updates take effect whole, one after the  *)
(* other, in the order in which the callbacks reported them.  What took    *)
(* effect may not be on disk yet.  An update that fails part way takes the *)
(* effects that are not on disk with it, and a crash takes all that is not *)
(* on disk.                                                                *)
(***************************************************************************)
EXTENDS ImsXdb

VARIABLES
  todo,   \* updates reported and not carried out
  open,   \* the index with every update carried out so far
  disk,   \* the index that queries see and that survives a crash
  died    \* crashes so far

ivars == <<todo, open, disk, died>>

IndexInit ==
  /\ todo = << >>
  /\ open = db_initialize
  /\ disk = db_initialize
  /\ died = 0

Reported ==
  /\ \E task \in Task : todo' = Append(todo, task)
  /\ UNCHANGED <<open, disk, died>>

\* Updates of several statements, which a failure rolls back.
Transactional == {"insert", "xattr"}

CarriedOut ==
  /\ todo # << >>
  /\ todo' = Tail(todo)
  /\ LET task == Head(todo)
         r    == Effect(open, task, StatName)
     IN  IF r.ok
         THEN /\ open' = r.db
              /\ disk' \in {disk, r.db}
         ELSE /\ open' = IF task.op \in Transactional THEN disk ELSE open
              /\ UNCHANGED disk
  /\ UNCHANGED died

Lost ==
  /\ died' = died + 1
  /\ todo' = << >>
  /\ open' = disk
  /\ UNCHANGED disk

IndexNext == Reported \/ CarriedOut \/ Lost

IndexSpec == IndexInit /\ [][IndexNext]_ivars
=============================================================================
