------------------------------ MODULE MCPlLocks ------------------------------
(* A small instance of PlLocks.                                            *)
EXTENDS PlLocks, TLC

MCInodeReq ==
  {[fl_type |-> "WRLCK", fl_start |-> 0, fl_end |-> 0],
   [fl_type |-> "RDLCK", fl_start |-> 0, fl_end |-> 1]}

MCEntryReq ==
  {[type |-> "WRLCK", basename |-> "n1"], [type |-> "WRLCK", basename |-> "n2"],
   [type |-> "WRLCK", basename |-> AllNames]}

Sym == Permutations(Client) \cup Permutations(Thread)
=============================================================================
