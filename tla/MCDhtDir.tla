------------------------------ MODULE MCDhtDir ------------------------------
(* Instance of DhtDir.  Clients, gfids and the bricks that are not hashed   *)
(* are interchangeable.                                                     *)
EXTENDS DhtDir, TLC

Symmetry ==
  Permutations(Client) \cup Permutations(Gfid) \cup Permutations(Others)
=============================================================================
