----------------------------- MODULE MCImsAgree -----------------------------
(* Small instances of ImsAgree.                                            *)
EXTENDS ImsAgree, TLC

\* Files whose stat fields all have the same value.
MCSb == {[n \in StatName |-> v] : v \in Val}

Symmetry ==
  Permutations(Path) \cup Permutations(Gfid) \cup Permutations(Thread)
    \cup Permutations(Val)
=============================================================================
