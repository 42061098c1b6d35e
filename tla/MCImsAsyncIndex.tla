-------------------------- MODULE MCImsAsyncIndex ---------------------------
(* A small instance of ImsAsyncIndex.                                      *)
EXTENDS ImsAsyncIndex

\* Files whose stat fields all have the same value.
MCSb == {[n \in StatName |-> v] : v \in Val}
=============================================================================
