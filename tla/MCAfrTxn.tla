------------------------------ MODULE MCAfrTxn -------------------------------
EXTENDS AfrTxn, TLC

CONSTANTS c1, c2

Sym == Permutations(Client)
=============================================================================
