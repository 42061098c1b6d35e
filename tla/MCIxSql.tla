------------------------------- MODULE MCIxSql -------------------------------
(* Small instances of IxSql.                                               *)
EXTENDS IxSql

MCSession == Frame \X (1 .. MaxQuery)

\* The first brick finds three rows, the others one.
MCInitRows == [b \in Subvol |-> IF b = FirstChild THEN 3 ELSE 1]
=============================================================================
