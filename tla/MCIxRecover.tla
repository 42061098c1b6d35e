----------------------------- MODULE MCIxRecover -----------------------------
(***************************************************************************)
(* An instance of IxRecover: a log of three paths, the first listed twice, *)
(* and a database that is empty or has a row of the server.                *)
(***************************************************************************)
EXTENDS IxRecover, Integers, TLC

MCLog == <<"p1", "p2", "p1", "p3">>

MCGfid == (0 .. Len(MCLog)) \cup {-1}

MCContent ==
  "p1" :> [stat |-> [n \in StatName |-> 1], xattr |-> {<<"x1", 1>>, <<"x2", 2>>}]
  @@ "p2" :> [stat |-> [n \in StatName |-> 2], xattr |-> {<<"x1", 2>>}]
  @@ "p3" :> [stat |-> [n \in StatName |-> 3], xattr |-> {}]

\* The database of a brick on which the server has indexed p2.
ServerDb ==
  Effect(db_initialize, [op |-> "insert", gfid |-> -1, path |-> "p2",
                         sb |-> MCContent["p2"].stat], StatName).db

MCInitDb == {db_initialize, ServerDb}
=============================================================================
