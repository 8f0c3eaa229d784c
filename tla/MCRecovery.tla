----------------------------- MODULE MCRecovery -----------------------------
EXTENDS Recovery

(* The greeting of 14 tables is as long as the reply to HELLO, so R falls  *)
(* into step; the others leave it inside of that reply or behind it.       *)
MCTableCounts == {-1, 1, 2, 7, 8, 14, 15, 22, 24}

MCPair(t, k, v) == [table |-> t, key |-> <<k>>, value |-> <<v>>]

(* One key in two tables, two keys in one. *)
MCContents ==
    {<<>>,
     <<MCPair(0, 107, 1)>>,
     <<MCPair(0, 107, 1), MCPair(13, 107, 2)>>,
     <<MCPair(1, 107, 1), MCPair(1, 108, 2)>>}

MCTableSize == <<50>>
MCOneTable == {1}
MCFourteenTables == {14}
=============================================================================
