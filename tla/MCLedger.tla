------------------------------ MODULE MCLedger ------------------------------
(***************************************************************************)
(* An instance of Ledger and QuerySplits: two transactions, four splits, a *)
(* width of three bits (-4 .. 3) for numerators and of two for years,      *)
(* amounts in units and in halves.                                         *)
(***************************************************************************)
EXTENDS QuerySplits

MCSplit(g, a, n, d, st) ==
    [guid |-> g, account |-> a, value |-> Numeric(n, d), state |-> st, fields |-> OK]

MCSpec(date, cur, ss) == [head |-> OK, date |-> date, currency |-> cur, splits |-> ss]

MCSpecs ==
    \* halves against units
    {MCSpec(d, "usd", <<MCSplit(NoGuid, "a", 2, 2, "n"), MCSplit(NoGuid, "b", -1, 1, "n")>>) : d \in {1, 2}}
    \cup \* keep one split, replace the other; keep both; claim one twice
    {MCSpec(2, "usd", <<MCSplit(g, "a", 3, 1, "c"), MCSplit(h, "b", -3, 1, "n")>>) : g \in {1, 2}, h \in {NoGuid, 2}}
    \cup
    {\* grow to three splits; the running sum overflows; bad requests
     MCSpec(1, "eur", <<MCSplit(1, "a", 1, 1, "unspecified"), MCSplit(NoGuid, "b", 1, 1, "n"), MCSplit(NoGuid, "b", -2, 1, "n")>>),
     MCSpec(1, "usd", <<MCSplit(NoGuid, "a", 3, 1, "n"), MCSplit(NoGuid, "b", 3, 1, "n"), MCSplit(NoGuid, "b", -3, 1, "n")>>),
     MCSpec(1, "usd", <<MCSplit(NoGuid, "a", -4, 1, "n"), MCSplit(NoGuid, "b", -4, 1, "n")>>), \* -8 wraps to 0
     MCSpec(5, "usd", <<MCSplit(NoGuid, "a", 0, 1, "n")>>),
     MCSpec(1, "usd", <<MCSplit(NoGuid, "a", 1, 1, "n")>>),
     MCSpec(1, "usd", <<MCSplit(NoGuid, "x", 1, 1, "n"), MCSplit(NoGuid, "a", 1, 0, "n")>>),
     MCSpec(1, "usd", <<MCSplit(NoGuid, "a", 1, 0, "n"), MCSplit(NoGuid, "x", 1, 1, "n")>>),
     MCSpec(1, "usd", <<>>),
     [MCSpec(1, "usd", <<>>) EXCEPT !.head = "CURRENCY_MISMATCH"]}

MCQueries ==
    {[accounts |-> {}, states |-> {}, dates |-> {1, 2}, min |-> {}, max |-> {}, page_size |-> 1],
     [accounts |-> {"a", "b"}, states |-> {"n"}, dates |-> {1, 2}, min |-> {Numeric(-1, 1)}, max |-> {}, page_size |-> 0],
     [accounts |-> {"b"}, states |-> {}, dates |-> {1, 2}, min |-> {}, max |-> {Numeric(1, 2)}, page_size |-> 9]}
=============================================================================
