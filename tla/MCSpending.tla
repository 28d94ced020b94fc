------------------------------ MODULE MCSpending ------------------------------
(* Spending on small wallets.                                                 *)
EXTENDS Spending

\* The wallet two requests are checked on together: either coin covers a small
\* request, and one of them a large one.
MCSmallPool ==
    {[amount |-> [o \in Outpoint |-> CASE o = 1 -> 8 [] o = 2 -> 5 [] OTHER -> 4],
      confirmed |-> {1}, spent |-> {3}]}

\* Wallets one request is checked on: every choice of amounts, up to the names of the
\* coins, and confirmations. A coin of amount 1 is worth less than its fee.
MCWidePool ==
    {[amount |-> f @@ [o \in Claim |-> 4], confirmed |-> S, spent |-> {}] :
        f \in {g \in [Coin -> {1, 4, 5, 8}] : g[1] >= g[2] /\ g[2] >= g[3]},
        S \in SUBSET Coin}

\* Wallets whose coins lie at the end of the database's windows: just below and at the
\* lowest end, Multiplier^6, and at the one of a wallet without smaller coins.
MCRichPool ==
    {[amount |-> f @@ [o \in Claim |-> 4], confirmed |-> S, spent |-> {}] :
        f \in {g \in [Coin -> {3, 5, 63, 64, 128}] : g[1] >= g[2] /\ g[2] >= g[3]},
        S \in {{}, {1}}}

MCPool == MCSmallPool \union MCWidePool \union MCRichPool

MCSymmetry == Permutations(Request)

\* Bound: on the wallets of MCWidePool and MCRichPool, and with the strategies that differ from
\* the standard one only in the pool they look at first, one request, which is not
\* txo_spend, balances its transaction.
Solo ==
    (3 \in spent /\ wallet.strategy \in {"standard", "sqlite"}) \/
    /\ Cardinality({r \in Request : req[r].phase # "idle"}) <= 1
    /\ \A r \in Request : req[r].phase \in {"idle", "supplying", "balancing", "reserving",
                                            "balanced", "signing"}

\* Bound: txo_spend names two outputs at most, and of two requests only one lists
\* its inputs outside the mutex.
Supplied ==
    /\ \A r \in Request : req[r].handler = TXOSpend =>
            Cardinality(req[r].todo \union Inputs(r)) <= 2
    /\ Cardinality({r \in Request : req[r].handler \in {TXOSpend, FundEverything}}) <= 1
=============================================================================
