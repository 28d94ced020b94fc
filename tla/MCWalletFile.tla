---------------------------- MODULE MCWalletFile ----------------------------
EXTENDS WalletFile

Account(a, lock, v, mod, keys, gap) ==
    [id |-> a, lock |-> lock, val |-> v, mod |-> mod, keys |-> keys, gap |-> gap]

(* No file yet; a wallet in the clear with a legacy key; a locked wallet   *)
(* that predates the preference.                                           *)
MCOnDisk ==
    {Missing,
     [EmptyWallet EXCEPT !.accounts = <<Account("a1", Clear, "x", Past, {Legacy}, TRUE)>>],
     [EmptyWallet EXCEPT !.accounts = <<Account("a1", "p", "x", Past, {}, FALSE)>>]}

(* Another device: encryption asked for in the same second, a second       *)
(* account, newer settings for the first; its other preference is older    *)
(* than that.                                                              *)
Newer ==
    [eod |-> [value |-> TRUE, ts |-> Now], note |-> [value |-> TRUE, ts |-> Past],
     noteFirst |-> TRUE,
     accounts |-> <<Account("a2", Clear, "y", Past, {Legacy}, TRUE),
                    Account("a1", Clear, "y", Future, {Pem}, TRUE)>>]

(* The same second, and encryption off.                                    *)
Level ==
    [eod |-> [value |-> FALSE, ts |-> Now], note |-> NoEntry, noteFirst |-> FALSE,
     accounts |-> <<Account("a1", Clear, "x", Now, {Pem}, FALSE)>>]

Older ==
    [eod |-> [value |-> TRUE, ts |-> Past], note |-> [value |-> FALSE, ts |-> Future],
     noteFirst |-> FALSE,
     accounts |-> <<Account("a1", Clear, "y", Past, {}, FALSE),
                    Account("a2", Clear, "x", Future, {}, TRUE)>>]

MCRemotes == {Newer, Level, Older}

MCDelivered == {Newer}

(* Nothing is promised once the store is compromised, and little after a   *)
(* lapse: a behaviour is then followed only to the end of its request.     *)
Explored == compromised \/ lapsed => requests <= 1
=============================================================================
