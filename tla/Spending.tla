------------------------------- MODULE Spending -------------------------------
(* Requests that spend: how outputs of the wallet are collected, selected,    *)
(* reserved in the wallet database, put in a transaction, broadcast and       *)
(* released (wallet/transaction_balancing*.go, transaction_broadcast.go,      *)
(* transaction_transfer.go and the handlers of rpc/ that call them).          *)
(*                                                                            *)
(* Coins are outputs the selector may pick, Claims outputs only a request that *)
(* names them spends (claims, supports). Amounts and fees are scaled down.    *)
(* Change outputs do not become coins: a request spends outputs that existed  *)
(* when the behaviour began.                                                  *)
EXTENDS CoinSelection

CONSTANTS
    Request,        \* requests, each of which is one call of a handler
    Coin,           \* 1..n, in the order in which the database lists them
    Claim,          \* outputs of claims and supports
    Pool,           \* wallets: amounts of the outputs, which are confirmed, which spent
    Strategy,       \* coin selection strategies the ledger may be configured with
    Amount,         \* amounts a request may ask for
    BaseFee, InputFee, OutputFee,   \* of LegacyTransactionFeePolicy
    TransactionDust,
    TransactionBalancePasses,
    BatchSize,      \* of txo_spend
    NoRequest       \* nobody holds utxoReservationMu

Outpoint == Coin \union Claim

ASSUME SpendingAssumption ==
    /\ Coin \subseteq Nat /\ IsFiniteSet(Outpoint) /\ Coin \intersect Claim = {}
    /\ NoRequest \notin Request
    /\ {BaseFee, InputFee, OutputFee, TransactionDust} \subseteq Nat
    /\ {TransactionBalancePasses, BatchSize} \subseteq Nat \ {0}
    /\ Amount \subseteq Nat \ {0}

VARIABLES
    wallet,         \* the amounts and confirmations of the outputs, the strategy
    reserved,       \* txo.is_reserved
    spent,          \* outputs a stored transaction spends (txi rows)
    lock,           \* holder of utxoReservationMu
    req,            \* the requests
    chain,          \* external: the inputs of each transaction the server accepted
    crashed,
    unlocked,       \* history: coins listed for a transaction without utxoReservationMu
    exposed,        \* history: outputs accepted without a reservation, or whose
                    \* reservation was cleared over the head of its holder
    doubtful,       \* history: inputs of accepted transactions whose answer was lost
    leaked          \* history: reservations the code itself leaves behind

history == <<unlocked, exposed, doubtful, leaked>>

vars == <<wallet, reserved, spent, lock, req, chain, crashed, history>>

---------------------------------------------------------------------------
(* Handlers. "supply" is what the handler puts in before balancing: nothing,  *)
(* the claims its query finds, every coin of the account, or any outputs its  *)
(* query finds. "pays" says whether it puts outputs in (several, as of        *)
(* account_fund or a purchase, count as one amount), "frees" whether a failed *)
(* broadcast releases, "undo" whether a preview does. A blocking request waits *)
(* after its broadcast, which changes nothing here.                           *)

Payment == [supply |-> "none", pays |-> {TRUE}, frees |-> TRUE, undo |-> TRUE]
Update == [Payment EXCEPT !.supply = "claim"]
Abandon == [Update EXCEPT !.pays = {FALSE}]

WalletSend == Payment
AccountSend == Payment
PurchaseCreate == Payment
ChannelCreate == Payment
SupportCreate == Payment
StreamRepost == Payment
StreamCreate == Payment
CollectionCreate == Payment
GetPaid == Payment
ChannelUpdate == Update
StreamUpdate == Update
CollectionUpdate == Update
ClaimAbandon == Abandon
SupportAbandon == [Update EXCEPT !.pays = BOOLEAN]
FundAmount == [Payment EXCEPT !.frees = FALSE]
FundEverything == [supply |-> "everything", pays |-> {FALSE}, frees |-> FALSE, undo |-> TRUE]
TXOSpend == [supply |-> "any", pays |-> {FALSE}, frees |-> TRUE, undo |-> FALSE]

Handler == {WalletSend, AccountSend, PurchaseCreate, ChannelCreate, SupportCreate,
            StreamRepost, StreamCreate, CollectionCreate, GetPaid, ChannelUpdate,
            StreamUpdate, CollectionUpdate, ClaimAbandon, SupportAbandon, FundAmount,
            FundEverything, TXOSpend}

---------------------------------------------------------------------------
(* Amounts and fees.                                                          *)

Effective(o) == wallet.amount[o] - InputFee

SumEffective(S) == MapThenSumSet(Effective, S)

SumAmount(S) == MapThenSumSet(LAMBDA o : wallet.amount[o], S)

\* transactionChangeCost, which counts the base fee a second time.
ChangeCost == BaseFee + OutputFee

\* The cost of change GetSpendableTransactionInputs gives the selector.
CostOfChange == OutputFee

\* An unspent output that no one has reserved (the queries with is_spent = false).
Free(S) == {o \in S : o \notin reserved /\ o \notin spent}

\* ListSpendableOutputs: unconfirmed outputs first. An output of a block (height > 0)
\* counts as verified.
Estimators ==
    LET before(c, d) == \/ c \notin wallet.confirmed /\ d \in wallet.confirmed
                        \/ (c \in wallet.confirmed <=> d \in wallet.confirmed) /\ c < d
        listed == SetToSortSeq(Free(Coin), before)
    IN  [i \in DOMAIN listed |->
            [coin |-> listed[i], amount |-> wallet.amount[listed[i]],
             effective |-> Effective(listed[i]), confirmed |-> listed[i] \in wallet.confirmed]]

---------------------------------------------------------------------------
(* State of a request.                                                        *)

IdleRequest == [phase |-> "idle", handler |-> Payment, pays |-> 0, todo |-> {},
                supplied |-> {}, picked |-> {}, pending |-> {}, pass |-> 0, cost |-> 0,
                payment |-> 0, change |-> 0, mine |-> {}, made |-> {}, twice |-> FALSE, short |-> FALSE]

\* The handler has returned, whatever it returned.
Ended == [IdleRequest EXCEPT !.phase = "done"]

Inputs(r) == req[r].supplied \union req[r].picked

\* What the transaction of r pays to others.
Outputs(r) == (IF req[r].pays > 0 THEN 1 ELSE 0) + (IF req[r].change > 0 THEN 1 ELSE 0)

\* The transaction with these inputs is given up, and its inputs are to be released.
GiveUp(r, inputs) ==
    [IdleRequest EXCEPT !.phase = "releasing", !.handler = req[r].handler,
                        !.supplied = inputs, !.mine = req[r].mine]

\* CreateBalancedTransaction up to the loop, for the inputs and outputs supplied.
Create(q, supplied) ==
    [q EXCEPT !.phase = "balancing", !.supplied = supplied, !.picked = {}, !.pass = 1,
              !.cost = BaseFee + (IF q.pays > 0 THEN q.pays + OutputFee ELSE 0),
              !.payment = SumEffective(supplied), !.change = 0, !.twice = FALSE]

Init ==
    /\ \E p \in Pool, s \in Strategy :
            /\ wallet = [amount |-> p.amount, confirmed |-> p.confirmed, strategy |-> s]
            /\ spent = p.spent
    /\ reserved = {} /\ chain = {}
    /\ lock = NoRequest
    /\ req = [r \in Request |-> IdleRequest]
    /\ crashed = FALSE
    /\ unlocked = {} /\ exposed = {} /\ doubtful = {} /\ leaked = {}

---------------------------------------------------------------------------
(* What a handler puts in.                                                    *)

\* A request with nothing supplied: its outputs only.
BeginPayment(r) ==
    /\ req[r].phase = "idle"
    /\ \E h \in {k \in Handler : k.supply = "none"}, a \in Amount :
            req' = [req EXCEPT ![r] = Create([IdleRequest EXCEPT !.handler = h, !.pays = a], {})]
    /\ UNCHANGED <<wallet, reserved, spent, lock, chain, crashed, history>>

\* The claims or supports found go in unreserved.
BeginClaim(r) ==
    /\ req[r].phase = "idle"
    /\ \E h \in {k \in Handler : k.supply = "claim"}, a \in Amount \union {0},
          S \in SUBSET Free(Claim) \ {{}} :
            /\ (a > 0) \in h.pays
            /\ req' = [req EXCEPT ![r] = Create([IdleRequest EXCEPT !.handler = h, !.pays = a], S)]
    /\ UNCHANGED <<wallet, reserved, spent, lock, chain, crashed, history>>

\* FundAccount with everything lists the coins without utxoReservationMu ...
BeginEverything(r) ==
    /\ req[r].phase = "idle"
    /\ req' = [req EXCEPT ![r] = [IdleRequest EXCEPT !.phase = "supplying",
                                        !.handler = FundEverything, !.todo = Free(Coin)]]
    /\ unlocked' = unlocked \union Free(Coin)
    /\ UNCHANGED <<wallet, reserved, spent, lock, chain, crashed, exposed, doubtful, leaked>>

\* ... and reserves them in a second step.
ReserveEverything(r) ==
    /\ req[r].phase = "supplying"
    /\ reserved' = reserved \union req[r].todo
    /\ req' = [req EXCEPT ![r] = Create([req[r] EXCEPT !.mine = req[r].todo, !.todo = {}],
                                        req[r].todo)]
    /\ UNCHANGED <<wallet, spent, lock, chain, crashed, history>>

\* The statement fails, or the ledger's fees are invalid: CreateBalancedTransaction
\* fails before the part that releases.
RefuseEverything(r) ==
    /\ req[r].phase = "supplying"
    /\ \/ UNCHANGED <<reserved, leaked>>
       \/ reserved' = reserved \union req[r].todo /\ leaked' = leaked \union req[r].todo
    /\ req' = [req EXCEPT ![r] = Ended]
    /\ UNCHANGED <<wallet, spent, lock, chain, crashed, unlocked, exposed, doubtful>>

\* txo_spend lists any unspent outputs, which stay unreserved.
BeginSpend(r) ==
    /\ req[r].phase = "idle"
    /\ \E S \in SUBSET Free(Outpoint) \ {{}} :
            /\ req' = [req EXCEPT ![r] = [IdleRequest EXCEPT !.phase = "batching",
                                                !.handler = TXOSpend, !.todo = S]]
            /\ unlocked' = unlocked \union (S \intersect Coin)
    /\ UNCHANGED <<wallet, reserved, spent, lock, chain, crashed, exposed, doubtful, leaked>>

\* The next batch of txo_spend.
Batch(r) ==
    /\ req[r].phase = "batching"
    /\ \E S \in kSubset(Min({BatchSize, Cardinality(req[r].todo)}), req[r].todo) :
            req' = [req EXCEPT ![r] = Create([req[r] EXCEPT !.todo = @ \ S], S)]
    /\ UNCHANGED <<wallet, reserved, spent, lock, chain, crashed, history>>

---------------------------------------------------------------------------
(* The balance loop.                                                          *)

Deficit(r) == req[r].cost - req[r].payment

\* The transaction of r gets the selected coins, which r has reserved.
Attach(r, coins) ==
    [req EXCEPT ![r].phase = "balanced", ![r].pending = {},
                ![r].picked = @ \union coins, ![r].mine = @ \union coins,
                ![r].twice = @ \/ coins \intersect Inputs(r) # {},
                ![r].payment = @ + SumEffective(coins)]

\* Mutant: the coins are listed without utxoReservationMu.
ListUnlocked(r) ==
    /\ req[r].phase = "balancing" /\ req[r].payment < req[r].cost
    /\ wallet.strategy # "sqlite"
    /\ \E coins \in Select(Estimators, Deficit(r), CostOfChange, wallet.strategy) \ {{}} :
            req' = [req EXCEPT ![r].phase = "reserving", ![r].pending = coins]
    /\ UNCHANGED <<wallet, reserved, spent, lock, chain, crashed, history>>

\* Under utxoReservationMu: list, select; the statement that reserves comes next.
ListAndSelect(r) ==
    /\ req[r].phase = "balancing" /\ req[r].payment < req[r].cost
    /\ wallet.strategy # "sqlite" /\ lock = NoRequest
    /\ \E coins \in Select(Estimators, Deficit(r), CostOfChange, wallet.strategy) \ {{}} :
            req' = [req EXCEPT ![r].phase = "reserving", ![r].pending = coins]
    /\ lock' = r
    /\ UNCHANGED <<wallet, reserved, spent, chain, crashed, history>>

ReserveOutputs(r) ==
    /\ req[r].phase = "reserving"
    /\ reserved' = reserved \union req[r].pending
    /\ req' = Attach(r, req[r].pending)
    /\ lock' = NoRequest
    /\ UNCHANGED <<wallet, spent, chain, crashed, history>>

ReserveFails(r) ==
    /\ req[r].phase = "reserving"
    /\ req' = [req EXCEPT ![r] = GiveUp(r, Inputs(r))]
    /\ lock' = NoRequest
    /\ UNCHANGED <<wallet, reserved, spent, chain, crashed, history>>

\* GetAndReserveSpendableOutputs selects and reserves in one transaction.
GetAndReserve(r) ==
    /\ req[r].phase = "balancing" /\ req[r].payment < req[r].cost
    /\ wallet.strategy = "sqlite" /\ lock = NoRequest
    /\ LET coins == SQLite(Estimators, Deficit(r), CostOfChange)
       IN  /\ coins # {}
           /\ reserved' = reserved \union coins
           /\ req' = Attach(r, coins)
    /\ UNCHANGED <<wallet, spent, lock, chain, crashed, history>>

\* Nothing selected: ErrTransactionInsufficientFunds.
Insufficient(r) ==
    /\ req[r].phase = "balancing" /\ req[r].payment < req[r].cost
    /\ lock = NoRequest
    /\ \/ /\ wallet.strategy # "sqlite"
          /\ {} \in Select(Estimators, Deficit(r), CostOfChange, wallet.strategy)
       \/ /\ wallet.strategy = "sqlite"
          /\ SQLite(Estimators, Deficit(r), CostOfChange) = {}
    /\ req' = [req EXCEPT ![r] = [GiveUp(r, Inputs(r)) EXCEPT !.short = TRUE]]
    /\ UNCHANGED <<wallet, reserved, spent, lock, chain, crashed, history>>

\* The change output, 0 if there is none.
ChangeAmount(payment, cost) ==
    IF payment > cost /\ payment - cost - ChangeCost > TransactionDust
    THEN payment - cost - ChangeCost ELSE 0

\* The rest of a pass: change, and another pass if the transaction has no output. After
\* the last pass a transaction without outputs is signed all the same.
FinishPass(r) ==
    /\ \/ req[r].phase = "balanced"
       \/ req[r].phase = "balancing" /\ req[r].payment >= req[r].cost
    /\ LET change == ChangeAmount(req[r].payment, req[r].cost)
           complete == change > 0 \/ req[r].pays > 0 \/ req[r].pass = TransactionBalancePasses
       IN  req' = [req EXCEPT ![r] =
                    IF complete THEN [@ EXCEPT !.change = change, !.phase = "signing"]
                    ELSE [@ EXCEPT !.phase = "balancing", !.pass = @ + 1,
                                   !.cost = @ + ChangeCost + 1]]
    /\ UNCHANGED <<wallet, reserved, spent, lock, chain, crashed, history>>

Sign(r) ==
    /\ req[r].phase = "signing"
    /\ req' = [req EXCEPT ![r] =
                [@ EXCEPT !.phase = IF req[r].todo = {} THEN "built" ELSE "batching",
                          !.made = @ \union {[inputs |-> Inputs(r), valid |-> ~req[r].twice]},
                          !.pays = 0, !.change = 0, !.cost = 0, !.payment = 0, !.pass = 0]]
    /\ UNCHANGED <<wallet, reserved, spent, lock, chain, crashed, history>>

\* What txo_spend leaves reserved when it gives up: the coins of its other batches.
OtherBatches(r) == IF req[r].handler = TXOSpend THEN req[r].mine \ Inputs(r) ELSE {}

\* Listing, the change address or a signature fails, or the context ends.
BuildFails(r) ==
    /\ req[r].phase \in {"balancing", "balanced", "signing"}
    /\ req' = [req EXCEPT ![r] = GiveUp(r, Inputs(r))]
    /\ UNCHANGED <<wallet, reserved, spent, lock, chain, crashed, history>>

---------------------------------------------------------------------------
(* Broadcast and release.                                                     *)

\* Preview, or the download a payment is for fails. Only txo_spend does not release.
Preview(r) ==
    /\ req[r].phase = "built"
    /\ IF req[r].handler.undo
       THEN req' = [req EXCEPT ![r] = GiveUp(r, Inputs(r))] /\ UNCHANGED leaked
       ELSE /\ req' = [req EXCEPT ![r] = Ended]
            /\ leaked' = leaked \union req[r].mine
    /\ UNCHANGED <<wallet, reserved, spent, lock, chain, crashed, unlocked, exposed, doubtful>>

\* The request after t is sent: the next one, or the end.
Sent(r, t) ==
    [req EXCEPT ![r] = IF req[r].made = {t} THEN Ended
                       ELSE [@ EXCEPT !.made = @ \ {t}, !.mine = @ \ t.inputs,
                                      !.phase = "sending"]]

\* External: the server takes a transaction whose inputs no other spends.
Acceptable(t) == t.valid /\ t.inputs \intersect UNION chain = {}

\* The server takes t of r. An input is exposed if nobody holds a reservation of it, or
\* if another request has it on its list already, one of them without the mutex.
Accept(r, t) ==
    LET listed == UNION {req[s].pending \union req[s].todo : s \in Request \ {r}}
    IN  /\ Acceptable(t)
        /\ chain' = chain \union {t.inputs}
        /\ exposed' = exposed \union (t.inputs \ reserved)
                              \union (t.inputs \intersect listed \intersect unlocked)

\* Mutant: the inputs are released after a broadcast that succeeded.
BroadcastReleases(r) ==
    /\ req[r].phase \in {"built", "sending"}
    /\ \E t \in req[r].made :
            /\ Acceptable(t)
            /\ chain' = chain \union {t.inputs}
            /\ reserved' = reserved \ t.inputs
            /\ req' = Sent(r, t)
    /\ UNCHANGED <<wallet, spent, lock, crashed, history>>

Broadcast(r) ==
    /\ req[r].phase \in {"built", "sending"}
    /\ \E t \in req[r].made :
            /\ Accept(r, t)
            /\ req' = Sent(r, t)
    /\ UNCHANGED <<wallet, reserved, spent, lock, crashed, unlocked, doubtful, leaked>>

\* The broadcast fails: rejected, no connection, or accepted and the answer lost.
\* FundAccount leaves the reservation as it is.
BroadcastFails(r) ==
    /\ req[r].phase \in {"built", "sending"}
    /\ \E t \in req[r].made :
        /\ \/ UNCHANGED <<chain, exposed, doubtful>>
           \/ Accept(r, t) /\ doubtful' = doubtful \union t.inputs
        /\ IF req[r].handler.frees
           THEN req' = [req EXCEPT ![r] = GiveUp(r, t.inputs)] /\ UNCHANGED leaked
           ELSE /\ req' = [req EXCEPT ![r] = Ended]
                /\ leaked' = leaked \union req[r].mine
    /\ UNCHANGED <<wallet, reserved, spent, lock, crashed, unlocked>>

\* Reservations somebody still relies on: of a request other than those in R, or of
\* an accepted transaction that is not stored yet and whose answer was not lost.
ReliedOn(R) ==
    reserved \intersect
        (UNION {req[s].mine : s \in Request \ R} \union (UNION chain \ (spent \union doubtful)))

\* ReleaseTransaction clears every input of the transaction, whoever reserved it, and
\* after a lost answer although the server may have accepted the transaction.
ReleaseTransaction(r) ==
    /\ req[r].phase = "releasing"
    /\ reserved' = reserved \ Inputs(r)
    /\ exposed' = exposed \union (Inputs(r) \intersect ReliedOn({r}))
    /\ leaked' = (leaked \ Inputs(r)) \union OtherBatches(r)
    /\ req' = [req EXCEPT ![r] = Ended]
    /\ UNCHANGED <<wallet, spent, lock, chain, crashed, unlocked, doubtful>>

ReleaseFails(r) ==
    /\ req[r].phase = "releasing"
    /\ leaked' = leaked \union req[r].mine
    /\ req' = [req EXCEPT ![r] = Ended]
    /\ UNCHANGED <<wallet, reserved, spent, lock, chain, crashed, unlocked, exposed, doubtful>>

---------------------------------------------------------------------------
(* The rest of the process.                                                   *)

\* The synchronisation of addresses stores a transaction and so its txi rows.
Store ==
    /\ \E inputs \in chain : ~inputs \subseteq spent /\ spent' = spent \union inputs
    /\ UNCHANGED <<wallet, reserved, lock, req, chain, crashed, history>>

ReleaseAllOutputs ==
    /\ reserved' = {}
    /\ exposed' = exposed \union ReliedOn({})
    /\ leaked' = {}

\* utxo_release
UTXORelease ==
    /\ reserved # {}
    /\ ReleaseAllOutputs
    /\ UNCHANGED <<wallet, spent, lock, req, chain, crashed, unlocked, doubtful>>

\* CompleteStartup, which requests do not wait for. It runs once in a process; the
\* model need not count, since UTXORelease has the same effect at any time.
CompleteStartup ==
    /\ reserved # {}
    /\ ReleaseAllOutputs
    /\ UNCHANGED <<wallet, spent, lock, req, chain, crashed, unlocked, doubtful>>

\* The process dies and starts again: reservations are in the database.
Crash ==
    /\ ~crashed
    /\ crashed' = TRUE
    /\ lock' = NoRequest
    /\ req' = [r \in Request |-> IF req[r].phase = "idle" THEN req[r]
                                 ELSE Ended]
    /\ leaked' = leaked \union UNION {req[r].mine : r \in Request}
    /\ UNCHANGED <<wallet, reserved, spent, chain, unlocked, exposed, doubtful>>

Next ==
    \/ \E r \in Request :
        \/ BeginPayment(r) \/ BeginClaim(r) \/ BeginEverything(r) \/ BeginSpend(r)
        \/ ReserveEverything(r) \/ RefuseEverything(r) \/ Batch(r)
        \/ ListAndSelect(r) \/ ReserveOutputs(r) \/ ReserveFails(r) \/ GetAndReserve(r)
        \/ Insufficient(r) \/ FinishPass(r) \/ Sign(r) \/ BuildFails(r)
        \/ Preview(r) \/ Broadcast(r) \/ BroadcastFails(r)
        \/ ReleaseTransaction(r) \/ ReleaseFails(r)
    \/ Store \/ UTXORelease \/ CompleteStartup \/ Crash

Spec == Init /\ [][Next]_vars

---------------------------------------------------------------------------
(* Properties.                                                                *)

\* utxoReservationMu and the reservations keep requests apart: no two requests under
\* way have reserved the same coin, unless it was listed outside the mutex (txo_spend,
\* everything) or its reservation was cleared by somebody else.
NoSharedFunding ==
    \A r, s \in Request : r # s => req[r].mine \intersect req[s].mine \subseteq unlocked \union exposed

\* Reservations end: a reserved output is spent, or an accepted transaction spends it,
\* or a request under way answers for it, or the code has left it behind on one of the
\* paths that do so (a failed release, FundAccount's failed broadcast, txo_spend's
\* preview and its other batches, a crash).
ReservedAccounted ==
    reserved \subseteq spent \union UNION chain \union leaked
                        \union UNION {req[r].mine : r \in Request}

\* An output that an accepted transaction spends is not reserved for another request
\* while the database has not stored that transaction. The code does not keep this on
\* three paths, the exceptions: the transaction was accepted but the answer was lost, so
\* that BroadcastOrRelease releases the inputs (doubtful); the reservation was cleared by
\* utxo_release, at startup, or by another request that has the output too; or there was
\* none that counts, because txo_spend or everything listed the output outside the mutex
\* (exposed). Nothing else offers it again: no failure, release or crash of a request
\* with other inputs, and no transaction that is stored meanwhile.
AcceptedNotReoffered ==
    [][\A r \in Request :
        (req'[r].mine \ req[r].mine) \intersect UNION chain \subseteq exposed \union doubtful]_vars

\* The loop of balanceAndSignTransaction: a transaction pays the fees of its inputs and
\* outputs, and more than that by no more than change that was not worth an output,
\* or the base fee counted twice, and what the passes before the last one added.
FeeBounded ==
    \A r \in Request : req[r].phase = "signing" /\ ~req[r].twice =>
        LET fee == SumAmount(Inputs(r)) - req[r].pays - req[r].change
            due == BaseFee + InputFee * Cardinality(Inputs(r)) + OutputFee * Outputs(r)
            more == Max({BaseFee, TransactionDust + ChangeCost})
        IN  /\ fee >= due
            /\ Outputs(r) > 0 => fee <= due + more + (req[r].pass - 1) * (ChangeCost + 1)

\* What GetSpendableTransactionInputs picks, or its failure for want of funds, is what
\* the reference says for the coins free at that moment, compared over all subsets of
\* them: the strategies neither miss funds nor select more wastefully than they could.
\* Outputs worth less than their fee are left out (the search does not bound them). The
\* strategy of the database is complete only for outputs below SQLiteReach: its windows
\* end where the next ceiling would overflow, and they are empty for a deficit below
\* FloorDivisor.
SelectionMatchesReference ==
    [][\A r \in Request :
        LET pool == Range(Estimators)
            sure == {e \in pool : e.confirmed}
            goal == Deficit(r) + CostOfChange
            chosen == {e \in pool : e.coin \in req'[r].pending \union (reserved' \ reserved)}
            covers(S) == \/ SumOf(S) >= goal
                         \/ \E T \in SUBSET S : SumOf(T) \in Deficit(r)..goal
            selected == /\ req[r].phase = "balancing" /\ req[r].payment < req[r].cost
                        /\ \/ req'[r].phase \in {"reserving", "balanced"}
                           \/ req'[r].short
        IN  selected /\ (\A e \in pool : e.effective >= 0) =>
            CASE wallet.strategy = "standard" ->
                    StandardReference(pool, Deficit(r), CostOfChange, chosen)
              [] wallet.strategy = "only_confirmed" ->
                    StandardReference(sure, Deficit(r), CostOfChange, chosen)
              [] wallet.strategy = "prefer_confirmed" ->
                    StandardReference(IF covers(sure) THEN sure ELSE pool,
                                      Deficit(r), CostOfChange, chosen)
              [] wallet.strategy = "sqlite" ->
                    IF chosen = {}
                    THEN \/ Deficit(r) < FloorDivisor
                         \/ SumOf({e \in pool : e.amount < SQLiteReach}) < goal
                    ELSE SumOf(chosen) >= goal
              [] OTHER -> chosen # {} => SumOf(chosen) >= Deficit(r)]_vars

\* Funding is sound: no coin funds two requests, every reservation has an end, and the
\* fee that is paid is the fee that is due, within bounds.
FundingSound == NoSharedFunding /\ ReservedAccounted /\ FeeBounded
=============================================================================
