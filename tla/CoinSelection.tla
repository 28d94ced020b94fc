---------------------------- MODULE CoinSelection ----------------------------
(* Which outputs a transaction spends: the strategies of                      *)
(* wallet/coin_selection.go and the one the wallet database implements itself *)
(* (wallet/ledgerdb/spendables.go).                                           *)
(*                                                                            *)
(* An estimator is a spendable output with its effective amount (what is left *)
(* of it after the fee of the input that spends it) and whether it is         *)
(* confirmed. All spendable outputs have the same input fee, so the code's    *)
(* comparison of fees is left out. A strategy yields the set of coins it      *)
(* selects, {} when it finds none; a strategy that draws at random yields     *)
(* the set of all its outcomes.                                               *)
EXTENDS Integers, FiniteSets, Sequences, SequencesExt, FiniteSetsExt

CONSTANTS
    MaximumTries,   \* CoinSelectionMaximumTries, scaled down
    Multiplier,     \* the factor by which the database widens its window (100)
    FloorDivisor,   \* an amount below it makes the lowest window empty (10)
    MaxInt          \* the largest int64, scaled down

ASSUME SelectionAssumption ==
    /\ {MaximumTries, FloorDivisor, MaxInt} \subseteq Nat \ {0}
    /\ Multiplier \in Nat /\ Multiplier > 1
    /\ Multiplier ^ 9 < MaxInt /\ MaxInt < Multiplier ^ 10   \* as 100 and int64

Total(est) == FoldLeft(LAMBDA sum, e : sum + e.effective, 0, est)

CoinsOf(est) == {est[i].coin : i \in DOMAIN est}

---------------------------------------------------------------------------
(* Branch and bound: a depth-first search for the selection with the least    *)
(* waste in target .. target + cost.                                          *)

\* sort.SliceStable, largest effective amount first.
Descending(est) ==
    LET before(i, j) == \/ est[i].effective > est[j].effective
                        \/ est[i].effective = est[j].effective /\ i < j
        order == SetToSortSeq(DOMAIN est, before)
    IN  [i \in DOMAIN est |-> est[order[i]]]

SearchStart(available, cost) ==
    [selection |-> <<>>, value |-> 0, available |-> available,
     bestWaste |-> cost, best |-> <<>>, done |-> FALSE]

\* The last selected output is deselected and everything after it is undecided again.
Backtrack(est, s) ==
    LET last == Max({0} \union {i \in DOMAIN s.selection : s.selection[i]})
    IN  IF last = 0 THEN [s EXCEPT !.done = TRUE]
        ELSE [s EXCEPT !.selection = Append(SubSeq(s.selection, 1, last - 1), FALSE),
                       !.value = @ - est[last].effective,
                       !.available = @ + Total(SubSeq(est, last + 1, Len(s.selection)))]

\* The next output is selected, unless it equals its predecessor and that was not.
Extend(est, s) ==
    LET i == Len(s.selection) + 1
        same == i > 1 /\ ~s.selection[i - 1] /\ est[i].effective = est[i - 1].effective
    IN  [s EXCEPT !.selection = Append(@, ~same),
                  !.value = IF same THEN @ ELSE @ + est[i].effective,
                  !.available = @ - est[i].effective]

\* Mutant: a selection has to be better than the best so far, which starts as the
\* largest waste allowed.
ImprovesStrictly(waste, best) == waste < best

\* newWaste <= bestWaste
Improves(waste, best) == waste <= best

\* One round of the loop.
SearchStep(est, s, target, cost) ==
    LET waste == s.value - target
    IN  IF s.done THEN s
        ELSE IF s.value + s.available < target \/ s.value > target + cost THEN Backtrack(est, s)
        ELSE IF s.value < target THEN Extend(est, s)
        ELSE Backtrack(est, IF Improves(waste, s.bestWaste)
                            THEN [s EXCEPT !.bestWaste = waste, !.best = s.selection]
                            ELSE s)

BranchAndBound(estimators, target, cost) ==
    LET est == Descending(estimators)
        after[n \in 0..MaximumTries] ==
            IF n = 0 THEN SearchStart(Total(est), cost)
            ELSE SearchStep(est, after[n - 1], target, cost)
        best == after[MaximumTries].best
    IN  {est[i].coin : i \in {j \in DOMAIN best : best[j]}}

---------------------------------------------------------------------------
(* The other strategies of the selector.                                      *)

\* The single output that covers target and change with the least left over.
ClosestMatch(est, target, cost) ==
    LET fits == {i \in DOMAIN est : est[i].effective >= target + cost}
        best == CHOOSE i \in fits : \A j \in fits :
                    \/ est[i].effective < est[j].effective
                    \/ est[i].effective = est[j].effective /\ i <= j
    IN  IF fits = {} THEN {} ELSE {est[best].coin}

\* Any order of the outputs, up to the first that covers target and change.
RandomDraw(est, target, cost) ==
    {LET enough == {n \in DOMAIN draw : Total(SubSeq(draw, 1, n)) >= target + cost}
     IN  IF enough = {} THEN {} ELSE CoinsOf(SubSeq(draw, 1, Min(enough)))
        : draw \in SetToSeqs(Range(est))}

Standard(est, target, cost) ==
    LET exact == BranchAndBound(est, target, cost)
        close == ClosestMatch(est, target, cost)
    IN  IF exact # {} THEN {exact}
        ELSE IF close # {} THEN {close}
        ELSE RandomDraw(est, target, cost)

OnlyConfirmed(est, target, cost) ==
    LET confirmed == SelectSeq(est, LAMBDA e : e.confirmed)
    IN  IF confirmed = <<>> \/ target > Total(confirmed) THEN {{}}
        ELSE Standard(confirmed, target, cost)

PreferConfirmed(est, target, cost) ==
    LET confirmed == OnlyConfirmed(est, target, cost)
    IN  (confirmed \ {{}}) \union
        (IF {} \in confirmed THEN Standard(est, target, cost) ELSE {})

\* An empty or insufficient pool is refused before the strategy is looked at.
Select(est, target, cost, strategy) ==
    IF est = <<>> \/ target > Total(est) THEN {{}}
    ELSE CASE strategy = "standard" -> Standard(est, target, cost)
           [] strategy = "prefer_confirmed" -> PreferConfirmed(est, target, cost)
           [] strategy = "only_confirmed" -> OnlyConfirmed(est, target, cost)
           [] strategy = "branch_and_bound" -> {BranchAndBound(est, target, cost)}
           [] strategy = "closest_match" -> {ClosestMatch(est, target, cost)}
           [] strategy = "random_draw" -> RandomDraw(est, target, cost)

---------------------------------------------------------------------------
(* The strategy of the database: windows of growing amounts, verified outputs *)
(* of a window before unverified ones, smallest first.                        *)

\* Outputs of the window in the order in which the code takes them.
Window(est, floor, ceiling) ==
    LET inside == {i \in DOMAIN est : est[i].amount >= floor /\ est[i].amount < ceiling}
        before(i, j) == \/ est[i].confirmed /\ ~est[j].confirmed
                        \/ /\ est[i].confirmed = est[j].confirmed
                           /\ \/ est[i].amount < est[j].amount
                              \/ est[i].amount = est[j].amount /\ i < j
        order == SetToSortSeq(inside, before)
    IN  [n \in DOMAIN order |-> est[order[n]]]

\* Takes outputs of the window until the goal is reached.
TakeWindow(rows, w, goal) ==
    FoldLeft(LAMBDA acc, e : IF acc.value >= goal THEN acc
                             ELSE [acc EXCEPT !.coins = @ \union {e.coin},
                                              !.value = @ + e.effective],
             w, rows)

\* One window, and the next one: wider by the square of the factor after a gap.
NextWindow(est, w, goal) ==
    LET ceiling == w.floor * w.factor
        taken == TakeWindow(Window(est, w.floor, ceiling), w, goal)
        gap == taken.value = w.value
    IN  IF w.value >= goal \/ w.gaps >= 5 \/ ceiling >= MaxInt \/ w.stop THEN w
        ELSE [taken EXCEPT !.floor = ceiling,
                           !.gaps = IF gap THEN @ + 1 ELSE 0,
                           !.stop = gap /\ w.factor > MaxInt \div w.factor,
                           !.factor = IF gap THEN @ * @ ELSE Multiplier]

\* getAndReserveSpendableOutputs, with the amounts of its caller.
SQLite(est, target, cost) ==
    LET goal == target + cost
        start == [coins |-> {}, value |-> 0, gaps |-> 0, factor |-> Multiplier,
                  floor |-> Min({1, target \div FloorDivisor}), stop |-> FALSE]
        after[n \in 0..(Len(est) * 5 + 5)] ==
            IF n = 0 THEN start ELSE NextWindow(est, after[n - 1], goal)
        end == after[Len(est) * 5 + 5]
    IN  IF end.value < goal THEN {} ELSE end.coins

---------------------------------------------------------------------------
(* Reference: what the strategies amount to, over all subsets of the pool.    *)

SumOf(S) == MapThenSumSet(LAMBDA e : e.effective, S)

\* The lowest amount at which the windows of the database may end: after a window that
\* reached Multiplier^3 and found something, two gaps end at Multiplier^6 (10^12 dewies)
\* and the third ceiling overflows.
SQLiteReach == Multiplier ^ 6

\* The standard strategy on a pool whose effective amounts are not negative: the
\* least wasteful exact match; without one the smallest output that covers target
\* and change; without one any set that covers them and in which the last output
\* drawn was needed; {} when the pool does not cover them.
StandardReference(pool, target, cost, chosen) ==
    LET exact == {S \in SUBSET pool : SumOf(S) \in target..(target + cost)}
        single == {e \in pool : e.effective >= target + cost}
    IN  CASE exact # {} -> chosen \in exact /\ \A S \in exact : SumOf(chosen) <= SumOf(S)
          [] exact = {} /\ single # {} ->
                /\ Cardinality(chosen) = 1 /\ chosen \subseteq single
                /\ \A e \in single : SumOf(chosen) <= e.effective
          [] exact = {} /\ single = {} /\ SumOf(pool) >= target + cost ->
                /\ chosen \subseteq pool /\ SumOf(chosen) >= target + cost
                /\ \E e \in chosen : SumOf(chosen \ {e}) < target + cost
          [] OTHER -> chosen = {}
=============================================================================
