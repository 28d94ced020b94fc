---------------------------- MODULE MCSPVNetwork ----------------------------
(***************************************************************************)
(* Scenarios for TLC: each budget bounds what may happen in a behaviour.   *)
(***************************************************************************)
EXTENDS SPVNetwork

Budget(blocks, tip, others, faults, stops) ==
    [blocks |-> blocks, calls |-> [c \in Caller |-> IF c = Tip THEN tip ELSE others],
     faults |-> faults, starts |-> 1, stops |-> stops]

\* A call of any kind against a fault and a stop; enough blocks to block the reader behind
\* the tip worker's own request; two callers, one slot.
MCBudgets == {Budget(0, 0, 1, 1, 1), Budget(4, 1, 0, 0, 0), Budget(0, 1, 1, 0, 0)}
=============================================================================
