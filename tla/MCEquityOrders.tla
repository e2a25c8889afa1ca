--------------------------- MODULE MCEquityOrders ---------------------------
(***************************************************************************)
(* Cycles over one symbol; a cycle brings an option, or an order to buy    *)
(* and then one to sell short.                                             *)
(***************************************************************************)
EXTENDS EquityOrders, TLC

CONSTANTS k1, k2, a, o1, o2, o3, none

MCBatches == {<<[symbol |-> a, path |-> "option"]>>,
              <<[symbol |-> a, path |-> "long"], [symbol |-> a, path |-> "short"]>>}

\* Cycles, and the broker's ids, are interchangeable.
MCSymmetry == Permutations(Cycle) \cup Permutations(OrderId)
=============================================================================
