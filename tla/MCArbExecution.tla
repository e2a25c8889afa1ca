--------------------------- MODULE MCArbExecution ---------------------------
(***************************************************************************)
(* Instances of ArbExecution for TLC: two markets, one Kalshi contract     *)
(* paired with both and one paired with the first only, so that arbs share *)
(* positions on either venue.                                              *)
(***************************************************************************)
EXTENDS ArbExecution, TLC

CONSTANTS k1, k2, p1, p2, p3, a1, a2, a3, e1, loop, w1

MCArbs == {[ticker |-> k1, key |-> p1], [ticker |-> k2, key |-> p1],
           [ticker |-> k1, key |-> p2]}

\* On the demo venue no Kalshi position is kept: one contract is enough.
MCDemoArbs == {[ticker |-> k1, key |-> p1], [ticker |-> k1, key |-> p2]}

\* Calls are interchangeable; used by runs without liveness.
MCCalls == Permutations(ArbCall)
=============================================================================
