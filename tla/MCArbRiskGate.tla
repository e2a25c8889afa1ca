--------------------------- MODULE MCArbRiskGate ---------------------------
(***************************************************************************)
(* Three threads, one contract (contracts share nothing but the loss       *)
(* meter, which does not look at them), a cap of two rejections, one       *)
(* failed read of the log at each check while the meter is at the cap, and *)
(* six log rows: one more than a meter in bounds can fill with rejections. *)
(***************************************************************************)
EXTENDS ArbRiskGate, TLC

CONSTANTS c1, c2, c3, t1

\* Threads are interchangeable.
MCCallers == Permutations(Caller)
=============================================================================
