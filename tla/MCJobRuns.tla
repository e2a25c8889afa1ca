----------------------------- MODULE MCJobRuns -----------------------------
(***************************************************************************)
(* Slot 1 is the order slot, the last slot too late for the catch-up.      *)
(* Two timetables: the orders in slot 1 and the loss cut in every slot     *)
(* from there on; and, for two processes, one job that has both slots of   *)
(* the day (jobs share nothing but their process, so one stands for all).  *)
(***************************************************************************)
EXTENDS JobRuns

CONSTANTS s1, s2

MCJob == {"order_submission", "loss_cut_scan"}
MCSlots == [j \in MCJob |-> IF j = "loss_cut_scan" THEN 1..3 ELSE {1}]

MCOneJob == {"order_submission"}
MCEverySlot == [j \in MCOneJob |-> 1..LastSlot]
=============================================================================
