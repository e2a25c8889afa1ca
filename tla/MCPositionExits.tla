--------------------------- MODULE MCPositionExits ---------------------------
(***************************************************************************)
(* Two managers in two processes and an engine scan, on one signal whose   *)
(* message is edited: it names a contract that is held, or one that never  *)
(* is.                                                                     *)
(***************************************************************************)
EXTENDS PositionExits

CONSTANTS a, b, m1, bot, app, scan
==============================================================================
