---------------------------- MODULE PaperBrokers ----------------------------
(***************************************************************************)
(* The two simulated venue accounts that the paper broker router holds:    *)
(* PaperPolymarketBroker and PaperKalshiBroker (integrations/broker.py).   *)
(* Each is one buying-power number and one dictionary of open positions;   *)
(* neither takes a lock, and one router instance is shared by every thread *)
(* of a process.  A position is represented by its market value, 0 when    *)
(* the dictionary has no such key (a stake is never 0).                    *)
(*                                                                         *)
(* A broker method is cut where CPython can switch threads, which is at a  *)
(* call: a method that reads, calls and then writes is one operator per    *)
(* side of the call.  The modules that use the accounts keep the value     *)
(* read in a local of the calling thread.                                  *)
(***************************************************************************)
EXTENDS Integers, FiniteSets, Functions

CONSTANTS
  KalshiKeys,        \* position keys "KALSHI:<ticker>|YES"
  PolyKeys,          \* position keys "PM:<market>|<side>"
  KalshiBankroll,    \* settings.kalshi_paper_bankroll_usd
  PolyBankroll,      \* settings.polymarket_paper_bankroll_usd
  MaxOrder,          \* settings.polymarket_paper_max_order_usd
  MaxOpenPositions   \* settings.polymarket_paper_max_open_positions

ASSUME BrokerAssumption ==
  /\ IsFiniteSet(KalshiKeys) /\ IsFiniteSet(PolyKeys)
  /\ KalshiBankroll \in Nat /\ PolyBankroll \in Nat
  /\ MaxOrder \in Nat \ {0} /\ MaxOpenPositions \in Nat \ {0}

VARIABLES
  kBP,    \* PaperKalshiBroker.buying_power
  kPos,   \* PaperKalshiBroker.positions, by market value
  pBP,    \* PaperPolymarketBroker.buying_power
  pPos    \* PaperPolymarketBroker.positions, by market value

brokerVars == <<kBP, kPos, pBP, pPos>>

BrokerInit ==
  /\ kBP = KalshiBankroll
  /\ kPos = [k \in KalshiKeys |-> 0]
  /\ pBP = PolyBankroll
  /\ pPos = [k \in PolyKeys |-> 0]

(***************************************************************************)
(* Polymarket.  buying_power can go negative: submit_order checks nothing. *)
(***************************************************************************)
OpenPolyKeys == {k \in PolyKeys : pPos[k] > 0}

\* Mutants of preview_order: without the buying-power check, and with the
\* position cap off by one.
PolyPreview_noPower(key, stake) ==
  /\ stake <= MaxOrder
  /\ Cardinality(OpenPolyKeys) < MaxOpenPositions \/ key \in OpenPolyKeys
PolyPreview_capOffByOne(key, stake) ==
  /\ stake <= MaxOrder
  /\ stake <= pBP
  /\ Cardinality(OpenPolyKeys) <= MaxOpenPositions \/ key \in OpenPolyKeys

PolyPreview(key, stake) ==
  /\ stake <= MaxOrder
  /\ stake <= pBP
  /\ Cardinality(OpenPolyKeys) < MaxOpenPositions \/ key \in OpenPolyKeys

\* Mutant: the floor at zero of the Kalshi account.
PolyDebit_floor(stake) == pBP' = IF pBP > stake THEN pBP - stake ELSE 0
PolyDebit(stake) == pBP' = pBP - stake

\* Mutant: a second order on the same key replaces the position.
PolyStore_overwrite(key, oldValue, stake) ==
  pPos' = [pPos EXCEPT ![key] = stake]
PolyStore(key, oldValue, stake) ==
  pPos' = [pPos EXCEPT ![key] = oldValue + stake]

PolyPop(key) == pPos' = [pPos EXCEPT ![key] = 0]

PolyCredit(value) == pBP' = pBP + value

(***************************************************************************)
(* Kalshi.  submit_yes_leg checks nothing either, and floors the buying    *)
(* power at zero, so a leg larger than what is left is still entered.      *)
(***************************************************************************)
\* Mutant: without the floor.
KalshiDebit_noFloor(readBP, stake) == kBP' = readBP - stake
KalshiDebit(readBP, stake) ==
  kBP' = IF readBP > stake THEN readBP - stake ELSE 0

\* Mutant: a second leg on the same ticker replaces the position.
KalshiStore_overwrite(key, oldValue, stake) ==
  kPos' = [kPos EXCEPT ![key] = stake]
KalshiStore(key, oldValue, stake) ==
  kPos' = [kPos EXCEPT ![key] = oldValue + stake]

PolyBook   == SumFunction(pPos)
KalshiBook == SumFunction(kPos)
=============================================================================
