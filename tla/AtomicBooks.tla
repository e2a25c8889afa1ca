---------------------------- MODULE AtomicBooks ----------------------------
(***************************************************************************)
(* The two paper accounts as the code that uses them takes them to be:     *)
(* entering a Kalshi leg, buying on Polymarket and closing a Polymarket    *)
(* position are one step each, and a purchase is one that the preview      *)
(* would have passed at that very moment.  The broker methods promise no   *)
(* such thing: they are several steps, take no lock, and submit_order      *)
(* relies on a preview made earlier.  Calls on one event loop get these    *)
(* accounts nevertheless, because a call gives the loop up only while it   *)
(* awaits its fills.  Calls on several threads do not.                     *)
(***************************************************************************)
EXTENDS Integers, FiniteSets

CONSTANTS KalshiKeys, PolyKeys, KalshiBankroll, PolyBankroll, MaxOrder, MaxOpenPositions, Stakes

VARIABLES
  kCash,   \* what is left of the Kalshi bankroll
  kHeld,   \* kHeld[t]: what was entered on contract t
  pCash,   \* what is left of the Polymarket bankroll
  pHeld    \* pHeld[k]: the value of position k

booksVars == <<kCash, kHeld, pCash, pHeld>>

BooksInit ==
  /\ kCash = KalshiBankroll
  /\ kHeld = [t \in KalshiKeys |-> 0]
  /\ pCash = PolyBankroll
  /\ pHeld = [k \in PolyKeys |-> 0]

\* A leg larger than what is left is entered all the same.
EnterKalshi(t, stake) ==
  /\ kCash' = IF kCash > stake THEN kCash - stake ELSE 0
  /\ kHeld' = [kHeld EXCEPT ![t] = @ + stake]
  /\ UNCHANGED <<pCash, pHeld>>

BuyPoly(k, stake) ==
  /\ stake <= MaxOrder
  /\ stake <= pCash
  /\ pHeld[k] > 0 \/ Cardinality({x \in PolyKeys : pHeld[x] > 0}) < MaxOpenPositions
  /\ pCash' = pCash - stake
  /\ pHeld' = [pHeld EXCEPT ![k] = @ + stake]
  /\ UNCHANGED <<kCash, kHeld>>

\* The whole position, whoever bought it.
ClosePoly(k) ==
  /\ pCash' = pCash + pHeld[k]
  /\ pHeld' = [pHeld EXCEPT ![k] = 0]
  /\ UNCHANGED <<kCash, kHeld>>

BooksNext ==
  \/ \E t \in KalshiKeys, stake \in Stakes : EnterKalshi(t, stake)
  \/ \E k \in PolyKeys : ClosePoly(k) \/ \E stake \in Stakes : BuyPoly(k, stake)

BooksSpec == BooksInit /\ [][BooksNext]_booksVars
=============================================================================
