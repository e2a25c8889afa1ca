--------------------------- MODULE ArbBooksProofs ---------------------------
(***************************************************************************)
(* Proofs about the books of the two paper accounts in ArbExecution: money *)
(* is never created, the books balance between two awaits of an event      *)
(* loop, the pairs that were returned stay on both books, and one event    *)
(* loop makes the broker methods atomic.                                   *)
(*                                                                         *)
(* A broker method takes a value out of one number of an account and puts  *)
(* it into the other in a later step.  In between the value is in flight,  *)
(* in a local of the call.  Counting it (PolyTotal, KalshiSpent), a step   *)
(* changes the total of the Polymarket account in one case only: a stored  *)
(* position that was computed from a stale read moves it by the error of   *)
(* that read (TotalStep).                                                  *)
(*   - With one thread no read is ever stale (ReadsFresh), so the totals   *)
(*     are exact: BooksAreBalanced, PairsAreHeld.  Nor is a preview stale  *)
(*     when its order is entered (PreviewsFresh), so the accounts are      *)
(*     those of AtomicBooks: ImplementsBooks.                              *)
(*   - With several threads a stale read can be too low or too high: it    *)
(*     may bring back a stake that another call has overwritten.  But on   *)
(*     the paper venues what it brings back was paid for.  StoredBy counts *)
(*     the stakes stored on each position since the start: no position,    *)
(*     and no read of one, is ever above it (PaperLedger), and it is exact *)
(*     against the buying power: PaperMoneyIsNeverCreated.                 *)
(***************************************************************************)
EXTENDS ArbExecutionProofs, FunctionSums

OneThread == \A t, u \in Thread : t = u

PolyTotal   == pBP + PolyBook + SumFunctionOnSet(PolyInFlight, Call)
KalshiSpent == KalshiBook + SumFunctionOnSet(KalshiInFlight, Call)

\* The stakes stored on each position, by all the calls so far.
StoredBy == [key \in PolyKeys |->
               SumFunctionOnSet(StakeOf, {c \in Call : pOrder[c] /\ job[c].key = key})]
KalshiStoredBy == [t \in KalshiKeys |->
               SumFunctionOnSet(StakeOf, {c \in ArbCall : kOrder[c] /\ job[c].ticker = t})]

\* No account has changed since a call read the value it will write from.
ReadsFresh ==
  \A c \in Call :
    /\ pc[c] = "p_store" => old[c] = pPos[job[c].key]
    /\ pc[c] = "k_debit" => old[c] = kBP
    /\ pc[c] = "k_store" => old[c] = kPos[job[c].ticker]

\* What the preview of a call has established still holds when the call
\* spends, and after the debit what is left of it does.
PreviewHolds(c) ==
  /\ pc[c] = "p_debit" => PolyPreview(job[c].key, job[c].stake)
  /\ pc[c] = "p_store" => /\ job[c].stake <= MaxOrder
                          /\ 0 <= pBP
                          /\ \/ Cardinality(OpenPolyKeys) < MaxOpenPositions
                             \/ job[c].key \in OpenPolyKeys

PreviewsFresh == \A c \in Call : PreviewHolds(c)

\* A call's order ids are set when its stake is stored, and not before.
IdsAt ==
  \A c \in Call :
    /\ pc[c] \in {"idle", "leg1", "k_debit", "k_store", "leg2", "p_debit", "p_store"} =>
         ~pOrder[c]
    /\ pc[c] = "fills" => pOrder[c]
    /\ result[c] = "success" => pOrder[c] /\ (c \in ArbCall => kOrder[c])

\* One thread: the two accounts are exact, and so are the paper positions.
PolyExact   == PolyTotal = PolyBankroll
KalshiExact == kBP = IF KalshiBankroll > KalshiSpent THEN KalshiBankroll - KalshiSpent ELSE 0
PairsBacked == /\ \A key \in PolyKeys : pPos[key] = StoredBy[key]
               /\ \A t \in KalshiKeys : kPos[t] = KalshiStoredBy[t]

\* The paper venues report every fill, so nothing is ever unwound.
NothingUnwound == \A c \in Call : pc[c] \notin {"unwind", "credit"}

\* The paper venues, whatever the threads do.
PaperLedger ==
  /\ pBP + SumFunctionOnSet(StoredBy, PolyKeys) + SumFunctionOnSet(PolyInFlight, Call)
       = PolyBankroll
  /\ \A key \in PolyKeys : pPos[key] <= StoredBy[key]
  /\ \A c \in Call : pc[c] = "p_store" => old[c] <= StoredBy[job[c].key]

-----------------------------------------------------------------------------
(***************************************************************************)
(* Types, and the books as sums.                                           *)
(***************************************************************************)
LEMMA Finite == IsFiniteSet(Call) /\ IsFiniteSet(PolyKeys) /\ IsFiniteSet(KalshiKeys)
BY ArbAssumption, BrokerAssumption

LEMMA JobTypes ==
  ASSUME Inv, NEW c \in Call, pc[c] # "idle"
  PROVE  /\ job[c] \in Jobs /\ job[c].thread \in Thread
         /\ job[c].key \in PolyKeys /\ job[c].stake \in Nat
         /\ c \in ArbCall => job[c].ticker \in KalshiKeys
         /\ pc[c] \in {"k_debit", "k_store"} => c \in ArbCall
<1>1. job[c] \in Jobs
  BY DEF Inv, TypeOK, Phases
<1>2. job[c].thread \in Thread /\ job[c].key \in PolyKeys /\ job[c].stake \in Nat
  BY <1>1, ArbAssumption DEF Jobs
<1>3. c \in ArbCall => job[c].ticker \in KalshiKeys
  BY DEF Inv, Phases
<1>4. pc[c] \in {"k_debit", "k_store"} => c \in ArbCall
  BY DEF Inv, Phases, Call, EventPCs
<1> QED
  BY <1>1, <1>2, <1>3, <1>4

LEMMA BookTypes ==
  ASSUME TypeOK
  PROVE  /\ PolyBook = SumFunctionOnSet(pPos, PolyKeys) /\ PolyBook \in Int
         /\ KalshiBook = SumFunctionOnSet(kPos, KalshiKeys) /\ KalshiBook \in Nat
<1>1. DOMAIN pPos = PolyKeys /\ \A k \in PolyKeys : pPos[k] \in Int
  BY DEF TypeOK
<1>2. DOMAIN kPos = KalshiKeys /\ \A k \in KalshiKeys : kPos[k] \in Nat
  BY DEF TypeOK
<1>3. PolyBook = SumFunctionOnSet(pPos, PolyKeys)
  BY <1>1 DEF PolyBook, SumFunction
<1>4. KalshiBook = SumFunctionOnSet(kPos, KalshiKeys)
  BY <1>2 DEF KalshiBook, SumFunction
<1>5. PolyBook \in Int
  BY <1>1, <1>3, Finite, SumInt
<1>6. KalshiBook \in Nat
  BY <1>2, <1>4, Finite, SumNat
<1> QED
  BY <1>3, <1>4, <1>5, <1>6

FlightNat == \A c \in Call : PolyInFlight[c] \in Nat /\ KalshiInFlight[c] \in Nat

LEMMA FlightIsNat == Inv => FlightNat
BY JobTypes DEF Inv, TypeOK, PolyInFlight, KalshiInFlight, FlightNat

LEMMA FlightTypes ==
  ASSUME Inv
  PROVE  /\ SumFunctionOnSet(PolyInFlight, Call) \in Nat
         /\ SumFunctionOnSet(KalshiInFlight, Call) \in Nat
BY FlightIsNat, Finite, SumNat DEF FlightNat

TotalsTyped == pBP \in Int /\ PolyBook \in Int /\ SumFunctionOnSet(PolyInFlight, Call) \in Nat

LEMMA TotalsAreTyped == Inv => TotalsTyped
BY BookTypes, FlightTypes DEF Inv, TypeOK, TotalsTyped

LEMMA PolyBookSet ==
  ASSUME TypeOK, TypeOK', NEW k \in PolyKeys, \A x \in PolyKeys \ {k} : pPos'[x] = pPos[x]
  PROVE  PolyBook' = PolyBook - pPos[k] + pPos'[k]
<1>1. \A x \in PolyKeys : pPos[x] \in Int /\ pPos'[x] \in Int
  BY DEF TypeOK
<1>2. SumFunctionOnSet(pPos', PolyKeys) = SumFunctionOnSet(pPos, PolyKeys) - pPos[k] + pPos'[k]
  BY <1>1, Finite, SumChange
<1>3. PolyBook = SumFunctionOnSet(pPos, PolyKeys)
  BY BookTypes
<1>4. DOMAIN pPos' = PolyKeys
  BY DEF TypeOK
<1>5. PolyBook' = SumFunctionOnSet(pPos', PolyKeys)
  BY <1>4 DEF PolyBook, SumFunction
<1> QED
  BY <1>2, <1>3, <1>5

LEMMA KalshiBookSet ==
  ASSUME TypeOK, TypeOK', NEW k \in KalshiKeys, \A x \in KalshiKeys \ {k} : kPos'[x] = kPos[x]
  PROVE  KalshiBook' = KalshiBook - kPos[k] + kPos'[k]
<1>1. \A x \in KalshiKeys : kPos[x] \in Int /\ kPos'[x] \in Int
  BY DEF TypeOK
<1>2. SumFunctionOnSet(kPos', KalshiKeys) = SumFunctionOnSet(kPos, KalshiKeys) - kPos[k] + kPos'[k]
  BY <1>1, Finite, SumChange
<1>3. KalshiBook = SumFunctionOnSet(kPos, KalshiKeys)
  BY BookTypes
<1>4. DOMAIN kPos' = KalshiKeys
  BY DEF TypeOK
<1>5. KalshiBook' = SumFunctionOnSet(kPos', KalshiKeys)
  BY <1>4 DEF KalshiBook, SumFunction
<1> QED
  BY <1>2, <1>3, <1>5

LEMMA BookSame ==
  /\ UNCHANGED pPos => PolyBook' = PolyBook
  /\ UNCHANGED kPos => KalshiBook' = KalshiBook
BY DEF PolyBook, KalshiBook

(***************************************************************************)
(* A step of call c changes the locals of c only, and what is in flight    *)
(* changes with them.                                                      *)
(***************************************************************************)
Step(c) == Begin(c) \/ Advance(c) \/ CycleTimeout(c) \/ ExchangeMoves(c)

LEMMA StepFrame ==
  ASSUME Inv, NEW c \in Call, Step(c)
  PROVE  \A d \in Call \ {c} :
           /\ pc'[d] = pc[d] /\ old'[d] = old[d] /\ job'[d] = job[d]
           /\ kOrder'[d] = kOrder[d] /\ pOrder'[d] = pOrder[d] /\ result'[d] = result[d]
<1> USE DEF Inv, TypeOK, Goto, Return
<1>1. CASE Begin(c)
  BY <1>1 DEF Begin, ArbRefused, ArbAccepted, BeginArb, EventPassed, EventRejected
<1>2. CASE KalshiReadPower(c) \/ KalshiWritePower(c) \/ KalshiWritePosition(c)
  BY <1>2 DEF KalshiReadPower, KalshiWritePower, KalshiWritePosition
<1>3. CASE DemoLegAccepted(c) \/ DemoLegRaised(c)
  BY <1>3 DEF DemoLegAccepted, DemoLegRaised
<1>4. CASE PolyPreviewed(c) \/ PolyRefused(c) \/ PolyTakePower(c) \/ PolyWritePosition(c)
  BY <1>4 DEF PolyPreviewed, PolyRefused, PolyTakePower, PolyWritePosition
<1>5. CASE ArbFilled(c) \/ LegImbalance(c) \/ UnwindPop(c) \/ UnwindCredit(c) \/ EventFilled(c)
  BY <1>5 DEF ArbFilled, LegImbalance, UnwindPop, UnwindCredit, EventFilled
<1>6. CASE CycleTimeout(c) \/ ExchangeMoves(c)
  BY <1>6 DEF CycleTimeout, ExchangeMoves
<1> QED
  BY <1>1, <1>2, <1>3, <1>4, <1>5, <1>6 DEF Step, Advance

\* The steps that leave the Polymarket account alone.
PolyIdle(c) ==
  \/ Begin(c) \/ KalshiReadPower(c) \/ KalshiWritePower(c) \/ KalshiWritePosition(c)
  \/ DemoLegAccepted(c) \/ DemoLegRaised(c) \/ PolyPreviewed(c) \/ PolyRefused(c)
  \/ ArbFilled(c) \/ LegImbalance(c) \/ EventFilled(c) \/ CycleTimeout(c) \/ ExchangeMoves(c)

LEMMA PolyIdleStep ==
  ASSUME Inv, NEW c \in Call, PolyIdle(c)
  PROVE  /\ UNCHANGED <<pBP, pPos>>
         /\ pc'[c] \notin {"p_store", "credit"} \/ UNCHANGED <<pc, job, old>>
         /\ pc[c] \notin {"p_store", "credit"} \/ UNCHANGED <<pc, job, old>>
<1> USE DEF Inv, TypeOK, Goto, Return, brokerVars
<1>1. CASE Begin(c)
  BY <1>1 DEF Begin, ArbRefused, ArbAccepted, BeginArb, EventPassed, EventRejected
<1>2. CASE KalshiReadPower(c) \/ KalshiWritePower(c) \/ KalshiWritePosition(c)
  BY <1>2 DEF KalshiReadPower, KalshiWritePower, KalshiWritePosition
<1>3. CASE DemoLegAccepted(c) \/ DemoLegRaised(c)
  BY <1>3 DEF DemoLegAccepted, DemoLegRaised
<1>4. CASE PolyPreviewed(c) \/ PolyRefused(c)
  BY <1>4 DEF PolyPreviewed, PolyRefused
<1>5. CASE ArbFilled(c) \/ LegImbalance(c) \/ EventFilled(c)
  BY <1>5 DEF ArbFilled, LegImbalance, EventFilled
<1>6. CASE CycleTimeout(c) \/ ExchangeMoves(c)
  BY <1>6 DEF CycleTimeout, ExchangeMoves, Awaiting
<1> QED
  BY <1>1, <1>2, <1>3, <1>4, <1>5, <1>6 DEF PolyIdle

LEMMA PolyFlightSame ==
  ASSUME Inv, NEW c \in Call, PolyIdle(c)
  PROVE  PolyInFlight' = PolyInFlight
<1>1. Step(c)
  BY DEF PolyIdle, Step, Advance
<1>2. \A d \in Call \ {c} : pc'[d] = pc[d] /\ old'[d] = old[d] /\ job'[d] = job[d]
  BY <1>1, StepFrame
<1>3. \/ pc'[c] \notin {"p_store", "credit"} /\ pc[c] \notin {"p_store", "credit"}
      \/ UNCHANGED <<pc, job, old>>
  BY PolyIdleStep
<1> QED
  BY <1>2, <1>3 DEF PolyInFlight

LEMMA PolyFlightSet ==
  ASSUME Inv, Inv', NEW c \in Call, Step(c)
  PROVE  SumFunctionOnSet(PolyInFlight, Call)'
           = SumFunctionOnSet(PolyInFlight, Call) - PolyInFlight[c] + PolyInFlight'[c]
<1>1. \A d \in Call : PolyInFlight[d] \in Nat /\ PolyInFlight'[d] \in Nat
  <2>1. FlightNat /\ FlightNat'
    BY FlightIsNat, PTL
  <2> QED
    BY <2>1 DEF FlightNat
<1>2. \A d \in Call \ {c} : PolyInFlight'[d] = PolyInFlight[d]
  BY StepFrame DEF PolyInFlight
<1>3. SumFunctionOnSet(PolyInFlight', Call)
        = SumFunctionOnSet(PolyInFlight, Call) - PolyInFlight[c] + PolyInFlight'[c]
  BY <1>1, <1>2, Finite, SumChange
<1> QED
  BY <1>3

(***************************************************************************)
(* No step changes the total of the Polymarket account, but one: a stored  *)
(* position moves it by the error of the read it was computed from.        *)
(***************************************************************************)
LEMMA TotalStep ==
  ASSUME Inv, Inv', NEW c \in Call, Step(c)
  PROVE  \/ PolyTotal' = PolyTotal /\ ~PolyWritePosition(c)
         \/ PolyWritePosition(c) /\ PolyTotal' = PolyTotal + old[c] - pPos[job[c].key]
<1> DEFINE flight == SumFunctionOnSet(PolyInFlight, Call)
<1>0. /\ TypeOK /\ TypeOK' /\ pBP \in Int /\ PolyBook \in Int /\ flight \in Int
      /\ old[c] \in Nat
  BY BookTypes, FlightTypes DEF Inv, TypeOK
<1>1. CASE PolyIdle(c)
  <2>1. UNCHANGED <<pBP, pPos>> /\ PolyInFlight' = PolyInFlight
    BY <1>1, PolyIdleStep, PolyFlightSame
  <2>2. ~PolyWritePosition(c)
    BY <1>1, PolyIdleStep DEF PolyWritePosition, Goto, Inv, TypeOK
  <2> QED
    BY <2>1, <2>2, BookSame DEF PolyTotal
<1>2. CASE PolyTakePower(c)
  <2>1. job[c].stake \in Nat
    BY <1>2, JobTypes DEF PolyTakePower
  <2>2. /\ pc[c] = "p_debit" /\ pc'[c] = "p_store" /\ job' = job /\ pPos' = pPos
        /\ pBP' = pBP - job[c].stake
    BY <1>0, <1>2 DEF PolyTakePower, PolyDebit, Goto, TypeOK
  <2>3. flight' = flight - PolyInFlight[c] + PolyInFlight'[c]
    BY PolyFlightSet
  <2>4. PolyInFlight[c] = 0 /\ PolyInFlight'[c] = job[c].stake /\ ~PolyWritePosition(c)
    BY <2>2 DEF PolyInFlight, PolyWritePosition
  <2> HIDE DEF flight
  <2>5. pBP' + PolyBook' + flight' = pBP + PolyBook + flight
    BY <1>0, <2>1, <2>2, <2>3, <2>4, BookSame
  <2> QED
    BY <2>4, <2>5 DEF PolyTotal, flight
<1>3. CASE PolyWritePosition(c)
  <2> DEFINE key == job[c].key
             stake == job[c].stake
  <2>1. key \in PolyKeys /\ stake \in Nat /\ pPos[key] \in Nat
    BY <1>0, <1>3, JobTypes DEF PolyWritePosition, TypeOK
  <2>2. /\ pc[c] = "p_store" /\ pc'[c] = "fills" /\ pBP' = pBP
        /\ pPos' = [pPos EXCEPT ![key] = old[c] + stake]
    BY <1>0, <1>3 DEF PolyWritePosition, PolyStore, Goto, TypeOK
  <2>3. flight' = flight - PolyInFlight[c] + PolyInFlight'[c]
    BY PolyFlightSet
  <2>4. PolyInFlight[c] = stake /\ PolyInFlight'[c] = 0
    BY <2>2 DEF PolyInFlight
  <2>5. PolyBook' = PolyBook - pPos[key] + (old[c] + stake)
    <3>1. pPos'[key] = old[c] + stake /\ \A x \in PolyKeys \ {key} : pPos'[x] = pPos[x]
      BY <1>0, <2>1, <2>2 DEF TypeOK
    <3> QED
      BY <1>0, <2>1, <3>1, PolyBookSet
  <2> HIDE DEF flight, key, stake
  <2>6. pBP' + PolyBook' + flight' = pBP + PolyBook + flight + old[c] - pPos[key]
    BY <1>0, <2>1, <2>2, <2>3, <2>4, <2>5
  <2> QED
    BY <1>3, <2>6 DEF PolyTotal, flight, key
<1>4. CASE UnwindPop(c)
  <2> DEFINE key == job[c].key
  <2>1. key \in PolyKeys /\ pPos[key] \in Nat
    BY <1>0, <1>4, JobTypes DEF UnwindPop, TypeOK
  <2>2. /\ pc[c] = "unwind" /\ pc'[c] = "credit" /\ pBP' = pBP /\ old'[c] = pPos[key]
        /\ pPos' = [pPos EXCEPT ![key] = 0]
    BY <1>0, <1>4 DEF UnwindPop, PolyPop, Goto, TypeOK
  <2>3. flight' = flight - PolyInFlight[c] + PolyInFlight'[c]
    BY PolyFlightSet
  <2>4. PolyInFlight[c] = 0 /\ PolyInFlight'[c] = pPos[key] /\ ~PolyWritePosition(c)
    BY <2>2 DEF PolyInFlight, PolyWritePosition
  <2>5. PolyBook' = PolyBook - pPos[key] + 0
    <3>1. pPos'[key] = 0 /\ \A x \in PolyKeys \ {key} : pPos'[x] = pPos[x]
      BY <1>0, <2>1, <2>2 DEF TypeOK
    <3> QED
      BY <1>0, <2>1, <3>1, PolyBookSet
  <2> HIDE DEF flight, key
  <2>6. pBP' + PolyBook' + flight' = pBP + PolyBook + flight
    BY <1>0, <2>1, <2>2, <2>3, <2>4, <2>5
  <2> QED
    BY <2>4, <2>6 DEF PolyTotal, flight
<1>5. CASE UnwindCredit(c)
  <2>1. /\ pc[c] = "credit" /\ pc'[c] = "done" /\ pBP' = pBP + old[c] /\ pPos' = pPos
    BY <1>0, <1>5 DEF UnwindCredit, PolyCredit, Return, Goto, TypeOK
  <2>2. flight' = flight - PolyInFlight[c] + PolyInFlight'[c]
    BY PolyFlightSet
  <2>3. PolyInFlight[c] = old[c] /\ PolyInFlight'[c] = 0 /\ ~PolyWritePosition(c)
    BY <2>1 DEF PolyInFlight, PolyWritePosition
  <2> HIDE DEF flight
  <2>4. pBP' + PolyBook' + flight' = pBP + PolyBook + flight
    BY <1>0, <2>1, <2>2, <2>3, BookSame
  <2> QED
    BY <2>3, <2>4 DEF PolyTotal, flight
<1> QED
  BY <1>1, <1>2, <1>3, <1>4, <1>5 DEF Step, Advance, PolyIdle

-----------------------------------------------------------------------------
(***************************************************************************)
(* One thread: a call that touches an account occupies the thread, so no   *)
(* other call is between a read and the write computed from it.            *)
(***************************************************************************)
LEMMA Alone ==
  ASSUME OneThread, Inv, NEW c \in Call, NEW d \in Call, Occupies(c), Occupies(d)
  PROVE  c = d
<1>1. job[c].thread \in Thread /\ job[d].thread \in Thread
  BY JobTypes DEF Occupies
<1> QED
  BY <1>1 DEF OneThread, Inv, Exclusive

LEMMA AccountsBusy ==
  ASSUME Inv, NEW c \in Call, Step(c)
  PROVE  Occupies(c) \/ UNCHANGED brokerVars
<1> USE DEF Occupies, Awaiting
<1>1. CASE Begin(c)
  BY <1>1 DEF Begin, ArbRefused, ArbAccepted, EventPassed, EventRejected
<1>2. CASE KalshiReadPower(c) \/ KalshiWritePower(c) \/ KalshiWritePosition(c)
  BY <1>2 DEF KalshiReadPower, KalshiWritePower, KalshiWritePosition
<1>3. CASE DemoLegAccepted(c) \/ DemoLegRaised(c)
  BY <1>3 DEF DemoLegAccepted, DemoLegRaised
<1>4. CASE PolyPreviewed(c) \/ PolyRefused(c) \/ PolyTakePower(c) \/ PolyWritePosition(c)
  BY <1>4 DEF PolyPreviewed, PolyRefused, PolyTakePower, PolyWritePosition
<1>5. CASE ArbFilled(c) \/ LegImbalance(c) \/ UnwindPop(c) \/ UnwindCredit(c) \/ EventFilled(c)
  BY <1>5 DEF ArbFilled, LegImbalance, UnwindPop, UnwindCredit, EventFilled
<1>6. CASE CycleTimeout(c) \/ ExchangeMoves(c)
  BY <1>6 DEF CycleTimeout, ExchangeMoves
<1> QED
  BY <1>1, <1>2, <1>3, <1>4, <1>5, <1>6 DEF Step, Advance

\* What the stepping call itself has read is what is there.
LEMMA OwnReadFresh ==
  ASSUME Inv, Inv', NEW c \in Call, Step(c)
  PROVE  \/ UNCHANGED <<pc, old, job, brokerVars>>
         \/ /\ pc'[c] = "p_store" => old'[c] = pPos'[job'[c].key]
            /\ pc'[c] = "k_debit" => old'[c] = kBP'
            /\ pc'[c] = "k_store" => old'[c] = kPos'[job'[c].ticker]
<1> USE DEF Inv, TypeOK, Goto, Return
<1>1. CASE Begin(c)
  BY <1>1 DEF Begin, ArbRefused, ArbAccepted, BeginArb, EventPassed, EventRejected
<1>2. CASE KalshiReadPower(c)
  BY <1>2 DEF KalshiReadPower, brokerVars
<1>3. CASE KalshiWritePower(c)
  BY <1>3 DEF KalshiWritePower
<1>4. CASE KalshiWritePosition(c) \/ DemoLegAccepted(c) \/ DemoLegRaised(c)
  BY <1>4 DEF KalshiWritePosition, DemoLegAccepted, DemoLegRaised
<1>5. CASE PolyTakePower(c)
  BY <1>5 DEF PolyTakePower
<1>6. CASE PolyPreviewed(c) \/ PolyRefused(c) \/ PolyWritePosition(c)
  BY <1>6 DEF PolyPreviewed, PolyRefused, PolyWritePosition
<1>7. CASE ArbFilled(c) \/ LegImbalance(c) \/ UnwindPop(c) \/ UnwindCredit(c) \/ EventFilled(c)
  BY <1>7 DEF ArbFilled, LegImbalance, UnwindPop, UnwindCredit, EventFilled
<1>8. CASE CycleTimeout(c) \/ ExchangeMoves(c)
  BY <1>8 DEF CycleTimeout, ExchangeMoves
<1> QED
  BY <1>1, <1>2, <1>3, <1>4, <1>5, <1>6, <1>7, <1>8 DEF Step, Advance

LEMMA FreshStep ==
  ASSUME OneThread, Inv, Inv', ReadsFresh, NEW c \in Call, Step(c)
  PROVE  ReadsFresh'
<1> SUFFICES ASSUME NEW d \in Call
             PROVE  /\ pc'[d] = "p_store" => old'[d] = pPos'[job'[d].key]
                    /\ pc'[d] = "k_debit" => old'[d] = kBP'
                    /\ pc'[d] = "k_store" => old'[d] = kPos'[job'[d].ticker]
  BY DEF ReadsFresh
<1>1. CASE d = c
  BY <1>1, OwnReadFresh DEF ReadsFresh, brokerVars
<1>2. CASE d # c /\ pc[d] \in {"p_store", "k_debit", "k_store"}
  <2>1. Occupies(d)
    BY <1>2 DEF Occupies, Awaiting
  <2>2. UNCHANGED brokerVars
    BY <1>2, <2>1, Alone, AccountsBusy
  <2> QED
    BY <1>2, <2>2, StepFrame DEF ReadsFresh, brokerVars
<1>3. CASE d # c /\ pc[d] \notin {"p_store", "k_debit", "k_store"}
  BY <1>3, StepFrame
<1> QED
  BY <1>1, <1>2, <1>3

LEMMA PolyExactStep ==
  ASSUME Inv, Inv', ReadsFresh, PolyExact, NEW c \in Call, Step(c)
  PROVE  PolyExact'
<1>1. PolyWritePosition(c) => old[c] = pPos[job[c].key] /\ old[c] \in Nat
  BY DEF PolyWritePosition, ReadsFresh, Inv, TypeOK
<1>2. PolyBankroll \in Nat
  BY BrokerAssumption
<1> QED
  BY <1>1, <1>2, TotalStep DEF PolyExact

(***************************************************************************)
(* The Kalshi account: the buying power follows what is on the book and in *)
(* flight, floored at zero.                                                *)
(***************************************************************************)
LEMMA KalshiIdleStep ==
  ASSUME Inv, NEW c \in Call, Step(c), ~KalshiWritePower(c), ~KalshiWritePosition(c)
  PROVE  /\ UNCHANGED <<kBP, kPos>>
         /\ pc[c] # "k_store" \/ UNCHANGED <<pc, job>>
         /\ pc'[c] # "k_store" \/ UNCHANGED <<pc, job>>
<1> USE DEF Inv, TypeOK, Goto, Return, brokerVars
<1>1. CASE Begin(c)
  BY <1>1 DEF Begin, ArbRefused, ArbAccepted, BeginArb, EventPassed, EventRejected
<1>2. CASE KalshiReadPower(c) \/ DemoLegAccepted(c) \/ DemoLegRaised(c)
  BY <1>2 DEF KalshiReadPower, DemoLegAccepted, DemoLegRaised
<1>3. CASE PolyPreviewed(c) \/ PolyRefused(c) \/ PolyTakePower(c) \/ PolyWritePosition(c)
  BY <1>3 DEF PolyPreviewed, PolyRefused, PolyTakePower, PolyWritePosition
<1>4. CASE ArbFilled(c) \/ LegImbalance(c) \/ UnwindPop(c) \/ UnwindCredit(c) \/ EventFilled(c)
  BY <1>4 DEF ArbFilled, LegImbalance, UnwindPop, UnwindCredit, EventFilled
<1>5. CASE CycleTimeout(c) \/ ExchangeMoves(c)
  BY <1>5 DEF CycleTimeout, ExchangeMoves, Awaiting
<1> QED
  BY <1>1, <1>2, <1>3, <1>4, <1>5 DEF Step, Advance

LEMMA KalshiFlightSet ==
  ASSUME Inv, Inv', NEW c \in Call, Step(c)
  PROVE  SumFunctionOnSet(KalshiInFlight, Call)'
           = SumFunctionOnSet(KalshiInFlight, Call) - KalshiInFlight[c] + KalshiInFlight'[c]
<1>1. \A d \in Call : KalshiInFlight[d] \in Nat /\ KalshiInFlight'[d] \in Nat
  <2>1. FlightNat /\ FlightNat'
    BY FlightIsNat, PTL
  <2> QED
    BY <2>1 DEF FlightNat
<1>2. \A d \in Call \ {c} : KalshiInFlight'[d] = KalshiInFlight[d]
  BY StepFrame DEF KalshiInFlight
<1>3. SumFunctionOnSet(KalshiInFlight', Call)
        = SumFunctionOnSet(KalshiInFlight, Call) - KalshiInFlight[c] + KalshiInFlight'[c]
  BY <1>1, <1>2, Finite, SumChange
<1> QED
  BY <1>3

LEMMA KalshiExactStep ==
  ASSUME Inv, Inv', ReadsFresh, KalshiExact, NEW c \in Call, Step(c)
  PROVE  KalshiExact'
<1> DEFINE flight == SumFunctionOnSet(KalshiInFlight, Call)
<1>0. /\ TypeOK /\ TypeOK' /\ kBP \in Nat /\ KalshiBook \in Nat /\ flight \in Nat
      /\ KalshiBankroll \in Nat
  BY BookTypes, FlightTypes, BrokerAssumption DEF Inv, TypeOK
<1>1. CASE KalshiWritePower(c)
  <2> DEFINE stake == job[c].stake
  <2>1. stake \in Nat /\ pc[c] = "k_debit" /\ pc'[c] = "k_store" /\ job' = job /\ kPos' = kPos
    BY <1>0, <1>1, JobTypes DEF KalshiWritePower, Goto, TypeOK
  <2>2. kBP' = IF kBP > stake THEN kBP - stake ELSE 0
    BY <1>1, <2>1 DEF KalshiWritePower, KalshiDebit, ReadsFresh
  <2>3. KalshiInFlight[c] = 0 /\ KalshiInFlight'[c] = stake
    BY <2>1 DEF KalshiInFlight
  <2>4. flight' = flight - KalshiInFlight[c] + KalshiInFlight'[c]
    BY KalshiFlightSet
  <2>5. KalshiBook' = KalshiBook
    BY <2>1, BookSame
  <2> HIDE DEF flight, stake
  <2>6. KalshiBook' + flight' = KalshiBook + flight + stake
    BY <1>0, <2>1, <2>3, <2>4, <2>5
  <2> QED
    BY <1>0, <2>1, <2>2, <2>6 DEF KalshiExact, KalshiSpent, flight
<1>2. CASE KalshiWritePosition(c)
  <2> DEFINE stake == job[c].stake
             t == job[c].ticker
  <2>1. /\ pc[c] = "k_store" /\ pc'[c] = "leg2" /\ kBP' = kBP /\ old[c] = kPos[t]
        /\ kPos' = [kPos EXCEPT ![t] = old[c] + stake]
    BY <1>0, <1>2 DEF KalshiWritePosition, KalshiStore, Goto, TypeOK, ReadsFresh
  <2>2. stake \in Nat /\ t \in KalshiKeys /\ kPos[t] \in Nat
    BY <1>0, <2>1, JobTypes DEF TypeOK
  <2>3. KalshiInFlight[c] = stake /\ KalshiInFlight'[c] = 0
    BY <2>1 DEF KalshiInFlight
  <2>4. flight' = flight - KalshiInFlight[c] + KalshiInFlight'[c]
    BY KalshiFlightSet
  <2>5. KalshiBook' = KalshiBook - kPos[t] + (kPos[t] + stake)
    <3>1. kPos'[t] = kPos[t] + stake /\ \A x \in KalshiKeys \ {t} : kPos'[x] = kPos[x]
      BY <1>0, <2>1, <2>2 DEF TypeOK
    <3> QED
      BY <1>0, <2>2, <3>1, KalshiBookSet
  <2> HIDE DEF flight, stake, t
  <2>6. KalshiBook' + flight' = KalshiBook + flight
    BY <1>0, <2>2, <2>3, <2>4, <2>5
  <2> QED
    BY <2>1, <2>6 DEF KalshiExact, KalshiSpent, flight
<1>3. CASE ~KalshiWritePower(c) /\ ~KalshiWritePosition(c)
  <2>1. /\ UNCHANGED <<kBP, kPos>>
        /\ \/ pc[c] # "k_store" /\ pc'[c] # "k_store"
           \/ UNCHANGED <<pc, job>>
    BY <1>3, KalshiIdleStep
  <2>2. \A d \in Call \ {c} : pc'[d] = pc[d] /\ job'[d] = job[d]
    BY StepFrame
  <2>3. KalshiInFlight' = KalshiInFlight
    BY <2>1, <2>2 DEF KalshiInFlight
  <2> QED
    BY <2>1, <2>3, BookSame DEF KalshiExact, KalshiSpent
<1> QED
  BY <1>1, <1>2, <1>3

(***************************************************************************)
(* Order ids, and the stakes stored under them.                            *)
(***************************************************************************)
LEMMA IdsStep ==
  ASSUME Inv, Inv', IdsAt, NEW c \in Call, Step(c)
  PROVE  IdsAt'
<1> SUFFICES /\ pc'[c] \in {"idle", "leg1", "k_debit", "k_store", "leg2", "p_debit", "p_store"}
                  => ~pOrder'[c]
             /\ pc'[c] = "fills" => pOrder'[c]
             /\ result'[c] = "success" => pOrder'[c] /\ (c \in ArbCall => kOrder'[c])
  BY StepFrame DEF IdsAt
<1> USE DEF Inv, TypeOK, Goto, Return
<1>1. CASE Begin(c)
  BY <1>1 DEF Begin, ArbRefused, ArbAccepted, BeginArb, EventPassed, EventRejected, IdsAt
<1>2. CASE KalshiReadPower(c) \/ KalshiWritePower(c) \/ KalshiWritePosition(c)
  BY <1>2 DEF KalshiReadPower, KalshiWritePower, KalshiWritePosition, IdsAt
<1>3. CASE DemoLegAccepted(c) \/ DemoLegRaised(c)
  BY <1>3 DEF DemoLegAccepted, DemoLegRaised, IdsAt
<1>4. CASE PolyPreviewed(c) \/ PolyRefused(c) \/ PolyTakePower(c)
  BY <1>4 DEF PolyPreviewed, PolyRefused, PolyTakePower, IdsAt
<1>5. CASE PolyWritePosition(c)
  BY <1>5 DEF PolyWritePosition, IdsAt
<1>6. CASE ArbFilled(c)
  BY <1>6 DEF ArbFilled, Phases, LegsAt, IdsAt
<1>7. CASE EventFilled(c)
  BY <1>7, ArbAssumption DEF EventFilled, IdsAt
<1>8. CASE LegImbalance(c) \/ UnwindPop(c) \/ UnwindCredit(c)
  BY <1>8 DEF LegImbalance, UnwindPop, UnwindCredit, IdsAt
<1>9. CASE CycleTimeout(c) \/ ExchangeMoves(c)
  BY <1>9 DEF CycleTimeout, ExchangeMoves, IdsAt
<1> QED
  BY <1>1, <1>2, <1>3, <1>4, <1>5, <1>6, <1>7, <1>8, <1>9 DEF Step, Advance

BoughtOn(key) == {c \in Call : pOrder[c] /\ job[c].key = key}
EnteredOn(t) == {c \in ArbCall : kOrder[c] /\ job[c].ticker = t}

LEMMA StakeNat == TypeOK => \A c \in Call : StakeOf[c] \in Nat
BY ArbAssumption, NoneIsNoJob DEF TypeOK, StakeOf, Jobs

StoredNat ==
  /\ \A key \in PolyKeys : StoredBy[key] \in Nat
  /\ \A t \in KalshiKeys : KalshiStoredBy[t] \in Nat

LEMMA StoredIsNat == TypeOK => StoredNat
<1> SUFFICES ASSUME TypeOK PROVE StoredNat
  OBVIOUS
<1>1. ASSUME NEW S, S \subseteq Call
      PROVE  SumFunctionOnSet(StakeOf, S) \in Nat
  <2>1. IsFiniteSet(S)
    BY <1>1, Finite, FS_Subset
  <2>2. \A c \in S : StakeOf[c] \in Nat
    BY <1>1, StakeNat
  <2> QED
    BY <2>1, <2>2, SumNat
<1>2. ASSUME NEW key \in PolyKeys
      PROVE  StoredBy[key] \in Nat
  <2>1. BoughtOn(key) \subseteq Call
    BY DEF BoughtOn
  <2>2. StoredBy[key] = SumFunctionOnSet(StakeOf, BoughtOn(key))
    BY DEF StoredBy, BoughtOn
  <2> QED
    BY <1>1, <2>1, <2>2
<1>3. ASSUME NEW t \in KalshiKeys
      PROVE  KalshiStoredBy[t] \in Nat
  <2>1. EnteredOn(t) \subseteq Call
    BY DEF EnteredOn, Call
  <2>2. KalshiStoredBy[t] = SumFunctionOnSet(StakeOf, EnteredOn(t))
    BY DEF KalshiStoredBy, EnteredOn
  <2> QED
    BY <1>1, <2>1, <2>2
<1> QED
  BY <1>2, <1>3 DEF StoredNat

LEMMA StoredSumSet ==
  ASSUME NEW key \in PolyKeys, \A x \in PolyKeys : StoredBy[x] \in Nat /\ StoredBy'[x] \in Nat,
         \A x \in PolyKeys \ {key} : StoredBy'[x] = StoredBy[x]
  PROVE  SumFunctionOnSet(StoredBy', PolyKeys)
           = SumFunctionOnSet(StoredBy, PolyKeys) - StoredBy[key] + StoredBy'[key]
BY Finite, SumChange

LEMMA JobKept ==
  ASSUME Inv, NEW c \in Call, Step(c), pc[c] # "idle"
  PROVE  job' = job
BY DEF Step, Begin, ArbRefused, ArbAccepted, BeginArb, EventPassed, EventRejected,
       Advance, KalshiReadPower, KalshiWritePower, KalshiWritePosition, DemoLegAccepted,
       DemoLegRaised, PolyPreviewed, PolyRefused, PolyTakePower, PolyWritePosition,
       ArbFilled, LegImbalance, UnwindPop, UnwindCredit, EventFilled, CycleTimeout,
       ExchangeMoves

LEMMA PolyOrdersKept ==
  ASSUME Inv, NEW c \in Call, Step(c), ~PolyWritePosition(c)
  PROVE  pOrder' = pOrder
BY DEF Step, Begin, ArbRefused, ArbAccepted, BeginArb, EventPassed, EventRejected,
       Advance, KalshiReadPower, KalshiWritePower, KalshiWritePosition, DemoLegAccepted,
       DemoLegRaised, PolyPreviewed, PolyRefused, PolyTakePower,
       ArbFilled, LegImbalance, UnwindPop, UnwindCredit, EventFilled, CycleTimeout,
       ExchangeMoves

LEMMA KalshiOrdersKept ==
  ASSUME Inv, NEW c \in Call, Step(c), ~KalshiWritePosition(c), KalshiVenue = "paper"
  PROVE  kOrder' = kOrder
BY DEF Step, Begin, ArbRefused, ArbAccepted, BeginArb, EventPassed, EventRejected,
       Advance, KalshiReadPower, KalshiWritePower, DemoLegAccepted,
       DemoLegRaised, PolyPreviewed, PolyRefused, PolyTakePower, PolyWritePosition,
       ArbFilled, LegImbalance, UnwindPop, UnwindCredit, EventFilled, CycleTimeout,
       ExchangeMoves

\* The sum of the stakes over a set of calls that have started.
LEMMA StakesKept ==
  ASSUME Inv, NEW c \in Call, Step(c), NEW S, S \subseteq Call, \A d \in S : pc[d] # "idle"
  PROVE  SumFunctionOnSet(StakeOf', S) = SumFunctionOnSet(StakeOf, S)
<1>1. \A d \in S : job'[d] = job[d]
  BY StepFrame, JobKept
<1>2. \A d \in S : StakeOf'[d] = StakeOf[d]
  BY <1>1 DEF StakeOf
<1>3. IsFiniteSet(S)
  BY Finite, FS_Subset
<1> QED
  BY <1>2, <1>3, SumSame

LEMMA StakeAdded ==
  ASSUME TypeOK, NEW c \in Call, NEW S, S \subseteq Call, c \notin S
  PROVE  SumFunctionOnSet(StakeOf, S \cup {c}) = StakeOf[c] + SumFunctionOnSet(StakeOf, S)
<1>1. IsFiniteSet(S)
  BY Finite, FS_Subset
<1>2. \A d \in S \cup {c} : StakeOf[d] \in Int
  BY StakeNat
<1> QED
  BY <1>1, <1>2, SumAdd

(***************************************************************************)
(* The stakes stored on a position grow when a position is written, by the *)
(* stake of the call that writes it, and at no other step.                 *)
(***************************************************************************)
LEMMA StoredStep ==
  ASSUME Inv, IdsAt, NEW c \in Call, Step(c), NEW key \in PolyKeys
  PROVE  StoredBy'[key] = IF PolyWritePosition(c) /\ key = job[c].key
                          THEN StoredBy[key] + job[c].stake ELSE StoredBy[key]
<1>0. /\ StoredBy[key] = SumFunctionOnSet(StakeOf, BoughtOn(key))
      /\ StoredBy'[key] = SumFunctionOnSet(StakeOf', BoughtOn(key)')
      /\ BoughtOn(key) \subseteq Call
      /\ \A d \in BoughtOn(key) : pc[d] # "idle"
  BY DEF StoredBy, BoughtOn, IdsAt
<1>1. CASE PolyWritePosition(c)
  <2>1. /\ pc[c] = "p_store" /\ job' = job /\ c \notin BoughtOn(key)
        /\ pOrder' = [pOrder EXCEPT ![c] = TRUE]
    BY <1>1 DEF PolyWritePosition, BoughtOn, IdsAt
  <2>2. StakeOf' = StakeOf /\ StakeOf[c] = job[c].stake
    BY <2>1, NoneIsNoJob, JobTypes DEF StakeOf
  <2>3. CASE key = job[c].key
    <3>1. BoughtOn(key)' = BoughtOn(key) \cup {c}
      BY <2>1, <2>3 DEF BoughtOn, Inv, TypeOK
    <3>2. SumFunctionOnSet(StakeOf, BoughtOn(key) \cup {c})
            = job[c].stake + SumFunctionOnSet(StakeOf, BoughtOn(key))
      BY <1>0, <2>1, <2>2, StakeAdded DEF Inv
    <3>3. job[c].stake \in Nat /\ StoredBy[key] \in Nat
      BY <2>1, JobTypes, StoredIsNat DEF Inv, StoredNat
    <3> QED
      BY <1>0, <1>1, <2>2, <2>3, <3>1, <3>2, <3>3
  <2>4. CASE key # job[c].key
    <3>1. BoughtOn(key)' = BoughtOn(key)
      BY <2>1, <2>4 DEF BoughtOn, Inv, TypeOK
    <3> QED
      BY <1>0, <2>2, <2>4, <3>1
  <2> QED
    BY <2>3, <2>4
<1>2. CASE ~PolyWritePosition(c)
  <2>1. pOrder' = pOrder
    BY <1>2, PolyOrdersKept
  <2>2. \A d \in Call : pOrder[d] => job'[d] = job[d]
    BY JobKept, StepFrame DEF IdsAt
  <2>3. BoughtOn(key)' = BoughtOn(key)
    BY <2>1, <2>2 DEF BoughtOn
  <2> QED
    BY <1>0, <1>2, <2>3, StakesKept
<1> QED
  BY <1>1, <1>2

LEMMA KalshiStoredStep ==
  ASSUME Inv, KalshiVenue = "paper", NEW c \in Call, Step(c), NEW t \in KalshiKeys
  PROVE  KalshiStoredBy'[t] = IF KalshiWritePosition(c) /\ t = job[c].ticker
                              THEN KalshiStoredBy[t] + job[c].stake ELSE KalshiStoredBy[t]
<1>0. /\ KalshiStoredBy[t] = SumFunctionOnSet(StakeOf, EnteredOn(t))
      /\ KalshiStoredBy'[t] = SumFunctionOnSet(StakeOf', EnteredOn(t)')
      /\ EnteredOn(t) \subseteq Call
      /\ \A d \in EnteredOn(t) : pc[d] # "idle"
  BY DEF KalshiStoredBy, EnteredOn, Inv, Phases, LegsAt, Call
<1>1. CASE KalshiWritePosition(c)
  <2>1. /\ pc[c] = "k_store" /\ job' = job /\ c \in ArbCall /\ c \notin EnteredOn(t)
        /\ kOrder' = [kOrder EXCEPT ![c] = TRUE]
    BY <1>1, JobTypes DEF KalshiWritePosition, EnteredOn, Inv, Phases, LegsAt
  <2>2. StakeOf' = StakeOf /\ StakeOf[c] = job[c].stake
    BY <2>1, NoneIsNoJob, JobTypes DEF StakeOf
  <2>3. CASE t = job[c].ticker
    <3>1. EnteredOn(t)' = EnteredOn(t) \cup {c}
      BY <2>1, <2>3 DEF EnteredOn, Inv, TypeOK, Call
    <3>2. SumFunctionOnSet(StakeOf, EnteredOn(t) \cup {c})
            = job[c].stake + SumFunctionOnSet(StakeOf, EnteredOn(t))
      BY <1>0, <2>1, <2>2, StakeAdded DEF Inv
    <3>3. job[c].stake \in Nat /\ KalshiStoredBy[t] \in Nat
      BY <2>1, JobTypes, StoredIsNat DEF Inv, StoredNat
    <3> QED
      BY <1>0, <1>1, <2>2, <2>3, <3>1, <3>2, <3>3
  <2>4. CASE t # job[c].ticker
    <3>1. EnteredOn(t)' = EnteredOn(t)
      BY <2>1, <2>4 DEF EnteredOn, Inv, TypeOK, Call
    <3> QED
      BY <1>0, <2>2, <2>4, <3>1
  <2> QED
    BY <2>3, <2>4
<1>2. CASE ~KalshiWritePosition(c)
  <2>1. kOrder' = kOrder
    BY <1>2, KalshiOrdersKept
  <2>2. \A d \in ArbCall : kOrder[d] => job'[d] = job[d]
    BY JobKept, StepFrame DEF Inv, Phases, LegsAt, Call
  <2>3. EnteredOn(t)' = EnteredOn(t)
    BY <2>1, <2>2 DEF EnteredOn
  <2> QED
    BY <1>0, <1>2, <2>3, StakesKept
<1> QED
  BY <1>1, <1>2

LEMMA NothingUnwoundStep ==
  ASSUME Inv, NothingUnwound, KalshiVenue = "paper", NEW c \in Call, Step(c)
  PROVE  NothingUnwound'
<1> SUFFICES pc'[c] \notin {"unwind", "credit"}
  BY StepFrame DEF NothingUnwound
<1> USE DEF Inv, TypeOK, Goto, Return, NothingUnwound
<1>1. CASE Begin(c)
  BY <1>1 DEF Begin, ArbRefused, ArbAccepted, BeginArb, EventPassed, EventRejected
<1>2. CASE Advance(c)
  BY <1>2 DEF Advance, KalshiReadPower, KalshiWritePower, KalshiWritePosition, DemoLegAccepted,
       DemoLegRaised, PolyPreviewed, PolyRefused, PolyTakePower, PolyWritePosition,
       ArbFilled, LegImbalance, UnwindPop, UnwindCredit, EventFilled
<1>3. CASE CycleTimeout(c) \/ ExchangeMoves(c)
  BY <1>3 DEF CycleTimeout, ExchangeMoves
<1> QED
  BY <1>1, <1>2, <1>3 DEF Step

\* Positions are written by the two store steps, and popped by the unwind.
LEMMA PositionsKept ==
  ASSUME Inv, NothingUnwound, NEW c \in Call, Step(c)
  PROVE  /\ ~PolyWritePosition(c) => pPos' = pPos
         /\ ~KalshiWritePosition(c) => kPos' = kPos
<1> USE DEF brokerVars
<1>1. CASE Begin(c)
  BY <1>1 DEF Begin, ArbRefused, ArbAccepted, BeginArb, EventPassed, EventRejected
<1>2. CASE Advance(c)
  BY <1>2 DEF Advance, KalshiReadPower, KalshiWritePower, KalshiWritePosition, DemoLegAccepted,
       DemoLegRaised, PolyPreviewed, PolyRefused, PolyTakePower, PolyWritePosition,
       ArbFilled, LegImbalance, UnwindPop, UnwindCredit, EventFilled, NothingUnwound
<1>3. CASE CycleTimeout(c) \/ ExchangeMoves(c)
  BY <1>3 DEF CycleTimeout, ExchangeMoves
<1> QED
  BY <1>1, <1>2, <1>3 DEF Step

LEMMA PolyWritten ==
  ASSUME Inv, NEW c \in Call, PolyWritePosition(c)
  PROVE  /\ job[c].key \in PolyKeys /\ job[c].stake \in Nat /\ old[c] \in Nat
         /\ \A key \in PolyKeys : pPos'[key] = IF key = job[c].key THEN old[c] + job[c].stake
                                              ELSE pPos[key]
BY JobTypes DEF PolyWritePosition, PolyStore, Inv, TypeOK

LEMMA KalshiWritten ==
  ASSUME Inv, NEW c \in Call, KalshiWritePosition(c)
  PROVE  /\ job[c].ticker \in KalshiKeys /\ job[c].stake \in Nat /\ old[c] \in Nat
         /\ \A t \in KalshiKeys : kPos'[t] = IF t = job[c].ticker THEN old[c] + job[c].stake
                                            ELSE kPos[t]
BY JobTypes DEF KalshiWritePosition, KalshiStore, Inv, TypeOK

LEMMA BackedStep ==
  ASSUME Inv, ReadsFresh, IdsAt, NothingUnwound, PairsBacked, KalshiVenue = "paper",
         NEW c \in Call, Step(c)
  PROVE  PairsBacked'
<1>1. ASSUME NEW key \in PolyKeys
      PROVE  pPos'[key] = StoredBy'[key]
  <2>1. CASE PolyWritePosition(c)
    <3>1. old[c] = pPos[job[c].key]
      BY <2>1 DEF PolyWritePosition, ReadsFresh
    <3> QED
      BY <2>1, <3>1, PolyWritten, StoredStep DEF PairsBacked
  <2>2. CASE ~PolyWritePosition(c)
    BY <2>2, PositionsKept, StoredStep DEF PairsBacked
  <2> QED
    BY <2>1, <2>2
<1>2. ASSUME NEW t \in KalshiKeys
      PROVE  kPos'[t] = KalshiStoredBy'[t]
  <2>1. CASE KalshiWritePosition(c)
    <3>1. old[c] = kPos[job[c].ticker]
      BY <2>1 DEF KalshiWritePosition, ReadsFresh
    <3> QED
      BY <2>1, <3>1, KalshiWritten, KalshiStoredStep DEF PairsBacked
  <2>2. CASE ~KalshiWritePosition(c)
    BY <2>2, PositionsKept, KalshiStoredStep DEF PairsBacked
  <2> QED
    BY <2>1, <2>2
<1> QED
  BY <1>1, <1>2 DEF PairsBacked

(***************************************************************************)
(* The paper venues, any threads: what was taken from the buying power is  *)
(* what was stored or is in flight, and no position exceeds what was       *)
(* stored on it, however stale the read it was computed from.              *)
(***************************************************************************)
LEMMA LedgerStep ==
  ASSUME Inv, Inv', IdsAt, NothingUnwound, PaperLedger, NEW c \in Call, Step(c)
  PROVE  PaperLedger'
<1> DEFINE flight == SumFunctionOnSet(PolyInFlight, Call)
           stored == SumFunctionOnSet(StoredBy, PolyKeys)
<1>0. /\ TypeOK /\ TypeOK' /\ pBP \in Int /\ flight \in Nat
      /\ \A key \in PolyKeys : StoredBy[key] \in Nat /\ StoredBy'[key] \in Nat
      /\ pBP + stored + flight = PolyBankroll
  <2>1. StoredNat /\ StoredNat'
    BY StoredIsNat, PTL DEF Inv
  <2> QED
    BY <2>1, FlightTypes DEF Inv, TypeOK, PaperLedger, StoredNat
<1>a. stored \in Nat
  BY <1>0, Finite, SumNat
<1>b. SumFunctionOnSet(StoredBy', PolyKeys)
        = stored + (IF PolyWritePosition(c) THEN job[c].stake ELSE 0)
  <2>1. CASE PolyWritePosition(c)
    <3>1. job[c].key \in PolyKeys /\ job[c].stake \in Nat
      BY <2>1, PolyWritten
    <3>2. /\ StoredBy'[job[c].key] = StoredBy[job[c].key] + job[c].stake
          /\ \A key \in PolyKeys \ {job[c].key} : StoredBy'[key] = StoredBy[key]
      BY <2>1, <3>1, StoredStep
    <3>3. SumFunctionOnSet(StoredBy', PolyKeys)
            = stored - StoredBy[job[c].key] + StoredBy'[job[c].key]
      BY <1>0, <3>1, <3>2, StoredSumSet
    <3> HIDE DEF stored
    <3> QED
      BY <1>0, <1>a, <2>1, <3>1, <3>2, <3>3
  <2>2. CASE ~PolyWritePosition(c)
    <3>1. \A key \in PolyKeys : StoredBy'[key] = StoredBy[key]
      BY <2>2, StoredStep
    <3>2. SumFunctionOnSet(StoredBy', PolyKeys) = stored
      BY <3>1, Finite, SumSame
    <3> HIDE DEF stored
    <3> QED
      BY <1>a, <2>2, <3>2
  <2> QED
    BY <2>1, <2>2
<1>1. pBP' + SumFunctionOnSet(StoredBy', PolyKeys) + flight' = PolyBankroll
  <2>1. CASE PolyIdle(c)
    <3>1. pBP' = pBP /\ flight' = flight /\ ~PolyWritePosition(c)
      BY <2>1, PolyIdleStep, PolyFlightSame DEF PolyWritePosition, Goto, Inv, TypeOK
    <3> HIDE DEF flight, stored
    <3> QED
      BY <1>0, <1>a, <1>b, <3>1
  <2>2. CASE PolyTakePower(c)
    <3>1. /\ pc[c] = "p_debit" /\ pc'[c] = "p_store" /\ job' = job /\ job[c].stake \in Nat
          /\ pBP' = pBP - job[c].stake
      BY <1>0, <2>2, JobTypes DEF PolyTakePower, PolyDebit, Goto, TypeOK
    <3>2. PolyInFlight[c] = 0 /\ PolyInFlight'[c] = job[c].stake /\ ~PolyWritePosition(c)
      BY <3>1 DEF PolyInFlight, PolyWritePosition
    <3>3. flight' = flight - PolyInFlight[c] + PolyInFlight'[c]
      BY PolyFlightSet
    <3> HIDE DEF flight, stored
    <3> QED
      BY <1>0, <1>a, <1>b, <3>1, <3>2, <3>3
  <2>3. CASE PolyWritePosition(c)
    <3>1. pc[c] = "p_store" /\ pc'[c] = "fills" /\ pBP' = pBP /\ job[c].stake \in Nat
      BY <1>0, <2>3, JobTypes DEF PolyWritePosition, Goto, TypeOK
    <3>2. PolyInFlight[c] = job[c].stake /\ PolyInFlight'[c] = 0
      BY <3>1 DEF PolyInFlight
    <3>3. flight' = flight - PolyInFlight[c] + PolyInFlight'[c]
      BY PolyFlightSet
    <3> HIDE DEF flight, stored
    <3> QED
      BY <1>0, <1>a, <1>b, <2>3, <3>1, <3>2, <3>3
  <2>4. ~UnwindPop(c) /\ ~UnwindCredit(c)
    BY DEF UnwindPop, UnwindCredit, NothingUnwound
  <2> QED
    BY <2>1, <2>2, <2>3, <2>4 DEF Step, Advance, PolyIdle
<1>2. \A key \in PolyKeys : StoredBy[key] <= StoredBy'[key] /\ pPos'[key] <= StoredBy'[key]
  <2> SUFFICES ASSUME NEW key \in PolyKeys
               PROVE  StoredBy[key] <= StoredBy'[key] /\ pPos'[key] <= StoredBy'[key]
    OBVIOUS
  <2>1. CASE PolyWritePosition(c)
    <3>1. old[c] <= StoredBy[job[c].key]
      BY <2>1 DEF PolyWritePosition, PaperLedger
    <3> QED
      BY <1>0, <2>1, <3>1, PolyWritten, StoredStep DEF PaperLedger
  <2>2. CASE ~PolyWritePosition(c)
    BY <1>0, <2>2, PositionsKept, StoredStep DEF PaperLedger
  <2> QED
    BY <2>1, <2>2
<1>3. ASSUME NEW d \in Call, pc'[d] = "p_store"
      PROVE  old'[d] <= StoredBy'[job'[d].key]
  <2>1. CASE pc[d] = "p_store" /\ old'[d] = old[d] /\ job'[d] = job[d]
    <3>1. job[d].key \in PolyKeys /\ old[d] \in Nat /\ old[d] <= StoredBy[job[d].key]
      BY <2>1, JobTypes DEF PaperLedger, Inv, TypeOK
    <3> QED
      BY <1>0, <1>2, <2>1, <3>1
  <2>2. CASE d = c /\ old'[c] = pPos'[job'[c].key]
    <3>1. job'[c].key \in PolyKeys
      BY <1>0, <1>3, <2>2, NoneIsNoJob DEF Inv, TypeOK, Phases, Jobs
    <3> QED
      BY <1>2, <2>2, <3>1
  <2> QED
    BY <1>3, <2>1, <2>2, StepFrame, OwnReadFresh
<1> QED
  BY <1>1, <1>2, <1>3 DEF PaperLedger

-----------------------------------------------------------------------------
(***************************************************************************)
(* The initial states: no position, nothing in flight, nothing stored.     *)
(***************************************************************************)
LEMMA InitBooks ==
  ASSUME Init
  PROVE  /\ ReadsFresh /\ IdsAt /\ NothingUnwound
         /\ PolyExact /\ KalshiExact /\ PairsBacked /\ PaperLedger
<1>0. /\ Inv /\ TypeOK /\ PolyBankroll \in Nat /\ KalshiBankroll \in Nat
      /\ kBP = KalshiBankroll /\ pBP = PolyBankroll
      /\ \A c \in Call : pc[c] = "idle" /\ ~pOrder[c] /\ ~kOrder[c] /\ result[c] = "pending"
      /\ \A key \in PolyKeys : pPos[key] = 0
      /\ \A t \in KalshiKeys : kPos[t] = 0
  BY InitInv, BrokerAssumption DEF Init, BrokerInit, Inv
<1>1. ReadsFresh /\ IdsAt /\ NothingUnwound
  BY <1>0 DEF ReadsFresh, IdsAt, NothingUnwound
<1>2. /\ SumFunctionOnSet(PolyInFlight, Call) = 0
      /\ SumFunctionOnSet(KalshiInFlight, Call) = 0
  <2>1. \A c \in Call : PolyInFlight[c] = 0 /\ KalshiInFlight[c] = 0
    BY <1>0 DEF PolyInFlight, KalshiInFlight
  <2> QED
    BY <2>1, Finite, SumZero
<1>3. PolyBook = 0 /\ KalshiBook = 0
  <2>1. SumFunctionOnSet(pPos, PolyKeys) = 0 /\ SumFunctionOnSet(kPos, KalshiKeys) = 0
    BY <1>0, Finite, SumZero
  <2> QED
    BY <1>0, <2>1, BookTypes
<1>4. PolyExact /\ KalshiExact
  BY <1>0, <1>2, <1>3 DEF PolyExact, PolyTotal, KalshiExact, KalshiSpent
<1>5. /\ \A key \in PolyKeys : StoredBy[key] = 0
      /\ \A t \in KalshiKeys : KalshiStoredBy[t] = 0
  <2>1. ASSUME NEW key \in PolyKeys PROVE StoredBy[key] = 0
    <3>1. BoughtOn(key) = {}
      BY <1>0 DEF BoughtOn
    <3> QED
      BY <3>1, SumEmpty DEF StoredBy, BoughtOn
  <2>2. ASSUME NEW t \in KalshiKeys PROVE KalshiStoredBy[t] = 0
    <3>1. EnteredOn(t) = {}
      BY <1>0 DEF EnteredOn, Call
    <3> QED
      BY <3>1, SumEmpty DEF KalshiStoredBy, EnteredOn
  <2> QED
    BY <2>1, <2>2
<1>6. PairsBacked
  BY <1>0, <1>5 DEF PairsBacked
<1>7. PaperLedger
  <2>1. SumFunctionOnSet(StoredBy, PolyKeys) = 0
    BY <1>5, Finite, SumZero
  <2> QED
    BY <1>0, <1>2, <1>5, <2>1 DEF PaperLedger
<1> QED
  BY <1>1, <1>4, <1>6, <1>7

(***************************************************************************)
(* The three inductive invariants.                                         *)
(***************************************************************************)
OneThreadInv  == Inv /\ ReadsFresh /\ PolyExact /\ KalshiExact
OnePaperInv   == Inv /\ ReadsFresh /\ IdsAt /\ NothingUnwound /\ PairsBacked
PaperInv      == Inv /\ IdsAt /\ NothingUnwound /\ PaperLedger

LEMMA StandsStill ==
  ASSUME UNCHANGED vars
  PROVE  /\ ReadsFresh => ReadsFresh'
         /\ IdsAt => IdsAt'
         /\ NothingUnwound => NothingUnwound'
         /\ PolyExact => PolyExact'
         /\ KalshiExact => KalshiExact'
         /\ PairsBacked => PairsBacked'
         /\ PaperLedger => PaperLedger'
<1> USE DEF vars, brokerVars, callVars
<1>1. /\ PolyInFlight' = PolyInFlight /\ KalshiInFlight' = KalshiInFlight
      /\ PolyBook' = PolyBook /\ KalshiBook' = KalshiBook /\ StakeOf' = StakeOf
  BY BookSame DEF PolyInFlight, KalshiInFlight, StakeOf
<1>2. StoredBy' = StoredBy /\ KalshiStoredBy' = KalshiStoredBy
  BY <1>1 DEF StoredBy, KalshiStoredBy
<1> QED
  BY <1>1, <1>2 DEF ReadsFresh, IdsAt, NothingUnwound, PolyExact, PolyTotal, KalshiExact,
                    KalshiSpent, PairsBacked, PaperLedger

LEMMA OneThreadNext ==
  ASSUME OneThread
  PROVE  OneThreadInv /\ [Next]_vars => OneThreadInv'
<1> SUFFICES ASSUME OneThreadInv, [Next]_vars PROVE OneThreadInv'
  OBVIOUS
<1>1. Inv /\ Inv'
  BY NextInv DEF OneThreadInv
<1>2. ASSUME NEW c \in Call, Step(c) PROVE OneThreadInv'
  BY <1>1, <1>2, FreshStep, PolyExactStep, KalshiExactStep DEF OneThreadInv
<1>3. CASE UNCHANGED vars
  BY <1>1, <1>3, StandsStill DEF OneThreadInv
<1> QED
  BY <1>2, <1>3 DEF Next, Step

LEMMA OnePaperNext ==
  ASSUME OneThread, KalshiVenue = "paper"
  PROVE  OnePaperInv /\ [Next]_vars => OnePaperInv'
<1> SUFFICES ASSUME OnePaperInv, [Next]_vars PROVE OnePaperInv'
  OBVIOUS
<1>1. Inv /\ Inv'
  BY NextInv DEF OnePaperInv
<1>2. ASSUME NEW c \in Call, Step(c) PROVE OnePaperInv'
  BY <1>1, <1>2, FreshStep, IdsStep, NothingUnwoundStep, BackedStep DEF OnePaperInv
<1>3. CASE UNCHANGED vars
  BY <1>1, <1>3, StandsStill DEF OnePaperInv
<1> QED
  BY <1>2, <1>3 DEF Next, Step

LEMMA PaperNext ==
  ASSUME KalshiVenue = "paper"
  PROVE  PaperInv /\ [Next]_vars => PaperInv'
<1> SUFFICES ASSUME PaperInv, [Next]_vars PROVE PaperInv'
  OBVIOUS
<1>1. Inv /\ Inv'
  BY NextInv DEF PaperInv
<1>2. ASSUME NEW c \in Call, Step(c) PROVE PaperInv'
  BY <1>1, <1>2, IdsStep, NothingUnwoundStep, LedgerStep DEF PaperInv
<1>3. CASE UNCHANGED vars
  BY <1>1, <1>3, StandsStill DEF PaperInv
<1> QED
  BY <1>2, <1>3 DEF Next, Step

-----------------------------------------------------------------------------
\* Exact totals with nothing in flight are balanced books.
LEMMA ExactBalances == OneThreadInv => BooksBalance
<1> SUFFICES ASSUME OneThreadInv, Quiet PROVE BooksBalance
  BY DEF BooksBalance
<1>1. \A c \in Call : PolyInFlight[c] = 0 /\ KalshiInFlight[c] = 0
  BY DEF Quiet, Occupies, Awaiting, PolyInFlight, KalshiInFlight
<1>2. /\ SumFunctionOnSet(PolyInFlight, Call) = 0
      /\ SumFunctionOnSet(KalshiInFlight, Call) = 0
  BY <1>1, Finite, SumZero
<1>3. pBP \in Int /\ PolyBook \in Int /\ KalshiBook \in Nat
  BY BookTypes DEF OneThreadInv, Inv, TypeOK
<1> QED
  BY <1>2, <1>3 DEF OneThreadInv, PolyExact, PolyTotal, KalshiExact, KalshiSpent, BooksBalance

(***************************************************************************)
(* One thread, either venue: whenever no call is between two awaits, the   *)
(* two numbers of each account (broker.py) agree, whichever legs were      *)
(* refused, unwound or cancelled on the way.                               *)
(***************************************************************************)
THEOREM BooksAreBalanced ==
  ASSUME OneThread
  PROVE  Spec => []BooksBalance
<1>1. Init => OneThreadInv
  BY InitInv, InitBooks DEF OneThreadInv
<1>2. OneThreadInv /\ [Next]_vars => OneThreadInv'
  BY OneThreadNext
<1> QED
  BY <1>1, <1>2, ExactBalances, PTL DEF Spec

\* The pairs returned on a position are among the stakes stored on it.
LEMMA BackedHolds == OnePaperInv => ReturnedPairsHeld
<1> SUFFICES ASSUME OnePaperInv PROVE ReturnedPairsHeld
  OBVIOUS
<1>0. \A c \in Call : StakeOf[c] \in Nat
  BY StakeNat DEF OnePaperInv, Inv
<1>1. ASSUME NEW key \in PolyKeys
      PROVE  SumFunctionOnSet(StakeOf, {c \in Pairs(Call) : job[c].key = key}) <= pPos[key]
  <2> DEFINE P == {c \in Pairs(Call) : job[c].key = key}
  <2>1. P \subseteq BoughtOn(key) /\ BoughtOn(key) \subseteq Call
    BY DEF Pairs, BoughtOn, OnePaperInv, IdsAt
  <2>2. IsFiniteSet(BoughtOn(key)) /\ \A c \in BoughtOn(key) : StakeOf[c] \in Nat
    BY <1>0, <2>1, Finite, FS_Subset
  <2> HIDE DEF P
  <2>3. SumFunctionOnSet(StakeOf, P) <= SumFunctionOnSet(StakeOf, BoughtOn(key))
    BY <2>1, <2>2, SumSubset
  <2>4. SumFunctionOnSet(StakeOf, BoughtOn(key)) = pPos[key]
    BY DEF OnePaperInv, PairsBacked, StoredBy, BoughtOn
  <2> QED
    BY <2>3, <2>4 DEF P
<1>2. ASSUME NEW t \in KalshiKeys
      PROVE  SumFunctionOnSet(StakeOf, {c \in Pairs(ArbCall) : job[c].ticker = t}) <= kPos[t]
  <2> DEFINE P == {c \in Pairs(ArbCall) : job[c].ticker = t}
  <2>1. P \subseteq EnteredOn(t) /\ EnteredOn(t) \subseteq Call
    BY DEF Pairs, EnteredOn, OnePaperInv, IdsAt, Call
  <2>2. IsFiniteSet(EnteredOn(t)) /\ \A c \in EnteredOn(t) : StakeOf[c] \in Nat
    BY <1>0, <2>1, Finite, FS_Subset
  <2> HIDE DEF P
  <2>3. SumFunctionOnSet(StakeOf, P) <= SumFunctionOnSet(StakeOf, EnteredOn(t))
    BY <2>1, <2>2, SumSubset
  <2>4. SumFunctionOnSet(StakeOf, EnteredOn(t)) = kPos[t]
    BY DEF OnePaperInv, PairsBacked, KalshiStoredBy, EnteredOn
  <2> QED
    BY <2>3, <2>4 DEF P
<1> QED
  BY <1>1, <1>2 DEF ReturnedPairsHeld

(***************************************************************************)
(* One thread, paper venues: every pair whose order ids were returned      *)
(* (execution.py) stays on both books for its whole stake.                 *)
(***************************************************************************)
THEOREM PairsAreHeld ==
  ASSUME OneThread, KalshiVenue = "paper"
  PROVE  Spec => []ReturnedPairsHeld
<1>1. Init => OnePaperInv
  BY InitInv, InitBooks DEF OnePaperInv
<1>2. OnePaperInv /\ [Next]_vars => OnePaperInv'
  BY OnePaperNext
<1> QED
  BY <1>1, <1>2, BackedHolds, PTL DEF Spec

\* No position is above what was stored on it, so their sum is not either.
LEMMA LedgerBounds == PaperInv => PolyMoneyNeverCreated
<1> SUFFICES ASSUME PaperInv PROVE PolyMoneyNeverCreated
  OBVIOUS
<1>1. TypeOK /\ pBP \in Int /\ SumFunctionOnSet(PolyInFlight, Call) \in Nat
  BY FlightTypes DEF PaperInv, Inv, TypeOK
<1>2. \A key \in PolyKeys : /\ pPos[key] \in Int /\ StoredBy[key] \in Int
                            /\ pPos[key] <= StoredBy[key]
  BY <1>1, StoredIsNat DEF PaperInv, PaperLedger, TypeOK, StoredNat
<1>3. SumFunctionOnSet(pPos, PolyKeys) <= SumFunctionOnSet(StoredBy, PolyKeys)
  BY <1>2, Finite, SumMonotone
<1>4. PolyBook = SumFunctionOnSet(pPos, PolyKeys) /\ PolyBook \in Int
  BY <1>1, BookTypes
<1>5. SumFunctionOnSet(StoredBy, PolyKeys) \in Int
  BY <1>2, Finite, SumInt
<1> QED
  BY <1>1, <1>3, <1>4, <1>5, BrokerAssumption DEF PaperInv, PaperLedger, PolyMoneyNeverCreated

(***************************************************************************)
(* Any threads, paper venues: the unlocked read-modify-write of            *)
(* positions[key] in broker.py can lose a stake or bring back one that was *)
(* overwritten, but never adds money to the account.                       *)
(***************************************************************************)
THEOREM PaperMoneyIsNeverCreated ==
  ASSUME KalshiVenue = "paper"
  PROVE  Spec => []PolyMoneyNeverCreated
<1>1. Init => PaperInv
  BY InitInv, InitBooks DEF PaperInv
<1>2. PaperInv /\ [Next]_vars => PaperInv'
  BY PaperNext
<1> QED
  BY <1>1, <1>2, LedgerBounds, PTL DEF Spec

(***************************************************************************)
(* One thread, either venue: nor does an unwind, whose pop and credit are  *)
(* two steps, ever add money to the account.                               *)
(***************************************************************************)
THEOREM OneThreadMoneyIsNeverCreated ==
  ASSUME OneThread
  PROVE  Spec => []PolyMoneyNeverCreated
<1>1. Init => OneThreadInv
  BY InitInv, InitBooks DEF OneThreadInv
<1>2. OneThreadInv /\ [Next]_vars => OneThreadInv'
  BY OneThreadNext
<1>3. OneThreadInv => PolyMoneyNeverCreated
  <2> SUFFICES ASSUME OneThreadInv PROVE PolyMoneyNeverCreated
    OBVIOUS
  <2>1. pBP \in Int /\ PolyBook \in Int /\ SumFunctionOnSet(PolyInFlight, Call) \in Nat
    BY BookTypes, FlightTypes DEF OneThreadInv, Inv, TypeOK
  <2> QED
    BY <2>1, BrokerAssumption DEF OneThreadInv, PolyExact, PolyTotal, PolyMoneyNeverCreated
<1> QED
  BY <1>1, <1>2, <1>3, PTL DEF Spec

-----------------------------------------------------------------------------
(***************************************************************************)
(* One thread implements AtomicBooks.  A purchase is entered when the      *)
(* position is written, and what was checked when it was previewed has to  *)
(* hold then: no other call has touched the accounts in between.           *)
(***************************************************************************)
LEMMA OwnPreviewFresh ==
  ASSUME Inv, NEW c \in Call, Step(c), PreviewHolds(c)
  PROVE  PreviewHolds(c)'
<1> USE DEF Inv, TypeOK, Goto, Return
<1>1. CASE Begin(c)
  <2>1. PICK t \in Thread, key \in PolyKeys, stake \in Stakes :
          \/ pc'[c] \notin {"p_debit", "p_store"}
          \/ EventPassed(c, t, key, stake)
    BY <1>1, ArbAssumption DEF Begin, ArbRefused, ArbAccepted, BeginArb, EventRejected
  <2>2. CASE pc'[c] \notin {"p_debit", "p_store"}
    BY <2>2 DEF PreviewHolds
  <2>3. CASE EventPassed(c, t, key, stake)
    <3>1. job'[c].key = key /\ job'[c].stake = stake /\ pc'[c] = "p_debit"
      BY <2>3 DEF EventPassed, EventJob
    <3>2. PolyPreview(key, stake) /\ pBP' = pBP /\ pPos' = pPos
      BY <2>3 DEF EventPassed, brokerVars
    <3> QED
      BY <3>1, <3>2 DEF PreviewHolds, PolyPreview, OpenPolyKeys
  <2> QED
    BY <2>1, <2>2, <2>3
<1>2. CASE PolyPreviewed(c)
  BY <1>2 DEF PolyPreviewed, PreviewHolds, PolyPreview, OpenPolyKeys, brokerVars
<1>3. CASE PolyTakePower(c)
  <2>1. /\ pc[c] = "p_debit" /\ pc'[c] = "p_store" /\ job' = job /\ pPos' = pPos
        /\ pBP' = pBP - job[c].stake /\ job[c].stake \in Nat
    BY <1>3, JobTypes DEF PolyTakePower, PolyDebit
  <2> QED
    BY <2>1 DEF PreviewHolds, PolyPreview, OpenPolyKeys
<1>4. CASE ExchangeMoves(c)
  BY <1>4 DEF ExchangeMoves, PreviewHolds, PolyPreview, OpenPolyKeys, brokerVars
<1>5. CASE KalshiReadPower(c) \/ KalshiWritePower(c) \/ KalshiWritePosition(c)
  BY <1>5 DEF KalshiReadPower, KalshiWritePower, KalshiWritePosition, PreviewHolds
<1>6. CASE DemoLegAccepted(c) \/ DemoLegRaised(c) \/ PolyRefused(c) \/ PolyWritePosition(c)
  BY <1>6 DEF DemoLegAccepted, DemoLegRaised, PolyRefused, PolyWritePosition, PreviewHolds
<1>7. CASE ArbFilled(c) \/ LegImbalance(c) \/ UnwindPop(c) \/ UnwindCredit(c) \/ EventFilled(c)
  BY <1>7 DEF ArbFilled, LegImbalance, UnwindPop, UnwindCredit, EventFilled, PreviewHolds
<1>8. CASE CycleTimeout(c)
  BY <1>8 DEF CycleTimeout, PreviewHolds
<1> QED
  BY <1>1, <1>2, <1>3, <1>4, <1>5, <1>6, <1>7, <1>8 DEF Step, Advance

LEMMA PreviewStep ==
  ASSUME OneThread, Inv, PreviewsFresh, NEW c \in Call, Step(c)
  PROVE  PreviewsFresh'
<1> SUFFICES ASSUME NEW d \in Call PROVE PreviewHolds(d)'
  BY DEF PreviewsFresh
<1>1. CASE d = c
  BY <1>1, OwnPreviewFresh DEF PreviewsFresh
<1>2. CASE d # c /\ pc[d] \in {"p_debit", "p_store"}
  <2>1. Occupies(d)
    BY <1>2 DEF Occupies, Awaiting
  <2>2. UNCHANGED brokerVars
    BY <1>2, <2>1, Alone, AccountsBusy
  <2> QED
    BY <1>2, <2>2, StepFrame DEF PreviewsFresh, PreviewHolds, PolyPreview, OpenPolyKeys,
                                 brokerVars
<1>3. CASE d # c /\ pc[d] \notin {"p_debit", "p_store"}
  BY <1>3, StepFrame DEF PreviewHolds
<1> QED
  BY <1>1, <1>2, <1>3

\* A Kalshi position counts with the stake a call is about to store on it.
Storing(t) == {c \in Call : pc[c] = "k_store" /\ job[c].ticker = t}

HeldExact ==
  \A t \in KalshiKeys :
    /\ Storing(t) = {} => KalshiHeld[t] = kPos[t]
    /\ \A c \in Call : Storing(t) = {c} => KalshiHeld[t] = kPos[t] + job[c].stake

LEMMA HeldIsExact == Inv => HeldExact
<1> SUFFICES ASSUME Inv, NEW t \in KalshiKeys
             PROVE  /\ Storing(t) = {} => KalshiHeld[t] = kPos[t]
                    /\ \A c \in Call : Storing(t) = {c} => KalshiHeld[t] = kPos[t] + job[c].stake
  BY DEF HeldExact
<1>1. KalshiHeld[t] = kPos[t] + SumFunctionOnSet(KalshiInFlight, Storing(t))
  BY DEF KalshiHeld, Storing
<1>2. kPos[t] \in Nat
  BY DEF Inv, TypeOK
<1>3. ASSUME Storing(t) = {} PROVE KalshiHeld[t] = kPos[t]
  BY <1>1, <1>2, <1>3, SumEmpty
<1>4. ASSUME NEW c \in Call, Storing(t) = {c}
      PROVE  KalshiHeld[t] = kPos[t] + job[c].stake
  <2>1. c \in Storing(t) /\ pc[c] = "k_store"
    BY <1>4 DEF Storing
  <2>2. KalshiInFlight[c] = job[c].stake /\ job[c].stake \in Nat
    BY <2>1, JobTypes DEF KalshiInFlight
  <2>3. SumFunctionOnSet(KalshiInFlight, {} \cup {c})
          = KalshiInFlight[c] + SumFunctionOnSet(KalshiInFlight, {})
    BY <2>2, SumAdd, FS_EmptySet
  <2>4. {} \cup {c} = Storing(t)
    BY <1>4
  <2>5. SumFunctionOnSet(KalshiInFlight, Storing(t)) = job[c].stake + 0
    BY <2>2, <2>3, <2>4, SumEmpty
  <2> QED
    BY <1>1, <2>2, <2>5
<1> QED
  BY <1>3, <1>4

\* A call at the Kalshi account is alone there.
LEMMA AloneStoring ==
  ASSUME OneThread, Inv, NEW c \in Call, Occupies(c), NEW d \in Call, d # c
  PROVE  pc[d] # "k_store"
BY Alone DEF Occupies, Awaiting

\* The position is entered when its stake is debited, and storing it, like
\* every other step, changes nothing any more.
LEMMA EnterStep ==
  ASSUME OneThread, Inv, Inv', ReadsFresh, NEW c \in Call, KalshiWritePower(c)
  PROVE  Books!EnterKalshi(job[c].ticker, job[c].stake)
<1> DEFINE t == job[c].ticker
           stake == job[c].stake
<1>1. /\ pc[c] = "k_debit" /\ pc'[c] = "k_store" /\ job' = job /\ kPos' = kPos
      /\ \A d \in Call \ {c} : pc'[d] = pc[d]
  BY DEF KalshiWritePower, Goto, Inv, TypeOK
<1>2. \A d \in Call \ {c} : pc[d] # "k_store"
  BY <1>1, AloneStoring DEF Occupies, Awaiting
<1>3. t \in KalshiKeys /\ stake \in Nat
  BY <1>1, JobTypes
<1>4. \A x \in KalshiKeys : Storing(x) = {} /\ Storing(x)' = IF x = t THEN {c} ELSE {}
  BY <1>1, <1>2 DEF Storing
<1>5. HeldExact /\ HeldExact'
  BY HeldIsExact, PTL
<1>6. \A x \in KalshiKeys : KalshiHeld[x] = kPos[x]
  BY <1>4, <1>5 DEF HeldExact
<1>7. \A x \in KalshiKeys : KalshiHeld'[x] = IF x = t THEN kPos[x] + stake ELSE kPos[x]
  BY <1>1, <1>4, <1>5 DEF HeldExact
<1>8. KalshiHeld' = [KalshiHeld EXCEPT ![t] = @ + stake]
  BY <1>3, <1>6, <1>7 DEF KalshiHeld
<1>9. kBP' = IF kBP > stake THEN kBP - stake ELSE 0
  BY <1>1 DEF KalshiWritePower, KalshiDebit, ReadsFresh
<1>10. PolyCash' = PolyCash /\ pPos' = pPos
  BY PolyIdleStep, PolyFlightSame DEF PolyIdle, PolyCash
<1> QED
  BY <1>8, <1>9, <1>10 DEF Books!EnterKalshi

LEMMA KalshiStands ==
  ASSUME OneThread, Inv, Inv', ReadsFresh, NEW c \in Call, Step(c), ~KalshiWritePower(c)
  PROVE  kBP' = kBP /\ KalshiHeld' = KalshiHeld
<1>1. CASE KalshiWritePosition(c)
  <2> DEFINE t == job[c].ticker
             stake == job[c].stake
  <2>1. /\ pc[c] = "k_store" /\ pc'[c] = "leg2" /\ job' = job /\ kBP' = kBP
        /\ \A d \in Call \ {c} : pc'[d] = pc[d]
        /\ kPos' = [kPos EXCEPT ![t] = kPos[t] + stake]
    BY <1>1 DEF KalshiWritePosition, KalshiStore, Goto, Inv, TypeOK, ReadsFresh
  <2>2. \A d \in Call \ {c} : pc[d] # "k_store"
    BY <2>1, AloneStoring DEF Occupies, Awaiting
  <2>3. \A x \in KalshiKeys : Storing(x)' = {} /\ Storing(x) = IF x = t THEN {c} ELSE {}
    BY <2>1, <2>2 DEF Storing
  <2>4. HeldExact /\ HeldExact'
    BY HeldIsExact, PTL
  <2>5. \A x \in KalshiKeys : KalshiHeld[x] = IF x = t THEN kPos[x] + stake ELSE kPos[x]
    BY <2>3, <2>4 DEF HeldExact
  <2>6. \A x \in KalshiKeys : KalshiHeld'[x] = kPos'[x]
    BY <2>3, <2>4 DEF HeldExact
  <2>7. \A x \in KalshiKeys : kPos'[x] = IF x = t THEN kPos[x] + stake ELSE kPos[x]
    BY <2>1 DEF Inv, TypeOK
  <2>8. KalshiHeld' = KalshiHeld
    BY <2>5, <2>6, <2>7 DEF KalshiHeld
  <2> QED
    BY <2>1, <2>8
<1>2. CASE ~KalshiWritePosition(c)
  <2>1. /\ UNCHANGED <<kBP, kPos>>
        /\ \/ pc[c] # "k_store" /\ pc'[c] # "k_store"
           \/ UNCHANGED <<pc, job>>
    BY <1>2, KalshiIdleStep
  <2>2. \A d \in Call \ {c} : pc'[d] = pc[d] /\ job'[d] = job[d]
    BY StepFrame
  <2>3. KalshiInFlight' = KalshiInFlight
    BY <2>1, <2>2 DEF KalshiInFlight
  <2>4. \A t : Storing(t)' = Storing(t)
    BY <2>1, <2>2 DEF Storing
  <2>5. KalshiHeld' = KalshiHeld
    BY <2>1, <2>3, <2>4 DEF KalshiHeld, Storing
  <2> QED
    BY <2>1, <2>5
<1> QED
  BY <1>1, <1>2

\* The instance has its own name for the size of a set.
LEMMA SameCardinality == \A S : Books!Cardinality(S) = Cardinality(S)
BY DEF Books!Cardinality, Cardinality

\* A position is bought when it is written.
LEMMA BuyStep ==
  ASSUME OneThread, Inv, Inv', ReadsFresh, PreviewsFresh, NEW c \in Call, PolyWritePosition(c)
  PROVE  Books!BuyPoly(job[c].key, job[c].stake)
<1> DEFINE key == job[c].key
           stake == job[c].stake
           flight == SumFunctionOnSet(PolyInFlight, Call)
<1>1. /\ pc[c] = "p_store" /\ pc'[c] = "fills" /\ pBP' = pBP /\ pBP \in Int
      /\ pPos' = [pPos EXCEPT ![key] = pPos[key] + stake]
  BY DEF PolyWritePosition, PolyStore, Goto, Inv, TypeOK, ReadsFresh
<1>2. key \in PolyKeys /\ stake \in Nat /\ flight \in Nat
  BY <1>1, JobTypes, FlightTypes
<1>3. PolyInFlight[c] = stake /\ PolyInFlight'[c] = 0
  BY <1>1 DEF PolyInFlight
<1>4. Step(c) /\ ~KalshiWritePower(c)
  BY <1>1 DEF Step, Advance, KalshiWritePower
<1>5. flight' = flight - PolyInFlight[c] + PolyInFlight'[c]
  BY <1>4, PolyFlightSet
<1>6. /\ stake <= MaxOrder /\ 0 <= pBP
      /\ pPos[key] > 0 \/ Cardinality({x \in PolyKeys : pPos[x] > 0}) < MaxOpenPositions
  BY <1>1 DEF PreviewsFresh, PreviewHolds, OpenPolyKeys
<1>7. flight' \in Nat
  <2>1. TotalsTyped'
    BY TotalsAreTyped, PTL
  <2> QED
    BY <2>1 DEF TotalsTyped
<1>8. PolyCash = pBP + flight /\ PolyCash' = pBP' + flight'
  BY DEF PolyCash
<1>9. kBP' = kBP /\ KalshiHeld' = KalshiHeld
  BY <1>4, KalshiStands
<1> HIDE DEF flight, key, stake
<1>10. stake <= PolyCash /\ PolyCash' = PolyCash - stake
  BY <1>1, <1>2, <1>3, <1>5, <1>6, <1>7, <1>8
<1>11. pPos' = [pPos EXCEPT ![key] = @ + stake]
  BY <1>1
<1> QED
  BY <1>6, <1>9, <1>10, <1>11, SameCardinality, Zenon DEF Books!BuyPoly, key, stake

\* A position is closed when it is popped.
LEMMA CloseStep ==
  ASSUME OneThread, Inv, Inv', ReadsFresh, NEW c \in Call, UnwindPop(c)
  PROVE  Books!ClosePoly(job[c].key)
<1> DEFINE key == job[c].key
           flight == SumFunctionOnSet(PolyInFlight, Call)
<1>1. /\ pc[c] = "unwind" /\ pc'[c] = "credit" /\ pBP' = pBP /\ pBP \in Int
      /\ old'[c] = pPos[key] /\ pPos' = [pPos EXCEPT ![key] = 0]
  BY DEF UnwindPop, PolyPop, Goto, Inv, TypeOK
<1>2. key \in PolyKeys /\ pPos[key] \in Nat /\ flight \in Nat
  BY <1>1, JobTypes, FlightTypes DEF Inv, TypeOK
<1>3. PolyInFlight[c] = 0 /\ PolyInFlight'[c] = pPos[key]
  BY <1>1 DEF PolyInFlight
<1>4. Step(c) /\ ~KalshiWritePower(c)
  BY <1>1 DEF Step, Advance, KalshiWritePower
<1>5. flight' = flight - PolyInFlight[c] + PolyInFlight'[c]
  BY <1>4, PolyFlightSet
<1>6. PolyCash = pBP + flight /\ PolyCash' = pBP' + flight'
  BY DEF PolyCash
<1>7. kBP' = kBP /\ KalshiHeld' = KalshiHeld
  BY <1>4, KalshiStands
<1> HIDE DEF flight, key
<1>8. PolyCash' = PolyCash + pPos[key]
  BY <1>1, <1>2, <1>3, <1>5, <1>6
<1> QED
  BY <1>1, <1>7, <1>8 DEF Books!ClosePoly, key

\* The other halves of a purchase and of a sale, and every other step.
LEMMA PolyStands ==
  ASSUME Inv, Inv', NEW c \in Call, Step(c), ~PolyWritePosition(c), ~UnwindPop(c)
  PROVE  PolyCash' = PolyCash /\ pPos' = pPos
<1>1. pPos' = pPos
  <2>1. CASE PolyIdle(c)
    BY <2>1, PolyIdleStep
  <2>2. CASE PolyTakePower(c) \/ UnwindCredit(c)
    BY <2>2 DEF PolyTakePower, UnwindCredit
  <2> QED
    BY <2>1, <2>2 DEF Step, Advance, PolyIdle
<1>2. PolyTotal' = PolyTotal
  BY TotalStep
<1>3. PolyBook' = PolyBook
  BY <1>1, BookSame
<1>4. PolyTotal = PolyCash + PolyBook /\ PolyTotal' = PolyCash' + PolyBook'
  <2>1. TotalsTyped /\ TotalsTyped'
    BY TotalsAreTyped, PTL
  <2> QED
    BY <2>1 DEF TotalsTyped, PolyTotal, PolyCash
<1>5. PolyBook \in Int /\ PolyCash \in Int /\ PolyCash' \in Int
  <2>1. TotalsTyped /\ TotalsTyped'
    BY TotalsAreTyped, PTL
  <2> QED
    BY <2>1 DEF TotalsTyped, PolyCash
<1>6. PolyCash' + PolyBook = PolyCash + PolyBook
  BY <1>2, <1>3, <1>4, Zenon
<1>7. \A a, b, x \in Int : a + x = b + x => a = b
  OBVIOUS
<1>8. PolyCash' = PolyCash
  BY <1>5, <1>6, <1>7, Zenon
<1> QED
  BY <1>1, <1>8

LEMMA BooksStep ==
  ASSUME OneThread, Inv, Inv', ReadsFresh, PreviewsFresh, NEW c \in Call, Step(c)
  PROVE  [Books!BooksNext]_(Books!booksVars)
<1>1. CASE KalshiWritePower(c)
  <2>1. Books!EnterKalshi(job[c].ticker, job[c].stake)
    BY <1>1, EnterStep
  <2>2. job[c] \in Jobs /\ job[c].ticker \in KalshiKeys
    BY <1>1, JobTypes DEF KalshiWritePower
  <2>3. job[c].stake \in Stakes
    BY <2>2 DEF Jobs
  <2> QED
    BY <2>1, <2>2, <2>3 DEF Books!BooksNext
<1>2. CASE PolyWritePosition(c)
  <2>1. Books!BuyPoly(job[c].key, job[c].stake)
    BY <1>2, BuyStep
  <2>2. job[c] \in Jobs /\ job[c].key \in PolyKeys
    BY <1>2, JobTypes DEF PolyWritePosition
  <2>3. job[c].stake \in Stakes
    BY <2>2 DEF Jobs
  <2> QED
    BY <2>1, <2>2, <2>3 DEF Books!BooksNext
<1>3. CASE UnwindPop(c)
  <2>1. Books!ClosePoly(job[c].key)
    BY <1>3, CloseStep
  <2>2. job[c].key \in PolyKeys
    BY <1>3, JobTypes DEF UnwindPop
  <2> QED
    BY <2>1, <2>2 DEF Books!BooksNext
<1>4. CASE ~KalshiWritePower(c) /\ ~PolyWritePosition(c) /\ ~UnwindPop(c)
  <2>1. kBP' = kBP /\ KalshiHeld' = KalshiHeld
    BY <1>4, KalshiStands
  <2>2. PolyCash' = PolyCash /\ pPos' = pPos
    BY <1>4, PolyStands
  <2> QED
    BY <2>1, <2>2 DEF Books!booksVars
<1> QED
  BY <1>1, <1>2, <1>3, <1>4

LEMMA InitBooksMap == Init => Books!BooksInit /\ PreviewsFresh
<1> SUFFICES ASSUME Init PROVE Books!BooksInit /\ PreviewsFresh
  OBVIOUS
<1>1. /\ Inv /\ kBP = KalshiBankroll /\ pBP = PolyBankroll /\ PolyBankroll \in Nat
      /\ kPos = [t \in KalshiKeys |-> 0] /\ pPos = [k \in PolyKeys |-> 0]
      /\ \A c \in Call : pc[c] = "idle"
  BY InitInv, BrokerAssumption DEF Init, BrokerInit
<1>2. \A c \in Call : PolyInFlight[c] = 0
  BY <1>1 DEF PolyInFlight
<1>3. PolyCash = PolyBankroll
  <2>1. SumFunctionOnSet(PolyInFlight, Call) = 0
    BY <1>2, Finite, SumZero
  <2> QED
    BY <1>1, <2>1 DEF PolyCash
<1>4. \A t \in KalshiKeys : KalshiHeld[t] = 0
  <2>1. \A t \in KalshiKeys : Storing(t) = {}
    BY <1>1 DEF Storing
  <2> QED
    BY <1>1, <2>1, HeldIsExact DEF HeldExact
<1>5. KalshiHeld = [t \in KalshiKeys |-> 0]
  BY <1>4 DEF KalshiHeld
<1>6. PreviewsFresh
  BY <1>1 DEF PreviewsFresh, PreviewHolds
<1> QED
  BY <1>1, <1>3, <1>5, <1>6 DEF Books!BooksInit

BooksMapInv == Inv /\ ReadsFresh /\ PreviewsFresh

(***************************************************************************)
(* One thread, either venue: the broker methods of broker.py are atomic.   *)
(* Each order is one purchase that could be paid for and was within the    *)
(* limits when it was entered, each unwind is one sale of the whole        *)
(* position, and whatever else a call does leaves the accounts alone.      *)
(***************************************************************************)
THEOREM ImplementsBooks ==
  ASSUME OneThread
  PROVE  Spec => BooksContract
<1>1. Init => Books!BooksInit /\ BooksMapInv
  BY InitInv, InitBooks, InitBooksMap DEF BooksMapInv
<1>2. BooksMapInv /\ [Next]_vars => BooksMapInv' /\ [Books!BooksNext]_(Books!booksVars)
  <2> SUFFICES ASSUME BooksMapInv, [Next]_vars
               PROVE  BooksMapInv' /\ [Books!BooksNext]_(Books!booksVars)
    OBVIOUS
  <2>1. Inv /\ Inv'
    BY NextInv DEF BooksMapInv
  <2>2. ASSUME NEW c \in Call, Step(c)
        PROVE  BooksMapInv' /\ [Books!BooksNext]_(Books!booksVars)
    BY <2>1, <2>2, FreshStep, PreviewStep, BooksStep DEF BooksMapInv
  <2>3. CASE UNCHANGED vars
    <3>1. UNCHANGED Books!booksVars
      BY <2>3 DEF vars, brokerVars, callVars, Books!booksVars, KalshiHeld, KalshiInFlight,
                  PolyCash, PolyInFlight
    <3>2. PreviewsFresh'
      BY <2>3 DEF BooksMapInv, PreviewsFresh, PreviewHolds, PolyPreview, OpenPolyKeys, vars,
                  brokerVars, callVars
    <3> QED
      BY <2>1, <2>3, <3>1, <3>2, StandsStill DEF BooksMapInv
  <2> QED
    BY <2>2, <2>3 DEF Next, Step
<1> QED
  BY <1>1, <1>2, PTL DEF Spec, BooksContract, Books!BooksSpec
=============================================================================
