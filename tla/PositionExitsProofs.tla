------------------------- MODULE PositionExitsProofs -------------------------
(***************************************************************************)
(* Proofs about PositionExits, for all sets of contracts, signals,         *)
(* managers and scans.                                                     *)
(***************************************************************************)
EXTENDS PositionExits, FiniteSetTheorems, TLAPS

(***************************************************************************)
(* What is left after everything on its way stays within the bound: the    *)
(* types need it.                                                          *)
(***************************************************************************)
NetBounded == \A s \in Symbol : Net(s) \in Amount
Typed == TypeOK /\ NetBounded

\* An abbreviation of two variables.
USE DEF rows

LEMMA ChangeOne ==
  ASSUME NEW S, NEW T, NEW f \in [S -> T], NEW x \in S, NEW y \in T
  PROVE  [f EXCEPT ![x] = y] \in [S -> T]
OBVIOUS

LEMMA NamesType == SomeSymbol \in Symbol /\ NoNames \in [Message -> Symbol]
BY ExitsAssumption DEF SomeSymbol, NoNames

LEMMA InitTyped == Init => Typed
<1> SUFFICES ASSUME Init PROVE Typed
  OBVIOUS
<1> USE ExitsAssumption
<1>1. TypeOK
  BY NamesType DEF Init, TypeOK, Statuses, PCs, Kind, Amount, NoView, Worker
<1>2. NetBounded
  BY DEF Init, NetBounded, Net, Amount
<1> QED
  BY <1>1, <1>2 DEF Typed

\* The account after a step: what each of the changes to it does to the bounds.
AccountOK == /\ shares \in [Symbol -> Amount]
             /\ pending \in [Symbol -> -2 * MaxShares .. 2 * MaxShares]
             /\ NetBounded

LEMMA ChangeAccount ==
  ASSUME Typed, NEW s \in Symbol, NEW held \in Amount, NEW out \in Int,
         held - out \in Amount,
         shares' = [shares EXCEPT ![s] = held], pending' = [pending EXCEPT ![s] = out]
  PROVE  AccountOK'
<1> USE ExitsAssumption DEF Amount
<1>1. out \in -2 * MaxShares .. 2 * MaxShares
  OBVIOUS
<1>2. shares' \in [Symbol -> Amount] /\ pending' \in [Symbol -> -2 * MaxShares .. 2 * MaxShares]
  BY <1>1 DEF Typed, TypeOK
<1>3. ASSUME NEW x \in Symbol PROVE shares'[x] - pending'[x] \in Amount
  <2>1. CASE x = s
    BY <2>1 DEF Typed, TypeOK
  <2>2. CASE x # s
    <3>1. shares'[x] = shares[x] /\ pending'[x] = pending[x]
      BY <2>2 DEF Typed, TypeOK
    <3> QED
      BY <3>1 DEF Typed, NetBounded, Net
  <2> QED
    BY <2>1, <2>2
<1> QED
  BY <1>2, <1>3 DEF AccountOK, NetBounded, Net

LEMMA KeepAccount ==
  ASSUME Typed, UNCHANGED account
  PROVE  AccountOK'
BY DEF Typed, TypeOK, NetBounded, Net, AccountOK, account

LEMMA SnapshotType ==
  ASSUME Typed, NEW w \in Worker, SeesPositions(w)
  PROVE  /\ view' \in [Worker -> [Symbol -> Amount]]
         /\ stale' \in [Worker -> SUBSET Symbol] /\ unheld' \in [Worker -> SUBSET Symbol]
BY ExitsAssumption DEF Typed, TypeOK, SeesPositions, Positions, NoView, Amount

LEMMA ResetType ==
  ASSUME Typed, NEW w \in Worker, Reset(w)
  PROVE  /\ pc' \in [Worker -> PCs] /\ kind' \in [Worker -> Kind]
         /\ view' \in [Worker -> [Symbol -> Amount]]
         /\ left' \in [Worker -> SUBSET (Message \cup Symbol)]
         /\ unpriced' \in [Worker -> SUBSET Symbol] /\ named' \in [Worker -> [Message -> Symbol]]
         /\ skip' \in [Worker -> SUBSET Symbol] /\ selling' \in [Worker -> SUBSET Message]
         /\ stale' \in [Worker -> SUBSET Symbol] /\ unheld' \in [Worker -> SUBSET Symbol]
BY ExitsAssumption, NamesType DEF Typed, TypeOK, Reset, NoView, Amount, PCs, Kind

LEMMA SaleType ==
  ASSUME Typed, NEW s \in Symbol, NEW held \in Int, NEW out \in Int, NEW cause \in BOOLEAN
  PROVE  /\ Sold(s) => stale' \in [Worker -> SUBSET Symbol]
         /\ NoteUnheld(s) => unheld' \in [Worker -> SUBSET Symbol]
         /\ Explain(s, held, out, cause) => raced' \in [Symbol -> BOOLEAN]
<1>1. Sold(s) => stale' \in [Worker -> SUBSET Symbol]
  BY DEF Typed, TypeOK, Sold
<1>2. NoteUnheld(s) => unheld' \in [Worker -> SUBSET Symbol]
  BY DEF Typed, TypeOK, NoteUnheld
<1>3. Explain(s, held, out, cause) => raced' \in [Symbol -> BOOLEAN]
  BY DEF Typed, TypeOK, Explain
<1> QED
  BY <1>1, <1>2, <1>3

LEMMA BrokerType == ASSUME Typed, NEW s \in Symbol, BrokerStep(s) PROVE Typed'
<1> USE ExitsAssumption
<1>0. shares[s] \in Amount /\ pending[s] \in Int /\ Net(s) \in Amount
  BY DEF Typed, TypeOK, NetBounded, Amount
<1>1. CASE Fills(s)
  <2> DEFINE n == IF pending[s] > 0 THEN 1 ELSE -1
  <2>1. /\ shares' = [shares EXCEPT ![s] = shares[s] - n]
        /\ pending' = [pending EXCEPT ![s] = pending[s] - n]
    BY <1>1 DEF Fills
  <2>2. shares[s] - n \in Amount /\ pending[s] - n \in Int
        /\ (shares[s] - n) - (pending[s] - n) \in Amount
    BY <1>0, <1>1 DEF Fills, Net, Amount
  <2> HIDE DEF n
  <2>3. AccountOK'
    BY <2>1, <2>2, ChangeAccount
  <2>4. shares'[s] \in Int /\ pending'[s] \in Int
    BY <2>3 DEF AccountOK, Amount
  <2> QED
    BY <1>1, <2>3, <2>4, SaleType DEF Fills, Typed, TypeOK, AccountOK, worker
<1>2. CASE Lapses(s)
  <2> DEFINE out == IF pending[s] > 0 THEN pending[s] - 1 ELSE pending[s] + 1
  <2>1. shares' = [shares EXCEPT ![s] = shares[s]] /\ pending' = [pending EXCEPT ![s] = out]
    BY <1>2 DEF Lapses, Typed, TypeOK
  <2>2. out \in Int /\ shares[s] - out \in Amount
    BY <1>0, <1>2 DEF Lapses, Net, Amount
  <2> HIDE DEF out
  <2>3. AccountOK'
    BY <1>0, <2>1, <2>2, ChangeAccount
  <2>4. shares[s] \in Int /\ pending'[s] \in Int
    BY <1>0, <2>3 DEF AccountOK, Amount
  <2> QED
    BY <1>2, <2>3, <2>4, SaleType DEF Lapses, Typed, TypeOK, AccountOK, worker
<1>3. CASE Buys(s)
  <2>1. shares' = [shares EXCEPT ![s] = shares[s] + 1] /\ pending' = [pending EXCEPT ![s] = pending[s]]
    BY <1>3 DEF Buys, Typed, TypeOK
  <2>2. shares[s] + 1 \in Amount /\ (shares[s] + 1) - pending[s] \in Amount
    BY <1>0, <1>3 DEF Buys, Net, Amount
  <2>3. AccountOK'
    BY <1>0, <2>1, <2>2, ChangeAccount
  <2>4. shares'[s] \in Int /\ pending[s] \in Int
    BY <1>0, <2>3 DEF AccountOK, Amount
  <2> QED
    BY <1>3, <2>3, <2>4, SaleType DEF Buys, Typed, TypeOK, AccountOK, worker
<1>4. CASE SellsShort(s)
  <2>1. shares' = [shares EXCEPT ![s] = shares[s] - 1] /\ pending' = [pending EXCEPT ![s] = pending[s]]
    BY <1>4 DEF SellsShort, Typed, TypeOK
  <2>2. shares[s] - 1 \in Amount /\ (shares[s] - 1) - pending[s] \in Amount
    BY <1>0, <1>4 DEF SellsShort, Net, Amount
  <2>3. AccountOK'
    BY <1>0, <2>1, <2>2, ChangeAccount
  <2>4. shares'[s] \in Int /\ pending[s] \in Int
    BY <1>0, <2>3 DEF AccountOK, Amount
  <2> QED
    BY <1>4, <2>3, <2>4, SaleType DEF SellsShort, Typed, TypeOK, AccountOK, worker
<1> QED
  BY <1>1, <1>2, <1>3, <1>4 DEF BrokerStep

LEMMA EngineType == ASSUME Typed, NEW w \in Engine, EngineStep(w) PROVE Typed'
<1> USE ExitsAssumption
<1>0. w \in Worker
  BY DEF Worker
<1>1. ASSUME NEW k \in Kind, EngineSnapshot(w, k) PROVE Typed'
  BY <1>0, <1>1, SnapshotType, KeepAccount
  DEF EngineSnapshot, Typed, TypeOK, AccountOK, account, PCs
<1>2. CASE ReadTracked(w)
  <2>1. Tracked \subseteq Symbol
    BY DEF Tracked, Open, Typed, TypeOK
  <2>2. skip' \in [Worker -> SUBSET Symbol]
    BY <1>0, <1>2, <2>1 DEF ReadTracked, SkipChoices, Typed, TypeOK
  <2>3. left' \in [Worker -> SUBSET (Message \cup Symbol)]
    BY <1>0, <1>2 DEF ReadTracked, Typed, TypeOK
  <2>4. pc' \in [Worker -> PCs]
    BY <1>0, <1>2 DEF ReadTracked, Typed, TypeOK, PCs
  <2> QED
    BY <1>2, <2>2, <2>3, <2>4, KeepAccount
    DEF ReadTracked, Typed, TypeOK, AccountOK, account, history
<1>3. ASSUME NEW s \in Symbol, EngineHolds(w, s) PROVE Typed'
  BY <1>0, <1>3, KeepAccount
  DEF EngineHolds, LeftBehind, Typed, TypeOK, AccountOK, account, history
<1>4. ASSUME NEW s \in Symbol, CloseRefused(w, s) PROVE Typed'
  BY <1>0, <1>4, KeepAccount
  DEF CloseRefused, LeftBehind, Typed, TypeOK, AccountOK, account, history
<1>5. ASSUME NEW s \in Symbol, EngineCloses(w, s) PROVE Typed'
  <2> DEFINE out == IF OppositeWay(s) THEN pending[s] + shares[s] ELSE shares[s]
  <2>1. shares' = [shares EXCEPT ![s] = shares[s]] /\ pending' = [pending EXCEPT ![s] = out]
    BY <1>5 DEF EngineCloses, Liquidate, Typed, TypeOK
  <2>2. shares[s] \in Amount /\ out \in Int /\ shares[s] - out \in Amount
    BY DEF Typed, TypeOK, NetBounded, Net, Amount, OppositeWay
  <2> HIDE DEF out
  <2>3. AccountOK'
    BY <2>1, <2>2, ChangeAccount
  <2>4. shares[s] \in Int /\ pending'[s] \in Int
    BY <2>2, <2>3 DEF AccountOK, Amount
  <2>5. left' \in [Worker -> SUBSET (Message \cup Symbol)]
    BY <1>0, <1>5 DEF EngineCloses, LeftBehind, Typed, TypeOK
  <2> QED
    BY <1>5, <2>3, <2>4, <2>5, SaleType DEF EngineCloses, Typed, TypeOK, AccountOK
<1>6. CASE PassEnds(w)
  BY <1>0, <1>6, ResetType, KeepAccount DEF PassEnds, Typed, TypeOK, AccountOK, account
<1>7. CASE ReviewRaises(w)
  BY <1>0, <1>7, ResetType, KeepAccount DEF ReviewRaises, Typed, TypeOK, AccountOK, account
<1> QED
  BY <1>1, <1>2, <1>3, <1>4, <1>5, <1>6, <1>7 DEF EngineStep

LEMMA ManagerType == ASSUME Typed, NEW w \in Manager, ManagerStep(w) PROVE Typed'
<1> USE ExitsAssumption
<1>0. w \in Worker
  BY DEF Worker
<1>1. CASE ManagerReadsRows(w)
  <2>1. named' \in [Worker -> [Message -> Symbol]]
    BY <1>0, <1>1, NamesType DEF ManagerReadsRows, Typed, TypeOK
  <2>2. left' \in [Worker -> SUBSET (Message \cup Symbol)]
    BY <1>0, <1>1 DEF ManagerReadsRows, Open, Typed, TypeOK
  <2> QED
    BY <1>0, <1>1, <2>1, <2>2, KeepAccount
    DEF ManagerReadsRows, Typed, TypeOK, AccountOK, account, PCs
<1>2. CASE ManagerSnapshot(w)
  BY <1>0, <1>2, SnapshotType, KeepAccount
  DEF ManagerSnapshot, Typed, TypeOK, AccountOK, account, PCs
<1>3. ASSUME NEW m \in Message, ManagerHolds(w, m) PROVE Typed'
  BY <1>0, <1>3, KeepAccount
  DEF ManagerHolds, LeftBehind, Typed, TypeOK, AccountOK, account, history
<1>4. ASSUME NEW m \in Message, ManagerGivesUp(w, m) PROVE Typed'
  BY <1>0, <1>4, KeepAccount
  DEF ManagerGivesUp, LeftBehind, Typed, TypeOK, AccountOK, account, history, Statuses
<1>5. ASSUME NEW m \in Message, RowClosed(w, m) PROVE Typed'
  BY <1>0, <1>5, KeepAccount DEF RowClosed, Typed, TypeOK, AccountOK, account, Statuses
<1>6. ASSUME NEW m \in Message, NEW noted \in BOOLEAN, ManagerSells(w, m, noted)
      PROVE  Typed'
  <2> DEFINE s == named[w][m]
             out == pending[s] + Quantity(w, s)
  <2>0. s \in Symbol
    BY <1>0 DEF Typed, TypeOK
  <2>1. shares' = [shares EXCEPT ![s] = shares[s]] /\ pending' = [pending EXCEPT ![s] = out]
    BY <1>6 DEF ManagerSells, Typed, TypeOK
  <2>2. view[w][s] \in Int
    BY <1>0, <2>0 DEF Typed, TypeOK, Amount
  <2>3. shares[s] \in Amount /\ out \in Int /\ shares[s] - out \in Amount
    BY <1>6, <2>0, <2>2 DEF ManagerSells, Quantity, Typed, TypeOK, NetBounded, Net, Amount
  <2>6. selling' \in [Worker -> SUBSET Message]
    BY <1>0, <1>6 DEF ManagerSells, Typed, TypeOK
  <2>7. left' \in [Worker -> SUBSET (Message \cup Symbol)]
    BY <1>0, <1>6 DEF ManagerSells, LeftBehind, Typed, TypeOK
  <2>8. Sold(s) /\ Explain(s, shares[s], pending'[s], s \in stale[w] \/ view[w][s] < 0)
    BY <1>6 DEF ManagerSells
  <2>9. UNCHANGED <<rows, pc, kind, view, unpriced, named, skip, unheld, recorded>>
    BY <1>6 DEF ManagerSells
  <2> HIDE DEF s, out
  <2>4. AccountOK'
    BY <2>0, <2>1, <2>3, ChangeAccount
  <2>5. shares[s] \in Int /\ pending'[s] \in Int
    BY <2>0, <2>3, <2>4 DEF AccountOK, Amount
  <2>10. (s \in stale[w] \/ view[w][s] < 0) \in BOOLEAN
    OBVIOUS
  <2>11. stale' \in [Worker -> SUBSET Symbol] /\ raced' \in [Symbol -> BOOLEAN]
    BY <2>0, <2>5, <2>8, <2>10, SaleType
  <2> QED
    BY <2>4, <2>6, <2>7, <2>9, <2>11 DEF Typed, TypeOK, AccountOK
<1>7. CASE PassEnds(w)
  BY <1>0, <1>7, ResetType, KeepAccount DEF PassEnds, Typed, TypeOK, AccountOK, account
<1> QED
  BY <1>1, <1>2, <1>3, <1>4, <1>5, <1>6, <1>7 DEF ManagerStep

LEMMA NextTyped == Typed /\ [Next]_vars => Typed'
<1> SUFFICES ASSUME Typed, [Next]_vars PROVE Typed'
  OBVIOUS
<1>1. ASSUME NEW m \in Message, NEW s \in Symbol, Signal(m, s) PROVE Typed'
  BY <1>1, KeepAccount DEF Signal, Typed, TypeOK, AccountOK, account, worker, Statuses
<1>2. CASE UNCHANGED vars
  BY <1>2, KeepAccount DEF vars, account, worker, history, Typed, TypeOK, AccountOK
<1> QED
  BY <1>1, <1>2, BrokerType, EngineType, ManagerType DEF Next

(***************************************************************************)
(* Types: what is held, what is on its way and what the workers know of    *)
(* it stay within the bound on the account.                                *)
(***************************************************************************)
THEOREM TypeCorrect == Spec => []TypeOK
<1>1. Spec => []Typed
  BY InitTyped, NextTyped, PTL DEF Spec
<1>2. Typed => TypeOK
  BY DEF Typed
<1> QED
  BY <1>1, <1>2, PTL

-----------------------------------------------------------------------------
(***************************************************************************)
(* What a snapshot is still good for: while no sale of a contract was      *)
(* accepted since, nothing of it is on its way and at least what the       *)
(* snapshot showed is held.                                                *)
(***************************************************************************)
FreshFor(w, s) == pending[s] = 0 /\ (view[w][s] > 0 => shares[s] >= view[w][s])
SnapshotsHold ==
  \A w \in Worker, s \in Symbol :
    pc[w] \in {"snapped", "pass"} /\ s \notin stale[w] => FreshFor(w, s)
Covered == SnapshotsHold /\ OversoldExplained

LEMMA InitCovered == Init => Covered
<1> SUFFICES ASSUME Init PROVE Covered
  OBVIOUS
<1>1. SnapshotsHold
  BY DEF Init, SnapshotsHold
<1>2. ASSUME NEW s \in Symbol, shares[s] < 0 \/ Net(s) < 0 PROVE raced[s]
  <2>1. shares[s] \in Int /\ pending[s] = 0
    BY ExitsAssumption DEF Init, Amount
  <2>2. shares[s] < 0
    BY <1>2, <2>1 DEF Net
  <2> QED
    BY <2>2 DEF Init
<1> QED
  BY <1>1, <1>2 DEF Covered, OversoldExplained

\* Steps that leave the account alone.
LEMMA KeepExplained ==
  ASSUME OversoldExplained, UNCHANGED <<account, raced>> PROVE OversoldExplained'
BY DEF OversoldExplained, Net, account

LEMMA KeepSnapshots ==
  ASSUME SnapshotsHold, UNCHANGED <<account, view, stale, pc>> PROVE SnapshotsHold'
BY DEF SnapshotsHold, FreshFor, account

LEMMA TakeSnapshot ==
  ASSUME Typed, SnapshotsHold, NEW w \in Worker, SeesPositions(w), UNCHANGED account,
         NEW to, pc' = [pc EXCEPT ![w] = to]
  PROVE  SnapshotsHold'
<1> SUFFICES ASSUME NEW v \in Worker, NEW s \in Symbol,
                    pc'[v] \in {"snapped", "pass"}, s \notin stale'[v]
             PROVE  FreshFor(v, s)'
  BY DEF SnapshotsHold
<1>1. CASE v = w
  <2>1. pending[s] = 0 /\ view'[w] \in {shares, NoView}
    BY <1>1 DEF SeesPositions, Positions, Typed, TypeOK
  <2>2. view'[w][s] > 0 => shares[s] >= view'[w][s]
    BY <2>1 DEF NoView, Typed, TypeOK, Amount
  <2> QED
    BY <1>1, <2>1, <2>2 DEF FreshFor, account
<1>2. CASE v # w
  BY <1>2 DEF SeesPositions, Typed, TypeOK, SnapshotsHold, FreshFor, account
<1> QED
  BY <1>1, <1>2

LEMMA EndPass ==
  ASSUME Typed, SnapshotsHold, NEW w \in Worker, Reset(w), UNCHANGED account
  PROVE  SnapshotsHold'
<1> SUFFICES ASSUME NEW v \in Worker, NEW s \in Symbol,
                    pc'[v] \in {"snapped", "pass"}, s \notin stale'[v]
             PROVE  FreshFor(v, s)'
  BY DEF SnapshotsHold
<1>1. v # w
  BY DEF Reset, Typed, TypeOK
<1> QED
  BY <1>1 DEF Reset, Typed, TypeOK, SnapshotsHold, FreshFor, account

\* A sale of s, which every snapshot is told of; held and out are its account.
LEMMA SellOne ==
  ASSUME Typed, Covered, NEW s \in Symbol, NEW held \in Int, NEW out \in Int,
         NEW cause \in BOOLEAN, Sold(s), Explain(s, held, out, cause),
         shares' = [shares EXCEPT ![s] = held], pending' = [pending EXCEPT ![s] = out],
         UNCHANGED <<view, pc>>,
         held < 0 \/ held - out < 0 => raced[s] \/ cause
  PROVE  Covered'
<1>1. SnapshotsHold'
  <2> SUFFICES ASSUME NEW v \in Worker, NEW x \in Symbol,
                      pc'[v] \in {"snapped", "pass"}, x \notin stale'[v]
               PROVE  FreshFor(v, x)'
    BY DEF SnapshotsHold
  <2>1. x # s /\ x \notin stale[v]
    BY DEF Sold
  <2> QED
    BY <2>1 DEF Covered, SnapshotsHold, FreshFor, Typed, TypeOK
<1>2. ASSUME NEW x \in Symbol, shares'[x] < 0 \/ shares'[x] - pending'[x] < 0 PROVE raced'[x]
  <2>1. CASE x = s
    <3>1. held < 0 \/ held - out < 0
      BY <1>2, <2>1 DEF Typed, TypeOK
    <3> QED
      BY <2>1, <3>1 DEF Explain, Typed, TypeOK
  <2>2. CASE x # s
    BY <1>2, <2>2 DEF Explain, Typed, TypeOK, Covered, OversoldExplained, Net
  <2> QED
    BY <2>1, <2>2
<1> QED
  BY <1>1, <1>2 DEF Covered, OversoldExplained, Net

\* A change of s that is no sale: it must not touch what a snapshot relies on.
LEMMA MoveOne ==
  ASSUME Typed, Covered, NEW s \in Symbol, NEW held \in Int, NEW out \in Int,
         Explain(s, held, out, FALSE),
         shares' = [shares EXCEPT ![s] = held], pending' = [pending EXCEPT ![s] = out],
         UNCHANGED <<view, pc, stale>>,
         pending[s] = 0 => out = 0 /\ held >= shares[s],
         held < 0 \/ held - out < 0 => raced[s]
  PROVE  Covered'
<1>1. SnapshotsHold'
  <2> SUFFICES ASSUME NEW v \in Worker, NEW x \in Symbol,
                      pc'[v] \in {"snapped", "pass"}, x \notin stale'[v]
               PROVE  FreshFor(v, x)'
    BY DEF SnapshotsHold
  <2>1. FreshFor(v, x)
    BY DEF Covered, SnapshotsHold
  <2>2. shares[x] \in Int /\ view[v][x] \in Int
    BY DEF Typed, TypeOK, Amount
  <2>3. pending'[x] = 0 /\ shares'[x] \in Int /\ shares'[x] >= shares[x]
    BY <2>1, <2>2 DEF FreshFor, Typed, TypeOK
  <2> QED
    BY <2>1, <2>2, <2>3 DEF FreshFor
<1>2. ASSUME NEW x \in Symbol, shares'[x] < 0 \/ shares'[x] - pending'[x] < 0 PROVE raced'[x]
  <2>1. CASE x = s
    <3>1. held < 0 \/ held - out < 0
      BY <1>2, <2>1 DEF Typed, TypeOK
    <3> QED
      BY <2>1, <3>1 DEF Explain, Typed, TypeOK
  <2>2. CASE x # s
    BY <1>2, <2>2 DEF Explain, Typed, TypeOK, Covered, OversoldExplained, Net
  <2> QED
    BY <2>1, <2>2
<1> QED
  BY <1>1, <1>2 DEF Covered, OversoldExplained, Net

LEMMA BrokerCovered == ASSUME Typed, Covered, NEW s \in Symbol, BrokerStep(s) PROVE Covered'
<1>0. /\ shares[s] \in Int /\ pending[s] \in Int /\ raced[s] \in BOOLEAN
      /\ shares[s] < 0 \/ shares[s] - pending[s] < 0 => raced[s]
  BY DEF Typed, TypeOK, Amount, Covered, OversoldExplained, Net
<1>1. CASE Fills(s)
  <2> DEFINE n == IF pending[s] > 0 THEN 1 ELSE -1
  <2>1. /\ shares' = [shares EXCEPT ![s] = shares[s] - n]
        /\ pending' = [pending EXCEPT ![s] = pending[s] - n]
    BY <1>1 DEF Fills
  <2>2. shares'[s] = shares[s] - n /\ pending'[s] = pending[s] - n
    BY <2>1 DEF Typed, TypeOK
  <2>3. UNCHANGED <<view, pc, stale>>
    BY <1>1 DEF Fills, worker
  <2>4. Explain(s, shares[s] - n, pending[s] - n, FALSE)
    BY <1>1, <2>2 DEF Fills
  <2>5. pending[s] # 0
    BY <1>1 DEF Fills
  <2>6. shares[s] - n < 0 \/ (shares[s] - n) - (pending[s] - n) < 0 => raced[s]
    BY <1>0, <2>5
  <2>7. shares[s] - n \in Int /\ pending[s] - n \in Int
    BY <1>0
  <2> HIDE DEF n
  <2> QED
    BY <2>1, <2>3, <2>4, <2>5, <2>6, <2>7, MoveOne
<1>2. CASE Lapses(s)
  <2> DEFINE out == IF pending[s] > 0 THEN pending[s] - 1 ELSE pending[s] + 1
  <2>1. shares' = [shares EXCEPT ![s] = shares[s]] /\ pending' = [pending EXCEPT ![s] = out]
    BY <1>2 DEF Lapses, Typed, TypeOK
  <2>2. UNCHANGED <<view, pc, stale>> /\ pending[s] # 0
    BY <1>2 DEF Lapses, worker
  <2>3. pending'[s] = out
    BY <2>1 DEF Typed, TypeOK
  <2>4. Explain(s, shares[s], out, FALSE)
    BY <1>2, <2>3 DEF Lapses
  <2>5. out \in Int /\ (shares[s] < 0 \/ shares[s] - out < 0 => raced[s])
    BY <1>0, <2>2
  <2> HIDE DEF out
  <2> QED
    BY <1>0, <2>1, <2>2, <2>4, <2>5, MoveOne
<1>3. CASE Buys(s)
  <2>1. /\ shares' = [shares EXCEPT ![s] = shares[s] + 1]
        /\ pending' = [pending EXCEPT ![s] = pending[s]]
        /\ shares'[s] = shares[s] + 1
    BY <1>3 DEF Buys, Typed, TypeOK
  <2>2. UNCHANGED <<view, pc, stale>> /\ Explain(s, shares[s] + 1, pending[s], FALSE)
    BY <1>3, <2>1 DEF Buys, worker
  <2>3. shares[s] + 1 < 0 \/ (shares[s] + 1) - pending[s] < 0 => raced[s]
    BY <1>0
  <2>4. shares[s] + 1 \in Int /\ shares[s] + 1 >= shares[s]
    BY <1>0
  <2> QED
    BY <1>0, <2>1, <2>2, <2>3, <2>4, MoveOne
<1>4. CASE SellsShort(s)
  <2>1. /\ shares' = [shares EXCEPT ![s] = shares[s] - 1]
        /\ pending' = [pending EXCEPT ![s] = pending[s]]
        /\ shares'[s] = shares[s] - 1
    BY <1>4 DEF SellsShort, Typed, TypeOK
  <2>2. UNCHANGED <<view, pc>> /\ Sold(s) /\ Explain(s, shares[s] - 1, pending[s], TRUE)
    BY <1>4, <2>1 DEF SellsShort, worker
  <2>3. shares[s] - 1 \in Int
    BY <1>0
  <2> QED
    BY <1>0, <2>1, <2>2, <2>3, SellOne
<1> QED
  BY <1>1, <1>2, <1>3, <1>4 DEF BrokerStep

LEMMA EngineCovered == ASSUME Typed, Covered, NEW w \in Engine, EngineStep(w) PROVE Covered'
<1>0. w \in Worker
  BY DEF Worker
<1>1. ASSUME NEW k \in Kind, EngineSnapshot(w, k) PROVE Covered'
  BY <1>0, <1>1, TakeSnapshot, KeepExplained DEF EngineSnapshot, Covered
<1>2. CASE ReadTracked(w)
  <2>1. UNCHANGED <<account, view, stale, raced>>
    BY <1>2 DEF ReadTracked, history
  <2>2. ASSUME NEW v \in Worker, NEW s \in Symbol,
               pc'[v] \in {"snapped", "pass"}, s \notin stale'[v]
        PROVE  FreshFor(v, s)'
    <3>1. pc[v] \in {"snapped", "pass"}
      BY <1>0, <1>2, <2>2 DEF ReadTracked, Typed, TypeOK
    <3> QED
      BY <2>1, <2>2, <3>1 DEF Covered, SnapshotsHold, FreshFor, account
  <2> QED
    BY <2>1, <2>2, KeepExplained DEF Covered, SnapshotsHold
<1>3. ASSUME NEW s \in Symbol, EngineHolds(w, s) \/ CloseRefused(w, s) PROVE Covered'
  BY <1>3, KeepExplained, KeepSnapshots DEF EngineHolds, CloseRefused, Covered, history
<1>4. ASSUME NEW s \in Symbol, EngineCloses(w, s) PROVE Covered'
  <2> DEFINE out == IF OppositeWay(s) THEN pending[s] + shares[s] ELSE shares[s]
  <2>1. /\ shares' = [shares EXCEPT ![s] = shares[s]] /\ pending' = [pending EXCEPT ![s] = out]
        /\ pending'[s] = out
    BY <1>4 DEF EngineCloses, Liquidate, Typed, TypeOK
  <2>2. UNCHANGED <<view, pc>> /\ Sold(s) /\ Explain(s, shares[s], out, FALSE)
    BY <1>4, <2>1 DEF EngineCloses
  <2>3. /\ shares[s] \in Int /\ pending[s] \in Int /\ raced[s] \in BOOLEAN
        /\ shares[s] < 0 => raced[s]
    BY DEF Typed, TypeOK, Amount, Covered, OversoldExplained
  <2>4. out \in Int /\ (shares[s] < 0 \/ shares[s] - out < 0 => raced[s])
    BY <2>3 DEF OppositeWay
  <2> HIDE DEF out
  <2> QED
    BY <2>1, <2>2, <2>3, <2>4, SellOne
<1>5. CASE PassEnds(w) \/ ReviewRaises(w)
  BY <1>0, <1>5, EndPass, KeepExplained DEF PassEnds, ReviewRaises, Covered
<1> QED
  BY <1>1, <1>2, <1>3, <1>4, <1>5 DEF EngineStep

LEMMA ManagerCovered == ASSUME Typed, Covered, NEW w \in Manager, ManagerStep(w) PROVE Covered'
<1>0. w \in Worker
  BY DEF Worker
<1>1. CASE ManagerReadsRows(w)
  <2>1. UNCHANGED <<account, view, stale, raced>>
    BY <1>1 DEF ManagerReadsRows
  <2>2. ASSUME NEW v \in Worker, NEW s \in Symbol,
               pc'[v] \in {"snapped", "pass"}, s \notin stale'[v]
        PROVE  FreshFor(v, s)'
    <3>1. pc[v] \in {"snapped", "pass"}
      BY <1>0, <1>1, <2>2 DEF ManagerReadsRows, Typed, TypeOK
    <3> QED
      BY <2>1, <2>2, <3>1 DEF Covered, SnapshotsHold, FreshFor, account
  <2> QED
    BY <2>1, <2>2, KeepExplained DEF Covered, SnapshotsHold
<1>2. CASE ManagerSnapshot(w)
  BY <1>0, <1>2, TakeSnapshot, KeepExplained DEF ManagerSnapshot, Covered
<1>3. ASSUME NEW m \in Message,
             ManagerHolds(w, m) \/ ManagerGivesUp(w, m) \/ RowClosed(w, m)
      PROVE  Covered'
  BY <1>3, KeepExplained, KeepSnapshots
  DEF ManagerHolds, ManagerGivesUp, RowClosed, Covered, history
<1>4. ASSUME NEW m \in Message, NEW noted \in BOOLEAN, ManagerSells(w, m, noted)
      PROVE  Covered'
  <2> DEFINE s == named[w][m]
             out == pending[s] + Quantity(w, s)
             cause == s \in stale[w] \/ view[w][s] < 0
  <2>0. s \in Symbol
    BY <1>0 DEF Typed, TypeOK
  <2>1. /\ shares' = [shares EXCEPT ![s] = shares[s]] /\ pending' = [pending EXCEPT ![s] = out]
        /\ pending'[s] = out
    BY <1>4, <2>0 DEF ManagerSells, Typed, TypeOK
  <2>2. UNCHANGED <<view, pc>> /\ Sold(s) /\ Explain(s, shares[s], out, cause)
    BY <1>4, <2>1 DEF ManagerSells
  <2>3. /\ shares[s] \in Int /\ pending[s] \in Int /\ view[w][s] \in Int
        /\ shares[s] < 0 => raced[s]
    BY <1>0, <2>0 DEF Typed, TypeOK, Amount, Covered, OversoldExplained
  <2>4. out \in Int
    BY <2>3 DEF Quantity
  <2>5. ASSUME ~cause PROVE shares[s] - out >= 0
    <3>1. view[w][s] > 0
      BY <1>4, <2>3, <2>5 DEF ManagerSells
    <3>2. pending[s] = 0 /\ shares[s] >= view[w][s]
      BY <1>0, <1>4, <2>0, <2>5, <3>1
      DEF ManagerSells, ManagerAt, Covered, SnapshotsHold, FreshFor
    <3> QED
      BY <2>3, <3>1, <3>2 DEF Quantity
  <2>6. cause \in BOOLEAN
    OBVIOUS
  <2> HIDE DEF s, out, cause
  <2>7. shares[s] < 0 \/ shares[s] - out < 0 => raced[s] \/ cause
    BY <2>3, <2>4, <2>5
  <2> QED
    BY <2>0, <2>1, <2>2, <2>3, <2>4, <2>6, <2>7, SellOne
<1>5. CASE PassEnds(w)
  BY <1>0, <1>5, EndPass, KeepExplained DEF PassEnds, Covered
<1> QED
  BY <1>1, <1>2, <1>3, <1>4, <1>5 DEF ManagerStep

LEMMA NextCovered == Typed /\ Covered /\ [Next]_vars => Covered'
<1> SUFFICES ASSUME Typed, Covered, [Next]_vars PROVE Covered'
  OBVIOUS
<1>1. ASSUME NEW m \in Message, NEW s \in Symbol, Signal(m, s) PROVE Covered'
  BY <1>1, KeepExplained, KeepSnapshots DEF Signal, worker, Covered
<1>2. CASE UNCHANGED vars
  BY <1>2, KeepExplained, KeepSnapshots DEF vars, worker, history, Covered
<1> QED
  BY <1>1, <1>2, BrokerCovered, EngineCovered, ManagerCovered DEF Next

(***************************************************************************)
(* Whatever the exit paths do at the same time, what is oversold was sold  *)
(* on purpose or by a manager from a snapshot that was out of date.        *)
(***************************************************************************)
THEOREM OversellingHasACause == Spec => []OversoldExplained
<1>1. Spec => [](Typed /\ Covered)
  BY InitTyped, NextTyped, InitCovered, NextCovered, PTL DEF Spec
<1>2. Covered => OversoldExplained
  BY DEF Covered
<1> QED
  BY <1>1, <1>2, PTL

-----------------------------------------------------------------------------
(***************************************************************************)
(* Sales per opening: the managers that may still record a sale of a row,  *)
(* and the sales recorded, are together at most the managers.  A pass can  *)
(* only start on a row that is open, and no sale of an open row has been   *)
(* recorded yet.                                                           *)
(***************************************************************************)
Holders(m) == {w \in Manager : m \in left[w] \cup selling[w]}
OpenUnsold == \A m \in Message : row[m] = "open" => recorded[m] = 0
OneAtATime ==
  /\ \A w \in Worker : selling[w] \cap left[w] = {}
  /\ \A w \in Worker : \A m, n \in selling[w] : m = n
  /\ \A w \in Worker : selling[w] # {} => pc[w] = "pass"
HoldersBounded ==
  \A m \in Message : recorded[m] + Cardinality(Holders(m)) <= Cardinality(Manager)
Counted == OpenUnsold /\ OneAtATime /\ HoldersBounded

LEMMA HoldersFinite ==
  ASSUME NEW m
  PROVE  /\ IsFiniteSet(Holders(m)) /\ Cardinality(Holders(m)) \in Nat
         /\ Cardinality(Holders(m)) <= Cardinality(Manager)
         /\ Cardinality(Manager) \in Nat
BY ExitsAssumption, FS_Subset, FS_CardinalityType DEF Holders

LEMMA InitCounted == Init => Counted
<1> SUFFICES ASSUME Init PROVE Counted
  OBVIOUS
<1>1. OpenUnsold /\ OneAtATime
  BY DEF Init, OpenUnsold, OneAtATime
<1>2. HoldersBounded
  BY HoldersFinite DEF Init, HoldersBounded
<1> QED
  BY <1>1, <1>2 DEF Counted

\* A step after which no row is held by more managers than before.
LEMMA KeepCounted ==
  ASSUME Counted, UNCHANGED recorded, Typed,
         \A m \in Message : row'[m] = "open" => row[m] = "open",
         \A m \in Message : Holders(m)' \subseteq Holders(m),
         OneAtATime'
  PROVE  Counted'
<1>1. ASSUME NEW m \in Message
      PROVE  recorded'[m] + Cardinality(Holders(m)') <= Cardinality(Manager)
  <2>1. /\ Cardinality(Holders(m)') \in Nat
        /\ Cardinality(Holders(m)') <= Cardinality(Holders(m))
    BY <1>1, HoldersFinite, FS_Subset, FS_CardinalityType
  <2> QED
    BY <2>1, HoldersFinite DEF Counted, HoldersBounded, Typed, TypeOK
<1> QED
  BY <1>1 DEF Counted, OpenUnsold, HoldersBounded

LEMMA KeepHolders ==
  ASSUME Counted, Typed, UNCHANGED <<row, recorded, left, selling>>,
         \A w \in Worker : pc[w] = "pass" => pc'[w] = "pass"
  PROVE  Counted'
<1>1. OneAtATime' /\ \A m \in Message : Holders(m)' \subseteq Holders(m)
  BY DEF Counted, OneAtATime, Holders
<1> QED
  BY <1>1, KeepCounted

LEMMA DropHolder ==
  ASSUME Counted, Typed, UNCHANGED <<row, recorded, selling, pc>>, NEW w \in Worker, NEW x,
         LeftBehind(w, x)
  PROVE  Counted'
<1>1. \A v \in Worker : left'[v] \subseteq left[v]
  BY DEF LeftBehind, Typed, TypeOK
<1>2. OneAtATime' /\ \A m \in Message : Holders(m)' \subseteq Holders(m)
  BY <1>1 DEF Counted, OneAtATime, Holders, Worker
<1> QED
  BY <1>2, KeepCounted

LEMMA EndPassCounted ==
  ASSUME Counted, Typed, NEW w \in Worker, Reset(w), UNCHANGED <<row, recorded>>
  PROVE  Counted'
<1>1. \A v \in Worker : left'[v] \subseteq left[v] /\ selling'[v] \subseteq selling[v]
  BY DEF Reset, Typed, TypeOK
<1>2. \A m \in Message : Holders(m)' \subseteq Holders(m)
  BY <1>1 DEF Holders, Worker
<1>3. \A v \in Worker : IF v = w THEN selling'[v] = {} ELSE pc'[v] = pc[v]
  BY DEF Reset, Typed, TypeOK
<1>4. OneAtATime'
  BY <1>1, <1>3 DEF Counted, OneAtATime
<1> QED
  BY <1>2, <1>4, KeepCounted

LEMMA EngineCounted ==
  ASSUME Typed, Counted, NEW w \in Engine, EngineStep(w) PROVE Counted'
<1>0. w \in Worker /\ w \notin Manager
  BY ExitsAssumption DEF Worker
<1>1. ASSUME NEW k \in Kind, EngineSnapshot(w, k) PROVE Counted'
  <2>1. \A v \in Worker : pc[v] = "pass" => pc'[v] = "pass"
    BY <1>0, <1>1 DEF EngineSnapshot, Typed, TypeOK
  <2> QED
    BY <1>1, <2>1, KeepHolders DEF EngineSnapshot
<1>2. CASE ReadTracked(w)
  <2>1. UNCHANGED <<row, recorded, selling>> /\ selling[w] = {}
    BY <1>0, <1>2 DEF ReadTracked, history, Counted, OneAtATime
  <2>2. \A m \in Message : Holders(m)' \subseteq Holders(m)
    BY <1>0, <1>2, <2>1 DEF ReadTracked, Holders, Typed, TypeOK, Worker
  <2>3. OneAtATime'
    BY <1>0, <1>2, <2>1 DEF ReadTracked, Counted, OneAtATime, Typed, TypeOK
  <2> QED
    BY <2>1, <2>2, <2>3, KeepCounted
<1>3. ASSUME NEW s \in Symbol,
             EngineHolds(w, s) \/ CloseRefused(w, s) \/ EngineCloses(w, s)
      PROVE  Counted'
  BY <1>0, <1>3, DropHolder DEF EngineHolds, CloseRefused, EngineCloses, history
<1>4. CASE PassEnds(w) \/ ReviewRaises(w)
  BY <1>0, <1>4, EndPassCounted DEF PassEnds, ReviewRaises
<1> QED
  BY <1>1, <1>2, <1>3, <1>4 DEF EngineStep

LEMMA ManagerCounted ==
  ASSUME Typed, Counted, NEW w \in Manager, ManagerStep(w) PROVE Counted'
<1>0. w \in Worker
  BY DEF Worker
<1>1. CASE ManagerReadsRows(w)
  <2>1. UNCHANGED <<row, recorded, selling>> /\ selling[w] = {}
    BY <1>0, <1>1 DEF ManagerReadsRows, Counted, OneAtATime
  <2>2. OneAtATime'
    BY <1>0, <1>1, <2>1 DEF ManagerReadsRows, Counted, OneAtATime, Typed, TypeOK
  <2>3. ASSUME NEW m \in Message
        PROVE  recorded'[m] + Cardinality(Holders(m)') <= Cardinality(Manager)
    <3>1. CASE row[m] = "open"
      <4>1. recorded'[m] = 0
        BY <2>1, <3>1 DEF Counted, OpenUnsold
      <4>2. Holders(m)' \subseteq Manager
        BY DEF Holders
      <4> QED
        BY <4>1, <4>2, ExitsAssumption, FS_Subset, FS_CardinalityType
    <3>2. CASE row[m] # "open"
      <4>1. Holders(m)' \subseteq Holders(m)
        BY <1>0, <1>1, <2>1, <3>2 DEF ManagerReadsRows, Open, Holders, Typed, TypeOK, Worker
      <4>2. Cardinality(Holders(m)') \in Nat /\ Cardinality(Holders(m)') <= Cardinality(Holders(m))
        BY <4>1, HoldersFinite, FS_Subset, FS_CardinalityType
      <4> QED
        BY <2>1, <4>2, HoldersFinite DEF Counted, HoldersBounded, Typed, TypeOK
    <3> QED
      BY <3>1, <3>2
  <2> QED
    BY <2>1, <2>2, <2>3 DEF Counted, OpenUnsold, HoldersBounded
<1>2. CASE ManagerSnapshot(w)
  <2>1. \A v \in Worker : pc[v] = "pass" => pc'[v] = "pass"
    BY <1>0, <1>2 DEF ManagerSnapshot, Typed, TypeOK
  <2> QED
    BY <1>2, <2>1, KeepHolders DEF ManagerSnapshot
<1>3. ASSUME NEW m \in Message, ManagerHolds(w, m) PROVE Counted'
  BY <1>0, <1>3, DropHolder DEF ManagerHolds, history
<1>4. ASSUME NEW m \in Message, ManagerGivesUp(w, m) PROVE Counted'
  <2>1. \A n \in Message : row'[n] = "open" => row[n] = "open"
    BY <1>4 DEF ManagerGivesUp, Typed, TypeOK
  <2>2. \A v \in Worker : left'[v] \subseteq left[v]
    BY <1>0, <1>4 DEF ManagerGivesUp, LeftBehind, Typed, TypeOK
  <2>3. UNCHANGED <<recorded, selling, pc>>
    BY <1>4 DEF ManagerGivesUp, history
  <2>4. OneAtATime' /\ \A n \in Message : Holders(n)' \subseteq Holders(n)
    BY <2>2, <2>3 DEF Counted, OneAtATime, Holders, Worker
  <2> QED
    BY <2>1, <2>3, <2>4, KeepCounted
<1>5. ASSUME NEW m \in Message, NEW noted \in BOOLEAN, ManagerSells(w, m, noted)
      PROVE  Counted'
  <2>1. /\ selling' = IF noted THEN [selling EXCEPT ![w] = {m}] ELSE selling
        /\ left' = [left EXCEPT ![w] = left[w] \ {m}]
        /\ m \in left[w] /\ pc[w] = "pass" /\ selling[w] = {}
        /\ UNCHANGED <<row, recorded, pc>>
    BY <1>5 DEF ManagerSells, ManagerAt, LeftBehind
  <2>2. \A n \in Message : Holders(n)' \subseteq Holders(n)
    BY <1>0, <2>1 DEF Holders, Typed, TypeOK, Worker
  <2>3. OneAtATime'
    BY <1>0, <2>1 DEF Counted, OneAtATime, Typed, TypeOK
  <2> QED
    BY <2>1, <2>2, <2>3, KeepCounted
<1>6. ASSUME NEW m \in Message, RowClosed(w, m) PROVE Counted'
  <2>1. /\ selling' = [selling EXCEPT ![w] = {}] /\ m \in selling[w]
        /\ row' = [row EXCEPT ![m] = "closed"]
        /\ recorded' = [recorded EXCEPT ![m] = recorded[m] + 1]
        /\ UNCHANGED <<left, pc>>
    BY <1>6 DEF RowClosed
  <2>2. OneAtATime'
    BY <1>0, <2>1 DEF Counted, OneAtATime, Typed, TypeOK
  <2>3. OpenUnsold'
    BY <2>1 DEF Counted, OpenUnsold, Typed, TypeOK
  <2>4. ASSUME NEW n \in Message
        PROVE  recorded'[n] + Cardinality(Holders(n)') <= Cardinality(Manager)
    <3>1. Holders(n)' \subseteq Holders(n) /\ recorded[n] \in Nat
      BY <1>0, <2>1 DEF Holders, Typed, TypeOK, Worker
    <3>2. CASE n = m
      <4>1. w \in Holders(m) /\ w \notin Holders(m)'
        BY <1>0, <2>1 DEF Holders, Counted, OneAtATime, Typed, TypeOK
      <4>2. Holders(m)' \subseteq Holders(m) \ {w}
        BY <3>1, <3>2, <4>1
      <4>3. /\ IsFiniteSet(Holders(m) \ {w})
            /\ Cardinality(Holders(m) \ {w}) = Cardinality(Holders(m)) - 1
        BY <4>1, HoldersFinite, FS_RemoveElement
      <4>4. /\ Cardinality(Holders(m)') \in Nat
            /\ Cardinality(Holders(m)') <= Cardinality(Holders(m)) - 1
        BY <4>2, <4>3, FS_Subset, FS_CardinalityType
      <4>5. recorded'[m] = recorded[m] + 1
        BY <2>1 DEF Typed, TypeOK
      <4> QED
        BY <3>1, <3>2, <4>4, <4>5, HoldersFinite DEF Counted, HoldersBounded
    <3>3. CASE n # m
      <4>1. /\ Cardinality(Holders(n)') \in Nat
            /\ Cardinality(Holders(n)') <= Cardinality(Holders(n))
        BY <3>1, HoldersFinite, FS_Subset, FS_CardinalityType
      <4>2. recorded'[n] = recorded[n]
        BY <2>1, <3>3 DEF Typed, TypeOK
      <4> QED
        BY <3>1, <4>1, <4>2, HoldersFinite DEF Counted, HoldersBounded
    <3> QED
      BY <3>2, <3>3
  <2> QED
    BY <2>2, <2>3, <2>4 DEF Counted, HoldersBounded
<1>7. CASE PassEnds(w)
  BY <1>0, <1>7, EndPassCounted DEF PassEnds
<1> QED
  BY <1>1, <1>2, <1>3, <1>4, <1>5, <1>6, <1>7 DEF ManagerStep

LEMMA NextCounted == Typed /\ Counted /\ [Next]_vars => Counted'
<1> SUFFICES ASSUME Typed, Counted, [Next]_vars PROVE Counted'
  OBVIOUS
<1>1. ASSUME NEW s \in Symbol, BrokerStep(s) PROVE Counted'
  BY <1>1, KeepHolders DEF BrokerStep, Fills, Lapses, Buys, SellsShort, worker
<1>2. ASSUME NEW m \in Message, NEW s \in Symbol, Signal(m, s) PROVE Counted'
  <2>1. OneAtATime' /\ OpenUnsold'
    BY <1>2 DEF Signal, worker, Counted, OneAtATime, OpenUnsold, Typed, TypeOK
  <2>2. ASSUME NEW n \in Message
        PROVE  recorded'[n] + Cardinality(Holders(n)') <= Cardinality(Manager)
    <3>1. Holders(n)' = Holders(n)
      BY <1>2 DEF Signal, worker, Holders
    <3>2. recorded'[n] \in Nat /\ recorded'[n] <= recorded[n] /\ recorded[n] \in Nat
      BY <1>2 DEF Signal, Typed, TypeOK
    <3> QED
      BY <3>1, <3>2, HoldersFinite DEF Counted, HoldersBounded
  <2> QED
    BY <2>1, <2>2 DEF Counted, HoldersBounded
<1>3. CASE UNCHANGED vars
  BY <1>3, KeepHolders DEF vars, worker, history
<1> QED
  BY <1>1, <1>2, <1>3, EngineCounted, ManagerCounted DEF Next

(***************************************************************************)
(* One handling of a signal leads to at most one recorded sale per manager.*)
(***************************************************************************)
THEOREM SalesAreBounded == Spec => []SalesPerOpening
<1>1. Spec => [](Typed /\ Counted)
  BY InitTyped, NextTyped, InitCounted, NextCounted, PTL DEF Spec
<1>2. Typed /\ Counted => SalesPerOpening
  BY HoldersFinite DEF Typed, TypeOK, Counted, HoldersBounded, SalesPerOpening
<1> QED
  BY <1>1, <1>2, PTL

-----------------------------------------------------------------------------
(***************************************************************************)
(* What a manager missed and what a flatten has done so far.               *)
(***************************************************************************)
UnheldKnown ==
  \A w \in Manager, s \in Symbol :
    /\ pc[w] # "idle" /\ shares[s] = 0 => s \in unheld[w]
    /\ pc[w] = "pass" /\ view[w][s] = 0 => s \in unheld[w]
SweptSoFar ==
  \A w \in Engine, s \in Symbol :
    FlattenOn /\ pc[w] = "pass" /\ kind[w] = "flatten" /\ view[w][s] # 0 =>
      s \in left[w] \cup skip[w] \cup unpriced[w] \cup stale[w]
Watchful == UnheldKnown /\ SweptSoFar

LEMMA InitWatchful == Init => Watchful
BY ExitsAssumption DEF Init, Watchful, UnheldKnown, SweptSoFar, Worker

LEMMA EngineWatchful ==
  ASSUME Typed, Watchful, NEW w \in Engine, EngineStep(w) PROVE Watchful'
<1> USE ExitsAssumption DEF Worker
<1>1. ASSUME NEW k \in Kind, EngineSnapshot(w, k) PROVE Watchful'
  BY <1>1 DEF EngineSnapshot, SeesPositions, Watchful, UnheldKnown, SweptSoFar, account, Typed, TypeOK
<1>2. CASE ReadTracked(w)
  BY <1>2 DEF ReadTracked, Watchful, UnheldKnown, SweptSoFar, account, history, Typed, TypeOK
<1>3. ASSUME NEW s \in Symbol, EngineHolds(w, s) PROVE Watchful'
  <2>1. UnheldKnown'
    BY <1>3 DEF EngineHolds, Watchful, UnheldKnown, account, history
  <2>2. SweptSoFar'
    BY <1>3 DEF EngineHolds, EngineAt, PassedOver, Due, LeftBehind, Watchful, SweptSoFar, history, Typed, TypeOK
  <2> QED
    BY <2>1, <2>2 DEF Watchful
<1>4. ASSUME NEW s \in Symbol, EngineCloses(w, s) PROVE Watchful'
  <2>1. UnheldKnown'
    BY <1>4 DEF EngineCloses, Watchful, UnheldKnown
  <2>2. SweptSoFar'
    BY <1>4 DEF EngineCloses, EngineAt, Sold, LeftBehind, Watchful, SweptSoFar, Typed, TypeOK
  <2> QED
    BY <2>1, <2>2 DEF Watchful
<1>5. ASSUME NEW s \in Symbol, CloseRefused(w, s) PROVE Watchful'
  <2>1. UnheldKnown'
    BY <1>5 DEF CloseRefused, Watchful, UnheldKnown, account, history
  <2>2. SweptSoFar'
    BY <1>5 DEF CloseRefused, LeftBehind, Watchful, SweptSoFar, history, Typed, TypeOK
  <2> QED
    BY <2>1, <2>2 DEF Watchful
<1>6. CASE PassEnds(w) \/ ReviewRaises(w)
  BY <1>6 DEF PassEnds, ReviewRaises, Reset, Watchful, UnheldKnown, SweptSoFar, account, Typed, TypeOK
<1> QED
  BY <1>1, <1>2, <1>3, <1>4, <1>5, <1>6 DEF EngineStep

LEMMA ManagerWatchful ==
  ASSUME Typed, Watchful, NEW w \in Manager, ManagerStep(w) PROVE Watchful'
<1> USE ExitsAssumption DEF Worker
<1>1. CASE ManagerReadsRows(w)
  BY <1>1 DEF ManagerReadsRows, Watchful, UnheldKnown, SweptSoFar, account, Typed, TypeOK
<1>2. CASE ManagerSnapshot(w)
  <2>1. UnheldKnown'
    <3>1. ASSUME NEW s \in Symbol, shares[s] = 0 PROVE s \in unheld'[w]
      BY <1>2, <3>1 DEF ManagerSnapshot, SeesPositions, Watchful, UnheldKnown, Typed, TypeOK
    <3>2. ASSUME NEW s \in Symbol, view'[w][s] = 0 PROVE s \in unheld'[w]
      BY <1>2, <3>1, <3>2
      DEF ManagerSnapshot, SeesPositions, Positions, NoView, Watchful, UnheldKnown, Typed, TypeOK
    <3> QED
      BY <1>2, <3>1, <3>2 DEF ManagerSnapshot, SeesPositions, Watchful, UnheldKnown, account,
                              Typed, TypeOK
  <2>2. SweptSoFar'
    BY <1>2 DEF ManagerSnapshot, SeesPositions, Watchful, SweptSoFar, Typed, TypeOK
  <2> QED
    BY <2>1, <2>2 DEF Watchful
<1>3. ASSUME NEW m \in Message,
             ManagerHolds(w, m) \/ ManagerGivesUp(w, m) \/ RowClosed(w, m)
      PROVE  Watchful'
  <2>1. UNCHANGED <<shares, pc, kind, view, unpriced, skip, stale, unheld>>
    BY <1>3 DEF ManagerHolds, ManagerGivesUp, RowClosed, account, history
  <2>2. \A v \in Engine : left'[v] = left[v]
    BY <1>3 DEF ManagerHolds, ManagerGivesUp, RowClosed, LeftBehind, Typed, TypeOK
  <2> QED
    BY <2>1, <2>2 DEF Watchful, UnheldKnown, SweptSoFar
<1>4. ASSUME NEW m \in Message, NEW noted \in BOOLEAN, ManagerSells(w, m, noted)
      PROVE  Watchful'
  <2>1. UNCHANGED <<shares, pc, kind, view, unpriced, skip, unheld>>
    BY <1>4 DEF ManagerSells
  <2>2. \A v \in Engine : left'[v] = left[v] /\ stale[v] \subseteq stale'[v]
    BY <1>4 DEF ManagerSells, LeftBehind, Sold, Typed, TypeOK
  <2> QED
    BY <2>1, <2>2 DEF Watchful, UnheldKnown, SweptSoFar
<1>5. CASE PassEnds(w)
  BY <1>5 DEF PassEnds, Reset, Watchful, UnheldKnown, SweptSoFar, account, Typed, TypeOK
<1> QED
  BY <1>1, <1>2, <1>3, <1>4, <1>5 DEF ManagerStep

LEMMA NextWatchful == Typed /\ Watchful /\ [Next]_vars => Watchful'
<1> SUFFICES ASSUME Typed, Watchful, [Next]_vars PROVE Watchful'
  OBVIOUS
<1>1. ASSUME NEW s \in Symbol, BrokerStep(s) PROVE Watchful'
  <2>1. UNCHANGED worker
    BY <1>1 DEF BrokerStep, Fills, Lapses, Buys, SellsShort
  <2>2. \A w \in Worker : stale[w] \subseteq stale'[w] /\ unheld[w] \subseteq unheld'[w]
    BY <1>1 DEF BrokerStep, Fills, Lapses, Buys, SellsShort, Sold, NoteUnheld
  <2>3. \A x \in Symbol : x # s => shares'[x] = shares[x]
    BY <1>1 DEF BrokerStep, Fills, Lapses, Buys, SellsShort, Typed, TypeOK
  <2>4. \A w \in Worker : pc[w] # "idle" /\ shares'[s] = 0 /\ shares[s] # 0 => s \in unheld'[w]
    BY <1>1 DEF BrokerStep, Fills, Lapses, Buys, SellsShort, NoteUnheld
  <2> QED
    BY <2>1, <2>2, <2>3, <2>4 DEF Watchful, UnheldKnown, SweptSoFar, Worker, worker
<1>2. ASSUME NEW m \in Message, NEW s \in Symbol, Signal(m, s) PROVE Watchful'
  BY <1>2 DEF Signal, account, worker, Watchful, UnheldKnown, SweptSoFar
<1>3. CASE UNCHANGED vars
  BY <1>3 DEF vars, account, worker, history, Watchful, UnheldKnown, SweptSoFar
<1> QED
  BY <1>1, <1>2, <1>3, EngineWatchful, ManagerWatchful DEF Next

(***************************************************************************)
(* The end-of-day flatten, when it is on and gets to its end, leaves       *)
(* nothing behind but what is tracked, refused, without an entry price, or *)
(* sold by another path.                                                   *)
(***************************************************************************)
THEOREM FlattenLeavesNothingElse == Spec => []FlattenSpares
<1>1. Spec => [](Typed /\ Watchful)
  BY InitTyped, NextTyped, InitWatchful, NextWatchful, PTL DEF Spec
<1>2. Watchful => FlattenSpares
  BY DEF Watchful, SweptSoFar, FlattenSpares
<1> QED
  BY <1>1, <1>2, PTL

(***************************************************************************)
(* A manager gives a row up only when the contract it read from that row   *)
(* was not held at some time since, or when its own request failed.        *)
(***************************************************************************)
THEOREM GivenUpWasUnheld == Spec => GivenUpUnheld
<1> DEFINE Step == \A m \in Message :
                     row[m] # "closed_manual" /\ row'[m] = "closed_manual" =>
                       \E w \in Manager : m \in left[w] \ left'[w] /\ named[w][m] \in unheld[w]
<1>1. Typed /\ Watchful /\ [Next]_vars => [Step]_vars
  <2> SUFFICES ASSUME Typed, Watchful, Next, NEW m \in Message,
                      row[m] # "closed_manual", row'[m] = "closed_manual"
               PROVE  \E w \in Manager : m \in left[w] \ left'[w] /\ named[w][m] \in unheld[w]
    OBVIOUS
  <2>1. \A s \in Symbol : BrokerStep(s) => UNCHANGED row
    BY DEF BrokerStep, Fills, Lapses, Buys, SellsShort
  <2>2. \A w \in Engine : EngineStep(w) => UNCHANGED row
    BY DEF EngineStep, EngineSnapshot, ReadTracked, EngineHolds, EngineCloses, CloseRefused, ReviewRaises,
           PassEnds
  <2>3. \A n \in Message : ~(\E s \in Symbol : Signal(n, s))
    BY DEF Signal, Typed, TypeOK
  <2>4. PICK w \in Manager : ManagerStep(w)
    BY <2>1, <2>2, <2>3 DEF Next
  <2>5. PICK n \in Message : ManagerGivesUp(w, n) \/ RowClosed(w, n)
    BY <2>4 DEF ManagerStep, ManagerReadsRows, ManagerSnapshot, ManagerHolds, ManagerSells, PassEnds
  <2>6. ManagerGivesUp(w, n) /\ n = m
    BY <2>5 DEF ManagerGivesUp, RowClosed, Typed, TypeOK
  <2>7. pc[w] = "pass" /\ view[w][named[w][m]] = 0 /\ m \in left[w] \ left'[w]
    BY <2>6 DEF ManagerGivesUp, ManagerAt, LeftBehind, Missing, Typed, TypeOK, Worker
  <2>8. named[w][m] \in Symbol
    BY DEF Typed, TypeOK, Worker
  <2> QED
    BY <2>7, <2>8 DEF Watchful, UnheldKnown
<1>2. Spec => [](Typed /\ Watchful)
  BY InitTyped, NextTyped, InitWatchful, NextWatchful, PTL DEF Spec
<1> QED
  BY <1>1, <1>2, PTL DEF Spec, GivenUpUnheld
==============================================================================
