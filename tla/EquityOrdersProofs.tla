-------------------------- MODULE EquityOrdersProofs --------------------------
(***************************************************************************)
(* Proofs about EquityOrders, for any number of cycles, batches, attempts, *)
(* orders and failures, with any threshold of the breaker.                 *)
(***************************************************************************)
EXTENDS EquityOrders, FiniteSetTheorems, TLAPS

(***************************************************************************)
(* A cycle at work has a proposal; it holds an order id only between the   *)
(* answer of the broker and the end of the wait; an attempt is left when   *)
(* it comes to the breaker.                                                *)
(***************************************************************************)
Working == {"checked", "sending", "sent", "wait", "unfilled"}
AtWork ==
  \A k \in Cycle : /\ pc[k] \in Working => todo[k] # <<>>
                   /\ oid[k] # None => pc[k] \in {"sent", "wait", "unfilled"}
                   /\ pc[k] \in {"idle", "next"} => tries[k] = 0
                   /\ pc[k] = "checked" => tries[k] < MaxAttempts
Typed == TypeOK /\ AtWork

\* What every step of the breaker keeps.
BreakerType == /\ streak \in 0..Threshold /\ open \in BOOLEAN
               /\ fails \in Nat /\ openings \in Nat

LEMMA JobType ==
  ASSUME Typed, NEW k \in Cycle, todo[k] # <<>>
  PROVE  Job(k) \in Proposal /\ Job(k).symbol \in Symbol /\ Tail(todo[k]) \in Seq(Proposal)
<1>1. todo[k] \in Seq(Proposal)
  BY DEF Typed, TypeOK
<1>2. Job(k) \in Proposal /\ Tail(todo[k]) \in Seq(Proposal)
  BY <1>1 DEF Job
<1> QED
  BY <1>2 DEF Proposal

LEMMA InitTyped == Init => Typed
<1> SUFFICES ASSUME Init PROVE Typed
  OBVIOUS
<1> USE OrdersAssumption
<1>1. DOMAIN orders = {}
  BY DEF Init
<1>2. TypeOK
  <2>1. orders \in [DOMAIN orders -> Order] /\ DOMAIN orders \subseteq OrderId
    BY <1>1 DEF Init
  <2>2. todo \in [Cycle -> Seq(Proposal)]
    BY DEF Init
  <2>3. BreakerType
    <3>1. open = FALSE /\ streak = 0 /\ fails = 0 /\ openings = 0
      BY DEF Init
    <3>2. open \in BOOLEAN
      BY <3>1
    <3> QED
      BY <3>1, <3>2 DEF BreakerType
  <2>4. /\ pc \in [Cycle -> PCs] /\ tries \in [Cycle -> 0..MaxAttempts]
        /\ oid \in [Cycle -> DOMAIN orders \cup {None}]
        /\ ids \in [Cycle -> SUBSET DOMAIN orders] /\ today \in SUBSET DOMAIN orders
        /\ misses \in [Symbol -> Nat] /\ lost \in [Symbol -> Nat] /\ strays \in [Symbol -> Nat]
    BY DEF Init, PCs
  <2> QED
    BY <2>1, <2>2, <2>3, <2>4 DEF TypeOK, BreakerType
<1>3. AtWork
  BY DEF Init, AtWork, Working
<1> QED
  BY <1>2, <1>3 DEF Typed

LEMMA BreakerMoves ==
  ASSUME Typed, ResetCircuit \/ RecordFailure \/ UNCHANGED breaker PROVE BreakerType'
<1> USE OrdersAssumption DEF Typed, TypeOK, BreakerType
<1>1. CASE ResetCircuit
  <2>1. streak' = 0 /\ open' = FALSE /\ fails' = 0 /\ openings' = 0
    BY <1>1 DEF ResetCircuit
  <2>2. open' \in BOOLEAN
    BY <2>1
  <2> QED
    BY <2>1, <2>2
<1>2. CASE UNCHANGED breaker
  BY <1>2 DEF breaker
<1>3. CASE RecordFailure /\ Threshold = 0
  BY <1>3 DEF RecordFailure, breaker
<1>4. CASE RecordFailure /\ Threshold # 0
  <2>1. /\ streak' = AtMost(streak + 1, Threshold) /\ open' = (open \/ streak' = Threshold)
        /\ fails' = fails + 1 /\ openings' = IF open' /\ ~open THEN openings + 1 ELSE openings
    BY <1>4 DEF RecordFailure
  <2>2. streak' \in 0..Threshold
    BY <2>1 DEF AtMost
  <2> QED
    BY <2>1, <2>2
<1> QED
  BY <1>1, <1>2, <1>3, <1>4

\* The cycle variables after a step that moves one cycle.
CycleType == /\ pc \in [Cycle -> PCs] /\ todo \in [Cycle -> Seq(Proposal)]
             /\ tries \in [Cycle -> 0..MaxAttempts]
             /\ AtWork

LEMMA LeaveType ==
  ASSUME Typed, NEW k \in Cycle, todo[k] # <<>>, Leave(k)
  PROVE  /\ CycleType'
         /\ oid' \in [Cycle -> DOMAIN orders \cup {None}]
<1> USE OrdersAssumption
<1>1. Tail(todo[k]) \in Seq(Proposal)
  BY JobType
<1>2. todo' = [todo EXCEPT ![k] = Tail(todo[k])] /\ pc' = [pc EXCEPT ![k] = "next"]
      /\ tries' = [tries EXCEPT ![k] = 0] /\ oid' = [oid EXCEPT ![k] = None]
  BY DEF Leave, Goto
<1>3. todo' \in [Cycle -> Seq(Proposal)]
  BY <1>1, <1>2 DEF Typed, TypeOK
<1>4. pc' \in [Cycle -> PCs] /\ tries' \in [Cycle -> 0..MaxAttempts]
      /\ oid' \in [Cycle -> DOMAIN orders \cup {None}]
  BY <1>2 DEF Typed, TypeOK, PCs
<1>5. AtWork'
  <2> SUFFICES ASSUME NEW j \in Cycle
               PROVE  /\ pc'[j] \in Working => todo'[j] # <<>>
                      /\ oid'[j] # None => pc'[j] \in {"sent", "wait", "unfilled"}
                      /\ pc'[j] \in {"idle", "next"} => tries'[j] = 0
                      /\ pc'[j] = "checked" => tries'[j] < MaxAttempts
    BY DEF AtWork
  <2>1. CASE j = k
    BY <1>2, <2>1 DEF Working, Typed, TypeOK
  <2>2. CASE j # k
    BY <1>2, <2>2 DEF Working, Typed, TypeOK, AtWork
  <2> QED
    BY <2>1, <2>2
<1> QED
  BY <1>3, <1>4, <1>5 DEF CycleType

\* A move within a proposal.
LEMMA GotoType ==
  ASSUME Typed, NEW k \in Cycle, NEW to \in PCs, Goto(k, to),
         NEW n \in 0..MaxAttempts, tries' = [tries EXCEPT ![k] = n], UNCHANGED todo,
         to \in Working => todo[k] # <<>>,
         \A j \in Cycle : j # k => oid'[j] = oid[j],
         oid'[k] # None => to \in {"sent", "wait", "unfilled"},
         to \in {"idle", "next"} => n = 0,
         to = "checked" => n < MaxAttempts
  PROVE  CycleType'
<1>1. pc' = [pc EXCEPT ![k] = to]
  BY DEF Goto
<1>2. AtWork'
  <2> SUFFICES ASSUME NEW j \in Cycle
               PROVE  /\ pc'[j] \in Working => todo'[j] # <<>>
                      /\ oid'[j] # None => pc'[j] \in {"sent", "wait", "unfilled"}
                      /\ pc'[j] \in {"idle", "next"} => tries'[j] = 0
                      /\ pc'[j] = "checked" => tries'[j] < MaxAttempts
    BY DEF AtWork
  <2>1. CASE j = k
    BY <1>1, <2>1 DEF Typed, TypeOK
  <2>2. CASE j # k
    BY <1>1, <2>2 DEF Typed, TypeOK, AtWork
  <2> QED
    BY <2>1, <2>2
<1> QED
  BY <1>1, <1>2 DEF CycleType, Typed, TypeOK

\* The broker takes an order.
NewOrder(k) == [symbol |-> Job(k).symbol, kind |-> KindOf(Job(k).path),
                status |-> "live", log |-> "none"]

LEMMA AcceptType ==
  ASSUME Typed, NEW k \in Cycle, todo[k] # <<>>, NEW o \in OrderId, Accept(k, o)
  PROVE  /\ DOMAIN orders' = DOMAIN orders \cup {o} /\ o \notin DOMAIN orders
         /\ DOMAIN orders' \subseteq OrderId /\ orders' \in [DOMAIN orders' -> Order]
         /\ orders'[o] = NewOrder(k)
         /\ \A x \in DOMAIN orders : orders'[x] = orders[x]
<1> DEFINE new == NewOrder(k)
<1>1. new \in Order
  <2>1. KindOf(Job(k).path) \in Kind
    BY DEF Kind, KindOf
  <2> QED
    BY <2>1, JobType DEF Order, Status, Marks, NewOrder
<1>2. /\ o \notin DOMAIN orders
      /\ orders' = [x \in DOMAIN orders \cup {o} |-> IF x = o THEN new ELSE orders[x]]
  BY DEF Accept, NewOrder
<1> HIDE DEF new
<1>3. DOMAIN orders' = DOMAIN orders \cup {o} /\ orders'[o] = new
      /\ \A x \in DOMAIN orders : orders'[x] = orders[x]
  BY <1>2
<1>4. orders \in [DOMAIN orders -> Order] /\ DOMAIN orders \subseteq OrderId
  BY DEF Typed, TypeOK
<1>5. orders' \in [DOMAIN orders' -> Order]
  BY <1>1, <1>2, <1>3, <1>4
<1> QED
  BY <1>2, <1>3, <1>4, <1>5 DEF new

OrdersType == DOMAIN orders \subseteq OrderId /\ orders \in [DOMAIN orders -> Order]
HistoryType == /\ misses \in [Symbol -> Nat] /\ lost \in [Symbol -> Nat]
               /\ strays \in [Symbol -> Nat]
IdsType == /\ oid \in [Cycle -> DOMAIN orders \cup {None}]
           /\ ids \in [Cycle -> SUBSET DOMAIN orders]
           /\ today \in SUBSET DOMAIN orders

LEMMA Assemble ==
  ASSUME OrdersType', BreakerType', CycleType', IdsType', HistoryType' PROVE Typed'
BY DEF Typed, TypeOK, OrdersType, BreakerType, CycleType, IdsType, HistoryType

LEMMA TypedParts ==
  ASSUME Typed PROVE OrdersType /\ BreakerType /\ CycleType /\ IdsType /\ HistoryType
BY DEF Typed, TypeOK, OrdersType, BreakerType, CycleType, IdsType, HistoryType

LEMMA KeepBreaker == ASSUME Typed, UNCHANGED breaker PROVE BreakerType'
BY BreakerMoves

\* The order of a cycle, once it holds one.
LEMMA OrderHeld ==
  ASSUME Typed, NEW k \in Cycle, oid[k] # None
  PROVE  oid[k] \in DOMAIN orders /\ orders[oid[k]] \in Order
BY DEF Typed, TypeOK

LEMMA SetLogType ==
  ASSUME Typed, NEW o \in DOMAIN orders, NEW mark \in Marks, orders' = SetLog(o, mark)
  PROVE  OrdersType' /\ DOMAIN orders' = DOMAIN orders
<1>1. orders' = [orders EXCEPT ![o] = [orders[o] EXCEPT !.log = mark]]
  BY DEF SetLog
<1>2. [orders[o] EXCEPT !.log = mark] \in Order
  BY DEF Typed, TypeOK, Order
<1> QED
  BY <1>1, <1>2 DEF OrdersType, Typed, TypeOK

\* Steps of a cycle that change nothing but where it is.
LEMMA MoveType ==
  ASSUME Typed, NEW k \in Cycle, NEW to \in PCs, Goto(k, to),
         NEW n \in 0..MaxAttempts, tries' = [tries EXCEPT ![k] = n],
         UNCHANGED <<orders, todo, oid, ids, today>>,
         BreakerType', HistoryType',
         to \in Working => todo[k] # <<>>,
         oid[k] # None => to \in {"sent", "wait", "unfilled"},
         to \in {"idle", "next"} => n = 0,
         to = "checked" => n < MaxAttempts
  PROVE  Typed'
<1>1. CycleType'
  BY GotoType
<1>2. OrdersType' /\ IdsType'
  BY TypedParts DEF OrdersType, IdsType
<1> QED
  BY <1>1, <1>2, Assemble

LEMMA SameTries == ASSUME Typed, NEW k \in Cycle, UNCHANGED tries
                   PROVE  tries[k] \in 0..MaxAttempts /\ tries' = [tries EXCEPT ![k] = tries[k]]
BY DEF Typed, TypeOK

LEMMA LeaveTyped ==
  ASSUME Typed, NEW k \in Cycle, todo[k] # <<>>, Leave(k),
         OrdersType', DOMAIN orders \subseteq DOMAIN orders', BreakerType', HistoryType',
         ids' \in [Cycle -> SUBSET DOMAIN orders'], UNCHANGED today
  PROVE  Typed'
<1>1. CycleType' /\ oid' \in [Cycle -> DOMAIN orders \cup {None}]
  BY LeaveType
<1>2. IdsType'
  BY <1>1, TypedParts DEF IdsType
<1> QED
  BY <1>1, <1>2, Assemble

LEMMA KeepIds ==
  ASSUME Typed, UNCHANGED ids, DOMAIN orders \subseteq DOMAIN orders'
  PROVE  ids' \in [Cycle -> SUBSET DOMAIN orders']
BY DEF Typed, TypeOK

LEMMA KeepHistory == ASSUME Typed, UNCHANGED history PROVE HistoryType'
BY DEF Typed, TypeOK, history, HistoryType

LEMMA CheckTyped ==
  ASSUME Typed, NEW k \in Cycle, CheckFails(k) \/ \E seen \in Snapshot : CheckPasses(k, seen)
  PROVE  Typed'
<1>1. CASE CheckFails(k)
  <2>1. /\ Leave(k) /\ todo[k] # <<>>
        /\ UNCHANGED orders /\ UNCHANGED breaker /\ UNCHANGED ids /\ UNCHANGED today
        /\ UNCHANGED history
    BY <1>1 DEF CheckFails
  <2> QED
    BY <2>1, LeaveTyped, KeepIds, KeepBreaker, KeepHistory, TypedParts DEF OrdersType
<1>2. ASSUME NEW seen \in Snapshot, CheckPasses(k, seen) PROVE Typed'
  <2>1. /\ Goto(k, "checked") /\ todo[k] # <<>> /\ pc[k] = "next"
        /\ UNCHANGED <<orders, todo, oid, ids, today>> /\ UNCHANGED breaker
        /\ UNCHANGED tries /\ UNCHANGED <<lost, strays>>
    BY <1>2 DEF CheckPasses
  <2>2. HistoryType'
    <3>1. Job(k).symbol \in Symbol
      BY <2>1, JobType
    <3>2. /\ misses \in [Symbol -> Nat] /\ lost' \in [Symbol -> Nat]
          /\ strays' \in [Symbol -> Nat]
      BY <2>1 DEF Typed, TypeOK
    <3> DEFINE m == misses[Job(k).symbol]
               n == IF \/ Exposed(Job(k).symbol) \cup Bound(Job(k).symbol) = {}
                       \/ Sees(Job(k), seen)
                    THEN m ELSE m + 1
    <3>3. n \in Nat
      BY <3>1, <3>2
    <3>4. misses' = [misses EXCEPT ![Job(k).symbol] = n]
      BY <1>2 DEF CheckPasses
    <3> HIDE DEF n
    <3> QED
      BY <3>2, <3>3, <3>4 DEF HistoryType
  <2>3. oid[k] = None /\ tries[k] = 0 /\ 0 < MaxAttempts
    BY <2>1, OrdersAssumption DEF Typed, AtWork
  <2> QED
    BY <2>1, <2>2, <2>3, SameTries, MoveType, KeepBreaker DEF PCs
<1> QED
  BY <1>1, <1>2

LEMMA BreakerTyped ==
  ASSUME Typed, NEW k \in Cycle, PassesBreaker(k) \/ BreakerRefuses(k) PROVE Typed'
<1>1. todo[k] # <<>> /\ oid[k] = None
  BY DEF PassesBreaker, BreakerRefuses, Typed, AtWork, Working
<1>2. CASE BreakerRefuses(k)
  <2>1. /\ Leave(k)
        /\ UNCHANGED orders /\ UNCHANGED breaker /\ UNCHANGED ids /\ UNCHANGED today
        /\ UNCHANGED history
    BY <1>2 DEF BreakerRefuses
  <2> QED
    BY <1>1, <2>1, LeaveTyped, KeepIds, KeepBreaker, KeepHistory, TypedParts DEF OrdersType
<1>3. CASE PassesBreaker(k)
  <2>1. /\ Goto(k, "sending") /\ tries' = [tries EXCEPT ![k] = tries[k] + 1]
        /\ UNCHANGED <<orders, todo, oid, ids, today>> /\ UNCHANGED breaker
        /\ UNCHANGED history
    BY <1>3 DEF PassesBreaker
  <2>2. tries[k] + 1 \in 0..MaxAttempts
    BY <1>3, OrdersAssumption DEF PassesBreaker, Typed, TypeOK, AtWork
  <2> QED
    BY <1>1, <2>1, <2>2, MoveType, KeepBreaker, KeepHistory DEF PCs
<1> QED
  BY <1>2, <1>3

LEMMA SendTyped ==
  ASSUME Typed, NEW k \in Cycle,
         Refused(k) \/ \E o \in OrderId : Accepted(k, o)
  PROVE  Typed'
<1>1. todo[k] # <<>> /\ pc[k] = "sending"
  BY DEF Accepted, Refused, Typed, AtWork, Working
<1>2. 0 \in 0..MaxAttempts /\ "sent" \in PCs
  BY OrdersAssumption DEF PCs
<1>3. Goto(k, "sent") /\ tries' = [tries EXCEPT ![k] = 0] /\ UNCHANGED <<todo, ids, today, history>>
  BY DEF Accepted, Refused, SubmitReturns
<1>4. \A j \in Cycle : j # k => oid'[j] = oid[j]
  BY DEF Accepted, Refused, Typed, TypeOK
<1>5. CycleType'
  BY <1>1, <1>2, <1>3, <1>4, GotoType
<1>6. BreakerType'
  BY BreakerMoves DEF Accepted, Refused
<1>7. HistoryType'
  BY <1>3, KeepHistory
<1>8. CASE Refused(k)
  <2>1. OrdersType' /\ IdsType'
    BY <1>3, <1>8, TypedParts DEF Refused, OrdersType, IdsType
  <2> QED
    BY <1>5, <1>6, <1>7, <2>1, Assemble
<1>9. ASSUME NEW o \in OrderId, Accepted(k, o) PROVE Typed'
  <2>1. /\ OrdersType' /\ DOMAIN orders' = DOMAIN orders \cup {o}
    BY <1>1, <1>9, AcceptType DEF Accepted, OrdersType
  <2>2. oid' = [oid EXCEPT ![k] = o]
    BY <1>9 DEF Accepted
  <2>3. IdsType'
    BY <1>3, <2>1, <2>2 DEF IdsType, Typed, TypeOK
  <2> QED
    BY <1>5, <1>6, <1>7, <2>1, <2>3, Assemble
<1> QED
  BY <1>8, <1>9

LEMMA NoAnswerTyped ==
  ASSUME Typed, NEW k \in Cycle, NoAnswer(k), OrdersType',
         DOMAIN orders \subseteq DOMAIN orders', lost' \in [Symbol -> Nat]
  PROVE  Typed'
<1>1. todo[k] # <<>> /\ pc[k] = "sending" /\ oid[k] = None
  BY DEF NoAnswer, Typed, AtWork, Working
<1>2. BreakerType'
  BY BreakerMoves DEF NoAnswer
<1>3. HistoryType'
  BY DEF NoAnswer, HistoryType, Typed, TypeOK
<1>4. ids' \in [Cycle -> SUBSET DOMAIN orders'] /\ UNCHANGED today
  BY KeepIds DEF NoAnswer
<1>5. CASE Leave(k)
  BY <1>1, <1>2, <1>3, <1>4, <1>5, LeaveTyped
<1>6. CASE SubmitReturns(k) /\ UNCHANGED <<todo, oid>>
  <2>1. Goto(k, "sent") /\ tries' = [tries EXCEPT ![k] = 0] /\ 0 \in 0..MaxAttempts /\ "sent" \in PCs
    BY <1>6, OrdersAssumption DEF SubmitReturns, PCs
  <2>2. CycleType'
    BY <1>1, <1>6, <2>1, GotoType
  <2>3. IdsType'
    BY <1>4, <1>6 DEF IdsType, Typed, TypeOK
  <2> QED
    BY <1>2, <1>3, <2>2, <2>3, Assemble
<1>7. CASE MayRetry(k) /\ Goto(k, "checked") /\ UNCHANGED <<todo, tries, oid>>
  <2>1. tries[k] \in 0..MaxAttempts /\ tries[k] < MaxAttempts
        /\ tries' = [tries EXCEPT ![k] = tries[k]] /\ "checked" \in PCs
    BY <1>7, SameTries DEF MayRetry, PCs
  <2>2. CycleType'
    BY <1>1, <1>7, <2>1, GotoType
  <2>3. IdsType'
    BY <1>4, <1>7 DEF IdsType, Typed, TypeOK
  <2> QED
    BY <1>2, <1>3, <2>2, <2>3, Assemble
<1> QED
  BY <1>5, <1>6, <1>7 DEF NoAnswer

LEMMA LossTyped ==
  ASSUME Typed, NEW k \in Cycle, RequestLost(k) \/ \E o \in OrderId : AnswerLost(k, o)
  PROVE  Typed'
<1>1. todo[k] # <<>>
  BY DEF RequestLost, AnswerLost, NoAnswer, Typed, AtWork, Working
<1>2. CASE RequestLost(k)
  BY <1>2, NoAnswerTyped, TypedParts DEF RequestLost, OrdersType, HistoryType
<1>3. ASSUME NEW o \in OrderId, AnswerLost(k, o) PROVE Typed'
  <2>1. OrdersType' /\ DOMAIN orders \subseteq DOMAIN orders'
    BY <1>1, <1>3, AcceptType DEF AnswerLost, OrdersType
  <2>2. lost' \in [Symbol -> Nat]
    BY <1>1, <1>3, JobType DEF AnswerLost, Typed, TypeOK
  <2> QED
    BY <1>3, <2>1, <2>2, NoAnswerTyped DEF AnswerLost
<1> QED
  BY <1>2, <1>3

\* The order of a cycle whose row cannot be written.
LEMMA UnloggedTyped ==
  ASSUME Typed, NEW k \in Cycle, SubmittedUnlogged(k) \/ FillUnlogged(k) PROVE Typed'
<1>1. /\ todo[k] # <<>> /\ Leave(k)
      /\ UNCHANGED orders /\ UNCHANGED ids /\ UNCHANGED today
  BY DEF SubmittedUnlogged, FillUnlogged, Typed, AtWork, Working
<1>2. BreakerType'
  BY BreakerMoves DEF SubmittedUnlogged, FillUnlogged
<1>3. oid[k] # None => orders[oid[k]].symbol \in Symbol
  BY OrderHeld DEF Order
<1>4. HistoryType'
  <2>1. CASE SubmittedUnlogged(k)
    BY <1>3, <2>1 DEF SubmittedUnlogged, HistoryType, Typed, TypeOK
  <2>2. CASE FillUnlogged(k)
    BY <1>3, <2>2 DEF FillUnlogged, HistoryType, Typed, TypeOK
  <2> QED
    BY <2>1, <2>2
<1>5. OrdersType' /\ DOMAIN orders \subseteq DOMAIN orders'
  BY <1>1, TypedParts DEF OrdersType
<1> QED
  BY <1>1, <1>2, <1>4, <1>5, LeaveTyped, KeepIds

LEMMA WaitTyped ==
  ASSUME Typed, NEW k \in Cycle, LogSubmitted(k) \/ SeesFill(k) \/ WaitEnds(k) PROVE Typed'
<1>1. todo[k] # <<>>
  BY DEF LogSubmitted, SeesFill, WaitEnds, Typed, AtWork, Working
<1>2. CASE LogSubmitted(k)
  <2>1. /\ Goto(k, "wait") /\ UNCHANGED tries /\ UNCHANGED <<todo, oid, ids, today>>
        /\ UNCHANGED breaker /\ UNCHANGED history /\ "wait" \in PCs
    BY <1>2 DEF LogSubmitted, PCs
  <2>2. OrdersType' /\ DOMAIN orders' = DOMAIN orders
    <3>1. CASE oid[k] = None
      BY <1>2, <3>1, TypedParts DEF LogSubmitted, OrdersType
    <3>2. CASE oid[k] # None
      BY <1>2, <3>2, OrderHeld, SetLogType DEF LogSubmitted, Marks
    <3> QED
      BY <3>1, <3>2
  <2>3. CycleType'
    BY <1>1, <2>1, SameTries, GotoType
  <2>4. IdsType'
    BY <2>1, <2>2 DEF IdsType, Typed, TypeOK
  <2> QED
    BY <2>1, <2>2, <2>3, <2>4, KeepBreaker, KeepHistory, Assemble
<1>3. CASE SeesFill(k)
  <2>1. /\ Leave(k) /\ ids' = [ids EXCEPT ![k] = ids[k] \cup {oid[k]}]
        /\ UNCHANGED today /\ UNCHANGED history /\ oid[k] # None
        /\ orders' = SetLog(oid[k], "filled")
    BY <1>3 DEF SeesFill
  <2>2. OrdersType' /\ DOMAIN orders' = DOMAIN orders
    BY <2>1, OrderHeld, SetLogType DEF Marks
  <2>3. BreakerType'
    BY <1>3, BreakerMoves DEF SeesFill
  <2>4. ids' \in [Cycle -> SUBSET DOMAIN orders']
    BY <2>1, <2>2, OrderHeld DEF Typed, TypeOK
  <2> QED
    BY <1>1, <2>1, <2>2, <2>3, <2>4, LeaveTyped, KeepHistory
<1>4. CASE WaitEnds(k)
  <2>1. /\ Goto(k, "unfilled") /\ UNCHANGED tries /\ UNCHANGED <<orders, todo, oid, ids, today>>
        /\ UNCHANGED breaker /\ UNCHANGED history /\ "unfilled" \in PCs
    BY <1>4 DEF WaitEnds, PCs
  <2> QED
    BY <1>1, <2>1, SameTries, MoveType, KeepBreaker, KeepHistory
<1> QED
  BY <1>2, <1>3, <1>4

\* What CancelAndLog does to the order it holds.
CancelEnds(o, status, mark) ==
  /\ status \in IF orders[o].status = "live" THEN {"live", "cancelled", "cut"}
                 ELSE {orders[o].status}
  /\ mark \in {"cancelled", orders[o].log}
  /\ orders' = [orders EXCEPT ![o].status = status, ![o].log = mark]
  /\ strays' = [strays EXCEPT ![orders[o].symbol] = IF status = "cancelled" THEN @ ELSE @ + 1]

LEMMA CancelOne ==
  ASSUME Typed, NEW o \in DOMAIN orders, NEW status, NEW mark, CancelEnds(o, status, mark)
  PROVE  /\ OrdersType' /\ DOMAIN orders' = DOMAIN orders /\ strays' \in [Symbol -> Nat]
         /\ orders'[o].symbol = orders[o].symbol /\ orders'[o].status = status
         /\ orders'[o].log = "filled" => orders[o].log = "filled"
         /\ orders[o].status # "live" => status = orders[o].status
         /\ \A x \in DOMAIN orders : x # o => orders'[x] = orders[x]
<1>1. orders[o] \in Order
  BY DEF Typed, TypeOK
<1>2. /\ status \in Status /\ (orders[o].status # "live" => status = orders[o].status)
      /\ mark \in Marks /\ (mark = "filled" => orders[o].log = "filled")
  BY <1>1 DEF CancelEnds, Order, Status, Marks
<1> DEFINE new == [orders[o] EXCEPT !.status = status, !.log = mark]
<1>3. orders' = [orders EXCEPT ![o] = new]
  BY DEF CancelEnds, Typed, TypeOK
<1>4. /\ new \in Order /\ new.symbol = orders[o].symbol /\ new.status = status
      /\ new.log = mark
  BY <1>1, <1>2 DEF Order
<1> HIDE DEF new
<1>5. OrdersType' /\ DOMAIN orders' = DOMAIN orders /\ orders'[o] = new
      /\ \A x \in DOMAIN orders : x # o => orders'[x] = orders[x]
  BY <1>3, <1>4 DEF OrdersType, Typed, TypeOK
<1>6. strays' \in [Symbol -> Nat]
  BY <1>1 DEF CancelEnds, Order, Typed, TypeOK
<1> QED
  BY <1>2, <1>4, <1>5, <1>6

LEMMA CancelTyped == ASSUME Typed, NEW k \in Cycle, CancelAndLog(k) PROVE Typed'
<1>1. /\ todo[k] # <<>> /\ Leave(k)
      /\ UNCHANGED breaker /\ UNCHANGED ids /\ UNCHANGED today /\ UNCHANGED <<misses, lost>>
  BY DEF CancelAndLog, Typed, AtWork, Working
<1>2. OrdersType' /\ DOMAIN orders' = DOMAIN orders /\ strays' \in [Symbol -> Nat]
  <2>1. CASE oid[k] = None
    BY <2>1, TypedParts DEF CancelAndLog, OrdersType, HistoryType
  <2>2. CASE oid[k] # None
    <3>1. PICK status, mark : CancelEnds(oid[k], status, mark)
      BY <2>2 DEF CancelAndLog, CancelEnds
    <3> QED
      BY <2>2, <3>1, OrderHeld, CancelOne
  <2> QED
    BY <2>1, <2>2
<1>3. HistoryType'
  BY <1>1, <1>2 DEF HistoryType, Typed, TypeOK
<1> QED
  BY <1>1, <1>2, <1>3, LeaveTyped, KeepIds, KeepBreaker

LEMMA EndsTyped ==
  ASSUME Typed, NEW k \in Cycle,
         FinishCycle(k) \/ CycleRaises(k) \/ \E batch \in Batches : StartCycle(k, batch)
  PROVE  Typed'
<1> USE OrdersAssumption
<1>1. CASE FinishCycle(k)
  <2>1. oid[k] = None
    BY <1>1 DEF FinishCycle, Typed, AtWork
  <2>2. /\ Goto(k, "done") /\ UNCHANGED tries /\ UNCHANGED <<orders, todo, oid>>
        /\ UNCHANGED breaker /\ UNCHANGED history /\ "done" \in PCs
        /\ today' = ids[k] /\ ids' = [ids EXCEPT ![k] = {}]
    BY <1>1 DEF FinishCycle, PCs
  <2>3. CycleType'
    BY <2>1, <2>2, SameTries, GotoType DEF Working
  <2>4. OrdersType' /\ IdsType'
    BY <2>2 DEF OrdersType, IdsType, Typed, TypeOK
  <2> QED
    BY <2>2, <2>3, <2>4, KeepBreaker, KeepHistory, Assemble
<1>2. ASSUME NEW batch \in Batches, StartCycle(k, batch) PROVE Typed'
  <2>1. /\ pc' = [pc EXCEPT ![k] = "next"] /\ todo' = [todo EXCEPT ![k] = batch]
        /\ UNCHANGED <<orders, tries, oid, ids, today>> /\ UNCHANGED breaker
        /\ UNCHANGED history /\ pc[k] = "idle"
    BY <1>2 DEF StartCycle, Goto
  <2>2. pc' \in [Cycle -> PCs] /\ todo' \in [Cycle -> Seq(Proposal)]
        /\ tries' \in [Cycle -> 0..MaxAttempts]
    BY <2>1 DEF PCs, Typed, TypeOK
  <2>3. AtWork'
    BY <2>1 DEF AtWork, Working, Typed, TypeOK
  <2>4. OrdersType' /\ IdsType'
    BY <2>1 DEF OrdersType, IdsType, Typed, TypeOK
  <2> QED
    BY <2>1, <2>2, <2>3, <2>4, KeepBreaker, KeepHistory, Assemble DEF CycleType
<1>3. CASE CycleRaises(k)
  <2>1. /\ pc' = [pc EXCEPT ![k] = "done"] /\ todo' = [todo EXCEPT ![k] = <<>>]
        /\ UNCHANGED <<orders, tries, oid, today>> /\ UNCHANGED breaker
        /\ UNCHANGED history /\ pc[k] = "next" /\ ids' = [ids EXCEPT ![k] = {}]
    BY <1>3 DEF CycleRaises, Goto
  <2>2. pc' \in [Cycle -> PCs] /\ todo' \in [Cycle -> Seq(Proposal)]
        /\ tries' \in [Cycle -> 0..MaxAttempts]
    BY <2>1 DEF PCs, Typed, TypeOK
  <2>3. AtWork'
    BY <2>1 DEF AtWork, Working, Typed, TypeOK
  <2>4. OrdersType' /\ IdsType'
    BY <2>1 DEF OrdersType, IdsType, Typed, TypeOK
  <2> QED
    BY <2>1, <2>2, <2>3, <2>4, KeepBreaker, KeepHistory, Assemble DEF CycleType
<1> QED
  BY <1>1, <1>2, <1>3

LEMMA BrokerTyped ==
  ASSUME Typed,
         \/ CooldownEnds \/ \E o \in DOMAIN orders : BrokerMoves(o)
         \/ \E position \in Position : PositionClosed(position)
  PROVE  Typed'
<1>1. CASE CooldownEnds
  BY <1>1 DEF CooldownEnds, Typed, TypeOK, AtWork, cycleVars, history
<1>2. ASSUME NEW o \in DOMAIN orders, BrokerMoves(o) PROVE Typed'
  <2>1. PICK status \in {"filled", "cut", "cancelled"} :
          orders' = [orders EXCEPT ![o] = [orders[o] EXCEPT !.status = status]]
    BY <1>2 DEF BrokerMoves
  <2>2. [orders[o] EXCEPT !.status = status] \in Order
    BY DEF Typed, TypeOK, Order, Status
  <2>3. OrdersType' /\ DOMAIN orders' = DOMAIN orders
    BY <2>1, <2>2 DEF OrdersType, Typed, TypeOK
  <2> QED
    BY <1>2, <2>3 DEF BrokerMoves, OrdersType, Typed, TypeOK, AtWork, cycleVars, history, breaker
<1>3. ASSUME NEW position \in Position, PositionClosed(position) PROVE Typed'
  <2>1. \A o \in DOMAIN orders : [orders[o] EXCEPT !.status = "closed"] \in Order
    BY DEF Typed, TypeOK, Order, Status
  <2>2. OrdersType' /\ DOMAIN orders' = DOMAIN orders
    BY <1>3, <2>1 DEF PositionClosed, OrdersType, Typed, TypeOK
  <2> QED
    BY <1>3, <2>2 DEF PositionClosed, OrdersType, Typed, TypeOK, AtWork, cycleVars, history, breaker
<1> QED
  BY <1>1, <1>2, <1>3

LEMMA RestartTyped == ASSUME Typed, Restart PROVE Typed'
<1> USE OrdersAssumption
<1>1. \A s \in Symbol : Cardinality(Unrecorded(s)) \in Nat /\ Cardinality(Unwatched(s)) \in Nat
  BY FS_Subset, FS_CardinalityType DEF Unrecorded, Unwatched
<1>2. HistoryType'
  <2>1. /\ misses \in [Symbol -> Nat]
        /\ \A s \in Symbol : lost[s] \in Nat /\ strays[s] \in Nat
    BY DEF Typed, TypeOK
  <2>2. /\ misses' = misses
        /\ lost' = [s \in Symbol |-> lost[s] + Cardinality(Unrecorded(s))]
        /\ strays' = [s \in Symbol |-> strays[s] + Cardinality(Unwatched(s))]
    BY DEF Restart
  <2>3. lost' \in [Symbol -> Nat]
    BY <1>1, <2>1, <2>2
  <2>4. strays' \in [Symbol -> Nat]
    BY <1>1, <2>1, <2>2
  <2> QED
    BY <2>1, <2>2, <2>3, <2>4 DEF HistoryType
<1>3. BreakerType'
  BY BreakerMoves DEF Restart
<1>4. CycleType'
  <2>1. /\ \A k \in Cycle : pc'[k] \in {"idle", "done"} /\ oid'[k] = None /\ tries'[k] = 0
        /\ pc' \in [Cycle -> PCs] /\ tries' \in [Cycle -> 0..MaxAttempts]
        /\ todo' \in [Cycle -> Seq(Proposal)]
    BY DEF Restart, PCs
  <2> QED
    BY <2>1 DEF CycleType, AtWork, Working
<1>5. OrdersType' /\ IdsType'
  BY DEF Restart, OrdersType, IdsType, Typed, TypeOK
<1> QED
  BY <1>2, <1>3, <1>4, <1>5, Assemble

LEMMA NextTyped == Typed /\ [Next]_vars => Typed'
<1> SUFFICES ASSUME Typed, [Next]_vars PROVE Typed'
  OBVIOUS
<1>1. ASSUME NEW k \in Cycle, CycleStep(k) PROVE Typed'
  BY <1>1, CheckTyped, BreakerTyped, SendTyped, LossTyped, UnloggedTyped, WaitTyped, CancelTyped,
     EndsTyped
  DEF CycleStep
<1>2. CASE UNCHANGED vars
  BY <1>2 DEF vars, breaker, cycleVars, history, Typed, TypeOK, AtWork
<1> QED
  BY <1>1, <1>2, EndsTyped, BrokerTyped, RestartTyped DEF Next

(***************************************************************************)
(* Types; among them that a proposal is never attempted more often than    *)
(* the settings allow.                                                     *)
(***************************************************************************)
THEOREM TypeCorrect == Spec => []TypeOK
<1>1. Spec => []Typed
  BY InitTyped, NextTyped, PTL DEF Spec
<1>2. Typed => TypeOK
  BY DEF Typed
<1> QED
  BY <1>1, <1>2, PTL

-----------------------------------------------------------------------------
(***************************************************************************)
(* Holdings: the orders that hold or may hold shares of a symbol and the   *)
(* cycles that may still send one for it share one budget, which grows     *)
(* with each accident.  A cycle joins it when it passes the checks and     *)
(* turns into an order when the broker accepts.                            *)
(***************************************************************************)
Budget ==
  \A s \in Symbol : Cardinality(Exposed(s)) + Cardinality(Bound(s)) <= 1 + misses[s] + lost[s]

LEMMA ExposureFinite ==
  ASSUME Typed, NEW s
  PROVE  /\ IsFiniteSet(Exposed(s)) /\ Cardinality(Exposed(s)) \in Nat
         /\ IsFiniteSet(Bound(s)) /\ Cardinality(Bound(s)) \in Nat
<1>1. Exposed(s) \subseteq OrderId /\ Bound(s) \subseteq Cycle
  BY DEF Exposed, Bound, Typed, TypeOK
<1> QED
  BY <1>1, OrdersAssumption, FS_Subset, FS_CardinalityType

LEMMA BudgetType ==
  ASSUME Typed, NEW s \in Symbol PROVE misses[s] \in Nat /\ lost[s] \in Nat
BY DEF Typed, TypeOK

LEMMA InitBudget == Init => Budget
<1> SUFFICES ASSUME Init, NEW s \in Symbol
             PROVE  Cardinality(Exposed(s)) + Cardinality(Bound(s)) <= 1 + misses[s] + lost[s]
  BY DEF Budget
<1>1. Exposed(s) = {} /\ Bound(s) = {} /\ misses[s] = 0 /\ lost[s] = 0
  BY DEF Init, Exposed, Bound
<1> QED
  BY <1>1, FS_EmptySet

LEMMA ShrinkBudget ==
  ASSUME Typed, Typed', Budget, NEW s \in Symbol,
         Exposed(s)' \subseteq Exposed(s), Bound(s)' \subseteq Bound(s),
         misses'[s] >= misses[s], lost'[s] >= lost[s]
  PROVE  Cardinality(Exposed(s)') + Cardinality(Bound(s)') <= 1 + misses'[s] + lost'[s]
<1>1. /\ Cardinality(Exposed(s)') \in Nat /\ Cardinality(Exposed(s)') <= Cardinality(Exposed(s))
      /\ Cardinality(Bound(s)') \in Nat /\ Cardinality(Bound(s)') <= Cardinality(Bound(s))
  BY ExposureFinite, FS_Subset, FS_CardinalityType
<1>2. misses'[s] \in Nat /\ lost'[s] \in Nat
  BY DEF Typed, TypeOK
<1> QED
  BY <1>1, <1>2, BudgetType, ExposureFinite DEF Budget

LEMMA KeepBudget ==
  ASSUME Typed, Typed', Budget, UNCHANGED <<misses, lost>>,
         \A s \in Symbol : Exposed(s)' \subseteq Exposed(s) /\ Bound(s)' \subseteq Bound(s)
  PROVE  Budget'
<1>1. \A s \in Symbol : misses'[s] >= misses[s] /\ lost'[s] >= lost[s]
  BY BudgetType
<1> QED
  BY <1>1, ShrinkBudget DEF Budget

\* A cycle is bound to a symbol only by passing the checks.
LEMMA MoveBound ==
  ASSUME Typed, NEW k \in Cycle, NEW to, pc' = [pc EXCEPT ![k] = to],
         \A j \in Cycle : j # k => todo'[j] = todo[j],
         to \in {"checked", "sending"} => pc[k] \in {"checked", "sending"} /\ todo'[k] = todo[k],
         NEW s
  PROVE  Bound(s)' \subseteq Bound(s)
BY DEF Bound, Job, Typed, TypeOK

LEMMA LeaveBound ==
  ASSUME Typed, NEW k \in Cycle, Leave(k), NEW s
  PROVE  Bound(s)' \subseteq Bound(s) \ {k}
BY DEF Leave, Goto, Bound, Job, Typed, TypeOK

LEMMA SameOrders == ASSUME UNCHANGED orders, NEW s PROVE Exposed(s)' \subseteq Exposed(s)
BY DEF Exposed

LEMMA LogExposed ==
  ASSUME Typed, NEW o \in DOMAIN orders, NEW mark, orders' = SetLog(o, mark), NEW s
  PROVE  Exposed(s)' \subseteq Exposed(s)
<1>1. DOMAIN orders' = DOMAIN orders
      /\ \A x \in DOMAIN orders : orders'[x].symbol = orders[x].symbol
                                  /\ orders'[x].status = orders[x].status
  BY DEF SetLog, Typed, TypeOK, Order
<1> QED
  BY <1>1 DEF Exposed

LEMMA CheckBudget ==
  ASSUME Typed, Typed', Budget, NEW k \in Cycle, NEW seen \in Snapshot, CheckPasses(k, seen)
  PROVE  Budget'
<1>0. PICK t \in Symbol : t = Job(k).symbol
  BY JobType DEF CheckPasses
<1>1. /\ pc[k] = "next" /\ todo[k] # <<>> /\ UNCHANGED <<orders, todo, lost>>
      /\ pc' = [pc EXCEPT ![k] = "checked"]
  BY DEF CheckPasses, Goto
<1>2. misses' = [misses EXCEPT ![t] = IF Exposed(t) \cup Bound(t) = {} \/ Sees(Job(k), seen)
                                      THEN misses[t] ELSE misses[t] + 1]
      /\ ~Sees(Job(k), seen)
  BY <1>0 DEF CheckPasses, PassesRisk
<1>3. Bound(t)' = Bound(t) \cup {k} /\ k \notin Bound(t)
      /\ \A s \in Symbol : s # t => Bound(s)' \subseteq Bound(s)
  <2>1. \A j \in Cycle : Job(j)' = Job(j)
    BY <1>1 DEF Job
  <2>2. \A j \in Cycle : pc'[j] = IF j = k THEN "checked" ELSE pc[j]
    BY <1>1 DEF Typed, TypeOK
  <2> QED
    BY <1>0, <1>1, <2>1, <2>2 DEF Bound
<1>4. \A s \in Symbol : Exposed(s)' = Exposed(s)
  BY <1>1 DEF Exposed
<1>5. ASSUME NEW s \in Symbol
      PROVE  Cardinality(Exposed(s)') + Cardinality(Bound(s)') <= 1 + misses'[s] + lost'[s]
  <2>1. CASE s # t
    <3>1. misses'[s] = misses[s] /\ lost'[s] = lost[s]
      BY <1>1, <1>2, <2>1 DEF Typed, TypeOK
    <3>2. misses'[s] >= misses[s] /\ lost'[s] >= lost[s]
      BY <3>1, BudgetType
    <3> QED
      BY <1>3, <1>4, <2>1, <3>2, ShrinkBudget
  <2>2. CASE s = t
    <3>1. Cardinality(Bound(t)') = Cardinality(Bound(t)) + 1
      BY <1>3, ExposureFinite, FS_AddElement
    <3>2. CASE Exposed(t) \cup Bound(t) = {}
      <4>1. Cardinality(Exposed(t)) = 0 /\ Cardinality(Bound(t)) = 0
        BY <3>2, FS_EmptySet
      <4>2. misses'[t] = misses[t] /\ lost'[t] = lost[t] /\ misses[t] \in Nat /\ lost[t] \in Nat
        BY <1>1, <1>2, <3>2, BudgetType DEF Typed, TypeOK
      <4> QED
        BY <1>4, <2>2, <3>1, <4>1, <4>2
    <3>3. CASE Exposed(t) \cup Bound(t) # {}
      <4>1. misses'[t] = misses[t] + 1 /\ lost'[t] = lost[t] /\ misses[t] \in Nat /\ lost[t] \in Nat
        BY <1>1, <1>2, <3>3, BudgetType DEF Typed, TypeOK
      <4> QED
        BY <1>1, <1>4, <2>2, <3>1, <4>1, ExposureFinite DEF Budget
    <3> QED
      BY <3>2, <3>3
  <2> QED
    BY <2>1, <2>2
<1> QED
  BY <1>5 DEF Budget

\* The broker takes the order of a cycle: what is exposed grows by it.
LEMMA AcceptExposed ==
  ASSUME Typed, NEW k \in Cycle, todo[k] # <<>>, NEW o \in OrderId, Accept(k, o),
         NEW t \in Symbol, t = Job(k).symbol
  PROVE  /\ o \notin Exposed(t) /\ Exposed(t)' = Exposed(t) \cup {o}
         /\ \A s \in Symbol : s # t => Exposed(s)' \subseteq Exposed(s)
<1>1. /\ DOMAIN orders' = DOMAIN orders \cup {o} /\ o \notin DOMAIN orders
      /\ orders'[o].symbol = t /\ orders'[o].status = "live"
      /\ \A x \in DOMAIN orders : orders'[x] = orders[x]
  <2>0. orders'[o] = NewOrder(k)
    BY AcceptType
  <2>1. orders'[o].symbol = Job(k).symbol /\ orders'[o].status = "live"
    BY <2>0 DEF NewOrder
  <2> QED
    BY <2>1, AcceptType
<1> QED
  BY <1>1 DEF Exposed

LEMMA AcceptedBudget ==
  ASSUME Typed, Typed', Budget, NEW k \in Cycle, NEW o \in OrderId, Accepted(k, o)
  PROVE  Budget'
<1>0. PICK t \in Symbol : t = Job(k).symbol
  BY JobType DEF Accepted, Typed, AtWork, Working
<1>1. /\ pc[k] = "sending" /\ todo[k] # <<>> /\ UNCHANGED <<todo, misses, lost>>
      /\ pc' = [pc EXCEPT ![k] = "sent"] /\ Accept(k, o)
  BY DEF Accepted, SubmitReturns, Goto, history, Typed, AtWork, Working
<1>2. /\ o \notin Exposed(t) /\ Exposed(t)' = Exposed(t) \cup {o}
      /\ \A s \in Symbol : s # t => Exposed(s)' \subseteq Exposed(s)
  BY <1>0, <1>1, AcceptExposed
<1>3. k \in Bound(t) /\ Bound(t)' = Bound(t) \ {k}
      /\ \A s \in Symbol : s # t => Bound(s)' \subseteq Bound(s)
  BY <1>0, <1>1 DEF Bound, Job, Typed, TypeOK
<1>4. /\ Cardinality(Exposed(t)') = Cardinality(Exposed(t)) + 1
      /\ Cardinality(Bound(t)') = Cardinality(Bound(t)) - 1
  <2>1. IsFiniteSet(Exposed(t)) /\ IsFiniteSet(Bound(t))
    BY ExposureFinite
  <2>2. Cardinality(Exposed(t) \cup {o}) = Cardinality(Exposed(t)) + 1
    BY <1>2, <2>1, FS_AddElement
  <2>3. Cardinality(Bound(t) \ {k}) = Cardinality(Bound(t)) - 1
    BY <1>3, <2>1, FS_RemoveElement
  <2> QED
    BY <1>2, <1>3, <2>2, <2>3
<1>5. \A s \in Symbol : misses'[s] >= misses[s] /\ lost'[s] >= lost[s]
  BY <1>1, BudgetType
<1>6. \A s \in Symbol : s # t =>
        Cardinality(Exposed(s)') + Cardinality(Bound(s)') <= 1 + misses'[s] + lost'[s]
  BY <1>2, <1>3, <1>5, ShrinkBudget
<1>7. Cardinality(Exposed(t)') + Cardinality(Bound(t)') <= 1 + misses'[t] + lost'[t]
  BY <1>1, <1>4, ExposureFinite, BudgetType DEF Budget
<1> QED
  BY <1>6, <1>7 DEF Budget

\* A cycle without an answer stays bound or leaves.
LEMMA NoAnswerBound ==
  ASSUME Typed, NEW k \in Cycle, NoAnswer(k), NEW s PROVE Bound(s)' \subseteq Bound(s)
<1>1. CASE Leave(k)
  BY <1>1, LeaveBound
<1>2. CASE SubmitReturns(k) /\ UNCHANGED todo
  BY <1>2, MoveBound DEF SubmitReturns, Goto
<1>3. CASE Goto(k, "checked") /\ UNCHANGED todo
  BY <1>3, MoveBound DEF NoAnswer, Goto
<1> QED
  BY <1>1, <1>2, <1>3 DEF NoAnswer

LEMMA AnswerLostBudget ==
  ASSUME Typed, Typed', Budget, NEW k \in Cycle, NEW o \in OrderId, AnswerLost(k, o)
  PROVE  Budget'
<1>0. PICK t \in Symbol : t = Job(k).symbol
  BY JobType DEF AnswerLost, NoAnswer, Typed, AtWork, Working
<1>1. /\ todo[k] # <<>> /\ UNCHANGED misses /\ Accept(k, o) /\ NoAnswer(k)
      /\ lost' = [lost EXCEPT ![t] = lost[t] + 1]
  BY <1>0 DEF AnswerLost, NoAnswer, Typed, AtWork, Working
<1>2. /\ o \notin Exposed(t) /\ Exposed(t)' = Exposed(t) \cup {o}
      /\ \A s \in Symbol : s # t => Exposed(s)' \subseteq Exposed(s)
  BY <1>0, <1>1, AcceptExposed
<1>3. \A s \in Symbol : Bound(s)' \subseteq Bound(s)
  BY <1>1, NoAnswerBound
<1>4. /\ lost'[t] = lost[t] + 1
      /\ \A s \in Symbol : s # t => lost'[s] = lost[s]
  BY <1>1 DEF Typed, TypeOK
<1>5. \A s \in Symbol : s # t => misses'[s] >= misses[s] /\ lost'[s] >= lost[s]
  BY <1>1, <1>4, BudgetType
<1>6. \A s \in Symbol : s # t =>
        Cardinality(Exposed(s)') + Cardinality(Bound(s)') <= 1 + misses'[s] + lost'[s]
  BY <1>2, <1>3, <1>5, ShrinkBudget
<1>7. /\ Cardinality(Exposed(t)') = Cardinality(Exposed(t)) + 1
      /\ Cardinality(Bound(t)') \in Nat /\ Cardinality(Bound(t)') <= Cardinality(Bound(t))
  <2>1. IsFiniteSet(Exposed(t)) /\ IsFiniteSet(Bound(t))
    BY ExposureFinite
  <2>2. Cardinality(Exposed(t) \cup {o}) = Cardinality(Exposed(t)) + 1
    BY <1>2, <2>1, FS_AddElement
  <2>3. Cardinality(Bound(t)') \in Nat /\ Cardinality(Bound(t)') <= Cardinality(Bound(t))
    BY <1>3, <2>1, FS_Subset, FS_CardinalityType
  <2> QED
    BY <1>2, <2>2, <2>3
<1>8. Cardinality(Exposed(t)') + Cardinality(Bound(t)') <= 1 + misses'[t] + lost'[t]
  BY <1>1, <1>4, <1>7, ExposureFinite, BudgetType DEF Budget
<1> QED
  BY <1>6, <1>8 DEF Budget

\* A row that cannot be written lets an order go: a further accident at most.
LEMMA UnloggedBudget ==
  ASSUME Typed, Typed', Budget, NEW k \in Cycle, SubmittedUnlogged(k) \/ FillUnlogged(k)
  PROVE  Budget'
<1>1. Leave(k) /\ UNCHANGED orders /\ UNCHANGED misses
  BY DEF SubmittedUnlogged, FillUnlogged
<1>2. ASSUME NEW s \in Symbol PROVE lost'[s] >= lost[s]
  <2>1. lost'[s] \in {lost[s], lost[s] + 1}
    BY DEF SubmittedUnlogged, FillUnlogged, Typed, TypeOK
  <2> QED
    BY <2>1, BudgetType
<1>3. \A s \in Symbol : misses'[s] >= misses[s]
  BY <1>1, BudgetType
<1>4. \A s \in Symbol : Exposed(s)' \subseteq Exposed(s) /\ Bound(s)' \subseteq Bound(s)
  BY <1>1, LeaveBound, SameOrders
<1> QED
  BY <1>2, <1>3, <1>4, ShrinkBudget DEF Budget

LEMMA CycleBudget ==
  ASSUME Typed, Typed', Budget, NEW k \in Cycle, CycleStep(k) PROVE Budget'
<1>1. CASE CheckFails(k) \/ BreakerRefuses(k)
  <2>1. Leave(k) /\ UNCHANGED <<misses, lost>> /\ UNCHANGED orders
    BY <1>1 DEF CheckFails, BreakerRefuses, history
  <2> QED
    BY <2>1, LeaveBound, SameOrders, KeepBudget
<1>2. CASE PassesBreaker(k) \/ Refused(k) \/ WaitEnds(k) \/ FinishCycle(k)
  <2>1. PICK to : /\ pc' = [pc EXCEPT ![k] = to]
                  /\ to \in {"checked", "sending"} => pc[k] \in {"checked", "sending"}
    BY <1>2 DEF PassesBreaker, Refused, WaitEnds, FinishCycle, SubmitReturns, Goto
  <2>2. UNCHANGED <<misses, lost>> /\ UNCHANGED orders /\ UNCHANGED todo
    BY <1>2 DEF PassesBreaker, Refused, WaitEnds, FinishCycle, history
  <2> QED
    BY <2>1, <2>2, MoveBound, SameOrders, KeepBudget
<1>3. CASE RequestLost(k)
  <2>1. NoAnswer(k) /\ UNCHANGED <<misses, lost>> /\ UNCHANGED orders
    BY <1>3 DEF RequestLost, NoAnswer
  <2> QED
    BY <2>1, NoAnswerBound, SameOrders, KeepBudget
<1>4. CASE LogSubmitted(k)
  <2>1. /\ pc' = [pc EXCEPT ![k] = "wait"] /\ UNCHANGED <<misses, lost>> /\ UNCHANGED todo
    BY <1>4 DEF LogSubmitted, Goto, history
  <2>2. \A s \in Symbol : Exposed(s)' \subseteq Exposed(s)
    BY <1>4, OrderHeld, LogExposed, SameOrders DEF LogSubmitted
  <2> QED
    BY <2>1, <2>2, MoveBound, KeepBudget
<1>5. CASE SeesFill(k)
  <2>1. Leave(k) /\ UNCHANGED <<misses, lost>>
    BY <1>5 DEF SeesFill, history
  <2>2. \A s \in Symbol : Exposed(s)' \subseteq Exposed(s)
    BY <1>5, OrderHeld, LogExposed DEF SeesFill
  <2> QED
    BY <2>1, <2>2, LeaveBound, KeepBudget
<1>6. CASE CancelAndLog(k)
  <2>1. Leave(k) /\ UNCHANGED <<misses, lost>>
    BY <1>6 DEF CancelAndLog
  <2>2. \A s \in Symbol : Exposed(s)' \subseteq Exposed(s)
    <3>1. CASE oid[k] = None
      BY <1>6, <3>1, SameOrders DEF CancelAndLog
    <3>2. CASE oid[k] # None
      <4>1. PICK status, mark : CancelEnds(oid[k], status, mark)
        BY <1>6, <3>2 DEF CancelAndLog, CancelEnds
      <4> QED
        BY <3>2, <4>1, OrderHeld, CancelOne DEF Exposed
    <3> QED
      BY <3>1, <3>2
  <2> QED
    BY <2>1, <2>2, LeaveBound, KeepBudget
<1>7. CASE SubmittedUnlogged(k) \/ FillUnlogged(k)
  BY <1>7, UnloggedBudget
<1>8. CASE CycleRaises(k)
  <2>1. /\ pc' = [pc EXCEPT ![k] = "done"] /\ UNCHANGED orders /\ UNCHANGED <<misses, lost>>
        /\ \A j \in Cycle : j # k => todo'[j] = todo[j]
    BY <1>8 DEF CycleRaises, Goto, history, Typed, TypeOK
  <2> QED
    BY <2>1, MoveBound, SameOrders, KeepBudget
<1> QED
  BY <1>1, <1>2, <1>3, <1>4, <1>5, <1>6, <1>7, <1>8, CheckBudget, AcceptedBudget, AnswerLostBudget
  DEF CycleStep

LEMMA NextBudget == Typed /\ Typed' /\ Budget /\ [Next]_vars => Budget'
<1> SUFFICES ASSUME Typed, Typed', Budget, [Next]_vars PROVE Budget'
  OBVIOUS
<1>1. ASSUME NEW k \in Cycle, NEW batch \in Batches, StartCycle(k, batch) PROVE Budget'
  <2>1. /\ pc' = [pc EXCEPT ![k] = "next"] /\ UNCHANGED orders /\ UNCHANGED <<misses, lost>>
        /\ \A j \in Cycle : j # k => todo'[j] = todo[j]
    BY <1>1 DEF StartCycle, Goto, history, Typed, TypeOK
  <2> QED
    BY <2>1, MoveBound, SameOrders, KeepBudget
<1>2. ASSUME \/ CooldownEnds \/ \E o \in DOMAIN orders : BrokerMoves(o)
             \/ \E position \in Position : PositionClosed(position)
      PROVE  Budget'
  <2>1. UNCHANGED <<pc, todo>> /\ UNCHANGED <<misses, lost>>
    BY <1>2 DEF CooldownEnds, BrokerMoves, PositionClosed, cycleVars, history
  <2>2. \A s \in Symbol : Bound(s)' \subseteq Bound(s)
    BY <2>1 DEF Bound, Job
  <2>3. CASE UNCHANGED orders
    BY <2>1, <2>2, <2>3, SameOrders, KeepBudget
  <2>4. ASSUME NEW o \in DOMAIN orders, BrokerMoves(o) PROVE Budget'
    <3>1. \A s \in Symbol : Exposed(s)' \subseteq Exposed(s)
      <4>1. /\ DOMAIN orders' = DOMAIN orders /\ orders[o].status = "live"
            /\ orders'[o].symbol = orders[o].symbol
            /\ \A x \in DOMAIN orders : x # o => orders'[x] = orders[x]
        <5>1. orders[o].status = "live" /\ \E status : orders' = [orders EXCEPT ![o].status = status]
          BY <2>4 DEF BrokerMoves
        <5>2. orders[o] \in Order /\ orders \in [DOMAIN orders -> Order]
          BY DEF Typed, TypeOK
        <5>3. DOMAIN orders' = DOMAIN orders /\ orders'[o].symbol = orders[o].symbol
          BY <5>1, <5>2 DEF Order
        <5> QED
          BY <5>1, <5>2, <5>3
      <4>2. ASSUME NEW s \in Symbol, NEW x \in Exposed(s)' PROVE x \in Exposed(s)
        <5>1. CASE x = o
          BY <4>1, <4>2, <5>1 DEF Exposed
        <5>2. CASE x # o
          BY <4>1, <4>2, <5>2 DEF Exposed
        <5> QED
          BY <5>1, <5>2
      <4> QED
        BY <4>2
    <3> QED
      BY <2>1, <2>2, <3>1, KeepBudget
  <2>5. ASSUME NEW position \in Position, PositionClosed(position) PROVE Budget'
    <3>1. \A s \in Symbol : Exposed(s)' \subseteq Exposed(s)
      <4>1. /\ DOMAIN orders' = DOMAIN orders
            /\ \A x \in DOMAIN orders :
                 \/ orders'[x] = orders[x]
                 \/ orders'[x] = [orders[x] EXCEPT !.status = "closed"]
        BY <2>5 DEF PositionClosed
      <4>2. \A x \in DOMAIN orders :
              orders'[x] = orders[x] \/ orders'[x].status = "closed"
        BY <4>1 DEF Typed, TypeOK, Order
      <4> QED
        BY <4>1, <4>2 DEF Exposed
    <3> QED
      BY <2>1, <2>2, <3>1, KeepBudget
  <2> QED
    BY <1>2, <2>3, <2>4, <2>5 DEF CooldownEnds
<1>3. CASE UNCHANGED vars
  <2>1. UNCHANGED <<pc, todo>> /\ UNCHANGED <<misses, lost>> /\ UNCHANGED orders
    BY <1>3 DEF vars, cycleVars, history
  <2>2. \A s \in Symbol : Bound(s)' \subseteq Bound(s)
    BY <2>1 DEF Bound, Job
  <2> QED
    BY <2>1, <2>2, SameOrders, KeepBudget
<1>4. CASE Restart
  <2>1. UNCHANGED <<orders, misses>> /\ \A k \in Cycle : pc'[k] \in {"idle", "done"}
    BY <1>4 DEF Restart
  <2>2. \A s \in Symbol : Cardinality(Unrecorded(s)) \in Nat
    <3>1. \A s \in Symbol : Unrecorded(s) \subseteq Cycle
      BY DEF Unrecorded
    <3> QED
      BY <3>1, OrdersAssumption, FS_Subset, FS_CardinalityType
  <2>3. ASSUME NEW s \in Symbol PROVE misses'[s] >= misses[s] /\ lost'[s] >= lost[s]
    <3>1. misses' = misses
      BY <1>4 DEF Restart
    <3>2. lost' = [t \in Symbol |-> lost[t] + Cardinality(Unrecorded(t))]
      BY <1>4 DEF Restart
    <3>3. lost'[s] = lost[s] + Cardinality(Unrecorded(s))
      BY <3>2
    <3> QED
      BY <2>2, <3>1, <3>3, BudgetType
  <2>4. \A s \in Symbol : Bound(s)' \subseteq Bound(s)
    BY <2>1 DEF Bound
  <2> QED
    BY <2>1, <2>3, <2>4, SameOrders, ShrinkBudget DEF Budget
<1> QED
  BY <1>1, <1>2, <1>3, <1>4, CycleBudget DEF Next

(***************************************************************************)
(* However the cycles overlap, retry and restart, a symbol is bought at    *)
(* most once and once more for each accident.                              *)
(***************************************************************************)
THEOREM HoldingsAreBounded == Spec => []HoldingsBounded
<1>1. Spec => []Typed
  BY InitTyped, NextTyped, PTL DEF Spec
<1>2. Typed /\ Budget /\ [Next]_vars => Budget'
  BY NextTyped, NextBudget
<1>3. Spec => []Budget
  BY <1>1, <1>2, InitBudget, PTL DEF Spec
<1>4. Typed /\ Budget => HoldingsBounded
  <2> SUFFICES ASSUME Typed, Budget, NEW s \in Symbol
               PROVE  Cardinality(Exposed(s)) <= 1 + misses[s] + lost[s]
    BY DEF HoldingsBounded
  <2> QED
    BY ExposureFinite, BudgetType DEF Budget
<1> QED
  BY <1>1, <1>3, <1>4, PTL

-----------------------------------------------------------------------------
(***************************************************************************)
(* The breaker: while it is open, each cycle past it may still fail once;  *)
(* once it has opened, every failure while it is closed opens it again.    *)
(***************************************************************************)
Past == {k \in Cycle : pc[k] = "sending"}
Allowed == Threshold - 1 + openings * Cardinality(Cycle)
OutageCounted ==
  Threshold > 0 =>
    /\ open => fails + Cardinality(Past) <= Allowed
    /\ ~open /\ streak = Threshold => fails <= Allowed
    /\ streak < Threshold => ~open /\ openings = 0 /\ fails = streak

LEMMA PastFinite ==
  /\ IsFiniteSet(Past) /\ Cardinality(Past) \in Nat /\ Cardinality(Past) <= Cardinality(Cycle)
  /\ Cardinality(Cycle) \in Nat
<1>1. Past \subseteq Cycle
  BY DEF Past
<1> QED
  BY <1>1, OrdersAssumption, FS_Subset, FS_CardinalityType

LEMMA InitOutage == Init => OutageCounted
BY OrdersAssumption DEF Init, OutageCounted

\* Steps that leave the breaker alone.
LEMMA KeepOutage ==
  ASSUME Typed, OutageCounted, UNCHANGED breaker, open => Past' \subseteq Past
  PROVE  OutageCounted'
<1>1. UNCHANGED <<streak, open, fails, openings>> /\ Allowed' = Allowed
  BY DEF breaker, Allowed
<1>2. ASSUME Threshold > 0, open PROVE fails + Cardinality(Past') <= Allowed
  <2>1. Cardinality(Past') \in Nat /\ Cardinality(Past') <= Cardinality(Past)
    BY <1>2, PastFinite, FS_Subset, FS_CardinalityType
  <2>2. fails \in Nat /\ Allowed \in Int
    BY OrdersAssumption, PastFinite DEF Typed, TypeOK, Allowed
  <2>3. fails + Cardinality(Past) <= Allowed
    BY <1>2 DEF OutageCounted
  <2> QED
    BY <2>1, <2>2, <2>3, PastFinite
<1> QED
  BY <1>1, <1>2 DEF OutageCounted

LEMMA ResetOutage == ASSUME ResetCircuit PROVE OutageCounted'
<1>1. streak' = 0 /\ ~open' /\ fails' = 0 /\ openings' = 0
  BY DEF ResetCircuit
<1> QED
  BY <1>1 DEF OutageCounted

\* A failure of a cycle that was past the breaker.
LEMMA FailOutage ==
  ASSUME Typed, OutageCounted, RecordFailure, NEW k \in Past, Past' \subseteq Past \ {k}
  PROVE  OutageCounted'
<1> DEFINE n == Cardinality(Cycle)
           p == Cardinality(Past)
<1> SUFFICES ASSUME Threshold > 0 PROVE OutageCounted'
  BY DEF OutageCounted
<1>1. n \in Nat /\ p \in Nat /\ p <= n
  BY PastFinite
<1>2. Cardinality(Past') \in Nat /\ Cardinality(Past') <= p - 1
  <2>1. IsFiniteSet(Past \ {k}) /\ Cardinality(Past \ {k}) = p - 1
    BY PastFinite, FS_RemoveElement
  <2> QED
    BY <2>1, FS_Subset, FS_CardinalityType
<1>3. /\ streak \in Nat /\ streak <= Threshold /\ Threshold \in Nat /\ open \in BOOLEAN
      /\ fails \in Nat /\ openings \in Nat
  BY OrdersAssumption DEF Typed, TypeOK
<1>4. /\ streak' = AtMost(streak + 1, Threshold) /\ open' = (open \/ streak' = Threshold)
      /\ fails' = fails + 1 /\ openings' = IF open' /\ ~open THEN openings + 1 ELSE openings
  BY DEF RecordFailure
<1>5. Allowed = Threshold - 1 + openings * n /\ Allowed' = Threshold - 1 + openings' * n
  BY DEF Allowed
<1>6. openings * n \in Nat /\ (openings + 1) * n = openings * n + n
  BY <1>1, <1>3
<1> HIDE DEF n, p
<1>7. CASE streak + 1 < Threshold
  <2>1. streak' = streak + 1 /\ ~open /\ openings = 0 /\ fails = streak
    BY <1>3, <1>4, <1>7 DEF AtMost, OutageCounted
  <2>2. ~open' /\ openings' = 0 /\ fails' = streak' /\ streak' # Threshold
    BY <1>3, <1>4, <1>7, <2>1
  <2> QED
    BY <2>2 DEF OutageCounted
<1>8. CASE streak + 1 >= Threshold
  <2>1. streak' = Threshold
    BY <1>3, <1>4, <1>8 DEF AtMost
  <2>2. open'
    BY <1>4, <2>1
  <2>3. fails' + Cardinality(Past') <= Allowed'
    <3>1. CASE open
      <4>1. fails + p <= Allowed /\ openings' = openings
        BY <1>4, <3>1 DEF OutageCounted, p
      <4> QED
        BY <1>1, <1>2, <1>3, <1>4, <1>5, <1>6, <4>1
    <3>2. CASE ~open
      <4>1. openings' = openings + 1
        BY <1>4, <2>2, <3>2
      <4>2. CASE streak = Threshold
        <5>1. fails <= Allowed
          BY <3>2, <4>2 DEF OutageCounted
        <5> QED
          BY <1>1, <1>2, <1>3, <1>4, <1>5, <1>6, <4>1, <5>1
      <4>3. CASE streak # Threshold
        <5>1. openings = 0 /\ fails = streak /\ streak = Threshold - 1
          BY <1>3, <1>8, <4>3 DEF OutageCounted
        <5>2. openings' * n = n
          BY <1>1, <4>1, <5>1
        <5> QED
          BY <1>1, <1>2, <1>3, <1>4, <1>5, <5>1, <5>2
      <4> QED
        BY <4>2, <4>3
    <3> QED
      BY <3>1, <3>2
  <2> QED
    BY <1>3, <2>1, <2>2, <2>3 DEF OutageCounted
<1> QED
  BY <1>3, <1>7, <1>8

LEMMA MovePast ==
  ASSUME Typed, NEW k \in Cycle, NEW to, to # "sending", pc' = [pc EXCEPT ![k] = to]
  PROVE  Past' = Past \ {k}
BY DEF Past, Typed, TypeOK

LEMMA LeavePast == ASSUME Typed, NEW k \in Cycle, Leave(k) PROVE Past' = Past \ {k}
BY MovePast DEF Leave, Goto

LEMMA CycleOutage ==
  ASSUME Typed, OutageCounted, NEW k \in Cycle,
         CycleStep(k) \/ \E batch \in Batches : StartCycle(k, batch)
  PROVE  OutageCounted'
<1>1. CASE \/ CheckFails(k) \/ BreakerRefuses(k) \/ CancelAndLog(k) \/ SeesFill(k)
           \/ SubmittedUnlogged(k) \/ FillUnlogged(k)
  <2>1. Past' = Past \ {k}
    BY <1>1, LeavePast DEF CheckFails, BreakerRefuses, CancelAndLog, SeesFill,
                           SubmittedUnlogged, FillUnlogged
  <2>2. UNCHANGED breaker \/ ResetCircuit
    BY <1>1 DEF CheckFails, BreakerRefuses, CancelAndLog, SeesFill, SubmittedUnlogged, FillUnlogged
  <2> QED
    BY <2>1, <2>2, KeepOutage, ResetOutage
<1>2. ASSUME \/ \E seen \in Snapshot : CheckPasses(k, seen)
             \/ LogSubmitted(k) \/ WaitEnds(k) \/ FinishCycle(k) \/ CycleRaises(k)
             \/ \E batch \in Batches : StartCycle(k, batch)
      PROVE  OutageCounted'
  <2>1. PICK to : to # "sending" /\ pc' = [pc EXCEPT ![k] = to]
    BY <1>2 DEF CheckPasses, LogSubmitted, WaitEnds, FinishCycle, CycleRaises, StartCycle, Goto
  <2>2. UNCHANGED breaker
    BY <1>2 DEF CheckPasses, LogSubmitted, WaitEnds, FinishCycle, CycleRaises, StartCycle
  <2> QED
    BY <2>1, <2>2, MovePast, KeepOutage
<1>3. CASE PassesBreaker(k)
  <2>1. ~open /\ UNCHANGED breaker
    BY <1>3 DEF PassesBreaker
  <2> QED
    BY <2>1, KeepOutage
<1>4. ASSUME NEW o \in OrderId, Accepted(k, o) PROVE OutageCounted'
  BY <1>4, ResetOutage DEF Accepted
<1>5. CASE Refused(k) \/ NoAnswer(k)
  <2>1. pc[k] = "sending" /\ RecordFailure
    BY <1>5 DEF Refused, NoAnswer
  <2>2. CASE Leave(k)
    BY <2>1, <2>2, LeavePast, FailOutage DEF Past
  <2>3. CASE ~Leave(k)
    <3>1. PICK to : to # "sending" /\ pc' = [pc EXCEPT ![k] = to]
      BY <1>5, <2>3 DEF Refused, NoAnswer, SubmitReturns, Goto
    <3> QED
      BY <2>1, <3>1, MovePast, FailOutage DEF Past
  <2> QED
    BY <2>2, <2>3
<1> QED
  BY <1>1, <1>2, <1>3, <1>4, <1>5 DEF CycleStep, RequestLost, AnswerLost

LEMMA NextOutage == Typed /\ OutageCounted /\ [Next]_vars => OutageCounted'
<1> SUFFICES ASSUME Typed, OutageCounted, [Next]_vars PROVE OutageCounted'
  OBVIOUS
<1>1. CASE CooldownEnds
  <2>1. /\ open /\ ~open' /\ UNCHANGED <<streak, fails, openings>> /\ UNCHANGED cycleVars
    BY <1>1 DEF CooldownEnds
  <2>2. Allowed' = Allowed /\ Allowed \in Int
    BY <2>1, OrdersAssumption, PastFinite DEF Allowed, Typed, TypeOK
  <2>3. Threshold > 0 => fails <= Allowed /\ ~(streak < Threshold)
    <3>1. fails \in Nat
      BY DEF Typed, TypeOK
    <3> QED
      BY <2>1, <2>2, <3>1, PastFinite DEF OutageCounted
  <2> QED
    BY <2>1, <2>2, <2>3 DEF OutageCounted
<1>2. CASE Restart
  BY <1>2, ResetOutage DEF Restart
<1>3. ASSUME \/ \E o \in DOMAIN orders : BrokerMoves(o)
             \/ \E position \in Position : PositionClosed(position)
      PROVE  OutageCounted'
  <2>1. UNCHANGED breaker /\ UNCHANGED pc
    BY <1>3 DEF BrokerMoves, PositionClosed, cycleVars
  <2> QED
    BY <2>1, KeepOutage DEF Past
<1>4. CASE UNCHANGED vars
  <2>1. UNCHANGED breaker /\ UNCHANGED pc
    BY <1>4 DEF vars, cycleVars
  <2> QED
    BY <2>1, KeepOutage DEF Past
<1> QED
  BY <1>1, <1>2, <1>3, <1>4, CycleOutage DEF Next

(***************************************************************************)
(* An outage costs the broker no more orders than the breaker says.        *)
(***************************************************************************)
THEOREM OutageIsBounded == Spec => []OutageBounded
<1>1. Spec => [](Typed /\ OutageCounted)
  BY InitTyped, NextTyped, InitOutage, NextOutage, PTL DEF Spec
<1>2. Typed /\ OutageCounted => OutageBounded
  <2> SUFFICES ASSUME Typed, OutageCounted, Threshold > 0
               PROVE  fails <= Threshold - 1 + openings * Cardinality(Cycle)
    BY DEF OutageBounded
  <2>1. /\ streak \in Nat /\ streak <= Threshold /\ Threshold \in Nat /\ open \in BOOLEAN
        /\ fails \in Nat /\ openings \in Nat
    BY OrdersAssumption DEF Typed, TypeOK
  <2>2. CASE streak < Threshold
    <3>1. openings * Cardinality(Cycle) = 0
      BY <2>1, <2>2, PastFinite DEF OutageCounted
    <3> QED
      BY <2>1, <2>2, <3>1 DEF OutageCounted
  <2>3. CASE streak = Threshold
    <3>1. Allowed \in Int
      BY <2>1, PastFinite DEF Allowed
    <3>2. fails <= Allowed
      BY <2>1, <2>3, <3>1, PastFinite DEF OutageCounted
    <3> QED
      BY <3>2 DEF Allowed
  <2> QED
    BY <2>1, <2>2, <2>3
<1> QED
  BY <1>1, <1>2, PTL

-----------------------------------------------------------------------------
(***************************************************************************)
(* Reports: an id is kept by a cycle, handed to the engine or logged as    *)
(* filled only after the fill was seen, and no later step undoes a fill.   *)
(***************************************************************************)
Said(o) == o \in today \/ (\E k \in Cycle : o \in ids[k]) \/ orders[o].log = "filled"
DidFill(o) == orders[o].status \in {"filled", "closed"}
Reported == \A o \in DOMAIN orders : Said(o) => DidFill(o)

LEMMA InitReported == Init => Reported
BY DEF Init, Reported

LEMMA KeepReported ==
  ASSUME Reported, DOMAIN orders' = DOMAIN orders,
         \A o \in DOMAIN orders : (Said(o)' => Said(o)) /\ (DidFill(o) => DidFill(o)')
  PROVE  Reported'
BY DEF Reported

\* Steps that touch neither the orders nor what was said of them.
LEMMA QuietReported ==
  ASSUME Reported, UNCHANGED orders, UNCHANGED ids, UNCHANGED today PROVE Reported'
<1>1. \A o \in DOMAIN orders : (Said(o)' => Said(o)) /\ (DidFill(o) => DidFill(o)')
  BY DEF Said, DidFill
<1> QED
  BY <1>1, KeepReported

LEMMA AcceptReported ==
  ASSUME Typed, Reported, NEW k \in Cycle, todo[k] # <<>>, NEW o \in OrderId, Accept(k, o),
         UNCHANGED ids, UNCHANGED today
  PROVE  Reported'
<1>1. /\ DOMAIN orders' = DOMAIN orders \cup {o} /\ o \notin DOMAIN orders
      /\ \A x \in DOMAIN orders : orders'[x] = orders[x]
  BY AcceptType
<1>2. orders'[o].log = "none"
  <2>1. orders'[o] = NewOrder(k)
    BY AcceptType
  <2> QED
    BY <2>1 DEF NewOrder
<1>3. ~ Said(o)'
  BY <1>1, <1>2 DEF Said, Typed, TypeOK
<1>4. \A x \in DOMAIN orders : (Said(x)' => Said(x)) /\ (DidFill(x) => DidFill(x)')
  BY <1>1 DEF Said, DidFill
<1> QED
  BY <1>1, <1>3, <1>4 DEF Reported

LEMMA CycleReported ==
  ASSUME Typed, Reported, NEW k \in Cycle,
         CycleStep(k) \/ \E batch \in Batches : StartCycle(k, batch)
  PROVE  Reported'
<1>1. CASE \/ \E seen \in Snapshot : CheckPasses(k, seen)
           \/ CheckFails(k) \/ PassesBreaker(k) \/ BreakerRefuses(k) \/ Refused(k)
           \/ RequestLost(k) \/ SubmittedUnlogged(k) \/ FillUnlogged(k) \/ WaitEnds(k)
           \/ \E batch \in Batches : StartCycle(k, batch)
  <2>1. UNCHANGED orders /\ UNCHANGED ids /\ UNCHANGED today
    BY <1>1 DEF CheckPasses, CheckFails, PassesBreaker, BreakerRefuses, Refused, RequestLost,
                NoAnswer, SubmittedUnlogged, FillUnlogged, WaitEnds, StartCycle
  <2> QED
    BY <2>1, QuietReported
<1>2. ASSUME NEW o \in OrderId, Accepted(k, o) \/ AnswerLost(k, o) PROVE Reported'
  <2>1. /\ todo[k] # <<>> /\ Accept(k, o) /\ UNCHANGED ids /\ UNCHANGED today
    BY <1>2 DEF Accepted, AnswerLost, NoAnswer, Typed, AtWork, Working
  <2> QED
    BY <2>1, AcceptReported
<1>3. CASE LogSubmitted(k)
  <2>1. UNCHANGED ids /\ UNCHANGED today
    BY <1>3 DEF LogSubmitted
  <2>2. CASE oid[k] = None
    BY <1>3, <2>1, <2>2, QuietReported DEF LogSubmitted
  <2>3. CASE oid[k] # None
    <3>1. orders' = [orders EXCEPT ![oid[k]] = [orders[oid[k]] EXCEPT !.log = "submitted"]]
      BY <1>3, <2>3 DEF LogSubmitted, SetLog
    <3>2. DOMAIN orders' = DOMAIN orders
          /\ \A x \in DOMAIN orders : orders'[x].status = orders[x].status
                                      /\ (orders'[x].log = "filled" => orders[x].log = "filled")
      BY <2>3, <3>1, OrderHeld DEF Typed, TypeOK, Order
    <3> QED
      BY <2>1, <3>2, KeepReported DEF Said, DidFill
  <2> QED
    BY <2>2, <2>3
<1>4. CASE SeesFill(k)
  <2>1. /\ oid[k] \in DOMAIN orders /\ DidFill(oid[k])
        /\ ids' = [ids EXCEPT ![k] = @ \cup {oid[k]}] /\ UNCHANGED today
        /\ orders' = [orders EXCEPT ![oid[k]] = [orders[oid[k]] EXCEPT !.log = "filled"]]
    BY <1>4, OrderHeld DEF SeesFill, SetLog, DidFill
  <2>2. /\ DOMAIN orders' = DOMAIN orders
        /\ \A x \in DOMAIN orders : orders'[x].status = orders[x].status
                                    /\ (x # oid[k] => orders'[x] = orders[x])
    BY <2>1 DEF Typed, TypeOK, Order
  <2>3. \A x \in DOMAIN orders : x # oid[k] => (Said(x)' => Said(x))
    BY <2>1, <2>2 DEF Said, Typed, TypeOK
  <2> QED
    BY <2>1, <2>2, <2>3 DEF Reported, DidFill
<1>5. CASE CancelAndLog(k)
  <2>1. UNCHANGED ids /\ UNCHANGED today
    BY <1>5 DEF CancelAndLog
  <2>2. CASE oid[k] = None
    BY <1>5, <2>1, <2>2, QuietReported DEF CancelAndLog
  <2>3. CASE oid[k] # None
    <3>1. PICK status, mark : CancelEnds(oid[k], status, mark)
      BY <1>5, <2>3 DEF CancelAndLog, CancelEnds
    <3>2. DOMAIN orders' = DOMAIN orders
          /\ \A x \in DOMAIN orders :
               /\ orders'[x].log = "filled" => orders[x].log = "filled"
               /\ DidFill(x) => DidFill(x)'
      BY <2>3, <3>1, OrderHeld, CancelOne DEF DidFill
    <3> QED
      BY <2>1, <3>2, KeepReported DEF Said
  <2> QED
    BY <2>2, <2>3
<1>6. CASE FinishCycle(k)
  <2>1. UNCHANGED orders /\ today' = ids[k] /\ ids' = [ids EXCEPT ![k] = {}]
    BY <1>6 DEF FinishCycle
  <2>2. \A o \in DOMAIN orders : (Said(o)' => Said(o)) /\ (DidFill(o) => DidFill(o)')
    BY <2>1 DEF Said, DidFill, Typed, TypeOK
  <2> QED
    BY <2>1, <2>2, KeepReported
<1>7. CASE CycleRaises(k)
  <2>1. UNCHANGED orders /\ UNCHANGED today /\ ids' = [ids EXCEPT ![k] = {}]
    BY <1>7 DEF CycleRaises
  <2>2. \A o \in DOMAIN orders : (Said(o)' => Said(o)) /\ (DidFill(o) => DidFill(o)')
    BY <2>1 DEF Said, DidFill, Typed, TypeOK
  <2> QED
    BY <2>1, <2>2, KeepReported
<1> QED
  BY <1>1, <1>2, <1>3, <1>4, <1>5, <1>6, <1>7 DEF CycleStep

\* What the broker and the other exits do to the orders of a symbol.
LEMMA MoveOrders ==
  ASSUME Typed, \/ \E o \in DOMAIN orders : BrokerMoves(o)
                \/ \E position \in Position : PositionClosed(position)
  PROVE  /\ DOMAIN orders' = DOMAIN orders /\ UNCHANGED <<oid, ids, today, lost, strays>>
         /\ \A x \in DOMAIN orders :
              /\ orders'[x].symbol = orders[x].symbol /\ orders'[x].log = orders[x].log
              /\ \/ orders'[x].status = orders[x].status
                 \/ orders[x].status = "live"
                 \/ orders'[x].status = "closed"
<1>1. ASSUME NEW o \in DOMAIN orders, BrokerMoves(o)
      PROVE  /\ DOMAIN orders' = DOMAIN orders
             /\ \A x \in DOMAIN orders :
                  /\ orders'[x].symbol = orders[x].symbol /\ orders'[x].log = orders[x].log
                  /\ orders'[x].status = orders[x].status \/ orders[x].status = "live"
  <2>1. PICK status \in {"filled", "cut", "cancelled"} :
          orders' = [orders EXCEPT ![o] = [orders[o] EXCEPT !.status = status]]
    BY <1>1 DEF BrokerMoves
  <2> QED
    BY <1>1, <2>1 DEF BrokerMoves, Typed, TypeOK, Order
<1>2. ASSUME NEW position \in Position, PositionClosed(position)
      PROVE  /\ DOMAIN orders' = DOMAIN orders
             /\ \A x \in DOMAIN orders :
                  /\ orders'[x].symbol = orders[x].symbol /\ orders'[x].log = orders[x].log
                  /\ orders'[x].status = orders[x].status \/ orders'[x].status = "closed"
  <2>1. /\ DOMAIN orders' = DOMAIN orders
        /\ \A x \in DOMAIN orders :
             \/ orders'[x] = orders[x]
             \/ orders'[x] = [orders[x] EXCEPT !.status = "closed"]
    BY <1>2 DEF PositionClosed
  <2> QED
    BY <2>1 DEF Typed, TypeOK, Order
<1>3. UNCHANGED <<oid, ids, today, lost, strays>>
  BY DEF BrokerMoves, PositionClosed, cycleVars, history
<1> QED
  BY <1>1, <1>2, <1>3

LEMMA NextReported == Typed /\ Reported /\ [Next]_vars => Reported'
<1> SUFFICES ASSUME Typed, Reported, [Next]_vars PROVE Reported'
  OBVIOUS
<1>1. CASE CooldownEnds \/ UNCHANGED vars
  <2>1. UNCHANGED orders /\ UNCHANGED ids /\ UNCHANGED today
    BY <1>1 DEF CooldownEnds, vars, cycleVars
  <2> QED
    BY <2>1, QuietReported
<1>2. CASE Restart
  <2>1. UNCHANGED orders /\ today' = {} /\ ids' = [k \in Cycle |-> {}]
    BY <1>2 DEF Restart
  <2>2. \A o \in DOMAIN orders : (Said(o)' => Said(o)) /\ (DidFill(o) => DidFill(o)')
    BY <2>1 DEF Said, DidFill
  <2> QED
    BY <2>1, <2>2, KeepReported
<1>3. CASE \/ \E o \in DOMAIN orders : BrokerMoves(o)
           \/ \E position \in Position : PositionClosed(position)
  <2>1. \A x \in DOMAIN orders : Said(x)' => Said(x)
    BY <1>3, MoveOrders DEF Said
  <2>2. \A x \in DOMAIN orders : DidFill(x) => DidFill(x)'
    BY <1>3, MoveOrders DEF DidFill
  <2> QED
    BY <1>3, <2>1, <2>2, MoveOrders, KeepReported
<1> QED
  BY <1>1, <1>2, <1>3, CycleReported DEF Next

(***************************************************************************)
(* Nothing that did not fill is reported as filled.                        *)
(***************************************************************************)
THEOREM ReportsAreTrue == Spec => []ReportedFilled
<1>1. Spec => []Typed
  BY InitTyped, NextTyped, PTL DEF Spec
<1>2. Spec => []Reported
  BY <1>1, InitReported, NextReported, PTL DEF Spec
<1>3. Reported => ReportedFilled
  BY DEF Reported, ReportedFilled, Said, DidFill
<1> QED
  BY <1>2, <1>3, PTL

-----------------------------------------------------------------------------
(***************************************************************************)
(* Shares nobody answers for: counted together with the live orders that   *)
(* nobody watches, since these can come to hold shares at any time.        *)
(***************************************************************************)
Loose(s) == {o \in Exposed(s) : orders[o].log # "filled" /\ ~Watched(o)}
Accounted == \A s \in Symbol : Cardinality(Loose(s)) <= lost[s] + strays[s]

LEMMA LooseFinite ==
  ASSUME Typed, NEW s PROVE IsFiniteSet(Loose(s)) /\ Cardinality(Loose(s)) \in Nat
<1>1. Loose(s) \subseteq Exposed(s)
  BY DEF Loose
<1> QED
  BY <1>1, ExposureFinite, FS_Subset, FS_CardinalityType

LEMMA InitAccounted == Init => Accounted
<1> SUFFICES ASSUME Init, NEW s \in Symbol
             PROVE  Cardinality(Loose(s)) <= lost[s] + strays[s]
  BY DEF Accounted
<1>1. Loose(s) = {} /\ lost[s] = 0 /\ strays[s] = 0
  BY DEF Init, Loose, Exposed
<1> QED
  BY <1>1, FS_EmptySet

LEMMA CountsType ==
  ASSUME Typed, NEW s \in Symbol PROVE lost[s] \in Nat /\ strays[s] \in Nat
BY DEF Typed, TypeOK

LEMMA ShrinkLoose ==
  ASSUME Typed, Typed', Accounted, NEW s \in Symbol, Loose(s)' \subseteq Loose(s),
         lost'[s] + strays'[s] >= lost[s] + strays[s]
  PROVE  Cardinality(Loose(s)') <= lost'[s] + strays'[s]
<1>1. Cardinality(Loose(s)') \in Nat /\ Cardinality(Loose(s)') <= Cardinality(Loose(s))
  BY LooseFinite, FS_Subset, FS_CardinalityType
<1>2. lost'[s] \in Nat /\ strays'[s] \in Nat
  BY DEF Typed, TypeOK
<1> QED
  BY <1>1, <1>2, LooseFinite, CountsType DEF Accounted

LEMMA GrowLoose ==
  ASSUME Typed, Typed', Accounted, NEW s \in Symbol, NEW o, Loose(s)' \subseteq Loose(s) \cup {o},
         lost'[s] + strays'[s] = lost[s] + strays[s] + 1
  PROVE  Cardinality(Loose(s)') <= lost'[s] + strays'[s]
<1>1. /\ IsFiniteSet(Loose(s) \cup {o})
      /\ Cardinality(Loose(s) \cup {o}) \in Nat
      /\ Cardinality(Loose(s) \cup {o}) <= Cardinality(Loose(s)) + 1
  <2>1. IsFiniteSet(Loose(s)) /\ Cardinality(Loose(s)) \in Nat
    BY LooseFinite
  <2>2. /\ IsFiniteSet(Loose(s) \cup {o})
        /\ Cardinality(Loose(s) \cup {o})
             = IF o \in Loose(s) THEN Cardinality(Loose(s)) ELSE Cardinality(Loose(s)) + 1
    BY <2>1, FS_AddElement
  <2> QED
    BY <2>1, <2>2
<1>2. /\ Cardinality(Loose(s)') \in Nat
      /\ Cardinality(Loose(s)') <= Cardinality(Loose(s) \cup {o})
  BY <1>1, FS_Subset, FS_CardinalityType
<1> QED
  BY <1>1, <1>2, LooseFinite, CountsType DEF Accounted

LEMMA KeepAccounted ==
  ASSUME Typed, Typed', Accounted, UNCHANGED <<lost, strays>>,
         \A s \in Symbol : Loose(s)' \subseteq Loose(s)
  PROVE  Accounted'
<1>1. \A s \in Symbol : lost'[s] + strays'[s] >= lost[s] + strays[s]
  BY CountsType
<1> QED
  BY <1>1, ShrinkLoose DEF Accounted

\* An order that was let go by no one cannot become loose by a step that only
\* ends it or logs it.
LEMMA LooseFrom ==
  ASSUME NEW s, NEW Other,
         \A x \in DOMAIN orders' \ Other :
           /\ x \in DOMAIN orders
           /\ orders'[x].symbol = orders[x].symbol
           /\ \/ orders'[x].status = orders[x].status
              \/ orders[x].status = "live" \/ orders'[x].status = "closed"
           /\ orders'[x].log # "filled" => orders[x].log # "filled"
           /\ Watched(x) => Watched(x)'
  PROVE  Loose(s)' \subseteq Loose(s) \cup Other
BY DEF Loose, Exposed

LEMMA SameWatch ==
  ASSUME UNCHANGED orders, \A x \in DOMAIN orders : Watched(x) => Watched(x)', NEW s
  PROVE  Loose(s)' \subseteq Loose(s)
BY DEF Loose, Exposed

\* A cycle that watches nothing lets nothing go.
LEMMA NothingWatched ==
  ASSUME Typed, NEW k \in Cycle, oid[k] = None, NEW x \in DOMAIN orders,
         UNCHANGED oid \/ \E o : oid' = [oid EXCEPT ![k] = o]
  PROVE  Watched(x) => Watched(x)'
<1>1. x # None
  BY OrdersAssumption DEF Typed, TypeOK
<1> QED
  BY <1>1 DEF Watched, Typed, TypeOK

LEMMA CancelAccounted ==
  ASSUME Typed, Typed', Accounted, NEW k \in Cycle, CancelAndLog(k) PROVE Accounted'
<1>1. oid' = [oid EXCEPT ![k] = None] /\ UNCHANGED <<misses, lost>>
  BY DEF CancelAndLog, Leave
<1>2. CASE oid[k] = None
  <2>1. UNCHANGED orders /\ UNCHANGED strays
    BY <1>2 DEF CancelAndLog
  <2> QED
    BY <1>1, <1>2, <2>1, NothingWatched, SameWatch, KeepAccounted
<1>3. CASE oid[k] # None
  <2>1. PICK status, mark : CancelEnds(oid[k], status, mark)
    BY <1>3 DEF CancelAndLog, CancelEnds
  <2>2. /\ oid[k] \in DOMAIN orders /\ orders[oid[k]].symbol \in Symbol
    BY <1>3, OrderHeld DEF Order
  <2>3. /\ DOMAIN orders' = DOMAIN orders
        /\ orders'[oid[k]].symbol = orders[oid[k]].symbol /\ orders'[oid[k]].status = status
        /\ \A x \in DOMAIN orders : x # oid[k] => orders'[x] = orders[x]
    BY <2>1, <2>2, CancelOne
  <2>4. \A x \in DOMAIN orders : x # oid[k] => (Watched(x) => Watched(x)')
    BY <1>1 DEF Watched, Typed, TypeOK
  <2>5. \A s \in Symbol : Loose(s)' \subseteq Loose(s) \cup {oid[k]}
    BY <2>3, <2>4, LooseFrom
  <2>6. \A s \in Symbol : oid[k] \in Loose(s)' => s = orders[oid[k]].symbol /\ status # "cancelled"
    BY <2>2, <2>3 DEF Loose, Exposed
  <2> SUFFICES ASSUME NEW s \in Symbol
               PROVE  Cardinality(Loose(s)') <= lost'[s] + strays'[s]
    BY DEF Accounted
  <2>7. CASE s = orders[oid[k]].symbol /\ status # "cancelled"
    <3>1. strays'[s] = strays[s] + 1 /\ lost'[s] = lost[s]
      BY <1>1, <2>1, <2>7 DEF CancelEnds, Typed, TypeOK
    <3>2. lost'[s] + strays'[s] = lost[s] + strays[s] + 1
      BY <3>1, CountsType
    <3> QED
      BY <2>5, <3>2, GrowLoose
  <2>8. CASE ~ (s = orders[oid[k]].symbol /\ status # "cancelled")
    <3>1. strays'[s] = strays[s] /\ lost'[s] = lost[s]
      BY <1>1, <2>1, <2>2, <2>8 DEF CancelEnds, Typed, TypeOK
    <3>2. lost'[s] + strays'[s] >= lost[s] + strays[s]
      BY <3>1, CountsType
    <3>3. Loose(s)' \subseteq Loose(s)
      BY <2>5, <2>6, <2>8
    <3> QED
      BY <3>2, <3>3, ShrinkLoose
  <2> QED
    BY <2>7, <2>8
<1> QED
  BY <1>2, <1>3

\* A row that cannot be written lets the order go and charges it.
LEMMA UnloggedAccounted ==
  ASSUME Typed, Typed', Accounted, NEW k \in Cycle, SubmittedUnlogged(k) \/ FillUnlogged(k)
  PROVE  Accounted'
<1>1. oid' = [oid EXCEPT ![k] = None] /\ UNCHANGED orders
  BY DEF SubmittedUnlogged, FillUnlogged, Leave
<1>2. CASE oid[k] = None
  <2>1. UNCHANGED <<lost, strays>>
    BY <1>2 DEF SubmittedUnlogged, FillUnlogged
  <2> QED
    BY <1>1, <1>2, <2>1, NothingWatched, SameWatch, KeepAccounted
<1>3. CASE oid[k] # None
  <2>1. PICK t \in Symbol : t = orders[oid[k]].symbol
    BY <1>3, OrderHeld DEF Order
  <2>2. \/ lost' = [lost EXCEPT ![t] = lost[t] + 1] /\ UNCHANGED strays
        \/ strays' = [strays EXCEPT ![t] = strays[t] + 1] /\ UNCHANGED lost
    BY <1>3, <2>1 DEF SubmittedUnlogged, FillUnlogged
  <2>3. \A x \in DOMAIN orders : x # oid[k] => (Watched(x) => Watched(x)')
    BY <1>1 DEF Watched, Typed, TypeOK
  <2>4. \A s \in Symbol : Loose(s)' \subseteq Loose(s) \cup {oid[k]}
    BY <1>1, <2>3, LooseFrom
  <2>5. \A s \in Symbol : oid[k] \in Loose(s)' => s = t
    BY <1>1, <2>1 DEF Loose, Exposed
  <2> SUFFICES ASSUME NEW s \in Symbol
               PROVE  Cardinality(Loose(s)') <= lost'[s] + strays'[s]
    BY DEF Accounted
  <2>6. CASE s = t
    <3>1. \/ lost'[s] = lost[s] + 1 /\ strays'[s] = strays[s]
          \/ lost'[s] = lost[s] /\ strays'[s] = strays[s] + 1
      BY <2>2, <2>6 DEF Typed, TypeOK
    <3>2. lost'[s] + strays'[s] = lost[s] + strays[s] + 1
      BY <3>1, CountsType
    <3> QED
      BY <2>4, <3>2, GrowLoose
  <2>7. CASE s # t
    <3>1. lost'[s] = lost[s] /\ strays'[s] = strays[s]
      BY <2>2, <2>7 DEF Typed, TypeOK
    <3>2. lost'[s] + strays'[s] >= lost[s] + strays[s]
      BY <3>1, CountsType
    <3>3. Loose(s)' \subseteq Loose(s)
      BY <2>4, <2>5, <2>7
    <3> QED
      BY <3>2, <3>3, ShrinkLoose
  <2> QED
    BY <2>6, <2>7
<1> QED
  BY <1>2, <1>3

LEMMA AcceptAccounted ==
  ASSUME Typed, Typed', Accounted, NEW k \in Cycle, NEW o \in OrderId,
         Accepted(k, o) \/ AnswerLost(k, o)
  PROVE  Accounted'
<1>1. /\ todo[k] # <<>> /\ oid[k] = None /\ Accept(k, o)
      /\ UNCHANGED oid \/ \E x : oid' = [oid EXCEPT ![k] = x]
  BY DEF Accepted, AnswerLost, NoAnswer, Leave, Typed, AtWork, Working
<1>2. /\ DOMAIN orders' = DOMAIN orders \cup {o} /\ o \notin DOMAIN orders
      /\ \A x \in DOMAIN orders : orders'[x] = orders[x]
  BY <1>1, AcceptType
<1>3. \A x \in DOMAIN orders : Watched(x) => Watched(x)'
  BY <1>1, NothingWatched
<1>4. \A s \in Symbol : Loose(s)' \subseteq Loose(s) \cup {o}
  BY <1>2, <1>3, LooseFrom
<1>5. CASE Accepted(k, o)
  <2>1. oid'[k] = o /\ UNCHANGED <<lost, strays>>
    BY <1>5 DEF Accepted, history, Typed, TypeOK
  <2>2. \A s \in Symbol : o \notin Loose(s)'
    BY <2>1 DEF Loose, Watched
  <2> QED
    BY <1>4, <2>1, <2>2, KeepAccounted
<1>6. CASE AnswerLost(k, o)
  <2>1. PICK t \in Symbol : t = Job(k).symbol
    BY <1>1, JobType
  <2>2. lost' = [lost EXCEPT ![t] = lost[t] + 1] /\ UNCHANGED strays
    BY <1>6, <2>1 DEF AnswerLost, NoAnswer
  <2>3. orders'[o].symbol = t
    <3>1. orders'[o] = NewOrder(k)
      BY <1>1, AcceptType
    <3> QED
      BY <2>1, <3>1 DEF NewOrder
  <2> SUFFICES ASSUME NEW s \in Symbol
               PROVE  Cardinality(Loose(s)') <= lost'[s] + strays'[s]
    BY DEF Accounted
  <2>4. CASE s = t
    <3>1. lost'[s] + strays'[s] = lost[s] + strays[s] + 1
      <4>1. lost'[s] = lost[s] + 1 /\ strays'[s] = strays[s]
        BY <2>2, <2>4 DEF Typed, TypeOK
      <4> QED
        BY <4>1, CountsType
    <3> QED
      BY <1>4, <3>1, GrowLoose
  <2>5. CASE s # t
    <3>1. lost'[s] = lost[s] /\ strays'[s] = strays[s]
      BY <2>2, <2>5 DEF Typed, TypeOK
    <3>2. lost'[s] + strays'[s] >= lost[s] + strays[s]
      BY <3>1, CountsType
    <3>3. Loose(s)' \subseteq Loose(s)
      BY <1>4, <2>3, <2>5 DEF Loose, Exposed
    <3> QED
      BY <3>2, <3>3, ShrinkLoose
  <2> QED
    BY <2>4, <2>5
<1> QED
  BY <1>5, <1>6

LEMMA CycleAccounted ==
  ASSUME Typed, Typed', Accounted, NEW k \in Cycle,
         CycleStep(k) \/ \E batch \in Batches : StartCycle(k, batch)
  PROVE  Accounted'
<1>1. CASE \/ \E seen \in Snapshot : CheckPasses(k, seen)
           \/ CheckFails(k) \/ PassesBreaker(k) \/ BreakerRefuses(k) \/ Refused(k)
           \/ RequestLost(k) \/ FinishCycle(k) \/ CycleRaises(k)
           \/ \E batch \in Batches : StartCycle(k, batch)
  <2>1. UNCHANGED orders /\ UNCHANGED <<lost, strays>> /\ oid[k] = None
        /\ (UNCHANGED oid \/ \E x : oid' = [oid EXCEPT ![k] = x])
    BY <1>1 DEF CheckPasses, CheckFails, PassesBreaker, BreakerRefuses, Refused, RequestLost,
                NoAnswer, FinishCycle, CycleRaises, StartCycle, Leave, history, Typed, AtWork
  <2> QED
    BY <2>1, NothingWatched, SameWatch, KeepAccounted
<1>2. CASE WaitEnds(k)
  <2>1. UNCHANGED orders /\ UNCHANGED oid /\ UNCHANGED <<lost, strays>>
    BY <1>2 DEF WaitEnds, history
  <2>2. \A x \in DOMAIN orders : Watched(x) => Watched(x)'
    BY <2>1 DEF Watched
  <2> QED
    BY <2>1, <2>2, SameWatch, KeepAccounted
<1>3. CASE LogSubmitted(k)
  <2>1. UNCHANGED oid /\ UNCHANGED <<lost, strays>>
    BY <1>3 DEF LogSubmitted, history
  <2>2. \A x \in DOMAIN orders : Watched(x) => Watched(x)'
    BY <2>1 DEF Watched
  <2>3. CASE oid[k] = None
    BY <1>3, <2>1, <2>2, <2>3, SameWatch, KeepAccounted DEF LogSubmitted
  <2>4. CASE oid[k] # None
    <3>1. orders' = [orders EXCEPT ![oid[k]] = [orders[oid[k]] EXCEPT !.log = "submitted"]]
      BY <1>3, <2>4 DEF LogSubmitted, SetLog
    <3>2. DOMAIN orders' = DOMAIN orders
          /\ \A x \in DOMAIN orders : x # oid[k] => orders'[x] = orders[x]
      BY <3>1
    <3>3. \A s \in Symbol : Loose(s)' \subseteq Loose(s) \cup {oid[k]}
      BY <2>2, <3>2, LooseFrom
    <3>4. \A s \in Symbol : oid[k] \notin Loose(s)'
      BY <2>1 DEF Loose, Watched
    <3> QED
      BY <2>1, <3>3, <3>4, KeepAccounted
  <2> QED
    BY <2>3, <2>4
<1>4. CASE SeesFill(k)
  <2>1. /\ oid[k] \in DOMAIN orders /\ oid' = [oid EXCEPT ![k] = None]
        /\ UNCHANGED <<lost, strays>>
        /\ orders' = [orders EXCEPT ![oid[k]] = [orders[oid[k]] EXCEPT !.log = "filled"]]
    BY <1>4, OrderHeld DEF SeesFill, SetLog, Leave, history
  <2>2. /\ DOMAIN orders' = DOMAIN orders /\ orders'[oid[k]].log = "filled"
        /\ \A x \in DOMAIN orders : x # oid[k] => orders'[x] = orders[x]
    BY <2>1 DEF Typed, TypeOK, Order
  <2>3. \A x \in DOMAIN orders : x # oid[k] => (Watched(x) => Watched(x)')
    BY <2>1 DEF Watched, Typed, TypeOK
  <2>4. \A s \in Symbol : Loose(s)' \subseteq Loose(s) \cup {oid[k]}
    BY <2>2, <2>3, LooseFrom
  <2>5. \A s \in Symbol : oid[k] \notin Loose(s)'
    BY <2>2 DEF Loose
  <2> QED
    BY <2>1, <2>4, <2>5, KeepAccounted
<1> QED
  BY <1>1, <1>2, <1>3, <1>4, CancelAccounted, UnloggedAccounted, AcceptAccounted DEF CycleStep

\* A restart lets go the orders of the cycles that held one, each once.
LEMMA RestartAccounted == ASSUME Typed, Typed', Accounted, Restart PROVE Accounted'
<1> SUFFICES ASSUME NEW s \in Symbol
             PROVE  Cardinality(Loose(s)') <= lost'[s] + strays'[s]
  BY DEF Accounted
<1> DEFINE H == Unrecorded(s) \cup Unwatched(s)
           T == {o \in DOMAIN orders : \E k \in H : oid[k] = o}
           f == [k \in H |-> oid[k]]
<1>1. UNCHANGED orders
  BY DEF Restart
<1>2. lost'[s] = lost[s] + Cardinality(Unrecorded(s))
  <2>1. lost' = [t \in Symbol |-> lost[t] + Cardinality(Unrecorded(t))]
    BY DEF Restart
  <2> QED
    BY <2>1
<1>3. strays'[s] = strays[s] + Cardinality(Unwatched(s))
  <2>1. strays' = [t \in Symbol |-> strays[t] + Cardinality(Unwatched(t))]
    BY DEF Restart
  <2> QED
    BY <2>1
<1>4. /\ IsFiniteSet(Unrecorded(s)) /\ IsFiniteSet(Unwatched(s))
      /\ Cardinality(Unrecorded(s)) \in Nat /\ Cardinality(Unwatched(s)) \in Nat
      /\ H \subseteq Cycle
  <2>1. Unrecorded(s) \subseteq Cycle /\ Unwatched(s) \subseteq Cycle
    BY DEF Unrecorded, Unwatched
  <2> QED
    BY <2>1, OrdersAssumption, FS_Subset, FS_CardinalityType
<1>5. /\ IsFiniteSet(H) /\ Cardinality(H) \in Nat
      /\ Cardinality(H) <= Cardinality(Unrecorded(s)) + Cardinality(Unwatched(s))
  <2>1. /\ IsFiniteSet(H)
        /\ Cardinality(H) = Cardinality(Unrecorded(s)) + Cardinality(Unwatched(s))
                            - Cardinality(Unrecorded(s) \cap Unwatched(s))
    BY <1>4, FS_Union
  <2>2. Unrecorded(s) \cap Unwatched(s) \subseteq Unrecorded(s)
    OBVIOUS
  <2>3. Cardinality(Unrecorded(s) \cap Unwatched(s)) \in Nat
    BY <1>4, <2>2, FS_Subset, FS_CardinalityType
  <2> QED
    BY <1>4, <2>1, <2>3, FS_CardinalityType
<1>6. \A k \in H : oid[k] \in DOMAIN orders
  BY <1>4, OrderHeld DEF Unrecorded, Unwatched
<1>7. f \in Surjection(H, T)
  BY <1>6 DEF Surjection
<1>8. IsFiniteSet(T) /\ Cardinality(T) \in Nat /\ Cardinality(T) <= Cardinality(H)
  BY <1>5, <1>7, FS_Surjection, FS_CardinalityType
<1>9. Loose(s)' \subseteq Loose(s) \cup T
  <2> SUFFICES ASSUME NEW o \in Loose(s)', Watched(o) PROVE o \in T
    BY <1>1 DEF Loose, Exposed
  <2>1. o \in DOMAIN orders /\ orders[o].symbol = s
    BY <1>1 DEF Loose, Exposed
  <2>2. PICK k \in Cycle : oid[k] = o
    BY DEF Watched
  <2>3. oid[k] # None
    BY <2>1, <2>2, OrdersAssumption DEF Typed, TypeOK
  <2>4. k \in H
    BY <2>1, <2>2, <2>3 DEF Unrecorded, Unwatched, Typed, AtWork
  <2> QED
    BY <2>1, <2>2, <2>4
<1> HIDE DEF H, T
<1>10. /\ IsFiniteSet(Loose(s) \cup T) /\ Cardinality(Loose(s) \cup T) \in Nat
       /\ Cardinality(Loose(s) \cup T) <= Cardinality(Loose(s)) + Cardinality(T)
  <2>1. /\ IsFiniteSet(Loose(s) \cup T)
        /\ Cardinality(Loose(s) \cup T)
             = Cardinality(Loose(s)) + Cardinality(T) - Cardinality(Loose(s) \cap T)
    BY <1>8, LooseFinite, FS_Union
  <2>2. Loose(s) \cap T \subseteq T
    OBVIOUS
  <2>3. Cardinality(Loose(s) \cap T) \in Nat
    BY <1>8, <2>2, FS_Subset, FS_CardinalityType
  <2> QED
    BY <1>8, <2>1, <2>3, LooseFinite, FS_CardinalityType
<1>11. Cardinality(Loose(s)') \in Nat /\ Cardinality(Loose(s)') <= Cardinality(Loose(s) \cup T)
  BY <1>9, <1>10, FS_Subset, FS_CardinalityType
<1>12. Cardinality(Loose(s)) <= lost[s] + strays[s]
  BY DEF Accounted
<1> QED
  BY <1>2, <1>3, <1>4, <1>5, <1>8, <1>10, <1>11, <1>12, LooseFinite, CountsType

LEMMA NextAccounted == Typed /\ Typed' /\ Accounted /\ [Next]_vars => Accounted'
<1> SUFFICES ASSUME Typed, Typed', Accounted, [Next]_vars PROVE Accounted'
  OBVIOUS
<1>1. CASE CooldownEnds \/ UNCHANGED vars
  <2>1. UNCHANGED orders /\ UNCHANGED oid /\ UNCHANGED <<lost, strays>>
    BY <1>1 DEF CooldownEnds, vars, cycleVars, history
  <2>2. \A x \in DOMAIN orders : Watched(x) => Watched(x)'
    BY <2>1 DEF Watched
  <2> QED
    BY <2>1, <2>2, SameWatch, KeepAccounted
<1>2. CASE \/ \E o \in DOMAIN orders : BrokerMoves(o)
           \/ \E position \in Position : PositionClosed(position)
  <2>1. \A x \in DOMAIN orders : Watched(x) => Watched(x)'
    BY <1>2, MoveOrders DEF Watched
  <2>2. \A s \in Symbol : Loose(s)' \subseteq Loose(s)
    BY <1>2, <2>1, MoveOrders DEF Loose, Exposed
  <2> QED
    BY <1>2, <2>2, MoveOrders, KeepAccounted
<1> QED
  BY <1>1, <1>2, RestartAccounted, CycleAccounted DEF Next

(***************************************************************************)
(* Shares without a watcher and without a fill in the log are those of     *)
(* lost answers, late cancels and rows that could not be written, however  *)
(* often the process restarts.                                             *)
(***************************************************************************)
THEOREM SharesAreAccounted == Spec => []SharesAccounted
<1>1. Spec => []Typed
  BY InitTyped, NextTyped, PTL DEF Spec
<1>2. Typed /\ Accounted /\ [Next]_vars => Accounted'
  BY NextTyped, NextAccounted
<1>3. Spec => []Accounted
  BY <1>1, <1>2, InitAccounted, PTL DEF Spec
<1>4. Typed /\ Accounted => SharesAccounted
  <2> SUFFICES ASSUME Typed, Accounted, NEW s \in Symbol
               PROVE  Cardinality(Unlogged(s)) <= lost[s] + strays[s]
    BY DEF SharesAccounted
  <2>1. Unlogged(s) \subseteq Loose(s)
    BY DEF Unlogged, Loose
  <2>2. Cardinality(Unlogged(s)) \in Nat /\ Cardinality(Unlogged(s)) <= Cardinality(Loose(s))
    BY <2>1, LooseFinite, FS_Subset, FS_CardinalityType
  <2> QED
    BY <2>2, LooseFinite, CountsType DEF Accounted
<1> QED
  BY <1>1, <1>3, <1>4, PTL
===============================================================================
