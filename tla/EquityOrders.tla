---------------------------- MODULE EquityOrders ----------------------------
(***************************************************************************)
(* Equity and option orders on the one Alpaca account: order_submission of *)
(* services/engine.py runs ExecutionService.execute (layers/l3) for each   *)
(* proposal of a cycle, through AlpacaBrokerAdapter and its breaker.       *)
(*                                                                         *)
(* The autopilot loop gives a cycle up after ten minutes but cannot stop   *)
(* its thread, and the scheduler and the API submit from threads of their  *)
(* own: cycles overlap, and only the account is shared.  A method is cut   *)
(* at its requests.  A request may fail; the answer to a POST may be lost  *)
(* after the order was accepted.  The broker's side (fills, cancels,       *)
(* positions) is external.  "filled" stands for filled or partially        *)
(* filled, which the code treats alike; sizes and prices are left out.     *)
(***************************************************************************)
EXTENDS Integers, Sequences, FiniteSets

CONSTANTS
  Cycle,        \* runs of order_submission
  Symbol,       \* what is traded
  Batches,      \* the proposal sequences a cycle may come with
  MaxAttempts,  \* settings.broker_submit_max_attempts
  Threshold,    \* settings.broker_circuit_failure_threshold, 0: no breaker
  MaxOpen,      \* settings.max_open_positions
  OrderId,      \* the ids of the broker's orders, as many as it accepts
  None          \* the id of a "failed_..." token

\* place_notional_market_order (a long equity) and the option orders raise
\* transient errors again; place_order (a short equity) answers with an error.
Path == {"long", "short", "option"}
\* What a position is named after: the shares' symbol, or an option contract
\* (of which there is one for each symbol here).
Kind == {"shares", "contract"}
KindOf(path) == IF path = "option" THEN "contract" ELSE "shares"
Proposal == [symbol : Symbol, path : Path]

ASSUME OrdersAssumption ==
  /\ IsFiniteSet(Cycle)
  /\ Batches \subseteq Seq(Proposal)
  /\ MaxAttempts \in Nat \ {0}
  /\ Threshold \in Nat
  /\ MaxOpen \in Nat
  /\ IsFiniteSet(OrderId) /\ None \notin OrderId

VARIABLES
  orders,   \* the broker's orders by id
  streak,   \* _fail_streak, counted up to Threshold
  open,     \* whether _circuit_open_until is in the future
  pc,       \* where a cycle is
  todo,     \* its proposals left, the current one first
  tries,    \* attempts of call_with_retries used
  oid,      \* the order id execute holds
  ids,      \* order_ids of the cycle
  today,    \* engine.todays_order_ids
  misses,   \* history: checks passed while the symbol was exposed unseen
  lost,     \* history: accepted orders whose id nobody recorded
  strays,   \* history: watched orders let go while they held or could hold shares
  fails,    \* history: POSTs failed since the last success the breaker noticed
  openings  \* history: times the breaker opened in that time

cycleVars == <<pc, todo, tries, oid, ids>>
breaker == <<streak, open, fails, openings>>
history == <<misses, lost, strays>>
vars == <<orders, breaker, cycleVars, today, history>>

Status == {"live", "filled", "cut", "cancelled", "closed"}
Marks == {"none", "submitted", "filled", "cancelled"}
Order == [symbol : Symbol, kind : Kind, status : Status, log : Marks]
PCs == {"idle", "next", "checked", "sending", "sent", "wait", "unfilled", "done"}

Job(k) == Head(todo[k])
AtMost(n, bound) == IF n > bound THEN bound ELSE n

\* Orders that hold shares ("cut": cancelled after a part was filled) or may
\* come to hold some, by symbol.
HoldsShares(o) == orders[o].status \in {"filled", "cut"}
Exposed(s) == {o \in DOMAIN orders : orders[o].symbol = s
                                      /\ orders[o].status \in {"live", "filled", "cut"}}
\* Cycles that passed the checks for a symbol and may still send an order.
Bound(s) == {k \in Cycle : pc[k] \in {"checked", "sending"} /\ Job(k).symbol = s}
Position == Symbol \X Kind
PositionOf(o) == <<orders[o].symbol, orders[o].kind>>
Held == {PositionOf(o) : o \in {x \in DOMAIN orders : HoldsShares(x)}}

Init ==
  /\ orders = [o \in {} |-> None]
  /\ streak = 0 /\ open = FALSE /\ fails = 0 /\ openings = 0
  /\ pc = [k \in Cycle |-> "idle"]
  /\ todo = [k \in Cycle |-> <<>>]
  /\ tries = [k \in Cycle |-> 0]
  /\ oid = [k \in Cycle |-> None]
  /\ ids = [k \in Cycle |-> {}]
  /\ today = {}
  /\ misses = [s \in Symbol |-> 0]
  /\ lost = [s \in Symbol |-> 0]
  /\ strays = [s \in Symbol |-> 0]

Goto(k, to) == pc' = [pc EXCEPT ![k] = to]
\* On to the next proposal.
Leave(k) ==
  /\ todo' = [todo EXCEPT ![k] = Tail(@)]
  /\ Goto(k, "next")
  /\ tries' = [tries EXCEPT ![k] = 0]
  /\ oid' = [oid EXCEPT ![k] = None]

-----------------------------------------------------------------------------
\* order_submission begins.
StartCycle(k, batch) ==
  /\ pc[k] = "idle"
  /\ todo' = [todo EXCEPT ![k] = batch]
  /\ Goto(k, "next")
  /\ UNCHANGED <<orders, breaker, tries, oid, ids, today, history>>

\* A request for the positions that fails answers with no positions.
Snapshot == {Held, {}}

\* R13 compares the proposal's symbol, which is the underlying also of an
\* option, with the names of the positions.
Sees(job, seen) == <<job.symbol, "shares">> \in seen

\* Mutant: R13 is not in the list of checks.
PassesRisk_noDuplicateCheck(job, seen) == Cardinality(seen) < MaxOpen

\* R06 and R13 on the snapshot.
PassesRisk(job, seen) == Cardinality(seen) < MaxOpen /\ ~Sees(job, seen)

CheckPasses(k, seen) ==
  /\ pc[k] = "next" /\ todo[k] # <<>>
  /\ PassesRisk(Job(k), seen)
  /\ Goto(k, "checked")
  /\ misses' = [misses EXCEPT ![Job(k).symbol] =
                  IF Exposed(Job(k).symbol) \cup Bound(Job(k).symbol) = {} \/ Sees(Job(k), seen)
                  THEN @ ELSE @ + 1]
  /\ UNCHANGED <<orders, breaker, todo, tries, oid, ids, today, lost, strays>>

\* Any check may fail on its data; RISK_REJECTED is logged.
CheckFails(k) ==
  /\ pc[k] = "next" /\ todo[k] # <<>>
  /\ Leave(k)
  /\ UNCHANGED <<orders, breaker, ids, today, history>>

\* submit_order, on each attempt: the breaker first, the account next, then
\* the POST.
PassesBreaker(k) ==
  /\ pc[k] = "checked"
  /\ ~open
  /\ Goto(k, "sending")
  /\ tries' = [tries EXCEPT ![k] = @ + 1]
  /\ UNCHANGED <<orders, breaker, todo, oid, ids, today, history>>

\* BrokerCircuitOpenError is not transient: the proposal is given up.
BreakerRefuses(k) ==
  /\ pc[k] = "checked"
  /\ open
  /\ Leave(k)
  /\ UNCHANGED <<orders, breaker, ids, today, history>>

ResetCircuit == streak' = 0 /\ open' = FALSE /\ fails' = 0 /\ openings' = 0

\* _record_broker_failure.
RecordFailure ==
  IF Threshold = 0 THEN UNCHANGED breaker
  ELSE /\ streak' = AtMost(streak + 1, Threshold)
       /\ open' = (open \/ streak' = Threshold)
       /\ fails' = fails + 1
       /\ openings' = IF open' /\ ~open THEN openings + 1 ELSE openings

\* The broker accepts the POST of a cycle as order o.
Accept(k, o) ==
  /\ o \notin DOMAIN orders
  /\ orders' = [x \in DOMAIN orders \cup {o} |->
                  IF x = o THEN [symbol |-> Job(k).symbol, kind |-> KindOf(Job(k).path),
                                 status |-> "live", log |-> "none"]
                  ELSE orders[x]]

SubmitReturns(k) == Goto(k, "sent") /\ tries' = [tries EXCEPT ![k] = 0]

Accepted(k, o) ==
  /\ pc[k] = "sending"
  /\ Accept(k, o)
  /\ oid' = [oid EXCEPT ![k] = o]
  /\ ResetCircuit
  /\ SubmitReturns(k)
  /\ UNCHANGED <<todo, ids, today, history>>

\* The broker answers with an error: a "failed_..." token, as if submitted.
Refused(k) ==
  /\ pc[k] = "sending"
  /\ RecordFailure
  /\ oid' = [oid EXCEPT ![k] = None]
  /\ SubmitReturns(k)
  /\ UNCHANGED <<orders, todo, ids, today, history>>

\* Mutant: call_with_retries runs one attempt too many.
MayRetry_oneMore(k) == tries[k] <= MaxAttempts
MayRetry(k) == tries[k] < MaxAttempts

\* The request fails on the network; a retry sends another order.  An error
\* that is not transient, or the last attempt, gives the proposal up.
NoAnswer(k) ==
  /\ pc[k] = "sending"
  /\ RecordFailure
  /\ \/ Job(k).path = "short" /\ SubmitReturns(k) /\ UNCHANGED <<todo, oid>>
     \/ Job(k).path # "short" /\ MayRetry(k) /\ Goto(k, "checked") /\ UNCHANGED <<todo, tries, oid>>
     \/ Job(k).path # "short" /\ Leave(k)
  /\ UNCHANGED <<ids, today, misses, strays>>

\* Before, or after the broker accepted the order.
RequestLost(k) == NoAnswer(k) /\ UNCHANGED <<orders, lost>>
AnswerLost(k, o) ==
  /\ NoAnswer(k)
  /\ Accept(k, o)
  /\ lost' = [lost EXCEPT ![Job(k).symbol] = @ + 1]

SetLog(o, mark) == [orders EXCEPT ![o].log = mark]

\* ORDER_SUBMITTED, also for a token.
LogSubmitted(k) ==
  /\ pc[k] = "sent"
  /\ orders' = IF oid[k] = None THEN orders ELSE SetLog(oid[k], "submitted")
  /\ Goto(k, "wait")
  /\ UNCHANGED <<breaker, todo, tries, oid, ids, today, history>>

\* The row cannot be written: the exception ends execute, and nobody knows
\* the order any more.
SubmittedUnlogged(k) ==
  /\ pc[k] = "sent"
  /\ lost' = IF oid[k] = None THEN lost
             ELSE [lost EXCEPT ![orders[oid[k]].symbol] = @ + 1]
  /\ Leave(k)
  /\ UNCHANGED <<orders, breaker, ids, today, misses, strays>>

\* Mutant: an order that is not refused counts as filled.
SeesFill_notRefused(k) ==
  /\ pc[k] = "wait" /\ oid[k] # None
  /\ orders[oid[k]].status # "cancelled"
  /\ orders' = SetLog(oid[k], "filled")
  /\ ids' = [ids EXCEPT ![k] = @ \cup {oid[k]}]
  /\ UNCHANGED breaker \/ ResetCircuit
  /\ Leave(k)
  /\ UNCHANGED <<today, history>>

\* fast_fill_peek sees the fill (a sold position does not change the status
\* of the order that bought it).  Only monitor_fill resets the breaker.
SeesFill(k) ==
  /\ pc[k] = "wait" /\ oid[k] # None
  /\ orders[oid[k]].status \in {"filled", "closed"}
  /\ orders' = SetLog(oid[k], "filled")
  /\ ids' = [ids EXCEPT ![k] = @ \cup {oid[k]}]
  /\ UNCHANGED breaker \/ ResetCircuit
  /\ Leave(k)
  /\ UNCHANGED <<today, history>>

\* ORDER_FILLED cannot be written: the id does not come back.
FillUnlogged(k) ==
  /\ pc[k] = "wait" /\ oid[k] # None
  /\ orders[oid[k]].status \in {"filled", "closed"}
  /\ strays' = [strays EXCEPT ![orders[oid[k]].symbol] = @ + 1]
  /\ UNCHANGED breaker \/ ResetCircuit
  /\ Leave(k)
  /\ UNCHANGED <<orders, ids, today, misses, lost>>

\* The wait ends without a fill: a terminal status, a token, a timeout, or
\* polls that failed.
WaitEnds(k) ==
  /\ pc[k] = "wait"
  /\ Goto(k, "unfilled")
  /\ UNCHANGED <<orders, breaker, todo, tries, oid, ids, today, history>>

\* Mutant: the order is not cancelled after the wait.
CancelAndLog_noCancel(k) ==
  /\ pc[k] = "unfilled"
  /\ orders' = IF oid[k] = None THEN orders ELSE SetLog(oid[k], "cancelled")
  /\ Leave(k)
  /\ UNCHANGED <<breaker, ids, today, history>>

\* cancel_order, whose answer is not looked at, then ORDER_CANCELLED, unless
\* the row cannot be written.
CancelAndLog(k) ==
  /\ pc[k] = "unfilled"
  /\ IF oid[k] = None THEN UNCHANGED <<orders, strays>>
     ELSE \E status \in IF orders[oid[k]].status = "live" THEN {"live", "cancelled", "cut"}
                        ELSE {orders[oid[k]].status},
               mark \in {"cancelled", orders[oid[k]].log} :
            /\ orders' = [orders EXCEPT ![oid[k]].status = status, ![oid[k]].log = mark]
            /\ strays' = [strays EXCEPT ![orders[oid[k]].symbol] =
                            IF status = "cancelled" THEN @ ELSE @ + 1]
  /\ Leave(k)
  /\ UNCHANGED <<breaker, ids, today, misses, lost>>

\* order_submission ends; a later cycle's ids replace an earlier one's.
FinishCycle(k) ==
  /\ pc[k] = "next" /\ todo[k] = <<>>
  /\ today' = ids[k]
  /\ ids' = [ids EXCEPT ![k] = {}]
  /\ Goto(k, "done")
  /\ UNCHANGED <<orders, breaker, todo, tries, oid, history>>

\* A step outside the handlers raises: the requests before execute, or the
\* row a handler writes.  The ids of the cycle are dropped.
CycleRaises(k) ==
  /\ pc[k] = "next"
  /\ todo' = [todo EXCEPT ![k] = <<>>]
  /\ ids' = [ids EXCEPT ![k] = {}]
  /\ Goto(k, "done")
  /\ UNCHANGED <<orders, breaker, tries, oid, today, history>>

CycleStep(k) ==
  \/ \E seen \in Snapshot : CheckPasses(k, seen)
  \/ CheckFails(k)
  \/ PassesBreaker(k) \/ BreakerRefuses(k)
  \/ \E o \in OrderId : Accepted(k, o) \/ AnswerLost(k, o)
  \/ Refused(k) \/ RequestLost(k)
  \/ LogSubmitted(k) \/ SubmittedUnlogged(k)
  \/ SeesFill(k) \/ FillUnlogged(k) \/ WaitEnds(k) \/ CancelAndLog(k)
  \/ FinishCycle(k) \/ CycleRaises(k)

-----------------------------------------------------------------------------
\* Mutant: the streak starts anew when the cooldown ends.
CooldownEnds_resetsStreak ==
  /\ open
  /\ open' = FALSE /\ streak' = 0
  /\ UNCHANGED <<orders, fails, openings, cycleVars, today, history>>

\* The cooldown is over; the streak stays, so that the next failure opens the
\* breaker again.
CooldownEnds ==
  /\ open
  /\ open' = FALSE
  /\ UNCHANGED <<orders, streak, fails, openings, cycleVars, today, history>>

\* A live order fills, is rejected, or expires, possibly after a part.
BrokerMoves(o) ==
  /\ orders[o].status = "live"
  /\ \E status \in {"filled", "cut", "cancelled"} :
       orders' = [orders EXCEPT ![o].status = status]
  /\ UNCHANGED <<breaker, cycleVars, today, history>>

\* Some exit path sells a whole position.
PositionClosed(position) ==
  /\ position \in Held
  /\ orders' = [o \in DOMAIN orders |->
                  IF PositionOf(o) = position /\ HoldsShares(o)
                  THEN [orders[o] EXCEPT !.status = "closed"] ELSE orders[o]]
  /\ UNCHANGED <<breaker, cycleVars, today, history>>

\* The process stops: what the cycles knew is gone.
Unrecorded(s) == {k \in Cycle : pc[k] = "sent" /\ oid[k] # None /\ orders[oid[k]].symbol = s}
Unwatched(s) == {k \in Cycle : pc[k] \in {"wait", "unfilled"} /\ oid[k] # None
                               /\ orders[oid[k]].symbol = s}
Restart ==
  /\ \E k \in Cycle : pc[k] \notin {"idle", "done"}
  /\ pc' = [k \in Cycle |-> IF pc[k] = "idle" THEN "idle" ELSE "done"]
  /\ todo' = [k \in Cycle |-> <<>>]
  /\ tries' = [k \in Cycle |-> 0]
  /\ oid' = [k \in Cycle |-> None]
  /\ ids' = [k \in Cycle |-> {}]
  /\ today' = {}
  /\ ResetCircuit
  /\ lost' = [s \in Symbol |-> lost[s] + Cardinality(Unrecorded(s))]
  /\ strays' = [s \in Symbol |-> strays[s] + Cardinality(Unwatched(s))]
  /\ UNCHANGED <<orders, misses>>

Next ==
  \/ \E k \in Cycle : CycleStep(k) \/ \E batch \in Batches : StartCycle(k, batch)
  \/ \E o \in DOMAIN orders : BrokerMoves(o)
  \/ \E position \in Position : PositionClosed(position)
  \/ CooldownEnds \/ Restart

Spec == Init /\ [][Next]_vars

-----------------------------------------------------------------------------
TypeOK ==
  /\ DOMAIN orders \subseteq OrderId
  /\ orders \in [DOMAIN orders -> Order]
  /\ streak \in 0..Threshold /\ open \in BOOLEAN
  /\ fails \in Nat /\ openings \in Nat
  /\ pc \in [Cycle -> PCs]
  /\ todo \in [Cycle -> Seq(Proposal)]
  /\ tries \in [Cycle -> 0..MaxAttempts]
  /\ oid \in [Cycle -> DOMAIN orders \cup {None}]
  /\ ids \in [Cycle -> SUBSET DOMAIN orders]
  /\ today \in SUBSET DOMAIN orders
  /\ misses \in [Symbol -> Nat] /\ lost \in [Symbol -> Nat] /\ strays \in [Symbol -> Nat]

(***************************************************************************)
(* A symbol is bought once.  Each further order that holds or may hold     *)
(* shares of it has an accident of its own: a check that could not see the *)
(* exposure (a cycle at work on it, an order not yet filled, a failed      *)
(* request for the positions, an option contract), or an accepted order    *)
(* whose answer, or whose first row of the log, was lost.                  *)
(***************************************************************************)
HoldingsBounded ==
  \A s \in Symbol : Cardinality(Exposed(s)) <= 1 + misses[s] + lost[s]

(***************************************************************************)
(* Shares are accounted for: an order with shares that nobody is watching  *)
(* and the log does not call filled is one whose answer or first row was   *)
(* lost, or one that was let go when its cancel failed or came too late or *)
(* the row of its fill could not be written.                               *)
(***************************************************************************)
Watched(o) == \E k \in Cycle : oid[k] = o
Unlogged(s) == {o \in Exposed(s) : HoldsShares(o) /\ orders[o].log # "filled" /\ ~Watched(o)}
SharesAccounted ==
  \A s \in Symbol : Cardinality(Unlogged(s)) <= lost[s] + strays[s]

(***************************************************************************)
(* What the engine reports as filled was filled: no id it hands to the     *)
(* reconciliation, and no order the log calls filled, is unfilled at the   *)
(* broker, whatever its cycles and their cancels did.                      *)
(***************************************************************************)
ReportedFilled ==
  \A o \in DOMAIN orders :
    o \in today \/ orders[o].log = "filled" => orders[o].status \in {"filled", "closed"}

(***************************************************************************)
(* While the broker fails everything, the breaker keeps the orders sent    *)
(* to it down: Threshold - 1 before it first opens, and then for each      *)
(* cooldown one failure that opens it and one more from each thread that   *)
(* was past the breaker by then.                                           *)
(***************************************************************************)
OutageBounded ==
  Threshold > 0 => fails <= Threshold - 1 + openings * Cardinality(Cycle)
=============================================================================
