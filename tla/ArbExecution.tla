---------------------------- MODULE ArbExecution ----------------------------
(***************************************************************************)
(* ExecutionService (layers/l3/execution.py) trading prediction markets    *)
(* through one shared VenueRoutingBroker:                                  *)
(*                                                                         *)
(*   - an ArbCall is one invocation of submit_arb_paper_orders: a Kalshi   *)
(*     YES leg, then a Polymarket NO leg, then a wait for both fills;      *)
(*   - an EventCall is one invocation of execute for a POLYMARKET_EVENT    *)
(*     proposal (the Polymarket agent), which spends from the same         *)
(*     Polymarket account.                                                 *)
(*                                                                         *)
(* A call runs on a thread.  Threads interleave at every step.  A thread   *)
(* in EventLoops runs asyncio coroutines: calls on it interleave only      *)
(* where the coroutine awaits (the fill wait); any other thread runs one   *)
(* call to its end (run_sync, asyncio.to_thread).                          *)
(*                                                                         *)
(* KalshiVenue "paper" is PaperKalshiBroker; "demo" is KalshiDemoBroker,   *)
(* which sends real orders to an exchange that answers late, or not.       *)
(***************************************************************************)
EXTENDS PaperBrokers

CONSTANTS
  ArbCall, EventCall,   \* invocations, one behaviour step sequence each
  Thread, EventLoops,   \* the threads that share the broker
  Arbs,                 \* opportunities: records [ticker, key]
  EventKeys,            \* positions the Polymarket agent proposes
  Stakes,               \* stakes the Kelly sizing can return
  KalshiVenue,          \* "paper" or "demo"
  None

Call == ArbCall \cup EventCall

ASSUME ArbAssumption ==
  /\ ArbCall \cap EventCall = {}
  /\ IsFiniteSet(Call) /\ IsFiniteSet(Thread) /\ Thread # {}
  /\ EventLoops \subseteq Thread
  /\ Arbs \subseteq [ticker : KalshiKeys, key : PolyKeys]
  /\ EventKeys \subseteq PolyKeys
  /\ Stakes \subseteq Nat \ {0}
  /\ KalshiVenue \in {"paper", "demo"}

Jobs == [thread : Thread, ticker : KalshiKeys \cup {None}, key : PolyKeys, stake : Stakes]
ASSUME NoneIsNoJob == None \notin Jobs

VARIABLES
  job,      \* the arguments and the thread of a call, None before it starts
  pc,       \* where the call is
  old,      \* the value a call read before a call-out and will write from
  sm,       \* ArbExecutionStateMachine.state
  kOrder,   \* kalshi_order_id has been assigned
  pOrder,   \* poly_order_id has been assigned
  exch,     \* the order at the Kalshi exchange (demo venue)
  audit,    \* the AuditEvents appended: pairs <<event, call>>
  result    \* what the call returned

callVars == <<job, pc, old, sm, kOrder, pOrder, exch, audit, result>>
vars == <<brokerVars, callVars>>

PCs == {"idle", "leg1", "k_debit", "k_store", "leg2", "p_debit", "p_store",
        "fills", "unwind", "credit", "done"}

(***************************************************************************)
(* The arb state machine: its transition table, and _fire, which leaves    *)
(* the state alone when the trigger is not valid in it.                    *)
(***************************************************************************)
SMStates == {"predictive_entry", "leg_1_pending", "leg_1_filled", "route_to_dex",
             "leg_2_pending", "fully_hedged", "timeout_abort"}

SMTable ==
  { <<"submit_leg1", "predictive_entry", "leg_1_pending">>,
    <<"fill_leg1",   "leg_1_pending",    "leg_1_filled">>,
    <<"timeout",     "leg_1_pending",    "timeout_abort">>,
    <<"route_dex",   "leg_1_filled",     "route_to_dex">>,
    <<"submit_leg2", "route_to_dex",     "leg_2_pending">>,
    <<"fill_leg2",   "leg_2_pending",    "fully_hedged">> }

Fire(state, trigger) ==
  IF \E s \in SMStates : <<trigger, state, s>> \in SMTable
  THEN CHOOSE s \in SMStates : <<trigger, state, s>> \in SMTable
  ELSE state

\* Mutant: route_dex is not fired, and the triggers after it fall flat.
Leg1Done_noRoute(state) == Fire(Fire(state, "fill_leg1"), "submit_leg2")

Leg1Done(state) == Fire(Fire(Fire(state, "fill_leg1"), "route_dex"), "submit_leg2")

AuditEvents == {"ARB_RISK_FAILED", "ARB_RISK_PASSED", "POLY_LEG_FAILED", "LEG_IMBALANCE",
                "KALSHI_FILLED", "POLY_FILLED", "ARB_PAPER_SUBMITTED",
                "RISK_REJECTED", "ORDER_SUBMITTED", "ORDER_FILLED"}

Log(c, events) == audit' = audit \cup (events \X {c})

(***************************************************************************)
(* Threads.  A call occupies its thread from its first step to its last,   *)
(* except while a coroutine awaits its fills on an event loop.             *)
(***************************************************************************)
\* Mutant: the preview is awaited, and another call may run before the order.
Awaiting_alsoPreview(c) == pc[c] \in {"fills", "p_debit"} /\ job[c].thread \in EventLoops

Awaiting(c) == pc[c] = "fills" /\ job[c].thread \in EventLoops
Occupies(c) == pc[c] \notin {"idle", "done"} /\ ~Awaiting(c)
ThreadFree(t) == \A d \in Call : Occupies(d) => job[d].thread # t
MayResume(c) == Awaiting(c) => ThreadFree(job[c].thread)

Goto(c, to) == pc' = [pc EXCEPT ![c] = to]

Return(c, value) ==
  /\ Goto(c, "done")
  /\ result' = [result EXCEPT ![c] = value]

Init ==
  /\ BrokerInit
  /\ job = [c \in Call |-> None]
  /\ pc = [c \in Call |-> "idle"]
  /\ old = [c \in Call |-> 0]
  /\ sm = [c \in Call |-> "predictive_entry"]
  /\ kOrder = [c \in Call |-> FALSE]
  /\ pOrder = [c \in Call |-> FALSE]
  /\ exch = [c \in Call |-> "none"]
  /\ audit = {}
  /\ result = [c \in Call |-> "pending"]

(***************************************************************************)
(* submit_arb_paper_orders, up to the first leg: Kelly stake, run_arb_paper*)
(* (here a free choice: its inputs are market data), and the audit event.  *)
(***************************************************************************)
BeginArb(c, t, arb, stake) ==
  /\ pc[c] = "idle"
  /\ ThreadFree(t)
  /\ job' = [job EXCEPT ![c] = [thread |-> t, ticker |-> arb.ticker,
                                key |-> arb.key, stake |-> stake]]

ArbRefused(c, t, arb, stake) ==
  /\ BeginArb(c, t, arb, stake)
  /\ Log(c, {"ARB_RISK_FAILED"})
  /\ Return(c, "failed")
  /\ UNCHANGED <<brokerVars, old, sm, kOrder, pOrder, exch>>

ArbAccepted(c, t, arb, stake) ==
  /\ BeginArb(c, t, arb, stake)
  /\ Log(c, {"ARB_RISK_PASSED"})
  /\ sm' = [sm EXCEPT ![c] = Fire(@, "submit_leg1")]
  /\ Goto(c, "leg1")
  /\ UNCHANGED <<brokerVars, old, kOrder, pOrder, exch, result>>

(***************************************************************************)
(* Leg 1 on the paper venue: PaperKalshiBroker.submit_yes_leg, cut at its  *)
(* calls to max() and Position().                                          *)
(***************************************************************************)
KalshiReadPower(c) ==
  /\ pc[c] = "leg1" /\ KalshiVenue = "paper"
  /\ old' = [old EXCEPT ![c] = kBP]
  /\ Goto(c, "k_debit")
  /\ UNCHANGED <<brokerVars, job, sm, kOrder, pOrder, exch, audit, result>>

KalshiWritePower(c) ==
  /\ pc[c] = "k_debit"
  /\ KalshiDebit(old[c], job[c].stake)
  /\ old' = [old EXCEPT ![c] = kPos[job[c].ticker]]
  /\ Goto(c, "k_store")
  /\ UNCHANGED <<kPos, pBP, pPos, job, sm, kOrder, pOrder, exch, audit, result>>

KalshiWritePosition(c) ==
  /\ pc[c] = "k_store"
  /\ KalshiStore(job[c].ticker, old[c], job[c].stake)
  /\ kOrder' = [kOrder EXCEPT ![c] = TRUE]
  /\ sm' = [sm EXCEPT ![c] = Leg1Done(@)]
  /\ Goto(c, "leg2")
  /\ UNCHANGED <<kBP, pBP, pPos, job, old, pOrder, exch, audit, result>>

(***************************************************************************)
(* Leg 1 on the demo venue: one POST.  It is accepted, or refused, or its  *)
(* answer is lost after the exchange accepted it; the last two look alike. *)
(***************************************************************************)
DemoLegAccepted(c) ==
  /\ pc[c] = "leg1" /\ KalshiVenue = "demo"
  /\ exch' = [exch EXCEPT ![c] = "resting"]
  /\ kOrder' = [kOrder EXCEPT ![c] = TRUE]
  /\ sm' = [sm EXCEPT ![c] = Leg1Done(@)]
  /\ Goto(c, "leg2")
  /\ UNCHANGED <<brokerVars, job, old, pOrder, audit, result>>

\* Mutant: the handler falls through to the second leg.
DemoLegRaised_fallsThrough(c) ==
  /\ pc[c] = "leg1" /\ KalshiVenue = "demo"
  /\ \E order \in {"none", "resting"} : exch' = [exch EXCEPT ![c] = order]
  /\ sm' = [sm EXCEPT ![c] = Leg1Done(@)]
  /\ Goto(c, "leg2")
  /\ UNCHANGED <<brokerVars, job, old, kOrder, pOrder, audit, result>>

DemoLegRaised(c) ==
  /\ pc[c] = "leg1" /\ KalshiVenue = "demo"
  /\ \E order \in {"none", "resting"} : exch' = [exch EXCEPT ![c] = order]
  /\ sm' = [sm EXCEPT ![c] = Fire(@, "timeout")]
  /\ Return(c, "failed")
  /\ UNCHANGED <<brokerVars, job, old, kOrder, pOrder, audit>>

(***************************************************************************)
(* Leg 2: VenueRoutingBroker.submit_polymarket_paper, a preview and then   *)
(* PaperPolymarketBroker.submit_order, cut at the calls between them.      *)
(***************************************************************************)
PolyPreviewed(c) ==
  /\ pc[c] = "leg2"
  /\ PolyPreview(job[c].key, job[c].stake)
  /\ Goto(c, "p_debit")
  /\ UNCHANGED <<brokerVars, job, old, sm, kOrder, pOrder, exch, audit, result>>

\* Mutants of the refusal: it is not announced; the order ids are returned
\* all the same.
PolyRefused_silent(c) ==
  /\ pc[c] = "leg2"
  /\ ~PolyPreview(job[c].key, job[c].stake)
  /\ Return(c, "failed")
  /\ UNCHANGED <<brokerVars, job, old, sm, kOrder, pOrder, exch, audit>>
PolyRefused_returnsIds(c) ==
  /\ pc[c] = "leg2"
  /\ ~PolyPreview(job[c].key, job[c].stake)
  /\ Return(c, "success")
  /\ UNCHANGED <<brokerVars, job, old, sm, kOrder, pOrder, exch, audit>>

\* The preview refuses: submit_scratch_close only builds a dictionary and
\* scratch_leg1 only logs, so the Kalshi leg stays where it is.
PolyRefused(c) ==
  /\ pc[c] = "leg2"
  /\ ~PolyPreview(job[c].key, job[c].stake)
  /\ Log(c, {"POLY_LEG_FAILED"})
  /\ Return(c, "failed")
  /\ UNCHANGED <<brokerVars, job, old, sm, kOrder, pOrder, exch>>

PolyTakePower(c) ==
  /\ pc[c] = "p_debit"
  /\ PolyDebit(job[c].stake)
  /\ old' = [old EXCEPT ![c] = pPos[job[c].key]]
  /\ Goto(c, "p_store")
  /\ UNCHANGED <<kBP, kPos, pPos, job, sm, kOrder, pOrder, exch, audit, result>>

PolyWritePosition(c) ==
  /\ pc[c] = "p_store"
  /\ PolyStore(job[c].key, old[c], job[c].stake)
  /\ pOrder' = [pOrder EXCEPT ![c] = TRUE]
  /\ IF c \in EventCall THEN Log(c, {"ORDER_SUBMITTED"}) ELSE UNCHANGED audit
  /\ Goto(c, "fills")
  /\ UNCHANGED <<kBP, kPos, pBP, job, old, sm, kOrder, exch, result>>

(***************************************************************************)
(* The fill wait of an arb.  The paper venues always report a fill.  On    *)
(* the demo venue the 30 second wait sees the fill, or gives up: on a      *)
(* timeout, on a terminal status, or on any error of a lookup.             *)
(***************************************************************************)
ArbFilled(c) ==
  /\ c \in ArbCall /\ pc[c] = "fills" /\ MayResume(c)
  /\ KalshiVenue = "demo" => exch[c] = "filled"
  /\ sm' = [sm EXCEPT ![c] = Fire(@, "fill_leg2")]
  /\ Log(c, {"KALSHI_FILLED", "POLY_FILLED", "ARB_PAPER_SUBMITTED"})
  /\ Return(c, "success")
  /\ UNCHANGED <<brokerVars, job, old, kOrder, pOrder, exch>>

\* Mutant: the wait for the Kalshi fill has no deadline of its own.
LegImbalance_terminalOnly(c) ==
  /\ c \in ArbCall /\ pc[c] = "fills" /\ MayResume(c)
  /\ KalshiVenue = "demo" /\ exch[c] = "canceled"
  /\ Log(c, {"LEG_IMBALANCE"})
  /\ Goto(c, "unwind")
  /\ UNCHANGED <<brokerVars, job, old, sm, kOrder, pOrder, exch, result>>

LegImbalance(c) ==
  /\ c \in ArbCall /\ pc[c] = "fills" /\ MayResume(c)
  /\ KalshiVenue = "demo"
  /\ Log(c, {"LEG_IMBALANCE"})
  /\ Goto(c, "unwind")
  /\ UNCHANGED <<brokerVars, job, old, sm, kOrder, pOrder, exch, result>>

\* close_symbol_position("PM:<market>|NO"): pops the whole position, which
\* holds the NO legs of every arb on that market, then credits its value.
UnwindPop(c) ==
  /\ pc[c] = "unwind"
  /\ old' = [old EXCEPT ![c] = pPos[job[c].key]]
  /\ PolyPop(job[c].key)
  /\ Goto(c, "credit")
  /\ UNCHANGED <<kBP, kPos, pBP, job, sm, kOrder, pOrder, exch, audit, result>>

\* Mutant: the call's own stake is credited, not what was popped.
UnwindCredit_ownStake(c) ==
  /\ pc[c] = "credit"
  /\ PolyCredit(job[c].stake)
  /\ Return(c, "failed")
  /\ UNCHANGED <<kBP, kPos, pPos, job, old, sm, kOrder, pOrder, exch, audit>>

UnwindCredit(c) ==
  /\ pc[c] = "credit"
  /\ PolyCredit(old[c])
  /\ Return(c, "failed")
  /\ UNCHANGED <<kBP, kPos, pPos, job, old, sm, kOrder, pOrder, exch, audit>>

\* The agent loop wraps a whole cycle in asyncio.wait_for: its timeout
\* raises CancelledError, which "except Exception" does not catch, at the
\* await of the fills.
CycleTimeout(c) ==
  /\ c \in ArbCall /\ Awaiting(c) /\ MayResume(c)
  /\ Return(c, "cancelled")
  /\ UNCHANGED <<brokerVars, job, old, sm, kOrder, pOrder, exch, audit>>

(***************************************************************************)
(* execute for a POLYMARKET_EVENT proposal: snapshot, preview and risk     *)
(* checks, then submit_order (which previews nothing), then the fill.      *)
(***************************************************************************)
EventJob(t, key, stake) == [thread |-> t, ticker |-> None, key |-> key, stake |-> stake]

EventPassed(c, t, key, stake) ==
  /\ pc[c] = "idle" /\ t \notin EventLoops /\ ThreadFree(t)
  /\ PolyPreview(key, stake)
  /\ job' = [job EXCEPT ![c] = EventJob(t, key, stake)]
  /\ Goto(c, "p_debit")
  /\ UNCHANGED <<brokerVars, old, sm, kOrder, pOrder, exch, audit, result>>

\* Either the preview refuses or one of the other checks does (conviction).
EventRejected(c, t, key, stake) ==
  /\ pc[c] = "idle" /\ t \notin EventLoops /\ ThreadFree(t)
  /\ job' = [job EXCEPT ![c] = EventJob(t, key, stake)]
  /\ Log(c, {"RISK_REJECTED"})
  /\ Return(c, "raised")
  /\ UNCHANGED <<brokerVars, old, sm, kOrder, pOrder, exch>>

EventFilled(c) ==
  /\ c \in EventCall /\ pc[c] = "fills"
  /\ Log(c, {"ORDER_FILLED"})
  /\ Return(c, "success")
  /\ UNCHANGED <<brokerVars, job, old, sm, kOrder, pOrder, exch>>

\* The exchange works on a resting order whether or not anyone waits.
ExchangeMoves(c) ==
  /\ exch[c] = "resting"
  /\ \E outcome \in {"filled", "canceled"} : exch' = [exch EXCEPT ![c] = outcome]
  /\ UNCHANGED <<brokerVars, job, pc, old, sm, kOrder, pOrder, audit, result>>

Begin(c) ==
  \/ c \in ArbCall /\ \E t \in Thread, arb \in Arbs, stake \in Stakes :
                         ArbRefused(c, t, arb, stake) \/ ArbAccepted(c, t, arb, stake)
  \/ c \in EventCall /\ \E t \in Thread, key \in EventKeys, stake \in Stakes :
                         EventPassed(c, t, key, stake) \/ EventRejected(c, t, key, stake)

Advance(c) ==
  \/ KalshiReadPower(c) \/ KalshiWritePower(c) \/ KalshiWritePosition(c)
  \/ DemoLegAccepted(c) \/ DemoLegRaised(c)
  \/ PolyPreviewed(c) \/ PolyRefused(c) \/ PolyTakePower(c) \/ PolyWritePosition(c)
  \/ ArbFilled(c) \/ LegImbalance(c) \/ UnwindPop(c) \/ UnwindCredit(c)
  \/ EventFilled(c)

Next == \E c \in Call : Begin(c) \/ Advance(c) \/ CycleTimeout(c) \/ ExchangeMoves(c)

Spec == Init /\ [][Next]_vars

\* A started call is run by its thread; nothing makes a call start, and
\* neither the exchange nor the cycle timeout owes anyone a step.
FairSpec == Spec /\ \A c \in Call : WF_vars(Advance(c))

-----------------------------------------------------------------------------
TypeOK ==
  /\ kBP \in Nat /\ kPos \in [KalshiKeys -> Nat]
  /\ pBP \in Int /\ pPos \in [PolyKeys -> Nat]
  /\ job \in [Call -> Jobs \cup {None}]
  /\ pc \in [Call -> PCs]
  /\ old \in [Call -> Nat]
  /\ sm \in [Call -> SMStates]
  /\ kOrder \in [Call -> BOOLEAN] /\ pOrder \in [Call -> BOOLEAN]
  /\ exch \in [Call -> {"none", "resting", "filled", "canceled"}]
  /\ audit \subseteq AuditEvents \X Call
  /\ result \in [Call -> {"pending", "failed", "success", "cancelled", "raised"}]

Quiet == \A c \in Call : ~Occupies(c)
StakeOf == [c \in Call |-> IF job[c] = None THEN 0 ELSE job[c].stake]

(***************************************************************************)
(* One event loop: whenever no call is between two awaits, the Polymarket  *)
(* bankroll is exactly the buying power plus the open positions, and the   *)
(* Kalshi buying power is exactly what its positions leave of the bankroll *)
(* (floored at zero).  A leg that was refused, unwound or cancelled half   *)
(* way must not leave the two numbers of an account apart.                 *)
(***************************************************************************)
BooksBalance ==
  Quiet => /\ pBP + PolyBook = PolyBankroll
           /\ KalshiVenue = "paper" =>
                kBP = IF KalshiBankroll > KalshiBook THEN KalshiBankroll - KalshiBook ELSE 0

(***************************************************************************)
(* preview_order checks the buying power and submit_order spends it later, *)
(* without checking again: with n threads the account can be overdrawn,    *)
(* but by at most n - 1 orders; one event loop never overdraws it.         *)
(***************************************************************************)
OverdraftBounded == pBP >= 0 - (Cardinality(Thread) - 1) * MaxOrder

(***************************************************************************)
(* The cap on open positions is checked by the same stale preview: with n  *)
(* threads it is passed by at most n - 1 positions.                        *)
(***************************************************************************)
PositionCapBounded ==
  Cardinality(OpenPolyKeys) <= MaxOpenPositions + Cardinality(Thread) - 1

(***************************************************************************)
(* However the threads interleave, the race on positions[key] can only     *)
(* lose money: buying power and positions never add up to more than the    *)
(* bankroll.                                                               *)
(***************************************************************************)
PolyMoneyNeverCreated == pBP + PolyBook <= PolyBankroll

(***************************************************************************)
(* Every pair a caller was told about (both order ids returned) is still   *)
(* on both books: the position of a market holds at least the stakes of    *)
(* the pairs returned on it.                                               *)
(***************************************************************************)
Pairs(S) == {c \in S : result[c] = "success"}

ReturnedPairsHeld ==
  /\ \A key \in PolyKeys :
       SumFunctionOnSet(StakeOf, {c \in Pairs(Call) : job[c].key = key}) <= pPos[key]
  /\ KalshiVenue = "paper" =>
       \A t \in KalshiKeys :
         SumFunctionOnSet(StakeOf, {c \in Pairs(ArbCall) : job[c].ticker = t}) <= kPos[t]

(***************************************************************************)
(* _fire swallows a trigger that is not valid, so the machine of a call    *)
(* could fall behind it.  It does not: it is fully hedged exactly when the *)
(* caller got both ids, waits for its second leg exactly when an           *)
(* acknowledged first leg is not known to be hedged, and aborts only       *)
(* before a leg is acknowledged.                                           *)
(***************************************************************************)
MachineFollows ==
  \A c \in ArbCall :
    /\ sm[c] = "fully_hedged" <=> result[c] = "success"
    /\ sm[c] = "leg_2_pending" <=> kOrder[c] /\ result[c] # "success"
    /\ sm[c] = "timeout_abort" => result[c] = "failed" /\ ~kOrder[c]

(***************************************************************************)
(* A started call is answered, although the exchange may leave its order   *)
(* resting for ever and the other calls take turns with it on one loop:    *)
(* the fill wait ends by itself, and the loop comes back to every call.    *)
(***************************************************************************)
EveryCallReturns == \A c \in Call : job[c] # None ~> result[c] # "pending"

(***************************************************************************)
(* The calls implement ArbPair: legs in order, ids only for two legs, no   *)
(* leg left behind in silence.                                             *)
(***************************************************************************)
PairLegs == [c \in ArbCall |-> (IF kOrder[c] THEN {"kalshi"} ELSE {}) \cup
                               (IF pOrder[c] THEN {"poly"} ELSE {})]
PairAlarm == {c \in ArbCall : \E e \in {"POLY_LEG_FAILED", "LEG_IMBALANCE"} : <<e, c>> \in audit}
AnswerWord(r) == CASE r = "success" -> "ids"
                   [] r = "failed" -> "none"
                   [] OTHER -> r
PairAnswer == [c \in ArbCall |-> AnswerWord(result[c])]

Pair == INSTANCE ArbPair
          WITH Call <- ArbCall, legs <- PairLegs, alarm <- PairAlarm, answer <- PairAnswer

PairContract == Pair!PairSpec

(***************************************************************************)
(* On one event loop the brokers' methods are atomic (AtomicBooks): what a *)
(* call has taken from one number of an account and not yet put into the   *)
(* other is counted with the other, a stake between its debit and its      *)
(* store, a position between its pop and its credit.  Then each leg is     *)
(* one purchase that could be paid for and was within the limits, each     *)
(* unwind one sale, and no step of any call does anything else.            *)
(***************************************************************************)
PolyInFlight == [c \in Call |-> IF pc[c] = "p_store" THEN job[c].stake
                                ELSE IF pc[c] = "credit" THEN old[c] ELSE 0]
KalshiInFlight == [c \in Call |-> IF pc[c] = "k_store" THEN job[c].stake ELSE 0]

PolyCash == pBP + SumFunctionOnSet(PolyInFlight, Call)
KalshiHeld ==
  [t \in KalshiKeys |->
     kPos[t] + SumFunctionOnSet(KalshiInFlight, {c \in Call : pc[c] = "k_store" /\ job[c].ticker = t})]

Books == INSTANCE AtomicBooks
           WITH kCash <- kBP, kHeld <- KalshiHeld, pCash <- PolyCash, pHeld <- pPos

BooksContract == Books!BooksSpec

(***************************************************************************)
(* The docstring of submit_arb_paper_orders: "Submit both arb legs         *)
(* atomically.  If either leg fails, cancel the other."  A call that       *)
(* answers (None, None) leaves no leg at the Kalshi venue.                 *)
(***************************************************************************)
KalshiLegLive(c) ==
  IF KalshiVenue = "paper" THEN kOrder[c] ELSE exch[c] \in {"resting", "filled"}

AtomicOrNothing == \A c \in ArbCall : result[c] = "failed" => ~KalshiLegLive(c)
=============================================================================
