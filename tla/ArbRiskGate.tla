---------------------------- MODULE ArbRiskGate ----------------------------
(***************************************************************************)
(* The arb risk stack (layers/l3/risk_checks.py, run_arb_paper), its two   *)
(* checks with memory, and the callers that run it twice for one trade.    *)
(*                                                                         *)
(* M06 estimates the day's loss from the audit_log: FailCost dollars for   *)
(* each of today's ARB_RISK_FAILED rows among the Window newest rows.  The *)
(* other terms are zero: only seed data writes the P&L column of an arb,   *)
(* and the ORDER_FILLED rows of an arb's legs carry no result.  A read of  *)
(* the log that fails is answered with no loss at all: M06 fails open, and *)
(* the model counts the checks that passed that way at the cap.            *)
(*                                                                         *)
(* M09 compares the stake plus the in-memory exposure of the contract with *)
(* the CFTC limit, and then upserts the sum into the cftc_exposure table,  *)
(* from which a backend that starts fills its memory.                      *)
(*                                                                         *)
(* A Caller is a thread that trades arbs (the agent loop, a scheduler job, *)
(* an API request): it first runs the stack to see whether the arb may be  *)
(* traded (the precheck, which logs nothing) and, when it may, calls       *)
(* submit_arb_paper_orders, which runs it again and logs the verdict.  M06 *)
(* reads the log, then M07 and M08 fetch order books, then M09 reads the   *)
(* tracker: other threads move in between.                                 *)
(***************************************************************************)
EXTENDS Integers, FiniteSets

CONSTANTS
  Caller,      \* threads that trade arbs
  Ticker,      \* Kalshi contracts
  Stakes,      \* dollars a check may be asked for
  FailCost,    \* the 25 dollars of a rejected submission
  LossCap,     \* settings.arb_max_daily_loss_usd
  Window,      \* rows M06 reads (500)
  CftcLimit,   \* settings.cftc_contract_limit_usd
  KellySkips,  \* a relaxed paper mode meets Kelly fractions below its floor
  MaxBlind     \* bound: failed reads of the log at the cap, at each check

ASSUME GateAssumption ==
  /\ IsFiniteSet(Caller)
  /\ Stakes \subseteq Nat \ {0}
  /\ FailCost \in Nat \ {0} /\ LossCap \in Nat \ {0}
  /\ Window \in Nat \ {0}
  /\ CftcLimit \in Nat
  /\ KellySkips \in BOOLEAN
  /\ MaxBlind \in Nat

VARIABLES
  log,        \* the kinds of the newest audit rows, log[1] the newest
  exposure,   \* CftcLimitTracker.exposures of the backend process
  table,      \* today's rows of cftc_exposure
  pc,         \* where a caller is
  ticker,     \* the contract it trades
  rejected,   \* history: submissions rejected today, counted up to the cap
  late,       \* history: trades let through since the loss meter is at the cap
  blind,      \* history: checks a failed read let through since then, by check
  traded      \* history: dollars submitted per contract, up to one over the limit

vars == <<log, exposure, table, pc, ticker, rejected, late, blind, traded>>

Rows == {"rejected", "rejected_before", "other"}
Checks == {"pre_loss", "sub_loss"}
NoneBlind == [check \in Checks |-> 0]
PCs == {"idle", "pre_loss", "pre_cftc", "sub_loss", "sub_cftc"}
AtMost(n, bound) == IF n > bound THEN bound ELSE n

\* Mutant of the meter: rows of earlier days count.
LossOf_anyDay(l) == FailCost * Cardinality({i \in 1..Window : l[i] # "other"})
LossOf(l) == FailCost * Cardinality({i \in 1..Window : l[i] = "rejected"})
AtCap(l) == LossOf(l) >= LossCap

Push(kind) == [i \in 1..Window |-> IF i = 1 THEN kind ELSE log[i - 1]]

Init ==
  /\ log = [i \in 1..Window |-> "other"]
  /\ exposure = [t \in Ticker |-> 0]
  /\ table = [t \in Ticker |-> 0]
  /\ pc = [c \in Caller |-> "idle"]
  /\ ticker \in [Caller -> Ticker]
  /\ rejected = 0
  /\ late = 0
  /\ blind = NoneBlind
  /\ traded = [t \in Ticker |-> 0]

Goto(c, to) == pc' = [pc EXCEPT ![c] = to]

\* append_event.  What is counted at the cap starts over below it.
Append(kind, trades) ==
  /\ log' = Push(kind)
  /\ late' = IF AtCap(log') THEN late + trades ELSE 0
  /\ blind' = IF AtCap(log') THEN blind ELSE NoneBlind

-----------------------------------------------------------------------------
\* An opportunity that passed the quality gate: run_arb_paper begins.
Consider(c, t) ==
  /\ pc[c] = "idle"
  /\ ticker' = [ticker EXCEPT ![c] = t]
  /\ Goto(c, "pre_loss")
  /\ UNCHANGED <<log, exposure, table, rejected, late, blind, traded>>

\* Mutant: M06 refuses above the cap only.
PassesLoss_aboveOnly(c) ==
  /\ LossOf(log) <= LossCap
  /\ \/ pc[c] = "pre_loss" /\ Goto(c, "pre_cftc")
     \/ pc[c] = "sub_loss" /\ Goto(c, "sub_cftc")
  /\ UNCHANGED <<log, exposure, table, ticker, rejected, late, blind, traded>>

\* Mutant: the precheck leaves M06 to the submission.
PassesLoss_submissionOnly(c) ==
  /\ \/ pc[c] = "pre_loss" /\ Goto(c, "pre_cftc")
     \/ pc[c] = "sub_loss" /\ ~AtCap(log) /\ Goto(c, "sub_cftc")
  /\ UNCHANGED <<log, exposure, table, ticker, rejected, late, blind, traded>>

\* M06, in the precheck and in the submission.
PassesLoss(c) ==
  /\ ~AtCap(log)
  /\ \/ pc[c] = "pre_loss" /\ Goto(c, "pre_cftc")
     \/ pc[c] = "sub_loss" /\ Goto(c, "sub_cftc")
  /\ UNCHANGED <<log, exposure, table, ticker, rejected, late, blind, traded>>

\* M06 when the read of the log raises: the loss is taken to be 0.
PassesLossUnread(c) ==
  /\ AtCap(log)
  /\ \/ pc[c] = "pre_loss" /\ Goto(c, "pre_cftc")
     \/ pc[c] = "sub_loss" /\ Goto(c, "sub_cftc")
  /\ blind[pc[c]] < MaxBlind
  /\ blind' = [blind EXCEPT ![pc[c]] = @ + 1]
  /\ UNCHANGED <<log, exposure, table, ticker, rejected, late, traded>>

Flush(t, dollars) == table' \in {table, [table EXCEPT ![t] = dollars]}

\* Mutant: the limit is compared without the stake.
PassesCftc_withoutStake(t, stake) ==
  \/ KellySkips /\ UNCHANGED table
  \/ exposure[t] <= CftcLimit /\ Flush(t, exposure[t] + stake)

\* M09.  A Kelly fraction below the floor skips the comparison and the flush
\* in relaxed paper mode; an error of the flush is swallowed.
PassesCftc(t, stake) ==
  \/ KellySkips /\ UNCHANGED table
  \/ exposure[t] + stake <= CftcLimit /\ Flush(t, exposure[t] + stake)

PrecheckPasses(c, stake) ==
  /\ pc[c] = "pre_cftc"
  /\ PassesCftc(ticker[c], stake)
  /\ Goto(c, "sub_loss")
  /\ UNCHANGED <<log, exposure, ticker, rejected, late, blind, traded>>

\* Any check may fail on market data, M06 and M09 on their own; the caller
\* notes the reason and goes on to the next opportunity.
PrecheckRefuses(c) ==
  /\ pc[c] \in {"pre_loss", "pre_cftc"}
  /\ Goto(c, "idle")
  /\ UNCHANGED <<log, exposure, table, ticker, rejected, late, blind, traded>>

\* ARB_RISK_PASSED is logged and the legs go out; nothing adds the stake to
\* the tracker.
Submitted(c, stake) ==
  /\ pc[c] = "sub_cftc"
  /\ PassesCftc(ticker[c], stake)
  /\ Append("other", 1)
  /\ traded' = [traded EXCEPT ![ticker[c]] = AtMost(@ + stake, CftcLimit + 1)]
  /\ Goto(c, "idle")
  /\ UNCHANGED <<exposure, ticker, rejected>>

\* ARB_RISK_FAILED: the rejection itself counts as a loss.
Rejected(c) ==
  /\ pc[c] \in {"sub_loss", "sub_cftc"}
  /\ Append("rejected", 0)
  /\ rejected' = AtMost(rejected + 1, LossCap)
  /\ Goto(c, "idle")
  /\ UNCHANGED <<exposure, table, ticker, traded>>

\* The row of the verdict cannot be written: the exception ends the call before
\* its orders.  M09 may have flushed by then.
SubmissionRaises(c) ==
  /\ pc[c] \in {"sub_loss", "sub_cftc"}
  /\ \/ UNCHANGED table
     \/ pc[c] = "sub_cftc" /\ \E stake \in Stakes : PassesCftc(ticker[c], stake)
  /\ Goto(c, "idle")
  /\ UNCHANGED <<log, exposure, ticker, rejected, late, blind, traded>>

-----------------------------------------------------------------------------
\* Every other component appends to the same log.
OtherEvent ==
  /\ Append("other", 0)
  /\ UNCHANGED <<exposure, table, pc, ticker, rejected, traded>>

\* The meter's day is the UTC date of a row; the table's is the local date.
UtcMidnight ==
  /\ log' = [i \in 1..Window |-> IF log[i] = "rejected" THEN "rejected_before" ELSE log[i]]
  /\ rejected' = 0
  /\ late' = 0 /\ blind' = NoneBlind
  /\ UNCHANGED <<exposure, table, pc, ticker, traded>>

LocalMidnight ==
  /\ table' = [t \in Ticker |-> 0]
  /\ UNCHANGED <<log, exposure, pc, ticker, rejected, late, blind, traded>>

\* GET /api/risk/metrics replaces the tracker's contents by the positions of
\* the equity account, whose symbols are no Kalshi tickers.
RiskMetrics ==
  /\ exposure' = [t \in Ticker |-> 0]
  /\ UNCHANGED <<log, table, pc, ticker, rejected, late, blind, traded>>

\* A backend restart: the threads are gone, the tracker is hydrated from
\* the table, or is empty when that fails.
Restart ==
  /\ exposure' \in {table, [t \in Ticker |-> 0]}
  /\ pc' = [c \in Caller |-> "idle"]
  /\ UNCHANGED <<log, table, ticker, rejected, late, blind, traded>>

Next ==
  \/ \E c \in Caller :
       \/ \E t \in Ticker : Consider(c, t)
       \/ PassesLoss(c) \/ PassesLossUnread(c) \/ PrecheckRefuses(c)
       \/ Rejected(c) \/ SubmissionRaises(c)
       \/ \E stake \in Stakes : PrecheckPasses(c, stake) \/ Submitted(c, stake)
  \/ OtherEvent \/ UtcMidnight \/ LocalMidnight \/ RiskMetrics \/ Restart

Spec == Init /\ [][Next]_vars

-----------------------------------------------------------------------------
TypeOK ==
  /\ log \in [1..Window -> Rows]
  /\ exposure \in [Ticker -> 0..CftcLimit]
  /\ table \in [Ticker -> 0..CftcLimit]
  /\ pc \in [Caller -> PCs]
  /\ ticker \in [Caller -> Ticker]
  /\ rejected \in 0..LossCap
  /\ late \in Nat
  /\ blind \in [Checks -> 0..MaxBlind]
  /\ traded \in [Ticker -> 0..CftcLimit + 1]

(***************************************************************************)
(* The meter counts rejections, and a submission over the cap is itself    *)
(* rejected and counted.  The precheck keeps this from feeding itself: the *)
(* meter passes the cap by less than one rejection per thread, plus one    *)
(* for each precheck that a failed read of the log let through meanwhile.  *)
(***************************************************************************)
MeterBounded ==
  LossOf(log) < LossCap + FailCost * (Cardinality(Caller) + blind["pre_loss"])

(***************************************************************************)
(* A lockout has its cause in today's rejections: whoever is turned away   *)
(* by M06 today, the rejected submissions of today add up to the cap.      *)
(***************************************************************************)
LockoutHasCause == AtCap(log) => FailCost * rejected >= LossCap

(***************************************************************************)
(* M06 is read long before the orders go out.  While the meter stays at    *)
(* the cap, the threads that had read it before let through at most one    *)
(* trade each, and one thread spent its turn on reaching the cap; beyond   *)
(* that a trade goes out only after a failed read of the log.              *)
(***************************************************************************)
LateTradesBounded == AtCap(log) => late < Cardinality(Caller) + blind["sub_loss"]

(***************************************************************************)
(* risk_checks.py: "CFTC $250k contract cap".  No more than the limit is   *)
(* submitted on one contract (counted from the start of the model).        *)
(***************************************************************************)
CftcCapHeld == \A t \in Ticker : traded[t] <= CftcLimit
=============================================================================
