# TLA+ models of APEX Autopilot

These modules model the parts of the repository that move (paper) money and
that decide when jobs run: the two-leg arbitrage execution on shared venue
accounts, the risk stack in front of it, equity and option orders on the Alpaca
account, the paths that sell what it holds, and the daily job schedule with its
database guard. Paths below are relative to the repository root; `apex/` stands
for `src/apex/`.

## The system and its parts

Three kinds of activity share one process (and, under `docker-compose.yml`, two
processes share one SQLite file): asyncio loops of `backend_api.py`, threads of
the APScheduler pool, and request handlers.

| Part | State it keeps | Operations | What is hard | What makes it correct |
|---|---|---|---|---|
| Paper venue accounts, order router (`apex/integrations/broker.py`) | per venue a buying power and a dictionary of positions, in memory, no lock | preview, submit, close | shared by all threads; preview and submit are separate | account = bankroll, overdraft and cap bounded |
| Execution service (`apex/layers/l3/execution.py`) | none; locals of a call | `submit_arb_paper_orders`, `execute` | second leg fails, fills time out, the caller is cancelled | legs in order, no quiet naked leg, every call answered |
| Arb state machine (`apex/execution/state_machine.py`) | one state per call | `_fire` | invalid triggers are swallowed | follows the call |
| Kalshi demo venue (`apex/integrations/kalshi_demo_broker.py`, `kalshi_trading.py`) | orders at an exchange | POST, poll | lost answers, late fills, no cancel | as above |
| Risk stack M01-M09, CFTC tracker (`apex/layers/l3/risk_checks.py`, `apex/risk`, `apex/repositories/cftc_persistence.py`) | exposures in memory, `cftc_exposure`, the audit log as a loss meter | `run_arb_paper`, flush, hydrate, metrics | run twice per trade, checks read at different times, a window of 500 rows | lockout bounded and caused, cap kept |
| Arb agents (`apex/services/pm_trading.py`, `world_cup_trading.py`, `backend_api.py`) | none | precheck, submit | overlap of loops, cron and API | one precheck per submission |
| Job schedule (`apex/scheduler`) | in-memory job store; `job_runs` | cron fires, `idempotent_job`, catch-up, shutdown | restarts, two processes, retries, late slots | once a day, truthful rows, work ends |
| SQLite store (`apex/repositories/sqlite_store.py`) | tables | inserts, upserts, reads | select-then-replace across processes | as above |
| Equity execution (`apex/integrations/broker.py`, `alpaca_adapter.py`, `apex/core/retry.py`, `execute`, `engine.order_submission`) | breaker streak and cooldown, orders and positions at Alpaca, `todays_order_ids` | check, submit with retries, wait, cancel | cycles overlap, a retry has no idempotency key, a cancel races a fill, a failed request for positions reads as none | every extra order, unaccounted share and order sent in an outage has a named accident; filled means filled |
| Exits (`apex/services/engine.py`, `loss_cut_brain.py`, `exit_monitor.py`, `apex/integrations/discord_exit_manager.py`, `discord_bot.py`) | positions at Alpaca, `discord_trades` | reviews, flatten, loss cut, Discord exits, signals | several sellers in two processes, stale snapshots, rows opened again | nothing oversold without cause, sales per row bounded, the flatten spares nothing unnamed, rows given up only when unheld |
| Arb scan (`apex/services/arb_scan.py`, `arb_engine.py`) | last result, venue breakers | scan | single flight, coalescing | not yet modelled |
| Arb patch stream (`apex/streaming`, the dashboard's `useArbStore.ts`) | last snapshot, client copy | diff, patch | indices of two different orders | not yet modelled |
| Order-book cache (`apex/cache`) | books in Redis or memory | ingest, read | merge instead of replace in the fallback | not yet modelled |
| Self-improvement | active model | train, promote | promotion against a moving corpus | not yet modelled |
| L0-L2 layers, LLM agents, data adapters, ML, portfolio risk, treasury, accounts, dashboards | | | network reads, text and numbers | not modelled: data to the rest |

Interaction: an agent ranks opportunities, runs the risk stack (precheck) and
calls `submit_arb_paper_orders`, which runs it again, books the Kalshi leg, then
the Polymarket leg on the shared accounts, then awaits the fills in executor
threads. The Polymarket agent spends from the same Polymarket account through
`execute`. The scheduler starts agents from its pool, `backend_api.py` from its
loop; both append to the one audit log that the loss meter reads.

Equity cycles start from `backend_api.py`, the scheduler and the API; they share only the
Alpaca account and the breaker of one adapter. What they buy is sold by the engine's scheduled
reviews and by Discord exit managers, in the application's process and in the bot's.

## Modules

`PaperBrokers` is the two accounts. `ArbExecution` extends it with the calls;
`ArbPair` is what a caller of `submit_arb_paper_orders` may rely on, and
`ArbExecution` implements it under a refinement mapping. `AtomicBooks` is the two accounts as the
code that uses them takes them to be, with broker methods that are one step each and a preview that is
made when the order is entered; `ArbExecution` implements it on one event loop, where a call gives way
only while it awaits its fills, and does not on several threads. `ArbRiskGate`,
`JobRuns`, `EquityOrders` and `PositionExits` stand alone: the last two meet at the Alpaca
account, which each of them sees as an environment that buys (or sells) whenever it likes.
Each has an `MC` module that gives TLC its instances and a `Proofs` module
(`ArbPair` and `PaperBrokers` are proved about in `ArbExecutionProofs`, the books of the two
accounts in `ArbBooksProofs`, which extends it; `FunctionSums` has the lemmas about sums they
need and is about no program). Names ending in a
suffix after an underscore (`PolyPreview_noPower`) are deliberately wrong
variants of the definition they are named after, kept to show that the
properties notice such a bug; no specification uses them.

### PaperBrokers, ArbExecution

* `kBP`, `pBP` are `buying_power`; `kPos`, `pPos` the positions by market value
  (0: no such key). Quantity, price and time of a position are left out.
* A method is cut at the calls it makes, which is where CPython switches
  threads: `submit_yes_leg` is `KalshiReadPower` (reads before `max`),
  `KalshiWritePower`, `KalshiWritePosition`; `preview_order` and `submit_order`
  are `PolyPreviewed`, `PolyTakePower`, `PolyWritePosition`.
* A call of `submit_arb_paper_orders` runs `ArbRefused` or `ArbAccepted`, a leg on
  the configured Kalshi venue, the Polymarket leg or its refusal, then
  `ArbFilled` or `LegImbalance`, `UnwindPop`, `UnwindCredit`. `CycleTimeout` is
  the `asyncio.wait_for` of `pm_agents_loop`. The risk verdict is a free choice
  here; `ArbRiskGate` models it.
* An `EventCall` is `execute` for a Polymarket proposal.
* `Thread`, `EventLoops`, `Occupies`, `ThreadFree`: a thread runs one call at a
  time; on an event loop a call gives the thread up only while it awaits fills.
* `Books` maps the accounts to `AtomicBooks`: a stake between its debit and its store counts as cash on
  Polymarket (`PolyCash`), where the purchase happens at the store, and as a position on Kalshi
  (`KalshiHeld`), where the entry happens at the debit; a position between pop and credit counts as cash.
* On the demo venue `ExchangeMoves` fills or cancels a resting order at any
  time, also after everyone stopped waiting.
* Left out: a router without one of its paper brokers (a configuration error),
  the `mev_detected` and hedge triggers (fired only by `run_paper_flow`, which no
  live path calls), the fallback `_manual_transition` used when the
  `transitions` package is missing.

### ArbRiskGate

* `log` is the newest `Window` rows of `audit_log`; `LossOf` charges `FailCost` for
  each rejection of today among them. The realised P&L term of M06 is zero in
  production: only seed data and tests write `arb_opportunities.pnl`, and the ORDER_FILLED rows that
  `submit_arb_paper_orders` writes for an arb's legs carry neither `pl_realized` nor a `pnl`.
* M06 fails open: `get_today_arb_event_loss_usd` answers 0.0 when its read raises. `PassesLossUnread` is such
  a check at the cap (below it the answer makes no difference); `blind` counts them for each of the
  two checks while the meter stays there, and the bounds of `MeterBounded` and `LateTradesBounded` grow with
  them. `SubmissionRaises` is the verdict's row that cannot be written.
* A caller goes `pre_loss`, `pre_cftc` (precheck), `sub_loss`, `sub_cftc`
  (submission). M01-M05, M07, M08 look at market data only: any check may refuse.
* `exposure` is the in-memory tracker, `table` today's `cftc_exposure`.
  `RiskMetrics` is the metrics endpoint, which replaces the tracker by equity
  positions; `Restart` hydrates it. The two midnights differ: rows carry UTC
  dates, the table the local date.
* `rejected`, `late`, `blind`, `traded` are history variables, `rejected` and `traded` counted
  only up to the bound the properties compare them with.

### JobRuns

* `clock` counts slots of one trading day; `due` is what cron has fired, `run` the
  one instance of a job (`max_instances` is 1), `row` the job's row in `job_runs`.
* `start_job` is two steps (a SELECT, then INSERT OR REPLACE: sqlite3 opens the
  transaction at the second); `finish_job` is one UPDATE.
* `boot` follows `_register_and_bootstrap` and `_catch_up_morning_pipeline`, which run
  before the scheduler starts to serve. `Stop` is SIGTERM, a redeploy or a crash.
* The table can fail (a locked or broken database). In `idempotent_job` the exception ends the thread
  (`StartJobRaises`, before the body; `FinishJobRaises`, after it). The catch-up swallows it: `CatchUpUnguarded`
  runs the chain without its row (`service.py:69`), `CatchUpUnrecorded` leaves the row running, so that a clean
  restart runs the chain again (`service.py:121`).
* `done`, `caught`, `skipped`, `kills`, `overlaps`, `fails` are history variables. `overlaps` counts the runs
  that the SELECT let in while another process was between its own SELECT and its last write, `fails`
  the failures of the table after which a run went unrecorded or unguarded.
* Left out: a body that raises something other than an `Exception` (`SystemExit`), which `idempotent_job` would
  record as a success; none of the bodies does.

### EquityOrders

* `orders` is the broker's side: symbol, status and the last audit mark of each accepted order.
  "filled" also stands for partially filled, which the code treats alike; "cut" is an order cancelled
  after a part filled; "closed" one whose position was sold. Sizes and prices are left out, and
  of the option contracts of an underlying there is one.
* A position is named after its shares or its option contract (`Kind`, `PositionOf`); R13 compares those
  names with the symbol of the proposal, which is the underlying also of an option (`Sees`).
* A `Cycle` is one run of `order_submission`; `equity_autopilot_loop` gives it up after ten minutes but its
  thread goes on, so cycles overlap. Per proposal: `CheckPasses`/`CheckFails` (R06 and R13 on a
  snapshot that a failed request leaves empty; the other checks are a free refusal),
  `PassesBreaker`/`BreakerRefuses`, then the POST: `Accepted`, `Refused` (an error answer becomes a
  `failed_...` token that goes on like an id), `RequestLost`, `AnswerLost`. Long equities and options
  raise a transient error again and are retried; short equities answer with a token.
  `LogSubmitted`, `SeesFill`/`WaitEnds`, `CancelAndLog` follow; `FinishCycle` replaces `todays_order_ids`.
* An audit row that cannot be written ends `execute` with an exception: `SubmittedUnlogged` forgets an
  order the broker has taken, `FillUnlogged` one that filled, and `CancelAndLog` may cancel without its mark.
  The handler in `order_submission` goes on to the next proposal; when it raises itself, or a request outside
  it does, the cycle ends and its ids are dropped (`CycleRaises`).
* `streak`, `open` are the breaker: `CooldownEnds` keeps the streak. `BrokerMoves` and `PositionClosed` are
  Alpaca and the exit paths (external). `Restart` loses what the cycles knew.
* `misses`, `lost`, `strays`, `fails`, `openings` are history variables: the accidents the
  properties charge.

### PositionExits

* `shares` is the position at the broker, `pending` what is on its way out (negative: on its way
  in), `row` and `contract` the status and the contract of each signal's row in `discord_trades`. The row's key
  is made from the message, so `Signal` on an edited message replaces the row and may change its contract.
* An `Engine` worker is `review_position_exits`, its flatten, or the daily-loss branch of `loss_cut_scan`
  (`kind`): `EngineSnapshot`, `ReadTracked` (the contracts it passes over), then `EngineHolds`,
  `EngineCloses` or `CloseRefused` for each contract. A liquidation acts on what is held at that time. A
  review and a flatten pass over a position without an entry price (`unpriced`, which the adapter maps to
  zero) before they decide on it (`PassedOver`); every contract is due only in a loss cut and, with
  `exit_eod_flatten_enabled` (`FlattenOn`), in a flatten (`Due`). The store is read outside the handler, and a
  read that raises ends the review with the rest undone (`ReviewRaises`). Paper positions (`PM:`), which
  a review skips, are not on this account.
* A `Manager` is one pass of `check_and_exit_trades`: `ManagerReadsRows`, `ManagerSnapshot`, then
  `ManagerHolds`, `ManagerGivesUp`, or `ManagerSells` and `RowClosed`. It works with the contracts it
  read (`named`), not with what the rows name by then. It sells the quantity of its
  snapshot, at least one, also of a short position. `Bot` shares its event loop with the signals, so
  `Signal` waits for its pass and for no other. A process that dies in a pass is
  covered by `ManagerHolds` for the rows left and by `ManagerSells` without an answer, and so is an
  `update_discord_trade` that swallows its error. `SalesPerOpening` counts recorded sales: one whose answer or update
  is lost leaves the row open and shows in `OversoldExplained` only.
* `Fills`, `Lapses`, `Buys`, `SellsShort` are the broker and the other orders of the account (external).
* `stale`, `unheld`, `recorded`, `raced` are history variables.

## Runs

| Run | Question | Result |
|---|---|---|
| `ArbPaperLoop` | three arb calls on one loop, paper venues | accounts balance, returned pairs stay held, pair contract, atomic accounts |
| `ArbPaperThreads` | two arb calls and an agent call on a loop and a worker thread | overdraft and cap overrun bounded by the threads, no money created, pair contract |
| `ArbDemoLoop` | three arb calls, demo venue | Polymarket account balances, no overdraft, the state machine follows, pair contract, atomic accounts, every call ends |
| `ArbNakedLeg` | does `(None, None)` mean no leg? | violated: a finding |
| `ArbDemoUnwind` | does an unwind spare other pairs? | violated: a finding |
| `ArbRiskGate` | three threads on the risk stack, reads of the log that fail | lockout bounded and caused, stale trades bounded |
| `ArbCftcCap` | is the contract limit kept? | violated: a finding |
| `JobRunsTwo` | two processes on one table that may fail, up to two stops anywhere | once a day but for kills, overlaps and failures of the table, truthful rows, success final without overlap, work ends |
| `JobRunsLossCut` | does the loss cut run in every slot? | violated: a finding |
| `JobRunsCatchUp` | are the day's orders submitted once? | violated: a finding |
| `EquityOrders` | two overlapping cycles with shares and options, lost requests, answers and audit rows, late fills, a restart | double purchases, unaccounted shares and orders in an outage are charged; filled means filled |
| `PositionExits` | two managers and an engine scan on one contract and one row whose message is edited | overselling explained, sales bounded, flatten and give-ups justified |

### Bounds, and why they are enough

* Arb runs: two Kalshi contracts and two or three Polymarket markets, paired so
  that two arbs share a contract and two share a market; stakes 1 and 2 against
  bankrolls of 2 to 4, so that the floor, the overdraft, the order limit and the
  position cap are all reached. `ArbPaperThreads` has stakes 1 to 3 and a Polymarket bankroll of 4: with
  less, no stale write can bring back a stake that another call has overwritten. Three calls let a pair be returned, a second one
  unwound and a third interleave; calls beyond the threads' number only repeat
  this. Two threads are enough for every race on one read and one write; that the
  bounds hold for n threads is proved.
* `ArbRiskGate`: six rows (one more than a meter in bounds can fill with
  rejections), a cap of two rejections, three threads, one failed read at each check while the meter is at
  the cap (`MaxBlind`): the cap is reached and overrun by all threads at once, and rows age out of the
  window. `ArbCftcCap` has two threads, five rows and no failed read.
  `KellySkips` is FALSE in `ArbCftcCap`, so the counterexample does not need the
  relaxed mode.
* `JobRuns`: slots before and at the order slot and past the catch-up's closing time; two attempts;
  two stops, so that a restart can itself be killed; one failure of the table under the job and one under
  the catch-up (`MaxFails`). The findings' runs have none. `JobRunsTwo` has one job with every slot of
  the day, since jobs share nothing but their process; the behaviours in which the second process
  never starts are those of a single scheduler. The other two runs have the orders' timetable and the loss
  cut's.
* `EquityOrders`: two cycles, each with an option or with an order to buy and then one to sell short, so
  that the same symbol is submitted beside, after and instead of another, under either name; two attempts and a threshold of two, so that a
  retry, the opening and a reopening of the breaker happen; three broker orders, enough for a
  retry whose first answer was lost next to another cycle's order. A third cycle adds a third
  party to the same races; the bounds are proved for any number.
* `PositionExits`: one contract that is held (contracts meet only in the lists a pass works through) and one
  that never is (`Traded`), and one row that names either: a message edited while a manager has its row
  in hand is the case in which names matter. The two managers, one beside the bot and one not, sell it twice
  from snapshots of their own; one scan; at most one contract held, long or short (`MaxShares`), so that every extra sale
  crosses zero.
* Arb, equity and job runs end when the bounded calls or the day are used up, so
  deadlock is not checked there; `ArbRiskGate` and `PositionExits` never stop and are checked.

### Fairness

`ArbExecution!FairSpec` has weak fairness on the steps of a started call: an
asyncio loop and the thread pool go on with what was given to them, the fill wait
is bounded by its own timeout. Nothing makes a call start, the exchange act or the
cycle time out. `EveryCallReturns` is checked on the demo venue, where the fill may never come, may come after
the wait, and the answer to the order may be lost: there the bounded wait is what makes the call end. `JobRuns!FairSpec` has weak fairness on job steps and start steps;
nothing makes the clock tick or a process start or stop. Retries end because
attempts are bounded, not by fairness.
`ArbRiskGate`, `EquityOrders` and `PositionExits` state safety only: a cycle or a pass waits on a broker
that owes it nothing.

## Proofs

All for arbitrary constants under the named assumptions of the modules.

* `ArbExecutionProofs!TypeCorrect`, `ImplementsPair`: the inductive invariant is
  `Inv == TypeOK /\ Phases /\ Exclusive`. `Phases` says what each program point
  implies for the order ids, the job, the audit entries and the result; without it the
  refinement step of `ArbFilled` could not know that both legs were acknowledged.
  `Exclusive` says that two calls occupying one thread are the same call.
* `OverdraftIsBounded`: `Covered` says that buying power minus the previews not yet
  spent stays above the bound; `Exclusive` limits unspent previews to one per
  thread, and the previewing thread has just seen enough buying power for its own.
* `PositionCapIsBounded`: `CapHeld` counts the open keys together with the keys that
  previews are about to open.
* `MachineTellsTheTruth`: `MachineInStep` gives the machine's state at each program point; that every
  trigger is valid where it is fired (`MachineSteps`) is what makes the swallowed ones harmless.
* `ArbBooksProofs`: a broker method takes a value from one number of an account and puts it into
  another in a later step; in between it is in flight in a local of the call. `TotalStep`: counting
  what is in flight (`PolyTotal`), a step changes the account's total in one case, a stored position
  computed from a stale read, and then by the error of that read.
  - `BooksAreBalanced`, `OneThreadMoneyIsNeverCreated` for one thread (`OneThread`) and either venue:
    calls share a thread only at an await, so what a call read is what it overwrites (`ReadsFresh`) and
    the totals are exact (`PolyExact`, `KalshiExact`). With several threads updates are lost and the
    books do not balance.
  - `PairsAreHeld` for one thread and the paper venues: each position is the sum of the stakes stored
    on it (`PairsBacked`), of which a returned pair's is one, and nothing is unwound. On the demo venue
    it is false, finding 2.
  - `PaperMoneyIsNeverCreated` for any number of threads on the paper venues. That a stale read is
    never above the position it overwrites is *not* invariant: a stale write can bring back a stake
    that another write lost. The invariant (`PaperLedger`) compares with the stakes ever stored on the
    position (`StoredBy`), which are exact against the buying power: what is brought back was paid
    for. An unwind that races a stale write on the demo venue pays back a position that is still
    there, so several threads on that venue are left out.
  - `ImplementsBooks` for one thread and either venue: every step is a step of `AtomicBooks` or a stutter.
    The order is entered two steps after its preview, so the step that enters it needs that the
    preview still holds (`PreviewsFresh`: limit and cap at both steps, the money at the debit, a buying
    power not below zero after it), next to `ReadsFresh` and, for Kalshi positions, that no second call
    is between its debit and its store (`HeldExact`, `AloneStoring`).
* `FunctionSums`: `SumFunctionOnSet` of the community modules is a recursion over a finite set. `SumUnfold`
  is the one induction, done on sets: if some finite set had no function that sums its subsets, a
  least one would exist (`LeastSubset`, from the well-foundedness of the strict subset relation), and
  it has one. The other lemmas (`SumPick`, `SumChange`, `SumSubset`, `SumMonotone`...) follow from it.
* `JobRunsProofs`: all for any number of processes. `OneCompletionPerDay` needs `Charged`: completions
  and the runs that have not completed yet share one allowance; the first of a day is free as long as
  someone is at work or the row shows it, every other one was let in beside a run or follows a
  kill or a failure of the table. A failed run counts until its row is written, since that write may take a success back.
  `SuccessStays` adds that a day without overlaps has one run at a time and none after a success
  (`OneAtATime`). With one process nothing overlaps: `OneProcessOncePerDay`, `OneProcessSuccessStays`; what is left of the excuses
  of the first are kills and failures of the table.
* `ArbRiskGateProofs`: the window lemma (`ShiftBound`, `PushCounts`) says that a pushed row raises the
  count of rejections by at most itself. `LockoutsAreCaused` keeps the count below the counter
  (`Caused`). `MeterIsBounded` weighs the rejections together with the callers that passed the precheck
  (`MeterCharged`): only they can still add one, and nobody joins them at the cap but after a failed read,
  which is counted. `LateTradesAreBounded` adds to the late trades the callers past the submission's M06
  (`LateCounted`); the step that reaches the cap takes one away, a failed read adds one on both sides.
* `EquityOrdersProofs`: `Typed` adds to the types that a cycle at work has a proposal and that only a
  cycle at work holds an id (`AtWork`). `HoldingsAreBounded` needs `Budget`: the exposed orders of a symbol
  and the cycles bound to send one share the same allowance, since a check that passes takes
  its share before its order exists. `OutageIsBounded` counts with the failures the cycles that
  are past an open breaker (`OutageCounted`). `ReportsAreTrue` is inductive once the ids a cycle has
  gathered are covered too (`Reported`). `SharesAreAccounted` strengthens the property to orders that
  could still fill (`Accounted`): a loose order is charged before it has shares, also when it came loose
  because its row could not be written.
* `PositionExitsProofs`: `OversellingHasACause` needs `Covered`: as long as a contract is not stale for a
  manager, what its snapshot showed is still there to be sold. `SalesAreBounded` counts recorded sales
  together with the managers that still have the row in hand (`Counted`). `FlattenLeavesNothingElse` and
  `GivenUpWasUnheld` (an action property) follow from `Watchful`: what a manager does not see is known
  to be unheld, whatever contract its rows name by then, and what a flatten saw is still to do, passed over
  by name or for want of an entry price, or sold.

Model-checked only: `EveryCallReturns` and `WorkEnds`, liveness under fairness, which
the provers at hand cannot do. Every other property of a passing run has a theorem, under
the assumption its entry names (one thread, or the paper venues) where the property needs it.

## Findings

1. A refused Polymarket leg leaves the Kalshi leg (`ArbNakedLeg`), against the
   docstring "Submit both arb legs atomically".
2. Unwinding one arb sells the Polymarket legs of others (`ArbDemoUnwind`).
3. The intraday loss cut stops after its first success of the day (`JobRunsLossCut`).
4. A restart in mid-day submits the orders again (`JobRunsCatchUp`).
5. The CFTC limit is compared with single trades only (`ArbCftcCap`).

Observed in the model and not stated as a property: on the demo venue a lost POST
answer leaves an order nobody knows of; a cancelled cycle leaves both legs booked
without a fill in the log; a busy audit log ends a lockout early because only the newest 500
rows are read; M06 lets everything through when it cannot read them; the table the tracker is hydrated from is written by the precheck,
before any fill. The Discord bot cannot trade at present: `discord_bot.py:250`
imports `AuditEvent` from a module that does not define it, inside the `try` that
swallows the error.


Equity orders: `fast_fill_peek` sees a fill without telling the breaker, and a fill seen by
`monitor_fill` resets it although no submission succeeded since; the cycle that ends last owns
`todays_order_ids`, also when it began first; an order cancelled too late stays in the log as cancelled while
its shares are held; an option is never a duplicate for R13, neither of the shares nor of itself.

Job runs: the catch-up returns early without finishing its row when there is no watchlist or scoring
fails, and runs a second time after a failure of the table that it swallowed.

Exits: two rows of one contract would both be sold from one snapshot; a row whose buy has not filled
yet is given up and not opened again when it does; a position without an entry price stays overnight; the engine's loss cut also
sells contracts that Discord rows track, the flatten never does, and the open row of a
rejected signal is enough to keep a contract overnight. The per-position branch at
`loss_cut_brain.py:163` reads `__dict__`, which the slotted `Position` does not have.

Read in the code of parts that are not modelled: the scan keeps its venue breakers in an `ArbEngine`
made anew for every scan, so they never stay open; arb rows get random ids, so the
upsert never replaces one and old rows stay active; the patch stream's replace and remove paths count in the
server's model-score order while the client's array is ordered by net edge, and a patch of
a model field that normalisation dropped fails as a whole.

## Plan

Done: the arb path, the risk gate, job runs, equity orders, position exits and their proofs. Left, in
this order; each item is a module with its `MC` module, runs and proofs.

1. `ArbPatchStream`: server diff and client application, against "the client's document is
   the server's".
2. `ArbScan` (single flight, coalescing, breakers) and `OrderBookCache`.
3. Model promotion.
4. `EquityOrders` and `PositionExits` over one account, instead of each as the other's environment.

## Not modelled

* Data to the rest of the system: market-data adapters, ingestion, scores and LLM verdicts
  (L0-L2), thresholds and sizes, settlement audit, portfolio arithmetic, treasury and fund stubs,
  model training. Their results appear as free choices.
* Authentication, accounts, the local dashboard and marketplace, and the agent gateway: no part in
  trading beyond calling the modelled paths.
* Trading an approved Discord signal: the import described above fails before its order.
* Option contract selection, order sizes, quotes, request signing and payloads.
* `.agents/skills` and other tooling in the repository: scripts and text that the program does not run.
