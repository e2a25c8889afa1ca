---------------------------- MODULE PositionExits ----------------------------
(***************************************************************************)
(* Who sells a position of the Alpaca account.  The engine reviews the     *)
(* positions, flattens them at the end of the day, or closes all of them   *)
(* after a daily loss: it liquidates what is held at that time.  A         *)
(* DiscordExitManager goes through the open rows of discord_trades and     *)
(* sells the quantity its snapshot showed.  The engine's jobs start        *)
(* managers in its own process, run_discord_bot.py keeps another one next  *)
(* to the bot in a second process; they share the account and the rows.    *)
(*                                                                         *)
(* No signal is traded: an approved one fails on an import before its      *)
(* order.  A rejected one is stored as an open row, under a key made from  *)
(* its message: an edited message replaces the row and may change its      *)
(* contract.  Rows of earlier versions may have any status.  The broker's  *)
(* side (fills, rejections, other orders) is external.  Prices, and so     *)
(* which positions are due, are left open.                                 *)
(***************************************************************************)
EXTENDS Integers, FiniteSets

CONSTANTS
  Symbol,     \* contracts
  Message,    \* signals, each the key of at most one row
  Traded,     \* bound: the contracts that are ever held
  Manager,    \* passes of check_and_exit_trades that may overlap
  Bot,        \* the one that shares its process with the bot
  Engine,     \* exit scans of the engine that may overlap
  FlattenOn,  \* exit_eod_flatten_enabled
  MaxShares   \* bound: what is held, long or short

ASSUME ExitsAssumption ==
  /\ Symbol # {} /\ Traded \subseteq Symbol
  /\ FlattenOn \in BOOLEAN
  /\ IsFiniteSet(Manager) /\ Bot \in Manager
  /\ Manager \cap Engine = {}
  /\ MaxShares \in Nat

Worker == Manager \cup Engine

VARIABLES
  shares,   \* the position at the broker, negative when short
  pending,  \* contracts on their way out: sells accepted, not yet filled
  row,      \* discord_trades: the status of a signal's row
  contract, \* and the contract it names
  pc,       \* where a worker is
  kind,     \* which scan an engine worker runs
  view,     \* the positions a worker works from
  unpriced, \* those of them that came without an entry price
  named,    \* the contracts a manager read from the open rows
  left,     \* rows (a manager) or contracts (the engine) still to do
  skip,     \* contracts the engine passes over
  selling,  \* the row whose sale a manager has yet to record
  stale,    \* history: contracts being sold at a worker's snapshot, or sold since
  unheld,   \* history: contracts not held at some time since a pass read its rows
  recorded, \* history: sales recorded for a row since it was last opened
  raced     \* history: what is short was sold on purpose or from a stale view

account == <<shares, pending>>
rows == <<row, contract>>
worker == <<pc, kind, view, unpriced, named, left, skip, selling>>
history == <<stale, unheld, recorded, raced>>
vars == <<account, rows, worker, history>>

Statuses == {"absent", "open", "closed", "closed_manual"}
Kind == {"review", "flatten", "cut"}
Amount == -MaxShares .. MaxShares

\* What will be left when everything on its way has filled.
Net(s) == shares[s] - pending[s]
Open == {m \in Message : row[m] = "open"}
Tracked == {contract[m] : m \in Open}
NoView == [s \in Symbol |-> 0]
SomeSymbol == CHOOSE s \in Symbol : TRUE
NoNames == [m \in Message |-> SomeSymbol]
PCs == {"idle", "rows", "snapped", "pass"}

Init ==
  /\ shares \in [Symbol -> Amount] /\ \A s \in Symbol \ Traded : shares[s] = 0
  /\ pending = [s \in Symbol |-> 0]
  /\ row \in [Message -> Statuses]
  /\ contract \in [Message -> Symbol]
  /\ pc = [w \in Worker |-> "idle"]
  /\ kind = [w \in Worker |-> "review"]
  /\ view = [w \in Worker |-> NoView]
  /\ unpriced = [w \in Worker |-> {}]
  /\ named = [w \in Worker |-> NoNames]
  /\ left = [w \in Worker |-> {}]
  /\ skip = [w \in Worker |-> {}]
  /\ selling = [w \in Worker |-> {}]
  /\ stale = [w \in Worker |-> {}]
  /\ unheld = [w \in Worker |-> {}]
  /\ recorded = [m \in Message |-> 0]
  /\ raced = [s \in Symbol |-> shares[s] < 0]

-----------------------------------------------------------------------------
\* History.  A sale of s makes the snapshots taken so far out of date.
Sold(s) ==
  stale' = [w \in Worker |-> IF pc[w] \in {"snapped", "pass"} THEN stale[w] \cup {s} ELSE stale[w]]
\* Whether s is short, or about to be, from here on, and why.
Explain(s, held, out, cause) ==
  raced' = [raced EXCEPT ![s] = (held < 0 \/ held - out < 0) /\ (@ \/ cause)]
NoteUnheld(s) ==
  unheld' = [w \in Worker |-> IF pc[w] = "idle" \/ shares'[s] # 0 THEN unheld[w] ELSE unheld[w] \cup {s}]

\* get_positions: what is held, or nothing after a failed request.
Positions == {shares, NoView}
SeesPositions(w) ==
  \E seen \in Positions :
    /\ view' = [view EXCEPT ![w] = seen]
    /\ stale' = [stale EXCEPT ![w] = {s \in Symbol : pending[s] # 0}]
    /\ unheld' = IF seen = shares THEN unheld ELSE [unheld EXCEPT ![w] = Symbol]

-----------------------------------------------------------------------------
\* The engine: review_position_exits and the daily-loss branch of loss_cut_scan.
EngineSnapshot(w, k) ==
  /\ w \in Engine /\ pc[w] = "idle"
  /\ pc' = [pc EXCEPT ![w] = "snapped"]
  /\ kind' = [kind EXCEPT ![w] = k]
  /\ SeesPositions(w)
  /\ \E bad \in SUBSET {s \in Symbol : view'[w][s] # 0} : unpriced' = [unpriced EXCEPT ![w] = bad]
  /\ UNCHANGED <<account, rows, named, left, skip, selling, recorded, raced>>

\* The contracts with an open row; a failed read skips none, and the loss cut
\* does not look.
SkipChoices(w) == IF kind[w] = "cut" THEN {{}} ELSE {Tracked, {}}

ReadTracked(w) ==
  /\ pc[w] = "snapped"
  /\ pc' = [pc EXCEPT ![w] = "pass"]
  /\ \E tracked \in SkipChoices(w) : skip' = [skip EXCEPT ![w] = tracked]
  /\ left' = [left EXCEPT ![w] = {s \in Symbol : view[w][s] # 0}]
  /\ UNCHANGED <<account, rows, kind, view, unpriced, named, selling, history>>

Reset(w) ==
  /\ pc' = [pc EXCEPT ![w] = "idle"]
  /\ view' = [view EXCEPT ![w] = NoView]
  /\ unpriced' = [unpriced EXCEPT ![w] = {}]
  /\ named' = [named EXCEPT ![w] = NoNames]
  /\ left' = [left EXCEPT ![w] = {}]
  /\ skip' = [skip EXCEPT ![w] = {}]
  /\ selling' = [selling EXCEPT ![w] = {}]
  /\ kind' = [kind EXCEPT ![w] = "review"]
  /\ stale' = [stale EXCEPT ![w] = {}]
  /\ unheld' = [unheld EXCEPT ![w] = {}]

EngineAt(w, s) == w \in Engine /\ pc[w] = "pass" /\ s \in left[w]
LeftBehind(w, x) == left' = [left EXCEPT ![w] = @ \ {x}]

\* A review and a flatten pass over a tracked contract and one without an
\* entry price; the loss cut looks at neither.
PassedOver(w, s) == s \in skip[w] \/ (kind[w] # "cut" /\ s \in unpriced[w])

\* Mutant: the flatten decides as on any other hour of the day.
Due_notFlatten(w) == kind[w] = "cut"
\* Whether every contract is due: after a daily loss, and in the flatten.
Due(w) == kind[w] = "cut" \/ (kind[w] = "flatten" /\ FlattenOn)

EngineHolds(w, s) ==
  /\ EngineAt(w, s)
  /\ PassedOver(w, s) \/ ~Due(w)
  /\ LeftBehind(w, s)
  /\ UNCHANGED <<account, rows, pc, kind, view, unpriced, named, skip, selling, history>>

\* The audit log is read outside the handler: the contracts left are not
\* looked at.
ReviewRaises(w) ==
  /\ w \in Engine /\ pc[w] = "pass" /\ kind[w] # "cut"
  /\ left[w] \ (skip[w] \cup unpriced[w]) # {}
  /\ Reset(w)
  /\ UNCHANGED <<account, rows, recorded, raced>>

\* What is on its way changes the position in the other direction.
OppositeWay(s) == (shares[s] > 0 /\ pending[s] < 0) \/ (shares[s] < 0 /\ pending[s] > 0)
Available(s) == shares[s] # 0 /\ (OppositeWay(s) \/ pending[s] # shares[s])

\* Mutant: close_symbol_position sells the quantity of the snapshot.
Liquidate_view(w, s) == pending' = [pending EXCEPT ![s] = @ + view[w][s]]
\* DELETE /v2/positions/{symbol}: sells (or buys back) what is held and not
\* yet on its way out.
Liquidate(w, s) ==
  pending' = [pending EXCEPT ![s] = IF OppositeWay(s) THEN @ + shares[s] ELSE shares[s]]

\* With or without its answer: the next contract comes.
EngineCloses(w, s) ==
  /\ EngineAt(w, s) /\ ~PassedOver(w, s)
  /\ Available(s)
  /\ Liquidate(w, s)
  /\ Sold(s) /\ Explain(s, shares[s], pending'[s], FALSE)
  /\ LeftBehind(w, s)
  /\ UNCHANGED <<shares, rows, pc, kind, view, unpriced, named, skip, selling, unheld, recorded>>

CloseRefused(w, s) ==
  /\ EngineAt(w, s) /\ ~PassedOver(w, s)
  /\ skip' = [skip EXCEPT ![w] = @ \cup {s}]
  /\ LeftBehind(w, s)
  /\ UNCHANGED <<account, rows, pc, kind, view, unpriced, named, selling, history>>

PassEnds(w) ==
  /\ pc[w] = "pass" /\ left[w] = {} /\ selling[w] = {}
  /\ Reset(w)
  /\ UNCHANGED <<account, rows, recorded, raced>>

-----------------------------------------------------------------------------
\* check_and_exit_trades: the open rows first; without any the pass is over.
ManagerReadsRows(w) ==
  /\ w \in Manager /\ pc[w] = "idle"
  /\ Open # {}
  /\ pc' = [pc EXCEPT ![w] = "rows"]
  /\ left' = [left EXCEPT ![w] = Open]
  /\ named' = [named EXCEPT ![w] = [m \in Message |-> IF m \in Open THEN contract[m] ELSE SomeSymbol]]
  /\ unheld' = [unheld EXCEPT ![w] = {s \in Symbol : shares[s] = 0}]
  /\ UNCHANGED <<account, rows, kind, view, unpriced, skip, selling, stale, recorded, raced>>

ManagerSnapshot(w) ==
  /\ pc[w] = "rows"
  /\ pc' = [pc EXCEPT ![w] = "pass"]
  /\ SeesPositions(w)
  /\ UNCHANGED <<account, rows, kind, unpriced, named, left, skip, selling, recorded, raced>>

ManagerAt(w, m) == w \in Manager /\ pc[w] = "pass" /\ m \in left[w] /\ selling[w] = {}

\* No exit is due, the order fails or is refused, or the row cannot be
\* given up: update_discord_trade swallows its errors.
ManagerHolds(w, m) ==
  /\ ManagerAt(w, m)
  /\ LeftBehind(w, m)
  /\ UNCHANGED <<account, rows, pc, kind, view, unpriced, named, skip, selling, history>>

\* Mutant: what is held short counts as missing.
Missing_short(w, s) == view[w][s] <= 0
Missing(w, s) == view[w][s] = 0

\* No such position: the row is closed_manual, whatever it names by now.
ManagerGivesUp(w, m) ==
  /\ ManagerAt(w, m)
  /\ Missing(w, named[w][m])
  /\ row' = [row EXCEPT ![m] = "closed_manual"]
  /\ LeftBehind(w, m)
  /\ UNCHANGED <<account, contract, pc, kind, view, unpriced, named, skip, selling, history>>

\* _sell_position: max(1, int(qty)), whichever way the position is held.
Quantity(w, s) == IF view[w][s] > 1 THEN view[w][s] ELSE 1

\* The broker takes the order.  An answer that is lost counts as a failure,
\* and an update that fails is not noticed: the row stays as it is.
ManagerSells(w, m, noted) ==
  LET s == named[w][m] IN
  /\ ManagerAt(w, m)
  /\ view[w][s] # 0
  /\ Net(s) - Quantity(w, s) >= -MaxShares
  /\ pending' = [pending EXCEPT ![s] = @ + Quantity(w, s)]
  /\ Sold(s) /\ Explain(s, shares[s], pending'[s], s \in stale[w] \/ view[w][s] < 0)
  /\ selling' = IF noted THEN [selling EXCEPT ![w] = {m}] ELSE selling
  /\ LeftBehind(w, m)
  /\ UNCHANGED <<shares, rows, pc, kind, view, unpriced, named, skip, unheld, recorded>>

\* Mutant: the exit price is saved and the status is not.
RowClosed_statusKept(w, m) ==
  /\ m \in selling[w]
  /\ selling' = [selling EXCEPT ![w] = {}]
  /\ recorded' = [recorded EXCEPT ![m] = @ + 1]
  /\ UNCHANGED <<account, rows, pc, kind, view, unpriced, named, left, skip, stale, unheld, raced>>

\* update_trade after the sale, whatever the row says by now.
RowClosed(w, m) ==
  /\ m \in selling[w]
  /\ selling' = [selling EXCEPT ![w] = {}]
  /\ row' = [row EXCEPT ![m] = "closed"]
  /\ recorded' = [recorded EXCEPT ![m] = @ + 1]
  /\ UNCHANGED <<account, contract, pc, kind, view, unpriced, named, left, skip, stale, unheld, raced>>

\* The bot handles a rejected signal for s, again when its message is edited,
\* maybe for another contract, or found in the history; a pass in its own
\* process does not give way to it.
Signal(m, s) ==
  /\ pc[Bot] = "idle"
  /\ row' = [row EXCEPT ![m] = "open"]
  /\ contract' = [contract EXCEPT ![m] = s]
  /\ recorded' = [recorded EXCEPT ![m] = 0]
  /\ UNCHANGED <<account, worker, stale, unheld, raced>>

-----------------------------------------------------------------------------
\* One contract on its way out (or back in) fills.
Fills(s) ==
  /\ pending[s] # 0
  /\ LET n == IF pending[s] > 0 THEN 1 ELSE -1 IN
       /\ pending' = [pending EXCEPT ![s] = @ - n]
       /\ shares' = [shares EXCEPT ![s] = @ - n]
  /\ NoteUnheld(s) /\ Explain(s, shares'[s], pending'[s], FALSE)
  /\ UNCHANGED <<rows, worker, stale, recorded>>

\* It expires or is cancelled.
Lapses(s) ==
  /\ pending[s] # 0
  /\ pending' = [pending EXCEPT ![s] = IF @ > 0 THEN @ - 1 ELSE @ + 1]
  /\ Explain(s, shares[s], pending'[s], FALSE)
  /\ UNCHANGED <<shares, rows, worker, stale, unheld, recorded>>

\* Other orders buy, or sell to open.
Buys(s) ==
  /\ s \in Traded /\ shares[s] < MaxShares /\ Net(s) < MaxShares
  /\ shares' = [shares EXCEPT ![s] = @ + 1]
  /\ NoteUnheld(s) /\ Explain(s, shares'[s], pending[s], FALSE)
  /\ UNCHANGED <<pending, rows, worker, stale, recorded>>

SellsShort(s) ==
  /\ s \in Traded /\ shares[s] > -MaxShares /\ Net(s) > -MaxShares
  /\ shares' = [shares EXCEPT ![s] = @ - 1]
  /\ NoteUnheld(s) /\ Explain(s, shares'[s], pending[s], TRUE) /\ Sold(s)
  /\ UNCHANGED <<pending, rows, worker, recorded>>

ManagerStep(w) ==
  \/ ManagerReadsRows(w) \/ ManagerSnapshot(w)
  \/ \E m \in Message :
       \/ ManagerHolds(w, m) \/ ManagerGivesUp(w, m) \/ RowClosed(w, m)
       \/ \E noted \in BOOLEAN : ManagerSells(w, m, noted)
  \/ PassEnds(w)

EngineStep(w) ==
  \/ \E k \in Kind : EngineSnapshot(w, k)
  \/ ReadTracked(w)
  \/ \E s \in Symbol : EngineHolds(w, s) \/ EngineCloses(w, s) \/ CloseRefused(w, s)
  \/ ReviewRaises(w) \/ PassEnds(w)

BrokerStep(s) == Fills(s) \/ Lapses(s) \/ Buys(s) \/ SellsShort(s)

Next ==
  \/ \E w \in Manager : ManagerStep(w)
  \/ \E w \in Engine : EngineStep(w)
  \/ \E m \in Message, s \in Symbol : Signal(m, s)
  \/ \E s \in Symbol : BrokerStep(s)

Spec == Init /\ [][Next]_vars

-----------------------------------------------------------------------------
TypeOK ==
  /\ shares \in [Symbol -> Amount]
  /\ pending \in [Symbol -> -2 * MaxShares .. 2 * MaxShares]
  /\ row \in [Message -> Statuses] /\ contract \in [Message -> Symbol]
  /\ pc \in [Worker -> PCs] /\ kind \in [Worker -> Kind]
  /\ view \in [Worker -> [Symbol -> Amount]] /\ unpriced \in [Worker -> SUBSET Symbol]
  /\ named \in [Worker -> [Message -> Symbol]]
  /\ left \in [Worker -> SUBSET (Message \cup Symbol)]
  /\ skip \in [Worker -> SUBSET Symbol]
  /\ selling \in [Worker -> SUBSET Message]
  /\ stale \in [Worker -> SUBSET Symbol] /\ unheld \in [Worker -> SUBSET Symbol]
  /\ recorded \in [Message -> Nat]
  /\ raced \in [Symbol -> BOOLEAN]

(***************************************************************************)
(* However the exit paths overlap, a contract goes short only on purpose   *)
(* or through a manager's sale sized from positions that another sale had  *)
(* changed, or that were short.  The engine's closings never oversell.     *)
(***************************************************************************)
OversoldExplained ==
  \A s \in Symbol : shares[s] < 0 \/ Net(s) < 0 => raced[s]

(***************************************************************************)
(* A row is closed by a sale at most once per manager before its signal is *)
(* handled again, although nothing stops two managers at the same row.     *)
(***************************************************************************)
SalesPerOpening == \A m \in Message : recorded[m] <= Cardinality(Manager)

(***************************************************************************)
(* A flatten that gets to its end leaves a contract it saw alone only when *)
(* a row tracked it, the broker refused, it came without an entry price,   *)
(* or it was sold, or being sold, by another path: nothing else that was   *)
(* held at the end of the day stays overnight.                             *)
(***************************************************************************)
FlattenSpares ==
  FlattenOn =>
    \A w \in Engine :
      pc[w] = "pass" /\ left[w] = {} /\ kind[w] = "flatten" =>
        \A s \in Symbol : view[w][s] # 0 => s \in skip[w] \cup unpriced[w] \cup stale[w]

(***************************************************************************)
(* A manager gives up a row only if the contract it read from that row was *)
(* not held at some time since, or its own request for the positions       *)
(* failed.  The row may name another contract by then.                     *)
(***************************************************************************)
GivenUpUnheld ==
  [][\A m \in Message :
       row[m] # "closed_manual" /\ row'[m] = "closed_manual" =>
         \E w \in Manager : m \in left[w] \ left'[w] /\ named[w][m] \in unheld[w]]_vars
==============================================================================
