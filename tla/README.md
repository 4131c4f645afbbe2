# Laabh: specifications, model checking and proofs

Laabh is an asyncio Python program around one Postgres database. A scheduler
process runs market-data collectors, an LLM research pipeline, paper-trading
jobs and a quant bandit loop; an API process serves the front ends and places
orders. Everything that matters is a row of a table, and almost every hard
behaviour comes from the same pattern: a task reads rows in one transaction,
awaits something, and writes in another.

Paths below are relative to `src/`, so `src/trading/engine.py` is
`src/src/trading/engine.py` in PROJECT.json.

## 1. Inventory

| component | state | operations | what makes it correct |
|---|---|---|---|
| trading engine, risk manager (`src/trading/engine.py`, `risk_manager.py`) | portfolios, trades, holdings | `execute_market_order`, FIFO linking of SELLs to BUY rows | cash, holdings, legs and P&L tell one story in every interleaving |
| pending-order book (`order_book.py`) | pending_orders | `place_order`, `check_pending_orders` every minute | one order, one trade; expiry and cancel are respected |
| revaluation (`portfolio_manager.py`) | portfolios.invested_value, snapshots | `update_all_portfolios` every five minutes | never writes what it did not read |
| trades API (`src/api/routes/trades.py`) | | POST and DELETE of orders | shares the rows with the scheduler's jobs |
| quant loop (`src/quant/orchestrator.py`, `circuit_breaker.py`) | open positions, P&L, circuit state in memory | bootstrap, tick, hard exit | memory is what the ledger says, after any restart |
| recorder, bandit (`recorder.py`, `persistence.py`, `bandit/`, `live_gainers_scanner.py`) | quant_trades, quant_day_state, bandit_arm_state | open, close, finalize, save, admit, evict | a trade is closed once and learned once |
| F&O positions (`src/fno/entry_executor.py`, `position_manager.py`, `intraday_manager.py`) | fno_signals | `auto_enter`, `manage_tick`, `hard_exit_all`, `close_fno_signal` | entered once, closed once, flat after 14:30, stops honoured |
| scheduler, reconciler (`scheduler.py`, `scheduler_reconciler.py`) | apscheduler_jobs, job_log | about sixty jobs; catch-up after an outage | daily jobs run once a day |
| notifications (`services/notification_service.py`, `side_effect_gateway.py`) | notifications | create, push, abandon | every message out, and once |
| strategist, runner, budget, gate (`strategy_runner.py`, `equity_strategist.py`, `budget_allocator.py`, `strategy_gate.py`) | strategy_decisions | morning allocation, intraday action, square-off | decisions stay within calls and rupees |
| agents (`src/agents/runtime/workflow_runner.py`) | workflow_runs, agent_runs, Redis | run a DAG of agents under a budget | one run per idempotency key, budget respected |
| chain collection (`src/fno/chain_collector.py`, `tier_manager.py`, `issue_filer.py`) | source health, tiers, issues | collect, degrade, fail over, file | health follows the calls |
| research pipeline, collectors, extraction, whisper, analytics, eval, runday, dryrun | many append-only tables | batch jobs, pollers | text and numbers; little interacting state |
| front ends, containers, scripts, migrations | | | outside the program's core |

How they interact: the scheduler starts jobs (at most one instance of each)
as tasks of one process; the API is a second process. Components call one
another as coroutines (runner to engine, sweep to engine, engine to
notifications) and otherwise communicate through rows. There is no lock
besides Postgres row locks at READ COMMITTED. The hard behaviours are
interleavings between two transactions of a call, a crash between them, jobs
that overlap at their boundaries, and what a restart rebuilds. PROJECT.json
lists each as a hazard at its line.

## 2. The modules

| module | models | extends, or is used by |
|---|---|---|
| `PaperTrading` | engine, risk manager, sweep, API, revaluation | `MCPaperTrading`, `PaperTradingProofs` |
| `TradeLedger` | the abstract promise of quant_trades | instantiated by `QuantLoop` |
| `QuantLoop` | the bandit loop with its scheduler jobs and tables | `MCQuantLoop`, `QuantLoopProofs` |
| `FnoPositions` | entry runs, manage ticks, hard exit and manual close of fno_signals | `MCFnoPositions`, `FnoPositionsProofs` |
| `Notifications` | rows and pushers of the outbox | extended by `TradingDay` |
| `TradingDay` | scheduler, reconciler, job_log and the strategist's jobs, composed with `Notifications` | `MCTradingDay`, `TradingDayProofs` |
| `WorkflowRunner` | the agent runtime: submissions, stages, retries, replay | `MCWorkflowRunner`, `WorkflowRunnerProofs` |
| `SumTheorems` | no code: sums over finite sets and sequences of any size, and the induction they need | `PaperTradingProofs`, `QuantLoopProofs`, `FnoPositionsProofs`, `WorkflowCallsProofs` |
| `WorkflowCallsProofs`, `WorkflowLedgerProofs` | no code: the second and third part of the proofs about `WorkflowRunner` | each extends the one before |

The modules meet where the code does. The strategist of `TradingDay` calls the
engine that `PaperTrading` details (there with legs, prices and several
callers; here with its three steps only) and starts the entry runs that
`FnoPositions` has as the caller `"brain"`. The engine's notification, a
nondeterministic failure in `PaperTrading`, is the inline push of
`TradingDay`. The resume job of `QuantLoop` and the catch-ups of `TradingDay`
are started by the same boot. The conclusion one module draws is the
assumption of the next: `PaperTrading` shows what overlapping updates of the
portfolio row lose and `TradingDay` says which jobs overlap.

Twelve runs: six that pass, over five state machines (`PaperTrading` has a
second, serial, one), and six that exhibit a finding. Eight modules hold
theorems: one per state machine, two more for `WorkflowRunner`, and the lemmas
on sums.

## 3. PaperTrading

One portfolio, any number of instruments and user requests. Correspondence:

| TLA+ | code |
|---|---|
| `cash`, `invested` | `portfolios.current_cash`, `invested_value` |
| `qty`, `cost` | `holdings.quantity`, `invested_value` (0: no row) |
| `legs[i]` | open BUY rows of `trades`, one entry per share, oldest first |
| `closed`, `unmatched` | BUY rows closed by SELLs, and whether a share's row was split off a larger one; shares a SELL could not match |
| `booked`, `fills` | net of `trades.total_cost`; number of trade rows per order |
| `status`, `lapsed` | `pending_orders.status`; `valid_till` is past |
| `cancelling` | orders that a DELETE call has read as pending and not yet written |
| `exec[r]` | locals of the `execute_market_order` call serving request r |
| `job`, `reval` | locals of `check_pending_orders` and `_update_portfolio` |
| `faults` | bound on crashes and failed notifications |
| `overlapped` | history variable: two calls were between read and commit |

A call is validation (`place_market_order` or `SweepTrigger`),
`LoadPortfolio`, `CommitBuy`/`CommitSell`, then `Answer` or `MarkExecuted`;
`RollBack` is a database error before the commit, `NotifyFails` an exception
after it. The commit is one step because the autoflush before the SELECT of
the holding updates the portfolio row and takes its row lock: from there on
other commits wait, and only the cash and invested value were read earlier.
`SweepBegin` takes the snapshot and judges expiry; the rows are written later
without looking at their status, as in the code. `SweepAborts` is a database
error outside the per-order `try`. The two processes crash separately.

A cancel is two steps of the API process: `cancel_pending_order` reads the row
and finds it pending, `CancelCommits` writes "cancelled" whatever the row says
by then, `CancelRollsBack` is a database error in between. Nothing locks the
row, so the sweep can trade and mark the order in the gap, and the commit
writes over the mark. `FillsFollowStatus` therefore says nothing of how often a
cancelled order has traded but that it is at most once.

A BUY row of q shares is q entries of `legs[i]`, the last of which `ends` it
(`Leg`). A SELL takes a prefix; where the prefix stops short of the end of a
row, the code splits that row: the part cut off gets price, brokerage and STT
as its `total_cost`, the part that stays is scaled down, and the exchange
charge and stamp duty of the shares cut off are in neither (`SplitOff`,
`SplitLoss`). `booked` moves by that amount; `CashFollowsTrades` and
`PnLReconciles` count it (`Dropped`) from the history of the closed shares, so
they say that a split loses exactly this and nothing else does.

Abstractions: charges are proportional to shares (the brokerage cap and the
rounding of `total_cost` to paise are left out); the revaluation reads
portfolio and holdings as one step; prices are market data and so
nondeterministic.

Runs:

- `trading_concurrent`: one instrument, a LIMIT BUY of 2, a MARKET SELL of 1
  and a STOP_LOSS SELL of 2 that can expire, two prices, one fault. This is
  the smallest case in which SELLs from the sweep and the API meet on a
  holding both can only partly be served from, the first SELL splits the row
  of two, and every transaction boundary can be hit by a crash or a late
  cancel. Six invariants, 3.6 million states.
- `trading_serial`: a MARKET BUY and two book orders, cash that pays only one
  BUY, one call at a time between validation and end. It shows that the risk
  checks are sufficient exactly when calls do not overlap, and that an
  expired order settles.
- `trading_refill`, `trading_cancel`: findings, section 9.

Bounds: `MaxInvested` only bounds the choice of a sum; each request is sent
once; `MaxFaults = 1` because a single fault already separates the three
transactions of an order, and further faults repeat it. Fairness (used by
`LapsedSettles` only): the scheduler keeps firing the sweep, and its task is
not starved. Nothing is assumed of users, expiry or revaluation.
`CHECK_DEADLOCK FALSE`: once all requests are done and expired nothing need
happen.

## 4. QuantLoop and TradeLedger

| TLA+ | code |
|---|---|
| `rows` | `quant_trades` in order of entry; premium and lots of entry, exit reason and premium |
| `dayRow` | `quant_day_state` |
| `saved` | latest `bandit_arm_state` per arm |
| `up`, `due` | the process; jobs registered and not fired |
| `pc[l]` and the variables from `universe` to `circuit` | locals of one `run_loop` call, started by the cron job or the resume |
| `stuck` | rows whose close raised at the hard exit |

`Fire` is the bootstrap up to the main loop (universe, posteriors of earlier
days, replay of today's closed trades, init of the day row, recovery of open
positions and P&L). A tick is `BeginTick`, at most one `Replace` (scanner),
`ReadFeatures`, one `Hold`/`CloseDue`/`CloseFails` per position, `CheckNav`
(circuit breaker and gates) and `Enter`/`NoEntry`. The hard exit is
`BeginEod`, one `EodClose`/`EodCloseFails` per position,
`_finalize_day_state`, `save_eod`; `EodAborts` is a database error there.
`Crash` loses the process at any step, `Boot` registers the jobs by the
clock and the resume date.

Abstractions: one primitive, so an arm is a symbol; a posterior is the set of
trades it learned (decay and the arithmetic of the update are left out);
which arm is drawn, how many lots, which exit rule fires, and momentum are
nondeterministic; a scan replaces at most one pair; a tick ends before the
next is due; the starting NAV is positive and NAVs are relative to it (the
code reads it again at a resume, the model keeps that of the day); a failed
close leaves its row open. A recovered position has no entry context
(`orchestrator.py:1010-1018`), which only the `lints` bandit would read;
posteriors are sets of trades whatever the context.

`TradeLedger` is what readers of `quant_trades` rely on: a row is opened,
closed at most once, then final, and a day never has more open rows than the
capacity. `LedgerImplemented` is `Ledger!Spec` under `trades <- rows`.

Runs:

- `quant`: two symbols of which one is selected in the morning (so the
  scanner has someone to admit), two days of three ticks, capacity 2, at most
  three trades, two premiums, one crash or failed write anywhere, a resume
  allowed in the middle of the day. Two days are needed for what a day saves
  and the next loads; three trades for a full portfolio and a trade after a
  restart; kill and lock-in lines are one losing or winning trade away.
- `quant_recovery`, `quant_resume`: findings.

Properties that name faults in their premise (`HeldStaysManaged`,
`DaySettles`) do so because a restarted loop may be given another universe
and a dead process closes nothing. `LearnedFromLedger` is about the arms of
the loop's morning universe: an arm the scanner admits starts cold, whatever
it learned before. `DayEndsFlat` excludes the rows whose close failed.

Fairness: the clock moves on, and a started loop takes its steps, because a
tick awaits only bounded work. Boot, resume, scanner and faults get none.
`CHECK_DEADLOCK FALSE`: the model stops after the last day.

## 5. FnoPositions

| TLA+ | code |
|---|---|
| `rows[t]` | `fno_signals` in order of entry: underlying, day and `late` from `proposed_at`; `side`, fill and lots from leg 1; `net` is `entry_premium_net`; `stop_premium_net`, `status`, `final_pnl` |
| `day`, `now`, `due` | the calendar, ticks of a session, jobs that must start |
| `entering[c]` | locals of an `auto_enter` call, by the 09:15 job or by the strategist |
| `managing` | locals of `manage_tick`: signals ahead, the one to close and its premium |
| `exiting` | locals of `hard_exit_all`; `done` remembers that it has ended today |
| `closing` | the row `close_fno_signal` has found live |
| `actions`, `faults` | bounds on the strategist and on faults |
| `overlapped` | history variable: two `auto_enter` calls ran at once |

Every transaction is a step. An entry is `ReadHeadroom`, `CheckEntered`, then
`_enter_one` (chain and insert) or `NoFill`; a managed signal is
`ManageSignal` (premium, trailing stop, decision) and, if the decision is to
close, `CloseSignal`; the hard exit is one `ExitSignal` per row it read; a
manual close is `close_fno_signal` (the check) and `ManualClose`. All of them
write through `_close_signal`, which looks at no status. `TickAborts` and
`ExitAborts` are a database error in a loop that has no `try`;
`ManualCloseFails` is one that `_execute_actions` catches. `Crash` ends the
process, `Boot` registers the jobs again.

A structure is what the entry engine proposes: the side of its first leg, and
what the other legs and the fees add to the cost of a lot (`Structures`,
`net_cost`; negative for a credit, as of an iron condor, whose first leg is
sold). As in the code a position is managed on its first leg alone:
`_compute_pnl` knows the side of the leg, while stop, target and trailing stop
(`Stop`, `Target`, `apply_tick`) take it for a bought one. The bucket counts
net premiums, so a credit enlarges the headroom of what is entered after it.

Abstractions: a lot is one contract, all positions draw on one bucket, and
what the other legs add is the same for every fill; premiums are market data
and so nondeterministic;
the number of lots is any that `compute_lots` allows at most; which
candidates have a proposal that passes the strategy gate is left open
(`NoFill`). Stops and targets are in hundredths of a rupee and exact. Stored
stop and target are net rupees at entry and per share after a tick, as in the
code. The clock is a few ticks per day (`now = 0`: before 09:15, then 09:15,
14:30, 15:30), and a task ends in the tick it started in: a minute's job
fits a session's stretch. A row that `_signal_to_open_position` cannot rebuild
(a fill of zero, no option type: `position_manager.py:119-120`), which manage
and hard exit pass over, is outside the model, whose premiums are positive; the
entry executor writes one only for a leg without an option type or quoted at
zero. Telegram failures are caught and change nothing.

Runs:

- `fno`: two symbols that may be entered on the first of two days, the second
  as a bought option or as an iron condor (a sold leg whose wings cost 1),
  premiums 7 and 10 and a cap of 14: it pays one lot of one bought option, and
  after the credit of a condor two lots, up to the last rupee; an entry on a
  stale headroom breaks the budget. The ratio of the premiums crosses the
  scale-out gain and target upwards (30%) and touches the stop downwards.
  `MaxPosition = 70` is the largest share that keeps a proposal at 7 filled
  at 10 inside its headroom. One strategist action per tick puts an entry run or a
  manual close next to each job. One fault anywhere. The second day has no
  candidates: it is there for what the first leaves over.
- `fno_reentry`, `fno_late`: the findings, on one symbol and one day.

What they show. Within one entry run at a time the read-then-insert is
enough; with two it is not. Several closers of one row always leave the
status with the P&L of the same close, because each write is whole: at its
target the first leg has risen by thirty percent or more, which for a sold leg
is a loss, so a condor row can say "closed_target" with a negative P&L; section
9. The trailing stop is recomputed from the fill at each tick; scale-out gain and
target are the same 30%, so it is only ever written to a row that closes at
its target in the same tick: no position leaves on a trailing stop
(`StatusExplainsPnl`, `TrailingOnlyAtTarget`). A position entered behind the hard
exit is closed the day after (`HardExitSweeps`, `PositionsSettle`).

Fairness: clock and jobs go on, and a task that has started is not starved.
Nothing is assumed of the strategist, of restarts or of faults, which is why
`PositionsSettle` excuses runs with a fault: a scheduler that stays down
closes nothing. `CHECK_DEADLOCK FALSE`: the model stops after the last day.

## 6. TradingDay and Notifications

| TLA+ | code |
|---|---|
| `mode`, `born`, `lives` | the process: down, between `scheduler.start` and the reconciler, up, or up with job_log unreadable; when and how often it was started |
| `fired`, `catchups` | cron firings of this tick; one-shot jobs in apscheduler_jobs |
| `unscheduled` | jobs whose `add_job` raised in the reconciler of this process |
| `done` | latest completed row of job_log per daily-critical job |
| `run[s]` | locals of the run in slot `s`: the cash loaded, the decision row, the action, the count |
| `cash`, `held`, `bought`, `sold` | portfolios.current_cash, holdings.quantity, trades |
| `decisions` | strategy_decisions, with the trades that name each |
| `notes`, `push[p]` | notifications; locals of each `push_pending` call |
| `begun`, `begunToday`, `ended`, `cancelled`, `overlapped` | history variables |

`build_scheduler` wipes the job store, `reconcile_missed` schedules what is
missing, but for the jobs whose `add_job` raises: the exception is logged and
the loop goes on (`scheduler_reconciler.py:168-184`). `Fire` and `CatchUp` start a run: a cron job and its catch-up have
different ids, so `max_instances=1` does not keep them apart, and `Slots` has
both. A morning run is the two steps of `topup_daily_budget`, `_decide`
(snapshot, answer, gate and row), `LoadPortfolio` and `CommitTrade` of the
engine, `Notify` (create and inline push), `Return`,
`_update_decision_counts`, `_logged`; an intraday run begins with `CheckCap`
instead, the square-off with `_decide`. `Fails` is an exception of the run,
`Down` the end of the process: a crash, or a shutdown, which cancels the
runs and lets those that still get to it write "completed". `push_pending` is
a select (with the abandonment of old rows), a request and a mark per row, in
every run and in the 30-second job; a lost answer, a refusal and a session
that raises are modelled. The rows a push has selected are a set that it goes
through oldest first (`Oldest`), which is the order of the SELECT.

Abstractions: one instrument, single shares at a price of one, no charges
(`PaperTrading` has them); at most one action a decision; two of the
daily-critical jobs stand for all, since all take the same path; the three
attempts of a request are one step. Cron fires before the tick passes; a run
may be at the model for many ticks.

Run `trading_day`: a day with the morning's top-up and a re-evaluation, and a
day whose second re-evaluation coincides with the square-off, over three
ticks. `MaxBusy = 2` tasks at once (two runs, or a run and the push job: the
least in which two pushers or two updates meet), `MaxLong = 1` run over the
end of a tick, `MaxTrades = 2` (a BUY and a SELL), `MaxLives = 2` and
`MaxFaults = 1`: one restart, or one failure, anywhere. `Grace = 1` puts the
end of the catch-up window inside the day, `Limit = 1` makes the oldest
message block the next, `AbandonAfter = 0` lets a message get too old within
the day, `MaxIntraday = 1` is reached by the second re-evaluation.

What it shows. Emptied store, reconciler and grace leave no gap and no double
start within one process (`CriticalBegun`, `OncePerStartup`), whichever side
of a job's minute the boot falls on, but the one the code logs: a job that
could not be scheduled is not begun by this process and nothing tries again.
A completed row stands for a run that
ended or that a shutdown cut off (`CompletedMeansEnded`): that the latter
counts as completed is the code's choice, listed below. The cap holds although
it is checked long before the row is written, only because the intraday job
has one slot (`IntradayCapped`). `BooksAgree`: cash is explained by trades and
top-ups until two unlocked updates overlap, and a decision counts fewer
actions than it traded only after a failure. `NotesSettle`: messages do not
stay behind for ever, with two pushers over the same rows.

Fairness: the service manager restarts the process, time passes, started work
goes on, the push job comes round. Each is one weak-fairness condition on a
whole group of actions: the scheduler's event loop serves them all, and no
single user, trade or fault is assumed. Telegram is given no fairness: it may
refuse for ever. `CHECK_DEADLOCK FALSE`: the model ends at the horizon.

## 7. WorkflowRunner

| TLA+ | code |
|---|---|
| `rows`, `agentRuns`, `audit`, `predictions` | workflow_runs, agent_runs, llm_audit_log (oldest response per run and agent), agent_predictions |
| `held` | idempotency keys set in Redis |
| `ctx[r]` | `WorkflowContext` and locals of one call of `run` |
| `ctx[r].calls` | the `_AgentInvocation`s of the stage, those of pods behind them, with the counters of `_execute_with_retries` |
| `ctx[r].over`, `.from`, `.live` | overrides, `from_agent` of a replay and whether it has switched to live calls |
| `rows[r].ext` | `status_extended`; `"orphaned"` is the sweep's |

A call of `run` is the guard (`CheckRows`, `_idempotency_taken`,
`_create_workflow_run_row`: three transactions), then per stage `EnterStage`
(kill switch, projection), the calls, and `_run_stage`, which adds up results
in list order without an await and so is one step; `_persist_predictions` and
`_finalize_workflow_run` close it. A call of an agent is `_invoke_agent`
(cache of a replay, row, input guard), turns of `_execute_with_retries`
(`Answered`, `Rejected`, `Retried`) and `_persist_agent_run_completed`.
`gather` starts its coroutines in order and interleaves the rest; a pod is a
gather inside it, followed by its aggregator. Faults are a crash, and any
read or write that raises, with what the code does in each place: the guard
and Redis fail open, the audit row is passed over, the insert leaves `run`,
and the rest goes to the `except` branch or the gather's exception list.

The workflow is a constant. `WorkflowAssumption` says what every registered one
is: at least one stage, slots of known agents (`StageAgents`), and a pod that
is neither judge, aggregator nor sub-agent and has no row or retries of its own.

Abstractions: a token costs one unit. Tokens and costs are added up and
compared with their ceilings in the same places, so within a run they are one
number, `Usage` of which an answer takes; only the tables tell them apart.
`agent_runs.cost_usd` and `workflow_runs.cost_usd` are NUMERIC(10,6) (migration
0009, lines 48 and 84), each rounded on its own from unrounded Decimals, while
token columns are integers: `Rounded` is that conversion, `Unit` the number of
units in the last decimal, and `CostReconciles` asks for equality of the tokens
and for agreement of the costs up to half of the last decimal for each number
written (`Slack`). An output is the length of the list later
steps read from it; conditional stages have no user among the registered
workflows; partial rows of a streamed answer are left out.

Run `workflow`: two submissions under one key and a replay of the first,
through a triage, a parallel stage (a pod of one sub-agent and an aggregator,
and an expert for each candidate) and a judge with one validation repair and a
fallback model. Answers use 7 or 14 tokens, two to the last decimal
(`Unit = 2`), so that a cost of 7 is rounded up and one of 14 is exact, and rows
and run round differently; `Ceiling = 42` is reached
by some of them and not by others, `Guess = 4` makes the projection of the
parallel stage refuse a run whose triage took two; one fault anywhere, kill
switch and orphan sweep at any time. `MaxOverlap = 1` is in keys: the two
submissions of one key run side by side, the replay (`After`) beside neither;
`MaxTransient` is zero but the fallback is a second round: that a non-zero
transient counter is reset by it is shown by `AttemptsWithin` only. Overrides and
`from_agent` are in the model and empty in this instance: with the judge live
in the replay the run takes almost three times as long, so the switch from
cached to live calls within one replay is not exercised by TLC.

What it shows. The three guards together keep one key to one run though two
of them fail open (`KeyRunsOnce`). Costs are added in two places, with early
exits: the row's tokens never exceed those of agent_runs and are the same on
success, and the costs follow them up to the rounding (`CostReconciles`). The projection is too low for pods and tool
turns, yet a run that succeeds is below its ceiling, for the sum is compared
again (`SucceededWithinCeiling`), provided a stage follows each pod: section 8;
its cost column is at most the rounded ceiling. `AttemptsBounded` bounds the
rounds of the retry loop that counters resetting one another allow; the turns
of data tools inside a round are not rounds. A prediction has a verdict on record
(`PredictionsBacked`); a finalized run has no call left under way
(`NoAgentLeftRunning`); every call of `run` ends (`RunsSettle`).

Fairness: `run`'s own steps only. A request ends by `timeout_seconds`
(`wait_for`), except the streamed one of `ceo_judge` (`workflow_runner.py:552-562`),
which has no `wait_for`: that it ends rests on the default timeout of the SDK,
an assumption about the client library and not about this code. None
for submissions, operator or faults. `CHECK_DEADLOCK FALSE`: all calls end.

## 8. Proofs

Every theorem holds for all values of the constants that satisfy the module's
named assumption, so for any number of orders, symbols, days, restarts and
faults: no bound of a run is used.

`PaperTradingProofs` (`TradingAssumption`):

| theorem | says |
|---|---|
| `TypeCorrect` | `Spec => []TypeOK` |
| `HoldingsMatchLegs` | `Spec => []HoldingsReconciled` |
| `ExecutedOrdersTraded` | `Spec => []ExecutedIsBacked` |
| `CashMatchesTrades` | `Spec => []CashFollowsTrades` |
| `OneFillPerOrder` | `Spec => []FillsFollowStatus` |
| `ProfitExplained` | `Spec => []PnLReconciles` |
| `SerialCashCovers` | `SerialSpec => []CashNeverNegative` |
| `SerialSalesMatch` | `SerialSpec => []NoUnmatchedSale` |

`Typed` adds to the types that a call in progress holds a price of `Prices`.
Holdings and legs change only in the two commits, by the same number of
shares. `PnLReconciles` needs no strengthening but the types: as long as every
SELL has found its BUYs, a BUY adds what its legs cost to cash spent and to the
open legs, a SELL moves a prefix of the legs to the closed ones, and both sides
of the equation are sums over sequences of any length (`SumTheorems`). What a
split takes out of the rows is the number of shares it marks as cut off
(`ConsumedSlices`, `SlicedAdd`), so that `Net`, the rows without it, moves by
the `total_cost` of the trade alone (`NetOfBuy`, `NetOfSell`). `Backed`
adds that a call past its commit has a fill, so marking it cannot be unfounded.
`CashInv` adds that while no overlap has happened at most
one call is between read and commit (`OneReader`), and that this call loaded
the current cash; this is where the history variable is needed. `FillsInv`
adds that without faults everything in the sweep's batch is untraded and
pending or cancelled, and that an order in execution has left the batch and
says the same until it is marked (`SweepConsistent`): a cancel's commit moves
an order between states of which the property asks no more than one trade. `SerialInv` adds that the check the risk manager
made still holds when the only call in progress commits
(`StillPermissible`), that such a call is the only one (`Alone`) and that a
call's local copy is current (`ServedSoundly`).

`QuantLoopProofs` (`QuantAssumption`, and `0 \notin ResumeAt` in each theorem
but `TypeCorrect`):

| theorem | says |
|---|---|
| `TypeCorrect` | `Spec => []TypeOK` |
| `MemoryTrue` | `Spec => []MemoryMirrorsLedger` |
| `NavExplained` | `Spec => []FinalNavExplained` |
| `DrawdownStops` | `Spec => DrawdownStopsEntries` |
| `LessonsKept` | `Spec => []LearnedFromLedger` |
| `FlatDays` | `Spec => []DayEndsFlat` |
| `NeverStranded` | `Spec => []HeldStaysManaged` |
| `KeepsLedger` | `Spec => LedgerImplemented`, the refinement of `TradeLedger` |
| `ClosedForGood` | `Spec => ClosedIsFinal` |

The assumption says that no boot before the 09:18 job carries the resume date.
It is what the run `quant` has and what `quant_resume` drops: without it
`ClosedForGood` is false, so the assumption is exactly the missing guard. It
gives `Alone`: one loop at a time, nothing due while one is busy, the end
phase only at the hard exit, no row of a later day. From `Alone` follows
`Mirror`: a live loop's positions are today's open rows, what is left of a
pass is open, capacity is free at an entry. The step simulation of the
refinement, and that a closed row stays, need only `Typed`, `Alone` and
`Mirror`; `Learned` (for all of the morning's universe, evicted arms
included: they come back from the dormant pool), `DoneInv` and `HeldInv` stand
on them. The P&L of the ledger is a sum over its closed rows. `Funded` says that
a loop that is ticking or ending has realised exactly the sum over the rows
closed today, by whichever loop: the recovery computes it, and each close adds
the row it writes. With it `DoneInv` gives `NavExplained`, and `AboveLine` (between the check
of the NAV and the entry nothing moves) gives `DrawdownStops`: no position is
opened on a day whose realised and marked result is at or below the kill line,
losses of earlier loops of the day included.

`FnoPositionsProofs` (`FnoAssumption`):

| theorem | says |
|---|---|
| `WellTyped` | `Spec => []TypeOK` |
| `CapHolds` | `Spec => []BudgetRespected` |
| `StatusHonest` | `TrailBy > 0` implies `Spec => []StatusExplainsPnl` |
| `SingleEntry` | `Spec => []EnteredOnce` |
| `SweepsAll` | `Spec => []HardExitSweeps` |
| `TrailsInVain` | `Spec => []TrailingOnlyAtTarget` |

`Typed` and `Decided` underlie all: between its decision and its close, a
manage tick holds a premium that still justifies the status it will write,
because side, fill and lots never change. The P&L tells how far the first leg
rose (`Rise`), with the sign turned for a sold leg. `StatusHonest` needs a positive trailing
percentage: with zero a position above its scale-out gain would be closed as
"closed_stop" after a rise. `EnteredInv` adds to the property, as long as
nothing overlapped, that one call runs at most (`OneCaller`) and that the
candidate it has checked has no row of today (`Unentered`). `BudgetInv` adds, on
the same condition, that the premium deployed today and the headroom a run has
read are together within the cap (`HeadroomHeld`): a close does not change what
a row cost, and an entry costs no more than the headroom read for it. The last
needs the assumption that the net cost of a filled lot stays within
100/MaxPosition of the premium it was proposed at: the lots are those the proposal allows, the fill is the
market's, and a wilder move would break the cap even without an overlap.
`WellTyped` says in particular that no headroom in use is negative, for an
exhausted one ends the candidate.
`SweepInv` says of
the hard exit in progress what the theorem says of it ended: an early live
row is among those still to be exited. Rows entered behind it are `Late`.

`TradingDayProofs` (`DayAssumption`):

| theorem | says |
|---|---|
| `CompletedRowsTrue` | `Spec => []CompletedMeansEnded` |
| `StartedOnce` | `Spec => []OncePerStartup` |
| `NoneForgotten` | `Spec => []CriticalBegun` |
| `CapKept` | `Spec => []IntradayCapped` |
| `BooksKept` | `Spec => []BooksAgree` |
| `TypeCorrect` | `Spec => []TypeOK` |

`DayAssumption` includes that a daily-critical job has one time of day, as all
have in `scheduler.py`; with two, `OncePerStartup` would be wrong. `JobInv`
ties `done` to the history: a run past its last step has ended. `StartInv`
says that cron begins a job only behind its firing of this life (`CronOnce`),
that what waits in the store was scheduled in this life and has not begun
(`CatchUpOnce`), and that every due job has begun, waits, is about to be
fired, or is among those `add_job` refused (`Covered`). `CapInv` says that an intraday run at the model has room:
it is the only one, for the job has one slot. `PushInv` says that a push
raises only with a fault. `CashInv` is the shape of
the one in `PaperTradingProofs`: one holder of the row without overlap, which
has loaded the current cash. `CountInv` says which decision row a run owns
and how its trades, its local count and the faults relate. `TypeCorrect` has
bounds that a single action does not show, hence `Bounds`: a process that is up
has used a life, a catch-up belongs to a life, a row of job_log lies before
the last tick. `NotesType` is inductive by itself:
a push in progress has rows left, all of which exist.

`WorkflowRunnerProofs`, `WorkflowCallsProofs`, `WorkflowLedgerProofs`
(`WorkflowAssumption`):

| theorem | says |
|---|---|
| `OneRunPerKey` | `Spec => []KeyRunsOnce` |
| `TypeCorrect` | `Spec => []TypeOK` |
| `AttemptsWithin` | `Spec => []AttemptsBounded` |
| `CostsAgree` | `Spec => []CostReconciles` |
| `NoneLeftRunning` | `Spec => []NoAgentLeftRunning` |
| `CeilingHolds` | `PodsFollowed` implies `Spec => []SucceededWithinCeiling` |
| `PredictionsTrue` | `JudgeOnce` implies `Spec => []PredictionsBacked` |

`KeyInv` says that nothing is written in a run's name
before its row (`RowFirst`) and that rows are unique in the key (`KeyUnique`):
neither the SELECT of the guard nor Redis occurs in the argument, so the
unique column alone gives the property. `Sized` says of every call in its retry
loop that each round it has made is charged to one of the budgets, those of
the first model by a full transient budget once the fallback is taken.

The ledger theorems stand on `LedgerInv`, the conjunction of these with
`Ordered` (in a sequential stage what precedes a call that has begun is done; a
sub-agent is under way only while its pod waits), `Kept` (a call that has not
begun has no row of agent_runs, one under way has its own and no other) and
`Money` (what the context has added up and what is still to be added by the
calls that are done is what the run's rows sum to, in tokens). `Columns` says
that every cost in a table is the rounded value of its tokens; a sum over n
succeeded rows is then within n halves of the last decimal of the tokens
(`BilledNear`, from `SumNear`), and the run's own column within one more, which
is `CostsAgree`. The number of calls is
arbitrary, so each step is an equation between sums over index sets. `Strays`
charges every row still "running" to a call under way or to a fault.

Two properties turned out to depend on the workflow, which the run's instance
did not show. Both conditions hold of the four workflows in
`src/agents/workflows`; neither is checked when a workflow is registered.

- `PodsFollowed`: a stage with a pod is not the last, and does not triage. The
  costs of a pod's sub-agents are added with no look at the ceiling, and when
  the aggregator raises under `skip_one` no later sum of the stage is compared
  either; only the gate of the next stage is. A last stage of that kind can
  succeed above the ceiling. `Below` says where the ceiling is known to hold.
- `JudgeOnce`: the judge's slot has no iteration source. The output of an
  iterated slot is the number of its results whatever their status, so
  predictions could be written without a verdict. `Sourced` says that a
  positive output stands for a succeeded row, or, in a replay, for a response
  in the log of the original.

`SumTheorems`: the models add rows up with `SumFunction`, a fold. The library's
induction theorems take an operator as a parameter and cannot be used here.
`Induction` states the principle for a set instead, and is proved from the
pigeonhole facts of the library (were a number missing, adding one would map an
interval into itself, one to one and not onto); the recursion behind the fold
is then shown to have a solution, and from it that a sum does not depend on the
order, is additive over disjoint sets, monotone, and changes by the difference
when one term changes. `FlattenType` in `WorkflowCallsProofs` does the same for the
concatenation of the invocations of a stage.

Every invariant and every action property that a passing run checks, and the
refinement, is the statement of a theorem. Only model-checked:

- liveness: `LapsedSettles`, `DaySettles`, `PositionsSettle`, `NotesSettle`,
  `RunsSettle`: fairness and ENABLED are out of the prover's reach;
- the six refutations of section 9, which are counterexamples.

## 9. Findings

- `trading_cancel`: the sweep trades orders of its snapshot whatever their
  row says by then; a cancelled order is executed.
- `trading_refill`: commit, notification and marking are three transactions;
  a fault in between makes the order trade again a minute later.
- `quant_recovery`: a failed close at the hard exit is announced to be picked
  up by the next day's recovery, which looks only at rows of its own day.
- `quant_resume`: a boot before 09:18 with the resume date set runs two loops
  on the same rows.
- `fno_reentry`: `auto_enter` is called idempotent, but checks and inserts in
  two transactions; the strategist's run and the 09:15 job enter a symbol twice.
- `fno_late`: nothing keeps the strategist's 14:30 and 14:45 runs from entering
  behind the hard exit.

Met while modelling, and in the models as the code has it, but not a run of
their own:

- budget: the split the LLM chose is stored in a block whose top level is read
  for bucket names (`trading/budget_allocator.py:160`), so the defaults always
  apply, although `equity_strategist.py:318` speaks of the chosen split;
- shutdown: `main.py:98` says running jobs are drained; they are cancelled, and
  `_logged` then writes "completed";
- SIP: the top-up runs again when the morning run crashed, failed, or could not
  write its job_log row, or when a boot straddles its minute, though the list
  it is in "must run exactly once per trading day" (`scheduler_reconciler.py:43`);
- the docstring of `build_scheduler` (`scheduler.py:523`) says next firings
  survive a restart; the code wipes the store;
- the intraday trigger fires twelve times a day where its comment says six;
- the intraday cap counts dry-run rows as well;
- a trade whose notification raises is counted as skipped;
- fifty messages that keep failing block all newer ones until they are
  abandoned; a message may be sent twice between send and mark;
- replay: an agent without an audit row is called live; the audit row is
  written before the validator ran, and the oldest row answers for every
  item of an iterated agent; the key `replay-<id>-start` can be used once;
- splits: the part of a BUY row that a SELL cuts off gets no exchange charge and
  stamp duty, and the part that stays is scaled down (`trading/engine.py:379-398`),
  so `trades.total_cost` loses them, although the docstring says "so totals are
  preserved" (276-279); cash and rows differ by that (`Dropped`);
- cancel: `trades.py:135-142` writes "cancelled" over whatever the sweep has
  written since it read the row, so an order that traded can end cancelled
  without any fault (`CancelCommits`);
- catch-up: a daily-critical job whose `add_job` raises is logged and forgotten
  by this process (`scheduler_reconciler.py:168-184`; `unscheduled`);
- sold first legs: P&L is computed with their side (`position_manager.py:146-151`),
  stop and target without it, so an iron condor closes at its "target" with a
  loss and at its "stop" with a gain, although lines 126-127 say "the net P&L
  sense still holds";
- cost columns: the cost of a run and those of its agent_runs are rounded
  separately to six decimals and need not add up in the last one;
- workflow cost: rejected responses are paid for and not counted, a pod is
  neither projected nor compared, `on_failure "abort"` is never consulted;
- the orphan sweep overwrites a run that takes longer than an hour, and the run
  overwrites the sweep;
- a crashed run's key is burned; a failed insert keeps the Redis key for 300 s;
- an exception in the last, sequential shadow evaluator fails the whole run
  though its spec says "never abort for eval failures".

## 10. Not modelled

- Pure numerics: sizer, exits and primitives of the quant loop, strategy
  pricing, calibration, analytics, backtests. The models leave their answers
  open (any lots, any exit, any proposal), so their properties do not depend
  on them.
- Text and I/O: collectors, extraction, whisper, prompts and tools of the
  agents, reports, routes that only read, front ends, scripts.
- Chain collection, tiers and issue filing: one job writes a health counter per
  source that no other task reads in between.
- Within the modelled components: replay mode of the quant loop and its metrics
  tables, snapshots of the portfolio, quotes of the other
  legs and the buckets of F&O positions, alerts, the lumpsum mode, dry-run
  switches.
- Daily-critical jobs other than the strategist's: their scheduling is that of
  `TradingDay`, their work is a batch of the kinds above.

PROJECT.json has a row and a reason per component, and the hazards no property
covers with why. More runs over the same machines would repeat the twelve
there are: larger instances (a third symbol, a second fault) grow past what can
be checked in minutes, and the theorems cover them.

## 11. Running

    tlc -workers 2 -config trading_concurrent.cfg MCPaperTrading
    tlc -workers 2 -config trading_serial.cfg     MCPaperTrading
    tlc -workers 2 -config trading_refill.cfg     MCPaperTrading    # finds a violation
    tlc -workers 2 -config trading_cancel.cfg     MCPaperTrading    # finds a violation
    tlc -workers 2 -config quant.cfg              MCQuantLoop
    tlc -workers 2 -config quant_recovery.cfg     MCQuantLoop       # finds a violation
    tlc -workers 2 -config quant_resume.cfg       MCQuantLoop       # finds a violation
    tlc -workers 2 -config fno.cfg                MCFnoPositions
    tlc -workers 2 -config fno_reentry.cfg        MCFnoPositions    # finds a violation
    tlc -workers 2 -config fno_late.cfg           MCFnoPositions    # finds a violation
    tlc -workers 2 -config day.cfg                MCTradingDay
    tlc -workers 2 -config workflow.cfg           MCWorkflowRunner

    tlapm SumTheorems.tla
    tlapm PaperTradingProofs.tla
    tlapm QuantLoopProofs.tla
    tlapm FnoPositionsProofs.tla
    tlapm TradingDayProofs.tla
    tlapm WorkflowRunnerProofs.tla
    tlapm WorkflowCallsProofs.tla
    tlapm WorkflowLedgerProofs.tla
