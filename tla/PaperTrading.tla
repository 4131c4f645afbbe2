---------------------------- MODULE PaperTrading ----------------------------
(***************************************************************************)
(* Paper-trade execution: the trading engine, the risk manager it calls,   *)
(* the pending-order sweep, the API routes that place and cancel orders,   *)
(* and the five-minute portfolio revaluation.  All of them share the rows  *)
(* of one portfolio in Postgres (READ COMMITTED) and run as asyncio tasks  *)
(* of two processes, the scheduler and the API.                            *)
(*                                                                         *)
(* A call of execute_market_order is four steps, one per session_scope:    *)
(* validate, read the portfolio row, commit, notify.  The commit is one    *)
(* step: the flush that precedes the SELECT of the holding updates the     *)
(* portfolio row, whose row lock is then held until the commit, so what it *)
(* reads of holdings and BUY legs is current; the cash it writes is        *)
(* computed from the row it read one step earlier.                         *)
(*                                                                         *)
(* An open BUY row of q shares is q consecutive entries of legs[i], oldest *)
(* first, the last of which ends the row: consuming part of a row, which   *)
(* the code splits, is dropping a prefix that stops short of its end.      *)
(* Charges are proportional to the number of shares.                       *)
(***************************************************************************)
EXTENDS Integers, Sequences, FiniteSets, Functions

CONSTANTS
    Instruments,     \* instruments.id
    Tradable,        \* those EQUITY_TRADING_ENABLED lets trade
    Requests,        \* orders a user sends, each once
    Request,         \* Requests -> what the user asks for
    Expiring,        \* requests placed with a valid_till
    Prices,          \* prices a tick can carry
    InitialCash,     \* portfolios.initial_capital
    MaxPositionPct,  \* RiskManager.MAX_POSITION_PCT
    BuyFee,          \* brokerage of a BUY, per share
    SellFee,         \* brokerage and STT of a SELL, per share
    OtherFee,        \* exchange charge and stamp duty, per share
    MaxInvested,     \* bound: no total of cost bases exceeds it
    MaxFaults        \* bound: crashes and failed notifications

NotRunning == [on |-> FALSE, total |-> 0, loaded |-> 0]

RequestRecord ==
    [trade_type : {"BUY", "SELL"},
     order_type : {"MARKET", "LIMIT", "STOP_LOSS"},
     instrument : Instruments,
     quantity   : Nat \ {0},
     level      : Nat]

\* a share of an open and of a closed BUY row
OpenShare   == [price : Prices, ends : BOOLEAN]
ClosedShare == [buy : Prices, sell : Prices, slice : BOOLEAN]

ASSUME TradingAssumption ==
    /\ IsFiniteSet(Instruments)
    /\ Tradable \subseteq Instruments
    /\ Request \in [Requests -> RequestRecord]
    /\ Expiring \subseteq Requests
    /\ Prices \subseteq Nat \ {0}
    /\ InitialCash \in Nat
    /\ MaxPositionPct \in 0 .. 100
    /\ BuyFee \in Nat /\ SellFee \in Nat /\ OtherFee \in Nat
    /\ \A p \in Prices : SellFee + OtherFee <= p
    /\ MaxInvested \in Nat
    /\ MaxFaults \in Nat

VARIABLES
    cash,      \* portfolios.current_cash
    invested,  \* portfolios.invested_value
    qty,       \* holdings.quantity, 0 when there is no row
    cost,      \* holdings.invested_value, 0 when there is no row
    legs,      \* open BUY rows of trades, one entry per share, FIFO
    closed,    \* closed BUY rows of trades, one entry per share; slice:
               \* the row was split off a larger one
    unmatched, \* shares sold that no open BUY row matched
    booked,    \* net of total_cost over all rows of trades
    fills,     \* committed trades per request
    status,    \* pending_orders.status, "new" before the row exists
    lapsed,    \* requests whose valid_till has passed
    cancelling, \* orders some DELETE call has found pending
    exec,      \* the execute_market_order call serving each request
    job,       \* local state of check_pending_orders
    reval,     \* local state of _update_portfolio
    faults,    \* crashes and failed notifications so far
    overlapped \* history: two calls were between read and commit at once

book == <<cash, invested, qty, cost, legs, closed, unmatched, booked, fills>>
vars == <<book, status, lapsed, cancelling, exec, job, reval, faults, overlapped>>

-----------------------------------------------------------------------------
(* Operators.                                                              *)

Market == {r \in Requests : Request[r].order_type = "MARKET"}
Book   == Requests \ Market

Call(pc, price) == [pc |-> pc, price |-> price, cash |-> 0, invested |-> 0]
Idle(pc) == Call(pc, 0)

Instr(r)  == Request[r].instrument
IsBuy(r)  == Request[r].trade_type = "BUY"
Shares(r) == Request[r].quantity

\* defect: the charges of a SELL are added, too
_total_cost_added(r, price) == Shares(r) * (price + SellFee + OtherFee)

\* turnover with the charges of _calc_charges: a BUY pays them on top, a
\* SELL receives less
_total_cost(r, price) ==
    IF IsBuy(r) THEN Shares(r) * (price + BuyFee + OtherFee)
                ELSE Shares(r) * (price - SellFee - OtherFee)

\* defect: the checks leave the charges out
validate_buy_turnover(r, price) ==
    LET turnover == Shares(r) * price
    IN  /\ turnover <= cash
        /\ 100 * (cost[Instr(r)] + turnover)
             <= MaxPositionPct * (cash + invested)

validate_buy(r, price) ==
    LET total_cost == _total_cost(r, price)
    IN  /\ total_cost <= cash
        /\ 100 * (cost[Instr(r)] + total_cost)
             <= MaxPositionPct * (cash + invested)

\* defect: any holding will do
validate_sell_any(r) == qty[Instr(r)] > 0

validate_sell(r) == qty[Instr(r)] >= Shares(r)

Permissible(r, price) ==
    IF IsBuy(r) THEN validate_buy(r, price) ELSE validate_sell(r)

_should_trigger(r, ltp) ==
    /\ Request[r].level > 0
    /\ IF IsBuy(r) <=> (Request[r].order_type = "LIMIT")
         THEN ltp <= Request[r].level
         ELSE ltp >= Request[r].level

\* defect: charges do not reach the cash balance
CashAfter_turnover(r, loaded) ==
    IF IsBuy(r) THEN loaded - Shares(r) * exec[r].price
                ELSE loaded + Shares(r) * exec[r].price

\* the cash the commit writes, from the cash it loaded
CashAfter(r, loaded) ==
    IF IsBuy(r) THEN loaded - _total_cost(r, exec[r].price)
                ELSE loaded + _total_cost(r, exec[r].price)

\* defect: the row is kept whatever is left
Remaining_any(left) == left

\* a holding that would reach zero or less is deleted
Remaining(left) == IF left <= 0 THEN 0 ELSE left

\* proportional reduction of a holding's cost basis
Keep(basis, left, held) == (basis * left) \div held

Least(a, b) == IF a <= b THEN a ELSE b

\* a BUY row of q shares
Leg(q, price) == [k \in 1 .. q |-> [price |-> price, ends |-> k = q]]

\* of the first n open shares, those of the row that is consumed in part
SplitOff(open, n) == {k \in 1 .. n : \A j \in k .. n : ~open[j].ends}

\* the shares of open rows a SELL closed
Consumed(open, n, price) ==
    [k \in 1 .. n |-> [buy |-> open[k].price, sell |-> price,
                       slice |-> k \in SplitOff(open, n)]]

Serving(S) == {r \in S : exec[r].pc \in {"ready", "read", "committed"}}

Init ==
    /\ cash = InitialCash
    /\ invested = 0
    /\ qty = [i \in Instruments |-> 0]
    /\ cost = [i \in Instruments |-> 0]
    /\ legs = [i \in Instruments |-> <<>>]
    /\ closed = <<>>
    /\ unmatched = 0
    /\ booked = 0
    /\ fills = [r \in Requests |-> 0]
    /\ status = [r \in Requests |-> "new"]
    /\ lapsed = {}
    /\ cancelling = {}
    /\ exec = [r \in Requests |-> Idle("idle")]
    /\ job = [batch |-> {}, late |-> {}]
    /\ reval = NotRunning
    /\ faults = 0
    /\ overlapped = FALSE

-----------------------------------------------------------------------------
(* API routes.                                                             *)

\* POST /trades with a limit or stop order
place_order(r) ==
    /\ r \in Book
    /\ status[r] = "new"
    /\ Instr(r) \in Tradable
    /\ status' = [status EXCEPT ![r] = "pending"]
    /\ UNCHANGED <<book, lapsed, cancelling, exec, job, reval, faults, overlapped>>

\* DELETE /trades/pending/{id} reads the row without a lock; any other
\* status is answered with 409
cancel_pending_order(r) ==
    /\ status[r] = "pending"
    /\ cancelling' = cancelling \cup {r}
    /\ UNCHANGED <<book, status, lapsed, exec, job, reval, faults, overlapped>>

\* its commit, whatever the row says by then; another call that found the
\* order pending may still be under way
CancelCommits(r) ==
    /\ r \in cancelling
    /\ status' = [status EXCEPT ![r] = "cancelled"]
    /\ cancelling' \in {cancelling, cancelling \ {r}}
    /\ UNCHANGED <<book, lapsed, exec, job, reval, faults, overlapped>>

\* a database error before the commit
CancelRollsBack(r) ==
    /\ r \in cancelling
    /\ cancelling' = cancelling \ {r}
    /\ UNCHANGED <<book, status, lapsed, exec, job, reval, faults, overlapped>>

\* POST /trades with a market order: refused with 422, or validated
place_market_order(r, price) ==
    /\ r \in Market
    /\ exec[r].pc = "idle"
    /\ Instr(r) \in Tradable
    /\ exec' = [exec EXCEPT ![r] =
                  IF Permissible(r, price)
                    THEN Call("ready", price)
                    ELSE Idle("done")]
    /\ UNCHANGED <<book, status, lapsed, cancelling, job, reval, faults, overlapped>>

Lapse(r) ==
    /\ r \in Expiring \ lapsed
    /\ lapsed' = lapsed \cup {r}
    /\ UNCHANGED <<book, status, cancelling, exec, job, reval, faults, overlapped>>

-----------------------------------------------------------------------------
(* check_pending_orders, one instance, every minute.                       *)

JobBusy == Serving(Book) # {}

\* defect: every order that was ever placed
Due_unfiltered == {r \in Book : status[r] # "new" /\ Instr(r) \in Tradable}

Due == {r \in Book : status[r] = "pending" /\ Instr(r) \in Tradable}

\* the orders are read once; expiry is judged by the clock read then
SweepBegin ==
    /\ job.batch = {} /\ ~JobBusy
    /\ Due # {}
    /\ job' = [batch |-> Due, late |-> Due \cap lapsed]
    /\ UNCHANGED <<book, status, lapsed, cancelling, exec, reval, faults, overlapped>>

NextInSweep(r) ==
    /\ ~JobBusy
    /\ r \in job.batch
    /\ job' = [job EXCEPT !.batch = @ \ {r}]

\* defect: the expired order is passed over and not written
SweepExpire_silent(r) ==
    /\ NextInSweep(r)
    /\ r \in job.late
    /\ UNCHANGED <<book, status, lapsed, cancelling, exec, reval, faults, overlapped>>

\* the row is loaded again, its status is not looked at
SweepExpire(r) ==
    /\ NextInSweep(r)
    /\ r \in job.late
    /\ status' = [status EXCEPT ![r] = "expired"]
    /\ UNCHANGED <<book, lapsed, cancelling, exec, reval, faults, overlapped>>

\* no tick yet, price not reached, or the risk manager refuses: the order
\* stays pending
SweepSkip(r) ==
    /\ NextInSweep(r)
    /\ r \notin job.late
    /\ UNCHANGED <<book, status, lapsed, cancelling, exec, reval, faults, overlapped>>

SweepTrigger(r, ltp) ==
    /\ NextInSweep(r)
    /\ r \notin job.late
    /\ _should_trigger(r, ltp)
    /\ Permissible(r, ltp)
    /\ exec' = [exec EXCEPT ![r] = Call("ready", ltp)]
    /\ UNCHANGED <<book, status, lapsed, cancelling, reval, faults, overlapped>>

\* a read or the write of an expiry fails, outside any try: the job ends
SweepAborts ==
    /\ job.batch # {} /\ ~JobBusy
    /\ faults < MaxFaults
    /\ faults' = faults + 1
    /\ job' = [batch |-> {}, late |-> {}]
    /\ UNCHANGED <<book, status, lapsed, cancelling, exec, reval, overlapped>>

\* defect: the order is marked before the engine trades
MarkExecuted_early(r) ==
    /\ r \in Book
    /\ exec[r].pc = "ready"
    /\ status' = [status EXCEPT ![r] = "executed"]
    /\ UNCHANGED <<book, lapsed, cancelling, exec, job, reval, faults, overlapped>>

\* a session of its own after the engine returned; the status found is not
\* looked at
MarkExecuted(r) ==
    /\ r \in Book
    /\ exec[r].pc = "committed"
    /\ exec' = [exec EXCEPT ![r] = Idle("idle")]
    /\ status' = [status EXCEPT ![r] = "executed"]
    /\ UNCHANGED <<book, lapsed, cancelling, job, reval, faults, overlapped>>

-----------------------------------------------------------------------------
(* execute_market_order after validation.                                  *)

LoadPortfolio(r) ==
    /\ exec[r].pc = "ready"
    /\ exec' = [exec EXCEPT ![r] =
                  [pc |-> "read", price |-> exec[r].price,
                   cash |-> cash, invested |-> invested]]
    /\ overlapped' = (overlapped \/ \E s \in Requests : exec[s].pc = "read")
    /\ UNCHANGED <<book, status, lapsed, cancelling, job, reval, faults>>

CommitBuy(r) ==
    LET i     == Instr(r)
        q     == Shares(r)
        price == exec[r].price
    IN  /\ exec[r].pc = "read"
        /\ IsBuy(r)
        /\ cash' = CashAfter(r, exec[r].cash)
        /\ invested' = exec[r].invested + q * price
        /\ qty' = [qty EXCEPT ![i] = @ + q]
        /\ cost' = [cost EXCEPT ![i] = @ + q * price]
        /\ legs' = [legs EXCEPT ![i] = @ \o Leg(q, price)]
        /\ booked' = booked - _total_cost(r, price)
        /\ fills' = [fills EXCEPT ![r] = @ + 1]
        /\ exec' = [exec EXCEPT ![r] = Call("committed", price)]
        /\ UNCHANGED <<closed, unmatched, status, lapsed, cancelling, job, reval, faults, overlapped>>

\* defect: a leg larger than the SELL is not reduced
_link_whole_legs(i, q, price) ==
    LET n == IF q < Len(legs[i]) THEN 0 ELSE Len(legs[i])
    IN  /\ legs' = [legs EXCEPT ![i] = SubSeq(@, n + 1, Len(@))]
        /\ closed' = closed \o Consumed(legs[i], n, price)
        /\ unmatched' = unmatched + (q - n)

\* FIFO link of the SELL to the open BUY legs; a remainder is only logged
_link_sell_to_open_buys(i, q, price) ==
    LET n == Least(q, Len(legs[i]))
    IN  /\ legs' = [legs EXCEPT ![i] = SubSeq(@, n + 1, Len(@))]
        /\ closed' = closed \o Consumed(legs[i], n, price)
        /\ unmatched' = unmatched + (q - n)

\* a split leaves the exchange charge and stamp duty out of the total_cost
\* of the row split off, and the row that stays open is scaled down
SplitLoss(i, q) ==
    OtherFee * Cardinality(SplitOff(legs[i], Least(q, Len(legs[i]))))

CommitSell(r) ==
    LET i     == Instr(r)
        q     == Shares(r)
        price == exec[r].price
        left  == qty[i] - q
    IN  /\ exec[r].pc = "read"
        /\ ~IsBuy(r)
        /\ cash' = CashAfter(r, exec[r].cash)
        /\ invested' = exec[r].invested - q * price
        /\ qty' = [qty EXCEPT ![i] = Remaining(left)]
        /\ cost' = [cost EXCEPT ![i] = IF left <= 0 THEN 0 ELSE Keep(@, left, qty[i])]
        /\ _link_sell_to_open_buys(i, q, price)
        /\ booked' = booked + _total_cost(r, price) + SplitLoss(i, q)
        /\ fills' = [fills EXCEPT ![r] = @ + 1]
        /\ exec' = [exec EXCEPT ![r] = Call("committed", price)]
        /\ UNCHANGED <<status, lapsed, cancelling, job, reval, faults, overlapped>>

\* a database error before the commit: the session rolls back, the sweep
\* goes on to its next order, the API call answers 500
RollBack(r) ==
    /\ exec[r].pc \in {"ready", "read"}
    /\ exec' = [exec EXCEPT ![r] = Idle(IF r \in Market THEN "done" ELSE "idle")]
    /\ UNCHANGED <<book, status, lapsed, cancelling, job, reval, faults, overlapped>>

Answer(r) ==
    /\ r \in Market
    /\ exec[r].pc = "committed"
    /\ exec' = [exec EXCEPT ![r] = Idle("done")]
    /\ UNCHANGED <<book, status, lapsed, cancelling, job, reval, faults, overlapped>>

\* NotificationService.create raises after the trade is committed: the
\* sweep logs it and leaves the order pending
NotifyFails(r) ==
    /\ faults < MaxFaults
    /\ exec[r].pc = "committed"
    /\ exec' = [exec EXCEPT ![r] = Idle(IF r \in Market THEN "done" ELSE "idle")]
    /\ faults' = faults + 1
    /\ UNCHANGED <<book, status, lapsed, cancelling, job, reval, overlapped>>

-----------------------------------------------------------------------------
(* _update_portfolio: holdings without any price are left out of the sum.  *)

RevalRead(priced) ==
    /\ ~reval.on
    /\ \E total \in 0 .. MaxInvested :
          /\ total = SumFunctionOnSet(cost, priced)
          /\ reval' = [on |-> TRUE, total |-> total, loaded |-> invested]
    /\ UNCHANGED <<book, status, lapsed, cancelling, exec, job, faults, overlapped>>

\* the column is written only when it differs from the value loaded
RevalCommit ==
    /\ reval.on
    /\ invested' = IF reval.total = reval.loaded THEN invested ELSE reval.total
    /\ reval' = NotRunning
    /\ UNCHANGED <<cash, qty, cost, legs, closed, unmatched, booked, fills,
                   status, lapsed, cancelling, exec, job, faults, overlapped>>

\* a holding it re-priced was deleted meanwhile, or the database fails
RevalAbort ==
    /\ reval.on
    /\ reval' = NotRunning
    /\ UNCHANGED <<book, status, lapsed, cancelling, exec, job, faults, overlapped>>

-----------------------------------------------------------------------------
(* A crash of either process loses its tasks; open transactions roll back. *)

CrashScheduler ==
    /\ faults < MaxFaults
    /\ faults' = faults + 1
    /\ exec' = [r \in Requests |-> IF r \in Book THEN Idle("idle") ELSE exec[r]]
    /\ job' = [batch |-> {}, late |-> {}]
    /\ reval' = NotRunning
    /\ UNCHANGED <<book, status, lapsed, cancelling, overlapped>>

CrashApi ==
    /\ faults < MaxFaults
    /\ Serving(Market) # {} \/ cancelling # {}
    /\ faults' = faults + 1
    /\ cancelling' = {}
    /\ exec' = [r \in Requests |->
                  IF r \in Serving(Market) THEN Idle("done") ELSE exec[r]]
    /\ UNCHANGED <<book, status, lapsed, job, reval, overlapped>>

-----------------------------------------------------------------------------
CancelStep(r) ==
    \/ cancel_pending_order(r)
    \/ CancelCommits(r)
    \/ CancelRollsBack(r)

SweepStep(r) ==
    \/ SweepExpire(r)
    \/ SweepSkip(r)
    \/ \E ltp \in Prices : SweepTrigger(r, ltp)

EngineStep(r) ==
    \/ LoadPortfolio(r)
    \/ CommitBuy(r)
    \/ CommitSell(r)
    \/ RollBack(r)
    \/ Answer(r)
    \/ MarkExecuted(r)

RevalStep ==
    \/ \E priced \in SUBSET Instruments : RevalRead(priced)
    \/ RevalCommit
    \/ RevalAbort

Next ==
    \/ \E r \in Requests :
          \/ place_order(r)
          \/ CancelStep(r)
          \/ \E price \in Prices : place_market_order(r, price)
          \/ Lapse(r)
          \/ SweepStep(r)
          \/ EngineStep(r)
          \/ NotifyFails(r)
    \/ SweepBegin
    \/ SweepAborts
    \/ RevalStep
    \/ CrashScheduler
    \/ CrashApi

Spec == Init /\ [][Next]_vars

\* the scheduler keeps firing the sweep and its tasks are not starved
Fairness ==
    /\ WF_vars(SweepBegin)
    /\ \A r \in Book : WF_vars(SweepStep(r)) /\ WF_vars(EngineStep(r))

\* executions that never overlap: one request at a time between its
\* validation and the end of its call
SerialNext == Next /\ \A r, s \in Serving(Requests)' : r = s
SerialSpec == Init /\ [][SerialNext]_vars
SerialFairSpec == SerialSpec /\ Fairness

-----------------------------------------------------------------------------
(* Properties of every interleaving, crash and failed notification.        *)

\* Types of the rows and of the tasks' local state; in particular no
\* interleaving of SELLs leaves a holding with a negative quantity
\* (engine.py deletes the row at zero or less).
TypeOK ==
    /\ cash \in Int /\ invested \in Int /\ booked \in Int
    /\ qty \in [Instruments -> Nat]
    /\ cost \in [Instruments -> Nat]
    /\ legs \in [Instruments -> Seq(OpenShare)]
    /\ closed \in Seq(ClosedShare)
    /\ unmatched \in Nat
    /\ fills \in [Requests -> Nat]
    /\ status \in [Requests ->
                      {"new", "pending", "executed", "cancelled", "expired"}]
    /\ lapsed \in SUBSET Requests
    /\ cancelling \in SUBSET Requests
    /\ exec \in [Requests ->
                    [pc : {"idle", "ready", "read", "committed", "done"},
                     price : Prices \cup {0}, cash : Int, invested : Int]]
    /\ job \in [batch : SUBSET Requests, late : SUBSET Requests]
    /\ reval \in [on : BOOLEAN, total : Nat, loaded : Int]
    /\ faults \in 0 .. MaxFaults
    /\ overlapped \in BOOLEAN

\* Holdings stay reconciled with the leg-level history: the quantity held
\* is what the open BUY rows of trades add up to, however SELLs that were
\* validated against the same holding interleave.
HoldingsReconciled == \A i \in Instruments : qty[i] = Len(legs[i])

\* An order marked executed has a committed trade behind it: the sweep
\* marks it in a later transaction, which no crash may run without the
\* first.
ExecutedIsBacked ==
    \A r \in Book : status[r] = "executed" => fills[r] >= 1

\* Without a crash or a failed notification no order trades twice, and it
\* has traded once when it ends executed and not at all while it is pending
\* or when it ends expired, whatever sweeps, cancellations and expiries
\* interleave.  A cancelled order may have traded: the sweep does not look
\* for a cancellation, nor the cancel's commit for an execution.
FillsFollowStatus ==
    faults = 0 =>
        \A r \in Book :
            /\ fills[r] <= 1
            /\ status[r] = "executed" \/ exec[r].pc = "committed" => fills[r] = 1
            /\ status[r] \notin {"executed", "cancelled"} /\ exec[r].pc # "committed"
                  => fills[r] = 0

\* exchange charge and stamp duty of closed shares that no trade row carries
\* any more since their row was split
Dropped == OtherFee * Cardinality({k \in DOMAIN closed : closed[k].slice})

\* The cash balance is the initial capital and the net of all trade rows,
\* but for the charges that splits dropped from them, as long as no two
\* executions were between reading the portfolio row and committing it:
\* crashes, retries, expiries and revaluations, which write the same row,
\* never lose or invent money.
CashFollowsTrades == ~overlapped => cash = InitialCash + booked - Dropped

Realized ==
    SumFunction([k \in DOMAIN closed |->
                    closed[k].sell - closed[k].buy - BuyFee - SellFee])

OpenCost(i) == SumFunction([k \in DOMAIN legs[i] |-> legs[i][k].price + BuyFee])

\* The P&L written on the closed BUY rows explains the money: the net of
\* all trade rows is realized P&L less the cost of the open legs less the
\* charges P&L leaves out (exchange and stamp), as far as the rows carry
\* them, while every SELL found its BUYs.
PnLReconciles ==
    unmatched = 0 =>
        booked = Realized
                 - SumFunction([i \in Instruments |-> OpenCost(i)])
                 - OtherFee * (2 * Len(closed)
                               + SumFunction([i \in Instruments |-> Len(legs[i])]))
                 + Dropped

\* An expired order does not stay pending: the sweep gets to it whatever
\* the other orders in its batch do.
LapsedSettles ==
    \A r \in Book :
        status[r] = "pending" /\ r \in lapsed ~> status[r] # "pending"

-----------------------------------------------------------------------------
(* Properties of executions that never overlap.                            *)

\* Validated cash is still there at the commit.
CashNeverNegative == cash >= 0

\* A SELL always finds the BUYs it sells.
NoUnmatchedSale == unmatched = 0

-----------------------------------------------------------------------------
(* What the API and the schema say of an order, which the code does not    *)
(* ensure.                                                                  *)

\* "Cancel a pending order": once the row says cancelled it does not trade.
CancelIsFinal ==
    [][\A r \in Book : status[r] = "cancelled" => fills'[r] = fills[r]]_vars

\* One order is one trade.
AtMostOneFill == \A r \in Requests : fills[r] <= 1

=============================================================================
