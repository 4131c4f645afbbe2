----------------------------- MODULE FnoPositions -----------------------------
(***************************************************************************)
(* Paper positions in options: the entry executor, the position manager    *)
(* and the two paths of the equity strategist into them, over the rows of  *)
(* fno_signals.  Every task lives in the scheduler process: the jobs entry *)
(* (09:15), manage (every minute until 14:59) and hard exit (14:30), at    *)
(* most one instance of each, and the strategist ("brain"), which may call *)
(* auto_enter and close_fno_signal at any time of the session.             *)
(*                                                                         *)
(* A task reads rows in one transaction and writes them in later ones, and *)
(* no write looks at the status it finds.  A position is managed, and its  *)
(* P&L computed, by its first leg, which the strategy buys or sells; the   *)
(* other legs and the fees only count in its net premium.  A lot is one    *)
(* contract, and all positions draw on one bucket of the strategy budget.  *)
(* A tick of the clock is a stretch of the session: what starts in it ends *)
(* in it.                                                                  *)
(***************************************************************************)
EXTENDS Integers, Sequences, FiniteSetsExt, Functions

CONSTANTS
    Symbols,     \* underlyings
    Candidates,  \* those with a PROCEED of phase 3, per day
    Premiums,    \* option premiums the chain can show
    Structures,  \* what may be proposed for a symbol: the side of the first
                 \* leg, and what the other legs and the fees add to its cost
    Cap,         \* rupee cap of the bucket
    MaxPosition, \* fno_sizing_max_position_pct
    ScaleOut,    \* fno_phase4_scale_out_at_pct_gain, in percent
    TrailBy,     \* fno_phase4_trailing_stop_from_peak_pct, in percent
    HardExit,    \* tick of fno_phase4_hard_exit_time
    Close,       \* tick after which nothing runs
    MaxActions,  \* FNO actions of the strategist per tick
    MaxDays,     \* bound: trading days
    MaxRows,     \* bound: rows of fno_signals
    MaxFaults    \* bound: crashes and failed transactions

\* of a lot: negative when the structure is sold for a credit
net_cost(s, fill) == (IF s.side = "BUY" THEN fill ELSE -fill) + s.rest

ASSUME FnoAssumption ==
    /\ Premiums \subseteq Nat \ {0}
    /\ Cap \in Nat
    /\ MaxPosition \in 0 .. 100 /\ ScaleOut \in Nat /\ TrailBy \in 0 .. 100
    /\ Structures \in [Symbols -> SUBSET [side : {"BUY", "SELL"}, rest : Int]]
    \* a filled structure costs at most 100/MaxPosition times the premium
    \* its proposal was sized at
    /\ \A a \in Symbols : \A p, f \in Premiums, s \in Structures[a] :
          net_cost(s, f) * MaxPosition <= 100 * p
    /\ HardExit \in Nat \ {0} /\ Close \in Nat /\ HardExit <= Close
    /\ MaxActions \in Nat /\ MaxDays \in Nat \ {0}
    /\ Candidates \in [1 .. MaxDays -> SUBSET Symbols]
    /\ MaxRows \in Nat /\ MaxFaults \in Nat

VARIABLES
    rows,      \* fno_signals, in the order of proposed_at
    day, now,  \* trading day and tick of the clock, 0 before 09:15
    up,        \* the scheduler process runs
    due,       \* jobs whose time has come and that have not started
    entering,  \* local state of the auto_enter calls
    managing,  \* local state of manage_tick
    exiting,   \* local state of hard_exit_all
    closing,   \* local state of close_fno_signal
    actions,   \* of the strategist in this tick
    faults,    \* crashes and failed transactions so far
    overlapped \* history: two auto_enter calls ran at once

clock == <<day, now>>
jobs  == <<managing, exiting>>
brain == <<closing, actions>>
tasks == <<entering, jobs, brain>>
vars  == <<rows, clock, up, due, tasks, faults, overlapped>>

-----------------------------------------------------------------------------
Callers == {"job", "brain"} \* of auto_enter
Jobs    == {"entry", "manage", "exit"}

None == 0 \* no row

\* auto_enter: the proposals ahead, the one at hand with the headroom read
\* for it, and whether it passed the check for an entry of today
NotEntering == [on |-> FALSE, todo |-> {}, at |-> {}, headroom |-> 0, checked |-> FALSE]
\* manage_tick: the signals ahead, the one to close and its premium
NotManaging == [on |-> FALSE, todo |-> {}, row |-> None, premium |-> 0]
\* hard_exit_all: the signals ahead, and whether it has ended today
NotExiting  == [on |-> FALSE, todo |-> {}, done |-> FALSE]

IsLive(t) == rows[t].status = "paper_filled"
Live == {t \in DOMAIN rows : IsLive(t)}

Cost(t) == rows[t].net \* entry_premium_net
Today == {t \in DOMAIN rows : rows[t].day = day}

\* of the first leg
Premium(t) == rows[t].fill * rows[t].lots

\* defect: a closed position gives its premium back to the bucket
fno_premium_deployed_live ==
    SumFunction([t \in {t \in Today : IsLive(t)} |-> Cost(t)])

fno_premium_deployed_today == SumFunction([t \in Today |-> Cost(t)])

\* defect: only a position that is still open counts
_already_entered_live(a) == \E t \in Today : rows[t].symbol = a /\ IsLive(t)

_already_entered_today(a) == \E t \in Today : rows[t].symbol = a

\* a capital, and the premium the proposal was made at; how many of them
\* the risk per trade allows is left open
compute_lots(capital, premium) == 1 .. (capital * MaxPosition) \div (100 * premium)

\* stop and target in hundredths of a rupee, rebuilt from the fill
Stop(t)   == 70 * rows[t].fill
Target(t) == 130 * rows[t].fill

_compute_pnl(t, exit) ==
    IF rows[t].side = "BUY" THEN (exit - rows[t].fill) * rows[t].lots
                            ELSE (rows[t].fill - exit) * rows[t].lots

\* stop, target and trailing stop take the first leg for a bought one
\* whatever its side; the trailing stop moves at a new peak above the
\* scale-out gain, and the peak is the fill at the start of every tick
Trails(t, premium) ==
    /\ 100 * (premium - rows[t].fill) >= ScaleOut * rows[t].fill
    /\ premium > rows[t].fill
    /\ (100 - TrailBy) * premium > Stop(t)
update_trailing_stop(t, premium) ==
    IF Trails(t, premium) THEN (100 - TrailBy) * premium ELSE Stop(t)

\* defect: the target is twice as far
apply_tick_double(t, premium, stop) ==
    IF 100 * premium <= stop THEN "closed_stop"
    ELSE IF 100 * premium >= 160 * rows[t].fill THEN "closed_target"
    ELSE "hold"

apply_tick(t, premium, stop) ==
    IF 100 * premium <= stop THEN "closed_stop"
    ELSE IF 100 * premium >= Target(t) THEN "closed_target"
    ELSE "hold"

Init ==
    /\ rows = <<>>
    /\ day = 1 /\ now = 0
    /\ up = TRUE /\ due = {}
    /\ entering = [c \in Callers |-> NotEntering]
    /\ managing = NotManaging
    /\ exiting = NotExiting
    /\ closing = None
    /\ actions = 0
    /\ faults = 0
    /\ overlapped = FALSE

Fault == faults < MaxFaults /\ faults' = faults + 1

-----------------------------------------------------------------------------
(* The scheduler process and the clock.                                    *)

\* jobs are registered anew; those whose time has passed wait for tomorrow
Boot ==
    /\ ~up
    /\ up' = TRUE
    /\ UNCHANGED <<rows, clock, due, tasks, faults, overlapped>>

Crash ==
    /\ up
    /\ Fault
    /\ up' = FALSE
    /\ due' = {}
    /\ entering' = [c \in Callers |-> NotEntering]
    /\ managing' = NotManaging
    /\ exiting' = NotExiting
    /\ closing' = None
    /\ UNCHANGED <<rows, clock, actions, overlapped>>

\* defect: the hard exit is left out of the schedule
JobsAt_endless(tick) ==
    (IF tick < Close THEN {"manage"} ELSE {})
               \cup (IF tick = 1 THEN {"entry"} ELSE {})

JobsAt(tick) ==
    (IF tick < Close THEN {"manage"} ELSE {})
               \cup (IF tick = 1 THEN {"entry"} ELSE {})
               \cup (IF tick = HardExit THEN {"exit"} ELSE {})

Quiet ==
    /\ due = {} /\ ~managing.on /\ ~exiting.on /\ closing = None
    /\ \A c \in Callers : ~entering[c].on

TimePasses ==
    /\ now < Close /\ Quiet
    /\ now' = now + 1
    /\ due' = IF up THEN JobsAt(now + 1) ELSE {}
    /\ actions' = 0
    /\ UNCHANGED <<rows, day, up, entering, jobs, closing, faults, overlapped>>

NextDay ==
    /\ now = Close /\ day < MaxDays /\ Quiet
    /\ day' = day + 1
    /\ now' = 0
    /\ exiting' = NotExiting
    /\ actions' = 0
    /\ UNCHANGED <<rows, up, due, entering, managing, closing, faults, overlapped>>

-----------------------------------------------------------------------------
(* auto_enter.                                                             *)

\* a batch of the strategist has its next FNO action
Decides == now < Close /\ actions < MaxActions /\ actions' = actions + 1

\* the 09:15 job, or FNO BUY decisions of the strategist
Called(c) ==
    /\ up
    /\ ~entering[c].on
    /\ IF c = "job"
         THEN "entry" \in due /\ due' = due \ {"entry"} /\ UNCHANGED actions
         ELSE closing = None /\ Decides /\ UNCHANGED due

\* candidates without a proposal or refused by the gate end in NoFill
auto_enter(c) ==
    /\ Called(c)
    /\ entering' = [entering EXCEPT ![c] =
                      [NotEntering EXCEPT !.on = TRUE, !.todo = Candidates[day]]]
    /\ overlapped' = (overlapped \/ \E d \in Callers : entering[d].on)
    /\ UNCHANGED <<rows, clock, up, jobs, closing, faults>>

\* defect: an exhausted bucket is not noticed
ReadHeadroom_exhausted(c, a) ==
    /\ a \in entering[c].todo /\ entering[c].at = {}
    /\ entering' = [entering EXCEPT ![c] =
          [NotEntering EXCEPT
             !.on = TRUE, !.todo = entering[c].todo \ {a}, !.at = {a},
             !.headroom = Cap - fno_premium_deployed_today]]
    /\ UNCHANGED <<rows, clock, up, due, jobs, brain, faults, overlapped>>

\* _enter_one: the headroom is read first, then the entries of today, then
\* the chain, each in a transaction of its own
ReadHeadroom(c, a) ==
    LET remaining == Cap - fno_premium_deployed_today
    IN  /\ a \in entering[c].todo /\ entering[c].at = {}
        /\ entering' = [entering EXCEPT ![c] =
              [NotEntering EXCEPT
                 !.on = TRUE, !.todo = entering[c].todo \ {a},
                 !.at = IF remaining > 0 THEN {a} ELSE {},
                 !.headroom = IF remaining > 0 THEN remaining ELSE 0]]
        /\ UNCHANGED <<rows, clock, up, due, jobs, brain, faults, overlapped>>

\* the symbol at hand is given up, or done with
Leave(c) ==
    entering' = [entering EXCEPT ![c] =
                   [NotEntering EXCEPT !.on = TRUE, !.todo = entering[c].todo]]

CheckEntered(c, a) ==
    /\ entering[c].at = {a} /\ ~entering[c].checked
    /\ IF _already_entered_today(a)
         THEN Leave(c)
         ELSE entering' = [entering EXCEPT ![c] = [@ EXCEPT !.checked = TRUE]]
    /\ UNCHANGED <<rows, clock, up, due, jobs, brain, faults, overlapped>>

\* no proposal, refused by the gate, no bid or ask, no lots, or an error
NoFill(c, a) ==
    /\ entering[c].at = {a} /\ entering[c].checked
    /\ Leave(c)
    /\ UNCHANGED <<rows, clock, up, due, jobs, brain, faults, overlapped>>

\* the row is written; target and stop of the row are net rupees
_enter_one(c, a, premium, fill, s) ==
    /\ entering[c].at = {a} /\ entering[c].checked
    /\ Len(rows) < MaxRows
    /\ \E lots \in compute_lots(entering[c].headroom, premium) :
          LET net == net_cost(s, fill) * lots
          IN  rows' = Append(rows,
                  [symbol |-> a, day |-> day, late |-> now >= HardExit,
                   side |-> s.side, fill |-> fill, lots |-> lots, net |-> net,
                   stop |-> 70 * net, status |-> "paper_filled", pnl |-> 0])
    /\ Leave(c)
    /\ UNCHANGED <<clock, up, due, jobs, brain, faults, overlapped>>

EntryEnds(c) ==
    /\ entering[c].on /\ entering[c].todo = {} /\ entering[c].at = {}
    /\ entering' = [entering EXCEPT ![c] = NotEntering]
    /\ UNCHANGED <<rows, clock, up, due, jobs, brain, faults, overlapped>>

-----------------------------------------------------------------------------
(* The ways out.                                                           *)

\* defect: a row that is closed already keeps its status and not its P&L
_close_signal_first(t, status, exit, stop) ==
    rows' = [rows EXCEPT ![t] =
               [@ EXCEPT !.status = IF IsLive(t) THEN status ELSE @,
                         !.pnl = _compute_pnl(t, exit), !.stop = stop]]

_close_signal(t, status, exit, stop) ==
    rows' = [rows EXCEPT ![t] =
               [@ EXCEPT !.status = status, !.pnl = _compute_pnl(t, exit), !.stop = stop]]

manage_tick ==
    /\ "manage" \in due /\ ~managing.on
    /\ due' = due \ {"manage"}
    /\ managing' = [NotManaging EXCEPT !.on = TRUE, !.todo = Live]
    /\ UNCHANGED <<rows, clock, up, entering, exiting, brain, faults, overlapped>>

Turn(t) == managing.row = None /\ t \in managing.todo /\ t = Min(managing.todo)

\* the stop is written when it moved; a signal to close is closed next
ManageSignal(t, premium) ==
    LET stop   == update_trailing_stop(t, premium)
        action == apply_tick(t, premium, stop)
    IN  /\ Turn(t)
        /\ rows' = IF stop = Stop(t) THEN rows
                   ELSE [rows EXCEPT ![t] = [@ EXCEPT !.stop = stop]]
        /\ managing' = [on |-> TRUE, todo |-> managing.todo \ {t},
                        row |-> IF action = "hold" THEN None ELSE t,
                        premium |-> IF action = "hold" THEN 0 ELSE premium]
        /\ UNCHANGED <<clock, up, due, entering, exiting, brain, faults, overlapped>>

\* the chain has no premium for the leg
SkipSignal(t) ==
    /\ Turn(t)
    /\ managing' = [managing EXCEPT !.todo = @ \ {t}]
    /\ UNCHANGED <<rows, clock, up, due, entering, exiting, brain, faults, overlapped>>

CloseSignal(t) ==
    LET premium == managing.premium
        stop    == update_trailing_stop(t, premium)
    IN  /\ t = managing.row
        /\ _close_signal(t, apply_tick(t, premium, stop), premium, stop)
        /\ managing' = [managing EXCEPT !.row = None, !.premium = 0]
        /\ UNCHANGED <<clock, up, due, entering, exiting, brain, faults, overlapped>>

TickEnds ==
    /\ managing.on /\ managing.todo = {} /\ managing.row = None
    /\ managing' = NotManaging
    /\ UNCHANGED <<rows, clock, up, due, entering, exiting, brain, faults, overlapped>>

\* a transaction fails: there is no try around a signal
TickAborts ==
    /\ managing.on
    /\ Fault
    /\ managing' = NotManaging
    /\ UNCHANGED <<rows, clock, up, due, entering, exiting, brain, overlapped>>

\* defect: positions of earlier days are not looked for
SignalsToExit_today == Live \cap Today

SignalsToExit == Live

hard_exit_all ==
    /\ "exit" \in due
    /\ due' = due \ {"exit"}
    /\ exiting' = [NotExiting EXCEPT !.on = TRUE, !.todo = SignalsToExit]
    /\ UNCHANGED <<rows, clock, up, entering, managing, brain, faults, overlapped>>

\* at the premium of the chain, or at the fill
ExitSignal(t, exit) ==
    /\ exiting.on /\ t \in exiting.todo /\ t = Min(exiting.todo)
    /\ exit \in Premiums \cup {rows[t].fill}
    /\ _close_signal(t, "closed_time", exit, rows[t].stop)
    /\ exiting' = [exiting EXCEPT !.todo = @ \ {t}]
    /\ UNCHANGED <<clock, up, due, entering, managing, brain, faults, overlapped>>

ExitEnds ==
    /\ exiting.on /\ exiting.todo = {}
    /\ exiting' = [NotExiting EXCEPT !.done = TRUE]
    /\ UNCHANGED <<rows, clock, up, due, entering, managing, brain, faults, overlapped>>

ExitAborts ==
    /\ exiting.on
    /\ Fault
    /\ exiting' = NotExiting
    /\ UNCHANGED <<rows, clock, up, due, entering, managing, brain, overlapped>>

\* an FNO SELL of the strategist: the row is read and found live
close_fno_signal(t) ==
    /\ up /\ Decides
    /\ closing = None /\ ~entering["brain"].on
    /\ IsLive(t)
    /\ closing' = t
    /\ UNCHANGED <<rows, clock, up, due, entering, jobs, faults, overlapped>>

ManualClose(t, exit) ==
    /\ closing = t
    /\ exit \in Premiums \cup {rows[t].fill}
    /\ _close_signal(t, "closed_manual", exit, rows[t].stop)
    /\ closing' = None
    /\ UNCHANGED <<clock, up, due, entering, jobs, actions, faults, overlapped>>

ManualCloseFails ==
    /\ closing # None
    /\ closing' = None
    /\ UNCHANGED <<rows, clock, up, due, entering, jobs, actions, faults, overlapped>>

-----------------------------------------------------------------------------
EntryStep(c) ==
    \/ \E a \in Symbols :
          \/ ReadHeadroom(c, a) \/ CheckEntered(c, a) \/ NoFill(c, a)
          \/ \E premium, fill \in Premiums, s \in Structures[a] :
                _enter_one(c, a, premium, fill, s)
    \/ EntryEnds(c)

TickStep ==
    \/ manage_tick
    \/ \E t \in managing.todo :
          SkipSignal(t) \/ \E premium \in Premiums : ManageSignal(t, premium)
    \/ \E t \in DOMAIN rows : CloseSignal(t)
    \/ TickEnds

ExitStep ==
    \/ hard_exit_all
    \/ \E t \in exiting.todo, exit \in Premiums : ExitSignal(t, exit)
    \/ ExitEnds

ManualStep ==
    \/ \E t \in DOMAIN rows, exit \in Premiums : ManualClose(t, exit)
    \/ ManualCloseFails

Next ==
    \/ Boot \/ Crash \/ TimePasses \/ NextDay
    \/ \E c \in Callers : auto_enter(c) \/ EntryStep(c)
    \/ TickStep \/ TickAborts
    \/ ExitStep \/ ExitAborts
    \/ \E t \in DOMAIN rows : close_fno_signal(t)
    \/ ManualStep

Spec == Init /\ [][Next]_vars

\* what the scheduler process and the clock do by themselves
Progress ==
    \/ TimePasses \/ NextDay
    \/ auto_enter("job") \/ \E c \in Callers : EntryStep(c)
    \/ TickStep \/ ExitStep \/ ManualStep

\* as long as a job is due, a task under way or the clock behind, one of them
\* goes on; nothing is assumed of the strategist or of a restart
Fairness == WF_vars(Progress)

FairSpec == Spec /\ Fairness

-----------------------------------------------------------------------------
(* Properties.                                                             *)

Signals ==
    [symbol : Symbols, day : 1 .. MaxDays, late : BOOLEAN, side : {"BUY", "SELL"},
     fill : Premiums, lots : Nat \ {0}, net : Int, stop : Int, pnl : Int,
     status : {"paper_filled", "closed_target", "closed_stop", "closed_time",
               "closed_manual"}]

\* Types of the rows and of the tasks' local state; in particular a closing
\* task only ever holds ids of rows there are.
TypeOK ==
    /\ rows \in Seq(Signals)
    /\ day \in 1 .. MaxDays /\ now \in 0 .. Close
    /\ up \in BOOLEAN /\ due \subseteq Jobs
    /\ entering \in [Callers -> [on : BOOLEAN, todo : SUBSET Symbols,
                                 at : SUBSET Symbols, headroom : Nat,
                                 checked : BOOLEAN]]
    /\ managing \in [on : BOOLEAN, todo : SUBSET DOMAIN rows,
                     row : DOMAIN rows \cup {None}, premium : Premiums \cup {0}]
    /\ exiting \in [on : BOOLEAN, todo : SUBSET DOMAIN rows, done : BOOLEAN]
    /\ closing \in DOMAIN rows \cup {None}
    /\ actions \in 0 .. MaxActions
    /\ faults \in 0 .. MaxFaults
    /\ overlapped \in BOOLEAN

\* A symbol is entered at most once a day: the runner's comment calls
\* auto_enter "idempotent, so re-running it here on top of the 09:15 cron
\* is safe". The code ensures it for runs that do not overlap only.
OneEntryADay ==
    \A t, u \in DOMAIN rows :
        rows[t].day = rows[u].day /\ rows[t].symbol = rows[u].symbol => t = u

\* As long as no two runs of auto_enter overlap, no symbol is entered twice
\* on a day, whatever the strategist, the exits, crashes and restarts do
\* in between.
EnteredOnce == ~overlapped => OneEntryADay

\* As long as no two runs overlap, the net premium a day deploys stays within
\* the cap of the bucket, although lots are sized at the premium of the
\* proposal and filled at a later one, a credit enlarges the headroom of
\* what is entered after it, and positions close in between.
BudgetRespected ==
    ~overlapped =>
        \A d \in 1 .. MaxDays :
            SumFunction([t \in {t \in DOMAIN rows : rows[t].day = d} |-> Cost(t)]) <= Cap

\* how far the first leg rose until the close, read off the P&L of the row
Rise(t) == IF rows[t].side = "BUY" THEN rows[t].pnl ELSE -rows[t].pnl

\* Status and P&L of a closed row are of the same close, however many tasks
\* closed it: at the target the first leg has risen by thirty percent or
\* more, at the stop it has fallen by as much.  That is a gain and a loss of
\* a bought leg; of a sold one, as in an iron condor, the target is the loss.
\* In particular no trailing stop ever takes a position out.
StatusExplainsPnl ==
    \A t \in DOMAIN rows :
        /\ rows[t].status = "closed_target" => 100 * Rise(t) >= 30 * Premium(t)
        /\ rows[t].status = "closed_stop" => 100 * Rise(t) <= -30 * Premium(t)

\* With the scale-out gain at the target or above, a trailing stop is
\* written only to a position that the same tick closes, so that it never
\* protects one.
TrailingOnlyAtTarget ==
    ScaleOut >= 30 /\ faults = 0 =>
        \A t \in Live : rows[t].stop = 70 * Cost(t) \/ managing.row = t

\* When the hard exit has ended, no position of an earlier entry is open,
\* not even one left from another day.
HardExitSweeps ==
    exiting.done => \A t \in Live : rows[t].day = day /\ rows[t].late

Overnight == {t \in Live : rows[t].day < MaxDays}

\* A position is closed on the next day at the latest, also when it was
\* entered after the hard exit, unless there was a fault.
PositionsSettle == Overnight # {} ~> faults > 0 \/ Overnight = {}

-----------------------------------------------------------------------------
(* What comments of the code say and the code does not ensure; OneEntryADay *)
(* above is another.                                                       *)

\* "14:30 IST hard exit - close every still-open paper position", and "no
\* entries after hard_exit_time": the day ends flat.
FlatAfterHardExit == exiting.done => Live = {}

=============================================================================
