----------------------------- MODULE TradingDay -----------------------------
(***************************************************************************)
(* One day of the equity strategy: the scheduler fires the morning         *)
(* allocation, the intraday re-evaluations and the square-off; after a     *)
(* restart the reconciler starts again the daily-critical ones that        *)
(* job_log has no completed row of.  A job asks the strategist, trades     *)
(* what it answers through the engine and counts what was executed.  Every *)
(* trade creates a notification and pushes it (Notifications).             *)
(*                                                                         *)
(* One instrument, bought and sold in single shares at a price of one and  *)
(* without charges: PaperTrading has the book.  A decision holds at most   *)
(* one action.  F&O actions are those of FnoPositions.  The scheduler      *)
(* fires what is due before a tick passes; a job may take many ticks.      *)
(***************************************************************************)
EXTENDS Notifications

CONSTANTS
    Horizon,      \* last tick of the day
    Days,         \* days to look at: [due : job -> ticks its cron trigger
                  \* fires at, held : shares held at the opening]
    Grace,        \* CATCHUP_GRACE_HOURS, in ticks
    InitialCash,  \* current_cash at the beginning of the day
    Budget,       \* equity_strategy_daily_budget (sip mode)
    MaxIntraday,  \* equity_strategy_max_intraday_calls
    MaxTrades,    \* bound: trades
    MaxLong,      \* bound: runs that last beyond the tick
    MaxBusy,      \* bound: runs and pushes of the job under way at once
    MaxLives,     \* bound: starts of the process
    MaxFaults     \* bound: ends of the process, sessions and calls that raise

Jobs == {"morning", "intraday", "eod"}
DAILY_CRITICAL == {"morning", "eod"}

\* a cron job and its catch-up have ids of their own: two instances may run
Slots == (Jobs \X {"cron"}) \cup (DAILY_CRITICAL \X {"catchup"})
Job(s) == s[1]

\* the tasks that push: the runs, and the job of every 30 seconds
PushJob == <<"push", "cron">>

ASSUME DayAssumption ==
    /\ Pushers = Slots \cup {PushJob}
    /\ Limit \in Nat /\ AbandonAfter \in Nat
    /\ Horizon \in Nat /\ Grace \in Nat
    \* tick 0 stands for the firings of the day before
    /\ \A d \in Days : d.due \in [Jobs -> SUBSET (1 .. Horizon)] /\ d.held \in Nat
    \* a daily-critical job has one time of the day
    /\ \A d \in Days : \A j \in DAILY_CRITICAL : \A a, b \in d.due[j] : a = b
    /\ InitialCash \in Nat /\ Budget \in Nat /\ MaxIntraday \in Nat
    /\ {MaxTrades, MaxLong, MaxBusy, MaxLives, MaxFaults} \subseteq Nat

VARIABLES
    day,       \* the day of Days it is; never changes
    mode,      \* of the process: "down", "starting", "up", or "blind"
               \* when job_log could not be read
    born,      \* the tick it was started at
    lives,     \* starts so far
    fired,     \* jobs cron has fired in this tick
    catchups,  \* one-shot jobs in the job store
    begun,     \* runs of each slot in this life of the process
    unscheduled, \* jobs the reconciler of this life failed to schedule
    done,      \* job_log: tick of the latest completed row of each critical job
    run,       \* what runs in each slot
    cash,      \* portfolios.current_cash
    topups,    \* budgets added to it
    held,      \* holdings.quantity
    decisions, \* strategy_decisions, each with the trades that name it
    bought, sold, \* shares traded
    faults,    \* failures so far
    begunToday, ended, cancelled, \* history: jobs that began, that came to
                                  \* their end, that a shutdown cancelled
    overlapped \* history: two updates of the portfolio row overlapped

process == <<day, mode, born, lives, fired, catchups, begun, unscheduled>>
book    == <<cash, topups, held, bought, sold, decisions, overlapped>>
history == <<begunToday, ended, cancelled>>
vars    == <<clock, outbox, process, done, run, book, faults, history>>

-----------------------------------------------------------------------------
Off == [pc |-> "off", loaded |-> 0, decision |-> 0, action |-> "HOLD", executed |-> 0]
Entry(j) == [Off EXCEPT !.pc = CASE j = "morning"  -> "topup"
                                 [] j = "intraday" -> "cap"
                                 [] j = "eod"      -> "decide"]

Running(s) == run[s].pc # "off"
Goto(s, label) == run' = [run EXCEPT ![s].pc = label]
Fault == faults < MaxFaults /\ faults' = faults + 1

Init ==
    /\ clock = 0 /\ NotesInit /\ day \in Days
    /\ mode = "down" /\ born = 0 /\ lives = 0
    /\ fired = {} /\ catchups = {}
    /\ begun = [s \in Slots |-> 0] /\ unscheduled = {}
    /\ done = [j \in DAILY_CRITICAL |-> 0]
    /\ run = [s \in Slots |-> Off]
    /\ cash = InitialCash /\ topups = 0 /\ held = day.held
    /\ bought = 0 /\ sold = 0 /\ decisions = <<>>
    /\ faults = 0
    /\ begunToday = {} /\ ended = {} /\ cancelled = {}
    /\ overlapped = FALSE

-----------------------------------------------------------------------------
(* The process: build_scheduler and start, reconcile_missed, its end.      *)

\* defect: the jobs of the previous process are left in the store
build_scheduler_unwiped ==
    /\ mode = "down" /\ lives < MaxLives
    /\ mode' = "starting" /\ born' = clock /\ lives' = lives + 1
    /\ begun' = [s \in Slots |-> 0] /\ unscheduled' = {}
    /\ UNCHANGED <<clock, outbox, day, fired, catchups, done, run, book, faults, history>>

\* the job store is emptied; triggers compute their next time from now
build_scheduler ==
    /\ mode = "down" /\ lives < MaxLives
    /\ mode' = "starting" /\ born' = clock /\ lives' = lives + 1
    /\ catchups' = {}
    /\ begun' = [s \in Slots |-> 0] /\ unscheduled' = {}
    /\ UNCHANGED <<clock, outbox, day, fired, done, run, book, faults, history>>

\* 0: the firing of the day before, out of reach of the grace
_last_expected_firing(j) == Max({0} \cup {d \in day.due[j] : d <= clock})

\* defect: any completed row will do, the one of yesterday, too
Missed_any(j) ==
    LET due == _last_expected_firing(j)
    IN  due > 0 /\ due >= clock - Grace /\ done[j] < 0

Missed(j) ==
    LET due == _last_expected_firing(j)
    IN  due > 0 /\ due >= clock - Grace /\ done[j] < due

Schedule(K) ==
    catchups' = catchups \cup {[job |-> j, life |-> lives] : j \in {k \in K : Missed(k)}}

\* runs once per start, when the scheduler is already live; the jobs whose
\* add_job raises are logged and left out, and it ends with the first job
\* whose rows cannot be read, the morning's or the square-off's
reconcile_missed ==
    /\ mode = "starting"
    /\ \/ /\ mode' = "up"
          /\ \E lost \in SUBSET {j \in DAILY_CRITICAL : Missed(j)} :
                /\ Schedule(DAILY_CRITICAL \ lost) /\ unscheduled' = lost
                /\ IF lost = {} THEN UNCHANGED faults ELSE Fault
       \/ /\ mode' = "blind" /\ Fault
          /\ \E K \in {{}, {"morning"}} : Schedule(K)
          /\ UNCHANGED unscheduled
    /\ UNCHANGED <<clock, outbox, day, born, lives, fired, begun, done, run, book, history>>

Busy == Quantify(Slots, Running) + (IF push[PushJob].pc = "off" THEN 0 ELSE 1)

Start(s) ==
    /\ Busy < MaxBusy
    /\ run' = [run EXCEPT ![s] = Entry(Job(s))]
    /\ begun' = [begun EXCEPT ![s] = @ + 1]
    /\ begunToday' = begunToday \cup ({Job(s)} \cap DAILY_CRITICAL)

Pending(j) == clock \in day.due[j] /\ born < clock /\ j \notin fired

\* max_instances is 1: a firing that finds the job running is lost
Fire(j) ==
    /\ mode # "down"
    /\ Pending(j)
    /\ fired' = fired \cup {j}
    /\ IF Running(<<j, "cron">>) THEN UNCHANGED <<run, begun, begunToday>>
                                 ELSE Start(<<j, "cron">>)
    /\ UNCHANGED <<clock, outbox, day, mode, born, lives, catchups, unscheduled, done,
                   book, faults, ended, cancelled>>

CatchUp(j) ==
    /\ mode # "down"
    /\ ~Running(<<j, "catchup">>)
    /\ \E c \in catchups : c.job = j /\ catchups' = catchups \ {c}
    /\ Start(<<j, "catchup">>)
    /\ UNCHANGED <<clock, outbox, day, mode, born, lives, fired, unscheduled, done, book,
                   faults, ended, cancelled>>

Tick ==
    /\ clock < Horizon
    /\ mode # "down" => \A j \in Jobs : ~Pending(j)
    /\ mode \in {"up", "blind"} => catchups = {}
    /\ mode = "starting" => clock = born
    /\ Quantify(Slots, Running) <= MaxLong
    /\ \A s \in Slots : run[s].pc \in {"off", "decide"}
    /\ clock' = clock + 1
    /\ fired' = {}
    /\ UNCHANGED <<outbox, day, mode, born, lives, catchups, begun, unscheduled, done, run,
                   book, faults, history>>

\* the end of the process.  shutdown cancels the runs; a cancellation is no
\* Exception, so a run that still gets to write its row writes "completed";
\* in a crash none does
Down ==
    /\ mode # "down" /\ lives < MaxLives
    /\ Fault
    /\ mode' = "down"
    /\ run' = [s \in Slots |-> Off]
    /\ push' = [p \in Pushers |-> Resting]
    /\ \E S \in SUBSET {s \in Slots : Running(s)} :
          /\ done' = [j \in DAILY_CRITICAL |-> IF \E s \in S : Job(s) = j THEN clock ELSE done[j]]
          /\ cancelled' = cancelled \cup ({Job(s) : s \in S} \cap DAILY_CRITICAL)
    /\ UNCHANGED <<clock, notes, day, born, lives, fired, catchups, begun, unscheduled,
                   book, begunToday, ended>>

-----------------------------------------------------------------------------
(* A run.                                                                  *)

\* defect: the row says "completed" although the run raised
Fails_completed(s) ==
    /\ run[s].pc \in {"topup", "topped", "cap", "decide", "act", "counts"}
    /\ Fault
    /\ run' = [run EXCEPT ![s] = Off]
    /\ done' = [j \in DAILY_CRITICAL |-> IF j = Job(s) THEN clock ELSE done[j]]
    /\ UNCHANGED <<clock, outbox, process, book, history>>

\* the exception ends the run; the row of job_log says "failed"
Fails(s) ==
    /\ run[s].pc \in {"topup", "topped", "cap", "decide", "act", "counts"}
    /\ Fault
    /\ run' = [run EXCEPT ![s] = Off]
    /\ UNCHANGED <<clock, outbox, process, done, book, history>>

\* updates of the portfolio row between their read and their write
Holding(s) == run[s].pc \in {"topped", "commit"}

Load(s, label) ==
    /\ run' = [run EXCEPT ![s].pc = label, ![s].loaded = cash]
    /\ overlapped' = (overlapped \/ \E t \in Slots : Holding(t))

topup_daily_budget(s) ==
    \/ /\ run[s].pc = "topup"
       /\ Load(s, "topped")
       /\ UNCHANGED <<clock, outbox, process, done, cash, topups, held, bought, sold,
                      decisions, faults, history>>
    \/ /\ run[s].pc = "topped"
       /\ cash' = run[s].loaded + Budget
       /\ topups' = topups + 1
       /\ run' = [run EXCEPT ![s] = Entry("eod")]
       /\ UNCHANGED <<clock, outbox, process, done, held, bought, sold, decisions,
                      overlapped, faults, history>>

\* the rows, not the calls of the model
_intraday_calls_today ==
    Quantify(DOMAIN decisions, LAMBDA d : decisions[d].type = "intraday")

\* defect: compared after the call that reaches the cap
CapReached_late == _intraday_calls_today > MaxIntraday

CapReached == _intraday_calls_today >= MaxIntraday

CheckCap(s) ==
    /\ run[s].pc = "cap"
    /\ Goto(s, IF CapReached THEN "log" ELSE "decide")
    /\ UNCHANGED <<clock, outbox, process, done, book, faults, history>>

\* what is left of the model's proposal: rule D (no BUY of what is held, no
\* SELL of what is not) and the square-off's filter; holdings that cannot be
\* read count as none, a gate that raises lets everything through
filter_equity_actions(j, open, owned) ==
    {a \in {"HOLD", "BUY", "SELL"} :
        /\ a = "BUY" => (j # "eod" /\ (open \/ owned = 0))
        /\ a = "SELL" => (open \/ owned > 0)}

\* the snapshot, the model's answer, the gate and the row
_decide(s) ==
    /\ run[s].pc = "decide"
    /\ \E blind, open \in BOOLEAN :
          /\ IF blind \/ open THEN Fault ELSE UNCHANGED faults
          /\ \E a \in filter_equity_actions(Job(s), open, IF blind THEN 0 ELSE held) :
                run' = [run EXCEPT ![s].pc = "act", ![s].action = a,
                                   ![s].decision = Len(decisions) + 1]
    /\ decisions' = Append(decisions,
         [type |-> Job(s), traded |-> 0, executed |-> 0, counted |-> FALSE])
    /\ UNCHANGED <<clock, outbox, process, done, cash, topups, held, bought, sold,
                   overlapped, history>>

Action(s) == run[s].action

\* max_buy_qty, validate_buy and validate_sell
Permitted(s) == IF Action(s) = "BUY" THEN cash >= 1 ELSE held >= 1

\* no price, no room, or refused by the risk manager
Skip(s) ==
    /\ run[s].pc = "act"
    /\ Goto(s, "counts")
    /\ UNCHANGED <<clock, outbox, process, done, book, faults, history>>

\* the engine validates and loads the portfolio row
LoadPortfolio(s) ==
    /\ run[s].pc = "act"
    /\ Action(s) # "HOLD"
    /\ Permitted(s)
    /\ bought + sold < MaxTrades
    /\ Load(s, "commit")
    /\ UNCHANGED <<clock, outbox, process, done, cash, topups, held, bought, sold,
                   decisions, faults, history>>

\* defect: the row stays, with what is left of it
Left_signed(h) == h - 1

\* the row goes when nothing is left
Left(h) == Max({0, h - 1})

\* the commit of the trade, the row of the portfolio and the holding
CommitTrade(s) ==
    /\ run[s].pc = "commit"
    /\ \/ /\ IF Action(s) = "BUY"
               THEN /\ cash' = run[s].loaded - 1
                    /\ held' = held + 1
                    /\ bought' = bought + 1 /\ UNCHANGED sold
               ELSE /\ cash' = run[s].loaded + 1
                    /\ held' = Left(held)
                    /\ sold' = sold + 1 /\ UNCHANGED bought
          /\ decisions' = [decisions EXCEPT ![run[s].decision].traded = @ + 1]
          /\ run' = [run EXCEPT ![s].pc = "note", ![s].loaded = 0]
          /\ UNCHANGED faults
       \/ /\ Fault
          /\ run' = [run EXCEPT ![s].pc = "counts", ![s].loaded = 0]
          /\ UNCHANGED <<cash, held, bought, sold, decisions>>
    /\ UNCHANGED <<clock, outbox, process, done, topups, overlapped, history>>

\* what the engine raises after its commit makes the runner skip the action
Notify(s) ==
    /\ run[s].pc = "note"
    /\ \/ create(s) /\ Goto(s, "pushing") /\ UNCHANGED faults
       \/ Fault /\ Goto(s, "counts") /\ UNCHANGED outbox
    /\ UNCHANGED <<clock, process, done, book, history>>

\* defect: an action is counted as it is proposed
Executed_proposed(s) == IF Action(s) = "HOLD" THEN 0 ELSE 1

Executed(s) == run[s].executed

Return(s) ==
    /\ run[s].pc = "pushing"
    /\ push[s].pc \in {"off", "raised"}
    /\ PushOver(s)
    /\ run' = [run EXCEPT ![s].pc = "counts",
                          ![s].executed = IF push[s].pc = "off" THEN @ + 1 ELSE @]
    /\ UNCHANGED <<clock, notes, process, done, book, faults, history>>

_update_decision_counts(s) ==
    /\ run[s].pc = "counts"
    /\ decisions' = [decisions EXCEPT ![run[s].decision].executed = Executed(s),
                                      ![run[s].decision].counted = TRUE]
    /\ run' = [run EXCEPT ![s] = [Off EXCEPT !.pc = "log"]]
    /\ ended' = ended \cup ({Job(s)} \cap DAILY_CRITICAL)
    /\ UNCHANGED <<clock, outbox, process, done, cash, topups, held, bought, sold,
                   overlapped, faults, begunToday, cancelled>>

\* the wrapper's row; it says "failed" when what the run still reads raises,
\* and is missing when its own write fails
_logged(s) ==
    /\ run[s].pc = "log"
    /\ run' = [run EXCEPT ![s] = Off]
    /\ \/ /\ done' = [j \in DAILY_CRITICAL |-> IF j = Job(s) THEN clock ELSE done[j]]
          /\ UNCHANGED faults
       \/ Fault /\ UNCHANGED done
    /\ UNCHANGED <<clock, outbox, process, book, history>>

-----------------------------------------------------------------------------
(* Pushing.                                                                *)

RunPushJob ==
    /\ mode # "down"
    /\ push[PushJob].pc = "off" /\ Busy < MaxBusy
    /\ \E n \in DOMAIN notes : ~is_pushed(n)
    /\ push' = [push EXCEPT ![PushJob].pc = "select"]
    /\ UNCHANGED <<clock, notes, process, done, run, book, faults, history>>

Push(p) ==
    /\ \/ push_pending(p) /\ UNCHANGED faults
       \/ PushFails(p) /\ Fault
       \/ /\ p = PushJob /\ push[p].pc = "raised" /\ PushOver(p)
          /\ UNCHANGED <<notes, faults>>
    /\ UNCHANGED <<clock, process, done, run, book, history>>

Step(s) ==
    \/ topup_daily_budget(s)
    \/ CheckCap(s)
    \/ _decide(s)
    \/ Skip(s)
    \/ LoadPortfolio(s)
    \/ CommitTrade(s)
    \/ Notify(s)
    \/ Return(s)
    \/ _update_decision_counts(s)
    \/ _logged(s)

Next ==
    \/ build_scheduler \/ reconcile_missed \/ Tick \/ Down
    \/ \E j \in Jobs : Fire(j)
    \/ \E j \in DAILY_CRITICAL : CatchUp(j)
    \/ \E s \in Slots : Step(s) \/ Fails(s)
    \/ RunPushJob
    \/ \E p \in Pushers : Push(p)

Spec == Init /\ [][Next]_vars

\* the runs, with their inline pushes
Work ==
    \/ \E j \in Jobs : Fire(j)
    \/ \E j \in DAILY_CRITICAL : CatchUp(j)
    \/ \E s \in Slots : Step(s) \/ Push(s)

\* the service manager restarts the process, time passes, work is done, and
\* the push job comes round again
FairSpec ==
    /\ Spec
    /\ WF_vars(build_scheduler \/ reconcile_missed)
    /\ WF_vars(Tick)
    /\ WF_vars(Work)
    /\ WF_vars(RunPushJob \/ Push(PushJob))

-----------------------------------------------------------------------------
(* What the day must keep to.                                              *)

\* Every variable has its type.
TypeOK ==
    /\ NotesType /\ day \in Days
    /\ clock \in 0 .. Horizon /\ born \in 0 .. Horizon
    /\ mode \in {"down", "starting", "up", "blind"} /\ lives \in 0 .. MaxLives
    /\ fired \subseteq Jobs
    /\ catchups \subseteq [job : DAILY_CRITICAL, life : 1 .. MaxLives]
    /\ begun \in [Slots -> Nat] /\ unscheduled \subseteq DAILY_CRITICAL
    /\ done \in [DAILY_CRITICAL -> 0 .. Horizon]
    /\ run \in [Slots -> [pc : {"off", "topup", "topped", "cap", "decide", "act",
                                "commit", "note", "pushing", "counts", "log"},
                          loaded : Int, decision : Nat, action : {"BUY", "SELL", "HOLD"},
                          executed : Nat]]
    /\ cash \in Int /\ topups \in Nat /\ held \in Nat
    /\ bought \in Nat /\ sold \in Nat
    /\ faults \in 0 .. MaxFaults
    /\ begunToday \cup ended \cup cancelled \subseteq Jobs

\* One start of the process begins each daily-critical job at most once by
\* cron and at most once by catch-up, whatever an earlier process left in the
\* persistent job store (build_scheduler wipes it, reconcile_missed runs once).
OncePerStartup ==
    \A j \in DAILY_CRITICAL :
        begun[<<j, "cron">>] <= 1 /\ begun[<<j, "catchup">>] <= 1

\* A daily-critical job whose time has passed has begun today or is in the job
\* store, unless the process was started when the grace was already over, could
\* not read job_log, or logged that this very job could not be scheduled:
\* cron, reconciler and grace leave no other gap between them.
CriticalBegun ==
    \A j \in DAILY_CRITICAL :
        \A d \in day.due[j] :
            \/ j \in begunToday
            \/ mode # "up" \/ clock <= d \/ born >= d + Grace
            \/ j \in unscheduled
            \/ \E c \in catchups : c.job = j

\* A completed row of job_log, which keeps the reconciler from starting the job
\* again, stands for a run that came to its end, or one a shutdown cancelled.
CompletedMeansEnded ==
    \A j \in DAILY_CRITICAL : done[j] > 0 => j \in ended \cup cancelled

\* The day never sees more intraday decisions than the cap allows, although the
\* cap is checked before the model is called and the row written after
\* (run_intraday_action relies on max_instances=1).
IntradayCapped == _intraday_calls_today <= MaxIntraday

\* The cash is what the trades and the top-ups leave (unless two updates of the
\* portfolio row overlapped, which has no lock).
CashExplained ==
    ~overlapped =>
        cash = InitialCash + Budget * topups - bought + sold

\* A decision never claims more executed actions than it traded, and fewer only
\* when the engine raised after a commit.
CountsBacked ==
    \A d \in DOMAIN decisions :
        /\ decisions[d].executed <= decisions[d].traded
        /\ decisions[d].counted => decisions[d].traded - decisions[d].executed <= faults

\* The books of the day agree: cash with trades, decisions with trades.
BooksAgree == CashExplained /\ CountsBacked

\* Every notification is delivered or given up in the end, whatever Telegram
\* answers and however inline pushes, the push job and restarts interleave.
NotesSettle ==
    <>[](\A n \in DOMAIN notes :
            notes[n].born + AbandonAfter < Horizon => is_pushed(n))

=============================================================================
