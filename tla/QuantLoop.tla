------------------------------ MODULE QuantLoop ------------------------------
(***************************************************************************)
(* The intraday bandit loop (run_loop of the quant orchestrator) and the   *)
(* scheduler jobs that start it: the 09:18 cron job and the one-shot       *)
(* resume registered at boot when LAABH_QUANT_RESUME_DATE names today.     *)
(* Each start runs the whole bootstrap and then one tick per poll interval *)
(* until the hard exit.  What a loop knows is local to it and lost with    *)
(* the process; quant_trades, quant_day_state and bandit_arm_state persist.*)
(*                                                                         *)
(* One primitive: an arm is a symbol.  A posterior is the set of trades    *)
(* whose reward is folded into it, n_obs counts those of the session, and  *)
(* an evicted arm keeps its set (the dormant pool).  The clock counts      *)
(* ticks, 0 before 09:18; a tick is over before the next one is due.  NAVs *)
(* are relative to the NAV of the morning.                                 *)
(***************************************************************************)
EXTENDS Integers, Sequences, FiniteSetsExt, Functions

CONSTANTS
    Symbols,       \* F&O underlyings
    Universes,     \* what universe_selector.select may answer
    Quotes,        \* ATM mid premiums
    Stub,          \* entry premium when a bundle has no quote
    HardExit,      \* laabh_quant_hard_exit_time
    FirstEntry,    \* laabh_quant_first_entry_after_minutes
    MaxConcurrent, \* laabh_quant_max_concurrent_positions
    MaxLots,       \* the most compute_lots can return
    LockinGain,    \* gain that fires the lock-in
    KillLoss,      \* drawdown that fires the kill switch
    CoolLosses,    \* laabh_quant_cooloff_consecutive_losses
    CoolTicks,     \* laabh_quant_cooloff_minutes
    MinPulls,      \* observations an arm needs before eviction
    ResumeAt,      \* times of a boot with the resume date set
    MaxDays,       \* bound: trading days
    MaxTrades,     \* bound: rows of quant_trades
    MaxFaults      \* bound: crashes and failed writes

ASSUME QuantAssumption ==
    /\ Universes \subseteq SUBSET Symbols
    /\ Quotes \subseteq Nat \ {0} /\ Stub \in Nat \ {0}
    /\ HardExit \in Nat \ {0} /\ FirstEntry \in Nat
    /\ MaxConcurrent \in Nat \ {0} /\ MaxLots \in Nat \ {0}
    /\ LockinGain \in Nat \ {0} /\ KillLoss \in Nat \ {0}
    /\ CoolLosses \in Nat \ {0} /\ CoolTicks \in Nat /\ MinPulls \in Nat
    /\ ResumeAt \subseteq 0 .. HardExit - 1
    /\ MaxDays \in Nat \ {0} /\ MaxTrades \in Nat /\ MaxFaults \in Nat

VARIABLES
    rows,     \* quant_trades, in the order of entry_at
    dayRow,   \* quant_day_state per day
    saved,    \* latest bandit_arm_state per arm
    day, now, \* trading day and tick of the clock
    up,       \* the scheduler process runs
    due,      \* jobs registered and not yet fired
    pc,       \* where each loop is
    universe, \* symbols it trades
    boot,     \* universe it started with
    evidence, \* its bandit posteriors
    quotes,   \* its features_map
    ticked,   \* the tick it last ran
    open,     \* open_positions
    todo,     \* positions left in the pass over open_positions
    realized, \* realized_pnl_total
    circuit,  \* its CircuitState
    stuck,    \* rows whose close failed at the hard exit
    faults    \* crashes and failed writes so far

clock   == <<day, now>>
process == <<up, due>>
store   == <<dayRow, saved, stuck>>
book    == <<rows, open, realized>>
bandit  == <<universe, boot, evidence>>
vars    == <<clock, process, store, book, bandit, pc, quotes, ticked, todo,
             circuit, faults>>

-----------------------------------------------------------------------------
Loops  == {"cron", "resume"}
Live   == {"wait", "scan", "read", "manage", "enter"}
Ending == {"eod", "save"}

NoBundle == -1
Blank    == 0 \* a bundle without bid or ask

NoQuotes == [a \in Symbols |-> NoBundle]
NoDayRow == [begun |-> FALSE, done |-> FALSE, pnl |-> 0, trade_count |-> 0]

CircuitState ==
    [kill |-> FALSE, lockin |-> FALSE,
     losses |-> [a \in Symbols |-> 0], until |-> [a \in Symbols |-> 0]]

Arm(t)    == rows[t].entry.arm
IsOpen(t) == rows[t].status = "open"
OfDay(d)  == {t \in DOMAIN rows : rows[t].entry.day = d}
ClosedOn(d) == {t \in OfDay(d) : ~IsOpen(t)}

Pnl(t) == (rows[t].exit.premium - rows[t].entry.premium) * rows[t].entry.lots
Realized(S) == SumFunction([t \in S |-> Pnl(t)])

Holds(l, a) == \E t \in open[l] : Arm(t) = a
NObs(l, a)  == Cardinality(evidence[l][a] \cap OfDay(day))

\* a position is managed through the bundle of its symbol
Quoted(l, t) == Arm(t) \in universe[l] /\ quotes[l][Arm(t)] # NoBundle
_get_premium_from_bundle(l, t) ==
    IF Quoted(l, t) /\ quotes[l][Arm(t)] # Blank
      THEN quotes[l][Arm(t)] ELSE rows[t].entry.premium

Mtm(l) ==
    SumFunction([t \in {t \in open[l] : Quoted(l, t)} |->
        (_get_premium_from_bundle(l, t) - rows[t].entry.premium)
          * rows[t].entry.lots])

Lots(lockin) == 1 .. (IF lockin THEN MaxLots \div 2 ELSE MaxLots)

Init ==
    /\ rows = <<>>
    /\ dayRow = [d \in 1 .. MaxDays |-> NoDayRow]
    /\ saved = [a \in Symbols |-> {}]
    /\ day = 1 /\ now = 0
    /\ up = FALSE /\ due = {}
    /\ pc = [l \in Loops |-> "off"]
    /\ universe = [l \in Loops |-> {}]
    /\ boot = [l \in Loops |-> {}]
    /\ evidence = [l \in Loops |-> [a \in Symbols |-> {}]]
    /\ quotes = [l \in Loops |-> NoQuotes]
    /\ ticked = [l \in Loops |-> 0]
    /\ open = [l \in Loops |-> {}]
    /\ todo = [l \in Loops |-> {}]
    /\ realized = [l \in Loops |-> 0]
    /\ circuit = [l \in Loops |-> CircuitState]
    /\ stuck = {}
    /\ faults = 0

\* the local state of a run_loop call is gone with the call
Forget(S) ==
    /\ universe' = [l \in Loops |-> IF l \in S THEN {} ELSE universe[l]]
    /\ boot' = [l \in Loops |-> IF l \in S THEN {} ELSE boot[l]]
    /\ evidence' = [l \in Loops |-> IF l \in S THEN [a \in Symbols |-> {}] ELSE evidence[l]]
    /\ quotes' = [l \in Loops |-> IF l \in S THEN NoQuotes ELSE quotes[l]]
    /\ ticked' = [l \in Loops |-> IF l \in S THEN 0 ELSE ticked[l]]
    /\ open' = [l \in Loops |-> IF l \in S THEN {} ELSE open[l]]
    /\ todo' = [l \in Loops |-> IF l \in S THEN {} ELSE todo[l]]
    /\ realized' = [l \in Loops |-> IF l \in S THEN 0 ELSE realized[l]]
    /\ circuit' = [l \in Loops |-> IF l \in S THEN CircuitState ELSE circuit[l]]

Goto(l, label) == pc' = [pc EXCEPT ![l] = label]

Fault == faults < MaxFaults /\ faults' = faults + 1

-----------------------------------------------------------------------------
(* The scheduler process.                                                  *)

\* build_scheduler: the cron job fires at 09:18 only if the process is up by
\* then, the resume 15 seconds after the boot
Boot(resume) ==
    /\ ~up
    /\ resume => now \in ResumeAt
    /\ up' = TRUE
    /\ due' = (IF now = 0 THEN {"cron"} ELSE {})
                \cup (IF resume THEN {"resume"} ELSE {})
    /\ UNCHANGED <<clock, store, book, bandit, pc, quotes, ticked, todo,
                   circuit, faults>>

Runnable == {l \in due : l = "cron" => now = 1}

\* the latest row of an earlier day, or the prior
load_morning(a) == saved[a]

\* defect: only the trades a loop of today closed at the hard exit
_replay_bandit_updates_eod(a) ==
    {t \in ClosedOn(day) : Arm(t) = a /\ rows[t].exit.reason = "time_stop"}

_replay_bandit_updates(a) == {t \in ClosedOn(day) : Arm(t) = a}

\* defect: rows left by the loop that died are not looked for
_load_open_positions_fresh == {}

_load_open_positions == {t \in OfDay(day) : IsOpen(t)}

\* defect: P&L starts at zero with every loop
RecoveredPnl_zero == 0

RecoveredPnl == Realized(ClosedOn(day))

\* quant_day_state is inserted once a day
init_day == [dayRow EXCEPT ![day] =
               IF @.begun THEN @ ELSE [NoDayRow EXCEPT !.begun = TRUE]]

\* the bootstrap of run_loop
Fire(l, selected) ==
    /\ l \in Runnable
    /\ selected # {}
    /\ due' = due \ {l}
    /\ Goto(l, "wait")
    /\ universe' = [universe EXCEPT ![l] = selected]
    /\ boot' = [boot EXCEPT ![l] = selected]
    /\ evidence' = [evidence EXCEPT ![l] =
                      [a \in Symbols |-> IF a \in selected
                                      THEN load_morning(a) \cup _replay_bandit_updates(a)
                                      ELSE {}]]
    /\ dayRow' = init_day
    /\ open' = [open EXCEPT ![l] = _load_open_positions]
    /\ realized' = [realized EXCEPT ![l] = RecoveredPnl]
    /\ ticked' = [ticked EXCEPT ![l] = now - 1]
    /\ UNCHANGED <<clock, up, saved, stuck, rows, quotes, todo, circuit, faults>>

\* no universe, no portfolio, or a database error: the job ends
FireFails(l) ==
    /\ l \in Runnable
    /\ Fault
    /\ due' = due \ {l}
    /\ dayRow' \in {dayRow, init_day}
    /\ UNCHANGED <<clock, up, saved, stuck, book, bandit, pc, quotes, ticked, todo,
                   circuit>>

Crash ==
    /\ up
    /\ Fault
    /\ up' = FALSE
    /\ due' = {}
    /\ pc' = [l \in Loops |-> "off"]
    /\ Forget(Loops)
    /\ UNCHANGED <<clock, store, rows>>

Asleep(l) == pc[l] \in {"off", "ended"} \/ (pc[l] = "wait" /\ ticked[l] = now)

TimePasses ==
    /\ now < HardExit
    /\ Runnable = {}
    /\ \A l \in Loops : Asleep(l)
    /\ now' = now + 1
    /\ UNCHANGED <<day, process, store, book, bandit, pc, quotes, ticked, todo,
                   circuit, faults>>

NextDay ==
    /\ now = HardExit /\ day < MaxDays
    /\ \A l \in Loops : pc[l] \in {"off", "ended"}
    /\ day' = day + 1
    /\ now' = 0
    /\ due' = IF up THEN {"cron"} ELSE {}
    /\ pc' = [l \in Loops |-> "off"]
    /\ UNCHANGED <<up, store, book, bandit, quotes, ticked, todo, circuit, faults>>

-----------------------------------------------------------------------------
(* One tick.                                                               *)

BeginTick(l) ==
    /\ pc[l] = "wait" /\ ticked[l] # now
    /\ now < HardExit
    /\ ticked' = [ticked EXCEPT ![l] = now]
    /\ Goto(l, "scan")
    /\ UNCHANGED <<clock, process, store, book, bandit, quotes, todo, circuit, faults>>

\* defect: an arm with an open position can be evicted
compute_replacements_held(l) ==
    {p \in universe[l] \X (Symbols \ universe[l]) : NObs(l, p[1]) >= MinPulls}

\* (evict, admit) pairs; momentum, hysteresis and the ban list are left open
compute_replacements(l) ==
    {p \in universe[l] \X (Symbols \ universe[l]) :
        ~Holds(l, p[1]) /\ NObs(l, p[1]) >= MinPulls}

\* from the dormant pool, or cold: then the set is empty since the start
admit_arm(l, a) == evidence[l][a]

\* one pair a scan; the features are read next
Replace(l, p) ==
    /\ pc[l] = "scan"
    /\ p \in compute_replacements(l)
    /\ universe' = [universe EXCEPT ![l] = (@ \ {p[1]}) \cup {p[2]}]
    /\ evidence' = [evidence EXCEPT ![l][p[2]] = admit_arm(l, p[2])]
    /\ Goto(l, "read")
    /\ UNCHANGED <<clock, process, store, book, boot, quotes, ticked, todo, circuit, faults>>

\* a bundle per symbol of the universe, if the feature store has one
ReadFeatures(l, read) ==
    /\ pc[l] \in {"scan", "read"}
    /\ quotes' = [quotes EXCEPT ![l] =
                    [a \in Symbols |-> IF a \in universe[l] THEN read[a] ELSE NoBundle]]
    /\ todo' = [todo EXCEPT ![l] = open[l]]
    /\ Goto(l, "manage")
    /\ UNCHANGED <<clock, process, store, book, bandit, ticked, circuit, faults>>

Turn(l, t) == todo[l] # {} /\ t = Min(todo[l])

Hold(l, t) ==
    /\ pc[l] = "manage" /\ Turn(l, t)
    /\ todo' = [todo EXCEPT ![l] = @ \ {t}]
    /\ UNCHANGED <<clock, process, store, book, bandit, pc, quotes, ticked, circuit, faults>>

\* defect: a streak that fired the cool-off is not cleared
record_loss_uncleared(c, a) ==
    IF c.losses[a] + 1 >= CoolLosses
      THEN [c EXCEPT !.losses[a] = @ + 1, !.until[a] = now + CoolTicks]
      ELSE [c EXCEPT !.losses[a] = @ + 1]

record_loss(c, a) ==
    IF c.losses[a] + 1 >= CoolLosses
      THEN [c EXCEPT !.losses[a] = 0, !.until[a] = now + CoolTicks]
      ELSE [c EXCEPT !.losses[a] = @ + 1]

record_win(c, a) == [c EXCEPT !.losses[a] = 0]

arm_in_cooloff(l, a) == now < circuit[l].until[a]

\* close_trade: the row is found by its id, its status is not looked at
close_trade(t, premium, reason) ==
    rows' = [rows EXCEPT ![t] =
               [status |-> "closed", entry |-> @.entry,
                exit |-> [premium |-> premium, reason |-> reason]]]

Gain(l, t) ==
    (_get_premium_from_bundle(l, t) - rows[t].entry.premium) * rows[t].entry.lots

\* any of the exit rules of should_close, or the primitive's take-profit
CloseDue(l, t) ==
    /\ pc[l] = "manage" /\ Turn(l, t)
    /\ Quoted(l, t)
    /\ close_trade(t, _get_premium_from_bundle(l, t), "exit")
    /\ todo' = [todo EXCEPT ![l] = @ \ {t}]
    /\ open' = [open EXCEPT ![l] = @ \ {t}]
    /\ realized' = [realized EXCEPT ![l] = @ + Gain(l, t)]
    /\ evidence' = [evidence EXCEPT ![l][Arm(t)] = @ \cup {t}]
    /\ circuit' = [circuit EXCEPT ![l] = IF Gain(l, t) > 0 THEN record_win(@, Arm(t))
                                                          ELSE record_loss(@, Arm(t))]
    /\ UNCHANGED <<clock, process, store, universe, boot, pc, quotes, ticked, faults>>

\* the recorder raises: the rest of the tick is lost, the position stays
CloseFails(l, t) ==
    /\ pc[l] = "manage" /\ Turn(l, t)
    /\ Quoted(l, t)
    /\ Fault
    /\ todo' = [todo EXCEPT ![l] = {}]
    /\ Goto(l, "wait")
    /\ UNCHANGED <<clock, process, store, book, bandit, quotes, ticked, circuit>>

\* defect: the result of the day is what is still open
NavChange_open(l) == Mtm(l)

NavChange(l) == realized[l] + Mtm(l)

check_and_fire(c, nav) ==
    [c EXCEPT !.lockin = @ \/ nav >= LockinGain, !.kill = @ \/ nav <= -KillLoss]

\* defect: a full portfolio is not noticed
Blocked_unlimited(l, c) == c.kill \/ now < FirstEntry

\* kill switch, capacity gate, warm-up gate
Blocked(l, c) ==
    c.kill \/ Cardinality(open[l]) >= MaxConcurrent \/ now < FirstEntry

CheckNav(l) ==
    LET c == check_and_fire(circuit[l], NavChange(l))
    IN  /\ pc[l] = "manage" /\ todo[l] = {}
        /\ circuit' = [circuit EXCEPT ![l] = c]
        /\ Goto(l, IF Blocked(l, c) THEN "wait" ELSE "enter")
        /\ UNCHANGED <<clock, process, store, book, bandit, quotes, ticked, todo, faults>>

open_trade(row) == rows' = Append(rows, row)

_open_position(l, a, lots) ==
    [status |-> "open",
     entry |-> [arm |-> a, day |-> day, lots |-> lots,
                premium |-> IF quotes[l][a] = Blank THEN Stub ELSE quotes[l][a]]]

\* a symbol that gave a signal, drawn by the bandit and sized by compute_lots
Enter(l, a, lots) ==
    /\ pc[l] = "enter"
    /\ a \in universe[l] /\ quotes[l][a] # NoBundle
    /\ ~arm_in_cooloff(l, a)
    /\ lots \in Lots(circuit[l].lockin)
    /\ Len(rows) < MaxTrades
    /\ open_trade(_open_position(l, a, lots))
    /\ open' = [open EXCEPT ![l] = @ \cup {Len(rows) + 1}]
    /\ Goto(l, "wait")
    /\ UNCHANGED <<clock, process, store, bandit, realized, quotes, ticked, todo,
                   circuit, faults>>

\* no signal, every arm in cool-off, no lots, or open_trade failed
NoEntry(l) ==
    /\ pc[l] = "enter"
    /\ Goto(l, "wait")
    /\ UNCHANGED <<clock, process, store, book, bandit, quotes, ticked, todo,
                   circuit, faults>>

-----------------------------------------------------------------------------
(* The hard exit.                                                          *)

BeginEod(l) ==
    /\ pc[l] = "wait" /\ now >= HardExit
    /\ todo' = [todo EXCEPT ![l] = open[l]]
    /\ Goto(l, "eod")
    /\ UNCHANGED <<clock, process, store, book, bandit, quotes, ticked, circuit, faults>>

\* defect: a position without a bundle is passed over
EodClose_quoted(l, t) ==
    /\ pc[l] = "eod" /\ Turn(l, t)
    /\ IF Quoted(l, t)
         THEN /\ close_trade(t, _get_premium_from_bundle(l, t), "time_stop")
              /\ realized' = [realized EXCEPT ![l] = @ + Gain(l, t)]
         ELSE UNCHANGED <<rows, realized>>
    /\ todo' = [todo EXCEPT ![l] = @ \ {t}]
    /\ UNCHANGED <<clock, process, store, open, bandit, pc, quotes, ticked, circuit, faults>>

\* at the last tick's premium, or at the entry premium; nothing is learned
EodClose(l, t) ==
    /\ pc[l] = "eod" /\ Turn(l, t)
    /\ close_trade(t, _get_premium_from_bundle(l, t), "time_stop")
    /\ realized' = [realized EXCEPT ![l] = @ + Gain(l, t)]
    /\ todo' = [todo EXCEPT ![l] = @ \ {t}]
    /\ UNCHANGED <<clock, process, store, open, bandit, pc, quotes, ticked, circuit, faults>>

EodCloseFails(l, t) ==
    /\ pc[l] = "eod" /\ Turn(l, t)
    /\ Fault
    /\ stuck' = stuck \cup {t}
    /\ todo' = [todo EXCEPT ![l] = @ \ {t}]
    /\ UNCHANGED <<clock, process, dayRow, saved, book, bandit, pc, quotes, ticked, circuit>>

_finalize_day_state(l) ==
    /\ pc[l] = "eod" /\ todo[l] = {}
    /\ dayRow' = [dayRow EXCEPT ![day] =
                    IF @.begun
                      THEN [begun |-> TRUE, done |-> TRUE, pnl |-> realized[l],
                            trade_count |-> Cardinality(OfDay(day))]
                      ELSE @]
    /\ Goto(l, "save")
    /\ UNCHANGED <<clock, process, saved, stuck, book, bandit, quotes, ticked, todo,
                   circuit, faults>>

\* only the arms in play at the end are written
save_eod(l) ==
    /\ pc[l] = "save"
    /\ saved' = [a \in Symbols |-> IF a \in universe[l] THEN evidence[l][a] ELSE saved[a]]
    /\ Goto(l, "ended")
    /\ Forget({l})
    /\ UNCHANGED <<clock, process, dayRow, stuck, rows, faults>>

\* a database error here ends the job
EodAborts(l) ==
    /\ pc[l] = "save" \/ (pc[l] = "eod" /\ todo[l] = {})
    /\ Fault
    /\ Goto(l, "ended")
    /\ Forget({l})
    /\ UNCHANGED <<clock, process, store, rows>>

-----------------------------------------------------------------------------
Tick(l) ==
    \/ BeginTick(l)
    \/ \E read \in [universe[l] -> Quotes \cup {Blank, NoBundle}] : ReadFeatures(l, read)
    \/ \E t \in todo[l] : Hold(l, t) \/ CloseDue(l, t)
    \/ CheckNav(l)
    \/ \E a \in universe[l], lots \in 1 .. MaxLots : Enter(l, a, lots)
    \/ NoEntry(l)

Eod(l) ==
    \/ BeginEod(l)
    \/ \E t \in todo[l] : EodClose(l, t)
    \/ _finalize_day_state(l)
    \/ save_eod(l)

Next ==
    \/ \E resume \in BOOLEAN : Boot(resume)
    \/ Crash
    \/ TimePasses
    \/ NextDay
    \/ \E l \in Loops :
          \/ \E selected \in Universes : Fire(l, selected)
          \/ FireFails(l)
          \/ Tick(l)
          \/ \E p \in Symbols \X Symbols : Replace(l, p)
          \/ \E t \in todo[l] : CloseFails(l, t) \/ EodCloseFails(l, t)
          \/ Eod(l)
          \/ EodAborts(l)

Spec == Init /\ [][Next]_vars

\* the clock moves on and a started loop is not starved
Fairness ==
    /\ WF_vars(TimePasses)
    /\ \A l \in Loops : WF_vars(Tick(l)) /\ WF_vars(Eod(l))

FairSpec == Spec /\ Fairness

-----------------------------------------------------------------------------
(* Properties.                                                             *)

Entries == [arm : Symbols, day : 1 .. MaxDays, lots : 1 .. MaxLots,
            premium : Quotes \cup {Stub}]
Exits   == [premium : Quotes \cup {Stub}, reason : {"exit", "time_stop"}]

\* Types of the tables and of the loops' local state; in particular a streak
\* of losses never exceeds the limit that puts an arm into cool-off.
TypeOK ==
    /\ rows \in Seq([status : {"open"}, entry : Entries]
                       \cup [status : {"closed"}, entry : Entries, exit : Exits])
    /\ dayRow \in [1 .. MaxDays -> [begun : BOOLEAN, done : BOOLEAN,
                                      pnl : Int, trade_count : Nat]]
    /\ saved \in [Symbols -> SUBSET DOMAIN rows]
    /\ stuck \subseteq DOMAIN rows
    /\ day \in 1 .. MaxDays /\ now \in 0 .. HardExit
    /\ up \in BOOLEAN /\ due \subseteq Loops
    /\ pc \in [Loops -> Live \cup Ending \cup {"off", "ended"}]
    /\ universe \in [Loops -> SUBSET Symbols]
    /\ boot \in [Loops -> SUBSET Symbols]
    /\ evidence \in [Loops -> [Symbols -> SUBSET DOMAIN rows]]
    /\ quotes \in [Loops -> [Symbols -> Quotes \cup {Blank, NoBundle}]]
    /\ ticked \in [Loops -> -1 .. HardExit]
    /\ open \in [Loops -> SUBSET DOMAIN rows]
    /\ todo \in [Loops -> SUBSET DOMAIN rows]
    /\ realized \in [Loops -> Int]
    /\ circuit \in [Loops -> [kill : BOOLEAN, lockin : BOOLEAN,
                               losses : [Symbols -> 0 .. CoolLosses - 1],
                               until : [Symbols -> Nat]]]
    /\ faults \in 0 .. MaxFaults

\* What a loop holds in memory is what the ledger says of today, after any
\* crash, resume, failed close and arm replacement: the positions it
\* manages are the open rows, its P&L is that of the closed ones.
MemoryMirrorsLedger ==
    \A l \in Loops : pc[l] \in Live =>
        /\ open[l] = {t \in OfDay(day) : IsOpen(t)}
        /\ realized[l] = Realized(ClosedOn(day))

\* The posterior of an arm holds each reward of its trades exactly as if
\* the session had never been interrupted: what was saved before today and
\* all of today's closed trades (_replay_bandit_updates, load_morning, and
\* the dormant pool that keeps evicted arms).  Arms the scanner admitted are
\* left out: they start cold after a restart.
LearnedFromLedger ==
    \A l \in Loops : pc[l] \in Live =>
        \A a \in boot[l] \cap universe[l] :
            evidence[l][a] = saved[a] \cup {t \in ClosedOn(day) : Arm(t) = a}

\* The scanner never takes a symbol away under an open position, which
\* would then be held unmanaged until the hard exit ("No pair evicts an arm
\* with an open position", live_gainers_scanner).
HeldStaysManaged ==
    faults = 0 =>
        \A l \in Loops : pc[l] \in Live =>
            \A t \in open[l] : Arm(t) \in universe[l]

\* No position is opened on a day whose result stands below the kill line,
\* counting what earlier loops of the day lost before a crash.
DrawdownStopsEntries ==
    [][\A l \in Loops :
          pc[l] = "enter" /\ Len(rows') > Len(rows) =>
              Realized(ClosedOn(day)) + Mtm(l) > -KillLoss]_vars

\* A finalized day is flat, but for the rows whose close failed at the hard
\* exit, however many loops the day had.
DayEndsFlat ==
    \A d \in 1 .. MaxDays :
        dayRow[d].done => \A t \in OfDay(d) : IsOpen(t) => t \in stuck

\* The P&L and the trade count of quant_day_state are those of the day's
\* rows of quant_trades, whichever loop finalized the day.
FinalNavExplained ==
    \A d \in 1 .. MaxDays :
        dayRow[d].done =>
            /\ dayRow[d].pnl = Realized(ClosedOn(d))
            /\ dayRow[d].trade_count = Cardinality(OfDay(d))

\* While the process lives, no position stays open: the loop that holds it
\* closes it in a tick or at the hard exit, whatever arms come and go.
DaySettles ==
    (\E t \in DOMAIN rows : IsOpen(t))
        ~> (faults > 0 \/ \A t \in DOMAIN rows : ~IsOpen(t))

EntryDay(e) == e.day

Ledger == INSTANCE TradeLedger WITH
    trades <- rows, Entry <- Entries, Exit <- Exits, Day <- EntryDay

\* The loop implements the trade ledger: rows close once and for good, and
\* a day never has more open positions than the capacity allows.
LedgerImplemented == Ledger!Spec

-----------------------------------------------------------------------------
(* What comments of the code say and the code does not ensure.             *)

\* "trade row left as 'open'; will be picked up by tomorrow's recovery":
\* a running loop holds the rows whose close failed on an earlier day.
FailedCloseRecovered ==
    \A l \in Loops : pc[l] \in Live =>
        \A t \in stuck : rows[t].entry.day < day => t \in open[l]

\* "recovery and idempotent init_day make this safe": with a resume next to
\* the cron job, what a closed row says stays as it is.
ClosedIsFinal ==
    [][\A t \in DOMAIN rows : ~IsOpen(t) => rows'[t] = rows[t]]_vars

=============================================================================
