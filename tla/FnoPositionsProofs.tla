-------------------------- MODULE FnoPositionsProofs --------------------------
(* Theorems of FnoPositions, for every symbol, candidate, premium, cap,    *)
(* percentage, clock and bound.                                            *)
EXTENDS FnoPositions, SumTheorems

Closed == {"closed_target", "closed_stop", "closed_time", "closed_manual"}

(* The tasks' local state.                                                 *)
CallerState ==
    [on : BOOLEAN, todo : SUBSET Symbols, at : SUBSET Symbols, headroom : Nat,
     checked : BOOLEAN]

Entering(e) ==
    /\ e \in CallerState
    /\ ~e.on => e.todo = {} /\ e.at = {} /\ ~e.checked

TasksTyped ==
    /\ entering = [c \in Callers |-> entering[c]]
    /\ \A c \in Callers : Entering(entering[c])
    /\ managing \in [on : BOOLEAN, todo : SUBSET DOMAIN rows,
                     row : DOMAIN rows \cup {None}, premium : Premiums \cup {0}]
    /\ managing.row # None => managing.on /\ managing.premium \in Premiums
    /\ exiting \in [on : BOOLEAN, todo : SUBSET DOMAIN rows, done : BOOLEAN]
    /\ closing \in DOMAIN rows \cup {None}

Typed ==
    /\ rows \in Seq(Signals)
    /\ day \in 1 .. MaxDays /\ now \in 0 .. Close /\ due \subseteq Jobs
    /\ up \in BOOLEAN /\ actions \in 0 .. MaxActions
    /\ faults \in 0 .. MaxFaults /\ overlapped \in BOOLEAN
    /\ TasksTyped

-----------------------------------------------------------------------------
(* What a row is worth.                                                    *)

LEMMA Constants ==
    /\ Premiums \subseteq Nat \ {0}
    /\ ScaleOut \in Nat /\ TrailBy \in 0 .. 100
    /\ HardExit \in Nat \ {0} /\ Close \in Nat
  BY FnoAssumption

LEMMA RowFields ==
    ASSUME NEW r \in Signals
    PROVE  /\ r.day \in 1 .. MaxDays
           /\ r.side \in {"BUY", "SELL"} /\ r.net \in Int
           /\ r.fill \in Premiums /\ r.lots \in Nat \ {0} /\ r.stop \in Int /\ r.pnl \in Int
           /\ r.status \in Closed \cup {"paper_filled"}
  BY DEF Signals, Closed

LEMMA RowTyped ==
    ASSUME Typed, NEW t \in DOMAIN rows
    PROVE  /\ rows[t] \in Signals
           /\ rows[t].day \in 1 .. MaxDays
           /\ rows[t].fill \in Premiums /\ rows[t].fill \in Nat \ {0}
           /\ rows[t].lots \in Nat \ {0}
           /\ rows[t].status \in Closed \cup {"paper_filled"}
           /\ rows[t].side \in {"BUY", "SELL"} /\ rows[t].net \in Int
           /\ rows[t].stop \in Int /\ rows[t].pnl \in Int
  <1>1. rows[t] \in Signals
    BY DEF Typed
  <1> QED
    BY <1>1, RowFields, Constants

LEMMA StopTyped ==
    ASSUME Typed, NEW t \in DOMAIN rows, NEW premium \in Premiums
    PROVE  update_trailing_stop(t, premium) \in Int
  <1>1. rows[t].fill \in Nat /\ premium \in Nat /\ 100 - TrailBy \in Nat
    BY RowTyped, Constants
  <1>2. (100 - TrailBy) * premium \in Nat /\ 70 * rows[t].fill \in Nat
    BY <1>1
  <1> QED
    BY <1>2 DEF update_trailing_stop, Stop

(* The net premium that rows deploy on a day.                              *)
RowsOf(rs, d) == {t \in DOMAIN rs : rs[t].day = d}
Deployed(rs, d) == SumFunction([t \in RowsOf(rs, d) |-> rs[t].net])

LEMMA DeployedTerms ==
    ASSUME NEW rs \in Seq(Signals), NEW d
    PROVE  /\ IsFiniteSet(RowsOf(rs, d))
           /\ \A t \in DOMAIN rs : rs[t].net \in Int
  <1>1. DOMAIN rs = 1 .. Len(rs) /\ Len(rs) \in Nat
    OBVIOUS
  <1>2. IsFiniteSet(DOMAIN rs)
    BY <1>1, FS_Interval
  <1>3. RowsOf(rs, d) \in SUBSET DOMAIN rs
    BY DEF RowsOf
  <1>4. ASSUME NEW t \in DOMAIN rs PROVE rs[t].net \in Int
    <2>1. rs[t] \in Signals
      OBVIOUS
    <2> QED
      BY <2>1, RowFields
  <1> QED
    BY <1>2, <1>3, <1>4, FS_Subset

LEMMA DeployedInt ==
    ASSUME NEW rs \in Seq(Signals), NEW d
    PROVE  Deployed(rs, d) \in Int
  <1> DEFINE f == [t \in RowsOf(rs, d) |-> rs[t].net]
  <1>1. DOMAIN f = RowsOf(rs, d) /\ \A t \in RowsOf(rs, d) : f[t] \in Int
    BY DeployedTerms DEF RowsOf
  <1>2. Deployed(rs, d) = SumFunctionOnSet(f, RowsOf(rs, d))
    BY <1>1 DEF Deployed, SumFunction
  <1> HIDE DEF f
  <1> QED
    BY <1>1, <1>2, DeployedTerms, SumInt

(* Rewriting statuses and stops leaves the deployed premium.               *)
LEMMA DeployedKept ==
    ASSUME NEW rs, NEW qs, NEW d, DOMAIN rs = DOMAIN qs,
           \A t \in DOMAIN rs : rs[t].day = qs[t].day /\ rs[t].net = qs[t].net
    PROVE  Deployed(rs, d) = Deployed(qs, d)
  <1>1. RowsOf(rs, d) = RowsOf(qs, d)
    BY DEF RowsOf
  <1>2. \A t \in RowsOf(rs, d) : rs[t].net = qs[t].net
    BY DEF RowsOf
  <1>3. [t \in RowsOf(rs, d) |-> rs[t].net]
          = [t \in RowsOf(qs, d) |-> qs[t].net]
    BY <1>1, <1>2
  <1> QED
    BY <1>3 DEF Deployed

(* A new row adds what it costs to its day.                                *)
LEMMA DeployedMore ==
    ASSUME NEW rs \in Seq(Signals), NEW r \in Signals, NEW d
    PROVE  Deployed(Append(rs, r), d)
             = Deployed(rs, d) + (IF r.day = d THEN r.net ELSE 0)
  <1> DEFINE qs == Append(rs, r)
             n == Len(rs) + 1
             f == [t \in RowsOf(rs, d) |-> rs[t].net]
             g == [t \in RowsOf(qs, d) |-> qs[t].net]
  <1>1. /\ qs \in Seq(Signals) /\ qs[n] = r
        /\ DOMAIN qs = DOMAIN rs \cup {n} /\ n \notin DOMAIN rs
        /\ \A t \in DOMAIN rs : qs[t] = rs[t]
    OBVIOUS
  <1>2. Deployed(rs, d) = SumFunctionOnSet(f, RowsOf(rs, d))
        /\ Deployed(qs, d) = SumFunctionOnSet(g, RowsOf(qs, d))
    BY DEF Deployed, SumFunction
  <1>3. /\ IsFiniteSet(RowsOf(rs, d)) /\ n \notin RowsOf(rs, d)
        /\ RowsOf(qs, d) = RowsOf(rs, d) \cup (IF r.day = d THEN {n} ELSE {})
    <2> HIDE DEF qs, n
    <2> QED
      BY <1>1, DeployedTerms DEF RowsOf
  <1>4. /\ \A t \in RowsOf(qs, d) : g[t] = qs[t].net /\ g[t] \in Int
        /\ \A t \in RowsOf(rs, d) : f[t] = g[t] /\ f[t] \in Int
    <2>1. \A t \in RowsOf(qs, d) : qs[t].net \in Int
      <3> HIDE DEF qs
      <3> QED
        BY <1>1, DeployedTerms DEF RowsOf
    <2>2. \A t \in RowsOf(rs, d) : t \in RowsOf(qs, d) /\ t \in DOMAIN rs
      BY <1>3 DEF RowsOf
    <2> HIDE DEF qs, n
    <2> QED
      BY <1>1, <2>1, <2>2
  <1> HIDE DEF qs, n, f, g
  <1>5. SumFunctionOnSet(f, RowsOf(rs, d)) = SumFunctionOnSet(g, RowsOf(rs, d))
    BY <1>3, <1>4, SumSame
  <1>6. SumFunctionOnSet(f, RowsOf(rs, d)) \in Int
    BY <1>3, <1>4, SumInt
  <1>7. CASE r.day = d
    <2>1. RowsOf(qs, d) = RowsOf(rs, d) \cup {n}
      BY <1>3, <1>7
    <2>2. SumFunctionOnSet(g, RowsOf(rs, d) \cup {n})
            = g[n] + SumFunctionOnSet(g, RowsOf(rs, d))
      <3>1. \A t \in RowsOf(rs, d) \cup {n} : g[t] \in Int
        BY <1>4, <2>1
      <3> QED
        BY <1>3, <3>1, SumAdd
    <2>3. g[n] = r.net /\ g[n] \in Int
      BY <1>1, <1>4, <2>1
    <2>4. Deployed(qs, d) = Deployed(rs, d) + r.net
      BY <1>2, <1>5, <1>6, <2>1, <2>2, <2>3
    <2> QED
      BY <1>7, <2>4 DEF qs
  <1>8. CASE r.day # d
    <2>1. Deployed(qs, d) = Deployed(rs, d) + 0
      BY <1>2, <1>3, <1>5, <1>6, <1>8
    <2> QED
      BY <1>8, <2>1 DEF qs
  <1> QED
    BY <1>7, <1>8

LEMMA DeployedToday ==
    ASSUME Typed
    PROVE  /\ fno_premium_deployed_today = Deployed(rows, day)
           /\ fno_premium_deployed_today \in Int
  <1>1. fno_premium_deployed_today = Deployed(rows, day)
    BY DEF fno_premium_deployed_today, Deployed, Today, RowsOf, Cost
  <1> QED
    BY <1>1, DeployedInt DEF Typed

(* Lots sized at the premium of the proposal cost no more than the         *)
(* headroom when they are filled.                                          *)
LEMMA LotsAffordable ==
    ASSUME NEW capital \in Nat, NEW a \in Symbols, NEW s \in Structures[a],
           NEW premium \in Premiums, NEW fill \in Premiums,
           NEW lots \in compute_lots(capital, premium)
    PROVE  net_cost(s, fill) \in Int /\ net_cost(s, fill) * lots <= capital
  <1> DEFINE net   == net_cost(s, fill)
             share == capital * MaxPosition
             unit  == 100 * premium
  <1>1. /\ premium \in Nat \ {0} /\ fill \in Nat /\ MaxPosition \in Nat
        /\ s \in [side : {"BUY", "SELL"}, rest : Int]
        /\ net * MaxPosition <= unit
    BY FnoAssumption
  <1>2. net \in Int
    BY <1>1 DEF net_cost
  <1> HIDE DEF net
  <1>3. share \in Nat /\ unit \in Nat \ {0}
    BY <1>1
  <1>4. lots \in Nat \ {0} /\ lots <= share \div unit
    BY <1>3 DEF compute_lots
  <1>5. unit * lots <= share
    <2> HIDE DEF share, unit
    <2>1. unit * (share \div unit) <= share /\ share \div unit \in Nat
      BY <1>3
    <2>2. unit * lots <= unit * (share \div unit)
      BY <1>3, <1>4, <2>1
    <2> QED
      BY <1>3, <1>4, <2>1, <2>2
  <1>6. (net * MaxPosition) * lots <= unit * lots
    <2>1. \A x, y \in Int, l \in Nat : x <= y => x * l <= y * l
      OBVIOUS
    <2>2. net * MaxPosition \in Int
      BY <1>1, <1>2
    <2> HIDE DEF unit
    <2> QED
      BY <1>1, <1>3, <1>4, <2>1, <2>2
  <1>7. MaxPosition # 0
    <2>1. MaxPosition = 0 => share = 0
      OBVIOUS
    <2>2. share = 0 => share \div unit = 0
      BY <1>3
    <2> QED
      BY <1>4, <2>1, <2>2
  <1>8. (net * lots) * MaxPosition <= capital * MaxPosition
    <2>1. (net * MaxPosition) * lots = (net * lots) * MaxPosition
      BY <1>1, <1>2, <1>4
    <2>2. (net * MaxPosition) * lots \in Int /\ unit * lots \in Nat
      BY <1>1, <1>2, <1>3, <1>4
    <2> QED
      BY <1>3, <1>5, <1>6, <2>1, <2>2
  <1>9. net * lots \in Int
    BY <1>2, <1>4
  <1>10. \A x, y \in Int, m \in Nat \ {0} : x * m <= y * m => x <= y
    OBVIOUS
  <1>11. net * lots <= capital
    BY <1>1, <1>7, <1>8, <1>9, <1>10
  <1> QED
    BY <1>2, <1>11 DEF net

-----------------------------------------------------------------------------
(* What a step does to the rows: nothing, a new row, a close, or the write *)
(* of a stop.                                                              *)

Enters(c, a) ==
    /\ EntryStep(c)
    /\ entering[c].at = {a} /\ entering[c].checked
    /\ \E r \in Signals :
          /\ rows' = Append(rows, r)
          /\ r.symbol = a /\ r.day = day /\ r.late = (now >= HardExit)
          /\ r.stop = 70 * r.net /\ r.status = "paper_filled"
          /\ r.net <= entering[c].headroom

Rewrites(t) ==
    /\ t \in DOMAIN rows
    /\ rows' \in Seq(Signals) /\ DOMAIN rows' = DOMAIN rows
    /\ \A u \in DOMAIN rows : u # t => rows'[u] = rows[u]
    /\ rows'[t].symbol = rows[t].symbol /\ rows'[t].day = rows[t].day
    /\ rows'[t].late = rows[t].late /\ rows'[t].side = rows[t].side
    /\ rows'[t].fill = rows[t].fill /\ rows'[t].lots = rows[t].lots
    /\ rows'[t].net = rows[t].net

(* a close by the tick is by its rules                                     *)
ByRule(t) ==
    \E premium \in Premiums :
        LET stop == update_trailing_stop(t, premium)
        IN  /\ rows'[t].status = apply_tick(t, premium, stop)
            /\ rows'[t].pnl = _compute_pnl(t, premium)

Closes(t) ==
    /\ Rewrites(t)
    /\ rows'[t].status \in Closed
    /\ rows'[t].status \in {"closed_target", "closed_stop"} => ByRule(t)

(* a stop is moved just before the close                                   *)
Marks(t) ==
    /\ Rewrites(t)
    /\ rows'[t].status = rows[t].status /\ rows'[t].pnl = rows[t].pnl
    /\ ScaleOut >= 30 => managing'.row = t

RowEffect ==
    \/ UNCHANGED rows
    \/ \E c \in Callers, a \in Symbols : Enters(c, a)
    \/ \E t \in DOMAIN rows : Closes(t) \/ Marks(t)

LEMMA CloseEffect ==
    ASSUME Typed, NEW t \in DOMAIN rows, NEW status \in Closed, NEW exit \in Nat, NEW stop \in Int,
           _close_signal(t, status, exit, stop)
    PROVE  /\ Rewrites(t)
           /\ rows'[t].status = status /\ rows'[t].pnl = _compute_pnl(t, exit)
  <1> DEFINE pnl == _compute_pnl(t, exit)
  <1>1. rows \in Seq(Signals) /\ rows[t] \in Signals /\ t \in 1 .. Len(rows)
    BY DEF Typed
  <1>2. pnl \in Int
    BY RowTyped DEF _compute_pnl
  <1>3. PICK x : /\ x = [rows[t] EXCEPT !.status = status, !.pnl = pnl, !.stop = stop]
                 /\ rows' = [rows EXCEPT ![t] = x]
    BY DEF _close_signal
  <1> HIDE DEF pnl
  <1>4. /\ x \in Signals
        /\ x.symbol = rows[t].symbol /\ x.day = rows[t].day /\ x.late = rows[t].late
        /\ x.side = rows[t].side /\ x.net = rows[t].net
        /\ x.fill = rows[t].fill /\ x.lots = rows[t].lots
        /\ x.status = status /\ x.pnl = pnl /\ x.stop = stop
    <2> DEFINE r == rows[t]
    <2>1. r \in Signals /\ x = [r EXCEPT !.status = status, !.pnl = pnl, !.stop = stop]
      BY <1>1, <1>3
    <2> HIDE DEF r
    <2>2. /\ x \in Signals
          /\ x.symbol = r.symbol /\ x.day = r.day /\ x.late = r.late
          /\ x.side = r.side /\ x.net = r.net
          /\ x.fill = r.fill /\ x.lots = r.lots
          /\ x.status = status /\ x.pnl = pnl /\ x.stop = stop
      BY <1>2, <2>1 DEF Signals, Closed
    <2> QED
      BY <2>2 DEF r
  <1>5. rows' \in Seq(Signals) /\ DOMAIN rows' = DOMAIN rows /\ rows'[t] = x
        /\ \A u \in DOMAIN rows : u # t => rows'[u] = rows[u]
    BY <1>1, <1>3, <1>4, ExceptSeq
  <1> QED
    BY <1>4, <1>5 DEF Rewrites, pnl

LEMMA EnterEffect ==
    ASSUME Typed, NEW c \in Callers, NEW a \in Symbols, NEW premium \in Premiums,
           NEW fill \in Premiums, NEW s \in Structures[a], _enter_one(c, a, premium, fill, s)
    PROVE  Enters(c, a)
  <1> DEFINE cost(n) == net_cost(s, fill) * n
  <1>1. PICK lots \in compute_lots(entering[c].headroom, premium) :
           rows' = Append(rows,
                [symbol |-> a, day |-> day, late |-> now >= HardExit,
                 side |-> s.side, fill |-> fill, lots |-> lots, net |-> cost(lots),
                 stop |-> 70 * cost(lots), status |-> "paper_filled", pnl |-> 0])
    BY DEF _enter_one
  <1> DEFINE net == cost(lots)
             r == [symbol |-> a, day |-> day, late |-> now >= HardExit,
                   side |-> s.side, fill |-> fill, lots |-> lots, net |-> net,
                   stop |-> 70 * net, status |-> "paper_filled", pnl |-> 0]
  <1>2. lots \in Nat \ {0} /\ s.side \in {"BUY", "SELL"}
    BY FnoAssumption DEF compute_lots
  <1>3. net \in Int /\ 70 * net \in Int /\ net <= entering[c].headroom
    <2>1. entering[c].headroom \in Nat
      BY DEF Typed, TasksTyped, Entering, CallerState
    <2>2. net_cost(s, fill) \in Int /\ net_cost(s, fill) * lots <= entering[c].headroom
      BY <1>1, <2>1, LotsAffordable
    <2> QED
      BY <1>1, <1>2, <2>2
  <1>4. r \in Signals
    BY <1>2, <1>3 DEF Signals, Typed
  <1> QED
    BY <1>1, <1>3, <1>4 DEF _enter_one, Enters, EntryStep

(* The signal the tick is about to close is one its rules do not hold.     *)
Decided ==
    managing.row # None =>
        apply_tick(managing.row, managing.premium,
                   update_trailing_stop(managing.row, managing.premium)) # "hold"

LEMMA MarkEffect ==
    ASSUME Typed, NEW t \in DOMAIN rows, NEW stop \in Int,
           rows' = [rows EXCEPT ![t] = [@ EXCEPT !.stop = stop]]
    PROVE  /\ Rewrites(t)
           /\ rows'[t].status = rows[t].status /\ rows'[t].pnl = rows[t].pnl
  <1> DEFINE r == rows[t]
  <1>1. rows \in Seq(Signals) /\ r \in Signals /\ t \in 1 .. Len(rows)
    BY DEF Typed
  <1>2. PICK x : x = [r EXCEPT !.stop = stop] /\ rows' = [rows EXCEPT ![t] = x]
    OBVIOUS
  <1> HIDE DEF r
  <1>3. /\ x \in Signals
        /\ x.symbol = r.symbol /\ x.day = r.day /\ x.late = r.late
        /\ x.side = r.side /\ x.net = r.net
        /\ x.fill = r.fill /\ x.lots = r.lots
        /\ x.status = r.status /\ x.pnl = r.pnl /\ x.stop = stop
    BY <1>1, <1>2 DEF Signals
  <1>4. rows' \in Seq(Signals) /\ DOMAIN rows' = DOMAIN rows /\ rows'[t] = x
        /\ \A u \in DOMAIN rows : u # t => rows'[u] = rows[u]
    <2>1. rows' = [rows EXCEPT ![t] = x] /\ x \in Signals
      BY <1>2, <1>3
    <2> QED
      BY <1>1, <2>1, ExceptSeq
  <1> QED
    BY <1>3, <1>4 DEF Rewrites, r

LEMMA RuleClosed ==
    ASSUME NEW t, NEW premium, NEW stop, apply_tick(t, premium, stop) # "hold"
    PROVE  apply_tick(t, premium, stop) \in {"closed_stop", "closed_target"}
  BY DEF apply_tick

LEMMA RowStep ==
    ASSUME Typed, Decided, [Next]_vars
    PROVE  RowEffect
  <1>1. ASSUME NEW c \in Callers, EntryStep(c) PROVE RowEffect
    BY <1>1, EnterEffect
    DEF EntryStep, ReadHeadroom, CheckEntered, NoFill, EntryEnds, RowEffect
  <1>2. ASSUME NEW t, NEW premium \in Premiums, ManageSignal(t, premium) PROVE RowEffect
    <2> DEFINE stop == update_trailing_stop(t, premium)
    <2>1. t \in DOMAIN rows
      BY <1>2 DEF ManageSignal, Turn, Typed, TasksTyped
    <2>2. stop \in Int
      BY <2>1, StopTyped
    <2>3. rows' = rows \/ (stop # Stop(t) /\ rows' = [rows EXCEPT ![t] = [@ EXCEPT !.stop = stop]])
      BY <1>2 DEF ManageSignal
    <2>4. ASSUME stop # Stop(t), ScaleOut >= 30 PROVE managing'.row = t
      <3>1. Trails(t, premium)
        BY <2>4 DEF update_trailing_stop
      <3>2. premium \in Nat /\ rows[t].fill \in Nat /\ ScaleOut \in Nat
        BY <2>1, RowTyped, Constants
      <3>3. ScaleOut * rows[t].fill >= 30 * rows[t].fill
        BY <2>4, <3>2
      <3>4. 100 * premium >= Target(t)
        BY <3>1, <3>2, <3>3 DEF Trails, Target
      <3>5. apply_tick(t, premium, stop) # "hold"
        BY <3>4 DEF apply_tick
      <3> QED
        BY <1>2, <3>5 DEF ManageSignal
    <2>5. CASE stop # Stop(t) /\ rows' = [rows EXCEPT ![t] = [@ EXCEPT !.stop = stop]]
      <3> HIDE DEF stop
      <3> QED
        BY <2>1, <2>2, <2>4, <2>5, MarkEffect DEF Marks, RowEffect
    <2> QED
      BY <2>3, <2>5 DEF RowEffect
  <1>3. ASSUME NEW t \in DOMAIN rows, CloseSignal(t) PROVE RowEffect
    <2> DEFINE premium == managing.premium
               stop == update_trailing_stop(t, premium)
               status == apply_tick(t, premium, stop)
    <2>1. t = managing.row /\ _close_signal(t, status, premium, stop)
      BY <1>3 DEF CloseSignal
    <2>2. t # None
      BY DEF Typed, None
    <2>3. premium \in Premiums /\ premium \in Nat
      BY <2>1, <2>2, Constants DEF Typed, TasksTyped
    <2>4. stop \in Int
      BY <2>3, StopTyped
    <2>5. status # "hold"
      BY <2>1, <2>2 DEF Decided
    <2>6. status \in {"closed_stop", "closed_target"}
      BY <2>5, RuleClosed
    <2>7. /\ Rewrites(t)
          /\ rows'[t].status = status /\ rows'[t].pnl = _compute_pnl(t, premium)
      <3> HIDE DEF premium, stop, status
      <3>1. status \in Closed
        BY <2>6 DEF Closed
      <3> QED
        BY <2>1, <2>3, <2>4, <3>1, CloseEffect
    <2>8. ByRule(t)
      BY <2>3, <2>7 DEF ByRule
    <2>9. rows'[t].status \in Closed
      BY <2>6, <2>7 DEF Closed
    <2> QED
      BY <2>7, <2>8, <2>9 DEF Closes, RowEffect
  <1>4. ASSUME NEW t \in DOMAIN rows, NEW exit \in Premiums, NEW status \in {"closed_time", "closed_manual"},
               _close_signal(t, status, exit, rows[t].stop)
        PROVE  RowEffect
    <2>1. exit \in Nat /\ rows[t].stop \in Int /\ status \in Closed
      BY RowTyped, Constants DEF Closed
    <2>2. Rewrites(t) /\ rows'[t].status = status
      BY <1>4, <2>1, CloseEffect
    <2>3. Closes(t)
      BY <2>1, <2>2 DEF Closes
    <2> QED
      BY <2>3 DEF RowEffect
  <1>5. ASSUME TickStep PROVE RowEffect
    BY <1>2, <1>3, <1>5 DEF TickStep, manage_tick, SkipSignal, TickEnds, RowEffect
  <1>6. ASSUME ExitStep PROVE RowEffect
    <2>1. ASSUME NEW t \in exiting.todo, NEW exit \in Premiums, ExitSignal(t, exit) PROVE RowEffect
      BY <1>4, <2>1 DEF ExitSignal, Typed, TasksTyped
    <2> QED
      BY <1>6, <2>1 DEF ExitStep, hard_exit_all, ExitEnds, RowEffect
  <1>7. ASSUME ManualStep PROVE RowEffect
    BY <1>4, <1>7 DEF ManualStep, ManualClose, ManualCloseFails, RowEffect
  <1>8. CASE Boot \/ Crash \/ TimePasses \/ NextDay \/ TickAborts \/ ExitAborts \/ UNCHANGED vars
    BY <1>8 DEF Boot, Crash, TimePasses, NextDay, TickAborts, ExitAborts, vars, RowEffect
  <1>9. ASSUME NEW c \in Callers, auto_enter(c) PROVE RowEffect
    BY <1>9 DEF auto_enter, RowEffect
  <1>10. ASSUME NEW t \in DOMAIN rows, close_fno_signal(t) PROVE RowEffect
    BY <1>10 DEF close_fno_signal, RowEffect
  <1> QED
    BY <1>1, <1>5, <1>6, <1>7, <1>8, <1>9, <1>10 DEF Next

(* A row that is there keeps what it was entered with, and no closed row   *)
(* opens again.                                                            *)
LEMMA Kept ==
    ASSUME Typed, RowEffect
    PROVE  /\ rows' \in Seq(Signals)
           /\ \A u \in DOMAIN rows :
                /\ u \in DOMAIN rows'
                /\ rows'[u].symbol = rows[u].symbol /\ rows'[u].day = rows[u].day
                /\ rows'[u].late = rows[u].late /\ rows'[u].fill = rows[u].fill
                /\ rows'[u].lots = rows[u].lots /\ rows'[u].side = rows[u].side
                /\ rows'[u].net = rows[u].net
                /\ rows'[u].status = rows[u].status \/ rows'[u].status \in Closed
  <1>1. CASE UNCHANGED rows
    BY <1>1 DEF Typed
  <1>2. ASSUME NEW r \in Signals, rows' = Append(rows, r)
        PROVE  /\ rows' \in Seq(Signals)
               /\ \A u \in DOMAIN rows : u \in DOMAIN rows' /\ rows'[u] = rows[u]
    BY <1>2 DEF Typed
  <1>3. CASE \E c \in Callers, a \in Symbols : Enters(c, a)
    BY <1>2, <1>3 DEF Enters
  <1>4. CASE \E t \in DOMAIN rows : Closes(t) \/ Marks(t)
    BY <1>4 DEF Closes, Marks, Rewrites
  <1> QED
    BY <1>1, <1>3, <1>4 DEF RowEffect

LEMMA Fresh ==
    ASSUME Typed, RowEffect, NEW u \in DOMAIN rows', u \notin DOMAIN rows
    PROVE  \E c \in Callers, a \in Symbols :
              /\ Enters(c, a)
              /\ rows'[u].symbol = a /\ rows'[u].day = day
              /\ rows'[u].late = (now >= HardExit)
              /\ rows'[u].stop = 70 * rows'[u].net
              /\ rows'[u].status = "paper_filled"
              /\ \A v \in DOMAIN rows' : v \notin DOMAIN rows => v = u
  <1>1. PICK c \in Callers, a \in Symbols : Enters(c, a)
    BY DEF RowEffect, Closes, Marks, Rewrites
  <1>2. PICK r \in Signals :
          /\ rows' = Append(rows, r)
          /\ r.symbol = a /\ r.day = day /\ r.late = (now >= HardExit)
          /\ r.stop = 70 * r.net /\ r.status = "paper_filled"
    BY <1>1 DEF Enters
  <1>3. rows \in Seq(Signals)
    BY DEF Typed
  <1>4. rows'[u] = r /\ \A v \in DOMAIN rows' : v \notin DOMAIN rows => v = u
    BY <1>2, <1>3
  <1> QED
    BY <1>1, <1>2, <1>4

-----------------------------------------------------------------------------
(* Types.                                                                  *)

LEMMA Idle == Entering(NotEntering) /\ NotEntering.checked = FALSE
  <1>1. NotEntering \in CallerState /\ NotEntering.checked = FALSE
    BY FnoAssumption DEF NotEntering, CallerState
  <1>2. NotEntering.todo = {} /\ NotEntering.at = {}
    BY DEF NotEntering
  <1> QED
    BY <1>1, <1>2 DEF Entering

LEMMA TypedInit == Init => Typed /\ Decided
  <1> SUFFICES ASSUME Init PROVE Typed /\ Decided
    OBVIOUS
  <1>1. rows \in Seq(Signals) /\ due \subseteq Jobs
    BY DEF Init
  <1>4. overlapped \in BOOLEAN
    BY DEF Init
  <1>3. /\ day \in 1 .. MaxDays /\ now \in 0 .. Close
        /\ up \in BOOLEAN /\ actions \in 0 .. MaxActions /\ faults \in 0 .. MaxFaults
    BY FnoAssumption DEF Init
  <1>2. TasksTyped
    <2>1. /\ entering = [c \in Callers |-> entering[c]]
          /\ \A c \in Callers : Entering(entering[c])
      BY Idle DEF Init
    <2> QED
      BY <2>1 DEF Init, TasksTyped, NotManaging, NotExiting, None
  <1> QED
    BY <1>1, <1>2, <1>3, <1>4 DEF Typed, Decided, Init, NotManaging, None

(* One caller's state, and what it becomes.                                *)
EntryEffect(c) ==
    /\ \/ \* it goes on without a symbol that passed the check
          entering'[c].checked = FALSE
       \/ \* the check is passed
          /\ \A t \in DOMAIN rows :
                rows[t].day = day => rows[t].symbol \notin entering[c].at
          /\ entering'[c].at = entering[c].at
          /\ UNCHANGED rows
    /\ \A d \in Callers : d # c => entering'[d] = entering[d]
    /\ entering[c].on

LEMMA EntryTyped ==
    ASSUME Typed, NEW c \in Callers, NEW x, Entering(x), entering' = [entering EXCEPT ![c] = x]
    PROVE  /\ entering' = [d \in Callers |-> entering'[d]]
           /\ \A d \in Callers : Entering(entering'[d])
           /\ entering'[c] = x
           /\ \A d \in Callers : d # c => entering'[d] = entering[d]
  BY DEF Typed, TasksTyped

LEMMA LeaveTyped ==
    ASSUME Typed, NEW c \in Callers, Leave(c), entering[c].on
    PROVE  /\ entering' = [d \in Callers |-> entering'[d]]
           /\ \A d \in Callers : Entering(entering'[d])
           /\ EntryEffect(c)
           /\ entering'[c].on
  <1> DEFINE x == [NotEntering EXCEPT !.on = TRUE, !.todo = entering[c].todo]
  <1>1. Entering(entering[c])
    BY DEF Typed, TasksTyped
  <1>2. entering[c].todo \in SUBSET Symbols
    BY <1>1 DEF Entering, CallerState
  <1>3. x \in CallerState
    BY <1>2 DEF CallerState, NotEntering
  <1>4. x.on /\ ~x.checked
    BY DEF NotEntering
  <1>5. Entering(x) /\ x.checked = FALSE /\ x.on
    BY <1>3, <1>4 DEF Entering, CallerState
  <1>6. entering' = [entering EXCEPT ![c] = x]
    BY DEF Leave
  <1> HIDE DEF x
  <1> QED
    BY <1>5, <1>6, EntryTyped DEF EntryEffect

LEMMA EntrySteps ==
    ASSUME Typed, NEW c \in Callers, EntryStep(c)
    PROVE  /\ entering' = [d \in Callers |-> entering'[d]]
           /\ \A d \in Callers : Entering(entering'[d])
           /\ EntryEffect(c)
           /\ UNCHANGED <<clock, up, due, jobs, brain, faults, overlapped>>
  <1> DEFINE Goal == /\ entering' = [d \in Callers |-> entering'[d]]
                     /\ \A d \in Callers : Entering(entering'[d])
                     /\ EntryEffect(c)
  <1>1. Entering(entering[c])
    BY DEF Typed, TasksTyped
  <1>2. ASSUME NEW a \in Symbols, ReadHeadroom(c, a) PROVE Goal
    <2> DEFINE left == Cap - fno_premium_deployed_today
               todo == entering[c].todo \ {a}
               at == IF left > 0 THEN {a} ELSE {}
               headroom == IF left > 0 THEN left ELSE 0
               x == [NotEntering EXCEPT !.on = TRUE, !.todo = todo, !.at = at,
                                        !.headroom = headroom]
    <2>1. todo \in SUBSET Symbols /\ at \in SUBSET Symbols
      BY <1>1 DEF Entering, CallerState
    <2>2. x \in CallerState /\ x.on /\ ~x.checked
      <3>1. headroom \in Nat
        BY DeployedToday, FnoAssumption
      <3> HIDE DEF todo, at, headroom
      <3> QED
        BY <2>1, <3>1 DEF NotEntering, CallerState
    <2>3. entering' = [entering EXCEPT ![c] = x]
      BY <1>2 DEF ReadHeadroom
    <2>4. entering[c].on
      BY <1>1, <1>2 DEF ReadHeadroom, Entering
    <2> HIDE DEF x
    <2>5. Entering(x) /\ x.checked = FALSE
      BY <2>2 DEF Entering, CallerState
    <2> QED
      BY <2>3, <2>4, <2>5, EntryTyped DEF EntryEffect
  <1>3. ASSUME NEW a \in Symbols, CheckEntered(c, a) PROVE Goal
    <2>1. entering[c].at = {a} /\ entering[c].on
      BY <1>1, <1>3 DEF CheckEntered, Entering
    <2>2. CASE Leave(c)
      BY <2>1, <2>2, LeaveTyped
    <2>3. CASE ~_already_entered_today(a)
               /\ entering' = [entering EXCEPT ![c] = [@ EXCEPT !.checked = TRUE]]
      <3> DEFINE e == entering[c]
                 x == [e EXCEPT !.checked = TRUE]
      <3>1. e \in CallerState
        BY <1>1 DEF Entering
      <3>2. x \in CallerState /\ x.on = e.on /\ x.at = e.at
        BY <3>1 DEF CallerState
      <3>3. entering' = [entering EXCEPT ![c] = x]
        BY <2>3
      <3>4. Entering(x) /\ x.at = entering[c].at
        BY <2>1, <3>2 DEF Entering
      <3>5. \A t \in DOMAIN rows : rows[t].day = day => rows[t].symbol \notin entering[c].at
        BY <2>1, <2>3 DEF _already_entered_today, Today
      <3>6. UNCHANGED rows
        BY <1>3 DEF CheckEntered
      <3> HIDE DEF x, e
      <3> QED
        BY <2>1, <3>3, <3>4, <3>5, <3>6, EntryTyped DEF EntryEffect
    <2> QED
      BY <1>3, <2>2, <2>3 DEF CheckEntered
  <1>4. ASSUME NEW a \in Symbols, NoFill(c, a) PROVE Goal
    BY <1>1, <1>4, LeaveTyped DEF NoFill, Entering
  <1>5. ASSUME NEW a \in Symbols, NEW premium, NEW fill, NEW s, _enter_one(c, a, premium, fill, s)
        PROVE  Goal
    BY <1>1, <1>5, LeaveTyped DEF _enter_one, Entering
  <1>6. ASSUME EntryEnds(c) PROVE Goal
    BY <1>6, Idle, EntryTyped DEF EntryEnds, EntryEffect
  <1>7. UNCHANGED <<clock, up, due, jobs, brain, faults, overlapped>>
    BY DEF EntryStep, ReadHeadroom, CheckEntered, NoFill, _enter_one, EntryEnds
  <1> QED
    BY <1>2, <1>3, <1>4, <1>5, <1>6, <1>7 DEF EntryStep

LEMMA CallTyped ==
    ASSUME Typed, NEW c \in Callers, auto_enter(c)
    PROVE  /\ entering' = [d \in Callers |-> entering'[d]]
           /\ \A d \in Callers : Entering(entering'[d])
           /\ entering'[c].checked = FALSE
           /\ \A d \in Callers : d # c => entering'[d] = entering[d]
  <1> DEFINE x == [NotEntering EXCEPT !.on = TRUE, !.todo = Candidates[day]]
  <1>1. Candidates[day] \in SUBSET Symbols
    BY FnoAssumption DEF Typed
  <1>2. x \in CallerState /\ x.on /\ ~x.checked
    BY <1>1 DEF CallerState, NotEntering
  <1>3. Entering(x) /\ x.checked = FALSE
    BY <1>2 DEF Entering, CallerState
  <1>4. entering' = [entering EXCEPT ![c] = x]
    BY DEF auto_enter
  <1> HIDE DEF x
  <1> QED
    BY <1>3, <1>4, EntryTyped

LEMMA EnteringStep ==
    ASSUME Typed, [Next]_vars
    PROVE  /\ entering' = [c \in Callers |-> entering'[c]]
           /\ \A c \in Callers : Entering(entering'[c])
  <1>1. CASE UNCHANGED entering
    BY <1>1 DEF Typed, TasksTyped
  <1>2. CASE Crash
    BY <1>2, Idle DEF Crash
  <1>3. ASSUME NEW c \in Callers, auto_enter(c) \/ EntryStep(c)
        PROVE  /\ entering' = [d \in Callers |-> entering'[d]]
               /\ \A d \in Callers : Entering(entering'[d])
    BY <1>3, CallTyped, EntrySteps
  <1>4. CASE TickStep \/ TickAborts \/ ExitStep \/ ExitAborts \/ ManualStep
    BY <1>1, <1>4 DEF TickStep, manage_tick, SkipSignal, ManageSignal, CloseSignal, TickEnds,
       TickAborts, ExitStep, hard_exit_all, ExitSignal, ExitEnds, ExitAborts,
       ManualStep, ManualClose, ManualCloseFails
  <1>5. CASE Boot \/ TimePasses \/ NextDay \/ UNCHANGED vars
    BY <1>1, <1>5 DEF Boot, TimePasses, NextDay, tasks, vars
  <1>6. ASSUME NEW t \in DOMAIN rows, close_fno_signal(t)
        PROVE  UNCHANGED entering
    BY <1>6 DEF close_fno_signal
  <1> QED
    BY <1>1, <1>2, <1>3, <1>4, <1>5, <1>6 DEF Next

(* The closers: the tick, the hard exit and the manual close.              *)
ClosersTyped ==
    /\ managing \in [on : BOOLEAN, todo : SUBSET DOMAIN rows,
                     row : DOMAIN rows \cup {None}, premium : Premiums \cup {0}]
    /\ managing.row # None => managing.on /\ managing.premium \in Premiums
    /\ exiting \in [on : BOOLEAN, todo : SUBSET DOMAIN rows, done : BOOLEAN]
    /\ closing \in DOMAIN rows \cup {None}

LEMMA ClosersStep ==
    ASSUME Typed, RowEffect, [Next]_vars
    PROVE  ClosersTyped'
  <1>1. /\ ClosersTyped
        /\ \A u \in DOMAIN rows : u \in DOMAIN rows'
    BY Kept DEF Typed, TasksTyped, ClosersTyped
  <1>2. Live \in SUBSET DOMAIN rows /\ SignalsToExit \in SUBSET DOMAIN rows
    BY DEF Live, SignalsToExit
  <1>3. ASSUME UNCHANGED managing \/ managing' = NotManaging,
               UNCHANGED exiting \/ exiting' = NotExiting,
               UNCHANGED closing \/ closing' = None
        PROVE  ClosersTyped'
    <2>1. /\ NotManaging \in [on : BOOLEAN, todo : SUBSET DOMAIN rows',
                              row : DOMAIN rows' \cup {None}, premium : Premiums \cup {0}]
          /\ NotManaging.row = None
          /\ NotExiting \in [on : BOOLEAN, todo : SUBSET DOMAIN rows', done : BOOLEAN]
      BY DEF NotManaging, NotExiting, None
    <2>2. /\ managing' \in [on : BOOLEAN, todo : SUBSET DOMAIN rows',
                             row : DOMAIN rows' \cup {None}, premium : Premiums \cup {0}]
          /\ managing'.row # None => managing'.on /\ managing'.premium \in Premiums
      BY <1>1, <1>3, <2>1 DEF ClosersTyped
    <2>3. exiting' \in [on : BOOLEAN, todo : SUBSET DOMAIN rows', done : BOOLEAN]
      BY <1>1, <1>3, <2>1 DEF ClosersTyped
    <2>4. closing' \in DOMAIN rows' \cup {None}
      BY <1>1, <1>3 DEF ClosersTyped
    <2> QED
      BY <2>2, <2>3, <2>4 DEF ClosersTyped
  <1>4. ASSUME UNCHANGED <<exiting, closing>>,
               managing' \in [on : BOOLEAN, todo : SUBSET DOMAIN rows,
                              row : DOMAIN rows \cup {None}, premium : Premiums \cup {0}],
               managing'.row # None => managing'.on /\ managing'.premium \in Premiums
        PROVE  ClosersTyped'
    BY <1>1, <1>4 DEF ClosersTyped
  <1>5. ASSUME UNCHANGED <<managing, closing>>,
               exiting' \in [on : BOOLEAN, todo : SUBSET DOMAIN rows, done : BOOLEAN]
        PROVE  ClosersTyped'
    BY <1>1, <1>5 DEF ClosersTyped
  <1>6. CASE manage_tick
    <2>1. managing' \in [on : BOOLEAN, todo : SUBSET DOMAIN rows,
                         row : DOMAIN rows \cup {None}, premium : Premiums \cup {0}]
          /\ managing'.row = None
      BY <1>2, <1>6 DEF manage_tick, NotManaging
    <2> QED
      BY <1>4, <1>6, <2>1 DEF manage_tick, brain
  <1>7. ASSUME NEW t \in managing.todo, SkipSignal(t) PROVE ClosersTyped'
    <2>1. managing' = [managing EXCEPT !.todo = @ \ {t}]
      BY <1>7 DEF SkipSignal
    <2>2. managing' \in [on : BOOLEAN, todo : SUBSET DOMAIN rows,
                         row : DOMAIN rows \cup {None}, premium : Premiums \cup {0}]
          /\ managing'.row = managing.row /\ managing'.on = managing.on
          /\ managing'.premium = managing.premium
      BY <1>1, <2>1 DEF ClosersTyped
    <2>3. UNCHANGED <<exiting, closing>>
      BY <1>7 DEF SkipSignal, brain
    <2> QED
      BY <1>1, <1>4, <2>2, <2>3 DEF ClosersTyped
  <1>8. ASSUME NEW t \in managing.todo, NEW premium \in Premiums, ManageSignal(t, premium)
        PROVE  ClosersTyped'
    <2> DEFINE hold == apply_tick(t, premium, update_trailing_stop(t, premium)) = "hold"
               row == IF hold THEN None ELSE t
               price == IF hold THEN 0 ELSE premium
    <2>1. /\ managing' = [on |-> TRUE, todo |-> managing.todo \ {t}, row |-> row, premium |-> price]
          /\ row = None \/ price = premium
          /\ row \in {None, t} /\ price \in {0, premium}
      BY <1>8 DEF ManageSignal
    <2> HIDE DEF row, price
    <2>2. t \in DOMAIN rows /\ managing.todo \ {t} \in SUBSET DOMAIN rows
      BY <1>1 DEF ClosersTyped
    <2>3. managing' \in [on : BOOLEAN, todo : SUBSET DOMAIN rows,
                         row : DOMAIN rows \cup {None}, premium : Premiums \cup {0}]
          /\ managing'.row = row /\ managing'.on /\ managing'.premium = price
      BY <2>1, <2>2
    <2>4. UNCHANGED <<exiting, closing>>
      BY <1>8 DEF ManageSignal, brain
    <2> QED
      BY <1>4, <2>1, <2>3, <2>4
  <1>9. ASSUME NEW t \in DOMAIN rows, CloseSignal(t) PROVE ClosersTyped'
    <2>1. managing' = [managing EXCEPT !.row = None, !.premium = 0]
      BY <1>9 DEF CloseSignal
    <2>2. managing' \in [on : BOOLEAN, todo : SUBSET DOMAIN rows,
                         row : DOMAIN rows \cup {None}, premium : Premiums \cup {0}]
          /\ managing'.row = None
      BY <1>1, <2>1 DEF ClosersTyped
    <2>3. UNCHANGED <<exiting, closing>>
      BY <1>9 DEF CloseSignal, brain
    <2> QED
      BY <1>4, <2>2, <2>3
  <1>10. CASE TickEnds \/ TickAborts \/ ExitAborts \/ Crash
    BY <1>3, <1>10 DEF TickEnds, TickAborts, ExitAborts, Crash, brain
  <1>11. CASE hard_exit_all
    <2>1. exiting' \in [on : BOOLEAN, todo : SUBSET DOMAIN rows, done : BOOLEAN]
      BY <1>2, <1>11 DEF hard_exit_all, NotExiting
    <2> QED
      BY <1>5, <1>11, <2>1 DEF hard_exit_all, brain
  <1>12. ASSUME NEW t, NEW exit, ExitSignal(t, exit) PROVE ClosersTyped'
    <2>1. exiting' = [exiting EXCEPT !.todo = @ \ {t}]
      BY <1>12 DEF ExitSignal
    <2>2. exiting' \in [on : BOOLEAN, todo : SUBSET DOMAIN rows, done : BOOLEAN]
      BY <1>1, <2>1 DEF ClosersTyped
    <2> QED
      BY <1>5, <1>12, <2>2 DEF ExitSignal, brain
  <1>13. CASE ExitEnds
    BY <1>5, <1>13 DEF ExitEnds, NotExiting, brain
  <1>14. CASE Boot \/ TimePasses \/ NextDay \/ UNCHANGED vars
    BY <1>3, <1>14 DEF Boot, TimePasses, NextDay, tasks, jobs, brain, vars
  <1>15. ASSUME NEW c \in Callers, auto_enter(c) \/ EntryStep(c) PROVE ClosersTyped'
    BY <1>3, <1>15, EntrySteps DEF auto_enter, jobs, brain
  <1>16. CASE ManualStep
    BY <1>3, <1>16 DEF ManualStep, ManualClose, ManualCloseFails, jobs
  <1>17. ASSUME NEW t \in DOMAIN rows, close_fno_signal(t) PROVE ClosersTyped'
    BY <1>1, <1>17 DEF close_fno_signal, jobs, ClosersTyped
  <1> QED
    BY <1>6, <1>7, <1>8, <1>9, <1>10, <1>11, <1>12, <1>13, <1>14, <1>15, <1>16, <1>17
    DEF Next, TickStep, ExitStep

LEMMA TypedStep ==
    ASSUME Typed, Decided, [Next]_vars
    PROVE  Typed'
  <1>1. RowEffect /\ rows' \in Seq(Signals)
    BY RowStep, Kept
  <1>2. TasksTyped'
    BY <1>1, EnteringStep, ClosersStep DEF TasksTyped, ClosersTyped
  <1>3. /\ day' \in 1 .. MaxDays /\ now' \in 0 .. Close /\ due' \subseteq Jobs
        /\ up' \in BOOLEAN /\ actions' \in 0 .. MaxActions
        /\ faults' \in 0 .. MaxFaults /\ overlapped' \in BOOLEAN
    <2>0. /\ day \in 1 .. MaxDays /\ now \in 0 .. Close /\ due \subseteq Jobs
          /\ up \in BOOLEAN /\ actions \in 0 .. MaxActions
          /\ faults \in 0 .. MaxFaults /\ overlapped \in BOOLEAN
          /\ MaxActions \in Nat /\ MaxFaults \in Nat
          /\ Decides => actions' \in 0 .. MaxActions
          /\ Fault => faults' \in 0 .. MaxFaults
      BY FnoAssumption DEF Typed, Decides, Fault
    <2>1. CASE UNCHANGED <<clock, due, faults, overlapped, up, actions>>
      BY <2>0, <2>1 DEF clock
    <2>2. CASE Boot \/ Crash \/ UNCHANGED vars
      BY <2>0, <2>1, <2>2 DEF Boot, Crash, vars, clock, tasks, brain
    <2>7. CASE TimePasses
      <3>1. now' = now + 1 /\ now < Close /\ due' \subseteq Jobs
        BY <2>7 DEF TimePasses, JobsAt, Jobs
      <3> QED
        BY <2>0, <2>7, <3>1, FnoAssumption DEF TimePasses
    <2>8. CASE NextDay
      BY <2>0, <2>8, FnoAssumption DEF NextDay
    <2>3. ASSUME NEW c \in Callers, auto_enter(c) \/ EntryStep(c)
          PROVE  /\ UNCHANGED <<clock, faults, up>> /\ due' \subseteq Jobs /\ overlapped' \in BOOLEAN
                 /\ actions' \in 0 .. MaxActions
      BY <2>0, <2>3, EntrySteps DEF auto_enter, Called, brain
    <2>4. CASE TickStep \/ ExitStep
      BY <2>0, <2>4 DEF TickStep, manage_tick, SkipSignal, ManageSignal, CloseSignal, TickEnds,
         ExitStep, hard_exit_all, ExitSignal, ExitEnds, clock, brain
    <2>5. CASE TickAborts \/ ExitAborts \/ ManualStep
      BY <2>0, <2>5 DEF TickAborts, ExitAborts, ManualStep, ManualClose, ManualCloseFails, clock, brain
    <2>6. ASSUME NEW t \in DOMAIN rows, close_fno_signal(t)
          PROVE  UNCHANGED <<clock, due, faults, overlapped, up>> /\ actions' \in 0 .. MaxActions
      BY <2>0, <2>6 DEF close_fno_signal
    <2> QED
      BY <2>0, <2>1, <2>2, <2>3, <2>4, <2>5, <2>6, <2>7, <2>8 DEF Next, clock
  <1> QED
    BY <1>1, <1>2, <1>3 DEF Typed

-----------------------------------------------------------------------------
(* The decision the tick has made stays one its rules do not hold.         *)

LEMMA SameRule ==
    ASSUME Typed, RowEffect, NEW t \in DOMAIN rows, NEW premium
    PROVE  apply_tick(t, premium, update_trailing_stop(t, premium))'
             = apply_tick(t, premium, update_trailing_stop(t, premium))
  BY Kept DEF apply_tick, update_trailing_stop, Trails, Stop, Target

LEMMA DecidedStep ==
    ASSUME Typed, Decided, [Next]_vars
    PROVE  Decided'
  <1>1. RowEffect
    BY RowStep
  <1>2. ASSUME managing'.row = managing.row, managing'.premium = managing.premium
        PROVE  Decided'
    <2>1. CASE managing.row = None
      BY <1>2, <2>1 DEF Decided
    <2>2. CASE managing.row # None
      <3>1. PICK t \in DOMAIN rows, premium \in Premiums \cup {0} :
               /\ t = managing.row /\ t = managing'.row
               /\ premium = managing.premium /\ premium = managing'.premium
        BY <1>2, <2>2 DEF Typed, TasksTyped
      <3>2. apply_tick(t, premium, update_trailing_stop(t, premium)) # "hold"
        BY <2>2, <3>1 DEF Decided
      <3>3. apply_tick(t, premium, update_trailing_stop(t, premium))' # "hold"
        BY <1>1, <3>2, SameRule
      <3> QED
        BY <3>1, <3>3 DEF Decided
    <2> QED
      BY <2>1, <2>2
  <1>3. ASSUME NEW t \in managing.todo, NEW premium \in Premiums, ManageSignal(t, premium)
        PROVE  Decided'
    <2>1. t \in DOMAIN rows
      BY DEF Typed, TasksTyped
    <2>2. CASE apply_tick(t, premium, update_trailing_stop(t, premium)) = "hold"
      BY <1>3, <2>2 DEF ManageSignal, Decided
    <2>3. CASE apply_tick(t, premium, update_trailing_stop(t, premium)) # "hold"
      <3>1. managing'.row = t /\ managing'.premium = premium
        BY <1>3, <2>3 DEF ManageSignal
      <3>2. apply_tick(t, premium, update_trailing_stop(t, premium))' # "hold"
        BY <1>1, <2>1, <2>3, SameRule
      <3> QED
        BY <3>1, <3>2 DEF Decided
    <2> QED
      BY <2>2, <2>3
  <1>4. CASE managing'.row = None
    BY <1>4 DEF Decided
  <1>5. CASE manage_tick \/ TickEnds \/ TickAborts \/ Crash
    <2>1. NotManaging.row = None /\ [NotManaging EXCEPT !.on = TRUE, !.todo = Live].row = None
      BY DEF NotManaging
    <2>2. managing'.row = None
      BY <1>5, <2>1 DEF manage_tick, TickEnds, TickAborts, Crash
    <2> QED
      BY <1>4, <2>2
  <1>6. ASSUME NEW t \in managing.todo, SkipSignal(t) PROVE Decided'
    <2>1. managing'.row = managing.row
      BY <1>6 DEF SkipSignal, Typed, TasksTyped
    <2>2. managing'.premium = managing.premium
      BY <1>6 DEF SkipSignal, Typed, TasksTyped
    <2> QED
      BY <1>2, <2>1, <2>2
  <1>7. ASSUME NEW t \in DOMAIN rows, CloseSignal(t) PROVE Decided'
    <2>1. managing'.row = None
      BY <1>7 DEF CloseSignal, Typed, TasksTyped
    <2> QED
      BY <1>4, <2>1
  <1>8. CASE ExitStep \/ ExitAborts \/ ManualStep
    BY <1>2, <1>8 DEF ExitStep, hard_exit_all, ExitSignal, ExitEnds, ExitAborts,
       ManualStep, ManualClose, ManualCloseFails, jobs
  <1>9. CASE Boot \/ TimePasses \/ NextDay \/ UNCHANGED vars
    BY <1>2, <1>9 DEF Boot, TimePasses, NextDay, vars, tasks, jobs
  <1>10. ASSUME NEW c \in Callers, auto_enter(c) \/ EntryStep(c) PROVE Decided'
    BY <1>2, <1>10, EntrySteps DEF auto_enter, jobs
  <1>11. ASSUME NEW t \in DOMAIN rows, close_fno_signal(t) PROVE Decided'
    BY <1>2, <1>11 DEF close_fno_signal, jobs
  <1> QED
    BY <1>3, <1>5, <1>6, <1>7, <1>8, <1>9, <1>10, <1>11 DEF Next, TickStep

-----------------------------------------------------------------------------
(* Status and P&L.                                                         *)

(* how far the first leg has moved                                         *)
Moved(t, premium) == (premium - rows[t].fill) * rows[t].lots

LEMMA RuleExplains ==
    ASSUME Typed, TrailBy > 0, NEW t \in DOMAIN rows, NEW premium \in Premiums,
           NEW stop, stop = update_trailing_stop(t, premium)
    PROVE  /\ apply_tick(t, premium, stop) = "closed_target" =>
                 100 * Moved(t, premium) >= 30 * Premium(t)
           /\ apply_tick(t, premium, stop) = "closed_stop" =>
                 100 * Moved(t, premium) <= -30 * Premium(t)
  <1> DEFINE f == rows[t].fill
             l == rows[t].lots
  <1>1. f \in Nat \ {0} /\ l \in Nat \ {0} /\ premium \in Nat \ {0} /\ TrailBy \in 1 .. 100
    BY RowTyped, Constants
  <1>2. Moved(t, premium) = (premium - f) * l /\ Premium(t) = f * l
    BY DEF Moved, Premium
  <1>3. apply_tick(t, premium, stop) = "closed_target" => 100 * premium >= 130 * f
    BY DEF apply_tick, Target
  <1>4. apply_tick(t, premium, stop) = "closed_stop" => 100 * premium <= stop
    BY DEF apply_tick
  <1>5. stop = (100 - TrailBy) * premium \/ stop = 70 * f
    BY DEF update_trailing_stop, Stop
  <1> HIDE DEF f, l
  <1>6. TrailBy * premium > 0
    BY <1>1
  <1>7. (100 - TrailBy) * premium = 100 * premium - TrailBy * premium
    BY <1>1
  <1>8. 100 * premium <= stop => 100 * premium <= 70 * f
    BY <1>1, <1>5, <1>6, <1>7
  <1>9. ASSUME 100 * premium >= 130 * f PROVE 100 * ((premium - f) * l) >= 30 * (f * l)
    <2>1. (100 * premium - 130 * f) * l >= 0
      BY <1>1, <1>9
    <2>2. (100 * premium - 130 * f) * l = 100 * ((premium - f) * l) - 30 * (f * l)
      BY <1>1
    <2>3. (premium - f) * l \in Int /\ f * l \in Int
      BY <1>1
    <2> QED
      BY <2>1, <2>2, <2>3
  <1>10. ASSUME 100 * premium <= 70 * f PROVE 100 * ((premium - f) * l) <= -30 * (f * l)
    <2>1. (70 * f - 100 * premium) * l >= 0
      BY <1>1, <1>10
    <2>2. (70 * f - 100 * premium) * l = -30 * (f * l) - 100 * ((premium - f) * l)
      BY <1>1
    <2>3. (premium - f) * l \in Int /\ f * l \in Int
      BY <1>1
    <2> QED
      BY <2>1, <2>2, <2>3
  <1> QED
    BY <1>2, <1>3, <1>4, <1>8, <1>9, <1>10

(* The P&L of a close records it, whichever side the leg is on.            *)
LEMMA RiseRecorded ==
    ASSUME Typed, NEW t \in DOMAIN rows, NEW premium \in Premiums,
           rows'[t].pnl = _compute_pnl(t, premium), rows'[t].side = rows[t].side
    PROVE  Rise(t)' = Moved(t, premium)
  <1> DEFINE f == rows[t].fill
             l == rows[t].lots
  <1>1. f \in Nat /\ l \in Nat /\ premium \in Nat /\ rows[t].side \in {"BUY", "SELL"}
    BY RowTyped, Constants
  <1>2. /\ rows[t].side = "BUY" => rows'[t].pnl = (premium - f) * l
        /\ rows[t].side = "SELL" => rows'[t].pnl = (f - premium) * l
    BY DEF _compute_pnl
  <1>3. Moved(t, premium) = (premium - f) * l
    BY DEF Moved
  <1>4. Rise(t)' = IF rows[t].side = "BUY" THEN rows'[t].pnl ELSE -rows'[t].pnl
    BY DEF Rise
  <1> HIDE DEF f, l
  <1>5. -((f - premium) * l) = (premium - f) * l
    BY <1>1
  <1> QED
    BY <1>1, <1>2, <1>3, <1>4, <1>5

LEMMA ExplainedStep ==
    ASSUME Typed, Decided, TrailBy > 0, StatusExplainsPnl, [Next]_vars
    PROVE  StatusExplainsPnl'
  <1>1. RowEffect
    BY RowStep
  <1>2. ASSUME NEW u \in DOMAIN rows, rows'[u].pnl = rows[u].pnl, rows'[u].status = rows[u].status
        PROVE  /\ rows'[u].status = "closed_target" => 100 * Rise(u)' >= 30 * Premium(u)'
               /\ rows'[u].status = "closed_stop" => 100 * Rise(u)' <= -30 * Premium(u)'
    <2>1. Rise(u)' = Rise(u) /\ Premium(u)' = Premium(u)
      BY <1>1, <1>2, Kept DEF Rise, Premium
    <2> QED
      BY <1>2, <2>1 DEF StatusExplainsPnl
  <1>3. CASE UNCHANGED rows
    BY <1>3 DEF StatusExplainsPnl, Rise, Premium
  <1>4. ASSUME NEW c \in Callers, NEW a \in Symbols, Enters(c, a) PROVE StatusExplainsPnl'
    <2>1. \A u \in DOMAIN rows' : u \notin DOMAIN rows => rows'[u].status = "paper_filled"
      BY <1>1, Fresh
    <2>2. \A u \in DOMAIN rows : rows'[u] = rows[u]
      BY <1>4 DEF Enters, Typed
    <2> QED
      BY <1>2, <2>1, <2>2 DEF StatusExplainsPnl
  <1>5. ASSUME NEW t \in DOMAIN rows, Marks(t) PROVE StatusExplainsPnl'
    <2>1. DOMAIN rows' = DOMAIN rows
          /\ \A u \in DOMAIN rows : rows'[u].pnl = rows[u].pnl /\ rows'[u].status = rows[u].status
      BY <1>5 DEF Marks, Rewrites
    <2> QED
      BY <1>2, <2>1 DEF StatusExplainsPnl
  <1>6. ASSUME NEW t \in DOMAIN rows, Closes(t) PROVE StatusExplainsPnl'
    <2>1. /\ DOMAIN rows' = DOMAIN rows
          /\ \A u \in DOMAIN rows : u # t => rows'[u] = rows[u]
          /\ Premium(t)' = Premium(t) /\ rows'[t].side = rows[t].side
      BY <1>6 DEF Closes, Rewrites, Premium
    <2>2. CASE ByRule(t)
      <3>1. PICK premium \in Premiums :
               /\ rows'[t].status = apply_tick(t, premium, update_trailing_stop(t, premium))
               /\ rows'[t].pnl = _compute_pnl(t, premium)
        BY <2>2 DEF ByRule
      <3>2. Rise(t)' = Moved(t, premium)
        BY <2>1, <3>1, RiseRecorded
      <3>3. /\ rows'[t].status = "closed_target" => 100 * Rise(t)' >= 30 * Premium(t)
            /\ rows'[t].status = "closed_stop" => 100 * Rise(t)' <= -30 * Premium(t)
        BY <3>1, <3>2, RuleExplains
      <3> QED
        BY <1>2, <2>1, <3>3 DEF StatusExplainsPnl
    <2>3. CASE rows'[t].status \notin {"closed_target", "closed_stop"}
      BY <1>2, <2>1, <2>3 DEF StatusExplainsPnl
    <2> QED
      BY <1>6, <2>2, <2>3 DEF Closes
  <1> QED
    BY <1>1, <1>3, <1>4, <1>5, <1>6 DEF RowEffect

(* Types; in particular a closing task only ever holds ids of rows there   *)
(* are, and the headroom an entry holds is never negative.                 *)
THEOREM WellTyped == Spec => []TypeOK
  <1>1. Typed => TypeOK
    BY DEF Typed, TasksTyped, Entering, CallerState, TypeOK
  <1> QED
    BY <1>1, TypedInit, TypedStep, DecidedStep, PTL DEF Spec

(* Whoever closes a position last, its status is explained by its P&L: the *)
(* target by a first leg that rose, a loss when the leg was sold, the stop *)
(* by one that fell (_compute_pnl and apply_tick in position_manager), as  *)
(* long as the trailing stop trails at all.                                *)
THEOREM StatusHonest ==
    ASSUME TrailBy > 0
    PROVE  Spec => []StatusExplainsPnl
  <1>1. Init => StatusExplainsPnl
    BY DEF Init, StatusExplainsPnl
  <1>2. Typed /\ Decided /\ StatusExplainsPnl /\ [Next]_vars => StatusExplainsPnl'
    BY ExplainedStep
  <1> QED
    BY <1>1, <1>2, TypedInit, TypedStep, DecidedStep, PTL DEF Spec

-----------------------------------------------------------------------------
(* One entry per symbol and day.                                           *)

OneCaller == \A c, d \in Callers : entering[c].on /\ entering[d].on => c = d

(* what the check has found still holds when the row is written            *)
Unentered ==
    \A c \in Callers : entering[c].checked =>
        \A t \in DOMAIN rows : rows[t].day = day => rows[t].symbol \notin entering[c].at

EnteredInv == ~overlapped => OneEntryADay /\ OneCaller /\ Unentered

LEMMA OverlapStays ==
    ASSUME Typed, [Next]_vars, overlapped
    PROVE  overlapped'
  <1>1. ASSUME NEW c \in Callers, auto_enter(c) \/ EntryStep(c) PROVE overlapped'
    BY <1>1, EntrySteps DEF auto_enter
  <1>2. CASE TickStep \/ TickAborts \/ ExitStep \/ ExitAborts \/ ManualStep
    BY <1>2 DEF TickStep, manage_tick, SkipSignal, ManageSignal, CloseSignal, TickEnds, TickAborts,
       ExitStep, hard_exit_all, ExitSignal, ExitEnds, ExitAborts,
       ManualStep, ManualClose, ManualCloseFails
  <1>3. CASE Boot \/ Crash \/ TimePasses \/ NextDay \/ UNCHANGED vars
    BY <1>3 DEF Boot, Crash, TimePasses, NextDay, vars
  <1>4. ASSUME NEW t \in DOMAIN rows, close_fno_signal(t) PROVE overlapped'
    BY <1>4 DEF close_fno_signal
  <1> QED
    BY <1>1, <1>2, <1>3, <1>4 DEF Next

LEMMA StillOneADay ==
    ASSUME Typed, RowEffect, OneEntryADay, Unentered
    PROVE  OneEntryADay'
  <1>1. ASSUME NEW t \in DOMAIN rows, NEW u \in DOMAIN rows', u \notin DOMAIN rows
        PROVE  rows'[t].day # rows'[u].day \/ rows'[t].symbol # rows'[u].symbol
    <2>1. PICK c \in Callers, a \in Symbols :
             /\ entering[c].at = {a} /\ entering[c].checked
             /\ rows'[u].symbol = a /\ rows'[u].day = day
      BY <1>1, Fresh DEF Enters
    <2>2. rows'[t].symbol = rows[t].symbol /\ rows'[t].day = rows[t].day
      BY Kept
    <2> QED
      BY <2>1, <2>2 DEF Unentered
  <1>2. ASSUME NEW t \in DOMAIN rows', NEW u \in DOMAIN rows', t \notin DOMAIN rows,
               u \notin DOMAIN rows
        PROVE  t = u
    BY <1>2, Fresh
  <1>3. \A t \in DOMAIN rows : rows'[t].symbol = rows[t].symbol /\ rows'[t].day = rows[t].day
    BY Kept
  <1> QED
    BY <1>1, <1>2, <1>3 DEF OneEntryADay

LEMMA EnteredStep ==
    ASSUME Typed, Decided, EnteredInv, [Next]_vars
    PROVE  EnteredInv'
  <1> SUFFICES ASSUME ~overlapped' PROVE (OneEntryADay /\ OneCaller /\ Unentered)'
    BY DEF EnteredInv
  <1>1. OneEntryADay /\ OneCaller /\ Unentered /\ RowEffect
    BY OverlapStays, RowStep DEF EnteredInv
  <1>2. OneEntryADay'
    BY <1>1, StillOneADay
  <1>3. \A c \in Callers : /\ entering[c].on \in BOOLEAN /\ entering[c].checked \in BOOLEAN
                           /\ entering[c].checked => entering[c].on
    BY DEF Typed, TasksTyped, Entering, CallerState
  <1>4. ASSUME NEW c \in Callers, EntryStep(c) PROVE (OneCaller /\ Unentered)'
    <2>1. EntryEffect(c) /\ day' = day
      BY <1>4, EntrySteps DEF clock
    <2>2. \A d \in Callers : d # c => ~entering'[d].on /\ ~entering'[d].checked
      BY <1>1, <1>3, <2>1 DEF EntryEffect, OneCaller
    <2>3. OneCaller'
      BY <2>2 DEF OneCaller
    <2>4. entering'[c].checked =>
            \A t \in DOMAIN rows' : rows'[t].day = day => rows'[t].symbol \notin entering'[c].at
      BY <2>1 DEF EntryEffect
    <2> QED
      BY <2>1, <2>2, <2>3, <2>4 DEF Unentered
  <1>5. ASSUME \A u \in DOMAIN rows' : u \in DOMAIN rows PROVE (OneCaller /\ Unentered)'
    <2>1. \A u \in DOMAIN rows' : rows'[u].symbol = rows[u].symbol /\ rows'[u].day = rows[u].day
      BY <1>1, <1>5, Kept
    <2>2. ASSUME NEW c \in Callers, auto_enter(c) PROVE (OneCaller /\ Unentered)'
      <3>1. \A d \in Callers : ~entering[d].on
        BY <2>2 DEF auto_enter
      <3>2. \A d \in Callers : d # c => ~entering'[d].on /\ ~entering'[d].checked
        BY <1>3, <2>2, <3>1, CallTyped
      <3>3. entering'[c].checked = FALSE
        BY <2>2, CallTyped
      <3> QED
        BY <3>2, <3>3 DEF OneCaller, Unentered
    <2>3. CASE Crash
      <3>1. \A c \in Callers : entering'[c].on = FALSE /\ entering'[c].checked = FALSE
        BY <2>3 DEF Crash, NotEntering
      <3> QED
        BY <3>1 DEF OneCaller, Unentered
    <2>4. CASE NextDay
      <3>1. entering' = entering /\ \A c \in Callers : ~entering[c].on
        BY <2>4 DEF NextDay, Quiet
      <3> QED
        BY <1>3, <3>1 DEF OneCaller, Unentered
    <2>5. CASE UNCHANGED <<entering, day>>
      BY <1>1, <1>5, <2>1, <2>5 DEF OneCaller, Unentered
    <2>6. CASE TickStep \/ TickAborts \/ ExitStep \/ ExitAborts \/ ManualStep
      BY <2>5, <2>6 DEF TickStep, manage_tick, SkipSignal, ManageSignal, CloseSignal, TickEnds,
         TickAborts, ExitStep, hard_exit_all, ExitSignal, ExitEnds, ExitAborts,
         ManualStep, ManualClose, ManualCloseFails, clock
    <2>7. CASE Boot \/ TimePasses \/ UNCHANGED vars
      BY <2>5, <2>7 DEF Boot, TimePasses, vars, clock, tasks
    <2>8. ASSUME NEW t \in DOMAIN rows, close_fno_signal(t) PROVE UNCHANGED <<entering, day>>
      BY <2>8 DEF close_fno_signal, clock
    <2> QED
      BY <1>4, <2>2, <2>3, <2>4, <2>5, <2>6, <2>7, <2>8 DEF Next
  <1>6. ASSUME NEW u \in DOMAIN rows', u \notin DOMAIN rows
        PROVE  \E c \in Callers : EntryStep(c)
    BY <1>1, <1>6, Fresh DEF Enters
  <1> QED
    BY <1>2, <1>4, <1>5, <1>6

(* As long as no two runs of auto_enter overlap, no symbol is entered twice *)
(* on a day: what a run has checked nobody else can change before it writes. *)
THEOREM SingleEntry == Spec => []EnteredOnce
  <1>1. Init => EnteredInv
    BY DEF Init, EnteredInv, OneEntryADay, OneCaller, Unentered, NotEntering
  <1>2. EnteredInv => EnteredOnce
    BY DEF EnteredInv, EnteredOnce
  <1> QED
    BY <1>1, <1>2, TypedInit, TypedStep, DecidedStep, EnteredStep, PTL DEF Spec

-----------------------------------------------------------------------------
(* The premium of a day.  The headroom a run of auto_enter holds for the   *)
(* symbol at hand is still there when the row is written.                  *)

HeadroomHeld ==
    \A c \in Callers :
        entering[c].at # {} => Deployed(rows, day) + entering[c].headroom <= Cap

WithinCap == \A d \in 1 .. MaxDays : Deployed(rows, d) <= Cap

BudgetInv == ~overlapped => WithinCap /\ OneCaller /\ HeadroomHeld

(* What a step of auto_enter leaves at hand: nothing, a symbol with the    *)
(* headroom just read, or the symbol and the headroom it had.              *)
LEMMA HeadroomStep ==
    ASSUME Typed, NEW c \in Callers, EntryStep(c)
    PROVE  \/ entering'[c].at = {}
           \/ /\ UNCHANGED rows
              /\ entering'[c].headroom = Cap - Deployed(rows, day)
           \/ /\ UNCHANGED rows
              /\ entering'[c].at = entering[c].at
              /\ entering'[c].headroom = entering[c].headroom
  <1>1. entering = [d \in Callers |-> entering[d]] /\ entering[c] \in CallerState
    BY DEF Typed, TasksTyped, Entering
  <1>2. Leave(c) => entering'[c].at = {}
    BY <1>1 DEF Leave, NotEntering
  <1>3. ASSUME NEW a \in Symbols, ReadHeadroom(c, a)
        PROVE  \/ entering'[c].at = {}
               \/ /\ UNCHANGED rows
                  /\ entering'[c].headroom = Cap - Deployed(rows, day)
    <2>1. PICK left : left = Cap - fno_premium_deployed_today
      OBVIOUS
    <2>2. UNCHANGED rows
          /\ entering'[c] = [NotEntering EXCEPT
                 !.on = TRUE, !.todo = entering[c].todo \ {a},
                 !.at = IF left > 0 THEN {a} ELSE {},
                 !.headroom = IF left > 0 THEN left ELSE 0]
      BY <1>1, <1>3, <2>1 DEF ReadHeadroom
    <2>3. /\ entering'[c].at = IF left > 0 THEN {a} ELSE {}
          /\ entering'[c].headroom = IF left > 0 THEN left ELSE 0
      BY <2>2 DEF NotEntering
    <2> QED
      BY <2>1, <2>2, <2>3, DeployedToday
  <1>4. ASSUME NEW a \in Symbols, CheckEntered(c, a), ~Leave(c)
        PROVE  /\ UNCHANGED rows
               /\ entering'[c].at = entering[c].at
               /\ entering'[c].headroom = entering[c].headroom
    <2>1. entering' = [entering EXCEPT ![c] = [@ EXCEPT !.checked = TRUE]] /\ UNCHANGED rows
      BY <1>4 DEF CheckEntered
    <2> QED
      BY <1>1, <2>1 DEF CallerState
  <1>5. EntryEnds(c) => entering'[c].at = {}
    BY <1>1 DEF EntryEnds, NotEntering
  <1> QED
    BY <1>2, <1>3, <1>4, <1>5 DEF EntryStep, NoFill, _enter_one

(* What the rows deploy changes only by an entry, which the headroom of    *)
(* the caller covers.                                                      *)
LEMMA DeployedStep ==
    ASSUME Typed, RowEffect, NEW d
    PROVE  \/ Deployed(rows', d) = Deployed(rows, d)
           \/ /\ d = day
              /\ \E c \in Callers : /\ EntryStep(c) /\ entering[c].at # {}
                                    /\ Deployed(rows', d)
                                         <= Deployed(rows, d) + entering[c].headroom
  <1>1. rows \in Seq(Signals)
    BY DEF Typed
  <1>2. CASE UNCHANGED rows
    BY <1>2
  <1>3. CASE \E t \in DOMAIN rows : Closes(t) \/ Marks(t)
    <2>1. /\ DOMAIN rows' = DOMAIN rows
          /\ \A u \in DOMAIN rows :
                rows'[u].day = rows[u].day /\ rows'[u].net = rows[u].net
      BY <1>3 DEF Closes, Marks, Rewrites
    <2> QED
      BY <2>1, DeployedKept
  <1>4. ASSUME NEW c \in Callers, NEW a \in Symbols, Enters(c, a)
        PROVE  \/ Deployed(rows', d) = Deployed(rows, d)
               \/ /\ d = day
                  /\ EntryStep(c) /\ entering[c].at # {}
                  /\ Deployed(rows', d) <= Deployed(rows, d) + entering[c].headroom
    <2>1. PICK x \in Signals : /\ rows' = Append(rows, x) /\ x.day = day
                               /\ x.net <= entering[c].headroom
      BY <1>4 DEF Enters
    <2>2. EntryStep(c) /\ entering[c].at # {}
      BY <1>4 DEF Enters
    <2>3. Deployed(rows', d)
            = Deployed(rows, d) + (IF x.day = d THEN x.net ELSE 0)
      BY <1>1, <2>1, DeployedMore
    <2>4. Deployed(rows, d) \in Int
      BY <1>1, DeployedInt
    <2>5. x.net \in Int
      BY RowFields
    <2>6. entering[c].headroom \in Nat
      BY FnoAssumption DEF Typed, TasksTyped, Entering, CallerState
    <2> QED
      BY <2>1, <2>2, <2>3, <2>4, <2>5, <2>6
  <1> QED
    BY <1>2, <1>3, <1>4 DEF RowEffect

LEMMA BudgetStep ==
    ASSUME Typed, Decided, BudgetInv, [Next]_vars
    PROVE  BudgetInv'
  <1> SUFFICES ASSUME ~overlapped' PROVE (WithinCap /\ OneCaller /\ HeadroomHeld)'
    BY DEF BudgetInv
  <1>1. WithinCap /\ OneCaller /\ HeadroomHeld /\ RowEffect
    BY OverlapStays, RowStep DEF BudgetInv
  <1>2. /\ \A d : Deployed(rows, d) \in Int /\ Deployed(rows', d) \in Int
        /\ \A c \in Callers : entering[c].headroom \in Nat
        /\ Cap \in Nat
        /\ day \in 1 .. MaxDays
    <2>1. rows \in Seq(Signals) /\ rows' \in Seq(Signals)
      BY <1>1, Kept DEF Typed
    <2> QED
      BY <2>1, DeployedInt, FnoAssumption DEF Typed, TasksTyped, Entering, CallerState
  <1>3. WithinCap'
    <2> SUFFICES ASSUME NEW d \in 1 .. MaxDays PROVE Deployed(rows', d) <= Cap
      BY DEF WithinCap
    <2>1. CASE Deployed(rows', d) = Deployed(rows, d)
      BY <1>1, <2>1 DEF WithinCap
    <2>2. ASSUME d = day, NEW c \in Callers, entering[c].at # {},
                 Deployed(rows', d) <= Deployed(rows, d) + entering[c].headroom
          PROVE  Deployed(rows', d) <= Cap
      BY <1>1, <1>2, <2>2 DEF HeadroomHeld
    <2> QED
      BY <1>1, <2>1, <2>2, DeployedStep
  <1>4. \A c \in Callers : /\ entering[c].on \in BOOLEAN
                           /\ entering[c].at # {} => entering[c].on
    BY DEF Typed, TasksTyped, Entering, CallerState
  <1>5. ASSUME NEW c \in Callers, EntryStep(c) PROVE (OneCaller /\ HeadroomHeld)'
    <2>1. EntryEffect(c) /\ day' = day
      BY <1>5, EntrySteps DEF clock
    <2>2. \A d \in Callers : d # c => ~entering'[d].on /\ entering'[d].at = {}
      BY <1>1, <1>4, <2>1 DEF EntryEffect, OneCaller
    <2>3. entering'[c].at # {} => Deployed(rows', day) + entering'[c].headroom <= Cap
      BY <1>1, <1>2, <1>5, HeadroomStep DEF HeadroomHeld
    <2> QED
      BY <2>1, <2>2, <2>3 DEF OneCaller, HeadroomHeld
  <1>6. ASSUME \A c \in Callers : ~EntryStep(c) PROVE (OneCaller /\ HeadroomHeld)'
    <2>1. \A d : Deployed(rows', d) = Deployed(rows, d)
      BY <1>1, <1>6, DeployedStep
    <2>2. ASSUME NEW c \in Callers, auto_enter(c) PROVE (OneCaller /\ HeadroomHeld)'
      <3>1. \A d \in Callers : ~entering[d].on
        BY <2>2 DEF auto_enter
      <3>2. \A d \in Callers : d # c => ~entering'[d].on /\ entering'[d].at = {}
        BY <1>4, <2>2, <3>1, CallTyped
      <3>3. entering'[c].at = {}
        BY <2>2 DEF auto_enter, NotEntering, Typed, TasksTyped
      <3> QED
        BY <3>2, <3>3 DEF OneCaller, HeadroomHeld
    <2>3. CASE Crash
      <3>1. \A c \in Callers : entering'[c].on = FALSE /\ entering'[c].at = {}
        BY <2>3 DEF Crash, NotEntering
      <3> QED
        BY <3>1 DEF OneCaller, HeadroomHeld
    <2>4. CASE NextDay
      <3>1. entering' = entering /\ \A c \in Callers : ~entering[c].on
        BY <2>4 DEF NextDay, Quiet
      <3> QED
        BY <1>4, <3>1 DEF OneCaller, HeadroomHeld
    <2>5. CASE UNCHANGED <<entering, day>>
      BY <1>1, <2>1, <2>5 DEF OneCaller, HeadroomHeld
    <2>6. CASE TickStep \/ TickAborts \/ ExitStep \/ ExitAborts \/ ManualStep
      BY <2>5, <2>6 DEF TickStep, manage_tick, SkipSignal, ManageSignal, CloseSignal, TickEnds,
         TickAborts, ExitStep, hard_exit_all, ExitSignal, ExitEnds, ExitAborts,
         ManualStep, ManualClose, ManualCloseFails, clock
    <2>7. CASE Boot \/ TimePasses \/ UNCHANGED vars
      BY <2>5, <2>7 DEF Boot, TimePasses, vars, clock, tasks
    <2>8. ASSUME NEW t \in DOMAIN rows, close_fno_signal(t) PROVE UNCHANGED <<entering, day>>
      BY <2>8 DEF close_fno_signal, clock
    <2> QED
      BY <1>6, <2>2, <2>3, <2>4, <2>5, <2>6, <2>7, <2>8 DEF Next
  <1> QED
    BY <1>3, <1>5, <1>6

LEMMA BudgetInit == Init => BudgetInv
  <1> SUFFICES ASSUME Init PROVE WithinCap /\ OneCaller /\ HeadroomHeld
    BY DEF BudgetInv
  <1>1. OneCaller /\ HeadroomHeld
    BY DEF Init, OneCaller, HeadroomHeld, NotEntering
  <1>2. ASSUME NEW d PROVE Deployed(rows, d) = 0
    <2>1. RowsOf(rows, d) = {}
      BY DEF RowsOf, Init
    <2> QED
      BY <2>1, SumEmpty DEF Deployed, SumFunction
  <1> QED
    BY <1>1, <1>2, FnoAssumption DEF WithinCap

(* As long as no two runs of auto_enter overlap, the premium a day deploys *)
(* stays within the cap of the bucket, at every premium and for every      *)
(* number of entries (entry_executor, _enter_one and                       *)
(* fno_premium_deployed_today).                                            *)
THEOREM CapHolds == Spec => []BudgetRespected
  <1>1. BudgetInv => BudgetRespected
    BY DEF BudgetInv, WithinCap, BudgetRespected, Deployed, RowsOf, Cost
  <1> QED
    BY <1>1, BudgetInit, BudgetStep, TypedInit, TypedStep, DecidedStep, PTL DEF Spec

-----------------------------------------------------------------------------
(* The hard exit.                                                          *)

(* entered after the hard exit has started                                 *)
Late(t) == rows[t].day = day /\ rows[t].late

SweepInv ==
    /\ "exit" \in due \/ exiting.on \/ exiting.done => now >= HardExit
    /\ exiting.on => \A t \in Live : t \in exiting.todo \/ Late(t)
    /\ HardExitSweeps

(* Every open position was open before or is entered now.                  *)
LEMMA LiveStep ==
    ASSUME Typed, RowEffect, NEW t \in Live'
    PROVE  \/ t \in Live /\ rows'[t].day = rows[t].day /\ rows'[t].late = rows[t].late
           \/ rows'[t].day = day /\ rows'[t].late = (now >= HardExit)
  <1>1. t \in DOMAIN rows' /\ rows'[t].status = "paper_filled"
    BY DEF Live, IsLive
  <1>2. CASE t \in DOMAIN rows
    <2>1. "paper_filled" \notin Closed
      BY DEF Closed
    <2> QED
      BY <1>1, <1>2, <2>1, Kept DEF Live, IsLive
  <1>3. CASE t \notin DOMAIN rows
    BY <1>1, <1>3, Fresh
  <1> QED
    BY <1>2, <1>3

LEMMA SweepStep ==
    ASSUME Typed, Decided, SweepInv, [Next]_vars
    PROVE  SweepInv'
  <1>1. RowEffect
    BY RowStep
  <1>2. /\ now \in Nat /\ HardExit \in Nat \ {0}
        /\ exiting \in [on : BOOLEAN, todo : SUBSET DOMAIN rows, done : BOOLEAN]
    BY Constants DEF Typed, TasksTyped
  \* what leaves the clock and the hard exit alone
  <1>3. ASSUME UNCHANGED <<day, now, exiting>>, due' \subseteq due PROVE SweepInv'
    <2>1. exiting.on => \A t \in Live' : t \in exiting.todo \/ Late(t)'
      BY <1>1, <1>3, LiveStep DEF SweepInv, Late
    <2>2. exiting.done => \A t \in Live' : Late(t)'
      BY <1>1, <1>3, LiveStep DEF SweepInv, HardExitSweeps, Late
    <2> QED
      BY <1>3, <2>1, <2>2 DEF SweepInv, HardExitSweeps, Late
  <1>4. ASSUME exiting' = NotExiting, "exit" \in due' => now' >= HardExit PROVE SweepInv'
    BY <1>4 DEF SweepInv, HardExitSweeps, NotExiting
  <1>5. CASE TimePasses
    <2>1. /\ now' = now + 1 /\ UNCHANGED <<rows, day, exiting>> /\ exiting.on = FALSE
          /\ due' \subseteq JobsAt(now + 1)
      BY <1>2, <1>5 DEF TimePasses, Quiet, jobs
    <2>2. "exit" \in JobsAt(now + 1) => now + 1 = HardExit
      BY DEF JobsAt
    <2> QED
      BY <1>2, <2>1, <2>2 DEF SweepInv, HardExitSweeps, Live, IsLive
  <1>6. CASE NextDay
    BY <1>4, <1>6 DEF NextDay, Quiet
  <1>7. CASE Crash
    BY <1>4, <1>7 DEF Crash
  <1>8. CASE ExitAborts
    BY <1>4, <1>8 DEF ExitAborts, clock, SweepInv
  <1>9. CASE hard_exit_all
    <2>1. /\ now >= HardExit /\ UNCHANGED <<rows, day, now>>
          /\ exiting' = [on |-> TRUE, todo |-> Live, done |-> FALSE]
      BY <1>9 DEF hard_exit_all, SweepInv, clock, NotExiting, SignalsToExit
    <2> QED
      BY <2>1 DEF SweepInv, HardExitSweeps, Live, IsLive
  <1>10. ASSUME NEW t \in exiting.todo, NEW exit \in Premiums, ExitSignal(t, exit) PROVE SweepInv'
    <2>1. t \in DOMAIN rows
      BY <1>2
    <2>2. exit \in Nat /\ rows[t].stop \in Int /\ "closed_time" \in Closed
      BY <2>1, RowTyped, Constants DEF Closed
    <2>3. Rewrites(t) /\ rows'[t].status = "closed_time"
      BY <1>10, <2>1, <2>2, CloseEffect DEF ExitSignal
    <2>4. Live' = Live \ {t} /\ \A u \in Live' : rows'[u] = rows[u]
      BY <2>3 DEF Rewrites, Live, IsLive
    <2>5. /\ exiting.on /\ UNCHANGED <<day, now, due>>
          /\ exiting'.on = exiting.on /\ exiting'.todo = exiting.todo \ {t}
          /\ exiting'.done = exiting.done
      BY <1>2, <1>10 DEF ExitSignal, clock
    <2> QED
      BY <2>4, <2>5 DEF SweepInv, HardExitSweeps, Late
  <1>11. CASE ExitEnds
    <2>1. /\ exiting.on /\ exiting.todo = {} /\ UNCHANGED <<rows, day, now, due>>
          /\ exiting' = [on |-> FALSE, todo |-> {}, done |-> TRUE]
      BY <1>11 DEF ExitEnds, clock, NotExiting
    <2> QED
      BY <2>1 DEF SweepInv, HardExitSweeps, Live, IsLive, Late
  <1>12. CASE TickStep \/ TickAborts \/ ManualStep
    BY <1>3, <1>12 DEF TickStep, manage_tick, SkipSignal, ManageSignal, CloseSignal, TickEnds,
       TickAborts, ManualStep, ManualClose, ManualCloseFails, clock, jobs
  <1>13. CASE Boot \/ UNCHANGED vars
    BY <1>3, <1>13 DEF Boot, vars, clock, tasks, jobs
  <1>14. ASSUME NEW c \in Callers, auto_enter(c) \/ EntryStep(c) PROVE SweepInv'
    BY <1>3, <1>14, EntrySteps DEF auto_enter, Called, clock, jobs
  <1>15. ASSUME NEW t \in DOMAIN rows, close_fno_signal(t) PROVE SweepInv'
    BY <1>3, <1>15 DEF close_fno_signal, clock, jobs
  <1> QED
    BY <1>5, <1>6, <1>7, <1>8, <1>9, <1>10, <1>11, <1>12, <1>13, <1>14, <1>15
    DEF Next, ExitStep

(* When the hard exit has ended, only what was entered after it is open,   *)
(* on every day and whoever else opens and closes meanwhile.               *)
THEOREM SweepsAll == Spec => []HardExitSweeps
  <1>1. Init => SweepInv
    BY DEF Init, SweepInv, HardExitSweeps, NotExiting
  <1>2. SweepInv => HardExitSweeps
    BY DEF SweepInv
  <1> QED
    BY <1>1, <1>2, TypedInit, TypedStep, DecidedStep, SweepStep, PTL DEF Spec

-----------------------------------------------------------------------------
(* The trailing stop.                                                      *)

LEMMA FaultsStay ==
    ASSUME Typed, [Next]_vars
    PROVE  faults' \in {faults, faults + 1}
  <1>1. CASE Crash \/ TickAborts \/ ExitAborts
    BY <1>1 DEF Crash, TickAborts, ExitAborts, Fault
  <1>2. ASSUME NEW c \in Callers, auto_enter(c) \/ EntryStep(c) PROVE faults' = faults
    BY <1>2, EntrySteps DEF auto_enter
  <1>3. CASE TickStep \/ ExitStep \/ ManualStep
    BY <1>3 DEF TickStep, manage_tick, SkipSignal, ManageSignal, CloseSignal, TickEnds,
       ExitStep, hard_exit_all, ExitSignal, ExitEnds, ManualStep, ManualClose, ManualCloseFails
  <1>4. CASE Boot \/ TimePasses \/ NextDay \/ UNCHANGED vars
    BY <1>4 DEF Boot, TimePasses, NextDay, vars
  <1>5. ASSUME NEW t \in DOMAIN rows, close_fno_signal(t) PROVE faults' = faults
    BY <1>5 DEF close_fno_signal
  <1> QED
    BY <1>1, <1>2, <1>3, <1>4, <1>5 DEF Next

(* Without a fault the tick lets go of a position only by closing it.      *)
LEMMA TickEffect ==
    ASSUME Typed, Decided, [Next]_vars, faults' = 0
    PROVE  managing.row \in {None, managing'.row} \/ managing.row \notin Live'
  <1>1. faults \in Nat
    BY DEF Typed
  <1>2. CASE Crash \/ TickAborts
    BY <1>1, <1>2 DEF Crash, TickAborts, Fault
  <1>3. CASE manage_tick \/ TickEnds
    BY <1>3 DEF manage_tick, TickEnds, Typed, TasksTyped
  <1>4. ASSUME NEW t \in managing.todo, NEW premium \in Premiums,
               SkipSignal(t) \/ ManageSignal(t, premium)
        PROVE  managing.row = None
    BY <1>4 DEF SkipSignal, ManageSignal, Turn
  <1>5. ASSUME NEW t \in managing.todo, SkipSignal(t) PROVE managing.row = None
    BY <1>5 DEF SkipSignal, Turn
  <1>6. ASSUME NEW t \in DOMAIN rows, CloseSignal(t) PROVE managing.row \notin Live'
    <2> DEFINE premium == managing.premium
               stop == update_trailing_stop(t, premium)
               status == apply_tick(t, premium, stop)
    <2>1. t = managing.row /\ _close_signal(t, status, premium, stop) /\ t # None
      BY <1>6 DEF CloseSignal, Typed, None
    <2>2. premium \in Premiums /\ premium \in Nat
      BY <2>1, Constants DEF Typed, TasksTyped
    <2>3. stop \in Int
      BY <2>2, StopTyped
    <2>4. status # "hold"
      BY <2>1 DEF Decided
    <2>5. status \in {"closed_stop", "closed_target"}
      BY <2>4, RuleClosed
    <2>6. rows'[t].status \in {"closed_stop", "closed_target"}
      <3> HIDE DEF premium, stop, status
      <3>1. status \in Closed
        BY <2>5 DEF Closed
      <3> QED
        BY <2>1, <2>2, <2>3, <2>5, <3>1, CloseEffect
    <2> QED
      BY <2>1, <2>6 DEF Live, IsLive
  <1>7. CASE UNCHANGED managing
    BY <1>7
  <1>8. CASE ExitStep \/ ExitAborts \/ ManualStep
    BY <1>8 DEF ExitStep, hard_exit_all, ExitSignal, ExitEnds, ExitAborts,
       ManualStep, ManualClose, ManualCloseFails, jobs
  <1>9. CASE Boot \/ TimePasses \/ NextDay \/ UNCHANGED vars
    BY <1>9 DEF Boot, TimePasses, NextDay, vars, tasks, jobs
  <1>10. ASSUME NEW c \in Callers, auto_enter(c) \/ EntryStep(c) PROVE UNCHANGED managing
    BY <1>10, EntrySteps DEF auto_enter, jobs
  <1>11. ASSUME NEW t \in DOMAIN rows, close_fno_signal(t) PROVE UNCHANGED managing
    BY <1>11 DEF close_fno_signal, jobs
  <1> QED
    BY <1>2, <1>3, <1>4, <1>5, <1>6, <1>7, <1>8, <1>9, <1>10, <1>11 DEF Next, TickStep

LEMMA TrailStep ==
    ASSUME Typed, Decided, TrailingOnlyAtTarget, [Next]_vars
    PROVE  TrailingOnlyAtTarget'
  <1> SUFFICES ASSUME ScaleOut >= 30, faults' = 0, NEW t \in Live'
               PROVE  rows'[t].stop = 70 * Cost(t)' \/ managing'.row = t
    BY DEF TrailingOnlyAtTarget
  <1>1. RowEffect /\ faults = 0
    BY RowStep, FaultsStay DEF Typed
  <1>2. t \in DOMAIN rows' /\ rows'[t].status = "paper_filled"
    BY DEF Live, IsLive
  <1>3. CASE t \notin DOMAIN rows
    <2>1. rows'[t].stop = 70 * rows'[t].net
      BY <1>1, <1>2, <1>3, Fresh
    <2> QED
      BY <2>1 DEF Cost
  <1>4. CASE t \in DOMAIN rows
    <2>1. /\ rows'[t].status \notin Closed
          /\ rows'[t].net = rows[t].net
          /\ t \in Live
      BY <1>1, <1>2, <1>4, Kept DEF Closed, Live, IsLive
    <2>2. rows'[t].stop = rows[t].stop \/ managing'.row = t
      <3>1. CASE UNCHANGED rows
        BY <3>1
      <3>2. ASSUME NEW c \in Callers, NEW a \in Symbols, Enters(c, a) PROVE rows'[t] = rows[t]
        BY <1>4, <3>2 DEF Enters, Typed
      <3>3. ASSUME NEW u \in DOMAIN rows, Closes(u) \/ Marks(u)
            PROVE  rows'[t] = rows[t] \/ managing'.row = t
        BY <1>4, <2>1, <3>3 DEF Closes, Marks, Rewrites
      <3> QED
        BY <1>1, <3>1, <3>2, <3>3 DEF RowEffect
    <2>3. rows[t].stop = 70 * Cost(t) \/ managing.row = t
      BY <1>1, <2>1 DEF TrailingOnlyAtTarget
    <2>4. t # None
      BY <1>4 DEF Typed, None
    <2>5. managing.row = t => managing'.row = t
      BY <2>4, TickEffect
    <2> QED
      BY <2>1, <2>2, <2>3, <2>5 DEF Cost
  <1> QED
    BY <1>3, <1>4

(* With the scale-out gain at the target or above, the trailing stop never *)
(* protects a position: the tick that writes it closes the position.       *)
THEOREM TrailsInVain == Spec => []TrailingOnlyAtTarget
  <1>1. Init => TrailingOnlyAtTarget
    BY DEF Init, TrailingOnlyAtTarget, Live
  <1> QED
    BY <1>1, TypedInit, TypedStep, DecidedStep, TrailStep, PTL DEF Spec

=============================================================================
