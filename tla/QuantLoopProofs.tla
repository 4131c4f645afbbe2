--------------------------- MODULE QuantLoopProofs ---------------------------
(* Theorems of QuantLoop, for every universe, premium, limit, clock and    *)
(* bound, as long as no boot with the resume date comes before the cron    *)
(* job of its day: then two loops would run, which the run quant_resume    *)
(* shows to go wrong.                                                      *)
EXTENDS QuantLoop, SumTheorems

Row == [status : {"open"}, entry : Entries]
         \cup [status : {"closed"}, entry : Entries, exit : Exits]

Labels == Live \cup Ending \cup {"off", "ended"}

Typed ==
    /\ rows \in Seq(Row)
    /\ day \in 1 .. MaxDays /\ now \in 0 .. HardExit /\ faults \in Nat
    /\ up \in BOOLEAN /\ due \subseteq Loops
    /\ pc \in [Loops -> Labels]
    /\ universe \in [Loops -> SUBSET Symbols]
    /\ boot \in [Loops -> SUBSET Symbols]
    /\ evidence \in [Loops -> [Symbols -> SUBSET Nat]]
    /\ saved \in [Symbols -> SUBSET Nat]
    /\ quotes \in [Loops -> [Symbols -> Quotes \cup {Blank, NoBundle}]]
    /\ open \in [Loops -> SUBSET DOMAIN rows]
    /\ todo \in [Loops -> SUBSET DOMAIN rows]
    /\ dayRow = [d \in 1 .. MaxDays |-> dayRow[d]]

-----------------------------------------------------------------------------
(* The rows.                                                               *)

LEMMA Constants ==
    /\ \A u \in Universes : u \subseteq Symbols
    /\ Quotes \subseteq Nat \ {0} /\ Stub \in Nat \ {0}
    /\ HardExit \in Nat \ {0} /\ MaxDays \in Nat \ {0}
    /\ MaxConcurrent \in Nat \ {0} /\ MaxLots \in Nat \ {0}
    /\ \A r \in ResumeAt : r \in Nat /\ r < HardExit
  BY QuantAssumption

LEMMA RowFields ==
    ASSUME NEW r \in Row
    PROVE  /\ r.entry \in Entries /\ r.status \in {"open", "closed"}
           /\ r.entry.arm \in Symbols /\ r.entry.day \in 1 .. MaxDays
           /\ r.entry.premium \in Quotes \cup {Stub}
           /\ r.status = "open" => r = [status |-> "open", entry |-> r.entry]
  BY DEF Row, Entries

LEMMA RowTyped ==
    ASSUME Typed, NEW t \in DOMAIN rows
    PROVE  /\ rows[t] \in Row /\ t \in Nat
           /\ rows[t].entry \in Entries /\ rows[t].status \in {"open", "closed"}
           /\ Arm(t) \in Symbols /\ rows[t].entry.day \in 1 .. MaxDays
           /\ rows[t].entry.premium \in Quotes \cup {Stub}
  <1>1. rows[t] \in Row /\ t \in Nat
    BY DEF Typed
  <1> QED
    BY <1>1, RowFields DEF Arm

LEMMA PremiumTyped ==
    ASSUME Typed, NEW l \in Loops, NEW t \in DOMAIN rows
    PROVE  _get_premium_from_bundle(l, t) \in Quotes \cup {Stub}
  <1>1. Arm(t) \in Symbols /\ rows[t].entry.premium \in Quotes \cup {Stub}
    BY RowTyped
  <1>2. quotes[l][Arm(t)] \in Quotes \cup {Blank, NoBundle}
    BY <1>1 DEF Typed
  <1> QED
    BY <1>1, <1>2 DEF _get_premium_from_bundle, Quoted

(* A close changes one row, and of it the status and the exit.             *)
ClosesRow(t) ==
    /\ t \in DOMAIN rows
    /\ rows' \in Seq(Row) /\ DOMAIN rows' = DOMAIN rows
    /\ \A u \in DOMAIN rows : u # t => rows'[u] = rows[u]
    /\ rows'[t].entry = rows[t].entry /\ rows'[t].status = "closed"
    /\ \E x \in Exits :
          rows' = [rows EXCEPT ![t] = [status |-> "closed", entry |-> @.entry, exit |-> x]]

OpensRow(l) ==
    \E r \in Row :
        /\ rows' = Append(rows, r) /\ rows' \in Seq(Row)
        /\ r.status = "open" /\ r.entry.day = day /\ r.entry.arm \in universe[l]
        /\ r = [status |-> "open", entry |-> r.entry]

LEMMA CloseEffect ==
    ASSUME Typed, NEW t \in DOMAIN rows, NEW premium \in Quotes \cup {Stub},
           NEW reason \in {"exit", "time_stop"}, close_trade(t, premium, reason)
    PROVE  ClosesRow(t)
  <1>1. rows \in Seq(Row) /\ rows[t].entry \in Entries /\ t \in 1 .. Len(rows)
    BY RowTyped DEF Typed
  <1>2. PICK x : /\ x = [status |-> "closed", entry |-> rows[t].entry,
                         exit |-> [premium |-> premium, reason |-> reason]]
                 /\ rows' = [rows EXCEPT ![t] = x]
    BY DEF close_trade
  <1>3. x \in Row /\ x.entry = rows[t].entry /\ x.status = "closed"
    BY <1>1, <1>2 DEF Row, Exits
  <1>4. rows' \in Seq(Row) /\ DOMAIN rows' = DOMAIN rows /\ rows'[t] = x
        /\ \A u \in DOMAIN rows : u # t => rows'[u] = rows[u]
    BY <1>1, <1>2, <1>3, ExceptSeq
  <1>5. \E e \in Exits :
           rows' = [rows EXCEPT ![t] = [status |-> "closed", entry |-> @.entry, exit |-> e]]
    <2>1. [premium |-> premium, reason |-> reason] \in Exits
      BY DEF Exits
    <2> QED
      BY <2>1 DEF close_trade
  <1> QED
    BY <1>3, <1>4, <1>5 DEF ClosesRow

LEMMA OpenEffect ==
    ASSUME Typed, NEW l \in Loops, NEW a, NEW lots, Enter(l, a, lots)
    PROVE  OpensRow(l)
  <1> DEFINE premium == IF quotes[l][a] = Blank THEN Stub ELSE quotes[l][a]
             e == [arm |-> a, day |-> day, lots |-> lots, premium |-> premium]
             r == [status |-> "open", entry |-> e]
  <1>1. a \in Symbols /\ a \in universe[l]
    BY DEF Typed, Enter
  <1>2. lots \in 1 .. MaxLots
    BY Constants DEF Enter, Lots
  <1>3. premium \in Quotes \cup {Stub}
    BY <1>1 DEF Enter, Typed
  <1>4. e \in Entries
    <2> HIDE DEF premium
    <2> QED
      BY <1>1, <1>2, <1>3 DEF Entries, Typed
  <1>5. rows' = Append(rows, r)
    BY DEF Enter, open_trade, _open_position
  <1>6. e.day = day /\ e.arm = a
    OBVIOUS
  <1> HIDE DEF e
  <1>7. r \in Row /\ r.status = "open" /\ r.entry = e
    BY <1>4 DEF Row
  <1>8. rows' \in Seq(Row)
    BY <1>5, <1>7 DEF Typed
  <1> QED
    BY <1>1, <1>5, <1>6, <1>7, <1>8 DEF OpensRow

(* Every row that is there keeps its entry, and stays closed if it is.     *)
LEMMA Kept ==
    ASSUME Typed, \/ UNCHANGED rows
                  \/ \E l \in Loops : OpensRow(l)
                  \/ \E t \in DOMAIN rows : ClosesRow(t)
    PROVE  /\ rows' \in Seq(Row)
           /\ \A u \in DOMAIN rows : u \in DOMAIN rows' /\ rows'[u].entry = rows[u].entry
  <1>1. CASE UNCHANGED rows
    BY <1>1 DEF Typed
  <1>2. ASSUME NEW r \in Row, rows' = Append(rows, r)
        PROVE  /\ rows' \in Seq(Row)
               /\ \A u \in DOMAIN rows : u \in DOMAIN rows' /\ rows'[u] = rows[u]
    BY <1>2 DEF Typed
  <1>3. CASE \E l \in Loops : OpensRow(l)
    BY <1>2, <1>3 DEF OpensRow
  <1>4. CASE \E t \in DOMAIN rows : ClosesRow(t)
    BY <1>4 DEF ClosesRow
  <1> QED
    BY <1>1, <1>3, <1>4

LEMMA RowStep ==
    ASSUME Typed, [Next]_vars
    PROVE  \/ UNCHANGED rows
           \/ \E l \in Loops : OpensRow(l) /\ pc[l] = "enter"
           \/ \E l \in Loops, t \in DOMAIN rows : ClosesRow(t) /\ t \in todo[l]
                                                 /\ pc[l] \in {"manage", "eod"}
  <1> DEFINE Goal == \/ UNCHANGED rows
                     \/ \E l \in Loops : OpensRow(l) /\ pc[l] = "enter"
                     \/ \E l \in Loops, t \in DOMAIN rows : ClosesRow(t) /\ t \in todo[l]
                                                 /\ pc[l] \in {"manage", "eod"}
  <1>1. ASSUME NEW l \in Loops, NEW a, NEW lots, Enter(l, a, lots) PROVE Goal
    BY <1>1, OpenEffect DEF Enter
  <1>2. ASSUME NEW l \in Loops, NEW t \in todo[l], CloseDue(l, t) \/ EodClose(l, t) PROVE Goal
    <2>1. t \in DOMAIN rows
      BY DEF Typed
    <2>2. close_trade(t, _get_premium_from_bundle(l, t), "exit")
          \/ close_trade(t, _get_premium_from_bundle(l, t), "time_stop")
      BY <1>2 DEF CloseDue, EodClose
    <2>3. _get_premium_from_bundle(l, t) \in Quotes \cup {Stub}
      BY <2>1, PremiumTyped
    <2>4. ClosesRow(t)
      BY <2>1, <2>2, <2>3, CloseEffect
    <2>5. pc[l] \in {"manage", "eod"}
      BY <1>2 DEF CloseDue, EodClose
    <2> QED
      BY <2>1, <2>4, <2>5
  <1>3. ASSUME NEW l \in Loops, Tick(l) PROVE Goal
    BY <1>1, <1>2, <1>3 DEF Tick, BeginTick, ReadFeatures, Hold, CheckNav, NoEntry, book
  <1>4. ASSUME NEW l \in Loops, Eod(l) PROVE Goal
    BY <1>2, <1>4 DEF Eod, BeginEod, _finalize_day_state, save_eod, book
  <1>5. ASSUME NEW l \in Loops, NEW t, CloseFails(l, t) \/ EodCloseFails(l, t) PROVE Goal
    BY <1>5 DEF CloseFails, EodCloseFails, book
  <1>6. ASSUME NEW l \in Loops, NEW p, Replace(l, p) PROVE Goal
    BY <1>6 DEF Replace, book
  <1>7. ASSUME NEW l \in Loops, NEW selected, Fire(l, selected) PROVE Goal
    BY <1>7 DEF Fire
  <1>8. ASSUME NEW l \in Loops, FireFails(l) \/ EodAborts(l) PROVE Goal
    BY <1>8 DEF FireFails, EodAborts, book
  <1>9. ASSUME NEW resume, Boot(resume) PROVE Goal
    BY <1>9 DEF Boot, book
  <1>10. CASE Crash \/ TimePasses \/ NextDay \/ UNCHANGED vars
    BY <1>10 DEF Crash, TimePasses, NextDay, vars, book
  <1> QED
    BY <1>3, <1>4, <1>5, <1>6, <1>7, <1>8, <1>9, <1>10 DEF Next

-----------------------------------------------------------------------------
(* Types.                                                                  *)

LEMMA TypedInit == Init => Typed
  <1> SUFFICES ASSUME Init PROVE Typed
    OBVIOUS
  <1>1. /\ rows \in Seq(Row) /\ day \in 1 .. MaxDays /\ now \in 0 .. HardExit
        /\ faults \in Nat /\ up \in BOOLEAN /\ due \subseteq Loops
    <2>1. rows \in Seq(Row)
      BY DEF Init
    <2>2. day \in 1 .. MaxDays /\ now \in 0 .. HardExit /\ faults \in Nat
      BY Constants DEF Init
    <2>3. up \in BOOLEAN /\ due \subseteq Loops
      BY DEF Init
    <2> QED
      BY <2>1, <2>2, <2>3
  <1>2. pc \in [Loops -> Labels] /\ dayRow = [d \in 1 .. MaxDays |-> dayRow[d]]
    BY DEF Init, Labels
  <1>3. /\ universe \in [Loops -> SUBSET Symbols] /\ boot \in [Loops -> SUBSET Symbols]
        /\ evidence \in [Loops -> [Symbols -> SUBSET Nat]]
        /\ saved \in [Symbols -> SUBSET Nat]
    BY DEF Init
  <1>4. quotes \in [Loops -> [Symbols -> Quotes \cup {Blank, NoBundle}]]
    BY DEF Init, NoQuotes
  <1>5. open \in [Loops -> SUBSET DOMAIN rows] /\ todo \in [Loops -> SUBSET DOMAIN rows]
    BY DEF Init
  <1> QED
    BY <1>1, <1>2, <1>3, <1>4, <1>5 DEF Typed

(* The tick and the hard exit of a loop happen within a tick of the clock. *)
LEMMA LoopSteps ==
    ASSUME NEW l \in Loops, Tick(l) \/ Eod(l) \/ EodAborts(l) \/ (\E p : Replace(l, p))
                            \/ (\E t : CloseFails(l, t) \/ EodCloseFails(l, t))
    PROVE  /\ UNCHANGED <<day, now, up, due>>
           /\ faults' \in {faults, faults + 1}
           /\ \E label \in Live \cup Ending \cup {"ended"} : Goto(l, label) \/ pc' = pc
           /\ pc[l] \in Live \cup Ending
  <1>1. CASE Tick(l)
    BY <1>1 DEF Tick, BeginTick, ReadFeatures, Hold, CloseDue, CheckNav, Enter, NoEntry,
       clock, process, Live, Ending
  <1>2. CASE Eod(l)
    BY <1>2 DEF Eod, BeginEod, EodClose, _finalize_day_state, save_eod,
       clock, process, Live, Ending
  <1>3. CASE EodAborts(l)
    BY <1>3 DEF EodAborts, clock, process, Fault, Live, Ending
  <1>4. ASSUME NEW p, Replace(l, p)
        PROVE  /\ UNCHANGED <<day, now, up, due, faults>> /\ Goto(l, "read") /\ pc[l] = "scan"
    BY <1>4 DEF Replace, clock, process
  <1>5. ASSUME NEW t, CloseFails(l, t) \/ EodCloseFails(l, t)
        PROVE  /\ UNCHANGED <<day, now, up, due>> /\ faults' = faults + 1
               /\ Goto(l, "wait") \/ pc' = pc
               /\ pc[l] \in {"manage", "eod"}
    BY <1>5 DEF CloseFails, EodCloseFails, clock, process, Fault
  <1> QED
    BY <1>1, <1>2, <1>3, <1>4, <1>5 DEF Live, Ending

(* A step of a loop, or of the scheduler.                                  *)
LoopStep ==
    \E l \in Loops :
        Tick(l) \/ Eod(l) \/ EodAborts(l) \/ (\E p : Replace(l, p))
            \/ (\E t : CloseFails(l, t) \/ EodCloseFails(l, t))

LEMMA Steps ==
    ASSUME [Next]_vars
    PROVE  \/ LoopStep
           \/ \E l \in Loops, selected \in Universes : Fire(l, selected)
           \/ \E l \in Loops : FireFails(l)
           \/ \E resume \in BOOLEAN : Boot(resume)
           \/ Crash \/ TimePasses \/ NextDay \/ UNCHANGED vars
  BY DEF Next, LoopStep

LEMMA ClockTyped ==
    ASSUME Typed, [Next]_vars
    PROVE  /\ day' \in 1 .. MaxDays /\ now' \in 0 .. HardExit /\ faults' \in Nat
           /\ up' \in BOOLEAN /\ due' \subseteq Loops
           /\ pc' \in [Loops -> Labels]
  <1> DEFINE Goal == /\ day' \in 1 .. MaxDays /\ now' \in 0 .. HardExit /\ faults' \in Nat
                     /\ up' \in BOOLEAN /\ due' \subseteq Loops
                     /\ pc' \in [Loops -> Labels]
  <1>1. CASE LoopStep
    <2>1. PICK l \in Loops :
             /\ UNCHANGED <<day, now, up, due>>
             /\ faults' \in {faults, faults + 1}
             /\ \E label \in Live \cup Ending \cup {"ended"} : Goto(l, label) \/ pc' = pc
      BY <1>1, LoopSteps DEF LoopStep
    <2>2. pc' \in [Loops -> Labels]
      BY <2>1 DEF Typed, Goto, Labels
    <2> QED
      BY <2>1, <2>2 DEF Typed
  <1>2. ASSUME NEW l \in Loops, NEW selected, Fire(l, selected) PROVE Goal
    <2>1. Goto(l, "wait") /\ UNCHANGED <<day, now, up, faults>> /\ due' = due \ {l}
      BY <1>2 DEF Fire, clock
    <2> QED
      BY <2>1 DEF Typed, Goto, Labels, Live
  <1>3. ASSUME NEW l \in Loops, FireFails(l) PROVE Goal
    BY <1>3 DEF FireFails, Fault, Typed, clock
  <1>4. ASSUME NEW resume \in BOOLEAN, Boot(resume) PROVE Goal
    BY <1>4 DEF Boot, Typed, clock, Loops
  <1>5. CASE Crash
    <2>1. pc' \in [Loops -> Labels]
      BY <1>5 DEF Crash, Labels
    <2>2. UNCHANGED <<day, now>> /\ faults' = faults + 1
      BY <1>5 DEF Crash, Fault, clock
    <2>3. up' \in BOOLEAN /\ due' \subseteq Loops
      BY <1>5 DEF Crash
    <2> QED
      BY <2>1, <2>2, <2>3 DEF Typed
  <1>6. CASE TimePasses
    <2>1. now < HardExit /\ now' = now + 1 /\ UNCHANGED <<day, process, pc, faults>>
      BY <1>6 DEF TimePasses
    <2> QED
      BY <2>1, Constants DEF Typed, process
  <1>7. CASE NextDay
    <2>1. pc' \in [Loops -> Labels]
      BY <1>7 DEF NextDay, Labels
    <2>2. /\ day < MaxDays /\ day' = day + 1 /\ now' = 0
          /\ due' \in {{"cron"}, {}} /\ UNCHANGED <<up, faults>>
      BY <1>7 DEF NextDay
    <2> QED
      BY <2>1, <2>2, Constants DEF Typed, Loops
  <1>8. CASE UNCHANGED vars
    BY <1>8 DEF vars, Typed, clock, process
  <1> QED
    BY <1>1, <1>2, <1>3, <1>4, <1>5, <1>6, <1>7, <1>8, Steps

(* What a loop remembers.                                                  *)
Mind ==
    /\ universe \in [Loops -> SUBSET Symbols]
    /\ boot \in [Loops -> SUBSET Symbols]
    /\ evidence \in [Loops -> [Symbols -> SUBSET Nat]]
    /\ saved \in [Symbols -> SUBSET Nat]
    /\ quotes \in [Loops -> [Symbols -> Quotes \cup {Blank, NoBundle}]]
    /\ dayRow = [d \in 1 .. MaxDays |-> dayRow[d]]

LEMMA ForgetTyped ==
    ASSUME Typed, NEW S, Forget(S)
    PROVE  /\ universe' \in [Loops -> SUBSET Symbols]
           /\ boot' \in [Loops -> SUBSET Symbols]
           /\ evidence' \in [Loops -> [Symbols -> SUBSET Nat]]
           /\ quotes' \in [Loops -> [Symbols -> Quotes \cup {Blank, NoBundle}]]
           /\ open' \in [Loops -> SUBSET DOMAIN rows]
           /\ todo' \in [Loops -> SUBSET DOMAIN rows]
  <1>1. universe' \in [Loops -> SUBSET Symbols] /\ boot' \in [Loops -> SUBSET Symbols]
    BY DEF Forget, Typed
  <1>2. evidence' \in [Loops -> [Symbols -> SUBSET Nat]]
    BY DEF Forget, Typed
  <1>3. quotes' \in [Loops -> [Symbols -> Quotes \cup {Blank, NoBundle}]]
    BY DEF Forget, Typed, NoQuotes
  <1>4. open' \in [Loops -> SUBSET DOMAIN rows] /\ todo' \in [Loops -> SUBSET DOMAIN rows]
    BY DEF Forget, Typed
  <1> QED
    BY <1>1, <1>2, <1>3, <1>4

LEMMA EvidenceTyped ==
    ASSUME NEW e \in [Loops -> [Symbols -> SUBSET Nat]], NEW l \in Loops, NEW a \in Symbols,
           NEW S \in SUBSET Nat, NEW f, f = [e EXCEPT ![l][a] = @ \cup S]
    PROVE  /\ f \in [Loops -> [Symbols -> SUBSET Nat]]
           /\ f[l][a] = e[l][a] \cup S
           /\ \A b \in Symbols : b # a => f[l][b] = e[l][b]
           /\ \A k \in Loops : k # l => f[k] = e[k]
  <1>1. PICK g : g = [e[l] EXCEPT ![a] = e[l][a] \cup S] /\ f = [e EXCEPT ![l] = g]
    OBVIOUS
  <1>2. e[l] \in [Symbols -> SUBSET Nat]
    OBVIOUS
  <1>3. g \in [Symbols -> SUBSET Nat] /\ g[a] = e[l][a] \cup S
        /\ \A b \in Symbols : b # a => g[b] = e[l][b]
    BY <1>1, <1>2
  <1> QED
    BY <1>1, <1>3

LEMMA MindTyped ==
    ASSUME Typed, [Next]_vars
    PROVE  Mind'
  <1>1. Mind
    BY DEF Typed, Mind
  <1>2. CASE UNCHANGED <<bandit, saved, quotes, dayRow>>
    BY <1>1, <1>2 DEF Mind, bandit
  <1>3. ASSUME NEW l \in Loops, Tick(l) PROVE Mind'
    <2>1. ASSUME NEW read \in [universe[l] -> Quotes \cup {Blank, NoBundle}],
                 ReadFeatures(l, read)
          PROVE  Mind'
      <3>1. [a \in Symbols |-> IF a \in universe[l] THEN read[a] ELSE NoBundle]
              \in [Symbols -> Quotes \cup {Blank, NoBundle}]
        OBVIOUS
      <3>2. quotes' \in [Loops -> [Symbols -> Quotes \cup {Blank, NoBundle}]]
        BY <1>1, <2>1, <3>1 DEF ReadFeatures, Mind
      <3> QED
        BY <1>1, <2>1, <3>2 DEF ReadFeatures, Mind, bandit, store
    <2>2. ASSUME NEW t \in todo[l], CloseDue(l, t) PROVE Mind'
      <3>1. t \in DOMAIN rows
        BY DEF Typed
      <3>2. Arm(t) \in Symbols /\ t \in Nat
        BY <3>1, RowTyped
      <3>3. evidence' = [evidence EXCEPT ![l][Arm(t)] = @ \cup {t}]
        BY <2>2 DEF CloseDue
      <3>5. evidence' \in [Loops -> [Symbols -> SUBSET Nat]]
        BY <1>1, <3>2, <3>3, EvidenceTyped DEF Mind
      <3> QED
        BY <1>1, <2>2, <3>5 DEF CloseDue, Mind, store
    <2>3. CASE BeginTick(l) \/ CheckNav(l) \/ NoEntry(l)
      BY <1>2, <2>3 DEF BeginTick, CheckNav, NoEntry, store
    <2>4. ASSUME NEW t, Hold(l, t) PROVE Mind'
      BY <1>2, <2>4 DEF Hold, store
    <2>5. ASSUME NEW a, NEW lots, Enter(l, a, lots) PROVE Mind'
      BY <1>2, <2>5 DEF Enter, store
    <2> QED
      BY <1>3, <2>1, <2>2, <2>3, <2>4, <2>5 DEF Tick
  <1>4. ASSUME NEW l \in Loops, NEW p, Replace(l, p) PROVE Mind'
    <2>1. p[2] \in Symbols /\ p \in universe[l] \X (Symbols \ universe[l])
      BY <1>4 DEF Replace, compute_replacements
    <2>2. universe' \in [Loops -> SUBSET Symbols]
      BY <1>1, <1>4, <2>1 DEF Replace, Mind
    <2>3. evidence' = [evidence EXCEPT ![l][p[2]] = evidence[l][p[2]]]
      BY <1>4 DEF Replace, admit_arm
    <2>4. evidence' \in [Loops -> [Symbols -> SUBSET Nat]]
      BY <1>1, <2>1, <2>3 DEF Mind
    <2> QED
      BY <1>1, <1>4, <2>2, <2>4 DEF Replace, Mind, store
  <1>5. ASSUME NEW l \in Loops, NEW selected \in Universes, Fire(l, selected) PROVE Mind'
    <2>1. selected \in SUBSET Symbols
      BY Constants
    <2>2. universe' \in [Loops -> SUBSET Symbols] /\ boot' \in [Loops -> SUBSET Symbols]
      BY <1>1, <1>5, <2>1 DEF Fire, Mind
    <2>3. \A a \in Symbols : _replay_bandit_updates(a) \in SUBSET Nat
      BY DEF _replay_bandit_updates, ClosedOn, OfDay, Typed
    <2> DEFINE e == [a \in Symbols |-> IF a \in selected
                        THEN load_morning(a) \cup _replay_bandit_updates(a) ELSE {}]
    <2>4. e \in [Symbols -> SUBSET Nat]
      BY <1>1, <2>3 DEF load_morning, Mind
    <2>5. evidence' = [evidence EXCEPT ![l] = e]
      BY <1>5 DEF Fire
    <2>6. evidence' \in [Loops -> [Symbols -> SUBSET Nat]]
      <3> HIDE DEF e
      <3> QED
        BY <1>1, <2>4, <2>5 DEF Mind
    <2>7. dayRow' = [d \in 1 .. MaxDays |-> dayRow'[d]]
      BY <1>1, <1>5 DEF Fire, init_day, Mind
    <2> QED
      BY <1>1, <1>5, <2>2, <2>6, <2>7 DEF Fire, Mind
  <1>6. ASSUME NEW l \in Loops, FireFails(l) PROVE Mind'
    <2>1. dayRow' = [d \in 1 .. MaxDays |-> dayRow'[d]]
      BY <1>1, <1>6 DEF FireFails, init_day, Mind
    <2> QED
      BY <1>1, <1>6, <2>1 DEF FireFails, Mind, bandit
  <1>7. ASSUME NEW l \in Loops, Eod(l) PROVE Mind'
    <2>1. CASE BeginEod(l) \/ \E t \in todo[l] : EodClose(l, t)
      BY <1>2, <2>1 DEF BeginEod, EodClose, store
    <2>2. CASE _finalize_day_state(l)
      <3>1. dayRow' = [d \in 1 .. MaxDays |-> dayRow'[d]]
        BY <1>1, <2>2 DEF _finalize_day_state, Mind
      <3> QED
        BY <1>1, <2>2, <3>1 DEF _finalize_day_state, Mind, bandit
    <2>3. CASE save_eod(l)
      <3>1. saved' \in [Symbols -> SUBSET Nat]
        BY <1>1, <2>3 DEF save_eod, Mind
      <3>2. Forget({l}) /\ dayRow' = dayRow
        BY <2>3 DEF save_eod
      <3> QED
        BY <1>1, <3>1, <3>2, ForgetTyped DEF Mind
    <2> QED
      BY <1>7, <2>1, <2>2, <2>3 DEF Eod
  <1>8. ASSUME NEW l \in Loops, EodAborts(l) PROVE Mind'
    <2>1. Forget({l}) /\ dayRow' = dayRow /\ saved' = saved
      BY <1>8 DEF EodAborts, store
    <2> QED
      BY <1>1, <2>1, ForgetTyped DEF Mind
  <1>9. CASE Crash
    <2>1. Forget(Loops) /\ dayRow' = dayRow /\ saved' = saved
      BY <1>9 DEF Crash, store
    <2> QED
      BY <1>1, <2>1, ForgetTyped DEF Mind
  <1>10. ASSUME NEW l \in Loops, NEW t, CloseFails(l, t) \/ EodCloseFails(l, t) PROVE Mind'
    BY <1>2, <1>10 DEF CloseFails, EodCloseFails, store
  <1>11. ASSUME NEW resume, Boot(resume) PROVE Mind'
    BY <1>2, <1>11 DEF Boot, store
  <1>12. CASE TimePasses \/ NextDay \/ UNCHANGED vars
    BY <1>2, <1>12 DEF TimePasses, NextDay, vars, store
  <1> QED
    BY <1>3, <1>4, <1>5, <1>6, <1>7, <1>8, <1>9, <1>10, <1>11, <1>12 DEF Next

LEMMA HandsTyped ==
    ASSUME Typed, [Next]_vars
    PROVE  open' \in [Loops -> SUBSET DOMAIN rows'] /\ todo' \in [Loops -> SUBSET DOMAIN rows']
  <1>1. \A u \in DOMAIN rows : u \in DOMAIN rows'
    BY RowStep, Kept
  <1>2. ASSUME open' \in [Loops -> SUBSET DOMAIN rows], todo' \in [Loops -> SUBSET DOMAIN rows]
        PROVE  /\ open' \in [Loops -> SUBSET DOMAIN rows']
               /\ todo' \in [Loops -> SUBSET DOMAIN rows']
    BY <1>1, <1>2
  <1> DEFINE Goal == /\ open' \in [Loops -> SUBSET DOMAIN rows']
                     /\ todo' \in [Loops -> SUBSET DOMAIN rows']
  <1>3. ASSUME NEW l \in Loops, Tick(l) PROVE Goal
    <2>1. ASSUME NEW a, NEW lots, Enter(l, a, lots) PROVE Goal
      <3>1. PICK r : rows' = Append(rows, r)
        BY <2>1, OpenEffect DEF OpensRow
      <3>2. Len(rows) + 1 \in DOMAIN rows'
        BY <3>1 DEF Typed
      <3>3. todo' = todo /\ open' = [open EXCEPT ![l] = @ \cup {Len(rows) + 1}]
        BY <2>1 DEF Enter
      <3> QED
        BY <1>1, <3>2, <3>3 DEF Typed
    <2>2. ASSUME NEW read, ReadFeatures(l, read) PROVE Goal
      BY <1>2, <2>2 DEF ReadFeatures, Typed, book
    <2>3. ASSUME NEW t, CloseDue(l, t) \/ Hold(l, t) PROVE Goal
      <3>1. todo' = [todo EXCEPT ![l] = @ \ {t}]
        BY <2>3 DEF CloseDue, Hold
      <3>2. open' = open \/ open' = [open EXCEPT ![l] = @ \ {t}]
        BY <2>3 DEF CloseDue, Hold, book
      <3>3. todo' \in [Loops -> SUBSET DOMAIN rows]
        BY <3>1 DEF Typed
      <3>4. open' \in [Loops -> SUBSET DOMAIN rows]
        BY <3>2 DEF Typed
      <3> QED
        BY <1>2, <3>3, <3>4
    <2>4. CASE BeginTick(l) \/ CheckNav(l) \/ NoEntry(l)
      BY <1>2, <2>4 DEF BeginTick, CheckNav, NoEntry, Typed, book
    <2> QED
      BY <1>3, <2>1, <2>2, <2>3, <2>4 DEF Tick
  <1>4. ASSUME NEW l \in Loops, Eod(l) PROVE Goal
    <2>1. CASE BeginEod(l) \/ _finalize_day_state(l) \/ \E t \in todo[l] : EodClose(l, t)
      <3>1. open' = open
        BY <2>1 DEF BeginEod, EodClose, _finalize_day_state, book
      <3>2. todo' = todo \/ todo' = [todo EXCEPT ![l] = open[l]]
            \/ \E t : todo' = [todo EXCEPT ![l] = @ \ {t}]
        BY <2>1 DEF BeginEod, EodClose, _finalize_day_state
      <3>3. todo' \in [Loops -> SUBSET DOMAIN rows]
        BY <3>2, ZenonT(30) DEF Typed
      <3> QED
        BY <1>2, <3>1, <3>3 DEF Typed
    <2>2. CASE save_eod(l)
      BY <1>2, <2>2, ForgetTyped DEF save_eod
    <2> QED
      BY <1>4, <2>1, <2>2 DEF Eod
  <1>5. ASSUME NEW l \in Loops, NEW t, CloseFails(l, t) \/ EodCloseFails(l, t) PROVE Goal
    <2>1. open' = open
      BY <1>5 DEF CloseFails, EodCloseFails, book
    <2>2. todo' = [todo EXCEPT ![l] = {}] \/ todo' = [todo EXCEPT ![l] = @ \ {t}]
      BY <1>5 DEF CloseFails, EodCloseFails
    <2>3. todo' \in [Loops -> SUBSET DOMAIN rows]
      BY <2>2, ZenonT(30) DEF Typed
    <2> QED
      BY <1>2, <2>1, <2>3 DEF Typed
  <1>6. ASSUME NEW l \in Loops, NEW p, Replace(l, p) PROVE Goal
    BY <1>2, <1>6 DEF Replace, Typed, book
  <1>7. ASSUME NEW l \in Loops, NEW selected, Fire(l, selected) PROVE Goal
    BY <1>2, <1>7 DEF Fire, _load_open_positions, OfDay, Typed
  <1>8. ASSUME NEW l \in Loops, FireFails(l) PROVE Goal
    BY <1>2, <1>8 DEF FireFails, Typed, book
  <1>9. ASSUME NEW l \in Loops, EodAborts(l) PROVE Goal
    BY <1>2, <1>9, ForgetTyped DEF EodAborts
  <1>10. ASSUME NEW resume, Boot(resume) PROVE Goal
    BY <1>2, <1>10 DEF Boot, Typed, book
  <1>11. CASE Crash
    BY <1>2, <1>11, ForgetTyped DEF Crash
  <1>12. CASE TimePasses \/ NextDay \/ UNCHANGED vars
    BY <1>2, <1>12 DEF TimePasses, NextDay, vars, Typed, book
  <1> QED
    BY <1>3, <1>4, <1>5, <1>6, <1>7, <1>8, <1>9, <1>10, <1>11, <1>12 DEF Next

LEMMA TypedStep ==
    ASSUME Typed, [Next]_vars
    PROVE  Typed'
  <1>1. rows' \in Seq(Row)
    BY RowStep, Kept
  <1> QED
    BY <1>1, ClockTyped, MindTyped, HandsTyped DEF Typed, Mind

-----------------------------------------------------------------------------
(* One loop at a time.                                                     *)

Busy(l) == pc[l] \in Live \cup Ending

Alone ==
    /\ \A l, k \in Loops : Busy(l) /\ Busy(k) => l = k
    /\ \A l, k \in due : l = k
    /\ \A l \in Loops : Busy(l) => due = {} /\ up
    /\ ~up => due = {}
    /\ \A l \in Loops : pc[l] \in Ending => now = HardExit
    /\ \A t \in DOMAIN rows : rows[t].entry.day <= day

LEMMA Entered ==
    ASSUME Typed, [Next]_vars, \A t \in DOMAIN rows : rows[t].entry.day <= day
    PROVE  \A t \in DOMAIN rows' : rows'[t].entry.day <= day'
  <1>1. day \in Nat /\ day' \in {day, day + 1}
    <2>1. CASE LoopStep
      BY <2>1, LoopSteps DEF LoopStep, Typed
    <2>2. CASE NextDay
      BY <2>2 DEF NextDay, Typed
    <2>3. ASSUME \/ \E l \in Loops, selected \in Universes : Fire(l, selected)
                 \/ \E l \in Loops : FireFails(l)
                 \/ \E resume \in BOOLEAN : Boot(resume)
                 \/ Crash \/ TimePasses \/ UNCHANGED vars
          PROVE  day' = day
      BY <2>3 DEF Fire, FireFails, Boot, Crash, TimePasses, vars, clock
    <2> QED
      BY <2>1, <2>2, <2>3, Steps DEF Typed
  <1>2. \A t \in DOMAIN rows : rows[t].entry.day \in Nat
    BY RowTyped
  <1>3. CASE UNCHANGED rows
    BY <1>1, <1>2, <1>3
  <1>4. ASSUME NEW l \in Loops, OpensRow(l) PROVE \A t \in DOMAIN rows' : rows'[t].entry.day <= day'
    <2>1. PICK r \in Row : rows' = Append(rows, r) /\ r.entry.day = day
      BY <1>4 DEF OpensRow
    <2>2. rows \in Seq(Row)
      BY DEF Typed
    <2>3. \A t \in DOMAIN rows' : (t \in DOMAIN rows /\ rows'[t] = rows[t]) \/ rows'[t] = r
      BY <2>1, <2>2
    <2> QED
      BY <1>1, <1>2, <2>1, <2>3
  <1>5. ASSUME NEW t \in DOMAIN rows, ClosesRow(t)
        PROVE  \A u \in DOMAIN rows' : rows'[u].entry.day <= day'
    <2>1. \A u \in DOMAIN rows' : u \in DOMAIN rows /\ rows'[u].entry = rows[u].entry
      BY <1>5 DEF ClosesRow
    <2> QED
      BY <1>1, <1>2, <2>1
  <1> QED
    BY <1>3, <1>4, <1>5, RowStep

LEMMA EndingStep ==
    ASSUME Typed, Alone, NEW l \in Loops,
           Tick(l) \/ Eod(l) \/ EodAborts(l) \/ (\E p : Replace(l, p))
              \/ (\E t : CloseFails(l, t) \/ EodCloseFails(l, t))
    PROVE  pc'[l] \in Ending => now = HardExit
  <1>1. CASE Tick(l) \/ (\E p : Replace(l, p)) \/ EodAborts(l) \/ \E t : CloseFails(l, t)
    <2>1. (\E label \in Live \cup {"ended"} : Goto(l, label)) \/ (pc[l] = "manage" /\ pc' = pc)
      BY <1>1 DEF Tick, BeginTick, ReadFeatures, Hold, CloseDue, CheckNav, Enter, NoEntry,
         Replace, EodAborts, CloseFails, Live
    <2> QED
      BY <2>1 DEF Goto, Live, Ending, Typed
  <1>2. CASE BeginEod(l)
    BY <1>2, Constants DEF BeginEod, Typed
  <1>3. CASE \/ \E t : EodClose(l, t) \/ EodCloseFails(l, t)
             \/ _finalize_day_state(l) \/ save_eod(l)
    BY <1>3 DEF EodClose, EodCloseFails, _finalize_day_state, save_eod, Alone, Ending
  <1> QED
    BY <1>1, <1>2, <1>3 DEF Eod

LEMMA AloneStep ==
    ASSUME 0 \notin ResumeAt, Typed, Alone, [Next]_vars
    PROVE  Alone'
  <1>1. \A t \in DOMAIN rows' : rows'[t].entry.day <= day'
    BY Entered DEF Alone
  <1> DEFINE Goal == /\ \A l, k \in Loops : Busy(l)' /\ Busy(k)' => l = k
                     /\ \A l, k \in due' : l = k
                     /\ \A l \in Loops : Busy(l)' => due' = {} /\ up'
                     /\ ~up' => due' = {}
                     /\ \A l \in Loops : pc'[l] \in Ending => now' = HardExit
  <1> SUFFICES Goal
    BY <1>1 DEF Alone
  <1>2. ASSUME NEW l \in Loops,
               Tick(l) \/ Eod(l) \/ EodAborts(l) \/ (\E p : Replace(l, p))
                  \/ (\E t : CloseFails(l, t) \/ EodCloseFails(l, t))
        PROVE  Goal
    <2>1. /\ UNCHANGED <<now, up, due>> /\ Busy(l)
          /\ \E label : Goto(l, label) \/ pc' = pc
      BY <1>2, LoopSteps DEF Busy
    <2>2. \A k \in Loops : k # l => pc'[k] = pc[k] /\ ~Busy(k)
      BY <2>1 DEF Goto, Typed, Alone
    <2>3. pc'[l] \in Ending => now = HardExit
      BY <1>2, EndingStep
    <2>4. \A k \in Loops : k # l => ~Busy(k)' /\ pc'[k] \notin Ending
      BY <2>2 DEF Busy
    <2> QED
      BY <2>1, <2>3, <2>4 DEF Alone
  <1>3. ASSUME NEW l \in Loops, NEW selected, Fire(l, selected) PROVE Goal
    <2>1. l \in due /\ due' = due \ {l} /\ Goto(l, "wait") /\ UNCHANGED <<now, up>>
      BY <1>3 DEF Fire, Runnable, clock
    <2>2. due' = {} /\ up /\ \A k \in Loops : ~Busy(k)
      BY <2>1 DEF Alone, Typed
    <2>3. pc'[l] = "wait" /\ \A k \in Loops : k # l => pc'[k] = pc[k]
      BY <2>1 DEF Goto, Typed
    <2>4. pc'[l] \notin Ending /\ \A k \in Loops : k # l => ~Busy(k)' /\ pc'[k] \notin Ending
      BY <2>2, <2>3 DEF Busy, Ending
    <2> QED
      BY <2>1, <2>2, <2>4
  <1>4. ASSUME NEW l \in Loops, FireFails(l) PROVE Goal
    <2>1. l \in due /\ due' = due \ {l} /\ UNCHANGED <<now, up, pc>>
      BY <1>4 DEF FireFails, Runnable, clock
    <2> QED
      BY <2>1 DEF Alone, Busy
  <1>5. ASSUME NEW resume \in BOOLEAN, Boot(resume) PROVE Goal
    <2>1. /\ ~up /\ UNCHANGED <<now, pc>> /\ \A k \in Loops : ~Busy(k)
          /\ resume => now # 0
      BY <1>5 DEF Boot, Alone, clock
    <2>2. \A l, k \in due' : l = k
      BY <1>5, <2>1 DEF Boot
    <2>3. up'
      BY <1>5 DEF Boot
    <2> QED
      BY <2>1, <2>2, <2>3 DEF Alone, Busy
  <1>6. ASSUME due' = {} \/ (due' = {"cron"} /\ up'), \A l \in Loops : pc'[l] = "off" PROVE Goal
    BY <1>6 DEF Busy, Live, Ending
  <1>7. CASE Crash
    <2>1. due' = {}
      BY <1>7 DEF Crash
    <2>2. \A l \in Loops : pc'[l] = "off"
      BY <1>7 DEF Crash
    <2> QED
      BY <1>6, <2>1, <2>2
  <1>8. CASE NextDay
    <2>1. due' = {} \/ (due' = {"cron"} /\ up')
      BY <1>8 DEF NextDay
    <2>2. \A l \in Loops : pc'[l] = "off"
      BY <1>8 DEF NextDay
    <2> QED
      BY <1>6, <2>1, <2>2
  <1>9. CASE TimePasses
    <2>1. now < HardExit /\ UNCHANGED <<up, due, pc>>
      BY <1>9 DEF TimePasses, process
    <2>2. \A l \in Loops : pc[l] \notin Ending
      BY <2>1, Constants DEF Alone, Typed
    <2> QED
      BY <2>1, <2>2 DEF Alone, Busy
  <1>10. CASE UNCHANGED vars
    BY <1>10 DEF Alone, Busy, vars, clock, process
  <1> QED
    BY <1>2, <1>3, <1>4, <1>5, <1>7, <1>8, <1>9, <1>10, Steps DEF LoopStep

-----------------------------------------------------------------------------
(* What a loop holds is what is open.                                      *)

OpenToday == {t \in OfDay(day) : IsOpen(t)}

MirrorAt(l) ==
    /\ pc[l] \in Live => open[l] = OpenToday
    /\ pc[l] \in {"manage", "eod"} => todo[l] \subseteq OpenToday
    /\ pc[l] = "eod" => OpenToday \subseteq todo[l] \cup stuck
    /\ pc[l] = "enter" => Cardinality(open[l]) < MaxConcurrent

Mirror == \A l \in Loops : MirrorAt(l)

LEMMA Idle ==
    ASSUME NEW l \in Loops, ~Busy(l)
    PROVE  MirrorAt(l)
  BY DEF Busy, MirrorAt, Live, Ending

(* While a loop takes a step the other one rests.                          *)
LEMMA Others ==
    ASSUME Typed, Alone, NEW l \in Loops,
           Tick(l) \/ Eod(l) \/ EodAborts(l) \/ (\E p : Replace(l, p))
              \/ (\E t : CloseFails(l, t) \/ EodCloseFails(l, t))
    PROVE  \A k \in Loops : k # l => ~Busy(k)'
  <1>1. Busy(l) /\ \E label : Goto(l, label) \/ pc' = pc
    BY LoopSteps DEF Busy
  <1> QED
    BY <1>1 DEF Goto, Typed, Alone, Busy

LEMMA SameToday ==
    ASSUME UNCHANGED <<rows, day>>
    PROVE  OpenToday' = OpenToday /\ ClosedOn(day)' = ClosedOn(day)
           /\ OfDay(day)' = OfDay(day)
           /\ \A t : Arm(t)' = Arm(t)
  BY DEF OpenToday, OfDay, IsOpen, ClosedOn, Arm

LEMMA OpenMore ==
    ASSUME Typed, NEW l \in Loops, OpensRow(l), UNCHANGED day
    PROVE  /\ OpenToday' = OpenToday \cup {Len(rows) + 1}
           /\ ClosedOn(day)' = ClosedOn(day)
           /\ \A t \in DOMAIN rows : Arm(t)' = Arm(t)
           /\ Len(rows) + 1 \notin DOMAIN rows
           /\ rows'[Len(rows) + 1].entry.arm \in universe[l]
  <1>1. PICK r \in Row : /\ rows' = Append(rows, r)
                         /\ r.status = "open" /\ r.entry.day = day /\ r.entry.arm \in universe[l]
    BY DEF OpensRow
  <1>2. rows \in Seq(Row)
    BY DEF Typed
  <1>3. /\ DOMAIN rows' = DOMAIN rows \cup {Len(rows) + 1} /\ Len(rows) + 1 \notin DOMAIN rows
        /\ rows'[Len(rows) + 1] = r /\ \A t \in DOMAIN rows : rows'[t] = rows[t]
    BY <1>1, <1>2
  <1>5. \A t \in DOMAIN rows : Arm(t)' = Arm(t)
    BY <1>3 DEF Arm
  <1>6. OpenToday' = OpenToday \cup {Len(rows) + 1}
    BY <1>1, <1>3 DEF OpenToday, OfDay, IsOpen
  <1>7. ClosedOn(day)' = ClosedOn(day)
    BY <1>1, <1>3 DEF ClosedOn, OfDay, IsOpen
  <1> QED
    BY <1>1, <1>3, <1>5, <1>6, <1>7

LEMMA OpenLess ==
    ASSUME NEW t \in DOMAIN rows, ClosesRow(t), UNCHANGED day
    PROVE  /\ OpenToday' = OpenToday \ {t}
           /\ t \in OpenToday => ClosedOn(day)' = ClosedOn(day) \cup {t}
           /\ \A u \in DOMAIN rows : Arm(u)' = Arm(u)
  <1>1. OpenToday' = OpenToday \ {t}
    BY DEF ClosesRow, OpenToday, OfDay, IsOpen
  <1>2. t \in OpenToday => ClosedOn(day)' = ClosedOn(day) \cup {t}
    BY DEF ClosesRow, OpenToday, ClosedOn, OfDay, IsOpen
  <1>3. \A u \in DOMAIN rows : Arm(u)' = Arm(u)
    BY DEF ClosesRow, Arm
  <1> QED
    BY <1>1, <1>2, <1>3

LEMMA Counted ==
    ASSUME Typed, NEW l \in Loops
    PROVE  IsFiniteSet(open[l]) /\ Cardinality(open[l]) \in Nat
  <1>1. open[l] \subseteq 1 .. Len(rows) /\ Len(rows) \in Int
    BY DEF Typed
  <1>2. IsFiniteSet(1 .. Len(rows))
    BY <1>1, FS_Interval
  <1>3. IsFiniteSet(open[l])
    BY <1>1, <1>2, FS_Subset
  <1> QED
    BY <1>3, FS_CardinalityType

LEMMA MirrorTick ==
    ASSUME Typed, Mirror, NEW l \in Loops, Tick(l) \/ \E t \in todo[l] : CloseFails(l, t)
    PROVE  MirrorAt(l)'
  <1>1. UNCHANGED <<day, stuck>>
    BY DEF Tick, BeginTick, ReadFeatures, Hold, CloseDue, CheckNav, Enter, NoEntry, CloseFails,
       clock, store
  <1>2. pc \in [Loops -> Labels] /\ open \in [Loops -> SUBSET DOMAIN rows]
        /\ todo \in [Loops -> SUBSET DOMAIN rows] /\ MirrorAt(l)
    BY DEF Typed, Mirror
  <1>3. CASE BeginTick(l) \/ NoEntry(l)
    <2>1. /\ pc[l] \in Live /\ pc'[l] \in {"wait", "scan"} /\ UNCHANGED <<rows, open>>
      BY <1>2, <1>3 DEF BeginTick, NoEntry, Goto, book, Live
    <2> QED
      BY <1>1, <1>2, <2>1, SameToday DEF MirrorAt
  <1>4. ASSUME NEW read, ReadFeatures(l, read) PROVE MirrorAt(l)'
    <2>1. /\ pc[l] \in Live /\ pc'[l] = "manage" /\ UNCHANGED <<rows, open>>
          /\ todo'[l] = open[l]
      BY <1>2, <1>4 DEF ReadFeatures, Goto, book, Live
    <2> QED
      BY <1>1, <1>2, <2>1, SameToday DEF MirrorAt
  <1>5. ASSUME NEW t \in todo[l], Hold(l, t) PROVE MirrorAt(l)'
    <2>1. /\ pc[l] = "manage" /\ UNCHANGED <<pc, rows, open>>
          /\ todo'[l] = todo[l] \ {t}
      BY <1>2, <1>5 DEF Hold, book
    <2> QED
      BY <1>1, <1>2, <2>1, SameToday DEF MirrorAt
  <1>6. ASSUME NEW t \in todo[l], CloseDue(l, t) PROVE MirrorAt(l)'
    <2>1. t \in DOMAIN rows /\ _get_premium_from_bundle(l, t) \in Quotes \cup {Stub}
      BY <1>2, PremiumTyped
    <2>2. ClosesRow(t)
      BY <1>6, <2>1, CloseEffect DEF CloseDue
    <2>3. OpenToday' = OpenToday \ {t}
      BY <1>1, <2>1, <2>2, OpenLess
    <2>4. /\ pc[l] = "manage" /\ pc' = pc
          /\ open'[l] = open[l] \ {t} /\ todo'[l] = todo[l] \ {t}
      BY <1>2, <1>6 DEF CloseDue
    <2> QED
      BY <1>2, <2>3, <2>4 DEF MirrorAt, Live
  <1>7. ASSUME NEW t \in todo[l], CloseFails(l, t) PROVE MirrorAt(l)'
    <2>1. /\ pc[l] \in Live /\ pc'[l] = "wait" /\ UNCHANGED <<rows, open>>
      BY <1>2, <1>7 DEF CloseFails, Goto, book, Live
    <2> QED
      BY <1>1, <1>2, <2>1, SameToday DEF MirrorAt
  <1>8. CASE CheckNav(l)
    <2> DEFINE c == check_and_fire(circuit[l], NavChange(l))
    <2>1. /\ pc[l] \in Live /\ UNCHANGED <<rows, open>>
          /\ pc'[l] = IF Blocked(l, c) THEN "wait" ELSE "enter"
      BY <1>2, <1>8 DEF CheckNav, Goto, book, Live
    <2>2. pc'[l] = "enter" => ~(Cardinality(open[l]) >= MaxConcurrent)
      BY <2>1 DEF Blocked
    <2>3. pc'[l] = "enter" => Cardinality(open[l]) < MaxConcurrent
      BY <2>2, Counted, Constants
    <2>4. pc'[l] \in {"wait", "enter"}
      BY <2>1
    <2> QED
      BY <1>1, <1>2, <2>1, <2>3, <2>4, SameToday DEF MirrorAt
  <1>9. ASSUME NEW a, NEW lots, Enter(l, a, lots) PROVE MirrorAt(l)'
    <2>1. OpenToday' = OpenToday \cup {Len(rows) + 1}
      BY <1>1, <1>9, OpenEffect, OpenMore
    <2>2. /\ pc[l] \in Live /\ pc'[l] = "wait"
          /\ open'[l] = open[l] \cup {Len(rows) + 1}
      BY <1>2, <1>9 DEF Enter, Goto, Live
    <2> QED
      BY <1>2, <2>1, <2>2 DEF MirrorAt
  <1> QED
    BY <1>3, <1>4, <1>5, <1>6, <1>7, <1>8, <1>9 DEF Tick

LEMMA MirrorEod ==
    ASSUME Typed, Mirror, NEW l \in Loops,
           Eod(l) \/ EodAborts(l) \/ (\E t \in todo[l] : EodCloseFails(l, t))
                  \/ (\E p : Replace(l, p))
    PROVE  MirrorAt(l)'
  <1>1. UNCHANGED day
    BY DEF Eod, BeginEod, EodClose, _finalize_day_state, save_eod, EodAborts, EodCloseFails,
       Replace, clock
  <1>2. pc \in [Loops -> Labels] /\ open \in [Loops -> SUBSET DOMAIN rows]
        /\ todo \in [Loops -> SUBSET DOMAIN rows] /\ MirrorAt(l)
    BY DEF Typed, Mirror
  <1>3. CASE _finalize_day_state(l) \/ save_eod(l) \/ EodAborts(l)
    <2>1. pc'[l] \in {"save", "ended"}
      BY <1>2, <1>3 DEF _finalize_day_state, save_eod, EodAborts, Goto
    <2> QED
      BY <2>1 DEF MirrorAt, Live
  <1>4. CASE BeginEod(l)
    <2>1. /\ pc[l] \in Live /\ pc'[l] = "eod" /\ UNCHANGED <<rows, open>>
          /\ todo'[l] = open[l]
      BY <1>2, <1>4 DEF BeginEod, Goto, book, Live
    <2> QED
      BY <1>1, <1>2, <2>1, SameToday DEF MirrorAt, Live
  <1>5. ASSUME NEW t \in todo[l], EodClose(l, t) PROVE MirrorAt(l)'
    <2>1. t \in DOMAIN rows /\ _get_premium_from_bundle(l, t) \in Quotes \cup {Stub}
      BY <1>2, PremiumTyped
    <2>2. ClosesRow(t)
      BY <1>5, <2>1, CloseEffect DEF EodClose
    <2>3. OpenToday' = OpenToday \ {t}
      BY <1>1, <2>1, <2>2, OpenLess
    <2>4. pc[l] = "eod" /\ pc' = pc /\ todo'[l] = todo[l] \ {t} /\ stuck' = stuck
      BY <1>2, <1>5 DEF EodClose, store
    <2> QED
      BY <1>2, <2>3, <2>4 DEF MirrorAt, Live
  <1>6. ASSUME NEW t \in todo[l], EodCloseFails(l, t) PROVE MirrorAt(l)'
    <2>1. /\ pc[l] = "eod" /\ UNCHANGED <<pc, rows>> /\ todo'[l] = todo[l] \ {t}
          /\ stuck' = stuck \cup {t}
      BY <1>2, <1>6 DEF EodCloseFails, book
    <2> QED
      BY <1>1, <1>2, <2>1, SameToday DEF MirrorAt, Live
  <1>7. ASSUME NEW p, Replace(l, p) PROVE MirrorAt(l)'
    <2>1. pc[l] \in Live /\ pc'[l] = "read" /\ UNCHANGED <<rows, open>>
      BY <1>2, <1>7 DEF Replace, Goto, book, Live
    <2> QED
      BY <1>1, <1>2, <2>1, SameToday DEF MirrorAt
  <1> QED
    BY <1>3, <1>4, <1>5, <1>6, <1>7 DEF Eod

LEMMA MirrorStep ==
    ASSUME Typed, Alone, Mirror, [Next]_vars
    PROVE  Mirror'
  <1>1. ASSUME NEW l \in Loops,
               \/ Tick(l) \/ Eod(l) \/ EodAborts(l)
               \/ \E p : Replace(l, p)
               \/ \E t \in todo[l] : CloseFails(l, t) \/ EodCloseFails(l, t)
        PROVE  Mirror'
    <2>1. MirrorAt(l)'
      BY <1>1, MirrorTick, MirrorEod
    <2>2. \A k \in Loops : k # l => ~Busy(k)'
      BY <1>1, Others
    <2>3. \A k \in Loops : k # l => MirrorAt(k)'
      BY <2>2 DEF Busy, MirrorAt, Live, Ending
    <2> QED
      BY <2>1, <2>3 DEF Mirror
  <1>2. ASSUME NEW l \in Loops, NEW selected, Fire(l, selected) PROVE Mirror'
    <2>1. l \in due /\ Goto(l, "wait") /\ UNCHANGED <<rows, day>>
          /\ open' = [open EXCEPT ![l] = OpenToday]
      BY <1>2 DEF Fire, Runnable, clock, _load_open_positions, OpenToday
    <2>2. pc'[l] = "wait" /\ open'[l] = OpenToday /\ \A k \in Loops : k # l => pc'[k] = pc[k]
      BY <2>1 DEF Goto, Typed
    <2>3. \A k \in Loops : ~Busy(k)
      BY <2>1 DEF Alone, Typed
    <2>4. MirrorAt(l)'
      BY <2>1, <2>2, SameToday DEF MirrorAt
    <2>5. \A k \in Loops : k # l => MirrorAt(k)'
      BY <2>2, <2>3 DEF Busy, MirrorAt, Live, Ending
    <2> QED
      BY <2>4, <2>5 DEF Mirror
  <1>3. CASE UNCHANGED <<rows, day, pc, open, todo, stuck>>
    BY <1>3, SameToday DEF Mirror, MirrorAt
  <1>4. CASE \A l \in Loops : pc'[l] = "off"
    BY <1>4 DEF Mirror, MirrorAt, Live
  <1>5. CASE Crash \/ NextDay
    BY <1>4, <1>5 DEF Crash, NextDay
  <1>6. ASSUME NEW l \in Loops, FireFails(l) PROVE Mirror'
    BY <1>3, <1>6 DEF FireFails, clock, book
  <1>7. ASSUME NEW resume, Boot(resume) PROVE Mirror'
    BY <1>3, <1>7 DEF Boot, clock, store, book
  <1>8. CASE TimePasses \/ UNCHANGED vars
    BY <1>3, <1>8 DEF TimePasses, vars, clock, store, book
  <1> QED
    BY <1>1, <1>2, <1>5, <1>6, <1>7, <1>8 DEF Next

-----------------------------------------------------------------------------
(* What a loop has learned.                                                *)

ClosedOf(a) == {t \in ClosedOn(day) : Arm(t) = a}

\* also of an arm that is evicted now and may come back from the pool
LearnedAt(l) ==
    pc[l] \in Live => \A a \in boot[l] : evidence[l][a] = saved[a] \cup ClosedOf(a)

Learned == \A l \in Loops : LearnedAt(l)

LEMMA SameLessons ==
    ASSUME UNCHANGED <<rows, day, saved>>, NEW l \in Loops, LearnedAt(l),
           UNCHANGED <<boot, evidence>>, pc[l] \in Live
    PROVE  LearnedAt(l)'
  BY SameToday DEF LearnedAt, ClosedOf

LEMMA LearnedTick ==
    ASSUME Typed, Mirror, Learned, NEW l \in Loops,
           \/ Tick(l) \/ BeginEod(l)
           \/ \E p : Replace(l, p)
           \/ \E t \in todo[l] : CloseFails(l, t)
    PROVE  LearnedAt(l)'
  <1>1. UNCHANGED <<day, saved, boot>> /\ pc[l] \in Live
    BY DEF Tick, BeginTick, ReadFeatures, Hold, CloseDue, CheckNav, Enter, NoEntry, CloseFails,
       BeginEod, Replace, clock, store, bandit, Live
  <1>2. /\ evidence \in [Loops -> [Symbols -> SUBSET Nat]]
        /\ \A a \in boot[l] : a \in Symbols
        /\ LearnedAt(l) /\ MirrorAt(l)
    BY DEF Typed, Learned, Mirror
  <1>3. ASSUME UNCHANGED <<rows, evidence>> PROVE LearnedAt(l)'
    BY <1>1, <1>2, <1>3, SameLessons
  <1>4. CASE BeginTick(l) \/ CheckNav(l) \/ NoEntry(l) \/ BeginEod(l)
    BY <1>3, <1>4 DEF BeginTick, CheckNav, NoEntry, BeginEod, book, bandit
  <1>5. ASSUME NEW read, ReadFeatures(l, read) PROVE LearnedAt(l)'
    BY <1>3, <1>5 DEF ReadFeatures, book, bandit
  <1>6. ASSUME NEW t, Hold(l, t) \/ CloseFails(l, t) PROVE LearnedAt(l)'
    BY <1>3, <1>6 DEF Hold, CloseFails, book, bandit
  <1>7. ASSUME NEW a, NEW lots, Enter(l, a, lots) PROVE LearnedAt(l)'
    <2>1. /\ ClosedOn(day)' = ClosedOn(day)
          /\ \A t \in DOMAIN rows : Arm(t)' = Arm(t)
      BY <1>1, <1>7, OpenEffect, OpenMore
    <2>2. \A t \in ClosedOn(day) : t \in DOMAIN rows
      BY DEF ClosedOn, OfDay
    <2>3. \A b : ClosedOf(b)' = ClosedOf(b)
      BY <2>1, <2>2 DEF ClosedOf
    <2>4. evidence' = evidence
      BY <1>7 DEF Enter, bandit
    <2> QED
      BY <1>1, <1>2, <2>3, <2>4 DEF LearnedAt
  <1>8. ASSUME NEW p, Replace(l, p) PROVE LearnedAt(l)'
    <2>1. p[2] \in Symbols /\ evidence' = [evidence EXCEPT ![l][p[2]] = evidence[l][p[2]]]
      BY <1>8 DEF Replace, compute_replacements, admit_arm
    <2>2. evidence'[l] = evidence[l]
      BY <1>2, <2>1
    <2>3. UNCHANGED rows
      BY <1>8 DEF Replace, book
    <2> QED
      BY <1>1, <1>2, <2>2, <2>3, SameToday DEF LearnedAt, ClosedOf
  <1>9. ASSUME NEW t \in todo[l], CloseDue(l, t) PROVE LearnedAt(l)'
    <2>1. /\ t \in DOMAIN rows /\ _get_premium_from_bundle(l, t) \in Quotes \cup {Stub}
          /\ Arm(t) \in Symbols /\ t \in Nat
      BY PremiumTyped, RowTyped DEF Typed
    <2>2. ClosesRow(t)
      BY <1>9, <2>1, CloseEffect DEF CloseDue
    <2>3. t \in OpenToday
      BY <1>2, <1>9 DEF CloseDue, MirrorAt
    <2>4. ClosedOn(day)' = ClosedOn(day) \cup {t} /\ \A u \in DOMAIN rows : Arm(u)' = Arm(u)
      BY <1>1, <2>1, <2>2, <2>3, OpenLess
    <2>5. \A u \in ClosedOn(day) : u \in DOMAIN rows
      BY DEF ClosedOn, OfDay
    <2>6. \A b : ClosedOf(b)' = IF b = Arm(t) THEN ClosedOf(b) \cup {t} ELSE ClosedOf(b)
      BY <2>1, <2>4, <2>5 DEF ClosedOf
    <2>7. /\ evidence'[l][Arm(t)] = evidence[l][Arm(t)] \cup {t}
          /\ \A b \in Symbols : b # Arm(t) => evidence'[l][b] = evidence[l][b]
      <3>1. evidence' = [evidence EXCEPT ![l][Arm(t)] = @ \cup {t}]
        BY <1>9 DEF CloseDue
      <3> QED
        BY <1>2, <2>1, <3>1, EvidenceTyped
    <2>8. \A b \in boot[l] : evidence[l][b] = saved[b] \cup ClosedOf(b)
      BY <1>1, <1>2 DEF LearnedAt
    <2>9. ASSUME NEW b \in boot[l] PROVE evidence'[l][b] = saved[b] \cup ClosedOf(b)'
      <3>1. CASE b = Arm(t)
        BY <2>6, <2>7, <2>8, <3>1
      <3>2. CASE b # Arm(t)
        BY <1>2, <2>6, <2>7, <2>8, <3>2
      <3> QED
        BY <3>1, <3>2
    <2> QED
      BY <1>1, <2>9 DEF LearnedAt
  <1> QED
    BY <1>4, <1>5, <1>6, <1>7, <1>8, <1>9 DEF Tick

LEMMA LearnedStep ==
    ASSUME Typed, Alone, Mirror, Learned, [Next]_vars
    PROVE  Learned'
  <1>1. ASSUME NEW l \in Loops,
               \/ Tick(l) \/ Eod(l) \/ EodAborts(l)
               \/ \E p : Replace(l, p)
               \/ \E t \in todo[l] : CloseFails(l, t) \/ EodCloseFails(l, t)
        PROVE  Learned'
    <2>1. \A k \in Loops : k # l => LearnedAt(k)'
      <3>1. \A k \in Loops : k # l => ~Busy(k)'
        BY <1>1, Others
      <3> QED
        BY <3>1 DEF LearnedAt, Busy
    <2>2. LearnedAt(l)'
      <3>1. CASE \/ _finalize_day_state(l) \/ save_eod(l) \/ EodAborts(l)
                 \/ \E t \in todo[l] : EodClose(l, t) \/ EodCloseFails(l, t)
        <4>1. pc'[l] \in {"eod", "save", "ended"}
          BY <3>1 DEF _finalize_day_state, save_eod, EodAborts, EodClose, EodCloseFails, Goto, Typed
        <4> QED
          BY <4>1 DEF LearnedAt, Live
      <3> QED
        BY <1>1, <3>1, LearnedTick DEF Eod
    <2> QED
      BY <2>1, <2>2 DEF Learned
  <1>2. ASSUME NEW l \in Loops, NEW selected \in Universes, Fire(l, selected) PROVE Learned'
    <2>1. l \in due /\ Goto(l, "wait") /\ UNCHANGED <<rows, day, saved>>
      BY <1>2 DEF Fire, Runnable, clock
    <2>2. \A k \in Loops : k # l => pc'[k] = pc[k] /\ ~Busy(k)
      BY <2>1 DEF Goto, Typed, Alone
    <2>3. boot'[l] = selected
      BY <1>2 DEF Fire, Typed
    <2>4. \A a \in selected : evidence'[l][a] = saved[a] \cup ClosedOf(a)
      <3>1. selected \subseteq Symbols
        BY Constants
      <3>2. evidence'[l] = [a \in Symbols |-> IF a \in selected
                      THEN load_morning(a) \cup _replay_bandit_updates(a) ELSE {}]
        BY <1>2 DEF Fire, Typed
      <3> QED
        BY <3>1, <3>2 DEF load_morning, _replay_bandit_updates, ClosedOf
    <2>5. LearnedAt(l)'
      BY <2>1, <2>3, <2>4, SameToday DEF LearnedAt, ClosedOf
    <2>6. \A k \in Loops : k # l => LearnedAt(k)'
      BY <2>2 DEF LearnedAt, Busy
    <2> QED
      BY <2>5, <2>6 DEF Learned
  <1>3. CASE UNCHANGED <<rows, day, saved, pc, boot, evidence>>
    BY <1>3, SameToday DEF Learned, LearnedAt, ClosedOf
  <1>4. CASE \A l \in Loops : pc'[l] = "off"
    BY <1>4 DEF Learned, LearnedAt, Live
  <1>5. CASE Crash \/ NextDay
    BY <1>4, <1>5 DEF Crash, NextDay
  <1>6. ASSUME NEW l \in Loops, FireFails(l) PROVE Learned'
    BY <1>3, <1>6 DEF FireFails, clock, book, bandit
  <1>7. ASSUME NEW resume, Boot(resume) PROVE Learned'
    BY <1>3, <1>7 DEF Boot, clock, store, book, bandit
  <1>8. CASE TimePasses \/ UNCHANGED vars
    BY <1>3, <1>8 DEF TimePasses, vars, clock, store, book, bandit
  <1> QED
    BY <1>1, <1>2, <1>5, <1>6, <1>7, <1>8 DEF Next

LoopInv == Typed /\ Alone /\ Mirror

LEMMA LoopInvHolds ==
    ASSUME 0 \notin ResumeAt
    PROVE  Spec => []LoopInv
  <1>1. Init => Alone /\ Mirror
    BY DEF Init, Alone, Mirror, MirrorAt, Busy, Live, Ending
  <1> QED
    BY <1>1, TypedInit, TypedStep, AloneStep, MirrorStep, PTL DEF Spec, LoopInv

(* Crashes and restarts neither lose nor double what a session learns.     *)
THEOREM LessonsKept ==
    ASSUME 0 \notin ResumeAt
    PROVE  Spec => []LearnedFromLedger
  <1>1. Init => Learned
    BY DEF Init, Learned, LearnedAt, Live
  <1>2. LoopInv /\ Learned /\ [Next]_vars => Learned'
    BY LearnedStep DEF LoopInv
  <1>3. Learned => LearnedFromLedger
    BY DEF Learned, LearnedAt, LearnedFromLedger, ClosedOf
  <1> QED
    BY <1>1, <1>2, <1>3, LoopInvHolds, PTL DEF Spec

-----------------------------------------------------------------------------
(* Finalized days.                                                         *)

DoneInv ==
    /\ \A d \in 1 .. MaxDays : dayRow[d].done => d <= day
    /\ dayRow[day].done => /\ due = {} /\ now = HardExit
                           /\ \A l \in Loops : pc[l] \notin Live \cup {"eod"}
    /\ DayEndsFlat

LEMMA StuckStays ==
    ASSUME [Next]_vars
    PROVE  stuck \subseteq stuck'
  <1>1. ASSUME NEW l \in Loops,
               Tick(l) \/ Eod(l) \/ EodAborts(l) \/ FireFails(l)
               \/ (\E p : Replace(l, p)) \/ (\E selected : Fire(l, selected))
               \/ (\E t : CloseFails(l, t) \/ EodCloseFails(l, t))
        PROVE  stuck \subseteq stuck'
    BY <1>1 DEF Tick, BeginTick, ReadFeatures, Hold, CloseDue, CheckNav, Enter, NoEntry,
       Eod, BeginEod, EodClose, _finalize_day_state, save_eod, EodAborts, FireFails,
       Replace, Fire, CloseFails, EodCloseFails, store
  <1>2. CASE Crash \/ TimePasses \/ NextDay \/ UNCHANGED vars \/ \E resume : Boot(resume)
    BY <1>2 DEF Crash, TimePasses, NextDay, vars, Boot, store
  <1> QED
    BY <1>1, <1>2 DEF Next

LEMMA DoneStep ==
    ASSUME Typed, [Next]_vars
    PROVE  \/ \A d \in 1 .. MaxDays : dayRow'[d].done => dayRow[d].done
           \/ \E l \in Loops : /\ _finalize_day_state(l)
                               /\ \A d \in 1 .. MaxDays : dayRow'[d].done => dayRow[d].done \/ d = day
  <1> DEFINE Goal ==
        \/ \A d \in 1 .. MaxDays : dayRow'[d].done => dayRow[d].done
        \/ \E l \in Loops : /\ _finalize_day_state(l)
                            /\ \A d \in 1 .. MaxDays : dayRow'[d].done => dayRow[d].done \/ d = day
  <1>1. CASE UNCHANGED dayRow
    BY <1>1
  <1>2. ASSUME dayRow' = init_day PROVE Goal
    <2>1. PICK x : /\ x = dayRow[day] \/ x = [NoDayRow EXCEPT !.begun = TRUE]
                   /\ dayRow' = [dayRow EXCEPT ![day] = x]
      BY <1>2 DEF init_day
    <2>2. [NoDayRow EXCEPT !.begun = TRUE].done = FALSE
      BY DEF NoDayRow
    <2>3. \A d \in 1 .. MaxDays : dayRow'[d] = IF d = day THEN x ELSE dayRow[d]
      BY <2>1 DEF Typed
    <2> QED
      BY <2>1, <2>2, <2>3
  <1>3. ASSUME NEW l \in Loops, _finalize_day_state(l) PROVE Goal
    <2>1. PICK x : dayRow' = [dayRow EXCEPT ![day] = x]
      BY <1>3 DEF _finalize_day_state
    <2>2. \A d \in 1 .. MaxDays : d # day => dayRow'[d] = dayRow[d]
      BY <2>1 DEF Typed
    <2> QED
      BY <1>3, <2>2
  <1>4. ASSUME NEW l \in Loops, (\E selected : Fire(l, selected)) \/ FireFails(l) PROVE Goal
    BY <1>1, <1>2, <1>4 DEF Fire, FireFails
  <1>5. ASSUME NEW l \in Loops,
               \/ Tick(l) \/ EodAborts(l) \/ BeginEod(l) \/ save_eod(l)
               \/ \E p : Replace(l, p)
               \/ \E t : CloseFails(l, t) \/ EodCloseFails(l, t) \/ EodClose(l, t)
        PROVE  UNCHANGED dayRow
    BY <1>5 DEF Tick, BeginTick, ReadFeatures, Hold, CloseDue, CheckNav, Enter, NoEntry,
       BeginEod, EodClose, save_eod, EodAborts, Replace, CloseFails, EodCloseFails, store
  <1>6. CASE Crash \/ TimePasses \/ NextDay \/ UNCHANGED vars \/ \E resume : Boot(resume)
    BY <1>1, <1>6 DEF Crash, TimePasses, NextDay, vars, Boot, store
  <1> QED
    BY <1>1, <1>3, <1>4, <1>5, <1>6 DEF Next, Eod

\* what happens to a day that is over, or finalized
LEMMA FlatStep ==
    ASSUME 0 \notin ResumeAt, LoopInv, DoneInv, [Next]_vars, NEW d \in 1 .. MaxDays, dayRow'[d].done
    PROVE  \A t \in OfDay(d)' : IsOpen(t)' => t \in stuck'
  <1>1. Typed /\ Alone /\ Mirror /\ stuck \subseteq stuck'
    BY StuckStays DEF LoopInv
  <1>2. CASE dayRow[d].done
    <2>1. \A t \in OfDay(d) : IsOpen(t) => t \in stuck
      BY <1>2 DEF DoneInv, DayEndsFlat
    <2>2. CASE UNCHANGED rows
      BY <1>1, <2>1, <2>2 DEF OfDay, IsOpen
    <2>3. ASSUME NEW l \in Loops, OpensRow(l), pc[l] = "enter"
          PROVE  \A t \in OfDay(d)' : IsOpen(t)' => t \in stuck'
      <3>1. d # day
        BY <1>2, <2>3 DEF DoneInv, Live
      <3>2. PICK r \in Row : rows' = Append(rows, r) /\ r.entry.day = day
        BY <2>3 DEF OpensRow
      <3>3. \A t \in DOMAIN rows' : (t \in DOMAIN rows /\ rows'[t] = rows[t]) \/ rows'[t] = r
        BY <1>1, <3>2 DEF Typed
      <3> QED
        BY <1>1, <2>1, <3>1, <3>2, <3>3 DEF OfDay, IsOpen
    <2>4. ASSUME NEW u \in DOMAIN rows, ClosesRow(u)
          PROVE  \A t \in OfDay(d)' : IsOpen(t)' => t \in stuck'
      BY <1>1, <2>1, <2>4 DEF ClosesRow, OfDay, IsOpen
    <2> QED
      BY <1>1, <2>2, <2>3, <2>4, RowStep
  <1>3. CASE ~dayRow[d].done
    <2>1. PICK l \in Loops : _finalize_day_state(l)
      BY <1>1, <1>3, DoneStep
    <2>2. d = day
      BY <1>1, <1>3, DoneStep
    <2>3. pc[l] = "eod" /\ todo[l] = {} /\ UNCHANGED <<rows, day, stuck>>
      BY <2>1 DEF _finalize_day_state, clock, book
    <2>4. OpenToday \subseteq stuck
      BY <1>1, <2>3 DEF Mirror, MirrorAt
    <2> QED
      BY <2>2, <2>3, <2>4 DEF OpenToday, OfDay, IsOpen
  <1> QED
    BY <1>2, <1>3

LEMMA DayStays ==
    ASSUME Typed, [Next]_vars
    PROVE  \/ UNCHANGED day
           \/ NextDay /\ day' = day + 1
  <1>1. CASE LoopStep
    BY <1>1, LoopSteps DEF LoopStep
  <1>2. ASSUME \/ \E l \in Loops, selected \in Universes : Fire(l, selected)
               \/ \E l \in Loops : FireFails(l)
               \/ \E resume \in BOOLEAN : Boot(resume)
               \/ Crash \/ TimePasses \/ UNCHANGED vars
        PROVE  day' = day
    BY <1>2 DEF Fire, FireFails, Boot, Crash, TimePasses, vars, clock
  <1> QED
    BY <1>1, <1>2, Steps DEF NextDay

LEMMA RestAfterDone ==
    ASSUME 0 \notin ResumeAt, LoopInv, DoneInv, [Next]_vars, dayRow'[day'].done
    PROVE  due' = {} /\ now' = HardExit /\ \A l \in Loops : pc'[l] \notin Live \cup {"eod"}
  <1>1. /\ Typed /\ Alone /\ day \in 1 .. MaxDays /\ day' \in 1 .. MaxDays
        /\ pc \in [Loops -> Labels]
    BY TypedStep DEF LoopInv, Typed
  <1>2. UNCHANGED day
    <2>1. ASSUME NextDay, day' = day + 1 PROVE FALSE
      <3>1. dayRow' = dayRow /\ ~(day' <= day)
        BY <1>1, <2>1 DEF NextDay, store
      <3> QED
        BY <1>1, <3>1 DEF DoneInv
    <2> QED
      BY <1>1, <2>1, DayStays
  <1>3. CASE dayRow[day].done
    <2>1. /\ due = {} /\ now = HardExit /\ now # 0
          /\ \A l \in Loops : pc[l] \notin Live \cup {"eod"}
      BY <1>3, Constants DEF DoneInv
    <2>2. ASSUME NEW l \in Loops,
                 Tick(l) \/ Eod(l) \/ EodAborts(l) \/ (\E p : Replace(l, p))
                    \/ (\E t : CloseFails(l, t) \/ EodCloseFails(l, t))
          PROVE  /\ due' = {} /\ now' = HardExit
                 /\ \A k \in Loops : pc'[k] \notin Live \cup {"eod"}
      <3>1. UNCHANGED <<now, due>>
        BY <2>2, LoopSteps
      <3>2. pc'[l] \notin Live \cup {"eod"} /\ \A k \in Loops : k # l => pc'[k] = pc[k]
        BY <1>1, <2>1, <2>2 DEF Tick, BeginTick, ReadFeatures, Hold, CloseDue, CheckNav, Enter,
           NoEntry, Eod, BeginEod, EodClose, _finalize_day_state, save_eod, EodAborts,
           Replace, CloseFails, EodCloseFails, Goto, Live
      <3> QED
        BY <2>1, <3>1, <3>2
    <2>3. ASSUME NEW l \in Loops, (\E selected : Fire(l, selected)) \/ FireFails(l) PROVE FALSE
      BY <2>1, <2>3 DEF Fire, FireFails, Runnable
    <2>4. ASSUME NEW resume \in BOOLEAN, Boot(resume) PROVE due' = {} /\ UNCHANGED <<now, pc>>
      <3>1. ~resume
        BY <2>1, <2>4, Constants DEF Boot
      <3> QED
        BY <2>1, <2>4, <3>1 DEF Boot, clock
    <2>5. CASE Crash
      <3>1. due' = {} /\ now' = now
        BY <2>5 DEF Crash, clock
      <3>2. \A k \in Loops : pc'[k] = "off"
        BY <2>5 DEF Crash
      <3> QED
        BY <2>1, <3>1, <3>2 DEF Live
    <2>6. CASE TimePasses
      BY <2>1, <2>6, Constants DEF TimePasses
    <2>7. CASE NextDay
      BY <1>1, <1>2, <2>7 DEF NextDay
    <2>8. CASE UNCHANGED vars
      BY <2>1, <2>8 DEF vars, clock, process
    <2> QED
      BY <2>1, <2>2, <2>3, <2>4, <2>5, <2>6, <2>7, <2>8, Steps DEF LoopStep
  <1>4. CASE ~dayRow[day].done
    <2>1. PICK l \in Loops : _finalize_day_state(l)
      BY <1>1, <1>2, <1>4, DoneStep
    <2>2. pc[l] = "eod" /\ pc' = [pc EXCEPT ![l] = "save"] /\ UNCHANGED <<now, due>>
      BY <2>1 DEF _finalize_day_state, Goto, clock, process
    <2>3. now = HardExit /\ due = {} /\ \A k \in Loops : k # l => ~Busy(k)
      BY <1>1, <2>2 DEF Alone, Busy, Ending
    <2>4. \A k \in Loops : pc'[k] \notin Live \cup {"eod"}
      BY <1>1, <2>2, <2>3 DEF Busy, Live, Ending
    <2> QED
      BY <2>2, <2>3, <2>4
  <1> QED
    BY <1>3, <1>4

LEMMA DoneInvStep ==
    ASSUME 0 \notin ResumeAt, LoopInv, DoneInv, [Next]_vars
    PROVE  DoneInv'
  <1>1. day \in Nat /\ Typed
    BY DEF LoopInv, Typed
  <1>2. ASSUME NEW d \in 1 .. MaxDays, dayRow'[d].done PROVE d <= day'
    <2>1. dayRow[d].done \/ d = day
      BY <1>1, <1>2, DoneStep
    <2>2. d <= day
      BY <1>1, <2>1 DEF DoneInv
    <2> QED
      BY <1>1, <2>2, DayStays
  <1>3. DayEndsFlat'
    BY FlatStep DEF DayEndsFlat
  <1> QED
    BY <1>2, <1>3, RestAfterDone DEF DoneInv

(* A finalized day is flat but for what could not be closed, whichever     *)
(* loops the day had.                                                      *)
THEOREM FlatDays ==
    ASSUME 0 \notin ResumeAt
    PROVE  Spec => []DayEndsFlat
  <1>1. Init => DoneInv
    <2> SUFFICES ASSUME Init PROVE DoneInv
      OBVIOUS
    <2>1. \A d \in 1 .. MaxDays : dayRow[d].done = FALSE
      BY DEF Init, NoDayRow
    <2>2. day \in 1 .. MaxDays
      BY Constants DEF Init
    <2> QED
      BY <2>1, <2>2 DEF DoneInv, DayEndsFlat
  <1>2. DoneInv => DayEndsFlat
    BY DEF DoneInv
  <1> QED
    BY <1>1, <1>2, LoopInvHolds, DoneInvStep, PTL DEF Spec

-----------------------------------------------------------------------------
(* Positions keep their bundle.                                            *)

HeldAt(l) == pc[l] \in Live => \A t \in open[l] : Arm(t) \in universe[l]

(* without a fault the first loop of a day finds no position of that day   *)
HeldInv ==
    faults = 0 =>
        /\ \A l \in Loops : HeldAt(l)
        /\ (~up \/ due # {}) => OfDay(day) = {}

LEMMA FaultsStay ==
    ASSUME Typed, [Next]_vars, faults' = 0
    PROVE  faults = 0
  <1>1. faults \in Nat
    BY DEF Typed
  <1>2. CASE LoopStep
    BY <1>1, <1>2, LoopSteps DEF LoopStep
  <1>3. ASSUME \/ \E l \in Loops, selected \in Universes : Fire(l, selected)
               \/ \E l \in Loops : FireFails(l)
               \/ \E resume \in BOOLEAN : Boot(resume)
               \/ Crash \/ TimePasses \/ NextDay \/ UNCHANGED vars
        PROVE  faults' = faults \/ faults' = faults + 1
    BY <1>3 DEF Fire, FireFails, Boot, Crash, TimePasses, NextDay, vars, Fault
  <1> QED
    BY <1>1, <1>2, <1>3, Steps

LEMMA HeldTick ==
    ASSUME Typed, NEW l \in Loops, HeldAt(l),
           \/ Tick(l) \/ BeginEod(l)
           \/ \E p : Replace(l, p)
           \/ \E t \in todo[l] : CloseFails(l, t)
    PROVE  HeldAt(l)'
  <1>1. pc[l] \in Live
    BY DEF Tick, BeginTick, ReadFeatures, Hold, CloseDue, CheckNav, Enter, NoEntry, CloseFails,
       BeginEod, Replace, Live
  <1>2. /\ open \in [Loops -> SUBSET DOMAIN rows] /\ universe \in [Loops -> SUBSET Symbols]
        /\ \A t \in open[l] : Arm(t) \in universe[l]
    BY <1>1 DEF Typed, HeldAt
  <1>3. ASSUME UNCHANGED <<rows, open, universe>> PROVE HeldAt(l)'
    BY <1>2, <1>3 DEF HeldAt, Arm
  <1>4. CASE BeginTick(l) \/ CheckNav(l) \/ NoEntry(l) \/ BeginEod(l)
    BY <1>3, <1>4 DEF BeginTick, CheckNav, NoEntry, BeginEod, book, bandit
  <1>5. ASSUME NEW read, ReadFeatures(l, read) PROVE HeldAt(l)'
    BY <1>3, <1>5 DEF ReadFeatures, book, bandit
  <1>6. ASSUME NEW t, Hold(l, t) \/ CloseFails(l, t) PROVE HeldAt(l)'
    BY <1>3, <1>6 DEF Hold, CloseFails, book, bandit
  <1>7. ASSUME NEW a, NEW lots, Enter(l, a, lots) PROVE HeldAt(l)'
    <2>1. OpensRow(l) /\ UNCHANGED <<day, universe>>
      BY <1>7, OpenEffect DEF Enter, clock, bandit
    <2>2. /\ \A t \in DOMAIN rows : Arm(t)' = Arm(t)
          /\ rows'[Len(rows) + 1].entry.arm \in universe[l]
      BY <2>1, OpenMore
    <2>3. open'[l] = open[l] \cup {Len(rows) + 1}
      BY <1>2, <1>7 DEF Enter
    <2>4. \A t \in open'[l] : rows'[t].entry.arm \in universe[l]
      BY <1>2, <2>2, <2>3 DEF Arm
    <2> QED
      BY <2>1, <2>4 DEF HeldAt, Arm
  <1>8. ASSUME NEW p, Replace(l, p) PROVE HeldAt(l)'
    <2>1. /\ universe'[l] = (universe[l] \ {p[1]}) \cup {p[2]}
          /\ ~Holds(l, p[1]) /\ UNCHANGED <<rows, open>>
      BY <1>2, <1>8 DEF Replace, compute_replacements, book
    <2> QED
      BY <1>2, <2>1 DEF HeldAt, Holds, Arm
  <1>9. ASSUME NEW t \in todo[l], CloseDue(l, t) PROVE HeldAt(l)'
    <2>1. t \in DOMAIN rows /\ _get_premium_from_bundle(l, t) \in Quotes \cup {Stub}
      BY PremiumTyped DEF Typed
    <2>2. ClosesRow(t)
      BY <1>9, <2>1, CloseEffect DEF CloseDue
    <2>3. \A u \in DOMAIN rows : rows'[u].entry = rows[u].entry
      BY <2>2 DEF ClosesRow
    <2>4. open'[l] = open[l] \ {t} /\ universe' = universe
      BY <1>2, <1>9 DEF CloseDue
    <2> QED
      BY <1>2, <2>3, <2>4 DEF HeldAt, Arm
  <1> QED
    BY <1>4, <1>5, <1>6, <1>7, <1>8, <1>9 DEF Tick

LEMMA HeldStep ==
    ASSUME LoopInv, HeldInv, [Next]_vars
    PROVE  HeldInv'
  <1> SUFFICES ASSUME faults' = 0
               PROVE  /\ \A l \in Loops : HeldAt(l)'
                      /\ (~up' \/ due' # {}) => OfDay(day)' = {}
    BY DEF HeldInv
  <1>1. /\ Typed /\ Alone /\ faults = 0
        /\ \A l \in Loops : HeldAt(l)
        /\ (~up \/ due # {}) => OfDay(day) = {}
    BY FaultsStay DEF LoopInv, HeldInv
  <1> DEFINE Goal == /\ \A l \in Loops : HeldAt(l)'
                     /\ (~up' \/ due' # {}) => OfDay(day)' = {}
  <1>2. ASSUME NEW l \in Loops,
               \/ Tick(l) \/ Eod(l) \/ EodAborts(l)
               \/ \E p : Replace(l, p)
               \/ \E t \in todo[l] : CloseFails(l, t) \/ EodCloseFails(l, t)
        PROVE  Goal
    <2>1. Busy(l) /\ UNCHANGED <<up, due>>
      BY <1>2, LoopSteps DEF Busy
    <2>2. up' /\ due' = {}
      BY <1>1, <2>1 DEF Alone
    <2>3. \A k \in Loops : k # l => HeldAt(k)'
      <3>1. \A k \in Loops : k # l => ~Busy(k)'
        BY <1>1, <1>2, Others
      <3> QED
        BY <3>1 DEF HeldAt, Busy
    <2>4. HeldAt(l)'
      <3>1. CASE \/ _finalize_day_state(l) \/ save_eod(l) \/ EodAborts(l)
                 \/ \E t \in todo[l] : EodClose(l, t) \/ EodCloseFails(l, t)
        <4>1. pc'[l] \in {"eod", "save", "ended"}
          BY <1>1, <3>1
          DEF _finalize_day_state, save_eod, EodAborts, EodClose, EodCloseFails, Goto, Typed
        <4> QED
          BY <4>1 DEF HeldAt, Live
      <3> QED
        BY <1>1, <1>2, <3>1, HeldTick DEF Eod
    <2> QED
      BY <2>2, <2>3, <2>4
  <1>3. ASSUME NEW l \in Loops, NEW selected, Fire(l, selected) PROVE Goal
    <2>1. l \in due /\ due' = due \ {l} /\ Goto(l, "wait") /\ UNCHANGED <<rows, day, up>>
      BY <1>3 DEF Fire, Runnable, clock
    <2>2. OfDay(day) = {}
      BY <1>1, <2>1
    <2>3. open'[l] = {}
      BY <1>1, <1>3, <2>2 DEF Fire, Typed, _load_open_positions
    <2>4. \A k \in Loops : k # l => ~Busy(k)'
      BY <1>1, <2>1 DEF Alone, Busy, Goto, Typed
    <2>5. \A k \in Loops : HeldAt(k)'
      BY <2>3, <2>4 DEF HeldAt, Busy
    <2> QED
      BY <2>1, <2>2, <2>5 DEF OfDay
  <1>4. ASSUME UNCHANGED <<rows, day, pc, open, universe>>, ~up' \/ due' # {} => ~up \/ due # {}
        PROVE  Goal
    BY <1>1, <1>4 DEF HeldAt, Arm, OfDay
  <1>5. ASSUME NEW l \in Loops, FireFails(l) PROVE Goal
    BY <1>1, <1>5 DEF FireFails, Fault, Typed
  <1>6. ASSUME NEW resume, Boot(resume) PROVE Goal
    <2>1. UNCHANGED <<rows, day, pc, open, universe>> /\ ~up
      BY <1>6 DEF Boot, clock, book, bandit
    <2> QED
      BY <1>4, <2>1
  <1>7. CASE Crash
    BY <1>1, <1>7 DEF Crash, Fault
  <1>8. CASE TimePasses \/ UNCHANGED vars
    <2>1. UNCHANGED <<rows, day, pc, open, universe, up, due>>
      BY <1>8 DEF TimePasses, vars, clock, process, book, bandit
    <2> QED
      BY <1>4, <2>1
  <1>9. CASE NextDay
    <2>1. day' = day + 1 /\ rows' = rows
      BY <1>9 DEF NextDay, book
    <2>2. OfDay(day)' = {}
      <3>1. \A t \in DOMAIN rows : rows[t].entry.day \in Nat /\ rows[t].entry.day <= day
        BY <1>1, RowTyped DEF Alone
      <3>2. day \in Nat
        BY <1>1 DEF Typed
      <3> QED
        BY <2>1, <3>1, <3>2 DEF OfDay
    <2>3. \A l \in Loops : pc'[l] = "off"
      BY <1>9 DEF NextDay
    <2> QED
      BY <2>2, <2>3 DEF HeldAt, Live
  <1> QED
    BY <1>2, <1>3, <1>5, <1>6, <1>7, <1>8, <1>9 DEF Next

(* Without a fault, arm replacement never strands a position.              *)
THEOREM NeverStranded ==
    ASSUME 0 \notin ResumeAt
    PROVE  Spec => []HeldStaysManaged
  <1>1. Init => HeldInv
    BY DEF Init, HeldInv, HeldAt, Live, OfDay
  <1>2. HeldInv => HeldStaysManaged
    BY DEF HeldInv, HeldAt, HeldStaysManaged
  <1> QED
    BY <1>1, <1>2, LoopInvHolds, HeldStep, PTL DEF Spec

-----------------------------------------------------------------------------
(* The ledger.                                                             *)

LEMMA Opens ==
    ASSUME LoopInv, NEW l \in Loops, OpensRow(l), pc[l] = "enter", UNCHANGED day
    PROVE  Ledger!Next
  <1>1. Typed /\ MirrorAt(l) /\ rows \in Seq(Row) /\ day \in 1 .. MaxDays
    BY DEF LoopInv, Mirror, Typed
  <1>2. PICK r \in Row : /\ rows' = Append(rows, r) /\ r.entry.day = day
                         /\ r = [status |-> "open", entry |-> r.entry]
    BY DEF OpensRow
  <1>3. r.entry \in Entries
    BY <1>2, RowFields
  <1>4. OpenToday' = OpenToday \cup {Len(rows) + 1} /\ Len(rows) + 1 \notin DOMAIN rows
    BY <1>1, OpenMore
  <1>5. Ledger!OpenOn(day, rows') = OpenToday'
    BY DEF Ledger!OpenOn, OpenToday, OfDay, IsOpen, EntryDay
  <1>6. open[l] = OpenToday /\ Cardinality(open[l]) < MaxConcurrent
    BY <1>1 DEF MirrorAt, Live
  <1>7. Cardinality(OpenToday \cup {Len(rows) + 1}) = Cardinality(OpenToday) + 1
    <2>1. IsFiniteSet(OpenToday) /\ Len(rows) + 1 \notin OpenToday
      BY <1>1, <1>4, <1>6, Counted DEF OpenToday, OfDay
    <2> QED
      BY <2>1, FS_AddElement
  <1>8. Cardinality(Ledger!OpenOn(day, rows')) <= MaxConcurrent
    BY <1>1, <1>4, <1>5, <1>6, <1>7, Counted, Constants
  <1>9. Ledger!Open(r.entry)
    <2>1. rows' = Append(rows, [status |-> "open", entry |-> r.entry])
      BY <1>2
    <2>2. EntryDay(r.entry) = day
      BY <1>2 DEF EntryDay
    <2>3. Ledger!Cardinality(Ledger!OpenOn(EntryDay(r.entry), rows')) <= MaxConcurrent
      BY <1>8, <2>2 DEF Ledger!Cardinality, Cardinality
    <2> QED
      BY <2>1, <2>3 DEF Ledger!Open
  <1> QED
    BY <1>3, <1>9 DEF Ledger!Next

LEMMA ClosesOnce ==
    ASSUME LoopInv, NEW l \in Loops, NEW t \in DOMAIN rows, ClosesRow(t), t \in todo[l],
           pc[l] \in {"manage", "eod"}
    PROVE  Ledger!Next /\ IsOpen(t)
  <1>1. IsOpen(t)
    BY DEF LoopInv, Mirror, MirrorAt, OpenToday
  <1>2. PICK x \in Exits :
           rows' = [rows EXCEPT ![t] = [status |-> "closed", entry |-> @.entry, exit |-> x]]
    BY DEF ClosesRow
  <1>3. Ledger!Close(t, x)
    BY <1>1, <1>2 DEF Ledger!Close, IsOpen
  <1> QED
    BY <1>1, <1>3 DEF Ledger!Next

LEMMA DayOfStep ==
    ASSUME Typed, Alone, [Next]_vars, rows' # rows
    PROVE  UNCHANGED day
  <1>1. CASE NextDay
    BY <1>1 DEF NextDay, book
  <1> QED
    BY <1>1, DayStays

(* The loop implements the trade ledger: rows are opened within the        *)
(* capacity, closed once, and final then.                                  *)
THEOREM KeepsLedger ==
    ASSUME 0 \notin ResumeAt
    PROVE  Spec => LedgerImplemented
  <1>1. Init => Ledger!Init
    BY DEF Init, Ledger!Init
  <1>2. LoopInv /\ [Next]_vars => [Ledger!Next]_rows
    <2> SUFFICES ASSUME LoopInv, [Next]_vars, rows' # rows PROVE Ledger!Next
      OBVIOUS
    <2>1. UNCHANGED day /\ Typed
      BY DayOfStep DEF LoopInv
    <2> QED
      BY <2>1, RowStep, Opens, ClosesOnce
  <1> QED
    BY <1>1, <1>2, LoopInvHolds, PTL DEF Spec, LedgerImplemented, Ledger!Spec

(* With a single loop at a time, what a closed row says stays as it is.    *)
THEOREM ClosedForGood ==
    ASSUME 0 \notin ResumeAt
    PROVE  Spec => ClosedIsFinal
  <1>1. ASSUME LoopInv, [Next]_vars
        PROVE  \A t \in DOMAIN rows : ~IsOpen(t) => rows'[t] = rows[t]
    <2>1. Typed
      BY <1>1 DEF LoopInv
    <2>2. ASSUME NEW l \in Loops, OpensRow(l)
          PROVE  \A t \in DOMAIN rows : rows'[t] = rows[t]
      BY <2>1, <2>2 DEF OpensRow, Typed
    <2>3. ASSUME NEW l \in Loops, NEW u \in DOMAIN rows, ClosesRow(u), u \in todo[l],
                 pc[l] \in {"manage", "eod"}
          PROVE  \A t \in DOMAIN rows : ~IsOpen(t) => rows'[t] = rows[t]
      <3>1. IsOpen(u)
        BY <1>1, <2>3, ClosesOnce
      <3> QED
        BY <2>3, <3>1 DEF ClosesRow
    <2> QED
      BY <1>1, <2>1, <2>2, <2>3, RowStep
  <1>2. LoopInv /\ [Next]_vars =>
           [\A t \in DOMAIN rows : ~IsOpen(t) => rows'[t] = rows[t]]_vars
    BY <1>1
  <1> QED
    BY <1>2, LoopInvHolds, PTL DEF Spec, ClosedIsFinal

-----------------------------------------------------------------------------
(* The value of the rows.                                                  *)

Profit(r)   == (r.exit.premium - r.entry.premium) * r.entry.lots
Total(r, S) == SumFunction([t \in S |-> Profit(r[t])])

LEMMA RealizedIsTotal ==
    /\ Realized(ClosedOn(day)) = Total(rows, ClosedOn(day))
    /\ Realized(ClosedOn(day))' = Total(rows', ClosedOn(day)')
    /\ \A d : Realized(ClosedOn(d)) = Total(rows, ClosedOn(d))
    /\ \A d : Realized(ClosedOn(d))' = Total(rows', ClosedOn(d)')
  BY DEF Realized, Pnl, Total, Profit

LEMMA TotalSame ==
    ASSUME NEW S, NEW r, NEW q, \A t \in S : q[t] = r[t]
    PROVE  Total(q, S) = Total(r, S)
  <1>1. [t \in S |-> Profit(q[t])] = [t \in S |-> Profit(r[t])]
    OBVIOUS
  <1> QED
    BY <1>1 DEF Total

LEMMA TotalMore ==
    ASSUME NEW S, IsFiniteSet(S), NEW x, x \notin S, NEW r, NEW q,
           \A t \in S : q[t] = r[t] /\ Profit(r[t]) \in Int, Profit(q[x]) \in Int
    PROVE  Total(q, S \cup {x}) = Total(r, S) + Profit(q[x])
  <1> DEFINE f == [t \in S \cup {x} |-> Profit(q[t])]
             g == [t \in S |-> Profit(r[t])]
  <1>1. \A t \in S \cup {x} : f[t] \in Int
    OBVIOUS
  <1>2. SumFunctionOnSet(f, S \cup {x}) = f[x] + SumFunctionOnSet(f, S)
    <2> HIDE DEF f
    <2> QED
      BY <1>1, SumAdd
  <1>3. \A t \in S : f[t] = g[t] /\ f[t] \in Int
    OBVIOUS
  <1>4. SumFunctionOnSet(f, S) = SumFunctionOnSet(g, S)
    <2> HIDE DEF f, g
    <2> QED
      BY <1>3, SumSame
  <1>5. SumFunctionOnSet(f, S) \in Int
    <2> HIDE DEF f, g
    <2> QED
      BY <1>1, SumInt
  <1>6. /\ Total(q, S \cup {x}) = SumFunctionOnSet(f, S \cup {x})
        /\ Total(r, S) = SumFunctionOnSet(g, S) /\ f[x] = Profit(q[x])
    BY DEF Total, SumFunction
  <1> HIDE DEF f, g
  <1> QED
    BY <1>2, <1>4, <1>5, <1>6

LEMMA Amounts ==
    /\ \A p \in Quotes \cup {Stub} : p \in Int
    /\ \A n \in 1 .. MaxLots : n \in Int
  <1>1. Quotes \subseteq Nat \ {0} /\ Stub \in Nat \ {0} /\ MaxLots \in Nat \ {0}
    BY QuantAssumption
  <1> QED
    BY <1>1

LEMMA ProfitTyped ==
    ASSUME NEW r \in Row, r.status # "open"
    PROVE  Profit(r) \in Int
  <1>1. r.entry \in Entries /\ r.exit \in Exits
    BY DEF Row
  <1>2. /\ r.entry.premium \in Quotes \cup {Stub} /\ r.exit.premium \in Quotes \cup {Stub}
        /\ r.entry.lots \in 1 .. MaxLots
    BY <1>1 DEF Entries, Exits
  <1>3. r.entry.premium \in Int /\ r.exit.premium \in Int /\ r.entry.lots \in Int
    BY <1>2, Amounts
  <1> QED
    BY <1>3 DEF Profit

LEMMA ClosedTyped ==
    ASSUME Typed, NEW d
    PROVE  /\ IsFiniteSet(OfDay(d)) /\ IsFiniteSet(ClosedOn(d))
           /\ Cardinality(OfDay(d)) \in Nat
           /\ \A t \in ClosedOn(d) : Profit(rows[t]) \in Int
           /\ Realized(ClosedOn(d)) \in Int
  <1>1. /\ OfDay(d) \subseteq 1 .. Len(rows) /\ ClosedOn(d) \subseteq OfDay(d)
        /\ Len(rows) \in Int
    BY DEF Typed, OfDay, ClosedOn
  <1>0. IsFiniteSet(1 .. Len(rows))
    BY <1>1, FS_Interval
  <1>2. IsFiniteSet(OfDay(d)) /\ IsFiniteSet(ClosedOn(d)) /\ Cardinality(OfDay(d)) \in Nat
    <2>1. IsFiniteSet(OfDay(d))
      BY <1>0, <1>1, FS_Subset
    <2>2. IsFiniteSet(ClosedOn(d))
      BY <1>1, <2>1, FS_Subset
    <2> QED
      BY <2>1, <2>2, FS_CardinalityType
  <1>3. \A t \in ClosedOn(d) : Profit(rows[t]) \in Int
    BY ProfitTyped DEF Typed, ClosedOn, OfDay, IsOpen
  <1> DEFINE g == [t \in ClosedOn(d) |-> Profit(rows[t])]
  <1>4. \A t \in ClosedOn(d) : g[t] \in Int
    BY <1>3
  <1>5. Realized(ClosedOn(d)) = SumFunctionOnSet(g, ClosedOn(d))
    BY DEF Realized, Pnl, Profit, SumFunction
  <1>6. SumFunctionOnSet(g, ClosedOn(d)) \in Int
    <2> HIDE DEF g
    <2> QED
      BY <1>2, <1>4, SumInt
  <1> QED
    BY <1>2, <1>3, <1>5, <1>6

LEMMA GainTyped ==
    ASSUME Typed, NEW l \in Loops, NEW t \in DOMAIN rows
    PROVE  Gain(l, t) \in Int
  <1>1. /\ _get_premium_from_bundle(l, t) \in Quotes \cup {Stub}
        /\ rows[t].entry \in Entries
    BY PremiumTyped, RowTyped
  <1>2. /\ _get_premium_from_bundle(l, t) \in Int
        /\ rows[t].entry.premium \in Int /\ rows[t].entry.lots \in Int
    BY <1>1, Amounts DEF Entries
  <1> QED
    BY <1>2 DEF Gain

(* What a close adds to the profit of the day.                             *)
LEMMA ClosePays ==
    ASSUME Typed, NEW l \in Loops, MirrorAt(l), pc[l] \in {"manage", "eod"},
           NEW t \in todo[l], NEW reason \in {"exit", "time_stop"},
           close_trade(t, _get_premium_from_bundle(l, t), reason), UNCHANGED day
    PROVE  Realized(ClosedOn(day))' = Realized(ClosedOn(day)) + Gain(l, t)
  <1>1. t \in DOMAIN rows /\ t \in OpenToday
    BY DEF Typed, MirrorAt
  <1>2. _get_premium_from_bundle(l, t) \in Quotes \cup {Stub} /\ Gain(l, t) \in Int
    BY <1>1, PremiumTyped, GainTyped
  <1>3. ClosesRow(t)
    BY <1>1, <1>2, CloseEffect
  <1>4. ClosedOn(day)' = ClosedOn(day) \cup {t} /\ t \notin ClosedOn(day)
    BY <1>1, <1>3, OpenLess DEF OpenToday, ClosedOn
  <1>5. \A u \in ClosedOn(day) : rows'[u] = rows[u]
    BY <1>3, <1>4 DEF ClosesRow, ClosedOn, OfDay
  <1>6. rows'[t] = [status |-> "closed", entry |-> rows[t].entry,
                    exit |-> [premium |-> _get_premium_from_bundle(l, t), reason |-> reason]]
    BY <1>1 DEF close_trade, Typed
  <1>7. Profit(rows'[t]) = Gain(l, t)
    BY <1>6 DEF Profit, Gain
  <1>8. Total(rows', ClosedOn(day) \cup {t}) = Total(rows, ClosedOn(day)) + Profit(rows'[t])
    BY <1>2, <1>4, <1>5, <1>7, ClosedTyped, TotalMore
  <1> QED
    BY <1>4, <1>7, <1>8, RealizedIsTotal

LEMMA SameMoney ==
    ASSUME UNCHANGED <<rows, day>>
    PROVE  Realized(ClosedOn(day))' = Realized(ClosedOn(day))
  BY SameToday, RealizedIsTotal

-----------------------------------------------------------------------------
(* The other types.                                                        *)

Circuits == [kill : BOOLEAN, lockin : BOOLEAN,
             losses : [Symbols -> 0 .. CoolLosses - 1], until : [Symbols -> Nat]]

DayRows == [begun : BOOLEAN, done : BOOLEAN, pnl : Int, trade_count : Nat]

Known(n) ==
    /\ saved \in [Symbols -> SUBSET (1 .. n)] /\ stuck \subseteq 1 .. n
    /\ evidence \in [Loops -> [Symbols -> SUBSET (1 .. n)]]

Rest ==
    /\ Known(Len(rows))
    /\ realized \in [Loops -> Int]
    /\ circuit \in [Loops -> Circuits]
    /\ dayRow \in [1 .. MaxDays -> DayRows]
    /\ ticked \in [Loops -> -1 .. HardExit]
    /\ faults \in 0 .. MaxFaults

LEMMA RowsGrow ==
    ASSUME Typed, [Next]_vars
    PROVE  /\ Len(rows) \in Nat /\ Len(rows') \in Nat /\ Len(rows) <= Len(rows')
           /\ DOMAIN rows = 1 .. Len(rows) /\ rows' \in Seq(Row)
  <1>1. rows \in Seq(Row) /\ rows' \in Seq(Row)
    BY RowStep, Kept DEF Typed
  <1>2. \A u \in DOMAIN rows : u \in DOMAIN rows'
    BY RowStep, Kept
  <1>3. /\ Len(rows) \in Nat /\ Len(rows') \in Nat
        /\ DOMAIN rows = 1 .. Len(rows) /\ DOMAIN rows' = 1 .. Len(rows')
    BY <1>1
  <1> QED
    BY <1>1, <1>2, <1>3

LEMMA KnownMore ==
    ASSUME NEW m \in Nat, NEW n \in Nat, m <= n, Known(m)'
    PROVE  Known(n)'
  <1>1. 1 .. m \subseteq 1 .. n
    OBVIOUS
  <1> QED
    BY <1>1 DEF Known

LEMMA KnownStep ==
    ASSUME Typed, Rest, [Next]_vars
    PROVE  Known(Len(rows))'
  <1> DEFINE n == Len(rows)
  <1>1. /\ n \in Nat /\ Len(rows') \in Nat /\ n <= Len(rows') /\ DOMAIN rows = 1 .. n
    BY RowsGrow
  <1>2. /\ saved \in [Symbols -> SUBSET (1 .. n)] /\ stuck \subseteq 1 .. n
        /\ evidence \in [Loops -> [Symbols -> SUBSET (1 .. n)]]
        /\ todo \in [Loops -> SUBSET (1 .. n)]
    BY <1>1 DEF Rest, Known, Typed
  <1> DEFINE Goal == /\ saved' \in [Symbols -> SUBSET (1 .. n)] /\ stuck' \subseteq 1 .. n
                     /\ evidence' \in [Loops -> [Symbols -> SUBSET (1 .. n)]]
  <1> HIDE DEF n
  <1>3. ASSUME UNCHANGED <<saved, stuck, evidence>> PROVE Goal
    BY <1>2, <1>3
  <1>4. ASSUME NEW S, Forget(S) PROVE evidence' \in [Loops -> [Symbols -> SUBSET (1 .. n)]]
    BY <1>2, <1>4 DEF Forget
  <1>5. ASSUME NEW l \in Loops, NEW t \in todo[l], CloseDue(l, t) PROVE Goal
    <2>1. t \in 1 .. n /\ t \in DOMAIN rows /\ Arm(t) \in Symbols
      BY <1>1, <1>2, RowTyped
    <2>2. PICK g : /\ g = [evidence[l] EXCEPT ![Arm(t)] = evidence[l][Arm(t)] \cup {t}]
                   /\ evidence' = [evidence EXCEPT ![l] = g]
      BY <1>5 DEF CloseDue
    <2>3. g \in [Symbols -> SUBSET (1 .. n)]
      BY <1>2, <2>1, <2>2
    <2>4. evidence' \in [Loops -> [Symbols -> SUBSET (1 .. n)]]
      BY <1>2, <2>2, <2>3
    <2> QED
      BY <1>2, <1>5, <2>4 DEF CloseDue, store
  <1>6. ASSUME NEW l \in Loops, Tick(l) PROVE Goal
    BY <1>3, <1>5, <1>6 DEF Tick, BeginTick, ReadFeatures, Hold, CheckNav, Enter, NoEntry,
       bandit, store
  <1>7. ASSUME NEW l \in Loops, NEW p, Replace(l, p) PROVE Goal
    <2>1. p[2] \in Symbols /\ evidence' = [evidence EXCEPT ![l][p[2]] = evidence[l][p[2]]]
      BY <1>7 DEF Replace, compute_replacements, admit_arm
    <2>2. evidence' = evidence
      BY <1>2, <2>1
    <2> QED
      BY <1>2, <1>7, <2>2 DEF Replace, store
  <1>8. ASSUME NEW l \in Loops, NEW selected, Fire(l, selected) PROVE Goal
    <2> DEFINE e == [a \in Symbols |-> IF a \in selected
                        THEN load_morning(a) \cup _replay_bandit_updates(a) ELSE {}]
    <2>1. \A a \in Symbols : _replay_bandit_updates(a) \in SUBSET (1 .. n)
      BY <1>1 DEF _replay_bandit_updates, ClosedOn, OfDay
    <2>2. e \in [Symbols -> SUBSET (1 .. n)]
      BY <1>2, <2>1 DEF load_morning
    <2>3. evidence' = [evidence EXCEPT ![l] = e] /\ UNCHANGED <<saved, stuck>>
      BY <1>8 DEF Fire
    <2> HIDE DEF e
    <2> QED
      BY <1>2, <2>2, <2>3
  <1>9. ASSUME NEW l \in Loops, FireFails(l) PROVE Goal
    BY <1>3, <1>9 DEF FireFails, bandit
  <1>10. ASSUME NEW l \in Loops, Eod(l) PROVE Goal
    <2>1. CASE BeginEod(l) \/ _finalize_day_state(l) \/ \E t \in todo[l] : EodClose(l, t)
      BY <1>3, <2>1 DEF BeginEod, EodClose, _finalize_day_state, bandit, store
    <2>2. CASE save_eod(l)
      <3>1. saved' \in [Symbols -> SUBSET (1 .. n)]
        BY <1>2, <2>2 DEF save_eod
      <3> QED
        BY <1>2, <1>4, <2>2, <3>1 DEF save_eod
    <2> QED
      BY <1>10, <2>1, <2>2 DEF Eod
  <1>11. ASSUME NEW l \in Loops, EodAborts(l) PROVE Goal
    BY <1>2, <1>4, <1>11 DEF EodAborts, store
  <1>12. ASSUME Crash PROVE Goal
    BY <1>2, <1>4, <1>12 DEF Crash, store
  <1>13. ASSUME NEW l \in Loops, NEW t \in todo[l], CloseFails(l, t) \/ EodCloseFails(l, t) PROVE Goal
    <2>1. UNCHANGED <<saved, evidence>> /\ (stuck' = stuck \/ stuck' = stuck \cup {t})
      BY <1>13 DEF CloseFails, EodCloseFails, bandit, store
    <2> QED
      BY <1>2, <2>1
  <1>14. ASSUME TimePasses \/ NextDay \/ UNCHANGED vars \/ \E resume : Boot(resume) PROVE Goal
    BY <1>3, <1>14 DEF TimePasses, NextDay, vars, Boot, bandit, store
  <1>15. Goal
    BY <1>6, <1>7, <1>8, <1>9, <1>10, <1>11, <1>12, <1>13, <1>14 DEF Next
  <1>16. 1 .. n \subseteq 1 .. Len(rows')
    BY <1>1
  <1> QED
    BY <1>15, <1>16 DEF Known

LEMMA CircuitChange ==
    ASSUME QuantAssumption, Typed, NEW c \in Circuits, NEW a \in Symbols
    PROVE  record_loss(c, a) \in Circuits /\ record_win(c, a) \in Circuits
  <1>1. CoolLosses \in Nat \ {0} /\ now + CoolTicks \in Nat
    BY Constants DEF QuantAssumption, Typed
  <1>2. /\ c = [kill |-> c.kill, lockin |-> c.lockin, losses |-> c.losses, until |-> c.until]
        /\ c.kill \in BOOLEAN /\ c.lockin \in BOOLEAN
        /\ c.losses \in [Symbols -> 0 .. CoolLosses - 1] /\ c.until \in [Symbols -> Nat]
    BY DEF Circuits
  <1>3. record_win(c, a) \in Circuits
    <2>1. [c.losses EXCEPT ![a] = 0] \in [Symbols -> 0 .. CoolLosses - 1]
      BY <1>1, <1>2
    <2> QED
      BY <1>2, <2>1 DEF record_win, Circuits
  <1>4. record_loss(c, a) \in Circuits
    <2>1. [c.losses EXCEPT ![a] = 0] \in [Symbols -> 0 .. CoolLosses - 1]
      BY <1>1, <1>2
    <2>2. [c.until EXCEPT ![a] = now + CoolTicks] \in [Symbols -> Nat]
      BY <1>1, <1>2
    <2>3. ~(c.losses[a] + 1 >= CoolLosses) =>
             [c.losses EXCEPT ![a] = c.losses[a] + 1] \in [Symbols -> 0 .. CoolLosses - 1]
      BY <1>1, <1>2
    <2> QED
      BY <1>2, <2>1, <2>2, <2>3 DEF record_loss, Circuits
  <1> QED
    BY <1>3, <1>4

LEMMA CircuitChecked ==
    ASSUME NEW c \in Circuits, NEW nav
    PROVE  check_and_fire(c, nav) \in Circuits
  BY DEF check_and_fire, Circuits

LEMMA CircuitStep ==
    ASSUME Typed, Rest, [Next]_vars
    PROVE  circuit' \in [Loops -> Circuits]
  <1>1. circuit \in [Loops -> Circuits]
    BY DEF Rest
  <1> DEFINE Goal == circuit' \in [Loops -> Circuits]
  <1>2. ASSUME UNCHANGED circuit PROVE Goal
    BY <1>1, <1>2
  <1>3. ASSUME NEW S, Forget(S) PROVE Goal
    <2>1. CircuitState \in Circuits
      BY QuantAssumption DEF CircuitState, Circuits
    <2> QED
      BY <1>1, <1>3, <2>1 DEF Forget
  <1>4. ASSUME NEW l \in Loops, NEW t \in todo[l], CloseDue(l, t) PROVE Goal
    <2>1. Arm(t) \in Symbols
      BY RowTyped DEF Typed
    <2>2. circuit' = [circuit EXCEPT ![l] = record_win(circuit[l], Arm(t))]
          \/ circuit' = [circuit EXCEPT ![l] = record_loss(circuit[l], Arm(t))]
      BY <1>4 DEF CloseDue
    <2>3. /\ record_win(circuit[l], Arm(t)) \in Circuits
          /\ record_loss(circuit[l], Arm(t)) \in Circuits
      BY <1>1, <2>1, QuantAssumption, CircuitChange
    <2> QED
      BY <1>1, <2>2, <2>3
  <1>5. ASSUME NEW l \in Loops, CheckNav(l) PROVE Goal
    <2>1. circuit' = [circuit EXCEPT ![l] = check_and_fire(circuit[l], NavChange(l))]
      BY <1>5 DEF CheckNav
    <2>2. check_and_fire(circuit[l], NavChange(l)) \in Circuits
      BY <1>1, CircuitChecked
    <2> QED
      BY <1>1, <2>1, <2>2
  <1>6. ASSUME NEW l \in Loops, Tick(l) PROVE Goal
    BY <1>2, <1>4, <1>5, <1>6 DEF Tick, BeginTick, ReadFeatures, Hold, Enter, NoEntry
  <1>7. ASSUME NEW l \in Loops, (\E p : Replace(l, p)) \/ (\E selected : Fire(l, selected))
                               \/ FireFails(l)
                               \/ \E t : CloseFails(l, t) \/ EodCloseFails(l, t)
        PROVE  Goal
    BY <1>2, <1>7 DEF Replace, Fire, FireFails, CloseFails, EodCloseFails
  <1>8. ASSUME NEW l \in Loops, Eod(l) \/ EodAborts(l) PROVE Goal
    BY <1>2, <1>3, <1>8 DEF Eod, BeginEod, EodClose, _finalize_day_state, save_eod, EodAborts
  <1>9. CASE Crash
    BY <1>3, <1>9 DEF Crash
  <1>10. CASE TimePasses \/ NextDay \/ UNCHANGED vars \/ \E resume : Boot(resume)
    BY <1>2, <1>10 DEF TimePasses, NextDay, vars, Boot
  <1> QED
    BY <1>6, <1>7, <1>8, <1>9, <1>10 DEF Next

LEMMA RealizedStep ==
    ASSUME Typed, Rest, [Next]_vars
    PROVE  realized' \in [Loops -> Int]
  <1>1. realized \in [Loops -> Int]
    BY DEF Rest
  <1> DEFINE Goal == realized' \in [Loops -> Int]
  <1>2. ASSUME UNCHANGED realized PROVE Goal
    BY <1>1, <1>2
  <1>3. ASSUME NEW S, Forget(S) PROVE Goal
    BY <1>1, <1>3 DEF Forget
  <1>4. ASSUME NEW l \in Loops, NEW t \in todo[l], CloseDue(l, t) \/ EodClose(l, t) PROVE Goal
    <2>1. Gain(l, t) \in Int
      BY GainTyped DEF Typed
    <2>2. realized' = [realized EXCEPT ![l] = realized[l] + Gain(l, t)]
      BY <1>4 DEF CloseDue, EodClose
    <2> QED
      BY <1>1, <2>1, <2>2
  <1>5. ASSUME NEW l \in Loops, NEW selected, Fire(l, selected) PROVE Goal
    <2>1. realized' = [realized EXCEPT ![l] = Realized(ClosedOn(day))]
      BY <1>5 DEF Fire, RecoveredPnl
    <2> QED
      BY <1>1, <2>1, ClosedTyped
  <1>6. ASSUME NEW l \in Loops, Tick(l) PROVE Goal
    BY <1>2, <1>4, <1>6 DEF Tick, BeginTick, ReadFeatures, Hold, CheckNav, Enter, NoEntry, book
  <1>7. ASSUME NEW l \in Loops, (\E p : Replace(l, p)) \/ FireFails(l)
                               \/ \E t : CloseFails(l, t) \/ EodCloseFails(l, t)
        PROVE  Goal
    BY <1>2, <1>7 DEF Replace, FireFails, CloseFails, EodCloseFails, book
  <1>8. ASSUME NEW l \in Loops, Eod(l) \/ EodAborts(l) PROVE Goal
    BY <1>2, <1>3, <1>4, <1>8 DEF Eod, BeginEod, _finalize_day_state, save_eod, EodAborts, book
  <1>9. CASE Crash
    BY <1>3, <1>9 DEF Crash
  <1>10. CASE TimePasses \/ NextDay \/ UNCHANGED vars \/ \E resume : Boot(resume)
    BY <1>2, <1>10 DEF TimePasses, NextDay, vars, Boot, book
  <1> QED
    BY <1>5, <1>6, <1>7, <1>8, <1>9, <1>10 DEF Next

(* A step writes the row of the day only at the bootstrap and at the end.  *)
LEMMA DayRowChange ==
    ASSUME [Next]_vars
    PROVE  \/ UNCHANGED dayRow
           \/ dayRow' = init_day
           \/ \E l \in Loops : _finalize_day_state(l)
  <1>1. ASSUME NEW l \in Loops, (\E selected : Fire(l, selected)) \/ FireFails(l)
        PROVE  UNCHANGED dayRow \/ dayRow' = init_day
    BY <1>1 DEF Fire, FireFails
  <1>2. ASSUME NEW l \in Loops,
               \/ Tick(l) \/ EodAborts(l) \/ BeginEod(l) \/ save_eod(l)
               \/ \E p : Replace(l, p)
               \/ \E t : CloseFails(l, t) \/ EodCloseFails(l, t) \/ EodClose(l, t)
        PROVE  UNCHANGED dayRow
    BY <1>2 DEF Tick, BeginTick, ReadFeatures, Hold, CloseDue, CheckNav, Enter, NoEntry,
       BeginEod, EodClose, save_eod, EodAborts, Replace, CloseFails, EodCloseFails, store
  <1>3. CASE Crash \/ TimePasses \/ NextDay \/ UNCHANGED vars \/ \E resume : Boot(resume)
    BY <1>3 DEF Crash, TimePasses, NextDay, vars, Boot, store
  <1> QED
    BY <1>1, <1>2, <1>3 DEF Next, Eod

LEMMA DayRowStep ==
    ASSUME Typed, Rest, [Next]_vars
    PROVE  dayRow' \in [1 .. MaxDays -> DayRows]
  <1>1. dayRow \in [1 .. MaxDays -> DayRows] /\ day \in 1 .. MaxDays
    BY DEF Rest, Typed
  <1>2. CASE dayRow' = init_day
    <2>1. NoDayRow \in DayRows /\ [NoDayRow EXCEPT !.begun = TRUE] \in DayRows
      <3>1. NoDayRow \in DayRows
        BY DEF NoDayRow, DayRows
      <3>2. \A x \in DayRows : [x EXCEPT !.begun = TRUE] \in DayRows
        BY DEF DayRows
      <3> QED
        BY <3>1, <3>2
    <2> QED
      BY <1>1, <1>2, <2>1 DEF init_day
  <1>3. ASSUME NEW l \in Loops, _finalize_day_state(l)
        PROVE  dayRow' \in [1 .. MaxDays -> DayRows]
    <2> DEFINE x == [begun |-> TRUE, done |-> TRUE, pnl |-> realized[l],
                     trade_count |-> Cardinality(OfDay(day))]
    <2>1. realized[l] \in Int /\ Cardinality(OfDay(day)) \in Nat
      BY ClosedTyped DEF Rest
    <2>2. x \in DayRows
      BY <2>1 DEF DayRows
    <2>3. dayRow' = [dayRow EXCEPT ![day] = IF dayRow[day].begun THEN x ELSE dayRow[day]]
      BY <1>3 DEF _finalize_day_state
    <2> HIDE DEF x
    <2> QED
      BY <1>1, <2>2, <2>3
  <1> QED
    BY <1>1, <1>2, <1>3, DayRowChange

LEMMA TickedStep ==
    ASSUME Typed, Rest, [Next]_vars
    PROVE  ticked' \in [Loops -> -1 .. HardExit] /\ faults' \in 0 .. MaxFaults
  <1>1. /\ ticked \in [Loops -> -1 .. HardExit] /\ faults \in 0 .. MaxFaults
        /\ HardExit \in Nat /\ now \in 0 .. HardExit /\ MaxFaults \in Nat
    BY QuantAssumption DEF Rest, Typed
  <1> DEFINE Goal == ticked' \in [Loops -> -1 .. HardExit] /\ faults' \in 0 .. MaxFaults
  <1>2. ASSUME UNCHANGED ticked \/ (\E S : Forget(S)), Fault \/ UNCHANGED faults PROVE Goal
    <2>1. ticked' \in [Loops -> -1 .. HardExit]
      BY <1>1, <1>2 DEF Forget
    <2>2. faults' \in 0 .. MaxFaults
      BY <1>1, <1>2 DEF Fault
    <2> QED
      BY <2>1, <2>2
  <1>3. ASSUME NEW l \in Loops, NEW k \in {now, now - 1}, ticked' = [ticked EXCEPT ![l] = k],
               UNCHANGED faults
        PROVE  Goal
    <2>1. k \in -1 .. HardExit
      BY <1>1
    <2> QED
      BY <1>1, <1>3, <2>1
  <1>4. ASSUME NEW l \in Loops, Tick(l) PROVE Goal
    BY <1>2, <1>3, <1>4 DEF Tick, BeginTick, ReadFeatures, Hold, CloseDue, CheckNav, Enter, NoEntry
  <1>5. ASSUME NEW l \in Loops, NEW selected, Fire(l, selected) PROVE Goal
    BY <1>3, <1>5 DEF Fire
  <1>6. ASSUME NEW l \in Loops, (\E p : Replace(l, p)) \/ FireFails(l)
                               \/ \E t : CloseFails(l, t) \/ EodCloseFails(l, t)
        PROVE  Goal
    BY <1>2, <1>6 DEF Replace, FireFails, CloseFails, EodCloseFails
  <1>7. ASSUME NEW l \in Loops, Eod(l) \/ EodAborts(l) PROVE Goal
    BY <1>2, <1>7 DEF Eod, BeginEod, EodClose, _finalize_day_state, save_eod, EodAborts
  <1>8. CASE Crash
    BY <1>2, <1>8 DEF Crash
  <1>9. CASE TimePasses \/ NextDay \/ UNCHANGED vars \/ \E resume : Boot(resume)
    BY <1>2, <1>9 DEF TimePasses, NextDay, vars, Boot
  <1> QED
    BY <1>4, <1>5, <1>6, <1>7, <1>8, <1>9 DEF Next

LEMMA RestStep ==
    ASSUME Typed, Rest, [Next]_vars
    PROVE  Rest'
  BY KnownStep, CircuitStep, RealizedStep, DayRowStep, TickedStep DEF Rest

LEMMA RestInit == Init => Rest
  <1> SUFFICES ASSUME Init PROVE Rest
    OBVIOUS
  <1>1. Known(Len(rows)) /\ realized \in [Loops -> Int]
    BY DEF Init, Known
  <1>2. circuit \in [Loops -> Circuits]
    BY QuantAssumption DEF Init, CircuitState, Circuits
  <1>3. dayRow \in [1 .. MaxDays -> DayRows]
    BY DEF Init, NoDayRow, DayRows
  <1>4. ticked \in [Loops -> -1 .. HardExit] /\ faults \in 0 .. MaxFaults
    BY QuantAssumption DEF Init
  <1> QED
    BY <1>1, <1>2, <1>3, <1>4 DEF Rest

(* Tables and local state have their types.                                *)
THEOREM TypeCorrect == Spec => []TypeOK
  <1>1. Typed /\ Rest => TypeOK
    <2> SUFFICES ASSUME Typed, Rest PROVE TypeOK
      OBVIOUS
    <2>1. DOMAIN rows = 1 .. Len(rows)
      BY DEF Typed
    <2>2. saved \in [Symbols -> SUBSET DOMAIN rows] /\ stuck \subseteq DOMAIN rows
          /\ evidence \in [Loops -> [Symbols -> SUBSET DOMAIN rows]]
      BY <2>1 DEF Rest, Known
    <2>3. /\ rows \in Seq(Row) /\ day \in 1 .. MaxDays /\ now \in 0 .. HardExit
          /\ up \in BOOLEAN /\ due \subseteq Loops /\ pc \in [Loops -> Labels]
          /\ universe \in [Loops -> SUBSET Symbols] /\ boot \in [Loops -> SUBSET Symbols]
          /\ quotes \in [Loops -> [Symbols -> Quotes \cup {Blank, NoBundle}]]
          /\ open \in [Loops -> SUBSET DOMAIN rows] /\ todo \in [Loops -> SUBSET DOMAIN rows]
      BY DEF Typed
    <2>4. /\ realized \in [Loops -> Int] /\ circuit \in [Loops -> Circuits]
          /\ dayRow \in [1 .. MaxDays -> DayRows]
          /\ ticked \in [Loops -> -1 .. HardExit] /\ faults \in 0 .. MaxFaults
      BY DEF Rest
    <2> QED
      BY <2>2, <2>3, <2>4 DEF TypeOK, Row, Labels, Circuits, DayRows
  <1> QED
    BY <1>1, TypedInit, TypedStep, RestInit, RestStep, PTL DEF Spec

-----------------------------------------------------------------------------
(* What a loop has earned.                                                 *)

Funded ==
    \A l \in Loops : pc[l] \in Live \cup {"eod"} => realized[l] = Realized(ClosedOn(day))

LEMMA FundedLoop ==
    ASSUME Typed, Rest, Mirror, Funded, NEW l \in Loops,
           \/ Tick(l) \/ Eod(l) \/ EodAborts(l)
           \/ \E p : Replace(l, p)
           \/ \E t \in todo[l] : CloseFails(l, t) \/ EodCloseFails(l, t),
           pc'[l] \in Live \cup {"eod"}
    PROVE  realized'[l] = Realized(ClosedOn(day))'
  <1>1. /\ pc \in [Loops -> Labels] /\ MirrorAt(l) /\ UNCHANGED day
        /\ pc[l] \in Live \cup {"eod"} => realized[l] = Realized(ClosedOn(day))
    BY LoopSteps DEF Typed, Mirror, Funded
  <1>2. ASSUME UNCHANGED <<rows, realized>>, pc[l] \in Live \cup {"eod"}
        PROVE  realized'[l] = Realized(ClosedOn(day))'
    BY <1>1, <1>2, SameMoney
  <1>3. CASE _finalize_day_state(l) \/ save_eod(l) \/ EodAborts(l)
    <2>1. pc'[l] \in {"save", "ended"}
      BY <1>1, <1>3 DEF _finalize_day_state, save_eod, EodAborts, Goto
    <2> QED
      BY <2>1 DEF Live
  <1>4. ASSUME NEW t \in todo[l], CloseDue(l, t) \/ EodClose(l, t)
        PROVE  realized'[l] = Realized(ClosedOn(day))'
    <2>1. /\ pc[l] \in {"manage", "eod"}
          /\ realized' = [realized EXCEPT ![l] = realized[l] + Gain(l, t)]
          /\ \/ close_trade(t, _get_premium_from_bundle(l, t), "exit")
             \/ close_trade(t, _get_premium_from_bundle(l, t), "time_stop")
      BY <1>4 DEF CloseDue, EodClose
    <2>2. Realized(ClosedOn(day))' = Realized(ClosedOn(day)) + Gain(l, t)
      BY <1>1, <2>1, ClosePays
    <2>3. realized'[l] = realized[l] + Gain(l, t)
      BY <2>1 DEF Rest
    <2> QED
      BY <1>1, <2>1, <2>2, <2>3 DEF Live
  <1>5. ASSUME NEW a, NEW lots, Enter(l, a, lots)
        PROVE  realized'[l] = Realized(ClosedOn(day))'
    <2>1. OpensRow(l) /\ realized' = realized /\ pc[l] \in Live
      BY <1>5, OpenEffect DEF Enter, Live
    <2>2. ClosedOn(day)' = ClosedOn(day)
      BY <1>1, <2>1, OpenMore
    <2>3. \A t \in ClosedOn(day) : rows'[t] = rows[t]
      <3>1. PICK r \in Row : rows' = Append(rows, r)
        BY <2>1 DEF OpensRow
      <3> QED
        BY <3>1 DEF Typed, ClosedOn, OfDay
    <2>4. Total(rows', ClosedOn(day)) = Total(rows, ClosedOn(day))
      BY <2>3, TotalSame
    <2> QED
      BY <1>1, <2>1, <2>2, <2>4, RealizedIsTotal
  <1>6. CASE BeginTick(l) \/ CheckNav(l) \/ NoEntry(l) \/ BeginEod(l)
    BY <1>2, <1>6 DEF BeginTick, CheckNav, NoEntry, BeginEod, book, Live
  <1>7. ASSUME NEW read, ReadFeatures(l, read)
        PROVE  realized'[l] = Realized(ClosedOn(day))'
    BY <1>2, <1>7 DEF ReadFeatures, book, Live
  <1>8. ASSUME NEW t, Hold(l, t) \/ CloseFails(l, t) \/ EodCloseFails(l, t)
        PROVE  realized'[l] = Realized(ClosedOn(day))'
    BY <1>2, <1>8 DEF Hold, CloseFails, EodCloseFails, book, Live
  <1>9. ASSUME NEW p, Replace(l, p)
        PROVE  realized'[l] = Realized(ClosedOn(day))'
    BY <1>2, <1>9 DEF Replace, book, Live
  <1> QED
    BY <1>3, <1>4, <1>5, <1>6, <1>7, <1>8, <1>9 DEF Tick, Eod

LEMMA FundedStep ==
    ASSUME Typed, Rest, Alone, Mirror, Funded, [Next]_vars
    PROVE  Funded'
  <1>1. ASSUME NEW l \in Loops,
               \/ Tick(l) \/ Eod(l) \/ EodAborts(l)
               \/ \E p : Replace(l, p)
               \/ \E t \in todo[l] : CloseFails(l, t) \/ EodCloseFails(l, t)
        PROVE  Funded'
    <2>1. pc'[l] \in Live \cup {"eod"} => realized'[l] = Realized(ClosedOn(day))'
      BY <1>1, FundedLoop
    <2>2. \A k \in Loops : k # l => pc'[k] \notin Live \cup {"eod"}
      BY <1>1, Others DEF Busy, Ending
    <2> QED
      BY <2>1, <2>2 DEF Funded
  <1>2. ASSUME NEW l \in Loops, NEW selected, Fire(l, selected) PROVE Funded'
    <2>1. l \in due /\ Goto(l, "wait") /\ UNCHANGED <<rows, day>>
          /\ realized' = [realized EXCEPT ![l] = Realized(ClosedOn(day))]
      BY <1>2 DEF Fire, Runnable, clock, RecoveredPnl
    <2>2. realized'[l] = Realized(ClosedOn(day)) /\ \A k \in Loops : k # l => pc'[k] = pc[k]
      BY <2>1 DEF Goto, Typed, Rest
    <2>3. \A k \in Loops : ~Busy(k)
      BY <2>1 DEF Alone, Typed
    <2>4. \A k \in Loops : k # l => pc'[k] \notin Live \cup {"eod"}
      BY <2>2, <2>3 DEF Busy, Ending
    <2> QED
      BY <2>1, <2>2, <2>4, SameMoney DEF Funded
  <1>3. CASE UNCHANGED <<rows, day, pc, realized>>
    BY <1>3, SameMoney DEF Funded
  <1>4. CASE \A l \in Loops : pc'[l] = "off"
    BY <1>4 DEF Funded, Live
  <1>5. CASE Crash \/ NextDay
    BY <1>4, <1>5 DEF Crash, NextDay
  <1>6. ASSUME NEW l \in Loops, FireFails(l) PROVE Funded'
    BY <1>3, <1>6 DEF FireFails, clock, book
  <1>7. ASSUME NEW resume, Boot(resume) PROVE Funded'
    BY <1>3, <1>7 DEF Boot, clock, book
  <1>8. CASE TimePasses \/ UNCHANGED vars
    BY <1>3, <1>8 DEF TimePasses, vars, clock, book
  <1> QED
    BY <1>1, <1>2, <1>5, <1>6, <1>7, <1>8 DEF Next

BookInv == LoopInv /\ Rest /\ Funded

LEMMA BookInvHolds ==
    ASSUME 0 \notin ResumeAt
    PROVE  Spec => []BookInv
  <1>1. Init => Funded
    BY DEF Init, Funded, Live
  <1>2. LoopInv /\ Rest /\ Funded /\ [Next]_vars => Funded'
    BY FundedStep DEF LoopInv
  <1>3. LoopInv /\ Rest /\ [Next]_vars => Rest'
    BY RestStep DEF LoopInv
  <1> QED
    BY <1>1, <1>2, <1>3, RestInit, LoopInvHolds, PTL DEF Spec, BookInv

(* Whatever crashes, resumes and failed closes a day has seen, the loop    *)
(* that runs manages exactly today's open rows, and the result it trades   *)
(* by is that of today's closed ones.                                      *)
THEOREM MemoryTrue ==
    ASSUME 0 \notin ResumeAt
    PROVE  Spec => []MemoryMirrorsLedger
  <1>1. BookInv => MemoryMirrorsLedger
    BY DEF BookInv, LoopInv, Mirror, MirrorAt, Funded, OpenToday, MemoryMirrorsLedger
  <1> QED
    BY <1>1, BookInvHolds, PTL

(* The rows of a day that was finalized stay as they are.                  *)
LEMMA DayOver ==
    ASSUME LoopInv, DoneInv, [Next]_vars, NEW d \in 1 .. MaxDays, dayRow[d].done
    PROVE  /\ OfDay(d)' = OfDay(d) /\ ClosedOn(d)' = ClosedOn(d)
           /\ Realized(ClosedOn(d))' = Realized(ClosedOn(d))
  <1>1. Typed /\ Mirror
    BY DEF LoopInv
  <1>2. OfDay(d)' = OfDay(d) /\ \A t \in OfDay(d) : rows'[t] = rows[t]
    <2>1. CASE UNCHANGED rows
      BY <2>1 DEF OfDay
    <2>2. ASSUME NEW l \in Loops, OpensRow(l), pc[l] = "enter"
          PROVE  OfDay(d)' = OfDay(d) /\ \A t \in OfDay(d) : rows'[t] = rows[t]
      <3>1. d # day
        BY <2>2 DEF DoneInv, Live
      <3>2. PICK r \in Row : rows' = Append(rows, r) /\ r.entry.day = day
        BY <2>2 DEF OpensRow
      <3>3. /\ DOMAIN rows' = DOMAIN rows \cup {Len(rows) + 1} /\ rows'[Len(rows) + 1] = r
            /\ \A t \in DOMAIN rows : rows'[t] = rows[t]
        BY <1>1, <3>2 DEF Typed
      <3> QED
        BY <3>1, <3>2, <3>3 DEF OfDay
    <2>3. ASSUME NEW l \in Loops, NEW u \in DOMAIN rows, ClosesRow(u), u \in todo[l],
                 pc[l] \in {"manage", "eod"}
          PROVE  OfDay(d)' = OfDay(d) /\ \A t \in OfDay(d) : rows'[t] = rows[t]
      <3>1. u \in OfDay(day)
        BY <1>1, <2>3 DEF Mirror, MirrorAt, OpenToday
      <3>2. d # day
        BY <2>3 DEF DoneInv, Live
      <3> QED
        BY <2>3, <3>1, <3>2 DEF ClosesRow, OfDay
    <2> QED
      BY <1>1, <2>1, <2>2, <2>3, RowStep
  <1>3. ClosedOn(d)' = ClosedOn(d) /\ \A t \in ClosedOn(d) : rows'[t] = rows[t]
    BY <1>2 DEF ClosedOn, IsOpen
  <1>4. Total(rows', ClosedOn(d)) = Total(rows, ClosedOn(d))
    BY <1>3, TotalSame
  <1> QED
    BY <1>2, <1>3, <1>4, RealizedIsTotal

LEMMA FinalStep ==
    ASSUME 0 \notin ResumeAt, BookInv, DoneInv, FinalNavExplained, [Next]_vars
    PROVE  FinalNavExplained'
  <1>1. /\ Typed /\ LoopInv /\ Funded /\ day \in 1 .. MaxDays
        /\ dayRow = [d \in 1 .. MaxDays |-> dayRow[d]]
    BY DEF BookInv, LoopInv, Typed
  <1>2. ASSUME NEW d \in 1 .. MaxDays, dayRow[d].done, dayRow'[d] = dayRow[d]
        PROVE  /\ dayRow'[d].pnl = Realized(ClosedOn(d))'
               /\ dayRow'[d].trade_count = Cardinality(OfDay(d))'
    BY <1>1, <1>2, DayOver DEF FinalNavExplained
  <1>3. CASE UNCHANGED dayRow
    BY <1>2, <1>3 DEF FinalNavExplained
  <1>4. CASE dayRow' = init_day
    <2>1. PICK x : /\ x = dayRow[day] \/ x = [NoDayRow EXCEPT !.begun = TRUE]
                   /\ dayRow' = [dayRow EXCEPT ![day] = x]
      BY <1>4 DEF init_day
    <2>2. [NoDayRow EXCEPT !.begun = TRUE].done = FALSE
      BY DEF NoDayRow
    <2>3. \A d \in 1 .. MaxDays : dayRow'[d] = IF d = day THEN x ELSE dayRow[d]
      BY <1>1, <2>1
    <2>4. \A d \in 1 .. MaxDays : dayRow'[d].done => dayRow'[d] = dayRow[d]
      BY <2>1, <2>2, <2>3
    <2> QED
      BY <1>2, <2>4 DEF FinalNavExplained
  <1>5. ASSUME NEW l \in Loops, _finalize_day_state(l) PROVE FinalNavExplained'
    <2> DEFINE x == [begun |-> TRUE, done |-> TRUE, pnl |-> realized[l],
                     trade_count |-> Cardinality(OfDay(day))]
    <2>1. /\ dayRow' = [dayRow EXCEPT ![day] = IF dayRow[day].begun THEN x ELSE dayRow[day]]
          /\ pc[l] = "eod" /\ UNCHANGED <<rows, day>>
      BY <1>5 DEF _finalize_day_state, clock, book
    <2>2. x.pnl = Realized(ClosedOn(day)) /\ x.trade_count = Cardinality(OfDay(day))
      BY <1>1, <2>1 DEF Funded
    <2>3. \A d \in 1 .. MaxDays : Realized(ClosedOn(d))' = Realized(ClosedOn(d))
                                  /\ OfDay(d)' = OfDay(d)
      BY <2>1 DEF Realized, Pnl, ClosedOn, OfDay, IsOpen
    <2> HIDE DEF x
    <2>4. \A d \in 1 .. MaxDays : dayRow'[d] = dayRow[d] \/ (d = day /\ dayRow'[d] = x)
      BY <1>1, <2>1
    <2> QED
      BY <1>2, <2>2, <2>3, <2>4 DEF FinalNavExplained
  <1> QED
    BY <1>3, <1>4, <1>5, DayRowChange

(* What quant_day_state says of a finalized day is what its trades say,    *)
(* however many loops the day had.                                         *)
THEOREM NavExplained ==
    ASSUME 0 \notin ResumeAt
    PROVE  Spec => []FinalNavExplained
  <1>1. Init => FinalNavExplained /\ DoneInv
    <2> SUFFICES ASSUME Init PROVE FinalNavExplained /\ DoneInv
      OBVIOUS
    <2>1. \A d \in 1 .. MaxDays : dayRow[d].done = FALSE
      BY DEF Init, NoDayRow
    <2>2. day \in 1 .. MaxDays
      BY Constants DEF Init
    <2> QED
      BY <2>1, <2>2 DEF DoneInv, DayEndsFlat, FinalNavExplained
  <1>2. BookInv => LoopInv
    BY DEF BookInv
  <1> QED
    BY <1>1, <1>2, BookInvHolds, DoneInvStep, FinalStep, PTL DEF Spec

-----------------------------------------------------------------------------
(* The kill line.                                                          *)

LEMMA MtmTyped ==
    ASSUME Typed, NEW l \in Loops
    PROVE  Mtm(l) \in Int
  <1> DEFINE S == {t \in open[l] : Quoted(l, t)}
             f == [t \in S |-> (_get_premium_from_bundle(l, t) - rows[t].entry.premium)
                                 * rows[t].entry.lots]
  <1>1. S \subseteq open[l]
    OBVIOUS
  <1>2. IsFiniteSet(S)
    BY <1>1, Counted, FS_Subset
  <1>3. \A t \in S : f[t] \in Int
    <2>1. \A t \in open[l] : Gain(l, t) \in Int
      BY GainTyped DEF Typed
    <2> QED
      BY <1>1, <2>1 DEF Gain
  <1>4. Mtm(l) = SumFunctionOnSet(f, S)
    BY DEF Mtm, SumFunction
  <1> HIDE DEF S, f
  <1> QED
    BY <1>2, <1>3, <1>4, SumInt

\* between the check of the NAV and the entry nothing moves
AboveLine == \A l \in Loops : pc[l] = "enter" => NavChange(l) > -KillLoss

LEMMA AboveLineStep ==
    ASSUME Typed, Rest, Alone, AboveLine, [Next]_vars
    PROVE  AboveLine'
  <1>1. /\ pc \in [Loops -> Labels] /\ KillLoss \in Int
        /\ circuit \in [Loops -> Circuits] /\ realized \in [Loops -> Int]
    BY QuantAssumption DEF Typed, Rest
  <1>2. ASSUME UNCHANGED <<realized, rows, open, quotes, universe>>
        PROVE  \A l \in Loops : NavChange(l)' = NavChange(l)
    BY <1>2 DEF NavChange, Mtm, Quoted, _get_premium_from_bundle, Arm
  <1>3. ASSUME NEW l \in Loops,
               \/ Tick(l) \/ Eod(l) \/ EodAborts(l)
               \/ \E p : Replace(l, p)
               \/ \E t \in todo[l] : CloseFails(l, t) \/ EodCloseFails(l, t)
        PROVE  AboveLine'
    <2>1. \A k \in Loops : k # l => pc'[k] # "enter"
      BY <1>3, Others DEF Busy, Live
    <2>2. CASE CheckNav(l)
      <3> DEFINE c == check_and_fire(circuit[l], NavChange(l))
      <3>1. /\ pc' = [pc EXCEPT ![l] = IF Blocked(l, c) THEN "wait" ELSE "enter"]
            /\ UNCHANGED <<realized, rows, open, quotes, universe>>
        BY <2>2 DEF CheckNav, Goto, book, bandit
      <3>2. c.kill = (circuit[l].kill \/ NavChange(l) <= -KillLoss)
        <4>1. circuit[l] \in Circuits
          BY <1>1
        <4>2. circuit[l] = [kill |-> circuit[l].kill, lockin |-> circuit[l].lockin,
                            losses |-> circuit[l].losses, until |-> circuit[l].until]
          BY <4>1 DEF Circuits
        <4> QED
          BY <4>2 DEF check_and_fire
      <3>3. pc'[l] = "enter" => ~c.kill
        BY <1>1, <3>1 DEF Blocked
      <3>4. NavChange(l) \in Int
        BY <1>1, MtmTyped DEF NavChange
      <3>5. pc'[l] = "enter" => NavChange(l) > -KillLoss
        <4>1. ~c.kill => ~(NavChange(l) <= -KillLoss)
          BY <3>2
        <4>2. ~(NavChange(l) <= -KillLoss) => NavChange(l) > -KillLoss
          BY <1>1, <3>4
        <4> QED
          BY <3>3, <4>1, <4>2
      <3>6. NavChange(l)' = NavChange(l)
        BY <1>2, <3>1
      <3> QED
        BY <2>1, <3>5, <3>6 DEF AboveLine
    <2>3. CASE ~CheckNav(l)
      <3>1. pc'[l] # "enter"
        BY <1>1, <1>3, <2>3 DEF Tick, BeginTick, ReadFeatures, Hold, CloseDue, Enter, NoEntry,
           Eod, BeginEod, EodClose, _finalize_day_state, save_eod, EodAborts, Replace,
           CloseFails, EodCloseFails, Goto
      <3> QED
        BY <2>1, <3>1 DEF AboveLine
    <2> QED
      BY <2>2, <2>3
  <1>4. ASSUME NEW l \in Loops, NEW selected, Fire(l, selected) PROVE AboveLine'
    <2>1. l \in due /\ pc' = [pc EXCEPT ![l] = "wait"]
      BY <1>4 DEF Fire, Runnable, Goto
    <2>2. \A k \in Loops : pc[k] # "enter"
      BY <2>1 DEF Alone, Busy, Live
    <2>3. \A k \in Loops : pc'[k] # "enter"
      BY <1>1, <2>1, <2>2
    <2> QED
      BY <2>3 DEF AboveLine
  <1>5. CASE UNCHANGED <<pc, realized, rows, open, quotes, universe>>
    BY <1>2, <1>5 DEF AboveLine
  <1>6. CASE Crash \/ NextDay
    <2>1. \A k \in Loops : pc'[k] = "off"
      BY <1>6 DEF Crash, NextDay
    <2> QED
      BY <2>1 DEF AboveLine
  <1>7. ASSUME NEW l \in Loops, FireFails(l) PROVE AboveLine'
    BY <1>5, <1>7 DEF FireFails, book, bandit
  <1>8. ASSUME NEW resume, Boot(resume) PROVE AboveLine'
    BY <1>5, <1>8 DEF Boot, book, bandit
  <1>9. CASE TimePasses \/ UNCHANGED vars
    BY <1>5, <1>9 DEF TimePasses, vars, book, bandit
  <1> QED
    BY <1>3, <1>4, <1>6, <1>7, <1>8, <1>9 DEF Next

(* No position is opened at or below the kill line, and the result that is *)
(* compared with it includes what earlier loops of the day lost.           *)
THEOREM DrawdownStops ==
    ASSUME 0 \notin ResumeAt
    PROVE  Spec => DrawdownStopsEntries
  <1>1. Init => AboveLine
    BY DEF Init, AboveLine
  <1>2. BookInv /\ AboveLine /\ [Next]_vars => AboveLine'
    BY AboveLineStep DEF BookInv, LoopInv
  <1>3. ASSUME BookInv, AboveLine, NEW l \in Loops, pc[l] = "enter"
        PROVE  Realized(ClosedOn(day)) + Mtm(l) > -KillLoss
    BY <1>3 DEF BookInv, Funded, AboveLine, NavChange, Live
  <1>4. BookInv /\ AboveLine /\ [Next]_vars =>
          [\A l \in Loops : pc[l] = "enter" /\ Len(rows') > Len(rows) =>
              Realized(ClosedOn(day)) + Mtm(l) > -KillLoss]_vars
    BY <1>3
  <1> QED
    BY <1>1, <1>2, <1>4, BookInvHolds, PTL DEF Spec, DrawdownStopsEntries

=============================================================================
