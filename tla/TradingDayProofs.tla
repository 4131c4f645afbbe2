--------------------------- MODULE TradingDayProofs ---------------------------
(* Theorems of TradingDay, for every day, horizon, grace, budget, cap and  *)
(* bound.                                                                  *)
EXTENDS TradingDay, SequenceTheorems, FiniteSetTheorems, TLAPS

RunRecord ==
    [pc : {"off", "topup", "topped", "cap", "decide", "act",
           "commit", "note", "pushing", "counts", "log"},
     loaded : Int, decision : Nat, action : {"BUY", "SELL", "HOLD"},
     executed : Nat]

DecisionRecord == [type : Jobs, traded : Nat, executed : Nat, counted : BOOLEAN]

ProcessTyped ==
    /\ day \in Days
    /\ mode \in {"down", "starting", "up", "blind"}
    /\ clock \in Nat /\ born \in Nat /\ born <= clock /\ lives \in Nat
    /\ catchups \subseteq [job : DAILY_CRITICAL, life : Nat]
    /\ begun \in [Slots -> Nat] /\ unscheduled \subseteq DAILY_CRITICAL
    /\ done \in [DAILY_CRITICAL -> Nat]
    /\ faults \in Nat

BookTyped ==
    /\ run \in [Slots -> RunRecord]
    /\ cash \in Int /\ topups \in Nat /\ held \in Nat
    /\ bought \in Nat /\ sold \in Nat
    /\ decisions \in Seq(DecisionRecord)
    /\ overlapped \in BOOLEAN

Typed == ProcessTyped /\ BookTyped

-----------------------------------------------------------------------------
LEMMA SlotJobs ==
    /\ \A s \in Slots : Job(s) \in Jobs
    /\ \A j \in Jobs : <<j, "cron">> \in Slots /\ Job(<<j, "cron">>) = j
    /\ \A j \in DAILY_CRITICAL : <<j, "catchup">> \in Slots /\ Job(<<j, "catchup">>) = j
    /\ \A s \in Slots : Job(s) = "intraday" => s = <<"intraday", "cron">>
    /\ DAILY_CRITICAL \subseteq Jobs
  BY DEF Slots, Job, Jobs, DAILY_CRITICAL

LEMMA EntryTyped ==
    /\ Off \in RunRecord /\ Off.pc = "off"
    /\ \A j \in Jobs : /\ Entry(j) \in RunRecord
                       /\ Entry(j).pc = CASE j = "morning"  -> "topup"
                                          [] j = "intraday" -> "cap"
                                          [] j = "eod"      -> "decide"
                       /\ Entry(j).executed = 0
                       /\ Entry(j).loaded = 0
  BY DEF Off, Entry, RunRecord, Jobs

(* One field of the record of one slot.                                    *)
LEMMA RunFields ==
    ASSUME NEW f \in [Slots -> RunRecord], NEW s \in Slots
    PROVE  /\ \A label \in {"act", "commit", "note", "pushing", "counts", "topped"} :
                 [f EXCEPT ![s].pc = label] \in [Slots -> RunRecord]
           /\ \A x \in Int : [f EXCEPT ![s].loaded = x] \in [Slots -> RunRecord]
           /\ \A d \in Nat : [f EXCEPT ![s].decision = d] \in [Slots -> RunRecord]
           /\ \A a \in {"HOLD", "BUY", "SELL"} :
                 [f EXCEPT ![s].action = a] \in [Slots -> RunRecord]
           /\ \A n \in Nat : [f EXCEPT ![s].executed = n] \in [Slots -> RunRecord]
  <1>1. \A label \in {"act", "commit", "note", "pushing", "counts", "topped"} :
           [f EXCEPT ![s].pc = label] \in [Slots -> RunRecord]
    BY DEF RunRecord
  <1>2. \A x \in Int : [f EXCEPT ![s].loaded = x] \in [Slots -> RunRecord]
    BY DEF RunRecord
  <1>3. \A d \in Nat : [f EXCEPT ![s].decision = d] \in [Slots -> RunRecord]
    BY DEF RunRecord
  <1>4. \A a \in {"HOLD", "BUY", "SELL"} :
           [f EXCEPT ![s].action = a] \in [Slots -> RunRecord]
    BY DEF RunRecord
  <1>5. \A n \in Nat : [f EXCEPT ![s].executed = n] \in [Slots -> RunRecord]
    BY DEF RunRecord
  <1> QED
    BY <1>1, <1>2, <1>3, <1>4, <1>5

(* One field of one decision.                                              *)
LEMMA DecisionFields ==
    ASSUME NEW f \in Seq(DecisionRecord), NEW d
    PROVE  /\ \A n : (d \in DOMAIN f => n \in Nat) =>
                 /\ [f EXCEPT ![d].traded = n] \in Seq(DecisionRecord)
                 /\ [f EXCEPT ![d].executed = n] \in Seq(DecisionRecord)
           /\ [f EXCEPT ![d].counted = TRUE] \in Seq(DecisionRecord)
  <1>1. \A k \in DOMAIN f : f[k] \in DecisionRecord
    OBVIOUS
  <1>2. ASSUME NEW x \in DecisionRecord, NEW n \in Nat
        PROVE  /\ [x EXCEPT !.traded = n] \in DecisionRecord
               /\ [x EXCEPT !.executed = n] \in DecisionRecord
               /\ [x EXCEPT !.counted = TRUE] \in DecisionRecord
    BY DEF DecisionRecord
  <1>3. ASSUME NEW c \in DecisionRecord
        PROVE  [f EXCEPT ![d] = c] \in Seq(DecisionRecord)
    <2>1. CASE d \in DOMAIN f
      <3>1. d \in 1 .. Len(f)
        BY <2>1
      <3> QED
        BY <3>1, ExceptSeq
    <2>2. CASE d \notin DOMAIN f
      <3>1. [f EXCEPT ![d] = c] = f
        BY <2>2
      <3> QED
        BY <3>1
    <2> QED
      BY <2>1, <2>2
  <1>4. d \notin DOMAIN f => \A c : [f EXCEPT ![d] = c] = f
    OBVIOUS
  <1> QED
    BY <1>1, <1>2, <1>3, <1>4

LEMMA LeftTyped == \A h \in Nat : Left(h) \in Nat /\ Left(h) <= h
  <1> SUFFICES ASSUME NEW h \in Nat PROVE Left(h) \in Nat /\ Left(h) <= h
    OBVIOUS
  <1>1. \E m \in {0, h - 1} : \A y \in {0, h - 1} : m >= y
    OBVIOUS
  <1>2. /\ Max({0, h - 1}) \in {0, h - 1}
        /\ \A y \in {0, h - 1} : Max({0, h - 1}) >= y
    BY <1>1, Zenon DEF Max
  <1> QED
    BY <1>2 DEF Left

LEMMA TypedInit == Init => Typed
  <1> SUFFICES ASSUME Init PROVE Typed
    OBVIOUS
  <1>1. ProcessTyped
    BY DEF Init, ProcessTyped
  <1>2. day.held \in Nat /\ InitialCash \in Nat
    BY DayAssumption DEF Init
  <1>3. run \in [Slots -> RunRecord] /\ decisions \in Seq(DecisionRecord)
    BY EntryTyped DEF Init
  <1>4. BookTyped
    <2>1. overlapped \in BOOLEAN
      BY DEF Init
    <2>2. /\ cash \in Int /\ topups \in Nat /\ held \in Nat
          /\ bought \in Nat /\ sold \in Nat
      BY <1>2 DEF Init
    <2> QED
      BY <1>3, <2>1, <2>2 DEF BookTyped
  <1> QED
    BY <1>1, <1>4 DEF Typed

(* A new run starts at the entry of its job.                               *)
LEMMA StartTyped ==
    ASSUME Typed, NEW s \in Slots, Start(s)
    PROVE  /\ run' \in [Slots -> RunRecord]
           /\ begun' \in [Slots -> Nat]
  BY EntryTyped, SlotJobs DEF Start, Typed, ProcessTyped, BookTyped

LEMMA ProcessSteps ==
    ASSUME Typed,
           \/ build_scheduler \/ reconcile_missed \/ Tick \/ Down
           \/ \E j \in Jobs : Fire(j)
           \/ \E j \in DAILY_CRITICAL : CatchUp(j)
    PROVE  Typed'
  <1>1. CASE build_scheduler
    BY <1>1 DEF build_scheduler, Typed, ProcessTyped, BookTyped, book
  <1>2. CASE reconcile_missed
    <2>1. ASSUME NEW K \in SUBSET DAILY_CRITICAL, Schedule(K)
          PROVE  catchups' \subseteq [job : DAILY_CRITICAL, life : Nat]
      BY <2>1 DEF Schedule, Typed, ProcessTyped
    <2>2. catchups' \subseteq [job : DAILY_CRITICAL, life : Nat]
      BY <1>2, <2>1 DEF reconcile_missed, DAILY_CRITICAL
    <2>3. unscheduled' \subseteq DAILY_CRITICAL
      <3>1. CASE UNCHANGED unscheduled
        BY <3>1 DEF Typed, ProcessTyped
      <3>2. CASE \E lost \in SUBSET {j \in DAILY_CRITICAL : Missed(j)} : unscheduled' = lost
        BY <3>2
      <3> QED
        BY <1>2, <3>1, <3>2 DEF reconcile_missed
    <2>4. faults' \in Nat
      <3>1. UNCHANGED faults \/ Fault
        BY <1>2 DEF reconcile_missed
      <3> QED
        BY <3>1 DEF Fault, Typed, ProcessTyped
    <2> QED
      BY <1>2, <2>2, <2>3, <2>4 DEF reconcile_missed, Typed, ProcessTyped, BookTyped, book
  <1>3. CASE Tick
    BY <1>3 DEF Tick, Typed, ProcessTyped, BookTyped, book
  <1>4. CASE Down
    BY <1>4, EntryTyped DEF Down, Fault, Typed, ProcessTyped, BookTyped, book
  <1>5. ASSUME NEW j \in Jobs, Fire(j) PROVE Typed'
    <2>1. run' \in [Slots -> RunRecord] /\ begun' \in [Slots -> Nat]
      BY <1>5, StartTyped, SlotJobs DEF Fire, Typed, ProcessTyped, BookTyped
    <2> QED
      BY <1>5, <2>1 DEF Fire, Typed, ProcessTyped, BookTyped, book
  <1>6. ASSUME NEW j \in DAILY_CRITICAL, CatchUp(j) PROVE Typed'
    <2>1. run' \in [Slots -> RunRecord] /\ begun' \in [Slots -> Nat]
      BY <1>6, StartTyped, SlotJobs DEF CatchUp
    <2> QED
      BY <1>6, <2>1 DEF CatchUp, Typed, ProcessTyped, BookTyped, book
  <1> QED
    BY <1>1, <1>2, <1>3, <1>4, <1>5, <1>6

(* What a run keeps when only its own record and the book change.          *)
LEMMA RunTyped ==
    ASSUME Typed, UNCHANGED <<clock, process, done>>,
           run' \in [Slots -> RunRecord], decisions' \in Seq(DecisionRecord),
           cash' \in Int, topups' \in Nat, held' \in Nat, bought' \in Nat,
           sold' \in Nat, overlapped' \in BOOLEAN, faults' \in Nat
    PROVE  Typed'
  BY DEF Typed, ProcessTyped, BookTyped, process

(* One turn of a run, or its failure.                                      *)
LEMMA RunSteps ==
    ASSUME Typed, NEW s \in Slots, Step(s) \/ Fails(s)
    PROVE  Typed'
  <1>1. /\ run \in [Slots -> RunRecord] /\ decisions \in Seq(DecisionRecord)
        /\ cash \in Int /\ topups \in Nat /\ held \in Nat /\ bought \in Nat
        /\ sold \in Nat /\ overlapped \in BOOLEAN /\ faults \in Nat
        /\ clock \in Nat /\ done \in [DAILY_CRITICAL -> Nat]
    BY DEF Typed, ProcessTyped, BookTyped
  <1>2. ASSUME NEW label \in {"cap", "decide", "act", "note", "pushing", "counts", "log",
                             "topped", "commit"},
               Goto(s, label)
        PROVE  run' \in [Slots -> RunRecord]
    BY <1>1, <1>2 DEF Goto, RunRecord
  <1>3. ASSUME NEW label \in {"topped", "commit"}, Load(s, label)
        PROVE  run' \in [Slots -> RunRecord] /\ overlapped' \in BOOLEAN
    <2>1. run' = [run EXCEPT ![s].pc = label, ![s].loaded = cash]
      BY <1>3 DEF Load
    <2>2. run' \in [Slots -> RunRecord]
      BY <1>1, <2>1, RunFields
    <2> QED
      BY <1>3, <2>2 DEF Load
  <1>4. CASE topup_daily_budget(s)
    <2>1. Entry("eod") \in RunRecord /\ Budget \in Nat
      BY EntryTyped, DayAssumption DEF Jobs
    <2>2. CASE Load(s, "topped") /\ UNCHANGED <<cash, topups, held, bought, sold, decisions, faults>>
      BY <1>1, <1>3, <1>4, <2>2, RunTyped DEF topup_daily_budget
    <2>3. CASE run[s].pc = "topped" /\ cash' = run[s].loaded + Budget
      <3>1. run[s].loaded \in Int
        BY <1>1 DEF RunRecord
      <3>2. run' \in [Slots -> RunRecord]
        BY <1>1, <1>4, <2>1, <2>3 DEF topup_daily_budget
      <3> QED
        BY <1>1, <1>4, <2>1, <2>3, <3>1, <3>2, RunTyped DEF topup_daily_budget
    <2> QED
      BY <1>4, <2>2, <2>3 DEF topup_daily_budget
  <1>5. CASE CheckCap(s)
    BY <1>1, <1>2, <1>5, RunTyped DEF CheckCap, book
  <1>6. CASE _decide(s)
    <2>1. PICK a \in {"HOLD", "BUY", "SELL"} :
             run' = [run EXCEPT ![s].pc = "act", ![s].action = a,
                                ![s].decision = Len(decisions) + 1]
      BY <1>6 DEF _decide, filter_equity_actions
    <2>2. Len(decisions) + 1 \in Nat
      BY <1>1
    <2>3. run' \in [Slots -> RunRecord]
      BY <1>1, <2>1, <2>2, RunFields
    <2>4. [type |-> Job(s), traded |-> 0, executed |-> 0, counted |-> FALSE] \in DecisionRecord
      BY SlotJobs DEF DecisionRecord
    <2>5. decisions' \in Seq(DecisionRecord)
      BY <1>1, <1>6, <2>4 DEF _decide
    <2>6. faults' \in Nat
      BY <1>1, <1>6 DEF _decide, Fault
    <2> QED
      BY <1>1, <1>6, <2>3, <2>5, <2>6, RunTyped DEF _decide
  <1>7. CASE Skip(s)
    BY <1>1, <1>2, <1>7, RunTyped DEF Skip, book
  <1>8. CASE LoadPortfolio(s)
    BY <1>1, <1>3, <1>8, RunTyped DEF LoadPortfolio
  <1>9. CASE CommitTrade(s)
    <2>1. PICK label \in {"note", "counts"} :
             run' = [run EXCEPT ![s].pc = label, ![s].loaded = 0]
      BY <1>9 DEF CommitTrade
    <2>2. run' \in [Slots -> RunRecord]
      <3> DEFINE half == [run EXCEPT ![s].pc = label]
      <3>1. half \in [Slots -> RunRecord]
        BY <1>1, RunFields
      <3>2. run' = [half EXCEPT ![s].loaded = 0]
        BY <2>1
      <3> HIDE DEF half
      <3> QED
        BY <3>1, <3>2, 0 \in Int, RunFields DEF half
    <2>3. decisions' = decisions
            \/ decisions' = [decisions EXCEPT ![run[s].decision].traded = @ + 1]
      BY <1>9 DEF CommitTrade
    <2>4. decisions' \in Seq(DecisionRecord)
      <3>1. run[s].decision \in DOMAIN decisions
              => decisions[run[s].decision].traded + 1 \in Nat
        <4>1. \A k \in DOMAIN decisions : decisions[k] \in DecisionRecord
          BY <1>1
        <4> QED
          BY <4>1 DEF DecisionRecord
      <3> DEFINE n == decisions[run[s].decision].traded + 1
      <3>2. CASE decisions' = [decisions EXCEPT ![run[s].decision].traded = n]
        <4>1. run[s].decision \in DOMAIN decisions => n \in Nat
          BY <3>1
        <4> HIDE DEF n
        <4> QED
          BY <1>1, <3>2, <4>1, DecisionFields
      <3> QED
        BY <1>1, <2>3, <3>2
    <2>5. Left(held) \in Nat
      BY <1>1, LeftTyped
    <2>6. run[s].loaded \in Int
      BY <1>1 DEF RunRecord
    <2>7. cash' \in Int
      BY <1>1, <1>9, <2>6 DEF CommitTrade
    <2>8. held' \in Nat
      BY <1>1, <1>9, <2>5 DEF CommitTrade
    <2>9. bought' \in Nat /\ sold' \in Nat /\ faults' \in Nat
      BY <1>1, <1>9 DEF CommitTrade, Fault
    <2> QED
      BY <1>1, <1>9, <2>2, <2>4, <2>7, <2>8, <2>9, RunTyped DEF CommitTrade
  <1>10. CASE Notify(s)
    <2>1. run' \in [Slots -> RunRecord]
      BY <1>2, <1>10 DEF Notify
    <2> QED
      BY <1>1, <1>10, <2>1, RunTyped DEF Notify, Fault, book
  <1>11. CASE Return(s)
    <2>1. run' = [run EXCEPT ![s].pc = "counts",
                        ![s].executed = IF push[s].pc = "off" THEN @ + 1 ELSE @]
      BY <1>11 DEF Return
    <2>2. [run EXCEPT ![s].pc = "counts"] \in [Slots -> RunRecord]
      BY <1>1, RunFields
    <2>3. [run EXCEPT ![s].pc = "counts"][s].executed \in Nat
      BY <2>2 DEF RunRecord
    <2>4. run' \in [Slots -> RunRecord]
      <3> DEFINE half == [run EXCEPT ![s].pc = "counts"]
                 n == IF push[s].pc = "off" THEN half[s].executed + 1 ELSE half[s].executed
      <3>1. run' = [half EXCEPT ![s].executed = n]
        BY <2>1
      <3>2. n \in Nat
        BY <2>3
      <3> HIDE DEF half, n
      <3> QED
        BY <2>2, <3>1, <3>2, RunFields DEF half
    <2> QED
      BY <1>1, <1>11, <2>4, RunTyped DEF Return, book
  <1>12. CASE _update_decision_counts(s)
    <2>1. [Off EXCEPT !.pc = "log"] \in RunRecord
      BY DEF Off, RunRecord
    <2>2. run' \in [Slots -> RunRecord]
      BY <1>1, <1>12, <2>1 DEF _update_decision_counts
    <2>3. run[s].executed \in Nat
      BY <1>1 DEF RunRecord
    <2>4. decisions' = [decisions EXCEPT ![run[s].decision].executed = run[s].executed,
                                         ![run[s].decision].counted = TRUE]
      BY <1>12 DEF _update_decision_counts, Executed
    <2>5. decisions' \in Seq(DecisionRecord)
      <3> DEFINE half == [decisions EXCEPT ![run[s].decision].executed = run[s].executed]
      <3>1. half \in Seq(DecisionRecord)
        BY <1>1, <2>3, DecisionFields
      <3>2. decisions' = [half EXCEPT ![run[s].decision].counted = TRUE]
        BY <2>4
      <3> HIDE DEF half
      <3> QED
        BY <3>1, <3>2, DecisionFields
    <2> QED
      BY <1>1, <1>12, <2>2, <2>5, RunTyped DEF _update_decision_counts
  <1>13. CASE _logged(s)
    BY <1>1, <1>13, EntryTyped, SMTT(60) DEF _logged, Fault, book, Typed, ProcessTyped, BookTyped, process
  <1>14. CASE Fails(s)
    BY <1>1, <1>14, EntryTyped, RunTyped DEF Fails, Fault, book
  <1> QED
    BY <1>4, <1>5, <1>6, <1>7, <1>8, <1>9, <1>10, <1>11, <1>12, <1>13, <1>14 DEF Step

LEMMA TypedStep == Typed /\ [Next]_vars => Typed'
  <1> SUFFICES ASSUME Typed, [Next]_vars PROVE Typed'
    OBVIOUS
  <1>1. CASE RunPushJob
    BY <1>1 DEF RunPushJob, Typed, ProcessTyped, BookTyped, process, book
  <1>2. ASSUME NEW p \in Pushers, Push(p) PROVE Typed'
    BY <1>2 DEF Push, Fault, Typed, ProcessTyped, BookTyped, process, book
  <1>3. CASE UNCHANGED vars
    BY <1>3 DEF vars, Typed, ProcessTyped, BookTyped, process, book
  <1> QED
    BY <1>1, <1>2, <1>3, ProcessSteps, RunSteps DEF Next

-----------------------------------------------------------------------------
(* What a run does to the process and to job_log: it moves on, ends, or    *)
(* writes its row.                                                         *)

MovesOn(s) ==
    /\ \/ run[s].pc = "topup" /\ run'[s].pc = "topped"
       \/ run[s].pc = "cap" /\ run'[s].pc = "log"
       \/ run'[s].pc \in {"decide", "act", "commit", "note", "pushing", "counts"}
    /\ UNCHANGED <<ended, done>>

ComesToItsEnd(s) ==
    /\ run'[s].pc = "log"
    /\ ended' = ended \cup ({Job(s)} \cap DAILY_CRITICAL)
    /\ UNCHANGED done

Stops(s) ==
    /\ run'[s].pc = "off"
    /\ UNCHANGED ended
    /\ \/ UNCHANGED done
       \/ /\ run[s].pc = "log"
          /\ done' = [j \in DAILY_CRITICAL |-> IF j = Job(s) THEN clock ELSE done[j]]

LEMMA RunEffect ==
    ASSUME Typed, NEW s \in Slots, Step(s) \/ Fails(s)
    PROVE  /\ UNCHANGED <<clock, process, begunToday, cancelled>>
           /\ \A t \in Slots : t # s => run'[t] = run[t]
           /\ run[s].pc # "off"
           /\ MovesOn(s) \/ ComesToItsEnd(s) \/ Stops(s)
  <1> DEFINE Goal == /\ UNCHANGED <<clock, process, begunToday, cancelled>>
                     /\ \A t \in Slots : t # s => run'[t] = run[t]
                     /\ run[s].pc # "off"
                     /\ MovesOn(s) \/ ComesToItsEnd(s) \/ Stops(s)
  <1>1. run \in [Slots -> RunRecord]
    BY DEF Typed, BookTyped
  <1>2. /\ \A label : Goto(s, label) =>
                /\ run'[s].pc = label
                /\ \A t \in Slots : t # s => run'[t] = run[t]
        /\ \A label : Load(s, label) =>
                /\ run'[s].pc = label
                /\ \A t \in Slots : t # s => run'[t] = run[t]
    BY <1>1 DEF Goto, Load, RunRecord
  <1>3. CASE topup_daily_budget(s)
    <2>1. CASE run[s].pc = "topup" /\ Load(s, "topped")
      BY <1>2, <1>3, <2>1 DEF topup_daily_budget, MovesOn, history
    <2>2. CASE run[s].pc = "topped" /\ run' = [run EXCEPT ![s] = Entry("eod")]
      <3>1. Entry("eod").pc = "decide"
        BY DEF Entry, Off
      <3> QED
        BY <1>1, <1>3, <2>2, <3>1 DEF topup_daily_budget, MovesOn, history
    <2> QED
      BY <1>3, <2>1, <2>2 DEF topup_daily_budget
  <1>4. CASE CheckCap(s)
    BY <1>2, <1>4 DEF CheckCap, MovesOn, history
  <1>5. CASE _decide(s)
    <2>1. PICK a : run' = [run EXCEPT ![s].pc = "act", ![s].action = a,
                                      ![s].decision = Len(decisions) + 1]
      BY <1>5 DEF _decide
    <2>2. run'[s].pc = "act" /\ \A t \in Slots : t # s => run'[t] = run[t]
      BY <1>1, <2>1 DEF RunRecord
    <2> QED
      BY <1>5, <2>2 DEF _decide, MovesOn, history
  <1>6. CASE Skip(s)
    BY <1>2, <1>6 DEF Skip, MovesOn, history
  <1>7. CASE LoadPortfolio(s)
    BY <1>2, <1>7 DEF LoadPortfolio, MovesOn, history
  <1>8. CASE CommitTrade(s)
    <2>1. PICK label \in {"note", "counts"} :
             run' = [run EXCEPT ![s].pc = label, ![s].loaded = 0]
      BY <1>8 DEF CommitTrade
    <2>2. run'[s].pc = label /\ \A t \in Slots : t # s => run'[t] = run[t]
      BY <1>1, <2>1 DEF RunRecord
    <2> QED
      BY <1>8, <2>2 DEF CommitTrade, MovesOn, history
  <1>9. CASE Notify(s)
    BY <1>2, <1>9 DEF Notify, MovesOn, history
  <1>10. CASE Return(s)
    <2>1. PICK n : run' = [run EXCEPT ![s].pc = "counts", ![s].executed = n]
      BY <1>10 DEF Return
    <2>2. run'[s].pc = "counts" /\ \A t \in Slots : t # s => run'[t] = run[t]
      BY <1>1, <2>1 DEF RunRecord
    <2> QED
      BY <1>10, <2>2 DEF Return, MovesOn, history
  <1>11. CASE _update_decision_counts(s)
    <2>1. [Off EXCEPT !.pc = "log"].pc = "log"
      BY DEF Off
    <2>2. run'[s].pc = "log" /\ \A t \in Slots : t # s => run'[t] = run[t]
      BY <1>1, <1>11, <2>1 DEF _update_decision_counts
    <2> QED
      BY <1>11, <2>2 DEF _update_decision_counts, ComesToItsEnd
  <1>12. CASE _logged(s)
    BY <1>1, <1>12, EntryTyped DEF _logged, Stops, history
  <1>13. CASE Fails(s)
    BY <1>1, <1>13, EntryTyped DEF Fails, Stops, history
  <1> QED
    BY <1>3, <1>4, <1>5, <1>6, <1>7, <1>8, <1>9, <1>10, <1>11, <1>12, <1>13 DEF Step

-----------------------------------------------------------------------------
(* job_log and the jobs that began.                                        *)

Begins ==
    /\ \A s \in Slots : run[s].pc # "off" => Job(s) \in begunToday \/ Job(s) \notin DAILY_CRITICAL
    /\ fired \cap DAILY_CRITICAL \subseteq begunToday
    /\ ended \cup cancelled \subseteq begunToday

Logs ==
    /\ \A s \in Slots : run[s].pc = "cap" => Job(s) = "intraday"
    /\ \A s \in Slots : run[s].pc = "log" => Job(s) \in ended \/ Job(s) \notin DAILY_CRITICAL
    /\ CompletedMeansEnded

JobInv == Typed /\ Begins /\ Logs

LEMMA StartBegins ==
    ASSUME Typed, NEW s \in Slots, Start(s)
    PROVE  /\ \A t \in Slots : t # s => run'[t] = run[t]
           /\ run'[s] = Entry(Job(s))
           /\ run'[s].pc \notin {"log", "off"}
           /\ run'[s].pc = "cap" => Job(s) = "intraday"
           /\ begunToday \subseteq begunToday'
           /\ Job(s) \in begunToday' \/ Job(s) \notin DAILY_CRITICAL
  <1>1. /\ run'[s] = Entry(Job(s))
        /\ \A t \in Slots : t # s => run'[t] = run[t]
    BY DEF Start, Typed, BookTyped
  <1>2. Job(s) \in Jobs
    BY SlotJobs
  <1>3. /\ Entry(Job(s)).pc \notin {"log", "off"}
        /\ Entry(Job(s)).pc = "cap" => Job(s) = "intraday"
    BY <1>2, EntryTyped DEF Jobs
  <1> QED
    BY <1>1, <1>3 DEF Start

LEMMA JobInit == Init => JobInv
  <1> SUFFICES ASSUME Init PROVE JobInv
    OBVIOUS
  <1>1. Typed
    BY TypedInit
  <1>2. \A s \in Slots : run[s].pc = "off"
    BY EntryTyped DEF Init
  <1>3. Begins /\ Logs
    BY <1>2 DEF Init, Begins, Logs, CompletedMeansEnded
  <1> QED
    BY <1>1, <1>3 DEF JobInv

LEMMA JobRun ==
    ASSUME JobInv, NEW s \in Slots, Step(s) \/ Fails(s)
    PROVE  Begins' /\ Logs'
  <1>1. /\ UNCHANGED <<clock, process, begunToday, cancelled>>
        /\ \A t \in Slots : t # s => run'[t] = run[t]
        /\ run[s].pc # "off"
        /\ MovesOn(s) \/ ComesToItsEnd(s) \/ Stops(s)
    BY RunEffect DEF JobInv
  <1>2. Begins'
    BY <1>1 DEF JobInv, Begins, MovesOn, ComesToItsEnd, Stops, process
  <1>3. Logs'
    <2>1. CASE MovesOn(s)
      BY <1>1, <2>1 DEF JobInv, Logs, MovesOn, CompletedMeansEnded, DAILY_CRITICAL
    <2>2. CASE ComesToItsEnd(s)
      BY <1>1, <2>2 DEF JobInv, Logs, ComesToItsEnd, CompletedMeansEnded
    <2>3. CASE Stops(s)
      BY <1>1, <2>3 DEF JobInv, Logs, Stops, CompletedMeansEnded, Typed, ProcessTyped
    <2> QED
      BY <1>1, <2>1, <2>2, <2>3
  <1> QED
    BY <1>2, <1>3

LEMMA JobDown ==
    ASSUME JobInv, Down
    PROVE  Begins' /\ Logs'
  <1>1. PICK S \in SUBSET {s \in Slots : run[s].pc # "off"} :
           /\ done' = [j \in DAILY_CRITICAL |->
                         IF \E s \in S : Job(s) = j THEN clock ELSE done[j]]
           /\ cancelled' = cancelled \cup ({Job(s) : s \in S} \cap DAILY_CRITICAL)
    BY DEF Down, Running
  <1>2. /\ \A s \in Slots : run'[s].pc = "off"
        /\ UNCHANGED <<fired, begunToday, ended>>
    BY EntryTyped DEF Down
  <1>3. Begins'
    BY <1>1, <1>2 DEF JobInv, Begins
  <1>4. Logs'
    BY <1>1, <1>2 DEF JobInv, Logs, CompletedMeansEnded
  <1> QED
    BY <1>3, <1>4

LEMMA JobStep == JobInv /\ [Next]_vars => JobInv'
  <1> SUFFICES ASSUME JobInv, [Next]_vars PROVE Begins' /\ Logs'
    BY TypedStep DEF JobInv
  <1> USE DEF JobInv
  <1>1. CASE UNCHANGED <<run, begunToday, ended, cancelled, done>> /\ fired' \in {fired, {}}
    BY <1>1 DEF Begins, Logs, CompletedMeansEnded
  <1>2. ASSUME NEW j \in Jobs, Fire(j) PROVE Begins' /\ Logs'
    <2> DEFINE s == <<j, "cron">>
    <2>1. s \in Slots /\ Job(s) = j
      BY SlotJobs
    <2>2. fired' = fired \cup {j} /\ UNCHANGED <<ended, cancelled, done>>
      BY <1>2 DEF Fire
    <2>3. CASE Running(s) /\ UNCHANGED <<run, begunToday>>
      BY <2>1, <2>2, <2>3 DEF Begins, Logs, Running, CompletedMeansEnded
    <2>4. CASE Start(s)
      <3> HIDE DEF s
      <3>1. /\ \A t \in Slots : t # s => run'[t] = run[t]
            /\ run'[s].pc \notin {"log", "off"}
            /\ run'[s].pc = "cap" => Job(s) = "intraday"
            /\ begunToday \subseteq begunToday'
            /\ Job(s) \in begunToday' \/ Job(s) \notin DAILY_CRITICAL
        BY <2>1, <2>4, StartBegins
      <3> QED
        BY <2>1, <2>2, <3>1 DEF Begins, Logs, CompletedMeansEnded
    <2> QED
      BY <1>2, <2>3, <2>4 DEF Fire
  <1>3. ASSUME NEW j \in DAILY_CRITICAL, CatchUp(j) PROVE Begins' /\ Logs'
    <2> DEFINE s == <<j, "catchup">>
    <2>1. s \in Slots /\ Job(s) = j
      BY SlotJobs
    <2>2. UNCHANGED <<fired, ended, cancelled, done>> /\ Start(s)
      BY <1>3 DEF CatchUp
    <2> HIDE DEF s
    <2>3. /\ \A t \in Slots : t # s => run'[t] = run[t]
          /\ run'[s].pc \notin {"log", "off"}
          /\ run'[s].pc = "cap" => Job(s) = "intraday"
          /\ begunToday \subseteq begunToday'
          /\ Job(s) \in begunToday' \/ Job(s) \notin DAILY_CRITICAL
      BY <2>1, <2>2, StartBegins
    <2> QED
      BY <2>1, <2>2, <2>3 DEF Begins, Logs, CompletedMeansEnded
  <1>4. CASE build_scheduler \/ reconcile_missed \/ Tick \/ RunPushJob
    BY <1>1, <1>4 DEF build_scheduler, reconcile_missed, Tick, RunPushJob, history, process
  <1>5. ASSUME NEW p \in Pushers, Push(p) PROVE Begins' /\ Logs'
    BY <1>1, <1>5 DEF Push, history, process
  <1>6. CASE UNCHANGED vars
    BY <1>1, <1>6 DEF vars, history, process
  <1> QED
    BY <1>2, <1>3, <1>4, <1>5, <1>6, JobRun, JobDown DEF Next

(* A completed row of job_log stands for a run that came to its end or     *)
(* that a shutdown cancelled.                                              *)
THEOREM CompletedRowsTrue == Spec => []CompletedMeansEnded
  BY JobInit, JobStep, PTL DEF Spec, JobInv, Logs

-----------------------------------------------------------------------------
(* Cron, the job store and the reconciler.                                 *)

CronOnce ==
    \A j \in DAILY_CRITICAL :
        /\ begun[<<j, "cron">>] <= 1
        /\ begun[<<j, "cron">>] = 1 =>
              \E d \in day.due[j] : born < d /\ d <= clock /\ (d = clock => j \in fired)

CatchUpOnce ==
    /\ \A j \in DAILY_CRITICAL :
          /\ begun[<<j, "catchup">>] <= 1
          /\ mode = "starting" => begun[<<j, "catchup">>] = 0
    /\ mode = "starting" => catchups = {}
    /\ mode \in {"up", "blind"} =>
          \A c \in catchups : c.life = lives /\ begun[<<c.job, "catchup">>] = 0

(* A job whose time has come has begun or will, by a catch-up in the store *)
(* or by cron before the tick is over, or could not be scheduled.          *)
Covered ==
    /\ mode = "starting" => clock <= born + 1
    /\ mode = "up" =>
          \A j \in DAILY_CRITICAL : \A d \in day.due[j] : d <= clock =>
              \/ j \in begunToday
              \/ j \in unscheduled
              \/ \E c \in catchups : c.job = j
              \/ born >= d + Grace
              \/ d = clock /\ born < d

StartInv == CronOnce /\ CatchUpOnce /\ Covered

LEMMA DueTyped ==
    ASSUME Typed
    PROVE  /\ \A j \in Jobs : \A d \in day.due[j] : d \in Nat \ {0}
           /\ \A j \in DAILY_CRITICAL : \A a, b \in day.due[j] : a = b
           /\ Grace \in Nat
  <1>1. day \in Days
    BY DEF Typed, ProcessTyped
  <1>2. /\ day.due \in [Jobs -> SUBSET (1 .. Horizon)]
        /\ \A j \in DAILY_CRITICAL : \A a, b \in day.due[j] : a = b
        /\ Grace \in Nat /\ Horizon \in Nat
    BY <1>1, DayAssumption
  <1> QED
    BY <1>2

(* The reconciler finds the one firing of the day once it is due.          *)
LEMMA LastFiring ==
    ASSUME Typed, NEW j \in DAILY_CRITICAL, NEW d \in day.due[j], d <= clock
    PROVE  _last_expected_firing(j) = d
  <1> DEFINE S == {0} \cup {x \in day.due[j] : x <= clock}
  <1>1. d \in Nat \ {0} /\ S = {0, d}
    BY DueTyped, SlotJobs
  <1>2. \E m \in S : \A y \in S : m >= y
    BY <1>1
  <1>3. Max(S) \in S /\ \A y \in S : Max(S) >= y
    BY <1>2, Zenon DEF Max
  <1>4. Max(S) = d
    BY <1>1, <1>3
  <1> QED
    BY <1>4 DEF _last_expected_firing

LEMMA StartInit == Init => StartInv
  <1> SUFFICES ASSUME Init PROVE StartInv
    OBVIOUS
  <1>1. \A j \in DAILY_CRITICAL : begun[<<j, "cron">>] = 0 /\ begun[<<j, "catchup">>] = 0
    BY SlotJobs DEF Init
  <1>2. mode = "down" /\ catchups = {}
    BY DEF Init
  <1>3. CronOnce
    <2>1. \A j \in DAILY_CRITICAL :
             begun[<<j, "cron">>] <= 1 /\ begun[<<j, "cron">>] # 1
      <3> TAKE j \in DAILY_CRITICAL
      <3>1. begun[<<j, "cron">>] = 0
        BY <1>1
      <3> QED
        BY <3>1
    <2> QED
      BY <2>1 DEF CronOnce
  <1>4. CatchUpOnce
    <2>1. \A j \in DAILY_CRITICAL :
             begun[<<j, "catchup">>] <= 1 /\ begun[<<j, "catchup">>] = 0
      <3> TAKE j \in DAILY_CRITICAL
      <3>1. begun[<<j, "catchup">>] = 0
        BY <1>1
      <3> QED
        BY <3>1
    <2> QED
      BY <1>2, <2>1 DEF CatchUpOnce
  <1>5. Covered
    BY <1>2 DEF Covered
  <1> QED
    BY <1>3, <1>4, <1>5 DEF StartInv

(* What a start counts.                                                    *)
LEMMA StartCounts ==
    ASSUME Typed, NEW s \in Slots, Start(s)
    PROVE  /\ begun'[s] = begun[s] + 1
           /\ \A t \in Slots : t # s => begun'[t] = begun[t]
  BY DEF Start, Typed, ProcessTyped

LEMMA BuildStarts ==
    ASSUME JobInv, StartInv, build_scheduler
    PROVE  StartInv'
  <1>1. \A j \in DAILY_CRITICAL : begun'[<<j, "cron">>] = 0 /\ begun'[<<j, "catchup">>] = 0
    BY SlotJobs DEF build_scheduler
  <1>2. mode' = "starting" /\ catchups' = {} /\ born' = clock /\ clock' = clock /\ clock \in Nat
    BY DEF build_scheduler, JobInv, Typed, ProcessTyped
  <1>3. CronOnce'
    <2>1. \A j \in DAILY_CRITICAL :
             begun'[<<j, "cron">>] <= 1 /\ begun'[<<j, "cron">>] # 1
      <3> TAKE j \in DAILY_CRITICAL
      <3>1. begun'[<<j, "cron">>] = 0
        BY <1>1
      <3> QED
        BY <3>1
    <2> QED
      BY <2>1 DEF CronOnce
  <1>4. CatchUpOnce'
    <2>1. \A j \in DAILY_CRITICAL :
             begun'[<<j, "catchup">>] <= 1 /\ begun'[<<j, "catchup">>] = 0
      <3> TAKE j \in DAILY_CRITICAL
      <3>1. begun'[<<j, "catchup">>] = 0
        BY <1>1
      <3> QED
        BY <3>1
    <2> QED
      BY <1>2, <2>1 DEF CatchUpOnce
  <1>5. Covered'
    BY <1>2 DEF Covered
  <1> QED
    BY <1>3, <1>4, <1>5 DEF StartInv

LEMMA ReconcileStarts ==
    ASSUME JobInv, StartInv, reconcile_missed
    PROVE  StartInv'
  <1>1. /\ UNCHANGED <<clock, day, born, lives, fired, begun, begunToday, done>>
        /\ mode = "starting" /\ catchups = {}
        /\ mode' \in {"up", "blind"}
    BY DEF reconcile_missed, history, StartInv, CatchUpOnce
  <1>2. CronOnce'
    BY <1>1 DEF StartInv, CronOnce
  <1>3. PICK K \in SUBSET DAILY_CRITICAL :
           Schedule(K) /\ (mode' = "up" => K = DAILY_CRITICAL \ unscheduled')
    BY DEF reconcile_missed, DAILY_CRITICAL
  <1>4. catchups' = {[job |-> j, life |-> lives] : j \in {k \in K : Missed(k)}}
    BY <1>1, <1>3 DEF Schedule
  <1>5. CatchUpOnce'
    <2>1. \A c \in catchups' : c.life = lives /\ c.job \in DAILY_CRITICAL
      BY <1>4
    <2>2. \A j \in DAILY_CRITICAL : begun'[<<j, "catchup">>] = 0
      BY <1>1 DEF StartInv, CatchUpOnce
    <2> QED
      BY <1>1, <2>1, <2>2 DEF CatchUpOnce
  <1>6. ASSUME mode' = "up", NEW j \in DAILY_CRITICAL, NEW d \in day.due[j], d <= clock
        PROVE  \/ j \in begunToday
               \/ j \in unscheduled'
               \/ \E c \in catchups' : c.job = j
               \/ born >= d + Grace
    <2>1. _last_expected_firing(j) = d /\ d \in Nat \ {0} /\ Grace \in Nat
      BY <1>6, LastFiring, DueTyped, SlotJobs DEF JobInv
    <2>2. clock \in Nat /\ born \in Nat /\ clock <= born + 1 /\ done[j] \in Nat
      BY <1>1 DEF JobInv, Typed, ProcessTyped, StartInv, Covered
    <2>3. CASE d < clock - Grace
      BY <2>1, <2>2, <2>3
    <2>4. CASE done[j] >= d
      BY <2>1, <2>2, <2>4 DEF JobInv, Logs, Begins, CompletedMeansEnded
    <2>5. CASE d >= clock - Grace /\ done[j] < d
      <3>1. Missed(j)
        BY <2>1, <2>5 DEF Missed
      <3>2. j \notin unscheduled' => [job |-> j, life |-> lives] \in catchups'
        BY <1>3, <1>4, <1>6, <3>1
      <3> QED
        BY <3>2
    <2> QED
      BY <2>1, <2>2, <2>3, <2>4, <2>5
  <1>7. Covered'
    BY <1>1, <1>6 DEF Covered
  <1> QED
    BY <1>2, <1>5, <1>7 DEF StartInv

LEMMA TickStarts ==
    ASSUME JobInv, StartInv, Tick
    PROVE  StartInv'
  <1>1. /\ clock' = clock + 1 /\ fired' = {}
        /\ UNCHANGED <<day, mode, born, lives, catchups, begun, unscheduled, begunToday>>
    BY DEF Tick, history
  <1>2. clock \in Nat /\ born \in Nat /\ born <= clock
    BY DEF JobInv, Typed, ProcessTyped
  <1>3. \A j \in DAILY_CRITICAL : \A d \in day.due[j] : d \in Nat
    BY DueTyped, SlotJobs DEF JobInv
  <1>4. CronOnce'
    <2> SUFFICES ASSUME NEW j \in DAILY_CRITICAL
                 PROVE  /\ begun[<<j, "cron">>] <= 1
                        /\ begun[<<j, "cron">>] = 1 =>
                              \E d \in day.due[j] : born < d /\ d <= clock + 1 /\ d # clock + 1
      BY <1>1 DEF CronOnce
    <2>1. CASE begun[<<j, "cron">>] = 1
      <3>1. PICK d \in day.due[j] : born < d /\ d <= clock
        BY <2>1 DEF StartInv, CronOnce
      <3>2. d <= clock + 1 /\ d # clock + 1
        BY <1>2, <1>3, <3>1
      <3> QED
        BY <2>1, <3>1, <3>2
    <2> QED
      BY <2>1 DEF StartInv, CronOnce
  <1>5. CatchUpOnce'
    BY <1>1 DEF StartInv, CatchUpOnce
  <1>6. ASSUME mode = "up", NEW j \in DAILY_CRITICAL, NEW d \in day.due[j], d <= clock + 1
        PROVE  \/ j \in begunToday
               \/ j \in unscheduled
               \/ born >= d + Grace
               \/ d = clock + 1 /\ born < d
    <2>1. CASE d = clock + 1
      BY <1>2, <2>1
    <2>2. CASE d = clock /\ born < d
      <3>1. j \in fired
        BY <1>6, <2>2, SlotJobs DEF Tick, Pending
      <3> QED
        BY <3>1 DEF JobInv, Begins
    <2>3. CASE d <= clock /\ ~(d = clock /\ born < d)
      <3>1. catchups = {}
        BY <1>6 DEF Tick
      <3> QED
        BY <1>6, <2>3, <3>1 DEF StartInv, Covered
    <2> QED
      BY <1>2, <1>3, <1>6, <2>1, <2>2, <2>3
  <1>7. mode = "starting" => clock = born
    BY DEF Tick
  <1>8. Covered'
    BY <1>1, <1>2, <1>6, <1>7 DEF Covered
  <1> QED
    BY <1>4, <1>5, <1>8 DEF StartInv

LEMMA FireStarts ==
    ASSUME JobInv, StartInv, NEW j \in Jobs, Fire(j)
    PROVE  StartInv'
  <1> DEFINE s == <<j, "cron">>
  <1>1. /\ UNCHANGED <<clock, day, mode, born, lives, catchups, unscheduled>>
        /\ fired' = fired \cup {j} /\ Pending(j)
    BY DEF Fire
  <1>2. s \in Slots /\ \A i \in DAILY_CRITICAL : <<i, "catchup">> \in Slots /\ <<i, "cron">> \in Slots
    BY SlotJobs
  <1>3. CASE UNCHANGED <<begun, begunToday>>
    BY <1>1, <1>3 DEF StartInv, CronOnce, CatchUpOnce, Covered
  <1>4. CASE Start(s)
    <2>1. /\ begun'[s] = begun[s] + 1
          /\ \A t \in Slots : t # s => begun'[t] = begun[t]
      BY <1>2, <1>4, StartCounts DEF JobInv
    <2>2. begunToday \subseteq begunToday'
      BY <1>4 DEF Start
    <2>3. \A i \in DAILY_CRITICAL : begun'[<<i, "catchup">>] = begun[<<i, "catchup">>]
      BY <1>2, <2>1
    <2>4. CatchUpOnce'
      <3>1. \A c \in catchups : c.job \in DAILY_CRITICAL
        BY DEF JobInv, Typed, ProcessTyped
      <3> QED
        BY <1>1, <2>3, <3>1 DEF StartInv, CatchUpOnce
    <2>5. Covered'
      BY <1>1, <2>2 DEF StartInv, Covered
    <2>6. ASSUME NEW i \in DAILY_CRITICAL
          PROVE  /\ begun'[<<i, "cron">>] <= 1
                 /\ begun'[<<i, "cron">>] = 1 =>
                       \E d \in day.due[i] : born < d /\ d <= clock /\ (d = clock => i \in fired')
      <3>1. CASE i # j
        BY <1>1, <1>2, <2>1, <3>1 DEF StartInv, CronOnce
      <3>2. CASE i = j
        <4>1. clock \in day.due[j] /\ born < clock /\ j \notin fired
          BY <1>1 DEF Pending
        <4>2. begun[s] \in Nat /\ begun[s] # 1
          BY <1>2, <3>2, <4>1, DueTyped DEF JobInv, Typed, ProcessTyped, StartInv, CronOnce
        <4>3. begun'[s] = 1
          BY <2>1, <3>2, <4>2 DEF StartInv, CronOnce
        <4> QED
          BY <1>1, <3>2, <4>1, <4>3 DEF JobInv, Typed, ProcessTyped
      <3> QED
        BY <3>1, <3>2
    <2>7. CronOnce'
      BY <1>1, <2>6 DEF CronOnce
    <2> QED
      BY <2>4, <2>5, <2>7 DEF StartInv
  <1> QED
    BY <1>3, <1>4 DEF Fire

LEMMA CatchUpStarts ==
    ASSUME JobInv, StartInv, NEW j \in DAILY_CRITICAL, CatchUp(j)
    PROVE  StartInv'
  <1> DEFINE s == <<j, "catchup">>
  <1>1. /\ UNCHANGED <<clock, day, mode, born, lives, fired, unscheduled>>
        /\ Start(s) /\ mode # "down"
    BY DEF CatchUp
  <1>2. s \in Slots /\ Job(s) = j /\ \A i \in DAILY_CRITICAL : <<i, "catchup">> \in Slots /\ <<i, "cron">> \in Slots
    BY SlotJobs
  <1>3. PICK c \in catchups : c.job = j /\ catchups' = catchups \ {c}
    BY DEF CatchUp
  <1>4. mode \in {"up", "blind"}
    BY <1>1, <1>3 DEF JobInv, Typed, ProcessTyped, StartInv, CatchUpOnce
  <1>5. \A b \in catchups : b \in [job : DAILY_CRITICAL, life : Nat] /\ b.life = lives
                            /\ begun[<<b.job, "catchup">>] = 0
    BY <1>4 DEF JobInv, Typed, ProcessTyped, StartInv, CatchUpOnce
  <1>6. \A b \in catchups' : b \in catchups /\ b.job # j
    <2> SUFFICES ASSUME NEW b \in catchups, b.job = j PROVE b = c
      BY <1>3
    <2>1. b = [job |-> b.job, life |-> b.life] /\ c = [job |-> c.job, life |-> c.life]
      BY <1>5
    <2> QED
      BY <1>3, <1>5, <2>1
  <1>7. /\ begun'[s] = begun[s] + 1
        /\ \A t \in Slots : t # s => begun'[t] = begun[t]
    BY <1>1, <1>2, StartCounts DEF JobInv
  <1>8. CronOnce'
    <2>1. \A i \in DAILY_CRITICAL : begun'[<<i, "cron">>] = begun[<<i, "cron">>]
      BY <1>2, <1>7
    <2> QED
      BY <1>1, <2>1 DEF StartInv, CronOnce
  <1>9. CatchUpOnce'
    <2>1. begun'[s] = 1
      BY <1>3, <1>5, <1>7
    <2>2. \A i \in DAILY_CRITICAL : i # j => begun'[<<i, "catchup">>] = begun[<<i, "catchup">>]
      BY <1>2, <1>7
    <2>3. \A b \in catchups' : b.life = lives /\ begun'[<<b.job, "catchup">>] = 0
      BY <1>5, <1>6, <2>2
    <2> QED
      BY <1>1, <1>4, <2>1, <2>2, <2>3 DEF StartInv, CatchUpOnce
  <1>10. Covered'
    <2>1. j \in begunToday' /\ begunToday \subseteq begunToday'
      BY <1>1, <1>2 DEF Start
    <2>2. \A i : (\E b \in catchups : b.job = i) => i = j \/ \E b \in catchups' : b.job = i
      BY <1>3
    <2> QED
      BY <1>1, <1>4, <2>1, <2>2 DEF StartInv, Covered
  <1> QED
    BY <1>8, <1>9, <1>10 DEF StartInv

LEMMA StartStep == JobInv /\ StartInv /\ [Next]_vars => StartInv'
  <1> SUFFICES ASSUME JobInv, StartInv, [Next]_vars PROVE StartInv'
    OBVIOUS
  <1>1. CASE UNCHANGED <<clock, process, begunToday>>
    BY <1>1 DEF process, StartInv, CronOnce, CatchUpOnce, Covered
  <1>2. CASE Down
    BY <1>2 DEF Down, StartInv, CronOnce, CatchUpOnce, Covered
  <1>3. ASSUME NEW s \in Slots, Step(s) \/ Fails(s) PROVE StartInv'
    BY <1>1, <1>3, RunEffect DEF JobInv
  <1>4. CASE RunPushJob \/ (\E p \in Pushers : Push(p)) \/ UNCHANGED vars
    BY <1>1, <1>4 DEF RunPushJob, Push, vars, history
  <1> QED
    BY <1>2, <1>3, <1>4, BuildStarts, ReconcileStarts, TickStarts, FireStarts, CatchUpStarts
    DEF Next

(* No start of the process begins a daily-critical job twice, by cron or   *)
(* by catch-up.                                                            *)
THEOREM StartedOnce == Spec => []OncePerStartup
  <1>1. StartInv => OncePerStartup
    BY DEF StartInv, CronOnce, CatchUpOnce, OncePerStartup
  <1> QED
    BY <1>1, JobInit, JobStep, StartInit, StartStep, PTL DEF Spec

(* No daily-critical job is forgotten by a process that was up within the  *)
(* grace, but those its reconciler logged as not scheduled.                *)
THEOREM NoneForgotten == Spec => []CriticalBegun
  <1>1. JobInv /\ StartInv => CriticalBegun
    <2> SUFFICES ASSUME JobInv, StartInv, NEW j \in DAILY_CRITICAL, NEW d \in day.due[j],
                        mode = "up", ~(clock <= d)
                 PROVE  \/ j \in begunToday
                        \/ j \in unscheduled
                        \/ born >= d + Grace
                        \/ \E c \in catchups : c.job = j
      BY DEF CriticalBegun
    <2>1. clock \in Nat /\ d \in Nat
      BY DueTyped, SlotJobs DEF JobInv, Typed, ProcessTyped
    <2> QED
      BY <2>1 DEF StartInv, Covered
  <1> QED
    BY <1>1, JobInit, JobStep, StartInit, StartStep, PTL DEF Spec

-----------------------------------------------------------------------------
(* The cap on the intraday calls.                                          *)

CapInv ==
    /\ \A s \in Slots : run[s].pc \in {"topup", "topped"} => Job(s) = "morning"
    /\ run[<<"intraday", "cron">>].pc = "decide" => _intraday_calls_today < MaxIntraday
    /\ IntradayCapped

(* What a run does to the decisions: it asks after the cap let it, or      *)
(* appends the row of its own job, or leaves their types alone.            *)
Asks(s) ==
    /\ run'[s].pc = "decide"
    /\ Job(s) = "intraday" => _intraday_calls_today < MaxIntraday
    /\ UNCHANGED decisions

Answers(s) ==
    /\ run[s].pc = "decide" /\ run'[s].pc = "act"
    /\ \E r \in DecisionRecord : r.type = Job(s) /\ decisions' = Append(decisions, r)

SameTypes ==
    /\ DOMAIN decisions' = DOMAIN decisions
    /\ \A d \in DOMAIN decisions : decisions'[d].type = decisions[d].type

LEMMA SameCount ==
    ASSUME SameTypes
    PROVE  _intraday_calls_today' = _intraday_calls_today
  <1>1. {d \in DOMAIN decisions' : decisions'[d].type = "intraday"}
          = {d \in DOMAIN decisions : decisions[d].type = "intraday"}
    BY DEF SameTypes
  <1> QED
    BY <1>1 DEF _intraday_calls_today, Quantify

LEMMA CountTyped ==
    ASSUME Typed
    PROVE  /\ _intraday_calls_today \in Nat
           /\ IsFiniteSet({d \in DOMAIN decisions : decisions[d].type = "intraday"})
  <1> DEFINE S == {d \in DOMAIN decisions : decisions[d].type = "intraday"}
  <1>1. Len(decisions) \in Nat /\ DOMAIN decisions = 1 .. Len(decisions)
    BY DEF Typed, BookTyped
  <1>2. IsFiniteSet(1 .. Len(decisions))
    BY <1>1, FS_Interval
  <1>3. IsFiniteSet(S)
    BY <1>1, <1>2, FS_Subset
  <1>4. Cardinality(S) \in Nat
    BY <1>3, FS_CardinalityType
  <1> QED
    BY <1>3, <1>4 DEF _intraday_calls_today, Quantify

LEMMA AppendCount ==
    ASSUME Typed, NEW r \in DecisionRecord, decisions' = Append(decisions, r)
    PROVE  _intraday_calls_today'
             = IF r.type = "intraday" THEN _intraday_calls_today + 1 ELSE _intraday_calls_today
  <1> DEFINE S == {d \in DOMAIN decisions : decisions[d].type = "intraday"}
             T == {d \in DOMAIN decisions' : decisions'[d].type = "intraday"}
             n == Len(decisions) + 1
  <1>1. decisions \in Seq(DecisionRecord)
    BY DEF Typed, BookTyped
  <1>2. /\ DOMAIN decisions = 1 .. Len(decisions) /\ Len(decisions) \in Nat
        /\ DOMAIN decisions' = 1 .. n
        /\ decisions'[n] = r
        /\ \A d \in 1 .. Len(decisions) : decisions'[d] = decisions[d]
    BY <1>1
  <1>3. T = IF r.type = "intraday" THEN S \cup {n} ELSE S
    BY <1>2
  <1>4. IsFiniteSet(S) /\ n \notin S
    BY <1>2, CountTyped
  <1>5. Cardinality(S \cup {n}) = Cardinality(S) + 1
    BY <1>4, FS_AddElement
  <1>6. _intraday_calls_today = Cardinality(S) /\ _intraday_calls_today' = Cardinality(T)
    BY DEF _intraday_calls_today, Quantify
  <1> QED
    BY <1>3, <1>5, <1>6

LEMMA AskEffect ==
    ASSUME JobInv, CapInv, NEW s \in Slots, Step(s) \/ Fails(s)
    PROVE  /\ Asks(s) \/ Answers(s) \/ (run'[s].pc # "decide" /\ SameTypes)
           /\ run'[s].pc \in {"topup", "topped"} => run[s].pc \in {"topup", "topped"}
  <1> DEFINE Goal == /\ Asks(s) \/ Answers(s) \/ (run'[s].pc # "decide" /\ SameTypes)
                     /\ run'[s].pc \in {"topup", "topped"} => run[s].pc \in {"topup", "topped"}
  <1>1. run \in [Slots -> RunRecord] /\ decisions \in Seq(DecisionRecord)
    BY DEF JobInv, Typed, BookTyped
  <1>2. \A label : Goto(s, label) \/ Load(s, label) => run'[s].pc = label
    BY <1>1 DEF Goto, Load, RunRecord
  <1>3. UNCHANGED decisions => SameTypes
    BY DEF SameTypes
  <1>4. CASE topup_daily_budget(s)
    <2>1. CASE run[s].pc = "topup" /\ Load(s, "topped")
      BY <1>2, <1>3, <1>4, <2>1 DEF topup_daily_budget
    <2>2. CASE run[s].pc = "topped" /\ run' = [run EXCEPT ![s] = Entry("eod")]
      <3>1. Entry("eod").pc = "decide"
        BY DEF Entry, Off
      <3>2. Job(s) = "morning"
        BY <2>2 DEF CapInv
      <3> QED
        BY <1>1, <1>4, <2>2, <3>1, <3>2 DEF topup_daily_budget, Asks
    <2> QED
      BY <1>4, <2>1, <2>2 DEF topup_daily_budget
  <1>5. CASE CheckCap(s)
    <2>1. _intraday_calls_today \in Nat /\ MaxIntraday \in Nat
      BY CountTyped, DayAssumption DEF JobInv
    <2>2. CASE CapReached
      BY <1>2, <1>3, <1>5, <2>2 DEF CheckCap, book
    <2>3. CASE ~CapReached
      BY <1>2, <1>5, <2>1, <2>3 DEF CheckCap, CapReached, Asks, book
    <2> QED
      BY <2>2, <2>3
  <1>6. CASE _decide(s)
    <2>1. PICK a : run' = [run EXCEPT ![s].pc = "act", ![s].action = a,
                                      ![s].decision = Len(decisions) + 1]
      BY <1>6 DEF _decide
    <2>2. run'[s].pc = "act"
      BY <1>1, <2>1 DEF RunRecord
    <2> DEFINE r == [type |-> Job(s), traded |-> 0, executed |-> 0, counted |-> FALSE]
    <2>3. r \in DecisionRecord /\ r.type = Job(s)
      BY SlotJobs DEF DecisionRecord
    <2>4. run[s].pc = "decide" /\ decisions' = Append(decisions, r)
      BY <1>6 DEF _decide
    <2> HIDE DEF r
    <2> QED
      BY <2>2, <2>3, <2>4 DEF Answers
  <1>7. CASE Skip(s) \/ LoadPortfolio(s) \/ Notify(s)
    BY <1>2, <1>3, <1>7 DEF Skip, LoadPortfolio, Notify, book
  <1>8. CASE CommitTrade(s)
    <2>1. PICK label \in {"note", "counts"} :
             run' = [run EXCEPT ![s].pc = label, ![s].loaded = 0]
      BY <1>8 DEF CommitTrade
    <2>2. run'[s].pc = label
      BY <1>1, <2>1 DEF RunRecord
    <2>3. decisions' = decisions
            \/ decisions' = [decisions EXCEPT ![run[s].decision].traded = @ + 1]
      BY <1>8 DEF CommitTrade
    <2>4. SameTypes
      <3>1. \A d \in DOMAIN decisions : decisions[d] \in DecisionRecord
        BY <1>1
      <3>2. CASE decisions' = [decisions EXCEPT ![run[s].decision].traded = @ + 1]
        BY <3>1, <3>2 DEF SameTypes, DecisionRecord
      <3> QED
        BY <1>3, <2>3, <3>2
    <2> QED
      BY <2>2, <2>4
  <1>9. CASE Return(s)
    <2>1. PICK n : run' = [run EXCEPT ![s].pc = "counts", ![s].executed = n]
      BY <1>9 DEF Return
    <2>2. run'[s].pc = "counts"
      BY <1>1, <2>1 DEF RunRecord
    <2> QED
      BY <1>3, <1>9, <2>2 DEF Return, book
  <1>10. CASE _update_decision_counts(s)
    <2>1. run'[s].pc = "log"
      BY <1>1, <1>10 DEF _update_decision_counts, Off
    <2>2. decisions' = [decisions EXCEPT ![run[s].decision].executed = run[s].executed,
                                         ![run[s].decision].counted = TRUE]
      BY <1>10 DEF _update_decision_counts, Executed
    <2>3. SameTypes
      <3> DEFINE half == [decisions EXCEPT ![run[s].decision].executed = run[s].executed]
      <3>1. \A d \in DOMAIN decisions : decisions[d] \in DecisionRecord
        BY <1>1
      <3>2. /\ DOMAIN half = DOMAIN decisions
            /\ \A d \in DOMAIN decisions : half[d].type = decisions[d].type
        BY <3>1 DEF DecisionRecord
      <3>3. half \in Seq(DecisionRecord)
        <4>1. run[s].executed \in Nat
          BY <1>1 DEF RunRecord
        <4> QED
          BY <1>1, <4>1, DecisionFields
      <3>4. decisions' = [half EXCEPT ![run[s].decision].counted = TRUE]
        BY <2>2
      <3> HIDE DEF half
      <3>5. \A d \in DOMAIN half : half[d] \in DecisionRecord
        BY <3>3
      <3>6. /\ DOMAIN decisions' = DOMAIN half
            /\ \A d \in DOMAIN half : decisions'[d].type = half[d].type
        BY <3>4, <3>5 DEF DecisionRecord
      <3> QED
        BY <3>2, <3>6 DEF SameTypes
    <2> QED
      BY <2>1, <2>3
  <1>11. CASE _logged(s) \/ Fails(s)
    <2>1. run'[s].pc = "off"
      BY <1>1, <1>11, EntryTyped DEF _logged, Fails
    <2> QED
      BY <1>3, <1>11, <2>1 DEF _logged, Fails, book
  <1> QED
    BY <1>4, <1>5, <1>6, <1>7, <1>8, <1>9, <1>10, <1>11 DEF Step

LEMMA CapInit == Init => CapInv
  <1> SUFFICES ASSUME Init PROVE CapInv
    OBVIOUS
  <1>1. \A s \in Slots : run[s].pc = "off"
    BY EntryTyped DEF Init
  <1>2. {d \in DOMAIN decisions : decisions[d].type = "intraday"} = {}
    BY DEF Init
  <1>3. _intraday_calls_today = 0
    BY <1>2, FS_EmptySet DEF _intraday_calls_today, Quantify
  <1>4. IntradayCapped
    BY <1>3, DayAssumption DEF IntradayCapped
  <1>5. <<"intraday", "cron">> \in Slots
    BY SlotJobs DEF Jobs
  <1> QED
    BY <1>1, <1>4, <1>5 DEF CapInv

(* A run that starts is before its top-up, its cap or its question; only   *)
(* the square-off has neither.                                             *)
LEMMA CapStart ==
    ASSUME JobInv, CapInv, NEW s \in Slots, Start(s), UNCHANGED decisions
    PROVE  CapInv'
  <1>1. /\ \A t \in Slots : t # s => run'[t] = run[t]
        /\ run'[s] = Entry(Job(s)) /\ Job(s) \in Jobs
    BY StartBegins, SlotJobs DEF JobInv
  <1>2. /\ run'[s].pc \in {"topup", "topped"} => Job(s) = "morning"
        /\ Job(s) = "intraday" => run'[s].pc # "decide"
    BY <1>1, EntryTyped DEF Jobs
  <1>3. _intraday_calls_today' = _intraday_calls_today
    BY SameCount DEF SameTypes
  <1>4. \A t \in Slots : run'[t].pc \in {"topup", "topped"} => Job(t) = "morning"
    BY <1>1, <1>2 DEF CapInv
  <1>5. run'[<<"intraday", "cron">>].pc = "decide" => _intraday_calls_today < MaxIntraday
    BY <1>1, <1>2, SlotJobs DEF CapInv, Jobs
  <1> QED
    BY <1>3, <1>4, <1>5 DEF CapInv, IntradayCapped

LEMMA CapStep == JobInv /\ CapInv /\ [Next]_vars => CapInv'
  <1> SUFFICES ASSUME JobInv, CapInv, [Next]_vars PROVE CapInv'
    OBVIOUS
  <1>1. CASE UNCHANGED <<run, decisions>>
    <2>1. _intraday_calls_today' = _intraday_calls_today
      BY <1>1, SameCount DEF SameTypes
    <2> QED
      BY <1>1, <2>1 DEF CapInv, IntradayCapped
  <1>2. ASSUME NEW s \in Slots, Step(s) \/ Fails(s) PROVE CapInv'
    <2>1. \A t \in Slots : t # s => run'[t] = run[t]
      BY <1>2, RunEffect DEF JobInv
    <2>2. run'[s].pc \in {"topup", "topped"} => run[s].pc \in {"topup", "topped"}
      BY <1>2, AskEffect
    <2>3. \A t \in Slots : run'[t].pc \in {"topup", "topped"} => Job(t) = "morning"
      BY <2>1, <2>2 DEF CapInv
    <2>4. _intraday_calls_today \in Nat /\ MaxIntraday \in Nat
      BY CountTyped, DayAssumption DEF JobInv
    <2>5. Job(s) = "intraday" => s = <<"intraday", "cron">>
      BY SlotJobs
    <2>6. CASE Asks(s)
      <3>1. _intraday_calls_today' = _intraday_calls_today
        BY <2>6, SameCount DEF SameTypes, Asks
      <3>2. run'[<<"intraday", "cron">>].pc = "decide" => _intraday_calls_today < MaxIntraday
        BY <2>1, <2>6, SlotJobs DEF CapInv, Asks, Jobs
      <3> QED
        BY <2>3, <3>1, <3>2 DEF CapInv, IntradayCapped
    <2>7. CASE Answers(s)
      <3>1. PICK r \in DecisionRecord : r.type = Job(s) /\ decisions' = Append(decisions, r)
        BY <2>7 DEF Answers
      <3>2. _intraday_calls_today'
              = IF r.type = "intraday" THEN _intraday_calls_today + 1 ELSE _intraday_calls_today
        BY <3>1, AppendCount DEF JobInv
      <3>3. CASE Job(s) = "intraday"
        <4>1. _intraday_calls_today < MaxIntraday
          BY <2>5, <2>7, <3>3 DEF CapInv, Answers
        <4>2. run'[<<"intraday", "cron">>].pc # "decide"
          BY <2>5, <2>7, <3>3 DEF Answers
        <4> QED
          BY <2>3, <2>4, <3>1, <3>2, <3>3, <4>1, <4>2 DEF CapInv, IntradayCapped
      <3>4. CASE Job(s) # "intraday"
        <4>1. run'[<<"intraday", "cron">>] = run[<<"intraday", "cron">>]
          BY <2>1, <3>4, SlotJobs DEF Jobs
        <4>2. _intraday_calls_today' = _intraday_calls_today
          BY <3>1, <3>2, <3>4
        <4> QED
          BY <2>3, <4>1, <4>2 DEF CapInv, IntradayCapped
      <3> QED
        BY <3>3, <3>4
    <2>8. CASE run'[s].pc # "decide" /\ SameTypes
      <3>1. _intraday_calls_today' = _intraday_calls_today
        BY <2>8, SameCount
      <3>2. run'[<<"intraday", "cron">>].pc = "decide" => _intraday_calls_today < MaxIntraday
        BY <2>1, <2>8, SlotJobs DEF CapInv, Jobs
      <3> QED
        BY <2>3, <3>1, <3>2 DEF CapInv, IntradayCapped
    <2> QED
      BY <1>2, <2>6, <2>7, <2>8, AskEffect
  <1>3. CASE Down
    <2>1. \A s \in Slots : run'[s].pc = "off"
      BY <1>3, EntryTyped DEF Down
    <2>2. _intraday_calls_today' = _intraday_calls_today
      BY <1>3, SameCount DEF SameTypes, Down, book
    <2>3. <<"intraday", "cron">> \in Slots
      BY SlotJobs DEF Jobs
    <2> QED
      BY <2>1, <2>2, <2>3 DEF CapInv, IntradayCapped
  <1>4. ASSUME NEW j \in Jobs, Fire(j) PROVE CapInv'
    BY <1>1, <1>4, CapStart, SlotJobs DEF Fire, book
  <1>5. ASSUME NEW j \in DAILY_CRITICAL, CatchUp(j) PROVE CapInv'
    BY <1>5, CapStart, SlotJobs DEF CatchUp, book
  <1>6. CASE build_scheduler \/ reconcile_missed \/ Tick \/ RunPushJob \/ UNCHANGED vars
    BY <1>1, <1>6 DEF build_scheduler, reconcile_missed, Tick, RunPushJob, vars, book
  <1>7. ASSUME NEW p \in Pushers, Push(p) PROVE CapInv'
    BY <1>1, <1>7 DEF Push, book
  <1> QED
    BY <1>2, <1>3, <1>4, <1>5, <1>6, <1>7 DEF Next

(* The day never sees more intraday decisions than the cap, although the   *)
(* row is written long after the cap was compared.                         *)
THEOREM CapKept == Spec => []IntradayCapped
  <1>1. CapInv => IntradayCapped
    BY DEF CapInv
  <1> QED
    BY <1>1, JobInit, JobStep, CapInit, CapStep, PTL DEF Spec

-----------------------------------------------------------------------------
(* The pushers: a push raises only with a fault.                           *)

PushInv ==
    /\ push = [p \in Pushers |-> push[p]]
    /\ \A p \in Pushers : push[p] = [pc |-> push[p].pc, pending |-> push[p].pending]
    /\ \A p \in Pushers : push[p].pc = "raised" => faults >= 1

LEMMA RaisedTyped ==
    ASSUME PushInv, NEW p \in Pushers, NEW x, push' = [push EXCEPT ![p] = x],
           \E a, b : x = [pc |-> a, pending |-> b],
           faults \in Nat, faults' \in Nat, faults' >= faults,
           x.pc = "raised" => faults' >= 1
    PROVE  PushInv'
  <1>1. \A q \in Pushers : push'[q] = IF q = p THEN x ELSE push[q]
    BY DEF PushInv
  <1>2. push' = [q \in Pushers |-> push'[q]]
    BY DEF PushInv
  <1>3. x = [pc |-> x.pc, pending |-> x.pending]
    OBVIOUS
  <1>4. \A q \in Pushers : push'[q] = [pc |-> push'[q].pc, pending |-> push'[q].pending]
    BY <1>1, <1>3 DEF PushInv
  <1>5. \A q \in Pushers : push'[q].pc = "raised" => faults' >= 1
    BY <1>1 DEF PushInv
  <1> QED
    BY <1>2, <1>4, <1>5 DEF PushInv

LEMMA RaisedInit == Init => PushInv
  BY DEF Init, NotesInit, Resting, PushInv

LEMMA RaisedStep == Typed /\ PushInv /\ [Next]_vars => PushInv'
  <1> SUFFICES ASSUME Typed, PushInv, [Next]_vars PROVE PushInv'
    OBVIOUS
  <1>1. faults \in Nat
    BY DEF Typed, ProcessTyped
  <1>2. /\ \A s \in Slots : s \in Pushers
        /\ PushJob \in Pushers
        /\ \E a, b : Resting = [pc |-> a, pending |-> b]
        /\ Resting.pc = "off"
    BY DayAssumption DEF Resting
  <1>3. ASSUME UNCHANGED push, UNCHANGED faults \/ Fault PROVE PushInv'
    BY <1>1, <1>3 DEF PushInv, Fault
  <1>3a. UNCHANGED faults => faults' \in Nat /\ faults' >= faults
    BY <1>1
  <1>4. ASSUME NEW p \in Pushers, NEW label \in {"select", "mark"}, UNCHANGED faults,
               push' = [push EXCEPT ![p].pc = label]
        PROVE  PushInv'
    <2> DEFINE x == [pc |-> label, pending |-> push[p].pending]
    <2>1. [push[p] EXCEPT !.pc = label] = x
      BY DEF PushInv
    <2>2. push' = [push EXCEPT ![p] = x] /\ x.pc # "raised" /\ \E a, b : x = [pc |-> a, pending |-> b]
      BY <1>4, <2>1
    <2> HIDE DEF x
    <2> QED
      BY <1>1, <1>4, <1>3a, <2>2, RaisedTyped, Zenon
  <1>5. ASSUME NEW p \in Pushers, PushOver(p), UNCHANGED faults PROVE PushInv'
    BY <1>1, <1>2, <1>5, <1>3a, RaisedTyped, Zenon DEF PushOver
  <1>6. ASSUME NEW p \in Pushers, push_pending(p), UNCHANGED faults PROVE PushInv'
    <2>1. ASSUME NEW x, push' = [push EXCEPT ![p] = x],
                 x = Resting \/ \E b : x = [pc |-> "send", pending |-> b]
          PROVE  PushInv'
      <3>1. x.pc # "raised" /\ \E a, b : x = [pc |-> a, pending |-> b]
        BY <1>2, <2>1
      <3> QED
        BY <1>1, <1>6, <1>3a, <2>1, <3>1, RaisedTyped, Zenon
    <2>2. Onward(p) = Resting \/ \E b : Onward(p) = [pc |-> "send", pending |-> b]
      BY DEF Onward
    <2>3. CASE SelectPending(p)
      <3>1. PICK some : push' = [push EXCEPT ![p] =
                                   IF some = {} THEN Resting
                                   ELSE [pc |-> "send", pending |-> some]]
        BY <2>3 DEF SelectPending
      <3> QED
        BY <2>1, <3>1
    <2>4. CASE _send_telegram(p)
      BY <1>4, <1>6, <2>1, <2>2, <2>4 DEF _send_telegram
    <2>5. CASE MarkPushed(p)
      BY <2>1, <2>2, <2>5 DEF MarkPushed
    <2> QED
      BY <1>6, <2>3, <2>4, <2>5 DEF push_pending
  <1>7. ASSUME NEW p \in Pushers, PushFails(p), Fault PROVE PushInv'
    <2>1. push' = [push EXCEPT ![p] = [pc |-> "raised", pending |-> {}]]
      BY <1>7 DEF PushFails
    <2>2. faults' \in Nat /\ faults' >= faults /\ faults' >= 1
      BY <1>1, <1>7 DEF Fault
    <2> QED
      BY <1>1, <2>1, <2>2, RaisedTyped, Zenon
  <1>8. ASSUME NEW p \in Pushers, Push(p) PROVE PushInv'
    BY <1>5, <1>6, <1>7, <1>8 DEF Push
  <1>9. CASE Down
    BY <1>1, <1>2, <1>9 DEF Down, PushInv, Resting
  <1>10. CASE build_scheduler \/ reconcile_missed \/ Tick \/ UNCHANGED vars
    BY <1>3, <1>10 DEF build_scheduler, reconcile_missed, Tick, vars, outbox
  <1>11. CASE RunPushJob
    BY <1>2, <1>4, <1>11 DEF RunPushJob
  <1>12. ASSUME NEW j \in Jobs, Fire(j) PROVE PushInv'
    BY <1>3, <1>12 DEF Fire, outbox
  <1>13. ASSUME NEW j \in DAILY_CRITICAL, CatchUp(j) PROVE PushInv'
    BY <1>3, <1>13 DEF CatchUp, outbox
  <1>14. ASSUME NEW s \in Slots, Step(s) \/ Fails(s) PROVE PushInv'
    <2>1. CASE Notify(s)
      BY <1>2, <1>3, <1>4, <2>1 DEF Notify, create, outbox
    <2>2. CASE Return(s)
      BY <1>2, <1>5, <2>2 DEF Return
    <2>3. CASE topup_daily_budget(s) \/ CheckCap(s) \/ _decide(s) \/ Skip(s) \/ LoadPortfolio(s)
      BY <1>3, <2>3 DEF topup_daily_budget, CheckCap, _decide, Skip, LoadPortfolio, outbox
    <2>4. CASE CommitTrade(s) \/ _update_decision_counts(s) \/ _logged(s) \/ Fails(s)
      BY <1>3, <2>4 DEF CommitTrade, _update_decision_counts, _logged, Fails, outbox
    <2> QED
      BY <1>14, <2>1, <2>2, <2>3, <2>4 DEF Step
  <1> QED
    BY <1>8, <1>9, <1>10, <1>11, <1>12, <1>13, <1>14 DEF Next

-----------------------------------------------------------------------------
(* The cash: without overlap one run at most is between the read and the   *)
(* write of the portfolio row, and what it read is still there.            *)

Net == Budget * topups - bought + sold

CashInv ==
    ~overlapped =>
        /\ \A s, t \in Slots : Holding(s) /\ Holding(t) => s = t
        /\ \A s \in Slots : Holding(s) => run[s].loaded = cash
        /\ cash = InitialCash + Net

Reads(s) ==
    /\ run'[s].loaded = cash
    /\ overlapped' = (overlapped \/ \E t \in Slots : Holding(t))
    /\ UNCHANGED <<cash, topups, bought, sold>>

Writes(s) ==
    /\ Holding(s) /\ ~Holding(s)'
    /\ \E x \in Int : cash' = run[s].loaded + x /\ Net' = Net + x
    /\ UNCHANGED overlapped

LeavesCash(s) ==
    /\ ~Holding(s)'
    /\ UNCHANGED <<cash, topups, bought, sold, overlapped>>

LEMMA NetTyped ==
    ASSUME Typed
    PROVE  Net \in Int /\ Budget \in Nat
  <1>1. Budget \in Nat /\ topups \in Nat /\ bought \in Nat /\ sold \in Nat
    BY DayAssumption DEF Typed, BookTyped
  <1>2. Budget * topups \in Int
    BY <1>1
  <1> QED
    BY <1>1, <1>2 DEF Net

LEMMA CashEffect ==
    ASSUME Typed, NEW s \in Slots, Step(s) \/ Fails(s)
    PROVE  Reads(s) \/ Writes(s) \/ LeavesCash(s)
  <1>1. run \in [Slots -> RunRecord]
    BY DEF Typed, BookTyped
  <1>2. /\ \A label : Goto(s, label) => run'[s].pc = label
        /\ \A label : Load(s, label) => run'[s].loaded = cash
    <2>1. \A label : Goto(s, label) => run'[s].pc = label
      BY <1>1 DEF Goto, RunRecord
    <2>2. ASSUME NEW label, Load(s, label) PROVE run'[s].loaded = cash
      <3>1. run' = [run EXCEPT ![s].pc = label, ![s].loaded = cash]
        BY <2>2 DEF Load
      <3> QED
        BY <1>1, <3>1 DEF RunRecord
    <2> QED
      BY <2>1, <2>2
  <1>3. topups \in Nat /\ bought \in Nat /\ sold \in Nat /\ Budget \in Nat /\ cash \in Int
    BY NetTyped DEF Typed, BookTyped
  <1>4. CASE topup_daily_budget(s)
    <2>1. CASE run[s].pc = "topup" /\ Load(s, "topped")
      BY <1>2, <1>4, <2>1 DEF topup_daily_budget, Load, Reads
    <2>2. CASE run[s].pc = "topped" /\ cash' = run[s].loaded + Budget
      <3>1. /\ run' = [run EXCEPT ![s] = Entry("eod")] /\ topups' = topups + 1
            /\ UNCHANGED <<bought, sold, overlapped>>
        BY <1>4, <2>2 DEF topup_daily_budget
      <3>2. run'[s].pc = "decide"
        BY <1>1, <3>1 DEF Entry, Off
      <3>3. Budget * (topups + 1) = Budget * topups + Budget
        BY <1>3
      <3>4. Net' = Net + Budget
        <4>1. Budget * topups \in Int
          BY <1>3
        <4> DEFINE product == Budget * topups
        <4>2. /\ Net' = (product + Budget) - bought + sold
              /\ Net = product - bought + sold
          BY <3>1, <3>3 DEF Net
        <4> HIDE DEF product
        <4> QED
          BY <1>3, <4>1, <4>2 DEF product
      <3> QED
        BY <1>3, <2>2, <3>1, <3>2, <3>4 DEF Writes, Holding
    <2> QED
      BY <1>4, <2>1, <2>2 DEF topup_daily_budget
  <1>5. CASE CheckCap(s) \/ Skip(s) \/ Notify(s)
    BY <1>2, <1>5 DEF CheckCap, Skip, Notify, LeavesCash, Holding, book
  <1>6. CASE _decide(s)
    <2>1. PICK a : run' = [run EXCEPT ![s].pc = "act", ![s].action = a,
                                      ![s].decision = Len(decisions) + 1]
      BY <1>6 DEF _decide
    <2>2. run'[s].pc = "act"
      BY <1>1, <2>1 DEF RunRecord
    <2> QED
      BY <1>6, <2>2 DEF _decide, LeavesCash, Holding
  <1>7. CASE LoadPortfolio(s)
    BY <1>2, <1>7 DEF LoadPortfolio, Load, Reads
  <1>8. CASE CommitTrade(s)
    <2>1. PICK label \in {"note", "counts"} :
             run' = [run EXCEPT ![s].pc = label, ![s].loaded = 0]
      BY <1>8 DEF CommitTrade
    <2>2. run'[s].pc = label
      BY <1>1, <2>1 DEF RunRecord
    <2>3. run[s].pc = "commit" /\ UNCHANGED <<topups, overlapped>>
      BY <1>8 DEF CommitTrade
    <2>4. run[s].loaded \in Int
      BY <1>1 DEF RunRecord
    <2>5. CASE UNCHANGED <<cash, bought, sold>>
      BY <2>2, <2>3, <2>5 DEF LeavesCash, Holding
    <2>6. ASSUME NEW x \in {-1, 1}, cash' = run[s].loaded + x, Net' = Net + x
          PROVE  Writes(s)
      <3>1. x \in Int
        BY <2>6
      <3> QED
        BY <2>2, <2>3, <2>6, <3>1 DEF Writes, Holding
    <2>7. CASE cash' = run[s].loaded - 1 /\ bought' = bought + 1 /\ UNCHANGED sold
      <3>1. Net' = Net + (-1)
        BY <1>3, <2>3, <2>7 DEF Net
      <3>2. cash' = run[s].loaded + (-1)
        BY <2>4, <2>7
      <3> QED
        BY <2>6, <3>1, <3>2
    <2>8. CASE cash' = run[s].loaded + 1 /\ sold' = sold + 1 /\ UNCHANGED bought
      <3>1. Net' = Net + 1
        BY <1>3, <2>3, <2>8 DEF Net
      <3> QED
        BY <2>6, <2>8, <3>1
    <2> QED
      BY <1>8, <2>5, <2>7, <2>8 DEF CommitTrade
  <1>9. CASE Return(s)
    <2>1. PICK n : run' = [run EXCEPT ![s].pc = "counts", ![s].executed = n]
      BY <1>9 DEF Return
    <2>2. run'[s].pc = "counts"
      BY <1>1, <2>1 DEF RunRecord
    <2> QED
      BY <1>9, <2>2 DEF Return, LeavesCash, Holding, book
  <1>10. CASE _update_decision_counts(s)
    <2>1. run'[s].pc = "log"
      BY <1>1, <1>10 DEF _update_decision_counts, Off
    <2> QED
      BY <1>10, <2>1 DEF _update_decision_counts, LeavesCash, Holding
  <1>11. CASE _logged(s) \/ Fails(s)
    <2>1. run'[s].pc = "off"
      BY <1>1, <1>11, EntryTyped DEF _logged, Fails
    <2> QED
      BY <1>11, <2>1 DEF _logged, Fails, LeavesCash, Holding, book
  <1> QED
    BY <1>4, <1>5, <1>6, <1>7, <1>8, <1>9, <1>10, <1>11 DEF Step

LEMMA CashInit == Init => CashInv
  <1> SUFFICES ASSUME Init PROVE CashInv
    OBVIOUS
  <1>1. \A s \in Slots : ~Holding(s)
    BY EntryTyped DEF Init, Holding
  <1>2. Net = 0
    BY DayAssumption DEF Init, Net
  <1>3. cash = InitialCash + Net
    BY <1>2, DayAssumption DEF Init
  <1> QED
    BY <1>1, <1>3 DEF CashInv

LEMMA CashRun ==
    ASSUME Typed, CashInv, NEW s \in Slots, Step(s) \/ Fails(s)
    PROVE  CashInv'
  <1>1. \A t \in Slots : t # s => (Holding(t)' <=> Holding(t)) /\ run'[t].loaded = run[t].loaded
    BY RunEffect DEF Holding
  <1>2. CASE Reads(s)
    <2> SUFFICES ASSUME ~overlapped' PROVE CashInv'
      BY DEF CashInv
    <2>1. ~overlapped /\ (\A t \in Slots : ~Holding(t)) /\ cash' = cash /\ Net' = Net
      BY <1>2 DEF Reads, Net
    <2>2. \A t \in Slots : Holding(t)' => t = s
      BY <1>1, <2>1
    <2> QED
      BY <1>2, <2>1, <2>2 DEF CashInv, Reads
  <1>3. CASE Writes(s)
    <2> SUFFICES ASSUME ~overlapped' PROVE CashInv'
      BY DEF CashInv
    <2>1. PICK x \in Int : cash' = run[s].loaded + x /\ Net' = Net + x
      BY <1>3 DEF Writes
    <2>2. ~overlapped /\ Holding(s) /\ ~Holding(s)'
      BY <1>3 DEF Writes
    <2>3. \A t \in Slots : ~Holding(t)'
      BY <1>1, <2>2 DEF CashInv
    <2>4. run[s].loaded = cash /\ cash = InitialCash + Net
      BY <2>2 DEF CashInv
    <2>5. cash' = InitialCash + Net'
      BY <2>1, <2>4, NetTyped, DayAssumption
    <2> QED
      BY <2>3, <2>5 DEF CashInv
  <1>4. CASE LeavesCash(s)
    <2>1. Net' = Net /\ cash' = cash /\ overlapped' = overlapped /\ ~Holding(s)'
      BY <1>4 DEF LeavesCash, Net
    <2> QED
      BY <1>1, <2>1 DEF CashInv
  <1> QED
    BY <1>2, <1>3, <1>4, CashEffect

LEMMA CashStep == Typed /\ CashInv /\ [Next]_vars => CashInv'
  <1> SUFFICES ASSUME Typed, CashInv, [Next]_vars PROVE CashInv'
    OBVIOUS
  <1>1. ASSUME UNCHANGED book,
               \A s \in Slots : Holding(s)' => Holding(s) /\ run'[s] = run[s]
        PROVE  CashInv'
    <2>1. Net' = Net /\ cash' = cash /\ overlapped' = overlapped
      BY <1>1 DEF book, Net
    <2> QED
      BY <1>1, <2>1 DEF CashInv
  <1>2. ASSUME NEW s \in Slots, Start(s), UNCHANGED book PROVE CashInv'
    <2>1. /\ \A t \in Slots : t # s => run'[t] = run[t]
          /\ run'[s] = Entry(Job(s)) /\ Job(s) \in Jobs
      BY <1>2, StartBegins, SlotJobs
    <2>2. ~Holding(s)'
      BY <2>1, EntryTyped DEF Holding, Jobs
    <2> QED
      BY <1>1, <1>2, <2>1, <2>2 DEF Holding
  <1>3. ASSUME UNCHANGED <<book, run>> PROVE CashInv'
    BY <1>1, <1>3 DEF Holding
  <1>4. CASE Down
    <2>1. \A s \in Slots : ~Holding(s)'
      BY <1>4, EntryTyped DEF Down, Holding
    <2> QED
      BY <1>1, <1>4, <2>1 DEF Down
  <1>5. ASSUME NEW j \in Jobs, Fire(j) PROVE CashInv'
    BY <1>2, <1>3, <1>5, SlotJobs DEF Fire
  <1>6. ASSUME NEW j \in DAILY_CRITICAL, CatchUp(j) PROVE CashInv'
    BY <1>2, <1>6, SlotJobs DEF CatchUp
  <1>7. CASE build_scheduler \/ reconcile_missed \/ Tick \/ RunPushJob \/ UNCHANGED vars
    BY <1>3, <1>7 DEF build_scheduler, reconcile_missed, Tick, RunPushJob, vars
  <1>8. ASSUME NEW p \in Pushers, Push(p) PROVE CashInv'
    BY <1>3, <1>8 DEF Push
  <1> QED
    BY <1>4, <1>5, <1>6, <1>7, <1>8, CashRun DEF Next

-----------------------------------------------------------------------------
(* The counts: a run owns the decision it trades on until it counts it.    *)

Acting(s) == run[s].pc \in {"act", "commit", "note", "pushing", "counts"}

Backed(d) ==
    /\ decisions[d].executed <= decisions[d].traded
    /\ decisions[d].counted => decisions[d].traded - decisions[d].executed <= faults

Owns(s) ==
    LET mine == decisions[run[s].decision]
    IN  /\ Acting(s) => /\ run[s].decision \in DOMAIN decisions
                        /\ ~mine.counted /\ mine.executed = 0
        /\ run[s].pc \in {"act", "commit"} => mine.traded = 0
        /\ run[s].pc \in {"note", "pushing"} => mine.traded = 1
        /\ run[s].pc # "counts" => run[s].executed = 0
        /\ run[s].pc = "counts" => /\ run[s].executed <= mine.traded
                                   /\ mine.traded - run[s].executed <= faults

CountInv ==
    /\ \A s \in Slots : Owns(s)
    /\ \A s, t \in Slots :
          Acting(s) /\ Acting(t) /\ run[s].decision = run[t].decision => s = t
    /\ CountsBacked

(* Nobody else is disturbed when a run touches no decision but its own.    *)
LEMMA OthersOwn ==
    ASSUME Typed, CountInv, NEW s \in Slots,
           faults' \in Nat, faults' >= faults,
           \A t \in Slots : t # s => run'[t] = run[t],
           \A d \in DOMAIN decisions :
              d \in DOMAIN decisions'
              /\ (decisions'[d] = decisions[d] \/ (Acting(s) /\ d = run[s].decision)),
           Owns(s)',
           Acting(s)' => \/ Acting(s) /\ run'[s].decision = run[s].decision
                         \/ run'[s].decision \notin DOMAIN decisions,
           \A d \in DOMAIN decisions' :
              d \notin DOMAIN decisions \/ (Acting(s) /\ d = run[s].decision) => Backed(d)'
    PROVE  CountInv'
  <1>1. faults \in Nat /\ \A d \in DOMAIN decisions : decisions[d] \in DecisionRecord
    BY DEF Typed, ProcessTyped, BookTyped
  <1>2. \A t \in Slots : t # s => (Acting(t)' <=> Acting(t)) /\ run'[t].decision = run[t].decision
    BY DEF Acting
  <1>3. \A t \in Slots : t # s /\ Acting(t) =>
           /\ run[t].decision \in DOMAIN decisions
           /\ ~(Acting(s) /\ run[t].decision = run[s].decision)
    BY DEF CountInv, Owns
  <1>4. ASSUME NEW t \in Slots, t # s PROVE Owns(t)'
    <2>1. run'[t] = run[t] /\ Owns(t)
      BY <1>4 DEF CountInv
    <2>2. CASE Acting(t)
      <3>1. /\ run[t].decision \in DOMAIN decisions /\ run[t].decision \in DOMAIN decisions'
            /\ decisions'[run[t].decision] = decisions[run[t].decision]
        BY <1>3, <1>4, <2>2
      <3>2. /\ decisions[run[t].decision].traded \in Nat
            /\ run[t].executed \in Nat
        BY <1>1, <3>1 DEF DecisionRecord, RunRecord, Typed, BookTyped
      <3>3. run[t].pc = "counts" => decisions[run[t].decision].traded - run[t].executed <= faults'
        BY <1>1, <2>1, <3>2 DEF Owns
      <3> QED
        BY <2>1, <3>1, <3>3 DEF Owns, Acting
    <2>3. CASE ~Acting(t)
      BY <2>1, <2>3 DEF Owns, Acting
    <2> QED
      BY <2>2, <2>3
  <1>5. \A t, u \in Slots :
           Acting(t)' /\ Acting(u)' /\ run'[t].decision = run'[u].decision => t = u
    BY <1>2, <1>3 DEF CountInv
  <1>6. ASSUME NEW d \in DOMAIN decisions' PROVE Backed(d)'
    <2>1. CASE d \notin DOMAIN decisions \/ (Acting(s) /\ d = run[s].decision)
      BY <2>1
    <2>2. CASE d \in DOMAIN decisions /\ ~(Acting(s) /\ d = run[s].decision)
      <3>1. decisions'[d] = decisions[d] /\ Backed(d)
        BY <2>2 DEF CountInv, CountsBacked, Backed
      <3>2. decisions[d].traded \in Nat /\ decisions[d].executed \in Nat
        BY <1>1, <2>2 DEF DecisionRecord
      <3> QED
        BY <1>1, <3>1, <3>2 DEF Backed
    <2> QED
      BY <2>1, <2>2
  <1> QED
    BY <1>4, <1>5, <1>6 DEF CountInv, CountsBacked, Backed

(* The decisions stay, and a run that has none keeps to itself.            *)
LEMMA SameDecisions ==
    ASSUME Typed, CountInv, NEW s \in Slots, UNCHANGED decisions,
           faults' \in Nat, faults' >= faults,
           \A t \in Slots : t # s => run'[t] = run[t],
           Owns(s)',
           Acting(s)' => Acting(s) /\ run'[s].decision = run[s].decision
    PROVE  CountInv'
  <1>1. faults \in Nat /\ \A d \in DOMAIN decisions : decisions[d] \in DecisionRecord
    BY DEF Typed, ProcessTyped, BookTyped
  <1>2. ASSUME NEW d \in DOMAIN decisions' PROVE Backed(d)'
    <2>1. decisions'[d] = decisions[d] /\ Backed(d) /\ d \in DOMAIN decisions
      BY <1>2 DEF CountInv, CountsBacked, Backed
    <2>2. decisions[d].traded \in Nat /\ decisions[d].executed \in Nat
      BY <1>1, <2>1 DEF DecisionRecord
    <2> QED
      BY <1>1, <2>1, <2>2 DEF Backed
  <1> QED
    BY <1>2, OthersOwn

LEMMA CountRun ==
    ASSUME Typed, PushInv, CountInv, NEW s \in Slots, Step(s) \/ Fails(s)
    PROVE  CountInv'
  <1> DEFINE mine == decisions[run[s].decision]
  <1>1. /\ run \in [Slots -> RunRecord] /\ decisions \in Seq(DecisionRecord)
        /\ faults \in Nat /\ Owns(s)
        /\ \A d \in DOMAIN decisions : decisions[d] \in DecisionRecord
    BY DEF Typed, ProcessTyped, BookTyped, CountInv
  <1>2. \A t \in Slots : t # s => run'[t] = run[t]
    BY RunEffect
  <1>3. (UNCHANGED faults \/ Fault) => faults' \in Nat /\ faults' >= faults
    BY <1>1 DEF Fault
  <1>4. Fault => faults' >= 1
    BY <1>1 DEF Fault
  <1>5. ASSUME NEW label, Goto(s, label)
        PROVE  /\ run'[s].pc = label
               /\ run'[s].decision = run[s].decision
               /\ run'[s].executed = run[s].executed
    BY <1>1, <1>5 DEF Goto, RunRecord
  <1>6. ASSUME NEW label, Load(s, label)
        PROVE  /\ run'[s].pc = label
               /\ run'[s].decision = run[s].decision
               /\ run'[s].executed = run[s].executed
    <2>1. run' = [run EXCEPT ![s].pc = label, ![s].loaded = cash]
      BY <1>6 DEF Load
    <2> QED
      BY <1>1, <2>1 DEF RunRecord
  <1>7. CASE topup_daily_budget(s)
    <2>1. CASE run[s].pc = "topup" /\ Load(s, "topped")
      <3>1. Owns(s)' /\ ~Acting(s)'
        BY <1>1, <1>6, <2>1 DEF Owns, Acting
      <3>2. UNCHANGED <<decisions, faults>>
        BY <1>7 DEF topup_daily_budget
      <3> QED
        BY <1>2, <1>3, <3>1, <3>2, SameDecisions
    <2>2. CASE run[s].pc = "topped" /\ run' = [run EXCEPT ![s] = Entry("eod")]
      <3>1. run'[s].pc = "decide" /\ run'[s].executed = 0
        BY <1>1, <2>2 DEF Entry, Off
      <3>2. Owns(s)' /\ ~Acting(s)'
        BY <3>1 DEF Owns, Acting
      <3>3. UNCHANGED <<decisions, faults>>
        BY <1>7 DEF topup_daily_budget
      <3> QED
        BY <1>2, <1>3, <3>2, <3>3, SameDecisions
    <2> QED
      BY <1>7, <2>1, <2>2 DEF topup_daily_budget
  <1>8. CASE CheckCap(s)
    <2>1. run'[s].pc \in {"log", "decide"} /\ run'[s].executed = 0
      BY <1>1, <1>5, <1>8 DEF CheckCap, Owns
    <2>2. Owns(s)' /\ ~Acting(s)'
      BY <2>1 DEF Owns, Acting
    <2>3. UNCHANGED <<decisions, faults>>
      BY <1>8 DEF CheckCap, book
    <2> QED
      BY <1>2, <1>3, <2>2, <2>3, SameDecisions
  <1>9. CASE _decide(s)
    <2> DEFINE n == Len(decisions) + 1
               r == [type |-> Job(s), traded |-> 0, executed |-> 0, counted |-> FALSE]
    <2>1. PICK a : run' = [run EXCEPT ![s].pc = "act", ![s].action = a, ![s].decision = n]
      BY <1>9 DEF _decide
    <2>2. run'[s].pc = "act" /\ run'[s].decision = n /\ run'[s].executed = run[s].executed
      BY <1>1, <2>1 DEF RunRecord
    <2>3. /\ decisions' = Append(decisions, r) /\ run[s].pc = "decide"
          /\ UNCHANGED faults \/ Fault
      BY <1>9 DEF _decide
    <2>4. /\ DOMAIN decisions = 1 .. Len(decisions) /\ Len(decisions) \in Nat
          /\ DOMAIN decisions' = 1 .. n
          /\ decisions'[n] = r
          /\ \A d \in DOMAIN decisions : decisions'[d] = decisions[d]
      BY <1>1, <2>3
    <2>5. r.traded = 0 /\ r.executed = 0 /\ ~r.counted
      OBVIOUS
    <2> HIDE DEF r
    <2>6. run'[s].executed = 0
      BY <1>1, <2>2, <2>3 DEF Owns
    <2>7. Owns(s)'
      BY <2>2, <2>4, <2>5, <2>6 DEF Owns, Acting
    <2>9. n \notin DOMAIN decisions /\ ~Acting(s)
      BY <2>3, <2>4 DEF Acting
    <2>10. ASSUME NEW d \in DOMAIN decisions', d \notin DOMAIN decisions PROVE Backed(d)'
      <3>1. decisions'[d] = r
        BY <2>4, <2>10
      <3>2. decisions'[d].traded = 0 /\ decisions'[d].executed = 0 /\ ~decisions'[d].counted
        BY <2>5, <3>1
      <3> QED
        BY <3>2 DEF Backed
    <2>11. \A d \in DOMAIN decisions : d \in DOMAIN decisions' /\ decisions'[d] = decisions[d]
      BY <2>4
    <2> QED
      BY <1>2, <1>3, <2>2, <2>3, <2>7, <2>9, <2>10, <2>11, OthersOwn
  <1>10. CASE Skip(s)
    <2>1. /\ run'[s].pc = "counts" /\ run'[s].decision = run[s].decision
          /\ run'[s].executed = 0 /\ run[s].pc = "act"
          /\ UNCHANGED <<decisions, faults>>
      BY <1>1, <1>5, <1>10 DEF Skip, Owns, book
    <2>2. Acting(s) /\ mine.traded = 0
      BY <1>1, <2>1 DEF Owns, Acting
    <2>3. Owns(s)'
      BY <1>1, <2>1, <2>2 DEF Owns, Acting
    <2> QED
      BY <1>2, <1>3, <2>1, <2>2, <2>3, SameDecisions
  <1>11. CASE LoadPortfolio(s)
    <2>1. /\ run'[s].pc = "commit" /\ run'[s].decision = run[s].decision
          /\ run'[s].executed = 0 /\ run[s].pc = "act"
          /\ UNCHANGED <<decisions, faults>>
      BY <1>1, <1>6, <1>11 DEF LoadPortfolio, Owns
    <2>2. Acting(s) /\ mine.traded = 0
      BY <1>1, <2>1 DEF Owns, Acting
    <2>3. Owns(s)'
      BY <1>1, <2>1, <2>2 DEF Owns, Acting
    <2> QED
      BY <1>2, <1>3, <2>1, <2>2, <2>3, SameDecisions
  <1>12. CASE CommitTrade(s)
    <2>1. PICK label \in {"note", "counts"} :
             /\ run' = [run EXCEPT ![s].pc = label, ![s].loaded = 0]
             /\ \/ /\ label = "note" /\ UNCHANGED faults
                   /\ decisions' = [decisions EXCEPT ![run[s].decision].traded = @ + 1]
                \/ label = "counts" /\ Fault /\ UNCHANGED decisions
      BY <1>12 DEF CommitTrade
    <2>2. /\ run'[s].pc = label /\ run'[s].decision = run[s].decision
          /\ run'[s].executed = run[s].executed
      BY <1>1, <2>1 DEF RunRecord
    <2>3. /\ run[s].pc = "commit" /\ Acting(s) /\ mine.traded = 0 /\ run[s].executed = 0
          /\ run[s].decision \in DOMAIN decisions /\ ~mine.counted /\ mine.executed = 0
      BY <1>1, <1>12 DEF CommitTrade, Owns, Acting
    <2>4. CASE label = "counts" /\ Fault /\ UNCHANGED decisions
      <3>1. Owns(s)'
        BY <1>3, <2>2, <2>3, <2>4 DEF Owns, Acting
      <3> QED
        BY <1>2, <1>3, <2>2, <2>3, <2>4, <3>1, SameDecisions
    <2>5. CASE /\ label = "note" /\ UNCHANGED faults
               /\ decisions' = [decisions EXCEPT ![run[s].decision].traded = @ + 1]
      <3>1. /\ DOMAIN decisions' = DOMAIN decisions
            /\ \A d \in DOMAIN decisions : d # run[s].decision => decisions'[d] = decisions[d]
            /\ decisions'[run[s].decision] = [mine EXCEPT !.traded = @ + 1]
        BY <2>3, <2>5
      <3>2. mine \in DecisionRecord
        BY <1>1, <2>3
      <3>3. /\ decisions'[run[s].decision].traded = 1
            /\ decisions'[run[s].decision].executed = 0
            /\ ~decisions'[run[s].decision].counted
        BY <2>3, <3>1, <3>2 DEF DecisionRecord
      <3>4. Owns(s)'
        BY <2>2, <2>3, <2>5, <3>1, <3>3 DEF Owns, Acting
      <3>5. ASSUME NEW d, d = run[s].decision PROVE Backed(d)'
        <4>1. decisions'[d].traded = 1 /\ decisions'[d].executed = 0 /\ ~decisions'[d].counted
          BY <3>3, <3>5
        <4> QED
          BY <4>1 DEF Backed
      <3>6. \A d \in DOMAIN decisions' :
               d \notin DOMAIN decisions \/ (Acting(s) /\ d = run[s].decision) => Backed(d)'
        BY <3>1, <3>5
      <3>7. \A d \in DOMAIN decisions :
               d \in DOMAIN decisions'
               /\ (decisions'[d] = decisions[d] \/ (Acting(s) /\ d = run[s].decision))
        BY <2>3, <3>1
      <3> QED
        BY <1>2, <1>3, <2>2, <2>3, <2>5, <3>4, <3>6, <3>7, OthersOwn
    <2> QED
      BY <2>1, <2>4, <2>5
  <1>13. CASE Notify(s)
    <2>1. /\ run[s].pc = "note" /\ UNCHANGED decisions
          /\ \/ Goto(s, "pushing") /\ UNCHANGED faults
             \/ Goto(s, "counts") /\ Fault
      BY <1>13 DEF Notify, book
    <2>2. /\ Acting(s) /\ mine.traded = 1 /\ run[s].executed = 0
          /\ run[s].decision \in DOMAIN decisions /\ ~mine.counted /\ mine.executed = 0
      BY <1>1, <2>1 DEF Owns, Acting
    <2>3. /\ run'[s].decision = run[s].decision /\ run'[s].executed = 0
          /\ \/ run'[s].pc = "pushing" /\ UNCHANGED faults
             \/ run'[s].pc = "counts" /\ Fault
      BY <1>5, <2>1, <2>2
    <2>4. Owns(s)'
      BY <1>4, <2>1, <2>2, <2>3 DEF Owns, Acting
    <2> QED
      BY <1>2, <1>3, <2>1, <2>2, <2>3, <2>4, SameDecisions
  <1>14. CASE Return(s)
    <2>1. run' = [run EXCEPT ![s].pc = "counts",
                        ![s].executed = IF push[s].pc = "off" THEN @ + 1 ELSE @]
      BY <1>14 DEF Return
    <2>2. /\ run[s].pc = "pushing" /\ UNCHANGED <<decisions, faults>>
          /\ push[s].pc \in {"off", "raised"}
      BY <1>14 DEF Return, book
    <2>3. /\ Acting(s) /\ mine.traded = 1 /\ run[s].executed = 0
          /\ run[s].decision \in DOMAIN decisions /\ ~mine.counted /\ mine.executed = 0
      BY <1>1, <2>2 DEF Owns, Acting
    <2>4. /\ run'[s].pc = "counts" /\ run'[s].decision = run[s].decision
          /\ run'[s].executed = IF push[s].pc = "off" THEN run[s].executed + 1
                                ELSE run[s].executed
      BY <1>1, <2>1 DEF RunRecord
    <2>5. push[s].pc = "raised" => faults >= 1
      BY DayAssumption DEF PushInv
    <2>6. run'[s].executed \in {0, 1} /\ 1 - run'[s].executed <= faults
      BY <1>1, <2>2, <2>3, <2>4, <2>5
    <2>7. Owns(s)'
      BY <2>2, <2>3, <2>4, <2>6 DEF Owns, Acting
    <2> QED
      BY <1>2, <1>3, <2>2, <2>3, <2>4, <2>7, SameDecisions
  <1>15. CASE _update_decision_counts(s)
    <2>1. /\ run'[s].pc = "log" /\ run'[s].executed = 0 /\ run[s].pc = "counts"
          /\ UNCHANGED faults
      BY <1>1, <1>15 DEF _update_decision_counts, Off
    <2>2. decisions' = [decisions EXCEPT ![run[s].decision].executed = run[s].executed,
                                         ![run[s].decision].counted = TRUE]
      BY <1>15 DEF _update_decision_counts, Executed
    <2>3. /\ Acting(s) /\ run[s].decision \in DOMAIN decisions
          /\ run[s].executed <= mine.traded /\ mine.traded - run[s].executed <= faults
      BY <1>1, <2>1 DEF Owns, Acting
    <2>4. mine \in DecisionRecord
      BY <1>1, <2>3
    <2>5. /\ DOMAIN decisions' = DOMAIN decisions
          /\ \A d \in DOMAIN decisions : d # run[s].decision => decisions'[d] = decisions[d]
          /\ decisions'[run[s].decision]
               = [mine EXCEPT !.executed = run[s].executed, !.counted = TRUE]
      BY <2>2, <2>3
    <2>6. /\ decisions'[run[s].decision].traded = mine.traded
          /\ decisions'[run[s].decision].executed = run[s].executed
      BY <2>4, <2>5 DEF DecisionRecord
    <2>7. \A d \in DOMAIN decisions' :
             d \notin DOMAIN decisions \/ (Acting(s) /\ d = run[s].decision) => Backed(d)'
      BY <2>1, <2>3, <2>5, <2>6 DEF Backed
    <2>8. Owns(s)' /\ ~Acting(s)'
      BY <2>1 DEF Owns, Acting
    <2>9. \A d \in DOMAIN decisions :
             d \in DOMAIN decisions'
             /\ (decisions'[d] = decisions[d] \/ (Acting(s) /\ d = run[s].decision))
      BY <2>3, <2>5
    <2> QED
      BY <1>2, <1>3, <2>1, <2>7, <2>8, <2>9, OthersOwn
  <1>16. CASE _logged(s) \/ Fails(s)
    <2>1. /\ run'[s].pc = "off" /\ run'[s].executed = 0
          /\ UNCHANGED decisions /\ (UNCHANGED faults \/ Fault)
      BY <1>1, <1>16 DEF _logged, Fails, Off, book
    <2>2. Owns(s)' /\ ~Acting(s)'
      BY <2>1 DEF Owns, Acting
    <2> QED
      BY <1>2, <1>3, <2>1, <2>2, SameDecisions
  <1> QED
    BY <1>7, <1>8, <1>9, <1>10, <1>11, <1>12, <1>13, <1>14, <1>15, <1>16 DEF Step

LEMMA CountInit == Init => CountInv
  <1> SUFFICES ASSUME Init PROVE CountInv
    OBVIOUS
  <1>1. \A s \in Slots : run[s].pc = "off" /\ run[s].executed = 0
    BY DEF Init, Off
  <1>2. decisions = <<>>
    BY DEF Init
  <1>3. CountsBacked
    BY <1>2 DEF CountsBacked
  <1> QED
    BY <1>1, <1>3 DEF CountInv, Owns, Acting

LEMMA CountStep == Typed /\ PushInv /\ CountInv /\ [Next]_vars => CountInv'
  <1> SUFFICES ASSUME Typed, PushInv, CountInv, [Next]_vars PROVE CountInv'
    OBVIOUS
  <1>1. faults \in Nat /\ \A d \in DOMAIN decisions : decisions[d] \in DecisionRecord
    BY DEF Typed, ProcessTyped, BookTyped
  <1>2. ASSUME UNCHANGED <<run, decisions>>, UNCHANGED faults \/ Fault PROVE CountInv'
    <2>1. faults' \in Nat /\ faults' >= faults
      BY <1>1, <1>2 DEF Fault
    <2>2. ASSUME NEW s \in Slots PROVE Owns(s)'
      <3>1. Owns(s) /\ run'[s] = run[s]
        BY <1>2 DEF CountInv
      <3>2. run[s].pc = "counts" =>
               /\ decisions[run[s].decision].traded \in Nat
               /\ run[s].executed \in Nat
        BY <1>1, <3>1 DEF Owns, Acting, DecisionRecord, Typed, BookTyped, RunRecord
      <3>3. run[s].pc = "counts" =>
               decisions[run[s].decision].traded - run[s].executed <= faults'
        BY <1>1, <2>1, <3>1, <3>2 DEF Owns
      <3> QED
        BY <1>2, <3>1, <3>3 DEF Owns, Acting
    <2>3. ASSUME NEW d \in DOMAIN decisions PROVE Backed(d)'
      <3>1. Backed(d) /\ decisions[d].traded \in Nat /\ decisions[d].executed \in Nat
        BY <1>1 DEF CountInv, CountsBacked, Backed, DecisionRecord
      <3> QED
        BY <1>1, <1>2, <2>1, <3>1 DEF Backed
    <2> QED
      BY <1>2, <2>2, <2>3 DEF CountInv, CountsBacked, Backed, Acting
  <1>3. ASSUME NEW s \in Slots, Start(s), UNCHANGED <<decisions, faults>> PROVE CountInv'
    <2>1. /\ \A t \in Slots : t # s => run'[t] = run[t]
          /\ run'[s] = Entry(Job(s)) /\ Job(s) \in Jobs
      BY <1>3, StartBegins, SlotJobs
    <2>2. Owns(s)' /\ ~Acting(s)'
      BY <2>1, EntryTyped DEF Owns, Acting, Jobs
    <2>3. faults' \in Nat /\ faults' >= faults
      BY <1>1, <1>3
    <2> QED
      BY <1>3, <2>1, <2>2, <2>3, SameDecisions
  <1>4. CASE Down
    <2>1. \A s \in Slots : run'[s].pc = "off" /\ run'[s].executed = 0
      BY <1>4 DEF Down, Off
    <2>2. \A s \in Slots : Owns(s)' /\ ~Acting(s)'
      BY <2>1 DEF Owns, Acting
    <2>3. decisions' = decisions /\ faults' \in Nat /\ faults' >= faults
      BY <1>1, <1>4 DEF Down, Fault, book
    <2>4. ASSUME NEW d \in DOMAIN decisions PROVE Backed(d)'
      <3>1. Backed(d) /\ decisions[d].traded \in Nat /\ decisions[d].executed \in Nat
        BY <1>1 DEF CountInv, CountsBacked, Backed, DecisionRecord
      <3> QED
        BY <1>1, <2>3, <3>1 DEF Backed
    <2> QED
      BY <2>2, <2>3, <2>4 DEF CountInv, CountsBacked, Backed
  <1>5. ASSUME NEW j \in Jobs, Fire(j) PROVE CountInv'
    BY <1>2, <1>3, <1>5, SlotJobs DEF Fire, book
  <1>6. ASSUME NEW j \in DAILY_CRITICAL, CatchUp(j) PROVE CountInv'
    BY <1>3, <1>6, SlotJobs DEF CatchUp, book
  <1>7. CASE build_scheduler \/ reconcile_missed \/ Tick \/ RunPushJob \/ UNCHANGED vars
    BY <1>2, <1>7 DEF build_scheduler, reconcile_missed, Tick, RunPushJob, vars, book
  <1>8. ASSUME NEW p \in Pushers, Push(p) PROVE CountInv'
    BY <1>2, <1>8 DEF Push, book
  <1> QED
    BY <1>4, <1>5, <1>6, <1>7, <1>8, CountRun DEF Next

(* The books of the day agree: the cash with the trades, as long as no two *)
(* updates of the portfolio row overlapped, and the counts of a decision   *)
(* with the trades that name it, up to the faults.                         *)
THEOREM BooksKept == Spec => []BooksAgree
  <1>1. CashInv /\ Typed /\ CountInv => BooksAgree
    <2> SUFFICES ASSUME CashInv, Typed, CountInv PROVE BooksAgree
      OBVIOUS
    <2>1. CountsBacked
      BY DEF CountInv
    <2>2. CashExplained
      <3> SUFFICES ASSUME ~overlapped
                   PROVE  cash = InitialCash + Budget * topups - bought + sold
        BY DEF CashExplained
      <3>1. cash = InitialCash + (Budget * topups - bought + sold)
        BY DEF CashInv, Net
      <3>2. topups \in Nat /\ bought \in Nat /\ sold \in Nat /\ InitialCash \in Nat
        BY DayAssumption DEF Typed, BookTyped
      <3>3. Budget * topups \in Int
        BY NetTyped, <3>2
      <3> DEFINE product == Budget * topups
      <3>4. cash = InitialCash + (product - bought + sold) /\ product \in Int
        BY <3>1, <3>3
      <3> HIDE DEF product
      <3>5. cash = InitialCash + product - bought + sold
        BY <3>2, <3>4
      <3> QED
        BY <3>5 DEF product
    <2> QED
      BY <2>1, <2>2 DEF BooksAgree
  <1> QED
    BY <1>1, TypedInit, TypedStep, RaisedInit, RaisedStep, CashInit, CashStep,
       CountInit, CountStep, PTL DEF Spec

-----------------------------------------------------------------------------
(* The types, with the bounds that the process keeps to and the rows that  *)
(* a push goes over.                                                       *)
Note == [born : Nat, channel : {"none", "telegram", "abandoned"}]

Bounds ==
    /\ clock <= Horizon /\ lives <= MaxLives /\ faults <= MaxFaults
    /\ mode # "down" => lives >= 1
    /\ fired \subseteq Jobs
    /\ \A c \in catchups : c.life \in 1 .. MaxLives
    /\ \A j \in DAILY_CRITICAL : done[j] <= Horizon
    /\ begunToday \cup ended \cup cancelled \subseteq Jobs

LEMMA BoundNumbers ==
    /\ Horizon \in Nat /\ MaxLives \in Nat /\ MaxFaults \in Nat
    /\ DAILY_CRITICAL \subseteq Jobs
  BY DayAssumption, SlotJobs

LEMMA FaultRun ==
    ASSUME NEW s \in Slots, Step(s) \/ Fails(s)
    PROVE  UNCHANGED faults \/ Fault
  BY DEF Step, topup_daily_budget, CheckCap, _decide, Skip, LoadPortfolio, CommitTrade,
         Notify, Return, _update_decision_counts, _logged, Fails, book

LEMMA FaultBound ==
    ASSUME faults \in Nat, faults <= MaxFaults, UNCHANGED faults \/ Fault
    PROVE  faults' <= MaxFaults
  BY BoundNumbers DEF Fault

LEMMA BoundInit == Init => Bounds
  BY BoundNumbers DEF Init, Bounds

LEMMA BoundStep == Typed /\ Bounds /\ [Next]_vars => Bounds'
  <1> SUFFICES ASSUME Typed, Bounds, [Next]_vars PROVE Bounds'
    OBVIOUS
  <1>1. /\ clock \in Nat /\ lives \in Nat /\ faults \in Nat
        /\ clock <= Horizon /\ lives <= MaxLives /\ faults <= MaxFaults
        /\ done \in [DAILY_CRITICAL -> Nat]
        /\ catchups \subseteq [job : DAILY_CRITICAL, life : Nat]
        /\ \A j \in DAILY_CRITICAL : done[j] <= Horizon
        /\ \A s \in Slots : Job(s) \in Jobs
    BY SlotJobs DEF Typed, ProcessTyped, Bounds
  <1>2. CASE build_scheduler
    <2>1. lives' <= MaxLives /\ lives' >= 1
      BY <1>1, <1>2, BoundNumbers DEF build_scheduler
    <2> QED
      BY <1>2, <2>1 DEF build_scheduler, Bounds, history
  <1>3. CASE reconcile_missed
    <2>1. lives \in 1 .. MaxLives
      BY <1>1, <1>3, BoundNumbers DEF reconcile_missed, Bounds
    <2>2. PICK K : Schedule(K)
      BY <1>3 DEF reconcile_missed
    <2>3. \A c \in catchups' : c.life \in 1 .. MaxLives
      BY <2>1, <2>2 DEF Schedule, Bounds
    <2>4. faults' <= MaxFaults
      BY <1>1, <1>3, FaultBound DEF reconcile_missed
    <2> QED
      BY <1>3, <2>1, <2>3, <2>4 DEF reconcile_missed, Bounds, history
  <1>4. CASE Tick
    <2>1. clock' <= Horizon
      BY <1>1, <1>4, BoundNumbers DEF Tick
    <2> QED
      BY <1>4, <2>1 DEF Tick, Bounds, history
  <1>5. CASE Down
    <2>1. PICK S \in SUBSET {s \in Slots : Running(s)} :
            /\ done' = [j \in DAILY_CRITICAL |-> IF \E s \in S : Job(s) = j THEN clock ELSE done[j]]
            /\ cancelled' = cancelled \cup ({Job(s) : s \in S} \cap DAILY_CRITICAL)
      BY <1>5 DEF Down
    <2>2. \A j \in DAILY_CRITICAL : done'[j] <= Horizon
      BY <1>1, <2>1
    <2>3. cancelled' \subseteq Jobs
      BY <2>1, BoundNumbers DEF Bounds
    <2>4. faults' <= MaxFaults
      BY <1>1, <1>5, FaultBound DEF Down
    <2> QED
      BY <1>5, <2>2, <2>3, <2>4 DEF Down, Bounds
  <1>6. ASSUME NEW s \in Slots, Start(s) PROVE begunToday' \subseteq Jobs
    BY <1>6, BoundNumbers DEF Start, Bounds
  <1>7. ASSUME NEW j \in Jobs, Fire(j) PROVE Bounds'
    <2>1. begunToday' \subseteq Jobs
      BY <1>6, <1>7, SlotJobs DEF Fire, Bounds
    <2> QED
      BY <1>7, <2>1 DEF Fire, Bounds
  <1>8. ASSUME NEW j \in DAILY_CRITICAL, CatchUp(j) PROVE Bounds'
    <2>1. begunToday' \subseteq Jobs /\ catchups' \subseteq catchups
      BY <1>6, <1>8, SlotJobs DEF CatchUp
    <2> QED
      BY <1>8, <2>1 DEF CatchUp, Bounds
  <1>9. ASSUME NEW s \in Slots, Step(s) \/ Fails(s) PROVE Bounds'
    <2>1. /\ UNCHANGED <<clock, process, begunToday, cancelled>>
          /\ MovesOn(s) \/ ComesToItsEnd(s) \/ Stops(s)
      BY <1>9, RunEffect
    <2>2. faults' <= MaxFaults
      BY <1>1, <1>9, FaultRun, FaultBound
    <2>3. ended' \subseteq Jobs
      BY <2>1, BoundNumbers DEF MovesOn, ComesToItsEnd, Stops, Bounds
    <2>4. \A j \in DAILY_CRITICAL : done'[j] <= Horizon
      BY <1>1, <2>1 DEF MovesOn, ComesToItsEnd, Stops
    <2> QED
      BY <2>1, <2>2, <2>3, <2>4 DEF Bounds, process
  <1>10. CASE RunPushJob
    BY <1>10 DEF RunPushJob, Bounds, process, history
  <1>11. ASSUME NEW p \in Pushers, Push(p) PROVE Bounds'
    <2>1. faults' <= MaxFaults
      BY <1>1, <1>11, FaultBound DEF Push
    <2> QED
      BY <1>11, <2>1 DEF Push, Bounds, process, history
  <1>12. CASE UNCHANGED vars
    BY <1>12 DEF vars, Bounds, process, history
  <1> QED
    BY <1>2, <1>3, <1>4, <1>5, <1>7, <1>8, <1>9, <1>10, <1>11, <1>12 DEF Next

(* One pusher goes on, over rows that stay.                                *)
LEMMA PusherTyped ==
    ASSUME NotesType, PushInv, NEW p \in Pushers, NEW x, push' = [push EXCEPT ![p] = x],
           notes' \in Seq(Note), DOMAIN notes \subseteq DOMAIN notes',
           x.pc \in {"off", "select", "send", "mark", "raised"},
           x.pending \subseteq DOMAIN notes',
           x.pc \in {"send", "mark"} => x.pending # {}
    PROVE  NotesType'
  <1>1. \A q \in Pushers : push'[q] = IF q = p THEN x ELSE push[q]
    BY DEF PushInv
  <1> QED
    BY <1>1 DEF NotesType, Note

(* A row gets a channel.                                                   *)
LEMMA ChannelTyped ==
    ASSUME notes \in Seq(Note), NEW channel \in {"telegram", "abandoned"}
    PROVE  /\ \A n \in DOMAIN notes : [notes[n] EXCEPT !.channel = channel] \in Note
           /\ \A n : /\ [notes EXCEPT ![n].channel = channel] \in Seq(Note)
                     /\ DOMAIN [notes EXCEPT ![n].channel = channel] = DOMAIN notes
  <1>1. \A n \in DOMAIN notes : [notes[n] EXCEPT !.channel = channel] \in Note
    <2> SUFFICES ASSUME NEW n \in DOMAIN notes
                 PROVE  [notes[n] EXCEPT !.channel = channel] \in Note
      OBVIOUS
    <2>1. notes[n] \in Note
      OBVIOUS
    <2> QED
      BY <2>1 DEF Note
  <1>2. ASSUME NEW n
        PROVE  /\ [notes EXCEPT ![n].channel = channel] \in Seq(Note)
               /\ DOMAIN [notes EXCEPT ![n].channel = channel] = DOMAIN notes
    <2> DEFINE row == [notes[n] EXCEPT !.channel = channel]
    <2>1. n \in DOMAIN notes => row \in Note
      BY <1>1
    <2> HIDE DEF row
    <2>2. [notes EXCEPT ![n] = row] \in Seq(Note)
      <3>1. CASE n \in DOMAIN notes
        <4>1. n \in 1 .. Len(notes)
          BY <3>1
        <4> QED
          BY <2>1, <3>1, <4>1, ExceptSeq
      <3>2. CASE n \notin DOMAIN notes
        <4>1. [notes EXCEPT ![n] = row] = notes
          BY <3>2
        <4> QED
          BY <4>1
      <3> QED
        BY <3>1, <3>2
    <2> QED
      BY <2>2 DEF row
  <1> QED
    BY <1>1, <1>2

LEMMA NotesStep == Typed /\ PushInv /\ NotesType /\ [Next]_vars => NotesType'
  <1> SUFFICES ASSUME Typed, PushInv, NotesType, [Next]_vars PROVE NotesType'
    OBVIOUS
  <1>1. /\ notes \in Seq(Note) /\ clock \in Nat
        /\ \A p \in Pushers : /\ push[p].pc \in {"off", "select", "send", "mark", "raised"}
                              /\ push[p].pending \subseteq DOMAIN notes
                              /\ push[p].pc \in {"send", "mark"} => push[p].pending # {}
        /\ \A s \in Slots : s \in Pushers
        /\ PushJob \in Pushers
        /\ Resting.pc = "off" /\ Resting.pending = {}
    BY DayAssumption DEF NotesType, Note, Typed, ProcessTyped, Resting
  <1>2. UNCHANGED notes => notes' \in Seq(Note) /\ DOMAIN notes \subseteq DOMAIN notes'
    BY <1>1
  <1>3. ASSUME UNCHANGED outbox PROVE NotesType'
    BY <1>3 DEF outbox, NotesType
  <1>4. ASSUME NEW p \in Pushers, NEW label \in {"select", "mark"},
               label = "mark" => push[p].pc = "send",
               push' = [push EXCEPT ![p].pc = label],
               notes' \in Seq(Note), DOMAIN notes \subseteq DOMAIN notes'
        PROVE  NotesType'
    <2> DEFINE x == [pc |-> label, pending |-> push[p].pending]
    <2>1. [push[p] EXCEPT !.pc = label] = x
      BY DEF PushInv
    <2>2. push' = [push EXCEPT ![p] = x]
      BY <1>4, <2>1
    <2>3. /\ x.pc = label /\ x.pending \subseteq DOMAIN notes'
          /\ x.pc \in {"send", "mark"} => x.pending # {}
      BY <1>1, <1>4
    <2> HIDE DEF x
    <2> QED
      BY <1>4, <2>2, <2>3, PusherTyped
  <1>5. ASSUME NEW p \in Pushers, PushOver(p), UNCHANGED notes PROVE NotesType'
    BY <1>1, <1>2, <1>5, PusherTyped DEF PushOver
  <1>6. ASSUME NEW p \in Pushers, push_pending(p) PROVE NotesType'
    <2>1. /\ Onward(p).pc \in {"off", "send"} /\ Onward(p).pending \subseteq DOMAIN notes
          /\ Onward(p).pc = "send" => Onward(p).pending # {}
      BY <1>1 DEF Onward
    <2>2. CASE SelectPending(p)
      <3> DEFINE rows == [n \in DOMAIN notes |->
                            IF n \in AbandonOld THEN [notes[n] EXCEPT !.channel = "abandoned"]
                                                ELSE notes[n]]
                 open == {n \in DOMAIN rows : rows[n].channel = "none"}
                 some == {n \in open : Quantify(open, LAMBDA m : m < n) < Limit}
                 x == IF some = {} THEN Resting ELSE [pc |-> "send", pending |-> some]
      <3>1. notes' = rows /\ push' = [push EXCEPT ![p] = x]
        BY <2>2 DEF SelectPending
      <3>2. rows \in Seq(Note) /\ DOMAIN rows = DOMAIN notes
        <4>1. \A n \in DOMAIN notes : rows[n] \in Note
          BY <1>1, ChannelTyped
        <4>2. DOMAIN notes = 1 .. Len(notes) /\ Len(notes) \in Nat
          BY <1>1
        <4>3. rows = [n \in 1 .. Len(notes) |-> rows[n]]
          BY <4>2
        <4> HIDE DEF rows
        <4> QED
          BY <4>1, <4>2, <4>3
      <3>3. some \subseteq DOMAIN notes
        BY <3>2
      <3> HIDE DEF some
      <3>4. /\ x.pc \in {"off", "send"} /\ x.pending \subseteq DOMAIN notes
            /\ x.pc = "send" => x.pending # {}
        BY <1>1, <3>3
      <3> HIDE DEF rows, x
      <3> QED
        BY <3>1, <3>2, <3>4, PusherTyped
    <2>3. CASE _send_telegram(p)
      BY <1>2, <1>4, <2>1, <2>3, PusherTyped DEF _send_telegram
    <2>4. CASE MarkPushed(p)
      <3>1. notes' \in Seq(Note) /\ DOMAIN notes' = DOMAIN notes
        BY <1>1, <2>4, ChannelTyped DEF MarkPushed
      <3> QED
        BY <2>1, <2>4, <3>1, PusherTyped DEF MarkPushed
    <2> QED
      BY <1>6, <2>2, <2>3, <2>4 DEF push_pending
  <1>7. ASSUME NEW p \in Pushers, PushFails(p) PROVE NotesType'
    BY <1>2, <1>7, PusherTyped DEF PushFails
  <1>8. ASSUME NEW p \in Pushers, Push(p) PROVE NotesType'
    BY <1>5, <1>6, <1>7, <1>8 DEF Push
  <1>9. CASE Down
    <2>1. push' = [q \in Pushers |-> Resting] /\ UNCHANGED notes
      BY <1>9 DEF Down
    <2> QED
      BY <1>1, <2>1 DEF NotesType
  <1>10. CASE build_scheduler \/ reconcile_missed \/ Tick \/ UNCHANGED vars
    BY <1>3, <1>10 DEF build_scheduler, reconcile_missed, Tick, vars
  <1>11. CASE RunPushJob
    BY <1>1, <1>2, <1>4, <1>11 DEF RunPushJob
  <1>12. ASSUME NEW j \in Jobs, Fire(j) PROVE NotesType'
    BY <1>3, <1>12 DEF Fire
  <1>13. ASSUME NEW j \in DAILY_CRITICAL, CatchUp(j) PROVE NotesType'
    BY <1>3, <1>13 DEF CatchUp
  <1>14. ASSUME NEW s \in Slots, Step(s) \/ Fails(s) PROVE NotesType'
    <2>1. CASE Notify(s)
      <3>1. CASE create(s)
        <4> DEFINE note == [born |-> clock, channel |-> "none"]
        <4>1. note \in Note
          BY <1>1 DEF Note
        <4>2. notes' = Append(notes, note) /\ push' = [push EXCEPT ![s].pc = "select"]
          BY <3>1 DEF create
        <4> HIDE DEF note
        <4>3. notes' \in Seq(Note) /\ DOMAIN notes \subseteq DOMAIN notes'
          BY <1>1, <4>1, <4>2
        <4> QED
          BY <1>1, <1>4, <4>2, <4>3
      <3> QED
        BY <1>3, <2>1, <3>1 DEF Notify
    <2>2. CASE Return(s)
      BY <1>1, <1>5, <2>2 DEF Return
    <2>3. CASE topup_daily_budget(s) \/ CheckCap(s) \/ _decide(s) \/ Skip(s) \/ LoadPortfolio(s)
      BY <1>3, <2>3 DEF topup_daily_budget, CheckCap, _decide, Skip, LoadPortfolio
    <2>4. CASE CommitTrade(s) \/ _update_decision_counts(s) \/ _logged(s) \/ Fails(s)
      BY <1>3, <2>4 DEF CommitTrade, _update_decision_counts, _logged, Fails
    <2> QED
      BY <1>14, <2>1, <2>2, <2>3, <2>4 DEF Step
  <1> QED
    BY <1>8, <1>9, <1>10, <1>11, <1>12, <1>13, <1>14 DEF Next

(* Every variable has its type: no holding is ever negative, nothing is    *)
(* recorded for a tick after the last, and a push goes over rows that are  *)
(* there (TypeOK).                                                         *)
THEOREM TypeCorrect == Spec => []TypeOK
  <1>1. Typed /\ Bounds /\ NotesType => TypeOK
    <2> SUFFICES ASSUME Typed, Bounds, NotesType PROVE TypeOK
      OBVIOUS
    <2>1. /\ clock \in 0 .. Horizon /\ born \in 0 .. Horizon /\ lives \in 0 .. MaxLives
          /\ faults \in 0 .. MaxFaults
      BY BoundNumbers DEF Typed, ProcessTyped, Bounds
    <2>2. catchups \subseteq [job : DAILY_CRITICAL, life : 1 .. MaxLives]
      BY DEF Typed, ProcessTyped, Bounds
    <2>3. done \in [DAILY_CRITICAL -> 0 .. Horizon]
      BY BoundNumbers DEF Typed, ProcessTyped, Bounds
    <2> QED
      BY <2>1, <2>2, <2>3 DEF Typed, ProcessTyped, BookTyped, Bounds, RunRecord, TypeOK
  <1>2. Init => NotesType
    BY DEF Init, NotesInit, Resting, NotesType
  <1> QED
    BY <1>1, <1>2, TypedInit, TypedStep, BoundInit, BoundStep, RaisedInit, RaisedStep,
       NotesStep, PTL DEF Spec

=============================================================================
