------------------------- MODULE PaperTradingProofs -------------------------
(* Theorems of PaperTrading, for every set of instruments and requests,    *)
(* every price set, every charge and every bound.                          *)
EXTENDS PaperTrading, SumTheorems

(* A call holds a price from validation on: it is what the commit writes   *)
(* into the trade row and into the BUY legs.                               *)
PriceHeld ==
    \A r \in Requests :
        exec[r].pc \in {"ready", "read", "committed"} => exec[r].price \in Prices

Typed == TypeOK /\ PriceHeld

-----------------------------------------------------------------------------
(* Facts about the operators.                                              *)

LEMMA RequestTypes ==
    ASSUME NEW r \in Requests
    PROVE  /\ Instr(r) \in Instruments
           /\ Shares(r) \in Nat \ {0}
           /\ IsBuy(r) \in BOOLEAN
  BY TradingAssumption DEF Instr, Shares, IsBuy, RequestRecord

LEMMA ProductNat == \A a, b \in Nat : a * b \in Nat
  OBVIOUS

LEMMA QuotientNat == \A a \in Nat, b \in Nat \ {0} : a \div b \in Nat
  OBVIOUS

(* What a trade costs or yields is an integer, and a SELL never yields     *)
(* less than nothing.                                                      *)
LEMMA TotalCostType ==
    ASSUME NEW r \in Requests, NEW p \in Prices
    PROVE  /\ _total_cost(r, p) \in Int
           /\ ~IsBuy(r) => _total_cost(r, p) >= 0
  <1>1. /\ Shares(r) \in Nat
        /\ p \in Nat
        /\ BuyFee \in Nat /\ SellFee \in Nat /\ OtherFee \in Nat
        /\ SellFee + OtherFee <= p
    BY RequestTypes, TradingAssumption
  <1>2. /\ p + BuyFee + OtherFee \in Nat
        /\ p - SellFee - OtherFee \in Nat
    BY <1>1
  <1>3. /\ Shares(r) * (p + BuyFee + OtherFee) \in Nat
        /\ Shares(r) * (p - SellFee - OtherFee) \in Nat
    BY <1>1, <1>2, ProductNat
  <1> QED
    BY <1>3 DEF _total_cost

(* Dropping n shares of a leg history leaves the others.                   *)
LEMMA PrefixDropped ==
    ASSUME NEW S, NEW s \in Seq(S), NEW n \in 0 .. Len(s)
    PROVE  /\ SubSeq(s, n + 1, Len(s)) \in Seq(S)
           /\ Len(SubSeq(s, n + 1, Len(s))) = Len(s) - n
  OBVIOUS

(* A BUY adds a leg of q entries.                                          *)
LEMMA LegType ==
    ASSUME NEW q \in Nat, NEW p \in Prices
    PROVE  Leg(q, p) \in Seq(OpenShare) /\ Len(Leg(q, p)) = q
  <1>1. \A k \in 1 .. q : [price |-> p, ends |-> k = q] \in OpenShare
    BY DEF OpenShare
  <1> QED
    BY <1>1 DEF Leg

(* A SELL closes the first n shares of a leg history.                      *)
LEMMA ConsumedType ==
    ASSUME NEW s \in Seq(OpenShare), NEW n \in 0 .. Len(s), NEW p \in Prices
    PROVE  Consumed(s, n, p) \in Seq(ClosedShare)
  <1> DEFINE share(k) == [buy |-> s[k].price, sell |-> p,
                          slice |-> k \in SplitOff(s, n)]
  <1>1. \A k \in 1 .. n : share(k) \in ClosedShare
    <2>1. \A k \in 1 .. n : s[k] \in OpenShare
      OBVIOUS
    <2> QED
      BY <2>1 DEF OpenShare, ClosedShare
  <1> HIDE DEF share
  <1>2. [k \in 1 .. n |-> share(k)] \in Seq(ClosedShare)
    BY <1>1
  <1> QED
    BY <1>2 DEF Consumed, share

(* What a split drops is a count of shares times a charge.                 *)
LEMMA SplitLossType ==
    ASSUME NEW i \in Instruments, NEW q \in Nat, legs[i] \in Seq(OpenShare)
    PROVE  SplitLoss(i, q) \in Nat
  <1> DEFINE n == Least(q, Len(legs[i]))
             T == SplitOff(legs[i], n)
  <1>1. n \in Nat
    BY DEF Least
  <1>2. IsFiniteSet(T)
    <2>1. IsFiniteSet(1 .. n) /\ T \subseteq 1 .. n
      BY <1>1, FS_Interval DEF SplitOff
    <2> QED
      BY <2>1, FS_Subset
  <1>3. Cardinality(T) \in Nat
    BY <1>2, FS_CardinalityType
  <1> HIDE DEF T, n
  <1>4. OtherFee * Cardinality(T) \in Nat
    BY <1>3, TradingAssumption, ProductNat
  <1> QED
    BY <1>4 DEF SplitLoss, T, n

CallRecord ==
    [pc : {"idle", "ready", "read", "committed", "done"},
     price : Prices \cup {0}, cash : Int, invested : Int]

(* A call's local state is one of these records.                           *)
LEMMA CallType ==
    /\ \A pc \in {"idle", "done"} : Idle(pc) \in CallRecord
    /\ \A pc \in {"ready", "committed"}, p \in Prices : Call(pc, p) \in CallRecord
  BY DEF Idle, Call, CallRecord

-----------------------------------------------------------------------------
(* Types.  The steps that write the book come first, one lemma each.       *)

LEMMA BuyKeepsTypes ==
    ASSUME Typed, NEW r \in Requests, CommitBuy(r)
    PROVE  Typed'
  <1> DEFINE i == Instr(r)
             q == Shares(r)
             price == exec[r].price
  <1>1. /\ i \in Instruments
        /\ q \in Nat
        /\ price \in Prices
        /\ price \in Nat
    BY RequestTypes, TradingAssumption DEF Typed, TypeOK, PriceHeld, CommitBuy
  <1>2. _total_cost(r, price) \in Int
    BY <1>1, TotalCostType
  <1>3. q * price \in Nat
    BY <1>1, ProductNat
  <1>4. /\ cash \in Int /\ invested \in Int /\ booked \in Int
        /\ qty \in [Instruments -> Nat]
        /\ cost \in [Instruments -> Nat]
        /\ legs \in [Instruments -> Seq(OpenShare)]
        /\ fills \in [Requests -> Nat]
        /\ exec \in [Requests -> CallRecord]
    BY DEF Typed, TypeOK, CallRecord
  <1>5. exec[r].cash \in Int /\ exec[r].invested \in Int
    BY <1>4 DEF CallRecord
  <1>6. cash' \in Int /\ invested' \in Int /\ booked' \in Int
    BY <1>2, <1>3, <1>4, <1>5 DEF CommitBuy, CashAfter
  <1>7. qty' \in [Instruments -> Nat] /\ cost' \in [Instruments -> Nat]
    <2>1. qty[i] + q \in Nat /\ cost[i] + q * price \in Nat
      BY <1>1, <1>3, <1>4
    <2> QED
      BY <1>4, <2>1 DEF CommitBuy
  <1>8. legs' \in [Instruments -> Seq(OpenShare)]
    <2>1. Leg(q, price) \in Seq(OpenShare)
      BY <1>1, LegType
    <2>2. legs[i] \o Leg(q, price) \in Seq(OpenShare)
      BY <1>1, <1>4, <2>1
    <2> QED
      BY <1>4, <2>2 DEF CommitBuy
  <1>9. fills' \in [Requests -> Nat]
    BY <1>4 DEF CommitBuy
  <1>10. exec' \in [Requests -> CallRecord]
    <2>1. Call("committed", price) \in CallRecord
      BY <1>1, CallType
    <2> QED
      BY <1>4, <2>1 DEF CommitBuy
  <1>11. TypeOK'
    BY <1>6, <1>7, <1>8, <1>9, <1>10 DEF Typed, TypeOK, CallRecord, CommitBuy
  <1>12. PriceHeld'
    BY <1>1, <1>4 DEF Typed, PriceHeld, CommitBuy, Call
  <1> QED
    BY <1>11, <1>12 DEF Typed

LEMMA SellKeepsTypes ==
    ASSUME Typed, NEW r \in Requests, CommitSell(r)
    PROVE  Typed'
  <1> DEFINE i == Instr(r)
             q == Shares(r)
             price == exec[r].price
             n == Least(q, Len(legs[i]))
  <1>1. /\ i \in Instruments
        /\ q \in Nat \ {0}
        /\ price \in Prices
        /\ price \in Nat
    BY RequestTypes, TradingAssumption DEF Typed, TypeOK, PriceHeld, CommitSell
  <1>2. _total_cost(r, price) \in Int
    BY <1>1, TotalCostType
  <1>3. q * price \in Nat
    BY <1>1, ProductNat
  <1>4. /\ cash \in Int /\ invested \in Int /\ booked \in Int
        /\ qty \in [Instruments -> Nat]
        /\ cost \in [Instruments -> Nat]
        /\ legs \in [Instruments -> Seq(OpenShare)]
        /\ closed \in Seq(ClosedShare)
        /\ unmatched \in Nat
        /\ fills \in [Requests -> Nat]
        /\ exec \in [Requests -> CallRecord]
    BY DEF Typed, TypeOK, CallRecord
  <1>5. exec[r].cash \in Int /\ exec[r].invested \in Int
    BY <1>4 DEF CallRecord
  <1>6. cash' \in Int /\ invested' \in Int /\ booked' \in Int
    <2>1. SplitLoss(i, q) \in Nat
      BY <1>1, <1>4, SplitLossType
    <2>2. booked' = booked + _total_cost(r, price) + SplitLoss(i, q)
      BY DEF CommitSell
    <2>3. booked' \in Int
      BY <1>2, <1>4, <2>1, <2>2
    <2> QED
      BY <1>2, <1>3, <1>4, <1>5, <2>3 DEF CommitSell, CashAfter
  <1>7. qty' \in [Instruments -> Nat]
    <2>1. Remaining(qty[i] - q) \in Nat
      BY <1>1, <1>4 DEF Remaining
    <2> QED
      BY <1>4, <2>1 DEF CommitSell
  <1>8. cost' \in [Instruments -> Nat]
    <2>1. ASSUME qty[i] - q > 0
          PROVE  Keep(cost[i], qty[i] - q, qty[i]) \in Nat
      <3>1. /\ cost[i] \in Nat
            /\ qty[i] - q \in Nat
            /\ qty[i] \in Nat \ {0}
        BY <1>1, <1>4, <2>1
      <3> QED
        BY <3>1, ProductNat, QuotientNat DEF Keep
    <2>2. (IF qty[i] - q <= 0 THEN 0 ELSE Keep(cost[i], qty[i] - q, qty[i])) \in Nat
      BY <1>1, <1>4, <2>1
    <2> QED
      BY <1>4, <2>2 DEF CommitSell
  <1>9. /\ legs[i] \in Seq(OpenShare)
        /\ n \in 0 .. Len(legs[i])
        /\ q - n \in Nat
    BY <1>1, <1>4 DEF Least
  <1>10. legs' \in [Instruments -> Seq(OpenShare)]
    <2>1. SubSeq(legs[i], n + 1, Len(legs[i])) \in Seq(OpenShare)
      BY <1>9, PrefixDropped
    <2> QED
      BY <1>4, <2>1 DEF CommitSell, _link_sell_to_open_buys
  <1>11. closed' \in Seq(ClosedShare)
    <2>1. Consumed(legs[i], n, price) \in Seq(ClosedShare)
      BY <1>1, <1>9, ConsumedType
    <2> QED
      BY <1>4, <2>1 DEF CommitSell, _link_sell_to_open_buys
  <1>12. unmatched' \in Nat
    BY <1>4, <1>9, SMTT(60) DEF CommitSell, _link_sell_to_open_buys
  <1>13. fills' \in [Requests -> Nat]
    BY <1>4 DEF CommitSell
  <1>14. exec' \in [Requests -> CallRecord]
    <2>1. Call("committed", price) \in CallRecord
      BY <1>1, CallType
    <2> QED
      BY <1>4, <2>1 DEF CommitSell
  <1>15. TypeOK'
    BY <1>6, <1>7, <1>8, <1>10, <1>11, <1>12, <1>13, <1>14
       DEF Typed, TypeOK, CallRecord, CommitSell
  <1>16. PriceHeld'
    BY <1>1, <1>4 DEF Typed, PriceHeld, CommitSell, Call
  <1> QED
    BY <1>15, <1>16 DEF Typed

(* The state of a task that is not running.                                *)
LEMMA TaskTypes ==
    /\ [batch |-> {}, late |-> {}] \in [batch : SUBSET Requests, late : SUBSET Requests]
    /\ NotRunning \in [on : BOOLEAN, total : Nat, loaded : Int]
  <1>1. {} \in SUBSET Requests
    OBVIOUS
  <1>2. [batch |-> {}, late |-> {}] \in [batch : SUBSET Requests, late : SUBSET Requests]
    BY <1>1, Zenon
  <1>3. NotRunning \in [on : BOOLEAN, total : Nat, loaded : Int]
    BY DEF NotRunning
  <1> QED
    BY <1>2, <1>3

LEMMA InitTyped == Init => Typed
  <1> SUFFICES ASSUME Init
               PROVE  Typed
    OBVIOUS
  <1>1. exec \in [Requests -> CallRecord] /\ PriceHeld
    BY CallType DEF Init, PriceHeld, Idle, Call
  <1>2. /\ cash \in Int /\ invested \in Int /\ booked \in Int
        /\ qty \in [Instruments -> Nat]
        /\ cost \in [Instruments -> Nat]
        /\ fills \in [Requests -> Nat]
        /\ faults \in 0 .. MaxFaults
    BY TradingAssumption DEF Init
  <1>3. /\ legs \in [Instruments -> Seq(OpenShare)]
        /\ closed \in Seq(ClosedShare)
        /\ unmatched \in Nat
    BY DEF Init
  <1>4. /\ status \in [Requests ->
                          {"new", "pending", "executed", "cancelled", "expired"}]
        /\ lapsed \in SUBSET Requests
        /\ cancelling \in SUBSET Requests
        /\ job \in [batch : SUBSET Requests, late : SUBSET Requests]
        /\ reval \in [on : BOOLEAN, total : Nat, loaded : Int]
        /\ overlapped \in BOOLEAN
    BY TaskTypes DEF Init
  <1> QED
    BY <1>1, <1>2, <1>3, <1>4 DEF Typed, TypeOK, CallRecord

(* A step that only moves a call, or a crash, keeps the types.             *)
LEMMA CallKeepsTypes ==
    ASSUME Typed, exec' \in [Requests -> CallRecord], PriceHeld',
           status' \in [Requests ->
                           {"new", "pending", "executed", "cancelled", "expired"}],
           job' \in [batch : SUBSET Requests, late : SUBSET Requests],
           reval' \in [on : BOOLEAN, total : Nat, loaded : Int],
           faults' \in 0 .. MaxFaults,
           overlapped' \in BOOLEAN,
           cancelling' \in SUBSET Requests,
           UNCHANGED <<book, lapsed>>
    PROVE  Typed'
  BY DEF Typed, TypeOK, CallRecord, book

LEMMA NextTyped == Typed /\ [Next]_vars => Typed'
  <1> SUFFICES ASSUME Typed, [Next]_vars
               PROVE  Typed'
    OBVIOUS
  <1>1. /\ exec \in [Requests -> CallRecord]
        /\ cash \in Int /\ invested \in Int
        /\ lapsed \in SUBSET Requests
        /\ cancelling \in SUBSET Requests
        /\ faults \in 0 .. MaxFaults /\ MaxFaults \in Nat
        /\ overlapped \in BOOLEAN
        /\ job \in [batch : SUBSET Requests, late : SUBSET Requests]
        /\ reval \in [on : BOOLEAN, total : Nat, loaded : Int]
        /\ status \in [Requests ->
                         {"new", "pending", "executed", "cancelled", "expired"}]
        /\ PriceHeld
    BY TradingAssumption DEF Typed, TypeOK, CallRecord
  <1>2. ASSUME NEW r \in Requests,
               place_order(r) \/ CancelStep(r) \/ SweepExpire(r) \/ SweepSkip(r)
        PROVE  Typed'
    BY <1>1, <1>2, CallKeepsTypes
       DEF place_order, CancelStep, cancel_pending_order, CancelCommits,
           CancelRollsBack, SweepExpire, SweepSkip, NextInSweep, PriceHeld
  <1>3. ASSUME NEW r \in Requests, NEW price \in Prices,
               place_market_order(r, price) \/ SweepTrigger(r, price)
        PROVE  Typed'
    <2>1. /\ Call("ready", price) \in CallRecord
          /\ Idle("done") \in CallRecord
      BY CallType
    <2>2. exec' \in [Requests -> CallRecord]
      BY <1>1, <1>3, <2>1 DEF place_market_order, SweepTrigger
    <2>3. PriceHeld'
      BY <1>1, <1>3 DEF place_market_order, SweepTrigger, PriceHeld, Call, Idle
    <2> QED
      BY <1>1, <1>3, <2>2, <2>3, CallKeepsTypes
         DEF place_market_order, SweepTrigger, NextInSweep
  <1>4. ASSUME NEW r \in Requests, Lapse(r)
        PROVE  Typed'
    BY <1>4 DEF Lapse, Typed, TypeOK, PriceHeld, book
  <1>5. ASSUME NEW r \in Requests, LoadPortfolio(r)
        PROVE  Typed'
    <2> DEFINE loaded == [pc |-> "read", price |-> exec[r].price,
                          cash |-> cash, invested |-> invested]
    <2>1. loaded \in CallRecord
      BY <1>1 DEF CallRecord
    <2>2. exec' = [exec EXCEPT ![r] = loaded]
      BY <1>5 DEF LoadPortfolio
    <2> HIDE DEF loaded
    <2>3. exec' \in [Requests -> CallRecord]
      BY <1>1, <2>1, <2>2
    <2>4. PriceHeld'
      BY <1>1, <1>5, <2>2 DEF LoadPortfolio, PriceHeld, loaded
    <2>5. overlapped' \in BOOLEAN
      BY <1>5 DEF LoadPortfolio
    <2> QED
      BY <1>1, <1>5, <2>3, <2>4, <2>5, CallKeepsTypes DEF LoadPortfolio
  <1>6. ASSUME NEW r \in Requests,
               RollBack(r) \/ Answer(r) \/ MarkExecuted(r) \/ NotifyFails(r)
        PROVE  Typed'
    <2>1. /\ Idle("idle") \in CallRecord
          /\ Idle("done") \in CallRecord
      BY CallType
    <2>2. exec' \in [Requests -> CallRecord]
      BY <1>1, <1>6, <2>1 DEF RollBack, Answer, MarkExecuted, NotifyFails
    <2>3. PriceHeld'
      BY <1>1, <1>6
         DEF RollBack, Answer, MarkExecuted, NotifyFails, PriceHeld, Idle, Call
    <2>4. faults' \in 0 .. MaxFaults
      BY <1>1, <1>6 DEF RollBack, Answer, MarkExecuted, NotifyFails
    <2>5. status' \in [Requests ->
                         {"new", "pending", "executed", "cancelled", "expired"}]
      BY <1>1, <1>6 DEF RollBack, Answer, MarkExecuted, NotifyFails
    <2> QED
      BY <1>1, <1>6, <2>2, <2>3, <2>4, <2>5, CallKeepsTypes
         DEF RollBack, Answer, MarkExecuted, NotifyFails
  <1>7. ASSUME SweepBegin
        PROVE  Typed'
    <2>1. job' \in [batch : SUBSET Requests, late : SUBSET Requests]
      BY <1>1, <1>7 DEF SweepBegin, Due, Book
    <2> QED
      BY <1>1, <1>7, <2>1, CallKeepsTypes DEF SweepBegin, PriceHeld
  <1>8. ASSUME RevalStep
        PROVE  Typed'
    <2>1. ASSUME NEW priced \in SUBSET Instruments, RevalRead(priced)
          PROVE  Typed'
      <3>1. reval' \in [on : BOOLEAN, total : Nat, loaded : Int]
        BY <1>1, <2>1, TradingAssumption DEF RevalRead
      <3> QED
        BY <1>1, <2>1, <3>1, CallKeepsTypes DEF RevalRead, PriceHeld
    <2>2. ASSUME RevalCommit
          PROVE  Typed'
      BY <2>2 DEF RevalCommit, NotRunning, Typed, TypeOK, PriceHeld
    <2>3. ASSUME RevalAbort
          PROVE  Typed'
      BY <2>3 DEF RevalAbort, NotRunning, Typed, TypeOK, PriceHeld, book
    <2> QED
      BY <1>8, <2>1, <2>2, <2>3 DEF RevalStep
  <1>9. ASSUME SweepAborts \/ CrashScheduler \/ CrashApi
        PROVE  Typed'
    <2>1. exec' \in [Requests -> CallRecord]
      <3>1. /\ Idle("idle") \in CallRecord
            /\ Idle("done") \in CallRecord
        BY CallType
      <3> QED
        BY <1>1, <1>9, <3>1 DEF SweepAborts, CrashScheduler, CrashApi
    <2>2. PriceHeld'
      BY <1>1, <1>9 DEF SweepAborts, CrashScheduler, CrashApi, PriceHeld, Idle, Call
    <2>3. faults' \in 0 .. MaxFaults
      BY <1>1, <1>9 DEF SweepAborts, CrashScheduler, CrashApi
    <2>4. /\ job' \in [batch : SUBSET Requests, late : SUBSET Requests]
          /\ reval' \in [on : BOOLEAN, total : Nat, loaded : Int]
      BY <1>1, <1>9, TaskTypes DEF SweepAborts, CrashScheduler, CrashApi
    <2>5. UNCHANGED <<book, status, lapsed, overlapped>> /\ cancelling' \in SUBSET Requests
      BY <1>1, <1>9 DEF SweepAborts, CrashScheduler, CrashApi
    <2> QED
      BY <1>1, <2>1, <2>2, <2>3, <2>4, <2>5, CallKeepsTypes
  <1>10. ASSUME UNCHANGED vars
         PROVE  Typed'
    BY <1>10 DEF vars, book, Typed, TypeOK, PriceHeld
  <1> QED
    BY <1>2, <1>3, <1>4, <1>5, <1>6, <1>7, <1>8, <1>9, <1>10,
       BuyKeepsTypes, SellKeepsTypes
       DEF Next, SweepStep, EngineStep

(* Types of every reachable state: no interleaving of SELLs leaves a       *)
(* negative holding, and every price written is one a tick carried         *)
(* (engine.py, execute_market_order).                                      *)
THEOREM TypeCorrect == Spec => []TypeOK
  <1>1. Typed => TypeOK
    BY DEF Typed
  <1> QED
    BY InitTyped, NextTyped, <1>1, PTL DEF Spec
-----------------------------------------------------------------------------
(* Only the two commits write trades, holdings and cash.                   *)
LEMMA OnlyCommitsTrade ==
    ASSUME [Next]_vars
    PROVE  \/ \E r \in Requests : CommitBuy(r) \/ CommitSell(r)
           \/ UNCHANGED <<cash, qty, cost, legs, closed, unmatched, booked, fills>>
  <1>1. ASSUME NEW r \in Requests,
               \/ place_order(r)
               \/ CancelStep(r)
               \/ \E price \in Prices : place_market_order(r, price)
               \/ Lapse(r)
               \/ NotifyFails(r)
        PROVE  UNCHANGED book
    BY <1>1
       DEF place_order, CancelStep, cancel_pending_order, CancelCommits,
           CancelRollsBack, place_market_order, Lapse, NotifyFails
  <1>2. ASSUME NEW r \in Requests, SweepStep(r)
        PROVE  UNCHANGED book
    BY <1>2 DEF SweepStep, SweepExpire, SweepSkip, SweepTrigger
  <1>3. ASSUME NEW r \in Requests,
               LoadPortfolio(r) \/ RollBack(r) \/ Answer(r) \/ MarkExecuted(r)
        PROVE  UNCHANGED book
    BY <1>3 DEF LoadPortfolio, RollBack, Answer, MarkExecuted
  <1>4. ASSUME SweepBegin \/ SweepAborts \/ CrashScheduler \/ CrashApi
        PROVE  UNCHANGED book
    BY <1>4 DEF SweepBegin, SweepAborts, CrashScheduler, CrashApi
  <1>5. ASSUME RevalStep
        PROVE  UNCHANGED <<cash, qty, cost, legs, closed, unmatched, booked, fills>>
    BY <1>5 DEF RevalStep, RevalRead, RevalCommit, RevalAbort, book
  <1>6. UNCHANGED vars => UNCHANGED book
    BY DEF vars
  <1>7. UNCHANGED book =>
          UNCHANGED <<cash, qty, cost, legs, closed, unmatched, booked, fills>>
    BY DEF book
  <1> QED
    BY <1>1, <1>2, <1>3, <1>4, <1>5, <1>6, <1>7 DEF Next, EngineStep

-----------------------------------------------------------------------------
(* Holdings and legs.  HoldingsReconciled is inductive relative to Typed:  *)
(* a SELL that was validated against a holding another SELL has consumed   *)
(* since takes both to zero.                                               *)

LEMMA NextReconciled == Typed /\ HoldingsReconciled /\ [Next]_vars => HoldingsReconciled'
  <1> SUFFICES ASSUME Typed, HoldingsReconciled, [Next]_vars
               PROVE  HoldingsReconciled'
    OBVIOUS
  <1>1. /\ qty \in [Instruments -> Nat]
        /\ legs \in [Instruments -> Seq(OpenShare)]
        /\ \A r \in Requests : exec[r].pc = "read" => exec[r].price \in Prices
        /\ \A i \in Instruments : qty[i] = Len(legs[i])
    BY DEF Typed, TypeOK, PriceHeld, HoldingsReconciled
  <1>2. ASSUME NEW r \in Requests, CommitBuy(r)
        PROVE  HoldingsReconciled'
    <2> DEFINE i == Instr(r)
               bought == Leg(Shares(r), exec[r].price)
    <2>1. i \in Instruments /\ Shares(r) \in Nat /\ exec[r].price \in Prices
      BY <1>1, <1>2, RequestTypes DEF CommitBuy
    <2>2. bought \in Seq(OpenShare) /\ Len(bought) = Shares(r)
      BY <2>1, LegType
    <2> HIDE DEF bought
    <2>3. Len(legs[i] \o bought) = qty[i] + Shares(r)
      <3>1. legs[i] \in Seq(OpenShare) /\ qty[i] = Len(legs[i])
        BY <1>1, <2>1
      <3>2. Len(legs[i] \o bought) = Len(legs[i]) + Len(bought)
        BY <3>1, <2>2
      <3> QED
        BY <3>1, <3>2, <2>2
    <2>4. /\ qty' = [qty EXCEPT ![i] = qty[i] + Shares(r)]
          /\ legs' = [legs EXCEPT ![i] = legs[i] \o bought]
      BY <1>2 DEF CommitBuy, bought
    <2> QED
      BY <1>1, <2>1, <2>3, <2>4 DEF HoldingsReconciled
  <1>3. ASSUME NEW r \in Requests, CommitSell(r)
        PROVE  HoldingsReconciled'
    <2> DEFINE i == Instr(r)
               n == Least(Shares(r), Len(legs[i]))
               rest == SubSeq(legs[i], n + 1, Len(legs[i]))
    <2>1. i \in Instruments /\ Shares(r) \in Nat
      BY RequestTypes
    <2>2. n \in 0 .. Len(legs[i]) /\ legs[i] \in Seq(OpenShare)
      BY <1>1, <2>1 DEF Least
    <2>3. Len(rest) = Len(legs[i]) - n
      BY <2>2, PrefixDropped
    <2> HIDE DEF rest
    <2>4. Len(rest) = Remaining(qty[i] - Shares(r))
      BY <1>1, <2>1, <2>3 DEF Least, Remaining
    <2>5. /\ qty' = [qty EXCEPT ![i] = Remaining(qty[i] - Shares(r))]
          /\ legs' = [legs EXCEPT ![i] = rest]
      BY <1>3 DEF CommitSell, _link_sell_to_open_buys, rest
    <2> QED
      BY <1>1, <2>1, <2>4, <2>5 DEF HoldingsReconciled
  <1>4. ASSUME UNCHANGED <<qty, legs>>
        PROVE  HoldingsReconciled'
    BY <1>4 DEF HoldingsReconciled
  <1> QED
    BY <1>2, <1>3, <1>4, OnlyCommitsTrade

LEMMA InitReconciled == Init => HoldingsReconciled
  BY DEF Init, HoldingsReconciled

(* The quantity of a holding is what its open BUY legs add up to           *)
(* (engine.py, execute_market_order with _link_sell_to_open_buys).         *)
THEOREM HoldingsMatchLegs == Spec => []HoldingsReconciled
  BY InitTyped, NextTyped, InitReconciled, NextReconciled, PTL DEF Spec

-----------------------------------------------------------------------------
(* P&L.  The identity is inductive with the types: a BUY adds the cost of  *)
(* its leg to both sides, a SELL moves what the closed shares had cost     *)
(* from the open legs to the realized P&L.                                 *)

Costs(s)   == [k \in DOMAIN s |-> s[k].price + BuyFee]
Profits(c) == [k \in DOMAIN c |-> c[k].sell - c[k].buy - BuyFee - SellFee]

CostOf(l)   == SumFunction([i \in Instruments |-> SumFunction(Costs(l[i]))])
SharesOf(l) == SumFunction([i \in Instruments |-> Len(l[i])])

(* The closed shares whose row was split, and what the rows of trades add  *)
(* up to with the charges that splits dropped put back.                    *)
Sliced(c) == {k \in DOMAIN c : c[k].slice}
Net       == booked - Dropped

(* The arithmetic of a sale.                                               *)
LEMMA SaleBalances ==
    ASSUME NEW R \in Int, NEW C \in Int, NEW M \in Int, NEW P \in Int, NEW F \in Int,
           NEW before, before = R - C - M, NEW after, after = before + P - F,
           NEW x, x = R - C + P, NEW y, y = M + F
    PROVE  after = x - y
  OBVIOUS

LEMMA FeeTypes ==
    /\ BuyFee \in Int /\ SellFee \in Int /\ OtherFee \in Int
    /\ \A p \in Prices : p \in Int
    /\ IsFiniteSet(Instruments)
  BY TradingAssumption

LEMMA CostsType ==
    ASSUME NEW s \in Seq(OpenShare)
    PROVE  Costs(s) \in Seq(Int) /\ Len(Costs(s)) = Len(s)
  <1>1. \A k \in 1 .. Len(s) : s[k].price + BuyFee \in Int
    <2>1. \A k \in 1 .. Len(s) : s[k] \in OpenShare
      BY ElementOfSeq
    <2> QED
      BY <2>1, FeeTypes DEF OpenShare
  <1> QED
    BY <1>1 DEF Costs

LEMMA ProfitsType ==
    ASSUME NEW c \in Seq(ClosedShare)
    PROVE  Profits(c) \in Seq(Int) /\ Len(Profits(c)) = Len(c)
  <1>1. \A k \in 1 .. Len(c) : c[k].buy \in Prices /\ c[k].sell \in Prices
    <2>1. \A k \in 1 .. Len(c) : c[k] \in ClosedShare
      BY ElementOfSeq
    <2> QED
      BY <2>1 DEF ClosedShare
  <1>2. \A k \in 1 .. Len(c) : c[k].sell - c[k].buy - BuyFee - SellFee \in Int
    BY <1>1, FeeTypes
  <1> QED
    BY <1>2 DEF Profits

(* A longer leg history costs the sum of its parts.                        *)
LEMMA CostsAdd ==
    ASSUME NEW s \in Seq(OpenShare), NEW t \in Seq(OpenShare)
    PROVE  SumFunction(Costs(s \o t)) = SumFunction(Costs(s)) + SumFunction(Costs(t))
  <1>1. s \o t \in Seq(OpenShare) /\ Len(s \o t) = Len(s) + Len(t)
    BY ConcatProperties
  <1>2. /\ Costs(s) \in Seq(Int) /\ Costs(t) \in Seq(Int) /\ Costs(s \o t) \in Seq(Int)
        /\ Len(Costs(s)) = Len(s) /\ Len(Costs(t)) = Len(t)
        /\ Len(Costs(s \o t)) = Len(s) + Len(t)
    BY <1>1, CostsType
  <1>3. Costs(s \o t) = Costs(s) \o Costs(t)
    <2>1. \A k \in 1 .. Len(s) + Len(t) :
             (s \o t)[k] = IF k <= Len(s) THEN s[k] ELSE t[k - Len(s)]
      BY ConcatProperties
    <2>2. /\ Costs(s) \o Costs(t) \in Seq(Int)
          /\ Len(Costs(s) \o Costs(t)) = Len(s) + Len(t)
          /\ \A k \in 1 .. Len(s) + Len(t) :
                (Costs(s) \o Costs(t))[k]
                  = IF k <= Len(s) THEN Costs(s)[k] ELSE Costs(t)[k - Len(s)]
      <3> DEFINE u == Costs(s)
                 v == Costs(t)
      <3>1. u \in Seq(Int) /\ v \in Seq(Int) /\ Len(u) = Len(s) /\ Len(v) = Len(t)
        BY <1>2
      <3> HIDE DEF u, v
      <3>2. /\ u \o v \in Seq(Int)
            /\ Len(u \o v) = Len(u) + Len(v)
            /\ \A k \in 1 .. Len(u) + Len(v) :
                  (u \o v)[k] = IF k <= Len(u) THEN u[k] ELSE v[k - Len(u)]
        BY <3>1, ConcatProperties
      <3>3. /\ u \o v \in Seq(Int)
            /\ Len(u \o v) = Len(s) + Len(t)
            /\ \A k \in 1 .. Len(s) + Len(t) :
                  (u \o v)[k] = IF k <= Len(s) THEN u[k] ELSE v[k - Len(s)]
        BY <3>1, <3>2
      <3> QED
        BY <3>3 DEF u, v
    <2>3. /\ \A k \in 1 .. Len(s) : Costs(s)[k] = s[k].price + BuyFee
          /\ \A k \in 1 .. Len(t) : Costs(t)[k] = t[k].price + BuyFee
      BY DEF Costs
    <2>4. \A k \in 1 .. Len(s) + Len(t) :
             Costs(s \o t)[k] = (s \o t)[k].price + BuyFee
      BY <1>1 DEF Costs
    <2>5. \A k \in 1 .. Len(s) + Len(t) :
             Costs(s \o t)[k] = (Costs(s) \o Costs(t))[k]
      <3> SUFFICES ASSUME NEW k \in 1 .. Len(s) + Len(t)
                   PROVE  Costs(s \o t)[k] = (Costs(s) \o Costs(t))[k]
        OBVIOUS
      <3>1. CASE k <= Len(s)
        <4>1. k \in 1 .. Len(s)
          BY <3>1
        <4> QED
          BY <2>1, <2>2, <2>3, <2>4, <3>1, <4>1
      <3>2. CASE ~(k <= Len(s))
        <4>1. k - Len(s) \in 1 .. Len(t)
          BY <3>2
        <4> QED
          BY <2>1, <2>2, <2>3, <2>4, <3>2, <4>1
      <3> QED
        BY <3>1, <3>2
    <2> QED
      BY <1>2, <2>2, <2>5, SeqEqual
  <1> QED
    BY <1>2, <1>3, SumConcat

LEMMA ProfitsAdd ==
    ASSUME NEW c \in Seq(ClosedShare),
           NEW d \in Seq(ClosedShare)
    PROVE  SumFunction(Profits(c \o d)) = SumFunction(Profits(c)) + SumFunction(Profits(d))
  <1>1. c \o d \in Seq(ClosedShare) /\ Len(c \o d) = Len(c) + Len(d)
    BY ConcatProperties
  <1>2. /\ Profits(c) \in Seq(Int) /\ Profits(d) \in Seq(Int)
        /\ Profits(c \o d) \in Seq(Int)
        /\ Len(Profits(c)) = Len(c) /\ Len(Profits(d)) = Len(d)
        /\ Len(Profits(c \o d)) = Len(c) + Len(d)
    BY <1>1, ProfitsType
  <1>3. Profits(c \o d) = Profits(c) \o Profits(d)
    <2>1. \A k \in 1 .. Len(c) + Len(d) :
             (c \o d)[k] = IF k <= Len(c) THEN c[k] ELSE d[k - Len(c)]
      BY ConcatProperties
    <2>2. /\ Profits(c) \o Profits(d) \in Seq(Int)
          /\ Len(Profits(c) \o Profits(d)) = Len(c) + Len(d)
          /\ \A k \in 1 .. Len(c) + Len(d) :
                (Profits(c) \o Profits(d))[k]
                  = IF k <= Len(c) THEN Profits(c)[k] ELSE Profits(d)[k - Len(c)]
      <3> DEFINE u == Profits(c)
                 v == Profits(d)
      <3>1. u \in Seq(Int) /\ v \in Seq(Int) /\ Len(u) = Len(c) /\ Len(v) = Len(d)
        BY <1>2
      <3> HIDE DEF u, v
      <3>2. /\ u \o v \in Seq(Int)
            /\ Len(u \o v) = Len(u) + Len(v)
            /\ \A k \in 1 .. Len(u) + Len(v) :
                  (u \o v)[k] = IF k <= Len(u) THEN u[k] ELSE v[k - Len(u)]
        BY <3>1, ConcatProperties
      <3>3. /\ u \o v \in Seq(Int)
            /\ Len(u \o v) = Len(c) + Len(d)
            /\ \A k \in 1 .. Len(c) + Len(d) :
                  (u \o v)[k] = IF k <= Len(c) THEN u[k] ELSE v[k - Len(c)]
        BY <3>1, <3>2
      <3> QED
        BY <3>3 DEF u, v
    <2>3. /\ \A k \in 1 .. Len(c) : Profits(c)[k] = c[k].sell - c[k].buy - BuyFee - SellFee
          /\ \A k \in 1 .. Len(d) : Profits(d)[k] = d[k].sell - d[k].buy - BuyFee - SellFee
      BY DEF Profits
    <2>4. \A k \in 1 .. Len(c) + Len(d) :
             Profits(c \o d)[k] = (c \o d)[k].sell - (c \o d)[k].buy - BuyFee - SellFee
      BY <1>1 DEF Profits
    <2>5. \A k \in 1 .. Len(c) + Len(d) :
             Profits(c \o d)[k] = (Profits(c) \o Profits(d))[k]
      <3> SUFFICES ASSUME NEW k \in 1 .. Len(c) + Len(d)
                   PROVE  Profits(c \o d)[k] = (Profits(c) \o Profits(d))[k]
        OBVIOUS
      <3>1. CASE k <= Len(c)
        <4>1. k \in 1 .. Len(c)
          BY <3>1
        <4> QED
          BY <2>1, <2>2, <2>3, <2>4, <3>1, <4>1
      <3>2. CASE ~(k <= Len(c))
        <4>1. k - Len(c) \in 1 .. Len(d)
          BY <3>2
        <4> QED
          BY <2>1, <2>2, <2>3, <2>4, <3>2, <4>1
      <3> QED
        BY <3>1, <3>2
    <2> QED
      BY <1>2, <2>2, <2>5, SeqEqual
  <1> QED
    BY <1>2, <1>3, SumConcat

(* What a new leg costs.                                                   *)
LEMMA LegCosts ==
    ASSUME NEW q \in Nat, NEW p \in Prices
    PROVE  SumFunction(Costs(Leg(q, p))) = q * (p + BuyFee)
  <1>1. /\ DOMAIN Costs(Leg(q, p)) = 1 .. q
        /\ \A k \in 1 .. q : Costs(Leg(q, p))[k] = p + BuyFee
    BY DEF Costs, Leg
  <1>2. IsFiniteSet(1 .. q) /\ Cardinality(1 .. q) = q
    BY FS_Interval
  <1>3. p + BuyFee \in Int
    BY FeeTypes
  <1> HIDE DEF Costs, Leg
  <1> QED
    BY <1>1, <1>2, <1>3, SumConstant DEF SumFunction

(* What closing the first n shares of a leg history yields, together with  *)
(* what they had cost, is their sale price less the charge of the sale.    *)
LEMMA ConsumedProfits ==
    ASSUME NEW s \in Seq(OpenShare), NEW n \in 0 .. Len(s), NEW p \in Prices
    PROVE  SumFunction(Profits(Consumed(s, n, p)))
             = n * (p - SellFee) - SumFunction(Costs(SubSeq(s, 1, n)))
  <1> DEFINE f == Profits(Consumed(s, n, p))
             g == Costs(SubSeq(s, 1, n))
             h == [k \in 1 .. n |-> p - SellFee]
  <1>1. DOMAIN f = 1 .. n /\ DOMAIN g = 1 .. n
    BY DEF Profits, Consumed, Costs
  <1>2. \A k \in 1 .. n : f[k] \in Int /\ g[k] \in Int /\ h[k] = f[k] + g[k]
    <2> SUFFICES ASSUME NEW k \in 1 .. n
                 PROVE  f[k] \in Int /\ g[k] \in Int /\ h[k] = f[k] + g[k]
      OBVIOUS
    <2>1. s[k].price \in Int /\ p \in Int
      <3>1. s[k] \in OpenShare
        BY ElementOfSeq
      <3> QED
        BY <3>1, FeeTypes DEF OpenShare
    <2>2. f[k] = p - s[k].price - BuyFee - SellFee
      BY DEF Profits, Consumed
    <2>3. g[k] = s[k].price + BuyFee
      BY DEF Costs
    <2> QED
      BY <2>1, <2>2, <2>3, FeeTypes
  <1>3. IsFiniteSet(1 .. n) /\ Cardinality(1 .. n) = n
    BY FS_Interval
  <1>4. SumFunctionOnSet(h, 1 .. n) = n * (p - SellFee)
    <2>1. p - SellFee \in Int
      BY FeeTypes
    <2> QED
      BY <1>3, <2>1, SumConstant
  <1> HIDE DEF f, g, h
  <1>5. SumFunctionOnSet(h, 1 .. n)
          = SumFunctionOnSet(f, 1 .. n) + SumFunctionOnSet(g, 1 .. n)
    BY <1>2, <1>3, SumPlus
  <1>6. SumFunctionOnSet(f, 1 .. n) \in Int /\ SumFunctionOnSet(g, 1 .. n) \in Int
    BY <1>2, <1>3, SumInt
  <1>7. SumFunction(f) = n * (p - SellFee) - SumFunction(g)
    BY <1>1, <1>4, <1>5, <1>6 DEF SumFunction
  <1> QED
    BY <1>7 DEF f, g

LEMMA CostsSplit ==
    ASSUME NEW s \in Seq(OpenShare), NEW n \in 0 .. Len(s)
    PROVE  SumFunction(Costs(s)) = SumFunction(Costs(SubSeq(s, 1, n)))
                                   + SumFunction(Costs(SubSeq(s, n + 1, Len(s))))
  <1>1. SubSeq(s, 1, n) \in Seq(OpenShare) /\ SubSeq(s, n + 1, Len(s)) \in Seq(OpenShare)
    OBVIOUS
  <1>2. s = SubSeq(s, 1, n) \o SubSeq(s, n + 1, Len(s))
    <2>1. 1 \in 1 .. Len(s) + 1 /\ n \in 1 - 1 .. Len(s) /\ Len(s) \in n .. Len(s)
      OBVIOUS
    <2>2. SubSeq(s, 1, n) \o SubSeq(s, n + 1, Len(s)) = SubSeq(s, 1, Len(s))
      BY <2>1, ConcatAdjacentSubSeq, Zenon
    <2> QED
      BY <2>2, SubSeqFull
  <1> QED
    BY <1>1, <1>2, CostsAdd

LEMMA SumOfCosts ==
    ASSUME NEW s \in Seq(OpenShare)
    PROVE  SumFunction(Costs(s)) \in Int
  <1>1. Costs(s) \in Seq(Int)
    BY CostsType
  <1>2. IsFiniteSet(DOMAIN Costs(s))
    BY <1>1, FS_Interval, LenProperties
  <1>3. \A k \in DOMAIN Costs(s) : Costs(s)[k] \in Int
    BY <1>1
  <1> QED
    BY <1>2, <1>3, SumInt DEF SumFunction

(* Changing one instrument's legs changes the totals by as much.           *)
LEMMA TotalsChange ==
    ASSUME NEW l \in [Instruments -> Seq(OpenShare)], NEW i \in Instruments,
           NEW s \in Seq(OpenShare)
    PROVE  /\ CostOf(l) \in Int /\ SharesOf(l) \in Int
           /\ CostOf([l EXCEPT ![i] = s])
                = CostOf(l) - SumFunction(Costs(l[i])) + SumFunction(Costs(s))
           /\ SharesOf([l EXCEPT ![i] = s]) = SharesOf(l) - Len(l[i]) + Len(s)
  <1> DEFINE m == [l EXCEPT ![i] = s]
  <1>1. /\ \A j \in Instruments : m[j] = IF j = i THEN s ELSE l[j]
        /\ \A j \in Instruments : l[j] \in Seq(OpenShare)
    OBVIOUS
  <1> HIDE DEF m
  <1>2. CostOf(l) \in Int /\ CostOf(m) = CostOf(l) - SumFunction(Costs(l[i]))
                                         + SumFunction(Costs(s))
    <2> DEFINE f == [j \in Instruments |-> SumFunction(Costs(l[j]))]
               g == [j \in Instruments |-> SumFunction(Costs(m[j]))]
    <2>1. \A j \in Instruments : f[j] \in Int
      BY <1>1, SumOfCosts
    <2>2. /\ g[i] = SumFunction(Costs(s)) /\ g[i] \in Int
          /\ f[i] = SumFunction(Costs(l[i]))
          /\ \A j \in Instruments \ {i} : f[j] = g[j]
      BY <1>1, SumOfCosts
    <2>3. DOMAIN f = Instruments /\ DOMAIN g = Instruments
      OBVIOUS
    <2>4. CostOf(l) = SumFunction(f) /\ CostOf(m) = SumFunction(g)
      BY DEF CostOf
    <2> HIDE DEF f, g
    <2>5. SumFunctionOnSet(f, Instruments) \in Int
      BY <2>1, FeeTypes, SumInt
    <2>6. SumFunctionOnSet(g, Instruments)
            = SumFunctionOnSet(f, Instruments) - f[i] + g[i]
      <3>1. g[i] \in Int /\ \A j \in Instruments \ {i} : f[j] = g[j]
        BY <2>2
      <3>2. IsFiniteSet(Instruments)
        BY FeeTypes
      <3> QED
        BY <2>1, <3>1, <3>2, SumChange
    <2> QED
      BY <2>2, <2>3, <2>4, <2>5, <2>6 DEF SumFunction
  <1>3. SharesOf(l) \in Int /\ SharesOf(m) = SharesOf(l) - Len(l[i]) + Len(s)
    <2> DEFINE f == [j \in Instruments |-> Len(l[j])]
               g == [j \in Instruments |-> Len(m[j])]
    <2>1. \A j \in Instruments : f[j] \in Int
      BY <1>1
    <2>2. /\ g[i] = Len(s) /\ g[i] \in Int
          /\ f[i] = Len(l[i])
          /\ \A j \in Instruments \ {i} : f[j] = g[j]
      BY <1>1
    <2>3. DOMAIN f = Instruments /\ DOMAIN g = Instruments
      OBVIOUS
    <2>4. SharesOf(l) = SumFunction(f) /\ SharesOf(m) = SumFunction(g)
      BY DEF SharesOf
    <2> HIDE DEF f, g
    <2>5. SumFunctionOnSet(f, Instruments) \in Int
      BY <2>1, FeeTypes, SumInt
    <2>6. SumFunctionOnSet(g, Instruments)
            = SumFunctionOnSet(f, Instruments) - f[i] + g[i]
      <3>1. g[i] \in Int /\ \A j \in Instruments \ {i} : f[j] = g[j]
        BY <2>2
      <3>2. IsFiniteSet(Instruments)
        BY FeeTypes
      <3> QED
        BY <2>1, <3>1, <3>2, SumChange
    <2> QED
      BY <2>2, <2>3, <2>4, <2>5, <2>6 DEF SumFunction
  <1> QED
    BY <1>2, <1>3 DEF m

LEMMA SumOfProfits ==
    ASSUME NEW c \in Seq(ClosedShare)
    PROVE  SumFunction(Profits(c)) \in Int
  <1>1. Profits(c) \in Seq(Int)
    BY ProfitsType
  <1>2. IsFiniteSet(DOMAIN Profits(c))
    BY <1>1, FS_Interval, LenProperties
  <1>3. \A k \in DOMAIN Profits(c) : Profits(c)[k] \in Int
    BY <1>1
  <1> QED
    BY <1>2, <1>3, SumInt DEF SumFunction

(* What the identity sets the trade rows against is an integer.            *)
Explained(c, l) ==
    SumFunction(Profits(c)) - CostOf(l) - OtherFee * (2 * Len(c) + SharesOf(l))

LEMMA ExplainedType ==
    ASSUME NEW c \in Seq(ClosedShare), NEW l \in [Instruments -> Seq(OpenShare)]
    PROVE  Explained(c, l) \in Int
  <1> DEFINE f == [i \in Instruments |-> SumFunction(Costs(l[i]))]
             g == [i \in Instruments |-> Len(l[i])]
  <1>1. \A i \in Instruments : f[i] \in Int /\ g[i] \in Int
    BY SumOfCosts
  <1>2. DOMAIN f = Instruments /\ DOMAIN g = Instruments
    OBVIOUS
  <1>3. CostOf(l) = SumFunction(f) /\ SharesOf(l) = SumFunction(g)
    BY DEF CostOf, SharesOf
  <1> HIDE DEF f, g
  <1>4. CostOf(l) \in Int /\ SharesOf(l) \in Int
    BY <1>1, <1>2, <1>3, FeeTypes, SumInt DEF SumFunction
  <1>5. SumFunction(Profits(c)) \in Int /\ Len(c) \in Int
    BY SumOfProfits, LenProperties
  <1>6. 2 * Len(c) + SharesOf(l) \in Int
    BY <1>4, <1>5
  <1>7. OtherFee * (2 * Len(c) + SharesOf(l)) \in Int
    BY <1>6, FeeTypes
  <1> QED
    BY <1>4, <1>5, <1>7 DEF Explained

LEMMA SlicedType ==
    ASSUME NEW c \in Seq(ClosedShare)
    PROVE  IsFiniteSet(Sliced(c)) /\ OtherFee * Cardinality(Sliced(c)) \in Int
  <1>1. IsFiniteSet(Sliced(c))
    <2>1. Len(c) \in Nat /\ DOMAIN c = 1 .. Len(c)
      BY LenProperties
    <2>2. IsFiniteSet(1 .. Len(c))
      BY <2>1, FS_Interval
    <2>3. Sliced(c) \subseteq 1 .. Len(c)
      BY <2>1 DEF Sliced
    <2> QED
      BY <2>2, <2>3, FS_Subset
  <1>2. Cardinality(Sliced(c)) \in Int
    BY <1>1, FS_CardinalityType
  <1> QED
    BY <1>1, <1>2, FeeTypes

LEMMA DroppedType ==
    /\ Typed => Dropped \in Int
    /\ Typed' => Dropped' \in Int
  <1>1. /\ Typed => closed \in Seq(ClosedShare)
        /\ Typed' => closed' \in Seq(ClosedShare)
    BY DEF Typed, TypeOK
  <1>2. /\ Dropped = OtherFee * Cardinality(Sliced(closed))
        /\ Dropped' = OtherFee * Cardinality(Sliced(closed'))
    BY DEF Dropped, Sliced
  <1> QED
    BY <1>1, <1>2, SlicedType

(* The identity with the totals above.                                     *)
LEMMA PnLForm ==
    /\ Typed => (PnLReconciles <=> (unmatched = 0 => Net = Explained(closed, legs)))
    /\ Typed' => (PnLReconciles' <=> (unmatched' = 0 => Net' = Explained(closed', legs')))
  <1>1. ASSUME NEW b \in Int, NEW d \in Int, NEW x \in Int
        PROVE  b = x + d <=> b - d = x
    OBVIOUS
  <1>2. ASSUME Typed
        PROVE  PnLReconciles <=> (unmatched = 0 => Net = Explained(closed, legs))
    <2>1. booked \in Int /\ Dropped \in Int /\ Explained(closed, legs) \in Int
      BY <1>2, ExplainedType, DroppedType DEF Typed, TypeOK
    <2>2. PnLReconciles <=> (unmatched = 0 => booked = Explained(closed, legs) + Dropped)
      BY DEF PnLReconciles, Realized, OpenCost, Profits, Costs, CostOf, SharesOf, Explained
    <2>3. booked = Explained(closed, legs) + Dropped
            <=> booked - Dropped = Explained(closed, legs)
      BY ONLY <1>1, <2>1
    <2>4. booked = Explained(closed, legs) + Dropped <=> Net = Explained(closed, legs)
      BY ONLY <2>3 DEF Net
    <2> QED
      BY ONLY <2>2, <2>4, Zenon
  <1>3. ASSUME Typed'
        PROVE  PnLReconciles' <=> (unmatched' = 0 => Net' = Explained(closed', legs'))
    <2>1. booked' \in Int /\ Dropped' \in Int /\ Explained(closed', legs') \in Int
      BY <1>3, ExplainedType, DroppedType DEF Typed, TypeOK
    <2>2. PnLReconciles' <=> (unmatched' = 0 => booked' = Explained(closed', legs') + Dropped')
      BY DEF PnLReconciles, Realized, OpenCost, Profits, Costs, CostOf, SharesOf, Explained
    <2>3. booked' = Explained(closed', legs') + Dropped'
            <=> booked' - Dropped' = Explained(closed', legs')
      BY ONLY <1>1, <2>1
    <2>4. booked' = Explained(closed', legs') + Dropped' <=> Net' = Explained(closed', legs')
      BY ONLY <2>3 DEF Net
    <2> QED
      BY ONLY <2>2, <2>4, Zenon
  <1> QED
    BY <1>2, <1>3

(* A longer history has the sliced shares of both its parts.               *)
LEMMA SlicedAdd ==
    ASSUME NEW c \in Seq(ClosedShare), NEW d \in Seq(ClosedShare)
    PROVE  Cardinality(Sliced(c \o d)) = Cardinality(Sliced(c)) + Cardinality(Sliced(d))
  <1> DEFINE moved == {Len(c) + k : k \in Sliced(d)}
             f == [k \in Sliced(d) |-> Len(c) + k]
  <1>1. /\ c \o d \in Seq(ClosedShare) /\ Len(c \o d) = Len(c) + Len(d)
        /\ \A k \in 1 .. Len(c) + Len(d) :
              (c \o d)[k] = IF k <= Len(c) THEN c[k] ELSE d[k - Len(c)]
        /\ Len(c) \in Nat /\ Len(d) \in Nat
    BY ConcatProperties, LenProperties
  <1>2. /\ Sliced(c) = {k \in 1 .. Len(c) : c[k].slice}
        /\ Sliced(d) = {k \in 1 .. Len(d) : d[k].slice}
        /\ Sliced(c \o d) = {k \in 1 .. Len(c) + Len(d) : (c \o d)[k].slice}
    BY <1>1, LenProperties DEF Sliced
  <1>3. Sliced(c \o d) = Sliced(c) \cup moved
    <2>1. ASSUME NEW k \in Sliced(c \o d), k <= Len(c)
          PROVE  k \in Sliced(c)
      BY <1>1, <1>2, <2>1
    <2>2. ASSUME NEW k \in Sliced(c \o d), ~(k <= Len(c))
          PROVE  k \in moved
      <3>1. k - Len(c) \in 1 .. Len(d) /\ d[k - Len(c)].slice
        BY <1>1, <1>2, <2>2
      <3>2. k - Len(c) \in Sliced(d) /\ k = Len(c) + (k - Len(c))
        BY <1>1, <1>2, <3>1
      <3> QED
        BY <3>2
    <2>3. ASSUME NEW k \in Sliced(c)
          PROVE  k \in Sliced(c \o d)
      BY <1>1, <1>2, <2>3
    <2>4. ASSUME NEW k \in Sliced(d)
          PROVE  Len(c) + k \in Sliced(c \o d)
      <3>1. k \in 1 .. Len(d) /\ d[k].slice
        BY <1>2, <2>4
      <3>2. Len(c) + k \in 1 .. Len(c) + Len(d) /\ ~(Len(c) + k <= Len(c))
            /\ (Len(c) + k) - Len(c) = k
        BY <1>1, <3>1
      <3>3. (c \o d)[Len(c) + k] = d[k]
        BY <1>1, <3>2
      <3> QED
        BY <1>2, <3>1, <3>2, <3>3
    <2> QED
      BY <2>1, <2>2, <2>3, <2>4
  <1>4. Sliced(c) \cap moved = {}
    BY <1>1, <1>2
  <1>5. IsFiniteSet(Sliced(c)) /\ IsFiniteSet(Sliced(d))
    BY SlicedType
  <1>6. IsFiniteSet(moved) /\ Cardinality(moved) = Cardinality(Sliced(d))
    <2>1. f \in [Sliced(d) -> moved] /\ \A m \in moved : \E k \in Sliced(d) : f[k] = m
      OBVIOUS
    <2>2. \A j, k \in Sliced(d) : f[j] = f[k] => j = k
      BY <1>1, <1>2
    <2>3. f \in Bijection(Sliced(d), moved)
      <3> HIDE DEF f, moved
      <3> QED
        BY <2>1, <2>2, Fun_IsBij, Zenon
    <2> HIDE DEF f, moved
    <2> QED
      BY <1>5, <2>3, Fun_ExistsBij, FS_Bijection
  <1> HIDE DEF moved
  <1>7. /\ Cardinality(Sliced(c) \cup moved)
             = Cardinality(Sliced(c)) + Cardinality(moved)
                 - Cardinality(Sliced(c) \cap moved)
    BY <1>5, <1>6, FS_Union
  <1>8. Cardinality(Sliced(c) \cap moved) = 0
    BY <1>4, FS_EmptySet
  <1>9. Cardinality(Sliced(c)) \in Nat /\ Cardinality(Sliced(d)) \in Nat
    BY <1>5, FS_CardinalityType
  <1>10. Cardinality(Sliced(c) \cup moved) = Cardinality(Sliced(c)) + Cardinality(Sliced(d))
    BY <1>6, <1>7, <1>8, <1>9
  <1> QED
    BY <1>3, <1>10

LEMMA ConsumedSlices ==
    ASSUME NEW s, NEW n \in Nat, NEW p
    PROVE  Sliced(Consumed(s, n, p)) = SplitOff(s, n)
  BY DEF Sliced, Consumed, SplitOff

(* The commit of a BUY books what it cost, that of a SELL what it yielded. *)
LEMMA NetOfBuy ==
    ASSUME Typed, NEW r \in Requests, CommitBuy(r)
    PROVE  Net' = Net - _total_cost(r, exec[r].price) /\ Net \in Int
  <1>1. /\ booked \in Int /\ Dropped \in Int
        /\ _total_cost(r, exec[r].price) \in Int
    BY TotalCostType, DroppedType DEF Typed, TypeOK, PriceHeld, CommitBuy
  <1>2. /\ booked' = booked - _total_cost(r, exec[r].price)
        /\ Dropped' = Dropped
    BY DEF CommitBuy, Dropped
  <1> QED
    BY <1>1, <1>2 DEF Net

LEMMA NetOfSell ==
    ASSUME Typed, NEW r \in Requests, CommitSell(r)
    PROVE  Net' = Net + _total_cost(r, exec[r].price) /\ Net \in Int
  <1> DEFINE i == Instr(r)
             q == Shares(r)
             n == Least(q, Len(legs[i]))
             c == Consumed(legs[i], n, exec[r].price)
             loss == SplitLoss(i, q)
  <1>1. /\ i \in Instruments /\ q \in Nat
        /\ exec[r].price \in Prices
        /\ legs[i] \in Seq(OpenShare)
        /\ closed \in Seq(ClosedShare)
        /\ booked \in Int
    BY RequestTypes DEF Typed, TypeOK, PriceHeld, CommitSell
  <1>2. n \in 0 .. Len(legs[i])
    BY <1>1 DEF Least
  <1>3. c \in Seq(ClosedShare) /\ Sliced(c) = SplitOff(legs[i], n)
    BY <1>1, <1>2, ConsumedType, ConsumedSlices
  <1>4. /\ _total_cost(r, exec[r].price) \in Int
        /\ loss \in Int
        /\ loss = OtherFee * Cardinality(Sliced(c))
    <2>1. loss \in Nat
      BY <1>1, SplitLossType
    <2>2. SplitLoss(i, q) = OtherFee * Cardinality(SplitOff(legs[i], n))
      BY DEF SplitLoss
    <2>3. _total_cost(r, exec[r].price) \in Int
      BY <1>1, TotalCostType
    <2> HIDE DEF n, c
    <2> QED
      BY <1>3, <2>1, <2>2, <2>3
  <1>5. /\ booked' = booked + _total_cost(r, exec[r].price) + loss
        /\ closed' = closed \o c
    BY DEF CommitSell, _link_sell_to_open_buys
  <1> HIDE DEF c, loss
  <1>6. Dropped' = Dropped + loss /\ Dropped \in Int
    <2> DEFINE C == Cardinality(Sliced(closed))
               D == Cardinality(Sliced(c))
    <2>1. C \in Nat /\ D \in Nat
      BY <1>1, <1>3, SlicedType, FS_CardinalityType
    <2>2. Cardinality(Sliced(closed')) = C + D
      BY <1>1, <1>3, <1>5, SlicedAdd
    <2>3. Dropped = OtherFee * C /\ Dropped' = OtherFee * Cardinality(Sliced(closed'))
      BY DEF Dropped, Sliced
    <2> HIDE DEF C, D
    <2>4. OtherFee * (C + D) = OtherFee * C + OtherFee * D /\ OtherFee * C \in Int
      BY <2>1, FeeTypes
    <2> QED
      BY <1>4, <2>2, <2>3, <2>4 DEF D
  <1> QED
    BY <1>1, <1>4, <1>5, <1>6 DEF Net

LEMMA BuyReconciles ==
    ASSUME Typed, Typed', PnLReconciles, NEW r \in Requests, CommitBuy(r)
    PROVE  PnLReconciles'
  <1> DEFINE i == Instr(r)
             q == Shares(r)
             price == exec[r].price
             s == legs[i] \o Leg(q, price)
  <1>1. /\ i \in Instruments
        /\ q \in Nat
        /\ price \in Prices /\ price \in Int
        /\ legs \in [Instruments -> Seq(OpenShare)]
        /\ closed \in Seq(ClosedShare)
    BY RequestTypes, FeeTypes DEF Typed, TypeOK, PriceHeld, CommitBuy
  <1>2. Leg(q, price) \in Seq(OpenShare) /\ Len(Leg(q, price)) = q
    BY <1>1, LegType
  <1>3. s \in Seq(OpenShare) /\ Len(s) = Len(legs[i]) + q
    <2> DEFINE bought == Leg(q, price)
    <2>1. legs[i] \in Seq(OpenShare) /\ bought \in Seq(OpenShare) /\ Len(bought) = q
      BY <1>1, <1>2
    <2> HIDE DEF bought
    <2>2. /\ legs[i] \o bought \in Seq(OpenShare)
          /\ Len(legs[i] \o bought) = Len(legs[i]) + q
      BY <2>1, ConcatProperties, ZenonT(30)
    <2> QED
      BY <2>2 DEF bought
  <1>4. SumFunction(Costs(s)) = SumFunction(Costs(legs[i])) + q * (price + BuyFee)
    BY <1>1, <1>2, CostsAdd, LegCosts
  <1>5. /\ legs' = [legs EXCEPT ![i] = s]
        /\ UNCHANGED <<closed, unmatched>>
        /\ Net' = Net - q * (price + BuyFee + OtherFee) /\ Net \in Int
    BY <1>2, NetOfBuy DEF CommitBuy, _total_cost
  <1>6. SumFunction(Costs(legs[i])) \in Int /\ Len(legs[i]) \in Int
    BY <1>1, SumOfCosts
  <1> HIDE DEF i, q, price, s
  <1>7. /\ CostOf(legs) \in Int /\ SharesOf(legs) \in Int
        /\ CostOf(legs') = CostOf(legs) - SumFunction(Costs(legs[i])) + SumFunction(Costs(s))
        /\ SharesOf(legs') = SharesOf(legs) - Len(legs[i]) + Len(s)
    BY <1>1, <1>3, <1>5, TotalsChange
  <1>8. q * (price + BuyFee) \in Int /\ q * OtherFee \in Int
    BY <1>1, FeeTypes
  <1>9. /\ CostOf(legs') = CostOf(legs) + q * (price + BuyFee)
        /\ SharesOf(legs') = SharesOf(legs) + q
    BY <1>1, <1>3, <1>4, <1>6, <1>7, <1>8
  <1>10. Net' = Net - q * (price + BuyFee) - q * OtherFee
    <2>1. q * (price + BuyFee + OtherFee) = q * (price + BuyFee) + q * OtherFee
      BY <1>1, FeeTypes
    <2> QED
      BY <1>1, <1>5, <1>8, <2>1
  <1>11. ASSUME unmatched' = 0
         PROVE  Net' = SumFunction(Profits(closed')) - CostOf(legs')
                            - OtherFee * (2 * Len(closed') + SharesOf(legs'))
    <2> DEFINE R == SumFunction(Profits(closed))
               N == 2 * Len(closed) + SharesOf(legs)
    <2>1. Net = R - CostOf(legs) - OtherFee * N
      BY <1>5, <1>11, PnLForm DEF Explained
    <2>2. R \in Int /\ N \in Int /\ OtherFee \in Int
      <3>1. R \in Int
        BY <1>1, SumOfProfits
      <3>2. Len(closed) \in Int
        BY <1>1
      <3> QED
        BY <1>7, <3>1, <3>2, FeeTypes
    <2>3. 2 * Len(closed') + SharesOf(legs') = N + q
      BY <1>1, <1>5, <1>7, <1>9
    <2> HIDE DEF R, N
    <2>4. OtherFee * (N + q) = OtherFee * N + q * OtherFee /\ OtherFee * N \in Int
      BY <1>1, <2>2
    <2>5. Net' = R - CostOf(legs') - OtherFee * (N + q)
      <3> DEFINE paid == q * (price + BuyFee)
                 other == q * OtherFee
                 before == OtherFee * N
      <3>1. paid \in Int /\ other \in Int /\ before \in Int
        BY <1>8, <2>4
      <3>2. /\ Net' = Net - paid - other
            /\ Net = R - CostOf(legs) - before
            /\ CostOf(legs') = CostOf(legs) + paid
            /\ OtherFee * (N + q) = before + other
        BY <1>9, <1>10, <2>1, <2>4
      <3> HIDE DEF paid, other, before
      <3> QED
        BY <1>7, <2>2, <3>1, <3>2
    <2> QED
      BY <1>5, <2>3, <2>5 DEF R
  <1> QED
    BY <1>11, PnLForm DEF Explained

LEMMA SellReconciles ==
    ASSUME Typed, Typed', PnLReconciles, NEW r \in Requests, CommitSell(r)
    PROVE  PnLReconciles'
  <1> DEFINE i == Instr(r)
             q == Shares(r)
             price == exec[r].price
             n == Least(q, Len(legs[i]))
             sold == SubSeq(legs[i], 1, n)
             s == SubSeq(legs[i], n + 1, Len(legs[i]))
             c == Consumed(legs[i], n, price)
  <1> SUFFICES ASSUME unmatched' = 0
               PROVE  Net' = SumFunction(Profits(closed')) - CostOf(legs')
                                  - OtherFee * (2 * Len(closed') + SharesOf(legs'))
    BY PnLForm DEF Explained
  <1>1. /\ i \in Instruments
        /\ q \in Nat
        /\ price \in Prices /\ price \in Int
        /\ legs \in [Instruments -> Seq(OpenShare)]
        /\ closed \in Seq(ClosedShare)
        /\ unmatched \in Nat
    BY RequestTypes, FeeTypes DEF Typed, TypeOK, PriceHeld, CommitSell
  <1>2. legs[i] \in Seq(OpenShare) /\ n \in 0 .. Len(legs[i]) /\ n <= q
    BY <1>1 DEF Least
  <1>3. /\ s \in Seq(OpenShare) /\ Len(s) = Len(legs[i]) - n
        /\ c \in Seq(ClosedShare) /\ Len(c) = n
    <2>1. c \in Seq(ClosedShare)
      BY <1>1, <1>2, ConsumedType
    <2>2. Len(c) = n
      BY <1>2 DEF Consumed
    <2> QED
      BY <1>2, <2>1, <2>2, PrefixDropped
  <1>4. SumFunction(Costs(legs[i])) = SumFunction(Costs(sold)) + SumFunction(Costs(s))
    BY <1>2, CostsSplit
  <1>5. SumFunction(Profits(c)) = n * (price - SellFee) - SumFunction(Costs(sold))
    BY <1>1, <1>2, ConsumedProfits
  <1>6. /\ legs' = [legs EXCEPT ![i] = s]
        /\ closed' = closed \o c
        /\ unmatched' = unmatched + (q - n)
        /\ Net' = Net + q * (price - SellFee - OtherFee) /\ Net \in Int
    BY NetOfSell DEF CommitSell, _link_sell_to_open_buys, _total_cost
  <1>7. unmatched = 0 /\ n = q
    BY <1>1, <1>2, <1>6
  <1>8. /\ SumFunction(Costs(legs[i])) \in Int /\ Len(legs[i]) \in Int
        /\ SumFunction(Costs(sold)) \in Int /\ SumFunction(Costs(s)) \in Int
    <2>1. sold \in Seq(OpenShare) /\ legs[i] \in Seq(OpenShare) /\ Len(legs[i]) \in Int
      BY <1>2
    <2> HIDE DEF sold, s
    <2> QED
      BY <1>3, <2>1, SumOfCosts
  <1> HIDE DEF i, q, price, n, sold, s, c
  <1>9. /\ CostOf(legs) \in Int /\ SharesOf(legs) \in Int
        /\ CostOf(legs') = CostOf(legs) - SumFunction(Costs(legs[i])) + SumFunction(Costs(s))
        /\ SharesOf(legs') = SharesOf(legs) - Len(legs[i]) + Len(s)
    BY <1>1, <1>3, <1>6, TotalsChange
  <1>10. /\ SumFunction(Profits(closed')) = SumFunction(Profits(closed)) + SumFunction(Profits(c))
         /\ Len(closed') = Len(closed) + n
    BY <1>1, <1>3, <1>6, ProfitsAdd, ConcatProperties
  <1> DEFINE R == SumFunction(Profits(closed))
             N == 2 * Len(closed) + SharesOf(legs)
             P == q * (price - SellFee)
             F == q * OtherFee
  <1>11. /\ R \in Int /\ N \in Int /\ P \in Int /\ F \in Int
         /\ OtherFee * N \in Int /\ OtherFee * (N + q) = OtherFee * N + F
    <2>1. R \in Int /\ N \in Int
      <3>1. R \in Int
        BY <1>1, SumOfProfits
      <3>2. Len(closed) \in Int
        BY <1>1
      <3> QED
        BY <1>9, <3>1, <3>2
    <2> HIDE DEF R, N
    <2> QED
      BY <1>1, <2>1, FeeTypes
  <1>12. Net = R - CostOf(legs) - OtherFee * N
    BY <1>7, PnLForm DEF Explained
  <1>13. Net' = Net + P - F
    <2>1. q * (price - SellFee - OtherFee) = q * (price - SellFee) - q * OtherFee
      BY <1>1, FeeTypes
    <2> QED
      BY <1>1, <1>6, <1>11, <2>1
  <1>14. SumFunction(Profits(closed')) - CostOf(legs') = R - CostOf(legs) + P
    <2>1. SumFunction(Profits(closed')) = R + (P - SumFunction(Costs(sold)))
      BY <1>5, <1>7, <1>10
    <2>2. CostOf(legs') = CostOf(legs) - SumFunction(Costs(sold))
      BY <1>4, <1>8, <1>9
    <2> HIDE DEF R, P
    <2> QED
      BY <1>8, <1>9, <1>11, <2>1, <2>2
  <1>15. 2 * Len(closed') + SharesOf(legs') = N + q
    <2>1. Len(closed) \in Int /\ q \in Int
      BY <1>1
    <2>2. Len(closed') = Len(closed) + q /\ SharesOf(legs') = SharesOf(legs) - q
      <3>1. SharesOf(legs') = SharesOf(legs) - Len(legs[i]) + (Len(legs[i]) - q)
        BY <1>3, <1>7, <1>9
      <3>2. SharesOf(legs) \in Int /\ Len(legs[i]) \in Int
        BY <1>8, <1>9
      <3>3. SharesOf(legs') = SharesOf(legs) - q
        BY <2>1, <3>1, <3>2
      <3> QED
        BY <1>7, <1>10, <3>3
    <2>3. SharesOf(legs) \in Int
      BY <1>9
    <2> QED
      BY <2>1, <2>2, <2>3
  <1> HIDE DEF R, N, P, F
  <1>16. OtherFee * (2 * Len(closed') + SharesOf(legs')) = OtherFee * N + F
    BY <1>11, <1>15
  <1>17. CostOf(legs) \in Int
    BY <1>9
  <1> DEFINE M == OtherFee * N
  <1>18. Net = R - CostOf(legs) - M /\ M \in Int
    BY <1>11, <1>12
  <1>19. OtherFee * (2 * Len(closed') + SharesOf(legs')) = M + F
    BY <1>16
  <1> HIDE DEF M
  <1> QED
    BY <1>11, <1>13, <1>14, <1>17, <1>18, <1>19, SaleBalances

LEMMA NextPnL == Typed /\ Typed' /\ PnLReconciles /\ [Next]_vars => PnLReconciles'
  <1> SUFFICES ASSUME Typed, Typed', PnLReconciles, [Next]_vars
               PROVE  PnLReconciles'
    OBVIOUS
  <1>1. ASSUME UNCHANGED <<cash, qty, cost, legs, closed, unmatched, booked, fills>>
        PROVE  PnLReconciles'
    <2>1. Net' = Net
      BY <1>1 DEF Net, Dropped
    <2> QED
      BY <1>1, <2>1, PnLForm
  <1> QED
    BY <1>1, BuyReconciles, SellReconciles, OnlyCommitsTrade

LEMMA InitPnL == Init => PnLReconciles
  <1> SUFFICES ASSUME Init
               PROVE  Net = SumFunction(Profits(closed)) - CostOf(legs)
                              - OtherFee * (2 * Len(closed) + SharesOf(legs))
    BY InitTyped, PnLForm DEF Explained
  <1>1. /\ Net = 0 /\ closed = <<>> /\ \A i \in Instruments : legs[i] = <<>>
    <2>1. booked = 0 /\ closed = <<>> /\ \A i \in Instruments : legs[i] = <<>>
      BY DEF Init
    <2>2. Sliced(<<>>) = {} /\ Cardinality({}) = 0
      BY FS_EmptySet DEF Sliced
    <2>3. Dropped = OtherFee * 0
      BY <2>1, <2>2 DEF Dropped, Sliced
    <2> QED
      BY <2>1, <2>3, FeeTypes DEF Net
  <1>2. SumFunction(Profits(<<>>)) = 0 /\ SumFunction(Costs(<<>>)) = 0
    <2>1. DOMAIN Profits(<<>>) = {} /\ DOMAIN Costs(<<>>) = {}
      BY DEF Profits, Costs
    <2> QED
      BY <2>1, SumEmpty DEF SumFunction
  <1>3. CostOf(legs) = Cardinality(Instruments) * 0
    <2> DEFINE f == [i \in Instruments |-> SumFunction(Costs(legs[i]))]
    <2>1. DOMAIN f = Instruments /\ \A i \in Instruments : f[i] = 0
      BY <1>1, <1>2
    <2>2. CostOf(legs) = SumFunction(f)
      BY DEF CostOf
    <2> HIDE DEF f
    <2> QED
      BY <2>1, <2>2, FeeTypes, SumConstant DEF SumFunction
  <1>4. SharesOf(legs) = Cardinality(Instruments) * 0
    <2> DEFINE f == [i \in Instruments |-> Len(legs[i])]
    <2>1. DOMAIN f = Instruments /\ \A i \in Instruments : f[i] = 0
      BY <1>1
    <2>2. SharesOf(legs) = SumFunction(f)
      BY DEF SharesOf
    <2> HIDE DEF f
    <2> QED
      BY <2>1, <2>2, FeeTypes, SumConstant DEF SumFunction
  <1>5. Cardinality(Instruments) \in Nat
    BY FeeTypes, FS_CardinalityType
  <1> QED
    BY <1>1, <1>2, <1>3, <1>4, <1>5, FeeTypes

(* The P&L on the closed BUY rows accounts for every rupee of the trade    *)
(* rows while every SELL found its BUYs, however executions interleave     *)
(* (engine.py, _total_cost, execute_market_order and                       *)
(* _link_sell_to_open_buys).                                               *)
THEOREM ProfitExplained == Spec => []PnLReconciles
  BY InitTyped, NextTyped, InitPnL, NextPnL, PTL DEF Spec

-----------------------------------------------------------------------------
(* Executed orders.                                                        *)

(* A call past its commit has traded.                                      *)
CommittedTraded == \A r \in Requests : exec[r].pc = "committed" => fills[r] >= 1

Backed == ExecutedIsBacked /\ CommittedTraded

LEMMA FillsGrow ==
    ASSUME Typed, [Next]_vars
    PROVE  \A r \in Requests : fills[r] \in Nat /\ fills'[r] \in Nat /\ fills'[r] >= fills[r]
  <1>1. fills \in [Requests -> Nat]
    BY DEF Typed, TypeOK
  <1>2. ASSUME NEW r \in Requests, CommitBuy(r) \/ CommitSell(r)
        PROVE  fills' = [fills EXCEPT ![r] = fills[r] + 1]
    BY <1>2 DEF CommitBuy, CommitSell
  <1>3. \/ \E r \in Requests : fills' = [fills EXCEPT ![r] = fills[r] + 1]
        \/ fills' = fills
    BY <1>2, OnlyCommitsTrade
  <1> QED
    BY <1>1, <1>3

LEMMA NextBacked == Typed /\ Backed /\ [Next]_vars => Backed'
  <1> SUFFICES ASSUME Typed, Backed, [Next]_vars
               PROVE  Backed'
    OBVIOUS
  <1>1. /\ exec \in [Requests -> CallRecord]
        /\ fills \in [Requests -> Nat]
        /\ status \in [Requests ->
                          {"new", "pending", "executed", "cancelled", "expired"}]
        /\ Book \subseteq Requests
    BY DEF Typed, TypeOK, CallRecord, Book
  <1>2. \A r \in Requests :
           exec'[r].pc = "committed" => exec[r].pc = "committed" \/ fills'[r] >= 1
    <2>1. ASSUME NEW r \in Requests, CommitBuy(r) \/ CommitSell(r)
          PROVE  \A s \in Requests : s # r => exec'[s] = exec[s]
      BY <1>1, <2>1 DEF CommitBuy, CommitSell
    <2>2. ASSUME NEW r \in Requests, CommitBuy(r) \/ CommitSell(r)
          PROVE  fills'[r] >= 1
      <3>1. fills' = [fills EXCEPT ![r] = fills[r] + 1]
        BY <2>2 DEF CommitBuy, CommitSell
      <3> QED
        BY <1>1, <3>1
    <2>3. ASSUME NEW r \in Requests,
                 \/ \E price \in Prices : place_market_order(r, price)
                 \/ SweepStep(r) \/ LoadPortfolio(r) \/ RollBack(r)
                 \/ Answer(r) \/ MarkExecuted(r) \/ NotifyFails(r)
          PROVE  \A s \in Requests :
                    exec'[s].pc = "committed" => exec[s].pc = "committed"
      BY <1>1, <2>3
         DEF place_market_order, SweepStep, SweepExpire, SweepSkip, SweepTrigger,
             LoadPortfolio, RollBack, Answer, MarkExecuted, NotifyFails, Call, Idle
    <2>4. ASSUME SweepAborts \/ CrashScheduler \/ CrashApi
          PROVE  \A s \in Requests :
                    exec'[s].pc = "committed" => exec[s].pc = "committed"
      BY <1>1, <2>4 DEF SweepAborts, CrashScheduler, CrashApi, Call, Idle
    <2>5. ASSUME \/ \E r \in Requests :
                       place_order(r) \/ CancelStep(r) \/ Lapse(r)
                 \/ SweepBegin \/ RevalStep \/ UNCHANGED vars
          PROVE  exec' = exec
      BY <2>5
         DEF place_order, CancelStep, cancel_pending_order, CancelCommits,
             CancelRollsBack, Lapse, SweepBegin, RevalStep,
             RevalRead, RevalCommit, RevalAbort, vars
    <2> QED
      BY <2>1, <2>2, <2>3, <2>4, <2>5 DEF Next, EngineStep
  <1>3. CommittedTraded'
    BY <1>2, FillsGrow DEF Backed, CommittedTraded
  <1>4. \A r \in Book :
           status'[r] = "executed" => status[r] = "executed" \/ exec[r].pc = "committed"
    <2>1. ASSUME NEW r \in Requests, place_order(r) \/ CancelStep(r) \/ SweepExpire(r)
          PROVE  \A s \in Book : status'[s] = "executed" => status[s] = "executed"
      BY <1>1, <2>1 DEF place_order, CancelStep, cancel_pending_order, CancelCommits,
                          CancelRollsBack, SweepExpire
    <2>2. ASSUME NEW r \in Requests, MarkExecuted(r)
          PROVE  \A s \in Book :
                    status'[s] = "executed" => status[s] = "executed" \/ exec[s].pc = "committed"
      BY <1>1, <2>2 DEF MarkExecuted
    <2>3. ASSUME NEW r \in Requests,
                 \/ \E price \in Prices :
                       place_market_order(r, price) \/ SweepTrigger(r, price)
                 \/ Lapse(r) \/ SweepSkip(r) \/ LoadPortfolio(r) \/ CommitBuy(r)
                 \/ CommitSell(r) \/ RollBack(r) \/ Answer(r) \/ NotifyFails(r)
          PROVE  status' = status
      BY <2>3
         DEF place_market_order, SweepTrigger, Lapse, SweepSkip, LoadPortfolio,
             CommitBuy, CommitSell, RollBack, Answer, NotifyFails
    <2>4. ASSUME SweepBegin \/ RevalStep \/ SweepAborts \/ CrashScheduler \/ CrashApi \/ UNCHANGED vars
          PROVE  status' = status
      BY <2>4
         DEF SweepBegin, RevalStep, RevalRead, RevalCommit, RevalAbort,
             SweepAborts, CrashScheduler, CrashApi, vars
    <2> QED
      BY <2>1, <2>2, <2>3, <2>4 DEF Next, EngineStep, SweepStep
  <1>5. ExecutedIsBacked'
    BY <1>1, <1>4, FillsGrow DEF Backed, CommittedTraded, ExecutedIsBacked
  <1> QED
    BY <1>3, <1>5 DEF Backed

LEMMA InitBacked == Init => Backed
  BY DEF Init, Backed, ExecutedIsBacked, CommittedTraded, Idle, Call, Book

(* No order is marked executed without a trade behind it, whatever crashes *)
(* between the two transactions (order_book.py, check_pending_orders).     *)
THEOREM ExecutedOrdersTraded == Spec => []ExecutedIsBacked
  <1>1. Backed => ExecutedIsBacked
    BY DEF Backed
  <1> QED
    BY InitTyped, NextTyped, InitBacked, NextBacked, <1>1, PTL DEF Spec
-----------------------------------------------------------------------------
(* Cash.  While executions have not overlapped, at most one call is        *)
(* between reading the portfolio row and its commit, and what it read is   *)
(* still what the row says.                                                *)
OneReader ==
    ~overlapped =>
        \A r \in Requests : exec[r].pc = "read" =>
            /\ exec[r].cash = cash
            /\ \A s \in Requests : exec[s].pc = "read" => s = r

CashMatched == ~overlapped => cash = InitialCash + Net

CashInv == CashMatched /\ OneReader

(* A step that is no commit leaves cash, and only LoadPortfolio starts a   *)
(* reader.                                                                 *)
LEMMA ReadersElsewhere ==
    ASSUME Typed, [Next]_vars,
           ~ \E r \in Requests : LoadPortfolio(r) \/ CommitBuy(r) \/ CommitSell(r)
    PROVE  /\ \A s \in Requests : exec'[s].pc = "read" => exec'[s] = exec[s]
           /\ overlapped' = overlapped
  <1>1. exec \in [Requests -> CallRecord]
    BY DEF Typed, TypeOK, CallRecord
  <1>2. ASSUME NEW r \in Requests,
               \/ \E price \in Prices : place_market_order(r, price)
               \/ SweepStep(r) \/ RollBack(r)
               \/ Answer(r) \/ MarkExecuted(r) \/ NotifyFails(r)
        PROVE  \A s \in Requests : exec'[s].pc = "read" => exec'[s] = exec[s]
    BY <1>1, <1>2
       DEF place_market_order, SweepStep, SweepExpire, SweepSkip, SweepTrigger,
           RollBack, Answer, MarkExecuted, NotifyFails, Call, Idle
  <1>3. ASSUME SweepAborts \/ CrashScheduler \/ CrashApi
        PROVE  \A s \in Requests : exec'[s].pc = "read" => exec'[s] = exec[s]
    BY <1>1, <1>3 DEF SweepAborts, CrashScheduler, CrashApi, Call, Idle
  <1>4. ASSUME \/ \E r \in Requests :
                     place_order(r) \/ CancelStep(r) \/ Lapse(r)
               \/ SweepBegin \/ RevalStep \/ UNCHANGED vars
        PROVE  exec' = exec /\ overlapped' = overlapped
    BY <1>4
       DEF place_order, CancelStep, cancel_pending_order, CancelCommits,
             CancelRollsBack, Lapse, SweepBegin, RevalStep,
           RevalRead, RevalCommit, RevalAbort, vars
  <1>5. ASSUME NEW r \in Requests,
               \/ \E price \in Prices : place_market_order(r, price)
               \/ SweepStep(r) \/ RollBack(r)
               \/ Answer(r) \/ MarkExecuted(r) \/ NotifyFails(r)
        PROVE  overlapped' = overlapped
    BY <1>5
       DEF place_market_order, SweepStep, SweepExpire, SweepSkip, SweepTrigger,
           RollBack, Answer, MarkExecuted, NotifyFails
  <1>6. \/ \E r \in Requests :
              \/ \E price \in Prices : place_market_order(r, price)
              \/ SweepStep(r) \/ RollBack(r)
              \/ Answer(r) \/ MarkExecuted(r) \/ NotifyFails(r)
        \/ SweepAborts \/ CrashScheduler \/ CrashApi
        \/ \E r \in Requests :
              place_order(r) \/ CancelStep(r) \/ Lapse(r)
        \/ SweepBegin \/ RevalStep \/ UNCHANGED vars
    BY DEF Next, EngineStep
  <1>7. \A s \in Requests : exec'[s].pc = "read" => exec'[s] = exec[s]
    BY <1>2, <1>3, <1>4, <1>6
  <1>8. (SweepAborts \/ CrashScheduler \/ CrashApi) => overlapped' = overlapped
    BY DEF SweepAborts, CrashScheduler, CrashApi
  <1>9. overlapped' = overlapped
    BY <1>4, <1>5, <1>6, <1>8
  <1> QED
    BY <1>7, <1>9

(* The commit of a call writes the cash it loaded less or plus the total   *)
(* of its trade, and books the same total.                                 *)
LEMMA CommitMoves ==
    ASSUME Typed, NEW r \in Requests, CommitBuy(r) \/ CommitSell(r)
    PROVE  \E delta \in Int :
              /\ cash' = exec[r].cash + delta
              /\ Net' = Net + delta
  <1>1. exec[r].price \in Prices /\ exec[r].cash \in Int
    BY DEF Typed, TypeOK, PriceHeld, CommitBuy, CommitSell
  <1> DEFINE total == _total_cost(r, exec[r].price)
  <1>2. total \in Int
    BY <1>1, TotalCostType
  <1>3. CASE CommitBuy(r)
    <2>1. cash' = exec[r].cash - total /\ Net' = Net - total /\ Net \in Int
      BY <1>3, NetOfBuy DEF CommitBuy, CashAfter
    <2>2. /\ cash' = exec[r].cash + (- total)
          /\ Net' = Net + (- total)
          /\ - total \in Int
      BY <1>1, <1>2, <2>1
    <2> QED
      BY <2>2
  <1>4. CASE CommitSell(r)
    <2>1. cash' = exec[r].cash + total /\ Net' = Net + total
      BY <1>4, NetOfSell DEF CommitSell, CashAfter
    <2> QED
      BY <1>2, <2>1
  <1> QED
    BY <1>3, <1>4

LEMMA NextCash == Typed /\ CashInv /\ [Next]_vars => CashInv'
  <1> SUFFICES ASSUME Typed, CashInv, [Next]_vars
               PROVE  CashInv'
    OBVIOUS
  <1>1. /\ exec \in [Requests -> CallRecord]
        /\ cash \in Int /\ booked \in Int /\ Dropped \in Int /\ InitialCash \in Int
        /\ Net \in Int
        /\ overlapped \in BOOLEAN
    BY TradingAssumption, DroppedType DEF Net, Typed, TypeOK, CallRecord
  <1>2. ASSUME NEW r \in Requests, LoadPortfolio(r)
        PROVE  CashInv'
    <2>1. UNCHANGED <<cash, Net>>
      BY <1>2 DEF LoadPortfolio, book, Net, Dropped
    <2>2. ~overlapped' => ~overlapped /\ \A s \in Requests : exec[s].pc # "read"
      BY <1>2 DEF LoadPortfolio
    <2>3. exec'[r].cash = cash /\ \A s \in Requests : s # r => exec'[s] = exec[s]
      BY <1>1, <1>2 DEF LoadPortfolio
    <2> QED
      BY <2>1, <2>2, <2>3 DEF CashInv, CashMatched, OneReader
  <1>3. ASSUME NEW r \in Requests, CommitBuy(r) \/ CommitSell(r)
        PROVE  CashInv'
    <2>1. PICK delta \in Int :
             cash' = exec[r].cash + delta /\ Net' = Net + delta
      BY <1>3, CommitMoves
    <2>2. exec[r].pc = "read" /\ overlapped' = overlapped
      BY <1>3 DEF CommitBuy, CommitSell
    <2>3. exec'[r].pc = "committed" /\ \A s \in Requests : s # r => exec'[s] = exec[s]
      <3>1. exec' = [exec EXCEPT ![r] = Call("committed", exec[r].price)]
        BY <1>3 DEF CommitBuy, CommitSell
      <3> QED
        BY <1>1, <3>1 DEF Call
    <2>4. ~overlapped => \A s \in Requests : exec'[s].pc # "read"
      BY <2>2, <2>3 DEF CashInv, OneReader
    <2>5. ~overlapped => exec[r].cash = cash /\ cash = InitialCash + Net
      BY <2>2 DEF CashInv, OneReader, CashMatched
    <2>6. ~overlapped => cash' = InitialCash + Net'
      BY <1>1, <2>1, <2>5
    <2> QED
      BY <2>2, <2>4, <2>6 DEF CashInv, CashMatched, OneReader
  <1>4. ASSUME ~ \E r \in Requests : LoadPortfolio(r) \/ CommitBuy(r) \/ CommitSell(r)
        PROVE  CashInv'
    <2>1. UNCHANGED <<cash, Net>>
      BY <1>4, OnlyCommitsTrade DEF Net, Dropped
    <2>2. /\ \A s \in Requests : exec'[s].pc = "read" => exec'[s] = exec[s]
          /\ overlapped' = overlapped
      BY <1>4, ReadersElsewhere
    <2> QED
      BY <2>1, <2>2 DEF CashInv, CashMatched, OneReader
  <1> QED
    BY <1>2, <1>3, <1>4

LEMMA InitCash == Init => CashInv
  <1> SUFFICES ASSUME Init PROVE CashInv
    OBVIOUS
  <1>1. Dropped = OtherFee * 0
    <2>1. {k \in DOMAIN closed : closed[k].slice} = {} /\ Cardinality({}) = 0
      BY FS_EmptySet DEF Init
    <2> QED
      BY <2>1 DEF Dropped
  <1> QED
    BY <1>1, FeeTypes, TradingAssumption
       DEF Init, CashInv, CashMatched, Net, OneReader, Idle, Call

(* Cash is the initial capital and the net of all trade rows, the charges  *)
(* that splits dropped from them put back, as long as no two executions    *)
(* overlapped between their read and their commit of the portfolio row     *)
(* (engine.py, execute_market_order with _link_sell_to_open_buys).         *)
THEOREM CashMatchesTrades == Spec => []CashFollowsTrades
  <1>1. Typed /\ CashInv => CashFollowsTrades
    <2>1. Typed => booked \in Int /\ Dropped \in Int /\ InitialCash \in Int
      BY DroppedType, TradingAssumption DEF Typed, TypeOK
    <2> QED
      BY <2>1 DEF CashInv, CashMatched, CashFollowsTrades, Net
  <1> QED
    BY InitTyped, NextTyped, InitCash, NextCash, <1>1, PTL DEF Spec
-----------------------------------------------------------------------------
(* One order, one trade, while nothing has failed.  An order is in the     *)
(* sweep's batch, or with the engine, only while it has not traded and its *)
(* row says pending or, cancelled behind the sweep's back, cancelled.      *)
Undecided(r) == status[r] \in {"pending", "cancelled"}

SweepConsistent ==
    faults = 0 =>
        \A r \in Book :
            /\ r \in job.batch =>
                  /\ Undecided(r)
                  /\ exec[r].pc \notin {"ready", "read", "committed"}
                  /\ fills[r] = 0
            /\ exec[r].pc \in {"ready", "read", "committed"} => Undecided(r)
            /\ exec[r].pc \in {"ready", "read"} => fills[r] = 0

FillsInv == FillsFollowStatus /\ SweepConsistent

LEMMA NextFills == Typed /\ FillsInv /\ [Next]_vars => FillsInv'
  <1> SUFFICES ASSUME Typed, FillsInv, [Next]_vars
               PROVE  FillsInv'
    OBVIOUS
  <1>1. /\ exec \in [Requests -> CallRecord]
        /\ fills \in [Requests -> Nat]
        /\ status \in [Requests ->
                          {"new", "pending", "executed", "cancelled", "expired"}]
        /\ job \in [batch : SUBSET Requests, late : SUBSET Requests]
        /\ faults \in Nat
        /\ Book \subseteq Requests /\ Market = Requests \ Book
    BY TradingAssumption DEF Typed, TypeOK, CallRecord, Book, Market
  <1> USE DEF FillsInv, FillsFollowStatus, SweepConsistent, Undecided
  <1>2. ASSUME NEW r \in Requests, place_order(r) \/ CancelStep(r)
        PROVE  FillsInv'
    BY <1>1, <1>2
       DEF place_order, CancelStep, cancel_pending_order, CancelCommits,
           CancelRollsBack, book
  <1>3. ASSUME NEW r \in Requests, SweepExpire(r)
        PROVE  FillsInv'
    BY <1>1, <1>3 DEF SweepExpire, NextInSweep, book
  <1>4. ASSUME NEW r \in Requests, NEW price \in Prices, place_market_order(r, price)
        PROVE  FillsInv'
    BY <1>1, <1>4 DEF place_market_order, book
  <1>5. ASSUME NEW r \in Requests, Lapse(r) \/ SweepSkip(r)
        PROVE  FillsInv'
    BY <1>1, <1>5 DEF Lapse, SweepSkip, NextInSweep, book
  <1>6. ASSUME NEW r \in Requests, NEW ltp \in Prices, SweepTrigger(r, ltp)
        PROVE  FillsInv'
    <2>1. /\ exec' = [exec EXCEPT ![r] = Call("ready", ltp)]
          /\ job' = [job EXCEPT !.batch = job.batch \ {r}]
          /\ r \in job.batch
          /\ UNCHANGED <<fills, status, faults>>
      BY <1>6 DEF SweepTrigger, NextInSweep, book
    <2> QED
      BY <1>1, <2>1 DEF Call
  <1>7. ASSUME NEW r \in Requests, LoadPortfolio(r)
        PROVE  FillsInv'
    <2>1. /\ exec[r].pc = "ready" /\ exec'[r].pc = "read"
          /\ \A s \in Requests : s # r => exec'[s] = exec[s]
          /\ UNCHANGED <<fills, status, faults, job>>
      BY <1>1, <1>7 DEF LoadPortfolio, book
    <2> QED
      BY <1>1, <2>1
  <1>8. ASSUME NEW r \in Requests, CommitBuy(r) \/ CommitSell(r)
        PROVE  FillsInv'
    <2>1. /\ exec[r].pc = "read"
          /\ exec' = [exec EXCEPT ![r] = Call("committed", exec[r].price)]
          /\ fills' = [fills EXCEPT ![r] = fills[r] + 1]
          /\ UNCHANGED <<status, faults, job>>
      BY <1>8 DEF CommitBuy, CommitSell
    <2> QED
      BY <1>1, <2>1 DEF Call
  <1>9. ASSUME NEW r \in Requests, RollBack(r) \/ Answer(r)
        PROVE  FillsInv'
    BY <1>1, <1>9 DEF RollBack, Answer, Idle, Call, book
  <1>10. ASSUME NEW r \in Requests, MarkExecuted(r)
         PROVE  FillsInv'
    <2>1. /\ r \in Book
          /\ exec[r].pc = "committed"
          /\ exec' = [exec EXCEPT ![r] = Idle("idle")]
          /\ status' = [status EXCEPT ![r] = "executed"]
          /\ UNCHANGED <<fills, faults, job>>
      BY <1>10 DEF MarkExecuted, book
    <2> QED
      BY <1>1, <2>1 DEF Idle, Call
  <1>11. ASSUME \/ \E r \in Requests : NotifyFails(r)
                \/ SweepAborts \/ CrashScheduler \/ CrashApi
         PROVE  FillsInv'
    BY <1>1, <1>11 DEF NotifyFails, SweepAborts, CrashScheduler, CrashApi
  <1>12. ASSUME SweepBegin
         PROVE  FillsInv'
    <2>1. /\ job'.batch = Due
          /\ \A r \in Book : exec[r].pc \notin {"ready", "read", "committed"}
          /\ UNCHANGED <<fills, status, faults, exec>>
      BY <1>12 DEF SweepBegin, JobBusy, Serving, book
    <2>2. \A r \in Due : status[r] = "pending"
      BY DEF Due
    <2> QED
      BY <1>1, <2>1, <2>2
  <1>13. ASSUME RevalStep \/ UNCHANGED vars
         PROVE  FillsInv'
    BY <1>13 DEF RevalStep, RevalRead, RevalCommit, RevalAbort, vars, book
  <1> QED
    BY <1>2, <1>3, <1>4, <1>5, <1>6, <1>7, <1>8, <1>9, <1>10, <1>11, <1>12, <1>13
       DEF Next, SweepStep, EngineStep

LEMMA InitFills == Init => FillsInv
  BY DEF Init, FillsInv, FillsFollowStatus, SweepConsistent, Undecided, Idle, Call,
         Book

(* While nothing has failed an order trades exactly once when it ends      *)
(* executed and never otherwise, however sweeps, cancellations and         *)
(* expiries interleave (order_book.py, check_pending_orders).              *)
THEOREM OneFillPerOrder == Spec => []FillsFollowStatus
  <1>1. FillsInv => FillsFollowStatus
    BY DEF FillsInv
  <1> QED
    BY InitTyped, NextTyped, InitFills, NextFills, <1>1, PTL DEF Spec
-----------------------------------------------------------------------------
(* Executions that do not overlap.  What the risk manager checked still    *)
(* holds of the one call being served until it commits.                    *)
StillPermissible(r) ==
    IF IsBuy(r) THEN _total_cost(r, exec[r].price) <= cash
                ELSE Shares(r) <= qty[Instr(r)]

Alone == \A r, s \in Serving(Requests) : r = s

ServedSoundly ==
    \A r \in Requests :
        /\ exec[r].pc \in {"ready", "read"} => StillPermissible(r)
        /\ exec[r].pc = "read" => exec[r].cash = cash

SerialInv == CashNeverNegative /\ NoUnmatchedSale /\ ServedSoundly /\ Alone

(* A call that is not validated in this step was where it is, or it only   *)
(* read the portfolio row.                                                 *)
LEMMA ServedBefore ==
    ASSUME Typed, [Next]_vars,
           ~ \E r \in Requests : CommitBuy(r) \/ CommitSell(r)
    PROVE  \A r \in Requests :
              exec'[r].pc \in {"ready", "read"} =>
                \/ /\ exec[r].pc \in {"ready", "read"}
                   /\ exec'[r].price = exec[r].price
                   /\ exec'[r].pc = "read" =>
                         exec'[r].cash = cash \/ exec'[r] = exec[r]
                \/ /\ exec'[r].pc = "ready"
                   /\ exec'[r].price \in Prices
                   /\ Permissible(r, exec'[r].price)
  <1> DEFINE Goal(r) ==
        exec'[r].pc \in {"ready", "read"} =>
          \/ /\ exec[r].pc \in {"ready", "read"}
             /\ exec'[r].price = exec[r].price
             /\ exec'[r].pc = "read" => exec'[r].cash = cash \/ exec'[r] = exec[r]
          \/ /\ exec'[r].pc = "ready"
             /\ exec'[r].price \in Prices
             /\ Permissible(r, exec'[r].price)
  <1>1. exec \in [Requests -> CallRecord]
    BY DEF Typed, TypeOK, CallRecord
  <1>2. ASSUME NEW r \in Requests, NEW price \in Prices,
               place_market_order(r, price) \/ SweepTrigger(r, price)
        PROVE  \A s \in Requests : Goal(s)
    BY <1>1, <1>2 DEF place_market_order, SweepTrigger, Call, Idle
  <1>3. ASSUME NEW r \in Requests, LoadPortfolio(r)
        PROVE  \A s \in Requests : Goal(s)
    <2>1. /\ exec[r].pc = "ready"
          /\ exec' = [exec EXCEPT ![r] =
                        [pc |-> "read", price |-> exec[r].price,
                         cash |-> cash, invested |-> invested]]
      BY <1>3 DEF LoadPortfolio
    <2> QED
      BY <1>1, <2>1
  <1>4. ASSUME NEW r \in Requests,
               RollBack(r) \/ Answer(r) \/ MarkExecuted(r) \/ NotifyFails(r)
        PROVE  \A s \in Requests : Goal(s)
    BY <1>1, <1>4 DEF RollBack, Answer, MarkExecuted, NotifyFails, Call, Idle
  <1>5. ASSUME SweepAborts \/ CrashScheduler \/ CrashApi
        PROVE  \A s \in Requests : Goal(s)
    BY <1>1, <1>5 DEF SweepAborts, CrashScheduler, CrashApi, Call, Idle
  <1>6. ASSUME \/ \E r \in Requests :
                     \/ place_order(r) \/ CancelStep(r) \/ Lapse(r)
                     \/ SweepExpire(r) \/ SweepSkip(r)
               \/ SweepBegin \/ RevalStep \/ UNCHANGED vars
        PROVE  \A s \in Requests : Goal(s)
    <2>1. exec' = exec
      BY <1>6
         DEF place_order, CancelStep, cancel_pending_order, CancelCommits,
             CancelRollsBack, Lapse, SweepExpire, SweepSkip,
             SweepBegin, RevalStep, RevalRead, RevalCommit, RevalAbort, vars
    <2> QED
      BY <2>1
  <1> QED
    BY <1>2, <1>3, <1>4, <1>5, <1>6 DEF Next, SweepStep, EngineStep

(* A permissible call keeps cash at or above zero and matches every share  *)
(* it sells.                                                               *)
LEMMA SoundCommit ==
    ASSUME Typed, HoldingsReconciled, SerialInv,
           NEW r \in Requests, CommitBuy(r) \/ CommitSell(r)
    PROVE  CashNeverNegative' /\ NoUnmatchedSale'
  <1>1. /\ exec[r].price \in Prices
        /\ exec[r].cash = cash
        /\ StillPermissible(r)
        /\ cash \in Int /\ cash >= 0
        /\ unmatched = 0
        /\ qty \in [Instruments -> Nat]
        /\ legs \in [Instruments -> Seq(OpenShare)]
        /\ Instr(r) \in Instruments /\ Shares(r) \in Nat
    BY RequestTypes
       DEF Typed, TypeOK, PriceHeld, SerialInv, ServedSoundly, CashNeverNegative,
           NoUnmatchedSale, CommitBuy, CommitSell
  <1> DEFINE total == _total_cost(r, exec[r].price)
  <1>2. total \in Int /\ (~IsBuy(r) => total >= 0)
    BY <1>1, TotalCostType
  <1>3. CASE CommitBuy(r)
    <2>1. cash' = cash - total /\ total <= cash /\ unmatched' = unmatched
      BY <1>1, <1>3 DEF CommitBuy, CashAfter, StillPermissible
    <2> QED
      BY <1>1, <1>2, <2>1 DEF CashNeverNegative, NoUnmatchedSale
  <1>4. CASE CommitSell(r)
    <2>1. cash' = cash + total /\ total >= 0
      BY <1>1, <1>2, <1>4 DEF CommitSell, CashAfter
    <2>2. Shares(r) <= Len(legs[Instr(r)])
      BY <1>1, <1>4 DEF CommitSell, StillPermissible, HoldingsReconciled
    <2>3. unmatched' = unmatched + (Shares(r) - Least(Shares(r), Len(legs[Instr(r)])))
      BY <1>4 DEF CommitSell, _link_sell_to_open_buys
    <2>4. unmatched' = 0
      BY <1>1, <2>2, <2>3 DEF Least
    <2> QED
      BY <1>1, <1>2, <2>1, <2>4 DEF CashNeverNegative, NoUnmatchedSale
  <1> QED
    BY <1>3, <1>4

LEMMA NextSerial ==
    Typed /\ HoldingsReconciled /\ SerialInv /\ [SerialNext]_vars => SerialInv'
  <1> SUFFICES ASSUME Typed, HoldingsReconciled, SerialInv, [SerialNext]_vars
               PROVE  SerialInv'
    OBVIOUS
  <1>1. [Next]_vars
    BY DEF SerialNext
  <1>2. exec \in [Requests -> CallRecord]
    BY DEF Typed, TypeOK, CallRecord
  <1>3. Alone'
    BY DEF SerialNext, Alone, SerialInv, vars, Serving
  <1>4. ASSUME NEW r \in Requests, CommitBuy(r) \/ CommitSell(r)
        PROVE  SerialInv'
    <2>1. exec[r].pc = "read" /\ exec' = [exec EXCEPT ![r] = Call("committed", exec[r].price)]
      BY <1>4 DEF CommitBuy, CommitSell
    <2>2. \A s \in Requests : exec'[s].pc \notin {"ready", "read"}
      BY <1>2, <2>1 DEF SerialInv, Alone, Serving, Call
    <2> QED
      BY <1>3, <1>4, <2>2, SoundCommit DEF SerialInv, ServedSoundly
  <1>5. ASSUME ~ \E r \in Requests : CommitBuy(r) \/ CommitSell(r)
        PROVE  SerialInv'
    <2>1. UNCHANGED <<cash, qty, unmatched>>
      BY <1>1, <1>5, OnlyCommitsTrade
    <2>2. ASSUME NEW r \in Requests, exec'[r].pc \in {"ready", "read"}
          PROVE  StillPermissible(r)' /\ (exec'[r].pc = "read" => exec'[r].cash = cash')
      <3>1. CASE /\ exec[r].pc \in {"ready", "read"}
                 /\ exec'[r].price = exec[r].price
                 /\ exec'[r].pc = "read" => exec'[r].cash = cash \/ exec'[r] = exec[r]
        BY <2>1, <3>1 DEF SerialInv, ServedSoundly, StillPermissible
      <3>2. CASE /\ exec'[r].pc = "ready"
                 /\ exec'[r].price \in Prices
                 /\ Permissible(r, exec'[r].price)
        BY <2>1, <3>2, RequestTypes
           DEF Permissible, validate_buy, validate_sell, StillPermissible, Typed, TypeOK
      <3> QED
        BY <1>1, <1>5, <2>2, <3>1, <3>2, ServedBefore
    <2> QED
      BY <1>3, <2>1, <2>2
         DEF SerialInv, ServedSoundly, CashNeverNegative, NoUnmatchedSale
  <1> QED
    BY <1>4, <1>5

LEMMA InitSerial == Init => SerialInv
  BY TradingAssumption
     DEF Init, SerialInv, CashNeverNegative, NoUnmatchedSale, ServedSoundly, Alone,
         Serving, Idle, Call

LEMMA SerialIsNext == [SerialNext]_vars => [Next]_vars
  BY DEF SerialNext

LEMMA SerialInvariant == SerialSpec => []SerialInv
  BY InitTyped, NextTyped, InitReconciled, NextReconciled, InitSerial, NextSerial,
     SerialIsNext, PTL DEF SerialSpec

(* Where executions do not overlap, the cash the risk manager found is     *)
(* there at the commit (risk_manager.py, validate_buy).                    *)
THEOREM SerialCashCovers == SerialSpec => []CashNeverNegative
  <1>1. SerialInv => CashNeverNegative
    BY DEF SerialInv
  <1> QED
    BY SerialInvariant, <1>1, PTL

(* Where executions do not overlap, every share sold has its BUY           *)
(* (risk_manager.py, validate_sell; engine.py, _link_sell_to_open_buys).   *)
THEOREM SerialSalesMatch == SerialSpec => []NoUnmatchedSale
  <1>1. SerialInv => NoUnmatchedSale
    BY DEF SerialInv
  <1> QED
    BY SerialInvariant, <1>1, PTL

=============================================================================
