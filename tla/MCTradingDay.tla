---------------------------- MODULE MCTradingDay ----------------------------
(* Instances of TradingDay for TLC. *)
EXTENDS TradingDay

At(m, i, e) == [j \in Jobs |-> CASE j = "morning"  -> m
                                  [] j = "intraday" -> i
                                  [] j = "eod"      -> e]

\* a day of the SIP and a re-evaluation, one of two re-evaluations of which the
\* latter coincides with the square-off
MCDays == {[due |-> At({1}, {2}, {}), held |-> 0],
           [due |-> At({}, {1, 2}, {2}), held |-> 1]}

\* every slot pushes inline, and there is the job
MCPushers == Slots \cup {PushJob}

=============================================================================
