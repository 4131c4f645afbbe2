------------------------ MODULE WorkflowRunnerProofs ------------------------
(* Theorems of WorkflowRunner, for every workflow, every set of submitted  *)
(* runs and keys, every budget and every bound.                            *)
EXTENDS WorkflowRunner, TLAPS

(* The fields of the records that the steps update one by one.             *)
ContextFields == {"pc", "stage", "cost", "calls", "outputs", "over", "from",
                  "live", "goal", "ext"}
RowFields == {"status", "ext", "tokens", "cost", "born"}

Shaped ==
    /\ rows = [r \in Runs |-> rows[r]]
    /\ \A r \in Runs : rows[r] = [f \in RowFields |-> rows[r][f]]
    /\ ctx = [r \in Runs |-> ctx[r]]
    /\ \A r \in Runs : ctx[r] = [f \in ContextFields |-> ctx[r][f]]
    /\ \A x \in agentRuns : x.run \in Runs /\ "run" \in DOMAIN x

(* Where a run is once its row is written.                                 *)
Underway == {"gate", "stage", "persist", "finish", "except"}

(* The row is there before anything is done in the run's name: its calls,  *)
(* its agent_runs, its final status.                                       *)
RowFirst ==
    /\ \A x \in agentRuns : Begun(x.run)
    /\ \A r \in Runs :
          /\ ctx[r].pc \in Underway \/ DOMAIN ctx[r].calls # {} => Begun(r)
          /\ ctx[r].pc \in {"finish", "except"} => ctx[r].goal # "none"

(* idempotency_key is unique in workflow_runs.                             *)
KeyUnique ==
    \A q, r \in Runs : Begun(q) /\ Begun(r) /\ Key[q] = Key[r] => q = r

KeyInv == Shaped /\ RowFirst /\ KeyUnique

-----------------------------------------------------------------------------
(* The context after each kind of update.                                  *)

LEMMA ContextShape ==
    ASSUME NEW over, NEW from
    PROVE  /\ Context(over, from) = [f \in ContextFields |-> Context(over, from)[f]]
           /\ Context(over, from).pc = "redis"
           /\ DOMAIN Context(over, from).calls = {}
  <1>1. DOMAIN Context(over, from) = ContextFields
    BY DEF Context, ContextFields
  <1>2. Context(over, from) = [f \in DOMAIN Context(over, from) |-> Context(over, from)[f]]
    BY DEF Context
  <1>3. Context(over, from).pc = "redis"
    BY DEF Context
  <1>4. Context(over, from).calls = <<>>
    BY DEF Context
  <1> QED
    BY <1>1, <1>2, <1>3, <1>4

LEMMA EndedShape ==
    /\ Ended = [f \in ContextFields |-> Ended[f]]
    /\ Ended.pc = "off"
    /\ DOMAIN Ended.calls = {}
  BY ContextShape DEF Ended, Context, ContextFields

LEMMA KeyInit == Init => KeyInv
  <1> SUFFICES ASSUME Init PROVE KeyInv
    OBVIOUS
  <1>1. \A r \in Runs : rows[r] = NoRow /\ ~Begun(r)
    BY DEF Init, NoRow, Begun
  <1>2. Shaped
    BY <1>1 DEF Init, Shaped, NoRow, RowFields, Context, ContextFields
  <1>3. RowFirst
    BY <1>1 DEF Init, RowFirst, Context, Underway
  <1>4. KeyUnique
    BY <1>1 DEF KeyUnique
  <1> QED
    BY <1>2, <1>3, <1>4 DEF KeyInv

LEMMA FieldNames ==
    {"pc", "stage", "cost", "calls", "outputs", "over", "from", "live", "goal", "ext"}
      \subseteq ContextFields
  BY DEF ContextFields

(* The context of a call served or sent, in which three fields change, and *)
(* of a run that ends, in which six do.                                    *)
Whole(c) == c = [f \in ContextFields |-> c[f]]

Served(c, i, pc, res, live) ==
    [c EXCEPT !.calls[i].pc = pc, !.calls[i].res = res, !.live = live]

ServedCall(s, i, pc, res) == [s EXCEPT ![i] = [s[i] EXCEPT !.pc = pc, !.res = res]]

ServedIn(e, r, i, pc, res, live) ==
    [e EXCEPT ![r].calls[i].pc = pc, ![r].calls[i].res = res, ![r].live = live]

Finished(c, cost, outputs) ==
    [c EXCEPT !.pc = "finish", !.goal = "succeeded", !.ext = "none",
              !.calls = <<>>, !.cost = cost, !.outputs = outputs]

LEMMA ServedContext ==
    ASSUME NEW e, e = [q \in Runs |-> e[q]], NEW r \in Runs,
           NEW i, NEW pc, NEW res, NEW live, NEW d, d = ServedIn(e, r, i, pc, res, live)
    PROVE  /\ d = [q \in Runs |-> d[q]]
           /\ \A q \in Runs : q # r => d[q] = e[q]
           /\ d[r] = Served(e[r], i, pc, res, live)
  <1>1. d = [q \in Runs |-> d[q]]
    <2> DEFINE e1 == [e EXCEPT ![r].calls[i].pc = pc]
               e2 == [e1 EXCEPT ![r].calls[i].res = res]
               e3 == [e2 EXCEPT ![r].live = live]
    <2>1. d = e3
      BY DEF ServedIn
    <2>2. e1 = [q \in Runs |-> e1[q]]
      OBVIOUS
    <2> HIDE DEF e1
    <2>3. e2 = [q \in Runs |-> e2[q]]
      BY <2>2
    <2> HIDE DEF e2
    <2>4. e3 = [q \in Runs |-> e3[q]]
      BY <2>3
    <2> HIDE DEF e3
    <2> QED
      BY <2>1, <2>4
  <1>2. \A q \in Runs : q # r => d[q] = e[q]
    BY DEF ServedIn
  <1>3. d[r] = Served(e[r], i, pc, res, live)
    BY DEF Served, ServedIn
  <1> QED
    BY <1>1, <1>2, <1>3

LEMMA ServedFields ==
    ASSUME NEW c, Whole(c), NEW i, NEW pc, NEW res, NEW live, NEW d,
           d = Served(c, i, pc, res, live)
    PROVE  /\ Whole(d)
           /\ d.pc = c.pc /\ d.goal = c.goal
           /\ d.calls = ServedCall(c.calls, i, pc, res)
  <1>0. c = [f \in ContextFields |-> c[f]]
    BY DEF Whole
  <1>1. Whole(d)
    <2>1. d = [f \in ContextFields |-> d[f]]
      BY <1>0 DEF Served
    <2> QED
      BY <2>1 DEF Whole
  <1>2. d.pc = c.pc /\ d.goal = c.goal
    BY <1>0, FieldNames DEF Served
  <1>3. d.calls = ServedCall(c.calls, i, pc, res)
    BY <1>0, FieldNames DEF Served, ServedCall
  <1> QED
    BY <1>1, <1>2, <1>3

LEMMA FinishedFields ==
    ASSUME NEW c, Whole(c), NEW cost, NEW outputs, NEW d, d = Finished(c, cost, outputs)
    PROVE  Whole(d)
  <1>1. c = [f \in ContextFields |-> c[f]]
    BY DEF Whole
  <1>2. d = [f \in ContextFields |-> d[f]]
    BY <1>1 DEF Finished
  <1> QED
    BY <1>2 DEF Whole

-----------------------------------------------------------------------------
(* One run's context changes to c; no row loses its status.                *)

ContextStep(r) ==
    /\ ctx' = [q \in Runs |-> ctx'[q]]
    /\ \A q \in Runs : q # r => ctx'[q] = ctx[q]
    /\ ctx'[r] = [f \in ContextFields |-> ctx'[r][f]]
    /\ ctx'[r].pc \in Underway \/ DOMAIN ctx'[r].calls # {} => Begun(r)'
    /\ ctx'[r].pc \in {"finish", "except"} => ctx'[r].goal # "none"

RowsKept ==
    /\ rows' = [r \in Runs |-> rows'[r]]
    /\ \A r \in Runs : rows'[r] = [f \in RowFields |-> rows'[r][f]]
    /\ \A r \in Runs : Begun(r) => Begun(r)'

AgentRunsBacked ==
    \A x \in agentRuns' : x.run \in Runs /\ "run" \in DOMAIN x /\ Begun(x.run)'

LEMMA StepKeeps ==
    ASSUME Shaped, RowFirst, NEW r \in Runs, ContextStep(r), RowsKept, AgentRunsBacked
    PROVE  Shaped' /\ RowFirst'
  <1>1. ctx' = [q \in Runs |-> ctx'[q]]
    BY DEF Shaped, ContextStep
  <1>2. \A q \in Runs : q # r => ctx'[q] = ctx[q]
    BY DEF Shaped, ContextStep
  <1>3. \A q \in Runs : ctx'[q] = [f \in ContextFields |-> ctx'[q][f]]
    BY <1>2 DEF Shaped, ContextStep
  <1>4. Shaped'
    BY <1>1, <1>3 DEF Shaped, RowsKept, AgentRunsBacked
  <1>5. RowFirst'
    BY <1>2 DEF RowFirst, ContextStep, RowsKept, AgentRunsBacked
  <1> QED
    BY <1>4, <1>5

LEMMA RowsStay ==
    ASSUME Shaped, RowFirst, UNCHANGED rows
    PROVE  /\ RowsKept
           /\ \A r \in Runs : Begun(r)' <=> Begun(r)
           /\ UNCHANGED agentRuns => AgentRunsBacked
  BY DEF Shaped, RowFirst, RowsKept, Begun, AgentRunsBacked

(* The calls of a stage are those of a run that has its row.               *)
LEMMA CallsBegun ==
    ASSUME Shaped, RowFirst, NEW r \in Runs, CallStep(r)
    PROVE  /\ Begun(r)
           /\ ctx' = [q \in Runs |-> ctx'[q]]
           /\ \A q \in Runs : q # r => ctx'[q] = ctx[q]
           /\ ctx'[r] = [f \in ContextFields |-> ctx'[r][f]]
           /\ ctx'[r].pc = ctx[r].pc
           /\ ctx'[r].goal = ctx[r].goal
           /\ UNCHANGED rows
  <1>1. PICK i \in DOMAIN Calls(r) :
           \/ _run_explorer_pod(r, i)
           \/ run_subagents_parallel(r, i)
           \/ _invoke_agent(r, i)
           \/ _execute_with_retries(r, i)
           \/ _persist_agent_run_completed(r, i)
    BY DEF CallStep
  <1>2. Begun(r)
    BY <1>1 DEF RowFirst, Calls
  <1> DEFINE Kept == /\ ctx' = [q \in Runs |-> ctx'[q]]
                     /\ \A q \in Runs : q # r => ctx'[q] = ctx[q]
                     /\ ctx'[r] = [f \in ContextFields |-> ctx'[r][f]]
                     /\ ctx'[r].pc = ctx[r].pc
                     /\ ctx'[r].goal = ctx[r].goal
  <1>3. ASSUME NEW c, SetCall(r, i, c) PROVE Kept
    BY <1>3, FieldNames DEF SetCall, Shaped
  <1>4. CASE _run_explorer_pod(r, i)
    BY <1>2, <1>3, <1>4 DEF _run_explorer_pod, tables
  <1>5. CASE run_subagents_parallel(r, i)
    BY <1>2, <1>5, FieldNames DEF run_subagents_parallel, tables, Shaped
  <1>6. CASE _invoke_agent(r, i)
    <2>1. UNCHANGED rows
      BY <1>6 DEF _invoke_agent
    <2>2. Kept
      <3>1. PICK pc, res, live : ctx' = ServedIn(ctx, r, i, pc, res, live)
        BY <1>6 DEF _invoke_agent, ServedIn
      <3>2. /\ ctx = [q \in Runs |-> ctx[q]]
            /\ Whole(ctx[r])
        BY DEF Shaped, Whole
      <3>3. /\ ctx' = [q \in Runs |-> ctx'[q]]
            /\ \A q \in Runs : q # r => ctx'[q] = ctx[q]
            /\ ctx'[r] = Served(ctx[r], i, pc, res, live)
        BY <3>1, <3>2, ServedContext
      <3>4. Whole(ctx'[r]) /\ ctx'[r].pc = ctx[r].pc /\ ctx'[r].goal = ctx[r].goal
        BY <3>2, <3>3, ServedFields
      <3> QED
        BY <3>3, <3>4 DEF Whole
    <2> QED
      BY <1>2, <2>1, <2>2
  <1>7. CASE _execute_with_retries(r, i)
    BY <1>2, <1>3, <1>7 DEF _execute_with_retries, Answered, Rejected
  <1>8. CASE _persist_agent_run_completed(r, i)
    BY <1>2, <1>3, <1>8 DEF _persist_agent_run_completed
  <1> QED
    BY <1>1, <1>4, <1>5, <1>6, <1>7, <1>8

(* A new row of agent_runs is of the run that makes the call; a completed  *)
(* one stays with its run.                                                 *)
LEMMA CallsBacked ==
    ASSUME Shaped, RowFirst, NEW r \in Runs, CallStep(r)
    PROVE  AgentRunsBacked
  <1>1. Begun(r) /\ UNCHANGED rows
    BY CallsBegun
  <1>2. \A q \in Runs : Begun(q) => Begun(q)'
    BY <1>1 DEF Begun
  <1>3. UNCHANGED agentRuns => AgentRunsBacked
    BY <1>1, RowsStay
  <1>4. PICK i \in DOMAIN Calls(r) :
           \/ _run_explorer_pod(r, i)
           \/ run_subagents_parallel(r, i)
           \/ _invoke_agent(r, i)
           \/ _execute_with_retries(r, i)
           \/ _persist_agent_run_completed(r, i)
    BY DEF CallStep
  <1>5. CASE _run_explorer_pod(r, i) \/ run_subagents_parallel(r, i)
    BY <1>3, <1>5 DEF _run_explorer_pod, run_subagents_parallel, tables
  <1>6. CASE _invoke_agent(r, i)
    <2> DEFINE New == [run |-> r, stage |-> ctx[r].stage, index |-> i,
                       agent |-> Calls(r)[i].agent, status |-> "running",
                       tokens |-> 0, cost |-> 0]
    <2>1. agentRuns' = agentRuns \/ agentRuns' = agentRuns \cup {New}
      BY <1>6 DEF _invoke_agent, _persist_agent_run_started
    <2>2. New.run = r /\ "run" \in DOMAIN New
      OBVIOUS
    <2> HIDE DEF New
    <2> QED
      BY <1>1, <1>2, <1>3, <2>1, <2>2 DEF Shaped, RowFirst, AgentRunsBacked
  <1>7. CASE _execute_with_retries(r, i)
    BY <1>3, <1>7 DEF _execute_with_retries
  <1>8. CASE _persist_agent_run_completed(r, i)
    <2> DEFINE Closed(x) == Completed(x, Calls(r)[i].res)
    <2>1. \/ agentRuns' = agentRuns
          \/ agentRuns' = (agentRuns \ Mine(r, i)) \cup {Closed(x) : x \in Mine(r, i)}
      BY <1>8 DEF _persist_agent_run_completed
    <2>2. \A x \in agentRuns : "run" \in DOMAIN Closed(x) /\ Closed(x).run = x.run
      BY DEF Shaped, Completed
    <2>3. Mine(r, i) \subseteq agentRuns
      BY DEF Mine
    <2> HIDE DEF Closed
    <2>4. \A y \in agentRuns' : \E x \in agentRuns :
             y.run = x.run /\ ("run" \in DOMAIN x => "run" \in DOMAIN y)
      BY <2>1, <2>2, <2>3
    <2> QED
      BY <1>2, <2>4 DEF Shaped, RowFirst, AgentRunsBacked
  <1> QED
    BY <1>4, <1>5, <1>6, <1>7, <1>8

LEMMA CallKeeps ==
    ASSUME KeyInv, NEW r \in Runs, CallStep(r)
    PROVE  KeyInv'
  <1> USE DEF KeyInv
  <1>1. ContextStep(r) /\ RowsKept /\ AgentRunsBacked
    BY CallsBegun, CallsBacked, RowsStay DEF Underway, ContextStep, RowFirst
  <1>2. KeyUnique'
    BY CallsBegun, RowsStay DEF KeyUnique
  <1> QED
    BY <1>1, <1>2, StepKeeps

-----------------------------------------------------------------------------
(* The steps of a run that leave workflow_runs and agent_runs alone.       *)

LEMMA QuietKeeps ==
    ASSUME KeyInv, NEW r \in Runs, ContextStep(r), UNCHANGED <<rows, agentRuns>>
    PROVE  KeyInv'
  <1> USE DEF KeyInv
  <1>1. RowsKept /\ AgentRunsBacked
    BY RowsStay
  <1>2. KeyUnique'
    BY RowsStay DEF KeyUnique
  <1> QED
    BY <1>1, <1>2, StepKeeps

LEMMA EndSteps ==
    ASSUME Shaped, NEW r \in Runs, End(r)
    PROVE  ContextStep(r)
  BY EndedShape DEF End, ContextStep, Underway, Shaped

LEMMA AbortSteps ==
    ASSUME Shaped, NEW r \in Runs, NEW status, NEW cost,
           Abort(r, status, cost), status # "none", Begun(r)'
    PROVE  ContextStep(r)
  <1>1. ctx' = [q \in Runs |-> ctx'[q]]
    BY DEF Abort, Shaped
  <1>2. \A q \in Runs : q # r => ctx'[q] = ctx[q]
    BY DEF Abort, Shaped
  <1>3. ctx'[r] = [ctx[r] EXCEPT !.pc = "except", !.goal = status,
                              !.ext = "none", !.cost = cost, !.calls = <<>>]
    BY DEF Abort, Shaped
  <1>4. ctx'[r] = [f \in ContextFields |-> ctx'[r][f]]
    BY <1>3, FieldNames DEF Shaped
  <1>5. ctx'[r].pc = "except" /\ ctx'[r].goal = status /\ ctx'[r].calls = <<>>
    BY <1>3, FieldNames DEF Shaped
  <1> QED
    BY <1>1, <1>2, <1>4, <1>5 DEF Underway, ContextStep

LEMMA CheckRowsKeeps ==
    ASSUME KeyInv, NEW r \in Runs, CheckRows(r)
    PROVE  KeyInv'
  <1>1. ASSUME NEW over, NEW from, ctx' = [ctx EXCEPT ![r] = Context(over, from)]
        PROVE  ContextStep(r)
    <2>1. /\ ctx'[r] = Context(over, from)
          /\ ctx' = [q \in Runs |-> ctx'[q]]
          /\ \A q \in Runs : q # r => ctx'[q] = ctx[q]
      BY <1>1 DEF KeyInv, Shaped
    <2> QED
      BY <2>1, ContextShape DEF Underway, ContextStep
  <1>2. ContextStep(r)
    BY <1>1, EndSteps DEF CheckRows, KeyInv
  <1> QED
    BY <1>2, QuietKeeps DEF CheckRows, tables

LEMMA RedisKeeps ==
    ASSUME KeyInv, NEW r \in Runs, _idempotency_taken(r)
    PROVE  KeyInv'
  <1>1. CASE Goto(r, "insert")
    <2>1. DOMAIN ctx[r].calls # {} => Begun(r)
      BY DEF KeyInv, RowFirst, Underway
    <2>2. UNCHANGED rows => (Begun(r)' <=> Begun(r))
      BY DEF Begun
    <2>3. ContextStep(r)
      <3>1. ctx' = [q \in Runs |-> ctx'[q]]
        BY <1>1 DEF Goto, KeyInv, Shaped
      <3>2. \A q \in Runs : q # r => ctx'[q] = ctx[q]
        BY <1>1 DEF Goto, KeyInv, Shaped
      <3>3. ctx'[r] = [ctx[r] EXCEPT !.pc = "insert"]
        BY <1>1 DEF Goto, KeyInv, Shaped
      <3>4. ctx'[r] = [f \in ContextFields |-> ctx'[r][f]]
        BY <3>3, FieldNames DEF KeyInv, Shaped
      <3>5. ctx'[r].pc = "insert" /\ ctx'[r].calls = ctx[r].calls
        BY <3>3, FieldNames DEF KeyInv, Shaped
      <3> QED
        BY <3>1, <3>2, <3>4, <3>5, <2>1, <2>2 DEF Underway, ContextStep, _idempotency_taken, tables
    <2> QED
      BY <2>3, QuietKeeps DEF _idempotency_taken, tables
  <1>2. CASE End(r)
    BY <1>2, EndSteps, QuietKeeps DEF _idempotency_taken, tables, KeyInv
  <1> QED
    BY <1>1, <1>2 DEF _idempotency_taken

LEMMA EnterKeeps ==
    ASSUME KeyInv, NEW r \in Runs, EnterStage(r)
    PROVE  KeyInv'
  <1>1. Begun(r) /\ UNCHANGED <<rows, agentRuns>> /\ (Begun(r)' <=> Begun(r))
    BY DEF EnterStage, tables, KeyInv, RowFirst, Begun, Underway
  <1>2. CASE \E calls : ctx' = [ctx EXCEPT ![r].pc = "stage", ![r].calls = calls]
    <2>1. ContextStep(r)
      <3>1. PICK calls : ctx' = [ctx EXCEPT ![r].pc = "stage", ![r].calls = calls]
        BY <1>2
      <3>2. ctx' = [q \in Runs |-> ctx'[q]]
        BY <3>1 DEF KeyInv, Shaped
      <3>3. \A q \in Runs : q # r => ctx'[q] = ctx[q]
        BY <3>1 DEF KeyInv, Shaped
      <3>4. ctx'[r] = [ctx[r] EXCEPT !.pc = "stage", !.calls = calls]
        BY <3>1 DEF KeyInv, Shaped
      <3>5. ctx'[r] = [f \in ContextFields |-> ctx'[r][f]]
        BY <3>4, FieldNames DEF KeyInv, Shaped
      <3>6. ctx'[r].pc = "stage"
        BY <3>4, FieldNames DEF KeyInv, Shaped
      <3> QED
        BY <3>2, <3>3, <3>5, <3>6, <1>1 DEF Underway, ContextStep
    <2> QED
      BY <1>1, <2>1, QuietKeeps
  <1>3. CASE \E status \in {"cancelled", "failed"} : Abort(r, status, ctx[r].cost)
    BY <1>1, <1>3, AbortSteps, QuietKeeps DEF KeyInv
  <1> QED
    BY <1>2, <1>3 DEF EnterStage

LEMMA StageKeeps ==
    ASSUME KeyInv, NEW r \in Runs, _run_stage(r)
    PROVE  KeyInv'
  <1>1. UNCHANGED <<rows, agentRuns>> /\ Begun(r)'
    BY DEF _run_stage, tables, KeyInv, RowFirst, Underway, Begun
  <1>2. CASE \E cost : Abort(r, "failed", cost)
    BY <1>1, <1>2, AbortSteps, QuietKeeps DEF KeyInv
  <1>3. CASE \E cost, outputs :
               ctx' = [ctx EXCEPT ![r].pc = "finish", ![r].goal = "succeeded",
                                  ![r].ext = "none", ![r].calls = <<>>,
                                  ![r].cost = cost, ![r].outputs = outputs]
    <2>1. ContextStep(r)
      <3> PICK cost, outputs :
               ctx' = [ctx EXCEPT ![r].pc = "finish", ![r].goal = "succeeded",
                                  ![r].ext = "none", ![r].calls = <<>>,
                                  ![r].cost = cost, ![r].outputs = outputs]
        BY <1>3
      <3>1. ctx' = [q \in Runs |-> ctx'[q]]
        BY DEF KeyInv, Shaped
      <3>2. \A q \in Runs : q # r => ctx'[q] = ctx[q]
        BY DEF KeyInv, Shaped
      <3>3. ctx'[r] = [ctx[r] EXCEPT !.pc = "finish", !.goal = "succeeded",
                                  !.ext = "none", !.calls = <<>>,
                                  !.cost = cost, !.outputs = outputs]
        BY DEF KeyInv, Shaped
      <3>4. ctx'[r] = [f \in ContextFields |-> ctx'[r][f]]
        <4>1. Whole(ctx[r])
          BY DEF KeyInv, Shaped, Whole
        <4>2. ctx'[r] = Finished(ctx[r], cost, outputs)
          BY <3>3 DEF Finished
        <4>3. Whole(ctx'[r])
          BY <4>1, <4>2, FinishedFields
        <4> QED
          BY <4>3 DEF Whole
      <3>5. ctx'[r].pc = "finish" /\ ctx'[r].goal = "succeeded" /\ ctx'[r].calls = <<>>
        BY <3>3, FieldNames DEF KeyInv, Shaped
      <3>6. DOMAIN ctx'[r].calls = {}
        BY <3>5
      <3> QED
        BY <3>1, <3>2, <3>4, <3>5, <3>6, <1>1 DEF Underway, ContextStep
    <2> QED
      BY <1>1, <2>1, QuietKeeps
  <1>4. CASE \E pc \in {"persist", "gate"} : \E stage, cost, outputs :
               ctx' = [ctx EXCEPT ![r].pc = pc, ![r].stage = stage,
                                  ![r].calls = <<>>, ![r].cost = cost,
                                  ![r].outputs = outputs]
    <2>1. ContextStep(r)
      <3>0. PICK pc \in {"persist", "gate"} : \E stage, cost, outputs :
               ctx' = [ctx EXCEPT ![r].pc = pc, ![r].stage = stage,
                                  ![r].calls = <<>>, ![r].cost = cost,
                                  ![r].outputs = outputs]
        BY <1>4
      <3> PICK stage, cost, outputs :
               ctx' = [ctx EXCEPT ![r].pc = pc, ![r].stage = stage,
                                  ![r].calls = <<>>, ![r].cost = cost,
                                  ![r].outputs = outputs]
        BY <3>0
      <3>1. ctx' = [q \in Runs |-> ctx'[q]]
        BY DEF KeyInv, Shaped
      <3>2. \A q \in Runs : q # r => ctx'[q] = ctx[q]
        BY DEF KeyInv, Shaped
      <3>3. ctx'[r] = [ctx[r] EXCEPT !.pc = pc, !.stage = stage, !.calls = <<>>,
                                  !.cost = cost, !.outputs = outputs]
        BY DEF KeyInv, Shaped
      <3>4. ctx'[r] = [f \in ContextFields |-> ctx'[r][f]]
        BY <3>3, FieldNames DEF KeyInv, Shaped
      <3>5. ctx'[r].pc \in {"persist", "gate"} /\ ctx'[r].calls = <<>>
        BY <3>3, FieldNames DEF KeyInv, Shaped
      <3> QED
        BY <3>1, <3>2, <3>4, <3>5, <1>1 DEF Underway, ContextStep
    <2> QED
      BY <1>1, <2>1, QuietKeeps
  <1> QED
    <2> DEFINE top == TopLevel(r)
               stops == {i \in top : Breaks(r, i)}
               last == ctx[r].stage = Len(Stages)
    <2>1. \/ Abort(r, "failed", ctx[r].cost)
          \/ Abort(r, "failed", Added(r, Min(stops)))
          \/ ctx' = [ctx EXCEPT ![r].pc = "finish", ![r].goal = "succeeded",
                                ![r].ext = "none", ![r].calls = <<>>,
                                ![r].cost = Added(r, Cardinality(top)),
                                ![r].outputs = _stage_outputs(r)]
          \/ ctx' = [ctx EXCEPT ![r].pc = IF last THEN "persist" ELSE "gate",
                                ![r].stage = IF last THEN @ ELSE @ + 1,
                                ![r].calls = <<>>,
                                ![r].cost = Added(r, Cardinality(top)),
                                ![r].outputs = _stage_outputs(r)]
      BY Zenon DEF _run_stage
    <2>2. CASE ctx' = [ctx EXCEPT ![r].pc = IF last THEN "persist" ELSE "gate",
                                ![r].stage = IF last THEN @ ELSE @ + 1,
                                ![r].calls = <<>>,
                                ![r].cost = Added(r, Cardinality(top)),
                                ![r].outputs = _stage_outputs(r)]
      <3>1. (IF last THEN "persist" ELSE "gate") \in {"persist", "gate"}
        OBVIOUS
      <3> QED
        BY <1>4, <2>2, <3>1, Zenon
    <2> QED
      BY <1>2, <1>3, <2>1, <2>2, Zenon

LEMMA PersistKeeps ==
    ASSUME KeyInv, NEW r \in Runs, _persist_predictions(r)
    PROVE  KeyInv'
  <1>1. UNCHANGED <<rows, agentRuns>> /\ Begun(r)'
    BY DEF _persist_predictions, KeyInv, RowFirst, Underway, Begun
  <1>2. ASSUME NEW ext, Settle(r, ext) PROVE ContextStep(r)
    <2>1. ctx' = [q \in Runs |-> ctx'[q]]
      BY <1>2 DEF Settle, KeyInv, Shaped
    <2>2. \A q \in Runs : q # r => ctx'[q] = ctx[q]
      BY <1>2 DEF Settle, KeyInv, Shaped
    <2>3. ctx'[r] = [ctx[r] EXCEPT !.pc = "finish", !.goal = "succeeded",
                                !.ext = ext, !.calls = <<>>]
      BY <1>2 DEF Settle, KeyInv, Shaped
    <2>4. ctx'[r] = [f \in ContextFields |-> ctx'[r][f]]
      BY <2>3, FieldNames DEF KeyInv, Shaped
    <2>5. ctx'[r].pc = "finish" /\ ctx'[r].goal = "succeeded" /\ ctx'[r].calls = <<>>
      BY <2>3, FieldNames DEF KeyInv, Shaped
    <2> QED
      BY <2>1, <2>2, <2>4, <2>5, <1>1 DEF Underway, ContextStep
  <1>3. ContextStep(r)
    BY <1>1, <1>2, AbortSteps DEF _persist_predictions, KeyInv
  <1> QED
    BY <1>1, <1>3, QuietKeeps

LEMMA CrashKeeps ==
    ASSUME KeyInv, NEW r \in Runs, Crash(r)
    PROVE  KeyInv'
  BY EndSteps, QuietKeeps DEF Crash, tables, KeyInv

-----------------------------------------------------------------------------
(* The steps that write workflow_runs.                                     *)

LEMMA InsertKeeps ==
    ASSUME KeyInv, NEW r \in Runs, _create_workflow_run_row(r)
    PROVE  KeyInv'
  <1>1. CASE End(r) /\ UNCHANGED rows
    BY <1>1, EndSteps, QuietKeeps DEF _create_workflow_run_row, KeyInv
  <1>2. CASE /\ ~Taken(r)
             /\ \E born : rows' = [rows EXCEPT ![r] =
                             [NoRow EXCEPT !.status = "running", !.born = born]]
             /\ Goto(r, "gate")
    <2>1. /\ rows' = [q \in Runs |-> rows'[q]]
          /\ \A q \in Runs : q # r => rows'[q] = rows[q]
      BY <1>2 DEF KeyInv, Shaped
    <2>2. PICK born : rows'[r] = [NoRow EXCEPT !.status = "running", !.born = born]
      BY <1>2 DEF KeyInv, Shaped
    <2>3. /\ rows'[r] = [f \in RowFields |-> rows'[r][f]]
          /\ rows'[r].status = "running"
      BY <2>2 DEF NoRow, RowFields
    <2>4. /\ Begun(r)'
          /\ \A q \in Runs : q # r => (Begun(q)' <=> Begun(q))
      BY <2>1, <2>3 DEF Begun
    <2>5. RowsKept
      BY <2>1, <2>3, <2>4 DEF RowsKept, KeyInv, Shaped
    <2>6. ContextStep(r)
      BY <1>2, <2>4, FieldNames DEF Goto, ContextStep, Underway, KeyInv, Shaped
    <2>7. AgentRunsBacked
      BY <2>5 DEF _create_workflow_run_row, AgentRunsBacked, RowsKept, KeyInv,
                  Shaped, RowFirst
    <2>8. KeyUnique'
      BY <1>2, <2>4 DEF Taken, KeyUnique, KeyInv
    <2> QED
      BY <2>5, <2>6, <2>7, <2>8, StepKeeps DEF KeyInv
  <1> QED
    BY <1>1, <1>2 DEF _create_workflow_run_row

(* The status changes only where it is not "none" before and after.        *)
LEMMA SameBegun ==
    ASSUME KeyInv, \A r \in Runs : Begun(r)' <=> Begun(r)
    PROVE  KeyUnique'
  BY DEF KeyInv, KeyUnique

LEMMA FinalizeKeeps ==
    ASSUME KeyInv, NEW r \in Runs, _finalize_workflow_run(r)
    PROVE  KeyInv'
  <1>1. Begun(r)
    BY DEF _finalize_workflow_run, KeyInv, RowFirst, Underway
  <1>2. CASE UNCHANGED rows
    <2>1. Begun(r)'
      BY <1>1, <1>2 DEF Begun
    <2>2. ContextStep(r)
      BY <2>1, EndSteps, AbortSteps DEF _finalize_workflow_run, KeyInv
    <2> QED
      BY <1>2, <2>2, QuietKeeps DEF _finalize_workflow_run
  <1>3. CASE /\ rows' = [rows EXCEPT ![r].status = ctx[r].goal,
                                     ![r].ext = ctx[r].ext,
                                     ![r].tokens = ctx[r].cost,
                                     ![r].cost = Rounded(ctx[r].cost)]
             /\ End(r)
    <2>1. rows' = [q \in Runs |-> rows'[q]]
      BY <1>3 DEF KeyInv, Shaped
    <2>2. \A q \in Runs : q # r => rows'[q] = rows[q]
      BY <1>3 DEF KeyInv, Shaped
    <2>3. rows'[r] = [rows[r] EXCEPT !.status = ctx[r].goal, !.ext = ctx[r].ext,
                                     !.tokens = ctx[r].cost, !.cost = Rounded(ctx[r].cost)]
      BY <1>3 DEF KeyInv, Shaped
    <2>4. rows'[r] = [f \in RowFields |-> rows'[r][f]]
      BY <2>3 DEF KeyInv, Shaped
    <2>5. rows'[r].status = ctx[r].goal
      BY <2>3 DEF KeyInv, Shaped, RowFields
    <2>6. \A q \in Runs : Begun(q)' <=> Begun(q)
      BY <1>1, <2>2, <2>5 DEF _finalize_workflow_run, KeyInv, RowFirst, Begun
    <2>7. RowsKept
      BY <2>1, <2>2, <2>4, <2>6 DEF RowsKept, KeyInv, Shaped
    <2>8. AgentRunsBacked
      BY <2>6 DEF _finalize_workflow_run, AgentRunsBacked, KeyInv, Shaped, RowFirst
    <2>9. ContextStep(r)
      BY <1>3, EndSteps DEF KeyInv
    <2> QED
      BY <2>6, <2>7, <2>8, <2>9, StepKeeps, SameBegun DEF KeyInv
  <1> QED
    BY <1>2, <1>3 DEF _finalize_workflow_run

LEMMA SweepKeeps ==
    ASSUME KeyInv, reconcile_orphan_runs
    PROVE  KeyInv'
  <1>1. PICK n : rows' = [r \in Runs |->
                     IF rows[r].status = "running" /\ rows[r].born <= n
                       THEN [rows[r] EXCEPT !.status = "failed", !.ext = "orphaned"]
                       ELSE rows[r]]
    BY DEF reconcile_orphan_runs
  <1>2. UNCHANGED <<agentRuns, ctx>>
    BY DEF reconcile_orphan_runs
  <1>3. \A r \in Runs : rows'[r] = [f \in RowFields |-> rows'[r][f]]
    BY <1>1 DEF KeyInv, Shaped
  <1>4. \A r \in Runs : Begun(r)' <=> Begun(r)
    BY <1>1, ZenonT(30) DEF KeyInv, Shaped, Begun, RowFields
  <1>5. Shaped'
    BY <1>1, <1>2, <1>3 DEF KeyInv, Shaped
  <1>6. RowFirst'
    BY <1>2, <1>4 DEF KeyInv, Shaped, RowFirst
  <1> QED
    BY <1>4, <1>5, <1>6, SameBegun DEF KeyInv

-----------------------------------------------------------------------------

LEMMA KeyStep == KeyInv /\ [Next]_vars => KeyInv'
  <1> SUFFICES ASSUME KeyInv, [Next]_vars PROVE KeyInv'
    OBVIOUS
  <1>1. ASSUME NEW r \in Runs, Step(r) PROVE KeyInv'
    BY <1>1, RedisKeeps, InsertKeeps, EnterKeeps, CallKeeps, StageKeeps,
       PersistKeeps, FinalizeKeeps DEF Step
  <1>2. CASE Next
    BY <1>1, <1>2, CheckRowsKeeps, CrashKeeps, SweepKeeps DEF Next
  <1>3. CASE UNCHANGED vars
    BY <1>3 DEF vars, tables, KeyInv, Shaped, RowFirst, KeyUnique, Begun
  <1> QED
    BY <1>2, <1>3

(* Of the submissions that share an idempotency key at most one ever calls *)
(* the model, whatever crashes, lost keys, sweeps and replays there are.   *)
THEOREM OneRunPerKey == Spec => []KeyRunsOnce
  <1>1. KeyInv => KeyRunsOnce
    BY DEF KeyInv, Shaped, RowFirst, KeyUnique, KeyRunsOnce
  <1> QED
    BY <1>1, KeyInit, KeyStep, PTL DEF Spec

=============================================================================
