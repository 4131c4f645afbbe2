--------------------------- MODULE WorkflowRunner ---------------------------
(***************************************************************************)
(* The agent runtime: WorkflowRunner.run executes the stages of a          *)
(* WorkflowSpec, each a list of agents called one after another or with    *)
(* asyncio.gather; every call retries the model and keeps a row of         *)
(* agent_runs; the costs of the results are added up against a ceiling;    *)
(* the judge's verdict becomes rows of agent_predictions.  A replay serves *)
(* the calls of an earlier run from llm_audit_log.                         *)
(*                                                                         *)
(* Every call of run is a process of its own.  A token costs one unit, and *)
(* tokens and costs, added up and compared at the same places, are one     *)
(* number until they are written: the columns of tokens are integers, the  *)
(* columns cost_usd keep six decimals, of Unit units each.  An output is   *)
(* the length of the list the later steps read from it.  Of llm_audit_log  *)
(* only the oldest row of an agent and run is ever read, and kept.         *)
(***************************************************************************)
EXTENDS Integers, Sequences, FiniteSetsExt, Functions, SequencesExt

CONSTANTS
    Runs,          \* calls of WorkflowRunner.run
    Key,           \* idempotency_key of each
    Original,      \* original_workflow_run_id of a replay
    NoRun,
    After,         \* the calls submitted before each
    Agents,        \* personas
    NoAgent,
    Stages,        \* WorkflowSpec.stages
    Triage, Judge, \* the agents behind "triage" and "judge_verdict"
    Pod,           \* _explorer_pod
    PodAgents,     \* its sub-agents
    Aggregator,    \* explorer_aggregator
    MaxTransient,  \* max_retries_transient per agent
    MaxValidation, \* max_retries_validation per agent
    Degrades,      \* agents with a fallback_model and on_failure "degrade"
    Validated,     \* agents with an output_validator
    Says,          \* outputs each agent may give
    Usage,         \* tokens an answer may use, data-tool turns included
    Projected,     \* project_agent_cost of each
    Guess,         \* iterations the projection assumes (5)
    Ceiling,       \* cost_ceiling_usd and token_ceiling
    Unit,          \* the last decimal of the columns cost_usd
    Overrides,     \* persona_version_overrides a replay may be given
    FromAgents,    \* from_agent a replay may be given
    MaxOverlap,    \* bound: keys runs are under way with at one time
    MaxFaults      \* bound: crashes and failed reads and writes

StageAgents == [agent : Agents, source : Agents \cup {NoAgent},
                policy : {"skip_one", "abort_stage", "abort_workflow"}]

ASSUME WorkflowAssumption ==
    /\ IsFiniteSet(Runs) /\ NoRun \notin Runs /\ NoAgent \notin Agents
    /\ Key = [r \in Runs |-> Key[r]]
    /\ Original \in [Runs -> Runs \cup {NoRun}] /\ After \in [Runs -> SUBSET Runs]
    /\ {Triage, Judge, Pod, Aggregator} \cup Range(PodAgents) \subseteq Agents
    \* a pod has no row and no retries of its own
    /\ Pod \notin Degrades \cup Validated \cup Range(PodAgents) \cup {Aggregator, Judge}
    /\ PodAgents \in Seq(Agents) /\ Says \in [Agents -> SUBSET Int]
    /\ Stages \in Seq([kind : {"sequential", "parallel"}, agents : Seq(StageAgents)])
    /\ Stages # <<>>
    /\ MaxTransient \in [Agents -> Nat] /\ MaxValidation \in [Agents -> Nat]
    /\ Usage \in [Agents -> SUBSET Nat] /\ Projected \in [Agents -> Nat]
    /\ Unit \in Nat \ {0} /\ Guess \in Nat /\ Ceiling \in Nat /\ MaxOverlap \in Nat /\ MaxFaults \in Nat

VARIABLES
    rows,        \* workflow_runs
    agentRuns,   \* agent_runs
    audit,       \* llm_audit_log: oldest response per run and agent
    predictions, \* agent_predictions of each run
    held,        \* idempotency keys set in Redis
    ctx,         \* WorkflowContext of each call of run
    faults       \* crashes and failed reads and writes so far

tables == <<rows, agentRuns, audit, predictions>>
vars   == <<tables, held, ctx, faults>>

-----------------------------------------------------------------------------
Nothing   == -2 \* no output
SkipToday == -1 \* a triage that says skip_today

NoRow == [status |-> "none", ext |-> "none", tokens |-> 0, cost |-> 0, born |-> 0]
Unheard == [out |-> Nothing, valid |-> FALSE]

Result(status, cost, out) == [status |-> status, cost |-> cost, out |-> out]
NoResult == Result("none", 0, Nothing)

_make_failed_result == Result("failed", 0, Nothing)

\* one _AgentInvocation: its agent, the slot of its stage, the pod it is part
\* of, where it is, and the counters of its retry loop
_AgentInvocation(agent, slot, pod) ==
    [agent |-> agent, slot |-> slot, pod |-> pod, pc |-> "new",
     transient |-> 0, validation |-> 0, fallback |-> FALSE, tries |-> 0,
     res |-> NoResult]

Context(over, from) ==
    [pc |-> "redis", stage |-> 1, cost |-> 0, calls |-> <<>>,
     outputs |-> [a \in Agents |-> Nothing],
     over |-> over, from |-> from, live |-> FALSE,
     goal |-> "none", ext |-> "none"]

Ended == [Context({}, NoAgent) EXCEPT !.pc = "off"]

Init ==
    /\ rows = [r \in Runs |-> NoRow]
    /\ agentRuns = {}
    /\ audit = [r \in Runs |-> [a \in Agents |-> Unheard]]
    /\ predictions = [r \in Runs |-> 0]
    /\ held = {}
    /\ ctx = [r \in Runs |-> [Context({}, NoAgent) EXCEPT !.pc = "new"]]
    /\ faults = 0

Fault == faults < MaxFaults /\ faults' = faults + 1

Goto(r, label) == ctx' = [ctx EXCEPT ![r].pc = label]
End(r) == ctx' = [ctx EXCEPT ![r] = Ended]

\* the status the except branches of run write
Abort(r, status, cost) ==
    ctx' = [ctx EXCEPT ![r].pc = "except", ![r].goal = status,
                       ![r].ext = "none", ![r].cost = cost, ![r].calls = <<>>]

\* finalising inside the try
Settle(r, ext) ==
    ctx' = [ctx EXCEPT ![r].pc = "finish", ![r].goal = "succeeded",
                       ![r].ext = ext, ![r].calls = <<>>]

Begun(r) == rows[r].status # "none"
Replays(r) == Original[r] # NoRun

-----------------------------------------------------------------------------
(* Before the try: the idempotency guard and the insert of the row.        *)

Taken(r) == \E q \in Runs : Begun(q) /\ Key[q] = Key[r]

UnderWay(r) == ctx[r].pc \notin {"new", "off"}
KeysInUse == {Key[q] : q \in {p \in Runs : UnderWay(p)}}

\* what a call asks to run with its own model calls in a replay
Asked(r) == IF Replays(r) THEN Overrides \X FromAgents ELSE {<<{}, NoAgent>>}

\* the SELECT of the guard; a replay has read its original before
CheckRows(r) ==
    /\ ctx[r].pc = "new"
    /\ Cardinality(KeysInUse \cup {Key[r]}) <= MaxOverlap
    /\ \A q \in After[r] : ctx[q].pc # "new"
    /\ Replays(r) => Begun(Original[r])
    /\ \/ Taken(r) /\ End(r) /\ UNCHANGED faults
       \/ /\ \/ ~Taken(r) /\ UNCHANGED faults
             \/ Fault
          /\ \E p \in Asked(r) :
                ctx' = [ctx EXCEPT ![r] = Context(p[1], p[2])]
    /\ UNCHANGED <<tables, held>>

\* SET NX EX 300: a key set before holds the run off unless it has expired;
\* without Redis the key counts as free
_idempotency_taken(r) ==
    /\ ctx[r].pc = "redis"
    /\ \/ /\ Key[r] \in held
          /\ End(r)
          /\ UNCHANGED <<held, faults>>
       \/ /\ held' = held \cup {Key[r]}
          /\ Goto(r, "insert")
          /\ UNCHANGED faults
       \/ /\ Fault
          /\ Goto(r, "insert")
          /\ UNCHANGED held
    /\ UNCHANGED tables

\* defect: idempotency_key without its unique constraint
_create_workflow_run_row_any(r) ==
    /\ ctx[r].pc = "insert"
    /\ rows' = [rows EXCEPT ![r] =
                 [NoRow EXCEPT !.status = "running",
                               !.born = 1 + Quantify(Runs, Begun)]]
    /\ Goto(r, "gate")
    /\ UNCHANGED <<agentRuns, audit, predictions, held, faults>>

\* idempotency_key is unique; a failed insert leaves run with its exception
_create_workflow_run_row(r) ==
    /\ ctx[r].pc = "insert"
    /\ \/ /\ Taken(r)
          /\ End(r)
          /\ UNCHANGED <<rows, faults>>
       \/ /\ ~Taken(r)
          /\ rows' = [rows EXCEPT ![r] =
                       [NoRow EXCEPT !.status = "running",
                                     !.born = 1 + Quantify(Runs, Begun)]]
          /\ Goto(r, "gate")
          /\ UNCHANGED faults
       \/ /\ Fault
          /\ End(r)
          /\ UNCHANGED rows
    /\ UNCHANGED <<agentRuns, audit, predictions, held>>

-----------------------------------------------------------------------------
(* Between two stages.                                                     *)

Slots(r) == Stages[ctx[r].stage].agents
Slot(r, c) == Slots(r)[c.slot]
Parallel(r) == Stages[ctx[r].stage].kind = "parallel"

\* the pseudo-agent is in no manifest and counts nothing
_project_stage_cost(r) ==
    SumFunction([k \in DOMAIN Slots(r) |->
        IF Slots(r)[k].agent = Pod THEN 0
        ELSE Projected[Slots(r)[k].agent]
               * (IF Slots(r)[k].source # NoAgent THEN Guess ELSE 1)])

OverBudget(r) == ctx[r].cost + _project_stage_cost(r) >= Ceiling

_resolve_iteration(r, slot) ==
    IF slot.source = NoAgent THEN 1
    ELSE Max({0, ctx[r].outputs[slot.source]})

Invocations(r) ==
    FlattenSeq([k \in DOMAIN Slots(r) |->
        [j \in 1 .. _resolve_iteration(r, Slots(r)[k]) |->
            _AgentInvocation(Slots(r)[k].agent, k, 0)]])

\* the calls a pod will make, behind those of the stage
PodInvocations(top) ==
    FlattenSeq([i \in DOMAIN top |->
        IF top[i].agent = Pod
          THEN [j \in DOMAIN PodAgents |->
                   _AgentInvocation(PodAgents[j], top[i].slot, i)]
          ELSE <<>>])

\* laabh:kill_switch, which the operator sets and clears at any time; an
\* unreadable switch counts as off
_check_kill_switch == BOOLEAN

EnterStage(r) ==
    /\ ctx[r].pc = "gate"
    /\ \E killed \in _check_kill_switch :
          \/ killed /\ Abort(r, "cancelled", ctx[r].cost)
          \/ ~killed /\ OverBudget(r) /\ Abort(r, "failed", ctx[r].cost)
          \/ /\ ~killed /\ ~OverBudget(r)
             /\ ctx' = [ctx EXCEPT ![r].pc = "stage",
                                   ![r].calls = Invocations(r)
                                      \o PodInvocations(Invocations(r))]
    /\ UNCHANGED <<tables, held, faults>>

-----------------------------------------------------------------------------
(* One call of an agent.                                                   *)

Calls(r) == ctx[r].calls
TopLevel(r) == {i \in DOMAIN Calls(r) : Calls(r)[i].pod = 0}
Members(r, p) == {i \in DOMAIN Calls(r) : Calls(r)[i].pod = p}
Over(c) == c.pc \in {"done", "raised"}
Done(r) == {i \in DOMAIN Calls(r) : Calls(r)[i].pc = "done"}
Cost(r, S) == SumFunction([i \in S \cap Done(r) |-> Calls(r)[i].res.cost])

SetCall(r, i, c) == ctx' = [ctx EXCEPT ![r].calls[i] = c]

\* defect: the sub-agents of a pod queue behind every call of the stage
MayBegin_queued(r, i) ==
    LET c == Calls(r)[i]
    IN  \/ c.pc = "aggregate"
        \/ /\ c.pc = "new"
           /\ c.pod # 0 => Calls(r)[c.pod].pc = "pod"
           /\ \A j \in 1 .. i - 1 :
                 IF Parallel(r) /\ c.pod = 0
                   THEN Calls(r)[j].pc # "new"
                   ELSE Calls(r)[j].pc = "done"

\* gather starts its coroutines in order; a sequential stage awaits each
MayBegin(r, i) ==
    LET c == Calls(r)[i]
    IN  \/ c.pc = "aggregate"
        \/ /\ c.pc = "new"
           /\ c.pod # 0 => Calls(r)[c.pod].pc = "pod"
           /\ \A j \in 1 .. i - 1 :
                 IF Parallel(r) \/ c.pod # 0
                   THEN Calls(r)[j].pc # "new"
                   ELSE Calls(r)[j].pc = "done"

_run_explorer_pod(r, i) ==
    /\ Calls(r)[i].agent = Pod
    /\ MayBegin(r, i)
    /\ SetCall(r, i, [Calls(r)[i] EXCEPT !.pc = "pod"])
    /\ UNCHANGED <<tables, held, faults>>

\* the sub-agents' costs are added here, with no look at the ceiling, and a
\* failed one is skipped
run_subagents_parallel(r, p) ==
    /\ Calls(r)[p].pc = "pod"
    /\ \A i \in Members(r, p) : Over(Calls(r)[i])
    /\ ctx' = [ctx EXCEPT ![r].cost = @ + Cost(r, Members(r, p)),
                          ![r].calls[p] =
                             [_AgentInvocation(Aggregator, Calls(r)[p].slot, 0)
                                EXCEPT !.pc = "aggregate"]]
    /\ UNCHANGED <<tables, held, faults>>

\* _is_overridden: from_agent switches to live calls for good
_is_overridden(r, a) ==
    a \in ctx[r].over \/ ctx[r].live \/ ctx[r].from = a

Cached(r, a) == Replays(r) /\ ~_is_overridden(r, a)
                  /\ audit[Original[r]][a] # Unheard

\* the oldest response of the agent in that run, whatever item it was for
_fetch_from_audit_log(r, a) ==
    IF Cached(r, a) THEN audit[Original[r]][a].out ELSE Nothing

_persist_agent_run_started(r, i, a) ==
    agentRuns' = agentRuns \cup
        {[run |-> r, stage |-> ctx[r].stage, index |-> i, agent |-> a,
          status |-> "running", tokens |-> 0, cost |-> 0]}

_invoke_agent(r, i) ==
    LET a == Calls(r)[i].agent
        Go(pc, res) ==
            ctx' = [ctx EXCEPT
                      ![r].calls[i].pc = pc, ![r].calls[i].res = res,
                      ![r].live = @ \/ ( /\ Replays(r)
                                         /\ a \notin ctx[r].over
                                         /\ a = ctx[r].from )]
        Start == /\ _persist_agent_run_started(r, i, a)
                 /\ \/ Go("api", NoResult)
                    \/ Go("record", _make_failed_result) \* input too large
    IN  /\ a # Pod
        /\ MayBegin(r, i)
        /\ \/ /\ Cached(r, a)
              /\ Go("done", Result("succeeded", 0, _fetch_from_audit_log(r, a)))
              /\ UNCHANGED <<agentRuns, faults>>
           \/ ~Cached(r, a) /\ Start /\ UNCHANGED faults
           \/ Cached(r, a) /\ Fault /\ Start \* the log cannot be read
           \/ Fault /\ Go("raised", NoResult) /\ UNCHANGED agentRuns
        /\ UNCHANGED <<rows, audit, predictions, held>>

\* the row is written before the validator runs; a failed write is passed over
_write_llm_audit_log(r, a, out, valid) ==
    \/ /\ audit' = IF audit[r][a] = Unheard
                     THEN [audit EXCEPT ![r][a] = [out |-> out, valid |-> valid]]
                     ELSE audit
       /\ UNCHANGED faults
    \/ Fault /\ UNCHANGED audit

Answered(r, i) ==
    LET c == Calls(r)[i]
    IN  \E out \in Says[c.agent], used \in Usage[c.agent] :
          /\ _write_llm_audit_log(r, c.agent, out, TRUE)
          /\ SetCall(r, i, [c EXCEPT !.pc = "record", !.tries = @ + 1,
                                     !.res = Result("succeeded", used, out)])

\* defect: the validation budget is compared after it is spent
Repaired_late(c) ==
    IF c.validation <= MaxValidation[c.agent]
      THEN [c EXCEPT !.validation = @ + 1, !.tries = @ + 1]
      ELSE [c EXCEPT !.validation = @ + 1, !.tries = @ + 1,
                     !.pc = "record", !.res = _make_failed_result]

Repaired(c) ==
    IF c.validation < MaxValidation[c.agent]
      THEN [c EXCEPT !.validation = @ + 1, !.tries = @ + 1]
      ELSE [c EXCEPT !.validation = @ + 1, !.tries = @ + 1,
                     !.pc = "record", !.res = _make_failed_result]

\* the validator rejects the output, or the output tool was not called (then
\* nothing is logged); the response is paid for and not counted
Rejected(r, i) ==
    LET c == Calls(r)[i]
    IN  /\ \/ /\ c.agent \in Validated
              /\ \E out \in Says[c.agent] :
                    _write_llm_audit_log(r, c.agent, out, FALSE)
           \/ UNCHANGED <<audit, faults>>
        /\ SetCall(r, i, Repaired(c))

\* defect: the fallback is taken whenever the retries are used up
Retried_again(c) ==
    IF c.transient < MaxTransient[c.agent]
      THEN [c EXCEPT !.transient = @ + 1, !.tries = @ + 1]
    ELSE IF c.agent \in Degrades
      THEN [c EXCEPT !.transient = 0, !.fallback = TRUE, !.tries = @ + 1]
    ELSE [c EXCEPT !.transient = @ + 1, !.tries = @ + 1,
                   !.pc = "record", !.res = _make_failed_result]

Retried(c) ==
    IF c.transient < MaxTransient[c.agent]
      THEN [c EXCEPT !.transient = @ + 1, !.tries = @ + 1]
    ELSE IF c.agent \in Degrades /\ ~c.fallback
      THEN [c EXCEPT !.transient = 0, !.fallback = TRUE, !.tries = @ + 1]
    ELSE [c EXCEPT !.transient = @ + 1, !.tries = @ + 1,
                   !.pc = "record", !.res = _make_failed_result]

\* one turn of the retry loop
_execute_with_retries(r, i) ==
    /\ Calls(r)[i].pc = "api"
    /\ \/ Answered(r, i)
       \/ Rejected(r, i)
       \/ SetCall(r, i, Retried(Calls(r)[i])) /\ UNCHANGED <<audit, faults>>
    /\ UNCHANGED <<rows, agentRuns, predictions, held>>

\* the counters are local to the retry loop
Returned(c, pc, res) ==
    [_AgentInvocation(c.agent, c.slot, c.pod) EXCEPT !.pc = pc, !.res = res]

Mine(r, i) == {x \in agentRuns : /\ x.run = r /\ x.stage = ctx[r].stage
                                 /\ x.index = i /\ x.status = "running"}

\* the numeric column rounds what is written to it
Rounded(cost) ==
    LET part == cost % Unit
    IN  IF 2 * part < Unit THEN cost - part ELSE cost - part + Unit

Completed(x, res) ==
    [x EXCEPT !.status = res.status, !.tokens = res.cost, !.cost = Rounded(res.cost)]

\* defect: a failed write is passed over and the result returned
_persist_agent_run_completed_lenient(r, i) ==
    LET c == Calls(r)[i]
    IN  /\ c.pc = "record"
        /\ SetCall(r, i, Returned(c, "done", c.res))
        /\ \/ /\ agentRuns' = (agentRuns \ Mine(r, i)) \cup
                     {Completed(x, c.res) : x \in Mine(r, i)}
              /\ UNCHANGED faults
           \/ Fault /\ UNCHANGED agentRuns
        /\ UNCHANGED <<rows, audit, predictions, held>>

_persist_agent_run_completed(r, i) ==
    LET c == Calls(r)[i]
    IN  /\ c.pc = "record"
        /\ \/ /\ agentRuns' = (agentRuns \ Mine(r, i)) \cup
                     {Completed(x, c.res) : x \in Mine(r, i)}
              /\ SetCall(r, i, Returned(c, "done", c.res))
              /\ UNCHANGED faults
           \/ /\ Fault
              /\ SetCall(r, i, Returned(c, "raised", NoResult))
              /\ UNCHANGED agentRuns
        /\ UNCHANGED <<rows, audit, predictions, held>>

-----------------------------------------------------------------------------
(* The end of _run_stage: no await, so one step.                           *)

Policy(r, i) == Slot(r, Calls(r)[i]).policy

\* what has been added up when result i is looked at
Added(r, i) == ctx[r].cost + Cost(r, 1 .. i)

\* defect: the sum is compared only before the next stage
Breaks_late(r, i) == Calls(r)[i].pc = "raised" /\ Policy(r, i) # "skip_one"

\* a raised call under an abort policy, or the ceiling reached: what follows
\* in the list is not added
Breaks(r, i) ==
    \/ Calls(r)[i].pc = "raised" /\ Policy(r, i) # "skip_one"
    \/ Calls(r)[i].pc = "done" /\ Added(r, i) >= Ceiling

\* a failed result is stored like any other: as None, or as a None in a list
_stage_outputs(r) ==
    [a \in Agents |->
        LET slots == {k \in DOMAIN Slots(r) : Slots(r)[k].agent = a}
            mine  == {i \in TopLevel(r) \cap Done(r) : Calls(r)[i].slot \in slots}
        IN  IF mine = {} THEN ctx[r].outputs[a]
            ELSE IF \E k \in slots : Slots(r)[k].source # NoAgent
              THEN Cardinality(mine)
              ELSE Calls(r)[Max(mine)].res.out]

_should_short_circuit(r) ==
    /\ \E k \in DOMAIN Slots(r) : Slots(r)[k].agent = Triage
    /\ _stage_outputs(r)[Triage] = SkipToday

\* defect: the stage is left with the first result that breaks it
StageOver_eager(r) ==
    \/ \E i \in TopLevel(r) : Breaks(r, i)
    \/ \A i \in TopLevel(r) : Over(Calls(r)[i])

\* gather returns when all its calls have
StageOver(r) == \A i \in TopLevel(r) : Over(Calls(r)[i])

\* a sequential stage ends with the first call that raises, and what the
\* calls before it cost is not added
_run_stage(r) ==
    LET top   == TopLevel(r)
        stops == {i \in top : Breaks(r, i)}
    IN  /\ ctx[r].pc = "stage"
        /\ IF ~Parallel(r) /\ \E i \in top : Calls(r)[i].pc = "raised"
             THEN Abort(r, "failed", ctx[r].cost)
             ELSE /\ StageOver(r)
                  /\ IF stops # {}
                       THEN Abort(r, "failed", Added(r, Min(stops)))
                     ELSE IF _should_short_circuit(r)
                       THEN ctx' = [ctx EXCEPT
                              ![r].pc = "finish", ![r].goal = "succeeded",
                              ![r].ext = "none", ![r].calls = <<>>,
                              ![r].cost = Added(r, Cardinality(top)),
                              ![r].outputs = _stage_outputs(r)]
                     ELSE LET last == ctx[r].stage = Len(Stages)
                          IN  ctx' = [ctx EXCEPT
                                ![r].pc = IF last THEN "persist" ELSE "gate",
                                ![r].stage = IF last THEN @ ELSE @ + 1,
                                ![r].calls = <<>>,
                                ![r].cost = Added(r, Cardinality(top)),
                                ![r].outputs = _stage_outputs(r)]
        /\ UNCHANGED <<tables, held, faults>>

-----------------------------------------------------------------------------
(* After the last stage.                                                   *)

\* the final validators only mark the predictions and the row
_persist_predictions(r) ==
    /\ ctx[r].pc = "persist"
    /\ \/ /\ predictions' = [predictions EXCEPT
                               ![r] = Max({0, ctx[r].outputs[Judge]})]
          /\ \E ext \in {"succeeded", "succeeded_with_caveats"} : Settle(r, ext)
          /\ UNCHANGED faults
       \/ /\ Fault
          /\ Abort(r, "failed", ctx[r].cost)
          /\ UNCHANGED predictions
    /\ UNCHANGED <<rows, agentRuns, audit, held>>

\* the row is written whatever status it has; a failure inside the try is
\* followed by another attempt in the except branch, one there by none
_finalize_workflow_run(r) ==
    /\ ctx[r].pc \in {"finish", "except"}
    /\ \/ /\ rows' = [rows EXCEPT ![r].status = ctx[r].goal,
                                  ![r].ext = ctx[r].ext,
                                  ![r].tokens = ctx[r].cost,
                                  ![r].cost = Rounded(ctx[r].cost)]
          /\ End(r)
          /\ UNCHANGED faults
       \/ /\ Fault
          /\ IF ctx[r].pc = "finish" THEN Abort(r, "failed", ctx[r].cost)
                                     ELSE End(r)
          /\ UNCHANGED rows
    /\ UNCHANGED <<agentRuns, audit, predictions, held>>

-----------------------------------------------------------------------------
(* The operator, and the end of a process.                                 *)

\* rows that started more than an hour ago: the older ones with them
reconcile_orphan_runs ==
    /\ \E n \in {rows[r].born : r \in {q \in Runs : rows[q].status = "running"}} :
          rows' = [r \in Runs |->
                     IF rows[r].status = "running" /\ rows[r].born <= n
                       THEN [rows[r] EXCEPT !.status = "failed", !.ext = "orphaned"]
                       ELSE rows[r]]
    /\ UNCHANGED <<agentRuns, audit, predictions, held, ctx, faults>>

Crash(r) ==
    /\ UnderWay(r)
    /\ Fault
    /\ End(r)
    /\ UNCHANGED <<tables, held>>

CallStep(r) ==
    \E i \in DOMAIN Calls(r) :
        \/ _run_explorer_pod(r, i)
        \/ run_subagents_parallel(r, i)
        \/ _invoke_agent(r, i)
        \/ _execute_with_retries(r, i)
        \/ _persist_agent_run_completed(r, i)

Step(r) ==
    \/ _idempotency_taken(r)
    \/ _create_workflow_run_row(r)
    \/ EnterStage(r)
    \/ CallStep(r)
    \/ _run_stage(r)
    \/ _persist_predictions(r)
    \/ _finalize_workflow_run(r)

Next ==
    \/ \E r \in Runs : CheckRows(r) \/ Step(r) \/ Crash(r)
    \/ reconcile_orphan_runs

Spec == Init /\ [][Next]_vars

\* a call of run goes on: its awaits end, a request to the model by
\* timeout_seconds, a streamed one (ceo_judge) by the timeout of the SDK alone
FairSpec == Spec /\ \A r \in Runs : WF_vars(Step(r))

-----------------------------------------------------------------------------
(* What a run must keep to.                                                *)

RunsOf(r) == {x \in agentRuns : x.run = r}
Spent(r)  == SumFunction([x \in RunsOf(r) |-> x.tokens])
Billed(r) == SumFunction([x \in RunsOf(r) |-> x.cost])

\* of every number written at most half of the last decimal is lost
Written(r) == {x \in RunsOf(r) : x.status = "succeeded"}
Slack(r)   == Unit * (Cardinality(Written(r)) + 1)

\* Every variable has its type; a call's counters stay in their budgets.
TypeOK ==
    /\ rows \in [Runs -> [status : {"none", "running", "succeeded", "failed", "cancelled"},
                          ext : {"none", "succeeded", "succeeded_with_caveats", "orphaned"},
                          tokens : Nat, cost : Nat, born : Nat]]
    /\ \A x \in agentRuns :
          x \in [run : Runs, stage : DOMAIN Stages, index : Nat \ {0}, agent : Agents,
                 status : {"running", "succeeded", "failed"}, tokens : Nat, cost : Nat]
    /\ audit \in [Runs -> [Agents -> [out : Int, valid : BOOLEAN]]]
    /\ predictions \in [Runs -> Nat]
    /\ held \subseteq Range(Key)
    /\ faults \in 0 .. MaxFaults
    /\ \A r \in Runs : ctx[r].stage \in DOMAIN Stages /\ ctx[r].cost \in Nat
    /\ \A r \in Runs : \A i \in DOMAIN Calls(r) :
          /\ Calls(r)[i].transient <= MaxTransient[Calls(r)[i].agent] + 1
          /\ Calls(r)[i].validation <= MaxValidation[Calls(r)[i].agent] + 1

\* Of the calls of run that carry the same idempotency key at most one ever
\* reaches the model: guard, Redis key and unique column together, whichever
\* of the two checks fails (run, _idempotency_taken).
KeyRunsOnce ==
    \A x, y \in agentRuns : Key[x.run] = Key[y.run] => x.run = y.run

\* The tokens written to workflow_runs never exceed those of the run's
\* agent_runs and are equal to them when the run succeeded; so do the costs,
\* but for half of the last decimal for each number the columns round.  This
\* is so whichever writes failed and whichever pods were expanded (_run_stage,
\* run_subagents_parallel, migration 0009).
CostReconciles ==
    \A r \in Runs :
        /\ rows[r].tokens <= Spent(r)
        /\ 2 * (rows[r].cost - Billed(r)) <= Slack(r)
        /\ rows[r].status = "succeeded" =>
              /\ rows[r].tokens = Spent(r)
              /\ 2 * (Billed(r) - rows[r].cost) <= Slack(r)

\* A run that is reported as succeeded has stayed below its ceilings, though a
\* projection counts no pod and guesses the iterations; its column of the cost
\* is at most the rounded ceiling.
SucceededWithinCeiling ==
    \A r \in Runs : rows[r].status = "succeeded" =>
        rows[r].tokens < Ceiling /\ rows[r].cost <= Rounded(Ceiling)

\* Transient, validation and fallback budgets together bound the rounds of the
\* retry loop of one call, whose data-tool turns are not counted
\* (_execute_with_retries resets one counter and keeps the other).
AttemptsBounded ==
    \A r \in Runs : \A i \in DOMAIN Calls(r) :
        LET c == Calls(r)[i]
            rounds == IF c.agent \in Degrades THEN 2 ELSE 1
        IN  c.tries <= MaxValidation[c.agent] + rounds * (MaxTransient[c.agent] + 1)

\* Predictions exist only where a judge's verdict is on record: a completed
\* agent_run of this run, or for a replay a logged response of the original.
PredictionsBacked ==
    \A r \in Runs : predictions[r] > 0 =>
        \/ \E x \in agentRuns : x.run = r /\ x.agent = Judge /\ x.status = "succeeded"
        \/ Replays(r) /\ audit[Original[r]][Judge] # Unheard

\* A run the runner itself has brought to a final status has no call under way:
\* an agent_runs row still running is one whose completion could not be written.
NoAgentLeftRunning ==
    \A r \in Runs :
        (rows[r].status \in {"succeeded", "failed", "cancelled"} /\ rows[r].ext # "orphaned")
          => Cardinality({x \in agentRuns : x.run = r /\ x.status = "running"}) <= faults

\* Every call of run comes to its end, whatever budgets its retries use up and
\* however its parallel calls and pods are ordered.
RunsSettle == <>[](\A r \in Runs : ~UnderWay(r))

=============================================================================
