------------------------ MODULE WorkflowCallsProofs ------------------------
(* The calls of a stage: how they are laid out, what a step does to one of *)
(* them, and the theorems that follow for the retry budgets and the types  *)
(* of all the variables.                                                   *)
EXTENDS WorkflowRunnerProofs, SumTheorems

(* A sequence of sequences over S, joined, is a sequence over S.           *)
LEMMA FlattenType ==
    ASSUME NEW S, NEW s \in Seq(Seq(S))
    PROVE  FlattenSeq(s) \in Seq(S)
  <1> DEFINE n == Len(s)
             Body(g, i) == IF i = 1 THEN s[i] ELSE g[i - 1] \o s[i]
  <1>0. n \in Nat /\ \A i \in 1 .. n : s[i] \in Seq(S)
    OBVIOUS
  <1>1. CASE n = 0
    <2>1. s = <<>>
      BY <1>1
    <2> QED
      BY <1>1, <2>1 DEF FlattenSeq
  <1>2. CASE n # 0
    <2> DEFINE P == {m \in Nat : \E g : \A i \in 1 .. m : g[i] = Body(g, i)}
               c == CHOOSE g : g = [i \in 1 .. n |-> Body(g, i)]
    <2> HIDE DEF n
    <2>1. 0 \in P
      OBVIOUS
    <2>2. ASSUME NEW m \in Nat, m \in P PROVE m + 1 \in P
      <3>1. PICK g : \A i \in 1 .. m : g[i] = Body(g, i)
        BY <2>2
      <3> DEFINE h == [i \in 1 .. m + 1 |-> IF i = m + 1 THEN Body(g, i) ELSE g[i]]
      <3>2. ASSUME NEW i \in 1 .. m + 1 PROVE h[i] = Body(h, i)
        <4>1. i - 1 \in 1 .. m => h[i - 1] = g[i - 1]
          OBVIOUS
        <4>2. h[i] = Body(g, i)
          BY <3>1
        <4>3. i = 1 \/ i - 1 \in 1 .. m
          OBVIOUS
        <4> QED
          BY <4>1, <4>2, <4>3
      <3>3. \E e : \A i \in 1 .. m + 1 : e[i] = Body(e, i)
        <4> HIDE DEF h
        <4> QED
          BY <3>2
      <3>4. m + 1 \in Nat
        OBVIOUS
      <3> QED
        BY <3>3, <3>4, Zenon
    <2>3. n \in P
      <3> HIDE DEF P
      <3> QED
        BY <1>0, <2>1, <2>2, Induction
    <2>4. PICK g : \A i \in 1 .. n : g[i] = Body(g, i)
      BY <2>3
    <2> DEFINE h == [i \in 1 .. n |-> g[i]]
    <2>5. h = [i \in 1 .. n |-> Body(h, i)]
      <3>1. \A i \in 1 .. n : Body(h, i) = Body(g, i)
        <4> SUFFICES ASSUME NEW i \in 1 .. n PROVE Body(h, i) = Body(g, i)
          OBVIOUS
        <4>1. i = 1 \/ i - 1 \in 1 .. n
          BY <1>0
        <4> QED
          BY <4>1
      <3> QED
        BY <2>4, <3>1
    <2>6. \E e : e = [i \in 1 .. n |-> Body(e, i)]
      <3> HIDE DEF h
      <3> QED
        BY <2>5
    <2>7. c = [i \in 1 .. n |-> Body(c, i)]
      BY <2>6
    <2>8. FlattenSeq(s) = c[n]
      BY <1>2 DEF FlattenSeq, n
    <2> DEFINE Q == {m \in Nat : m \in 1 .. n => c[m] \in Seq(S)}
    <2> HIDE DEF c
    <2>9. 0 \in Q
      OBVIOUS
    <2>10. ASSUME NEW m \in Nat, m \in Q PROVE m + 1 \in Q
      <3> SUFFICES ASSUME m + 1 \in 1 .. n PROVE c[m + 1] \in Seq(S)
        OBVIOUS
      <3>1. c[m + 1] = Body(c, m + 1)
        BY <2>7
      <3>2. CASE m = 0
        BY <1>0, <3>1, <3>2
      <3>3. CASE m # 0
        <4>1. m \in 1 .. n /\ (m + 1) - 1 = m /\ m + 1 # 1
          BY <1>0, <3>3
        <4>2. c[m] \in Seq(S) /\ s[m + 1] \in Seq(S)
          BY <1>0, <2>10, <4>1
        <4>3. c[m + 1] = c[m] \o s[m + 1]
          BY <3>1, <4>1
        <4> QED
          BY <4>2, <4>3
      <3> QED
        BY <3>2, <3>3
    <2>11. \A m \in Nat : m \in Q
      <3> HIDE DEF Q
      <3> QED
        BY <2>9, <2>10, Induction
    <2> QED
      BY <1>0, <1>2, <2>8, <2>11
  <1> QED
    BY <1>1, <1>2

(* The first and the last of finitely many integers.                       *)
LEMMA Extremes ==
    ASSUME NEW S, IsFiniteSet(S), S # {}, S \subseteq Int
    PROVE  /\ Max(S) \in S /\ \A y \in S : Max(S) >= y
           /\ Min(S) \in S /\ \A y \in S : Min(S) <= y
  <1> DEFINE P == {T \in SUBSET S : T # {} =>
                     /\ \E x \in T : \A y \in T : x >= y
                     /\ \E x \in T : \A y \in T : x <= y}
  <1>1. {} \in P
    OBVIOUS
  <1>2. ASSUME NEW T \in SUBSET S, NEW x \in S \ T, T \in P PROVE T \cup {x} \in P
    <2>1. CASE T = {}
      BY <2>1
    <2>2. CASE T # {}
      <3>1. PICK a \in T : \A y \in T : a >= y
        BY <1>2, <2>2
      <3>2. PICK b \in T : \A y \in T : b <= y
        BY <1>2, <2>2
      <3>3. \E z \in T \cup {x} : \A y \in T \cup {x} : z >= y
        <4>1. CASE a >= x
          BY <3>1, <4>1
        <4>2. CASE ~(a >= x)
          <5>1. \A y \in T \cup {x} : x >= y
            BY <3>1, <4>2
          <5> QED
            BY <5>1
        <4> QED
          BY <4>1, <4>2
      <3>4. \E z \in T \cup {x} : \A y \in T \cup {x} : z <= y
        <4>1. CASE b <= x
          BY <3>2, <4>1
        <4>2. CASE ~(b <= x)
          <5>1. \A y \in T \cup {x} : x <= y
            BY <3>2, <4>2
          <5> QED
            BY <5>1
        <4> QED
          BY <4>1, <4>2
      <3> QED
        BY <3>3, <3>4
    <2> QED
      BY <2>1, <2>2
  <1>3. S \in P
    <2> HIDE DEF P
    <2> QED
      BY <1>1, <1>2, SubsetInduction
  <1>4. PICK a \in S : \A y \in S : a >= y
    BY <1>3
  <1>5. PICK b \in S : \A y \in S : b <= y
    BY <1>3
  <1> QED
    BY <1>4, <1>5 DEF Max, Min

(* A count that may be negative, from zero up.                             *)
LEMMA MaxZero ==
    ASSUME NEW o \in Int
    PROVE  /\ Max({0, o}) \in Nat
           /\ Max({0, o}) > 0 => o > 0
  <1>1. IsFiniteSet({0, o})
    <2>1. IsFiniteSet({0})
      BY FS_Singleton
    <2>2. IsFiniteSet({0} \cup {o})
      BY <2>1, FS_AddElement
    <2>3. {0} \cup {o} = {0, o}
      OBVIOUS
    <2> QED
      BY <2>2, <2>3
  <1>2. Max({0, o}) \in {0, o} /\ Max({0, o}) >= 0
    BY <1>1, Extremes
  <1> QED
    BY <1>2

-----------------------------------------------------------------------------
(* The types of the records.                                               *)

Places == {"new", "redis", "insert", "gate", "stage", "persist", "finish",
           "except", "off"}
CallPlaces == {"new", "pod", "aggregate", "api", "record", "done", "raised"}

Results == {res \in [status : {"none", "succeeded", "failed"}, cost : Nat, out : Int] :
               res.status = "succeeded" \/ res.cost = 0}

CallSet == [agent : Agents, slot : Nat, pod : Nat, pc : CallPlaces,
            transient : Nat, validation : Nat, fallback : BOOLEAN, tries : Nat,
            res : Results]

RowSet == [status : {"none", "running", "succeeded", "failed", "cancelled"},
           ext : {"none", "succeeded", "succeeded_with_caveats", "orphaned"},
           tokens : Nat, cost : Nat, born : Nat]

AgentRow == [run : Runs, stage : DOMAIN Stages, index : Nat \ {0}, agent : Agents,
             status : {"running", "succeeded", "failed"}, tokens : Nat, cost : Nat]

Heard == [out : Int, valid : BOOLEAN]

(* The fields of the context of run r that the steps read.                 *)
ContextTyped(r) ==
    /\ ctx[r].pc \in Places /\ ctx[r].stage \in DOMAIN Stages /\ ctx[r].cost \in Nat
    /\ ctx[r].calls \in Seq(CallSet)
    /\ ctx[r].outputs \in [Agents -> Int]
    /\ ctx[r].goal \in {"none", "succeeded", "failed", "cancelled"}
    /\ ctx[r].ext \in {"none", "succeeded", "succeeded_with_caveats"}

Typed ==
    /\ rows \in [Runs -> RowSet]
    /\ agentRuns \subseteq AgentRow /\ IsFiniteSet(agentRuns)
    /\ audit \in [Runs -> [Agents -> Heard]]
    /\ predictions \in [Runs -> Nat]
    /\ held \subseteq Range(Key)
    /\ faults \in 0 .. MaxFaults
    /\ \A r \in Runs : ContextTyped(r)

(* Calls that have not begun: one of a slot of the stage, and one of a     *)
(* sub-agent of the pod behind call i.                                     *)
FreshTop(r) == {_AgentInvocation(Slots(r)[k].agent, k, 0) : k \in DOMAIN Slots(r)}

FreshMember(top, i) ==
    {_AgentInvocation(PodAgents[j], top[i].slot, i) : j \in DOMAIN PodAgents}

FreshMembers(top) ==
    UNION {FreshMember(top, i) : i \in {k \in DOMAIN top : top[k].agent = Pod}}

LEMMA StageShape ==
    ASSUME NEW k \in DOMAIN Stages
    PROVE  /\ Stages[k].agents \in Seq(StageAgents)
           /\ Stages[k].kind \in {"sequential", "parallel"}
           /\ \A j \in DOMAIN Stages[k].agents :
                 /\ j \in Nat \ {0}
                 /\ Stages[k].agents[j] \in StageAgents
  <1> DEFINE StageSet == [kind : {"sequential", "parallel"}, agents : Seq(StageAgents)]
  <1>1. Stages \in Seq(StageSet)
    BY WorkflowAssumption
  <1>2. Stages[k] \in StageSet
    <2> HIDE DEF StageSet
    <2> QED
      BY <1>1
  <1> QED
    BY <1>2

LEMMA StageNumbers ==
    /\ DOMAIN Stages = 1 .. Len(Stages) /\ Len(Stages) \in Nat \ {0}
    /\ 1 \in DOMAIN Stages
  <1> DEFINE StageSet == [kind : {"sequential", "parallel"}, agents : Seq(StageAgents)]
  <1>1. Stages \in Seq(StageSet) /\ Stages # <<>>
    BY WorkflowAssumption
  <1> HIDE DEF StageSet
  <1> QED
    BY <1>1

LEMMA FreshCallTyped ==
    ASSUME NEW a \in Agents, NEW k \in Nat, NEW p \in Nat
    PROVE  _AgentInvocation(a, k, p) \in CallSet
  BY DEF _AgentInvocation, CallSet, CallPlaces, NoResult, Result, Results, Nothing

LEMMA FreshTyped ==
    ASSUME NEW r \in Runs, ctx[r].stage \in DOMAIN Stages
    PROVE  /\ FreshTop(r) \subseteq CallSet
           /\ \A top \in Seq(CallSet) : FreshMembers(top) \subseteq CallSet
  <1>1. FreshTop(r) \subseteq CallSet
    <2> SUFFICES ASSUME NEW k \in DOMAIN Slots(r)
                 PROVE  _AgentInvocation(Slots(r)[k].agent, k, 0) \in CallSet
      BY DEF FreshTop
    <2>1. k \in Nat /\ Slots(r)[k] \in StageAgents
      BY StageShape DEF Slots
    <2>2. Slots(r)[k].agent \in Agents
      BY <2>1 DEF StageAgents
    <2> QED
      BY <2>1, <2>2, FreshCallTyped
  <1>2. ASSUME NEW top \in Seq(CallSet), NEW i \in DOMAIN top, NEW j \in DOMAIN PodAgents
        PROVE  _AgentInvocation(PodAgents[j], top[i].slot, i) \in CallSet
    <2>1. PodAgents[j] \in Agents
      BY WorkflowAssumption
    <2>2. top[i] \in CallSet /\ i \in Nat
      OBVIOUS
    <2>3. top[i].slot \in Nat
      BY <2>2 DEF CallSet
    <2> QED
      BY <2>1, <2>2, <2>3, FreshCallTyped
  <1>3. ASSUME NEW top \in Seq(CallSet) PROVE FreshMembers(top) \subseteq CallSet
    BY <1>2 DEF FreshMembers, FreshMember
  <1> QED
    BY <1>1, <1>3

(* How the calls of a stage are laid out when it is entered.               *)
LEMMA InvocationsFresh ==
    ASSUME NEW r \in Runs, ctx[r].stage \in DOMAIN Stages, ctx[r].outputs \in [Agents -> Int]
    PROVE  Invocations(r) \in Seq(FreshTop(r))
  <1> DEFINE n == Len(Slots(r))
             Times(k) == _resolve_iteration(r, Slots(r)[k])
             Row(k) == [j \in 1 .. Times(k) |-> _AgentInvocation(Slots(r)[k].agent, k, 0)]
             Table == [k \in DOMAIN Slots(r) |-> Row(k)]
  <1>1. DOMAIN Slots(r) = 1 .. n /\ n \in Nat
    BY StageShape DEF Slots
  <1>2. \A k \in DOMAIN Slots(r) : Times(k) \in Nat
    <2> SUFFICES ASSUME NEW k \in DOMAIN Slots(r) PROVE Times(k) \in Nat
      OBVIOUS
    <2> DEFINE source == Slots(r)[k].source
    <2>1. Slots(r)[k] \in StageAgents
      BY StageShape DEF Slots
    <2>2. source = NoAgent \/ source \in Agents
      BY <2>1 DEF StageAgents
    <2>3. CASE source = NoAgent
      BY <2>3 DEF _resolve_iteration
    <2>4. CASE source \in Agents
      BY <2>4, MaxZero DEF _resolve_iteration
    <2> QED
      BY <2>2, <2>3, <2>4
  <1>3. \A k \in DOMAIN Slots(r) : Row(k) \in Seq(FreshTop(r))
    <2> SUFFICES ASSUME NEW k \in DOMAIN Slots(r) PROVE Row(k) \in Seq(FreshTop(r))
      OBVIOUS
    <2>1. _AgentInvocation(Slots(r)[k].agent, k, 0) \in FreshTop(r)
      BY DEF FreshTop
    <2>2. Times(k) \in Nat
      BY <1>2
    <2> HIDE DEF Times
    <2> QED
      BY <2>1, <2>2
  <1>4. Table \in Seq(Seq(FreshTop(r)))
    <2> HIDE DEF Row, n
    <2> QED
      BY <1>1, <1>3
  <1>5. Invocations(r) = FlattenSeq(Table)
    BY DEF Invocations
  <1> HIDE DEF Table
  <1> QED
    BY <1>4, <1>5, FlattenType

LEMMA PodInvocationsFresh ==
    ASSUME NEW top \in Seq(CallSet)
    PROVE  PodInvocations(top) \in Seq(FreshMembers(top))
  <1> DEFINE Row(i) == IF top[i].agent = Pod
                         THEN [j \in DOMAIN PodAgents |->
                                 _AgentInvocation(PodAgents[j], top[i].slot, i)]
                         ELSE <<>>
             Table == [i \in DOMAIN top |-> Row(i)]
             n == Len(top)
  <1>1. DOMAIN top = 1 .. n /\ n \in Nat
    OBVIOUS
  <1>2. \A i \in DOMAIN top : Row(i) \in Seq(FreshMembers(top))
    <2> SUFFICES ASSUME NEW i \in DOMAIN top PROVE Row(i) \in Seq(FreshMembers(top))
      OBVIOUS
    <2>1. CASE top[i].agent # Pod
      BY <2>1
    <2>2. CASE top[i].agent = Pod
      <3>1. \A j \in DOMAIN PodAgents :
               _AgentInvocation(PodAgents[j], top[i].slot, i) \in FreshMembers(top)
        BY <2>2 DEF FreshMembers, FreshMember
      <3>2. DOMAIN PodAgents = 1 .. Len(PodAgents) /\ Len(PodAgents) \in Nat
        BY WorkflowAssumption
      <3> QED
        BY <2>2, <3>1, <3>2
    <2> QED
      BY <2>1, <2>2
  <1>3. Table \in Seq(Seq(FreshMembers(top)))
    <2> HIDE DEF Row, n
    <2> QED
      BY <1>1, <1>2
  <1>4. PodInvocations(top) = FlattenSeq(Table)
    BY DEF PodInvocations
  <1> HIDE DEF Table
  <1> QED
    BY <1>3, <1>4, FlattenType

-----------------------------------------------------------------------------
(* What a step does to one call.                                           *)

(* Call i of run r becomes d; nothing else changes but what is added up,   *)
(* the switch to live calls, agent_runs and llm_audit_log.                 *)
CallBecomes(r, i, d) ==
    /\ i \in DOMAIN Calls(r)
    /\ \A q \in Runs : q # r => ctx'[q] = ctx[q]
    /\ ctx'[r].calls = [Calls(r) EXCEPT ![i] = d]
    /\ ctx'[r].pc = ctx[r].pc /\ ctx'[r].stage = ctx[r].stage
    /\ ctx'[r].outputs = ctx[r].outputs
    /\ ctx'[r].goal = ctx[r].goal /\ ctx'[r].ext = ctx[r].ext
    /\ UNCHANGED <<rows, predictions, held>>

SameCost(r) == ctx'[r].cost = ctx[r].cost

(* The sub-agents of a pod may begin.                                      *)
Opens(r, i, d) ==
    /\ Calls(r)[i].agent = Pod /\ MayBegin(r, i)
    /\ d = [Calls(r)[i] EXCEPT !.pc = "pod"]
    /\ SameCost(r) /\ UNCHANGED <<agentRuns, audit, faults>>

(* A pod adds up its sub-agents and used to the aggregator.               *)
Aggregates(r, i, d) ==
    /\ Calls(r)[i].pc = "pod"
    /\ \A j \in Members(r, i) : Over(Calls(r)[j])
    /\ d = [_AgentInvocation(Aggregator, Calls(r)[i].slot, 0) EXCEPT !.pc = "aggregate"]
    /\ ctx'[r].cost = ctx[r].cost + Cost(r, Members(r, i))
    /\ UNCHANGED <<agentRuns, audit, faults>>

(* A call begins: its row is written, or its input is too large for it.    *)
Starts(r, i, d) ==
    /\ Calls(r)[i].agent # Pod /\ MayBegin(r, i)
    /\ \/ d = [Calls(r)[i] EXCEPT !.pc = "api", !.res = NoResult]
       \/ d = [Calls(r)[i] EXCEPT !.pc = "record", !.res = _make_failed_result]
    /\ _persist_agent_run_started(r, i, Calls(r)[i].agent)
    /\ SameCost(r) /\ UNCHANGED audit /\ (UNCHANGED faults \/ Fault)

(* A replay serves the call from the log.                                  *)
Serves(r, i, d) ==
    /\ Calls(r)[i].agent # Pod /\ MayBegin(r, i)
    /\ Cached(r, Calls(r)[i].agent)
    /\ d = [Calls(r)[i] EXCEPT
              !.pc = "done",
              !.res = Result("succeeded", 0, audit[Original[r]][Calls(r)[i].agent].out)]
    /\ SameCost(r) /\ UNCHANGED <<agentRuns, audit, faults>>

(* The row cannot be written, or its completion cannot.                    *)
Raises(r, i, d) ==
    /\ \/ /\ Calls(r)[i].agent # Pod /\ MayBegin(r, i)
          /\ d = [Calls(r)[i] EXCEPT !.pc = "raised", !.res = NoResult]
       \/ /\ Calls(r)[i].pc = "record"
          /\ d = Returned(Calls(r)[i], "raised", NoResult)
    /\ SameCost(r) /\ UNCHANGED <<agentRuns, audit>> /\ Fault

(* A turn of the retry loop.                                               *)
AnsweredWith(c, used, out) ==
    [c EXCEPT !.pc = "record", !.tries = @ + 1,
              !.res = Result("succeeded", used, out)]

Answers(r, i, d) ==
    \E out \in Says[Calls(r)[i].agent], used \in Usage[Calls(r)[i].agent] :
       /\ _write_llm_audit_log(r, Calls(r)[i].agent, out, TRUE)
       /\ d = AnsweredWith(Calls(r)[i], used, out)

Retries(r, i, d) ==
    \/ /\ \E out \in Says[Calls(r)[i].agent] :
             _write_llm_audit_log(r, Calls(r)[i].agent, out, FALSE)
       /\ d = Repaired(Calls(r)[i])
    \/ /\ UNCHANGED <<audit, faults>>
       /\ d \in {Repaired(Calls(r)[i]), Retried(Calls(r)[i])}

Turn(r, i, d) ==
    /\ Calls(r)[i].pc = "api"
    /\ Answers(r, i, d) \/ Retries(r, i, d)
    /\ SameCost(r) /\ UNCHANGED agentRuns

(* The result is written to the call's row.                                *)
Completes(r, i, d) ==
    /\ Calls(r)[i].pc = "record"
    /\ d = Returned(Calls(r)[i], "done", Calls(r)[i].res)
    /\ agentRuns' = (agentRuns \ Mine(r, i)) \cup
                      {Completed(x, Calls(r)[i].res) : x \in Mine(r, i)}
    /\ SameCost(r) /\ UNCHANGED <<audit, faults>>

CallKind(r, i, d) ==
    \/ Opens(r, i, d)
    \/ Aggregates(r, i, d)
    \/ Starts(r, i, d)
    \/ Serves(r, i, d)
    \/ Raises(r, i, d)
    \/ Turn(r, i, d)
    \/ Completes(r, i, d)

LEMMA SetCallBecomes ==
    ASSUME Shaped, NEW r \in Runs, NEW i \in DOMAIN Calls(r), NEW d, SetCall(r, i, d),
           UNCHANGED <<rows, predictions, held>>
    PROVE  CallBecomes(r, i, d) /\ SameCost(r)
  <1>1. ctx'[r] = [ctx[r] EXCEPT !.calls = [Calls(r) EXCEPT ![i] = d]]
    BY FieldNames DEF SetCall, Shaped, Calls
  <1>2. \A q \in Runs : q # r => ctx'[q] = ctx[q]
    BY DEF SetCall, Shaped
  <1> HIDE DEF Calls
  <1>3. /\ ctx'[r].calls = [Calls(r) EXCEPT ![i] = d]
        /\ ctx'[r].pc = ctx[r].pc /\ ctx'[r].stage = ctx[r].stage
        /\ ctx'[r].outputs = ctx[r].outputs
        /\ ctx'[r].goal = ctx[r].goal /\ ctx'[r].ext = ctx[r].ext
        /\ ctx'[r].cost = ctx[r].cost
    BY <1>1, FieldNames DEF Shaped
  <1> QED
    BY <1>2, <1>3 DEF CallBecomes, SameCost

(* Every step of a call is one of the seven.                               *)
LEMMA CallKinds ==
    ASSUME Shaped, NEW r \in Runs, CallStep(r)
    PROVE  \E i \in DOMAIN Calls(r) : \E d : CallBecomes(r, i, d) /\ CallKind(r, i, d)
  <1>1. PICK i \in DOMAIN Calls(r) :
           \/ _run_explorer_pod(r, i)
           \/ run_subagents_parallel(r, i)
           \/ _invoke_agent(r, i)
           \/ _execute_with_retries(r, i)
           \/ _persist_agent_run_completed(r, i)
    BY DEF CallStep
  <1> SUFFICES \E d : CallBecomes(r, i, d) /\ CallKind(r, i, d)
    OBVIOUS
  <1>2. CASE _run_explorer_pod(r, i)
    <2> DEFINE d == [Calls(r)[i] EXCEPT !.pc = "pod"]
    <2>1. SetCall(r, i, d) /\ UNCHANGED <<rows, predictions, held>>
      BY <1>2 DEF _run_explorer_pod, tables
    <2>2. CallBecomes(r, i, d) /\ SameCost(r)
      BY <2>1, SetCallBecomes
    <2>3. Opens(r, i, d)
      BY <1>2, <2>2 DEF _run_explorer_pod, tables, Opens
    <2> QED
      BY <2>2, <2>3 DEF CallKind
  <1>3. CASE run_subagents_parallel(r, i)
    <2> DEFINE d == [_AgentInvocation(Aggregator, Calls(r)[i].slot, 0)
                       EXCEPT !.pc = "aggregate"]
               m == Cost(r, Members(r, i))
    <2>1. ctx' = [ctx EXCEPT ![r].cost = @ + m, ![r].calls[i] = d]
      BY <1>3 DEF run_subagents_parallel
    <2> HIDE DEF d, m
    <2>2. ctx'[r] = [ctx[r] EXCEPT !.cost = @ + m, !.calls = [Calls(r) EXCEPT ![i] = d]]
      BY <2>1, FieldNames DEF Shaped, Calls
    <2>3. \A q \in Runs : q # r => ctx'[q] = ctx[q]
      BY <2>1 DEF Shaped
    <2>4. /\ ctx'[r].calls = [Calls(r) EXCEPT ![i] = d]
          /\ ctx'[r].pc = ctx[r].pc /\ ctx'[r].stage = ctx[r].stage
          /\ ctx'[r].outputs = ctx[r].outputs
          /\ ctx'[r].goal = ctx[r].goal /\ ctx'[r].ext = ctx[r].ext
          /\ ctx'[r].cost = ctx[r].cost + m
      BY <2>2, FieldNames DEF Shaped
    <2>5. CallBecomes(r, i, d)
      BY <1>3, <2>3, <2>4 DEF CallBecomes, run_subagents_parallel, tables
    <2>6. Aggregates(r, i, d)
      BY <1>3, <2>4 DEF Aggregates, run_subagents_parallel, tables, d, m
    <2> QED
      BY <2>5, <2>6 DEF CallKind
  <1>4. CASE _invoke_agent(r, i)
    <2> DEFINE a == Calls(r)[i].agent
               Go(pc, res) ==
                 ctx' = [ctx EXCEPT
                      ![r].calls[i].pc = pc, ![r].calls[i].res = res,
                      ![r].live = @ \/ ( /\ Replays(r)
                                         /\ a \notin ctx[r].over
                                         /\ a = ctx[r].from )]
               D(pc, res) == [Calls(r)[i] EXCEPT !.pc = pc, !.res = res]
    <2>1. ASSUME NEW pc, NEW res, Go(pc, res)
          PROVE  CallBecomes(r, i, D(pc, res)) /\ SameCost(r)
      <3>0. PICK live : ctx' = ServedIn(ctx, r, i, pc, res, live)
        BY <2>1, FieldNames DEF Shaped, ServedIn
      <3>1. ctx'[r] = Served(ctx[r], i, pc, res, live)
        <4>1. ctx = [q \in Runs |-> ctx[q]]
          BY DEF Shaped
        <4> QED
          BY <3>0, <4>1, ServedContext
      <3>2. ctx'[r].calls = [Calls(r) EXCEPT ![i] = D(pc, res)]
        <4>1. Whole(ctx[r])
          BY DEF Shaped, Whole
        <4>2. ctx'[r].calls = ServedCall(ctx[r].calls, i, pc, res)
          BY <3>1, <4>1, ServedFields
        <4> QED
          BY <4>2 DEF ServedCall, Calls
      <3>3. \A q \in Runs : q # r => ctx'[q] = ctx[q]
        BY <2>1 DEF Shaped
      <3>4. /\ ctx'[r].pc = ctx[r].pc /\ ctx'[r].stage = ctx[r].stage
            /\ ctx'[r].outputs = ctx[r].outputs
            /\ ctx'[r].goal = ctx[r].goal /\ ctx'[r].ext = ctx[r].ext
            /\ ctx'[r].cost = ctx[r].cost
        BY <3>1, FieldNames DEF Shaped, Served
      <3> QED
        BY <1>4, <3>2, <3>3, <3>4 DEF CallBecomes, SameCost, _invoke_agent
    <2>2. a # Pod /\ MayBegin(r, i) /\ UNCHANGED audit
      BY <1>4 DEF _invoke_agent
    <2> DEFINE out == audit[Original[r]][a].out
    <2>3. \/ Cached(r, a) /\ Go("done", Result("succeeded", 0, out))
               /\ UNCHANGED <<agentRuns, faults>>
          \/ /\ _persist_agent_run_started(r, i, a) /\ (UNCHANGED faults \/ Fault)
             /\ Go("api", NoResult) \/ Go("record", _make_failed_result)
          \/ Fault /\ Go("raised", NoResult) /\ UNCHANGED agentRuns
      BY <1>4, Zenon DEF _invoke_agent, _fetch_from_audit_log
    <2> HIDE DEF Go
    <2>4. CASE Cached(r, a) /\ Go("done", Result("succeeded", 0, out))
                 /\ UNCHANGED <<agentRuns, faults>>
      <3>1. Serves(r, i, D("done", Result("succeeded", 0, out)))
        BY <2>1, <2>2, <2>4 DEF Serves
      <3> QED
        BY <2>1, <2>4, <3>1 DEF CallKind
    <2>5. CASE /\ _persist_agent_run_started(r, i, a) /\ (UNCHANGED faults \/ Fault)
               /\ Go("api", NoResult)
      <3>1. Starts(r, i, D("api", NoResult))
        BY <2>1, <2>2, <2>5 DEF Starts
      <3> QED
        BY <2>1, <2>5, <3>1 DEF CallKind
    <2>6. CASE /\ _persist_agent_run_started(r, i, a) /\ (UNCHANGED faults \/ Fault)
               /\ Go("record", _make_failed_result)
      <3>1. Starts(r, i, D("record", _make_failed_result))
        BY <2>1, <2>2, <2>6 DEF Starts
      <3> QED
        BY <2>1, <2>6, <3>1 DEF CallKind
    <2>7. CASE Fault /\ Go("raised", NoResult) /\ UNCHANGED agentRuns
      <3>1. Raises(r, i, D("raised", NoResult))
        BY <2>1, <2>2, <2>7 DEF Raises
      <3> QED
        BY <2>1, <2>7, <3>1 DEF CallKind
    <2> QED
      BY <2>3, <2>4, <2>5, <2>6, <2>7
  <1>5. CASE _execute_with_retries(r, i)
    <2>1. UNCHANGED <<rows, predictions, held, agentRuns>> /\ Calls(r)[i].pc = "api"
      BY <1>5 DEF _execute_with_retries
    <2>2. PICK d : SetCall(r, i, d) /\ (Answers(r, i, d) \/ Retries(r, i, d))
      BY <1>5 DEF _execute_with_retries, Answered, Rejected, Answers, AnsweredWith,
                   Retries
    <2>3. CallBecomes(r, i, d) /\ SameCost(r)
      BY <2>1, <2>2, SetCallBecomes
    <2>4. Turn(r, i, d)
      BY <2>1, <2>2, <2>3 DEF Turn
    <2> QED
      BY <2>3, <2>4 DEF CallKind
  <1>6. CASE _persist_agent_run_completed(r, i)
    <2>1. UNCHANGED <<rows, predictions, held, audit>> /\ Calls(r)[i].pc = "record"
      BY <1>6 DEF _persist_agent_run_completed
    <2> DEFINE d == Returned(Calls(r)[i], "done", Calls(r)[i].res)
               e == Returned(Calls(r)[i], "raised", NoResult)
    <2>2. \/ /\ SetCall(r, i, d) /\ UNCHANGED faults
             /\ agentRuns' = (agentRuns \ Mine(r, i)) \cup
                      {Completed(x, Calls(r)[i].res) : x \in Mine(r, i)}
          \/ SetCall(r, i, e) /\ Fault /\ UNCHANGED agentRuns
      BY <1>6, Zenon DEF _persist_agent_run_completed
    <2>3. CASE /\ SetCall(r, i, d) /\ UNCHANGED faults
               /\ agentRuns' = (agentRuns \ Mine(r, i)) \cup
                      {Completed(x, Calls(r)[i].res) : x \in Mine(r, i)}
      <3>1. CallBecomes(r, i, d) /\ SameCost(r)
        BY <2>1, <2>3, SetCallBecomes
      <3>2. Completes(r, i, d)
        BY <2>1, <2>3, <3>1 DEF Completes
      <3> QED
        BY <3>1, <3>2 DEF CallKind
    <2>4. CASE SetCall(r, i, e) /\ Fault /\ UNCHANGED agentRuns
      <3>1. CallBecomes(r, i, e) /\ SameCost(r)
        BY <2>1, <2>4, SetCallBecomes
      <3>2. Raises(r, i, e)
        BY <2>1, <2>4, <3>1 DEF Raises
      <3> QED
        BY <3>1, <3>2 DEF CallKind
    <2> QED
      BY <2>2, <2>3, <2>4
  <1> QED
    BY <1>1, <1>2, <1>3, <1>4, <1>5, <1>6

-----------------------------------------------------------------------------
(* The budgets of the retry loop.                                          *)

Rounds(a) == IF a \in Degrades THEN 2 ELSE 1
MaxTries(a) == MaxValidation[a] + Rounds(a) * (MaxTransient[a] + 1)

(* While a call is retried every request it sent is accounted for by one   *)
(* of the budgets: the ones of the first model, when the fallback has been *)
(* taken, by a full transient budget.                                      *)
Budgeted(c) ==
    /\ c.pc = "api" =>
          /\ c.validation <= MaxValidation[c.agent]
          /\ c.transient <= MaxTransient[c.agent]
          /\ c.fallback => c.agent \in Degrades
          /\ c.tries = c.transient + c.validation
                         + (IF c.fallback THEN MaxTransient[c.agent] + 1 ELSE 0)
    /\ c.pc = "record" =>
          /\ c.validation <= MaxValidation[c.agent] + 1
          /\ c.transient <= MaxTransient[c.agent] + 1
          /\ c.tries <= MaxTries(c.agent)
          /\ c.res.status # "none"
    /\ c.pc \notin {"api", "record"} =>
          c.validation = 0 /\ c.transient = 0 /\ c.tries = 0 /\ ~c.fallback

Sized == \A r \in Runs : \A i \in DOMAIN Calls(r) : Budgeted(Calls(r)[i])

LEMMA Budgets ==
    ASSUME NEW a \in Agents
    PROVE  /\ MaxTransient[a] \in Nat /\ MaxValidation[a] \in Nat
           /\ Rounds(a) \in {1, 2} /\ MaxTries(a) \in Nat
           /\ MaxTries(a) = MaxValidation[a] +
                (IF a \in Degrades THEN 2 * (MaxTransient[a] + 1) ELSE MaxTransient[a] + 1)
  BY WorkflowAssumption, SMTT(60) DEF Rounds, MaxTries

LEMMA FreshBudgeted ==
    ASSUME NEW a, NEW k, NEW p
    PROVE  Budgeted(_AgentInvocation(a, k, p))
  BY DEF Budgeted, _AgentInvocation

LEMMA ReturnedBudgeted ==
    ASSUME NEW c \in CallSet, NEW pc \in {"done", "raised"}, NEW res \in Results
    PROVE  Returned(c, pc, res) \in CallSet /\ Budgeted(Returned(c, pc, res))
           /\ Returned(c, pc, res).agent = c.agent /\ Returned(c, pc, res).slot = c.slot
           /\ Returned(c, pc, res).pod = c.pod /\ Returned(c, pc, res).pc = pc
           /\ Returned(c, pc, res).res = res
  BY DEF Returned, Budgeted, _AgentInvocation, CallSet, CallPlaces

(* A turn of the loop stays within the budgets, and ends in the row's      *)
(* completion or in another turn.                                          *)
LEMMA TurnBudgeted ==
    ASSUME NEW c \in CallSet, c.pc = "api", Budgeted(c)
    PROVE  /\ \A d \in {Repaired(c), Retried(c)} :
                /\ d \in CallSet /\ Budgeted(d) /\ d.pc \in {"api", "record"}
                /\ d.agent = c.agent /\ d.slot = c.slot /\ d.pod = c.pod
                /\ d.pc = "api" => d.res = c.res
                /\ d.pc = "record" => d.res = _make_failed_result
           /\ \A n \in Nat, out \in Int :
                LET d == AnsweredWith(c, n, out)
                IN  /\ d \in CallSet /\ Budgeted(d) /\ d.pc = "record"
                    /\ d.agent = c.agent /\ d.slot = c.slot /\ d.pod = c.pod
                    /\ d.res = Result("succeeded", n, out)
  <1> DEFINE a == c.agent
  <1>1. /\ a \in Agents /\ c.slot \in Nat /\ c.pod \in Nat /\ c.transient \in Nat
        /\ c.validation \in Nat /\ c.fallback \in BOOLEAN /\ c.tries \in Nat
        /\ c.res \in Results
    BY DEF CallSet
  <1>2. /\ c.validation <= MaxValidation[a] /\ c.transient <= MaxTransient[a]
        /\ c.fallback => a \in Degrades
        /\ c.tries = c.transient + c.validation
                       + (IF c.fallback THEN MaxTransient[a] + 1 ELSE 0)
    BY DEF Budgeted
  <1>3. /\ MaxTransient[a] \in Nat /\ MaxValidation[a] \in Nat /\ MaxTries(a) \in Nat
        /\ MaxTries(a) = MaxValidation[a] +
             (IF a \in Degrades THEN 2 * (MaxTransient[a] + 1) ELSE MaxTransient[a] + 1)
    BY <1>1, Budgets
  <1>4. c.tries + 1 <= MaxTries(a)
    BY <1>1, <1>2, <1>3
  <1>5. _make_failed_result \in Results
    BY DEF _make_failed_result, Results, Result, Nothing
  <1>6. ASSUME NEW d \in {Repaired(c), Retried(c)}
        PROVE  /\ d \in CallSet /\ d.pc \in {"api", "record"}
               /\ d.agent = c.agent /\ d.slot = c.slot /\ d.pod = c.pod
               /\ d.pc = "api" => d.res = c.res
               /\ d.pc = "record" => d.res = _make_failed_result
    <2> DEFINE t == c.transient + 1
               v == c.validation + 1
               n == c.tries + 1
    <2>0. t \in Nat /\ v \in Nat /\ n \in Nat /\ "record" \in CallPlaces
      BY <1>1 DEF CallPlaces
    <2> HIDE DEF t, v, n
    <2>1. /\ [c EXCEPT !.validation = v, !.tries = n] \in CallSet
          /\ [c EXCEPT !.transient = t, !.tries = n] \in CallSet
          /\ [c EXCEPT !.transient = 0, !.fallback = TRUE, !.tries = n] \in CallSet
      <3>1. [c EXCEPT !.validation = v, !.tries = n] \in CallSet
        BY <2>0 DEF CallSet
      <3>2. [c EXCEPT !.transient = t, !.tries = n] \in CallSet
        BY <2>0 DEF CallSet
      <3>3. [c EXCEPT !.transient = 0, !.fallback = TRUE, !.tries = n] \in CallSet
        BY <2>0 DEF CallSet
      <3> QED
        BY <3>1, <3>2, <3>3
    <2>2. /\ [c EXCEPT !.validation = v, !.tries = n, !.pc = "record",
                       !.res = _make_failed_result] \in CallSet
          /\ [c EXCEPT !.transient = t, !.tries = n, !.pc = "record",
                       !.res = _make_failed_result] \in CallSet
      <3>1. [c EXCEPT !.validation = v, !.tries = n, !.pc = "record",
                      !.res = _make_failed_result] \in CallSet
        BY <1>5, <2>0 DEF CallSet
      <3>2. [c EXCEPT !.transient = t, !.tries = n, !.pc = "record",
                      !.res = _make_failed_result] \in CallSet
        BY <1>5, <2>0 DEF CallSet
      <3> QED
        BY <3>1, <3>2
    <2>3. d \in CallSet
      BY <1>6, <2>1, <2>2 DEF Repaired, Retried, t, v, n
    <2>4. /\ d.pc \in {"api", "record"}
          /\ d.agent = c.agent /\ d.slot = c.slot /\ d.pod = c.pod
          /\ d.pc = "api" => d.res = c.res
          /\ d.pc = "record" => d.res = _make_failed_result
      BY <1>6 DEF Repaired, Retried, CallSet
    <2> QED
      BY <2>3, <2>4
  <1>7. Budgeted(Repaired(c))
    <2>1. CASE c.validation < MaxValidation[a]
      <3> DEFINE d == [c EXCEPT !.validation = @ + 1, !.tries = @ + 1]
      <3>1. Repaired(c) = d
        BY <2>1 DEF Repaired
      <3>2. /\ d.validation = c.validation + 1 /\ d.tries = c.tries + 1 /\ d.agent = a
            /\ d.pc = "api" /\ d.transient = c.transient /\ d.fallback = c.fallback
        BY DEF CallSet
      <3> HIDE DEF d
      <3> QED
        BY <1>1, <1>2, <1>3, <2>1, <3>1, <3>2 DEF Budgeted
    <2>2. CASE ~(c.validation < MaxValidation[a])
      <3> DEFINE d == [c EXCEPT !.validation = @ + 1, !.tries = @ + 1,
                                !.pc = "record", !.res = _make_failed_result]
      <3>1. Repaired(c) = d
        BY <2>2 DEF Repaired
      <3>2. /\ d.validation = c.validation + 1 /\ d.tries = c.tries + 1 /\ d.agent = a
            /\ d.pc = "record" /\ d.transient = c.transient
            /\ d.res.status = "failed"
        BY DEF CallSet, _make_failed_result, Result
      <3> HIDE DEF d
      <3> QED
        BY <1>1, <1>2, <1>3, <1>4, <2>2, <3>1, <3>2 DEF Budgeted
    <2> QED
      BY <2>1, <2>2
  <1>8. Budgeted(Retried(c))
    <2>1. CASE c.transient < MaxTransient[a]
      <3> DEFINE d == [c EXCEPT !.transient = @ + 1, !.tries = @ + 1]
      <3>1. Retried(c) = d
        BY <2>1 DEF Retried
      <3>2. /\ d.transient = c.transient + 1 /\ d.tries = c.tries + 1 /\ d.agent = a
            /\ d.pc = "api" /\ d.validation = c.validation /\ d.fallback = c.fallback
        BY DEF CallSet
      <3> HIDE DEF d
      <3> QED
        BY <1>1, <1>2, <1>3, <2>1, <3>1, <3>2 DEF Budgeted
    <2>2. CASE ~(c.transient < MaxTransient[a]) /\ a \in Degrades /\ ~c.fallback
      <3> DEFINE d == [c EXCEPT !.transient = 0, !.fallback = TRUE, !.tries = @ + 1]
      <3>1. Retried(c) = d
        BY <2>2 DEF Retried
      <3>2. /\ d.transient = 0 /\ d.tries = c.tries + 1 /\ d.agent = a
            /\ d.pc = "api" /\ d.validation = c.validation /\ d.fallback = TRUE
        BY DEF CallSet
      <3> HIDE DEF d
      <3>3. c.transient = MaxTransient[a]
        BY <1>1, <1>2, <1>3, <2>2
      <3> QED
        BY <1>1, <1>2, <1>3, <2>2, <3>1, <3>2, <3>3 DEF Budgeted
    <2>3. CASE ~(c.transient < MaxTransient[a]) /\ ~(a \in Degrades /\ ~c.fallback)
      <3> DEFINE d == [c EXCEPT !.transient = @ + 1, !.tries = @ + 1,
                                !.pc = "record", !.res = _make_failed_result]
      <3>1. Retried(c) = d
        BY <2>3 DEF Retried
      <3>2. /\ d.transient = c.transient + 1 /\ d.tries = c.tries + 1 /\ d.agent = a
            /\ d.pc = "record" /\ d.validation = c.validation
            /\ d.res.status = "failed"
        BY DEF CallSet, _make_failed_result, Result
      <3> HIDE DEF d
      <3> QED
        BY <1>1, <1>2, <1>3, <1>4, <2>3, <3>1, <3>2 DEF Budgeted
    <2> QED
      BY <2>1, <2>2, <2>3
  <1>9. ASSUME NEW n \in Nat, NEW out \in Int
        PROVE  LET e == AnsweredWith(c, n, out)
               IN  /\ e \in CallSet /\ Budgeted(e) /\ e.pc = "record"
                   /\ e.agent = c.agent /\ e.slot = c.slot /\ e.pod = c.pod
                   /\ e.res = Result("succeeded", n, out)
    <2> DEFINE res == Result("succeeded", n, out)
               d == [c EXCEPT !.pc = "record", !.tries = @ + 1, !.res = res]
    <2>1. res \in Results /\ res.status # "none"
      BY DEF Result, Results
    <2> HIDE DEF res
    <2>2. d \in CallSet
      <3> DEFINE m == c.tries + 1
      <3>1. "record" \in CallPlaces /\ m \in Nat
        BY <1>1 DEF CallPlaces
      <3> HIDE DEF m
      <3>2. [c EXCEPT !.pc = "record", !.tries = m, !.res = res] \in CallSet
        BY <2>1, <3>1 DEF CallSet
      <3> QED
        BY <3>2 DEF m
    <2>3. /\ d.tries = c.tries + 1 /\ d.agent = a /\ d.slot = c.slot /\ d.pod = c.pod
          /\ d.pc = "record" /\ d.transient = c.transient /\ d.validation = c.validation
          /\ d.res = res
      BY DEF CallSet
    <2>4. Budgeted(d)
      <3> HIDE DEF d
      <3> QED
        BY <1>1, <1>2, <1>3, <1>4, <2>1, <2>3 DEF Budgeted
    <2>5. AnsweredWith(c, n, out) = d
      BY DEF AnsweredWith, res
    <2> HIDE DEF d
    <2> QED
      BY <2>2, <2>3, <2>4, <2>5 DEF res
  <1> QED
    BY <1>6, <1>7, <1>8, <1>9

-----------------------------------------------------------------------------
(* A step of a call keeps the types and the budgets.                       *)

LEMMA CallsTyped ==
    ASSUME NEW r \in Runs, ContextTyped(r)
    PROVE  /\ Calls(r) \in Seq(CallSet) /\ IsFiniteSet(DOMAIN Calls(r))
           /\ \A i \in DOMAIN Calls(r) : i \in Nat \ {0} /\ Calls(r)[i] \in CallSet
  <1>1. Calls(r) \in Seq(CallSet)
    BY DEF ContextTyped, Calls
  <1>2. DOMAIN Calls(r) = 1 .. Len(Calls(r)) /\ Len(Calls(r)) \in Nat
    BY <1>1
  <1>3. IsFiniteSet(DOMAIN Calls(r))
    <2> DEFINE n == Len(Calls(r))
    <2> HIDE DEF n
    <2> QED
      BY <1>2, FS_Interval DEF n
  <1>4. \A i \in DOMAIN Calls(r) : i \in Nat \ {0} /\ Calls(r)[i] \in CallSet
    BY <1>1, <1>2
  <1> QED
    BY <1>1, <1>3, <1>4

(* What the calls of a run have cost so far.                               *)
LEMMA CostNat ==
    ASSUME NEW r \in Runs, ContextTyped(r), NEW S
    PROVE  /\ IsFiniteSet(S \cap Done(r))
           /\ \A i \in Done(r) : Calls(r)[i].res.cost \in Nat
           /\ Cost(r, S) \in Nat
  <1> DEFINE D == S \cap Done(r)
             f == [i \in D |-> Calls(r)[i].res.cost]
  <1>1. IsFiniteSet(D)
    <2>1. D \subseteq DOMAIN Calls(r)
      BY DEF Done
    <2> QED
      BY <2>1, CallsTyped, FS_Subset
  <1>2. \A i \in Done(r) : Calls(r)[i].res.cost \in Nat
    <2> SUFFICES ASSUME NEW i \in Done(r) PROVE Calls(r)[i].res.cost \in Nat
      OBVIOUS
    <2>1. Calls(r)[i] \in CallSet
      BY CallsTyped DEF Done
    <2>2. Calls(r)[i].res \in Results
      BY <2>1 DEF CallSet
    <2> QED
      BY <2>2 DEF Results
  <1>3. Cost(r, S) = SumFunctionOnSet(f, D)
    BY DEF Cost, SumFunction
  <1>4. \A i \in D : f[i] \in Nat
    BY <1>2
  <1> HIDE DEF D, f
  <1>5. Cost(r, S) \in Nat
    BY <1>1, <1>3, <1>4, SumNat
  <1> QED
    BY <1>1, <1>2, <1>5 DEF D

LEMMA AgentTypes ==
    /\ Pod \in Agents /\ Judge \in Agents /\ Triage \in Agents /\ Aggregator \in Agents
    /\ Pod # Aggregator /\ Pod # Judge
    /\ \A j \in DOMAIN PodAgents : PodAgents[j] \in Agents /\ PodAgents[j] # Pod
    /\ \A a \in Agents : /\ Says[a] \subseteq Int /\ Usage[a] \subseteq Nat
  <1>1. \A j \in DOMAIN PodAgents : PodAgents[j] \in Range(PodAgents)
    BY DEF Range
  <1>2. Says \in [Agents -> SUBSET Int] /\ Usage \in [Agents -> SUBSET Nat]
    BY WorkflowAssumption
  <1>3. /\ {Triage, Judge, Pod, Aggregator} \cup Range(PodAgents) \subseteq Agents
        /\ Pod \notin Degrades \cup Validated \cup Range(PodAgents) \cup {Aggregator, Judge}
    BY WorkflowAssumption
  <1> QED
    BY <1>1, <1>2, <1>3

LEMMA FaultTyped ==
    ASSUME faults \in 0 .. MaxFaults, Fault \/ UNCHANGED faults
    PROVE  faults' \in 0 .. MaxFaults /\ faults <= faults'
  BY WorkflowAssumption DEF Fault

LEMMA AuditTyped ==
    ASSUME audit \in [Runs -> [Agents -> Heard]], NEW r \in Runs, NEW a \in Agents,
           NEW out \in Int, NEW valid \in BOOLEAN, _write_llm_audit_log(r, a, out, valid)
    PROVE  /\ audit' \in [Runs -> [Agents -> Heard]] /\ (Fault \/ UNCHANGED faults)
           /\ \A q \in Runs, b \in Agents : audit[q][b] # Unheard => audit'[q][b] # Unheard
  <1> DEFINE row == [out |-> out, valid |-> valid]
  <1>1. row \in Heard
    BY DEF Heard
  <1>2. CASE audit' = [audit EXCEPT ![r][a] = row] /\ audit[r][a] = Unheard /\ UNCHANGED faults
    <2> HIDE DEF row
    <2> QED
      BY <1>1, <1>2
  <1>3. CASE UNCHANGED audit
    BY <1>3 DEF _write_llm_audit_log
  <1> QED
    BY <1>2, <1>3 DEF _write_llm_audit_log

(* What the columns of the costs make of a number.                         *)
LEMMA RoundedNear ==
    ASSUME NEW c \in Nat
    PROVE  /\ Rounded(c) \in Nat
           /\ 2 * (Rounded(c) - c) <= Unit /\ 2 * (c - Rounded(c)) <= Unit
  <1>1. Unit \in Nat \ {0}
    BY WorkflowAssumption
  <1>2. c % Unit \in 0 .. Unit - 1 /\ c % Unit <= c
    BY <1>1, Z3
  <1> QED
    BY <1>1, <1>2 DEF Rounded

LEMMA RoundedZero == Rounded(0) = 0
  <1>1. Unit \in Nat \ {0}
    BY WorkflowAssumption
  <1>2. 0 % Unit = 0
    BY <1>1, Z3
  <1> QED
    BY <1>1, <1>2 DEF Rounded

LEMMA RoundedRises ==
    ASSUME NEW c \in Nat, NEW e \in Nat, c <= e
    PROVE  Rounded(c) <= Rounded(e)
  <1>1. Unit \in Nat \ {0}
    BY WorkflowAssumption
  <1> DEFINE k == c \div Unit
             n == e \div Unit
             p == c % Unit
             q == e % Unit
  <1>2. /\ k \in Nat /\ p \in 0 .. Unit - 1 /\ c = Unit * k + p
        /\ n \in Nat /\ q \in 0 .. Unit - 1 /\ e = Unit * n + q
    BY <1>1, Z3
  <1> QED
    BY <1>1, <1>2 DEF Rounded

(* A row of agent_runs is completed where the call has a result.           *)
LEMMA ClosedTyped ==
    ASSUME NEW x \in AgentRow, NEW res \in Results, res.status # "none"
    PROVE  /\ Completed(x, res) \in AgentRow
           /\ Completed(x, res).run = x.run /\ Completed(x, res).stage = x.stage
           /\ Completed(x, res).index = x.index /\ Completed(x, res).agent = x.agent
           /\ Completed(x, res).status = res.status /\ Completed(x, res).tokens = res.cost
           /\ Completed(x, res).cost = Rounded(res.cost)
  <1> DEFINE s == res.status
             n == res.cost
             m == Rounded(n)
  <1>1. s \in {"running", "succeeded", "failed"} /\ n \in Nat /\ m \in Nat
    BY RoundedNear DEF Results
  <1> HIDE DEF s, n, m
  <1>2. [x EXCEPT !.status = s, !.tokens = n, !.cost = m] \in AgentRow
    BY <1>1 DEF AgentRow
  <1>3. Completed(x, res) = [x EXCEPT !.status = s, !.tokens = n, !.cost = m]
    BY DEF Completed, s, n, m
  <1> QED
    BY <1>2, <1>3 DEF AgentRow, s, n, m

LEMMA MayBeginNew ==
    ASSUME NEW r, NEW i, MayBegin(r, i)
    PROVE  Calls(r)[i].pc \in {"new", "aggregate"}
  BY DEF MayBegin

LEMMA CallKindTyped ==
    ASSUME Typed, Sized, NEW r \in Runs, NEW i \in DOMAIN Calls(r), NEW d, CallKind(r, i, d),
           CallBecomes(r, i, d)
    PROVE  /\ d \in CallSet /\ Budgeted(d)
           /\ agentRuns' \subseteq AgentRow /\ IsFiniteSet(agentRuns')
           /\ audit' \in [Runs -> [Agents -> Heard]]
           /\ faults' \in 0 .. MaxFaults
           /\ ctx'[r].cost \in Nat
  <1> DEFINE c == Calls(r)[i]
  <1>1. /\ c \in CallSet /\ i \in Nat \ {0} /\ Budgeted(c) /\ ContextTyped(r)
    BY CallsTyped DEF Typed, Sized
  <1>2. /\ agentRuns \subseteq AgentRow /\ IsFiniteSet(agentRuns)
        /\ audit \in [Runs -> [Agents -> Heard]] /\ faults \in 0 .. MaxFaults
        /\ ctx[r].cost \in Nat /\ ctx[r].stage \in DOMAIN Stages
    BY <1>1 DEF Typed, ContextTyped
  <1>3. c.agent \in Agents /\ c.slot \in Nat /\ c.pod \in Nat /\ c.res \in Results
    BY <1>1 DEF CallSet
  <1>4. NoResult \in Results /\ _make_failed_result \in Results
    BY DEF NoResult, _make_failed_result, Result, Results, Nothing
  <1>5. ASSUME NEW pc \in CallPlaces, NEW res \in Results,
               MayBegin(r, i), pc \notin {"api", "record"} \/ res.status # "none" \/ pc = "api"
        PROVE  [c EXCEPT !.pc = pc, !.res = res] \in CallSet
               /\ Budgeted([c EXCEPT !.pc = pc, !.res = res])
    <2> DEFINE e == [c EXCEPT !.pc = pc, !.res = res]
    <2>1. e \in CallSet
      BY <1>1 DEF CallSet
    <2>2. /\ e.agent = c.agent /\ e.validation = c.validation /\ e.transient = c.transient
          /\ e.tries = c.tries /\ e.fallback = c.fallback /\ e.pc = pc /\ e.res = res
      BY <1>1 DEF CallSet
    <2>3. c.validation = 0 /\ c.transient = 0 /\ c.tries = 0 /\ ~c.fallback
      BY <1>1, <1>5, MayBeginNew DEF Budgeted
    <2>4. Budgeted(e)
      <3> HIDE DEF e, c
      <3> QED
        BY <1>3, <1>5, <2>2, <2>3, Budgets DEF Budgeted
    <2> QED
      BY <2>1, <2>4
  <1> HIDE DEF c
  <1>6. CASE Opens(r, i, d)
    <2> DEFINE e == [c EXCEPT !.pc = "pod"]
    <2>1. c.validation = 0 /\ c.transient = 0 /\ c.tries = 0 /\ ~c.fallback
      BY <1>1, <1>6, MayBeginNew DEF Budgeted, Opens, c
    <2>2. e \in CallSet
      BY <1>1 DEF CallSet, CallPlaces
    <2>3. /\ e.validation = c.validation /\ e.transient = c.transient
          /\ e.tries = c.tries /\ e.fallback = c.fallback /\ e.pc = "pod"
      BY <1>1 DEF CallSet
    <2>4. Budgeted(e)
      <3> HIDE DEF e
      <3> QED
        BY <2>1, <2>3 DEF Budgeted
    <2> QED
      BY <1>2, <1>6, <2>2, <2>4 DEF Opens, SameCost, c
  <1>7. CASE Aggregates(r, i, d)
    <2> DEFINE e == _AgentInvocation(Aggregator, c.slot, 0)
               m == Cost(r, Members(r, i))
    <2>1. e \in CallSet /\ Budgeted(e)
      BY <1>3, AgentTypes, FreshCallTyped, FreshBudgeted
    <2>2. e.pc = "new"
      BY DEF _AgentInvocation
    <2>3. m \in Nat
      BY <1>1, CostNat
    <2>4. d = [e EXCEPT !.pc = "aggregate"]
      BY <1>7 DEF Aggregates, c
    <2> HIDE DEF e, m
    <2>5. d \in CallSet
      BY <2>1, <2>4 DEF CallSet, CallPlaces
    <2>6. /\ e.validation = d.validation /\ e.transient = d.transient
          /\ e.tries = d.tries /\ e.fallback = d.fallback /\ d.pc = "aggregate"
      BY <2>1, <2>4 DEF CallSet
    <2>7. Budgeted(d)
      BY <2>1, <2>2, <2>6 DEF Budgeted
    <2>8. ctx'[r].cost \in Nat
      BY <1>2, <1>7, <2>3 DEF Aggregates, m
    <2> QED
      BY <1>2, <1>7, <2>5, <2>7, <2>8 DEF Aggregates
  <1>8. CASE Starts(r, i, d)
    <2> DEFINE row == [run |-> r, stage |-> ctx[r].stage, index |-> i, agent |-> c.agent,
                       status |-> "running", tokens |-> 0, cost |-> 0]
    <2>1. row \in AgentRow
      BY <1>1, <1>2, <1>3 DEF AgentRow
    <2>2. agentRuns' = agentRuns \cup {row}
      BY <1>8 DEF Starts, _persist_agent_run_started, c
    <2> HIDE DEF row
    <2>3. agentRuns' \subseteq AgentRow /\ IsFiniteSet(agentRuns')
      BY <1>2, <2>1, <2>2, FS_AddElement
    <2>4. d \in CallSet /\ Budgeted(d)
      <3>1. _make_failed_result.status # "none"
        BY DEF _make_failed_result, Result
      <3>2. "api" \in CallPlaces /\ "record" \in CallPlaces
        BY DEF CallPlaces
      <3>3. MayBegin(r, i)
        BY <1>8 DEF Starts
      <3> QED
        BY <1>4, <1>5, <1>8, <3>1, <3>2, <3>3 DEF Starts, c
    <2>5. faults' \in 0 .. MaxFaults
      BY <1>2, <1>8, FaultTyped DEF Starts
    <2> QED
      BY <1>2, <1>8, <2>3, <2>4, <2>5 DEF Starts, SameCost
  <1>9. CASE Serves(r, i, d)
    <2> DEFINE out == audit[Original[r]][c.agent].out
               res == Result("succeeded", 0, out)
    <2>1. Original[r] \in Runs
      BY <1>9, WorkflowAssumption DEF Serves, Cached, Replays
    <2>2. out \in Int
      BY <1>2, <1>3, <2>1 DEF Heard
    <2>3. res \in Results
      BY <2>2 DEF Result, Results
    <2>4. d = [c EXCEPT !.pc = "done", !.res = res] /\ MayBegin(r, i)
      BY <1>9 DEF Serves, c
    <2>5. "done" \in CallPlaces
      BY DEF CallPlaces
    <2>6. d \in CallSet /\ Budgeted(d)
      <3> HIDE DEF res
      <3> QED
        BY <1>5, <2>3, <2>4, <2>5
    <2> QED
      BY <1>2, <1>9, <2>6 DEF Serves, SameCost
  <1>10. CASE Raises(r, i, d)
    <2>1. d \in CallSet /\ Budgeted(d)
      <3>1. "raised" \in CallPlaces
        BY DEF CallPlaces
      <3>2. CASE d = Returned(c, "raised", NoResult)
        BY <1>1, <1>4, <3>2, ReturnedBudgeted
      <3>3. CASE MayBegin(r, i) /\ d = [c EXCEPT !.pc = "raised", !.res = NoResult]
        BY <1>4, <1>5, <3>1, <3>3
      <3> QED
        BY <1>10, <3>2, <3>3 DEF Raises, c
    <2>2. faults' \in 0 .. MaxFaults
      BY <1>2, <1>10, FaultTyped DEF Raises
    <2> QED
      BY <1>2, <1>10, <2>1, <2>2 DEF Raises, SameCost
  <1>11. CASE Turn(r, i, d)
    <2>1. c.pc = "api"
      BY <1>11 DEF Turn, c
    <2>2. Says[c.agent] \subseteq Int /\ Usage[c.agent] \subseteq Nat
      BY <1>3, AgentTypes
    <2>3. CASE Answers(r, i, d)
      <3>1. PICK out \in Says[c.agent], used \in Usage[c.agent] :
              /\ _write_llm_audit_log(r, c.agent, out, TRUE)
              /\ d = AnsweredWith(c, used, out)
        BY <2>3 DEF Answers, c
      <3>2. out \in Int /\ used \in Nat
        BY <2>2
      <3>3. d \in CallSet /\ Budgeted(d)
        BY <1>1, <2>1, <3>1, <3>2, TurnBudgeted
      <3>4. audit' \in [Runs -> [Agents -> Heard]] /\ (Fault \/ UNCHANGED faults)
        BY <1>2, <1>3, <3>1, <3>2, AuditTyped
      <3> QED
        BY <1>2, <1>11, <3>3, <3>4, FaultTyped DEF Turn, SameCost
    <2>4. CASE Retries(r, i, d)
      <3>1. d \in CallSet /\ Budgeted(d)
        BY <1>1, <2>1, <2>4, TurnBudgeted DEF Retries, c
      <3>2. audit' \in [Runs -> [Agents -> Heard]] /\ (Fault \/ UNCHANGED faults)
        <4>1. CASE \E out \in Says[c.agent] :
                     _write_llm_audit_log(r, c.agent, out, FALSE)
          BY <1>2, <1>3, <2>2, <4>1, AuditTyped
        <4>2. CASE UNCHANGED <<audit, faults>>
          BY <1>2, <4>2
        <4> QED
          BY <2>4, <4>1, <4>2 DEF Retries, c
      <3> QED
        BY <1>2, <1>11, <3>1, <3>2, FaultTyped DEF Turn, SameCost
    <2> QED
      BY <1>11, <2>3, <2>4 DEF Turn
  <1>12. CASE Completes(r, i, d)
    <2> DEFINE M == Mine(r, i)
               N == {Completed(x, c.res) : x \in M}
    <2>1. c.res.status # "none"
      BY <1>1, <1>12 DEF Completes, Budgeted, c
    <2>2. M \subseteq agentRuns
      BY DEF Mine
    <2>3. N \subseteq AgentRow
      BY <1>2, <1>3, <2>1, <2>2, ClosedTyped
    <2>4. IsFiniteSet(M)
      BY <1>2, <2>2, FS_Subset
    <2>5. IsFiniteSet(N)
      <3> DEFINE f == [x \in M |-> Completed(x, c.res)]
      <3>1. f \in Surjection(M, N)
        <4>1. f \in [M -> N] /\ \A y \in N : \E x \in M : f[x] = y
          <5> HIDE DEF M
          <5> QED
            OBVIOUS
        <4> HIDE DEF f, N
        <4> QED
          BY <4>1, Fun_IsSurj
      <3> HIDE DEF f, N, M
      <3> QED
        BY <2>4, <3>1, FS_Surjection
    <2>6. agentRuns' = (agentRuns \ M) \cup N
      BY <1>12 DEF Completes, c
    <2> HIDE DEF M, N
    <2>7. IsFiniteSet(agentRuns \ M)
      BY <1>2, FS_Subset
    <2>8. agentRuns' \subseteq AgentRow /\ IsFiniteSet(agentRuns')
      BY <1>2, <2>3, <2>5, <2>6, <2>7, FS_Union
    <2>9. d \in CallSet /\ Budgeted(d)
      BY <1>1, <1>3, <1>12, ReturnedBudgeted DEF Completes, c
    <2> QED
      BY <1>2, <1>12, <2>8, <2>9 DEF Completes, SameCost
  <1> QED
    BY <1>6, <1>7, <1>8, <1>9, <1>10, <1>11, <1>12 DEF CallKind

LEMMA CallStepTyped ==
    ASSUME Shaped, Typed, Sized, NEW r \in Runs, CallStep(r)
    PROVE  Typed' /\ Sized'
  <1>1. PICK i \in DOMAIN Calls(r) : \E d : CallBecomes(r, i, d) /\ CallKind(r, i, d)
    BY CallKinds
  <1>2. PICK d : CallBecomes(r, i, d) /\ CallKind(r, i, d)
    BY <1>1
  <1>3. /\ d \in CallSet /\ Budgeted(d)
        /\ agentRuns' \subseteq AgentRow /\ IsFiniteSet(agentRuns')
        /\ audit' \in [Runs -> [Agents -> Heard]]
        /\ faults' \in 0 .. MaxFaults
        /\ ctx'[r].cost \in Nat
    BY <1>2, CallKindTyped
  <1>4. Calls(r) \in Seq(CallSet) /\ ContextTyped(r)
    BY CallsTyped DEF Typed
  <1>5. ctx'[r].calls \in Seq(CallSet) /\ DOMAIN ctx'[r].calls = DOMAIN Calls(r)
    BY <1>2, <1>3, <1>4 DEF CallBecomes
  <1>6. \A q \in Runs : q # r => ContextTyped(q)'
    BY <1>2 DEF CallBecomes, Typed, ContextTyped
  <1>7. ContextTyped(r)'
    BY <1>2, <1>3, <1>4, <1>5 DEF CallBecomes, ContextTyped
  <1>8. Typed'
    BY <1>2, <1>3, <1>6, <1>7 DEF CallBecomes, Typed
  <1>9. Sized'
    BY <1>2, <1>3, <1>4, <1>5 DEF CallBecomes, Sized, Calls
  <1> QED
    BY <1>8, <1>9

-----------------------------------------------------------------------------
(* What the other steps of a run do to its context.                        *)

Becomes(r, pc, stage, cost, calls, outputs, goal, ext) ==
    /\ \A q \in Runs : q # r => ctx'[q] = ctx[q]
    /\ ctx'[r].pc = pc /\ ctx'[r].stage = stage /\ ctx'[r].cost = cost
    /\ ctx'[r].calls = calls /\ ctx'[r].outputs = outputs
    /\ ctx'[r].goal = goal /\ ctx'[r].ext = ext

Blank == [a \in Agents |-> Nothing]
Clears(r, pc) == Becomes(r, pc, 1, 0, <<>>, Blank, "none", "none")
Moves(r, pc) == Becomes(r, pc, ctx[r].stage, ctx[r].cost, ctx[r].calls,
                        ctx[r].outputs, ctx[r].goal, ctx[r].ext)
Aborts(r, goal, cost) ==
    Becomes(r, "except", ctx[r].stage, cost, <<>>, ctx[r].outputs, goal, "none")
Settles(r, ext) ==
    Becomes(r, "finish", ctx[r].stage, ctx[r].cost, <<>>, ctx[r].outputs,
            "succeeded", ext)
Enters(r, calls) ==
    Becomes(r, "stage", ctx[r].stage, ctx[r].cost, calls, ctx[r].outputs,
            ctx[r].goal, ctx[r].ext)

LEMMA ClearedContext ==
    ASSUME Shaped, NEW r \in Runs
    PROVE  /\ \A over, from : ctx' = [ctx EXCEPT ![r] = Context(over, from)]
                                => Clears(r, "redis")
           /\ End(r) => Clears(r, "off")
  BY DEF Shaped, Context, End, Ended, Clears, Becomes, Blank

LEMMA MovedContext ==
    ASSUME Shaped, NEW r \in Runs, NEW pc, Goto(r, pc)
    PROVE  Moves(r, pc)
  <1>1. /\ \A q \in Runs : q # r => ctx'[q] = ctx[q]
        /\ ctx'[r] = [ctx[r] EXCEPT !.pc = pc]
    BY DEF Shaped, Goto
  <1> QED
    BY <1>1, FieldNames DEF Shaped, Moves, Becomes

LEMMA AbortedContext ==
    ASSUME Shaped, NEW r \in Runs, NEW status, NEW cost, Abort(r, status, cost)
    PROVE  Aborts(r, status, cost)
  <1>1. /\ \A q \in Runs : q # r => ctx'[q] = ctx[q]
        /\ ctx'[r] = [ctx[r] EXCEPT !.pc = "except", !.goal = status, !.ext = "none",
                                    !.cost = cost, !.calls = <<>>]
    BY DEF Shaped, Abort
  <1> QED
    BY <1>1, FieldNames DEF Shaped, Aborts, Becomes

LEMMA SettledContext ==
    ASSUME Shaped, NEW r \in Runs, NEW ext, Settle(r, ext)
    PROVE  Settles(r, ext)
  <1>1. /\ \A q \in Runs : q # r => ctx'[q] = ctx[q]
        /\ ctx'[r] = [ctx[r] EXCEPT !.pc = "finish", !.goal = "succeeded", !.ext = ext,
                                    !.calls = <<>>]
    BY DEF Shaped, Settle
  <1> QED
    BY <1>1, FieldNames DEF Shaped, Settles, Becomes

LEMMA EnteredContext ==
    ASSUME Shaped, NEW r \in Runs, EnterStage(r)
    PROVE  /\ ctx[r].pc = "gate" /\ UNCHANGED <<tables, held, faults>>
           /\ \/ \E goal \in {"cancelled", "failed"} : Aborts(r, goal, ctx[r].cost)
              \/ ~OverBudget(r)
                   /\ Enters(r, Invocations(r) \o PodInvocations(Invocations(r)))
  <1> DEFINE calls == Invocations(r) \o PodInvocations(Invocations(r))
  <1>1. CASE ~OverBudget(r) /\ ctx' = [ctx EXCEPT ![r].pc = "stage", ![r].calls = calls]
    <2>1. /\ \A q \in Runs : q # r => ctx'[q] = ctx[q]
          /\ ctx'[r] = [ctx[r] EXCEPT !.pc = "stage", !.calls = calls]
      BY <1>1 DEF Shaped
    <2> HIDE DEF calls
    <2>2. Enters(r, calls)
      BY <2>1, FieldNames DEF Shaped, Enters, Becomes
    <2> QED
      BY <1>1, <2>2 DEF EnterStage, calls
  <1>2. CASE \E goal \in {"cancelled", "failed"} : Abort(r, goal, ctx[r].cost)
    BY <1>2, AbortedContext DEF EnterStage
  <1> QED
    BY <1>1, <1>2 DEF EnterStage

(* The ways out of a stage.                                                *)
Stops(r) == {i \in TopLevel(r) : Breaks(r, i)}
LastStage(r) == ctx[r].stage = Len(Stages)

LEMMA StageKinds ==
    ASSUME Shaped, NEW r \in Runs, _run_stage(r)
    PROVE  /\ ctx[r].pc = "stage" /\ UNCHANGED <<tables, held, faults>>
           /\ \/ /\ ~Parallel(r) /\ \E i \in TopLevel(r) : Calls(r)[i].pc = "raised"
                 /\ Aborts(r, "failed", ctx[r].cost)
              \/ /\ StageOver(r) /\ Stops(r) # {}
                 /\ Aborts(r, "failed", Added(r, Min(Stops(r))))
              \/ /\ StageOver(r) /\ Stops(r) = {} /\ _should_short_circuit(r)
                 /\ Becomes(r, "finish", ctx[r].stage, Added(r, Cardinality(TopLevel(r))),
                            <<>>, _stage_outputs(r), "succeeded", "none")
              \/ /\ StageOver(r) /\ Stops(r) = {}
                 /\ Becomes(r, IF LastStage(r) THEN "persist" ELSE "gate",
                            IF LastStage(r) THEN ctx[r].stage ELSE ctx[r].stage + 1,
                            Added(r, Cardinality(TopLevel(r))),
                            <<>>, _stage_outputs(r), ctx[r].goal, ctx[r].ext)
  <1> DEFINE stops == Stops(r)
             last == LastStage(r)
             cost == Added(r, Cardinality(TopLevel(r)))
             outs == _stage_outputs(r)
             pc == IF last THEN "persist" ELSE "gate"
             stage == IF last THEN ctx[r].stage ELSE ctx[r].stage + 1
  <1>1. ctx[r].pc = "stage" /\ UNCHANGED <<tables, held, faults>>
    BY DEF _run_stage
  <1>2. \/ /\ ~Parallel(r) /\ \E i \in TopLevel(r) : Calls(r)[i].pc = "raised"
           /\ Abort(r, "failed", ctx[r].cost)
        \/ StageOver(r) /\ stops # {} /\ Abort(r, "failed", Added(r, Min(stops)))
        \/ /\ StageOver(r) /\ stops = {} /\ _should_short_circuit(r)
           /\ ctx' = [ctx EXCEPT ![r].pc = "finish", ![r].goal = "succeeded",
                                 ![r].ext = "none", ![r].calls = <<>>,
                                 ![r].cost = cost, ![r].outputs = outs]
        \/ /\ StageOver(r) /\ stops = {}
           /\ ctx' = [ctx EXCEPT ![r].pc = IF last THEN "persist" ELSE "gate",
                                 ![r].stage = IF last THEN @ ELSE @ + 1,
                                 ![r].calls = <<>>, ![r].cost = cost,
                                 ![r].outputs = outs]
    BY Zenon DEF _run_stage, Stops, LastStage
  <1> HIDE DEF stops, last, cost, outs
  <1>3. CASE ctx' = [ctx EXCEPT ![r].pc = "finish", ![r].goal = "succeeded",
                                 ![r].ext = "none", ![r].calls = <<>>,
                                 ![r].cost = cost, ![r].outputs = outs]
             /\ StageOver(r) /\ stops = {} /\ _should_short_circuit(r)
    <2>1. /\ \A q \in Runs : q # r => ctx'[q] = ctx[q]
          /\ ctx'[r] = [ctx[r] EXCEPT !.pc = "finish", !.goal = "succeeded", !.ext = "none",
                                      !.calls = <<>>, !.cost = cost, !.outputs = outs]
      BY <1>3 DEF Shaped
    <2>2. Becomes(r, "finish", ctx[r].stage, cost, <<>>, outs, "succeeded", "none")
      BY <2>1, FieldNames DEF Shaped, Becomes
    <2> QED
      BY <1>1, <1>3, <2>2 DEF stops, cost, outs
  <1>4. CASE ctx' = [ctx EXCEPT ![r].pc = IF last THEN "persist" ELSE "gate",
                                 ![r].stage = IF last THEN @ ELSE @ + 1,
                                 ![r].calls = <<>>, ![r].cost = cost,
                                 ![r].outputs = outs]
             /\ StageOver(r) /\ stops = {}
    <2>0. ctx' = [ctx EXCEPT ![r].pc = pc, ![r].stage = stage,
                             ![r].calls = <<>>, ![r].cost = cost, ![r].outputs = outs]
      BY <1>4
    <2> HIDE DEF pc, stage
    <2>1. /\ \A q \in Runs : q # r => ctx'[q] = ctx[q]
          /\ ctx'[r] = [ctx[r] EXCEPT !.pc = pc, !.stage = stage,
                                      !.calls = <<>>, !.cost = cost, !.outputs = outs]
      BY <2>0 DEF Shaped
    <2>2. Becomes(r, pc, stage, cost, <<>>, outs, ctx[r].goal, ctx[r].ext)
      BY <2>1, FieldNames DEF Shaped, Becomes
    <2> QED
      BY <1>1, <1>4, <2>2 DEF stops, cost, outs, pc, stage, last
  <1>5. CASE Abort(r, "failed", ctx[r].cost) /\ ~Parallel(r)
               /\ \E i \in TopLevel(r) : Calls(r)[i].pc = "raised"
    BY <1>1, <1>5, AbortedContext
  <1>6. CASE StageOver(r) /\ stops # {} /\ Abort(r, "failed", Added(r, Min(stops)))
    BY <1>1, <1>6, AbortedContext DEF stops
  <1> QED
    BY <1>2, <1>3, <1>4, <1>5, <1>6

-----------------------------------------------------------------------------
(* The other steps keep the types and the budgets.                         *)

LEMMA BecomesTyped ==
    ASSUME Typed, Sized, NEW r \in Runs, NEW pc \in Places, NEW stage \in DOMAIN Stages,
           NEW cost \in Nat, NEW calls \in Seq(CallSet), NEW outputs \in [Agents -> Int],
           NEW goal \in {"none", "succeeded", "failed", "cancelled"},
           NEW ext \in {"none", "succeeded", "succeeded_with_caveats"},
           Becomes(r, pc, stage, cost, calls, outputs, goal, ext),
           \A i \in DOMAIN calls : Budgeted(calls[i])
    PROVE  (\A q \in Runs : ContextTyped(q)') /\ Sized'
  <1>1. ContextTyped(r)'
    BY DEF Becomes, ContextTyped
  <1>2. \A q \in Runs : q # r => ContextTyped(q)'
    BY DEF Becomes, ContextTyped, Typed
  <1>3. Sized'
    BY DEF Becomes, Sized, Calls
  <1> QED
    BY <1>1, <1>2, <1>3

LEMMA NoCalls == <<>> \in Seq(CallSet) /\ \A i \in DOMAIN <<>> : Budgeted(<<>>[i])
  OBVIOUS

LEMMA SimpleTyped ==
    ASSUME Typed, Sized, NEW r \in Runs
    PROVE  /\ \A pc \in Places : Clears(r, pc) \/ Moves(r, pc)
                => (\A q \in Runs : ContextTyped(q)') /\ Sized'
           /\ \A cost \in Nat, goal \in {"failed", "cancelled"} : Aborts(r, goal, cost)
                => (\A q \in Runs : ContextTyped(q)') /\ Sized'
           /\ \A ext \in {"succeeded", "succeeded_with_caveats"} : Settles(r, ext)
                => (\A q \in Runs : ContextTyped(q)') /\ Sized'
  <1> DEFINE Goal == (\A q \in Runs : ContextTyped(q)') /\ Sized'
  <1>0. /\ ctx[r].stage \in DOMAIN Stages /\ ctx[r].cost \in Nat
        /\ ctx[r].calls \in Seq(CallSet) /\ ctx[r].outputs \in [Agents -> Int]
        /\ ctx[r].goal \in {"none", "succeeded", "failed", "cancelled"}
        /\ ctx[r].ext \in {"none", "succeeded", "succeeded_with_caveats"}
        /\ \A i \in DOMAIN ctx[r].calls : Budgeted(ctx[r].calls[i])
    BY DEF Typed, ContextTyped, Sized, Calls
  <1>b. /\ Blank \in [Agents -> Int] /\ 1 \in DOMAIN Stages
        /\ "except" \in Places /\ "finish" \in Places
    BY StageNumbers DEF Blank, Nothing, Places
  <1>1. ASSUME NEW pc \in Places, Clears(r, pc) PROVE Goal
    BY <1>1, <1>b, NoCalls, BecomesTyped DEF Clears
  <1>2. ASSUME NEW pc \in Places, Moves(r, pc) PROVE Goal
    BY <1>0, <1>2, BecomesTyped DEF Moves
  <1>3. ASSUME NEW cost \in Nat, NEW goal \in {"failed", "cancelled"}, Aborts(r, goal, cost)
        PROVE  Goal
    BY <1>0, <1>b, <1>3, NoCalls, BecomesTyped, ZenonT(30) DEF Aborts
  <1>4. ASSUME NEW ext \in {"succeeded", "succeeded_with_caveats"}, Settles(r, ext)
        PROVE  Goal
    BY <1>0, <1>b, <1>4, NoCalls, BecomesTyped, ZenonT(30) DEF Settles
  <1> QED
    BY <1>1, <1>2, <1>3, <1>4

LEMMA OutputsTyped ==
    ASSUME NEW r \in Runs, ContextTyped(r)
    PROVE  _stage_outputs(r) \in [Agents -> Int]
  <1> SUFFICES ASSUME NEW a \in Agents PROVE _stage_outputs(r)[a] \in Int
    BY DEF _stage_outputs
  <1> DEFINE slots == {k \in DOMAIN Slots(r) : Slots(r)[k].agent = a}
             mine  == {i \in TopLevel(r) \cap Done(r) : Calls(r)[i].slot \in slots}
  <1>1. _stage_outputs(r)[a] =
          IF mine = {} THEN ctx[r].outputs[a]
          ELSE IF \E k \in slots : Slots(r)[k].source # NoAgent
            THEN Cardinality(mine)
            ELSE Calls(r)[Max(mine)].res.out
    BY DEF _stage_outputs
  <1>2. mine \subseteq DOMAIN Calls(r) /\ mine \subseteq Int
    BY CallsTyped DEF Done
  <1>3. IsFiniteSet(mine) /\ Cardinality(mine) \in Nat
    BY <1>2, CallsTyped, FS_Subset, FS_CardinalityType
  <1> HIDE DEF mine
  <1>4. ASSUME mine # {} PROVE Calls(r)[Max(mine)].res.out \in Int
    <2>1. Max(mine) \in DOMAIN Calls(r)
      BY <1>2, <1>3, <1>4, Extremes
    <2>2. Calls(r)[Max(mine)] \in CallSet
      BY <2>1, CallsTyped
    <2> QED
      BY <2>2 DEF CallSet, Results
  <1>5. ctx[r].outputs[a] \in Int
    BY DEF ContextTyped
  <1> QED
    BY <1>1, <1>3, <1>4, <1>5

LEMMA AddedNat ==
    ASSUME NEW r \in Runs, ContextTyped(r), NEW n
    PROVE  Added(r, n) \in Nat
  <1>1. ctx[r].cost \in Nat /\ Cost(r, 1 .. n) \in Nat
    BY CostNat DEF ContextTyped
  <1> QED
    BY <1>1 DEF Added

LEMMA EnteredTyped ==
    ASSUME NEW r \in Runs, ContextTyped(r)
    PROVE  LET calls == Invocations(r) \o PodInvocations(Invocations(r))
           IN  /\ calls \in Seq(CallSet)
               /\ \A i \in DOMAIN calls : Budgeted(calls[i])
               /\ calls \in Seq(FreshTop(r) \cup FreshMembers(Invocations(r)))
  <1> DEFINE top == Invocations(r)
             F == FreshTop(r) \cup FreshMembers(top)
             calls == top \o PodInvocations(top)
  <1>1. top \in Seq(FreshTop(r)) /\ FreshTop(r) \subseteq CallSet
    BY InvocationsFresh, FreshTyped DEF ContextTyped
  <1>2. top \in Seq(CallSet)
    <2> HIDE DEF top
    <2> QED
      BY <1>1
  <1>3. PodInvocations(top) \in Seq(FreshMembers(top)) /\ FreshMembers(top) \subseteq CallSet
    <2> HIDE DEF top
    <2> QED
      BY <1>2, PodInvocationsFresh, FreshTyped DEF ContextTyped
  <1>4. calls \in Seq(F)
    <2> HIDE DEF top
    <2>1. top \in Seq(F) /\ PodInvocations(top) \in Seq(F)
      BY <1>1, <1>3
    <2> HIDE DEF F
    <2> QED
      BY <2>1
  <1>5. F \subseteq CallSet
    BY <1>1, <1>3
  <1>6. \A c \in F : Budgeted(c)
    BY FreshBudgeted DEF FreshTop, FreshMembers, FreshMember
  <1> HIDE DEF calls, F
  <1>7. calls \in Seq(CallSet) /\ \A i \in DOMAIN calls : Budgeted(calls[i])
    BY <1>4, <1>5, <1>6
  <1> QED
    BY <1>4, <1>7 DEF calls, F

(* A step that leaves the tables alone.                                    *)
LEMMA TablesKept ==
    ASSUME Typed, UNCHANGED <<tables, held>>, Fault \/ UNCHANGED faults,
           \A q \in Runs : ContextTyped(q)'
    PROVE  Typed'
  <1>1. faults' \in 0 .. MaxFaults
    BY FaultTyped DEF Typed
  <1> QED
    BY <1>1 DEF Typed, tables

LEMMA BeginTyped ==
    ASSUME Shaped, Typed, Sized, NEW r \in Runs, CheckRows(r) \/ _idempotency_taken(r) \/ Crash(r)
    PROVE  Typed' /\ Sized'
  <1>1. "off" \in Places /\ "redis" \in Places /\ "insert" \in Places
    BY DEF Places
  <1>2. CASE CheckRows(r)
    <2>1. Clears(r, "redis") \/ Clears(r, "off")
      BY <1>2, ClearedContext DEF CheckRows
    <2> QED
      BY <1>1, <1>2, <2>1, SimpleTyped, TablesKept DEF CheckRows
  <1>3. CASE _idempotency_taken(r)
    <2>1. Moves(r, "insert") \/ Clears(r, "off")
      BY <1>3, ClearedContext, MovedContext DEF _idempotency_taken
    <2>2. (\A q \in Runs : ContextTyped(q)') /\ Sized'
      BY <1>1, <2>1, SimpleTyped
    <2>3. faults' \in 0 .. MaxFaults
      BY <1>3, FaultTyped DEF _idempotency_taken, Typed
    <2>4. held' \subseteq Range(Key)
      <3>1. Key[r] \in Range(Key)
        BY WorkflowAssumption DEF Range
      <3> QED
        BY <1>3, <3>1 DEF _idempotency_taken, Typed
    <2> QED
      BY <1>3, <2>2, <2>3, <2>4 DEF Typed, _idempotency_taken, tables
  <1>4. CASE Crash(r)
    <2>1. Clears(r, "off")
      BY <1>4, ClearedContext DEF Crash
    <2> QED
      BY <1>1, <1>4, <2>1, SimpleTyped, TablesKept DEF Crash
  <1> QED
    BY <1>2, <1>3, <1>4

LEMMA InsertTyped ==
    ASSUME Shaped, Typed, Sized, NEW r \in Runs, _create_workflow_run_row(r)
    PROVE  Typed' /\ Sized'
  <1>0. "off" \in Places /\ "gate" \in Places
    BY DEF Places
  <1>1. Moves(r, "gate") \/ Clears(r, "off")
    BY ClearedContext, MovedContext DEF _create_workflow_run_row
  <1>2. (\A q \in Runs : ContextTyped(q)') /\ Sized'
    BY <1>0, <1>1, SimpleTyped
  <1>3. faults' \in 0 .. MaxFaults
    BY FaultTyped DEF _create_workflow_run_row, Typed
  <1>4. rows' \in [Runs -> RowSet]
    <2> DEFINE n == 1 + Quantify(Runs, Begun)
               row == [NoRow EXCEPT !.status = "running", !.born = n]
    <2>1. n \in Nat
      <3> DEFINE B == {s \in Runs : Begun(s)}
      <3>1. IsFiniteSet(B)
        BY WorkflowAssumption, FS_Subset
      <3>2. Cardinality(B) \in Nat
        BY <3>1, FS_CardinalityType
      <3>3. n = 1 + Cardinality(B)
        BY DEF Quantify
      <3> QED
        BY <3>2, <3>3
    <2> HIDE DEF n
    <2>2. row \in RowSet
      BY <2>1 DEF NoRow, RowSet
    <2>3. UNCHANGED rows \/ rows' = [rows EXCEPT ![r] = row]
      BY DEF _create_workflow_run_row, n
    <2> HIDE DEF row
    <2> QED
      BY <2>2, <2>3 DEF Typed
  <1> QED
    BY <1>2, <1>3, <1>4 DEF Typed, _create_workflow_run_row

LEMMA StageTyped ==
    ASSUME Shaped, Typed, Sized, NEW r \in Runs, EnterStage(r) \/ _run_stage(r)
    PROVE  Typed' /\ Sized'
  <1>0. /\ ContextTyped(r) /\ ctx[r].stage \in DOMAIN Stages /\ ctx[r].cost \in Nat
        /\ ctx[r].outputs \in [Agents -> Int]
        /\ ctx[r].goal \in {"none", "succeeded", "failed", "cancelled"}
        /\ ctx[r].ext \in {"none", "succeeded", "succeeded_with_caveats"}
    BY DEF Typed, ContextTyped
  <1>1. CASE EnterStage(r)
    <2> DEFINE calls == Invocations(r) \o PodInvocations(Invocations(r))
    <2>1. UNCHANGED <<tables, held, faults>>
      BY <1>1, EnteredContext
    <2>2. ASSUME Enters(r, calls) PROVE (\A q \in Runs : ContextTyped(q)') /\ Sized'
      <3>1. calls \in Seq(CallSet) /\ \A i \in DOMAIN calls : Budgeted(calls[i])
        BY <1>0, EnteredTyped
      <3> HIDE DEF calls
      <3> QED
        BY <1>0, <2>2, <3>1, BecomesTyped DEF Enters, Places
    <2>3. ASSUME NEW goal \in {"failed", "cancelled"}, Aborts(r, goal, ctx[r].cost)
          PROVE  (\A q \in Runs : ContextTyped(q)') /\ Sized'
      BY <1>0, <2>3, SimpleTyped
    <2>4. (\A q \in Runs : ContextTyped(q)') /\ Sized'
      BY <1>1, <2>2, <2>3, EnteredContext
    <2> QED
      BY <2>1, <2>4, TablesKept
  <1>2. CASE _run_stage(r)
    <2> DEFINE cost == Added(r, Cardinality(TopLevel(r)))
               outs == _stage_outputs(r)
               pc == IF LastStage(r) THEN "persist" ELSE "gate"
               stage == IF LastStage(r) THEN ctx[r].stage ELSE ctx[r].stage + 1
    <2>1. UNCHANGED <<tables, held, faults>>
      BY <1>2, StageKinds
    <2>2. cost \in Nat /\ outs \in [Agents -> Int] /\ \A n : Added(r, n) \in Nat
      BY <1>0, AddedNat, OutputsTyped
    <2>3. stage \in DOMAIN Stages /\ pc \in Places /\ "finish" \in Places
      BY <1>0, StageNumbers DEF LastStage, Places
    <2>4. ASSUME NEW n \in Nat, Aborts(r, "failed", n)
          PROVE  (\A q \in Runs : ContextTyped(q)') /\ Sized'
      BY <2>4, SimpleTyped
    <2> HIDE DEF cost, outs, pc, stage
    <2>5. ASSUME Becomes(r, "finish", ctx[r].stage, cost, <<>>, outs, "succeeded", "none")
          PROVE  (\A q \in Runs : ContextTyped(q)') /\ Sized'
      BY <1>0, <2>2, <2>3, <2>5, NoCalls, BecomesTyped
    <2>6. ASSUME Becomes(r, pc, stage, cost, <<>>, outs, ctx[r].goal, ctx[r].ext)
          PROVE  (\A q \in Runs : ContextTyped(q)') /\ Sized'
      BY <1>0, <2>2, <2>3, <2>6, NoCalls, BecomesTyped, ZenonT(30)
    <2>7. (\A q \in Runs : ContextTyped(q)') /\ Sized'
      BY <1>0, <1>2, <2>2, <2>4, <2>5, <2>6, StageKinds DEF cost, outs, pc, stage
    <2> QED
      BY <2>1, <2>7, TablesKept
  <1> QED
    BY <1>1, <1>2

LEMMA PersistTyped ==
    ASSUME Shaped, Typed, Sized, NEW r \in Runs, _persist_predictions(r)
    PROVE  Typed' /\ Sized'
  <1>1. /\ ctx[r].cost \in Nat /\ ctx[r].outputs[Judge] \in Int
    BY AgentTypes DEF Typed, ContextTyped
  <1>2. (\A q \in Runs : ContextTyped(q)') /\ Sized'
    BY <1>1, SettledContext, AbortedContext, SimpleTyped DEF _persist_predictions
  <1>3. faults' \in 0 .. MaxFaults
    BY FaultTyped DEF _persist_predictions, Typed
  <1>4. predictions' \in [Runs -> Nat]
    BY <1>1, MaxZero DEF _persist_predictions, Typed
  <1> QED
    BY <1>2, <1>3, <1>4 DEF Typed, _persist_predictions

LEMMA FinalizeTyped ==
    ASSUME Shaped, RowFirst, Typed, Sized, NEW r \in Runs, _finalize_workflow_run(r)
    PROVE  Typed' /\ Sized'
  <1>1. /\ ctx[r].cost \in Nat /\ ctx[r].goal \in {"succeeded", "failed", "cancelled"}
        /\ ctx[r].ext \in {"none", "succeeded", "succeeded_with_caveats"}
        /\ "off" \in Places
    BY DEF Typed, ContextTyped, RowFirst, _finalize_workflow_run, Places
  <1>0. Rounded(ctx[r].cost) \in Nat
    BY <1>1, RoundedNear
  <1>2. (\A q \in Runs : ContextTyped(q)') /\ Sized'
    BY <1>1, ClearedContext, AbortedContext, SimpleTyped DEF _finalize_workflow_run
  <1>3. faults' \in 0 .. MaxFaults
    BY FaultTyped DEF _finalize_workflow_run, Typed
  <1>4. rows' \in [Runs -> RowSet]
    <2> DEFINE row == [rows[r] EXCEPT !.status = ctx[r].goal, !.ext = ctx[r].ext,
                                      !.tokens = ctx[r].cost,
                                      !.cost = Rounded(ctx[r].cost)]
    <2>1. UNCHANGED rows \/ rows' = [rows EXCEPT ![r] = row]
      BY DEF _finalize_workflow_run
    <2>2. rows[r] \in RowSet
      BY DEF Typed
    <2>3. row \in RowSet
      BY <1>0, <1>1, <2>2 DEF RowSet
    <2> HIDE DEF row
    <2> QED
      BY <2>1, <2>3 DEF Typed
  <1> QED
    BY <1>2, <1>3, <1>4 DEF Typed, _finalize_workflow_run

LEMMA SweepTyped ==
    ASSUME Typed, Sized, reconcile_orphan_runs
    PROVE  Typed' /\ Sized'
  <1>1. PICK n : rows' = [r \in Runs |->
                     IF rows[r].status = "running" /\ rows[r].born <= n
                       THEN [rows[r] EXCEPT !.status = "failed", !.ext = "orphaned"]
                       ELSE rows[r]]
    BY DEF reconcile_orphan_runs
  <1>2. \A row \in RowSet : [row EXCEPT !.status = "failed", !.ext = "orphaned"] \in RowSet
    BY DEF RowSet
  <1>3. rows' \in [Runs -> RowSet]
    BY <1>1, <1>2 DEF Typed
  <1> QED
    BY <1>3 DEF reconcile_orphan_runs, Typed, Sized, ContextTyped, Calls

-----------------------------------------------------------------------------

BudgetInv == KeyInv /\ Typed /\ Sized

LEMMA BudgetInit == Init => BudgetInv
  <1> SUFFICES ASSUME Init PROVE Typed /\ Sized
    BY KeyInit DEF BudgetInv
  <1>1. \A r \in Runs : /\ ctx[r].pc = "new" /\ ctx[r].stage = 1 /\ ctx[r].cost = 0
                        /\ ctx[r].calls = <<>> /\ ctx[r].outputs = Blank
                        /\ ctx[r].goal = "none" /\ ctx[r].ext = "none"
    BY DEF Init, Context, Blank
  <1>2. Blank \in [Agents -> Int] /\ "new" \in Places /\ 1 \in DOMAIN Stages
    BY StageNumbers DEF Blank, Nothing, Places
  <1>3. \A r \in Runs : ContextTyped(r)
    <2> SUFFICES ASSUME NEW r \in Runs PROVE ContextTyped(r)
      OBVIOUS
    <2>1. ctx[r].calls \in Seq(CallSet)
      BY <1>1, NoCalls
    <2>2. /\ ctx[r].pc \in Places /\ ctx[r].stage \in DOMAIN Stages
          /\ ctx[r].outputs \in [Agents -> Int]
      BY <1>1, <1>2
    <2>3. /\ ctx[r].cost \in Nat
          /\ ctx[r].goal \in {"none", "succeeded", "failed", "cancelled"}
          /\ ctx[r].ext \in {"none", "succeeded", "succeeded_with_caveats"}
      BY <1>1
    <2> QED
      BY <2>1, <2>2, <2>3 DEF ContextTyped
  <1>4. Sized
    BY <1>1 DEF Sized, Calls
  <1>5. rows \in [Runs -> RowSet]
    <2>1. NoRow \in RowSet
      BY DEF NoRow, RowSet
    <2> QED
      BY <2>1 DEF Init
  <1>6. audit \in [Runs -> [Agents -> Heard]]
    <2>1. Unheard \in Heard
      BY DEF Unheard, Heard, Nothing
    <2> QED
      BY <2>1 DEF Init
  <1>7. agentRuns \subseteq AgentRow /\ IsFiniteSet(agentRuns)
    BY FS_EmptySet DEF Init
  <1>8. faults \in 0 .. MaxFaults /\ held \subseteq Range(Key) /\ predictions \in [Runs -> Nat]
    BY WorkflowAssumption DEF Init
  <1> QED
    BY <1>3, <1>4, <1>5, <1>6, <1>7, <1>8 DEF Typed

LEMMA BudgetStep == BudgetInv /\ [Next]_vars => BudgetInv'
  <1> SUFFICES ASSUME BudgetInv, [Next]_vars PROVE BudgetInv'
    OBVIOUS
  <1>0. Shaped /\ RowFirst /\ Typed /\ Sized /\ KeyInv'
    BY KeyStep DEF BudgetInv, KeyInv
  <1>1. ASSUME NEW r \in Runs, CheckRows(r) \/ Step(r) \/ Crash(r) PROVE Typed' /\ Sized'
    BY <1>0, <1>1, BeginTyped, InsertTyped, StageTyped, CallStepTyped, PersistTyped,
       FinalizeTyped DEF Step
  <1>2. CASE Next
    BY <1>0, <1>1, <1>2, SweepTyped DEF Next, BudgetInv
  <1>3. CASE UNCHANGED vars
    BY <1>0, <1>3 DEF vars, tables, BudgetInv, Typed, ContextTyped, Sized, Calls
  <1> QED
    BY <1>2, <1>3

LEMMA BudgetsKept == Spec => []BudgetInv
  BY BudgetInit, BudgetStep, PTL DEF Spec

(* The rows, the responses, the predictions and the contexts have their    *)
(* types, for every workflow and every number of runs (WorkflowContext,    *)
(* _AgentInvocation).                                                      *)
THEOREM TypeCorrect == Spec => []TypeOK
  <1>1. ASSUME BudgetInv PROVE TypeOK
    <2>1. \A r \in Runs : \A i \in DOMAIN Calls(r) :
            /\ Calls(r)[i].transient <= MaxTransient[Calls(r)[i].agent] + 1
            /\ Calls(r)[i].validation <= MaxValidation[Calls(r)[i].agent] + 1
      <3> SUFFICES ASSUME NEW r \in Runs, NEW i \in DOMAIN Calls(r)
                   PROVE  /\ Calls(r)[i].transient <= MaxTransient[Calls(r)[i].agent] + 1
                          /\ Calls(r)[i].validation <= MaxValidation[Calls(r)[i].agent] + 1
        OBVIOUS
      <3> DEFINE c == Calls(r)[i]
      <3>1. c \in CallSet /\ Budgeted(c)
        BY <1>1, CallsTyped DEF BudgetInv, Typed, Sized
      <3>2. c.agent \in Agents /\ c.transient \in Nat /\ c.validation \in Nat
        BY <3>1 DEF CallSet
      <3>3. MaxTransient[c.agent] \in Nat /\ MaxValidation[c.agent] \in Nat
        BY <3>2, Budgets
      <3> HIDE DEF c
      <3>4. c.transient <= MaxTransient[c.agent] + 1 /\ c.validation <= MaxValidation[c.agent] + 1
        BY <3>1, <3>2, <3>3 DEF Budgeted
      <3> QED
        BY <3>4 DEF c
    <2> QED
      BY <1>1, <2>1 DEF BudgetInv, Typed, TypeOK, ContextTyped, RowSet, AgentRow, Heard
  <1> QED
    BY <1>1, BudgetsKept, PTL

(* Whatever mix of failures, rejected answers and the fallback a call      *)
(* meets, it sends no more requests than its budgets allow together        *)
(* (_execute_with_retries).                                                *)
THEOREM AttemptsWithin == Spec => []AttemptsBounded
  <1>1. ASSUME BudgetInv PROVE AttemptsBounded
    <2> SUFFICES ASSUME NEW r \in Runs, NEW i \in DOMAIN Calls(r)
                 PROVE  LET c == Calls(r)[i]
                            rounds == IF c.agent \in Degrades THEN 2 ELSE 1
                        IN  c.tries <= MaxValidation[c.agent]
                                         + rounds * (MaxTransient[c.agent] + 1)
      BY DEF AttemptsBounded
    <2> DEFINE c == Calls(r)[i]
    <2>1. c \in CallSet /\ Budgeted(c)
      BY <1>1, CallsTyped DEF BudgetInv, Typed, Sized
    <2>2. /\ c.agent \in Agents /\ c.transient \in Nat /\ c.validation \in Nat
          /\ c.tries \in Nat /\ c.fallback \in BOOLEAN
      BY <2>1 DEF CallSet
    <2>3. /\ MaxTransient[c.agent] \in Nat /\ MaxValidation[c.agent] \in Nat
          /\ MaxTries(c.agent) \in Nat
          /\ MaxTries(c.agent) = MaxValidation[c.agent] +
               (IF c.agent \in Degrades THEN 2 * (MaxTransient[c.agent] + 1)
                                        ELSE MaxTransient[c.agent] + 1)
      BY <2>2, Budgets
    <2> HIDE DEF c
    <2>4. c.tries <= MaxTries(c.agent)
      BY <2>1, <2>2, <2>3 DEF Budgeted
    <2> QED
      BY <2>4 DEF c, MaxTries, Rounds
  <1> QED
    BY <1>1, BudgetsKept, PTL

=============================================================================
