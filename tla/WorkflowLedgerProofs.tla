------------------------ MODULE WorkflowLedgerProofs ------------------------
(* The order in which the calls of a stage go on, what follows for the rows*)
(* of agent_runs, and the theorems about the costs, the rows left running, *)
(* the ceiling and the predictions.                                        *)
EXTENDS WorkflowCallsProofs

-----------------------------------------------------------------------------
(* The order of the calls of a stage.                                      *)

(* A call of the stage itself: those before it are too, in a sequential    *)
(* stage they are done before it begins, and only a pod used to another   *)
(* agent than its slot's.                                                  *)
TopInOrder(s, slots, par, i) ==
    /\ s[i].slot \in DOMAIN slots
    /\ \/ s[i].agent = slots[s[i].slot].agent
       \/ slots[s[i].slot].agent = Pod /\ s[i].pc \notin {"new", "pod"}
    /\ s[i].pc = "pod" => s[i].agent = Pod
    /\ \A j \in 1 .. i - 1 :
          /\ s[j].pod = 0
          /\ ~par /\ s[i].pc # "new" => s[j].pc = "done"

(* A call of a sub-agent: it is under way only while its pod waits for it. *)
MemberInOrder(s, i) ==
    /\ s[i].agent # Pod /\ s[i].pc \notin {"pod", "aggregate"}
    /\ s[i].pod \in DOMAIN s /\ s[s[i].pod].pod = 0
    /\ s[s[i].pod].pc \in {"new", "pod"} => s[s[i].pod].agent = Pod
    /\ s[s[i].pod].pc = "new" => s[i].pc = "new"
    /\ s[s[i].pod].pc \notin {"new", "pod"} => Over(s[i])

InOrder(s, slots, par) ==
    \A i \in DOMAIN s :
       /\ s[i].agent = Pod => s[i].pc \in {"new", "pod"}
       /\ s[i].pod = 0 => TopInOrder(s, slots, par, i)
       /\ s[i].pod # 0 => MemberInOrder(s, i)

Ordered ==
    \A r \in Runs : /\ InOrder(Calls(r), Slots(r), Parallel(r))
                    /\ ctx[r].pc # "stage" => Calls(r) = <<>>

(* What each kind of step does to the fields of its call.                  *)
LEMMA CallPhases ==
    ASSUME Typed, Sized, Ordered, NEW r \in Runs, NEW i \in DOMAIN Calls(r), NEW d,
           CallKind(r, i, d), CallBecomes(r, i, d)
    PROVE  LET c == Calls(r)[i] IN
           /\ d.slot = c.slot /\ d.pod = c.pod
           /\ Opens(r, i, d) => /\ c.pc = "new" /\ d.pc = "pod"
                                /\ c.agent = Pod /\ d.agent = Pod /\ c.pod = 0
           /\ Aggregates(r, i, d) => /\ c.pc = "pod" /\ d.pc = "aggregate"
                                     /\ c.agent = Pod /\ d.agent = Aggregator /\ c.pod = 0
           /\ ~Aggregates(r, i, d) => d.agent = c.agent
           /\ Starts(r, i, d) => c.pc \in {"new", "aggregate"} /\ d.pc \in {"api", "record"}
           /\ Serves(r, i, d) => /\ c.pc \in {"new", "aggregate"} /\ d.pc = "done"
                                 /\ d.res.cost = 0
           /\ Raises(r, i, d) => /\ c.pc \in {"new", "aggregate", "record"}
                                 /\ d.pc = "raised"
           /\ Turn(r, i, d) => c.pc = "api" /\ d.pc \in {"api", "record"}
           /\ Completes(r, i, d) => c.pc = "record" /\ d.pc = "done" /\ d.res = c.res
  <1> DEFINE c == Calls(r)[i]
  <1>1. c \in CallSet /\ Budgeted(c)
    BY CallsTyped DEF Typed, Sized
  <1>2. /\ c.agent = Pod => c.pc \in {"new", "pod"}
        /\ c.pod # 0 => c.agent # Pod /\ c.pc \notin {"pod", "aggregate"}
        /\ c.pod = 0 /\ c.pc = "pod" => c.agent = Pod
    BY DEF Ordered, InOrder, TopInOrder, MemberInOrder
  <1> HIDE DEF c
  <1>3. ASSUME Opens(r, i, d)
        PROVE  /\ d.slot = c.slot /\ d.pod = c.pod /\ d.pc = "pod" /\ d.agent = c.agent
               /\ c.pc = "new" /\ c.agent = Pod /\ c.pod = 0
    <2>1. c.agent = Pod /\ d = [c EXCEPT !.pc = "pod"] /\ MayBegin(r, i)
      BY <1>3 DEF Opens, c
    <2>2. c.pc \in {"new", "aggregate"}
      BY <2>1, MayBeginNew DEF c
    <2> QED
      BY <1>1, <1>2, <2>1, <2>2 DEF CallSet
  <1>4. ASSUME Aggregates(r, i, d)
        PROVE  /\ d.slot = c.slot /\ d.pod = c.pod /\ d.pc = "aggregate"
               /\ d.agent = Aggregator /\ c.pc = "pod" /\ c.agent = Pod /\ c.pod = 0
    <2>1. /\ c.pc = "pod"
          /\ d = [_AgentInvocation(Aggregator, c.slot, 0) EXCEPT !.pc = "aggregate"]
      BY <1>4 DEF Aggregates, c
    <2>2. d.slot = c.slot /\ d.pod = 0 /\ d.pc = "aggregate" /\ d.agent = Aggregator
      BY <2>1 DEF _AgentInvocation
    <2> QED
      BY <1>2, <2>1, <2>2
  <1>5. ASSUME NEW pc, NEW res, d = [c EXCEPT !.pc = pc, !.res = res]
        PROVE  d.slot = c.slot /\ d.pod = c.pod /\ d.pc = pc /\ d.agent = c.agent /\ d.res = res
    BY <1>1, <1>5 DEF CallSet
  <1>6. ASSUME NEW pc, NEW res, d = Returned(c, pc, res)
        PROVE  d.slot = c.slot /\ d.pod = c.pod /\ d.pc = pc /\ d.agent = c.agent /\ d.res = res
    BY <1>6 DEF Returned, _AgentInvocation
  <1>7. ASSUME Starts(r, i, d)
        PROVE  /\ d.slot = c.slot /\ d.pod = c.pod /\ d.agent = c.agent
               /\ c.pc \in {"new", "aggregate"} /\ d.pc \in {"api", "record"}
    BY <1>5, <1>7, MayBeginNew DEF Starts, c
  <1>8. ASSUME Serves(r, i, d)
        PROVE  /\ d.slot = c.slot /\ d.pod = c.pod /\ d.agent = c.agent
               /\ c.pc \in {"new", "aggregate"} /\ d.pc = "done" /\ d.res.cost = 0
    <2> DEFINE res == Result("succeeded", 0, audit[Original[r]][c.agent].out)
    <2>1. d = [c EXCEPT !.pc = "done", !.res = res] /\ MayBegin(r, i)
      BY <1>8 DEF Serves, c
    <2>2. res.cost = 0
      BY DEF Result
    <2> HIDE DEF res
    <2> QED
      BY <1>5, <2>1, <2>2, MayBeginNew DEF c
  <1>9. ASSUME Raises(r, i, d)
        PROVE  /\ d.slot = c.slot /\ d.pod = c.pod /\ d.agent = c.agent
               /\ c.pc \in {"new", "aggregate", "record"} /\ d.pc = "raised"
    BY <1>5, <1>6, <1>9, MayBeginNew DEF Raises, c
  <1>10. ASSUME Turn(r, i, d)
         PROVE  /\ d.slot = c.slot /\ d.pod = c.pod /\ d.agent = c.agent
                /\ c.pc = "api" /\ d.pc \in {"api", "record"}
    <2>1. c.pc = "api"
      BY <1>10 DEF Turn, c
    <2>2. CASE Answers(r, i, d)
      <3>1. PICK out \in Says[c.agent], used \in Usage[c.agent] :
              d = AnsweredWith(c, used, out)
        BY <2>2 DEF Answers, c
      <3>2. c.agent \in Agents
        BY <1>1 DEF CallSet
      <3>3. out \in Int /\ used \in Nat
        BY <3>2, AgentTypes
      <3> QED
        BY <1>1, <2>1, <3>1, <3>3, TurnBudgeted
    <2>3. CASE Retries(r, i, d)
      <3>1. d \in {Repaired(c), Retried(c)}
        BY <2>3 DEF Retries, c
      <3> QED
        BY <1>1, <2>1, <3>1, TurnBudgeted
    <2> QED
      BY <1>10, <2>2, <2>3 DEF Turn
  <1>11. ASSUME Completes(r, i, d)
         PROVE  /\ d.slot = c.slot /\ d.pod = c.pod /\ d.agent = c.agent
                /\ c.pc = "record" /\ d.pc = "done" /\ d.res = c.res
    BY <1>6, <1>11 DEF Completes, c
  <1>12. d.slot = c.slot /\ d.pod = c.pod /\ (~Aggregates(r, i, d) => d.agent = c.agent)
    BY <1>3, <1>4, <1>7, <1>8, <1>9, <1>10, <1>11 DEF CallKind
  <1> QED
    BY <1>3, <1>4, <1>7, <1>8, <1>9, <1>10, <1>11, <1>12 DEF c

(* A call goes on in the order of its stage.                               *)
LEMMA CallsInOrder ==
    ASSUME Typed, Sized, Ordered, NEW r \in Runs, NEW i \in DOMAIN Calls(r), NEW d,
           CallKind(r, i, d), CallBecomes(r, i, d)
    PROVE  InOrder([Calls(r) EXCEPT ![i] = d], Slots(r), Parallel(r))
  <1> DEFINE s == Calls(r)
             c == s[i]
             t == [s EXCEPT ![i] = d]
             slots == Slots(r)
             par == Parallel(r)
  <1>0. /\ d.slot = c.slot /\ d.pod = c.pod
        /\ Opens(r, i, d) => /\ c.pc = "new" /\ d.pc = "pod"
                             /\ c.agent = Pod /\ d.agent = Pod /\ c.pod = 0
        /\ Aggregates(r, i, d) => /\ c.pc = "pod" /\ d.pc = "aggregate"
                                  /\ c.agent = Pod /\ d.agent = Aggregator /\ c.pod = 0
        /\ ~Aggregates(r, i, d) => d.agent = c.agent
        /\ Starts(r, i, d) => c.pc \in {"new", "aggregate"} /\ d.pc \in {"api", "record"}
        /\ Serves(r, i, d) => c.pc \in {"new", "aggregate"} /\ d.pc = "done"
        /\ Raises(r, i, d) => c.pc \in {"new", "aggregate", "record"} /\ d.pc = "raised"
        /\ Turn(r, i, d) => c.pc = "api" /\ d.pc \in {"api", "record"}
        /\ Completes(r, i, d) => c.pc = "record" /\ d.pc = "done"
    BY CallPhases
  <1>1. /\ DOMAIN t = DOMAIN s /\ t[i] = d /\ \A j \in DOMAIN s : j # i => t[j] = s[j]
        /\ \A j \in DOMAIN s : j \in Nat \ {0} /\ 1 .. j \subseteq DOMAIN s
        /\ \A j \in DOMAIN s : t[j].pod = s[j].pod /\ t[j].slot = s[j].slot
    <2>1. s \in Seq(CallSet)
      BY CallsTyped DEF Typed
    <2> HIDE DEF s
    <2>2. /\ DOMAIN t = DOMAIN s /\ t[i] = d /\ \A j \in DOMAIN s : j # i => t[j] = s[j]
      BY <2>1 DEF s
    <2>3. \A j \in DOMAIN s : j \in Nat \ {0} /\ 1 .. j \subseteq DOMAIN s
      BY <2>1
    <2>4. \A j \in DOMAIN s : t[j].pod = s[j].pod /\ t[j].slot = s[j].slot
      BY <1>0, <2>2
    <2> QED
      BY <2>2, <2>3, <2>4
  <1>2. InOrder(s, slots, par)
    BY DEF Ordered
  <1>3. c.pc = "new" =>
           /\ c.pod # 0 => s[c.pod].pc = "pod"
           /\ ~par /\ c.pod = 0 => \A j \in 1 .. i - 1 : s[j].pc = "done"
    <2>1. c.pc = "new" => MayBegin(r, i)
      BY <1>0 DEF CallKind, Opens, Starts, Serves, Raises
    <2> QED
      BY <2>1 DEF MayBegin
  <1>4. c.pc = "new" /\ d.pc # "pod" => c.agent # Pod
    BY <1>0 DEF CallKind, Starts, Serves, Raises
  <1>5. c.pc \notin {"done", "raised"} /\ d.pc # "new"
    BY <1>0 DEF CallKind
  <1>6. c.pc = "pod" => d.pc = "aggregate" /\ \A j \in DOMAIN s : s[j].pod = i => Over(s[j])
    BY <1>0 DEF CallKind, Aggregates, Members
  <1>7. d.pc \in {"new", "pod"} => c.pc = "new" /\ d.pc = "pod" /\ d.agent = Pod /\ c.agent = Pod
    BY <1>0 DEF CallKind
  <1>8. d.agent = c.agent \/ (c.agent = Pod /\ c.pc = "pod" /\ c.pod = 0 /\ d.agent = Aggregator)
    BY <1>0
  <1>9. d.pc = "aggregate" => c.pc = "pod" /\ c.pod = 0
    BY <1>0 DEF CallKind
  <1>10. d.agent = Pod => d.pc = "pod"
    BY <1>0, <1>2, <1>4, <1>5, AgentTypes DEF CallKind, InOrder
  <1> HIDE DEF t, s, slots, par
  <1>11. ASSUME NEW j \in DOMAIN t, t[j].pod = 0 PROVE TopInOrder(t, slots, par, j)
    <2>1. TopInOrder(s, slots, par, j) /\ j \in DOMAIN s
      BY <1>1, <1>2, <1>11 DEF InOrder
    <2>2. \A k \in 1 .. j - 1 : k \in DOMAIN s /\ t[k].pod = 0
      BY <1>1, <2>1 DEF TopInOrder
    <2>3. CASE j = i
      <3>1. \/ d.agent = slots[d.slot].agent
            \/ slots[d.slot].agent = Pod /\ d.pc \notin {"new", "pod"}
        BY <1>0, <1>1, <1>7, <1>8, <2>1, <2>3 DEF TopInOrder
      <3>2. \A k \in 1 .. j - 1 : t[k] = s[k]
        BY <1>1, <2>2, <2>3
      <3>3. ASSUME ~par, NEW k \in 1 .. j - 1 PROVE t[k].pc = "done"
        <4>1. c.pod = 0
          BY <1>1, <1>11, <2>3
        <4> QED
          BY <1>3, <2>1, <2>3, <3>2, <3>3, <4>1 DEF TopInOrder
      <3>4. d.pc = "pod" => d.agent = Pod
        BY <1>7
      <3> QED
        BY <1>0, <1>1, <2>1, <2>2, <2>3, <3>1, <3>3, <3>4 DEF TopInOrder
    <2>4. CASE j # i
      <3>1. t[j] = s[j]
        BY <1>1, <2>1, <2>4
      <3>2. ASSUME ~par, t[j].pc # "new", NEW k \in 1 .. j - 1 PROVE t[k].pc = "done"
        <4>1. s[k].pc = "done"
          BY <2>1, <3>1, <3>2 DEF TopInOrder
        <4>2. k # i
          BY <1>5, <4>1
        <4> QED
          BY <1>1, <2>2, <4>1, <4>2
      <3> QED
        BY <2>1, <2>2, <3>1, <3>2 DEF TopInOrder
    <2> QED
      BY <2>3, <2>4
  <1>12. ASSUME NEW j \in DOMAIN t, t[j].pod # 0 PROVE MemberInOrder(t, j)
    <2>1. MemberInOrder(s, j) /\ j \in DOMAIN s /\ t[j].pod = s[j].pod
      BY <1>1, <1>2, <1>12 DEF InOrder
    <2> DEFINE p == s[j].pod
    <2>2. /\ p \in DOMAIN s /\ s[p].pod = 0 /\ t[p].pod = 0 /\ t[j].pod = p
          /\ s[p].pc \in {"new", "pod"} => s[p].agent = Pod
          /\ s[p].pc = "new" => s[j].pc = "new"
          /\ s[p].pc \notin {"new", "pod"} => Over(s[j])
          /\ s[j].agent # Pod /\ s[j].pc \notin {"pod", "aggregate"}
          /\ p # 0
      BY <1>1, <1>12, <2>1 DEF MemberInOrder
    <2> HIDE DEF p
    <2>3. CASE j = i
      <3>1. p # i /\ t[p] = s[p] /\ t[j] = d /\ c = s[j]
        BY <1>1, <2>1, <2>2, <2>3 DEF p
      <3>2. s[p].pc = "pod"
        BY <1>3, <1>5, <2>2, <2>3, <3>1 DEF Over, p
      <3>3. d.agent # Pod /\ d.pc \notin {"pod", "aggregate"}
        BY <1>7, <1>8, <1>9, <2>2, <2>3, <3>1 DEF p
      <3> QED
        BY <1>1, <2>2, <3>1, <3>2, <3>3 DEF MemberInOrder
    <2>4. CASE j # i /\ p = i
      <3>1. t[j] = s[j] /\ t[p] = d /\ c = s[p]
        BY <1>1, <2>1, <2>4
      <3>2. d.pc \in {"new", "pod"} => d.pc = "pod" /\ d.agent = Pod
        BY <1>7
      <3>3. d.pc \notin {"new", "pod"} => Over(s[j])
        <4>1. CASE c.pc = "new"
          BY <1>4, <2>2, <3>1, <4>1
        <4>2. CASE c.pc = "pod"
          BY <1>6, <2>1, <2>4, <4>2 DEF p
        <4>3. CASE c.pc \notin {"new", "pod"}
          BY <2>2, <3>1, <4>3
        <4> QED
          BY <4>1, <4>2, <4>3
      <3> QED
        BY <1>1, <2>2, <3>1, <3>2, <3>3 DEF MemberInOrder
    <2>5. CASE j # i /\ p # i
      <3>1. t[j] = s[j] /\ t[p] = s[p]
        BY <1>1, <2>1, <2>2, <2>5
      <3> QED
        BY <1>1, <2>2, <3>1 DEF MemberInOrder
    <2> QED
      BY <2>3, <2>4, <2>5
  <1>13. \A j \in DOMAIN t : t[j].agent = Pod => t[j].pc \in {"new", "pod"}
    BY <1>1, <1>2, <1>10 DEF InOrder
  <1>14. InOrder(t, slots, par)
    BY <1>11, <1>12, <1>13 DEF InOrder
  <1> QED
    BY <1>14 DEF t, s, slots, par

(* The calls of a stage are laid out in order: its own, then those of the  *)
(* sub-agents, each with its pod.                                          *)
LEMMA EnteredInOrder ==
    ASSUME NEW r \in Runs, ContextTyped(r)
    PROVE  LET calls == Invocations(r) \o PodInvocations(Invocations(r))
           IN  /\ InOrder(calls, Slots(r), Parallel(r))
               /\ \A i \in DOMAIN calls : calls[i].pc = "new"
  <1> DEFINE top == Invocations(r)
             rest == PodInvocations(top)
             s == top \o rest
             slots == Slots(r)
  <1>1. top \in Seq(FreshTop(r)) /\ FreshTop(r) \subseteq CallSet
    BY InvocationsFresh, FreshTyped DEF ContextTyped
  <1>2. rest \in Seq(FreshMembers(top))
    <2>1. top \in Seq(CallSet)
      <3> HIDE DEF top
      <3> QED
        BY <1>1
    <2> QED
      BY <2>1, PodInvocationsFresh
  <1>3. \A c \in FreshTop(r) : /\ c.pod = 0 /\ c.pc = "new"
                               /\ c.slot \in DOMAIN slots /\ c.agent = slots[c.slot].agent
    BY DEF FreshTop, _AgentInvocation
  <1>4. \A c \in FreshMembers(top) :
           /\ c.pc = "new" /\ c.agent # Pod
           /\ c.pod \in DOMAIN top /\ top[c.pod].agent = Pod
    <2> SUFFICES ASSUME NEW p \in DOMAIN top, top[p].agent = Pod, NEW j \in DOMAIN PodAgents
                 PROVE  LET c == _AgentInvocation(PodAgents[j], top[p].slot, p)
                        IN  /\ c.pc = "new" /\ c.agent # Pod
                            /\ c.pod \in DOMAIN top /\ top[c.pod].agent = Pod
      BY DEF FreshMembers, FreshMember
    <2> HIDE DEF top
    <2> QED
      BY AgentTypes DEF _AgentInvocation
  <1> DEFINE n == Len(top)
  <1>5. /\ n \in Nat /\ DOMAIN top = 1 .. n
        /\ \A i \in 1 .. n : s[i] = top[i] /\ s[i] \in FreshTop(r) /\ i \in DOMAIN s
        /\ \A i \in DOMAIN s : /\ i \in Nat \ {0}
                               /\ i \notin 1 .. n => s[i] \in FreshMembers(top)
    <2> HIDE DEF top, rest
    <2>1. n \in Nat /\ DOMAIN top = 1 .. n /\ \A i \in 1 .. n : top[i] \in FreshTop(r)
      BY <1>1
    <2>2. /\ Len(rest) \in Nat /\ \A k \in 1 .. Len(rest) : rest[k] \in FreshMembers(top)
      BY <1>2
    <2>3. Len(s) = n + Len(rest) /\ DOMAIN s = 1 .. n + Len(rest)
      BY <1>1, <1>2
    <2>4. \A i \in 1 .. n : s[i] = top[i]
      BY <1>1, <1>2
    <2>5. \A i \in DOMAIN s : i \notin 1 .. n => s[i] = rest[i - n] /\ i - n \in 1 .. Len(rest)
      BY <1>1, <1>2, <2>1, <2>2, <2>3
    <2> QED
      BY <2>1, <2>2, <2>3, <2>4, <2>5
  <1> HIDE DEF s, top, rest, n, slots
  <1>6. ASSUME NEW i \in 1 .. n PROVE TopInOrder(s, slots, Parallel(r), i) /\ s[i].pod = 0
    <2>1. \A j \in 1 .. i - 1 : j \in 1 .. n
      BY <1>5
    <2> QED
      BY <1>3, <1>5, <1>6, <2>1 DEF TopInOrder
  <1>7. ASSUME NEW i \in DOMAIN s, i \notin 1 .. n
        PROVE  MemberInOrder(s, i) /\ s[i].pod # 0
    <2>1. /\ s[i].pc = "new" /\ s[i].agent # Pod
          /\ s[i].pod \in 1 .. n /\ top[s[i].pod].agent = Pod
      BY <1>4, <1>5, <1>7
    <2>2. /\ s[i].pod \in DOMAIN s /\ s[s[i].pod].pod = 0
          /\ s[s[i].pod].pc = "new" /\ s[s[i].pod].agent = Pod
      BY <1>3, <1>5, <2>1
    <2> QED
      BY <1>5, <2>1, <2>2 DEF MemberInOrder
  <1>8. \A i \in DOMAIN s : s[i].pc = "new"
    BY <1>3, <1>4, <1>5
  <1>9. InOrder(s, slots, Parallel(r))
    BY <1>6, <1>7, <1>8 DEF InOrder
  <1> QED
    BY <1>8, <1>9 DEF s, slots, top, rest

LEMMA NothingInOrder ==
    ASSUME NEW slots, NEW par
    PROVE  InOrder(<<>>, slots, par)
  BY DEF InOrder

(* The other steps leave a run without calls.                              *)
Empties(r) == /\ \A q \in Runs : q # r => ctx'[q] = ctx[q]
              /\ ctx'[r].calls = <<>>

LEMMA EmptyInOrder ==
    ASSUME Ordered, NEW r \in Runs, Empties(r)
    PROVE  Ordered'
  BY NothingInOrder DEF Empties, Ordered, Calls, Slots, Parallel

LEMMA OthersEmpty ==
    ASSUME Shaped, Ordered, NEW r \in Runs,
           \/ CheckRows(r) \/ _idempotency_taken(r) \/ _create_workflow_run_row(r)
           \/ _run_stage(r) \/ _persist_predictions(r) \/ _finalize_workflow_run(r)
           \/ Crash(r)
    PROVE  Empties(r)
  <1>1. ASSUME NEW pc, Clears(r, pc) PROVE Empties(r)
    BY <1>1 DEF Clears, Becomes, Empties
  <1>2. ASSUME NEW pc, Moves(r, pc), ctx[r].pc # "stage" PROVE Empties(r)
    BY <1>2 DEF Moves, Becomes, Empties, Ordered, Calls
  <1>3. ASSUME NEW goal, NEW cost, Aborts(r, goal, cost) PROVE Empties(r)
    BY <1>3 DEF Aborts, Becomes, Empties
  <1>4. ASSUME NEW ext, Settles(r, ext) PROVE Empties(r)
    BY <1>4 DEF Settles, Becomes, Empties
  <1>5. CASE CheckRows(r)
    BY <1>1, <1>5, ClearedContext DEF CheckRows
  <1>6. CASE _idempotency_taken(r)
    BY <1>1, <1>2, <1>6, ClearedContext, MovedContext DEF _idempotency_taken
  <1>7. CASE _create_workflow_run_row(r)
    BY <1>1, <1>2, <1>7, ClearedContext, MovedContext DEF _create_workflow_run_row
  <1>8. CASE _run_stage(r)
    BY <1>3, <1>8, StageKinds DEF Becomes, Empties
  <1>9. CASE _persist_predictions(r)
    BY <1>3, <1>4, <1>9, SettledContext, AbortedContext DEF _persist_predictions
  <1>10. CASE _finalize_workflow_run(r)
    BY <1>1, <1>3, <1>10, ClearedContext, AbortedContext DEF _finalize_workflow_run
  <1>11. CASE Crash(r)
    BY <1>1, <1>11, ClearedContext DEF Crash
  <1> QED
    BY <1>5, <1>6, <1>7, <1>8, <1>9, <1>10, <1>11

LEMMA OrderStep ==
    ASSUME BudgetInv, Ordered, [Next]_vars
    PROVE  Ordered'
  <1>0. Shaped /\ Typed /\ Sized
    BY DEF BudgetInv, KeyInv
  <1>1. ASSUME NEW r \in Runs, CallStep(r) PROVE Ordered'
    <2>1. PICK i \in DOMAIN Calls(r) : \E d : CallBecomes(r, i, d) /\ CallKind(r, i, d)
      BY <1>0, <1>1, CallKinds
    <2>2. PICK d : CallBecomes(r, i, d) /\ CallKind(r, i, d)
      BY <2>1
    <2>3. InOrder([Calls(r) EXCEPT ![i] = d], Slots(r), Parallel(r))
      BY <1>0, <2>2, CallsInOrder
    <2>4. ctx[r].pc = "stage"
      BY DEF Ordered
    <2>5. /\ ctx'[r].calls = [Calls(r) EXCEPT ![i] = d]
          /\ ctx'[r].pc = "stage" /\ ctx'[r].stage = ctx[r].stage
          /\ \A q \in Runs : q # r => ctx'[q] = ctx[q]
      BY <2>2, <2>4 DEF CallBecomes
    <2> QED
      BY <2>3, <2>5 DEF Ordered, Calls, Slots, Parallel
  <1>2. ASSUME NEW r \in Runs, EnterStage(r) PROVE Ordered'
    <2> DEFINE calls == Invocations(r) \o PodInvocations(Invocations(r))
    <2>1. CASE \E goal : Aborts(r, goal, ctx[r].cost)
      BY <2>1, EmptyInOrder DEF Aborts, Becomes, Empties
    <2>2. CASE Enters(r, calls)
      <3>1. InOrder(calls, Slots(r), Parallel(r))
        BY <1>0, EnteredInOrder DEF Typed
      <3>2. /\ ctx'[r].calls = calls /\ ctx'[r].pc = "stage"
            /\ ctx'[r].stage = ctx[r].stage
            /\ \A q \in Runs : q # r => ctx'[q] = ctx[q]
        BY <2>2 DEF Enters, Becomes
      <3> HIDE DEF calls
      <3> QED
        BY <3>1, <3>2 DEF Ordered, Calls, Slots, Parallel
    <2> QED
      BY <1>0, <1>2, <2>1, <2>2, EnteredContext
  <1>3. ASSUME NEW r \in Runs, CheckRows(r) \/ Step(r) \/ Crash(r) PROVE Ordered'
    BY <1>0, <1>1, <1>2, <1>3, OthersEmpty, EmptyInOrder DEF Step
  <1>4. ASSUME UNCHANGED ctx PROVE Ordered'
    BY <1>4 DEF Ordered, Calls, Slots, Parallel
  <1> QED
    BY <1>3, <1>4 DEF Next, reconcile_orphan_runs, vars

LEMMA OrderInit == Init => Ordered
  <1> SUFFICES ASSUME Init PROVE Ordered
    OBVIOUS
  <1>1. \A r \in Runs : Calls(r) = <<>>
    BY DEF Init, Context, Calls
  <1> QED
    BY <1>1, NothingInOrder DEF Ordered

-----------------------------------------------------------------------------
(* The costs of the calls that are done, for any list of calls, and those  *)
(* of the rows of a run, for any agent_runs.                               *)

DoneIn(s) == {i \in DOMAIN s : s[i].pc = "done"}
CostsIn(s) == [i \in DOMAIN s |-> s[i].res.cost]
CostOf(s, S) == SumFunction([i \in S \cap DoneIn(s) |-> s[i].res.cost])

(* What has not been added up: the calls of the stage, and those of the    *)
(* sub-agents of a pod that still waits for them.                          *)
PendingIn(s) == {i \in DOMAIN s : s[i].pod = 0 \/ s[s[i].pod].pc \in {"new", "pod"}}

RowsIn(runs, r) == {x \in runs : x.run = r}
SpentIn(runs, r) == SumFunction([x \in RowsIn(runs, r) |-> x.tokens])

LEMMA Bridges ==
    /\ \A r, S : Cost(r, S) = CostOf(Calls(r), S)
    /\ \A r : Spent(r) = SpentIn(agentRuns, r) /\ Done(r) = DoneIn(Calls(r))
  BY DEF Cost, CostOf, Done, DoneIn, Spent, SpentIn, RunsOf, RowsIn

LEMMA CostShape ==
    ASSUME NEW s \in Seq(CallSet), NEW S
    PROVE  /\ IsFiniteSet(S \cap DoneIn(s))
           /\ \A i \in S \cap DoneIn(s) : CostsIn(s)[i] \in Nat
           /\ CostOf(s, S) = SumFunctionOnSet(CostsIn(s), S \cap DoneIn(s))
           /\ CostOf(s, S) \in Nat
  <1> DEFINE D == S \cap DoneIn(s)
             f == [i \in D |-> s[i].res.cost]
             g == CostsIn(s)
  <1>1. IsFiniteSet(D)
    <2>1. DOMAIN s = 1 .. Len(s) /\ Len(s) \in Nat
      OBVIOUS
    <2>2. IsFiniteSet(1 .. Len(s))
      <3> DEFINE n == Len(s)
      <3> HIDE DEF n
      <3> QED
        BY <2>1, FS_Interval DEF n
    <2>3. D \subseteq 1 .. Len(s)
      BY <2>1 DEF DoneIn
    <2> QED
      BY <2>2, <2>3, FS_Subset
  <1>2. \A i \in D : f[i] = g[i] /\ g[i] \in Nat
    <2> SUFFICES ASSUME NEW i \in D PROVE f[i] = g[i] /\ g[i] \in Nat
      OBVIOUS
    <2>1. i \in DOMAIN s /\ s[i] \in CallSet
      BY DEF DoneIn
    <2>2. s[i].res.cost \in Nat
      BY <2>1 DEF CallSet, Results
    <2> QED
      BY <2>1, <2>2 DEF CostsIn
  <1>3. CostOf(s, S) = SumFunctionOnSet(f, D)
    BY DEF CostOf, SumFunction
  <1> HIDE DEF D, f, g
  <1>4. SumFunctionOnSet(f, D) = SumFunctionOnSet(g, D)
    <2>1. \A i \in D : f[i] = g[i] /\ f[i] \in Int
      BY <1>2
    <2> QED
      BY <1>1, <2>1, SumSame
  <1>5. SumFunctionOnSet(g, D) \in Nat
    BY <1>1, <1>2, SumNat
  <1> QED
    BY <1>1, <1>2, <1>3, <1>4, <1>5 DEF D, g

LEMMA CostNothing ==
    ASSUME NEW s \in Seq(CallSet), NEW S, S \cap DoneIn(s) = {}
    PROVE  CostOf(s, S) = 0
  BY CostShape, SumEmpty

LEMMA CostSplit ==
    ASSUME NEW s \in Seq(CallSet), NEW S, NEW T, S \cap T = {}
    PROVE  CostOf(s, S \cup T) = CostOf(s, S) + CostOf(s, T)
  <1> DEFINE f == CostsIn(s)
             A == S \cap DoneIn(s)
             B == T \cap DoneIn(s)
  <1>1. (S \cup T) \cap DoneIn(s) = A \cup B /\ A \cap B = {}
    OBVIOUS
  <1>2. IsFiniteSet(A) /\ IsFiniteSet(B) /\ \A i \in A \cup B : f[i] \in Int
    <2>1. IsFiniteSet(A) /\ \A i \in A : f[i] \in Nat
      BY CostShape
    <2>2. IsFiniteSet(B) /\ \A i \in B : f[i] \in Nat
      BY CostShape
    <2> HIDE DEF A, B, f
    <2> QED
      BY <2>1, <2>2
  <1>3. /\ CostOf(s, S) = SumFunctionOnSet(f, A)
        /\ CostOf(s, T) = SumFunctionOnSet(f, B)
        /\ CostOf(s, S \cup T) = SumFunctionOnSet(f, A \cup B)
    BY <1>1, CostShape
  <1> HIDE DEF A, B, f
  <1> QED
    BY <1>1, <1>2, <1>3, SumUnion

LEMMA CostWithin ==
    ASSUME NEW s \in Seq(CallSet), NEW S, NEW T, S \cap DoneIn(s) \subseteq T
    PROVE  CostOf(s, S) <= CostOf(s, T)
  <1> DEFINE A == S \cap DoneIn(s)
             R == T \ A
  <1>1. CostOf(s, S) = CostOf(s, A)
    <2>1. S \cap DoneIn(s) = A \cap DoneIn(s)
      OBVIOUS
    <2> QED
      BY <2>1 DEF CostOf
  <1>2. A \cap R = {} /\ A \cup R = T
    OBVIOUS
  <1> HIDE DEF A, R
  <1>3. CostOf(s, T) = CostOf(s, A) + CostOf(s, R)
    BY <1>2, CostSplit
  <1>4. CostOf(s, A) \in Nat /\ CostOf(s, R) \in Nat
    BY CostShape
  <1> QED
    BY <1>1, <1>3, <1>4

(* A call that becomes done adds what it cost; any other step adds nothing.*)
LEMMA CostStep ==
    ASSUME NEW s \in Seq(CallSet), NEW i \in DOMAIN s, NEW d \in CallSet, NEW S,
           s[i].pc # "done"
    PROVE  LET t == [s EXCEPT ![i] = d] IN
           /\ t \in Seq(CallSet)
           /\ d.pc # "done" => CostOf(t, S) = CostOf(s, S) /\ DoneIn(t) = DoneIn(s)
           /\ d.pc = "done" => /\ DoneIn(t) = DoneIn(s) \cup {i}
                               /\ i \in S => CostOf(t, S) = CostOf(s, S) + d.res.cost
  <1> DEFINE t == [s EXCEPT ![i] = d]
             f == CostsIn(s)
             g == CostsIn(t)
             A == S \cap DoneIn(s)
             B == S \cap DoneIn(t)
  <1>0. DOMAIN s = 1 .. Len(s)
    OBVIOUS
  <1>1. t \in Seq(CallSet) /\ DOMAIN t = DOMAIN s /\ t[i] = d
        /\ \A j \in DOMAIN s : j # i => t[j] = s[j]
    OBVIOUS
  <1> HIDE DEF t
  <1>2. /\ i \notin A /\ \A j \in A : f[j] = g[j] /\ f[j] \in Int /\ g[j] \in Int
        /\ IsFiniteSet(A)
        /\ CostOf(s, S) = SumFunctionOnSet(f, A) /\ CostOf(s, S) \in Nat
    <2>1. /\ IsFiniteSet(A) /\ \A j \in A : f[j] \in Nat
          /\ CostOf(s, S) = SumFunctionOnSet(f, A) /\ CostOf(s, S) \in Nat
      BY CostShape
    <2>2. i \notin A
      BY DEF DoneIn
    <2>3. \A j \in A : f[j] = g[j]
      BY <1>1, <2>2 DEF CostsIn, DoneIn
    <2> HIDE DEF A, f, g
    <2> QED
      BY <2>1, <2>2, <2>3
  <1>3. CostOf(t, S) = SumFunctionOnSet(g, B)
    BY <1>1, CostShape
  <1>4. SumFunctionOnSet(f, A) = SumFunctionOnSet(g, A)
    <2> HIDE DEF A, f, g
    <2> QED
      BY <1>2, SumSame
  <1>5. ASSUME d.pc # "done" PROVE CostOf(t, S) = CostOf(s, S) /\ DoneIn(t) = DoneIn(s)
    <2>1. DoneIn(t) = DoneIn(s)
      BY <1>1, <1>5 DEF DoneIn
    <2> QED
      BY <1>2, <1>3, <1>4, <2>1
  <1>6. ASSUME d.pc = "done" PROVE DoneIn(t) = DoneIn(s) \cup {i}
    BY <1>1, <1>6 DEF DoneIn
  <1>7. ASSUME d.pc = "done", i \in S PROVE CostOf(t, S) = CostOf(s, S) + d.res.cost
    <2>1. B = A \cup {i}
      BY <1>6, <1>7
    <2>2. g[i] = d.res.cost /\ g[i] \in Nat
      BY <1>1 DEF CostsIn, CallSet, Results
    <2> HIDE DEF A, B, f, g
    <2>3. \A j \in A \cup {i} : g[j] \in Int
      BY <1>2, <2>2
    <2>4. SumFunctionOnSet(g, A \cup {i}) = g[i] + SumFunctionOnSet(g, A)
      BY <1>2, <2>3, SumAdd
    <2> QED
      BY <1>2, <1>3, <1>4, <2>1, <2>2, <2>4
  <1> QED
    BY <1>1, <1>5, <1>6, <1>7 DEF t

(* The rows of a run, when one is added at no cost, and when one without a *)
(* cost is replaced.                                                       *)
LEMMA SpentShape ==
    ASSUME NEW runs, runs \subseteq AgentRow, IsFiniteSet(runs), NEW r
    PROVE  /\ IsFiniteSet(RowsIn(runs, r)) /\ RowsIn(runs, r) \subseteq AgentRow
           /\ \A f : (\A x \in RowsIn(runs, r) : f[x] = x.tokens)
                       => SpentIn(runs, r) = SumFunctionOnSet(f, RowsIn(runs, r))
           /\ SpentIn(runs, r) \in Nat
  <1> DEFINE S == RowsIn(runs, r)
             g == [x \in S |-> x.tokens]
  <1>1. IsFiniteSet(S) /\ S \subseteq AgentRow
    <2>1. S \subseteq runs
      BY DEF RowsIn
    <2> QED
      BY <2>1, FS_Subset
  <1>2. SpentIn(runs, r) = SumFunctionOnSet(g, S)
    BY DEF SpentIn, SumFunction
  <1>3. \A x \in S : g[x] = x.tokens /\ x.tokens \in Nat
    BY <1>1 DEF AgentRow
  <1> HIDE DEF S, g
  <1>4. SumFunctionOnSet(g, S) \in Nat
    BY <1>1, <1>3, SumNat
  <1>5. ASSUME NEW f, \A x \in S : f[x] = x.tokens
        PROVE  SumFunctionOnSet(g, S) = SumFunctionOnSet(f, S)
    <2>1. \A x \in S : g[x] = f[x] /\ g[x] \in Int
      BY <1>3, <1>5
    <2> QED
      BY <1>1, <2>1, SumSame
  <1> QED
    BY <1>1, <1>2, <1>4, <1>5 DEF S

LEMMA SpentOthers ==
    ASSUME NEW runs, NEW more, NEW r,
           \A x \in (runs \ more) \cup (more \ runs) : x.run # r
    PROVE  RowsIn(more, r) = RowsIn(runs, r) /\ SpentIn(more, r) = SpentIn(runs, r)
  <1>1. RowsIn(more, r) = RowsIn(runs, r)
    BY DEF RowsIn
  <1> QED
    BY <1>1 DEF SpentIn

LEMMA SpentPlus ==
    ASSUME NEW runs, runs \subseteq AgentRow, IsFiniteSet(runs),
           NEW row \in AgentRow, row \notin runs
    PROVE  SpentIn(runs \cup {row}, row.run) = SpentIn(runs, row.run) + row.tokens
  <1> DEFINE r == row.run
             S == RowsIn(runs, r)
             T == RowsIn(runs \cup {row}, r)
             f == [x \in T |-> x.tokens]
  <1>1. T = S \cup {row} /\ row \notin S
    BY DEF RowsIn
  <1>2. runs \cup {row} \subseteq AgentRow /\ IsFiniteSet(runs \cup {row})
    BY FS_AddElement
  <1>3. IsFiniteSet(S) /\ T \subseteq AgentRow
    BY <1>2, SpentShape
  <1>4. \A x \in T : f[x] = x.tokens /\ f[x] \in Int
    BY <1>3 DEF AgentRow
  <1>5. SpentIn(runs \cup {row}, r) = SumFunctionOnSet(f, T)
    BY <1>2, <1>4, SpentShape
  <1>6. SpentIn(runs, r) = SumFunctionOnSet(f, S)
    <2>1. \A x \in S : f[x] = x.tokens
      BY <1>1, <1>4
    <2> QED
      BY <2>1, SpentShape
  <1> HIDE DEF S, T, f
  <1>7. SumFunctionOnSet(f, S \cup {row}) = f[row] + SumFunctionOnSet(f, S)
    <2>1. \A x \in S \cup {row} : f[x] \in Int
      BY <1>1, <1>4
    <2> QED
      BY <1>1, <1>3, <2>1, SumAdd
  <1>8. f[row] = row.tokens /\ row.tokens \in Nat
    BY <1>1, <1>4 DEF AgentRow
  <1>9. SumFunctionOnSet(f, S) \in Nat
    BY <1>6, SpentShape
  <1> QED
    BY <1>1, <1>5, <1>6, <1>7, <1>8, <1>9

-----------------------------------------------------------------------------
(* The rows of agent_runs.                                                 *)

Working(c) == c.pc \in {"api", "record"}

AtIn(runs, r, k, i) == {x \in runs : x.run = r /\ x.stage = k /\ x.index = i}

RowOf(c, r, k, i) == [run |-> r, stage |-> k, index |-> i, agent |-> c.agent,
                      status |-> "running", tokens |-> 0, cost |-> 0]

(* A call that has not begun has no row; one under way has its own and no  *)
(* other.                                                                  *)
KeptIn(runs, r, k, s) ==
    \A i \in DOMAIN s :
       /\ s[i].pc \in {"new", "pod", "aggregate"} => AtIn(runs, r, k, i) = {}
       /\ Working(s[i]) => AtIn(runs, r, k, i) = {RowOf(s[i], r, k, i)}

(* A row is of the stage its run is in or of an earlier one.               *)
KeptAt(r) ==
    /\ ctx[r].pc \in {"new", "redis", "insert"} => ~Begun(r)
    /\ ctx[r].pc = "gate" => \A x \in RowsIn(agentRuns, r) : x.stage < ctx[r].stage
    /\ ctx[r].pc = "stage" =>
          /\ \A x \in RowsIn(agentRuns, r) : x.stage <= ctx[r].stage
          /\ KeptIn(agentRuns, r, ctx[r].stage, Calls(r))

Kept == \A r \in Runs : KeptAt(r)

LEMMA RowOfTyped ==
    ASSUME NEW c \in CallSet, NEW r \in Runs, NEW k \in DOMAIN Stages, NEW i \in Nat \ {0}
    PROVE  /\ RowOf(c, r, k, i) \in AgentRow
           /\ RowOf(c, r, k, i).run = r /\ RowOf(c, r, k, i).stage = k
           /\ RowOf(c, r, k, i).index = i /\ RowOf(c, r, k, i).agent = c.agent
           /\ RowOf(c, r, k, i).tokens = 0 /\ RowOf(c, r, k, i).cost = 0
           /\ RowOf(c, r, k, i).status = "running"
  BY DEF RowOf, AgentRow, CallSet

(* What a step of a call does to agent_runs: it adds the call's row, or    *)
(* writes the result to it.                                                *)
LEMMA RowsBecome ==
    ASSUME Typed, Sized, Ordered, Kept,
           NEW r \in Runs, NEW i \in DOMAIN Calls(r), NEW d,
           CallKind(r, i, d), CallBecomes(r, i, d)
    PROVE  LET k == ctx[r].stage
               row == RowOf(Calls(r)[i], r, k, i)
               res == Calls(r)[i].res
           IN  /\ ~Starts(r, i, d) /\ ~Completes(r, i, d) => agentRuns' = agentRuns
               /\ Starts(r, i, d) => /\ agentRuns' = agentRuns \cup {row}
                                     /\ AtIn(agentRuns, r, k, i) = {}
               /\ Completes(r, i, d) =>
                     /\ agentRuns' = (agentRuns \ {row}) \cup {Completed(row, res)}
                     /\ AtIn(agentRuns, r, k, i) = {row}
                     /\ res \in Results /\ res.status # "none"
  <1> DEFINE k == ctx[r].stage
             c == Calls(r)[i]
             row == RowOf(c, r, k, i)
             res == c.res
  <1>1. /\ c \in CallSet /\ i \in Nat \ {0} /\ Budgeted(c) /\ k \in DOMAIN Stages
    BY CallsTyped DEF Typed, Sized, ContextTyped
  <1>2. KeptIn(agentRuns, r, k, Calls(r))
    BY DEF Ordered, Kept, KeptAt
  <1>3. ASSUME ~Starts(r, i, d), ~Completes(r, i, d) PROVE agentRuns' = agentRuns
    BY <1>3 DEF CallKind, Opens, Aggregates, Serves, Raises, Turn
  <1>4. ASSUME Starts(r, i, d)
        PROVE  agentRuns' = agentRuns \cup {row} /\ AtIn(agentRuns, r, k, i) = {}
    <2>1. c.pc \in {"new", "aggregate"}
      BY <1>4, MayBeginNew DEF Starts
    <2>2. AtIn(agentRuns, r, k, i) = {}
      BY <1>2, <2>1 DEF KeptIn
    <2>3. agentRuns' = agentRuns \cup {row}
      BY <1>4 DEF Starts, _persist_agent_run_started, RowOf
    <2> QED
      BY <2>2, <2>3
  <1>5. ASSUME Completes(r, i, d)
        PROVE  /\ agentRuns' = (agentRuns \ {row}) \cup {Completed(row, res)}
               /\ AtIn(agentRuns, r, k, i) = {row}
               /\ res \in Results /\ res.status # "none"
    <2>1. c.pc = "record"
      BY <1>5 DEF Completes
    <2>2. AtIn(agentRuns, r, k, i) = {row}
      BY <1>2, <2>1 DEF KeptIn, Working
    <2>3. row.status = "running"
      BY <1>1, RowOfTyped
    <2>4. Mine(r, i) = {x \in AtIn(agentRuns, r, k, i) : x.status = "running"}
      BY DEF Mine, AtIn
    <2> HIDE DEF row
    <2>5. Mine(r, i) = {row}
      BY <2>2, <2>3, <2>4
    <2>6. agentRuns' = (agentRuns \ {row}) \cup {Completed(row, res)}
      BY <1>5, <2>5 DEF Completes
    <2>7. res \in Results /\ res.status # "none"
      BY <1>1, <2>1 DEF CallSet, Budgeted
    <2> QED
      BY <2>2, <2>6, <2>7
  <1> QED
    BY <1>3, <1>4, <1>5

(* Only rows of the call itself are touched.                               *)
LEMMA RowsElsewhere ==
    ASSUME Typed, Sized, Ordered, Kept,
           NEW r \in Runs, NEW i \in DOMAIN Calls(r), NEW d,
           CallKind(r, i, d), CallBecomes(r, i, d)
    PROVE  /\ \A q : q # r => RowsIn(agentRuns', q) = RowsIn(agentRuns, q)
           /\ \A j : j # i => AtIn(agentRuns', r, ctx[r].stage, j)
                                = AtIn(agentRuns, r, ctx[r].stage, j)
           /\ \A x \in RowsIn(agentRuns', r) : x \in RowsIn(agentRuns, r)
                                                 \/ x.stage = ctx[r].stage
           /\ Starts(r, i, d) => AtIn(agentRuns', r, ctx[r].stage, i)
                                   = {RowOf(Calls(r)[i], r, ctx[r].stage, i)}
  <1> DEFINE k == ctx[r].stage
             c == Calls(r)[i]
             row == RowOf(c, r, k, i)
             res == c.res
             new == Completed(row, res)
  <1>1. /\ c \in CallSet /\ i \in Nat \ {0} /\ k \in DOMAIN Stages
    BY CallsTyped DEF Typed, ContextTyped
  <1>2. row \in AgentRow /\ row.run = r /\ row.stage = k /\ row.index = i
    BY <1>1, RowOfTyped
  <1>3. /\ ~Starts(r, i, d) /\ ~Completes(r, i, d) => agentRuns' = agentRuns
        /\ Starts(r, i, d) => /\ agentRuns' = agentRuns \cup {row}
                              /\ AtIn(agentRuns, r, k, i) = {}
        /\ Completes(r, i, d) =>
              /\ agentRuns' = (agentRuns \ {row}) \cup {new}
              /\ res \in Results /\ res.status # "none"
    BY RowsBecome
  <1> HIDE DEF row, k
  <1>4. Completes(r, i, d) => new.run = r /\ new.stage = k /\ new.index = i
    BY <1>2, <1>3, ClosedTyped
  <1> HIDE DEF new, res
  <1>5. CASE ~Starts(r, i, d) /\ ~Completes(r, i, d)
    BY <1>3, <1>5
  <1>6. CASE Starts(r, i, d)
    BY <1>2, <1>3, <1>6 DEF RowsIn, AtIn, k, row
  <1>7. CASE Completes(r, i, d)
    <2>1. ~Starts(r, i, d)
      BY <1>7, MayBeginNew DEF Starts, Completes
    <2> QED
      BY <1>2, <1>3, <1>4, <1>7, <2>1 DEF RowsIn, AtIn, k
  <1> QED
    BY <1>5, <1>6, <1>7

-----------------------------------------------------------------------------
(* What the steps outside a call do, each in one line.                     *)

(* The call of run returns or dies, with its row as it is.                 *)
Leaves(r) == Clears(r, "off") /\ ctx[r].pc # "off" /\ UNCHANGED tables

(* The guard lets it pass; Redis does.                                     *)
Admits(r) == Clears(r, "redis") /\ ctx[r].pc = "new" /\ UNCHANGED tables
Reserves(r) == Moves(r, "insert") /\ ctx[r].pc = "redis" /\ UNCHANGED tables

(* Its row is inserted.                                                    *)
Inserts(r) ==
    /\ Moves(r, "gate") /\ ctx[r].pc = "insert"
    /\ \A q \in Runs : q # r => rows'[q] = rows[q]
    /\ rows'[r].status = "running" /\ rows'[r].ext = "none"
    /\ rows'[r].tokens = 0 /\ rows'[r].cost = 0
    /\ UNCHANGED <<agentRuns, audit, predictions>>

(* It goes to the except branch outside a stage.                           *)
GivesUp(r) ==
    /\ \E goal \in {"failed", "cancelled"} : Aborts(r, goal, ctx[r].cost)
    /\ ctx[r].pc \in {"gate", "persist", "finish"} /\ UNCHANGED tables

(* A stage begins.                                                         *)
BeginsStage(r) ==
    /\ Enters(r, Invocations(r) \o PodInvocations(Invocations(r)))
    /\ ctx[r].pc = "gate" /\ ~OverBudget(r) /\ UNCHANGED tables

(* A stage ends with a raised call, at the ceiling, or with its outputs.   *)
Raised(r) ==
    /\ ~Parallel(r) /\ \E i \in TopLevel(r) : Calls(r)[i].pc = "raised"
    /\ Aborts(r, "failed", ctx[r].cost)
    /\ ctx[r].pc = "stage" /\ UNCHANGED tables

Broken(r) ==
    /\ StageOver(r) /\ Stops(r) # {}
    /\ Aborts(r, "failed", Added(r, Min(Stops(r))))
    /\ ctx[r].pc = "stage" /\ UNCHANGED tables

Skips(r) ==
    /\ StageOver(r) /\ Stops(r) = {} /\ _should_short_circuit(r)
    /\ Becomes(r, "finish", ctx[r].stage, Added(r, Cardinality(TopLevel(r))),
               <<>>, _stage_outputs(r), "succeeded", "none")
    /\ ctx[r].pc = "stage" /\ UNCHANGED tables

Advances(r) ==
    /\ StageOver(r) /\ Stops(r) = {}
    /\ Becomes(r, IF LastStage(r) THEN "persist" ELSE "gate",
               IF LastStage(r) THEN ctx[r].stage ELSE ctx[r].stage + 1,
               Added(r, Cardinality(TopLevel(r))),
               <<>>, _stage_outputs(r), ctx[r].goal, ctx[r].ext)
    /\ ctx[r].pc = "stage" /\ UNCHANGED tables

(* The predictions are written.                                            *)
Persists(r) ==
    /\ \E ext \in {"succeeded", "succeeded_with_caveats"} : Settles(r, ext)
    /\ ctx[r].pc = "persist"
    /\ \A q \in Runs : q # r => predictions'[q] = predictions[q]
    /\ predictions'[r] = Max({0, ctx[r].outputs[Judge]})
    /\ UNCHANGED <<rows, agentRuns, audit>>

(* The final status is written.                                            *)
Finalizes(r) ==
    /\ Clears(r, "off") /\ ctx[r].pc \in {"finish", "except"}
    /\ \A q \in Runs : q # r => rows'[q] = rows[q]
    /\ rows'[r].status = ctx[r].goal /\ rows'[r].ext = ctx[r].ext
    /\ rows'[r].tokens = ctx[r].cost /\ rows'[r].cost = Rounded(ctx[r].cost)
    /\ UNCHANGED <<agentRuns, audit, predictions>>

CallGoesOn(r) ==
    \E i \in DOMAIN Calls(r) : \E d : CallBecomes(r, i, d) /\ CallKind(r, i, d)

LEMMA RunSteps ==
    ASSUME BudgetInv, NEW r \in Runs, CheckRows(r) \/ Step(r) \/ Crash(r)
    PROVE  /\ Fault \/ UNCHANGED faults
           /\ \/ CallGoesOn(r) \/ Leaves(r) \/ Admits(r) \/ Reserves(r) \/ Inserts(r)
              \/ GivesUp(r) \/ BeginsStage(r) \/ Raised(r) \/ Broken(r) \/ Skips(r)
              \/ Advances(r) \/ Persists(r) \/ Finalizes(r)
  <1>0. Shaped /\ Typed /\ Sized
    BY DEF BudgetInv, KeyInv
  <1> DEFINE Known == \/ CallGoesOn(r) \/ Leaves(r) \/ Admits(r) \/ Reserves(r) \/ Inserts(r)
                      \/ GivesUp(r) \/ BeginsStage(r) \/ Raised(r) \/ Broken(r) \/ Skips(r)
                      \/ Advances(r) \/ Persists(r) \/ Finalizes(r)
             Goal == (Fault \/ UNCHANGED faults) /\ Known
  <1>1. ASSUME CheckRows(r) PROVE Goal
    <2>1. UNCHANGED tables /\ ctx[r].pc = "new" /\ (Fault \/ UNCHANGED faults)
      BY <1>1 DEF CheckRows
    <2>2. Clears(r, "off") \/ Clears(r, "redis")
      BY <1>0, <1>1, ClearedContext DEF CheckRows
    <2> QED
      BY <2>1, <2>2 DEF Leaves, Admits
  <1>2. ASSUME _idempotency_taken(r) PROVE Goal
    <2>1. UNCHANGED tables /\ ctx[r].pc = "redis" /\ (Fault \/ UNCHANGED faults)
      BY <1>2 DEF _idempotency_taken
    <2>2. Clears(r, "off") \/ Moves(r, "insert")
      BY <1>0, <1>2, ClearedContext, MovedContext DEF _idempotency_taken
    <2> QED
      BY <2>1, <2>2 DEF Leaves, Reserves
  <1>3. ASSUME _create_workflow_run_row(r) PROVE Goal
    <2> DEFINE row == [NoRow EXCEPT !.status = "running", !.born = 1 + Quantify(Runs, Begun)]
    <2>1. /\ ctx[r].pc = "insert" /\ (Fault \/ UNCHANGED faults)
          /\ UNCHANGED <<agentRuns, audit, predictions>>
          /\ \/ End(r) /\ UNCHANGED rows
             \/ rows' = [rows EXCEPT ![r] = row] /\ Goto(r, "gate")
      BY <1>3 DEF _create_workflow_run_row
    <2>2. row.status = "running" /\ row.ext = "none" /\ row.tokens = 0 /\ row.cost = 0
      BY DEF NoRow
    <2> HIDE DEF row
    <2>3. CASE End(r) /\ UNCHANGED rows
      BY <1>0, <2>1, <2>3, ClearedContext DEF Leaves, tables
    <2>4. CASE rows' = [rows EXCEPT ![r] = row] /\ Goto(r, "gate")
      <3>1. rows'[r] = row /\ \A q \in Runs : q # r => rows'[q] = rows[q]
        BY <1>0, <2>4 DEF Shaped
      <3>2. Moves(r, "gate")
        BY <1>0, <2>4, MovedContext
      <3> QED
        BY <2>1, <2>2, <3>1, <3>2 DEF Inserts
    <2> QED
      BY <2>1, <2>3, <2>4
  <1>4. ASSUME EnterStage(r) PROVE Goal
    BY <1>0, <1>4, EnteredContext DEF GivesUp, BeginsStage
  <1>5. ASSUME CallStep(r) PROVE Goal
    <2>1. CallGoesOn(r)
      BY <1>0, <1>5, CallKinds DEF CallGoesOn
    <2>2. PICK i \in DOMAIN Calls(r) : \E d : CallKind(r, i, d)
      BY <2>1 DEF CallGoesOn
    <2>3. Fault \/ UNCHANGED faults
      BY <2>2 DEF CallKind, Opens, Aggregates, Starts, Serves, Raises, Turn, Answers,
                  Retries, _write_llm_audit_log, Completes
    <2> QED
      BY <2>1, <2>3
  <1>6. ASSUME _run_stage(r) PROVE Goal
    <2>1. Raised(r) \/ Broken(r) \/ Skips(r) \/ Advances(r)
      BY <1>0, <1>6, StageKinds DEF Raised, Broken, Skips, Advances
    <2>2. UNCHANGED faults
      BY <1>6 DEF _run_stage
    <2> QED
      BY <2>1, <2>2
  <1>7. ASSUME _persist_predictions(r) PROVE Goal
    <2>1. /\ ctx[r].pc = "persist" /\ (Fault \/ UNCHANGED faults)
          /\ UNCHANGED <<rows, agentRuns, audit>>
      BY <1>7 DEF _persist_predictions
    <2>2. CASE Abort(r, "failed", ctx[r].cost) /\ UNCHANGED predictions
      BY <1>0, <2>1, <2>2, AbortedContext DEF GivesUp, tables
    <2>3. CASE /\ predictions' = [predictions EXCEPT ![r] = Max({0, ctx[r].outputs[Judge]})]
               /\ \E ext \in {"succeeded", "succeeded_with_caveats"} : Settle(r, ext)
      <3>1. \E ext \in {"succeeded", "succeeded_with_caveats"} : Settles(r, ext)
        BY <1>0, <2>3, SettledContext
      <3>2. predictions'[r] = Max({0, ctx[r].outputs[Judge]})
              /\ \A q \in Runs : q # r => predictions'[q] = predictions[q]
        BY <1>0, <2>3 DEF Typed
      <3> QED
        BY <2>1, <3>1, <3>2 DEF Persists
    <2> QED
      BY <1>7, <2>2, <2>3 DEF _persist_predictions
  <1>8. ASSUME _finalize_workflow_run(r) PROVE Goal
    <2>1. /\ ctx[r].pc \in {"finish", "except"} /\ (Fault \/ UNCHANGED faults)
          /\ UNCHANGED <<agentRuns, audit, predictions>>
      BY <1>8 DEF _finalize_workflow_run
    <2>2. CASE End(r) /\ rows' = [rows EXCEPT ![r].status = ctx[r].goal,
                                              ![r].ext = ctx[r].ext, ![r].tokens = ctx[r].cost,
                                              ![r].cost = Rounded(ctx[r].cost)]
      <3>1. /\ rows'[r] = [rows[r] EXCEPT !.status = ctx[r].goal, !.ext = ctx[r].ext,
                                          !.tokens = ctx[r].cost,
                                          !.cost = Rounded(ctx[r].cost)]
            /\ \A q \in Runs : q # r => rows'[q] = rows[q]
        BY <1>0, <2>2 DEF Shaped
      <3>2. /\ rows'[r].status = ctx[r].goal /\ rows'[r].ext = ctx[r].ext
            /\ rows'[r].tokens = ctx[r].cost /\ rows'[r].cost = Rounded(ctx[r].cost)
        BY <1>0, <3>1 DEF Typed, RowSet
      <3>3. Clears(r, "off")
        BY <1>0, <2>2, ClearedContext
      <3> QED
        BY <2>1, <3>1, <3>2, <3>3 DEF Finalizes
    <2>3. CASE Abort(r, "failed", ctx[r].cost) /\ ctx[r].pc = "finish" /\ UNCHANGED rows
      BY <1>0, <2>1, <2>3, AbortedContext DEF GivesUp, tables
    <2>4. CASE End(r) /\ UNCHANGED rows
      BY <1>0, <2>1, <2>4, ClearedContext DEF Leaves, tables
    <2> QED
      BY <1>8, <2>1, <2>2, <2>3, <2>4 DEF _finalize_workflow_run
  <1>9. ASSUME Crash(r) PROVE Goal
    BY <1>0, <1>9, ClearedContext DEF Crash, UnderWay, Leaves
  <1> QED
    BY <1>1, <1>2, <1>3, <1>4, <1>5, <1>6, <1>7, <1>8, <1>9 DEF Step

(* What a step of run r leaves of another run.                             *)
LEMMA Elsewhere ==
    ASSUME BudgetInv, Ordered, Kept, NEW r \in Runs,
           CheckRows(r) \/ Step(r) \/ Crash(r), NEW q \in Runs, q # r
    PROVE  /\ ctx'[q] = ctx[q] /\ rows'[q] = rows[q] /\ predictions'[q] = predictions[q]
           /\ RowsIn(agentRuns', q) = RowsIn(agentRuns, q)
  <1>1. CASE CallGoesOn(r)
    <2>1. PICK i \in DOMAIN Calls(r) : \E d : CallBecomes(r, i, d) /\ CallKind(r, i, d)
      BY <1>1 DEF CallGoesOn
    <2>2. PICK d : CallBecomes(r, i, d) /\ CallKind(r, i, d)
      BY <2>1
    <2>3. RowsIn(agentRuns', q) = RowsIn(agentRuns, q)
      BY <2>2, RowsElsewhere DEF BudgetInv
    <2> QED
      BY <2>2, <2>3 DEF CallBecomes
  <1>2. CASE ~CallGoesOn(r)
    <2>1. \/ Leaves(r) \/ Admits(r) \/ Reserves(r) \/ Inserts(r)
          \/ GivesUp(r) \/ BeginsStage(r) \/ Raised(r) \/ Broken(r) \/ Skips(r)
          \/ Advances(r) \/ Persists(r) \/ Finalizes(r)
      BY <1>2, RunSteps
    <2>2. agentRuns' = agentRuns /\ rows'[q] = rows[q] /\ predictions'[q] = predictions[q]
      BY <2>1 DEF Leaves, Admits, Reserves, Inserts, GivesUp, BeginsStage, Raised, Broken,
                  Skips, Advances, Persists, Finalizes, tables
    <2>3. ctx'[q] = ctx[q]
      BY <2>1 DEF Leaves, Admits, Reserves, Inserts, GivesUp, BeginsStage, Raised, Broken,
                  Skips, Advances, Persists, Finalizes, Clears, Moves, Aborts, Settles,
                  Enters, Becomes
    <2> QED
      BY <2>2, <2>3
  <1> QED
    BY <1>1, <1>2

(* Nothing outside a call touches agent_runs.                              *)
LEMMA RowsStill ==
    ASSUME BudgetInv, NEW r \in Runs, CheckRows(r) \/ Step(r) \/ Crash(r), ~CallGoesOn(r)
    PROVE  agentRuns' = agentRuns
  BY RunSteps DEF Leaves, Admits, Reserves, Inserts, GivesUp, BeginsStage, Raised, Broken,
                  Skips, Advances, Persists, Finalizes, tables

LEMMA KeptFrame ==
    ASSUME NEW q \in Runs, KeptAt(q), ctx'[q] = ctx[q], Begun(q)' => Begun(q),
           RowsIn(agentRuns', q) = RowsIn(agentRuns, q)
    PROVE  KeptAt(q)'
  <1>1. \A k, i : AtIn(agentRuns', q, k, i) = AtIn(agentRuns, q, k, i)
    BY DEF AtIn, RowsIn
  <1>2. KeptIn(agentRuns, q, ctx[q].stage, Calls(q))
          => KeptIn(agentRuns', q, ctx[q].stage, Calls(q))
    BY <1>1 DEF KeptIn
  <1> QED
    BY <1>2 DEF KeptAt, Calls

LEMMA KeptCall ==
    ASSUME Typed, Sized, Ordered, Kept,
           NEW r \in Runs, NEW i \in DOMAIN Calls(r), NEW d,
           CallKind(r, i, d), CallBecomes(r, i, d)
    PROVE  KeptAt(r)'
  <1> DEFINE k == ctx[r].stage
             s == Calls(r)
             t == [s EXCEPT ![i] = d]
  <1>1. /\ DOMAIN t = DOMAIN s /\ t[i] = d /\ \A j \in DOMAIN s : j # i => t[j] = s[j]
    OBVIOUS
  <1>2. /\ ctx[r].pc = "stage" /\ ctx'[r].pc = "stage" /\ ctx'[r].stage = k
        /\ ctx'[r].calls = t
    BY DEF Ordered, CallBecomes
  <1>3. /\ KeptIn(agentRuns, r, k, s) /\ \A x \in RowsIn(agentRuns, r) : x.stage <= k
        /\ k \in Nat
    BY <1>2, StageNumbers DEF Kept, KeptAt, Typed, ContextTyped
  <1>4. /\ \A j : j # i => AtIn(agentRuns', r, k, j) = AtIn(agentRuns, r, k, j)
        /\ \A x \in RowsIn(agentRuns', r) : x \in RowsIn(agentRuns, r) \/ x.stage = k
        /\ Starts(r, i, d) => AtIn(agentRuns', r, k, i) = {RowOf(s[i], r, k, i)}
    BY RowsElsewhere
  <1>5. /\ ~Aggregates(r, i, d) => d.agent = s[i].agent
        /\ Opens(r, i, d) => s[i].pc = "new" /\ d.pc = "pod"
        /\ Aggregates(r, i, d) => s[i].pc = "pod" /\ d.pc = "aggregate"
        /\ Starts(r, i, d) => d.pc \in {"api", "record"}
        /\ Serves(r, i, d) => d.pc = "done"
        /\ Raises(r, i, d) => d.pc = "raised"
        /\ Turn(r, i, d) => s[i].pc = "api" /\ d.pc \in {"api", "record"}
        /\ Completes(r, i, d) => d.pc = "done"
    BY CallPhases
  <1>6. ~Starts(r, i, d) /\ ~Completes(r, i, d) => agentRuns' = agentRuns
    BY RowsBecome
  <1>7. d.pc \in {"new", "pod", "aggregate"} => AtIn(agentRuns', r, k, i) = {}
    <2>1. d.pc \in {"new", "pod", "aggregate"} => Opens(r, i, d) \/ Aggregates(r, i, d)
      BY <1>5 DEF CallKind
    <2>2. Opens(r, i, d) \/ Aggregates(r, i, d)
            => AtIn(agentRuns, r, k, i) = {} /\ agentRuns' = agentRuns
      BY <1>3, <1>5, <1>6 DEF KeptIn, Opens, Aggregates
    <2> QED
      BY <2>1, <2>2
  <1>8. Working(d) => AtIn(agentRuns', r, k, i) = {RowOf(d, r, k, i)}
    <2>1. Working(d) => Starts(r, i, d) \/ Turn(r, i, d)
      BY <1>5 DEF CallKind, Working
    <2>2. Starts(r, i, d) \/ Turn(r, i, d) => d.agent = s[i].agent
      BY <1>5
    <2>3. d.agent = s[i].agent => RowOf(d, r, k, i) = RowOf(s[i], r, k, i)
      BY DEF RowOf
    <2>4. Turn(r, i, d) => AtIn(agentRuns, r, k, i) = {RowOf(s[i], r, k, i)}
                              /\ agentRuns' = agentRuns
      BY <1>3, <1>5, <1>6 DEF KeptIn, Working, Turn
    <2> HIDE DEF k
    <2> QED
      BY <1>4, <2>1, <2>2, <2>3, <2>4
  <1> HIDE DEF t, s, k
  <1>9. KeptIn(agentRuns', r, k, t)
    <2> SUFFICES ASSUME NEW j \in DOMAIN t
                 PROVE  /\ t[j].pc \in {"new", "pod", "aggregate"}
                             => AtIn(agentRuns', r, k, j) = {}
                        /\ Working(t[j]) => AtIn(agentRuns', r, k, j) = {RowOf(t[j], r, k, j)}
      BY DEF KeptIn
    <2>1. CASE j = i
      BY <1>1, <1>7, <1>8, <2>1
    <2>2. CASE j # i
      BY <1>1, <1>3, <1>4, <2>2 DEF KeptIn
    <2> QED
      BY <2>1, <2>2
  <1>10. \A x \in RowsIn(agentRuns', r) : x.stage <= k
    BY <1>3, <1>4
  <1> QED
    BY <1>2, <1>9, <1>10 DEF KeptAt, Calls

LEMMA KeptStep ==
    ASSUME BudgetInv, Ordered, Kept, [Next]_vars
    PROVE  Kept'
  <1>0. /\ Typed /\ Sized /\ \A r \in Runs : ctx[r].stage \in Nat
        /\ \A x \in agentRuns : x.stage \in Nat
    BY StageNumbers DEF BudgetInv, Typed, ContextTyped, AgentRow
  <1>1. ASSUME NEW r \in Runs, CheckRows(r) \/ Step(r) \/ Crash(r) PROVE Kept'
    <2>1. ASSUME NEW q \in Runs, q # r PROVE KeptAt(q)'
      <3>1. ctx'[q] = ctx[q] /\ rows'[q] = rows[q] /\ RowsIn(agentRuns', q) = RowsIn(agentRuns, q)
        BY <1>1, <2>1, Elsewhere
      <3> QED
        BY <3>1, KeptFrame DEF Kept, Begun
    <2>2. CASE CallGoesOn(r)
      BY <1>0, <2>1, <2>2, KeptCall DEF CallGoesOn, Kept
    <2>3. CASE ~CallGoesOn(r)
      <3>1. agentRuns' = agentRuns
        BY <1>1, <2>3, RowsStill
      <3>2. CASE Leaves(r) \/ GivesUp(r) \/ Raised(r) \/ Broken(r) \/ Skips(r)
                   \/ Persists(r) \/ Finalizes(r)
        <4>1. ctx'[r].pc \in {"off", "except", "finish"}
          BY <3>2 DEF Leaves, GivesUp, Raised, Broken, Skips, Persists, Finalizes, Clears,
                      Aborts, Settles, Becomes
        <4> QED
          BY <2>1, <4>1 DEF Kept, KeptAt
      <3>3. CASE Admits(r) \/ Reserves(r)
        <4>1. ctx'[r].pc \in {"redis", "insert"} /\ UNCHANGED rows
                /\ ctx[r].pc \in {"new", "redis"}
          BY <3>3 DEF Admits, Reserves, Clears, Moves, Becomes, tables
        <4> QED
          BY <2>1, <4>1 DEF Kept, KeptAt, Begun
      <3>4. CASE Inserts(r)
        <4>1. ctx'[r].pc = "gate" /\ ctx[r].pc = "insert"
          BY <3>4 DEF Inserts, Moves, Becomes
        <4>2. RowsIn(agentRuns, r) = {}
          BY <4>1 DEF Kept, KeptAt, RowsIn, BudgetInv, KeyInv, RowFirst
        <4> QED
          BY <2>1, <3>1, <4>1, <4>2 DEF Kept, KeptAt
      <3>5. CASE BeginsStage(r)
        <4> DEFINE calls == Invocations(r) \o PodInvocations(Invocations(r))
        <4>1. \A i \in DOMAIN calls : calls[i].pc = "new"
          BY <1>0, EnteredInOrder DEF Typed
        <4>2. /\ ctx'[r].pc = "stage" /\ ctx'[r].stage = ctx[r].stage /\ ctx[r].pc = "gate"
              /\ ctx'[r].calls = calls
          BY <3>5 DEF BeginsStage, Enters, Becomes
        <4> HIDE DEF calls
        <4>3. \A x \in RowsIn(agentRuns, r) : x.stage < ctx[r].stage
          BY <4>2 DEF Kept, KeptAt
        <4>4. \A i : AtIn(agentRuns, r, ctx[r].stage, i) = {}
          BY <1>0, <4>3 DEF AtIn, RowsIn
        <4>5. KeptIn(agentRuns, r, ctx[r].stage, calls)
          BY <4>1, <4>4 DEF KeptIn, Working
        <4>6. \A x \in RowsIn(agentRuns, r) : x.stage <= ctx[r].stage
          BY <1>0, <4>3 DEF RowsIn
        <4>7. KeptAt(r)'
          BY <3>1, <4>2, <4>5, <4>6 DEF KeptAt, Calls
        <4> QED
          BY <2>1, <4>7 DEF Kept
      <3>6. CASE Advances(r)
        <4>1. /\ ctx[r].pc = "stage" /\ ctx'[r].pc \in {"persist", "gate"}
              /\ ctx'[r].pc = "gate" => ctx'[r].stage = ctx[r].stage + 1
          BY <3>6 DEF Advances, Becomes
        <4>2. \A x \in RowsIn(agentRuns, r) : x.stage <= ctx[r].stage /\ x.stage \in Nat
          BY <1>0, <4>1 DEF Kept, KeptAt, RowsIn
        <4>3. \A x \in RowsIn(agentRuns, r) : x.stage < ctx[r].stage + 1
          BY <1>0, <4>2
        <4>4. KeptAt(r)'
          BY <3>1, <4>1, <4>3 DEF KeptAt
        <4> QED
          BY <2>1, <4>4 DEF Kept
      <3> QED
        BY <1>1, <2>3, <3>2, <3>3, <3>4, <3>5, <3>6, RunSteps
    <2> QED
      BY <2>2, <2>3
  <1>2. ASSUME UNCHANGED <<ctx, agentRuns>>, \A q \in Runs : Begun(q)' => Begun(q) PROVE Kept'
    BY <1>2, KeptFrame DEF Kept
  <1>3. CASE reconcile_orphan_runs
    <2>1. \A q \in Runs : Begun(q)' => Begun(q)
      BY <1>0, <1>3 DEF reconcile_orphan_runs, Begun, Typed
    <2> QED
      BY <1>2, <1>3, <2>1 DEF reconcile_orphan_runs
  <1>4. CASE UNCHANGED vars
    BY <1>2, <1>4 DEF vars, tables, Begun
  <1> QED
    BY <1>1, <1>3, <1>4 DEF Next

LEMMA KeptInit == Init => Kept
  BY DEF Init, Context, Begun, NoRow, Kept, KeptAt

-----------------------------------------------------------------------------
(* The costs: what the context has added up and what its calls still hold  *)
(* make up what the rows of agent_runs cost.                               *)

(* A call that goes on is one whose cost has not been added up, and what   *)
(* is left to add up stays the same but for the sub-agents of a pod that   *)
(* has just been expanded.                                                 *)
LEMMA PendingSteps ==
    ASSUME Typed, Sized, Ordered,
           NEW r \in Runs, NEW i \in DOMAIN Calls(r), NEW d,
           CallKind(r, i, d), CallBecomes(r, i, d)
    PROVE  LET s == Calls(r)
               t == [s EXCEPT ![i] = d]
           IN  /\ i \in PendingIn(s) /\ ~Over(s[i])
               /\ ~Aggregates(r, i, d) => PendingIn(t) = PendingIn(s)
               /\ Aggregates(r, i, d) => /\ PendingIn(s) = PendingIn(t) \cup Members(r, i)
                                         /\ PendingIn(t) \cap Members(r, i) = {}
  <1> DEFINE s == Calls(r)
             c == s[i]
             t == [s EXCEPT ![i] = d]
  <1>0. InOrder(s, Slots(r), Parallel(r)) /\ i \in Nat \ {0}
    BY CallsTyped DEF Ordered, Typed
  <1>1. /\ DOMAIN t = DOMAIN s /\ t[i] = d /\ \A j \in DOMAIN s : j # i => t[j] = s[j]
    OBVIOUS
  <1>2. /\ d.pod = c.pod
        /\ Opens(r, i, d) => /\ c.pc = "new" /\ d.pc = "pod"
        /\ Aggregates(r, i, d) => /\ c.pc = "pod" /\ d.pc = "aggregate" /\ c.pod = 0
        /\ Starts(r, i, d) => c.pc \in {"new", "aggregate"} /\ d.pc \in {"api", "record"}
        /\ Serves(r, i, d) => c.pc \in {"new", "aggregate"} /\ d.pc = "done"
        /\ Raises(r, i, d) => c.pc \in {"new", "aggregate", "record"} /\ d.pc = "raised"
        /\ Turn(r, i, d) => c.pc = "api" /\ d.pc \in {"api", "record"}
        /\ Completes(r, i, d) => c.pc = "record" /\ d.pc = "done"
    BY CallPhases
  <1>3. c.pc = "new" /\ c.pod # 0 => s[c.pod].pc = "pod"
    <2>1. c.pc = "new" => MayBegin(r, i)
      BY <1>2 DEF CallKind, Opens, Starts, Serves, Raises
    <2> QED
      BY <2>1 DEF MayBegin
  <1>4. c.pc = "new" /\ d.pc # "pod" => c.agent # Pod
    BY <1>2 DEF CallKind, Starts, Serves, Raises
  <1>5. ~Over(c)
    BY <1>2 DEF CallKind, Over
  <1>6. Members(r, i) = {j \in DOMAIN s : s[j].pod = i}
    BY DEF Members
  <1>7. Opens(r, i, d) \/ (Aggregates(r, i, d) /\ c.pod = 0)
          \/ (d.pc \notin {"new", "pod"} /\ c.pc # "pod" /\ ~Opens(r, i, d))
    BY <1>2 DEF CallKind
  <1>8. \A j \in DOMAIN t : t[j].pod = s[j].pod
    BY <1>1, <1>2
  <1> HIDE DEF s, t
  <1>9. i \in PendingIn(s)
    <2>1. CASE c.pod = 0
      BY <2>1 DEF PendingIn, s
    <2>2. CASE c.pod # 0
      <3>1. MemberInOrder(s, i)
        BY <1>0, <2>2 DEF InOrder, s
      <3>2. s[c.pod].pc \in {"new", "pod"}
        BY <1>5, <3>1 DEF MemberInOrder
      <3> QED
        BY <3>2 DEF PendingIn, s
    <2> QED
      BY <2>1, <2>2
  <1>10. \A j \in DOMAIN s : s[j].pod # 0 => s[j].pod \in DOMAIN s /\ MemberInOrder(s, j)
    BY <1>0 DEF InOrder, MemberInOrder
  <1>11. ASSUME Opens(r, i, d) PROVE PendingIn(t) = PendingIn(s)
    <2>1. \A j \in DOMAIN s : t[j].pc \in {"new", "pod"} <=> s[j].pc \in {"new", "pod"}
      BY <1>1, <1>2, <1>11
    <2> QED
      BY <1>1, <1>8, <1>10, <2>1 DEF PendingIn
  <1>12. ASSUME Aggregates(r, i, d)
         PROVE  /\ PendingIn(s) = PendingIn(t) \cup Members(r, i)
                /\ PendingIn(t) \cap Members(r, i) = {}
    <2>1. \A j \in DOMAIN s : j # i => t[j].pc = s[j].pc
      BY <1>1
    <2>2. s[i].pc = "pod" /\ t[i].pc = "aggregate" /\ i # 0
      BY <1>0, <1>1, <1>2, <1>12 DEF s
    <2> QED
      BY <1>1, <1>6, <1>8, <1>10, <2>1, <2>2 DEF PendingIn
  <1>13. ASSUME d.pc \notin {"new", "pod"}, c.pc # "pod", ~Opens(r, i, d)
         PROVE  PendingIn(t) = PendingIn(s)
    <2>1. \A j \in DOMAIN s : s[j].pod = i /\ s[j].pod # 0 => c.pc \notin {"new", "pod"}
      <3> SUFFICES ASSUME NEW j \in DOMAIN s, s[j].pod = i, s[j].pod # 0,
                          c.pc \in {"new", "pod"}
                   PROVE  FALSE
        OBVIOUS
      <3>1. c.agent = Pod
        BY <1>10 DEF MemberInOrder, s
      <3>2. c.pc = "new" /\ d.pc # "pod"
        BY <1>13
      <3> QED
        BY <1>4, <3>1, <3>2
    <2>2. t[i].pc \notin {"new", "pod"} /\ \A j \in DOMAIN s : j # i => t[j].pc = s[j].pc
      BY <1>1, <1>13
    <2> QED
      BY <1>1, <1>8, <1>10, <2>1, <2>2 DEF PendingIn, s
  <1>14. ~Aggregates(r, i, d) => PendingIn(t) = PendingIn(s)
    BY <1>7, <1>11, <1>13
  <1> QED
    BY <1>5, <1>9, <1>12, <1>14 DEF s, t

(* The calls of the stage itself come first.                               *)
LEMMA TopFirst ==
    ASSUME Typed, Ordered, NEW r \in Runs
    PROVE  /\ Cardinality(TopLevel(r)) \in Nat
           /\ TopLevel(r) = 1 .. Cardinality(TopLevel(r))
           /\ \A i \in TopLevel(r) : 1 .. i \subseteq TopLevel(r)
           /\ IsFiniteSet(TopLevel(r)) /\ TopLevel(r) \subseteq Nat \ {0}
           /\ TopLevel(r) \subseteq PendingIn(Calls(r))
  <1> DEFINE T == TopLevel(r)
             n == Cardinality(T)
             m == Max(T)
  <1>1. /\ InOrder(Calls(r), Slots(r), Parallel(r)) /\ Calls(r) \in Seq(CallSet)
        /\ \A i \in DOMAIN Calls(r) : i \in Nat \ {0}
        /\ IsFiniteSet(DOMAIN Calls(r))
    BY CallsTyped DEF Ordered, Typed
  <1>2. T \subseteq DOMAIN Calls(r) /\ T \subseteq Nat \ {0} /\ T \subseteq PendingIn(Calls(r))
    BY <1>1 DEF TopLevel, PendingIn
  <1>3. IsFiniteSet(T) /\ n \in Nat
    BY <1>1, <1>2, FS_Subset, FS_CardinalityType
  <1>4. ASSUME NEW i \in T PROVE 1 .. i \subseteq T
    <2>1. TopInOrder(Calls(r), Slots(r), Parallel(r), i) /\ i \in DOMAIN Calls(r)
      BY <1>1 DEF InOrder, TopLevel
    <2>2. \A j \in 1 .. i - 1 : Calls(r)[j].pod = 0
      BY <2>1 DEF TopInOrder
    <2>3. 1 .. i \subseteq DOMAIN Calls(r)
      BY <1>1, <2>1
    <2>4. \A j \in 1 .. i : j = i \/ j \in 1 .. i - 1
      BY <1>2
    <2> QED
      BY <2>2, <2>3, <2>4 DEF TopLevel
  <1>5. CASE T = {}
    <2>1. n = 0
      BY <1>5, FS_EmptySet
    <2> QED
      BY <1>2, <1>3, <1>4, <1>5, <2>1
  <1>6. CASE T # {}
    <2>1. m \in T /\ \A y \in T : m >= y
      BY <1>2, <1>3, <1>6, Extremes
    <2> HIDE DEF m, T
    <2>2. T = 1 .. m /\ m \in Nat
      <3>1. m \in Nat \ {0} /\ 1 .. m \subseteq T
        BY <1>2, <1>4, <2>1
      <3>2. \A y \in T : y \in 1 .. m
        BY <1>2, <2>1, <3>1
      <3> QED
        BY <3>1, <3>2
    <2>3. Cardinality(1 .. m) = m
      BY <2>2, FS_Interval
    <2>4. n = m
      BY <2>2, <2>3
    <2> QED
      BY <1>2, <1>3, <1>4, <2>2, <2>4 DEF T
  <1> QED
    BY <1>5, <1>6

(* When the calls of the stage are over, so are those of the sub-agents,   *)
(* and the former are all that is left to add up.                          *)
LEMMA OverMeans ==
    ASSUME Typed, Ordered, NEW r \in Runs, StageOver(r)
    PROVE  /\ PendingIn(Calls(r)) = TopLevel(r)
           /\ \A i \in DOMAIN Calls(r) : Over(Calls(r)[i])
  <1>1. InOrder(Calls(r), Slots(r), Parallel(r))
    BY DEF Ordered
  <1>2. ASSUME NEW i \in DOMAIN Calls(r), Calls(r)[i].pod # 0
        PROVE  i \notin PendingIn(Calls(r)) /\ Over(Calls(r)[i])
    <2>1. MemberInOrder(Calls(r), i)
      BY <1>1, <1>2 DEF InOrder
    <2>2. Over(Calls(r)[Calls(r)[i].pod])
      BY <2>1 DEF MemberInOrder, StageOver, TopLevel
    <2>3. Calls(r)[Calls(r)[i].pod].pc \notin {"new", "pod"}
      BY <2>2 DEF Over
    <2> QED
      BY <1>2, <2>1, <2>3 DEF MemberInOrder, PendingIn
  <1>3. \A i \in DOMAIN Calls(r) : Calls(r)[i].pod = 0 => i \in TopLevel(r) /\ Over(Calls(r)[i])
    BY DEF TopLevel, StageOver
  <1> QED
    BY <1>2, <1>3 DEF PendingIn, TopLevel

(* What a step of a call does to what the rows of its run cost.            *)
LEMMA SpentSteps ==
    ASSUME Typed, Sized, Ordered, Kept,
           NEW r \in Runs, NEW i \in DOMAIN Calls(r), NEW d,
           CallKind(r, i, d), CallBecomes(r, i, d)
    PROVE  SpentIn(agentRuns', r)
             = SpentIn(agentRuns, r) + (IF Completes(r, i, d) THEN d.res.cost ELSE 0)
  <1> DEFINE k == ctx[r].stage
             c == Calls(r)[i]
             row == RowOf(c, r, k, i)
             res == c.res
             new == Completed(row, res)
             rest == agentRuns \ {row}
  <1>1. /\ c \in CallSet /\ i \in Nat \ {0} /\ k \in DOMAIN Stages
        /\ agentRuns \subseteq AgentRow /\ IsFiniteSet(agentRuns)
    BY CallsTyped DEF Typed, ContextTyped
  <1>2. /\ row \in AgentRow /\ row.run = r /\ row.tokens = 0 /\ row.index = i /\ row.stage = k
    BY <1>1, RowOfTyped
  <1>3. /\ ~Starts(r, i, d) /\ ~Completes(r, i, d) => agentRuns' = agentRuns
        /\ Starts(r, i, d) => /\ agentRuns' = agentRuns \cup {row}
                              /\ AtIn(agentRuns, r, k, i) = {}
        /\ Completes(r, i, d) =>
              /\ agentRuns' = rest \cup {new}
              /\ AtIn(agentRuns, r, k, i) = {row}
              /\ res \in Results /\ res.status # "none"
    BY RowsBecome
  <1>4. Completes(r, i, d) => c.pc = "record" /\ d.res = res
    BY CallPhases
  <1>5. SpentIn(agentRuns, r) \in Nat
    BY <1>1, SpentShape
  <1> HIDE DEF row, k, c
  <1>6. CASE ~Starts(r, i, d) /\ ~Completes(r, i, d)
    BY <1>3, <1>5, <1>6
  <1>7. CASE Starts(r, i, d)
    <2>1. ~Completes(r, i, d)
      BY <1>7, MayBeginNew DEF Starts, Completes
    <2>2. row \notin agentRuns
      BY <1>2, <1>3, <1>7 DEF AtIn
    <2>3. SpentIn(agentRuns \cup {row}, row.run) = SpentIn(agentRuns, row.run) + row.tokens
      BY <1>1, <1>2, <2>2, SpentPlus
    <2> QED
      BY <1>2, <1>3, <1>7, <2>1, <2>3
  <1>8. CASE Completes(r, i, d)
    <2>1. /\ new \in AgentRow /\ new.run = r /\ new.stage = k /\ new.index = i
          /\ new.tokens = res.cost
      BY <1>2, <1>3, <1>8, ClosedTyped
    <2>2. rest \subseteq AgentRow /\ IsFiniteSet(rest) /\ row \notin rest
      BY <1>1, FS_Subset
    <2>3. new \notin rest
      BY <1>3, <1>8, <2>1 DEF AtIn
    <2>4. rest \cup {row} = agentRuns
      BY <1>3, <1>8 DEF AtIn
    <2> HIDE DEF new, rest, res
    <2>5. SpentIn(rest \cup {row}, row.run) = SpentIn(rest, row.run) + row.tokens
      BY <1>2, <2>2, SpentPlus
    <2>6. SpentIn(rest \cup {new}, new.run) = SpentIn(rest, new.run) + new.tokens
      BY <2>1, <2>2, <2>3, SpentPlus
    <2>7. SpentIn(rest, r) \in Nat
      BY <2>2, SpentShape
    <2>8. SpentIn(agentRuns', r) = SpentIn(rest, r) + res.cost
      BY <1>3, <1>8, <2>1, <2>6
    <2>9. SpentIn(agentRuns, r) = SpentIn(rest, r)
      <3>1. SpentIn(agentRuns, r) = SpentIn(rest \cup {row}, row.run)
        BY <1>2, <2>4
      <3> QED
        BY <1>2, <2>5, <2>7, <3>1
    <2> QED
      BY <1>4, <1>8, <2>8, <2>9 DEF res
  <1> QED
    BY <1>6, <1>7, <1>8

(* The status of a row whose run has not come to an end.                   *)
Open(r) ==
    \/ rows[r].status \in {"none", "running"}
    \/ rows[r].status = "failed" /\ rows[r].ext = "orphaned"

MoneyAt(r) ==
    /\ ctx[r].pc \in {"new", "redis", "insert"} => ctx[r].cost = 0
    /\ ctx[r].pc \in {"gate", "persist", "finish"} => ctx[r].cost = SpentIn(agentRuns, r)
    /\ ctx[r].pc = "stage" =>
          ctx[r].cost + CostOf(Calls(r), PendingIn(Calls(r))) = SpentIn(agentRuns, r)
    /\ ctx[r].pc = "except" => /\ ctx[r].cost <= SpentIn(agentRuns, r)
                               /\ ctx[r].goal \in {"failed", "cancelled"}
    /\ ctx[r].pc = "finish" => ctx[r].goal = "succeeded"
    /\ rows[r].tokens <= SpentIn(agentRuns, r)
    /\ rows[r].status = "succeeded" => rows[r].tokens = SpentIn(agentRuns, r)
    /\ ctx[r].pc # "off" => Open(r)

Money == \A r \in Runs : MoneyAt(r)

LEMMA MoneyFrame ==
    ASSUME NEW q \in Runs, MoneyAt(q), ctx'[q] = ctx[q], rows'[q] = rows[q],
           RowsIn(agentRuns', q) = RowsIn(agentRuns, q)
    PROVE  MoneyAt(q)'
  <1>1. SpentIn(agentRuns', q) = SpentIn(agentRuns, q)
    BY DEF SpentIn
  <1> QED
    BY <1>1 DEF MoneyAt, Open, Calls

LEMMA MoneyCall ==
    ASSUME Typed, Sized, Ordered, Kept, Money,
           NEW r \in Runs, NEW i \in DOMAIN Calls(r), NEW d,
           CallKind(r, i, d), CallBecomes(r, i, d)
    PROVE  MoneyAt(r)'
  <1> DEFINE s == Calls(r)
             t == [s EXCEPT ![i] = d]
             P == PendingIn(s)
             Q == PendingIn(t)
             M == Members(r, i)
  <1>1. /\ ctx[r].pc = "stage" /\ ctx'[r].pc = "stage" /\ ctx'[r].calls = t
        /\ rows' = rows
    BY DEF Ordered, CallBecomes
  <1>2. /\ s \in Seq(CallSet) /\ d \in CallSet /\ ctx'[r].cost \in Nat
        /\ ctx[r].cost \in Nat
        /\ agentRuns \subseteq AgentRow /\ IsFiniteSet(agentRuns)
    BY CallsTyped, CallKindTyped DEF Typed, ContextTyped
  <1>3. ctx[r].cost + CostOf(s, P) = SpentIn(agentRuns, r)
    BY <1>1 DEF Money, MoneyAt
  <1>4. /\ i \in P /\ ~Over(s[i])
        /\ ~Aggregates(r, i, d) => Q = P
        /\ Aggregates(r, i, d) => P = Q \cup M /\ Q \cap M = {}
    BY PendingSteps
  <1>5. s[i].pc # "done"
    BY <1>4 DEF Over
  <1>6. /\ Opens(r, i, d) => d.pc = "pod"
        /\ Aggregates(r, i, d) => d.pc = "aggregate"
        /\ Starts(r, i, d) => d.pc \in {"api", "record"}
        /\ Serves(r, i, d) => d.pc = "done" /\ d.res.cost = 0
        /\ Raises(r, i, d) => d.pc = "raised"
        /\ Turn(r, i, d) => d.pc \in {"api", "record"}
        /\ Completes(r, i, d) => d.pc = "done"
    BY CallPhases
  <1>7. SpentIn(agentRuns', r)
          = SpentIn(agentRuns, r) + (IF Completes(r, i, d) THEN d.res.cost ELSE 0)
    BY SpentSteps
  <1>8. d.res.cost \in Nat /\ SpentIn(agentRuns, r) \in Nat
    <2>1. d.res \in Results
      BY <1>2 DEF CallSet
    <2> QED
      BY <1>2, <2>1, SpentShape DEF Results
  <1>9. /\ CostOf(s, P) \in Nat /\ CostOf(s, Q) \in Nat /\ CostOf(s, M) \in Nat
        /\ CostOf(t, Q) \in Nat
        /\ d.pc # "done" => CostOf(t, Q) = CostOf(s, Q)
        /\ d.pc = "done" /\ i \in Q => CostOf(t, Q) = CostOf(s, Q) + d.res.cost
    <2> HIDE DEF s, P, Q, M
    <2>1. /\ t \in Seq(CallSet)
          /\ d.pc # "done" => CostOf(t, Q) = CostOf(s, Q)
          /\ d.pc = "done" /\ i \in Q => CostOf(t, Q) = CostOf(s, Q) + d.res.cost
      BY <1>2, <1>5, CostStep DEF s
    <2> HIDE DEF t
    <2> QED
      BY <1>2, <2>1, CostShape
  <1>10. ctx'[r].cost + CostOf(t, Q) = SpentIn(agentRuns', r)
    <2>1. CASE Aggregates(r, i, d)
      <3>1. ctx'[r].cost = ctx[r].cost + CostOf(s, M) /\ ~Completes(r, i, d)
        BY <1>6, <2>1, Bridges DEF Aggregates
      <3>2. CostOf(s, P) = CostOf(s, Q) + CostOf(s, M)
        <4> HIDE DEF s, P, Q, M
        <4> QED
          BY <1>2, <1>4, <2>1, CostSplit
      <3> HIDE DEF s, t, P, Q, M
      <3>3. CostOf(t, Q) = CostOf(s, Q)
        BY <1>6, <1>9, <2>1
      <3>4. SpentIn(agentRuns', r) = SpentIn(agentRuns, r) + 0
        BY <1>7, <3>1
      <3> QED
        BY <1>2, <1>3, <1>8, <1>9, <3>1, <3>2, <3>3, <3>4
    <2>2. CASE ~Aggregates(r, i, d)
      <3>1. ctx'[r].cost = ctx[r].cost /\ Q = P
        BY <1>4, <2>2 DEF CallKind, Opens, Starts, Serves, Raises, Turn, Completes, SameCost
      <3>2. CASE Completes(r, i, d)
        <4> HIDE DEF s, t, P, Q, M
        <4>1. CostOf(t, Q) = CostOf(s, P) + d.res.cost
          BY <1>4, <1>6, <1>9, <3>1, <3>2
        <4>2. SpentIn(agentRuns', r) = SpentIn(agentRuns, r) + d.res.cost
          BY <1>7, <3>2
        <4> QED
          BY <1>2, <1>3, <1>8, <1>9, <3>1, <4>1, <4>2
      <3>3. CASE Serves(r, i, d)
        <4>1. ~Completes(r, i, d)
          BY <3>3, MayBeginNew DEF Serves, Completes
        <4> HIDE DEF s, t, P, Q, M
        <4>2. CostOf(t, Q) = CostOf(s, P) + 0
          BY <1>4, <1>6, <1>9, <3>1, <3>3
        <4>3. SpentIn(agentRuns', r) = SpentIn(agentRuns, r) + 0
          BY <1>7, <4>1
        <4> QED
          BY <1>2, <1>3, <1>8, <1>9, <3>1, <4>2, <4>3
      <3>4. CASE ~Completes(r, i, d) /\ ~Serves(r, i, d)
        <4>1. d.pc # "done"
          BY <1>6, <2>2, <3>4 DEF CallKind
        <4> HIDE DEF s, t, P, Q, M
        <4> QED
          BY <1>2, <1>3, <1>7, <1>8, <1>9, <3>1, <3>4, <4>1
      <3> QED
        BY <3>2, <3>3, <3>4
    <2> QED
      BY <2>1, <2>2
  <1>11. SpentIn(agentRuns, r) <= SpentIn(agentRuns', r) /\ SpentIn(agentRuns', r) \in Nat
    BY <1>7, <1>8
  <1>12. rows[r].tokens <= SpentIn(agentRuns, r) /\ Open(r) /\ rows[r].tokens \in Nat
    BY <1>1 DEF Money, MoneyAt, Typed, RowSet
  <1> HIDE DEF s, t, P
  <1>13. rows[r].tokens <= SpentIn(agentRuns', r)
    BY <1>8, <1>11, <1>12
  <1>14. Open(r)' /\ rows'[r].status # "succeeded"
    BY <1>1, <1>12 DEF Open
  <1> QED
    BY <1>1, <1>10, <1>13, <1>14 DEF MoneyAt, Calls

(* The sums at the end of a stage.                                         *)
LEMMA AddedUp ==
    ASSUME Typed, Ordered, Money, NEW r \in Runs, ctx[r].pc = "stage", StageOver(r)
    PROVE  /\ Added(r, Cardinality(TopLevel(r))) = SpentIn(agentRuns, r)
           /\ Stops(r) # {} => Added(r, Min(Stops(r))) <= SpentIn(agentRuns, r)
  <1> DEFINE s == Calls(r)
             T == TopLevel(r)
             n == Cardinality(T)
             P == PendingIn(s)
             m == Min(Stops(r))
  <1>1. /\ s \in Seq(CallSet) /\ ctx[r].cost \in Nat
        /\ agentRuns \subseteq AgentRow /\ IsFiniteSet(agentRuns)
    BY CallsTyped DEF Typed, ContextTyped
  <1>2. SpentIn(agentRuns, r) = ctx[r].cost + CostOf(s, P)
    BY DEF Money, MoneyAt
  <1>3. T = 1 .. n /\ P = T
    BY TopFirst, OverMeans
  <1>4. Added(r, n) = ctx[r].cost + CostOf(s, 1 .. n)
    BY Bridges DEF Added
  <1>5. ASSUME Stops(r) # {} PROVE Added(r, m) <= SpentIn(agentRuns, r)
    <2>1. Stops(r) \subseteq T
      BY DEF Stops
    <2>2. IsFiniteSet(Stops(r)) /\ Stops(r) \subseteq Int
      BY <2>1, TopFirst, FS_Subset
    <2>3. m \in T
      BY <1>5, <2>1, <2>2, Extremes
    <2>4. 1 .. m \subseteq T
      BY <2>3, TopFirst
    <2>5. Added(r, m) = ctx[r].cost + CostOf(s, 1 .. m)
      BY Bridges DEF Added
    <2> HIDE DEF s, T, P, m
    <2>6. CostOf(s, 1 .. m) <= CostOf(s, P)
      BY <1>1, <1>3, <2>4, CostWithin
    <2>7. CostOf(s, 1 .. m) \in Nat /\ CostOf(s, P) \in Nat
      BY <1>1, CostShape
    <2> QED
      BY <1>1, <1>2, <2>5, <2>6, <2>7
  <1> QED
    BY <1>2, <1>3, <1>4, <1>5

LEMMA MoneyOwn ==
    ASSUME BudgetInv, Ordered, Kept, Money, NEW r \in Runs,
           CheckRows(r) \/ Step(r) \/ Crash(r), ~CallGoesOn(r)
    PROVE  MoneyAt(r)'
  <1> DEFINE S == SpentIn(agentRuns, r)
  <1>0. /\ Shaped /\ Typed /\ Sized
        /\ ctx[r].cost \in Nat /\ rows[r].tokens \in Nat /\ S \in Nat
        /\ ctx[r].ext \in {"none", "succeeded", "succeeded_with_caveats"}
    BY SpentShape DEF BudgetInv, KeyInv, Typed, ContextTyped, RowSet
  <1>1. SpentIn(agentRuns', r) = S
    BY RowsStill
  <1>2. MoneyAt(r) /\ KeptAt(r)
    BY DEF Money, Kept
  <1>3. rows[r].tokens <= S /\ (ctx[r].pc # "off" => Open(r))
        /\ (rows[r].status = "succeeded" => rows[r].tokens = S)
    BY <1>2 DEF MoneyAt
  <1> HIDE DEF S
  <1>4. CASE Leaves(r) \/ Admits(r)
    <2>1. /\ ctx'[r].pc \in {"off", "redis"} /\ ctx'[r].cost = 0 /\ rows' = rows
          /\ ctx[r].pc # "off"
      BY <1>4 DEF Leaves, Admits, Clears, Becomes, tables
    <2> QED
      BY <1>1, <1>3, <2>1 DEF MoneyAt, Open
  <1>5. CASE Reserves(r)
    <2>1. /\ ctx'[r].pc = "insert" /\ ctx'[r].cost = ctx[r].cost /\ rows' = rows
          /\ ctx[r].pc = "redis"
      BY <1>5 DEF Reserves, Moves, Becomes, tables
    <2> QED
      BY <1>1, <1>2, <1>3, <2>1 DEF MoneyAt, Open
  <1>6. CASE Inserts(r)
    <2>1. /\ ctx'[r].pc = "gate" /\ ctx'[r].cost = ctx[r].cost /\ ctx[r].pc = "insert"
          /\ rows'[r].status = "running" /\ rows'[r].tokens = 0
      BY <1>6 DEF Inserts, Moves, Becomes
    <2>2. RowsIn(agentRuns, r) = {}
      BY <1>2, <2>1 DEF KeptAt, RowsIn, BudgetInv, KeyInv, RowFirst
    <2>3. S = 0
      BY <2>2, SumEmpty DEF S, SpentIn, SumFunction
    <2>4. ctx[r].cost = 0
      BY <1>2, <2>1 DEF MoneyAt
    <2> QED
      BY <1>1, <2>1, <2>3, <2>4 DEF MoneyAt, Open
  <1>7. CASE GivesUp(r)
    <2>1. /\ ctx'[r].pc = "except" /\ ctx'[r].cost = ctx[r].cost /\ rows' = rows
          /\ ctx'[r].goal \in {"failed", "cancelled"}
          /\ ctx[r].pc \in {"gate", "persist", "finish"}
      BY <1>7 DEF GivesUp, Aborts, Becomes, tables
    <2>2. ctx[r].cost = S
      BY <1>2, <2>1 DEF MoneyAt, S
    <2> QED
      BY <1>0, <1>1, <1>3, <2>1, <2>2 DEF MoneyAt, Open
  <1>8. CASE BeginsStage(r)
    <2> DEFINE calls == Invocations(r) \o PodInvocations(Invocations(r))
    <2>1. /\ ctx'[r].pc = "stage" /\ ctx'[r].cost = ctx[r].cost /\ ctx'[r].calls = calls
          /\ rows' = rows /\ ctx[r].pc = "gate"
      BY <1>8 DEF BeginsStage, Enters, Becomes, tables
    <2>2. (\A i \in DOMAIN calls : calls[i].pc = "new") /\ calls \in Seq(CallSet)
      BY <1>0, EnteredInOrder, EnteredTyped DEF Typed
    <2> HIDE DEF calls
    <2>3. DoneIn(calls) = {}
      BY <2>2 DEF DoneIn
    <2>4. CostOf(calls, PendingIn(calls)) = 0
      BY <2>2, <2>3, CostNothing
    <2>5. ctx[r].cost = S
      BY <1>2, <2>1 DEF MoneyAt, S
    <2> QED
      BY <1>0, <1>1, <1>3, <2>1, <2>4, <2>5 DEF MoneyAt, Open, Calls
  <1>9. CASE Raised(r)
    <2>1. /\ ctx'[r].pc = "except" /\ ctx'[r].cost = ctx[r].cost /\ rows' = rows
          /\ ctx'[r].goal = "failed" /\ ctx[r].pc = "stage"
      BY <1>9 DEF Raised, Aborts, Becomes, tables
    <2>2. ctx[r].cost + CostOf(Calls(r), PendingIn(Calls(r))) = S
      BY <1>2, <2>1 DEF MoneyAt, S
    <2>3. CostOf(Calls(r), PendingIn(Calls(r))) \in Nat
      BY <1>0, CallsTyped, CostShape DEF Typed
    <2>4. ctx[r].cost <= S
      BY <1>0, <2>2, <2>3
    <2> QED
      BY <1>0, <1>1, <1>3, <2>1, <2>4 DEF MoneyAt, Open
  <1>10. CASE Broken(r)
    <2> DEFINE sum == Added(r, Min(Stops(r)))
    <2>1. /\ ctx'[r].pc = "except" /\ ctx'[r].cost = sum /\ rows' = rows
          /\ ctx'[r].goal = "failed" /\ ctx[r].pc = "stage"
      BY <1>10 DEF Broken, Aborts, Becomes, tables
    <2>2. sum <= S
      BY <1>0, <1>10, AddedUp DEF Broken, S
    <2> HIDE DEF sum
    <2> QED
      BY <1>0, <1>1, <1>3, <2>1, <2>2 DEF MoneyAt, Open
  <1>11. CASE Skips(r) \/ Advances(r)
    <2> DEFINE sum == Added(r, Cardinality(TopLevel(r)))
    <2>1. /\ ctx'[r].pc \in {"finish", "persist", "gate"} /\ ctx'[r].cost = sum
          /\ rows' = rows /\ ctx[r].pc = "stage"
          /\ ctx'[r].pc = "finish" => ctx'[r].goal = "succeeded"
      BY <1>11 DEF Skips, Advances, Becomes, tables
    <2>2. sum = S
      BY <1>0, <1>11, AddedUp DEF Skips, Advances, S
    <2> HIDE DEF sum
    <2> QED
      BY <1>0, <1>1, <1>3, <2>1, <2>2 DEF MoneyAt, Open
  <1>12. CASE Persists(r)
    <2>1. /\ ctx'[r].pc = "finish" /\ ctx'[r].cost = ctx[r].cost
          /\ rows' = rows /\ ctx[r].pc = "persist" /\ ctx'[r].goal = "succeeded"
      BY <1>12 DEF Persists, Settles, Becomes
    <2>2. ctx[r].cost = S
      BY <1>2, <2>1 DEF MoneyAt, S
    <2> QED
      BY <1>0, <1>1, <1>3, <2>1, <2>2 DEF MoneyAt, Open
  <1>13. CASE Finalizes(r)
    <2>1. /\ ctx'[r].pc = "off" /\ ctx'[r].cost = 0 /\ ctx[r].pc \in {"finish", "except"}
          /\ rows'[r].status = ctx[r].goal /\ rows'[r].tokens = ctx[r].cost
      BY <1>13 DEF Finalizes, Clears, Becomes
    <2>2. ctx[r].cost <= S /\ (ctx[r].goal = "succeeded" => ctx[r].cost = S)
      BY <1>0, <1>2, <2>1 DEF MoneyAt, S
    <2> QED
      BY <1>1, <2>1, <2>2 DEF MoneyAt
  <1> QED
    BY <1>4, <1>5, <1>6, <1>7, <1>8, <1>9, <1>10, <1>11, <1>12, <1>13, RunSteps

LEMMA MoneyStep ==
    ASSUME BudgetInv, Ordered, Kept, Money, [Next]_vars
    PROVE  Money'
  <1>0. Shaped /\ Typed /\ Sized
    BY DEF BudgetInv, KeyInv
  <1>1. ASSUME NEW r \in Runs, CheckRows(r) \/ Step(r) \/ Crash(r) PROVE Money'
    <2>1. ASSUME NEW q \in Runs, q # r PROVE MoneyAt(q)'
      BY <1>1, <2>1, Elsewhere, MoneyFrame DEF Money
    <2>2. MoneyAt(r)'
      <3>1. CASE CallGoesOn(r)
        BY <1>0, <3>1, MoneyCall DEF CallGoesOn
      <3>2. CASE ~CallGoesOn(r)
        BY <1>1, <3>2, MoneyOwn
      <3> QED
        BY <3>1, <3>2
    <2> QED
      BY <2>1, <2>2 DEF Money
  <1>2. CASE reconcile_orphan_runs
    <2> SUFFICES ASSUME NEW q \in Runs PROVE MoneyAt(q)'
      BY DEF Money
    <2>1. UNCHANGED <<ctx, agentRuns>> /\ MoneyAt(q)
      BY <1>2 DEF reconcile_orphan_runs, Money
    <2>2. \/ rows'[q] = rows[q]
          \/ /\ rows'[q] = [rows[q] EXCEPT !.status = "failed", !.ext = "orphaned"]
      BY <1>2 DEF reconcile_orphan_runs
    <2>3. CASE rows'[q] = [rows[q] EXCEPT !.status = "failed", !.ext = "orphaned"]
      <3>1. rows'[q].status = "failed" /\ rows'[q].ext = "orphaned"
            /\ rows'[q].tokens = rows[q].tokens
        BY <1>0, <2>3 DEF Typed, RowSet
      <3> QED
        BY <2>1, <3>1 DEF MoneyAt, Open, Calls
    <2>4. CASE rows'[q] = rows[q]
      BY <2>1, <2>4, MoneyFrame
    <2> QED
      BY <2>2, <2>3, <2>4
  <1>3. CASE UNCHANGED vars
    BY <1>3, MoneyFrame DEF vars, tables, Money
  <1> QED
    BY <1>1, <1>2, <1>3 DEF Next

LEMMA MoneyInit == Init => Money
  <1> SUFFICES ASSUME Init, NEW r \in Runs PROVE MoneyAt(r)
    BY DEF Money
  <1>1. RowsIn(agentRuns, r) = {}
    BY DEF Init, RowsIn
  <1>2. SpentIn(agentRuns, r) = 0
    BY <1>1, SumEmpty DEF SpentIn, SumFunction
  <1>3. /\ rows[r].status = "none" /\ rows[r].tokens = 0
        /\ ctx[r].pc = "new" /\ ctx[r].cost = 0
    BY DEF Init, NoRow, Context
  <1> QED
    BY <1>2, <1>3 DEF MoneyAt, Open

LedgerInv == BudgetInv /\ Ordered /\ Kept /\ Money

LEMMA LedgerKept == Spec => []LedgerInv
  <1>1. Init => LedgerInv
    BY BudgetInit, OrderInit, KeptInit, MoneyInit DEF LedgerInv
  <1>2. LedgerInv /\ [Next]_vars => LedgerInv'
    BY BudgetStep, OrderStep, KeptStep, MoneyStep DEF LedgerInv
  <1> QED
    BY <1>1, <1>2, PTL DEF Spec

-----------------------------------------------------------------------------
(* The columns of the costs: each holds the tokens beside it, rounded, and *)
(* no call that failed is billed.                                          *)

BilledIn(runs, r) == SumFunction([x \in RowsIn(runs, r) |-> x.cost])
WrittenIn(runs, r) == {x \in RowsIn(runs, r) : x.status = "succeeded"}

Priced(x) == x.cost = Rounded(x.tokens) /\ (x.status = "succeeded" \/ x.tokens = 0)

Columns ==
    /\ \A x \in agentRuns : Priced(x)
    /\ \A r \in Runs : rows[r].cost = Rounded(rows[r].tokens)

LEMMA ColumnsCall ==
    ASSUME Typed, Sized, Ordered, Kept, Columns,
           NEW r \in Runs, NEW i \in DOMAIN Calls(r), NEW d,
           CallKind(r, i, d), CallBecomes(r, i, d)
    PROVE  \A x \in agentRuns' : Priced(x)
  <1> DEFINE k == ctx[r].stage
             c == Calls(r)[i]
             row == RowOf(c, r, k, i)
             res == c.res
             new == Completed(row, res)
  <1>1. c \in CallSet /\ i \in Nat \ {0} /\ k \in DOMAIN Stages
    BY CallsTyped DEF Typed, ContextTyped
  <1>2. row \in AgentRow /\ row.tokens = 0 /\ row.cost = 0
    BY <1>1, RowOfTyped
  <1>3. /\ ~Starts(r, i, d) /\ ~Completes(r, i, d) => agentRuns' = agentRuns
        /\ Starts(r, i, d) => agentRuns' = agentRuns \cup {row}
        /\ Completes(r, i, d) => /\ agentRuns' = (agentRuns \ {row}) \cup {new}
                                 /\ res \in Results /\ res.status # "none"
    BY RowsBecome
  <1>4. Priced(row)
    BY <1>2, RoundedZero DEF Priced
  <1>5. ASSUME Completes(r, i, d) PROVE Priced(new)
    <2>1. res \in Results /\ res.status # "none"
      BY <1>3, <1>5
    <2>2. new.status = res.status /\ new.tokens = res.cost /\ new.cost = Rounded(res.cost)
      BY <1>2, <2>1, ClosedTyped
    <2>3. res.status = "succeeded" \/ res.cost = 0
      BY <2>1 DEF Results
    <2> HIDE DEF new, res
    <2> QED
      BY <2>2, <2>3 DEF Priced
  <1> HIDE DEF row, new, res
  <1> QED
    BY <1>3, <1>4, <1>5 DEF Columns

LEMMA ColumnsStep ==
    ASSUME LedgerInv, Columns, [Next]_vars
    PROVE  Columns'
  <1>0. BudgetInv /\ Ordered /\ Kept /\ Shaped /\ Typed /\ Sized
    BY DEF LedgerInv, BudgetInv, KeyInv
  <1>1. ASSUME NEW r \in Runs, CheckRows(r) \/ Step(r) \/ Crash(r) PROVE Columns'
    <2>1. CASE CallGoesOn(r)
      <3>1. PICK i \in DOMAIN Calls(r) : \E d : CallBecomes(r, i, d) /\ CallKind(r, i, d)
        BY <2>1 DEF CallGoesOn
      <3>2. PICK d : CallBecomes(r, i, d) /\ CallKind(r, i, d)
        BY <3>1
      <3>3. \A x \in agentRuns' : Priced(x)
        BY <1>0, <3>2, ColumnsCall
      <3>4. rows' = rows
        BY <3>2 DEF CallBecomes
      <3> QED
        BY <3>3, <3>4 DEF Columns
    <2>2. CASE ~CallGoesOn(r)
      <3>1. \/ Leaves(r) \/ Admits(r) \/ Reserves(r) \/ Inserts(r)
            \/ GivesUp(r) \/ BeginsStage(r) \/ Raised(r) \/ Broken(r) \/ Skips(r)
            \/ Advances(r) \/ Persists(r) \/ Finalizes(r)
        BY <1>0, <1>1, <2>2, RunSteps
      <3>2. agentRuns' = agentRuns /\ \A q \in Runs : q # r => rows'[q] = rows[q]
        BY <3>1 DEF Leaves, Admits, Reserves, Inserts, GivesUp, BeginsStage, Raised, Broken,
                    Skips, Advances, Persists, Finalizes, tables
      <3>3. rows'[r].cost = Rounded(rows'[r].tokens)
        <4>1. CASE Inserts(r)
          BY <4>1, RoundedZero DEF Inserts
        <4>2. CASE Finalizes(r)
          BY <4>2 DEF Finalizes
        <4>3. CASE ~Inserts(r) /\ ~Finalizes(r)
          <5>1. rows' = rows
            BY <3>1, <4>3 DEF Leaves, Admits, Reserves, GivesUp, BeginsStage, Raised, Broken,
                              Skips, Advances, Persists, tables
          <5> QED
            BY <5>1 DEF Columns
        <4> QED
          BY <4>1, <4>2, <4>3
      <3> QED
        BY <3>2, <3>3 DEF Columns
    <2> QED
      BY <2>1, <2>2
  <1>2. CASE reconcile_orphan_runs
    <2>1. agentRuns' = agentRuns
      BY <1>2 DEF reconcile_orphan_runs
    <2>2. ASSUME NEW q \in Runs PROVE rows'[q].cost = Rounded(rows'[q].tokens)
      <3>1. \/ rows'[q] = rows[q]
            \/ rows'[q] = [rows[q] EXCEPT !.status = "failed", !.ext = "orphaned"]
        BY <1>2 DEF reconcile_orphan_runs
      <3>2. rows'[q].cost = rows[q].cost /\ rows'[q].tokens = rows[q].tokens
        BY <1>0, <3>1 DEF Typed, RowSet
      <3> QED
        BY <3>2 DEF Columns
    <2> QED
      BY <2>1, <2>2 DEF Columns
  <1>3. CASE UNCHANGED vars
    BY <1>3 DEF vars, tables, Columns
  <1> QED
    BY <1>1, <1>2, <1>3 DEF Next

LEMMA ColumnsInit == Init => Columns
  BY RoundedZero DEF Init, NoRow, Columns

(* What was billed and what was used are as far apart as the rows of the   *)
(* calls that succeeded, by half of the last decimal for each.             *)
LEMMA BilledNear ==
    ASSUME Typed, Columns, NEW r \in Runs
    PROVE  LET n == Cardinality(WrittenIn(agentRuns, r)) IN
           /\ n \in Nat
           /\ BilledIn(agentRuns, r) \in Nat /\ SpentIn(agentRuns, r) \in Nat
           /\ 2 * (BilledIn(agentRuns, r) - SpentIn(agentRuns, r)) <= Unit * n
           /\ 2 * (SpentIn(agentRuns, r) - BilledIn(agentRuns, r)) <= Unit * n
  <1> DEFINE S == RowsIn(agentRuns, r)
             B == WrittenIn(agentRuns, r)
             f == [x \in S |-> x.cost]
             g == [x \in S |-> x.tokens]
  <1>1. IsFiniteSet(S) /\ S \subseteq AgentRow /\ S \subseteq agentRuns /\ B \subseteq S
    BY SpentShape DEF Typed, RowsIn, WrittenIn
  <1>2. \A x \in S : /\ f[x] = x.cost /\ g[x] = x.tokens
                     /\ f[x] \in Nat /\ g[x] \in Nat
    BY <1>1 DEF AgentRow
  <1>3. \A x \in S : f[x] = Rounded(g[x]) /\ (x \in B \/ g[x] = 0)
    BY <1>1, <1>2 DEF Columns, Priced, WrittenIn
  <1>4. BilledIn(agentRuns, r) = SumFunctionOnSet(f, S)
    BY DEF BilledIn, SumFunction
  <1>5. SpentIn(agentRuns, r) = SumFunctionOnSet(g, S)
    BY DEF SpentIn, SumFunction
  <1> HIDE DEF S, B, f, g
  <1>6. Unit \in Nat
    BY WorkflowAssumption
  <1>7. ASSUME NEW x \in B
        PROVE  2 * (f[x] - g[x]) <= Unit /\ 2 * (g[x] - f[x]) <= Unit
    <2>1. g[x] \in Nat /\ f[x] = Rounded(g[x])
      BY <1>1, <1>2, <1>3
    <2> QED
      BY <2>1, RoundedNear
  <1>8. \A x \in S \ B : f[x] = 0 /\ g[x] = 0
    BY <1>3, RoundedZero
  <1>9. \A x \in S : f[x] \in Int /\ g[x] \in Int
    BY <1>2
  <1>10. 2 * (SumFunctionOnSet(f, S) - SumFunctionOnSet(g, S)) <= Unit * Cardinality(B)
    <2>1. (\A x \in B : 2 * (f[x] - g[x]) <= Unit) /\ \A x \in S \ B : f[x] <= g[x]
      BY <1>7, <1>8
    <2> QED
      BY <1>1, <1>6, <1>9, <2>1, SumNear
  <1>11. 2 * (SumFunctionOnSet(g, S) - SumFunctionOnSet(f, S)) <= Unit * Cardinality(B)
    <2>1. (\A x \in B : 2 * (g[x] - f[x]) <= Unit) /\ \A x \in S \ B : g[x] <= f[x]
      BY <1>7, <1>8
    <2> QED
      BY <1>1, <1>6, <1>9, <2>1, SumNear
  <1>12. SumFunctionOnSet(f, S) \in Nat /\ SumFunctionOnSet(g, S) \in Nat
    BY <1>1, <1>2, SumNat
  <1>13. Cardinality(B) \in Nat
    BY <1>1, FS_Subset, FS_CardinalityType
  <1> QED
    BY <1>4, <1>5, <1>10, <1>11, <1>12, <1>13 DEF B

(* The tokens written to workflow_runs never exceed those of the run's     *)
(* agent_runs and are equal to them when the run succeeded; so do the      *)
(* costs, but for half of the last decimal for each number that is rounded *)
(* on its own: CostReconciles, for every workflow and whatever fails       *)
(* (_run_stage, run_subagents_parallel, _finalize_workflow_run).           *)
THEOREM CostsAgree == Spec => []CostReconciles
  <1>1. ASSUME LedgerInv, Columns, NEW r \in Runs
        PROVE  /\ rows[r].tokens <= Spent(r)
               /\ 2 * (rows[r].cost - Billed(r)) <= Slack(r)
               /\ rows[r].status = "succeeded" =>
                     /\ rows[r].tokens = Spent(r)
                     /\ 2 * (Billed(r) - rows[r].cost) <= Slack(r)
    <2> DEFINE n == Cardinality(WrittenIn(agentRuns, r))
               S == SpentIn(agentRuns, r)
               B == BilledIn(agentRuns, r)
               t == rows[r].tokens
               u == rows[r].cost
    <2>1. Typed
      BY <1>1 DEF LedgerInv, BudgetInv
    <2>2. t <= S /\ (rows[r].status = "succeeded" => t = S)
      BY <1>1 DEF LedgerInv, Money, MoneyAt
    <2>3. u = Rounded(t) /\ t \in Nat /\ u \in Nat
      BY <1>1, <2>1 DEF Columns, Typed, RowSet
    <2>4. 2 * (u - t) <= Unit /\ 2 * (t - u) <= Unit
      BY <2>3, RoundedNear
    <2>5. n \in Nat /\ B \in Nat /\ S \in Nat
          /\ 2 * (B - S) <= Unit * n /\ 2 * (S - B) <= Unit * n
      BY <1>1, <2>1, BilledNear
    <2>6. Spent(r) = S /\ Billed(r) = B /\ Slack(r) = Unit * (n + 1)
      BY DEF Spent, Billed, Slack, Written, SpentIn, BilledIn, WrittenIn, RunsOf, RowsIn
    <2> HIDE DEF n, S, B, t, u
    <2> DEFINE w == Unit * n
    <2>7. Unit * (n + 1) = w + Unit /\ w \in Int /\ Unit \in Int
      <3>1. Unit \in Int /\ n \in Int
        BY <2>5, WorkflowAssumption
      <3>2. \A a, b \in Int : a * (b + 1) = a * b + a /\ a * b \in Int
        OBVIOUS
      <3> QED
        BY <3>1, <3>2
    <2>8. 2 * (B - S) <= w /\ 2 * (S - B) <= w
      BY <2>5
    <2> HIDE DEF w
    <2>9. 2 * (u - B) <= w + Unit
      BY <2>2, <2>3, <2>4, <2>5, <2>7, <2>8
    <2>10. rows[r].status = "succeeded" => 2 * (B - u) <= w + Unit
      BY <2>2, <2>3, <2>4, <2>5, <2>7, <2>8
    <2> QED
      BY <2>2, <2>6, <2>7, <2>9, <2>10 DEF t, u
  <1>2. LedgerInv /\ Columns => CostReconciles
    BY <1>1 DEF CostReconciles
  <1>3. Init => LedgerInv /\ Columns
    BY BudgetInit, OrderInit, KeptInit, MoneyInit, ColumnsInit DEF LedgerInv
  <1>4. LedgerInv /\ Columns /\ [Next]_vars => (LedgerInv /\ Columns)'
    BY BudgetStep, OrderStep, KeptStep, MoneyStep, ColumnsStep DEF LedgerInv
  <1> QED
    BY <1>2, <1>3, <1>4, PTL DEF Spec

-----------------------------------------------------------------------------
(* The rows still running: each belongs to a call under way, or to one     *)
(* whose completion could not be written.                                  *)

LeftIn(runs, r) == {x \in RowsIn(runs, r) : x.status = "running"}
ActiveIn(s) == {i \in DOMAIN s : Working(s[i])}

Final(r) == /\ rows[r].status \in {"succeeded", "failed", "cancelled"}
            /\ rows[r].ext # "orphaned"

StraysAt(r) ==
    ctx[r].pc # "off" \/ Final(r) =>
        Cardinality(LeftIn(agentRuns, r)) <= faults + Cardinality(ActiveIn(Calls(r)))

Strays == \A r \in Runs : StraysAt(r)

LEMMA LeftFinite ==
    ASSUME Typed, NEW r \in Runs
    PROVE  /\ IsFiniteSet(LeftIn(agentRuns, r))
           /\ Cardinality(LeftIn(agentRuns, r)) \in Nat
           /\ IsFiniteSet(ActiveIn(Calls(r)))
           /\ Cardinality(ActiveIn(Calls(r))) \in Nat
           /\ faults \in Nat
  <1>1. LeftIn(agentRuns, r) \subseteq agentRuns /\ IsFiniteSet(agentRuns)
    BY DEF LeftIn, RowsIn, Typed
  <1>2. ActiveIn(Calls(r)) \subseteq DOMAIN Calls(r) /\ IsFiniteSet(DOMAIN Calls(r))
    BY CallsTyped DEF ActiveIn, Typed
  <1>3. faults \in Nat
    BY WorkflowAssumption DEF Typed
  <1> QED
    BY <1>1, <1>2, <1>3, FS_Subset, FS_CardinalityType

LEMMA LeftCall ==
    ASSUME Typed, Sized, Ordered, Kept,
           NEW r \in Runs, NEW i \in DOMAIN Calls(r), NEW d,
           CallKind(r, i, d), CallBecomes(r, i, d)
    PROVE  LET A == ActiveIn(Calls(r))
               B == ActiveIn([Calls(r) EXCEPT ![i] = d])
               L == LeftIn(agentRuns, r)
               M == LeftIn(agentRuns', r)
           IN  \/ M = L /\ B = A
               \/ \E row : /\ i \notin A /\ B = A \cup {i}
                           /\ row \notin L /\ M = L \cup {row}
               \/ \E row : /\ i \in A /\ B = A \ {i}
                           /\ row \in L /\ M = L \ {row}
               \/ M = L /\ i \in A /\ B = A \ {i} /\ Fault
  <1> DEFINE k == ctx[r].stage
             s == Calls(r)
             c == s[i]
             t == [s EXCEPT ![i] = d]
             A == ActiveIn(s)
             B == ActiveIn(t)
             L == LeftIn(agentRuns, r)
             M == LeftIn(agentRuns', r)
             row == RowOf(c, r, k, i)
             new == Completed(row, c.res)
             Goal == \/ M = L /\ B = A
                     \/ \E x : i \notin A /\ B = A \cup {i} /\ x \notin L /\ M = L \cup {x}
                     \/ \E x : i \in A /\ B = A \ {i} /\ x \in L /\ M = L \ {x}
                     \/ M = L /\ i \in A /\ B = A \ {i} /\ Fault
  <1>1. /\ DOMAIN t = DOMAIN s /\ t[i] = d /\ \A j \in DOMAIN s : j # i => t[j] = s[j]
    OBVIOUS
  <1>2. /\ c \in CallSet /\ i \in Nat \ {0} /\ k \in DOMAIN Stages
        /\ agentRuns \subseteq AgentRow
    BY CallsTyped DEF Typed, ContextTyped
  <1>3. /\ Opens(r, i, d) => c.pc = "new" /\ d.pc = "pod"
        /\ Aggregates(r, i, d) => c.pc = "pod" /\ d.pc = "aggregate"
        /\ Starts(r, i, d) => c.pc \in {"new", "aggregate"} /\ d.pc \in {"api", "record"}
        /\ Serves(r, i, d) => c.pc \in {"new", "aggregate"} /\ d.pc = "done"
        /\ Raises(r, i, d) => c.pc \in {"new", "aggregate", "record"} /\ d.pc = "raised"
        /\ Turn(r, i, d) => c.pc = "api" /\ d.pc \in {"api", "record"}
        /\ Completes(r, i, d) => c.pc = "record" /\ d.pc = "done"
    BY CallPhases
  <1>4. /\ ~Starts(r, i, d) /\ ~Completes(r, i, d) => agentRuns' = agentRuns
        /\ Starts(r, i, d) => /\ agentRuns' = agentRuns \cup {row}
                              /\ AtIn(agentRuns, r, k, i) = {}
        /\ Completes(r, i, d) =>
              /\ agentRuns' = (agentRuns \ {row}) \cup {new}
              /\ AtIn(agentRuns, r, k, i) = {row}
              /\ c.res \in Results /\ c.res.status # "none"
    BY RowsBecome
  <1>5. /\ row \in AgentRow /\ row.run = r /\ row.stage = k /\ row.index = i
        /\ row.status = "running"
    BY <1>2, RowOfTyped
  <1>6. Completes(r, i, d) => new.status # "running"
    <2>1. Completes(r, i, d) => new.status = c.res.status
      BY <1>4, <1>5, ClosedTyped
    <2> QED
      BY <1>4, <2>1 DEF Results
  <1>7. (i \in A <=> c.pc \in {"api", "record"}) /\ (i \in B <=> d.pc \in {"api", "record"})
        /\ \A j : j # i => (j \in A <=> j \in B)
    BY <1>1 DEF ActiveIn, Working
  <1> HIDE DEF s, c, t, A, B, row, new
  <1>8. ASSUME Starts(r, i, d) PROVE Goal
    <2>1. row \notin L /\ M = L \cup {row}
      BY <1>4, <1>5, <1>8 DEF LeftIn, RowsIn, AtIn
    <2>2. i \notin A /\ B = A \cup {i}
      BY <1>3, <1>7, <1>8
    <2> QED
      BY <2>1, <2>2
  <1>9. ASSUME Completes(r, i, d) PROVE Goal
    <2>1. row \in L /\ M = L \ {row}
      BY <1>4, <1>5, <1>6, <1>9 DEF LeftIn, RowsIn, AtIn
    <2>2. i \in A /\ B = A \ {i}
      BY <1>3, <1>7, <1>9
    <2> QED
      BY <2>1, <2>2
  <1>10. ASSUME ~Starts(r, i, d), ~Completes(r, i, d) PROVE Goal
    <2>1. M = L
      BY <1>4, <1>10
    <2>2. Raises(r, i, d) => Fault
      BY DEF Raises
    <2>3. B = A \/ (Raises(r, i, d) /\ i \in A /\ B = A \ {i})
      <3>1. Opens(r, i, d) \/ Aggregates(r, i, d) \/ Serves(r, i, d) \/ Raises(r, i, d)
              \/ Turn(r, i, d)
        BY <1>10 DEF CallKind
      <3> QED
        BY <1>3, <1>7, <3>1
    <2> QED
      BY <2>1, <2>2, <2>3
  <1>11. Goal
    BY <1>8, <1>9, <1>10
  <1> QED
    BY <1>11 DEF s, t, A, B

(* No call is under way when its stage ends: a sequential stage that ends  *)
(* with a raised call has not begun what follows.                          *)
LEMMA EndsIdle ==
    ASSUME Typed, Ordered, NEW r \in Runs,
           StageOver(r) \/ (~Parallel(r) /\ \E i \in TopLevel(r) : Calls(r)[i].pc = "raised")
    PROVE  ActiveIn(Calls(r)) = {}
  <1> DEFINE s == Calls(r)
  <1>1. CASE StageOver(r)
    <2>1. \A i \in DOMAIN s : Over(s[i])
      BY <1>1, OverMeans
    <2> QED
      BY <2>1 DEF ActiveIn, Working, Over
  <1>2. CASE ~Parallel(r) /\ \E i \in TopLevel(r) : s[i].pc = "raised"
    <2>1. PICK i \in TopLevel(r) : s[i].pc = "raised"
      BY <1>2
    <2>2. InOrder(s, Slots(r), Parallel(r)) /\ i \in DOMAIN s /\ s[i].pod = 0
      BY DEF Ordered, TopLevel
    <2>3. TopLevel(r) = {j \in DOMAIN s : s[j].pod = 0} /\ TopLevel(r) \subseteq Nat \ {0}
      BY TopFirst DEF TopLevel
    <2>4. \A j \in TopLevel(r) : \A h \in 1 .. j - 1 : s[j].pc # "new" => s[h].pc = "done"
      BY <1>2, <2>2, <2>3 DEF InOrder, TopInOrder
    <2>5. \A j \in TopLevel(r) : s[j].pc \in {"new", "done", "raised"}
      <3> SUFFICES ASSUME NEW j \in TopLevel(r) PROVE s[j].pc \in {"new", "done", "raised"}
        OBVIOUS
      <3>1. i \in Nat /\ j \in Nat /\ i > 0 /\ j > 0
        BY <2>3
      <3>2. CASE j = i
        BY <2>1, <3>2
      <3>3. CASE j < i
        <4>1. j \in 1 .. i - 1
          BY <3>1, <3>3
        <4> QED
          BY <2>1, <2>4, <4>1
      <3>4. CASE i < j
        <4>1. i \in 1 .. j - 1
          BY <3>1, <3>4
        <4>2. s[j].pc # "new" => s[i].pc = "done"
          BY <2>4, <4>1
        <4> QED
          BY <2>1, <4>2
      <3> QED
        BY <3>1, <3>2, <3>3, <3>4
    <2>6. ASSUME NEW j \in DOMAIN s, s[j].pod # 0 PROVE ~Working(s[j])
      <3>1. MemberInOrder(s, j)
        BY <2>2, <2>6 DEF InOrder
      <3>2. s[s[j].pod].pc \in {"new", "done", "raised"}
        BY <2>3, <2>5, <3>1 DEF MemberInOrder
      <3>3. s[j].pc = "new" \/ Over(s[j])
        BY <3>1, <3>2 DEF MemberInOrder
      <3> QED
        BY <3>3 DEF Working, Over
    <2>7. \A j \in DOMAIN s : s[j].pod = 0 => ~Working(s[j])
      BY <2>3, <2>5 DEF Working
    <2> QED
      BY <2>6, <2>7 DEF ActiveIn
  <1> QED
    BY <1>1, <1>2

LEMMA MoreFaults ==
    ASSUME NEW a \in Nat, NEW b \in Nat, NEW f \in Nat, NEW g \in Nat, f <= g, b <= f + a
    PROVE  b <= g + a
  OBVIOUS

LEMMA StraysFrame ==
    ASSUME Typed, NEW q \in Runs, StraysAt(q), ctx'[q] = ctx[q], Final(q)' => Final(q),
           RowsIn(agentRuns', q) = RowsIn(agentRuns, q), Fault \/ UNCHANGED faults
    PROVE  StraysAt(q)'
  <1>1. faults \in Nat /\ faults' \in Nat /\ faults <= faults'
    BY LeftFinite DEF Fault
  <1>2. LeftIn(agentRuns', q) = LeftIn(agentRuns, q)
    BY DEF LeftIn
  <1>3. Calls(q)' = Calls(q) /\ ctx'[q].pc = ctx[q].pc
    BY DEF Calls
  <1> DEFINE a == Cardinality(ActiveIn(Calls(q)))
             b == Cardinality(LeftIn(agentRuns, q))
  <1>4. a \in Nat /\ b \in Nat
    BY LeftFinite
  <1>5. ctx'[q].pc # "off" \/ Final(q)' => b <= faults + a
    BY <1>3 DEF StraysAt
  <1>6. StraysAt(q)' <=> (ctx'[q].pc # "off" \/ Final(q)' => b <= faults' + a)
    BY <1>2, <1>3 DEF StraysAt
  <1>7. b <= faults + a => b <= faults' + a
    BY <1>1, <1>4, MoreFaults
  <1> HIDE DEF a, b
  <1> QED
    BY <1>5, <1>6, <1>7

LEMMA StraysCall ==
    ASSUME Typed, Sized, Ordered, Kept, Strays, Fault \/ UNCHANGED faults,
           NEW r \in Runs, NEW i \in DOMAIN Calls(r), NEW d,
           CallKind(r, i, d), CallBecomes(r, i, d)
    PROVE  StraysAt(r)'
  <1> DEFINE A == ActiveIn(Calls(r))
             B == ActiveIn([Calls(r) EXCEPT ![i] = d])
             L == LeftIn(agentRuns, r)
             M == LeftIn(agentRuns', r)
  <1>1. /\ IsFiniteSet(A) /\ Cardinality(A) \in Nat
        /\ IsFiniteSet(L) /\ Cardinality(L) \in Nat /\ faults \in Nat
    BY LeftFinite
  <1>2. \/ M = L /\ B = A
        \/ \E row : i \notin A /\ B = A \cup {i} /\ row \notin L /\ M = L \cup {row}
        \/ \E row : i \in A /\ B = A \ {i} /\ row \in L /\ M = L \ {row}
        \/ M = L /\ i \in A /\ B = A \ {i} /\ Fault
    BY LeftCall
  <1>3. Cardinality(L) <= faults + Cardinality(A)
    BY DEF Strays, StraysAt, Ordered
  <1>4. Calls(r)' = [Calls(r) EXCEPT ![i] = d]
    BY DEF CallBecomes, Calls
  <1> HIDE DEF A, B, L, M
  <1>5. faults' \in Nat /\ faults <= faults' /\ (Fault => faults' = faults + 1)
    BY <1>1 DEF Fault
  <1>6. Cardinality(M) <= faults' + Cardinality(B)
    <2>1. CASE M = L /\ B = A
      BY <1>1, <1>3, <1>5, <2>1
    <2>2. CASE \E row : i \notin A /\ B = A \cup {i} /\ row \notin L /\ M = L \cup {row}
      <3>1. Cardinality(M) = Cardinality(L) + 1 /\ Cardinality(B) = Cardinality(A) + 1
        BY <1>1, <2>2, FS_AddElement
      <3> QED
        BY <1>1, <1>3, <1>5, <3>1
    <2>3. CASE \E row : i \in A /\ B = A \ {i} /\ row \in L /\ M = L \ {row}
      <3>1. Cardinality(M) = Cardinality(L) - 1 /\ Cardinality(B) = Cardinality(A) - 1
        BY <1>1, <2>3, FS_RemoveElement
      <3> QED
        BY <1>1, <1>3, <1>5, <3>1
    <2>4. CASE M = L /\ i \in A /\ B = A \ {i} /\ Fault
      <3>1. Cardinality(B) = Cardinality(A) - 1
        BY <1>1, <2>4, FS_RemoveElement
      <3> QED
        BY <1>1, <1>3, <1>5, <2>4, <3>1
    <2> QED
      BY <1>2, <2>1, <2>2, <2>3, <2>4
  <1> QED
    BY <1>4, <1>6 DEF StraysAt, M, B

LEMMA StraysOwn ==
    ASSUME BudgetInv, Ordered, Kept, Money, Strays, NEW r \in Runs,
           CheckRows(r) \/ Step(r) \/ Crash(r), ~CallGoesOn(r)
    PROVE  StraysAt(r)'
  <1>0. Shaped /\ Typed /\ Sized /\ (Fault \/ UNCHANGED faults)
    BY RunSteps DEF BudgetInv, KeyInv
  <1>1. agentRuns' = agentRuns
    BY RowsStill
  <1>2. faults \in Nat /\ faults' \in Nat /\ faults <= faults'
    BY <1>0, LeftFinite DEF Fault
  <1>3. CASE Leaves(r)
    <2>1. ctx'[r].pc = "off" /\ rows' = rows /\ ctx[r].pc # "off"
      BY <1>3 DEF Leaves, Clears, Becomes, tables
    <2>2. Open(r)
      BY <2>1 DEF Money, MoneyAt
    <2>3. ~Final(r)'
      BY <2>1, <2>2 DEF Open, Final
    <2> QED
      BY <2>1, <2>3 DEF StraysAt
  <1>4. ASSUME ctx[r].pc # "off", ActiveIn(Calls(r)) = {}, ActiveIn(ctx'[r].calls) = {}
        PROVE  StraysAt(r)'
    <2> DEFINE b == Cardinality(LeftIn(agentRuns, r))
    <2>1. b <= faults + 0 /\ b \in Nat
      BY <1>0, <1>4, LeftFinite, FS_EmptySet DEF Strays, StraysAt
    <2>2. b <= faults' + 0
      BY <1>2, <2>1, MoreFaults
    <2>3. Cardinality(ActiveIn(Calls(r)')) = 0
      BY <1>4, FS_EmptySet DEF Calls
    <2> QED
      BY <1>1, <2>2, <2>3 DEF StraysAt
  <1>5. ActiveIn(<<>>) = {}
    BY DEF ActiveIn
  <1>6. ctx[r].pc # "stage" => Calls(r) = <<>>
    BY DEF Ordered
  <1>7. CASE \/ Admits(r) \/ Reserves(r) \/ Inserts(r) \/ GivesUp(r) \/ Persists(r)
             \/ Finalizes(r)
    <2>1. ctx[r].pc \notin {"off", "stage"}
      BY <1>7 DEF Admits, Reserves, Inserts, GivesUp, Persists, Finalizes
    <2>2. ctx'[r].calls = <<>> \/ ctx'[r].calls = ctx[r].calls
      BY <1>7 DEF Admits, Reserves, Inserts, GivesUp, Persists, Finalizes, Clears, Moves,
                  Aborts, Settles, Becomes
    <2> QED
      BY <1>4, <1>5, <1>6, <2>1, <2>2 DEF Calls
  <1>8. CASE BeginsStage(r)
    <2> DEFINE calls == Invocations(r) \o PodInvocations(Invocations(r))
    <2>1. \A i \in DOMAIN calls : calls[i].pc = "new"
      BY <1>0, EnteredInOrder DEF Typed
    <2>2. ctx'[r].calls = calls /\ ctx[r].pc = "gate"
      BY <1>8 DEF BeginsStage, Enters, Becomes
    <2> HIDE DEF calls
    <2>3. ActiveIn(calls) = {}
      BY <2>1 DEF ActiveIn, Working
    <2> QED
      BY <1>4, <1>5, <1>6, <2>2, <2>3
  <1>9. CASE Raised(r) \/ Broken(r) \/ Skips(r) \/ Advances(r)
    <2>1. ctx[r].pc = "stage" /\ ctx'[r].calls = <<>>
      BY <1>9 DEF Raised, Broken, Skips, Advances, Aborts, Becomes
    <2>2. ActiveIn(Calls(r)) = {}
      BY <1>0, <1>9, EndsIdle DEF Raised, Broken, Skips, Advances
    <2> QED
      BY <1>4, <1>5, <2>1, <2>2
  <1> QED
    BY <1>3, <1>7, <1>8, <1>9, RunSteps

LEMMA StraysStep ==
    ASSUME BudgetInv, Ordered, Kept, Money, Strays, [Next]_vars
    PROVE  Strays'
  <1>0. Shaped /\ Typed /\ Sized
    BY DEF BudgetInv, KeyInv
  <1>1. ASSUME NEW r \in Runs, CheckRows(r) \/ Step(r) \/ Crash(r) PROVE Strays'
    <2>0. Fault \/ UNCHANGED faults
      BY <1>1, RunSteps
    <2>1. ASSUME NEW q \in Runs, q # r PROVE StraysAt(q)'
      <3>1. /\ ctx'[q] = ctx[q] /\ rows'[q] = rows[q]
            /\ RowsIn(agentRuns', q) = RowsIn(agentRuns, q)
        BY <1>1, <2>1, Elsewhere
      <3>2. Final(q)' => Final(q)
        BY <3>1 DEF Final
      <3> QED
        BY <1>0, <2>0, <3>1, <3>2, StraysFrame DEF Strays
    <2>2. StraysAt(r)'
      <3>1. CASE CallGoesOn(r)
        BY <1>0, <2>0, <3>1, StraysCall DEF CallGoesOn
      <3>2. CASE ~CallGoesOn(r)
        BY <1>1, <3>2, StraysOwn
      <3> QED
        BY <3>1, <3>2
    <2> QED
      BY <2>1, <2>2 DEF Strays
  <1>2. ASSUME UNCHANGED <<ctx, agentRuns, faults>>, \A q \in Runs : Final(q)' => Final(q)
        PROVE  Strays'
    BY <1>0, <1>2, StraysFrame DEF Strays
  <1>3. CASE reconcile_orphan_runs
    <2>1. \A q \in Runs : rows'[q] = rows[q] \/
            rows'[q] = [rows[q] EXCEPT !.status = "failed", !.ext = "orphaned"]
      BY <1>3 DEF reconcile_orphan_runs
    <2>2. ASSUME NEW q \in Runs PROVE Final(q)' => Final(q)
      <3>1. CASE rows'[q] = rows[q]
        BY <3>1 DEF Final
      <3>2. CASE rows'[q] = [rows[q] EXCEPT !.status = "failed", !.ext = "orphaned"]
        <4>1. rows'[q].ext = "orphaned"
          BY <1>0, <3>2 DEF Typed, RowSet
        <4> QED
          BY <4>1 DEF Final
      <3> QED
        BY <2>1, <3>1, <3>2
    <2> QED
      BY <1>2, <1>3, <2>2 DEF reconcile_orphan_runs
  <1>4. CASE UNCHANGED vars
    BY <1>2, <1>4 DEF vars, tables, Final
  <1> QED
    BY <1>1, <1>3, <1>4 DEF Next

LEMMA StraysInit == Init => Strays
  <1> SUFFICES ASSUME Init, NEW r \in Runs PROVE StraysAt(r)
    BY DEF Strays
  <1>1. LeftIn(agentRuns, r) = {} /\ ActiveIn(Calls(r)) = {} /\ faults = 0
    BY DEF Init, LeftIn, RowsIn, ActiveIn, Calls, Context
  <1> QED
    BY <1>1, FS_EmptySet DEF StraysAt

(* A run the runner itself has brought to a final status has no call under *)
(* way, so a row of its agent_runs that is still running is one whose      *)
(* completion could not be written: NoAgentLeftRunning (_run_stage,        *)
(* _persist_agent_run_completed, _finalize_workflow_run).                  *)
THEOREM NoneLeftRunning == Spec => []NoAgentLeftRunning
  <1>1. LedgerInv /\ Strays => NoAgentLeftRunning
    <2> SUFFICES ASSUME LedgerInv, Strays, NEW r \in Runs, Final(r)
                 PROVE  Cardinality({x \in agentRuns : x.run = r /\ x.status = "running"})
                          <= faults
      BY DEF NoAgentLeftRunning, Final
    <2>1. {x \in agentRuns : x.run = r /\ x.status = "running"} = LeftIn(agentRuns, r)
      BY DEF LeftIn, RowsIn
    <2>2. Typed /\ ctx[r].pc = "off"
      BY DEF LedgerInv, BudgetInv, Money, MoneyAt, Open, Final
    <2>3. Calls(r) = <<>>
      BY <2>2 DEF LedgerInv, Ordered
    <2>4. ActiveIn(Calls(r)) = {}
      BY <2>3 DEF ActiveIn
    <2>5. Cardinality(LeftIn(agentRuns, r)) <= faults + 0
      BY <2>4, FS_EmptySet DEF Strays, StraysAt
    <2> QED
      BY <2>1, <2>2, <2>5, LeftFinite
  <1>2. Init => LedgerInv /\ Strays
    BY BudgetInit, OrderInit, KeptInit, MoneyInit, StraysInit DEF LedgerInv
  <1>3. LedgerInv /\ Strays /\ [Next]_vars => (LedgerInv /\ Strays)'
    BY BudgetStep, OrderStep, KeptStep, MoneyStep, StraysStep DEF LedgerInv
  <1> QED
    BY <1>1, <1>2, <1>3, PTL DEF Spec

-----------------------------------------------------------------------------
(* The ceiling.  The sub-agents of a pod are added up with no look at it,  *)
(* so it is kept only where a later stage is, whose gate compares.         *)

PodStage(k) == \E j \in DOMAIN Stages[k].agents : Stages[k].agents[j].agent = Pod
TriageStage(k) == \E j \in DOMAIN Stages[k].agents : Stages[k].agents[j].agent = Triage

(* The workflows of src/agents/workflows: a stage with a pod is followed   *)
(* by another and does not triage.                                         *)
PodsFollowed ==
    \A k \in DOMAIN Stages : PodStage(k) => k # Len(Stages) /\ ~TriageStage(k)

BelowAt(r) ==
    /\ ctx[r].pc \in {"persist", "finish"} => ctx[r].cost < Ceiling
    /\ ctx[r].pc = "stage" /\ ~PodStage(ctx[r].stage) => ctx[r].cost < Ceiling
    /\ rows[r].status = "succeeded" =>
          rows[r].tokens < Ceiling /\ rows[r].cost <= Rounded(Ceiling)

Below == \A r \in Runs : BelowAt(r)

LEMMA ProjectionNat ==
    ASSUME Typed, NEW r \in Runs
    PROVE  _project_stage_cost(r) \in Nat
  <1> DEFINE D == DOMAIN Slots(r)
             n == Len(Slots(r))
             f == [k \in D |-> IF Slots(r)[k].agent = Pod THEN 0
                               ELSE Projected[Slots(r)[k].agent]
                                      * (IF Slots(r)[k].source # NoAgent THEN Guess ELSE 1)]
  <1>1. D = 1 .. n /\ n \in Nat
    BY StageShape DEF Slots, Typed, ContextTyped
  <1>2. IsFiniteSet(D)
    <2> HIDE DEF n
    <2> QED
      BY <1>1, FS_Interval
  <1>3. \A k \in D : f[k] \in Nat
    <2> SUFFICES ASSUME NEW k \in D PROVE f[k] \in Nat
      OBVIOUS
    <2>1. Slots(r)[k] \in StageAgents
      BY StageShape DEF Slots, Typed, ContextTyped
    <2>2. Projected[Slots(r)[k].agent] \in Nat /\ Guess \in Nat
      BY <2>1, WorkflowAssumption DEF StageAgents
    <2> QED
      BY <2>2
  <1>4. _project_stage_cost(r) = SumFunctionOnSet(f, D)
    BY DEF _project_stage_cost, SumFunction
  <1> HIDE DEF f, D
  <1> QED
    BY <1>2, <1>3, <1>4, SumNat

(* What is added at the end of a stage that was below the ceiling when it  *)
(* began stays below it: the last result added is compared.                *)
LEMMA EndsBelow ==
    ASSUME Typed, Ordered, NEW r \in Runs, Stops(r) = {}, ctx[r].cost < Ceiling
    PROVE  Added(r, Cardinality(TopLevel(r))) < Ceiling
  <1> DEFINE s == Calls(r)
             T == TopLevel(r)
             n == Cardinality(T)
             D == T \cap DoneIn(s)
             m == Max(D)
             sum == Added(r, n)
             cost == CostOf(s, 1 .. n)
  <1>1. /\ s \in Seq(CallSet) /\ ctx[r].cost \in Nat /\ Ceiling \in Nat
        /\ \A k : CostOf(s, 1 .. k) \in Nat
    BY CallsTyped, CostShape, WorkflowAssumption DEF Typed, ContextTyped
  <1>2. T = 1 .. n /\ n \in Nat /\ IsFiniteSet(T) /\ T \subseteq Nat \ {0}
    BY TopFirst
  <1>3. sum = ctx[r].cost + cost /\ Added(r, m) = ctx[r].cost + CostOf(s, 1 .. m)
    BY Bridges DEF Added
  <1>4. CASE D = {}
    <2>1. cost = 0
      BY <1>1, <1>2, <1>4, CostNothing
    <2>2. sum < Ceiling
      <3> HIDE DEF sum, cost
      <3> QED
        BY <1>1, <1>3, <2>1
    <2> QED
      BY <2>2
  <1>5. CASE D # {}
    <2>1. IsFiniteSet(D) /\ D \subseteq Int
      BY <1>2, FS_Subset
    <2>2. m \in D /\ \A y \in D : m >= y
      BY <1>5, <2>1, Extremes
    <2>3. ~Breaks(r, m)
      BY <2>2 DEF Stops
    <2>4. ~(Added(r, m) >= Ceiling)
      BY <2>2, <2>3 DEF Breaks, DoneIn
    <2>5. (1 .. n) \cap DoneIn(s) = (1 .. m) \cap DoneIn(s)
      <3> HIDE DEF m, n, T, s
      <3>1. m \in T /\ m \in Nat
        BY <1>2, <2>2
      <3>2. \A y \in (1 .. n) \cap DoneIn(s) : y \in 1 .. m
        BY <1>2, <2>2
      <3>3. 1 .. m \subseteq 1 .. n
        BY <1>2, <3>1
      <3> QED
        BY <3>2, <3>3
    <2>6. cost = CostOf(s, 1 .. m)
      BY <2>5 DEF CostOf
    <2>7. sum = Added(r, m)
      BY <1>3, <2>6
    <2>8. cost \in Nat
      BY <1>1
    <2>9. ~(sum >= Ceiling)
      BY <2>4, <2>7
    <2>10. sum < Ceiling
      <3> HIDE DEF sum, cost
      <3> QED
        BY <1>1, <1>3, <2>8, <2>9
    <2> QED
      BY <2>10
  <1> QED
    BY <1>4, <1>5

LEMMA BelowCall ==
    ASSUME Typed, Sized, Ordered, Money, Below,
           NEW r \in Runs, NEW i \in DOMAIN Calls(r), NEW d,
           CallKind(r, i, d), CallBecomes(r, i, d)
    PROVE  BelowAt(r)'
  <1>1. /\ ctx[r].pc = "stage" /\ ctx'[r].pc = "stage" /\ ctx'[r].stage = ctx[r].stage
        /\ rows' = rows
    BY DEF Ordered, CallBecomes
  <1>2. CASE PodStage(ctx[r].stage)
    BY <1>1, <1>2 DEF Below, BelowAt
  <1>3. CASE ~PodStage(ctx[r].stage)
    <2>1. ~Aggregates(r, i, d)
      <3> SUFFICES ASSUME Aggregates(r, i, d) PROVE PodStage(ctx[r].stage)
        BY <1>3
      <3>1. Calls(r)[i].pc = "pod" /\ Calls(r)[i].pod = 0
        BY CallPhases
      <3>2. /\ Calls(r)[i].slot \in DOMAIN Slots(r)
            /\ Slots(r)[Calls(r)[i].slot].agent = Pod
        BY <3>1 DEF Ordered, InOrder, TopInOrder
      <3> QED
        BY <3>2 DEF PodStage, Slots
    <2>2. ctx'[r].cost = ctx[r].cost
      BY <2>1 DEF CallKind, Opens, Starts, Serves, Raises, Turn, Completes, SameCost
    <2> QED
      BY <1>1, <2>2 DEF Below, BelowAt
  <1> QED
    BY <1>2, <1>3

LEMMA BelowOwn ==
    ASSUME PodsFollowed, BudgetInv, Ordered, Kept, Money, Below, NEW r \in Runs,
           CheckRows(r) \/ Step(r) \/ Crash(r), ~CallGoesOn(r)
    PROVE  BelowAt(r)'
  <1>0. /\ Typed /\ ctx[r].cost \in Nat /\ ctx[r].stage \in DOMAIN Stages
        /\ Ceiling \in Nat /\ BelowAt(r) /\ MoneyAt(r)
    BY WorkflowAssumption DEF BudgetInv, Typed, ContextTyped, Below, Money
  <1>1. CASE \/ Leaves(r) \/ Admits(r) \/ Reserves(r) \/ GivesUp(r) \/ Raised(r) \/ Broken(r)
    <2>1. ctx'[r].pc \notin {"persist", "finish", "stage"} /\ rows' = rows
      BY <1>1 DEF Leaves, Admits, Reserves, GivesUp, Raised, Broken, Clears, Moves, Aborts,
                  Becomes, tables
    <2> QED
      BY <1>0, <2>1 DEF BelowAt
  <1>2. CASE Inserts(r)
    <2>1. ctx'[r].pc = "gate" /\ rows'[r].status = "running"
      BY <1>2 DEF Inserts, Moves, Becomes
    <2> QED
      BY <2>1 DEF BelowAt
  <1>3. CASE BeginsStage(r)
    <2>1. /\ ctx'[r].pc = "stage" /\ ctx'[r].cost = ctx[r].cost /\ rows' = rows
          /\ ~(ctx[r].cost + _project_stage_cost(r) >= Ceiling)
      BY <1>3 DEF BeginsStage, Enters, Becomes, tables, OverBudget
    <2>2. ctx[r].cost < Ceiling
      BY <1>0, <2>1, ProjectionNat
    <2> QED
      BY <1>0, <2>1, <2>2 DEF BelowAt
  <1>4. CASE Skips(r)
    <2> DEFINE sum == Added(r, Cardinality(TopLevel(r)))
    <2>1. /\ ctx'[r].pc = "finish" /\ ctx'[r].cost = sum /\ rows' = rows
          /\ ctx[r].pc = "stage" /\ Stops(r) = {} /\ _should_short_circuit(r)
      BY <1>4 DEF Skips, Becomes, tables
    <2>2. TriageStage(ctx[r].stage)
      BY <2>1 DEF _should_short_circuit, TriageStage, Slots
    <2>3. ~PodStage(ctx[r].stage)
      BY <1>0, <2>2 DEF PodsFollowed
    <2>4. sum < Ceiling
      BY <1>0, <2>1, <2>3, EndsBelow DEF BelowAt
    <2> HIDE DEF sum
    <2> QED
      BY <1>0, <2>1, <2>4 DEF BelowAt
  <1>5. CASE Advances(r)
    <2> DEFINE sum == Added(r, Cardinality(TopLevel(r)))
    <2>1. /\ ctx'[r].pc = (IF LastStage(r) THEN "persist" ELSE "gate")
          /\ ctx'[r].cost = sum /\ rows' = rows /\ ctx[r].pc = "stage" /\ Stops(r) = {}
      BY <1>5 DEF Advances, Becomes, tables
    <2>2. CASE LastStage(r)
      <3>1. ~PodStage(ctx[r].stage)
        BY <1>0, <2>2 DEF PodsFollowed, LastStage
      <3>2. sum < Ceiling
        BY <1>0, <2>1, <3>1, EndsBelow DEF BelowAt
      <3> HIDE DEF sum
      <3> QED
        BY <1>0, <2>1, <3>2 DEF BelowAt
    <2>3. CASE ~LastStage(r)
      BY <1>0, <2>1, <2>3 DEF BelowAt
    <2> QED
      BY <2>2, <2>3
  <1>6. CASE Persists(r)
    <2>1. /\ ctx'[r].pc = "finish" /\ ctx'[r].cost = ctx[r].cost /\ rows' = rows
          /\ ctx[r].pc = "persist"
      BY <1>6 DEF Persists, Settles, Becomes
    <2> QED
      BY <1>0, <2>1 DEF BelowAt
  <1>7. CASE Finalizes(r)
    <2>1. /\ ctx'[r].pc = "off" /\ ctx[r].pc \in {"finish", "except"}
          /\ rows'[r].status = ctx[r].goal /\ rows'[r].tokens = ctx[r].cost
          /\ rows'[r].cost = Rounded(ctx[r].cost)
      BY <1>7 DEF Finalizes, Clears, Becomes
    <2>2. ctx[r].goal = "succeeded" => ctx[r].cost < Ceiling
      BY <1>0, <2>1 DEF BelowAt, MoneyAt
    <2>3. ctx[r].cost < Ceiling => Rounded(ctx[r].cost) <= Rounded(Ceiling)
      BY <1>0, RoundedRises, WorkflowAssumption
    <2> QED
      BY <2>1, <2>2, <2>3 DEF BelowAt
  <1> QED
    BY <1>1, <1>2, <1>3, <1>4, <1>5, <1>6, <1>7, RunSteps

LEMMA BelowStep ==
    ASSUME PodsFollowed, LedgerInv, Below, [Next]_vars
    PROVE  Below'
  <1>0. /\ BudgetInv /\ Ordered /\ Kept /\ Money /\ Shaped /\ Typed /\ Sized
    BY DEF LedgerInv, BudgetInv, KeyInv
  <1>1. ASSUME NEW r \in Runs, CheckRows(r) \/ Step(r) \/ Crash(r) PROVE Below'
    <2>1. ASSUME NEW q \in Runs, q # r PROVE BelowAt(q)'
      <3>1. ctx'[q] = ctx[q] /\ rows'[q] = rows[q]
        BY <1>0, <1>1, <2>1, Elsewhere
      <3> QED
        BY <3>1 DEF Below, BelowAt
    <2>2. BelowAt(r)'
      <3>1. CASE CallGoesOn(r)
        BY <1>0, <3>1, BelowCall DEF CallGoesOn
      <3>2. CASE ~CallGoesOn(r)
        BY <1>0, <1>1, <3>2, BelowOwn
      <3> QED
        BY <3>1, <3>2
    <2> QED
      BY <2>1, <2>2 DEF Below
  <1>2. CASE reconcile_orphan_runs
    <2> SUFFICES ASSUME NEW q \in Runs PROVE BelowAt(q)'
      BY DEF Below
    <2>1. /\ UNCHANGED ctx
          /\ \/ rows'[q] = rows[q]
             \/ rows'[q] = [rows[q] EXCEPT !.status = "failed", !.ext = "orphaned"]
      BY <1>2 DEF reconcile_orphan_runs
    <2>2. rows'[q] = rows[q] \/ rows'[q].status = "failed"
      BY <1>0, <2>1 DEF Typed, RowSet
    <2> QED
      BY <2>1, <2>2 DEF Below, BelowAt
  <1>3. CASE UNCHANGED vars
    BY <1>3 DEF vars, tables, Below, BelowAt
  <1> QED
    BY <1>1, <1>2, <1>3 DEF Next

LEMMA BelowInit == Init => Below
  BY DEF Init, Context, NoRow, Below, BelowAt

(* A run reported as succeeded has stayed below its ceilings, though a     *)
(* projection counts no pod and guesses the iterations, and its column of  *)
(* the cost is at most the rounded ceiling: SucceededWithinCeiling, for    *)
(* every workflow in which a stage follows each pod and a pod's stage does *)
(* not triage (EnterStage, _run_stage).                                    *)
THEOREM CeilingHolds ==
    ASSUME PodsFollowed
    PROVE  Spec => []SucceededWithinCeiling
  <1>1. LedgerInv /\ Below => SucceededWithinCeiling
    BY DEF Below, BelowAt, SucceededWithinCeiling
  <1>2. Init => LedgerInv /\ Below
    BY BudgetInit, OrderInit, KeptInit, MoneyInit, BelowInit DEF LedgerInv
  <1>3. LedgerInv /\ Below /\ [Next]_vars => (LedgerInv /\ Below)'
    BY BudgetStep, OrderStep, KeptStep, MoneyStep, BelowStep DEF LedgerInv
  <1> QED
    BY <1>1, <1>2, <1>3, PTL DEF Spec

-----------------------------------------------------------------------------
(* The predictions.  A slot that iterates leaves a count of results, of    *)
(* whatever status, in the outputs; the judge's slot does not.             *)

JudgeOnce ==
    \A k \in DOMAIN Stages : \A j \in DOMAIN Stages[k].agents :
        Stages[k].agents[j].agent = Judge => Stages[k].agents[j].source = NoAgent

(* There is a verdict of agent a on record for run r.                      *)
Backed(r, a) ==
    \/ \E x \in agentRuns : x.run = r /\ x.agent = a /\ x.status = "succeeded"
    \/ Replays(r) /\ audit[Original[r]][a] # Unheard

SourcedAt(r) ==
    /\ ctx[r].outputs[Judge] > 0 => Backed(r, Judge)
    /\ \A i \in DOMAIN Calls(r) :
          Calls(r)[i].res.out > 0 =>
             /\ Calls(r)[i].res.status = "succeeded"
             /\ Calls(r)[i].pc = "done" => Backed(r, Calls(r)[i].agent)
    /\ predictions[r] > 0 => Backed(r, Judge)

Sourced == \A r \in Runs : SourcedAt(r)

(* What is on record stays there.                                          *)
LEMMA RecordStays ==
    ASSUME LedgerInv, NEW r \in Runs, CheckRows(r) \/ Step(r) \/ Crash(r),
           NEW q \in Runs, NEW a \in Agents, Backed(q, a)
    PROVE  Backed(q, a)'
  <1>0. BudgetInv /\ Shaped /\ Typed /\ Sized /\ Ordered /\ Kept
    BY DEF LedgerInv, BudgetInv, KeyInv
  <1>1. Replays(q) => Original[q] \in Runs
    BY WorkflowAssumption DEF Replays
  <1>2. CASE CallGoesOn(r)
    <2>1. PICK i \in DOMAIN Calls(r) : \E d : CallBecomes(r, i, d) /\ CallKind(r, i, d)
      BY <1>2 DEF CallGoesOn
    <2>2. PICK d : CallBecomes(r, i, d) /\ CallKind(r, i, d)
      BY <2>1
    <2> DEFINE row == RowOf(Calls(r)[i], r, ctx[r].stage, i)
    <2>3. /\ Calls(r)[i] \in CallSet /\ i \in Nat \ {0} /\ ctx[r].stage \in DOMAIN Stages
      BY <1>0, CallsTyped DEF Typed, ContextTyped
    <2>4. row.status = "running"
      BY <2>3, RowOfTyped
    <2>5. \A x \in agentRuns : x # row => x \in agentRuns'
      BY <1>0, <2>2, RowsBecome
    <2> HIDE DEF row
    <2>6. \A x \in agentRuns : x.status = "succeeded" => x \in agentRuns'
      BY <2>4, <2>5
    <2>7. \A p \in Runs, b \in Agents : audit[p][b] # Unheard => audit'[p][b] # Unheard
      <3>1. Calls(r)[i].agent \in Agents
        BY <2>3 DEF CallSet
      <3>2. CASE Turn(r, i, d)
        <4>1. \/ UNCHANGED audit
              \/ \E out \in Says[Calls(r)[i].agent], valid \in BOOLEAN :
                    _write_llm_audit_log(r, Calls(r)[i].agent, out, valid)
          BY <3>2 DEF Turn, Answers, Retries
        <4> QED
          BY <1>0, <3>1, <4>1, AgentTypes, AuditTyped DEF Typed
      <3>3. CASE ~Turn(r, i, d)
        BY <2>2, <3>3 DEF CallKind, Opens, Aggregates, Starts, Serves, Raises, Completes
      <3> QED
        BY <3>2, <3>3
    <2> QED
      BY <1>1, <2>6, <2>7 DEF Backed, Replays
  <1>3. CASE ~CallGoesOn(r)
    <2>1. UNCHANGED <<agentRuns, audit>>
      BY <1>0, <1>3, RunSteps DEF Leaves, Admits, Reserves, Inserts, GivesUp, BeginsStage,
                  Raised, Broken, Skips, Advances, Persists, Finalizes, tables
    <2> QED
      BY <2>1 DEF Backed, Replays
  <1> QED
    BY <1>2, <1>3

LEMMA SourcedFrame ==
    ASSUME Typed, NEW q \in Runs, SourcedAt(q), ctx'[q] = ctx[q], predictions'[q] = predictions[q],
           \A a \in Agents : Backed(q, a) => Backed(q, a)'
    PROVE  SourcedAt(q)'
  <1>1. \A i \in DOMAIN Calls(q) : Calls(q)[i].agent \in Agents
    BY CallsTyped DEF Typed, CallSet
  <1>2. Calls(q)' = Calls(q)
    BY DEF Calls
  <1> QED
    BY <1>1, <1>2, AgentTypes DEF SourcedAt

(* The result of a call that goes on.                                      *)
LEMMA ResultSteps ==
    ASSUME Typed, Sized, Ordered, Kept, NEW r \in Runs, SourcedAt(r),
           NEW i \in DOMAIN Calls(r), NEW d, CallKind(r, i, d), CallBecomes(r, i, d)
    PROVE  d.res.out > 0 => /\ d.res.status = "succeeded"
                            /\ d.pc = "done" => Backed(r, d.agent)'
  <1> DEFINE c == Calls(r)[i]
             row == RowOf(c, r, ctx[r].stage, i)
  <1>1. /\ c \in CallSet /\ i \in Nat \ {0} /\ ctx[r].stage \in DOMAIN Stages
        /\ c.agent \in Agents /\ c.res \in Results
        /\ agentRuns \subseteq AgentRow
    BY CallsTyped DEF Typed, ContextTyped, CallSet
  <1>2. c.res.out > 0 => c.res.status = "succeeded"
    BY DEF SourcedAt
  <1> DEFINE Goal == d.res.out > 0 => /\ d.res.status = "succeeded"
                                      /\ d.pc = "done" => Backed(r, d.agent)'
  <1>3. ~(NoResult.out > 0) /\ ~(_make_failed_result.out > 0)
    BY DEF NoResult, _make_failed_result, Result, Nothing
  <1>4. /\ Opens(r, i, d) => d.pc = "pod"
        /\ Starts(r, i, d) => d.pc \in {"api", "record"}
        /\ Turn(r, i, d) => d.pc \in {"api", "record"}
        /\ Completes(r, i, d) => d.pc = "done" /\ d.res = c.res /\ d.agent = c.agent
        /\ Serves(r, i, d) => d.agent = c.agent
    BY CallPhases
  <1> HIDE DEF c
  <1>5. ASSUME NEW pc, NEW res, d = [c EXCEPT !.pc = pc, !.res = res] PROVE d.res = res
    BY <1>1, <1>5 DEF CallSet
  <1>6. ASSUME NEW pc, NEW res, d = Returned(c, pc, res) PROVE d.res = res
    BY <1>6 DEF Returned, _AgentInvocation
  <1>7. ASSUME Opens(r, i, d) PROVE Goal
    <2>1. d = [c EXCEPT !.pc = "pod"]
      BY <1>7 DEF Opens, c
    <2>2. d.res = c.res
      BY <1>1, <2>1 DEF CallSet
    <2> QED
      BY <1>2, <1>4, <1>7, <2>2
  <1>8. ASSUME Aggregates(r, i, d) PROVE Goal
    <2>1. d = [_AgentInvocation(Aggregator, c.slot, 0) EXCEPT !.pc = "aggregate"]
      BY <1>8 DEF Aggregates, c
    <2>2. d.res = NoResult
      BY <2>1 DEF _AgentInvocation
    <2> QED
      BY <1>3, <2>2
  <1>9. ASSUME Starts(r, i, d) PROVE Goal
    <2>1. d.res \in {NoResult, _make_failed_result}
      BY <1>5, <1>9 DEF Starts, c
    <2> QED
      BY <1>3, <2>1
  <1>10. ASSUME Serves(r, i, d) PROVE Goal
    <2> DEFINE res == Result("succeeded", 0, audit[Original[r]][c.agent].out)
    <2>1. d = [c EXCEPT !.pc = "done", !.res = res] /\ Cached(r, c.agent) /\ UNCHANGED audit
      BY <1>10 DEF Serves, c
    <2>2. res.status = "succeeded"
      BY DEF Result
    <2> HIDE DEF res
    <2>3. d.res.status = "succeeded"
      BY <1>5, <2>1, <2>2
    <2>4. d.agent = c.agent
      BY <1>4, <1>10
    <2>5. Replays(r) /\ audit'[Original[r]][d.agent] # Unheard
      BY <2>1, <2>4 DEF Cached
    <2>6. Backed(r, d.agent)'
      BY <2>5 DEF Backed, Replays
    <2> QED
      BY <2>3, <2>6
  <1>11. ASSUME Raises(r, i, d) PROVE Goal
    <2>1. d.res = NoResult
      BY <1>5, <1>6, <1>11 DEF Raises, c
    <2> QED
      BY <1>3, <2>1
  <1>12. ASSUME Turn(r, i, d) PROVE Goal
    <2>1. d.pc # "done"
      BY <1>4, <1>12
    <2>2. d.res.status = "succeeded" \/ d.res = c.res \/ d.res = _make_failed_result
      <3>1. CASE Answers(r, i, d)
        <4>1. PICK out, used : d = AnsweredWith(c, used, out)
          BY <3>1 DEF Answers, c
        <4>2. AnsweredWith(c, used, out).res.status = "succeeded"
          BY <1>1 DEF AnsweredWith, CallSet, Result
        <4> QED
          BY <4>1, <4>2
      <3>2. CASE Retries(r, i, d)
        <4>1. d \in {Repaired(c), Retried(c)}
          BY <3>2 DEF Retries, c
        <4>2. Repaired(c).res \in {c.res, _make_failed_result}
          BY <1>1 DEF Repaired, CallSet
        <4>3. Retried(c).res \in {c.res, _make_failed_result}
          BY <1>1 DEF Retried, CallSet
        <4> QED
          BY <4>1, <4>2, <4>3
      <3> QED
        BY <1>12, <3>1, <3>2 DEF Turn
    <2> QED
      BY <1>2, <1>3, <2>1, <2>2
  <1>13. ASSUME Completes(r, i, d) PROVE Goal
    <2> SUFFICES ASSUME c.res.out > 0
                 PROVE  c.res.status = "succeeded" /\ Backed(r, d.agent)'
      BY <1>4, <1>13
    <2>1. c.res.status = "succeeded"
      BY <1>2
    <2>2. Completed(row, c.res) \in agentRuns'
      BY <1>13, RowsBecome DEF c
    <2>3. row \in AgentRow /\ row.run = r /\ row.agent = c.agent
      BY <1>1, RowOfTyped
    <2> HIDE DEF row
    <2>4. /\ Completed(row, c.res).run = r /\ Completed(row, c.res).agent = c.agent
          /\ Completed(row, c.res).status = "succeeded"
      BY <1>1, <2>1, <2>3, ClosedTyped
    <2>5. d.agent = c.agent
      BY <1>4, <1>13
    <2>6. \E x \in agentRuns' : x.run = r /\ x.agent = d.agent /\ x.status = "succeeded"
      BY <2>2, <2>4, <2>5
    <2>7. Backed(r, d.agent)'
      BY <2>6 DEF Backed
    <2> QED
      BY <2>1, <2>7
  <1> QED
    BY <1>7, <1>8, <1>9, <1>10, <1>11, <1>12, <1>13 DEF CallKind

(* A result that a call keeps is that of its agent.                        *)
LEMMA SourcedCall ==
    ASSUME LedgerInv, NEW r \in Runs, SourcedAt(r), CheckRows(r) \/ Step(r) \/ Crash(r),
           CallGoesOn(r)
    PROVE  SourcedAt(r)'
  <1>0. BudgetInv /\ Shaped /\ Typed /\ Sized /\ Ordered /\ Kept
    BY DEF LedgerInv, BudgetInv, KeyInv
  <1>1. PICK i \in DOMAIN Calls(r) : \E d : CallBecomes(r, i, d) /\ CallKind(r, i, d)
    BY DEF CallGoesOn
  <1>2. PICK d : CallBecomes(r, i, d) /\ CallKind(r, i, d)
    BY <1>1
  <1>3. d.res.out > 0 => /\ d.res.status = "succeeded"
                         /\ d.pc = "done" => Backed(r, d.agent)'
    BY <1>0, <1>2, ResultSteps
  <1>4. \A a \in Agents : Backed(r, a) => Backed(r, a)'
    BY RecordStays
  <1> DEFINE s == Calls(r)
             t == [s EXCEPT ![i] = d]
  <1>5. /\ DOMAIN t = DOMAIN s /\ t[i] = d /\ \A j \in DOMAIN s : j # i => t[j] = s[j]
        /\ \A j \in DOMAIN s : s[j].agent \in Agents
    <2>1. s \in Seq(CallSet) /\ \A j \in DOMAIN s : s[j] \in CallSet
      BY <1>0, CallsTyped DEF Typed
    <2> HIDE DEF s
    <2>2. DOMAIN t = DOMAIN s /\ t[i] = d /\ \A j \in DOMAIN s : j # i => t[j] = s[j]
      BY <2>1 DEF s
    <2>3. \A j \in DOMAIN s : s[j].agent \in Agents
      BY <2>1 DEF CallSet
    <2> QED
      BY <2>2, <2>3
  <1>6. /\ ctx'[r].calls = t /\ ctx'[r].outputs = ctx[r].outputs
        /\ predictions'[r] = predictions[r]
    BY <1>2 DEF CallBecomes
  <1>7. \A j \in DOMAIN s : s[j].res.out > 0 =>
           /\ s[j].res.status = "succeeded"
           /\ s[j].pc = "done" => Backed(r, s[j].agent)
    BY DEF SourcedAt
  <1> HIDE DEF s, t
  <1>8. ASSUME NEW j \in DOMAIN t, t[j].res.out > 0
        PROVE  /\ t[j].res.status = "succeeded"
               /\ \A a : t[j].pc = "done" /\ a = t[j].agent => Backed(r, a)'
    <2>1. CASE j = i
      <3>1. t[j] = d
        BY <1>5, <2>1
      <3>2. d.res.status = "succeeded" /\ (d.pc = "done" => Backed(r, d.agent)')
        BY <1>3, <1>8, <3>1
      <3>3. ASSUME NEW a, d.pc = "done", a = d.agent PROVE Backed(r, a)'
        BY <3>2, <3>3 DEF Backed, Replays
      <3> QED
        BY <3>1, <3>2, <3>3
    <2>2. CASE j # i
      <3>1. j \in DOMAIN s /\ t[j] = s[j]
        BY <1>5, <2>2
      <3>2. s[j].agent \in Agents /\ s[j].res.out > 0
        BY <1>5, <1>8, <3>1
      <3>3. s[j].res.status = "succeeded"
        BY <1>7, <3>1, <3>2
      <3>4. ASSUME NEW a, t[j].pc = "done", a = t[j].agent PROVE Backed(r, a)'
        <4>1. a \in Agents /\ Backed(r, a)
          BY <1>7, <3>1, <3>2, <3>4
        <4> QED
          BY <1>4, <4>1
      <3> QED
        BY <3>1, <3>3, <3>4
    <2> QED
      BY <2>1, <2>2
  <1> QED
    BY <1>4, <1>6, <1>8, AgentTypes DEF SourcedAt, Calls

(* What a stage leaves for the judge is a verdict on record.               *)
LEMMA OutputsSourced ==
    ASSUME JudgeOnce, Typed, Ordered, NEW r \in Runs, SourcedAt(r),
           _stage_outputs(r)[Judge] > 0
    PROVE  Backed(r, Judge)
  <1> DEFINE slots == {k \in DOMAIN Slots(r) : Slots(r)[k].agent = Judge}
             mine  == {i \in TopLevel(r) \cap Done(r) : Calls(r)[i].slot \in slots}
  <1>1. _stage_outputs(r)[Judge] =
          IF mine = {} THEN ctx[r].outputs[Judge]
          ELSE IF \E k \in slots : Slots(r)[k].source # NoAgent
            THEN Cardinality(mine)
            ELSE Calls(r)[Max(mine)].res.out
    BY AgentTypes DEF _stage_outputs
  <1>2. ~ \E k \in slots : Slots(r)[k].source # NoAgent
    BY DEF JudgeOnce, Slots, Typed, ContextTyped
  <1>3. mine \subseteq DOMAIN Calls(r) /\ mine \subseteq Int /\ IsFiniteSet(mine)
    <2>1. mine \subseteq DOMAIN Calls(r)
      BY DEF Done
    <2> HIDE DEF mine
    <2> QED
      BY <2>1, CallsTyped, FS_Subset DEF Typed
  <1>4. \A i \in mine : Calls(r)[i].agent = Judge /\ Calls(r)[i].pc = "done"
    <2> SUFFICES ASSUME NEW i \in mine
                 PROVE  Calls(r)[i].agent = Judge /\ Calls(r)[i].pc = "done"
      OBVIOUS
    <2>1. /\ i \in DOMAIN Calls(r) /\ Calls(r)[i].pod = 0 /\ Calls(r)[i].pc = "done"
          /\ Slots(r)[Calls(r)[i].slot].agent = Judge
      BY DEF TopLevel, Done
    <2>2. TopInOrder(Calls(r), Slots(r), Parallel(r), i)
      BY <2>1 DEF Ordered, InOrder
    <2> QED
      BY <2>1, <2>2, AgentTypes DEF TopInOrder
  <1>5. \A i \in DOMAIN Calls(r) : Calls(r)[i].res.out > 0 /\ Calls(r)[i].pc = "done"
                                     => Backed(r, Calls(r)[i].agent)
    BY DEF SourcedAt
  <1>6. ctx[r].outputs[Judge] > 0 => Backed(r, Judge)
    BY DEF SourcedAt
  <1> HIDE DEF mine
  <1>7. CASE mine = {}
    BY <1>1, <1>6, <1>7
  <1>8. CASE mine # {}
    <2>1. Max(mine) \in mine
      BY <1>3, <1>8, Extremes
    <2> QED
      BY <1>1, <1>2, <1>3, <1>4, <1>5, <1>8, <2>1
  <1> QED
    BY <1>7, <1>8

LEMMA FreshUnheard ==
    ASSUME NEW r \in Runs, ContextTyped(r)
    PROVE  LET calls == Invocations(r) \o PodInvocations(Invocations(r))
           IN  \A i \in DOMAIN calls : ~(calls[i].res.out > 0)
  <1> DEFINE top == Invocations(r)
             F == FreshTop(r) \cup FreshMembers(top)
             calls == top \o PodInvocations(top)
  <1>1. calls \in Seq(F)
    BY EnteredTyped
  <1>2. \A c \in F : ~(c.res.out > 0)
    BY DEF FreshTop, FreshMembers, FreshMember, _AgentInvocation, NoResult, Result, Nothing
  <1> HIDE DEF F, calls
  <1>3. \A i \in DOMAIN calls : ~(calls[i].res.out > 0)
    BY <1>1, <1>2
  <1> QED
    BY <1>3 DEF calls

(* The other steps.                                                        *)
LEMMA SourcedOwn ==
    ASSUME JudgeOnce, LedgerInv, NEW r \in Runs, SourcedAt(r),
           CheckRows(r) \/ Step(r) \/ Crash(r), ~CallGoesOn(r)
    PROVE  SourcedAt(r)'
  <1>0. BudgetInv /\ Shaped /\ Typed /\ Sized /\ Ordered /\ Kept
    BY DEF LedgerInv, BudgetInv, KeyInv
  <1>1. /\ Backed(r, Judge) => Backed(r, Judge)'
        /\ Judge \in Agents
    BY RecordStays, AgentTypes
  <1>2. /\ ctx[r].outputs[Judge] > 0 => Backed(r, Judge)
        /\ predictions[r] > 0 => Backed(r, Judge)
    BY DEF SourcedAt
  <1>3. ASSUME ctx'[r].calls = <<>>, predictions'[r] = predictions[r],
               ctx'[r].outputs[Judge] > 0 => Backed(r, Judge)
        PROVE  SourcedAt(r)'
    BY <1>1, <1>2, <1>3 DEF SourcedAt, Calls
  <1>4. CASE \/ Leaves(r) \/ Admits(r) \/ Finalizes(r)
    <2>1. ctx'[r].calls = <<>> /\ ctx'[r].outputs = Blank /\ predictions' = predictions
      BY <1>4 DEF Leaves, Admits, Finalizes, Clears, Becomes, tables
    <2>2. ~(Blank[Judge] > 0)
      BY <1>1 DEF Blank, Nothing
    <2> QED
      BY <1>3, <2>1, <2>2
  <1>5. CASE \/ Reserves(r) \/ Inserts(r) \/ GivesUp(r) \/ Raised(r) \/ Broken(r)
    <2>1. /\ ctx'[r].calls = <<>> /\ ctx'[r].outputs = ctx[r].outputs
          /\ predictions' = predictions
      BY <1>0, <1>5 DEF Reserves, Inserts, GivesUp, Raised, Broken, Moves, Aborts, Becomes,
                    tables, Ordered, Calls
    <2> QED
      BY <1>2, <1>3, <2>1
  <1>6. CASE Skips(r) \/ Advances(r)
    <2>1. /\ ctx'[r].calls = <<>> /\ ctx'[r].outputs = _stage_outputs(r)
          /\ predictions' = predictions
      BY <1>6 DEF Skips, Advances, Becomes, tables
    <2>2. _stage_outputs(r)[Judge] > 0 => Backed(r, Judge)
      BY <1>0, OutputsSourced
    <2> QED
      BY <1>3, <2>1, <2>2
  <1>7. CASE BeginsStage(r)
    <2> DEFINE calls == Invocations(r) \o PodInvocations(Invocations(r))
    <2>1. /\ ctx'[r].calls = calls /\ ctx'[r].outputs = ctx[r].outputs
          /\ predictions' = predictions
      BY <1>7 DEF BeginsStage, Enters, Becomes, tables
    <2>2. \A i \in DOMAIN calls : ~(calls[i].res.out > 0)
      BY <1>0, FreshUnheard DEF Typed
    <2> HIDE DEF calls
    <2> QED
      BY <1>1, <1>2, <2>1, <2>2 DEF SourcedAt, Calls
  <1>8. CASE Persists(r)
    <2>1. /\ ctx'[r].calls = <<>> /\ ctx'[r].outputs = ctx[r].outputs
          /\ predictions'[r] = Max({0, ctx[r].outputs[Judge]})
      BY <1>8 DEF Persists, Settles, Becomes
    <2>2. ctx[r].outputs[Judge] \in Int
      BY <1>0, <1>1 DEF Typed, ContextTyped
    <2>3. predictions'[r] > 0 => Backed(r, Judge)
      BY <1>2, <2>1, <2>2, MaxZero
    <2> QED
      BY <1>1, <1>2, <2>1, <2>3 DEF SourcedAt, Calls
  <1> QED
    BY <1>0, <1>4, <1>5, <1>6, <1>7, <1>8, RunSteps

LEMMA SourcedStep ==
    ASSUME JudgeOnce, LedgerInv, Sourced, [Next]_vars
    PROVE  Sourced'
  <1>0. /\ BudgetInv /\ Ordered /\ Kept /\ Money /\ Shaped /\ Typed /\ Sized
    BY DEF LedgerInv, BudgetInv, KeyInv
  <1>1. ASSUME NEW r \in Runs, CheckRows(r) \/ Step(r) \/ Crash(r) PROVE Sourced'
    <2>1. ASSUME NEW q \in Runs, q # r PROVE SourcedAt(q)'
      <3>1. ctx'[q] = ctx[q] /\ predictions'[q] = predictions[q]
        BY <1>0, <1>1, <2>1, Elsewhere
      <3>2. \A a \in Agents : Backed(q, a) => Backed(q, a)'
        BY <1>1, RecordStays
      <3>3. SourcedAt(q)
        BY DEF Sourced
      <3> QED
        BY <1>0, <3>1, <3>2, <3>3, SourcedFrame
    <2>2. SourcedAt(r)'
      <3>1. SourcedAt(r)
        BY DEF Sourced
      <3> QED
        BY <1>1, <3>1, SourcedCall, SourcedOwn
    <2> QED
      BY <2>1, <2>2 DEF Sourced
  <1>2. CASE reconcile_orphan_runs \/ UNCHANGED vars
    <2>1. UNCHANGED <<ctx, agentRuns, audit, predictions>>
      BY <1>2 DEF reconcile_orphan_runs, vars, tables
    <2> QED
      BY <2>1 DEF Sourced, SourcedAt, Calls, Backed, Replays
  <1> QED
    BY <1>1, <1>2 DEF Next

LEMMA SourcedInit == Init => Sourced
  <1> SUFFICES ASSUME Init, NEW r \in Runs PROVE SourcedAt(r)
    BY DEF Sourced
  <1>1. /\ ctx[r].outputs = Blank /\ Calls(r) = <<>> /\ predictions[r] = 0
    BY DEF Init, Context, Blank, Calls
  <1>2. ~(Blank[Judge] > 0)
    BY AgentTypes DEF Blank, Nothing
  <1> QED
    BY <1>1, <1>2 DEF SourcedAt

(* Predictions exist only where a judge's verdict is on record:            *)
(* PredictionsBacked, for every workflow that does not iterate its judge,  *)
(* whichever stages fail, replay or are cut short (_stage_outputs,         *)
(* _persist_predictions).                                                  *)
THEOREM PredictionsTrue ==
    ASSUME JudgeOnce
    PROVE  Spec => []PredictionsBacked
  <1>1. Sourced => PredictionsBacked
    BY DEF Sourced, SourcedAt, Backed, PredictionsBacked
  <1>2. Init => LedgerInv /\ Sourced
    BY BudgetInit, OrderInit, KeptInit, MoneyInit, SourcedInit DEF LedgerInv
  <1>3. LedgerInv /\ Sourced /\ [Next]_vars => (LedgerInv /\ Sourced)'
    BY BudgetStep, OrderStep, KeptStep, MoneyStep, SourcedStep DEF LedgerInv
  <1> QED
    BY <1>1, <1>2, <1>3, PTL DEF Spec

=============================================================================
