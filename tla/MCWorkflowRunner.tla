-------------------------- MODULE MCWorkflowRunner --------------------------
(* Instances of WorkflowRunner for TLC: a triage, a parallel stage with an *)
(* explorer pod and an expert per candidate, and a judge; two runs under   *)
(* one idempotency key and a replay of the first.                          *)
EXTENDS WorkflowRunner

CONSTANTS first, again, replay, k1, k2

MCKey == [r \in Runs |-> IF r = replay THEN k2 ELSE k1]
MCOriginal == [r \in Runs |-> IF r = replay THEN first ELSE NoRun]
MCAfter == [r \in Runs |-> CASE r = first -> {} [] r = again -> {first} [] OTHER -> {first, again}]

Slot1(agent, source, policy) ==
    [agent |-> agent, source |-> source, policy |-> policy]

MCStages ==
    << [kind |-> "sequential",
        agents |-> <<Slot1("triage", NoAgent, "abort_workflow")>>],
       [kind |-> "parallel",
        agents |-> <<Slot1("pod", "triage", "skip_one"),
                     Slot1("expert", "triage", "abort_stage")>>],
       [kind |-> "sequential",
        agents |-> <<Slot1("judge", NoAgent, "abort_workflow")>>] >>

MCAgents == {"triage", "pod", "expert", "trend", "aggregator", "judge"}
MCOverrides == {{}}
MCFromAgents == {NoAgent}
MCPodAgents == <<"trend">>

Few(some, n) == [a \in Agents |-> IF a \in some THEN n ELSE 0]
MCMaxTransient == Few({}, 1)
MCMaxValidation == Few({"judge"}, 1)

\* a response is 7 tokens, of which 2 make up the last decimal
MCUsage == [a \in Agents |-> IF a \in {"triage", "judge"} THEN {7, 14} ELSE {7}]
MCProjected == [a \in Agents |-> 7]

MCSays == [a \in Agents |->
             IF a = "triage" THEN {SkipToday, 1} ELSE IF a = "judge" THEN {1} ELSE {0}]

=============================================================================
