-------------------------- MODULE MCComputeClients --------------------------
(* ComputeClients for TLC; OneSpec runs one client at a time, whose answers  *)
(* do not depend on what the server does with the tasks of the other.        *)
EXTENDS ComputeClients

MCTaskOf == [op \in Operation |-> IF op = "capture_product" THEN "product" ELSE "diagnostic"]

OneClient == stepPc = "off" \/ pc = "off"

\* Only the retained worker's executor is compared.
OthersKeepExecutor == \A a \in Agent \ {Worker} : agents[a].executor = "e1"

\* The server goes on only with the task a client may ask for, and only as far
\* as it changes an answer: the staging proof tells no stall from another, and
\* an agent matters to it until the receipt is made out.
Asked(t) ==
    \/ t = StepTask /\ stepPc \notin {"off", "done"}
    \/ t = task /\ pc \notin {"off", "done"}

AgentsMatter ==
    /\ pc \notin {"off", "done"}
    /\ tasks[task].status \in {"absent"} \cup Live

AskedServer ==
    /\ \/ \E t \in Task : Asked(t) /\ TaskNext(t)
       \/ AgentsMatter /\ \E a \in Agent : AgentChanges(a)
    /\ \A t \in Task \ {StepTask} : tasks'[t].stalls \subseteq {"capacity"}
    /\ OthersKeepExecutor'
    /\ UNCHANGED <<stepVars, runVars>>

OneNext == AskedServer \/ Step \/ Run \/ StepClock \/ RunClock
OneInit == Init /\ OneClient /\ OthersKeepExecutor
OneSpec == /\ OneInit
           /\ [][OneNext]_vars
           /\ WF_vars(Step) /\ WF_vars(Run) /\ WF_vars(StepClock) /\ WF_vars(RunClock)
=============================================================================
