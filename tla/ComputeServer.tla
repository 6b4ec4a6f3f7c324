---------------------------- MODULE ComputeServer ----------------------------
(***************************************************************************)
(* The workflow-compute server as its clients in this repository see it:   *)
(* agents, tasks with their leases and stalls, the receipts that prove     *)
(* them, and the artifacts kept with a receipt.  The server is not part of *)
(* the repository: a task moves through the statuses the clients tell      *)
(* apart, in any order a server that runs a task once may produce.         *)
(***************************************************************************)
EXTENDS Naturals, FiniteSets

CONSTANTS
    Task,       \* the tasks that may be submitted
    Agent,      \* the agents of the pool
    Executor,   \* identities of an agent's executor
    NoAgent

ASSUME NoAgentAssumption == NoAgent \notin Agent
ASSUME ExecutorAssumption == Executor # {}

VARIABLES
    agents,     \* whether an agent is online, and its executor
    tasks,      \* status, lessee and reported stalls of each task
    receipts,   \* the proof of each task, and what its verifier says of it
    artifacts   \* "proven" is the content the receipt's hash commits to

serverVars == <<agents, tasks, receipts, artifacts>>

Bad == {"failed", "stalled", "canceled"}
Settled == {"succeeded", "failed"}
Terminal == Bad \cup {"succeeded"}
Live == {"queued", "leased"}
Reason == {"capacity", "proof_missing"}

\* "none": no receipt is listed; "pending" is also "unknown", which no client
\* tells apart; the last two are final.
Verdict == {"none", "pending", "accepted", "rejected"}
Unverified == {"none", "pending"}

ServerTypeOK ==
    /\ agents \in [Agent -> [online : BOOLEAN, executor : Executor]]
    /\ tasks \in [Task -> [status : {"absent"} \cup Live \cup Terminal,
                           lessee : Agent \cup {NoAgent}, stalls : SUBSET Reason]]
    /\ receipts \in [Task -> [verdict : Verdict, worker : Agent \cup {NoAgent},
                              executor : Executor, exit : 0 .. 1]]
    /\ artifacts \in [Task -> {"none", "proven", "other"}]

ServerInit ==
    /\ agents \in [Agent -> [online : BOOLEAN, executor : Executor]]
    /\ tasks = [t \in Task |-> [status |-> "absent", lessee |-> NoAgent, stalls |-> {}]]
    /\ receipts \in [Task -> [verdict : {"none"}, worker : {NoAgent},
                              executor : {CHOOSE e \in Executor : TRUE}, exit : {0}]]
    /\ artifacts = [t \in Task |-> "none"]

-----------------------------------------------------------------------------
(* The life of a task *)

Become(t, status, lessee) ==
    tasks' = [tasks EXCEPT ![t].status = status, ![t].lessee = lessee]

\* POST /v1/tasks: an ID in use is refused.
Admit(t) ==
    /\ tasks[t].status = "absent"
    /\ Become(t, "queued", NoAgent)
    /\ UNCHANGED <<agents, receipts, artifacts>>

Busy(a) == \E t \in Task : tasks[t].lessee = a

Grant(t, a) ==
    /\ tasks[t].status = "queued"
    /\ agents[a].online /\ ~Busy(a)
    /\ Become(t, "leased", a)
    /\ UNCHANGED <<agents, receipts, artifacts>>

\* The lease expires: the task is queued again.
Requeue(t) ==
    /\ tasks[t].status = "leased"
    /\ Become(t, "queued", NoAgent)
    /\ UNCHANGED <<agents, receipts, artifacts>>

\* The agent reports the result of the provider, with its receipt.
Settle(t, status, exit) ==
    /\ tasks[t].status = "leased"
    /\ Become(t, status, NoAgent)
    /\ LET a == tasks[t].lessee
       IN receipts' = [receipts EXCEPT ![t] =
            [verdict |-> "none", worker |-> a, executor |-> agents[a].executor,
             exit |-> exit]]
    /\ artifacts' = [artifacts EXCEPT ![t] = "proven"]
    /\ UNCHANGED agents

\* The task ends without a receipt.
End(t, status) ==
    /\ tasks[t].status \in Live
    /\ Become(t, status, NoAgent)
    /\ UNCHANGED <<agents, receipts, artifacts>>

\* GET /v1/proofs lists the receipt, and its verifier answers once.
Verify(t, verdict) ==
    /\ tasks[t].status \in Settled
    /\ receipts[t].verdict \in Unverified
    /\ verdict # "none"
    /\ receipts' = [receipts EXCEPT ![t].verdict = verdict]
    /\ UNCHANGED <<agents, tasks, artifacts>>

\* Stalls are reported and withdrawn by a sweep of the server's own, so a
\* report may outlive its reason.
Stall(t, r) ==
    /\ IF r = "capacity" THEN tasks[t].status \in Live
                         ELSE tasks[t].status \in Settled /\ receipts[t].verdict = "none"
    /\ r \notin tasks[t].stalls
    /\ tasks' = [tasks EXCEPT ![t].stalls = @ \cup {r}]
    /\ UNCHANGED <<agents, receipts, artifacts>>

Unstall(t, r) ==
    /\ r \in tasks[t].stalls
    /\ tasks' = [tasks EXCEPT ![t].stalls = @ \ {r}]
    /\ UNCHANGED <<agents, receipts, artifacts>>

\* What is stored is no longer what the receipt commits to.
Replace(t) ==
    /\ artifacts[t] = "proven"
    /\ artifacts' = [artifacts EXCEPT ![t] = "other"]
    /\ UNCHANGED <<agents, tasks, receipts>>

AgentChanges(a) ==
    /\ \E online \in BOOLEAN, e \in Executor :
          agents' = [agents EXCEPT ![a] = [online |-> online, executor |-> e]]
    /\ UNCHANGED <<tasks, receipts, artifacts>>

TaskNext(t) ==
    \/ \E a \in Agent : Grant(t, a)
    \/ Requeue(t)
    \/ \E status \in Settled, exit \in 0 .. 1 : Settle(t, status, exit)
    \/ \E status \in {"stalled", "canceled"} : End(t, status)
    \/ \E verdict \in Verdict : Verify(t, verdict)
    \/ \E r \in Reason : Stall(t, r) \/ Unstall(t, r)
    \/ Replace(t)

ServerNext == (\E t \in Task : TaskNext(t)) \/ \E a \in Agent : AgentChanges(a)
=============================================================================
