---------------------------- MODULE StagingProof ----------------------------
(***************************************************************************)
(* The staging proof: run waits until the retained worker is the only and  *)
(* an idle capacity, submits the product task, waits for its accepted      *)
(* proof, downloads what the contract declares, and then does the same for *)
(* the optional browser diagnostic.  Every read of the server is a request *)
(* of its own, so a decision may rest on answers of different moments.     *)
(***************************************************************************)
EXTENDS ComputeServer

CONSTANTS
    Worker,         \* the retained worker: cfg.WorkerID
    TaskOf,         \* the task of each operation
    Diagnostic,     \* cfg.BrowserDiagnosticURL is set
    EvidenceReads   \* failureProofMaxAttempts, failureEvidenceMaxAttempts: 3

Operation == {"capture_product", "browser_diagnostic"}

ASSUME ProofAssumption ==
    /\ Worker \in Agent
    /\ TaskOf \in [Operation -> Task]
    /\ TaskOf["capture_product"] # TaskOf["browser_diagnostic"]
    /\ Diagnostic \in BOOLEAN
    /\ EvidenceReads \in Nat \ {0}

VARIABLES
    pc,         \* the next request, or "poll..." between two, or "done"
    operation,  \* the operation whose evidence is being collected
    late,       \* the context of the current wait is done
    online,     \* waitForCapacity: the compatible agents it was listed
    leased,     \* ... and those of them it was listed an active lease of
    executors,  \* per operation the executor waitForCapacity returned
    listed,     \* the content the artifact list described
    bodies,     \* per operation the content downloaded
    reads,      \* remainingReads of the failure evidence
    base,       \* the error the failure evidence is added to
    outcome,    \* how run ended
    preview     \* its error shows the provider's stderr

runVars == <<pc, operation, late, online, leased, executors, listed, bodies, reads,
             base, outcome, preview>>

Unknown == "unknown"

RunInit ==
    /\ pc \in {"off", "config"} /\ operation = "capture_product" /\ late = FALSE
    /\ online = {} /\ leased = {}
    /\ executors = [op \in Operation |-> Unknown]
    /\ listed = "none" /\ bodies = [op \in Operation |-> "none"]
    /\ reads = 0 /\ base = "none" /\ outcome = "none" /\ preview = FALSE

task == TaskOf[operation]
capacityVars == <<online, leased, executors>>
bodyVars == <<listed, bodies>>
endVars == <<reads, base, outcome, preview>>

-----------------------------------------------------------------------------
(* What all requests share *)

\* The next request, in the same context or (fresh) in a new one.
Continue(next) == pc' = next /\ UNCHANGED <<operation, late>>
Fresh(next) == pc' = next /\ late' = FALSE /\ UNCHANGED operation

Stop(reason, shown) ==
    /\ pc' = "done" /\ outcome' = reason /\ preview' = shown
    /\ UNCHANGED <<operation, late, capacityVars, bodyVars, reads, base>>

Request == {"agents", "leases", "tasks", "snapshot", "proof", "list", "body"}

\* Mutant of ReadFails: the error of a done context counts as transient.
RetriedForever ==
    /\ pc \in Request /\ ~late
    /\ Stop("read", FALSE)
    /\ UNCHANGED serverVars

\* retryTransient: any error that is not transient, or a context that is done,
\* ends the run.  A transient one is answered by a poll and the same request
\* again, which changes nothing here.
ReadFails ==
    /\ pc \in Request
    /\ Stop("read", FALSE)
    /\ UNCHANGED serverVars

\* waitForPoll: with the context done as well, either may be chosen.
Poll(from, next) ==
    /\ pc = from
    /\ \/ Continue(next) /\ UNCHANGED <<capacityVars, bodyVars, endVars>>
       \/ late /\ Stop("timeout", FALSE)
    /\ UNCHANGED serverVars

Waits == {"agents", "leases", "tasks", "pollCapacity", "snapshot", "proof", "pollProof",
          "failProof", "failList", "failBody", "list", "body"}

Timeout ==
    /\ pc \in Waits /\ ~late
    /\ late' = TRUE
    /\ UNCHANGED <<pc, operation, capacityVars, bodyVars, endVars, serverVars>>

-----------------------------------------------------------------------------
(* validateConfig, before anything is requested *)

RunRefuses ==
    /\ pc = "config"
    /\ Stop("config", FALSE)
    /\ UNCHANGED serverVars

RunStarts ==
    /\ pc = "config"
    /\ Continue("agents")
    /\ UNCHANGED <<capacityVars, bodyVars, endVars, serverVars>>

-----------------------------------------------------------------------------
(* waitForCapacity *)

ListAgents ==
    /\ pc = "agents" /\ ~late
    /\ online' = {a \in Agent : agents[a].online}
    /\ executors' = [executors EXCEPT ![operation] = agents[Worker].executor]
    /\ Continue("leases")
    /\ UNCHANGED <<leased, bodyVars, endVars, serverVars>>

ListLeases ==
    /\ pc = "leases" /\ ~late
    /\ leased' = {a \in online : Busy(a)}
    /\ Continue("tasks")
    /\ UNCHANGED <<online, executors, bodyVars, endVars, serverVars>>

Queued == {t \in Task : tasks[t].status = "queued"}

\* summarizeCapacity
Free == online = {Worker} /\ leased = {} /\ Queued = {}

ListTasks ==
    /\ pc = "tasks" /\ ~late
    /\ Continue(IF Free THEN "submit" ELSE "pollCapacity")
    /\ online' = {} /\ leased' = {}
    /\ UNCHANGED <<executors, bodyVars, endVars, serverVars>>

-----------------------------------------------------------------------------
(* submitProviderTask *)

SubmitTask ==
    /\ pc = "submit"
    /\ Admit(task)
    /\ Fresh("snapshot")
    /\ UNCHANGED <<capacityVars, bodyVars, endVars>>

\* An error, an answer that is lost, or a task whose binding the server changed
\* while it admitted it; the request is not repeated.
SubmitFails ==
    /\ pc = "submit"
    /\ Stop("submit", FALSE)
    /\ Admit(task) \/ UNCHANGED serverVars

-----------------------------------------------------------------------------
(* waitForAcceptedProof *)

\* failedProviderTaskError reads the proof first, failedProviderProofError has
\* it; each read budget and each context is new.
Explain(next, reason) ==
    /\ pc' = next /\ late' = FALSE /\ reads' = EvidenceReads /\ base' = reason
    /\ UNCHANGED <<operation, capacityVars, bodyVars, outcome, preview>>

\* A task may be missing from the list, as long as no stall names it; one that
\* is listed must still be the task that was submitted.
Snapshot ==
    /\ pc = "snapshot" /\ ~late
    /\ \E found \in BOOLEAN :
          LET status == IF found THEN tasks[task].status ELSE "queued"
          IN \/ status \in Bad /\ Explain("failProof", "ended")
             \/ /\ status = "succeeded"
                /\ Continue("proof") /\ UNCHANGED <<capacityVars, bodyVars, endVars>>
             \/ found /\ Stop("binding", FALSE)
             \/ status \in Live /\ tasks[task].stalls # {} /\ Stop("stalled", FALSE)
             \/ /\ status \in Live /\ tasks[task].stalls = {}
                /\ Continue("pollProof") /\ UNCHANGED <<capacityVars, bodyVars, endVars>>
    /\ UNCHANGED serverVars

\* Mutant of validateProofBinding: the worker of the receipt is not compared.
AnyWorkersProof(receipt) == receipt.executor = executors[operation]
validateProofBinding(receipt) ==
    receipt.worker = Worker /\ receipt.executor = executors[operation]

\* Mutant of FindProof: a receipt that is not yet verified is an answer.
PendingIsFinal ==
    /\ pc = "proof" /\ ~late
    /\ LET receipt == receipts[task]
       IN \/ receipt.verdict = "none" /\ Continue("pollProof")
                /\ UNCHANGED <<capacityVars, bodyVars, endVars>>
          \/ receipt.verdict \notin {"none", "accepted"} /\ Stop("rejected", FALSE)
          \/ receipt.verdict = "accepted" /\ Fresh("list")
                /\ UNCHANGED <<capacityVars, bodyVars, endVars>>
    /\ UNCHANGED serverVars

\* Mutant of FindProof: a receipt that is not rejected is as good as accepted.
UnrejectedIsAccepted ==
    /\ pc = "proof" /\ ~late
    /\ LET receipt == receipts[task]
       IN \/ receipt.verdict \in {"none", "rejected"} /\ Stop("rejected", FALSE)
          \/ /\ receipt.verdict \in {"pending", "accepted"}
             /\ validateProofBinding(receipt) /\ receipt.exit = 0
             /\ Fresh("list") /\ UNCHANGED <<capacityVars, bodyVars, endVars>>
    /\ UNCHANGED serverVars

\* An accepted receipt may also be refused for one of the hashes it binds.
FindProof ==
    /\ pc = "proof" /\ ~late
    /\ LET receipt == receipts[task]
           accepted == receipt.verdict = "accepted"
           bound == validateProofBinding(receipt)
       IN \/ /\ receipt.verdict \in Unverified
             /\ Continue("pollProof") /\ UNCHANGED <<capacityVars, bodyVars, endVars>>
          \/ receipt.verdict = "rejected" /\ Stop("rejected", FALSE)
          \/ accepted /\ Stop("binding", FALSE)
          \/ accepted /\ bound /\ receipt.exit # 0 /\ Explain("failList", "exit")
          \/ /\ accepted /\ bound /\ receipt.exit = 0
             /\ Fresh("list") /\ UNCHANGED <<capacityVars, bodyVars, endVars>>
    /\ UNCHANGED serverVars

-----------------------------------------------------------------------------
(* The failure evidence: findFailureProof, providerFailureEvidenceError *)

GiveUpEvidence ==
    /\ pc \in {"failProof", "failList", "failBody"}
    /\ Stop(base, FALSE)
    /\ UNCHANGED serverVars

\* Mutant of EvidenceRetried: the budget is not looked at.
EvidenceUnbounded ==
    /\ pc \in {"failProof", "failList", "failBody"} /\ ~late
    /\ reads' = reads - 1
    /\ UNCHANGED <<pc, operation, late, capacityVars, bodyVars, base, outcome, preview,
                   serverVars>>

\* No receipt yet, one not yet verified, or a transient error: the read is
\* repeated within the budget.
EvidenceRetried ==
    /\ pc \in {"failProof", "failList", "failBody"} /\ ~late /\ reads > 1
    /\ reads' = reads - 1
    /\ UNCHANGED <<pc, operation, late, capacityVars, bodyVars, base, outcome, preview,
                   serverVars>>

\* Mutant of EvidenceProof: stderr is shown before the receipt is verified.
EvidenceUnverified ==
    /\ pc = "failProof" /\ ~late /\ reads > 0
    /\ receipts[task].verdict # "none"
    /\ Explain("failList", base)
    /\ UNCHANGED serverVars

EvidenceProof ==
    /\ pc = "failProof" /\ ~late /\ reads > 0
    /\ receipts[task].verdict = "accepted"
    /\ receipts[task].exit # 0 /\ validateProofBinding(receipts[task])
    /\ Explain("failList", base)
    /\ UNCHANGED serverVars

\* The list names one stderr of this receipt; a list that names none, or two,
\* or another's is given up.
EvidenceList ==
    /\ pc = "failList" /\ ~late /\ reads > 0
    /\ listed' = artifacts[task]
    /\ reads' = reads - 1
    /\ Continue("failBody")
    /\ UNCHANGED <<capacityVars, bodies, base, outcome, preview, serverVars>>

\* The body has the size and digest of the list.
EvidenceBody ==
    /\ pc = "failBody" /\ ~late /\ reads > 0
    /\ artifacts[task] = listed
    /\ Stop(base, TRUE)
    /\ UNCHANGED serverVars

-----------------------------------------------------------------------------
(* downloadProductArtifacts, downloadDiagnosticArtifact *)

ListArtifacts ==
    /\ pc = "list" /\ ~late
    /\ listed' = artifacts[task]
    /\ Continue("body")
    /\ UNCHANGED <<capacityVars, bodies, endVars, serverVars>>

\* What the list or the body says is not what the contract, the schema or the
\* submitted task declares.
ArtifactRefused ==
    /\ pc \in {"list", "body"}
    /\ Stop("artifact", FALSE)
    /\ UNCHANGED serverVars

validateArtifactHash(body) == body = listed /\ body = "proven"

Download ==
    /\ pc = "body" /\ ~late
    /\ validateArtifactHash(artifacts[task])
    /\ bodies' = [bodies EXCEPT ![operation] = artifacts[task]]
    /\ IF operation = "capture_product" /\ Diagnostic
          THEN /\ pc' = "agents" /\ operation' = "browser_diagnostic" /\ late' = FALSE
               /\ UNCHANGED outcome
          ELSE /\ pc' = "done" /\ outcome' = "summary"
               /\ UNCHANGED <<operation, late>>
    /\ UNCHANGED <<capacityVars, listed, reads, base, preview, serverVars>>

-----------------------------------------------------------------------------
RunStep ==
    \/ RunRefuses \/ RunStarts \/ ReadFails
    \/ ListAgents \/ ListLeases \/ ListTasks \/ Poll("pollCapacity", "agents")
    \/ SubmitTask \/ SubmitFails
    \/ Snapshot \/ FindProof \/ Poll("pollProof", "snapshot")
    \/ GiveUpEvidence \/ EvidenceRetried \/ EvidenceProof \/ EvidenceList \/ EvidenceBody
    \/ ListArtifacts \/ ArtifactRefused \/ Download

-----------------------------------------------------------------------------
(* Properties *)

Outcome == {"none", "summary", "config", "read", "timeout", "submit", "binding", "stalled",
            "rejected", "artifact", "ended", "exit"}
Content == {"none", "proven", "other"}

RunTypeOK ==
    /\ pc \in {"off", "config", "submit", "done"} \cup Waits
    /\ operation \in Operation /\ late \in BOOLEAN
    /\ online \in SUBSET Agent /\ leased \in SUBSET Agent
    /\ executors \in [Operation -> Executor \cup {Unknown}]
    /\ listed \in Content /\ bodies \in [Operation -> Content]
    /\ reads \in 0 .. EvidenceReads
    /\ base \in {"none", "ended", "exit"}
    /\ outcome \in Outcome /\ preview \in BOOLEAN

Proves(op, receipt) ==
    /\ receipt.verdict = "accepted"
    /\ receipt.worker = Worker /\ receipt.executor = executors[op]

\* A summary is coherent although its parts were read one after the other: each
\* operation's task has succeeded, its accepted receipt names the retained
\* worker with the executor the capacity check saw, and what was downloaded is
\* what that receipt commits to.
SummaryIsCoherent ==
    outcome = "summary" =>
        \A op \in Operation :
            op = "capture_product" \/ Diagnostic =>
                /\ tasks[TaskOf[op]].status = "succeeded"
                /\ Proves(op, receipts[TaskOf[op]]) /\ receipts[TaskOf[op]].exit = 0
                /\ bodies[op] = "proven"

\* The provider's stderr is shown only for a failure that a verified receipt of
\* the retained worker reports.
PreviewIsVerified ==
    preview => Proves(operation, receipts[task]) /\ receipts[task].exit # 0

\* The server never contradicts the failure a run reports: a rejected proof, a
\* bad end and a nonzero exit are final.
FailureIsFinal ==
    /\ outcome = "rejected" => receipts[task].verdict = "rejected"
    /\ base = "ended" => tasks[task].status \in Bad
    /\ base = "exit" => receipts[task].verdict = "accepted" /\ receipts[task].exit # 0

\* Every run ends, although polls, reads, budgets and deadlines race.
RunEnds == pc = "config" ~> pc = "done"

=============================================================================
