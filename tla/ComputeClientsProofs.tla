------------------------ MODULE ComputeClientsProofs ------------------------
(***************************************************************************)
(* Proofs about the clients of the compute server, for any server state,   *)
(* any pool and any tasks of others.  The argument: a terminal status and  *)
(* a verified receipt are final (Final), so what a client has read of them *)
(* stays true while it reads on (StepInv, RunInv).                         *)
(***************************************************************************)
EXTENDS ComputeClients, TLAPS

-----------------------------------------------------------------------------
(* The server *)

\* A receipt is verified only for a task that has settled, and a leased task has
\* its lessee.
ServerInv ==
    \A t \in Task :
        /\ receipts[t].verdict # "none" => tasks[t].status \in Settled
        /\ tasks[t].status = "leased" => tasks[t].lessee \in Agent

Final ==
    \A t \in Task :
        /\ tasks[t].status \in Terminal => tasks'[t].status = tasks[t].status
        /\ receipts[t].verdict \in {"accepted", "rejected"} => receipts'[t] = receipts[t]

ServerSteps ==
    \/ ServerNext
    \/ \E t \in Task : Admit(t)
    \/ UNCHANGED serverVars

TaskRecord == [status : {"absent"} \cup Live \cup Terminal,
               lessee : Agent \cup {NoAgent}, stalls : SUBSET Reason]

\* Become changes the status and the lessee of one task.
LEMMA BecomeChangesOne ==
    ASSUME tasks \in [Task -> TaskRecord], NEW t \in Task,
           NEW status \in {"absent"} \cup Live \cup Terminal,
           NEW lessee \in Agent \cup {NoAgent}, Become(t, status, lessee)
    PROVE  /\ tasks' \in [Task -> TaskRecord]
           /\ tasks'[t].status = status /\ tasks'[t].lessee = lessee
           /\ \A u \in Task \ {t} : tasks'[u] = tasks[u]
<1> DEFINE changed == [tasks[t] EXCEPT !.status = status, !.lessee = lessee]
<1>1. tasks' = [tasks EXCEPT ![t] = changed]
  BY DEF Become, TaskRecord
<1>2. changed \in TaskRecord /\ changed.status = status /\ changed.lessee = lessee
  BY DEF TaskRecord
<1> HIDE DEF changed
<1> QED
  BY <1>1, <1>2

\* Every step of the server keeps its types, verifies receipts of settled tasks
\* only, and takes back neither an end nor a verdict (the tasks and receipts
\* waitForAcceptedProof and waitForProductCapture poll for).
LEMMA ServerKeeps ==
    ASSUME ServerTypeOK, ServerInv, ServerSteps
    PROVE  ServerTypeOK' /\ ServerInv' /\ Final
<1> USE DEF ServerInv, Final
<1>0. /\ tasks \in [Task -> TaskRecord]
      /\ tasks' \in [Task -> TaskRecord] /\ UNCHANGED <<agents, receipts, artifacts>>
            => ServerTypeOK'
  BY DEF ServerTypeOK, TaskRecord
<1>1. ASSUME NEW t \in Task, NEW lessee \in Agent \cup {NoAgent},
             NEW status \in Live \cup Terminal, Become(t, status, lessee),
             UNCHANGED <<agents, receipts, artifacts>>,
             tasks[t].status \in {"absent"} \cup Live,
             status = "leased" => lessee \in Agent
      PROVE  ServerTypeOK' /\ ServerInv' /\ Final
  <2>1. /\ tasks' \in [Task -> TaskRecord]
        /\ tasks'[t].status = status /\ tasks'[t].lessee = lessee
        /\ \A u \in Task \ {t} : tasks'[u] = tasks[u]
    BY <1>0, <1>1, BecomeChangesOne
  <2>2. receipts[t].verdict = "none"
    BY <1>1 DEF Settled, Live
  <2> QED
    BY <1>0, <1>1, <2>1, <2>2 DEF Live, Terminal, Bad
<1>2. ASSUME NEW t \in Task, Admit(t) PROVE ServerTypeOK' /\ ServerInv' /\ Final
  BY <1>1, <1>2 DEF Admit, Live
<1>3. ASSUME NEW t \in Task, TaskNext(t) PROVE ServerTypeOK' /\ ServerInv' /\ Final
  <2>1. ASSUME NEW a \in Agent, Grant(t, a) PROVE ServerTypeOK' /\ ServerInv' /\ Final
    BY <1>1, <2>1 DEF Grant, Live
  <2>2. CASE Requeue(t)
    BY <1>1, <2>2 DEF Requeue, Live
  <2>3. ASSUME NEW status \in Settled, NEW exit \in 0 .. 1, Settle(t, status, exit)
        PROVE  ServerTypeOK' /\ ServerInv' /\ Final
    <3>1. /\ tasks' \in [Task -> TaskRecord]
          /\ tasks'[t].status = status
          /\ \A u \in Task \ {t} : tasks'[u] = tasks[u]
      BY <1>0, <2>3, BecomeChangesOne DEF Settle, Settled, Terminal, Bad
    <3>2. tasks[t].lessee \in Agent /\ tasks[t].status = "leased"
      BY <1>3, <2>3 DEF Settle
    <3> DEFINE receipt == [verdict |-> "none", worker |-> tasks[t].lessee,
                           executor |-> agents[tasks[t].lessee].executor, exit |-> exit]
    <3>3. receipts' = [receipts EXCEPT ![t] = receipt]
      BY <2>3 DEF Settle
    <3>4. receipt \in [verdict : Verdict, worker : Agent \cup {NoAgent},
                       executor : Executor, exit : 0 .. 1]
      BY <3>2 DEF ServerTypeOK, Verdict
    <3> HIDE DEF receipt
    <3>5. ServerTypeOK'
      <4>1. artifacts' \in [Task -> {"none", "proven", "other"}] /\ agents' = agents
        BY <2>3 DEF ServerTypeOK, Settle
      <4>2. receipts' \in [Task -> [verdict : Verdict, worker : Agent \cup {NoAgent},
                                    executor : Executor, exit : 0 .. 1]]
        BY <3>3, <3>4 DEF ServerTypeOK
      <4> QED
        BY <3>1, <4>1, <4>2 DEF ServerTypeOK, TaskRecord
    <3>6. receipts[t].verdict = "none"
      BY <3>2 DEF Settled
    <3>7. receipts'[t].verdict = "none"
      BY <3>3 DEF receipt, ServerTypeOK
    <3>8. \A u \in Task \ {t} : receipts'[u] = receipts[u]
      BY <3>3 DEF ServerTypeOK
    <3> QED
      BY <3>1, <3>2, <3>5, <3>6, <3>7, <3>8 DEF Settled, Terminal, Bad
  <2>4. ASSUME NEW status \in {"stalled", "canceled"}, End(t, status)
        PROVE  ServerTypeOK' /\ ServerInv' /\ Final
    BY <1>1, <2>4 DEF End, Terminal, Bad
  <2>5. ASSUME NEW verdict \in Verdict, Verify(t, verdict)
        PROVE  ServerTypeOK' /\ ServerInv' /\ Final
    <3>1. \A u \in Task : tasks'[u] = tasks[u]
      BY <2>5 DEF Verify
    <3> QED
      BY <2>5, <3>1 DEF Verify, ServerTypeOK, Verdict, Unverified
  <2>6. ASSUME NEW r \in Reason, Stall(t, r) \/ Unstall(t, r)
        PROVE  ServerTypeOK' /\ ServerInv' /\ Final
    <3>1. PICK stalls \in SUBSET Reason : tasks' = [tasks EXCEPT ![t].stalls = stalls]
      BY <1>0, <2>6 DEF Stall, Unstall, TaskRecord
    <3> QED
      BY <1>0, <2>6, <3>1 DEF Stall, Unstall, TaskRecord
  <2>7. CASE Replace(t)
    BY <2>7 DEF Replace, ServerTypeOK
  <2> QED
    BY <1>3, <2>1, <2>2, <2>3, <2>4, <2>5, <2>6, <2>7 DEF TaskNext
<1>4. ASSUME NEW a \in Agent, AgentChanges(a) PROVE ServerTypeOK' /\ ServerInv' /\ Final
  BY <1>4 DEF AgentChanges, ServerTypeOK
<1>5. CASE UNCHANGED serverVars
  BY <1>5 DEF serverVars, ServerTypeOK
<1> QED
  BY <1>2, <1>3, <1>4, <1>5 DEF ServerSteps, ServerNext

-----------------------------------------------------------------------------
(* The step *)

\* What the step has read of its task still holds, and it decides once.
StepInv ==
    /\ stepPc = "proof" => tasks[StepTask].status = "succeeded"
    /\ stepPc # "done" => why = "none"
    /\ PassedIsProven /\ PreviewOwnsNothing /\ MissingProofTolerated

\* Nothing but the server moves: what the step has read is final.
LEMMA StepStays ==
    ASSUME StepTypeOK, StepInv, Final, UNCHANGED stepVars
    PROVE  StepTypeOK' /\ StepInv'
<1> USE StepAssumption DEF stepVars
<1>1. StepTypeOK'
  BY DEF StepTypeOK
<1>2. (stepPc = "proof" => tasks[StepTask].status = "succeeded")'
  BY DEF StepInv, Final, Terminal
<1>3. PassedIsProven'
  BY DEF StepInv, PassedIsProven, Final, Terminal
<1>4. PreviewOwnsNothing' /\ MissingProofTolerated'
  BY DEF StepInv, PreviewOwnsNothing, MissingProofTolerated, StopPipeline
<1> QED
  BY <1>1, <1>2, <1>3, <1>4 DEF StepInv

Keys == {"result_preview", "title"}

\* A map whose values the step wrote, apart from the preview and its flattened
\* fields.
Owned(out) ==
    /\ \A k \in DOMAIN out : out[k] \in {"step", "worker"}
    /\ \A k \in DOMAIN out \ Keys : out[k] = "step"

\* Put and ByStep keep a map owned, and so does the proof's preview.
LEMMA PutOwned ==
    ASSUME NEW out, NEW new, Owned(out), Owned(new)
    PROVE  Owned(Put(out, new)) /\ DOMAIN Put(out, new) = DOMAIN out \cup DOMAIN new
BY DEF Put, Owned

LEMMA ByStepOwned ==
    ASSUME NEW keys
    PROVE  Owned(ByStep(keys)) /\ DOMAIN ByStep(keys) = keys
BY DEF ByStep, Owned

LEMMA SubmittedOwned == Owned(Submitted) /\ "error" \notin DOMAIN Submitted
                        /\ "proof_id" \notin DOMAIN Submitted
<1>1. Owned(taskOutput) /\ DOMAIN taskOutput = {"task_id", "org_id", "pool_id", "status"}
  BY ByStepOwned DEF taskOutput
<1>2. /\ Owned(providerProvenance)
      /\ DOMAIN providerProvenance =
            {"provider_image_ref", "provider_component_ref", "provider_component_digest"}
  BY ByStepOwned DEF providerProvenance
<1>3. /\ Owned(Put(taskOutput, providerProvenance))
      /\ DOMAIN Put(taskOutput, providerProvenance) =
            DOMAIN taskOutput \cup DOMAIN providerProvenance
  BY <1>1, <1>2, PutOwned
<1>4. Owned(Submitted) /\ DOMAIN Submitted = DOMAIN taskOutput \cup DOMAIN providerProvenance
  BY <1>3 DEF Submitted
<1> QED
  BY <1>1, <1>2, <1>4

LEMMA ErrorOwned ==
    ASSUME NEW out, Owned(out)
    PROVE  Owned(WithError(out)) /\ "error" \in DOMAIN WithError(out)
BY PutOwned, ByStepOwned DEF WithError

\* addProofOutput writes no error and no field of the step's from the preview.
LEMMA ProofOutputOwned ==
    ASSUME NEW preview_ \in SUBSET PreviewKey
    PROVE  LET out == addProofOutput(Submitted, preview_)
           IN Owned(out) /\ "error" \notin DOMAIN out
<1> DEFINE receipt == ByStep({"proof_id", "proof_status", "worker_id"})
           proved == Put(Submitted, receipt)
           flattened == (preview_ \cap flattenedPreviewField) \ DOMAIN proved
           shown == [k \in {"result_preview"} \cup flattened |-> "worker"]
<1>0. Owned(receipt) /\ DOMAIN receipt = {"proof_id", "proof_status", "worker_id"}
  BY ByStepOwned
<1> HIDE DEF receipt
<1>1. Owned(proved) /\ DOMAIN proved = DOMAIN Submitted \cup DOMAIN receipt
  BY <1>0, PutOwned, SubmittedOwned
<1>2. "error" \notin DOMAIN proved
  BY <1>0, <1>1, SubmittedOwned
<1>3. Owned(shown) /\ "error" \notin DOMAIN shown
  BY DEF Owned, Keys, flattenedPreviewField
<1>4. addProofOutput(Submitted, preview_) = IF preview_ = {} THEN proved ELSE Put(proved, shown)
  BY DEF addProofOutput, receipt
<1> HIDE DEF proved, shown
<1>5. Owned(Put(proved, shown)) /\ DOMAIN Put(proved, shown) = DOMAIN proved \cup DOMAIN shown
  BY <1>1, <1>3, PutOwned
<1>6. CASE preview_ = {}
  BY <1>1, <1>2, <1>4, <1>6
<1>7. CASE preview_ # {}
  BY <1>2, <1>3, <1>4, <1>5, <1>7
<1> QED
  BY <1>6, <1>7

\* What Execute returns is owned by the step, with an error unless it passes.
LEMMA ReturnKeeps ==
    ASSUME StepTypeOK, StepInv, ServerTypeOK, Final,
           NEW out, NEW reason, Return(out, reason), Owned(out),
           reason \in {"config", "submit", "read", "notfound", "proof", "timeout", "passed"},
           "error" \in DOMAIN out <=> reason # "passed",
           reason = "passed" =>
                /\ tasks[StepTask].status = "succeeded"
                /\ requireProof \/ "proof_id" \in DOMAIN out
                        => receipts[StepTask].verdict = "accepted"
    PROVE  StepTypeOK' /\ StepInv'
<1>1. StepTypeOK'
  BY DEF StepTypeOK, Return, Owned
<1>2. PassedIsProven'
  BY StepAssumption DEF PassedIsProven, Return, Final, Terminal
<1>3. PreviewOwnsNothing' /\ MissingProofTolerated'
  BY DEF PreviewOwnsNothing, MissingProofTolerated, StopPipeline, Return, Owned, Keys
<1> QED
  BY <1>1, <1>2, <1>3 DEF StepInv, Return

LEMMA FailKeeps ==
    ASSUME StepTypeOK, StepInv, ServerTypeOK, Final,
           NEW reason \in {"config", "submit", "read", "notfound", "timeout"}, Fail(reason)
    PROVE  StepTypeOK' /\ StepInv'
<1>1. Owned(Empty)
  BY DEF Owned, Empty
<1>2. Owned(WithError(Empty)) /\ "error" \in DOMAIN WithError(Empty)
  BY <1>1, ErrorOwned
<1> QED
  BY <1>2, ReturnKeeps DEF Fail

\* Nothing is decided yet: only the next request, the deadline or what was seen.
LEMMA UndecidedKeeps ==
    ASSUME StepTypeOK, StepInv, Final, UNCHANGED <<requireProof, output, why>>,
           stepPc \in {"submit", "snapshot", "proof", "poll"},
           stepPc' \in {"submit", "snapshot", "proof", "poll"},
           stepLate' \in BOOLEAN,
           seen' \in [status : {"absent"} \cup Live \cup Terminal, stalls : SUBSET Reason],
           stepPc' = "proof" => tasks[StepTask].status = "succeeded"
    PROVE  StepTypeOK' /\ StepInv'
<1>1. why = "none"
  BY DEF StepInv
<1> QED
  BY <1>1, StepAssumption
  DEF StepTypeOK, StepInv, PassedIsProven, PreviewOwnsNothing, MissingProofTolerated,
      StopPipeline, Final, Terminal

\* Every step of Execute, and its deadline, keeps what it has read true.
LEMMA StepMoves ==
    ASSUME StepTypeOK, StepInv, ServerTypeOK, Final, StepNext \/ WaitTimeout
    PROVE  StepTypeOK' /\ StepInv'
<1>1. CASE StepRefuses
  BY <1>1, FailKeeps DEF StepRefuses
<1>2. CASE StepSubmits
  BY <1>2, UndecidedKeeps DEF StepSubmits, StepTypeOK
<1>3. CASE StepSubmitFails
  BY <1>3, FailKeeps DEF StepSubmitFails
<1>4. CASE StepReadFails
  BY <1>4, FailKeeps DEF StepReadFails
<1>5. CASE StepNotFound
  BY <1>5, FailKeeps DEF StepNotFound
<1>6. CASE StepSnapshot
  <2> DEFINE status == tasks[StepTask].status
             found == tasks[StepTask].stalls
             stalls == actionableStalls(found)
  <2>1. /\ seen' = [status |-> status, stalls |-> found]
        /\ seen' \in [status : {"absent"} \cup Live \cup Terminal, stalls : SUBSET Reason]
        /\ UNCHANGED <<requireProof, stepLate, serverVars>>
    BY <1>6, StepAssumption DEF StepSnapshot, ServerTypeOK
  <2>2. CASE status \in Bad \/ stalls # {}
    <3> DEFINE reported == addStallOutput(Submitted, stalls)
    <3>1. /\ stepPc' = "done" /\ output' = WithError(reported)
          /\ why' = IF stalls # {} THEN "stall" ELSE "task"
      BY <1>6, <2>2 DEF StepSnapshot
    <3>2. Owned(reported)
      BY SubmittedOwned, PutOwned, ByStepOwned DEF addStallOutput
    <3> HIDE DEF reported
    <3>3. Owned(output') /\ "error" \in DOMAIN output'
      BY <3>1, <3>2, ErrorOwned
    <3>4. MissingProofTolerated'
      BY <2>1, <3>1 DEF MissingProofTolerated, actionableStalls, Reason
    <3>5. PreviewOwnsNothing' /\ PassedIsProven'
      BY <3>1, <3>3 DEF PreviewOwnsNothing, PassedIsProven, StopPipeline, Owned, Keys
    <3>6. StepTypeOK'
      BY <2>1, <3>1, <3>3 DEF StepTypeOK, Owned
    <3> QED
      BY <3>1, <3>4, <3>5, <3>6 DEF StepInv
  <2>3. CASE ~(status \in Bad \/ stalls # {})
    <3>1. /\ stepPc = "snapshot"
          /\ stepPc' = IF status = "succeeded" THEN "proof" ELSE "poll"
          /\ UNCHANGED <<output, why>>
      BY <1>6, <2>3 DEF StepSnapshot
    <3> QED
      BY <2>1, <3>1, UndecidedKeeps DEF StepTypeOK
  <2> QED
    BY <2>2, <2>3
<1>7. CASE StepProof
  <2>1. stepPc = "proof" /\ tasks[StepTask].status = "succeeded"
    BY <1>7 DEF StepProof, StepInv
  <2>2. ASSUME NEW preview_ \in SUBSET PreviewKey,
               LET out == addProofOutput(Submitted, preview_)
               IN \/ receipts[StepTask].verdict = "accepted" /\ Return(out, "passed")
                  \/ Return(WithError(out), "proof")
        PROVE  StepTypeOK' /\ StepInv'
    <3> DEFINE out == addProofOutput(Submitted, preview_)
    <3>1. Owned(out) /\ "error" \notin DOMAIN out
      BY ProofOutputOwned
    <3>2. Owned(WithError(out)) /\ "error" \in DOMAIN WithError(out)
      BY <3>1, ErrorOwned
    <3>3. CASE receipts[StepTask].verdict = "accepted" /\ Return(out, "passed")
      BY <2>1, <3>1, <3>3, ReturnKeeps
    <3>4. CASE Return(WithError(out), "proof")
      BY <3>2, <3>4, ReturnKeeps
    <3> QED
      BY <2>2, <3>3, <3>4
  <2>3. CASE receipts[StepTask].verdict = "none" /\ ~requireProof /\ Return(Submitted, "passed")
    BY <2>1, <2>3, SubmittedOwned, ReturnKeeps
  <2>4. CASE stepPc' = "poll" /\ UNCHANGED <<requireProof, stepLate, seen, output, why>>
    BY <2>1, <2>4, UndecidedKeeps DEF StepTypeOK
  <2> QED
    BY <1>7, <2>2, <2>3, <2>4 DEF StepProof
<1>8. CASE StepPolls
  BY <1>8, UndecidedKeeps DEF StepPolls, StepTypeOK
<1>9. CASE StepTimesOut
  BY <1>9, FailKeeps DEF StepTimesOut
<1>10. CASE WaitTimeout
  BY <1>10, UndecidedKeeps DEF WaitTimeout, StepTypeOK, StepInv
<1> QED
  BY <1>1, <1>2, <1>3, <1>4, <1>5, <1>6, <1>7, <1>8, <1>9, <1>10 DEF StepNext

-----------------------------------------------------------------------------
(* The staging proof *)

\* The evidence of an operation is complete.
Complete(op) ==
    /\ tasks[TaskOf[op]].status = "succeeded"
    /\ Proves(op, receipts[TaskOf[op]]) /\ receipts[TaskOf[op]].exit = 0
    /\ bodies[op] = "proven"

\* What the next request of run may rely on.
Gathered ==
    /\ pc = "proof" => tasks[task].status = "succeeded"
    /\ pc \in {"list", "body"} =>
          /\ tasks[task].status = "succeeded"
          /\ Proves(operation, receipts[task]) /\ receipts[task].exit = 0
    /\ pc \in {"failList", "failBody"} =>
          Proves(operation, receipts[task]) /\ receipts[task].exit # 0

Evidence == {"failProof", "failList", "failBody"}

\* The error is chosen before its evidence is read, and run ends once.
Decided ==
    /\ pc # "done" => outcome = "none" /\ ~preview
    /\ base # "none" => pc \in Evidence \cup {"done"}
    /\ pc \in Evidence => base # "none"

Earlier == operation = "browser_diagnostic" => Diagnostic /\ Complete("capture_product")

RunInv ==
    /\ Gathered /\ Decided /\ Earlier
    /\ SummaryIsCoherent /\ PreviewIsVerified /\ FailureIsFinal

\* TaskOf[operation] is a task, and receipts of tasks that have settled and
\* been verified are kept.
LEMMA TaskIsTask == ASSUME RunTypeOK PROVE task \in Task /\ operation \in Operation
BY ProofAssumption DEF RunTypeOK, task

LEMMA CompleteStays ==
    ASSUME Final, NEW op \in Operation, Complete(op), bodies'[op] = bodies[op],
           executors'[op] = executors[op]
    PROVE  Complete(op)'
<1>1. TaskOf[op] \in Task
  BY ProofAssumption
<1> QED
  BY <1>1 DEF Complete, Proves, Final, Terminal

\* Nothing but the server moves: what run has read is final.
LEMMA RunStays ==
    ASSUME RunTypeOK, RunInv, Final, UNCHANGED runVars
    PROVE  RunTypeOK' /\ RunInv'
<1> USE DEF runVars
<1>0. task \in Task /\ operation \in Operation /\ task' = task
  BY TaskIsTask DEF task
<1>1. RunTypeOK'
  BY DEF RunTypeOK
<1>2. Gathered'
  BY <1>0 DEF RunInv, Gathered, Proves, Final, Terminal
<1>3. Decided'
  BY DEF RunInv, Decided
<1>4. Earlier'
  BY CompleteStays DEF RunInv, Earlier, Operation
<1>5. SummaryIsCoherent'
  <2> SUFFICES ASSUME outcome = "summary", NEW op \in Operation,
                      op = "capture_product" \/ Diagnostic
               PROVE  Complete(op)'
    BY DEF SummaryIsCoherent, Complete
  <2>1. Complete(op)
    BY DEF RunInv, SummaryIsCoherent, Complete
  <2> QED
    BY <2>1, CompleteStays
<1>6. PreviewIsVerified'
  BY <1>0 DEF RunInv, PreviewIsVerified, Proves, Final
<1>7. FailureIsFinal'
  BY <1>0 DEF RunInv, FailureIsFinal, Final, Terminal, Bad
<1> QED
  BY <1>1, <1>2, <1>3, <1>4, <1>5, <1>6, <1>7 DEF RunInv

\* run ends with a failure that the server does not contradict.
LEMMA StopKeeps ==
    ASSUME RunTypeOK, RunInv, Final, pc # "done",
           NEW reason \in Outcome \ {"none", "summary"}, NEW shown \in BOOLEAN,
           Stop(reason, shown),
           reason = "rejected" => receipts[task].verdict = "rejected",
           shown => Proves(operation, receipts[task]) /\ receipts[task].exit # 0
    PROVE  RunTypeOK' /\ RunInv'
<1> USE DEF Stop
<1>0. task \in Task /\ operation \in Operation /\ task' = task
  BY TaskIsTask DEF task
<1>1. RunTypeOK'
  BY DEF RunTypeOK, capacityVars, bodyVars
<1>2. Gathered' /\ Decided'
  BY DEF Gathered, Decided, Evidence
<1>3. Earlier'
  BY CompleteStays DEF RunInv, Earlier, Operation, capacityVars, bodyVars
<1>4. SummaryIsCoherent'
  BY DEF SummaryIsCoherent
<1>5. PreviewIsVerified'
  BY <1>0 DEF PreviewIsVerified, Proves, Final, capacityVars
<1>6. FailureIsFinal'
  BY <1>0 DEF RunInv, FailureIsFinal, Final, Terminal, Bad
<1> QED
  BY <1>1, <1>2, <1>3, <1>4, <1>5, <1>6 DEF RunInv

\* run goes on with the same operation: what matters is what the next request
\* relies on, and the error that is kept.
LEMMA GoOnKeeps ==
    ASSUME RunTypeOK, RunInv, Final, RunTypeOK', Gathered', pc # "done",
           pc' \in {"submit"} \cup Waits,
           UNCHANGED <<operation, bodies, outcome, preview>>,
           executors' = executors \/
               \E e : executors' = [executors EXCEPT ![operation] = e],
           base' # "none" <=> pc' \in Evidence,
           base' = "ended" => tasks[task].status \in Bad,
           base' = "exit" => receipts[task].verdict = "accepted" /\ receipts[task].exit # 0
    PROVE  RunInv'
<1>0. task \in Task /\ operation \in Operation /\ task' = task
  BY TaskIsTask DEF task
<1>1. outcome' = "none" /\ preview' = FALSE
  BY DEF RunInv, Decided, RunTypeOK
<1>2. Decided'
  BY <1>1 DEF Decided, Waits, Evidence
<1>3. Earlier'
  <2> SUFFICES ASSUME operation = "browser_diagnostic"
               PROVE  Diagnostic /\ Complete("capture_product")'
    BY DEF Earlier
  <2>1. Diagnostic /\ Complete("capture_product")
    BY DEF RunInv, Earlier
  <2>2. executors'["capture_product"] = executors["capture_product"]
    BY DEF RunTypeOK, Operation
  <2> QED
    BY <2>1, <2>2, CompleteStays DEF Operation
<1>4. SummaryIsCoherent' /\ PreviewIsVerified'
  BY <1>1 DEF SummaryIsCoherent, PreviewIsVerified
<1>5. FailureIsFinal'
  BY <1>0, <1>1 DEF FailureIsFinal, Final, Terminal, Bad
<1> QED
  BY <1>2, <1>3, <1>4, <1>5 DEF RunInv

\* Nothing is gathered before the proof, and an evidence read keeps what is.
LEMMA NothingGathered ==
    ASSUME pc' \in {"agents", "leases", "tasks", "pollCapacity", "submit", "snapshot",
                    "pollProof", "failProof"}
    PROVE  Gathered'
BY DEF Gathered

LEMMA GatheredStays ==
    ASSUME RunTypeOK, RunInv, Final, UNCHANGED <<operation, executors>>,
           \/ pc' = pc
           \/ pc = "list" /\ pc' = "body"
           \/ pc = "failList" /\ pc' = "failBody"
    PROVE  Gathered'
<1>0. task \in Task /\ operation \in Operation /\ task' = task
  BY TaskIsTask DEF task
<1> QED
  BY <1>0 DEF RunInv, Gathered, Proves, Final, Terminal

Unchanged == UNCHANGED <<capacityVars, bodyVars, endVars>>

\* A request that is answered and gathers nothing, in the same context or in a
\* new one.
LEMMA NextRequest ==
    ASSUME RunTypeOK, RunInv, Final, Unchanged, UNCHANGED operation,
           pc \notin Evidence \cup {"done"}, late' \in BOOLEAN,
           pc' \in ({"submit"} \cup Waits) \ Evidence, Gathered'
    PROVE  RunTypeOK' /\ RunInv'
<1> USE DEF Unchanged, capacityVars, bodyVars, endVars
<1>1. RunTypeOK'
  BY DEF RunTypeOK
<1>2. base' = "none"
  BY DEF RunInv, Decided
<1> QED
  BY <1>1, <1>2, GoOnKeeps DEF capacityVars

\* What the waits for capacity and for the proof do.
LEMMA CapacityKeeps ==
    ASSUME RunTypeOK, RunInv, Final, ServerTypeOK,
           ListAgents \/ ListLeases \/ ListTasks
    PROVE  RunTypeOK' /\ RunInv'
<1>1. base' = "none" /\ pc # "done" /\ UNCHANGED <<operation, bodies, outcome, preview>>
  BY DEF ListAgents, ListLeases, ListTasks, Continue, RunInv, Decided, Evidence, bodyVars,
         endVars
<1>2. pc' \in {"leases", "tasks", "pollCapacity", "submit"}
  BY DEF ListAgents, ListLeases, ListTasks, Continue
<1>3. Gathered'
  BY <1>2, NothingGathered
<1>4. RunTypeOK'
  <2>1. CASE ListAgents
    BY <2>1, ProofAssumption
    DEF ListAgents, Continue, RunTypeOK, ServerTypeOK, Waits, bodyVars, endVars
  <2>2. CASE ListLeases
    BY <2>2 DEF ListLeases, Continue, RunTypeOK, Waits, bodyVars, endVars
  <2>3. CASE ListTasks
    BY <2>3 DEF ListTasks, Continue, RunTypeOK, Waits, bodyVars, endVars
  <2> QED
    BY <2>1, <2>2, <2>3
<1>5. executors' = executors \/
         \E e : executors' = [executors EXCEPT ![operation] = e]
  BY DEF ListAgents, ListLeases, ListTasks
<1> QED
  BY <1>1, <1>2, <1>3, <1>4, <1>5, GoOnKeeps DEF Waits, Evidence

\* Explain starts the evidence of an error that is already decided.
LEMMA ExplainKeeps ==
    ASSUME RunTypeOK, RunInv, Final, pc # "done",
           NEW next \in {"failProof", "failList"}, NEW reason \in {"ended", "exit"},
           Explain(next, reason),
           reason = "ended" => tasks[task].status \in Bad,
           reason = "exit" => receipts[task].verdict = "accepted" /\ receipts[task].exit # 0,
           next = "failList" => Proves(operation, receipts[task]) /\ receipts[task].exit # 0
    PROVE  RunTypeOK' /\ RunInv'
<1> USE DEF Explain, capacityVars, bodyVars
<1>0. task \in Task /\ operation \in Operation /\ task' = task
  BY TaskIsTask DEF task
<1>1. RunTypeOK'
  <2>1. reads' \in 0 .. EvidenceReads
    BY ProofAssumption
  <2>2. pc' \in {"off", "config", "submit", "done"} \cup Waits /\ base' \in {"none", "ended", "exit"}
    BY DEF Waits
  <2> QED
    BY <2>1, <2>2 DEF RunTypeOK
<1>2. Gathered'
  BY <1>0 DEF Gathered, Proves, Final
<1>3. /\ pc' \in Evidence /\ pc' \in {"submit"} \cup Waits
      /\ base' # "none" /\ base' = reason /\ executors' = executors
      /\ UNCHANGED <<operation, bodies, outcome, preview>>
  BY DEF Evidence, Waits
<1> HIDE DEF Explain
<1> QED
  BY <1>1, <1>2, <1>3, GoOnKeeps

\* Each read of the failure evidence, within its budget.
LEMMA EvidenceKeeps ==
    ASSUME RunTypeOK, RunInv, Final, ServerTypeOK, UNCHANGED serverVars,
           GiveUpEvidence \/ EvidenceRetried \/ EvidenceProof \/ EvidenceList \/ EvidenceBody
    PROVE  RunTypeOK' /\ RunInv'
<1>0. /\ pc \in Evidence /\ pc # "done" /\ base \in {"ended", "exit"}
      /\ base = "ended" => tasks[task].status \in Bad
      /\ base = "exit" => receipts[task].verdict = "accepted" /\ receipts[task].exit # 0
  BY DEF GiveUpEvidence, EvidenceRetried, EvidenceProof, EvidenceList, EvidenceBody,
         Evidence, RunTypeOK, RunInv, Decided, FailureIsFinal
<1>1. CASE GiveUpEvidence
  BY <1>0, <1>1, StopKeeps DEF GiveUpEvidence, Outcome
<1>2. CASE EvidenceRetried
  <2>1. RunTypeOK'
    BY <1>2, ProofAssumption DEF EvidenceRetried, RunTypeOK, capacityVars, bodyVars
  <2>2. Gathered'
    BY <1>2, GatheredStays DEF EvidenceRetried, capacityVars
  <2> QED
    BY <1>0, <1>2, <2>1, <2>2, GoOnKeeps
    DEF EvidenceRetried, Evidence, Waits, capacityVars, bodyVars
<1>3. CASE EvidenceProof
  BY <1>0, <1>3, ExplainKeeps DEF EvidenceProof, Proves, validateProofBinding
<1>4. CASE EvidenceList
  <2>1. task \in Task
    BY TaskIsTask
  <2>2. RunTypeOK'
    BY <1>4, <2>1, ProofAssumption
    DEF EvidenceList, RunTypeOK, ServerTypeOK, Continue, Waits, Content, capacityVars
  <2>3. Gathered'
    BY <1>4, GatheredStays DEF EvidenceList, Continue, capacityVars
  <2> QED
    BY <1>0, <1>4, <2>2, <2>3, GoOnKeeps
    DEF EvidenceList, Continue, Evidence, Waits, capacityVars
<1>5. CASE EvidenceBody
  BY <1>0, <1>5, StopKeeps DEF EvidenceBody, Outcome, RunInv, Gathered
<1> QED
  BY <1>1, <1>2, <1>3, <1>4, <1>5

\* The downloads: what is taken is what the accepted receipt commits to.
LEMMA DownloadKeeps ==
    ASSUME RunTypeOK, RunInv, Final, ServerTypeOK,
           ListArtifacts \/ ArtifactRefused \/ Download
    PROVE  RunTypeOK' /\ RunInv'
<1>0. task \in Task /\ operation \in Operation
  BY TaskIsTask
<1>1. CASE ListArtifacts
  <2>1. RunTypeOK'
    BY <1>0, <1>1
    DEF ListArtifacts, RunTypeOK, ServerTypeOK, Continue, Waits, Content, capacityVars, endVars
  <2>2. Gathered'
    BY <1>1, GatheredStays DEF ListArtifacts, Continue, capacityVars
  <2>3. base' = "none" /\ pc' \notin Evidence
    BY <1>1 DEF ListArtifacts, Continue, endVars, RunInv, Decided, Evidence
  <2> QED
    BY <1>1, <2>1, <2>2, <2>3, GoOnKeeps
    DEF ListArtifacts, Continue, Waits, capacityVars, endVars
<1>2. CASE ArtifactRefused
  BY <1>2, StopKeeps DEF ArtifactRefused, Outcome
<1>3. CASE Download
  <2>1. /\ pc = "body" /\ artifacts[task] = "proven"
        /\ bodies' = [bodies EXCEPT ![operation] = "proven"]
        /\ UNCHANGED <<tasks, receipts, executors, base, preview, reads, listed, online, leased>>
    BY <1>3 DEF Download, validateArtifactHash, serverVars, capacityVars
  <2>2. ASSUME NEW op \in Operation, op = operation PROVE Complete(op)'
    <3>1. /\ tasks[TaskOf[op]].status = "succeeded"
          /\ Proves(op, receipts[TaskOf[op]]) /\ receipts[TaskOf[op]].exit = 0
      BY <2>1, <2>2 DEF RunInv, Gathered, task
    <3>2. bodies'[op] = "proven"
      BY <2>1, <2>2 DEF RunTypeOK
    <3> QED
      BY <2>1, <3>1, <3>2 DEF Complete, Proves
  <2>3. base = "none" /\ ~preview /\ outcome = "none"
    BY <2>1 DEF RunInv, Decided, Evidence
  <2>4. RunTypeOK'
    BY <1>3, <2>1 DEF Download, RunTypeOK, Waits, Content, Operation, Outcome
  <2>5. CASE operation = "capture_product" /\ Diagnostic
    <3>1. pc' = "agents" /\ operation' = "browser_diagnostic" /\ outcome' = outcome
      BY <1>3, <2>5 DEF Download
    <3>2. Gathered'
      BY <3>1, NothingGathered
    <3>3. Decided' /\ SummaryIsCoherent' /\ PreviewIsVerified' /\ FailureIsFinal'
      BY <2>1, <2>3, <3>1
      DEF Decided, Evidence, SummaryIsCoherent, PreviewIsVerified, FailureIsFinal
    <3>4. Earlier'
      BY <1>0, <2>2, <2>5 DEF Earlier
    <3> QED
      BY <2>4, <3>2, <3>3, <3>4 DEF RunInv
  <2>6. CASE ~(operation = "capture_product" /\ Diagnostic)
    <3>1. pc' = "done" /\ outcome' = "summary" /\ operation' = operation
      BY <1>3, <2>6 DEF Download
    <3>2. Gathered' /\ Decided' /\ PreviewIsVerified' /\ FailureIsFinal'
      BY <2>1, <2>3, <3>1
      DEF Gathered, Decided, Evidence, PreviewIsVerified, FailureIsFinal
    <3>3. operation = "browser_diagnostic" => Complete("capture_product")'
      <4> SUFFICES ASSUME operation = "browser_diagnostic"
                   PROVE  Complete("capture_product")'
        OBVIOUS
      <4>1. Complete("capture_product")
        BY DEF RunInv, Earlier
      <4>2. bodies'["capture_product"] = bodies["capture_product"]
        BY <2>1 DEF RunTypeOK, Operation
      <4> QED
        BY <2>1, <4>1, <4>2, CompleteStays DEF Operation
    <3>4. Earlier'
      BY <3>1, <3>3 DEF Earlier, RunInv
    <3>5. SummaryIsCoherent'
      <4> SUFFICES ASSUME NEW op \in Operation, op = "capture_product" \/ Diagnostic
                   PROVE  Complete(op)'
        BY DEF SummaryIsCoherent, Complete
      <4>1. op = operation \/ (op = "capture_product" /\ operation = "browser_diagnostic")
        BY <1>0, <2>6 DEF Operation
      <4> QED
        BY <2>2, <3>3, <4>1
    <3> QED
      BY <2>4, <3>2, <3>4, <3>5 DEF RunInv
  <2> QED
    BY <2>5, <2>6
<1> QED
  BY <1>1, <1>2, <1>3

\* The wait for the accepted proof.
LEMMA ProofKeeps ==
    ASSUME RunTypeOK, RunInv, Final, ServerTypeOK, Snapshot \/ FindProof
    PROVE  RunTypeOK' /\ RunInv'
<1>1. CASE Snapshot
  <2>0. pc = "snapshot" /\ pc \notin Evidence \cup {"done"} /\ late \in BOOLEAN
        /\ UNCHANGED serverVars
    BY <1>1 DEF Snapshot, Evidence, RunTypeOK
  <2>1. PICK found \in BOOLEAN :
          LET status == IF found THEN tasks[task].status ELSE "queued"
          IN \/ status \in Bad /\ Explain("failProof", "ended")
             \/ status = "succeeded" /\ Continue("proof") /\ Unchanged
             \/ found /\ Stop("binding", FALSE)
             \/ status \in Live /\ tasks[task].stalls # {} /\ Stop("stalled", FALSE)
             \/ status \in Live /\ tasks[task].stalls = {} /\ Continue("pollProof") /\ Unchanged
    BY <1>1 DEF Snapshot, Unchanged
  <2> DEFINE status == IF found THEN tasks[task].status ELSE "queued"
  <2>2. CASE status \in Bad /\ Explain("failProof", "ended")
    <3>1. tasks[task].status \in Bad
      BY <2>2 DEF Bad
    <3> QED
      BY <2>0, <2>2, <3>1, ExplainKeeps
  <2>3. CASE status = "succeeded" /\ Continue("proof") /\ Unchanged
    <3>1. tasks[task].status = "succeeded"
      BY <2>3
    <3>2. Gathered'
      BY <2>0, <2>3, <3>1 DEF Gathered, Continue, serverVars, task
    <3> QED
      BY <2>0, <2>3, <3>2, NextRequest DEF Continue, Waits, Evidence
  <2>4. CASE Stop("binding", FALSE) \/ Stop("stalled", FALSE)
    BY <2>0, <2>4, StopKeeps DEF Outcome
  <2>5. CASE Continue("pollProof") /\ Unchanged
    BY <2>0, <2>5, NextRequest, NothingGathered DEF Continue, Waits, Evidence
  <2> QED
    BY <2>1, <2>2, <2>3, <2>4, <2>5
<1>2. CASE FindProof
  <2> DEFINE receipt == receipts[task]
             accepted == receipt.verdict = "accepted"
             bound == validateProofBinding(receipt)
  <2>0. pc = "proof" /\ pc \notin Evidence \cup {"done"} /\ late \in BOOLEAN
        /\ UNCHANGED serverVars /\ tasks[task].status = "succeeded"
    BY <1>2 DEF FindProof, Evidence, RunTypeOK, RunInv, Gathered
  <2>1. \/ Continue("pollProof") /\ Unchanged
        \/ receipt.verdict = "rejected" /\ Stop("rejected", FALSE)
        \/ Stop("binding", FALSE)
        \/ accepted /\ bound /\ receipt.exit # 0 /\ Explain("failList", "exit")
        \/ accepted /\ bound /\ receipt.exit = 0 /\ Fresh("list") /\ Unchanged
    BY <1>2 DEF FindProof, Unchanged
  <2>2. CASE Continue("pollProof") /\ Unchanged
    BY <2>0, <2>2, NextRequest, NothingGathered DEF Continue, Waits, Evidence
  <2>3. CASE receipt.verdict = "rejected" /\ Stop("rejected", FALSE)
    BY <2>0, <2>3, StopKeeps DEF Outcome
  <2>4. CASE Stop("binding", FALSE)
    BY <2>0, <2>4, StopKeeps DEF Outcome
  <2>5. CASE accepted /\ bound /\ receipt.exit # 0 /\ Explain("failList", "exit")
    BY <2>0, <2>5, ExplainKeeps DEF Proves, validateProofBinding
  <2>6. CASE accepted /\ bound /\ receipt.exit = 0 /\ Fresh("list") /\ Unchanged
    <3>1. Gathered'
      BY <2>0, <2>6
      DEF Gathered, Fresh, Proves, validateProofBinding, serverVars, task, Unchanged,
          capacityVars
    <3> QED
      BY <2>0, <2>6, <3>1, NextRequest DEF Fresh, Waits, Evidence
  <2> QED
    BY <2>1, <2>2, <2>3, <2>4, <2>5, <2>6
<1> QED
  BY <1>1, <1>2

\* Every step of run, and the end of its contexts, keeps what it has read true.
LEMMA RunMoves ==
    ASSUME RunTypeOK, RunInv, Final, ServerTypeOK, RunStep \/ Timeout
    PROVE  RunTypeOK' /\ RunInv'
<1>1. CASE ReadFails
  BY <1>1, StopKeeps DEF ReadFails, Request, Outcome
<1>2. CASE ListAgents \/ ListLeases \/ ListTasks
  BY <1>2, CapacityKeeps
<1>3. CASE Poll("pollCapacity", "agents") \/ Poll("pollProof", "snapshot")
  <2>1. CASE Stop("timeout", FALSE)
    BY <1>3, <2>1, StopKeeps DEF Poll, Outcome
  <2>2. CASE ~Stop("timeout", FALSE)
    BY <1>3, <2>2, NextRequest, NothingGathered
    DEF Poll, Continue, Unchanged, Waits, Evidence, RunTypeOK
  <2> QED
    BY <2>1, <2>2
<1>4. CASE SubmitTask
  BY <1>4, NextRequest, NothingGathered DEF SubmitTask, Fresh, Unchanged, Waits, Evidence
<1>5. CASE SubmitFails
  BY <1>5, StopKeeps DEF SubmitFails, Outcome
<1>6. CASE Snapshot \/ FindProof
  BY <1>6, ProofKeeps
<1>7. CASE \/ GiveUpEvidence \/ EvidenceRetried \/ EvidenceProof \/ EvidenceList
           \/ EvidenceBody
  <2>1. UNCHANGED serverVars
    BY <1>7 DEF GiveUpEvidence, EvidenceRetried, EvidenceProof, EvidenceList, EvidenceBody
  <2> QED
    BY <1>7, <2>1, EvidenceKeeps
<1>8. CASE ListArtifacts \/ ArtifactRefused \/ Download
  BY <1>8, DownloadKeeps
<1>9. CASE RunRefuses
  BY <1>9, StopKeeps DEF RunRefuses, Outcome
<1>10. CASE RunStarts
  BY <1>10, NextRequest, NothingGathered
  DEF RunStarts, Continue, Unchanged, Waits, Evidence, RunTypeOK
<1>11. CASE Timeout
  <2>1. /\ pc \in Waits /\ late' = TRUE
        /\ UNCHANGED <<pc, operation, capacityVars, bodyVars, endVars, serverVars>>
    BY <1>11 DEF Timeout
  <2>2. RunTypeOK'
    BY <2>1 DEF RunTypeOK, capacityVars, bodyVars, endVars
  <2>3. Gathered'
    BY <2>1, GatheredStays DEF capacityVars
  <2>4. base' # "none" <=> pc' \in Evidence
    BY <2>1 DEF RunInv, Decided, Evidence, Waits, endVars
  <2>5. /\ base' = "ended" => tasks[task].status \in Bad
        /\ base' = "exit" => receipts[task].verdict = "accepted" /\ receipts[task].exit # 0
    BY <2>1 DEF RunInv, FailureIsFinal, endVars
  <2> QED
    BY <2>1, <2>2, <2>3, <2>4, <2>5, GoOnKeeps DEF Waits, capacityVars, bodyVars, endVars
<1> QED
  BY <1>1, <1>2, <1>3, <1>4, <1>5, <1>6, <1>7, <1>8, <1>9, <1>10, <1>11
  DEF RunStep

-----------------------------------------------------------------------------
(* The clients *)

ClientsInv == TypeOK /\ ServerInv /\ StepInv /\ RunInv

\* The invariant holds when nothing has been submitted.
LEMMA ClientsInit == Init => ClientsInv
<1> SUFFICES ASSUME Init PROVE ClientsInv
  OBVIOUS
<1>1. ServerTypeOK /\ ServerInv
  <2>1. (CHOOSE e \in Executor : TRUE) \in Executor
    BY ExecutorAssumption
  <2> QED
    BY <2>1 DEF Init, ServerInit, ServerTypeOK, ServerInv, Verdict
<1>2. StepTypeOK /\ StepInv
  <2>1. StepTypeOK
    BY DEF Init, StepInit, StepTypeOK, Empty
  <2> QED
    BY <2>1 DEF Init, StepInit, StepInv, PassedIsProven, PreviewOwnsNothing,
                MissingProofTolerated, Empty
<1>3. RunTypeOK
  <2>1. reads \in 0 .. EvidenceReads
    BY ProofAssumption DEF Init, RunInit
  <2>2. executors \in [Operation -> Executor \cup {Unknown}] /\ bodies \in [Operation -> Content]
    BY DEF Init, RunInit, Content
  <2> QED
    BY <2>1, <2>2 DEF Init, RunInit, RunTypeOK, Waits, Operation, Content, Outcome
<1>4. RunInv
  <2>1. /\ pc \in {"off", "config"} /\ operation = "capture_product"
        /\ base = "none" /\ outcome = "none" /\ preview = FALSE
    BY DEF Init, RunInit
  <2>2. Gathered /\ Decided /\ Earlier
    BY <2>1 DEF Gathered, Decided, Evidence, Earlier
  <2> QED
    BY <2>1, <2>2 DEF RunInv, SummaryIsCoherent, PreviewIsVerified, FailureIsFinal
<1> QED
  BY <1>1, <1>2, <1>3, <1>4 DEF ClientsInv, TypeOK

\* Every step of the server, of the step, of the staging proof and of their
\* clocks keeps it.
LEMMA ClientsNext == ClientsInv /\ [Next]_vars => ClientsInv'
<1> SUFFICES ASSUME ClientsInv, [Next]_vars PROVE ClientsInv'
  OBVIOUS
<1>0. /\ ServerTypeOK /\ StepTypeOK /\ RunTypeOK
      /\ ServerInv /\ StepInv /\ RunInv
  BY DEF ClientsInv, TypeOK
<1>1. ServerSteps
  <2>1. CASE Server
    BY <2>1, ForeignAssumption DEF Server, ServerSteps
  <2>2. CASE Step
    BY <2>2, StepAssumption
    DEF Step, StepNext, StepRefuses, StepSubmits, StepSubmitFails, StepSnapshot,
        StepNotFound, StepProof, StepReadFails, StepPolls, StepTimesOut, ServerSteps
  <2>3. CASE Run
    <3>1. task \in Task
      BY <1>0, TaskIsTask
    <3> QED
      BY <2>3, <3>1
      DEF Run, RunStep, RunRefuses, RunStarts, ReadFails, ListAgents, ListLeases, ListTasks, Poll, SubmitTask,
          SubmitFails, Snapshot, FindProof, GiveUpEvidence, EvidenceRetried, EvidenceProof,
          EvidenceList, EvidenceBody, ListArtifacts, ArtifactRefused, Download, ServerSteps
  <2>4. CASE StepClock \/ RunClock
    BY <2>4 DEF StepClock, RunClock, WaitTimeout, Timeout, ServerSteps
  <2>5. CASE UNCHANGED vars
    BY <2>5 DEF vars, ServerSteps
  <2> QED
    BY <2>1, <2>2, <2>3, <2>4, <2>5 DEF Next
<1>2. ServerTypeOK' /\ ServerInv' /\ Final
  BY <1>0, <1>1, ServerKeeps
<1>3. StepTypeOK' /\ StepInv'
  <2>1. (StepNext \/ WaitTimeout) \/ UNCHANGED stepVars
    BY DEF Next, Server, Step, Run, StepClock, RunClock, vars
  <2> QED
    BY <1>0, <1>2, <2>1, StepMoves, StepStays
<1>4. RunTypeOK' /\ RunInv'
  <2>1. (RunStep \/ Timeout) \/ UNCHANGED runVars
    BY DEF Next, Server, Step, Run, StepClock, RunClock, vars
  <2> QED
    BY <1>0, <1>2, <2>1, RunMoves, RunStays
<1> QED
  BY <1>2, <1>3, <1>4 DEF ClientsInv, TypeOK

\* In every reachable state, whatever the server does between two requests.
THEOREM ClientsAreInvariant == Spec => []ClientsInv
BY ClientsInit, ClientsNext, PTL DEF Spec

\* Every variable of the server and of its clients keeps its type.
THEOREM ClientsTyping == Spec => []TypeOK
BY ClientsAreInvariant, PTL DEF ClientsInv

\* Execute lets the pipeline go on only with a task that has succeeded, and with
\* an accepted proof wherever one is required or handed on.
THEOREM StepPassesProven == Spec => []PassedIsProven
BY ClientsAreInvariant, PTL DEF ClientsInv, StepInv

\* addProofOutput never lets a worker's preview write the step's own fields or
\* stop the pipeline.
THEOREM StepOwnsOutput == Spec => []PreviewOwnsNothing
BY ClientsAreInvariant, PTL DEF ClientsInv, StepInv

\* actionableStalls: without require_proof a missing proof stalls no step.
THEOREM StepToleratesMissingProof == Spec => []MissingProofTolerated
BY ClientsAreInvariant, PTL DEF ClientsInv, StepInv

\* The parts of a summary, read one after the other, agree with each other.
THEOREM ProofIsCoherent == Spec => []SummaryIsCoherent
BY ClientsAreInvariant, PTL DEF ClientsInv, RunInv

\* providerFailureEvidenceError shows stderr only of a failure that a verified
\* receipt of the retained worker reports.
THEOREM ProofShowsVerified == Spec => []PreviewIsVerified
BY ClientsAreInvariant, PTL DEF ClientsInv, RunInv

\* No failure that run reports is taken back by the server.
THEOREM ProofFailsFinally == Spec => []FailureIsFinal
BY ClientsAreInvariant, PTL DEF ClientsInv, RunInv

-----------------------------------------------------------------------------
(* The clients keep their promises *)

\* Where the server takes a task from a state, if anywhere.
Ahead(state) == StepPromise!After(state)

LEMMA AheadIs ==
    /\ Ahead("open") = {"ended", "succeeded"}
    /\ Ahead("succeeded") = {"proven", "rejected"}
BY DEF Ahead, StepPromise!After

LEMMA ProvenIs ==
    /\ Proven("none") = "succeeded"
    /\ Proven("accepted") = "proven"
<1>1. "none" \in Unverified /\ "accepted" \notin Unverified
  BY DEF Unverified
<1> QED
  BY <1>1 DEF Proven

\* How far the server is with a task, status by status.
LEMMA ProgressIs ==
    ASSUME NEW t \in Task
    PROVE  /\ tasks[t].status = "absent" => Progress(t) = "absent"
           /\ tasks[t].status \in Live => Progress(t) = "open"
           /\ tasks[t].status \in Bad => Progress(t) = "ended"
           /\ tasks[t].status = "succeeded" => Progress(t) = Proven(receipts[t].verdict)
<1> DEFINE status == tasks[t].status
<1>1. CASE status = "absent"
  BY <1>1 DEF Progress, Live, Bad
<1>2. CASE status = "queued" \/ status = "leased"
  <2>1. status \in Live /\ status # "absent" /\ status \notin Bad /\ status # "succeeded"
    BY <1>2 DEF Live, Bad
  <2> QED
    BY <2>1 DEF Progress
<1>3. CASE status \in Bad
  <2>1. status \notin Live /\ status # "absent" /\ status # "succeeded"
    BY <1>3 DEF Live, Bad
  <2> QED
    BY <1>3, <2>1 DEF Progress
<1>4. CASE status = "succeeded"
  <2>1. status \notin Live /\ status \notin Bad
    BY <1>4 DEF Live, Bad
  <2> QED
    BY <1>4, <2>1 DEF Progress
<1> QED
  BY <1>1, <1>2, <1>3, <1>4 DEF Live, Bad

LEMMA ProgressNow ==
    ASSUME NEW t \in Task
    PROVE  (/\ tasks[t].status = "absent" => Progress(t) = "absent"
            /\ tasks[t].status \in Live => Progress(t) = "open"
            /\ tasks[t].status \in Bad => Progress(t) = "ended"
            /\ tasks[t].status = "succeeded" => Progress(t) = Proven(receipts[t].verdict))'
BY ProgressIs, PTL

LEMMA AdmitAdvances ==
    ASSUME ServerTypeOK, NEW t \in Task, Admit(t)
    PROVE  /\ Progress(t) = "absent" /\ Progress(t)' = "open"
           /\ \A u \in Task \ {t} : Progress(u)' = Progress(u)
<1>1. tasks \in [Task -> TaskRecord] /\ tasks[t].status = "absent" /\ UNCHANGED receipts
  BY DEF ServerTypeOK, TaskRecord, Admit
<1>2. tasks'[t].status = "queued" /\ \A u \in Task \ {t} : tasks'[u] = tasks[u]
  BY <1>1, BecomeChangesOne DEF Admit, Live
<1>3. Progress(t) = "absent"
  BY <1>1, ProgressIs
<1>4. Progress(t)' = "open"
  BY <1>2, ProgressNow DEF Live
<1>5. \A u \in Task \ {t} : Progress(u)' = Progress(u)
  BY <1>1, <1>2 DEF Progress, Proven
<1> QED
  BY <1>3, <1>4, <1>5

\* The server moves one task at a time, and only ahead.
LEMMA TaskAdvances ==
    ASSUME ServerTypeOK, ServerInv, NEW t \in Task, TaskNext(t)
    PROVE  /\ Progress(t)' = Progress(t) \/ Progress(t)' \in Ahead(Progress(t))
           /\ \A u \in Task \ {t} : Progress(u)' = Progress(u)
<1>0. tasks \in [Task -> TaskRecord]
  BY DEF ServerTypeOK, TaskRecord
<1> USE AheadIs DEF Progress, Proven
<1>1. ASSUME NEW lessee \in Agent \cup {NoAgent}, NEW status \in Live \cup Bad,
             Become(t, status, lessee), UNCHANGED receipts, tasks[t].status \in Live
      PROVE  /\ Progress(t)' = Progress(t) \/ Progress(t)' \in Ahead(Progress(t))
             /\ \A u \in Task \ {t} : Progress(u)' = Progress(u)
  <2>1. tasks'[t].status = status /\ \A u \in Task \ {t} : tasks'[u] = tasks[u]
    BY <1>0, <1>1, BecomeChangesOne DEF Terminal
  <2> QED
    BY <1>1, <2>1 DEF Live, Bad
<1>2. ASSUME NEW a \in Agent, Grant(t, a)
      PROVE  /\ Progress(t)' = Progress(t) \/ Progress(t)' \in Ahead(Progress(t))
             /\ \A u \in Task \ {t} : Progress(u)' = Progress(u)
  BY <1>1, <1>2 DEF Grant, Live
<1>3. CASE Requeue(t)
  BY <1>1, <1>3 DEF Requeue, Live
<1>4. ASSUME NEW status \in Settled, NEW exit \in 0 .. 1, Settle(t, status, exit)
      PROVE  /\ Progress(t)' \in Ahead(Progress(t))
             /\ \A u \in Task \ {t} : Progress(u)' = Progress(u)
  <2>1. tasks'[t].status = status /\ \A u \in Task \ {t} : tasks'[u] = tasks[u]
    BY <1>0, <1>4, BecomeChangesOne DEF Settle, Settled, Terminal, Bad
  <2>2. receipts'[t].verdict = "none" /\ \A u \in Task \ {t} : receipts'[u] = receipts[u]
    <3> DEFINE receipt == [verdict |-> "none", worker |-> tasks[t].lessee,
                           executor |-> agents[tasks[t].lessee].executor, exit |-> exit]
    <3>1. receipts' = [receipts EXCEPT ![t] = receipt] /\ receipt.verdict = "none"
      BY <1>4 DEF Settle
    <3> HIDE DEF receipt
    <3> QED
      BY <3>1 DEF ServerTypeOK
  <2>3. Progress(t) = "open"
    <3>1. tasks[t].status = "leased"
      BY <1>4 DEF Settle
    <3> QED
      BY <3>1, ProgressIs DEF Live
  <2>4. Progress(t)' \in {"ended", "succeeded"}
    BY <2>1, <2>2 DEF Live, Bad, Settled, Unverified
  <2>5. \A u \in Task \ {t} : Progress(u)' = Progress(u)
    BY <2>1, <2>2
  <2> QED
    BY <2>3, <2>4, <2>5
<1>5. ASSUME NEW status \in {"stalled", "canceled"}, End(t, status)
      PROVE  /\ Progress(t)' = Progress(t) \/ Progress(t)' \in Ahead(Progress(t))
             /\ \A u \in Task \ {t} : Progress(u)' = Progress(u)
  BY <1>1, <1>5 DEF End, Bad
<1>6. ASSUME NEW verdict \in Verdict, Verify(t, verdict)
      PROVE  /\ Progress(t)' = Progress(t) \/ Progress(t)' \in Ahead(Progress(t))
             /\ \A u \in Task \ {t} : Progress(u)' = Progress(u)
  <2>1. /\ UNCHANGED tasks /\ tasks[t].status \in Settled
        /\ receipts[t].verdict \in Unverified
        /\ receipts'[t].verdict = verdict
        /\ \A u \in Task \ {t} : receipts'[u] = receipts[u]
    BY <1>6 DEF Verify, ServerTypeOK
  <2> QED
    BY <2>1 DEF Verdict, Unverified, Settled, Live, Bad
<1>7. ASSUME NEW r \in Reason, Stall(t, r) \/ Unstall(t, r)
      PROVE  \A u \in Task : Progress(u)' = Progress(u)
  <2>1. PICK stalls : tasks' = [tasks EXCEPT ![t].stalls = stalls]
    BY <1>7 DEF Stall, Unstall
  <2>2. \A u \in Task : tasks'[u].status = tasks[u].status
    BY <1>0, <2>1 DEF TaskRecord
  <2> QED
    BY <1>7, <2>2 DEF Stall, Unstall
<1>8. CASE Replace(t)
  BY <1>8 DEF Replace
<1> QED
  BY <1>2, <1>3, <1>4, <1>5, <1>6, <1>7, <1>8 DEF TaskNext

LEMMA ServerAdvances ==
    ASSUME ServerTypeOK, ServerInv, ServerNext
    PROVE  \/ \A u \in Task : Progress(u)' = Progress(u)
           \/ \E t \in Task :
                /\ Progress(t)' \in Ahead(Progress(t))
                /\ \A u \in Task \ {t} : Progress(u)' = Progress(u)
<1>1. ASSUME NEW a \in Agent, AgentChanges(a) PROVE \A u \in Task : Progress(u)' = Progress(u)
  BY <1>1 DEF AgentChanges, Progress, Proven
<1> QED
  BY <1>1, TaskAdvances DEF ServerNext

\* The clients' tasks are their own: the step and the proof name theirs after
\* their run, and others submit neither.
Own ==
    /\ StepTask \notin Foreign
    /\ \A op \in Operation : TaskOf[op] # StepTask /\ TaskOf[op] \notin Foreign

LEMMA ForeignAdvances ==
    ASSUME ServerTypeOK, ServerInv, Server
    PROVE  \E t \in Task :
              /\ \/ Progress(t)' = Progress(t)
                 \/ Progress(t)' \in Ahead(Progress(t))
                 \/ t \in Foreign
              /\ \A u \in Task \ {t} : Progress(u)' = Progress(u)
<1>1. CASE ServerNext
  BY <1>1, ServerAdvances, StepAssumption
<1>2. ASSUME NEW t \in Foreign, Admit(t) PROVE \A u \in Task \ {t} : Progress(u)' = Progress(u)
  BY <1>2, AdmitAdvances, ForeignAssumption
<1> QED
  BY <1>1, <1>2, ForeignAssumption DEF Server

-----------------------------------------------------------------------------
(* ... the step *)

StepProgress == [i \in 1 .. 1 |-> Progress(StepTask)]

\* What a step of Execute is to its caller.
LEMMA StepActs ==
    ASSUME ServerTypeOK, StepTypeOK, StepInv, StepNext
    PROVE  /\ StepVerdict = "open" /\ UNCHANGED requireProof
           /\ \/ (Admit(StepTask) \/ UNCHANGED serverVars) /\ StepVerdict' \in {"open", "failed"}
              \/ /\ UNCHANGED serverVars /\ StepVerdict' = "passed"
                 /\ tasks[StepTask].status = "succeeded"
                 /\ \/ receipts[StepTask].verdict = "accepted"
                    \/ receipts[StepTask].verdict = "none" /\ ~requireProof
<1>0. why = "none" \/ stepPc = "done"
  BY DEF StepInv
<1> USE DEF StepVerdict, Fail, Return
<1>1. CASE StepRefuses \/ StepSubmits \/ StepSubmitFails
  BY <1>1 DEF StepRefuses, StepSubmits, StepSubmitFails
<1>2. CASE StepSnapshot
  BY <1>2 DEF StepSnapshot
<1>3. CASE StepNotFound \/ StepReadFails \/ StepPolls \/ StepTimesOut
  BY <1>3 DEF StepNotFound, StepReadFails, StepPolls, StepTimesOut
<1>4. CASE StepProof
  <2>1. tasks[StepTask].status = "succeeded" /\ stepPc = "proof" /\ UNCHANGED serverVars
    BY <1>4 DEF StepInv, StepProof
  <2>2. CASE \E out : receipts[StepTask].verdict = "accepted" /\ Return(out, "passed")
    BY <2>1, <2>2
  <2>3. CASE \E out : Return(out, "proof")
    BY <2>1, <2>3
  <2>4. CASE receipts[StepTask].verdict = "none" /\ ~requireProof /\ Return(Submitted, "passed")
    BY <2>1, <2>4
  <2>5. CASE stepPc' = "poll" /\ UNCHANGED <<requireProof, stepLate, seen, output, why>>
    BY <2>1, <2>5
  <2> QED
    BY <1>4, <2>2, <2>3, <2>4, <2>5 DEF StepProof
<1> QED
  BY <1>1, <1>2, <1>3, <1>4 DEF StepNext

LEMMA StepKeepsPromise ==
    ASSUME Own, ClientsInv, [Next]_vars
    PROVE  [StepPromise!Next]_(StepPromise!vars)
<1> DEFINE now == Progress(StepTask)
           Goal == [StepPromise!Next]_(StepPromise!vars)
<1> USE StepAssumption
<1>0. ServerTypeOK /\ ServerInv /\ StepTypeOK /\ StepInv /\ RunTypeOK
  BY DEF ClientsInv, TypeOK
<1>1. ASSUME UNCHANGED requireProof, now' = now, StepVerdict' = StepVerdict PROVE Goal
  BY <1>1 DEF StepPromise!vars
<1>2. ASSUME UNCHANGED <<requireProof, stepPc, why>>,
             NEW t \in Task, t = StepTask => now' = now \/ now' \in Ahead(now),
             \A u \in Task \ {t} : Progress(u)' = Progress(u)
      PROVE  Goal
  <2>1. StepVerdict' = StepVerdict
    BY <1>2 DEF StepVerdict
  <2>2. CASE now' = now
    BY <1>1, <1>2, <2>1, <2>2
  <2>3. CASE now' \in Ahead(now)
    <3>1. StepPromise!Advance(1)
      <4> HIDE DEF now
      <4> QED
        BY <1>2, <2>1, <2>3 DEF StepPromise!Advance, Ahead, now
    <3> QED
      BY <3>1 DEF StepPromise!Next, StepPromise!Needed
  <2> QED
    BY <1>2, <2>2, <2>3
<1>3. CASE Server
  <2>1. UNCHANGED <<requireProof, stepPc, why>>
    BY <1>3 DEF Server, stepVars
  <2>2. StepTask \notin Foreign
    BY DEF Own
  <2> QED
    BY <1>0, <1>2, <1>3, <2>1, <2>2, ForeignAdvances
<1>4. CASE Step
  <2>0. /\ StepVerdict = "open" /\ UNCHANGED requireProof
        /\ \/ (Admit(StepTask) \/ UNCHANGED serverVars) /\ StepVerdict' \in {"open", "failed"}
           \/ /\ UNCHANGED serverVars /\ StepVerdict' = "passed"
              /\ tasks[StepTask].status = "succeeded"
              /\ \/ receipts[StepTask].verdict = "accepted"
                 \/ receipts[StepTask].verdict = "none" /\ ~requireProof
    BY <1>0, <1>4, StepActs DEF Step
  <2>1. CASE Admit(StepTask) /\ StepVerdict' \in {"open", "failed"}
    <3>1. now = "absent" /\ now' = "open"
      BY <1>0, <2>1, AdmitAdvances
    <3>2. StepPromise!Submit(1)
      <4> HIDE DEF now
      <4> QED
        BY <2>0, <2>1, <3>1 DEF StepPromise!Submit, StepPromise!Needed, now
    <3> QED
      BY <3>2 DEF StepPromise!Next, StepPromise!Needed
  <2>2. ASSUME UNCHANGED serverVars PROVE now' = now
    BY <2>2 DEF serverVars, Progress, Proven
  <2>3. CASE UNCHANGED serverVars /\ StepVerdict' = "open"
    BY <1>1, <2>0, <2>2, <2>3
  <2>4. CASE UNCHANGED serverVars /\ StepVerdict' = "failed"
    <3>1. StepPromise!Fail
      BY <2>0, <2>2, <2>4 DEF StepPromise!Fail
    <3> QED
      BY <3>1 DEF StepPromise!Next
  <2>5. CASE /\ UNCHANGED serverVars /\ StepVerdict' = "passed"
             /\ tasks[StepTask].status = "succeeded"
             /\ \/ receipts[StepTask].verdict = "accepted"
                \/ receipts[StepTask].verdict = "none" /\ ~requireProof
    <3>1. now = Proven(receipts[StepTask].verdict)
      BY <2>5, ProgressIs
    <3>2. now = "proven" \/ (now = "succeeded" /\ ~requireProof)
      BY <2>5, <3>1, ProvenIs
    <3>3. requireProof \in BOOLEAN
      BY <1>0 DEF StepTypeOK
    <3>4. StepPromise!Pass
      <4> HIDE DEF now
      <4> QED
        BY <2>0, <2>2, <2>5, <3>2, <3>3 DEF StepPromise!Pass, StepPromise!Needed, StepPromise!Enough, now
    <3> QED
      BY <3>4 DEF StepPromise!Next
  <2> QED
    BY <2>0, <2>1, <2>3, <2>4, <2>5
<1>5. CASE Run
  <2>1. UNCHANGED <<requireProof, stepPc, why>>
    BY <1>5 DEF Run, stepVars
  <2>2. task \in Task /\ task # StepTask
    BY <1>0, TaskIsTask DEF Own, task
  <2>3. CASE Admit(task)
    BY <1>0, <1>2, <2>1, <2>2, <2>3, AdmitAdvances
  <2>4. CASE UNCHANGED serverVars
    <3>1. \A u \in Task : Progress(u)' = Progress(u)
      BY <2>4 DEF serverVars, Progress, Proven
    <3> QED
      BY <1>2, <2>1, <3>1
  <2> QED
    BY <1>5, <2>3, <2>4
    DEF Run, RunStep, RunRefuses, RunStarts, ReadFails, ListAgents, ListLeases, ListTasks, Poll,
        SubmitTask, SubmitFails, Snapshot, FindProof, GiveUpEvidence, EvidenceRetried,
        EvidenceProof, EvidenceList, EvidenceBody, ListArtifacts, ArtifactRefused, Download
<1>6. CASE StepClock \/ RunClock \/ UNCHANGED vars
  <2>1. UNCHANGED <<requireProof, stepPc, why, serverVars>>
    BY <1>6 DEF StepClock, RunClock, WaitTimeout, Timeout, vars, stepVars
  <2>2. \A u \in Task : Progress(u)' = Progress(u)
    BY <2>1 DEF serverVars, Progress, Proven
  <2> QED
    BY <1>2, <2>1, <2>2
<1> QED
  BY <1>3, <1>4, <1>5, <1>6 DEF Next

-----------------------------------------------------------------------------
(* ... and the staging proof *)

RunActed ==
    /\ RunVerdict = "open"
    /\ \/ (Admit(task) \/ UNCHANGED serverVars) /\ RunVerdict' \in {"open", "failed"}
       \/ UNCHANGED serverVars /\ RunVerdict' = "passed" /\ outcome' = "summary"

\* What a step of run is to its caller.
LEMMA RunActs ==
    ASSUME RunTypeOK, RunInv, RunStep
    PROVE  RunActed
<1>0. pc # "done" => outcome = "none"
  BY DEF RunInv, Decided
<1>1. ASSUME pc # "done", UNCHANGED serverVars, pc' # "done" PROVE RunActed
  BY <1>1 DEF RunActed, RunVerdict
<1>2. ASSUME pc # "done", Admit(task) \/ UNCHANGED serverVars,
             NEW reason, NEW shown, Stop(reason, shown), reason # "summary"
      PROVE  RunActed
  BY <1>2 DEF RunActed, RunVerdict, Stop
<1>3. CASE RunRefuses \/ ReadFails \/ ArtifactRefused
  BY <1>2, <1>3 DEF RunRefuses, ReadFails, ArtifactRefused, Request
<1>4. CASE RunStarts \/ ListAgents \/ ListLeases \/ ListTasks \/ ListArtifacts
  BY <1>1, <1>4 DEF RunStarts, ListAgents, ListLeases, ListTasks, ListArtifacts, Continue
<1>5. CASE SubmitTask
  BY <1>5 DEF SubmitTask, Fresh, RunActed, RunVerdict
<1>6. CASE SubmitFails
  BY <1>2, <1>6 DEF SubmitFails
<1>7. CASE Poll("pollCapacity", "agents") \/ Poll("pollProof", "snapshot")
  BY <1>1, <1>2, <1>7 DEF Poll, Continue
<1>8. CASE Snapshot
  BY <1>1, <1>2, <1>8 DEF Snapshot, Explain, Continue
<1>9. CASE FindProof
  BY <1>1, <1>2, <1>9 DEF FindProof, Explain, Continue, Fresh
<1>10. base # "summary"
  BY DEF RunTypeOK
<1>11. CASE GiveUpEvidence \/ EvidenceBody
  BY <1>2, <1>10, <1>11 DEF GiveUpEvidence, EvidenceBody
<1>12. CASE EvidenceRetried \/ EvidenceProof \/ EvidenceList
  BY <1>1, <1>12 DEF EvidenceRetried, EvidenceProof, EvidenceList, Explain, Continue
<1>13. CASE Download
  BY <1>0, <1>13 DEF Download, RunActed, RunVerdict
<1> QED
  BY <1>3, <1>4, <1>5, <1>6, <1>7, <1>8, <1>9, <1>11, <1>12, <1>13 DEF RunStep

Place(op) == IF op = "capture_product" THEN 1 ELSE 2

RunProgress == [i \in 1 .. Operations |-> Progress(TaskOf[Ordered[i]])]

LEMMA Places ==
    /\ 1 \in 1 .. Operations /\ 1 .. Operations \subseteq {1, 2}
    /\ 2 \in 1 .. Operations <=> Diagnostic
    /\ Ordered[1] = "capture_product" /\ Ordered[2] = "browser_diagnostic"
    /\ \A i \in 1 .. Operations :
          Ordered[i] \in Operation /\ TaskOf[Ordered[i]] \in Task /\ Place(Ordered[i]) = i
    /\ \A i, j \in 1 .. Operations : TaskOf[Ordered[i]] = TaskOf[Ordered[j]] => i = j
<1>1. Operations = IF Diagnostic THEN 2 ELSE 1
  BY DEF Operations
<1>2. Ordered[1] = "capture_product" /\ Ordered[2] = "browser_diagnostic"
  BY DEF Ordered
<1>3. 1 \in 1 .. Operations /\ 1 .. Operations \subseteq {1, 2} /\ (2 \in 1 .. Operations <=> Diagnostic)
  BY <1>1
<1> QED
  BY <1>2, <1>3, ProofAssumption DEF Place, Operation

\* The server goes on with one task of the proof's, or with none of them.
LEMMA RunProgresses ==
    ASSUME NEW t \in Task, \A u \in Task \ {t} : Progress(u)' = Progress(u)
    PROVE  \/ RunProgress' = RunProgress
           \/ \E i \in 1 .. Operations :
                 /\ t = TaskOf[Ordered[i]]
                 /\ RunProgress' = [RunProgress EXCEPT ![i] = Progress(t)']
<1>1. CASE \E i \in 1 .. Operations : t = TaskOf[Ordered[i]]
  <2>1. PICK i \in 1 .. Operations : t = TaskOf[Ordered[i]]
    BY <1>1
  <2>2. \A j \in 1 .. Operations : j # i => Progress(TaskOf[Ordered[j]])' = Progress(TaskOf[Ordered[j]])
    BY <2>1, Places
  <2>3. RunProgress' = [RunProgress EXCEPT ![i] = Progress(t)']
    BY <2>1, <2>2 DEF RunProgress
  <2> QED
    BY <2>1, <2>3
<1>2. CASE \A i \in 1 .. Operations : t # TaskOf[Ordered[i]]
  <2>1. \A j \in 1 .. Operations : Progress(TaskOf[Ordered[j]])' = Progress(TaskOf[Ordered[j]])
    BY <1>2, Places
  <2> QED
    BY <2>1 DEF RunProgress
<1> QED
  BY <1>1, <1>2

LEMMA RunKeepsPromise ==
    ASSUME Own, ClientsInv, [Next]_vars
    PROVE  [RunPromise!Next]_(RunPromise!vars)
<1> DEFINE Goal == [RunPromise!Next]_(RunPromise!vars)
<1> USE DEF RunPromise!Needed
<1>0. ServerTypeOK /\ ServerInv /\ StepTypeOK /\ RunTypeOK /\ RunInv
  BY DEF ClientsInv, TypeOK
<1>1. ASSUME RunProgress' = RunProgress, RunVerdict' = RunVerdict PROVE Goal
  BY <1>1 DEF RunPromise!vars, RunProgress
<1>2. ASSUME UNCHANGED <<pc, outcome>>, NEW t \in Task,
             \/ \A i \in 1 .. Operations : t # TaskOf[Ordered[i]]
             \/ Progress(t)' = Progress(t)
             \/ Progress(t)' \in Ahead(Progress(t)),
             \A u \in Task \ {t} : Progress(u)' = Progress(u)
      PROVE  Goal
  <2>1. RunVerdict' = RunVerdict
    BY <1>2 DEF RunVerdict
  <2>2. CASE RunProgress' = RunProgress
    BY <1>1, <2>1, <2>2
  <2>3. ASSUME NEW i \in 1 .. Operations, t = TaskOf[Ordered[i]],
               RunProgress' = [RunProgress EXCEPT ![i] = Progress(t)']
        PROVE  Goal
    <3>1. RunProgress[i] = Progress(t)
      BY <2>3 DEF RunProgress
    <3>2. CASE Progress(t)' = Progress(t)
      <4>1. RunProgress' = RunProgress
        BY <2>3, <3>1, <3>2 DEF RunProgress
      <4> QED
        BY <1>1, <2>1, <4>1
    <3>3. CASE Progress(t)' \in Ahead(Progress(t))
      <4>1. Progress(t)' \in RunPromise!After(RunProgress[i])
        BY <3>1, <3>3 DEF Ahead, StepPromise!After, RunPromise!After
      <4>2. RunPromise!Advance(i)
        BY <2>1, <2>3, <4>1 DEF RunPromise!Advance, RunProgress
      <4> QED
        BY <4>2 DEF RunPromise!Next
    <3> QED
      BY <1>2, <2>3, <3>2, <3>3
  <2> QED
    BY <1>2, <2>2, <2>3, RunProgresses
<1>3. CASE Server
  <2>1. UNCHANGED <<pc, outcome>>
    BY <1>3 DEF Server, runVars, endVars
  <2>2. \A i \in 1 .. Operations : TaskOf[Ordered[i]] \notin Foreign
    BY Places DEF Own
  <2> QED
    BY <1>0, <1>2, <1>3, <2>1, <2>2, ForeignAdvances
<1>4. CASE Step
  <2>1. UNCHANGED <<pc, outcome>>
    BY <1>4 DEF Step, runVars, endVars
  <2>2. \A i \in 1 .. Operations : TaskOf[Ordered[i]] # StepTask
    BY Places DEF Own
  <2>3. CASE Admit(StepTask)
    BY <1>0, <1>2, <2>1, <2>2, <2>3, AdmitAdvances, StepAssumption
  <2>4. CASE UNCHANGED serverVars
    <3>1. \A u \in Task : Progress(u)' = Progress(u)
      BY <2>4 DEF serverVars, Progress, Proven
    <3> QED
      BY <1>2, <2>1, <3>1, StepAssumption
  <2> QED
    BY <1>0, <1>4, <2>3, <2>4, StepActs DEF Step, ClientsInv
<1>5. CASE Run
  <2>0. /\ RunVerdict = "open"
        /\ \/ (Admit(task) \/ UNCHANGED serverVars) /\ RunVerdict' \in {"open", "failed"}
           \/ UNCHANGED serverVars /\ RunVerdict' = "passed" /\ outcome' = "summary"
    BY <1>0, <1>5, RunActs DEF Run, RunActed
  <2>1. CASE Admit(task) /\ RunVerdict' \in {"open", "failed"}
    <3>1. task \in Task /\ operation \in Operation
      BY <1>0, TaskIsTask
    <3>2. operation = "browser_diagnostic" => Diagnostic /\ Complete("capture_product")
      BY <1>0 DEF RunInv, Earlier
    <3>3. PICK i \in 1 .. Operations, t \in Task :
             /\ Ordered[i] = operation /\ i = Place(operation)
             /\ TaskOf[Ordered[i]] = t /\ t = task
      BY <3>1, <3>2, Places DEF Place, Operation, task
    <3>4. /\ Progress(t) = "absent" /\ Progress(t)' = "open"
          /\ \A u \in Task \ {t} : Progress(u)' = Progress(u)
      BY <1>0, <2>1, <3>3, AdmitAdvances
    <3>5. RunProgress[i] = "absent"
      BY <3>3, <3>4 DEF RunProgress
    <3>6. RunProgress' = [RunProgress EXCEPT ![i] = "open"]
      <4>1. \A j \in 1 .. Operations :
              j # i => Progress(TaskOf[Ordered[j]])' = Progress(TaskOf[Ordered[j]])
        BY <3>3, <3>4, Places
      <4>2. Progress(TaskOf[Ordered[i]])' = "open"
        BY <3>3, <3>4 DEF RunProgress
      <4> QED
        BY <4>1, <4>2 DEF RunProgress
    <3>7. \A j \in 1 .. Operations : j < i => RunProgress[j] = "proven"
      <4> SUFFICES ASSUME NEW j \in 1 .. Operations, j < i PROVE RunProgress[j] = "proven"
        OBVIOUS
      <4>1. j = 1 /\ operation = "browser_diagnostic"
        BY <3>1, <3>3, Places DEF Place, Operation
      <4>2. Complete("capture_product") /\ TaskOf["capture_product"] \in Task
        BY <3>2, <4>1, ProofAssumption DEF Operation
      <4>3. Progress(TaskOf["capture_product"]) = "proven"
        BY <4>2, ProgressIs, ProvenIs DEF Complete, Proves
      <4> QED
        BY <4>1, <4>3, Places DEF RunProgress
    <3>8. RunPromise!Submit(i)
      BY <2>0, <2>1, <3>3, <3>5, <3>6, <3>7 DEF RunPromise!Submit, RunProgress
    <3> QED
      BY <3>3, <3>8 DEF RunPromise!Next
  <2>2. ASSUME UNCHANGED serverVars PROVE RunProgress' = RunProgress
    BY <2>2 DEF serverVars, RunProgress, Progress, Proven
  <2>3. CASE UNCHANGED serverVars /\ RunVerdict' = "open"
    BY <1>1, <2>0, <2>2, <2>3
  <2>4. CASE UNCHANGED serverVars /\ RunVerdict' = "failed"
    <3>1. RunPromise!Fail
      BY <2>0, <2>2, <2>4 DEF RunPromise!Fail, RunProgress
    <3> QED
      BY <3>1 DEF RunPromise!Next
  <2>5. CASE UNCHANGED serverVars /\ RunVerdict' = "passed" /\ outcome' = "summary"
    <3>1. ClientsInv'
      BY ClientsNext
    <3>2. SummaryIsCoherent'
      BY <3>1 DEF ClientsInv, RunInv
    <3>3. UNCHANGED <<tasks, receipts>>
      BY <2>5 DEF serverVars
    <3>4. ASSUME NEW i \in 1 .. Operations PROVE RunProgress[i] = "proven"
      <4> DEFINE op == Ordered[i]
      <4>1. op \in Operation /\ (op = "capture_product" \/ Diagnostic) /\ TaskOf[op] \in Task
        BY Places DEF Operation
      <4>2. tasks[TaskOf[op]].status = "succeeded" /\ receipts[TaskOf[op]].verdict = "accepted"
        BY <2>5, <3>2, <3>3, <4>1 DEF SummaryIsCoherent, Proves
      <4>3. Progress(TaskOf[op]) = "proven"
        BY <4>1, <4>2, ProgressIs, ProvenIs
      <4> QED
        BY <4>3 DEF RunProgress
    <3>5. RunPromise!Pass
      BY <2>0, <2>2, <2>5, <3>4 DEF RunPromise!Pass, RunPromise!Enough, RunProgress
    <3> QED
      BY <3>5 DEF RunPromise!Next
  <2> QED
    BY <2>0, <2>1, <2>3, <2>4, <2>5
<1>6. CASE StepClock \/ RunClock \/ UNCHANGED vars
  <2>1. UNCHANGED <<pc, outcome, serverVars>>
    BY <1>6 DEF StepClock, RunClock, WaitTimeout, Timeout, vars, runVars, endVars
  <2>2. RunProgress' = RunProgress
    BY <2>1 DEF serverVars, RunProgress, Progress, Proven
  <2>3. RunVerdict' = RunVerdict
    BY <2>1 DEF RunVerdict
  <2> QED
    BY <1>1, <2>2, <2>3
<1> QED
  BY <1>3, <1>4, <1>5, <1>6 DEF Next

LEMMA PromisesStart == Init => StepPromise!Init /\ RunPromise!Init
<1> SUFFICES ASSUME Init PROVE StepPromise!Init /\ RunPromise!Init
  OBVIOUS
<1>1. \A t \in Task : Progress(t) = "absent"
  BY ProgressIs DEF Init, ServerInit
<1>2. StepPromise!Init
  BY <1>1, StepAssumption DEF StepPromise!Init, StepPromise!Needed, StepVerdict, Init, StepInit
<1>3. RunPromise!Init
  <2>1. RunVerdict = "open"
    BY DEF RunVerdict, Init, RunInit
  <2> QED
    BY <1>1, <2>1, Places DEF RunPromise!Init, RunPromise!Needed
<1> QED
  BY <1>2, <1>3

\* The step and the staging proof keep what a client promises, whatever the
\* server, its agents and the tasks of others do between two of their requests:
\* nothing is asked for twice, nor the diagnostic before the product is proven,
\* and success is reported only while all it stands for is there.
THEOREM PromisesAreKept ==
    ASSUME Own
    PROVE  Spec => PromisesKept
<1>1. ClientsInv /\ [Next]_vars =>
          [StepPromise!Next]_(StepPromise!vars) /\ [RunPromise!Next]_(RunPromise!vars)
  BY StepKeepsPromise, RunKeepsPromise
<1> QED
  BY <1>1, PromisesStart, ClientsAreInvariant, PTL
  DEF Spec, PromisesKept, StepPromise!Spec, RunPromise!Spec

=============================================================================
