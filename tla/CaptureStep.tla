----------------------------- MODULE CaptureStep -----------------------------
(***************************************************************************)
(* step.product_capture: Execute submits one task to the compute server    *)
(* and waitForProductCapture polls for its end and its proof.  A poll is   *)
(* two requests, so it combines the task of one moment with the proof of a *)
(* later one.  The result is the output map; here it maps each of its keys *)
(* to who wrote the value, the step or the worker's result preview.        *)
(***************************************************************************)
EXTENDS ComputeServer

CONSTANT StepTask

ASSUME StepAssumption == StepTask \in Task

VARIABLES
    requireProof,   \* the step's require_proof: TRUE unless it says otherwise
    stepPc,         \* the next request, or "poll", "done"; "off": not executed
    stepLate,       \* waitCtx is done
    seen,           \* the task and stalls of the last TaskSnapshot
    output,         \* the output map
    why             \* how Execute ended

stepVars == <<requireProof, stepPc, stepLate, seen, output, why>>

Empty == [k \in {} |-> "step"]

StepInit ==
    /\ requireProof \in BOOLEAN
    /\ stepPc \in {"off", "submit"} /\ stepLate = FALSE
    /\ seen = [status |-> "absent", stalls |-> {}]
    /\ output = Empty /\ why = "none"

-----------------------------------------------------------------------------
(* The output map *)

\* The second map's keys overwrite the first's.
Put(f, g) == [k \in DOMAIN f \cup DOMAIN g |-> IF k \in DOMAIN g THEN g[k] ELSE f[k]]
ByStep(keys) == [k \in keys |-> "step"]

\* A worker may name any key in its preview: one the step uses, one of the
\* flattened fields, or another.
PreviewKey == {"status", "error", "provider_image_ref", "proof_status", "title"}
flattenedPreviewField == {"title"}

taskOutput == ByStep({"task_id", "org_id", "pool_id", "status"})
providerProvenance ==
    ByStep({"provider_image_ref", "provider_component_ref", "provider_component_digest"})
Submitted == Put(taskOutput, providerProvenance)

\* Mutant of addProofOutput: every field of the preview is promoted.
PromoteAll(out, preview) ==
    Put(out, Put([k \in preview |-> "worker"],
                 ByStep({"proof_id", "proof_status", "result_preview"})))

addProofOutput(out, preview) ==
    LET proved == Put(out, ByStep({"proof_id", "proof_status", "worker_id"}))
        flattened == (preview \cap flattenedPreviewField) \ DOMAIN proved
    IN IF preview = {} THEN proved
       ELSE Put(proved, [k \in {"result_preview"} \cup flattened |-> "worker"])

addStallOutput(out, stalls) ==
    IF stalls = {} THEN out ELSE Put(out, ByStep({"stall_reason"}))

WithError(out) == Put(out, ByStep({"error"}))
StopPipeline == "error" \in DOMAIN output

-----------------------------------------------------------------------------
(* Execute and waitForProductCapture *)

Return(out, reason) ==
    /\ stepPc' = "done" /\ output' = out /\ why' = reason
    /\ UNCHANGED <<requireProof, stepLate, seen>>

\* errorResult: no task ID, no provenance.
Fail(reason) == Return(WithError(Empty), reason)

\* No URL, no client, or a workload that is not valid: nothing is submitted.
StepRefuses ==
    /\ stepPc = "submit"
    /\ Fail("config")
    /\ UNCHANGED serverVars

StepSubmits ==
    /\ stepPc = "submit"
    /\ Admit(StepTask)
    /\ stepPc' = "snapshot"
    /\ UNCHANGED <<requireProof, stepLate, seen, output, why>>

\* The answer is an error, or is lost after the server admitted the task.
StepSubmitFails ==
    /\ stepPc = "submit"
    /\ Fail("submit")
    /\ Admit(StepTask) \/ UNCHANGED serverVars

\* Mutant of StepReadFails: a failed request is repeated at the next poll.
StepReadRetried ==
    /\ stepPc \in {"snapshot", "proof"}
    /\ stepPc' = "poll"
    /\ UNCHANGED <<requireProof, stepLate, seen, output, why, serverVars>>

\* Any failed request ends the step; a request of a done context fails.
StepReadFails ==
    /\ stepPc \in {"snapshot", "proof"}
    /\ Fail("read")
    /\ UNCHANGED serverVars

StepNotFound ==
    /\ stepPc = "snapshot" /\ ~stepLate
    /\ Fail("notfound")
    /\ UNCHANGED serverVars

actionableStalls(stalls) == IF requireProof THEN stalls ELSE stalls \ {"proof_missing"}

StepSnapshot ==
    /\ stepPc = "snapshot" /\ ~stepLate
    /\ LET task == tasks[StepTask]
           stalls == actionableStalls(task.stalls)
       IN /\ seen' = [status |-> task.status, stalls |-> task.stalls]
          /\ \/ /\ task.status \in Bad \/ stalls # {}
                /\ stepPc' = "done"
                /\ why' = IF stalls # {} THEN "stall" ELSE "task"
                /\ output' = WithError(addStallOutput(Submitted, stalls))
             \/ /\ task.status \notin Bad /\ stalls = {}
                /\ stepPc' = IF task.status = "succeeded" THEN "proof" ELSE "poll"
                /\ UNCHANGED <<output, why>>
    /\ UNCHANGED <<requireProof, stepLate, serverVars>>

\* Mutant of StepProof: a receipt is enough, whatever its verifier says.
AnyReceipt ==
    /\ stepPc = "proof" /\ ~stepLate
    /\ \E preview \in SUBSET PreviewKey :
          IF receipts[StepTask].verdict # "none"
             THEN Return(addProofOutput(Submitted, preview), "passed")
             ELSE stepPc' = "poll" /\ UNCHANGED <<requireProof, stepLate, seen, output, why>>
    /\ UNCHANGED serverVars

StepProof ==
    /\ stepPc = "proof" /\ ~stepLate
    /\ LET verdict == receipts[StepTask].verdict
       IN \/ \E preview \in SUBSET PreviewKey :
                LET out == addProofOutput(Submitted, preview)
                IN \/ verdict = "accepted" /\ Return(out, "passed")
                   \/ verdict \notin {"none", "accepted"} /\ Return(WithError(out), "proof")
          \/ /\ verdict = "none" /\ ~requireProof
             /\ Return(Submitted, "passed")
          \/ /\ verdict = "none" /\ requireProof
             /\ stepPc' = "poll" /\ UNCHANGED <<requireProof, stepLate, seen, output, why>>
    /\ UNCHANGED serverVars

\* The select: with both ready either may be chosen.
StepPolls ==
    /\ stepPc = "poll"
    /\ stepPc' = "snapshot"
    /\ UNCHANGED <<requireProof, stepLate, seen, output, why, serverVars>>

StepTimesOut ==
    /\ stepPc = "poll" /\ stepLate
    /\ Fail("timeout")
    /\ UNCHANGED serverVars

WaitTimeout ==
    /\ stepPc \in {"snapshot", "proof", "poll"} /\ ~stepLate
    /\ stepLate' = TRUE
    /\ UNCHANGED <<requireProof, stepPc, seen, output, why, serverVars>>

StepNext ==
    \/ StepRefuses \/ StepSubmits \/ StepSubmitFails
    \/ StepSnapshot \/ StepNotFound \/ StepProof \/ StepReadFails
    \/ StepPolls \/ StepTimesOut

-----------------------------------------------------------------------------
(* Properties *)

StepTypeOK ==
    /\ requireProof \in BOOLEAN /\ stepLate \in BOOLEAN
    /\ stepPc \in {"off", "submit", "snapshot", "proof", "poll", "done"}
    /\ seen \in [status : {"absent"} \cup Live \cup Terminal, stalls : SUBSET Reason]
    /\ \A k \in DOMAIN output : output[k] \in {"step", "worker"}
    /\ why \in {"none", "config", "submit", "read", "notfound", "task", "stall",
                "proof", "timeout", "passed"}

\* The pipeline goes on only with a task that has succeeded, and with a proof
\* that is accepted wherever one is required or handed on, although task and
\* proof are read at two moments.
PassedIsProven ==
    why = "passed" =>
        /\ tasks[StepTask].status = "succeeded"
        /\ requireProof \/ "proof_id" \in DOMAIN output
              => receipts[StepTask].verdict = "accepted"

\* A worker's preview decides neither the step's own fields nor whether the
\* pipeline stops, whatever keys it has.
PreviewOwnsNothing ==
    /\ \A k \in DOMAIN output \ {"result_preview", "title"} : output[k] = "step"
    /\ stepPc = "done" => (StopPipeline <=> why # "passed")

\* Where no proof is required, the server's complaint that it is missing does
\* not fail a step: only another stall does.
MissingProofTolerated == ~requireProof /\ why = "stall" => "capacity" \in seen.stalls

\* Every execution ends, although polls, reads and the deadline race.
StepEnds == stepPc = "submit" ~> stepPc = "done"

=============================================================================
