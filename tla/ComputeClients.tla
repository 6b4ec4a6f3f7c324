--------------------------- MODULE ComputeClients ---------------------------
(***************************************************************************)
(* The two clients of the compute server, the workflow step and the        *)
(* staging proof, and tasks of others in the same pool.                    *)
(***************************************************************************)
EXTENDS CaptureStep, StagingProof

CONSTANT Foreign    \* the tasks others submit

ASSUME ForeignAssumption == Foreign \subseteq Task

vars == <<serverVars, stepVars, runVars>>

Init == ServerInit /\ StepInit /\ RunInit

Server ==
    /\ ServerNext \/ \E t \in Foreign : Admit(t)
    /\ UNCHANGED <<stepVars, runVars>>

Step == StepNext /\ UNCHANGED runVars
Run == RunStep /\ UNCHANGED stepVars
StepClock == WaitTimeout /\ UNCHANGED runVars
RunClock == Timeout /\ UNCHANGED stepVars

Next == Server \/ Step \/ Run \/ StepClock \/ RunClock

Spec == Init /\ [][Next]_vars

\* Each client runs, and its contexts end; nothing is asked of the server, which
\* may never answer: then a request fails when its context does.
FairSpec == Spec /\ WF_vars(Step) /\ WF_vars(Run) /\ WF_vars(StepClock) /\ WF_vars(RunClock)

\* The variables keep their types.
TypeOK == ServerTypeOK /\ StepTypeOK /\ RunTypeOK

-----------------------------------------------------------------------------
(* What the clients promise *)

\* How far the server is with a task.
Proven(verdict) ==
    CASE verdict \in Unverified -> "succeeded"
      [] verdict = "accepted" -> "proven"
      [] verdict = "rejected" -> "rejected"

Progress(t) ==
    LET status == tasks[t].status
    IN CASE status = "absent" -> "absent"
         [] status \in Live -> "open"
         [] status \in Bad -> "ended"
         [] status = "succeeded" -> Proven(receipts[t].verdict)

StepVerdict ==
    IF stepPc # "done" THEN "open" ELSE IF why = "passed" THEN "passed" ELSE "failed"

StepPromise == INSTANCE ClientPromise WITH
    Last <- 1,
    required <- requireProof,
    progress <- [i \in 1 .. 1 |-> Progress(StepTask)],
    verdict <- StepVerdict

Ordered == <<"capture_product", "browser_diagnostic">>
Operations == IF Diagnostic THEN 2 ELSE 1

RunVerdict ==
    IF pc # "done" THEN "open" ELSE IF outcome = "summary" THEN "passed" ELSE "failed"

RunPromise == INSTANCE ClientPromise WITH
    Last <- Operations,
    required <- TRUE,
    progress <- [i \in 1 .. Operations |-> Progress(TaskOf[Ordered[i]])],
    verdict <- RunVerdict

\* Both clients keep the promise although they see the server only through
\* requests that are answered at different moments: the diagnostic is not asked
\* for before the product is proven, nothing is asked for twice, and success is
\* reported only while all that it stands for is there.
PromisesKept == StepPromise!Spec /\ RunPromise!Spec

=============================================================================
