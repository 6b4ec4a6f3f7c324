--------------------------- MODULE ClientPromise ---------------------------
(***************************************************************************)
(* What a client of the compute server promises to its caller.  It asks    *)
(* for the tasks it needs one after the other, each at most once and only  *)
(* when those before it are proven; it reports success only in a moment in *)
(* which the server has what the success stands for; and whatever it       *)
(* reports, it asks for nothing more.  The answer to the last request may  *)
(* be lost: then the client fails and the task it asked for goes on.       *)
(***************************************************************************)
EXTENDS Naturals

CONSTANT Last       \* the tasks are 1 .. Last

VARIABLES
    required,       \* success needs accepted proofs
    progress,       \* how far the server is with each task
    verdict         \* what the client has reported

vars == <<required, progress, verdict>>

Needed == 1 .. Last

Init ==
    /\ required \in BOOLEAN
    /\ progress = [i \in Needed |-> "absent"]
    /\ verdict = "open"

Submit(i) ==
    /\ verdict = "open"
    /\ progress[i] = "absent"
    /\ \A j \in Needed : j < i => progress[j] = "proven"
    /\ progress' = [progress EXCEPT ![i] = "open"]
    /\ verdict' \in {"open", "failed"}
    /\ UNCHANGED required

\* The server's own: what is after a task's state, if anything.
After(state) ==
    CASE state = "open" -> {"ended", "succeeded"}
      [] state = "succeeded" -> {"proven", "rejected"}
      [] OTHER -> {}

Advance(i) ==
    /\ \E state \in After(progress[i]) : progress' = [progress EXCEPT ![i] = state]
    /\ UNCHANGED <<required, verdict>>

Enough == IF required THEN {"proven"} ELSE {"succeeded", "proven"}

Pass ==
    /\ verdict = "open"
    /\ \A i \in Needed : progress[i] \in Enough
    /\ verdict' = "passed"
    /\ UNCHANGED <<required, progress>>

Fail ==
    /\ verdict = "open"
    /\ verdict' = "failed"
    /\ UNCHANGED <<required, progress>>

Next == (\E i \in Needed : Submit(i) \/ Advance(i)) \/ Pass \/ Fail

Spec == Init /\ [][Next]_vars

=============================================================================
