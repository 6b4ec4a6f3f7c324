-------------------------- MODULE CommandTermination --------------------------
(***************************************************************************)
(* TerminateGroup of the Linux process policy, which exec.Cmd calls when   *)
(* the deadline of a capture passes: the group is Node's, or that of the   *)
(* shell that runs Xvfb and Node.  Wait reaps the leader beside it.        *)
(*                                                                         *)
(* An action is one system call or one sleep.  PIDs are not used up so     *)
(* fast that a number is reused between two calls without a sleep.         *)
(***************************************************************************)
EXTENDS ProcessGroup

CONSTANTS
    Faults      \* "procfs": an inspection may fail

VARIABLES
    call,       \* where TerminateGroup is
    blind       \* history: it ended because an inspection failed

vars == <<groupVars, call, blind>>

Sleeping == {"grace", "killed"}
Ended == {"ok", "failed"}

Init == GroupInit /\ call = "idle" /\ blind = FALSE

\* requireExitedProcessGroup: without the leader nothing may be left.
WithoutLeader == IF Exists THEN "failed" ELSE "ok"

\* exec.Cmd starts no termination once Wait has reaped and seen the leader.
Begin ==
    /\ call = "idle"
    /\ ~foreign
    /\ call' = IF leader = "reaped" THEN WithoutLeader ELSE "checked"
    /\ UNCHANGED groupVars

SendTerm ==
    /\ call = "checked"
    /\ IF Exists THEN Terminate /\ call' = "grace"
                 ELSE UNCHANGED groupVars /\ call' = "ok"

\* Mutant of Recheck: the leader's start time is not compared again.
RecheckNumber ==
    /\ call = "grace"
    /\ call' = IF Exists THEN "rechecked" ELSE "ok"
    /\ UNCHANGED groupVars

\* After the grace period the leader must be the process it was.
Recheck ==
    /\ call = "grace"
    /\ call' = IF leader # "reaped" THEN "rechecked" ELSE WithoutLeader
    /\ UNCHANGED groupVars

\* Mutant of SendKill: no SIGKILL.
SendNothing ==
    /\ call = "rechecked"
    /\ UNCHANGED groupVars
    /\ call' = IF Exists THEN "killed" ELSE "ok"

SendKill ==
    /\ call = "rechecked"
    /\ IF Exists THEN Kill /\ call' = "killed"
                 ELSE UNCHANGED groupVars /\ call' = "ok"

\* Mutant of GroupExits: the leader stands for its group.
LeaderExits ==
    /\ call = "killed"
    /\ leader # "live"
    /\ call' = "ok"
    /\ UNCHANGED groupVars

\* waitForExitedProcessGroup looks for members that are not zombies.
GroupExits ==
    /\ call = "killed"
    /\ ~AnyLive
    /\ call' = "ok"
    /\ UNCHANGED groupVars

GroupSurvives ==
    /\ call = "killed"
    /\ AnyLive
    /\ call' = "failed"
    /\ UNCHANGED groupVars

InspectionFails ==
    /\ "procfs" \in Faults
    /\ call \in {"idle", "grace", "killed"}
    /\ call' = "failed"
    /\ blind' = TRUE
    /\ UNCHANGED groupVars

TerminateGroup ==
    \/ /\ \/ Begin \/ SendTerm \/ Recheck \/ SendKill
          \/ GroupExits \/ GroupSurvives
       /\ UNCHANGED blind
    \/ InspectionFails

KernelStep ==
    /\ \/ LeaderDies \/ LeaderReaped
       \/ \E m \in Member : Fork(m) \/ MemberDies(m) \/ MemberReaped(m)
       \/ call \in {"idle"} \cup Sleeping \cup Ended /\ NumberReused
    /\ UNCHANGED <<call, blind>>

Next == TerminateGroup \/ KernelStep

Spec == Init /\ [][Next]_vars

-----------------------------------------------------------------------------
(* Properties *)

\* Every variable stays in the set of values its code can give it.
TypeOK == /\ GroupTypeOK
          /\ blind \in BOOLEAN
          /\ call \in {"idle", "checked", "rechecked"} \cup Sleeping \cup Ended

\* TerminateGroup reports success only when no process of the group runs.
SuccessMeansGone == call = "ok" => ~OwnLive

\* No signal reaches a program that got the number of a dead command group.
ForeignSpared == ~struck

\* A failure leaves no unkilled process behind a leader that is still there,
\* unless the inspection itself failed.
FailureAfterKill ==
    call = "failed" /\ ~blind /\ OwnLive /\ leader # "reaped" => doomed

=============================================================================
