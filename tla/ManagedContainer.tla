--------------------------- MODULE ManagedContainer ---------------------------
(***************************************************************************)
(* Containers that the conformance runner starts with "docker run": the    *)
(* command, which the runner waits for, the container, which the daemon    *)
(* keeps, and the goroutine that runs it and cleans up after it            *)
(* (runManagedContainer, runLifecycleScenario, cleanupLifecycleContainer). *)
(*                                                                         *)
(* Docker is external: a command that is stopped, removed or inspected by  *)
(* name may act on nothing, because "docker run" has not created the       *)
(* container yet; and "docker run" may end while its container goes on.    *)
(***************************************************************************)
EXTENDS Naturals, FiniteSets

CONSTANTS
    Container,  \* the names given to docker run, each used once
    Kept,       \* containers run without --rm
    Probing,    \* containers whose output is what counts
    Faulty      \* those docker may fail, or be too slow, to act on

VARIABLES
    cli,        \* the docker run command: before and after it has created its
                \* container, ended ("zero", "nonzero"), and waited for
    box,        \* the container
    code,       \* how its program ended, while anything still tells
    at,         \* the next step of the goroutine that runs the container
    errs,       \* the errors it has joined so far
    ctx         \* the error of the context of a container, or of the run

boxVars == <<cli, box, code>>
jobVars == <<at, errs>>
containerVars == <<cli, box, code, at, errs, ctx>>

Run == "run"
Cause == {"live", "canceled", "deadline"}
Ended == {"zero", "nonzero"}
Error == {"program", "canceled", "deadline", "cleanup", "crash",
          "start", "refused", "unhealthy"}

Exists(c) == box[c] # "none"
DockerFails(c) == c \in Faulty

Step == {"idle", "launch", "wait", "ready", "delay", "stop", "term", "slay",
         "reap", "force", "forced", "remove", "inspect", "done",
         "boundary", "joining", "observe", "persist", "kill", "crashed",
         "exitcode", "discard", "vanished",
         "fetch", "origin", "up", "halt", "halting"}

ContainerTypeOK ==
    /\ cli \in [Container -> {"idle", "creating", "attached", "reaped"} \cup Ended]
    /\ box \in [Container -> {"none", "running", "stopped"}]
    /\ code \in [Container -> {"none", "zero", "nonzero", "killed"}]
    /\ at \in [Container -> Step]
    /\ errs \in [Container -> SUBSET Error]
    /\ ctx \in [Container \cup {Run} -> Cause]

ContainerInit ==
    /\ cli = [c \in Container |-> "idle"]
    /\ box = [c \in Container |-> "none"]
    /\ code = [c \in Container |-> "none"]
    /\ at = [c \in Container |-> "idle"]
    /\ errs = [c \in Container |-> {}]
    /\ ctx = [c \in Container \cup {Run} |-> "live"]

-----------------------------------------------------------------------------
(* The daemon, and the docker run command *)

Become(c, state, k) ==
    /\ box' = [box EXCEPT ![c] = state]
    /\ code' = [code EXCEPT ![c] =
                   IF state = "none" /\ cli[c] # "attached" THEN "none" ELSE k]

CommandIs(c, status) == cli' = [cli EXCEPT ![c] = status]

\* The daemon creates the container of a command that is still there; the
\* program may fail to start.
Create(c) ==
    /\ cli[c] = "creating"
    /\ CommandIs(c, "attached")
    /\ \/ Become(c, "running", "none")
       \/ Become(c, "stopped", "nonzero")
    /\ UNCHANGED <<jobVars, ctx>>

ProgramEnds(c, k) ==
    /\ box[c] = "running"
    /\ Become(c, "stopped", k)
    /\ UNCHANGED <<cli, jobVars, ctx>>

\* --rm
AutoRemove(c) ==
    /\ c \notin Kept
    /\ box[c] = "stopped"
    /\ Become(c, "none", code[c])
    /\ UNCHANGED <<cli, jobVars, ctx>>

\* docker run ends with its container, fails before it has created one, or
\* loses the daemon.
CommandExits(c) ==
    /\ \/ cli[c] = "creating" /\ CommandIs(c, "nonzero")
       \/ cli[c] = "attached" /\ box[c] = "running" /\ DockerFails(c)
          /\ CommandIs(c, "nonzero")
       \/ cli[c] = "attached" /\ box[c] # "running"
          /\ CommandIs(c, IF code[c] = "zero" THEN "zero" ELSE "nonzero")
    /\ code' = [code EXCEPT ![c] = IF box[c] = "none" THEN "none" ELSE @]
    /\ UNCHANGED <<box, jobVars, ctx>>

-----------------------------------------------------------------------------
(* The goroutine of a container *)

Go(c, step, E) ==
    /\ at' = [at EXCEPT ![c] = step]
    /\ errs' = [errs EXCEPT ![c] = @ \cup E]

Reap(c) == cli[c] \in Ended /\ CommandIs(c, "reaped")

CtxError(c) == IF ctx[c] = "live" THEN {} ELSE {ctx[c]}

CancelContext(c) == ctx' = [ctx EXCEPT ![c] = IF @ = "live" THEN "canceled" ELSE @]

\* Contexts derived from the context of the run end with it.
EndRun(cause) ==
    ctx' = [c \in Container \cup {Run} |-> IF ctx[c] = "live" THEN cause ELSE ctx[c]]

\* exec.Cmd.Start, or what the launch needs before it.
Launch(c, first) ==
    /\ at[c] = "launch"
    /\ \/ CommandIs(c, "creating") /\ Go(c, first, {})
       \/ UNCHANGED cli /\ Go(c, "done", {"program"})
    /\ UNCHANGED <<box, code, ctx>>

ProgramError(c) == IF cli[c] = "zero" THEN {} ELSE {"program"}

CommandReturns(c) ==
    /\ at[c] = "wait"
    /\ Reap(c)
    /\ Go(c, "stop", ProgramError(c) \cup IF c \in Probing THEN {} ELSE CtxError(c))
    /\ UNCHANGED <<box, code, ctx>>

Canceled(c) ==
    /\ at[c] = "wait"
    /\ ctx[c] # "live"
    /\ Go(c, "stop", CtxError(c))
    /\ UNCHANGED <<boxVars, ctx>>

\* waitForContainer polls until the container is there or ten seconds are over.
BecomesReady(c) ==
    /\ at[c] = "ready"
    /\ \/ Exists(c) /\ Go(c, "delay", {})
       \/ ctx[c] # "live" /\ Go(c, "stop", CtxError(c))
       \/ Go(c, "stop", {"program"})
    /\ UNCHANGED <<boxVars, ctx>>

\* A scenario stops the provider after a delay, unless it has ended by itself.
DelayEnds(c, signal) ==
    /\ at[c] = "delay"
    /\ \/ UNCHANGED cli /\ Go(c, signal, {})
       \/ ctx[c] # "live" /\ UNCHANGED cli /\ Go(c, "stop", CtxError(c))
       \/ Reap(c) /\ Go(c, "stop", {"program"})
    /\ UNCHANGED <<box, code, ctx>>

-----------------------------------------------------------------------------
(* cleanupLifecycleContainer *)

AfterSignal(c) == IF cli[c] = "reaped" THEN "remove" ELSE "reap"

\* docker stop: TERM, and KILL after ten seconds.
StopContainer(c) ==
    /\ at[c] = "stop"
    /\ \/ /\ IF box[c] = "running"
             THEN \E k \in {"zero", "nonzero", "killed"} : Become(c, "stopped", k)
             ELSE UNCHANGED <<box, code>>
          /\ Go(c, AfterSignal(c), {})
       \/ /\ DockerFails(c)
          /\ UNCHANGED <<box, code>>
          /\ Go(c, AfterSignal(c), {"cleanup"})
    /\ UNCHANGED <<cli, ctx>>

\* docker kill: an error when the container is there and not running.
SignalContainer(c) ==
    /\ at[c] \in {"term", "slay"}
    /\ \/ /\ box[c] # "stopped"
          /\ IF at[c] = "slay" /\ box[c] = "running"
             THEN Become(c, "stopped", "killed")
             ELSE UNCHANGED <<box, code>>
          /\ Go(c, AfterSignal(c), {})
       \/ /\ box[c] = "stopped" \/ DockerFails(c)
          /\ UNCHANGED <<box, code>>
          /\ Go(c, AfterSignal(c), {"cleanup"})
    /\ UNCHANGED <<cli, ctx>>

RemoveBox(c) ==
    IF Exists(c)
    THEN Become(c, "none", IF box[c] = "running" THEN "killed" ELSE code[c])
    ELSE UNCHANGED <<box, code>>

\* Mutant of GraceEnds: the wait after the forced removal has no end.
GraceForever(c) ==
    /\ at[c] = "reap"
    /\ Go(c, "force", {})
    /\ UNCHANGED <<boxVars, ctx>>

\* Mutant of RemoveContainer: the forced removal is not followed by a wait.
RemoveUnreaped(c) ==
    /\ at[c] \in {"force", "remove"}
    /\ LET next == IF at[c] = "force" THEN "remove" ELSE "inspect"
       IN \/ RemoveBox(c) /\ Go(c, next, {})
          \/ DockerFails(c) /\ UNCHANGED <<box, code>> /\ Go(c, next, {"cleanup"})
    /\ UNCHANGED <<cli, ctx>>

\* forceContainerAndWait.  The second period ends when docker is slow, or has
\* created the container after it was told to remove it.
ReapInGrace(c) ==
    /\ at[c] \in {"reap", "forced"}
    /\ Reap(c)
    /\ Go(c, "remove", {})
    /\ UNCHANGED <<box, code, ctx>>

GraceEnds(c) ==
    /\ \/ at[c] = "reap" /\ Go(c, "force", {})
       \/ /\ at[c] = "forced"
          /\ box[c] = "running" \/ DockerFails(c)
          /\ Go(c, "remove", {"cleanup"})
    /\ UNCHANGED <<boxVars, ctx>>

\* docker rm -f
RemoveContainer(c) ==
    /\ at[c] \in {"force", "remove"}
    /\ LET next == IF at[c] = "force" THEN "forced" ELSE "inspect"
       IN \/ RemoveBox(c) /\ Go(c, next, {})
          \/ DockerFails(c) /\ UNCHANGED <<box, code>> /\ Go(c, next, {"cleanup"})
    /\ UNCHANGED <<cli, ctx>>

\* assertContainerGone
InspectGone(c) ==
    /\ at[c] = "inspect"
    /\ \/ Go(c, "done", IF Exists(c) THEN {"cleanup"} ELSE {})
       \/ DockerFails(c) /\ Go(c, "done", {"cleanup"})
    /\ UNCHANGED <<boxVars, ctx>>

CleanUp(c) ==
    \/ StopContainer(c)   \/ SignalContainer(c) \/ ReapInGrace(c)
    \/ GraceEnds(c)       \/ RemoveContainer(c) \/ InspectGone(c)

Daemon(c) == Create(c) \/ AutoRemove(c) \/ CommandExits(c)

-----------------------------------------------------------------------------

\* A container that is gone for good: nobody is left who could create it.
Gone(c) == ~Exists(c) /\ cli[c] # "creating"

\* The goroutine of a container ends without an error of its cleanup only when
\* the container is gone for good, whatever raced with the cleanup: a docker
\* run that had not created it yet, its own end, a grace period that was over.
CleanMeansGone ==
    \A c \in Container : at[c] = "done" /\ "cleanup" \notin errs[c] => Gone(c)

=============================================================================
