----------------------------- MODULE TunnelAttempt -----------------------------
(***************************************************************************)
(* Start and Stop of the pinned cloudflared tunnel.  Each attempt is a     *)
(* process of its own: cloudflared itself where the system can run it      *)
(* ("native"), or a docker run command with its container ("docker").      *)
(* Nothing but the runner's own calls stops it.                            *)
(***************************************************************************)
EXTENDS ManagedContainer

CONSTANTS
    Transports  \* "none": the origin is given; "native"; "docker"

VARIABLE transport

\* cloudflared dies of itself, or was killed.
TunnelEnds(t) ==
    /\ cli[t] \in {"creating", "attached"}
    /\ transport = "native" \/ at[t] = "forced"
    /\ CommandIs(t, "nonzero")
    /\ code' = [code EXCEPT ![t] = IF box[t] = "none" THEN "none" ELSE @]
    /\ UNCHANGED <<box, jobVars, ctx>>

-----------------------------------------------------------------------------
(* Start *)

\* Download, version and checksum; nothing runs yet, so that the deferred Stop
\* only removes the directory.
Fetch(t) ==
    /\ at[t] = "fetch"
    /\ \/ CommandIs(t, "creating") /\ Go(t, "origin", {})
       \/ \E e \in {"start", "refused"} : UNCHANGED cli /\ Go(t, "done", {e})
       \/ ctx[t] # "live" /\ UNCHANGED cli /\ Go(t, "done", CtxError(t))
    /\ UNCHANGED <<box, code, ctx>>

\* Mutant of AwaitOrigin: no timer.
AwaitOriginForever(t) ==
    /\ at[t] = "origin"
    /\ \/ /\ IF transport = "native" THEN cli[t] = "creating" ELSE box[t] = "running"
          /\ UNCHANGED cli
          /\ Go(t, "up", {})
       \/ Reap(t) /\ Go(t, "halt", {"start"})
       \/ ctx[t] # "live" /\ UNCHANGED cli /\ Go(t, "halt", CtxError(t))
    /\ UNCHANGED <<box, code, ctx>>

\* The first of an origin in the output, the end of the process, thirty
\* seconds, the context, and an error of the scanner.  A process that prints an
\* origin and ends is as good as one that ends when it is up.
AwaitOrigin(t) ==
    /\ at[t] = "origin"
    /\ \/ /\ IF transport = "native" THEN cli[t] = "creating" ELSE box[t] = "running"
          /\ UNCHANGED cli
          /\ Go(t, "up", {})
       \/ Reap(t) /\ Go(t, "halt", {"start"})
       \/ \E e \in {"start", "refused"} : UNCHANGED cli /\ Go(t, "halt", {e})
       \/ ctx[t] # "live" /\ UNCHANGED cli /\ Go(t, "halt", CtxError(t))
    /\ UNCHANGED <<box, code, ctx>>

\* Transient errors, unless a context of the start or of its Stop has ended.
Retryable(t) == "start" \in errs[t] /\ errs[t] \cap {"canceled", "deadline"} = {}

-----------------------------------------------------------------------------
(* Stop *)

\* docker stop, or SIGINT, which is an error for a process that was reaped.
Interrupt(t) ==
    /\ at[t] = "halt"
    /\ \/ /\ transport = "docker" \/ cli[t] # "reaped"
          /\ IF box[t] = "running"
             THEN \E k \in {"zero", "nonzero", "killed"} : Become(t, "stopped", k)
             ELSE UNCHANGED <<box, code>>
          /\ Go(t, "halting", {})
       \/ /\ IF transport = "docker" THEN DockerFails(t) ELSE cli[t] \in Ended \cup {"reaped"}
          /\ UNCHANGED <<box, code>>
          /\ Go(t, "halting", {"cleanup"})
    /\ UNCHANGED <<cli, ctx>>

\* Mutant of Halted: nothing is waited for.
HaltedAtOnce(t) ==
    /\ at[t] \in {"halting", "forced"}
    /\ Go(t, "remove", {})
    /\ UNCHANGED <<boxVars, ctx>>

\* The process is waited for, before its container is forced away and after.
Halted(t) ==
    /\ at[t] \in {"halting", "forced"}
    /\ cli[t] \in Ended \cup {"reaped"}
    /\ CommandIs(t, "reaped")
    /\ Go(t, "remove", {})
    /\ UNCHANGED <<box, code, ctx>>

\* The context of Stop and its own timer both take five seconds.  After the
\* timer a container that was removed makes up for a docker stop that failed.
Overdue(t) ==
    /\ at[t] = "halting"
    /\ transport = "docker" \/ cli[t] # "reaped"
    /\ at' = [at EXCEPT ![t] = "forced"]
    /\ \E failed \in {f \in BOOLEAN : f => transport = "docker" /\ DockerFails(t)},
          expired \in BOOLEAN :
        /\ IF failed THEN UNCHANGED <<box, code>> ELSE RemoveBox(t)
        /\ errs' = [errs EXCEPT ![t] =
              IF expired THEN @ \cup {"cleanup", "deadline"}
              ELSE IF transport = "docker" /\ ~failed THEN @ \ {"cleanup"}
              ELSE @ \cup {"cleanup"}]
    /\ UNCHANGED <<cli, ctx>>

\* Without a container only the directory is left to remove.
Sweep(t) ==
    /\ at[t] = "remove"
    /\ transport = "native"
    /\ Go(t, "done", {})
    /\ UNCHANGED <<boxVars, ctx>>

Start(t) == Fetch(t) \/ AwaitOrigin(t)

Stop(t) ==
    \/ Interrupt(t) \/ Halted(t) \/ Overdue(t) \/ GraceEnds(t) \/ Sweep(t)
    \/ transport = "docker" /\ (RemoveContainer(t) \/ InspectGone(t))

TunnelWorld(t) ==
    \/ TunnelEnds(t)
    \/ transport = "docker" /\ (Daemon(t) \/ ProgramEnds(t, "nonzero"))

=============================================================================
