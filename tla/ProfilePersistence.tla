-------------------------- MODULE ProfilePersistence --------------------------
(***************************************************************************)
(* The managed profile in a docker volume, and the two containers that the *)
(* conformance runner kills on purpose: "crash", before its browser has an *)
(* owner, and "seed", when the cookie of its observation is on disk.  Each *)
(* has a probe that looks at the volume from a container of its own, and   *)
(* "verify" must recover what they leave.                                  *)
(***************************************************************************)
EXTENDS ManagedContainer, Collector

VARIABLES
    session,    \* whose records the profile holds; "closed": nobody's
    cookie      \* the cookie of the run: "memory" of the browser, or "durable"

Crashed == {"crash", "seed"}
Session == Crashed \cup {"verify"}

profileVars == <<session, cookie>>

ProfileTypeOK ==
    /\ session \in {"none", "closed"} \cup Session
    /\ cookie \in {"none", "memory", "durable"}

ProfileInit == session = "none" /\ cookie = "none"

-----------------------------------------------------------------------------
(* The programs in the containers *)

\* The provider recovers the profile, whatever it holds, and records itself.
TakeProfile(c) ==
    /\ c \in Session
    /\ box[c] = "running"
    /\ session # c
    /\ session' = c
    /\ UNCHANGED <<cookie, containerVars, collectorVars>>

\* A probe succeeds only on what it was sent for, and the provider only when
\* its session was closed; a cookie that is not on disk dies with its browser.
MayEnd(c, k) ==
    k = "zero" => CASE c \in {"probe", "boundary"} -> session = "crash"
                    [] c = "cookie" -> cookie = "durable"
                    [] c \in Session -> session = c
                    [] OTHER -> TRUE

Program(c) ==
    /\ \E k \in {"zero", "nonzero"} : MayEnd(c, k) /\ ProgramEnds(c, k)
    /\ session' = IF c = session /\ code'[c] = "zero" THEN "closed" ELSE session
    /\ UNCHANGED <<cookie, collectorVars>>

Flush ==
    /\ cookie = "memory"
    /\ box["seed"] = "running"
    /\ cookie' = "durable"
    /\ UNCHANGED <<session, containerVars, collectorVars>>

\* The page is asked for by a running browser, and its report may arrive when
\* the browser is gone.
Request(k, c) ==
    /\ \/ /\ k \notin navigated
          /\ box[c] = "running"
          /\ c \in Session => session = c
          /\ k \in Cookied \ {Seed} => cookie = "durable"
          /\ Navigate(k)
          /\ cookie' = IF k = Seed THEN "memory" ELSE cookie
       \/ Observe(k) /\ UNCHANGED cookie
    /\ UNCHANGED <<session, containerVars>>

-----------------------------------------------------------------------------
(* runManagedProfileStartupCrash and runManagedProfileSeedCrash *)

\* The injection is over; on the way to the cleanup the request of the seed is
\* released, so that it does not hold its browser back.
Release(c) == released' = (released \/ c = "seed")

GiveUp(c, E) ==
    /\ Go(c, IF cli'[c] = "reaped" THEN "remove" ELSE "slay", E)
    /\ Release(c)

Inject(c, step) == Go(c, step, {}) /\ UNCHANGED released

\* What an injection starts beside its container.
Spawn(p, c, steps) ==
    /\ at[c] \in steps
    /\ at[p] = "idle"
    /\ at' = [at EXCEPT ![p] = "launch"]
    /\ UNCHANGED <<boxVars, errs, ctx, released>>

\* The program of "crash" stays at the boundary until it is killed.
AtBoundary ==
    /\ at["crash"] = "boundary"
    /\ UNCHANGED <<box, code>>
    /\ \/ /\ at["probe"] = "done"
          /\ UNCHANGED <<cli, ctx>>
          /\ IF errs["probe"] = {} THEN Inject("crash", "kill") ELSE GiveUp("crash", {"crash"})
       \/ /\ \/ Reap("crash")
             \/ ctx["crash"] # "live" /\ UNCHANGED cli
          /\ CancelContext("probe")
          /\ Go("crash", "joining", {"crash"})
          /\ UNCHANGED released

\* The grace period is shorter than the cleanup of a slow probe.
JoinProbe ==
    /\ at["crash"] = "joining"
    /\ at["probe"] = "done" \/ DockerFails("probe")
    /\ UNCHANGED <<boxVars, ctx>>
    /\ GiveUp("crash", {"crash"})

SeedObserved ==
    /\ at["seed"] = "observe"
    /\ UNCHANGED <<box, code, ctx>>
    /\ \/ waiter[Seed] = "seen" /\ UNCHANGED cli /\ Inject("seed", "persist")
       \/ /\ \/ Reap("seed")
             \/ UNCHANGED cli /\ (waiter[Seed] = "failed" \/ ctx["seed"] # "live")
          /\ GiveUp("seed", {"crash"})

\* Mutant of CookieProbed: what the probe found does not count.
CookieUnread ==
    /\ at["seed"] = "persist"
    /\ at["cookie"] = "done"
    /\ UNCHANGED <<boxVars, ctx>>
    /\ Inject("seed", "kill")

CookieProbed ==
    /\ at["seed"] = "persist"
    /\ at["cookie"] = "done"
    /\ UNCHANGED <<boxVars, ctx>>
    /\ IF errs["cookie"] = {} THEN Inject("seed", "kill") ELSE GiveUp("seed", {"crash"})

\* docker kill --signal KILL
Kill(c) ==
    /\ at[c] = "kill"
    /\ UNCHANGED <<cli, ctx>>
    /\ \/ /\ box[c] = "running"
          /\ Become(c, "stopped", "killed")
          /\ Inject(c, "crashed")
       \/ /\ box[c] # "running" \/ DockerFails(c)
          /\ UNCHANGED <<box, code>>
          /\ GiveUp(c, {"crash"})

ReapCrashed(c) ==
    /\ at[c] = "crashed"
    /\ UNCHANGED <<box, code, ctx>>
    /\ \/ cli[c] = "nonzero" /\ Reap(c) /\ Inject(c, "exitcode")
       \/ /\ \/ cli[c] = "zero" /\ Reap(c)
             \/ UNCHANGED cli
          /\ GiveUp(c, {"crash"})

InspectCrashed(c) ==
    /\ at[c] = "exitcode"
    /\ UNCHANGED <<boxVars, ctx>>
    /\ \/ code[c] = "killed" /\ Inject(c, "discard")
       \/ (code[c] # "killed" \/ DockerFails(c)) /\ GiveUp(c, {"crash"})

Discard(c) ==
    /\ at[c] = "discard"
    /\ UNCHANGED <<cli, ctx>>
    /\ \/ RemoveBox(c) /\ Inject(c, "vanished")
       \/ DockerFails(c) /\ UNCHANGED <<box, code>> /\ GiveUp(c, {"crash"})

\* The container was removed: no cleanup follows, whatever this finds.
Vanished(c) ==
    /\ at[c] = "vanished"
    /\ UNCHANGED <<boxVars, ctx>>
    /\ Release(c)
    /\ \/ ~Exists(c) /\ Go(c, "done", {})
       \/ (Exists(c) \/ DockerFails(c)) /\ Go(c, "done", {"cleanup"})

CrashStep(c) ==
    /\ \/ Spawn("probe", "crash", {"boundary", "joining"}) /\ c = "crash"
       \/ (AtBoundary \/ JoinProbe) /\ c = "crash"
       \/ Spawn("cookie", "seed", {"persist"}) /\ c = "seed"
       \/ (SeedObserved \/ CookieProbed) /\ c = "seed"
       \/ c \in Crashed /\ (\/ Kill(c)    \/ ReapCrashed(c) \/ InspectCrashed(c)
                            \/ Discard(c) \/ Vanished(c))
    /\ UNCHANGED <<profileVars, navigated, observed, marked, handler, token, waiter>>

=============================================================================
