------------------------------- MODULE TunnelRun -------------------------------
(***************************************************************************)
(* How a run of the conformance command gets an origin and gives it back:  *)
(* up to three attempts to start a tunnel and to see the endpoint through  *)
(* it, the checks of the candidate, which are ConformanceRunner's, and the *)
(* Stop that is deferred to the end.                                       *)
(***************************************************************************)
EXTENDS TunnelAttempt, Sequences

CONSTANT Attempts   \* the attempts it may make, in order

VARIABLES
    stage,      \* the step of Run
    attempt,    \* the number of the attempt in use
    failed      \* Run returns an error

ASSUME AttemptsAssumption ==
    /\ Attempts \in Seq(Container)
    /\ Attempts # << >>
    /\ \A i, j \in DOMAIN Attempts : Attempts[i] = Attempts[j] => i = j

runVars == <<stage, attempt, failed>>
vars == <<containerVars, transport, runVars>>

TypeOK ==
    /\ ContainerTypeOK
    /\ transport \in Transports
    /\ stage \in {"listen", "start", "health", "unhealthy", "checks", "teardown", "ended"}
    /\ attempt \in DOMAIN Attempts
    /\ failed \in BOOLEAN

Init ==
    /\ ContainerInit
    /\ transport \in Transports
    /\ stage = "listen"
    /\ attempt = 1
    /\ failed = FALSE

T == Attempts[attempt]
Live == ctx[Run] = "live"

-----------------------------------------------------------------------------

Keep == UNCHANGED <<boxVars, ctx, transport>>

To(next) == stage' = next /\ UNCHANGED <<jobVars, attempt, failed>>
Fail == stage' = "ended" /\ failed' = TRUE /\ UNCHANGED <<jobVars, attempt>>

Begin(n) ==
    /\ stage' = "start"
    /\ attempt' = n
    /\ at' = [at EXCEPT ![Attempts[n]] = "fetch"]
    /\ UNCHANGED <<errs, failed>>

RetryOrFail(retryable) ==
    IF Live /\ retryable /\ attempt < Len(Attempts) THEN Begin(attempt + 1) ELSE Fail

Listen ==
    /\ stage = "listen"
    /\ IF transport = "none" THEN To("health") ELSE Begin(1)

\* A start that failed has called Stop, which took the process over from the
\* tunnel: the Stop that follows it here finds nothing and has no error.
Started ==
    /\ stage = "start"
    /\ \/ at[T] = "up" /\ To("health")
       \/ at[T] = "done" /\ RetryOrFail(Retryable(T))

\* fetchRunHealth ends well, with the deadline that it has for itself, or with
\* an error that is never retried.
Health ==
    /\ stage = "health"
    /\ \/ To("checks")
       \/ transport = "none" /\ Fail
       \/ /\ transport # "none"
          /\ stage' = "unhealthy"
          /\ at' = [at EXCEPT ![T] = "halt"]
          /\ \E e \in {"unhealthy", "refused"} : errs' = [errs EXCEPT ![T] = {e}]
          /\ UNCHANGED <<attempt, failed>>

Unhealthy ==
    /\ stage = "unhealthy"
    /\ at[T] = "done"
    /\ RetryOrFail(errs[T] = {"unhealthy"})

Checks ==
    /\ stage = "checks"
    /\ stage' = "teardown"
    /\ failed' \in BOOLEAN
    /\ at' = IF transport = "none" THEN at ELSE [at EXCEPT ![T] = "halt"]
    /\ UNCHANGED <<errs, attempt>>

\* Mutant of TornDown: the error of the deferred Stop is dropped.
TornDownUnchecked ==
    /\ stage = "teardown"
    /\ transport = "none" \/ at[T] = "done"
    /\ To("ended")

TornDown ==
    /\ stage = "teardown"
    /\ transport = "none" \/ at[T] = "done"
    /\ stage' = "ended"
    /\ failed' = (failed \/ errs[T] # {})
    /\ UNCHANGED <<jobVars, attempt>>

RunStep ==
    /\ \/ Listen    \/ Started \/ Health
       \/ Unhealthy \/ Checks  \/ TornDown
    /\ Keep

TunnelStep(t) ==
    /\ Start(t) \/ Stop(t)
    /\ UNCHANGED <<transport, runVars>>

World(t) ==
    /\ TunnelWorld(t)
    /\ UNCHANGED <<transport, runVars>>

ContextEnds(cause) ==
    /\ Live
    /\ EndRun(cause)
    /\ UNCHANGED <<boxVars, jobVars, transport, runVars>>

Next ==
    /\ stage # "ended"
    /\ \/ RunStep
       \/ \E t \in Container : TunnelStep(t) \/ World(t)
       \/ \E cause \in {"canceled", "deadline"} : ContextEnds(cause)

Spec == Init /\ [][Next]_vars

Killed(t) ==
    /\ at[t] = "forced"
    /\ TunnelEnds(t)
    /\ UNCHANGED <<transport, runVars>>

\* The goroutine that runs the attempts goes on whenever it can, and a process
\* that was killed ends.
Scheduled ==
    /\ stage # "ended"
    /\ RunStep \/ \E t \in Container : TunnelStep(t) \/ Killed(t)

FairSpec == Spec /\ WF_vars(Scheduled)

-----------------------------------------------------------------------------
(* Properties *)

\* There is never a second tunnel to the endpoint: an attempt begins when every
\* earlier one is gone for good, as long as docker does what it is told.
RetryAfterTeardown ==
    at[T] # "idle" =>
        \A i \in 1 .. attempt - 1 : Gone(Attempts[i]) \/ Attempts[i] \in Faulty

\* A run that passed has taken its tunnel down, and those it gave up.
PassedStopsTunnels ==
    stage = "ended" /\ ~failed =>
        \A i \in 1 .. attempt : Gone(Attempts[i]) \/ (i < attempt /\ Attempts[i] \in Faulty)

\* Whatever a tunnel does, the run ends.
RunEnds == <>(stage = "ended")

=============================================================================
