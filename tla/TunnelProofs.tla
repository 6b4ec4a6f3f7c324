----------------------------- MODULE TunnelProofs -----------------------------
(***************************************************************************)
(* Proofs about TunnelRun, for any number of attempts and whatever docker  *)
(* fails at.  Swept says what the steps of Stop leave of a tunnel docker   *)
(* works for; InTurn, that the attempts before the current one are over    *)
(* and those after it have not begun.                                      *)
(***************************************************************************)
EXTENDS TunnelRun, ManagedContainerProofs

Swept ==
    \A t \in Container :
        /\ transport # "docker" => box[t] = "none"
        /\ t \notin Faulty =>
              /\ at[t] \in {"remove", "inspect", "done"} => cli[t] # "creating"
              /\ at[t] \in {"inspect", "done"} => box[t] = "none"

InTurn ==
    /\ stage = "listen" => attempt = 1 /\ at[T] = "idle"
    /\ transport = "none" => attempt = 1 /\ at[T] = "idle"
    /\ \A i \in DOMAIN Attempts :
          /\ i < attempt => at[Attempts[i]] = "done"
          /\ i > attempt => at[Attempts[i]] = "idle"

Stopped == stage = "ended" /\ ~failed => Gone(T)

TunnelInv == TypeOK /\ ContainerInv /\ Swept /\ InTurn /\ Stopped

\* The attempts are numbered.
LEMMA AttemptsFact ==
    /\ DOMAIN Attempts = 1 .. Len(Attempts)
    /\ Len(Attempts) \in Nat
    /\ 1 \in DOMAIN Attempts
    /\ \A i \in DOMAIN Attempts : Attempts[i] \in Container
    /\ \A i, j \in DOMAIN Attempts : Attempts[i] = Attempts[j] => i = j
  BY AttemptsAssumption

-----------------------------------------------------------------------------
(* One tunnel *)

\* A step of Start or Stop keeps the facts about containers, and touches only
\* the goroutine's own.
LEMMA StepKeepsContainer ==
    ASSUME TypeOK, ContainerInv, Swept, NEW t \in Container, Start(t) \/ Stop(t)
    PROVE  ContainerOK'
<1> USE DEF TypeOK, ContainerOK, ContainerTypeOK, ContainerInv, Gone, Exists, AfterReap,
            CommandIs, Go, Reap, boxVars, Ended, Step, Error, CtxError, Cause
<1>1. CASE Fetch(t)
  BY <1>1 DEF Fetch
<1>2. CASE AwaitOrigin(t)
  BY <1>2 DEF AwaitOrigin
<1>3. CASE Interrupt(t)
  BY <1>3 DEF Interrupt, Become
<1>4. CASE Halted(t)
  BY <1>4 DEF Halted
<1>5. CASE Overdue(t)
  BY <1>5 DEF Overdue, RemoveBox, Become
<1>6. CASE GraceEnds(t) \/ RemoveContainer(t) \/ InspectGone(t)
  BY <1>6, CleanUpKeeps DEF CleanUp
<1>7. CASE Sweep(t)
  BY <1>7 DEF Sweep, Swept
<1> QED
  BY <1>1, <1>2, <1>3, <1>4, <1>5, <1>6, <1>7 DEF Start, Stop

\* Docker and the programs keep what is known of a container.
LEMMA WorldKeepsContainer ==
    ASSUME TypeOK, ContainerInv, NEW t \in Container, TunnelWorld(t)
    PROVE  ContainerOK'
<1>1. CASE TunnelEnds(t)
  BY <1>1 DEF TypeOK, ContainerOK, ContainerTypeOK, ContainerInv, Gone, Exists, AfterReap,
              CommandIs, TunnelEnds, jobVars, Ended
<1>2. CASE Daemon(t) \/ ProgramEnds(t, "nonzero")
  BY <1>2, DaemonKeeps DEF ContainerOK, TypeOK
<1> QED
  BY <1>1, <1>2 DEF TunnelWorld

\* What Stop leaves: nothing is left to be created once the process was waited
\* for, or its container seen, and nothing is there once that was removed.
LEMMA StepSweeps ==
    ASSUME TypeOK, ContainerInv, Swept, NEW t \in Container,
           Start(t) \/ Stop(t), UNCHANGED transport
    PROVE  Swept'
<1> USE DEF TypeOK, ContainerTypeOK, ContainerInv, Swept, Exists,
            CommandIs, Go, Reap, boxVars, Ended, DockerFails
<1>1. CASE Fetch(t)
  BY <1>1 DEF Fetch
<1>2. CASE AwaitOrigin(t)
  BY <1>2 DEF AwaitOrigin
<1>3. CASE Interrupt(t)
  BY <1>3 DEF Interrupt, Become
<1>4. CASE Halted(t)
  BY <1>4 DEF Halted
<1>5. CASE Overdue(t)
  BY <1>5 DEF Overdue, RemoveBox, Become
<1>6. CASE GraceEnds(t)
  BY <1>6 DEF GraceEnds
<1>7. CASE Sweep(t)
  BY <1>7 DEF Sweep
<1>8. CASE RemoveContainer(t)
  BY <1>8 DEF RemoveContainer, RemoveBox, Become
<1>9. CASE InspectGone(t)
  BY <1>9 DEF InspectGone
<1> QED
  BY <1>1, <1>2, <1>3, <1>4, <1>5, <1>6, <1>7, <1>8, <1>9 DEF Start, Stop

\* Docker brings nothing back that was removed.
LEMMA WorldSweeps ==
    ASSUME TypeOK, ContainerInv, Swept, NEW t \in Container, TunnelWorld(t),
           UNCHANGED transport
    PROVE  Swept'
<1> USE DEF TypeOK, ContainerTypeOK, ContainerInv, Swept, CommandIs, Become, jobVars
<1>1. CASE TunnelEnds(t)
  BY <1>1 DEF TunnelEnds
<1>2. CASE transport = "docker" /\ Create(t)
  BY <1>2 DEF Create
<1>3. CASE AutoRemove(t)
  BY <1>3 DEF AutoRemove
<1>4. CASE CommandExits(t)
  BY <1>4 DEF CommandExits
<1>5. CASE transport = "docker" /\ ProgramEnds(t, "nonzero")
  BY <1>5 DEF ProgramEnds
<1> QED
  BY <1>1, <1>2, <1>3, <1>4, <1>5 DEF TunnelWorld, Daemon

\* Start and Stop move nobody who has not begun, and nobody who is done.
LEMMA StepStays ==
    ASSUME TypeOK, NEW t \in Container, Start(t) \/ Stop(t)
    PROVE  /\ at[t] \notin {"idle", "done"}
           /\ \A u \in Container : u # t => at'[u] = at[u]
           /\ at'[t] # "idle"
<1> USE DEF TypeOK, ContainerTypeOK, Go
<1>1. CASE Fetch(t)
  BY <1>1 DEF Fetch
<1>2. CASE AwaitOrigin(t)
  BY <1>2 DEF AwaitOrigin
<1>3. CASE Interrupt(t)
  BY <1>3 DEF Interrupt
<1>4. CASE Halted(t)
  BY <1>4 DEF Halted
<1>5. CASE Overdue(t)
  BY <1>5 DEF Overdue
<1>6. CASE GraceEnds(t)
  BY <1>6 DEF GraceEnds
<1>7. CASE Sweep(t)
  BY <1>7 DEF Sweep
<1>8. CASE RemoveContainer(t)
  BY <1>8 DEF RemoveContainer
<1>9. CASE InspectGone(t)
  BY <1>9 DEF InspectGone
<1> QED
  BY <1>1, <1>2, <1>3, <1>4, <1>5, <1>6, <1>7, <1>8, <1>9 DEF Start, Stop

-----------------------------------------------------------------------------
(* The run *)

\* Nothing has begun.
LEMMA TunnelStarts == Init => TunnelInv
<1> SUFFICES ASSUME Init PROVE TunnelInv
  OBVIOUS
<1>1. ContainerOK
  BY ContainerStarts DEF Init
<1>2. TypeOK /\ ContainerInv
  BY <1>1, AttemptsFact DEF Init, TypeOK, ContainerOK
<1>3. Swept
  BY DEF Init, ContainerInit, Swept
<1>4. InTurn /\ Stopped
  BY AttemptsFact DEF Init, ContainerInit, InTurn, Stopped, T
<1> QED
  BY <1>2, <1>3, <1>4 DEF TunnelInv

\* An attempt begins only when its tunnel is untouched.
LEMMA BeginKeeps ==
    ASSUME TunnelInv, stage # "ended", NEW n \in DOMAIN Attempts, Begin(n), Keep,
           \/ n = 1 /\ stage = "listen" /\ transport # "none"
           \/ n = attempt + 1 /\ at[T] = "done"
    PROVE  TunnelInv'
<1>1. at[Attempts[n]] = "idle"
  BY AttemptsFact DEF TunnelInv, TypeOK, InTurn, T
<1>2. ContainerOK'
  BY <1>1, AttemptsFact DEF TunnelInv, TypeOK, ContainerTypeOK, ContainerOK, ContainerInv, Gone,
        Exists, AfterReap, Begin, Keep, boxVars, Step
<1>3. TypeOK' /\ ContainerInv'
  BY <1>2, AttemptsFact DEF TunnelInv, TypeOK, ContainerOK, Begin, Keep
<1>4. Swept'
  BY <1>1, AttemptsFact DEF TunnelInv, TypeOK, ContainerTypeOK, Swept, Begin, Keep, boxVars
<1>5. InTurn'
  <2>1. transport # "none"
    BY DEF TunnelInv, InTurn
  <2>2. \A i \in DOMAIN Attempts : i # n => at'[Attempts[i]] = at[Attempts[i]]
    BY AttemptsFact DEF TunnelInv, TypeOK, ContainerTypeOK, Begin
  <2> QED
    BY <2>1, <2>2, AttemptsFact DEF TunnelInv, TypeOK, InTurn, Begin, Keep, T
<1>6. Stopped'
  BY DEF Stopped, Begin
<1> QED
  BY <1>3, <1>4, <1>5, <1>6 DEF TunnelInv

\* The next attempt begins when the last is over.
LEMMA RetryKeeps ==
    ASSUME TunnelInv, stage # "ended", at[T] = "done", NEW retryable,
           RetryOrFail(retryable), Keep
    PROVE  TunnelInv'
<1>1. CASE attempt < Len(Attempts) /\ Begin(attempt + 1)
  <2>1. attempt + 1 \in DOMAIN Attempts
    BY <1>1, AttemptsFact DEF TunnelInv, TypeOK
  <2> QED
    BY <1>1, <2>1, BeginKeeps
<1>2. CASE Fail
  BY <1>2 DEF Fail, Keep, TunnelInv, TypeOK, ContainerTypeOK, ContainerInv, Gone, Exists,
        AfterReap, Swept, InTurn, Stopped, T, boxVars, jobVars
<1> QED
  BY <1>1, <1>2 DEF RetryOrFail

\* Stop may begin wherever the tunnel is.
LEMMA HaltKeeps ==
    ASSUME TunnelInv, NEW s \in {"unhealthy", "teardown"}, NEW e \in {{}, {"unhealthy"}, {"refused"}},
           transport # "none", stage # "listen", stage' = s, failed' \in BOOLEAN,
           at' = [at EXCEPT ![T] = "halt"],
           errs' = errs \/ errs' = [errs EXCEPT ![T] = e],
           UNCHANGED attempt, Keep
    PROVE  TunnelInv'
<1>1. T \in Container
  BY AttemptsFact DEF TunnelInv, TypeOK, T
<1>2. TypeOK' /\ ContainerInv'
  BY <1>1 DEF TunnelInv, TypeOK, ContainerTypeOK, ContainerInv, Gone, Exists, AfterReap, Keep,
        boxVars, Step, Error
<1>3. Swept'
  BY <1>1 DEF TunnelInv, TypeOK, ContainerTypeOK, Swept, Keep, boxVars
<1>4. InTurn' /\ Stopped'
  BY <1>1, AttemptsFact DEF TunnelInv, TypeOK, ContainerTypeOK, InTurn, Stopped, Keep, T
<1> QED
  BY <1>2, <1>3, <1>4 DEF TunnelInv

\* The steps of Run keep the invariant.
LEMMA RunKeeps ==
    ASSUME TunnelInv, stage # "ended", RunStep
    PROVE  TunnelInv'
<1> USE DEF RunStep
<1>0. ASSUME NEW s \in {"health", "checks"}, To(s), Keep PROVE TunnelInv'
  BY <1>0 DEF To, Keep, TunnelInv, TypeOK, ContainerTypeOK, ContainerInv, Gone, Exists,
        AfterReap, Swept, InTurn, Stopped, T, boxVars, jobVars
<1>f. ASSUME Fail, Keep PROVE TunnelInv'
  BY <1>f DEF Fail, Keep, TunnelInv, TypeOK, ContainerTypeOK, ContainerInv, Gone, Exists,
        AfterReap, Swept, InTurn, Stopped, T, boxVars, jobVars
<1>1. CASE Listen
  BY <1>0, <1>1, BeginKeeps, AttemptsFact DEF Listen
<1>2. CASE Started
  BY <1>0, <1>2, RetryKeeps DEF Started
<1>3. CASE Health
  <2>1. CASE To("checks") \/ Fail
    BY <2>1, <1>0, <1>f
  <2>2. CASE ~(To("checks") \/ Fail)
    <3>1. PICK e \in {"unhealthy", "refused"} : errs' = [errs EXCEPT ![T] = {e}]
      BY <1>3, <2>2 DEF Health
    <3>2. failed' \in BOOLEAN
      BY <1>3, <2>2 DEF Health, TunnelInv, TypeOK
    <3> QED
      BY <1>3, <2>2, <3>1, <3>2, HaltKeeps DEF Health
  <2> QED
    BY <2>1, <2>2
<1>4. CASE Unhealthy
  BY <1>4, RetryKeeps DEF Unhealthy
<1>5. CASE Checks
  <2>1. CASE transport = "none"
    BY <1>5, <2>1 DEF Checks, Keep, TunnelInv, TypeOK, ContainerTypeOK, ContainerInv, Gone, Exists,
          AfterReap, Swept, InTurn, Stopped, T, boxVars, jobVars
  <2>2. CASE transport # "none"
    BY <1>5, <2>2, HaltKeeps DEF Checks
  <2> QED
    BY <2>1, <2>2
<1>6. CASE TornDown
  <2>1. T \in Container
    BY AttemptsFact DEF TunnelInv, TypeOK, T
  <2>2. errs[T] = {} \/ transport = "none" => Gone(T)
    BY <1>6, <2>1 DEF TornDown, TunnelInv, InTurn, ContainerInv, Gone, Exists
  <2>3. TypeOK' /\ ContainerInv' /\ Swept' /\ InTurn'
    BY <1>6, <2>1 DEF TornDown, Keep, TunnelInv, TypeOK, ContainerTypeOK, ContainerInv, Gone,
          Exists, AfterReap, Swept, InTurn, T, boxVars, jobVars
  <2>4. Stopped'
    BY <1>6, <2>2 DEF TornDown, Keep, Stopped, Gone, Exists, T, boxVars, jobVars
  <2> QED
    BY <2>3, <2>4 DEF TunnelInv
<1> QED
  BY <1>1, <1>2, <1>3, <1>4, <1>5, <1>6

\* Every step of an attempt and of the run.
LEMMA TunnelStepKeeps ==
    ASSUME TunnelInv, stage # "ended", NEW t \in Container, TunnelStep(t)
    PROVE  TunnelInv'
<1>1. ContainerOK' /\ Swept'
  BY StepKeepsContainer, StepSweeps DEF TunnelInv, TunnelStep
<1>2. InTurn'
  BY StepStays, AttemptsFact DEF TunnelInv, TypeOK, InTurn, TunnelStep, runVars, T
<1> QED
  BY <1>1, <1>2 DEF TunnelInv, TypeOK, ContainerOK, TunnelStep, runVars, Stopped

\* Docker and the programs.
LEMMA WorldKeeps ==
    ASSUME TunnelInv, stage # "ended", NEW t \in Container, World(t)
    PROVE  TunnelInv'
<1>1. ContainerOK' /\ Swept'
  BY WorldKeepsContainer, WorldSweeps DEF TunnelInv, World
<1>2. UNCHANGED at
  BY DEF World, TunnelWorld, TunnelEnds, Daemon, Create, AutoRemove, CommandExits, ProgramEnds, jobVars
<1> QED
  BY <1>1, <1>2 DEF TunnelInv, TypeOK, ContainerOK, World, runVars, Stopped, InTurn, T

\* Every step keeps the invariant.
LEMMA TunnelNext ==
    ASSUME TunnelInv, [Next]_vars
    PROVE  TunnelInv'
<1>1. ASSUME stage # "ended", NEW cause \in {"canceled", "deadline"}, ContextEnds(cause)
      PROVE  TunnelInv'
  <2>1. ContainerOK'
    BY <1>1, ContextKeeps DEF ContextEnds, TunnelInv, TypeOK, ContainerOK
  <2> QED
    BY <1>1, <2>1 DEF ContextEnds, TunnelInv, TypeOK, ContainerOK, Swept, InTurn, Stopped, runVars,
          boxVars, jobVars, T
<1>2. CASE UNCHANGED vars
  BY <1>2 DEF vars, containerVars, runVars, TunnelInv, TypeOK, ContainerTypeOK, ContainerInv, Gone,
        Exists, AfterReap, Swept, InTurn, Stopped, T
<1> QED
  BY <1>1, <1>2, RunKeeps, TunnelStepKeeps, WorldKeeps DEF Next

\* The invariant of the tunnel.
LEMMA TunnelInvariant == Spec => []TunnelInv
<1> QED
  BY TunnelStarts, TunnelNext, PTL DEF Spec

\* Every variable keeps its type, for any number of attempts.
THEOREM TunnelTyping == Spec => []TypeOK
<1>1. TunnelInv => TypeOK
  BY DEF TunnelInv
<1> QED
  BY <1>1, TunnelInvariant, PTL

\* However the attempts fail, no second tunnel is started beside an earlier one
\* that docker could have removed (Run's retry loop).
THEOREM NoSecondTunnel == Spec => []RetryAfterTeardown
<1>1. TunnelInv => RetryAfterTeardown
  BY AttemptsFact DEF TunnelInv, TypeOK, RetryAfterTeardown, InTurn, Swept, Gone, Exists
<1> QED
  BY <1>1, TunnelInvariant, PTL

\* A run that passes has stopped its tunnel for good, even one docker fails
\* for, and the earlier ones as far as docker did what it was told.
THEOREM TunnelsStopped == Spec => []PassedStopsTunnels
<1>1. TunnelInv => PassedStopsTunnels
  <2> SUFFICES ASSUME TunnelInv, stage = "ended", ~failed, NEW i \in 1 .. attempt
               PROVE  Gone(Attempts[i]) \/ (i < attempt /\ Attempts[i] \in Faulty)
    BY DEF PassedStopsTunnels
  <2>1. i \in DOMAIN Attempts /\ attempt \in Nat
    BY AttemptsFact DEF TunnelInv, TypeOK
  <2>2. CASE i = attempt
    BY <2>2 DEF TunnelInv, Stopped, T
  <2>3. CASE i < attempt
    BY <2>1, <2>3, AttemptsFact DEF TunnelInv, InTurn, Swept, Gone, Exists
  <2> QED
    BY <2>1, <2>2, <2>3
<1> QED
  BY <1>1, TunnelInvariant, PTL

-----------------------------------------------------------------------------
(* How long a run can be *)

\* What is left: attempts, the steps of Run within one, and those of its Start
\* or its Stop.
StageRank(s) ==
    CASE s = "listen" -> 6
      [] s = "start" -> 5
      [] s = "health" -> 4
      [] s = "unhealthy" -> 3
      [] s = "checks" -> 3
      [] s = "teardown" -> 2
      [] s = "ended" -> 0

StepRank(s) ==
    CASE s = "fetch" -> 7
      [] s = "origin" -> 6
      [] s = "halt" -> 5
      [] s = "reap" -> 5
      [] s = "halting" -> 4
      [] s = "force" -> 4
      [] s = "forced" -> 3
      [] s = "remove" -> 2
      [] s = "inspect" -> 1
      [] OTHER -> 0

Sum(left, m, x) == 40 * left + 10 * m + x

Rank == Sum(Len(Attempts) - attempt, StageRank(stage), StepRank(at[T]))

OwnStep == RunStep \/ \E t \in Container : TunnelStep(t)

Shortens == Rank' \in Nat /\ Rank' < Rank

LEMMA Ranks ==
    /\ StageRank("listen") = 6 /\ StageRank("start") = 5 /\ StageRank("health") = 4
    /\ StageRank("unhealthy") = 3 /\ StageRank("checks") = 3 /\ StageRank("teardown") = 2
    /\ StageRank("ended") = 0
    /\ StepRank("fetch") = 7 /\ StepRank("origin") = 6 /\ StepRank("halt") = 5
    /\ StepRank("halting") = 4 /\ StepRank("forced") = 3 /\ StepRank("remove") = 2
    /\ StepRank("reap") = 5 /\ StepRank("force") = 4
    /\ StepRank("inspect") = 1 /\ StepRank("up") = 0 /\ StepRank("done") = 0
    /\ \A s : StepRank(s) \in 0 .. 7
BY DEF StageRank, StepRank

\* A tunnel that is touched belongs to an attempt.
Named == \A t \in Container : at[t] # "idle" => \E i \in DOMAIN Attempts : Attempts[i] = t

LEMMA NamedStays ==
    ASSUME TunnelInv, Named, [Next]_vars
    PROVE  Named'
<1>0. at \in [Container -> Step] /\ T = Attempts[attempt] /\ attempt \in DOMAIN Attempts
  BY DEF TunnelInv, TypeOK, ContainerTypeOK, T
<1>1. ASSUME NEW n \in DOMAIN Attempts, NEW s, at' = [at EXCEPT ![Attempts[n]] = s]
      PROVE  Named'
  BY <1>0, <1>1 DEF Named
<1>2. ASSUME UNCHANGED at PROVE Named'
  BY <1>2 DEF Named
<1>3. ASSUME NEW retryable, RetryOrFail(retryable) PROVE Named'
  <2>1. CASE Fail
    BY <1>2, <2>1 DEF Fail, jobVars
  <2>2. CASE attempt < Len(Attempts) /\ Begin(attempt + 1)
    <3>1. attempt + 1 \in DOMAIN Attempts
      BY <1>0, <2>2, AttemptsFact
    <3> QED
      BY <1>1, <2>2, <3>1 DEF Begin
  <2> QED
    BY <1>3, <2>1, <2>2 DEF RetryOrFail
<1>4. CASE RunStep
  <2>1. CASE Listen
    BY <1>1, <1>2, <2>1, AttemptsFact DEF Listen, To, Begin, jobVars
  <2>2. CASE Started
    BY <1>2, <1>3, <2>2 DEF Started, To, jobVars
  <2>3. CASE Health
    BY <1>0, <1>1, <1>2, <2>3 DEF Health, To, Fail, jobVars
  <2>4. CASE Unhealthy
    BY <1>3, <2>4 DEF Unhealthy
  <2>5. CASE Checks \/ TornDown
    BY <1>0, <1>1, <1>2, <2>5 DEF Checks, TornDown, jobVars
  <2> QED
    BY <1>4, <2>1, <2>2, <2>3, <2>4, <2>5 DEF RunStep
<1>5. ASSUME NEW t \in Container, TunnelStep(t) PROVE Named'
  BY <1>5, StepStays DEF TunnelInv, TunnelStep, Named
<1>6. ASSUME NEW t \in Container, World(t) PROVE Named'
  BY <1>2, <1>6
  DEF World, TunnelWorld, TunnelEnds, Daemon, Create, AutoRemove, CommandExits, ProgramEnds, jobVars
<1>7. ASSUME NEW cause, ContextEnds(cause) PROVE Named'
  BY <1>2, <1>7 DEF ContextEnds, jobVars
<1>8. CASE UNCHANGED vars
  BY <1>2, <1>8 DEF vars, containerVars
<1> QED
  BY <1>4, <1>5, <1>6, <1>7, <1>8 DEF Next

\* The steps of Start and Stop go only forward.
LEMMA StepShortens ==
    ASSUME TypeOK, NEW t \in Container, Start(t) \/ Stop(t)
    PROVE  StepRank(at'[t]) < StepRank(at[t])
<1> USE Ranks DEF TypeOK, ContainerTypeOK, Go
<1>1. CASE Fetch(t)
  BY <1>1 DEF Fetch
<1>2. CASE AwaitOrigin(t)
  BY <1>2 DEF AwaitOrigin
<1>3. CASE Interrupt(t)
  BY <1>3 DEF Interrupt
<1>4. CASE Halted(t)
  BY <1>4 DEF Halted
<1>5. CASE Overdue(t)
  BY <1>5 DEF Overdue
<1>6. CASE GraceEnds(t)
  BY <1>6 DEF GraceEnds
<1>7. CASE Sweep(t)
  BY <1>7 DEF Sweep
<1>8. CASE RemoveContainer(t)
  BY <1>8 DEF RemoveContainer
<1>9. CASE InspectGone(t)
  BY <1>9 DEF InspectGone
<1> QED
  BY <1>1, <1>2, <1>3, <1>4, <1>5, <1>6, <1>7, <1>8, <1>9 DEF Start, Stop

\* What a step of Run, and one of a tunnel, makes of the rank.
LEMMA Sums ==
    ASSUME NEW l \in Nat, NEW a \in 1 .. l, NEW b \in 1 .. l, NEW m \in Nat, NEW n \in Nat,
           NEW x \in 0 .. 7, NEW y \in 0 .. 7,
           \/ n < m /\ b = a
           \/ n < m + 3 /\ b = a + 1
           \/ n = m /\ b = a /\ y < x
    PROVE  Sum(l - b, n, y) \in Nat /\ Sum(l - b, n, y) < Sum(l - a, m, x)
BY DEF Sum

\* So do the steps of Run.
LEMMA RunShortens ==
    ASSUME TunnelInv, RunStep
    PROVE  Shortens
<1>0. attempt \in 1 .. Len(Attempts) /\ Len(Attempts) \in Nat
  BY AttemptsFact DEF TunnelInv, TypeOK
<1>1. StepRank(at[T]) \in 0 .. 7 /\ StepRank(at'[T']) \in 0 .. 7
  BY Ranks
<1>2. ASSUME NEW m \in Nat, NEW n \in Nat, StageRank(stage) = m, StageRank(stage') = n,
             \/ n < m /\ UNCHANGED attempt
             \/ n < m + 3 /\ attempt' = attempt + 1 /\ attempt + 1 <= Len(Attempts)
      PROVE  Shortens
  <2>1. /\ Rank = Sum(Len(Attempts) - attempt, m, StepRank(at[T]))
        /\ Rank' = Sum(Len(Attempts) - attempt', n, StepRank(at'[T']))
    BY <1>2 DEF Rank
  <2>2. attempt' \in 1 .. Len(Attempts)
    BY <1>0, <1>2
  <2> QED
    BY <1>0, <1>1, <1>2, <2>1, <2>2, Sums DEF Shortens
<1>3. ASSUME NEW retryable, RetryOrFail(retryable), stage \in {"start", "unhealthy"}
      PROVE  Shortens
  BY <1>0, <1>2, <1>3, Ranks DEF RetryOrFail, Begin, Fail
<1>4. CASE Listen
  BY <1>2, <1>4, Ranks DEF Listen, To, Begin, TunnelInv, InTurn
<1>5. CASE Started
  <2>1. CASE To("health")
    BY <1>2, <1>5, <2>1, Ranks DEF Started, To
  <2> QED
    BY <1>3, <1>5, <2>1 DEF Started
<1>6. CASE Health
  BY <1>2, <1>6, Ranks DEF Health, To, Fail
<1>7. CASE Unhealthy
  BY <1>3, <1>7 DEF Unhealthy
<1>8. CASE Checks
  BY <1>2, <1>8, Ranks DEF Checks
<1>9. CASE TornDown
  BY <1>2, <1>9, Ranks DEF TornDown, jobVars
<1> QED
  BY <1>4, <1>5, <1>6, <1>7, <1>8, <1>9 DEF RunStep

\* At most 40 * Len(Attempts) + 20 steps of Run, Start and Stop are left in any
\* state, whatever the tunnels, docker and the context do: they take no step back.
StepsRunOut == [][(OwnStep => Shortens) /\ (~OwnStep => Rank' = Rank)]_vars

THEOREM TunnelStepsRunOut == Spec => StepsRunOut
<1>1. ASSUME TunnelInv, Named, [Next]_vars
      PROVE  (OwnStep => Shortens) /\ (~OwnStep => Rank' = Rank)
  <2>0. attempt \in 1 .. Len(Attempts) /\ Len(Attempts) \in Nat /\ StageRank(stage) \in 0 .. 6
    BY <1>1, AttemptsFact, Ranks DEF TunnelInv, TypeOK
  <2>1. ASSUME NEW t \in Container, TunnelStep(t) PROVE Shortens
    <3>1. at[t] \notin {"idle", "done"} /\ StepRank(at'[t]) < StepRank(at[t])
      BY <1>1, <2>1, StepStays, StepShortens DEF TunnelInv, TunnelStep
    <3>2. t = T
      BY <1>1, <2>0, <3>1, AttemptsFact DEF Named, TunnelInv, TypeOK, InTurn, T
    <3>3. UNCHANGED <<stage, attempt>> /\ T' = T
      BY <2>1 DEF TunnelStep, runVars, T
    <3>4. StepRank(at[T]) \in 0 .. 7 /\ StepRank(at'[T]) \in 0 .. 7
      BY Ranks
    <3>5. StepRank(at'[T]) < StepRank(at[T])
      BY <3>1, <3>2
    <3>6. Rank' = Sum(Len(Attempts) - attempt, StageRank(stage), StepRank(at'[T]))
      BY <3>3 DEF Rank
    <3>7. StageRank(stage) \in Nat
      BY <2>0
    <3> QED
      BY <2>0, <3>4, <3>5, <3>6, <3>7, Sums DEF Rank, Shortens
  <2>2. ASSUME UNCHANGED <<stage, attempt, at>> PROVE Rank' = Rank
    BY <2>2 DEF Rank, T
  <2>3. ASSUME NEW t \in Container, World(t) PROVE Rank' = Rank
    BY <2>2, <2>3
    DEF World, TunnelWorld, TunnelEnds, Daemon, Create, AutoRemove, CommandExits, ProgramEnds,
        jobVars, runVars
  <2>4. ASSUME NEW cause, ContextEnds(cause) PROVE Rank' = Rank
    BY <2>2, <2>4 DEF ContextEnds, jobVars, runVars
  <2>5. UNCHANGED vars => Rank' = Rank
    BY <2>2 DEF vars, containerVars, jobVars, runVars
  <2> QED
    BY <1>1, <2>1, <2>3, <2>4, <2>5, RunShortens DEF Next, OwnStep
<1>2. Init => Named
  BY DEF Init, ContainerInit, Named
<1> QED
  BY <1>1, <1>2, NamedStays, TunnelStarts, TunnelNext, PTL DEF Spec, StepsRunOut

=============================================================================
