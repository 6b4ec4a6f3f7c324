-------------------------- MODULE ConformanceProofs --------------------------
(***************************************************************************)
(* Proofs about ConformanceRunner, for any versions and scenarios, and     *)
(* whatever docker fails at.  The invariant is built in four parts, each   *)
(* of which needs those before it:                                         *)
(*                                                                         *)
(*   OrderOK   types, containers, and one container after another;         *)
(*   Kills     what an injection has found when it kills;                  *)
(*   Watched   waiters take turns, so that one token is enough;            *)
(*   Judged    what evidence and verdict were taken from.                  *)
(*                                                                         *)
(* Sessions adds whose records the profile holds, and what the output of a *)
(* container shows of it.  The last part counts: each step of the process  *)
(* is one of finitely many that are left.                                  *)
(***************************************************************************)
EXTENDS ConformanceRunner, ManagedContainerProofs, SequenceTheorems

-----------------------------------------------------------------------------
(* The order of the containers *)

N == Len(Versions) + Len(Scenarios)

\* Every position of the order, and what is there.
LEMMA OrderFacts ==
    /\ N \in Nat
    /\ DOMAIN Order = 1 .. N + 7
    /\ Order[N + 1] = "direct"
    /\ Order[N + 2] = "attached"
    /\ Order[N + 3] = "init"
    /\ Order[N + 4] = "crash"
    /\ Order[N + 5] = "boundary"
    /\ Order[N + 6] = "seed"
    /\ Order[N + 7] = "verify"
    /\ \A j \in DOMAIN Scenarios : \E i \in 1 .. N : Order[i] = Scenarios[j]
<1> DEFINE VS == Versions \o Scenarios
           VSB == VS \o Browsed
<1>1. VS \in Seq(Job) /\ Len(VS) = N /\ N \in Nat
  BY ConformanceAssumption DEF ConformanceAssumption, N
<1>2. Browsed \in Seq({"direct", "attached"}) /\ Len(Browsed) = 2
      /\ Browsed[1] = "direct" /\ Browsed[2] = "attached"
  BY DEF Browsed
<1>3. /\ Persisted \in Seq({"init", "crash", "boundary", "seed", "verify"})
      /\ Len(Persisted) = 5
      /\ Persisted[1] = "init" /\ Persisted[2] = "crash" /\ Persisted[3] = "boundary"
      /\ Persisted[4] = "seed" /\ Persisted[5] = "verify"
  BY DEF Persisted
<1> HIDE DEF VS
<1> DEFINE J == Job \cup {"direct", "attached", "init", "crash", "boundary", "seed", "verify"}
<1>4. VS \in Seq(J) /\ Browsed \in Seq(J) /\ Persisted \in Seq(J)
  BY <1>1, <1>2, <1>3
<1> HIDE DEF J
<1>5. /\ VSB \in Seq(J)
      /\ Len(VSB) = N + 2
      /\ \A i \in 1 .. N + 2 : VSB[i] = IF i <= N THEN VS[i] ELSE Browsed[i - N]
  <2>1. /\ VSB \in Seq(J)
        /\ Len(VSB) = Len(VS) + Len(Browsed)
        /\ \A i \in 1 .. Len(VS) + Len(Browsed) :
              VSB[i] = IF i <= Len(VS) THEN VS[i] ELSE Browsed[i - Len(VS)]
    BY <1>4, ConcatProperties, Zenon
  <2> HIDE DEF VSB
  <2> QED
    BY <1>1, <1>2, <2>1
<1> HIDE DEF VSB
<1>6. Order = VSB \o Persisted
  BY DEF Order, VSB, VS
<1>7. /\ Order \in Seq(J)
      /\ Len(Order) = N + 7
      /\ \A i \in 1 .. N + 7 : Order[i] = IF i <= N + 2 THEN VSB[i] ELSE Persisted[i - (N + 2)]
  <2>1. /\ VSB \o Persisted \in Seq(J)
        /\ Len(VSB \o Persisted) = Len(VSB) + Len(Persisted)
        /\ \A i \in 1 .. Len(VSB) + Len(Persisted) :
              (VSB \o Persisted)[i] = IF i <= Len(VSB) THEN VSB[i] ELSE Persisted[i - Len(VSB)]
    BY <1>4, <1>5, ConcatProperties, Zenon
  <2> DEFINE All == VSB \o Persisted
  <2> HIDE DEF All
  <2>2. Order = All
    BY <1>6 DEF All
  <2>3. /\ All \in Seq(J)
        /\ Len(All) = Len(VSB) + Len(Persisted)
        /\ \A i \in 1 .. Len(VSB) + Len(Persisted) :
              All[i] = IF i <= Len(VSB) THEN VSB[i] ELSE Persisted[i - Len(VSB)]
    BY <2>1 DEF All
  <2> QED
    BY <1>1, <1>3, <1>5, <2>2, <2>3
<1>8. VSB[N + 1] = "direct" /\ VSB[N + 2] = "attached"
  <2>1. (N + 1) - N = 1 /\ (N + 2) - N = 2
    BY <1>1
  <2> QED
    BY <1>1, <1>2, <1>5, <2>1
<1>9. (N + 3) - (N + 2) = 1 /\ (N + 4) - (N + 2) = 2 /\ (N + 5) - (N + 2) = 3
      /\ (N + 6) - (N + 2) = 4 /\ (N + 7) - (N + 2) = 5
  BY <1>1
<1>10. ASSUME NEW j \in DOMAIN Scenarios
       PROVE  \E i \in 1 .. N : Order[i] = Scenarios[j]
  <2>1. /\ Len(Versions) \in Nat /\ Len(Scenarios) \in Nat
        /\ DOMAIN Scenarios = 1 .. Len(Scenarios)
    BY ConformanceAssumption DEF ConformanceAssumption
  <2>2. \A i \in 1 .. Len(Versions) + Len(Scenarios) :
           VS[i] = IF i <= Len(Versions) THEN Versions[i] ELSE Scenarios[i - Len(Versions)]
    <3>1. Versions \in Seq(Job) /\ Scenarios \in Seq(Job)
      BY ConformanceAssumption
    <3>2. /\ VS \in Seq(Job)
          /\ Len(VS) = Len(Versions) + Len(Scenarios)
          /\ \A i \in 1 .. Len(Versions) + Len(Scenarios) :
                VS[i] = IF i <= Len(Versions) THEN Versions[i] ELSE Scenarios[i - Len(Versions)]
      BY <3>1, ConcatProperties, Zenon DEF VS
    <3> QED
      BY <3>2
  <2>3. Len(Versions) + j \in 1 .. N /\ ~(Len(Versions) + j <= Len(Versions))
        /\ (Len(Versions) + j) - Len(Versions) = j
    BY <2>1 DEF N
  <2>4. VS[Len(Versions) + j] = Scenarios[j]
    BY <2>2, <2>3 DEF N
  <2>5. Order[Len(Versions) + j] = VS[Len(Versions) + j]
    BY <1>1, <1>5, <1>7, <2>3
  <2> QED
    BY <2>3, <2>4, <2>5
<1> QED
  BY <1>1, <1>3, <1>7, <1>8, <1>9, <1>10

\* The same without the scenarios.
LEMMA OrderIs ==
    /\ N \in Nat
    /\ DOMAIN Order = 1 .. N + 7
    /\ Order[N + 1] = "direct"
    /\ Order[N + 2] = "attached"
    /\ Order[N + 3] = "init"
    /\ Order[N + 4] = "crash"
    /\ Order[N + 5] = "boundary"
    /\ Order[N + 6] = "seed"
    /\ Order[N + 7] = "verify"
  BY OrderFacts

\* What the constants say of the names in use.
LEMMA JobFacts ==
    /\ Container = Job
    /\ SetOf(Browsed) = {"direct", "attached"}
    /\ VolumeUser = {"init", "crash", "boundary", "seed", "verify", "probe", "cookie"}
    /\ SetOf(Browsed) \cup VolumeUser \subseteq Job
    /\ SetOf(Order) \subseteq Job
    /\ \A c \in Job : c \in SetOf(Order) \/ c \in {"probe", "cookie"}
    /\ Kind = {"direct", "attached", "seed", "verify"}
    /\ Cookied = {"seed", "verify"}
    /\ Seed = "seed"
    /\ \A i, j \in DOMAIN Order : Order[i] = Order[j] => i = j
    /\ SetOf(Order) \cap ({"probe", "cookie"} \cup Between) = {}
<1>1. SetOf(Browsed) = {"direct", "attached"}
  BY DEF SetOf, Browsed
<1>2. SetOf(Persisted) = {"init", "crash", "boundary", "seed", "verify"}
  BY DEF SetOf, Persisted
<1>3. {"direct", "attached", "init", "crash", "boundary", "seed", "verify"} \subseteq SetOf(Order)
  BY OrderIs DEF SetOf
<1> QED
  BY <1>1, <1>2, <1>3, ConformanceAssumption DEF ConformanceAssumption, VolumeUser, Job

\* Nothing after the first N is a scenario.
LEMMA NoScenario ==
    \A i \in DOMAIN Order : i > N => Order[i] \notin SetOf(Scenarios)
  BY OrderFacts, JobFacts DEF SetOf

\* Place finds a container in the order.
LEMMA PlaceIs ==
    ASSUME NEW i \in DOMAIN Order
    PROVE  Place(Order[i]) = i
  BY JobFacts DEF Place

-----------------------------------------------------------------------------
(* Types and containers *)

Base == TypeOK /\ ContainerInv

Killing == {"kill", "crashed", "exitcode", "discard", "vanished"}

\* The injection of a crash keeps what is known of containers.
LEMMA GiveUpKeeps ==
    ASSUME ContainerOK, NEW c \in Container, at[c] \notin {"idle", "launch", "fetch"},
           UNCHANGED <<box, code>>, ctx' = ctx \/ CancelContext("probe"), "probe" \in Container,
           UNCHANGED cli \/ Reap(c), GiveUp(c, {"crash"})
    PROVE  ContainerOK'
<1>1. \/ Go(c, "remove", {"crash"}) /\ cli'[c] = "reaped"
      \/ Go(c, "slay", {"crash"})
  BY DEF GiveUp
<1>2. /\ cli' \in [Container -> {"idle", "creating", "attached", "reaped"} \cup Ended]
      /\ \A d \in Container \ {c} : cli'[d] = cli[d]
      /\ cli'[c] = cli[c] \/ (cli[c] \in Ended /\ cli'[c] = "reaped")
  BY DEF Reap, CommandIs, ContainerOK, ContainerTypeOK, Ended
<1>3. ctx' \in [Container \cup {Run} -> Cause]
  BY DEF CancelContext, ContainerOK, ContainerTypeOK, Cause
<1>4. /\ at' \in [Container -> Step] /\ errs' \in [Container -> SUBSET Error]
      /\ \A d \in Container \ {c} : at'[d] = at[d] /\ errs'[d] = errs[d]
      /\ at'[c] = "slay" \/ (at'[c] = "remove" /\ cli'[c] = "reaped")
  BY <1>1 DEF ContainerOK, ContainerTypeOK, Go, Step, Error
<1>5. ContainerTypeOK'
  BY <1>2, <1>3, <1>4 DEF ContainerOK, ContainerTypeOK
<1>6. ContainerInv'
  BY <1>2, <1>4 DEF ContainerOK, ContainerTypeOK, ContainerInv, Gone, Exists, AfterReap, Ended
<1> QED
  BY <1>5, <1>6 DEF ContainerOK

\* The other steps of an injection keep it, too.
LEMMA CrashStepKeeps ==
    ASSUME ContainerOK, NEW c \in Job, CrashStep(c)
    PROVE  ContainerOK'
<1>a. c \in Container /\ {"probe", "cookie", "crash", "seed"} \subseteq Container
  BY JobFacts
<1> USE <1>a DEF Inject, boxVars
<1>1. ASSUME NEW p \in {"probe", "cookie"}, NEW s, Spawn(p, c, s)
      PROVE  ContainerOK'
  BY <1>1 DEF Spawn, ContainerOK, ContainerTypeOK, ContainerInv, Gone, Exists, AfterReap, Step
<1> DEFINE Plain(step, E) ==
      /\ UNCHANGED <<box, code>>
      /\ ctx' = ctx \/ CancelContext("probe")
      /\ UNCHANGED cli \/ Reap(c)
      /\ at[c] \notin {"idle", "launch", "fetch"}
      /\ Go(c, step, E)
<1>2. ASSUME NEW step \in {"kill", "joining", "persist"}, NEW E \in {{}, {"crash"}}, Plain(step, E)
      PROVE  ContainerOK'
  BY <1>2 DEF ContainerOK, ContainerTypeOK, ContainerInv, Gone, Exists, AfterReap, CommandIs, Go, Reap,
              Ended, Step, Error, Cause, CancelContext
<1>3. CASE AtBoundary /\ c = "crash"
  <2>1. CASE GiveUp("crash", {"crash"})
    BY <1>3, <2>1, GiveUpKeeps DEF AtBoundary
  <2>2. CASE ~GiveUp("crash", {"crash"})
    <3>1. Plain("kill", {}) \/ Plain("joining", {"crash"})
      BY <1>3, <2>2 DEF AtBoundary
    <3> QED
      BY <1>2, <3>1
  <2> QED
    BY <2>1, <2>2
<1>4. CASE JoinProbe /\ c = "crash"
  BY <1>4, GiveUpKeeps DEF JoinProbe
<1>5. CASE SeedObserved /\ c = "seed"
  <2>1. CASE GiveUp("seed", {"crash"})
    BY <1>5, <2>1, GiveUpKeeps DEF SeedObserved
  <2>2. CASE ~GiveUp("seed", {"crash"})
    <3>1. Plain("persist", {})
      BY <1>5, <2>2 DEF SeedObserved
    <3> QED
      BY <1>2, <3>1
  <2> QED
    BY <2>1, <2>2
<1>6. CASE CookieProbed /\ c = "seed"
  <2>1. CASE GiveUp("seed", {"crash"})
    BY <1>6, <2>1, GiveUpKeeps DEF CookieProbed
  <2>2. CASE ~GiveUp("seed", {"crash"})
    <3>1. Plain("kill", {})
      BY <1>6, <2>2 DEF CookieProbed
    <3> QED
      BY <1>2, <3>1
  <2> QED
    BY <2>1, <2>2
<1>7. CASE Kill(c)
  <2>1. CASE UNCHANGED <<box, code>> /\ GiveUp(c, {"crash"})
    BY <1>7, <2>1, GiveUpKeeps DEF Kill
  <2>2. CASE ~(UNCHANGED <<box, code>> /\ GiveUp(c, {"crash"}))
    <3>1. Become(c, "stopped", "killed") /\ Go(c, "crashed", {}) /\ at[c] = "kill" /\ box[c] = "running"
      BY <1>7, <2>2 DEF Kill
    <3>2. UNCHANGED <<cli, ctx>>
      BY <1>7 DEF Kill
    <3> QED
      BY <3>1, <3>2 DEF ContainerOK, ContainerTypeOK, ContainerInv, Gone, Exists, AfterReap, Become, Go,
              Step, Error
  <2> QED
    BY <2>1, <2>2
<1>8. CASE ReapCrashed(c)
  <2>1. CASE GiveUp(c, {"crash"})
    BY <1>8, <2>1, GiveUpKeeps DEF ReapCrashed
  <2>2. CASE ~GiveUp(c, {"crash"})
    <3>1. Reap(c) /\ Go(c, "exitcode", {}) /\ at[c] = "crashed" /\ UNCHANGED <<box, code, ctx>>
      BY <1>8, <2>2 DEF ReapCrashed
    <3> QED
      BY <3>1 DEF ContainerOK, ContainerTypeOK, ContainerInv, Gone, Exists, AfterReap, CommandIs, Go, Reap,
              Ended, Step, Error
  <2> QED
    BY <2>1, <2>2
<1>9. CASE InspectCrashed(c)
  <2>1. CASE GiveUp(c, {"crash"})
    BY <1>9, <2>1, GiveUpKeeps DEF InspectCrashed
  <2>2. CASE ~GiveUp(c, {"crash"})
    <3>1. Go(c, "discard", {}) /\ at[c] = "exitcode" /\ UNCHANGED <<cli, box, code, ctx>>
      BY <1>9, <2>2 DEF InspectCrashed
    <3> QED
      BY <3>1 DEF ContainerOK, ContainerTypeOK, ContainerInv, Gone, Exists, AfterReap, Go, Step, Error
  <2> QED
    BY <2>1, <2>2
<1>10. CASE Discard(c)
  <2>1. CASE UNCHANGED <<box, code>> /\ GiveUp(c, {"crash"})
    BY <1>10, <2>1, GiveUpKeeps DEF Discard
  <2>2. CASE ~(UNCHANGED <<box, code>> /\ GiveUp(c, {"crash"}))
    <3>1. RemoveBox(c) /\ Go(c, "vanished", {}) /\ at[c] = "discard" /\ UNCHANGED <<cli, ctx>>
      BY <1>10, <2>2 DEF Discard
    <3> QED
      BY <3>1 DEF ContainerOK, ContainerTypeOK, ContainerInv, Gone, Exists, AfterReap, Go, RemoveBox, Become,
              Step, Error
  <2> QED
    BY <2>1, <2>2
<1>11. CASE Vanished(c)
  <2>1. \/ Go(c, "done", {}) /\ ~Exists(c)
        \/ Go(c, "done", {"cleanup"})
    BY <1>11 DEF Vanished
  <2>2. at[c] = "vanished" /\ UNCHANGED <<cli, box, code, ctx>>
    BY <1>11 DEF Vanished
  <2> QED
    BY <2>1, <2>2 DEF ContainerOK, ContainerTypeOK, ContainerInv, Gone, Exists, AfterReap, Go, Step, Error
<1> QED
  BY <1>1, <1>3, <1>4, <1>5, <1>6, <1>7, <1>8, <1>9, <1>10, <1>11 DEF CrashStep

\* The release of the seed is a Boolean.
LEMMA ReleaseTyped ==
    ASSUME released \in BOOLEAN, NEW c \in Job, CrashStep(c)
    PROVE  released' \in BOOLEAN
  BY DEF CrashStep, Spawn, AtBoundary, JoinProbe, SeedObserved, CookieProbed, Kill, ReapCrashed,
         InspectCrashed, Discard, Vanished, Inject, GiveUp, Release

\* What the goroutines of the containers do keeps types and what is known of
\* containers.
LEMMA JobStepBase ==
    ASSUME Base, NEW c \in Job, JobStep(c)
    PROVE  Base'
<1>1. ContainerOK /\ released \in BOOLEAN
  BY DEF Base, TypeOK, ContainerOK, CollectorTypeOK
<1>2. CASE CrashStep(c)
  BY <1>1, <1>2, CrashStepKeeps, ReleaseTyped
     DEF Base, TypeOK, ContainerOK, CollectorTypeOK, ProfileTypeOK, JobStep, CrashStep, runVars, profileVars
<1>3. CASE ~CrashStep(c)
  <2>1. UNCHANGED <<profileVars, collectorVars, runVars>>
    BY <1>3 DEF JobStep
  <2>2. First(c) \in {"wait", "ready", "boundary", "observe"} /\ Signal(c) \in {"stop", "term"}
    BY DEF First, Signal
  <2>3. ContainerOK'
    BY <1>1, <1>3, <2>2, JobFacts, WaitKeeps, CleanUpKeeps DEF JobStep
  <2> QED
    BY <1>1, <2>1, <2>3
       DEF Base, TypeOK, ContainerOK, CollectorTypeOK, ProfileTypeOK, runVars, profileVars, collectorVars
<1> QED
  BY <1>2, <1>3

\* A step of a goroutine moves it forward and adds to its errors.
Moves(c) ==
    /\ at[c] \notin {"idle", "done"}
    /\ at'[c] \notin {"idle", "launch"}
    /\ errs[c] \subseteq errs'[c]
    /\ \A d \in Container \ {c} : at'[d] = at[d] /\ errs'[d] = errs[d]

\* It acts on no other container.
Alone(c) ==
    \A d \in Container \ {c} : box'[d] = box[d] /\ cli'[d] = cli[d] /\ code'[d] = code[d]

\* Go moves.
LEMMA GoMoves ==
    ASSUME ContainerTypeOK, NEW c \in Container, at[c] \notin {"idle", "done"},
           NEW s, s \notin {"idle", "launch"}, NEW E, Go(c, s, E)
    PROVE  Moves(c)
  BY DEF ContainerTypeOK, Go, Moves

\* What a step does to a command and a container, it does to one.
LEMMA ActsAlone ==
    ASSUME ContainerTypeOK, NEW c \in Container,
           UNCHANGED cli \/ Reap(c) \/ \E s : CommandIs(c, s),
           UNCHANGED <<box, code>> \/ RemoveBox(c) \/ \E b, k : Become(c, b, k)
    PROVE  Alone(c)
<1>1. \A d \in Container \ {c} : cli'[d] = cli[d]
  BY DEF ContainerTypeOK, Reap, CommandIs
<1>2. \A d \in Container \ {c} : box'[d] = box[d] /\ code'[d] = code[d]
  BY DEF ContainerTypeOK, RemoveBox, Become
<1> QED
  BY <1>1, <1>2 DEF Alone

\* A step of an injection moves its goroutine, or starts the probe.
LEMMA CrashStepMoves ==
    ASSUME Base, NEW c \in Container, CrashStep(c)
    PROVE  /\ Alone(c)
           /\ \/ Moves(c)
              \/ \E d \in Container :
                    /\ at[c] \notin {"idle", "done"} /\ UNCHANGED errs
                    /\ at[d] = "idle" /\ at' = [at EXCEPT ![d] = "launch"]
                    /\ <<c, d>> \in {<<"crash", "probe">>, <<"seed", "cookie">>}
<1>a. ContainerTypeOK /\ {"probe", "cookie"} \subseteq Container
  BY JobFacts DEF Base, TypeOK
<1>1. ASSUME NEW p \in {"probe", "cookie"}, NEW s \in {{"boundary", "joining"}, {"persist"}},
             Spawn(p, c, s)
      PROVE  /\ Alone(c) /\ at[c] \notin {"idle", "done"} /\ UNCHANGED errs
             /\ at[p] = "idle" /\ at' = [at EXCEPT ![p] = "launch"]
  BY <1>1 DEF Spawn, Alone, boxVars
<1> USE <1>a DEF Inject, GiveUp, boxVars
<1>2. CASE AtBoundary /\ c = "crash"
  BY <1>2, GoMoves, ActsAlone DEF AtBoundary
<1>3. CASE JoinProbe /\ c = "crash"
  BY <1>3, GoMoves, ActsAlone DEF JoinProbe
<1>4. CASE SeedObserved /\ c = "seed"
  BY <1>4, GoMoves, ActsAlone DEF SeedObserved
<1>5. CASE CookieProbed /\ c = "seed"
  BY <1>5, GoMoves, ActsAlone DEF CookieProbed
<1>6. CASE Kill(c)
  BY <1>6, GoMoves, ActsAlone DEF Kill
<1>7. CASE ReapCrashed(c)
  BY <1>7, GoMoves, ActsAlone DEF ReapCrashed
<1>8. CASE InspectCrashed(c)
  BY <1>8, GoMoves, ActsAlone DEF InspectCrashed
<1>9. CASE Discard(c)
  BY <1>9, GoMoves, ActsAlone DEF Discard
<1>10. CASE Vanished(c)
  BY <1>10, GoMoves, ActsAlone DEF Vanished
<1> QED
  BY <1>1, <1>2, <1>3, <1>4, <1>5, <1>6, <1>7, <1>8, <1>9, <1>10 DEF CrashStep

\* Every other step of a goroutine moves it.
LEMMA OwnStepMoves ==
    ASSUME Base, NEW c \in Container, JobStep(c), ~CrashStep(c)
    PROVE  Alone(c) /\ Moves(c)
<1>a. ContainerTypeOK
  BY DEF Base, TypeOK
<1> USE <1>a DEF boxVars
<1>1. CASE Launch(c, First(c))
  <2>1. First(c) \notin {"idle", "launch"}
    BY DEF First
  <2> QED
    BY <1>1, <2>1, GoMoves, ActsAlone DEF Launch
<1>2. CASE CommandReturns(c) \/ Canceled(c)
  BY <1>2, GoMoves, ActsAlone DEF CommandReturns, Canceled
<1>3. CASE BecomesReady(c) \/ DelayEnds(c, Signal(c))
  BY <1>3, GoMoves, ActsAlone DEF BecomesReady, DelayEnds, Signal
<1>4. CASE StopContainer(c) \/ SignalContainer(c)
  BY <1>4, GoMoves, ActsAlone DEF StopContainer, SignalContainer, AfterSignal
<1>5. CASE ReapInGrace(c) \/ GraceEnds(c) \/ InspectGone(c)
  BY <1>5, GoMoves, ActsAlone DEF ReapInGrace, GraceEnds, InspectGone
<1>6. CASE RemoveContainer(c)
  BY <1>6, GoMoves, ActsAlone DEF RemoveContainer
<1> QED
  BY <1>1, <1>2, <1>3, <1>4, <1>5, <1>6 DEF JobStep, CleanUp

-----------------------------------------------------------------------------
(* One container after another *)

\* A container begins when all before it are done, those that are not browsers
\* without an error; only the one Run waits for is at work.
InOrder ==
    /\ \A i, j \in DOMAIN Order : i < j /\ at[Order[j]] # "idle" =>
          at[Order[i]] = "done" /\ (Order[i] \notin SetOf(Browsed) => errs[Order[i]] = {})
    /\ \A i \in DOMAIN Order : at[Order[i]] \notin {"idle", "done"} => stage = Order[i]
    /\ \A i, j \in DOMAIN Order : i < j /\ stage = Order[i] => at[Order[j]] = "idle"
    /\ stage \in {"listen", "origin"} => \A i \in DOMAIN Order : at[Order[i]] = "idle"
    /\ stage = "volume" => at["attached"] = "done" /\ at["init"] = "idle"
    /\ stage = "posted" => at["verify"] = "done" /\ errs["verify"] = {}

Awaited ==
    /\ collect # "select" => stage \in SetOf(Browsed)
    /\ collect = "await" => at[stage] = "done"

\* Run begins with a container that has not begun.
LEMMA BeginKeeps ==
    ASSUME Base, InOrder, NEW n \in DOMAIN Order, Begin(Order[n], "launch"),
           at[Order[n]] = "idle", stage' = Order[n], UNCHANGED boxVars,
           \A c \in Container : "cleanup" \in errs'[c] <=> "cleanup" \in errs[c],
           \A c \in Container \ SetOf(Browsed) : errs[c] = {} => errs'[c] = {},
           \A i \in DOMAIN Order : i < n =>
              at[Order[i]] = "done" /\ (Order[i] \notin SetOf(Browsed) => errs[Order[i]] = {}),
           \A i \in DOMAIN Order : i > n => at[Order[i]] = "idle"
    PROVE  InOrder' /\ ContainerInv' /\ at' \in [Container -> Step]
<1>1. /\ at' \in [Container -> Step] /\ at'[Order[n]] = "launch" /\ Order[n] \in Container
      /\ \A c \in Container : c # Order[n] => at'[c] = at[c]
  BY JobFacts DEF Base, TypeOK, ContainerTypeOK, Begin, Step, SetOf
<1>2. ContainerInv'
  BY <1>1 DEF Base, ContainerInv, AfterReap, boxVars, Gone, Exists
<1>3. \A i \in DOMAIN Order : /\ i \in Nat /\ Order[i] \in Container
                              /\ i # n => Order[i] # Order[n] /\ at'[Order[i]] = at[Order[i]]
                              /\ Order[i] \notin Between
  BY <1>1, JobFacts, OrderIs DEF SetOf
<1>4. InOrder'
  <2>1. stage' \notin {"listen", "origin", "volume", "posted"}
    BY <1>3 DEF Between
  <2>2. ASSUME NEW i \in DOMAIN Order, NEW j \in DOMAIN Order, i < j, at'[Order[j]] # "idle"
        PROVE  at'[Order[i]] = "done" /\ (Order[i] \notin SetOf(Browsed) => errs'[Order[i]] = {})
    <3>1. j <= n
      BY <1>3, <2>2, OrderIs
    <3>2. i < n
      BY <1>3, <2>2, <3>1
    <3> QED
      BY <1>3, <3>2
  <2>3. ASSUME NEW i \in DOMAIN Order, at'[Order[i]] \notin {"idle", "done"}
        PROVE  stage' = Order[i]
    <3>1. ~(i > n) /\ ~(i < n)
      BY <1>3, <2>3
    <3> QED
      BY <1>3, <3>1
  <2>4. ASSUME NEW i \in DOMAIN Order, NEW j \in DOMAIN Order, i < j, stage' = Order[i]
        PROVE  at'[Order[j]] = "idle"
    <3>1. i = n
      BY <1>3, <2>4
    <3> QED
      BY <1>3, <2>4, <3>1
  <2> QED
    BY <2>1, <2>2, <2>3, <2>4 DEF InOrder
<1> QED
  BY <1>1, <1>2, <1>4

\* Run goes on after a container that has returned.
LEMMA ProceedKeeps ==
    ASSUME Base, InOrder, NEW n \in DOMAIN Order, stage = Order[n], at[Order[n]] = "done",
           Order[n] \notin SetOf(Browsed) => errs[Order[n]] = {},
           Proceed(Order[n]), UNCHANGED boxVars
    PROVE  /\ InOrder' /\ ContainerInv'
           /\ at' \in [Container -> Step] /\ errs' \in [Container -> SUBSET Error]
           /\ stage' \in SetOf(Order) \cup Between
           /\ \A c \in Container \ SetOf(Browsed) : errs[c] = {} => errs'[c] = {}
<1> DEFINE c == Order[n]
<1>1. c \in Container /\ c \in SetOf(Order) /\ c \notin Between
  BY JobFacts DEF SetOf
<1>2. /\ errs' \in [Container -> SUBSET Error]
      /\ \A d \in Container : "cleanup" \in errs'[d] <=> "cleanup" \in errs[d]
      /\ \A d \in Container : errs[d] = {} => errs'[d] = {}
  BY <1>1 DEF Proceed, Forget, Base, TypeOK, ContainerTypeOK, Error
<1>3. CASE c \in {"attached", "verify"}
  <2>1. /\ UNCHANGED at
        /\ stage' = IF c = "attached" THEN "volume" ELSE "posted"
    BY <1>3 DEF Proceed, To
  <2>2. at \in [Container -> Step]
    BY DEF Base, TypeOK, ContainerTypeOK
  <2>3. ContainerInv'
    BY <1>2, <2>1 DEF Base, ContainerInv, AfterReap, boxVars, Gone, Exists
  <2>4. \A i \in DOMAIN Order : Order[i] \in Container /\ Order[i] \notin Between
    BY JobFacts DEF SetOf
  <2>5. c = "attached" => at["init"] = "idle"
    <3>1. N + 2 \in DOMAIN Order /\ N + 3 \in DOMAIN Order /\ N + 2 < N + 3
      BY OrderIs
    <3> QED
      BY <3>1, OrderIs, JobFacts DEF InOrder
  <2>6. \A i \in DOMAIN Order : at[Order[i]] \in {"idle", "done"}
    BY JobFacts DEF InOrder
  <2>7. stage' \in {"volume", "posted"} /\ stage' \in Between
    BY <2>1 DEF Between
  <2>8. InOrder'
    <3>1. \A i, j \in DOMAIN Order : i < j /\ at'[Order[j]] # "idle" =>
             at'[Order[i]] = "done" /\ (Order[i] \notin SetOf(Browsed) => errs'[Order[i]] = {})
      BY <1>2, <2>1, <2>4 DEF InOrder
    <3>2. stage' = "posted" => at'["verify"] = "done" /\ errs'["verify"] = {}
      BY <1>1, <1>2, <1>3, <2>1, JobFacts
    <3> QED
      BY <1>1, <1>3, <2>1, <2>4, <2>5, <2>6, <2>7, <3>1, <3>2 DEF InOrder
  <2> QED
    BY <1>2, <2>1, <2>2, <2>3, <2>7, <2>8
<1>4. CASE c \notin {"attached", "verify"}
  <2>1. n + 1 \in DOMAIN Order
    BY <1>4, OrderIs
  <2>2. stage' = Order[n + 1] /\ Begin(Order[n + 1], "launch")
    BY <1>4, PlaceIs DEF Proceed
  <2>3. \A i \in DOMAIN Order : i >= n + 1 => at[Order[i]] = "idle"
    BY OrderIs DEF InOrder
  <2>4. \A i \in DOMAIN Order : i < n + 1 =>
           at[Order[i]] = "done" /\ (Order[i] \notin SetOf(Browsed) => errs[Order[i]] = {})
    BY OrderIs DEF InOrder
  <2>5. InOrder' /\ ContainerInv' /\ at' \in [Container -> Step]
    BY <1>2, <2>1, <2>2, <2>3, <2>4, BeginKeeps, OrderIs
  <2> QED
    BY <1>2, <2>1, <2>2, <2>5 DEF SetOf
<1> QED
  BY <1>3, <1>4

\* Run leaves the order behind.
LEMMA LeaveKeeps ==
    ASSUME Base, InOrder, UNCHANGED <<boxVars, jobVars>>,
           stage \in SetOf(Order) => at[stage] = "done",
           \/ stage' \in {"unvolume", "report", "teardown", "shutdown", "ended"}
           \/ stage = "listen" /\ stage' = "origin"
    PROVE  InOrder' /\ ContainerInv' /\ stage' \in Between
<1>1. ContainerInv'
  BY DEF Base, ContainerInv, AfterReap, boxVars, jobVars, Gone, Exists
<1>2. \A i \in DOMAIN Order : Order[i] \in SetOf(Order) /\ Order[i] \notin Between
  BY JobFacts DEF SetOf
<1>3. stage' \in Between /\ stage' \notin {"listen", "volume", "posted"}
  BY DEF Between
<1>4. \A i \in DOMAIN Order : at[Order[i]] \in {"idle", "done"}
  BY <1>2 DEF InOrder
<1>5. stage' = "origin" => \A i \in DOMAIN Order : at[Order[i]] = "idle"
  BY DEF InOrder
<1>6. InOrder'
  BY <1>2, <1>3, <1>4, <1>5 DEF InOrder, jobVars
<1> QED
  BY <1>1, <1>3, <1>6

\* The way out after an error.
LEMMA FailJobIs ==
    ASSUME NEW c, FailJob(c)
    PROVE  /\ stage' \in {"unvolume", "teardown"} /\ failed' = TRUE
           /\ UNCHANGED jobVars
  BY DEF FailJob, Fail, To, jobVars

OrderOK == Base /\ InOrder /\ Awaited

\* The steps of Run.
LEMMA RunOrder ==
    ASSUME OrderOK, RunStep
    PROVE  OrderOK'
<1>a. /\ UNCHANGED <<boxVars, cookie, session>>
      /\ CollectorTypeOK' /\ ProfileTypeOK'
  BY DEF OrderOK, Base, TypeOK, CollectorTypeOK, ProfileTypeOK, RunStep, StayOut, profileVars
<1> DEFINE Rest == /\ ctx' \in [Container \cup {Run} -> Cause]
                   /\ collect' \in {"select", "seen", "lost", "await"}
                   /\ evidence' \in SUBSET Fact
                   /\ volume' \in {"none", "created", "removed"}
                   /\ report' \in {"none", "pass", "fail"}
                   /\ serving' \in {"up", "failed", "closed"}
                   /\ failed' \in BOOLEAN
<1>b. ASSUME Rest, InOrder', Awaited', ContainerInv', at' \in [Container -> Step],
             errs' \in [Container -> SUBSET Error], stage' \in SetOf(Order) \cup Between
      PROVE  OrderOK'
  BY <1>a, <1>b DEF OrderOK, Base, TypeOK, ContainerTypeOK, boxVars
<1>c. /\ at \in [Container -> Step] /\ errs \in [Container -> SUBSET Error]
      /\ stage \in SetOf(Order) \cup Between
      /\ ctx \in [Container \cup {Run} -> Cause]
      /\ collect \in {"select", "seen", "lost", "await"}
      /\ evidence \in SUBSET Fact
      /\ volume \in {"none", "created", "removed"}
      /\ report \in {"none", "pass", "fail"}
      /\ serving \in {"up", "failed", "closed"}
      /\ failed \in BOOLEAN
  BY DEF OrderOK, Base, TypeOK, ContainerTypeOK
<1>d. \A c : c \in SetOf(Browsed) => c \in SetOf(Order) /\ c \in Container /\ c \notin Between
  BY JobFacts, OrderIs DEF SetOf
<1>e. ASSUME collect = "select", UNCHANGED collect PROVE Awaited'
  BY <1>e DEF Awaited
<1>f. stage \in Between => collect = "select"
  BY <1>d DEF OrderOK, Awaited
<1>g. \A s \in Between : s \notin SetOf(Order)
  BY JobFacts
<1>h. ASSUME Rest, UNCHANGED <<jobVars, collect>>, stage \in Between,
             stage' \in {"unvolume", "report", "teardown", "shutdown", "ended"}
                \/ (stage = "listen" /\ stage' = "origin")
      PROVE  OrderOK'
  <2>1. InOrder' /\ ContainerInv' /\ stage' \in Between
    BY <1>a, <1>g, <1>h, LeaveKeeps DEF OrderOK
  <2> QED
    BY <1>b, <1>c, <1>e, <1>f, <1>h, <2>1 DEF jobVars
<1>1. CASE Listen
  BY <1>1, <1>c, <1>h DEF Listen, To, Fail, jobVars, Between
<1>2. CASE Origin
  <2>0. Rest /\ stage = "origin" /\ UNCHANGED <<errs, collect>>
    BY <1>2, <1>c DEF Origin, To, Fail
  <2>1. CASE stage' = Order[1] /\ Begin(Order[1], "launch")
    <3>1. 1 \in DOMAIN Order /\ \A i \in DOMAIN Order : i >= 1
      BY OrderIs
    <3>2. \A i \in DOMAIN Order : at[Order[i]] = "idle"
      BY <2>0 DEF OrderOK, InOrder
    <3>3. InOrder' /\ ContainerInv' /\ at' \in [Container -> Step]
      BY <1>a, <2>0, <2>1, <3>1, <3>2, BeginKeeps, OrderIs DEF OrderOK
    <3>4. stage' \in SetOf(Order)
      BY <2>1, <3>1 DEF SetOf
    <3> QED
      BY <1>b, <1>c, <1>e, <1>f, <2>0, <3>3, <3>4 DEF Between
  <2>2. CASE ~(stage' = Order[1] /\ Begin(Order[1], "launch"))
    <3>1. stage' = "shutdown" /\ UNCHANGED jobVars
      BY <1>2, <2>0, <2>2 DEF Origin, Fail, To, jobVars
    <3> QED
      BY <1>h, <2>0, <3>1 DEF Between
  <2> QED
    BY <2>1, <2>2
<1>3. CASE CreateVolume
  <2>0. Rest /\ stage = "volume" /\ UNCHANGED <<errs, collect>>
    BY <1>3, <1>c DEF CreateVolume, To, Fail
  <2>1. CASE stage' = "init" /\ Begin("init", "launch")
    <3>1. N + 3 \in DOMAIN Order /\ N + 2 \in DOMAIN Order
      BY OrderIs
    <3>2. \A i \in DOMAIN Order : i >= N + 3 => at[Order[i]] = "idle"
      BY <2>0, <3>1, OrderIs DEF OrderOK, InOrder
    <3>3. \A i \in DOMAIN Order : i < N + 3 =>
             at[Order[i]] = "done" /\ (Order[i] \notin SetOf(Browsed) => errs[Order[i]] = {})
      <4>1. at["attached"] # "idle" /\ at["attached"] = "done" /\ "attached" \in SetOf(Browsed)
        BY <2>0, JobFacts DEF OrderOK, InOrder
      <4>2. \A i \in DOMAIN Order : i < N + 3 => i = N + 2 \/ i < N + 2
        BY OrderIs
      <4> QED
        BY <3>1, <4>1, <4>2, OrderIs DEF OrderOK, InOrder
    <3>4. InOrder' /\ ContainerInv' /\ at' \in [Container -> Step]
      BY <1>a, <2>0, <2>1, <3>1, <3>2, <3>3, BeginKeeps, OrderIs DEF OrderOK
    <3>5. stage' \in SetOf(Order)
      BY <2>1, <3>1, OrderIs DEF SetOf
    <3> QED
      BY <1>b, <1>c, <1>e, <1>f, <2>0, <3>4, <3>5 DEF Between
  <2>2. CASE ~(stage' = "init" /\ Begin("init", "launch"))
    <3>1. stage' = "report" /\ UNCHANGED jobVars
      BY <1>3, <2>0, <2>2 DEF CreateVolume, Fail, To, jobVars
    <3> QED
      BY <1>h, <2>0, <3>1 DEF Between
  <2> QED
    BY <2>1, <2>2
<1>4. CASE Posted
  <2>1. evidence' \in SUBSET Fact
    BY <1>4, <1>c DEF Posted, Fact
  <2> QED
    BY <1>4, <1>c, <1>h, <2>1 DEF Posted, To, jobVars, Between
<1>5. CASE RemoveVolume
  BY <1>5, <1>c, <1>h DEF RemoveVolume, To, jobVars, Between
<1>6. CASE WriteReport
  BY <1>6, <1>c, <1>h DEF WriteReport, To, jobVars, Between
<1>7. CASE TearDown
  BY <1>7, <1>c, <1>h DEF TearDown, To, jobVars, Between
<1>8. CASE Shutdown
  BY <1>8, <1>c, <1>h DEF Shutdown, To, jobVars, Between
<1> DEFINE Returned(c) == /\ c \in SetOf(Order) /\ stage = c /\ at[c] = "done" /\ Rest /\ collect' = "select"
                          /\ \/ FailJob(c)
                             \/ Proceed(c) /\ (c \notin SetOf(Browsed) => errs[c] = {})
<1>i. ASSUME NEW c, Returned(c) PROVE OrderOK'
  <2>1. PICK n \in DOMAIN Order : c = Order[n]
    BY <1>i DEF SetOf
  <2>2. InOrder' /\ ContainerInv' /\ at' \in [Container -> Step]
        /\ errs' \in [Container -> SUBSET Error] /\ stage' \in SetOf(Order) \cup Between
    <3>1. CASE FailJob(c)
      <4>1. stage' \in {"unvolume", "teardown"} /\ UNCHANGED jobVars
        BY <3>1, FailJobIs
      <4> QED
        BY <1>a, <1>c, <1>i, <4>1, LeaveKeeps DEF OrderOK, jobVars
    <3>2. CASE ~FailJob(c)
      BY <1>a, <1>i, <2>1, <3>2, ProceedKeeps DEF OrderOK
    <3> QED
      BY <3>1, <3>2
  <2>3. Awaited'
    BY <1>i DEF Awaited
  <2> QED
    BY <1>b, <1>i, <2>2, <2>3
<1>9. ASSUME NEW c \in Job, JobReturns(c) PROVE OrderOK'
  <2>1. c \in SetOf(Order) /\ c \notin SetOf(Browsed) /\ stage = c /\ at[c] = "done"
    <3>1. stage = c /\ at[c] = "done" /\ c \notin SetOf(Browsed)
      BY <1>9 DEF JobReturns
    <3>2. c \in SetOf(Order) \/ c \in {"probe", "cookie"}
      BY <1>9, JobFacts
    <3>3. {"probe", "cookie"} \cap (SetOf(Order) \cup Between) = {}
      BY JobFacts DEF Between
    <3> QED
      BY <1>c, <3>1, <3>2, <3>3
  <2>2. evidence' \in SUBSET Fact
    BY <1>9, <1>c DEF JobReturns, Proves, Fact
  <2>3. collect = "select"
    BY <2>1 DEF OrderOK, Awaited
  <2>4. failed' \in BOOLEAN
    BY <1>9, <1>c DEF JobReturns, Proceed, FailJob, Fail
  <2> QED
    BY <1>9, <1>c, <1>i, <2>1, <2>2, <2>3, <2>4 DEF JobReturns
<1>10. ASSUME NEW c \in SetOf(Browsed), Select(c) \/ LaunchEnded(c) \/ AwaitReport(c) PROVE OrderOK'
  <2>0. c \in SetOf(Order) /\ c \in Container
    BY <1>d
  <2>1. CancelContext(c) => ctx' \in [Container \cup {Run} -> Cause]
    BY <1>c DEF CancelContext, Cause
  <2>2. FailJob(c) \/ Proceed(c) => failed' \in BOOLEAN
    BY <1>c DEF Proceed, FailJob, Fail
  <2>3. CASE Select(c) /\ UNCHANGED <<stage, at, errs, failed>>
    <3>1. Rest /\ Awaited'
      BY <1>10, <1>c, <2>1, <2>3 DEF Select, Awaited
    <3>2. InOrder' /\ ContainerInv'
      BY <1>a, <2>3 DEF OrderOK, Base, InOrder, ContainerInv, AfterReap, boxVars, Gone, Exists
    <3> QED
      BY <1>b, <1>c, <2>3, <3>1, <3>2
  <2>4. CASE Select(c) /\ ~UNCHANGED <<stage, at, errs, failed>>
    BY <1>10, <1>c, <1>i, <2>0, <2>1, <2>2, <2>4 DEF Select
  <2>5. CASE LaunchEnded(c)
    BY <1>c, <1>i, <2>0, <2>2, <2>5 DEF LaunchEnded
  <2>6. CASE AwaitReport(c)
    BY <1>c, <1>i, <2>0, <2>1, <2>2, <2>6 DEF AwaitReport, OrderOK, Awaited
  <2> QED
    BY <1>10, <2>3, <2>4, <2>5, <2>6
<1> QED
  BY <1>1, <1>2, <1>3, <1>4, <1>5, <1>6, <1>7, <1>8, <1>9, <1>10 DEF RunStep

\* The goroutines of the containers keep the order: only the one Run waits for
\* is at work, and none goes back.
LEMMA JobOrder ==
    ASSUME OrderOK, NEW c \in Job, JobStep(c)
    PROVE  OrderOK'
<1>1. Base'
  BY JobStepBase DEF OrderOK
<1>2. c \in Container /\ UNCHANGED <<stage, collect>>
  BY JobFacts DEF JobStep, runVars
<1>3. /\ at[c] \notin {"idle", "done"}
      /\ \/ Moves(c)
         \/ \E d \in {"probe", "cookie"} : at[d] = "idle" /\ at' = [at EXCEPT ![d] = "launch"] /\ UNCHANGED errs
  <2>1. CASE CrashStep(c)
    BY <1>2, <2>1, CrashStepMoves DEF OrderOK, Moves
  <2>2. CASE ~CrashStep(c)
    BY <1>2, <2>2, OwnStepMoves DEF OrderOK, Moves
  <2> QED
    BY <2>1, <2>2
<1>4. stage \in SetOf(Order) \cup Between
  BY DEF OrderOK, Base, TypeOK
<1>5. \A i \in DOMAIN Order : Order[i] \in Container /\ Order[i] \notin {"probe", "cookie"}
                              /\ Order[i] \notin Between /\ i \in Nat
  <2>1. \A i \in DOMAIN Order : Order[i] \in SetOf(Order)
    BY DEF SetOf
  <2>2. \A i \in DOMAIN Order : i \in Nat
    BY OrderIs
  <2> QED
    BY <2>1, <2>2, JobFacts
<1>6. CASE \A i \in DOMAIN Order : Order[i] # c
  <2>1. \A i \in DOMAIN Order : at'[Order[i]] = at[Order[i]] /\ errs'[Order[i]] = errs[Order[i]]
    BY <1>3, <1>5, <1>6, JobFacts DEF Moves, OrderOK, Base, TypeOK, ContainerTypeOK
  <2>2. InOrder'
    <3>1. \E i, j \in DOMAIN Order : "init" = Order[i] /\ "attached" = Order[j]
      BY OrderIs
    <3>2. \E i \in DOMAIN Order : "verify" = Order[i]
      BY OrderIs
    <3> QED
      BY <1>2, <2>1, <3>1, <3>2 DEF OrderOK, InOrder
  <2>3. Awaited'
    <3>1. SetOf(Browsed) \subseteq SetOf(Order)
      BY JobFacts, OrderIs DEF SetOf
    <3> QED
      BY <1>2, <2>1, <3>1 DEF OrderOK, Awaited, SetOf
  <2> QED
    BY <1>1, <2>2, <2>3 DEF OrderOK
<1>7. ASSUME NEW n \in DOMAIN Order, Order[n] = c PROVE OrderOK'
  <2>1. stage = c
    BY <1>3, <1>7 DEF OrderOK, InOrder
  <2>2. stage \notin Between
    BY <1>5, <1>7, <2>1
  <2>3. \A i \in DOMAIN Order : i # n =>
           /\ Order[i] # c
           /\ at'[Order[i]] = at[Order[i]] /\ errs'[Order[i]] = errs[Order[i]]
    BY <1>3, <1>5, <1>7, JobFacts DEF Moves, OrderOK, Base, TypeOK, ContainerTypeOK
  <2>4. \A i \in DOMAIN Order : i > n => at'[Order[i]] = "idle"
    BY <1>5, <1>7, <2>1, <2>3 DEF OrderOK, InOrder
  <2>5. \A i \in DOMAIN Order : i < n =>
           at'[Order[i]] = "done" /\ (Order[i] \notin SetOf(Browsed) => errs'[Order[i]] = {})
    BY <1>3, <1>5, <1>7, <2>3 DEF OrderOK, InOrder
  <2>6. \A i \in DOMAIN Order : i = n \/ i < n \/ i > n
    BY <1>5
  <2>7. ASSUME NEW i \in DOMAIN Order, NEW j \in DOMAIN Order, i < j, at'[Order[j]] # "idle"
        PROVE  at'[Order[i]] = "done" /\ (Order[i] \notin SetOf(Browsed) => errs'[Order[i]] = {})
    <3>1. i < n
      BY <1>5, <1>7, <2>4, <2>6, <2>7
    <3> QED
      BY <2>5, <3>1
  <2>8. \A i \in DOMAIN Order : at'[Order[i]] \notin {"idle", "done"} => stage' = Order[i]
    BY <1>2, <1>7, <2>1, <2>4, <2>5, <2>6
  <2>9. \A i, j \in DOMAIN Order : i < j /\ stage' = Order[i] => at'[Order[j]] = "idle"
    BY <1>2, <1>7, <2>1, <2>3, <2>4
  <2>10. stage' \notin {"listen", "origin", "volume", "posted"}
    BY <1>2, <2>2 DEF Between
  <2>11. InOrder'
    BY <2>7, <2>8, <2>9, <2>10 DEF InOrder
  <2>12. Awaited'
    BY <1>2, <1>3, <2>1 DEF OrderOK, Awaited
  <2> QED
    BY <1>1, <2>11, <2>12 DEF OrderOK
<1> QED
  BY <1>6, <1>7

\* What leaves the goroutines alone keeps the order.
LEMMA OrderStays ==
    ASSUME InOrder, Awaited, UNCHANGED <<at, errs, stage, collect>>
    PROVE  InOrder' /\ Awaited'
  BY DEF InOrder, Awaited

\* What runs beside Run and the goroutines keeps types and containers: the
\* waiters of the endpoint,
LEMMA WaiterBase ==
    ASSUME Base, NEW k \in Kind, Waiter(k)
    PROVE  Base'
<1>1. CollectorTypeOK'
  BY DEF Base, TypeOK, CollectorTypeOK, Waiter, Asked, Check, Wake, Expire, Waiting
<1> QED
  BY <1>1 DEF Base, TypeOK, ContainerTypeOK, ContainerInv, AfterReap, Gone, Exists, ProfileTypeOK,
              Waiter, containerVars, profileVars, runVars

\* the handlers,
LEMMA HandlerBase ==
    ASSUME Base,
           (\E k \in Cookied : Handle(k)) \/ Respond
              \/ (Drop /\ UNCHANGED <<containerVars, profileVars, runVars>>)
    PROVE  Base'
<1>1. CollectorTypeOK'
  BY KindAssumption DEF Base, TypeOK, CollectorTypeOK, Handle, Mark, Respond, Answer, Drop
<1> QED
  BY <1>1 DEF Base, TypeOK, ContainerTypeOK, ContainerInv, AfterReap, Gone, Exists, ProfileTypeOK,
              Handle, Respond, containerVars, profileVars, runVars

\* the end of the context,
LEMMA ContextBase ==
    ASSUME Base, ServeFails \/ \E cause \in Causes : ContextEnds(cause)
    PROVE  Base'
<1>1. PICK cause \in {"canceled", "deadline"} : EndRun(cause)
  BY ConformanceAssumption DEF ServeFails, ContextEnds
<1>2. UNCHANGED <<boxVars, jobVars>>
  BY DEF ServeFails, ContextEnds
<1>3. ContainerOK'
  BY <1>1, <1>2, ContextKeeps DEF Base, TypeOK, ContainerOK
<1> QED
  BY <1>3 DEF Base, TypeOK, ContainerOK, CollectorTypeOK, ProfileTypeOK, ServeFails, ContextEnds,
              collectorVars, profileVars, runVars

\* docker and the programs,
LEMMA DockerBase ==
    ASSUME Base, NEW c \in Job, Docker(c) \/ (Program(c) /\ UNCHANGED runVars)
    PROVE  Base'
<1>1. c \in Container
  BY JobFacts
<1>2. Daemon(c) \/ \E k \in {"zero", "nonzero"} : ProgramEnds(c, k)
  BY DEF Docker, Program
<1>3. ContainerOK'
  BY <1>1, <1>2, DaemonKeeps DEF Base, TypeOK, ContainerOK
<1> QED
  BY <1>3 DEF Base, TypeOK, ContainerOK, CollectorTypeOK, ProfileTypeOK, Docker, Program,
              collectorVars, profileVars, runVars

\* and the browsers.
LEMMA ProfileBase ==
    ASSUME Base, UNCHANGED runVars,
           \/ \E c \in Job : TakeProfile(c)
           \/ Flush
           \/ \E k \in Kind : Request(k, k)
    PROVE  Base'
<1>1. UNCHANGED containerVars
  BY DEF TakeProfile, Flush, Request
<1>2. CollectorTypeOK'
  BY DEF Base, TypeOK, CollectorTypeOK, TakeProfile, Flush, Request, Navigate, Observe, collectorVars
<1>3. ProfileTypeOK'
  BY DEF Base, TypeOK, ProfileTypeOK, TakeProfile, Flush, Request
<1> QED
  BY <1>1, <1>2, <1>3
     DEF Base, TypeOK, ContainerTypeOK, ContainerInv, AfterReap, Gone, Exists, containerVars, runVars

\* What runs beside Run, apart from its containers' goroutines.
Beside ==
    \/ \E k \in Kind : Waiter(k)
    \/ \E k \in Cookied : Handle(k)
    \/ Respond
    \/ ServeFails
    \/ \E cause \in Causes : ContextEnds(cause)
    \/ World

\* None of them touches the course of the run.
LEMMA BesideOrder ==
    ASSUME OrderOK, Beside
    PROVE  OrderOK'
<1>1. Base'
  BY WaiterBase, HandlerBase, ContextBase, DockerBase, ProfileBase DEF OrderOK, Beside, World
<1>2. UNCHANGED <<at, errs, stage, collect>>
  BY DEF Beside, World, Waiter, Handle, Respond, ServeFails, ContextEnds, Docker, Daemon, Create, AutoRemove,
         CommandExits, Program, ProgramEnds, TakeProfile, Flush, Request, Drop, containerVars,
         jobVars, runVars
<1> QED
  BY <1>1, <1>2, OrderStays DEF OrderOK

\* Nothing has begun.
LEMMA OrderStarts == Init => OrderOK
<1> SUFFICES ASSUME Init PROVE OrderOK
  OBVIOUS
<1>1. ContainerOK
  BY ContainerStarts DEF Init
<1>2. Base
  BY <1>1 DEF Init, Base, TypeOK, ContainerOK, CollectorInit, CollectorTypeOK, ProfileInit, ProfileTypeOK,
              Between, Fact
<1>3. \A i \in DOMAIN Order : Order[i] \in Container /\ Order[i] \notin Between
  BY JobFacts DEF SetOf
<1>4. InOrder /\ Awaited
  BY <1>3 DEF Init, ContainerInit, InOrder, Awaited, Between
<1> QED
  BY <1>2, <1>4 DEF OrderOK

\* Stuttering changes nothing.
LEMMA OrderUnchanged == ASSUME OrderOK, UNCHANGED vars PROVE OrderOK'
<1>1. Base'
  BY DEF OrderOK, Base, TypeOK, ContainerTypeOK, CollectorTypeOK, ProfileTypeOK, ContainerInv, AfterReap, Gone,
         Exists, vars, containerVars, collectorVars, profileVars, runVars
<1>2. InOrder' /\ Awaited'
  BY OrderStays DEF OrderOK, vars, containerVars, runVars
<1> QED
  BY <1>1, <1>2 DEF OrderOK

\* Every step keeps the order.
LEMMA OrderNext == ASSUME OrderOK, [Next]_vars PROVE OrderOK'
  BY RunOrder, JobOrder, BesideOrder, OrderUnchanged DEF Next, Beside

\* The first part of the invariant.
LEMMA OrderInvariant == Spec => []OrderOK
  BY OrderStarts, OrderNext, PTL DEF Spec

\* Every variable keeps its type, whatever the versions and scenarios.
THEOREM ConformanceTyping == Spec => []TypeOK
<1>1. OrderOK => TypeOK
  BY DEF OrderOK, Base
<1> QED
  BY <1>1, OrderInvariant, PTL

\* A goroutine that ends without an error of its cleanup leaves no container,
\* and nobody who could still create it (cleanupLifecycleContainer).
THEOREM CleanedUpIsGone == Spec => []CleanMeansGone
<1>1. OrderOK => CleanMeansGone
  BY OKMeansGone DEF OrderOK, Base, TypeOK, ContainerOK
<1> QED
  BY <1>1, OrderInvariant, PTL

-----------------------------------------------------------------------------
(* The two crashes *)

\* Run starts containers that have not begun, and drops errors of browsers only.
LEMMA RunMoves ==
    ASSUME OrderOK, RunStep
    PROVE  \A c \in Container :
              /\ at'[c] = at[c] \/ (at[c] = "idle" /\ at'[c] = "launch" /\ c \in SetOf(Order))
              /\ c \notin SetOf(Browsed) => errs'[c] = errs[c]
<1>a. at \in [Container -> Step] /\ errs \in [Container -> SUBSET Error]
      /\ stage \in SetOf(Order) \cup Between
  BY DEF OrderOK, Base, TypeOK, ContainerTypeOK
<1> DEFINE Moved == \A c \in Container :
              /\ at'[c] = at[c] \/ (at[c] = "idle" /\ at'[c] = "launch" /\ c \in SetOf(Order))
              /\ c \notin SetOf(Browsed) => errs'[c] = errs[c]
<1>1. CASE UNCHANGED jobVars
  BY <1>1 DEF jobVars
<1>2. ASSUME NEW n \in DOMAIN Order, at[Order[n]] = "idle", Begin(Order[n], "launch"), UNCHANGED errs
      PROVE  Moved
  BY <1>2, <1>a DEF Begin, SetOf
<1>3. ASSUME NEW c \in SetOf(Order), stage = c, Proceed(c), c \notin SetOf(Browsed) => errs[c] = {}
      PROVE  Moved
  <2>1. PICK n \in DOMAIN Order : c = Order[n]
    BY DEF SetOf
  <2>2. \A d \in Container : d \notin SetOf(Browsed) => errs'[d] = errs[d]
    BY <1>3, <1>a DEF Proceed, Forget
  <2>3. CASE c \in {"attached", "verify"}
    BY <1>3, <2>2, <2>3 DEF Proceed, To
  <2>4. CASE c \notin {"attached", "verify"}
    <3>1. n + 1 \in DOMAIN Order /\ n < n + 1
      BY <2>1, <2>4, OrderIs
    <3>2. at[Order[n + 1]] = "idle" /\ Begin(Order[n + 1], "launch")
      BY <1>3, <2>1, <2>4, <3>1, PlaceIs DEF Proceed, OrderOK, InOrder
    <3> QED
      BY <1>a, <2>2, <3>1, <3>2 DEF Begin, SetOf
  <2> QED
    BY <2>3, <2>4
<1>4. CASE Listen \/ Posted \/ RemoveVolume \/ WriteReport \/ TearDown \/ Shutdown
  BY <1>1, <1>4 DEF Listen, Posted, RemoveVolume, WriteReport, TearDown, Shutdown, To, Fail, jobVars
<1>5. CASE Origin
  <2>1. 1 \in DOMAIN Order
    BY OrderIs
  <2>2. at[Order[1]] = "idle"
    BY <1>5, <2>1 DEF Origin, OrderOK, InOrder
  <2> QED
    BY <1>1, <1>2, <1>5, <2>1, <2>2 DEF Origin, Fail, To, jobVars
<1>6. CASE CreateVolume
  <2>1. N + 3 \in DOMAIN Order /\ Order[N + 3] = "init"
    BY OrderIs
  <2>2. at["init"] = "idle"
    BY <1>6 DEF CreateVolume, OrderOK, InOrder
  <2> QED
    BY <1>1, <1>2, <1>6, <2>1, <2>2 DEF CreateVolume, Fail, To, jobVars
<1>7. ASSUME NEW c \in Job, JobReturns(c) PROVE Moved
  <2>1. stage = c /\ c \notin SetOf(Browsed)
    BY <1>7 DEF JobReturns
  <2>2. c \in SetOf(Order)
    <3>1. c \in SetOf(Order) \/ c \in {"probe", "cookie"}
      BY JobFacts
    <3>2. {"probe", "cookie"} \cap (SetOf(Order) \cup Between) = {}
      BY JobFacts DEF Between
    <3> QED
      BY <1>a, <2>1, <3>1, <3>2
  <2> QED
    BY <1>1, <1>3, <1>7, <2>1, <2>2, FailJobIs DEF JobReturns
<1>8. ASSUME NEW c \in SetOf(Browsed), Select(c) \/ LaunchEnded(c) \/ AwaitReport(c) PROVE Moved
  <2>1. c \in SetOf(Order) /\ stage = c
    BY <1>8, JobFacts, OrderIs DEF Select, LaunchEnded, AwaitReport, SetOf
  <2> QED
    BY <1>1, <1>3, <1>8, <2>1, FailJobIs DEF Select, LaunchEnded, AwaitReport, jobVars
<1> QED
  BY <1>4, <1>5, <1>6, <1>7, <1>8 DEF RunStep

CrashSound ==
    errs["crash"] = {} =>
       /\ at["crash"] \in {"idle", "launch", "boundary"} \cup Killing \cup {"done"}
       /\ at["crash"] \in Killing \cup {"done"} => at["probe"] = "done" /\ errs["probe"] = {}

SeedSound ==
    errs["seed"] = {} =>
       /\ at["seed"] \in {"idle", "launch", "observe", "persist"} \cup Killing \cup {"done"}
       /\ at["seed"] \in {"persist"} \cup Killing \cup {"done"} => waiter[Seed] = "seen"
       /\ at["seed"] \in Killing \cup {"done"} => at["cookie"] = "done" /\ errs["cookie"] = {}

CleaningUp == {"wait", "ready", "delay", "stop", "term", "slay", "reap", "force", "forced",
               "remove", "inspect"}

\* What an injection does, one step after another, unless it gives up.
LEMMA CrashPath ==
    ASSUME Base, NEW c \in {"crash", "seed"}, JobStep(c)
    PROVE  \/ errs'[c] # {}
           \/ at[c] = "launch" /\ at'[c] = IF c = "crash" THEN "boundary" ELSE "observe"
           \/ at'[c] = at[c] /\ UNCHANGED errs /\ at[c] \notin Killing
           \/ /\ c = "crash" /\ at[c] = "boundary" /\ at'[c] = "kill"
              /\ at["probe"] = "done" /\ errs["probe"] = {}
           \/ c = "seed" /\ at[c] = "observe" /\ at'[c] = "persist" /\ waiter[Seed] = "seen"
           \/ /\ c = "seed" /\ at[c] = "persist" /\ at'[c] = "kill"
              /\ at["cookie"] = "done" /\ errs["cookie"] = {}
           \/ /\ at[c] = "kill" /\ at'[c] = "crashed" /\ UNCHANGED cli
              /\ box[c] = "running" /\ box'[c] # "running" /\ cli[c] \notin {"idle", "creating"}
           \/ at[c] \in Killing \ {"kill"} /\ at'[c] \in (Killing \ {"kill"}) \cup {"done"}
           \/ at[c] \in CleaningUp
<1>a. c \in Container /\ at \in [Container -> Step] /\ errs \in [Container -> SUBSET Error]
      /\ {"probe", "cookie"} \subseteq Container /\ box \in [Container -> {"none", "running", "stopped"}]
      /\ cli \in [Container -> {"idle", "creating", "attached", "reaped"} \cup Ended]
  BY JobFacts DEF Base, TypeOK, ContainerTypeOK
<1>b. ASSUME NEW s, NEW E, Go(c, s, E) PROVE at'[c] = s /\ errs'[c] = errs[c] \cup E
  BY <1>a, <1>b DEF Go
<1>c. ASSUME GiveUp(c, {"crash"}) PROVE errs'[c] # {}
  BY <1>b, <1>c DEF GiveUp
<1> USE DEF Inject
<1>1. CASE \/ c = "crash" /\ Spawn("probe", "crash", {"boundary", "joining"})
           \/ c = "seed" /\ Spawn("cookie", "seed", {"persist"})
  BY <1>1, <1>a DEF Spawn, Killing
<1>2. CASE c = "crash" /\ (AtBoundary \/ JoinProbe)
  BY <1>2, <1>b, <1>c DEF AtBoundary, JoinProbe
<1>3. CASE c = "seed" /\ (SeedObserved \/ CookieProbed)
  BY <1>3, <1>b, <1>c DEF SeedObserved, CookieProbed
<1>4. CASE Kill(c)
  <2>1. CASE GiveUp(c, {"crash"})
    BY <2>1, <1>c
  <2>2. CASE ~GiveUp(c, {"crash"})
    <3>1. at[c] = "kill" /\ box[c] = "running" /\ Become(c, "stopped", "killed") /\ Go(c, "crashed", {})
          /\ UNCHANGED cli
      BY <1>4, <2>2 DEF Kill
    <3>2. box'[c] = "stopped"
      BY <1>a, <3>1 DEF Become
    <3>3. cli[c] \notin {"idle", "creating"}
      BY <1>a, <3>1 DEF Base, ContainerInv
    <3> QED
      BY <1>b, <3>1, <3>2, <3>3
  <2> QED
    BY <2>1, <2>2
<1>5. CASE ReapCrashed(c)
  BY <1>5, <1>b, <1>c DEF ReapCrashed, Killing
<1>6. CASE InspectCrashed(c)
  BY <1>6, <1>b, <1>c DEF InspectCrashed, Killing
<1>7. CASE Discard(c)
  BY <1>7, <1>b, <1>c DEF Discard, Killing
<1>8. CASE Vanished(c)
  BY <1>8, <1>b DEF Vanished, Killing
<1>9. CASE Launch(c, First(c))
  <2>1. First(c) = IF c = "crash" THEN "boundary" ELSE "observe"
    <3>1. c \notin SetOf(Scenarios)
      BY NoScenario, OrderIs
    <3> QED
      BY <3>1 DEF First
  <2> QED
    BY <1>9, <1>b, <2>1 DEF Launch
<1>10. CASE CommandReturns(c) \/ Canceled(c) \/ BecomesReady(c) \/ DelayEnds(c, Signal(c)) \/ CleanUp(c)
  BY <1>10 DEF CommandReturns, Canceled, BecomesReady, DelayEnds, CleanUp, StopContainer, SignalContainer,
          ReapInGrace, GraceEnds, RemoveContainer, InspectGone, CleaningUp
<1> QED
  BY <1>1, <1>2, <1>3, <1>4, <1>5, <1>6, <1>7, <1>8, <1>9, <1>10 DEF JobStep, CrashStep

Kills == CrashSound /\ SeedSound

\* A goroutine leaves the others where they are, but for the probe it starts.
LEMMA OthersStay ==
    ASSUME OrderOK, NEW c \in Job, JobStep(c)
    PROVE  /\ at[c] # "done" /\ at[c] # "idle"
           /\ \A d \in Container \ {c} :
                 /\ errs'[d] = errs[d]
                 /\ \/ at'[d] = at[d]
                    \/ /\ at[d] = "idle" /\ at'[d] = "launch"
                       /\ <<c, d>> \in {<<"crash", "probe">>, <<"seed", "cookie">>}
           /\ UNCHANGED <<waiter, runVars>>
<1>1. c \in Container
  BY JobFacts
<1>2. UNCHANGED <<waiter, runVars>>
  BY DEF JobStep, CrashStep, collectorVars
<1>3. CASE CrashStep(c)
  <2>1. at \in [Container -> Step]
    BY DEF OrderOK, Base, TypeOK, ContainerTypeOK
  <2> QED
    BY <1>1, <1>2, <1>3, <2>1, CrashStepMoves DEF OrderOK, Moves
<1>4. CASE ~CrashStep(c)
  BY <1>1, <1>2, <1>4, OwnStepMoves DEF OrderOK, Moves
<1> QED
  BY <1>3, <1>4

\* A goroutine comes to its kill with what it must have found,
LEMMA JobKills ==
    ASSUME OrderOK, Kills, NEW c \in Job, JobStep(c)
    PROVE  Kills'
<1>a. {"crash", "seed", "probe", "cookie"} \subseteq Container /\ c \in Container
      /\ errs \in [Container -> SUBSET Error]
  BY JobFacts DEF OrderOK, Base, TypeOK, ContainerTypeOK
<1>1. CrashSound'
  <2>1. CASE c = "crash"
    <3>1. \/ errs'[c] # {}
          \/ at'[c] = "boundary"
          \/ at'[c] = at[c] /\ UNCHANGED errs /\ at[c] \notin Killing
          \/ at'[c] = "kill" /\ at["probe"] = "done" /\ errs["probe"] = {}
          \/ at[c] \in Killing /\ at'[c] \in Killing \cup {"done"}
          \/ at[c] \in CleaningUp
      BY <2>1, CrashPath DEF OrderOK, Killing
    <3>2. errs[c] # {} => errs'[c] # {}
      BY <1>a, CrashStepMoves, OwnStepMoves DEF OrderOK, Moves
    <3>3. at["probe"] = "done" => at'["probe"] = "done" /\ errs'["probe"] = errs["probe"]
      BY <1>a, <2>1, OthersStay
    <3> QED
      BY <2>1, <3>1, <3>2, <3>3, OthersStay DEF Kills, CrashSound, Killing, CleaningUp
  <2>2. CASE c # "crash"
    <3>1. at'["crash"] = at["crash"] /\ errs'["crash"] = errs["crash"]
      BY <1>a, <2>2, OthersStay
    <3>2. at["probe"] = "done" => at'["probe"] = "done" /\ errs'["probe"] = errs["probe"]
      BY <1>a, OthersStay
    <3> QED
      BY <3>1, <3>2 DEF Kills, CrashSound
  <2> QED
    BY <2>1, <2>2
<1>2. SeedSound'
  <2>1. CASE c = "seed"
    <3>1. \/ errs'[c] # {}
          \/ at'[c] = "observe"
          \/ at'[c] = at[c] /\ UNCHANGED errs /\ at[c] \notin Killing
          \/ at'[c] = "persist" /\ waiter[Seed] = "seen"
          \/ at[c] = "persist" /\ at'[c] = "kill" /\ at["cookie"] = "done" /\ errs["cookie"] = {}
          \/ at[c] \in Killing /\ at'[c] \in Killing \cup {"done"}
          \/ at[c] \in CleaningUp
      BY <2>1, CrashPath DEF OrderOK, Killing
    <3>2. errs[c] # {} => errs'[c] # {}
      BY <1>a, CrashStepMoves, OwnStepMoves DEF OrderOK, Moves
    <3>3. at["cookie"] = "done" => at'["cookie"] = "done" /\ errs'["cookie"] = errs["cookie"]
      BY <1>a, <2>1, OthersStay
    <3>4. UNCHANGED waiter
      BY OthersStay
    <3> QED
      BY <2>1, <3>1, <3>2, <3>3, <3>4, OthersStay DEF Kills, SeedSound, Killing, CleaningUp
  <2>2. CASE c # "seed"
    <3>1. at'["seed"] = at["seed"] /\ errs'["seed"] = errs["seed"] /\ UNCHANGED waiter
      BY <1>a, <2>2, OthersStay
    <3>2. at["cookie"] = "done" => at'["cookie"] = "done" /\ errs'["cookie"] = errs["cookie"]
      BY <1>a, OthersStay
    <3> QED
      BY <3>1, <3>2 DEF Kills, SeedSound
  <2> QED
    BY <2>1, <2>2
<1> QED
  BY <1>1, <1>2 DEF Kills

\* and Run takes no such finding back,
LEMMA RunKills ==
    ASSUME OrderOK, Kills, RunStep
    PROVE  Kills'
<1>1. {"crash", "seed", "probe", "cookie"} \subseteq Container \ SetOf(Browsed)
      /\ {"probe", "cookie"} \cap SetOf(Order) = {}
  BY JobFacts
<1>2. UNCHANGED waiter
  BY DEF RunStep, StayOut
<1>3. \A p \in {"probe", "cookie"} : at'[p] = at[p] /\ errs'[p] = errs[p]
  BY <1>1, RunMoves
<1>4. \A c \in {"crash", "seed"} :
         /\ at'[c] = at[c] \/ (at[c] = "idle" /\ at'[c] = "launch")
         /\ errs'[c] = errs[c]
  BY <1>1, RunMoves
<1> QED
  BY <1>2, <1>3, <1>4 DEF Kills, CrashSound, SeedSound, Killing

\* What has been seen stays seen.
LEMMA SeenStays ==
    ASSUME OrderOK, Beside, NEW k \in Kind, waiter[k] = "seen"
    PROVE  waiter'[k] = "seen"
<1>1. waiter \in [Kind -> {"idle", "checking", "blocked", "seen", "failed"}]
  BY DEF OrderOK, Base, TypeOK, CollectorTypeOK
<1>2. CASE UNCHANGED waiter
  BY <1>2
<1>3. ASSUME NEW l \in Kind, Waiter(l) PROVE waiter'[k] = "seen"
  BY <1>1, <1>3 DEF Waiter, Asked, Check, Wake, Expire, Waiting
<1>4. (\E l \in Kind : Waiter(l)) \/ UNCHANGED waiter
  BY DEF Beside, World, Handle, Mark, Respond, Answer, ServeFails, ContextEnds, Docker, Program,
         TakeProfile, Flush, Request, Navigate, Observe, Drop, collectorVars
<1> QED
  BY <1>2, <1>3, <1>4

\* nor does anything beside them,
LEMMA BesideMoves ==
    ASSUME Beside
    PROVE  UNCHANGED <<at, errs, stage, collect, evidence, volume, report, failed>>
  BY DEF Beside, World, Waiter, Handle, Respond, ServeFails, ContextEnds, Docker, Daemon, Create, AutoRemove,
         CommandExits, Program, ProgramEnds, TakeProfile, Flush, Request, Drop, containerVars,
         jobVars, runVars

\* which moves no goroutine.
LEMMA BesideKills ==
    ASSUME OrderOK, Kills, Beside
    PROVE  Kills'
<1>1. waiter[Seed] = "seen" => waiter'[Seed] = "seen"
  BY SeenStays, JobFacts
<1> QED
  BY <1>1, BesideMoves DEF Kills, CrashSound, SeedSound

-----------------------------------------------------------------------------
(* The endpoint and its waiters *)

Out == {"unvolume", "report", "teardown", "shutdown", "ended"}
Active(k) == waiter[k] \in {"checking", "blocked"}
Turn(k) == IF k = "verify" THEN "posted" ELSE k

\* One waiter at a time, in its turn; when Run is on its way out one may be left.
Watched ==
    /\ marked \cup observed \subseteq navigated
    /\ \A k \in Cookied : handler[k] # "idle" => k \in navigated
    /\ \A k \in Kind : waiter[k] = "seen" => Ready(k)
    /\ \A k \in Kind : Active(k) => stage = Turn(k) \/ stage \in Out
    /\ \A k, l \in Kind : Active(k) /\ Active(l) => k = l
    /\ collect = "seen" => waiter[stage] = "seen"
    /\ NoLostWakeup

\* The goroutines touch no waiter and no report.
LEMMA JobWatched ==
    ASSUME OrderOK, Watched, NEW c \in Job, JobStep(c)
    PROVE  Watched'
<1>1. UNCHANGED <<navigated, observed, marked, handler, token, waiter, runVars>>
  BY DEF JobStep, CrashStep, collectorVars
<1> QED
  BY <1>1 DEF Watched, Ready, Active, NoLostWakeup, runVars

\* A waiter sleeps after it has looked, and takes a token for itself alone.
LEMMA WaiterWatched ==
    ASSUME OrderOK, Watched, NEW k \in Kind, Waiter(k)
    PROVE  Watched'
<1>a. waiter \in [Kind -> {"idle", "checking", "blocked", "seen", "failed"}]
  BY DEF OrderOK, Base, TypeOK, CollectorTypeOK
<1>b. UNCHANGED <<navigated, observed, marked, handler, stage, collect>>
  BY DEF Waiter, Asked, Check, Wake, Expire, Waiting, runVars
<1>c. \A l \in Kind \ {k} : waiter'[l] = waiter[l]
  BY <1>a DEF Waiter, Asked, Check, Wake, Expire, Waiting
<1>d. collect = "seen" => stage \in Kind
  BY JobFacts DEF OrderOK, Awaited
<1>e. \A l \in Kind : Ready(l)' <=> Ready(l)
  BY <1>b DEF Ready
<1>1. CASE Asked(k)
  <2>1. waiter[k] = "idle" /\ waiter'[k] = "checking" /\ UNCHANGED token
    BY <1>1, <1>a DEF Asked, Waiting
  <2>2. stage = Turn(k)
    <3>1. CASE k = Seed
      <4>1. at["seed"] = "observe"
        BY <1>1, <3>1, JobFacts DEF Asked
      <4>2. PICK i \in DOMAIN Order : Order[i] = "seed"
        BY OrderIs
      <4> QED
        BY <3>1, <4>1, <4>2, JobFacts DEF OrderOK, InOrder, Turn
    <3>2. CASE k # Seed
      BY <1>1, <3>2, JobFacts DEF Asked, Turn
    <3> QED
      BY <3>1, <3>2
  <2>3. stage \notin Out
    <3>1. Kind \subseteq SetOf(Order)
      BY JobFacts, OrderIs DEF SetOf
    <3>2. Turn(k) \notin Out
      BY <3>1, JobFacts DEF Turn, Out, Between
    <3> QED
      BY <2>2, <3>2
  <2>4. \A l \in Kind : Active(l) => l = k
    BY <2>2, <2>3, JobFacts DEF Watched, Turn
  <2> QED
    BY <1>a, <1>b, <1>c, <1>d, <1>e, <2>1, <2>2, <2>4 DEF Watched, Active, NoLostWakeup
<1>2. CASE Check(k)
  BY <1>2, <1>a, <1>b, <1>c, <1>d, <1>e DEF Check, Waiting, Watched, Active, NoLostWakeup
<1>3. CASE Wake(k)
  BY <1>3, <1>a, <1>b, <1>c, <1>d, <1>e DEF Wake, Waiting, Watched, Active, NoLostWakeup
<1>4. CASE Expire(k)
  BY <1>4, <1>a, <1>b, <1>c, <1>d, <1>e DEF Expire, Waiting, Watched, Active, NoLostWakeup
<1> QED
  BY <1>1, <1>2, <1>3, <1>4 DEF Waiter

\* A handler that records something leaves a token.
LEMMA HandlersWatched ==
    ASSUME OrderOK, Watched,
           \/ \E k \in Cookied : Handle(k)
           \/ Respond
           \/ Drop /\ UNCHANGED <<containerVars, profileVars, runVars>>
           \/ UNCHANGED runVars /\ \E k \in Kind : Request(k, k)
    PROVE  Watched'
<1>a. UNCHANGED <<waiter, stage, collect>>
  BY DEF Handle, Mark, Respond, Answer, Drop, Request, Navigate, Observe, runVars
<1>b. /\ marked \subseteq Cookied /\ Cookied \subseteq Kind /\ Seed \in Cookied
      /\ handler \in [Cookied -> {"idle", "recorded", "held", "answered", "dropped"}]
  BY KindAssumption DEF OrderOK, Base, TypeOK, CollectorTypeOK
<1>c. \/ token' = TRUE
      \/ UNCHANGED <<token, marked, observed>>
  BY DEF Handle, Mark, Respond, Answer, Drop, Request, Navigate, Observe
<1>d. navigated \subseteq navigated' /\ observed \subseteq observed' /\ marked \subseteq marked'
  BY DEF Handle, Mark, Respond, Answer, Drop, Request, Navigate, Observe
<1>e. /\ marked' \cup observed' \subseteq navigated'
      /\ \A k \in Cookied : handler'[k] # "idle" => k \in navigated'
  <2>1. CASE \E k \in Cookied : Handle(k)
    BY <1>b, <2>1 DEF Handle, Mark, Watched
  <2>2. CASE Respond
    BY <1>b, <2>2 DEF Respond, Answer, Watched
  <2>3. CASE Drop
    BY <1>b, <2>3 DEF Drop, Watched
  <2>4. ASSUME NEW k \in Kind, Navigate(k) \/ Observe(k)
        PROVE  /\ marked' \cup observed' \subseteq navigated'
               /\ \A l \in Cookied : handler'[l] # "idle" => l \in navigated'
    BY <1>b, <2>4 DEF Navigate, Observe, Watched
  <2> QED
    BY <2>1, <2>2, <2>3, <2>4 DEF Request
<1>f. \A k : Ready(k) => Ready(k)'
  BY <1>d DEF Ready
<1>g. NoLostWakeup'
  BY <1>a, <1>c DEF NoLostWakeup, Watched, Ready
<1> QED
  BY <1>a, <1>e, <1>f, <1>g DEF Watched, Active

\* What leaves the endpoint and the stage alone.
LEMMA OthersWatched ==
    ASSUME OrderOK, Watched,
           UNCHANGED <<navigated, observed, marked, handler, token, waiter, stage, collect>>
    PROVE  Watched'
  BY DEF Watched, Active, Ready, NoLostWakeup

\* All that runs beside Run.
LEMMA BesideWatched ==
    ASSUME OrderOK, Watched, Beside
    PROVE  Watched'
<1>1. CASE \E k \in Kind : Waiter(k)
  BY <1>1, WaiterWatched
<1>2. CASE \/ \E k \in Cookied : Handle(k)
           \/ Respond
           \/ Drop /\ UNCHANGED <<containerVars, profileVars, runVars>>
           \/ UNCHANGED runVars /\ \E k \in Kind : Request(k, k)
  BY <1>2, HandlersWatched
<1>3. CASE \/ ServeFails
           \/ \E cause \in Causes : ContextEnds(cause)
           \/ \E c \in Job : Docker(c)
           \/ UNCHANGED runVars /\ (Flush \/ \E c \in Job : Program(c) \/ TakeProfile(c))
  <2>1. UNCHANGED <<navigated, observed, marked, handler, token, waiter, stage, collect>>
    BY <1>3 DEF ServeFails, ContextEnds, Docker, Flush, Program, TakeProfile, collectorVars, runVars
  <2> QED
    BY <2>1, OthersWatched
<1> QED
  BY <1>1, <1>2, <1>3 DEF Beside, World

\* Run goes on only when the waiter of the step it leaves has seen its report.
LEMMA RunWatched ==
    ASSUME OrderOK, Kills, Watched, RunStep
    PROVE  Watched'
<1>a. UNCHANGED <<navigated, observed, marked, handler, token, waiter>>
  BY DEF RunStep, StayOut
<1>b. stage \in SetOf(Order) \cup Between /\ SetOf(Order) \cap Between = {}
      /\ Out \subseteq Between /\ SetOf(Browsed) \subseteq SetOf(Order) /\ "posted" \in Between
  BY JobFacts, OrderIs DEF OrderOK, Base, TypeOK, Between, Out, SetOf
<1>1. stage' = stage \/ stage' \in Out \/ \A k \in Kind : Active(k) => stage # Turn(k) /\ stage \notin Out
  <2>1. ASSUME NEW c \in SetOf(Order), stage = c, Proceed(c),
               c \in SetOf(Browsed) => waiter[c] = "seen",
               c \notin SetOf(Browsed) => at[c] = "done" /\ errs[c] = {}
        PROVE  \A k \in Kind : Active(k) => stage # Turn(k) /\ stage \notin Out
    <3> SUFFICES ASSUME NEW k \in Kind, Active(k), stage = Turn(k) PROVE FALSE
      BY <1>b, <2>1
    <3>1. k = c /\ k # "verify"
      BY <1>b, <2>1 DEF Turn
    <3>2. CASE k = "seed"
      BY <2>1, <3>1, <3>2, JobFacts DEF Kills, SeedSound, Active
    <3>3. CASE k # "seed"
      BY <2>1, <3>1, <3>3, JobFacts DEF Active
    <3> QED
      BY <3>2, <3>3
  <2>2. CASE Listen \/ Posted \/ RemoveVolume \/ WriteReport \/ TearDown \/ Shutdown
    BY <1>b, <2>2, JobFacts DEF Listen, Posted, RemoveVolume, WriteReport, TearDown, Shutdown, To, Fail, Out, Turn,
          Between
  <2>3. CASE Origin \/ CreateVolume
    BY <1>b, <2>3, JobFacts DEF Origin, CreateVolume, Fail, To, Out, Turn, Between
  <2>4. ASSUME NEW c \in Job, JobReturns(c)
        PROVE  stage' \in Out \/ \A k \in Kind : Active(k) => stage # Turn(k) /\ stage \notin Out
    <3>1. stage = c /\ c \notin SetOf(Browsed) /\ at[c] = "done"
      BY <2>4 DEF JobReturns
    <3>2. c \in SetOf(Order)
      <4>1. c \in SetOf(Order) \/ c \in {"probe", "cookie"}
        BY JobFacts
      <4>2. {"probe", "cookie"} \cap (SetOf(Order) \cup Between) = {}
        BY JobFacts DEF Between
      <4> QED
        BY <1>b, <3>1, <4>1, <4>2
    <3> QED
      BY <2>1, <2>4, <3>1, <3>2, FailJobIs DEF JobReturns, Out
  <2>5. ASSUME NEW c \in SetOf(Browsed), Select(c) \/ LaunchEnded(c) \/ AwaitReport(c)
        PROVE  \/ stage' = stage \/ stage' \in Out
               \/ \A k \in Kind : Active(k) => stage # Turn(k) /\ stage \notin Out
    <3>1. stage = c
      BY <2>5 DEF Select, LaunchEnded, AwaitReport
    <3>2. collect = "seen" => waiter[c] = "seen"
      BY <3>1 DEF Watched
    <3> QED
      BY <1>b, <2>1, <2>5, <3>1, <3>2, FailJobIs DEF Select, LaunchEnded, AwaitReport, Out
  <2> QED
    BY <2>2, <2>3, <2>4, <2>5 DEF RunStep
<1>2. stage \in Out => stage' \in Out
  <2>1. stage \in Out => stage \notin SetOf(Order) /\ stage \notin {"listen", "origin", "volume", "posted"}
    BY <1>b DEF Out
  <2>2. CASE RemoveVolume \/ WriteReport \/ TearDown \/ Shutdown
    BY <2>2 DEF RemoveVolume, WriteReport, TearDown, Shutdown, To, Out
  <2>3. CASE Listen \/ Origin \/ CreateVolume \/ Posted
    BY <2>1, <2>3 DEF Listen, Origin, CreateVolume, Posted
  <2>4. ASSUME NEW c \in Job, JobReturns(c) PROVE stage \notin Out
    <3>1. stage = c
      BY <2>4 DEF JobReturns
    <3>2. c \in SetOf(Order) \/ c \in {"probe", "cookie"}
      BY JobFacts
    <3> QED
      BY <2>1, <3>1, <3>2 DEF Out
  <2>5. ASSUME NEW c \in SetOf(Browsed), Select(c) \/ LaunchEnded(c) \/ AwaitReport(c) PROVE stage \notin Out
    BY <1>b, <2>1, <2>5 DEF Select, LaunchEnded, AwaitReport
  <2> QED
    BY <2>2, <2>3, <2>4, <2>5 DEF RunStep
<1>3. collect' = "seen" => waiter'[stage'] = "seen"
  <2>1. ASSUME NEW c \in SetOf(Browsed), Select(c) PROVE collect' = "seen" => stage' = c /\ waiter[c] = "seen"
    BY <2>1 DEF Select
  <2>2. ASSUME NEW c \in SetOf(Browsed), LaunchEnded(c) \/ AwaitReport(c) PROVE collect' # "seen"
    BY <2>2 DEF LaunchEnded, AwaitReport
  <2>3. ASSUME NEW c \in Job, JobReturns(c) PROVE collect' # "seen"
    BY <2>3 DEF JobReturns, OrderOK, Awaited
  <2>4. CASE \/ Listen   \/ Origin      \/ CreateVolume \/ Posted \/ RemoveVolume
             \/ TearDown \/ WriteReport \/ Shutdown
    <3>1. collect' = collect /\ stage \in Between
      BY <2>4 DEF Listen, Origin, CreateVolume, Posted, RemoveVolume, TearDown, WriteReport, Shutdown, Between
    <3> QED
      BY <1>b, <3>1 DEF OrderOK, Awaited
  <2> QED
    BY <1>a, <2>1, <2>2, <2>3, <2>4 DEF RunStep
<1>4. \A k \in Kind : Active(k)' => stage' = Turn(k) \/ stage' \in Out
  BY <1>1, <1>2, <1>a DEF Watched, Active
<1> QED
  BY <1>a, <1>3, <1>4 DEF Watched, Active, Ready, NoLostWakeup

\* Nobody waits at first.
LEMMA WatchedStarts == Init => Kills /\ Watched
<1> SUFFICES ASSUME Init PROVE Kills /\ Watched
  OBVIOUS
<1>1. Kills
  BY JobFacts DEF Init, ContainerInit, Kills, CrashSound, SeedSound, Killing
<1>2. Watched
  BY KindAssumption DEF Init, CollectorInit, Watched, Active, Ready, NoLostWakeup
<1> QED
  BY <1>1, <1>2

WatchOK == OrderOK /\ Kills /\ Watched

\* Every step keeps what was found and who waits.
LEMMA WatchNext == ASSUME WatchOK, [Next]_vars PROVE WatchOK'
<1>1. OrderOK'
  BY OrderNext DEF WatchOK
<1>2. CASE RunStep
  BY <1>1, <1>2, RunKills, RunWatched DEF WatchOK
<1>3. ASSUME NEW c \in Job, JobStep(c) PROVE WatchOK'
  BY <1>1, <1>3, JobKills, JobWatched DEF WatchOK
<1>4. CASE Beside
  BY <1>1, <1>4, BesideKills, BesideWatched DEF WatchOK
<1>5. CASE UNCHANGED vars
  BY <1>1, <1>5, OthersWatched
     DEF WatchOK, Kills, CrashSound, SeedSound, vars, containerVars, collectorVars, runVars
<1> QED
  BY <1>2, <1>3, <1>4, <1>5 DEF Next, Beside

\* The second part of the invariant.
LEMMA WatchInvariant == Spec => []WatchOK
<1>1. Init => WatchOK
  BY OrderStarts, WatchedStarts DEF WatchOK
<1> QED
  BY <1>1, WatchNext, PTL DEF Spec

\* Whoever sleeps although its report has arrived has a token to wake up to:
\* waitForLocked's one channel is enough, because waiters take turns.
THEOREM WakeupsAreKept == Spec => []NoLostWakeup
<1>1. WatchOK => NoLostWakeup
  BY DEF WatchOK, Watched
<1> QED
  BY <1>1, WatchInvariant, PTL

-----------------------------------------------------------------------------
(* The verdict *)

WellDone(c) == at[c] = "done" /\ errs[c] = {}

\* What each piece of evidence was taken from.
Grounds ==
    /\ "startup" \in evidence => WellDone("boundary")
    /\ "crash" \in evidence => WellDone("seed")
    /\ "recovered" \in evidence => WellDone("verify")
    /\ "cookie" \in evidence => WellDone("verify") /\ waiter["verify"] = "seen"

\* Run goes on to the next browser, and to the profile, with the report of the
\* last.
Reported ==
    /\ at["attached"] # "idle" => "direct" \in observed
    /\ stage = "volume" \/ at["init"] # "idle" => "attached" \in observed

Final == {"teardown", "shutdown", "ended"}

\* What holds on the way out of a run that has not failed.
Verdict ==
    /\ ~failed /\ stage \in Out => WellDone("verify")
    /\ ~failed /\ stage \in Out \ {"unvolume"} => volume = "removed"
    /\ ~failed /\ stage \in Final => report = "pass"
    /\ report = "pass" => evidence = Fact /\ volume = "removed" /\ stage \in Final
    /\ ~failed /\ stage = "ended" => serving = "closed" /\ ~Held

Judged == Grounds /\ Reported /\ Verdict

\* A goroutine that has ended well stays so.
LEMMA WellDoneStays ==
    ASSUME OrderOK, NEW c \in Container \ SetOf(Browsed), WellDone(c),
           RunStep \/ (\E d \in Job : JobStep(d)) \/ Beside
    PROVE  WellDone(c)'
<1>1. CASE RunStep
  BY <1>1, RunMoves DEF WellDone
<1>2. ASSUME NEW d \in Job, JobStep(d) PROVE WellDone(c)'
  <2>1. d # c
    BY <1>2, OthersStay DEF WellDone
  <2> QED
    BY <1>2, <2>1, OthersStay DEF WellDone
<1>3. CASE Beside
  BY <1>3, BesideMoves DEF WellDone
<1> QED
  BY <1>1, <1>2, <1>3

\* Where Proceed goes.
LEMMA ProceedTo ==
    ASSUME NEW n \in DOMAIN Order, Proceed(Order[n])
    PROVE  /\ UNCHANGED failed
           /\ \/ Order[n] = "attached" /\ stage' = "volume" /\ UNCHANGED at
              \/ Order[n] = "verify" /\ stage' = "posted" /\ UNCHANGED at
              \/ /\ n + 1 \in DOMAIN Order /\ stage' = Order[n + 1]
                 /\ Begin(Order[n + 1], "launch")
<1>1. Order[n] \notin {"attached", "verify"} => n + 1 \in DOMAIN Order
  BY OrderIs
<1> QED
  BY <1>1, PlaceIs DEF Proceed, To

\* The steps of Run, by what they do to its course.
LEMMA RunCases ==
    ASSUME OrderOK, Watched, RunStep
    PROVE  \/ Listen \/ Origin \/ CreateVolume \/ Posted \/ RemoveVolume
           \/ TearDown \/ WriteReport \/ Shutdown
           \/ /\ UNCHANGED <<stage, at, errs, failed, evidence, volume, report, serving>>
              /\ stage \in SetOf(Browsed)
           \/ \E n \in DOMAIN Order :
                 /\ stage = Order[n] /\ at[stage] = "done"
                 /\ UNCHANGED <<volume, report, serving>>
                 /\ evidence' = evidence
                       \/ (evidence' = evidence \cup Proves(stage) /\ errs[stage] = {} /\ stage \notin SetOf(Browsed))
                 /\ \/ FailJob(stage)
                    \/ /\ Proceed(stage)
                       /\ stage \in SetOf(Browsed) => waiter[stage] = "seen"
<1>1. ASSUME NEW c \in Job, JobReturns(c)
      PROVE  \E n \in DOMAIN Order :
                 /\ stage = Order[n] /\ at[stage] = "done"
                 /\ UNCHANGED <<volume, report, serving>>
                 /\ evidence' = evidence
                       \/ (evidence' = evidence \cup Proves(stage) /\ errs[stage] = {} /\ stage \notin SetOf(Browsed))
                 /\ \/ FailJob(stage)
                    \/ /\ Proceed(stage)
                       /\ stage \in SetOf(Browsed) => waiter[stage] = "seen"
  <2>1. stage = c /\ c \notin SetOf(Browsed)
    BY <1>1 DEF JobReturns
  <2>2. c \in SetOf(Order)
    <3>1. c \in SetOf(Order) \/ c \in {"probe", "cookie"}
      BY JobFacts
    <3>2. {"probe", "cookie"} \cap (SetOf(Order) \cup Between) = {}
      BY JobFacts DEF Between
    <3> QED
      BY <2>1, <3>1, <3>2 DEF OrderOK, Base, TypeOK
  <2>3. PICK n \in DOMAIN Order : c = Order[n]
    BY <2>2 DEF SetOf
  <2> QED
    BY <1>1, <2>1, <2>3 DEF JobReturns
<1>2. ASSUME NEW c \in SetOf(Browsed), Select(c) \/ LaunchEnded(c) \/ AwaitReport(c),
             ~UNCHANGED <<stage, at, errs, failed>>
      PROVE  \E n \in DOMAIN Order :
                 /\ stage = Order[n] /\ at[stage] = "done"
                 /\ UNCHANGED <<volume, report, serving>>
                 /\ evidence' = evidence
                 /\ \/ FailJob(stage)
                    \/ /\ Proceed(stage)
                       /\ stage \in SetOf(Browsed) => waiter[stage] = "seen"
  <2>1. stage = c /\ UNCHANGED <<evidence, volume, report, serving>>
    BY <1>2 DEF Select, LaunchEnded, AwaitReport
  <2>2. PICK n \in DOMAIN Order : c = Order[n]
    BY JobFacts, OrderIs
  <2>3. at[c] = "done"
    BY <1>2, <2>1 DEF Select, LaunchEnded, AwaitReport, OrderOK, Awaited
  <2>4. FailJob(c) \/ (Proceed(c) /\ waiter[c] = "seen")
    BY <1>2, <2>1 DEF Select, LaunchEnded, AwaitReport, Watched
  <2> QED
    BY <2>1, <2>2, <2>3, <2>4
<1>3. ASSUME NEW c \in SetOf(Browsed), Select(c) \/ LaunchEnded(c) \/ AwaitReport(c),
             UNCHANGED <<stage, at, errs, failed>>
      PROVE  UNCHANGED <<evidence, volume, report, serving>> /\ stage = c
  BY <1>3 DEF Select, LaunchEnded, AwaitReport
<1> QED
  BY <1>1, <1>2, <1>3 DEF RunStep

\* Run adds to its evidence what a container gave it,
LEMMA RunGrounds ==
    ASSUME OrderOK, Watched, Grounds, RunStep
    PROVE  Grounds'
<1>a. \A c \in {"boundary", "seed", "verify"} : WellDone(c) => WellDone(c)'
  BY WellDoneStays, JobFacts
<1>b. UNCHANGED waiter
  BY DEF RunStep, StayOut
<1>1. CASE evidence' = evidence
  BY <1>1, <1>a, <1>b DEF Grounds
<1>2. CASE Posted
  <2>1. (evidence' = evidence \cup {"cookie"} /\ waiter["verify"] = "seen") \/ evidence' = evidence
    BY <1>2 DEF Posted
  <2>2. WellDone("verify")
    BY <1>2 DEF Posted, OrderOK, InOrder, WellDone
  <2> QED
    BY <1>a, <1>b, <2>1, <2>2 DEF Grounds
<1>3. CASE at[stage] = "done" /\ errs[stage] = {} /\ evidence' = evidence \cup Proves(stage)
  BY <1>3, <1>a, <1>b DEF Grounds, Proves, WellDone
<1>4. CASE Listen \/ Origin \/ CreateVolume \/ RemoveVolume \/ TearDown \/ WriteReport \/ Shutdown
  BY <1>1, <1>4 DEF Listen, Origin, CreateVolume, RemoveVolume, TearDown, WriteReport, Shutdown
<1> QED
  BY <1>1, <1>2, <1>3, <1>4, RunCases

\* goes on when the report is there,
LEMMA RunReported ==
    ASSUME OrderOK, Watched, Reported, RunStep
    PROVE  Reported'
<1>a. UNCHANGED observed /\ {"attached", "init"} \subseteq Container
      /\ at \in [Container -> Step]
  BY JobFacts DEF RunStep, StayOut, OrderOK, Base, TypeOK, ContainerTypeOK
<1>b. stage \in Between => stage \notin SetOf(Order)
  BY JobFacts
<1>1. CASE UNCHANGED at /\ stage' # "volume"
  BY <1>1, <1>a DEF Reported
<1>2. CASE UNCHANGED <<at, stage>>
  BY <1>2, <1>a DEF Reported
<1>3. ASSUME NEW n \in DOMAIN Order, stage = Order[n], Proceed(stage), at[stage] = "done",
             stage \in SetOf(Browsed) => waiter[stage] = "seen"
      PROVE  Reported'
  <2>1. stage \in SetOf(Browsed) => stage \in observed
    BY <1>3, JobFacts DEF Watched, Ready
  <2>2. CASE Order[n] = "attached" /\ stage' = "volume" /\ UNCHANGED at
    BY <1>3, <1>a, <2>1, <2>2, JobFacts DEF Reported
  <2>3. CASE Order[n] = "verify" /\ stage' = "posted" /\ UNCHANGED at
    BY <1>1, <2>3
  <2>4. CASE n + 1 \in DOMAIN Order /\ stage' = Order[n + 1] /\ Begin(Order[n + 1], "launch")
    <3>1. Order[n + 1] \notin Between
      BY <2>4, JobFacts DEF SetOf
    <3>2. Order[n + 1] = "attached" => Order[n] = "direct"
      <4>1. Order[n + 1] = "attached" => n + 1 = N + 2
        BY <2>4, OrderIs, JobFacts
      <4> QED
        BY <4>1, OrderIs
    <3>3. Order[n + 1] = "init" => Order[n] = "attached"
      <4>1. Order[n + 1] = "init" => n + 1 = N + 3
        BY <2>4, OrderIs, JobFacts
      <4> QED
        BY <4>1, OrderIs
    <3>4. \A c \in {"attached", "init"} : c # Order[n + 1] => at'[c] = at[c]
      BY <1>a, <2>4 DEF Begin
    <3>5. stage' # "volume"
      BY <2>4, <3>1 DEF Between
    <3> QED
      BY <1>3, <1>a, <2>1, <3>2, <3>3, <3>4, <3>5, JobFacts DEF Reported
  <2> QED
    BY <1>3, <2>2, <2>3, <2>4, ProceedTo
<1>4. CASE Listen \/ Posted \/ RemoveVolume \/ TearDown \/ WriteReport \/ Shutdown
  BY <1>1, <1>4 DEF Listen, Posted, RemoveVolume, TearDown, WriteReport, Shutdown, To, Fail
<1>5. CASE Origin
  <2>1. CASE stage' = "shutdown" /\ UNCHANGED at
    BY <1>1, <2>1
  <2>2. CASE stage' = Order[1] /\ Begin(Order[1], "launch")
    <3>1. 1 \in DOMAIN Order /\ Order[1] \notin {"attached", "init"} /\ Order[1] \notin Between
      BY JobFacts, OrderIs DEF SetOf
    <3>2. at'["attached"] = at["attached"] /\ at'["init"] = at["init"]
      BY <1>a, <2>2, <3>1 DEF Begin
    <3>3. stage' # "volume"
      BY <2>2, <3>1 DEF Between
    <3> QED
      BY <1>a, <3>2, <3>3 DEF Reported
  <2> QED
    BY <1>5, <2>1, <2>2 DEF Origin, Fail, To
<1>6. CASE CreateVolume
  <2>1. stage = "volume" /\ (Begin("init", "launch") \/ UNCHANGED at) /\ stage' # "volume"
    BY <1>6 DEF CreateVolume, Fail, To
  <2>2. at'["attached"] = at["attached"]
    BY <1>a, <2>1 DEF Begin
  <2> QED
    BY <1>a, <2>1, <2>2 DEF Reported
<1>7. ASSUME FailJob(stage) PROVE Reported'
  BY <1>1, <1>7, FailJobIs DEF jobVars
<1> QED
  BY <1>2, <1>3, <1>4, <1>5, <1>6, <1>7, RunCases

\* and leaves without an error only when nothing is missing.
LEMMA RunVerdict ==
    ASSUME OrderOK, Watched, Judged, stage # "ended", RunStep
    PROVE  Verdict'
<1>a. UNCHANGED handler /\ failed \in BOOLEAN
  BY DEF RunStep, StayOut, OrderOK, Base, TypeOK
<1>b. WellDone("verify") => WellDone("verify")'
  BY WellDoneStays, JobFacts
<1>c. \A i \in DOMAIN Order : Order[i] \notin Between
  BY JobFacts DEF SetOf
<1> USE <1>a DEF Judged, Verdict, Final, Out, Held
<1>1. CASE Listen
  BY <1>1 DEF Listen, To, Fail
<1>2. CASE Origin
  <2>1. 1 \in DOMAIN Order
    BY OrderIs
  <2>2. stage = "origin" /\ report # "pass" /\ UNCHANGED <<report, volume, evidence>>
    BY <1>2 DEF Origin
  <2>3. (stage' = "shutdown" /\ failed') \/ stage' = Order[1]
    BY <1>2 DEF Origin, Fail, To
  <2> QED
    BY <1>c, <2>1, <2>2, <2>3 DEF Between
<1>3. CASE CreateVolume
  BY <1>3 DEF CreateVolume, To, Fail
<1>4. CASE Posted
  <2>1. WellDone("verify")
    BY <1>4 DEF Posted, OrderOK, InOrder, WellDone
  <2> QED
    BY <1>4, <1>b, <2>1 DEF Posted, To
<1>5. CASE RemoveVolume
  BY <1>5, <1>b DEF RemoveVolume, To
<1>6. CASE WriteReport
  BY <1>6, <1>b DEF WriteReport, To
<1>7. CASE TearDown
  BY <1>7, <1>b DEF TearDown, To
<1>8. CASE Shutdown
  BY <1>8, <1>b DEF Shutdown, To
<1>9. ASSUME stage \in SetOf(Browsed), UNCHANGED <<stage, failed, evidence, volume, report, serving>>
      PROVE  Verdict'
  <2>1. stage \notin Between
    BY <1>9, JobFacts, OrderIs DEF SetOf
  <2> QED
    BY <1>9, <2>1 DEF Between
<1>10. ASSUME NEW n \in DOMAIN Order, stage = Order[n], UNCHANGED <<volume, report, serving>>,
              FailJob(stage) \/ Proceed(stage)
       PROVE  Verdict'
  <2>1. stage \notin Out /\ report # "pass"
    BY <1>10, <1>c DEF Between
  <2>2. CASE FailJob(stage)
    <3>1. failed' = TRUE
      BY <2>2, FailJobIs
    <3> QED
      BY <1>10, <2>1, <3>1
  <2>3. CASE Proceed(stage)
    <3>1. stage' \in {"volume", "posted"} \/ \E i \in DOMAIN Order : stage' = Order[i]
      BY <1>10, <2>3, ProceedTo
    <3>2. stage' \notin Out
      BY <1>c, <3>1 DEF Between
    <3> QED
      BY <1>10, <2>1, <3>2
  <2> QED
    BY <1>10, <2>2, <2>3
<1> QED
  BY <1>1, <1>2, <1>3, <1>4, <1>5, <1>6, <1>7, <1>8, <1>9, <1>10, RunCases

\* The goroutines do not judge,
LEMMA JobJudged ==
    ASSUME OrderOK, Judged, NEW c \in Job, JobStep(c)
    PROVE  Judged'
<1>a. UNCHANGED <<observed, handler, waiter, runVars>>
  BY DEF JobStep, CrashStep, collectorVars
<1>b. \A d \in {"boundary", "seed", "verify"} : WellDone(d) => WellDone(d)'
  BY WellDoneStays, JobFacts
<1>c. \A d \in {"attached", "init"} : at[d] = "idle" => at'[d] = "idle"
  BY OthersStay, JobFacts
<1> QED
  BY <1>a, <1>b, <1>c DEF Judged, Grounds, Reported, Verdict, Held, runVars

\* and nothing that was reported is taken back.
LEMMA BesideJudged ==
    ASSUME OrderOK, Judged, stage # "ended", Beside
    PROVE  Judged'
<1>a. UNCHANGED <<at, errs, stage, evidence, volume, report, failed>>
  BY BesideMoves
<1>b. observed \subseteq observed'
  BY DEF Beside, World, Waiter, Asked, Check, Wake, Expire, Waiting, Handle, Mark, Respond, Answer, ServeFails,
         ContextEnds, Docker, Program, TakeProfile, Flush, Request, Navigate, Observe, Drop, collectorVars
<1>c. waiter["verify"] = "seen" => waiter'["verify"] = "seen"
  BY SeenStays, JobFacts
<1> QED
  BY <1>a, <1>b, <1>c DEF Judged, Grounds, Reported, Verdict, WellDone

JudgeOK == WatchOK /\ Judged

\* Every step keeps the verdict.
LEMMA JudgeNext == ASSUME JudgeOK, [Next]_vars PROVE JudgeOK'
<1>1. WatchOK'
  BY WatchNext DEF JudgeOK
<1>2. CASE stage # "ended" /\ RunStep
  BY <1>1, <1>2, RunGrounds, RunReported, RunVerdict DEF JudgeOK, WatchOK, Judged
<1>3. ASSUME NEW c \in Job, JobStep(c) PROVE JudgeOK'
  BY <1>1, <1>3, JobJudged DEF JudgeOK, WatchOK
<1>4. CASE stage # "ended" /\ Beside
  BY <1>1, <1>4, BesideJudged DEF JudgeOK, WatchOK
<1>5. CASE UNCHANGED vars
  BY <1>1, <1>5 DEF JudgeOK, Judged, Grounds, Reported, Verdict, WellDone, Held, vars, containerVars,
        collectorVars, runVars
<1> QED
  BY <1>2, <1>3, <1>4, <1>5 DEF Next, Beside

\* Nothing is said at first.
LEMMA JudgeStarts == Init => JudgeOK
<1> SUFFICES ASSUME Init PROVE JudgeOK
  OBVIOUS
<1>1. WatchOK
  BY OrderStarts, WatchedStarts DEF WatchOK
<1>2. at["attached"] = "idle" /\ at["init"] = "idle"
  BY JobFacts DEF Init, ContainerInit
<1> QED
  BY <1>1, <1>2 DEF Init, JudgeOK, Judged, Grounds, Reported, Verdict, Out, Final

\* The third part of the invariant.
LEMMA JudgeInvariant == Spec => []JudgeOK
  BY JudgeStarts, JudgeNext, PTL DEF Spec

\* When "verify" has returned without an error, so had every container before
\* it but the browsers, and the two probes; all of them are gone.
LEMMA AllGone ==
    ASSUME JudgeOK, WellDone("verify")
    PROVE  \A c \in Job \ SetOf(Browsed) : Gone(c)
<1>1. ASSUME NEW c \in Container, WellDone(c) PROVE Gone(c)
  BY <1>1 DEF JudgeOK, WatchOK, OrderOK, Base, ContainerInv, WellDone
<1>2. ASSUME NEW i \in DOMAIN Order, Order[i] \notin SetOf(Browsed) PROVE WellDone(Order[i])
  <2>1. N + 7 \in DOMAIN Order /\ (i = N + 7 \/ i < N + 7)
    BY OrderIs
  <2> QED
    BY <1>2, <2>1, OrderIs DEF JudgeOK, WatchOK, OrderOK, InOrder, WellDone
<1>3. WellDone("crash") /\ WellDone("seed")
  <2>1. N + 4 \in DOMAIN Order /\ N + 6 \in DOMAIN Order
    BY OrderIs
  <2> QED
    BY <1>2, <2>1, OrderIs, JobFacts
<1>4. WellDone("probe") /\ WellDone("cookie")
  BY <1>3 DEF JudgeOK, WatchOK, Kills, CrashSound, SeedSound, WellDone
<1>5. \A c \in Job : c \in Container /\ (c \in SetOf(Order) \/ c \in {"probe", "cookie"})
  BY JobFacts
<1> QED
  BY <1>1, <1>2, <1>4, <1>5 DEF SetOf

\* So a report that says "pass" has all it stands for.
LEMMA PassingHolds == JudgeOK => PassingReport
<1> SUFFICES ASSUME JudgeOK, report = "pass"
             PROVE  /\ SetOf(Browsed) \subseteq observed
                    /\ evidence = Fact
                    /\ volume = "removed"
                    /\ \A c \in VolumeUser : Gone(c)
  BY DEF PassingReport
<1>1. evidence = Fact /\ volume = "removed"
  BY DEF JudgeOK, Judged, Verdict
<1>2. WellDone("verify")
  BY <1>1 DEF JudgeOK, Judged, Grounds, Fact
<1>3. \A c \in VolumeUser : Gone(c)
  BY <1>2, AllGone, JobFacts
<1>4. at["attached"] # "idle" /\ at["init"] # "idle"
  <2>1. N + 2 \in DOMAIN Order /\ N + 3 \in DOMAIN Order /\ N + 7 \in DOMAIN Order
        /\ N + 2 < N + 7 /\ N + 3 < N + 7
    BY OrderIs
  <2> QED
    BY <1>2, <2>1, OrderIs DEF JudgeOK, WatchOK, OrderOK, InOrder, WellDone
<1> QED
  BY <1>1, <1>3, <1>4, JobFacts DEF JudgeOK, Judged, Reported

\* A report says "pass" only when both browsers reported, the profile survived
\* both crashes, and the volume and its containers are gone (WriteReport).
THEOREM PassIsEarned == Spec => []PassingReport
  BY JudgeInvariant, PassingHolds, PTL

\* A run passes only with such a report, a closed server, every request
\* answered, and every container gone whose cleanup counted (Run's way out).
THEOREM PassIsWhole == Spec => []PassedIsComplete
<1>1. JudgeOK => PassedIsComplete
  <2> SUFFICES ASSUME JudgeOK, stage = "ended", ~failed
               PROVE  /\ report = "pass" /\ serving = "closed" /\ ~Held
                      /\ \A c \in Job \ SetOf(Browsed) : Gone(c)
    BY DEF PassedIsComplete, Passed
  <2>1. WellDone("verify") /\ report = "pass" /\ serving = "closed" /\ ~Held
    BY DEF JudgeOK, Judged, Verdict, Out, Final
  <2> QED
    BY <2>1, AllGone
<1> QED
  BY <1>1, JudgeInvariant, PTL

-----------------------------------------------------------------------------
(* What the evidence is evidence of *)

\* A container that runs no more, and never will.
Over(c) == box[c] # "running" /\ cli[c] \notin {"idle", "creating"}

Asking == {"boundary", "cookie", "verify"}

\* What the output of a container shows of the profile.
Shown(p) ==
    /\ p = "boundary" => session = "crash" \/ at["seed"] \notin {"idle", "launch"}
    /\ p = "cookie" => cookie = "durable"
    /\ p = "verify" => session = "closed"

\* A container that is asked something has ended, or its program has, without
\* an error.
Answered(p) ==
    \/ at[p] = "wait" /\ (code[p] = "zero" \/ cli[p] = "zero")
    \/ at[p] \notin {"idle", "launch", "wait"} /\ errs[p] = {}

\* The browser that asks for the page of the seed owns the profile.
Seeded ==
    /\ cookie # "none" => Seed \in navigated
    /\ Seed \in navigated =>
          cli["seed"] \notin {"idle", "creating"} /\ (box["seed"] = "running" => session = "seed")

\* It owned the profile when it was killed, and nobody has it until "verify".
SeedKilled ==
    errs["seed"] = {} /\ at["seed"] \in (Killing \ {"kill"}) \cup {"done"} =>
       Over("seed") /\ (session = "seed" \/ at["verify"] \notin {"idle", "launch"})

Answers == \A p \in Asking : Answered(p) => Shown(p)

Verified == at["verify"] \notin {"idle", "launch", "wait"} /\ errs["verify"] = {} => Over("verify")

Sessions == Seeded /\ SeedKilled /\ Answers /\ Verified

\* The profile's containers run one after another.
LEMMA Running ==
    ASSUME OrderOK, NEW c \in Session, box[c] = "running"
    PROVE  /\ at[c] \notin {"idle", "launch"}
           /\ ~Over(c) /\ code[c] = "none" /\ cli[c] # "zero"
           /\ c = "crash" => at["boundary"] = "idle" /\ at["seed"] = "idle"
           /\ c \in {"crash", "seed"} => at["verify"] = "idle"
           /\ c = "verify" => at["seed"] = "done"
<1>a. c \in {"crash", "seed", "verify"} /\ c \in Container
  BY JobFacts DEF Session, Crashed
<1>b. code \in [Container -> {"none", "zero", "nonzero", "killed"}]
  BY DEF OrderOK, Base, TypeOK, ContainerTypeOK
<1>1. at[c] \notin {"idle", "launch"} /\ code[c] = "none" /\ cli[c] # "zero"
  BY <1>a, <1>b DEF OrderOK, Base, ContainerInv
<1>2. ~WellDone(c)
  BY <1>a DEF OrderOK, Base, ContainerInv, WellDone, Gone, Exists
<1>3. N + 4 \in DOMAIN Order /\ N + 5 \in DOMAIN Order /\ N + 6 \in DOMAIN Order /\ N + 7 \in DOMAIN Order
      /\ N + 4 < N + 5 /\ N + 4 < N + 6 /\ N + 4 < N + 7 /\ N + 6 < N + 7
  BY OrderIs
<1>4. c \notin SetOf(Browsed)
  BY <1>a, JobFacts
<1>5. c = "crash" => at["boundary"] = "idle" /\ at["seed"] = "idle" /\ at["verify"] = "idle"
  BY <1>2, <1>3, <1>4, OrderIs DEF OrderOK, InOrder, WellDone
<1>6. c = "seed" => at["verify"] = "idle"
  BY <1>2, <1>3, <1>4, OrderIs DEF OrderOK, InOrder, WellDone
<1>7. c = "verify" => at["seed"] = "done"
  BY <1>1, <1>3, OrderIs DEF OrderOK, InOrder
<1> QED
  BY <1>1, <1>5, <1>6, <1>7 DEF Over

\* A goroutine stops containers and never starts one.
LEMMA JobBoxes ==
    ASSUME OrderOK, NEW c \in Job, JobStep(c)
    PROVE  /\ box'[c] = "running" => box[c] = "running"
           /\ cli'[c] \in {"idle", "creating"} => cli[c] \in {"idle", "creating"}
<1>a. /\ c \in Container
      /\ cli \in [Container -> {"idle", "creating", "attached", "reaped"} \cup Ended]
      /\ box \in [Container -> {"none", "running", "stopped"}]
  BY JobFacts DEF OrderOK, Base, TypeOK, ContainerTypeOK
<1>b. ASSUME UNCHANGED cli \/ Reap(c)
      PROVE  cli'[c] \in {"idle", "creating"} => cli[c] \in {"idle", "creating"}
  BY <1>a, <1>b DEF Reap, CommandIs
<1>c. ASSUME UNCHANGED box \/ RemoveBox(c) \/ \E k : Become(c, "stopped", k)
      PROVE  box'[c] = "running" => box[c] = "running"
  BY <1>a, <1>c DEF RemoveBox, Become
<1> USE DEF boxVars
<1>1. CASE CrashStep(c)
  <2>1. UNCHANGED cli \/ Reap(c)
    BY <1>1 DEF CrashStep, Spawn, AtBoundary, JoinProbe, SeedObserved, CookieProbed, Kill, ReapCrashed,
           InspectCrashed, Discard, Vanished
  <2>2. UNCHANGED box \/ RemoveBox(c) \/ \E k : Become(c, "stopped", k)
    BY <1>1 DEF CrashStep, Spawn, AtBoundary, JoinProbe, SeedObserved, CookieProbed, Kill, ReapCrashed,
           InspectCrashed, Discard, Vanished
  <2> QED
    BY <1>b, <1>c, <2>1, <2>2
<1>2. CASE Launch(c, First(c))
  <2>1. cli[c] \in {"idle", "creating"}
    BY <1>2, <1>a DEF Launch, OrderOK, Base, ContainerInv
  <2> QED
    BY <1>2, <1>c, <2>1 DEF Launch
<1>3. CASE CommandReturns(c) \/ Canceled(c) \/ BecomesReady(c) \/ DelayEnds(c, Signal(c))
  BY <1>3, <1>b, <1>c DEF CommandReturns, Canceled, BecomesReady, DelayEnds
<1>4. CASE CleanUp(c)
  <2>1. UNCHANGED cli \/ Reap(c)
    BY <1>4 DEF CleanUp, StopContainer, SignalContainer, ReapInGrace, GraceEnds, RemoveContainer, InspectGone
  <2>2. UNCHANGED box \/ RemoveBox(c) \/ \E k : Become(c, "stopped", k)
    BY <1>4 DEF CleanUp, StopContainer, SignalContainer, ReapInGrace, GraceEnds, RemoveContainer, InspectGone
  <2> QED
    BY <1>b, <1>c, <2>1, <2>2
<1> QED
  BY <1>1, <1>2, <1>3, <1>4 DEF JobStep

\* Docker starts a container only for a command that is creating it.
LEMMA WorldBoxes ==
    ASSUME OrderOK, NEW c \in Job, NEW d \in Job, Docker(d) \/ Program(d)
    PROVE  /\ cli'[c] \in {"idle", "creating"} => cli[c] \in {"idle", "creating"}
           /\ box'[c] = "running" => box[c] = "running" \/ cli[c] = "creating"
<1>a. /\ c \in Container /\ d \in Container
      /\ cli \in [Container -> {"idle", "creating", "attached", "reaped"} \cup Ended]
      /\ box \in [Container -> {"none", "running", "stopped"}]
  BY JobFacts DEF OrderOK, Base, TypeOK, ContainerTypeOK
<1>1. CASE Create(d) \/ AutoRemove(d) \/ CommandExits(d)
  BY <1>1, <1>a DEF Create, AutoRemove, CommandExits, CommandIs, Become
<1>2. ASSUME NEW k, ProgramEnds(d, k)
      PROVE  /\ cli'[c] \in {"idle", "creating"} => cli[c] \in {"idle", "creating"}
             /\ box'[c] = "running" => box[c] = "running" \/ cli[c] = "creating"
  BY <1>2, <1>a DEF ProgramEnds, Become
<1> QED
  BY <1>1, <1>2 DEF Docker, Daemon, Program

\* A container that has ended stays ended.
LEMMA OverStays ==
    ASSUME OrderOK, NEW c \in Job, Over(c), RunStep \/ (\E d \in Job : JobStep(d)) \/ Beside
    PROVE  Over(c)'
<1>1. CASE UNCHANGED boxVars
  BY <1>1 DEF Over, boxVars
<1>2. ASSUME NEW d \in Job, JobStep(d) PROVE Over(c)'
  <2>1. CASE d = c
    BY <1>2, <2>1, JobBoxes DEF Over
  <2>2. CASE d # c
    <3>1. Alone(d)
      BY <1>2, CrashStepMoves, OwnStepMoves, JobFacts DEF OrderOK
    <3> QED
      BY <2>2, <3>1, JobFacts DEF Over, Alone
  <2> QED
    BY <2>1, <2>2
<1>3. ASSUME NEW d \in Job, Docker(d) \/ Program(d) PROVE Over(c)'
  BY <1>3, WorldBoxes DEF Over
<1>4. CASE RunStep
  BY <1>1, <1>4 DEF RunStep, StayOut
<1>5. CASE Beside
  <2>1. UNCHANGED boxVars \/ \E d \in Job : Docker(d) \/ Program(d)
    BY <1>5 DEF Beside, World, Waiter, Handle, Respond, ServeFails, ContextEnds, TakeProfile, Flush, Request,
           containerVars, boxVars
  <2> QED
    BY <1>1, <1>3, <2>1
<1> QED
  BY <1>2, <1>4, <1>5

\* A container that is asked something ends without an error only if its
\* program did.
LEMMA AskingPath ==
    ASSUME OrderOK, NEW p \in Asking, JobStep(p)
    PROVE  \/ errs'[p] # {} /\ at'[p] # "wait"
           \/ at'[p] = "wait" /\ code'[p] = "none" /\ cli'[p] = "creating"
           \/ at[p] = "wait" /\ cli[p] = "zero" /\ at'[p] = "stop"
           \/ at[p] \notin {"idle", "launch", "wait"} /\ at'[p] \notin {"idle", "launch", "wait"}
<1>a. /\ p \in Container /\ p \in Probing
      /\ at \in [Container -> Step] /\ errs \in [Container -> SUBSET Error]
      /\ cli \in [Container -> {"idle", "creating", "attached", "reaped"} \cup Ended]
      /\ ctx \in [Container \cup {Run} -> Cause]
  BY JobFacts, ConformanceAssumption
     DEF ConformanceAssumption, Asking, OrderOK, Base, TypeOK, ContainerTypeOK
<1>b. ASSUME NEW s, NEW E, Go(p, s, E) PROVE at'[p] = s /\ errs'[p] = errs[p] \cup E
  BY <1>a, <1>b DEF Go
<1>c. First(p) = "wait"
  <2>1. p \notin SetOf(Scenarios)
    <3>1. CASE p = "cookie"
      <4>1. SetOf(Scenarios) \subseteq SetOf(Order)
        BY OrderFacts DEF SetOf
      <4> QED
        BY <3>1, <4>1, JobFacts
    <3>2. CASE p # "cookie"
      BY <3>2, NoScenario, OrderIs DEF Asking
    <3> QED
      BY <3>1, <3>2
  <2> QED
    BY <2>1 DEF First, Asking
<1>d. ~CrashStep(p)
  BY DEF CrashStep, Crashed, Asking
<1>1. CASE Launch(p, First(p))
  <2>1. \/ Go(p, "wait", {}) /\ cli'[p] = "creating" /\ UNCHANGED code /\ cli[p] = "idle"
        \/ Go(p, "done", {"program"})
    BY <1>1, <1>a, <1>c DEF Launch, CommandIs, OrderOK, Base, ContainerInv
  <2> QED
    BY <1>a, <1>b, <2>1 DEF OrderOK, Base, ContainerInv
<1>2. CASE CommandReturns(p)
  BY <1>2, <1>a, <1>b DEF CommandReturns, ProgramError
<1>3. CASE Canceled(p)
  <2>1. errs'[p] = errs[p] \cup {ctx[p]} /\ at'[p] = "stop"
    BY <1>3, <1>b DEF Canceled, CtxError
  <2> QED
    BY <2>1
<1>4. CASE BecomesReady(p) \/ DelayEnds(p, Signal(p)) \/ CleanUp(p)
  <2>1. at[p] \in Step \ {"idle", "launch", "wait"}
    BY <1>4, <1>a DEF BecomesReady, DelayEnds, CleanUp, StopContainer, SignalContainer, ReapInGrace, GraceEnds,
           RemoveContainer, InspectGone, Step
  <2>2. \E s \in Step \ {"idle", "launch", "wait"}, E \in SUBSET Error : Go(p, s, E)
    <3> USE DEF Step, Error
    <3>1. CASE BecomesReady(p) \/ DelayEnds(p, Signal(p))
      BY <3>1, <1>a DEF BecomesReady, DelayEnds, Signal, CtxError, Cause
    <3>2. CASE StopContainer(p) \/ SignalContainer(p)
      BY <3>2 DEF StopContainer, SignalContainer, AfterSignal
    <3>3. CASE ReapInGrace(p) \/ GraceEnds(p) \/ InspectGone(p)
      BY <3>3 DEF ReapInGrace, GraceEnds, InspectGone
    <3>4. CASE RemoveContainer(p)
      BY <3>4 DEF RemoveContainer
    <3> QED
      BY <1>4, <3>1, <3>2, <3>3, <3>4 DEF CleanUp
  <2> QED
    BY <1>b, <2>1, <2>2
<1> QED
  BY <1>1, <1>2, <1>3, <1>4, <1>d DEF JobStep

\* The goroutines: who comes to an end without an error was shown something.
LEMMA JobSessions ==
    ASSUME WatchOK, Sessions, NEW c \in Job, JobStep(c)
    PROVE  Sessions'
<1>a. OrderOK /\ Kills /\ Watched
  BY DEF WatchOK
<1>b. /\ {"seed", "verify", "boundary", "cookie"} \subseteq Container
      /\ c \in Container /\ Container = Job /\ Seed = "seed" /\ Seed \in Cookied /\ Seed \in Kind
  BY JobFacts
<1>c. UNCHANGED <<session, cookie, navigated>>
  BY DEF JobStep, CrashStep, profileVars, collectorVars
<1>d. /\ Alone(c)
      /\ errs[c] \subseteq errs'[c]
      /\ at[c] \notin {"idle", "launch"} => at'[c] \notin {"idle", "launch"}
  <2>1. \/ Moves(c) \/ UNCHANGED <<errs, at>>
        \/ UNCHANGED errs /\ \E d \in Container \ {c} : at' = [at EXCEPT ![d] = "launch"]
    BY <1>a, <1>b, CrashStepMoves, OwnStepMoves DEF OrderOK
  <2>2. at \in [Container -> Step]
    BY <1>a DEF OrderOK, Base, TypeOK, ContainerTypeOK
  <2>3. Alone(c)
    BY <1>a, <1>b, CrashStepMoves, OwnStepMoves DEF OrderOK
  <2> QED
    BY <1>b, <2>1, <2>2, <2>3 DEF Moves
<1>e. at[c] # "done"
  BY <1>a, OthersStay
<1>f. \A d \in Container \ {c} :
         /\ errs'[d] = errs[d] /\ box'[d] = box[d] /\ cli'[d] = cli[d] /\ code'[d] = code[d]
         /\ at'[d] = at[d] \/ (at[d] = "idle" /\ at'[d] = "launch")
  BY <1>a, <1>d, OthersStay DEF Alone
<1>g. \A d \in Container : Over(d) => Over(d)'
  BY <1>a, <1>b, OverStays
<1>h. \A d \in Container : at[d] \notin {"idle", "launch"} => at'[d] \notin {"idle", "launch"}
  BY <1>d, <1>f
<1>i. \A p \in Asking : Shown(p) => Shown(p)'
  BY <1>b, <1>c, <1>h DEF Asking, Shown
<1>1. Seeded'
  <2>1. /\ box'["seed"] = "running" => box["seed"] = "running"
        /\ cli'["seed"] \in {"idle", "creating"} => cli["seed"] \in {"idle", "creating"}
    BY <1>a, <1>b, <1>f, JobBoxes
  <2> QED
    BY <1>c, <2>1 DEF Sessions, Seeded
<1>2. SeedKilled'
  <2>1. CASE c = "seed"
    <3> SUFFICES ASSUME errs'["seed"] = {}, at'["seed"] \in (Killing \ {"kill"}) \cup {"done"}
                 PROVE  Over("seed")' /\ (session = "seed" \/ at'["verify"] \notin {"idle", "launch"})
      BY <1>c DEF SeedKilled
    <3>1. errs["seed"] = {}
      BY <1>d, <2>1
    <3>2. at["seed"] \notin CleaningUp
      BY <1>a, <3>1 DEF Kills, SeedSound, CleaningUp, Killing
    <3>3. \/ /\ at["seed"] = "kill" /\ box["seed"] = "running" /\ box'["seed"] # "running"
             /\ cli["seed"] \notin {"idle", "creating"} /\ UNCHANGED cli
          \/ at["seed"] \in Killing \ {"kill"}
      BY <1>a, <1>e, <2>1, <3>1, <3>2, CrashPath DEF OrderOK, Killing
    <3>4. CASE at["seed"] = "kill"
      <4>1. Seed \in navigated
        BY <1>a, <1>b, <3>1, <3>4 DEF Kills, SeedSound, Killing, Watched, Ready
      <4>2. session = "seed"
        BY <3>3, <3>4, <4>1 DEF Sessions, Seeded, Killing
      <4>3. Over("seed")'
        BY <3>3, <3>4 DEF Over, Killing
      <4> QED
        BY <4>2, <4>3
    <3>5. CASE at["seed"] \in Killing \ {"kill"}
      BY <1>b, <1>g, <1>h, <3>1, <3>5 DEF Sessions, SeedKilled
    <3> QED
      BY <3>3, <3>4, <3>5
  <2>2. CASE c # "seed"
    <3>1. errs'["seed"] = errs["seed"]
          /\ (at'["seed"] = at["seed"] \/ at'["seed"] = "launch")
      BY <1>b, <1>f, <2>2
    <3> QED
      BY <1>b, <1>c, <1>g, <1>h, <3>1 DEF Sessions, SeedKilled, Killing
  <2> QED
    BY <2>1, <2>2
<1>3. ASSUME NEW p \in Asking, p # c, Answered(p)' PROVE Answered(p)
  BY <1>b, <1>f, <1>3 DEF Asking, Answered
<1>4. ASSUME c \in Asking, Answered(c)'
      PROVE  Answered(c) /\ (c = "verify" => Over("verify"))
  <2>1. errs'[c] = {} => errs[c] = {}
    BY <1>d
  <2>2. \/ at[c] = "wait" /\ cli[c] = "zero"
        \/ at[c] \notin {"idle", "launch", "wait"} /\ errs[c] = {}
    BY <1>a, <1>4, <2>1, AskingPath DEF Answered
  <2>3. cli[c] = "zero" => Over(c)
    BY <1>a, <1>b DEF OrderOK, Base, ContainerInv, Over
  <2> QED
    BY <2>2, <2>3 DEF Answered, Sessions, Verified
<1>5. Answers'
  BY <1>3, <1>4, <1>i DEF Sessions, Answers
<1>6. Verified'
  <2> SUFFICES ASSUME at'["verify"] \notin {"idle", "launch", "wait"}, errs'["verify"] = {}
               PROVE  Over("verify")'
    BY DEF Verified
  <2>1. CASE c = "verify"
    BY <1>4, <1>b, <1>g, <2>1 DEF Asking, Answered
  <2>2. CASE c # "verify"
    BY <1>b, <1>f, <1>g, <2>2 DEF Sessions, Verified
  <2> QED
    BY <2>1, <2>2
<1> QED
  BY <1>1, <1>2, <1>5, <1>6 DEF Sessions

\* Run starts containers and does not touch the profile.
LEMMA RunSessions ==
    ASSUME OrderOK, Sessions, RunStep
    PROVE  Sessions'
<1>1. {"seed", "verify", "boundary", "cookie"} \subseteq Container \ SetOf(Browsed)
  BY JobFacts
<1>2. UNCHANGED <<session, cookie, navigated, cli, box, code>>
  BY DEF RunStep, StayOut, profileVars, boxVars
<1>3. \A c \in {"seed", "verify", "boundary", "cookie"} :
         /\ at'[c] = at[c] \/ (at[c] = "idle" /\ at'[c] = "launch")
         /\ errs'[c] = errs[c]
  BY <1>1, RunMoves
<1>4. Seeded' /\ SeedKilled' /\ Verified'
  BY <1>2, <1>3 DEF Sessions, Seeded, SeedKilled, Verified, Over, Killing
<1>5. ASSUME NEW p \in Asking, Answered(p)' PROVE Shown(p)'
  <2>1. Answered(p)
    BY <1>2, <1>3, <1>5 DEF Asking, Answered
  <2> QED
    BY <1>2, <1>3, <2>1 DEF Sessions, Answers, Asking, Shown
<1> QED
  BY <1>4, <1>5 DEF Sessions, Answers

\* Docker and the programs in the containers.
LEMMA DockerSessions ==
    ASSUME OrderOK, Sessions, NEW d \in Job, Docker(d) \/ Program(d), Beside
    PROVE  Sessions'
<1>a. /\ {"seed", "verify", "boundary", "cookie"} \subseteq Job
      /\ d \in Container /\ Container = Job
  BY JobFacts
<1>b. /\ cli \in [Container -> {"idle", "creating", "attached", "reaped"} \cup Ended]
      /\ box \in [Container -> {"none", "running", "stopped"}]
      /\ code \in [Container -> {"none", "zero", "nonzero", "killed"}]
      /\ session \in {"none", "closed"} \cup Session
  BY DEF OrderOK, Base, TypeOK, ContainerTypeOK, ProfileTypeOK
<1>c. UNCHANGED <<at, errs, cookie, navigated>>
  BY DEF Docker, Daemon, Create, AutoRemove, CommandExits, Program, ProgramEnds, profileVars, collectorVars, jobVars
<1>d. \A c \in Job : Over(c) => Over(c)'
  BY OverStays
<1>e. \/ UNCHANGED session
      \/ box[d] = "running" /\ box'[d] = "stopped" /\ session = d /\ session' = "closed"
  <2>1. CASE Docker(d)
    BY <2>1 DEF Docker, profileVars
  <2>2. CASE Program(d)
    BY <1>a, <1>b, <2>2 DEF Program, ProgramEnds, Become
  <2> QED
    BY <2>1, <2>2
<1>1. Seeded'
  <2>1. /\ box'["seed"] = "running" => box["seed"] = "running" \/ cli["seed"] = "creating"
        /\ cli'["seed"] \in {"idle", "creating"} => cli["seed"] \in {"idle", "creating"}
    BY <1>a, WorldBoxes
  <2> QED
    BY <1>c, <1>e, <2>1 DEF Sessions, Seeded
<1>2. SeedKilled'
  BY <1>a, <1>c, <1>d, <1>e DEF Sessions, SeedKilled, Over
<1>3. Verified'
  BY <1>a, <1>c, <1>d DEF Sessions, Verified
<1>4. ASSUME NEW p \in Asking, Answered(p), Shown(p) PROVE Shown(p)'
  <2>1. CASE p = "boundary"
    <3>1. box["crash"] # "running"
      BY <2>1, <1>4, Running DEF Answered, Session, Crashed
    <3> QED
      BY <1>c, <1>e, <2>1, <3>1, <1>4 DEF Shown
  <2>2. CASE p = "verify"
    BY <1>e, <1>4, <2>2 DEF Shown
  <2> QED
    BY <1>c, <1>4, <2>1, <2>2 DEF Asking, Shown
<1>5. ASSUME NEW p \in Asking, Answered(p)', ~Answered(p) PROVE Shown(p)'
  <2>1. /\ at[p] = "wait" /\ code[p] # "zero" /\ cli[p] # "zero"
        /\ code'[p] = "zero" \/ cli'[p] = "zero"
    BY <1>c, <1>5 DEF Answered
  <2>2. CASE Docker(d)
    BY <1>a, <1>b, <2>1, <2>2 DEF Asking, Docker, Daemon, Create, AutoRemove, CommandExits, Become, CommandIs
  <2>3. CASE Program(d)
    <3>1. PICK k \in {"zero", "nonzero"} : MayEnd(d, k) /\ ProgramEnds(d, k)
      BY <2>3 DEF Program
    <3>2. p = d /\ k = "zero" /\ code'[d] = "zero"
      BY <1>a, <1>b, <2>1, <3>1 DEF Asking, ProgramEnds, Become
    <3>3. session' = IF d = session THEN "closed" ELSE session
      BY <2>3, <3>2 DEF Program
    <3>4. CASE p = "boundary"
      BY <3>1, <3>2, <3>3, <3>4 DEF MayEnd, Shown, Session, Crashed
    <3>5. CASE p = "cookie"
      BY <1>c, <3>1, <3>2, <3>5 DEF MayEnd, Shown, Session, Crashed
    <3>6. CASE p = "verify"
      BY <3>1, <3>2, <3>3, <3>6 DEF MayEnd, Shown, Session, Crashed
    <3> QED
      BY <3>4, <3>5, <3>6 DEF Asking
  <2> QED
    BY <2>2, <2>3
<1> QED
  BY <1>1, <1>2, <1>3, <1>4, <1>5 DEF Sessions, Answers

\* A browser takes the profile.
LEMMA TakeSessions ==
    ASSUME OrderOK, Sessions, NEW c \in Job, TakeProfile(c)
    PROVE  Sessions'
<1>a. UNCHANGED <<cli, box, code, at, errs, cookie, navigated>>
      /\ c \in Session /\ box[c] = "running" /\ session' = c
  BY DEF TakeProfile, containerVars, collectorVars
<1>b. /\ at[c] \notin {"idle", "launch"}
      /\ ~Over(c) /\ code[c] = "none" /\ cli[c] # "zero"
      /\ c = "crash" => at["boundary"] = "idle" /\ at["seed"] = "idle"
      /\ c \in {"crash", "seed"} => at["verify"] = "idle"
      /\ c = "verify" => at["seed"] = "done"
  BY <1>a, Running
<1>1. Seeded'
  <2>1. box["seed"] = "running" => c = "seed"
    <3>1. box["seed"] = "running" =>
             at["seed"] \notin {"idle", "launch"} /\ at["verify"] = "idle"
      BY Running DEF Session, Crashed
    <3> QED
      BY <1>a, <1>b, <3>1 DEF Session, Crashed
  <2> QED
    BY <1>a, <2>1 DEF Sessions, Seeded
<1>2. SeedKilled'
  BY <1>a, <1>b DEF Sessions, SeedKilled, Over, Killing, Session, Crashed
<1>3. Verified'
  BY <1>a DEF Sessions, Verified, Over
<1>4. ASSUME NEW p \in Asking, Answered(p), Shown(p) PROVE Shown(p)'
  <2>1. CASE p = "boundary"
    <3>1. c # "crash"
      BY <1>b, <1>4, <2>1 DEF Answered
    <3> QED
      BY <1>a, <1>b, <2>1, <3>1 DEF Shown, Session, Crashed
  <2>2. CASE p = "cookie"
    BY <1>a, <1>4, <2>2 DEF Shown
  <2>3. CASE p = "verify"
    <3>1. c = "verify"
      BY <1>a, <1>b, <1>4, <2>3 DEF Answered, Session, Crashed
    <3> QED
      BY <1>b, <1>4, <2>3, <3>1 DEF Answered, Sessions, Verified
  <2> QED
    BY <2>1, <2>2, <2>3 DEF Asking
<1> QED
  BY <1>1, <1>2, <1>3, <1>4, <1>a DEF Sessions, Answers, Answered

\* The page is asked for, and reported; the cookie reaches the disk.
LEMMA RequestSessions ==
    ASSUME OrderOK, Sessions, Flush \/ \E k \in Kind : Request(k, k)
    PROVE  Sessions'
<1>a. UNCHANGED <<cli, box, code, at, errs, session>> /\ Seed = "seed" /\ "seed" \in Container
  BY JobFacts DEF Flush, Request, containerVars
<1>1. \/ UNCHANGED cookie /\ navigated \subseteq navigated' /\ (Seed \in navigated' => Seed \in navigated)
      \/ cookie' = "durable" /\ cookie # "none" /\ UNCHANGED navigated
      \/ /\ cookie' = "memory" /\ Seed \notin navigated /\ Seed \in navigated'
         /\ box["seed"] = "running" /\ session = "seed"
  BY <1>a DEF Flush, Request, Navigate, Observe, collectorVars, Session, Crashed
<1>2. box["seed"] = "running" => cli["seed"] \notin {"idle", "creating"}
  BY <1>a DEF OrderOK, Base, ContainerInv
<1>3. Seeded'
  BY <1>a, <1>1, <1>2 DEF Sessions, Seeded
<1>4. \A p \in Asking : Answered(p) => Shown(p)'
  BY <1>a, <1>1 DEF Sessions, Answers, Seeded, Shown
<1> QED
  BY <1>a, <1>3, <1>4 DEF Sessions, SeedKilled, Verified, Answers, Answered, Over

\* All that runs beside Run.
LEMMA BesideSessions ==
    ASSUME OrderOK, Sessions, Beside
    PROVE  Sessions'
<1>1. ASSUME NEW d \in Job, Docker(d) \/ Program(d) PROVE Sessions'
  BY <1>1, DockerSessions
<1>2. ASSUME NEW c \in Job, TakeProfile(c) PROVE Sessions'
  BY <1>2, TakeSessions
<1>3. CASE Flush \/ \E k \in Kind : Request(k, k)
  BY <1>3, RequestSessions
<1>4. CASE UNCHANGED <<boxVars, jobVars, profileVars, navigated>>
  BY <1>4 DEF Sessions, Seeded, SeedKilled, Answers, Answered, Verified, Shown, Over, boxVars, jobVars, profileVars
<1>5. \/ UNCHANGED <<boxVars, jobVars, profileVars, navigated>>
      \/ \E c \in Job : Docker(c) \/ Program(c) \/ TakeProfile(c)
      \/ Flush \/ \E k \in Kind : Request(k, k)
  BY DEF Beside, World, Waiter, Asked, Check, Wake, Expire, Waiting, Handle, Mark, Respond, Answer, ServeFails,
         ContextEnds, Drop, containerVars, boxVars, jobVars, collectorVars
<1> QED
  BY <1>1, <1>2, <1>3, <1>4, <1>5

\* Every piece of evidence was taken from a container that had shown it, and
\* nothing has undone it since.
LEMMA EvidenceShown ==
    ASSUME JudgeOK, Sessions
    PROVE  EvidenceIsReal
<1>a. OrderOK /\ Kills /\ Watched /\ Grounds
  BY DEF JudgeOK, WatchOK, Judged
<1>b. /\ "seed" \in Kind \cap Cookied /\ "verify" \in Kind \cap Cookied /\ Seed = "seed"
      /\ "seed" \notin SetOf(Browsed) /\ "verify" \notin SetOf(Browsed)
  BY JobFacts
<1>1. \A p \in Asking : WellDone(p) => Shown(p)
  BY DEF Sessions, Answers, Answered, WellDone
<1>2. WellDone("seed") => WellDone("cookie") /\ waiter["seed"] = "seen"
  BY <1>a, <1>b DEF Kills, SeedSound, WellDone
<1>3. WellDone("verify") => WellDone("seed")
  <2>1. N + 6 \in DOMAIN Order /\ N + 7 \in DOMAIN Order /\ N + 6 < N + 7
    BY OrderIs
  <2> QED
    BY <1>a, <1>b, <2>1, OrderIs DEF OrderOK, InOrder, WellDone
<1>4. \A k \in {"seed", "verify"} : waiter[k] = "seen" => k \in marked
  BY <1>a, <1>b DEF Watched, Ready
<1>5. "startup" \in evidence /\ at["seed"] \in {"idle", "launch"} => session = "crash"
  BY <1>a, <1>1 DEF Grounds, Asking, Shown
<1>6. "crash" \in evidence => cookie = "durable"
  BY <1>a, <1>1, <1>2 DEF Grounds, Asking, Shown
<1>7. "crash" \in evidence /\ at["verify"] \in {"idle", "launch"} => session = "seed"
  BY <1>a DEF Grounds, Sessions, SeedKilled, WellDone
<1>8. "recovered" \in evidence => session = "closed"
  BY <1>a, <1>1 DEF Grounds, Asking, Shown
<1>9. "cookie" \in evidence => {"seed", "verify"} \subseteq marked
  BY <1>a, <1>2, <1>3, <1>4 DEF Grounds
<1> QED
  BY <1>5, <1>6, <1>7, <1>8, <1>9 DEF EvidenceIsReal

\* What the runner says of the profile is true of the volume, whatever the
\* containers, docker and the context of the run did in between: each crash
\* left what its probe had looked for, and "verify" recovered it.
THEOREM EvidenceHolds == Spec => []EvidenceIsReal
<1>1. Init => Sessions
  <2>1. {"seed", "verify", "boundary", "cookie"} \subseteq Container
    BY JobFacts
  <2> QED
    BY <2>1 DEF Init, ContainerInit, CollectorInit, ProfileInit, Sessions, Seeded, SeedKilled, Answers, Answered,
           Verified, Asking, Killing
<1>2. ASSUME JudgeOK, Sessions, [Next]_vars PROVE Sessions'
  <2>1. CASE UNCHANGED vars
    BY <2>1, <1>2 DEF Sessions, Seeded, SeedKilled, Answers, Answered, Verified, Shown, Over, vars, containerVars,
           collectorVars, profileVars
  <2>2. ASSUME NEW c \in Job, JobStep(c) PROVE Sessions'
    BY <1>2, <2>2, JobSessions DEF JudgeOK
  <2>3. CASE RunStep
    BY <1>2, <2>3, RunSessions DEF JudgeOK, WatchOK
  <2>4. CASE Beside
    BY <1>2, <2>4, BesideSessions DEF JudgeOK, WatchOK
  <2> QED
    BY <1>2, <2>1, <2>2, <2>3, <2>4 DEF Next, Beside
<1> QED
  BY <1>1, <1>2, JudgeInvariant, EvidenceShown, PTL DEF Spec

-----------------------------------------------------------------------------
(* The runner keeps to the lease of the profile *)

\* A container that docker has not created has not touched the profile, and a
\* browser that has asked for its page runs on the profile of its session.
Touched ==
    \A c \in Session :
        /\ cli[c] \in {"idle", "creating"} => session # c /\ c \notin navigated
        /\ c \in navigated /\ box[c] = "running" => session = c

\* No two programs that may take the profile run at a time.
LEMMA RunsAlone ==
    ASSUME OrderOK, NEW c \in Session, NEW d \in Session,
           box[c] = "running", box[d] = "running"
    PROVE  c = d
<1>1. \A e \in {c, d} :
         /\ at[e] \notin {"idle", "launch"}
         /\ e = "crash" => at["seed"] = "idle"
         /\ e \in {"crash", "seed"} => at["verify"] = "idle"
  BY Running
<1> QED
  BY <1>1 DEF Session, Crashed

\* What ends, starts or stops containers leaves the profile with who has it,
\* or with nobody.
LEMMA HavingShrinks ==
    ASSUME OrderOK, Touched, UNCHANGED navigated,
           \A c \in Session :
              /\ box'[c] = "running" => box[c] = "running" \/ cli[c] = "creating"
              /\ cli'[c] \in {"idle", "creating"} => cli[c] \in {"idle", "creating"},
           session' \in {session, "closed"},
           \A c \in Session : box'[c] = "running" /\ session = c => session' = c
    PROVE  Touched' /\ [Lease!Next]_(Lease!vars)
<1>1. "closed" \notin Session
  BY DEF Session, Crashed
<1>2. Touched'
  BY <1>1 DEF Touched
<1>3. Having' \subseteq Having
  BY <1>1 DEF Having, Touched
<1>4. CASE Having' = Having
  BY <1>2, <1>4 DEF Lease!vars
<1>5. CASE Having' # Having
  <2>1. Having # {} /\ Having' = {}
    BY <1>3, <1>5 DEF Having
  <2> QED
    BY <1>2, <2>1 DEF Lease!Next, Lease!Return
<1> QED
  BY <1>4, <1>5

LEMMA TakeLeases ==
    ASSUME OrderOK, Touched, NEW c \in Job, TakeProfile(c)
    PROVE  Touched' /\ [Lease!Next]_(Lease!vars)
<1>1. /\ c \in Session /\ box[c] = "running" /\ session # c /\ session' = c
      /\ UNCHANGED <<cli, box, navigated>>
  BY DEF TakeProfile, containerVars, collectorVars
<1>2. \A d \in Session : box[d] = "running" => d = c
  BY <1>1, RunsAlone
<1>3. cli[c] \notin {"idle", "creating"} /\ c \notin navigated
  BY <1>1, JobFacts DEF OrderOK, Base, ContainerInv, Touched
<1>4. Touched'
  BY <1>1, <1>2, <1>3 DEF Touched
<1>5. Having = {} /\ Having' = {c}
  BY <1>1, <1>2 DEF Having
<1>6. Lease!Grant(c)
  BY <1>1, <1>3, <1>5 DEF Lease!Grant
<1> QED
  BY <1>1, <1>4, <1>6 DEF Lease!Next

LEMMA RequestLeases ==
    ASSUME OrderOK, Touched, NEW k \in Kind, Request(k, k)
    PROVE  Touched' /\ [Lease!Next]_(Lease!vars)
<1>1. UNCHANGED <<cli, box, session>>
  BY DEF Request, containerVars
<1>2. CASE UNCHANGED navigated
  BY <1>1, <1>2 DEF Touched, Having, Lease!vars
<1>3. CASE ~UNCHANGED navigated
  <2>1. /\ k \notin navigated /\ navigated' = navigated \cup {k}
        /\ box[k] = "running" /\ (k \in Session => session = k)
    BY <1>3 DEF Request, Navigate, Observe
  <2>2. k \in Session => cli[k] \notin {"idle", "creating"}
    BY <2>1, JobFacts DEF OrderOK, Base, ContainerInv
  <2>3. Touched'
    BY <1>1, <2>1, <2>2 DEF Touched
  <2>4. CASE k \in Session
    <3>1. Having = {k} /\ Having' = {k} /\ k \notin navigated /\ k \in navigated'
      BY <1>1, <2>1, <2>4 DEF Having
    <3>2. Lease!StartBrowser(<<k>>)
      BY <3>1 DEF Lease!StartBrowser
    <3> QED
      BY <2>3, <2>4, <3>2 DEF Lease!Next
  <2>5. CASE k \notin Session
    BY <1>1, <2>1, <2>3, <2>5 DEF Having, Lease!vars
  <2> QED
    BY <2>4, <2>5
<1> QED
  BY <1>2, <1>3

LEMMA LeaseNext ==
    ASSUME OrderOK, Touched, [Next]_vars
    PROVE  Touched' /\ [Lease!Next]_(Lease!vars)
<1>a. \A c \in Session : c \in Job /\ c \in Container
  BY JobFacts DEF Session, Crashed
<1>1. CASE UNCHANGED <<cli, box, session, navigated>>
  BY <1>1 DEF Touched, Having, Lease!vars
<1>2. ASSUME NEW d \in Job, JobStep(d) PROVE Touched' /\ [Lease!Next]_(Lease!vars)
  <2>1. UNCHANGED <<session, navigated>>
    BY <1>2 DEF JobStep, CrashStep, profileVars, collectorVars
  <2>2. Alone(d)
    BY <1>2, CrashStepMoves, OwnStepMoves, JobFacts DEF OrderOK
  <2>3. \A c \in Session :
           /\ box'[c] = "running" => box[c] = "running"
           /\ cli'[c] \in {"idle", "creating"} => cli[c] \in {"idle", "creating"}
    BY <1>a, <1>2, <2>2, JobBoxes DEF Alone
  <2> QED
    BY <2>1, <2>3, HavingShrinks
<1>3. ASSUME NEW d \in Job, Docker(d) PROVE Touched' /\ [Lease!Next]_(Lease!vars)
  BY <1>a, <1>3, WorldBoxes, HavingShrinks DEF Docker, profileVars, collectorVars
<1>4. ASSUME NEW d \in Job, Program(d) PROVE Touched' /\ [Lease!Next]_(Lease!vars)
  <2>1. UNCHANGED navigated /\ session' \in {session, "closed"}
        /\ (session' # session => box'[session] # "running")
    <3>1. d \in Container /\ box \in [Container -> {"none", "running", "stopped"}]
      BY JobFacts DEF OrderOK, Base, TypeOK, ContainerTypeOK
    <3> QED
      BY <1>4, <3>1 DEF Program, ProgramEnds, Become, collectorVars
  <2> QED
    BY <1>a, <1>4, <2>1, WorldBoxes, HavingShrinks
<1>5. \/ UNCHANGED <<cli, box, session, navigated>>
      \/ \E c \in Job : JobStep(c) \/ Docker(c) \/ Program(c) \/ TakeProfile(c)
      \/ \E k \in Kind : Request(k, k)
  BY DEF Next, vars, RunStep, StayOut, World, Waiter, Asked, Check, Wake, Expire, Waiting, Handle, Mark,
         Respond, Answer, ServeFails, ContextEnds, Flush, Drop, containerVars, boxVars, collectorVars, profileVars
<1> QED
  BY <1>1, <1>2, <1>3, <1>4, <1>5, TakeLeases, RequestLeases

\* The runner keeps to the profile's lease although it never waits for the
\* lock: each session ends before the next one takes the profile, whatever
\* docker fails at and whatever is canceled in between.
THEOREM SessionsTakeTurns == Spec => SessionsInTurn
<1>1. Init => Lease!Init /\ Touched
  <2>1. \A c \in Session : c \in Container
    BY JobFacts DEF Session, Crashed
  <2> QED
    BY <2>1 DEF Init, ContainerInit, CollectorInit, ProfileInit, Lease!Init, Having, Touched, Session, Crashed
<1>2. OrderOK /\ Touched /\ [Next]_vars => Touched' /\ [Lease!Next]_(Lease!vars)
  BY LeaseNext
<1> QED
  BY <1>1, <1>2, OrderInvariant, PTL DEF Spec, SessionsInTurn, Lease!Spec

-----------------------------------------------------------------------------
(* Nobody goes back *)

\* The steps of Run in the order in which it may take them.
Position(s) ==
    CASE s = "listen" -> 0
      [] s = "origin" -> 1
      [] s = "volume" -> N + 4
      [] s = "posted" -> N + 10
      [] s = "unvolume" -> N + 11
      [] s = "report" -> N + 12
      [] s = "teardown" -> N + 13
      [] s = "shutdown" -> N + 14
      [] s = "ended" -> N + 15
      [] OTHER -> IF Place(s) <= N + 2 THEN Place(s) + 1 ELSE Place(s) + 2

\* How many steps the goroutine of a container has left at most.
StepsLeft(s) ==
    CASE s = "idle" -> 15
      [] s = "launch" -> 14
      [] s \in {"boundary", "ready", "observe"} -> 13
      [] s \in {"persist", "joining", "wait", "delay"} -> 12
      [] s = "kill" -> 11
      [] s = "crashed" -> 10
      [] s = "exitcode" -> 9
      [] s = "discard" -> 8
      [] s = "vanished" -> 7
      [] s \in {"stop", "term", "slay"} -> 6
      [] s = "reap" -> 5
      [] s = "force" -> 4
      [] s = "forced" -> 3
      [] s = "remove" -> 2
      [] s = "inspect" -> 1
      [] OTHER -> 0

\* What the goroutine of a container goes through, step by step.
LEMMA Left ==
    /\ StepsLeft("idle") = 15 /\ StepsLeft("launch") = 14
    /\ \A s \in {"boundary", "ready", "observe"} : StepsLeft(s) = 13
    /\ \A s \in {"persist", "joining", "wait", "delay"} : StepsLeft(s) = 12
    /\ StepsLeft("kill") = 11 /\ StepsLeft("crashed") = 10 /\ StepsLeft("exitcode") = 9
    /\ StepsLeft("discard") = 8 /\ StepsLeft("vanished") = 7
    /\ \A s \in {"stop", "term", "slay"} : StepsLeft(s) = 6
    /\ StepsLeft("reap") = 5 /\ StepsLeft("force") = 4 /\ StepsLeft("forced") = 3
    /\ StepsLeft("remove") = 2 /\ StepsLeft("inspect") = 1 /\ StepsLeft("done") = 0
    /\ \A s : StepsLeft(s) \in 0 .. 15
  BY DEF StepsLeft

\* Where the steps of Run are.
LEMMA Positions ==
    /\ N \in Nat
    /\ Position("listen") = 0 /\ Position("origin") = 1 /\ Position("volume") = N + 4
    /\ Position("posted") = N + 10 /\ Position("unvolume") = N + 11
    /\ Position("report") = N + 12 /\ Position("teardown") = N + 13
    /\ Position("shutdown") = N + 14 /\ Position("ended") = N + 15
    /\ \A i \in DOMAIN Order : Position(Order[i]) = IF i <= N + 2 THEN i + 1 ELSE i + 2
<1>1. ASSUME NEW i \in DOMAIN Order
      PROVE  Position(Order[i]) = IF i <= N + 2 THEN i + 1 ELSE i + 2
  <2>1. Order[i] \notin Between
    BY JobFacts DEF SetOf
  <2>2. Place(Order[i]) = i
    BY PlaceIs
  <2> QED
    BY <2>1, <2>2 DEF Position, Between
<1> QED
  BY <1>1, OrderIs DEF Position

RunOnward ==
    \/ Position(stage) < Position(stage')
    \/ stage' = stage /\ collect = "select" /\ collect' # "select"

JobOnward(c) == StepsLeft(at'[c]) < StepsLeft(at[c])

\* Nobody does anything twice: Run goes from step to step in one direction, and
\* each name given to docker run is used once, by a goroutine that goes through
\* its steps in one direction, too, whatever docker, the browsers and the
\* context do.
NobodyGoesBack ==
    [][/\ RunStep => RunOnward
       /\ \A c \in Job : JobStep(c) => \E d \in Container : JobOnward(d)
       /\ stage' # stage \/ collect' # collect => RunOnward
       /\ \A c \in Container : at'[c] # at[c] => JobOnward(c)]_vars

\* A step of a goroutine takes it on, and no other one.
Only(c) == JobOnward(c) /\ \A d \in Container \ {c} : at'[d] = at[d]

\* Go takes a goroutine on if its next step has fewer left.
LEMMA GoOnward ==
    ASSUME ContainerTypeOK, NEW c \in Container, NEW s, NEW E, Go(c, s, E),
           StepsLeft(s) < StepsLeft(at[c])
    PROVE  Only(c)
  BY DEF ContainerTypeOK, Go, Only, JobOnward

\* A probe is started once.
LEMMA SpawnOnward ==
    ASSUME ContainerTypeOK, NEW c, NEW p \in Container, NEW s, Spawn(p, c, s)
    PROVE  Only(p)
  BY Left DEF ContainerTypeOK, Spawn, Only, JobOnward

\* An injection that is given up goes to the cleanup, from whatever step.
LEMMA GiveUpOnward ==
    ASSUME ContainerTypeOK, NEW c \in Container, NEW E, GiveUp(c, E), StepsLeft(at[c]) > 6
    PROVE  Only(c)
<1>1. PICK s \in {"remove", "slay"} : Go(c, s, E)
  BY DEF GiveUp
<1> QED
  BY <1>1, Left, GoOnward

\* The steps of the two injections,
LEMMA CrashStepOnward ==
    ASSUME ContainerTypeOK, NEW c \in Container, CrashStep(c)
    PROVE  \E d \in Container : Only(d)
<1>a. {"probe", "cookie"} \subseteq Container
  BY JobFacts
<1> USE Left, GoOnward, GiveUpOnward DEF Inject
<1>1. CASE Spawn("probe", "crash", {"boundary", "joining"}) \/ Spawn("cookie", "seed", {"persist"})
  BY <1>1, <1>a, SpawnOnward
<1>2. CASE AtBoundary /\ c = "crash"
  BY <1>2 DEF AtBoundary
<1>3. CASE JoinProbe /\ c = "crash"
  BY <1>3 DEF JoinProbe
<1>4. CASE SeedObserved /\ c = "seed"
  BY <1>4 DEF SeedObserved
<1>5. CASE CookieProbed /\ c = "seed"
  BY <1>5 DEF CookieProbed
<1>6. CASE Kill(c)
  BY <1>6 DEF Kill
<1>7. CASE ReapCrashed(c)
  BY <1>7 DEF ReapCrashed
<1>8. CASE InspectCrashed(c)
  BY <1>8 DEF InspectCrashed
<1>9. CASE Discard(c)
  BY <1>9 DEF Discard
<1>10. CASE Vanished(c)
  BY <1>10 DEF Vanished
<1> QED
  BY <1>1, <1>2, <1>3, <1>4, <1>5, <1>6, <1>7, <1>8, <1>9, <1>10 DEF CrashStep

\* and those of every other container.
LEMMA JobStepOnward ==
    ASSUME ContainerTypeOK, NEW c \in Container, JobStep(c)
    PROVE  \E d \in Container : Only(d)
<1> USE Left, GoOnward
<1>1. CASE Launch(c, First(c))
  <2>1. First(c) \in {"ready", "boundary", "observe", "wait"}
    BY DEF First
  <2> QED
    BY <1>1, <2>1 DEF Launch
<1>2. CASE CommandReturns(c) \/ Canceled(c)
  BY <1>2 DEF CommandReturns, Canceled
<1>3. CASE BecomesReady(c)
  BY <1>3 DEF BecomesReady
<1>4. CASE DelayEnds(c, Signal(c))
  BY <1>4 DEF DelayEnds, Signal
<1>5. CASE StopContainer(c) \/ SignalContainer(c)
  <2>1. AfterSignal(c) \in {"remove", "reap"}
    BY DEF AfterSignal
  <2> QED
    BY <1>5, <2>1 DEF StopContainer, SignalContainer
<1>6. CASE ReapInGrace(c) \/ GraceEnds(c) \/ InspectGone(c)
  BY <1>6 DEF ReapInGrace, GraceEnds, InspectGone
<1>7. CASE RemoveContainer(c)
  BY <1>7 DEF RemoveContainer
<1> QED
  BY <1>1, <1>2, <1>3, <1>4, <1>5, <1>6, <1>7, CrashStepOnward DEF JobStep, CleanUp

\* Run goes on, and starts at most a container that has not begun.
LEMMA StageOnward ==
    ASSUME WatchOK, RunStep
    PROVE  RunOnward /\ \A c \in Container : at'[c] # at[c] => JobOnward(c)
<1>1. \A c \in Container : at'[c] # at[c] => JobOnward(c)
  BY RunMoves, Left DEF WatchOK, JobOnward
<1>0. /\ N \in Nat
      /\ Position("listen") = 0 /\ Position("origin") = 1 /\ Position("volume") = N + 4
      /\ Position("posted") = N + 10 /\ Position("unvolume") = N + 11
      /\ Position("report") = N + 12 /\ Position("teardown") = N + 13
      /\ Position("shutdown") = N + 14 /\ Position("ended") = N + 15
  BY Positions
<1>2. CASE Listen \/ Posted \/ RemoveVolume \/ TearDown \/ WriteReport \/ Shutdown
  <2>1. \/ stage = "listen" /\ stage' \in {"origin", "ended"}
        \/ stage = "posted" /\ stage' = "unvolume"
        \/ stage = "unvolume" /\ stage' = "report"
        \/ stage = "report" /\ stage' = "teardown"
        \/ stage = "teardown" /\ stage' = "shutdown"
        \/ stage = "shutdown" /\ stage' = "ended"
    BY <1>2 DEF Listen, Posted, RemoveVolume, TearDown, WriteReport, Shutdown, To, Fail
  <2> QED
    BY <1>0, <1>1, <2>1 DEF RunOnward
<1>3. CASE Origin
  <2>1. 1 \in DOMAIN Order /\ 1 <= N + 2
    BY OrderIs
  <2>2. Position(Order[1]) = 2
    BY <2>1, Positions
  <2> QED
    BY <1>0, <1>1, <1>3, <2>2 DEF RunOnward, Origin, Fail, To
<1>4. CASE CreateVolume
  <2>1. N + 3 \in DOMAIN Order /\ Order[N + 3] = "init" /\ ~(N + 3 <= N + 2)
    BY OrderIs
  <2>2. Position("init") = (N + 3) + 2
    BY <2>1, Positions
  <2> QED
    BY <1>0, <1>1, <1>4, <2>2 DEF RunOnward, CreateVolume, Fail, To
<1>5. ASSUME NEW n \in DOMAIN Order, stage = Order[n], FailJob(stage) \/ Proceed(stage)
      PROVE  Position(stage) < Position(stage')
  <2>1. n \in 1 .. N + 7 /\ Position(stage) = IF n <= N + 2 THEN n + 1 ELSE n + 2
    BY <1>5, OrderIs, Positions
  <2>2. CASE FailJob(stage)
    <3>1. FailJob(Order[n])
      BY <1>5, <2>2
    <3>2. stage' \in {"unvolume", "teardown"}
      BY <3>1, FailJobIs
    <3>3. Position(stage') \in {N + 11, N + 13}
      BY <1>0, <3>2
    <3> QED
      BY <1>0, <2>1, <3>3
  <2>3. CASE Proceed(stage)
    <3>1. \/ Order[n] = "attached" /\ stage' = "volume"
          \/ Order[n] = "verify" /\ stage' = "posted"
          \/ n + 1 \in DOMAIN Order /\ stage' = Order[n + 1]
      BY <1>5, <2>3, ProceedTo
    <3>2. CASE Order[n] = "attached" /\ stage' = "volume"
      <4>1. n = N + 2
        BY <3>2, JobFacts, OrderIs
      <4> QED
        BY <1>0, <1>5, <2>1, <3>2, <4>1
    <3>3. CASE Order[n] = "verify" /\ stage' = "posted"
      BY <1>0, <2>1, <3>3
    <3>4. CASE n + 1 \in DOMAIN Order /\ stage' = Order[n + 1]
      <4>1. Position(Order[n + 1]) = IF n + 1 <= N + 2 THEN (n + 1) + 1 ELSE (n + 1) + 2
        BY <3>4, Positions
      <4> QED
        BY <1>0, <2>1, <3>4, <4>1
    <3> QED
      BY <3>1, <3>2, <3>3, <3>4
  <2> QED
    BY <1>5, <2>2, <2>3
<1>6. ASSUME NEW c \in SetOf(Browsed), Select(c) \/ LaunchEnded(c) \/ AwaitReport(c),
             stage' = stage
      PROVE  collect = "select" /\ collect' # "select"
  <2>1. PICK n \in DOMAIN Order : c = Order[n]
    BY JobFacts, OrderIs
  <2>2. stage = c
    BY <1>6 DEF Select, LaunchEnded, AwaitReport
  <2>3. ~FailJob(c) /\ ~Proceed(c)
    <3>1. Position(stage) \in Int
      BY <2>1, <2>2, OrderIs, Positions
    <3>2. ~(Position(stage) < Position(stage'))
      BY <1>6, <3>1
    <3> QED
      BY <1>5, <2>1, <2>2, <3>2
  <2> QED
    BY <1>6, <2>3 DEF Select, LaunchEnded, AwaitReport
<1>7. ASSUME NEW c \in Job, JobReturns(c) PROVE stage \notin SetOf(Browsed)
  BY <1>7 DEF JobReturns
<1> QED
  <2>1. \/ Listen \/ Origin \/ CreateVolume \/ Posted \/ RemoveVolume \/ TearDown \/ WriteReport \/ Shutdown
        \/ \E c \in SetOf(Browsed) : Select(c) \/ LaunchEnded(c) \/ AwaitReport(c)
        \/ \E n \in DOMAIN Order : stage = Order[n] /\ (FailJob(stage) \/ Proceed(stage))
    <3>1. OrderOK /\ Watched
      BY DEF WatchOK
    <3>2. \/ Listen \/ Origin \/ CreateVolume \/ Posted \/ RemoveVolume \/ TearDown \/ WriteReport \/ Shutdown
          \/ stage \in SetOf(Browsed)
          \/ \E n \in DOMAIN Order : stage = Order[n] /\ (FailJob(stage) \/ Proceed(stage))
      BY <3>1, RunCases
    <3> QED
      BY <1>7, <3>2 DEF RunStep
  <2> QED
    <3>1. CASE \E c \in SetOf(Browsed) : Select(c) \/ LaunchEnded(c) \/ AwaitReport(c)
      <4>1. PICK n \in DOMAIN Order : stage = Order[n]
        BY <3>1, JobFacts, OrderIs DEF Select, LaunchEnded, AwaitReport
      <4>2. stage' = stage \/ FailJob(stage) \/ Proceed(stage)
        BY <3>1 DEF Select, LaunchEnded, AwaitReport
      <4> QED
        BY <1>1, <1>5, <1>6, <3>1, <4>1, <4>2 DEF RunOnward
    <3>2. CASE \E n \in DOMAIN Order : stage = Order[n] /\ (FailJob(stage) \/ Proceed(stage))
      BY <1>1, <1>5, <3>2 DEF RunOnward
    <3> QED
      BY <1>2, <1>3, <1>4, <2>1, <3>1, <3>2

\* Whatever fails, times out or is canceled, the runner does nothing twice: no
\* stage of Run is entered again, and no name is given to docker run again.
THEOREM ConformanceOnlyForward == Spec => NobodyGoesBack
<1> DEFINE Onward == /\ RunStep => RunOnward
                     /\ \A c \in Job : JobStep(c) => \E d \in Container : JobOnward(d)
                     /\ stage' # stage \/ collect' # collect => RunOnward
                     /\ \A c \in Container : at'[c] # at[c] => JobOnward(c)
<1>1. ASSUME WatchOK, [Next]_vars PROVE Onward
  <2>1. ASSUME NEW c \in Job, JobStep(c)
        PROVE  /\ UNCHANGED <<stage, collect>>
               /\ \E d \in Container : JobOnward(d)
               /\ \A d \in Container : at'[d] # at[d] => JobOnward(d)
    <3>1. \E d \in Container : Only(d)
      BY <1>1, <2>1, JobFacts, JobStepOnward DEF WatchOK, OrderOK, Base, TypeOK
    <3> QED
      BY <2>1, <3>1 DEF Only, JobStep, runVars
  <2>2. ASSUME ~RunStep, \A c \in Job : ~JobStep(c)
        PROVE  UNCHANGED <<stage, collect, at>>
    BY <1>1, <2>2
    DEF Next, vars, World, Docker, Daemon, Create, AutoRemove, CommandExits, Program, ProgramEnds,
        TakeProfile, Flush, Request, Drop, Waiter, Handle, Respond, ServeFails, ContextEnds, EndRun,
        containerVars, boxVars, jobVars, runVars
  <2>3. ASSUME RunStep PROVE RunOnward /\ \A c \in Container : at'[c] # at[c] => JobOnward(c)
    BY <1>1, <2>3, StageOnward
  <2> QED
    BY <2>1, <2>2, <2>3
<1> QED
  BY <1>1, WatchInvariant, PTL DEF Spec, NobodyGoesBack

=============================================================================
