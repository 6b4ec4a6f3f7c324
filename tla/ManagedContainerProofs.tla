------------------------ MODULE ManagedContainerProofs ------------------------
(***************************************************************************)
(* Proofs about ManagedContainer, for any set of containers, whatever      *)
(* docker fails at: a cleanup without an error leaves nothing, and nobody  *)
(* who could create it again.                                              *)
(***************************************************************************)
EXTENDS ManagedContainer, TLAPS

\* The steps after the end of the docker run command.
AfterReap == {"remove", "inspect", "exitcode", "discard", "vanished"}

\* What the goroutine of a container relies on: before docker run has created
\* it there is nothing, what has ended runs no more, and from the final removal
\* on docker run has ended, or an error says that it has not.
ContainerInv ==
    \A c \in Container :
        /\ cli[c] \in {"idle", "creating"} => box[c] = "none" /\ code[c] = "none"
        /\ cli[c] = "zero" \/ code[c] # "none" => box[c] # "running"
        /\ at[c] \in {"idle", "launch", "fetch"} => cli[c] = "idle"
        /\ at[c] \in AfterReap /\ "cleanup" \notin errs[c] => cli[c] = "reaped"
        /\ at[c] = "done" /\ "cleanup" \notin errs[c] => Gone(c)

ContainerOK == ContainerTypeOK /\ ContainerInv

\* Nothing was started.
LEMMA ContainerStarts == ContainerInit => ContainerOK
  BY DEF ContainerInit, ContainerOK, ContainerTypeOK, ContainerInv, Step, Cause, Gone,
         Exists, AfterReap, Error, Ended, Run

\* The daemon and the docker run command keep what the goroutine relies on:
\* docker creates only for a command that is still there.
LEMMA DaemonKeeps ==
    ASSUME ContainerOK, NEW c \in Container,
           Daemon(c) \/ \E k \in {"zero", "nonzero"} : ProgramEnds(c, k)
    PROVE  ContainerOK'
<1> USE DEF ContainerOK, ContainerTypeOK, ContainerInv, Gone, Exists, AfterReap,
            Become, CommandIs, jobVars, Ended
<1>1. CASE Create(c)
  BY <1>1 DEF Create
<1>2. CASE AutoRemove(c)
  BY <1>2 DEF AutoRemove
<1>3. CASE CommandExits(c)
  BY <1>3 DEF CommandExits
<1>4. CASE \E k \in {"zero", "nonzero"} : ProgramEnds(c, k)
  BY <1>4 DEF ProgramEnds
<1> QED BY <1>1, <1>2, <1>3, <1>4 DEF Daemon

\* So do the steps that start docker run and wait for it or for its end.
LEMMA WaitKeeps ==
    ASSUME ContainerOK, NEW c \in Container,
           \/ \E first \in {"wait", "ready", "boundary", "observe"} : Launch(c, first)
           \/ CommandReturns(c)
           \/ Canceled(c)
           \/ BecomesReady(c)
           \/ \E signal \in {"stop", "term"} : DelayEnds(c, signal)
    PROVE  ContainerOK'
<1> USE DEF ContainerOK, ContainerTypeOK, ContainerInv, Gone, Exists, AfterReap,
            CommandIs, Go, Reap, boxVars, Ended, Step, Error, CtxError, Cause
<1>1. ASSUME NEW first \in {"wait", "ready", "boundary", "observe"}, Launch(c, first)
      PROVE  ContainerOK'
  BY <1>1 DEF Launch
<1>2. CASE CommandReturns(c)
  BY <1>2 DEF CommandReturns, ProgramError
<1>3. CASE Canceled(c)
  BY <1>3 DEF Canceled
<1>4. CASE BecomesReady(c)
  BY <1>4 DEF BecomesReady
<1>5. ASSUME NEW signal \in {"stop", "term"}, DelayEnds(c, signal) PROVE ContainerOK'
  BY <1>5 DEF DelayEnds
<1> QED BY <1>1, <1>2, <1>3, <1>4, <1>5

\* And cleanupLifecycleContainer: it removes by name once docker run has ended,
\* or says that it has not.
LEMMA CleanUpKeeps ==
    ASSUME ContainerOK, NEW c \in Container, CleanUp(c)
    PROVE  ContainerOK'
<1> USE DEF ContainerOK, ContainerTypeOK, ContainerInv, Gone, Exists, AfterReap,
            Become, CommandIs, Go, Reap, boxVars, Ended, Step, Error, AfterSignal
<1>1. CASE StopContainer(c)
  BY <1>1 DEF StopContainer
<1>2. CASE SignalContainer(c)
  BY <1>2 DEF SignalContainer
<1>3. CASE ReapInGrace(c)
  BY <1>3 DEF ReapInGrace
<1>4. CASE GraceEnds(c)
  BY <1>4 DEF GraceEnds
<1>5. CASE RemoveContainer(c)
  BY <1>5 DEF RemoveContainer, RemoveBox
<1>6. CASE InspectGone(c)
  BY <1>6 DEF InspectGone
<1> QED BY <1>1, <1>2, <1>3, <1>4, <1>5, <1>6 DEF CleanUp

\* Contexts are no part of it.
LEMMA ContextKeeps ==
    ASSUME ContainerOK, UNCHANGED <<boxVars, jobVars>>,
           \/ UNCHANGED ctx
           \/ \E c \in Container : CancelContext(c)
           \/ \E cause \in {"canceled", "deadline"} : EndRun(cause)
    PROVE  ContainerOK'
  BY DEF ContainerOK, ContainerTypeOK, ContainerInv, Gone, Exists, AfterReap, boxVars,
         jobVars, CancelContext, EndRun, Cause

\* The invariant says so of every container that is done.
LEMMA OKMeansGone == ContainerOK => CleanMeansGone
  BY DEF ContainerOK, ContainerInv, CleanMeansGone
=============================================================================
