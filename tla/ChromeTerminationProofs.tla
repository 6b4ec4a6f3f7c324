----------------------- MODULE ChromeTerminationProofs -----------------------
(***************************************************************************)
(* Proofs about ChromeTermination, for any number of members.              *)
(***************************************************************************)
EXTENDS ChromeTermination, TLAPS

\* What the calls know about the group, and the group about its number.
Knowledge ==
    /\ foreign => ~OwnExists
    /\ ~struck
    /\ aborted => ~identified /\ doomed
    /\ \A c \in Caller :
          /\ pc[c] \in {"abort", "reap"} => aborted
          /\ pc[c] \in {"term", "kill", "fallbackKill"} => identified
          /\ pc[c] \in {"kill", "fallbackKill"} => doomed
          /\ pc[c] \in {"leader", "fallbackLeader"} => identified /\ ~OwnLive
          /\ pc[c] = "ok" => leader = "reaped" /\ (Live = {} \/ (~identified /\ doomed))

Inv == TypeOK /\ Knowledge /\ GivesUpAfterKill

USE DEF Caller

LEMMA InitInv == Init => Inv
  BY DEF Init, GroupInit, Inv, TypeOK, GroupTypeOK, Knowledge, OwnExists,
         OwnLive, Live, Waiting, Ended, GivesUpAfterKill

\* The launch and the exit of Node keep the invariant.
LEMMA LaunchKeepsInv ==
  ASSUME Inv, CaptureIdentity \/ AbortFresh \/ AbortEnds \/ NodeExits
  PROVE  Inv'
<1> USE DEF Inv, TypeOK, GroupTypeOK, Knowledge, GivesUpAfterKill, OwnExists,
            OwnLive, Live, Zombies, Waiting, Ended
<1>1. CASE CaptureIdentity
  BY <1>1 DEF CaptureIdentity, groupVars
<1>2. CASE AbortFresh
  BY <1>2 DEF AbortFresh, Goto, Kill
<1>3. CASE AbortEnds
  BY <1>3 DEF AbortEnds, Goto, groupVars
<1>4. CASE NodeExits
  BY <1>4 DEF NodeExits, groupVars
<1> QED BY <1>1, <1>2, <1>3, <1>4

\* Every step of a call keeps the invariant.
LEMMA CallKeepsInv ==
  ASSUME Inv, NEW c \in Caller, Terminating(c)
  PROVE  Inv'
<1> USE DEF Inv, TypeOK, GroupTypeOK, Knowledge, GivesUpAfterKill, OwnExists,
            OwnLive, AnyLive, Live, Zombies, Waiting, Ended, IdentityHolds,
            Goto, groupVars
<1>1. CASE BeginAborted(c)
  BY <1>1 DEF BeginAborted, MayBegin
<1>2. CASE Begin(c)
  <2>1. CASE Terminate /\ IdentityHolds /\ Goto(c, "term")
    BY <1>2, <2>1 DEF Begin, MayBegin, Terminate
  <2>2. CASE UNCHANGED groupVars /\ Goto(c, "failed") /\ ~IdentityHolds
    BY <1>2, <2>2 DEF Begin, MayBegin
  <2>3. CASE UNCHANGED groupVars /\ Goto(c, "failed") /\ blind' = blind \cup {c}
    BY <1>2, <2>3 DEF Begin, MayBegin
  <2> QED BY ONLY <1>2, <2>1, <2>2, <2>3 DEF Begin, Inspection
<1>3. CASE TermSuffices(c)
  BY <1>3 DEF TermSuffices
<1>4. CASE TermTimesOut(c)
  BY <1>4 DEF TermTimesOut, Kill
<1>5. CASE TermInspectionFails(c)
  BY <1>5 DEF TermInspectionFails, Kill, Inspection
<1>6. CASE GroupExits(c)
  BY <1>6 DEF GroupExits
<1>7. CASE GroupSurvives(c)
  BY <1>7 DEF GroupSurvives
<1>8. CASE LeaderWaited(c)
  BY <1>8 DEF LeaderWaited
<1>9. CASE LeaderNotReaped(c)
  BY <1>9 DEF LeaderNotReaped
<1> QED BY <1>1, <1>2, <1>3, <1>4, <1>5, <1>6, <1>7, <1>8, <1>9 DEF Terminating

\* So does everything the kernel does: a group without a running process
\* never has one again, and its number is free only when it is empty.
LEMMA KernelKeepsInv ==
  ASSUME Inv, ReapLeader \/ LeaderStops \/ KernelStep
  PROVE  Inv'
<1> USE DEF Inv, TypeOK, GroupTypeOK, Knowledge, GivesUpAfterKill, OwnExists,
            OwnLive, Live, Zombies, Waiting, Ended, termVars
<1>1. CASE ReapLeader
  BY <1>1 DEF ReapLeader, LeaderReaped
<1>2. CASE LeaderStops
  BY <1>2 DEF LeaderStops, LeaderDies
<1>3. ASSUME NEW m \in Member, Fork(m), UNCHANGED termVars PROVE Inv'
  BY <1>3 DEF Fork
<1>4. ASSUME NEW m \in Member, MemberDies(m), UNCHANGED termVars PROVE Inv'
  BY <1>4 DEF MemberDies
<1>5. ASSUME NEW m \in Member, MemberReaped(m), UNCHANGED termVars PROVE Inv'
  BY <1>5 DEF MemberReaped
<1>6. ASSUME NumberReused, UNCHANGED termVars PROVE Inv'
  BY <1>6 DEF NumberReused
<1> QED BY <1>1, <1>2, <1>3, <1>4, <1>5, <1>6 DEF KernelStep

LEMMA StutterKeepsInv == Inv /\ UNCHANGED vars => Inv'
  BY DEF Inv, TypeOK, GroupTypeOK, Knowledge, GivesUpAfterKill, OwnExists,
         OwnLive, Live, Zombies, vars, groupVars, termVars

\* The invariant holds in every reachable state.
THEOREM Termination == Spec => []Inv
<1>1. Inv /\ [Next]_vars => Inv'
  BY CallKeepsInv, LaunchKeepsInv, KernelKeepsInv, StutterKeepsInv DEF Next
<1> QED BY <1>1, InitInv, PTL DEF Spec

\* Every variable of ChromeTermination keeps its type.
THEOREM ChromeTyping == Spec => []TypeOK
<1>1. Inv => TypeOK BY DEF Inv
<1> QED BY <1>1, Termination, PTL

\* A termination that returns has ended its group; of one that was aborted it
\* leaves at most what SIGKILL is about to end.
THEOREM ChromeGone == Spec => []ReturnedMeansGone
<1>1. Inv => ReturnedMeansGone
  BY DEF Inv, Knowledge, ReturnedMeansGone
<1> QED BY <1>1, Termination, PTL

\* Chrome's termination never signals a program that got its PID.
THEOREM ChromeSparesOthers == Spec => []ForeignSpared
<1>1. Inv => ForeignSpared BY DEF Inv, Knowledge, ForeignSpared
<1> QED BY <1>1, Termination, PTL

\* A call that could inspect the group leaves nothing without SIGKILL that it
\* can identify.
THEOREM ChromeGivesUpLate == Spec => []GivesUpAfterKill
<1>1. Inv => GivesUpAfterKill BY DEF Inv
<1> QED BY <1>1, Termination, PTL

=============================================================================
