---------------------- MODULE CommandTerminationProofs ----------------------
(***************************************************************************)
(* Proofs about CommandTermination, for any number of members.             *)
(***************************************************************************)
EXTENDS CommandTermination, TLAPS

\* What TerminateGroup knows about the group, and the group about its number.
Knowledge ==
    /\ foreign => ~OwnExists
    /\ ~struck
    /\ call \in {"checked", "rechecked"} => ~foreign
    /\ call = "killed" => doomed \/ ~OwnLive
    /\ call = "ok" => ~OwnLive
    /\ FailureAfterKill

Inv == TypeOK /\ Knowledge

USE DEF Inv, TypeOK, GroupTypeOK, Knowledge, FailureAfterKill, OwnExists,
        OwnLive, Exists, AnyLive, Live, Zombies, Sleeping, Ended, groupVars

LEMMA InitInv == Init => Inv
  BY DEF Init, GroupInit

\* Every step of TerminateGroup keeps the invariant.
LEMMA CallKeepsInv ==
  ASSUME Inv, TerminateGroup
  PROVE  Inv'
<1>1. CASE Begin /\ UNCHANGED blind
  BY <1>1 DEF Begin, WithoutLeader
<1>2. CASE SendTerm /\ UNCHANGED blind
  BY <1>2 DEF SendTerm, Terminate
<1>3. CASE Recheck /\ UNCHANGED blind
  BY <1>3 DEF Recheck, WithoutLeader
<1>4. CASE SendKill /\ UNCHANGED blind
  BY <1>4 DEF SendKill, Kill
<1>5. CASE GroupExits /\ UNCHANGED blind
  BY <1>5 DEF GroupExits
<1>6. CASE GroupSurvives /\ UNCHANGED blind
  BY <1>6 DEF GroupSurvives
<1>7. CASE InspectionFails
  BY <1>7 DEF InspectionFails
<1> QED BY <1>1, <1>2, <1>3, <1>4, <1>5, <1>6, <1>7 DEF TerminateGroup

\* So does every step of the kernel.
LEMMA KernelKeepsInv ==
  ASSUME Inv, KernelStep
  PROVE  Inv'
<1>1. ASSUME LeaderDies, UNCHANGED <<call, blind>> PROVE Inv'
  BY <1>1 DEF LeaderDies
<1>2. ASSUME LeaderReaped, UNCHANGED <<call, blind>> PROVE Inv'
  BY <1>2 DEF LeaderReaped
<1>3. ASSUME NEW m \in Member, Fork(m), UNCHANGED <<call, blind>> PROVE Inv'
  BY <1>3 DEF Fork
<1>4. ASSUME NEW m \in Member, MemberDies(m), UNCHANGED <<call, blind>> PROVE Inv'
  BY <1>4 DEF MemberDies
<1>5. ASSUME NEW m \in Member, MemberReaped(m), UNCHANGED <<call, blind>> PROVE Inv'
  BY <1>5 DEF MemberReaped
<1>6. ASSUME call \in {"idle"} \cup Sleeping \cup Ended, NumberReused,
             UNCHANGED <<call, blind>>
      PROVE Inv'
  BY <1>6 DEF NumberReused
<1> QED BY <1>1, <1>2, <1>3, <1>4, <1>5, <1>6 DEF KernelStep

\* The invariant holds in every reachable state.
THEOREM GroupTermination == Spec => []Inv
<1>1. Inv /\ [Next]_vars => Inv'
  <2>1. Inv /\ UNCHANGED vars => Inv' BY DEF vars
  <2> QED BY ONLY <2>1, CallKeepsInv, KernelKeepsInv DEF Next
<1> QED BY ONLY <1>1, InitInv, PTL DEF Spec

\* Every variable of CommandTermination keeps its type.
THEOREM CommandTyping == Spec => []TypeOK
<1>1. Inv => TypeOK OBVIOUS
<1> QED BY ONLY <1>1, GroupTermination, PTL

\* TerminateGroup succeeds only when no process of the group runs.
THEOREM CommandGone == Spec => []SuccessMeansGone
<1>1. Inv => SuccessMeansGone BY DEF SuccessMeansGone
<1> QED BY ONLY <1>1, GroupTermination, PTL

\* TerminateGroup never signals a program that got the group's number.
THEOREM CommandSparesOthers == Spec => []ForeignSpared
<1>1. Inv => ForeignSpared BY DEF ForeignSpared
<1> QED BY ONLY <1>1, GroupTermination, PTL

\* A TerminateGroup that could inspect the group leaves nothing without
\* SIGKILL that it can identify.
THEOREM CommandGivesUpLate == Spec => []FailureAfterKill
<1>1. Inv => FailureAfterKill OBVIOUS
<1> QED BY ONLY <1>1, GroupTermination, PTL

=============================================================================
