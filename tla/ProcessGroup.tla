---------------------------- MODULE ProcessGroup ----------------------------
(***************************************************************************)
(* One dedicated Linux process group, as the code under src/ relies on it: *)
(* a leader that a parent process reaps, and the members it forked.  The   *)
(* number of the group is the PID of its leader; Linux does not give that  *)
(* number away while any process of the group, zombies included, is left.  *)
(***************************************************************************)
CONSTANTS Member        \* the processes the leader and its children may fork

VARIABLES
    leader,     \* state of the group's leader
    member,     \* state of each member
    doomed,     \* SIGKILL is pending for every process that is left
    foreign,    \* the number names a group of another program
    struck      \* history: a signal meant for this group reached that one

groupVars == <<leader, member, doomed, foreign, struck>>

Live == {m \in Member : member[m] = "live"}
Zombies == {m \in Member : member[m] = "zombie"}

\* A process that is not a zombie has the number as its process group.
AnyLive == leader = "live" \/ Live # {} \/ foreign
OwnLive == leader = "live" \/ Live # {}

\* kill(-number, 0): a zombie is still a process of its group.
OwnExists == leader # "reaped" \/ Live # {} \/ Zombies # {}
Exists == OwnExists \/ foreign

GroupTypeOK ==
    /\ leader \in {"live", "zombie", "reaped"}
    /\ member \in [Member -> {"unborn", "live", "zombie", "reaped"}]
    /\ doomed \in BOOLEAN
    /\ foreign \in BOOLEAN
    /\ struck \in BOOLEAN

GroupInit ==
    /\ leader = "live"
    /\ member = [m \in Member |-> "unborn"]
    /\ doomed = FALSE
    /\ foreign = FALSE
    /\ struck = FALSE

\* kill(-number, SIGTERM): who dies of it, and when, is up to the processes.
Terminate == /\ struck' = (struck \/ foreign)
             /\ UNCHANGED <<leader, member, doomed, foreign>>

\* kill(-number, SIGKILL): no process of the group forks or lives on, but one
\* in an uninterruptible system call dies only when that call returns.
Kill == /\ struck' = (struck \/ foreign)
        /\ doomed' = (doomed \/ ~foreign)
        /\ UNCHANGED <<leader, member, foreign>>

Fork(m) ==
    /\ member[m] = "unborn"
    /\ OwnLive
    /\ ~doomed
    /\ member' = [member EXCEPT ![m] = "live"]
    /\ UNCHANGED <<leader, doomed, foreign, struck>>

MemberDies(m) ==
    /\ member[m] = "live"
    /\ member' = [member EXCEPT ![m] = "zombie"]
    /\ UNCHANGED <<leader, doomed, foreign, struck>>

MemberReaped(m) ==
    /\ member[m] = "zombie"
    /\ member' = [member EXCEPT ![m] = "reaped"]
    /\ UNCHANGED <<leader, doomed, foreign, struck>>

LeaderDies ==
    /\ leader = "live"
    /\ leader' = "zombie"
    /\ UNCHANGED <<member, doomed, foreign, struck>>

LeaderReaped ==
    /\ leader = "zombie"
    /\ leader' = "reaped"
    /\ UNCHANGED <<member, doomed, foreign, struck>>

\* The number is free: another program may use it, and end again.
NumberReused ==
    /\ ~OwnExists
    /\ foreign' = ~foreign
    /\ UNCHANGED <<leader, member, doomed, struck>>

=============================================================================
