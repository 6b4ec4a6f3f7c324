-------------------------- MODULE ChromeTermination --------------------------
(***************************************************************************)
(* terminateChromeChild in the Node script: SIGTERM, a grace period,       *)
(* SIGKILL, and the leader reaped.  Two callers run it on one Chrome group *)
(* at once, closeCaptureBrowser and shutdownBrowserProcess.                *)
(*                                                                         *)
(* One action is what runs between two awaits: the event loop reaps the    *)
(* leader (its "exit" event) only between actions, and the kernel moves    *)
(* the other processes.  A poll that changes nothing is a stuttering step, *)
(* so the deadline of a wait may pass at any moment.                       *)
(***************************************************************************)
EXTENDS ProcessGroup

CONSTANTS
    Faults      \* "procfs": an inspection may fail; "leader": the leader may
                \* die without SIGKILL

Caller == {"close", "shutdown"}

VARIABLES
    identified, \* chrome.linuxStartTime is known
    aborted,    \* chrome.linuxProcessBoundaryTerminated
    pc,         \* where each call of terminateChromeChild is
    blind,      \* history: the calls that could not inspect before a signal
    node        \* "run", or "exited"

termVars == <<identified, aborted, pc, blind, node>>
vars == <<groupVars, termVars>>

Ended == {"ok", "failed"}
Waiting == {"abort", "term", "kill", "leader", "reap", "fallbackKill",
            "fallbackLeader"}

Init ==
    /\ GroupInit
    /\ identified = FALSE
    /\ aborted = FALSE
    /\ pc = [c \in Caller |-> "idle"]
    /\ blind = {}
    /\ node = "run"

Goto(c, state) == pc' = [pc EXCEPT ![c] = state]

Inspection == {TRUE} \cup {b \in {FALSE} : "procfs" \in Faults}

-----------------------------------------------------------------------------
(* captureChromeProcessIdentityOrAbort, in one step with the spawn *)

\* The leader is there, not a zombie, and its start time is recorded.
CaptureIdentity ==
    /\ node = "run" /\ pc["close"] = "idle"
    /\ ~identified /\ ~aborted
    /\ leader = "live"
    /\ identified' = TRUE
    /\ UNCHANGED <<groupVars, aborted, pc, blind, node>>

\* Mutant of AbortFresh: the fresh group is only waited for.
AbortUnkilled ==
    /\ node = "run" /\ pc["close"] = "idle"
    /\ ~identified /\ ~aborted
    /\ leader = "zombie" \/ "procfs" \in Faults
    /\ leader # "reaped"
    /\ aborted' = TRUE
    /\ Goto("close", "abort")
    /\ UNCHANGED <<groupVars, identified, blind, node>>

\* Otherwise the fresh group is killed before the event loop turns, and the
\* leader gets the grace period.
AbortFresh ==
    /\ node = "run" /\ pc["close"] = "idle"
    /\ ~identified /\ ~aborted
    /\ leader = "zombie" \/ "procfs" \in Faults
    /\ leader # "reaped"
    /\ Kill
    /\ aborted' = TRUE
    /\ Goto("close", "abort")
    /\ UNCHANGED <<identified, blind, node>>

\* With the leader reaped or not, closeCaptureBrowser follows.
AbortEnds ==
    /\ node = "run" /\ pc["close"] = "abort"
    /\ Goto("close", "reap")
    /\ UNCHANGED <<groupVars, identified, aborted, blind, node>>

-----------------------------------------------------------------------------
(* terminateChromeChild *)

\* Mutant of IdentityHolds: kill(-pid) without the check of the start time.
IdentityUnchecked == Exists

\* assertChromeProcessIdentity: the leader's number still has its start time.
IdentityHolds == leader # "reaped"

\* activeChromeChild is null once closeCaptureBrowser terminated it.
MayBegin(c) ==
    /\ node = "run"
    /\ pc[c] = "idle"
    /\ identified \/ aborted
    /\ c = "shutdown" => pc["close"] # "ok"

\* A group that the abort killed only waits for its leader.
BeginAborted(c) ==
    /\ MayBegin(c)
    /\ aborted
    /\ Goto(c, "reap")
    /\ UNCHANGED <<groupVars, identified, aborted, blind, node>>

Begin(c) ==
    /\ MayBegin(c)
    /\ ~aborted
    /\ \E inspected \in Inspection :
         /\ IF inspected /\ IdentityHolds
            THEN Terminate /\ Goto(c, "term")
            ELSE UNCHANGED groupVars /\ Goto(c, "failed")
         /\ blind' = IF inspected THEN blind ELSE blind \cup {c}
    /\ UNCHANGED <<identified, aborted, node>>

\* chromeProcessBoundaryAlive is false: only zombies are left.
TermSuffices(c) ==
    /\ node = "run" /\ pc[c] = "term"
    /\ IdentityHolds
    /\ ~AnyLive
    /\ Goto(c, "leader")
    /\ UNCHANGED <<groupVars, identified, aborted, blind, node>>

\* Mutant of TermTimesOut: the grace period ends without SIGKILL.
TermTimesOutQuietly(c) ==
    /\ node = "run" /\ pc[c] = "term"
    /\ IdentityHolds
    /\ AnyLive
    /\ Goto(c, "leader")
    /\ UNCHANGED <<groupVars, identified, aborted, blind, node>>

TermTimesOut(c) ==
    /\ node = "run" /\ pc[c] = "term"
    /\ IdentityHolds
    /\ AnyLive
    /\ Kill
    /\ Goto(c, "kill")
    /\ UNCHANGED <<identified, aborted, blind, node>>

\* The inspection throws.  The fallback SIGKILL checks the identity again, so
\* it cannot reach a group whose leader was reaped.
TermInspectionFails(c) ==
    /\ node = "run" /\ pc[c] = "term"
    /\ ~IdentityHolds \/ "procfs" \in Faults
    /\ \E inspected \in Inspection :
         /\ IF inspected /\ IdentityHolds
            THEN Kill /\ Goto(c, "fallbackKill")
            ELSE UNCHANGED groupVars /\ Goto(c, "failed")
         /\ blind' = IF inspected THEN blind ELSE blind \cup {c}
    /\ UNCHANGED <<identified, aborted, node>>

\* Mutant of GroupExits: the wait after SIGKILL watches the leader alone.
LeaderExits(c) ==
    /\ node = "run" /\ pc[c] \in {"kill", "fallbackKill"}
    /\ leader # "live"
    /\ Goto(c, IF pc[c] = "kill" THEN "leader" ELSE "fallbackLeader")
    /\ UNCHANGED <<groupVars, identified, aborted, blind, node>>

\* After SIGKILL the group is looked up by its number, without identity.
GroupExits(c) ==
    /\ node = "run" /\ pc[c] \in {"kill", "fallbackKill"}
    /\ ~AnyLive
    /\ Goto(c, IF pc[c] = "kill" THEN "leader" ELSE "fallbackLeader")
    /\ UNCHANGED <<groupVars, identified, aborted, blind, node>>

GroupSurvives(c) ==
    /\ node = "run" /\ pc[c] \in {"kill", "fallbackKill"}
    /\ AnyLive \/ "procfs" \in Faults
    /\ Goto(c, "failed")
    /\ UNCHANGED <<groupVars, identified, aborted, blind, node>>

\* The "exit" event ends the call; the fallback throws what made it necessary.
LeaderWaited(c) ==
    /\ node = "run" /\ pc[c] \in {"leader", "reap", "fallbackLeader"}
    /\ leader = "reaped"
    /\ Goto(c, IF pc[c] = "fallbackLeader" THEN "failed" ELSE "ok")
    /\ UNCHANGED <<groupVars, identified, aborted, blind, node>>

LeaderNotReaped(c) ==
    /\ node = "run" /\ pc[c] \in {"leader", "reap", "fallbackLeader"}
    /\ leader # "reaped"
    /\ Goto(c, "failed")
    /\ UNCHANGED <<groupVars, identified, aborted, blind, node>>

\* process.exit follows the shutdown's call, whatever became of it.
NodeExits ==
    /\ node = "run"
    /\ pc["shutdown"] \in Ended
    /\ node' = "exited"
    /\ UNCHANGED <<groupVars, identified, aborted, pc, blind>>

-----------------------------------------------------------------------------

\* Between the spawn and the capture of the identity the event loop does not
\* turn.  After Node the system reaps.
ReapLeader == /\ identified \/ aborted
              /\ LeaderReaped
              /\ UNCHANGED termVars

LeaderStops == /\ doomed \/ "leader" \in Faults
               /\ LeaderDies
               /\ UNCHANGED termVars

KernelStep ==
    /\ \/ \E m \in Member : Fork(m) \/ MemberDies(m) \/ MemberReaped(m)
       \/ NumberReused
    /\ UNCHANGED termVars

Terminating(c) ==
    \/ BeginAborted(c) \/ Begin(c) \/ TermSuffices(c) \/ TermTimesOut(c)
    \/ TermInspectionFails(c) \/ GroupExits(c) \/ GroupSurvives(c)
    \/ LeaderWaited(c) \/ LeaderNotReaped(c)

Next ==
    \/ CaptureIdentity \/ AbortFresh \/ AbortEnds
    \/ \E c \in Caller : Terminating(c)
    \/ NodeExits \/ ReapLeader \/ LeaderStops \/ KernelStep

Spec == Init /\ [][Next]_vars

\* The event loop serves timers and exits, and a killed process dies in time.
FairSpec ==
    /\ Spec
    /\ \A c \in Caller : WF_vars(Terminating(c))
    /\ WF_vars(doomed /\ LeaderStops)
    /\ WF_vars(ReapLeader)
    /\ \A m \in Member : WF_vars(doomed /\ MemberDies(m) /\ UNCHANGED termVars)

-----------------------------------------------------------------------------
(* Properties *)

\* Every variable stays in the set of values its code can give it.
TypeOK ==
    /\ GroupTypeOK
    /\ identified \in BOOLEAN
    /\ aborted \in BOOLEAN
    /\ pc \in [Caller -> {"idle"} \cup Waiting \cup Ended]
    /\ blind \subseteq Caller
    /\ node \in {"run", "exited"}

\* A termination that returns leaves no running member and no unreaped
\* leader: cleanup "requires no non-zombie member to remain, and requires the
\* Chrome group leader's exit to be reaped before retry".  After an abort before
\* the identity was known only the leader is waited for, but what then lingers
\* in a system call has SIGKILL pending and starts nothing more.
ReturnedMeansGone ==
    \A c \in Caller : pc[c] = "ok" =>
        /\ leader = "reaped"
        /\ Live = {} \/ (~identified /\ doomed)

\* No signal reaches a program that got the number of a dead Chrome group.
ForeignSpared == ~struck

\* A termination that gives up has sent SIGKILL to what is left, unless it
\* could not inspect the group or the leader was reaped first, which leaves
\* nothing to identify the group by.
GivesUpAfterKill ==
    \A c \in Caller :
        pc[c] = "failed" /\ c \notin blind /\ OwnLive /\ leader # "reaped"
            => doomed

\* Once SIGTERM is sent the group ends, even one that ignores SIGTERM, unless
\* an inspection of either call fails or the leader is lost before SIGKILL.
TerminationIsEffective ==
    \A c \in Caller :
        pc[c] = "term" ~> \/ ~OwnLive
                          \/ blind # {}
                          \/ leader = "reaped" /\ ~doomed

=============================================================================
