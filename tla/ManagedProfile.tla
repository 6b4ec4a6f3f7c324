--------------------------- MODULE ManagedProfile ---------------------------
(***************************************************************************)
(* The persistent Chrome profile of the provider on Linux.                 *)
(*                                                                         *)
(* A session is one provider invocation that captures with the managed     *)
(* profile: the Go process (acquireManagedBrowserProfile, then             *)
(* captureHTMLWithPlaywright), the Node script it starts, and the Chrome   *)
(* process groups Node starts, at most MaxTry per capture attempt and      *)
(* MaxRound capture attempts.  Sessions run in containers (Host) that have *)
(* separate PID spaces and share the profile directory and its flock.      *)
(*                                                                         *)
(* Every process may die between any two steps, and a container may die    *)
(* with everything in it.  One action is one system call or one            *)
(* uninterruptible stretch of the event loop, so other sessions and Chrome *)
(* itself move between the steps of every handler.                         *)
(*                                                                         *)
(* Abstractions.  Random identities are unique, so the profile generation  *)
(* is the session that created the metadata, a launch id is the session    *)
(* that wrote the journal, and a process start time is the browser itself. *)
(* .product-capture.lock is created once and nothing unlinks it: its inode *)
(* never changes.  Temporary files have unique names and are not modelled. *)
(* The kernel keeps the files of a container that dies (no power loss).    *)
(***************************************************************************)
EXTENDS Naturals, FiniteSets

CONSTANTS
    Session,        \* provider invocations
    NoSession,      \* no metadata, no journal
    NoBrowser,      \* no singleton entry, no owner record
    Host,           \* containers that mount the profile
    Pid,            \* process identifiers of one container
    Scope,          \* values of PRODUCT_CAPTURE_BROWSER_PROFILE_SCOPE
    ScopeOf,        \* the scope each session is configured with
    MaxRound,       \* bound: capture attempts of one Node process (4 in main)
    MaxTry,         \* bound: Chrome starts of one capture attempt (3)
    Conformance,    \* sessions run with the crash-before-owner argument
    Legacy,         \* sessions of the release that wrote v1 owner records
    Faults          \* rare failures of the run: "termination", "ownerSync"

ASSUME BoundsAssumption == MaxRound \in Nat \ {0} /\ MaxTry \in Nat \ {0}
ASSUME SessionAssumption ==
    /\ NoSession \notin Session
    /\ ScopeOf \in [Session -> Scope]
    /\ Conformance \subseteq Session
    /\ Legacy \subseteq Session
ASSUME BrowserAssumption ==
    NoBrowser \notin Session \X (1..MaxRound) \X (1..MaxTry)

\* A browser is one Chrome start: its session, capture attempt and try.
Browser == Session \X (1..MaxRound) \X (1..MaxTry)
BrowsersOf(s) == {s} \X (1..MaxRound) \X (1..MaxTry)

SingletonName == {"SingletonLock", "SingletonSocket", "SingletonCookie"}

VARIABLES
    dirExists,  \* the profile directory exists
    meta,       \* creator of .product-capture-profile.json, or NoSession
    journal,    \* launch id of .product-capture-chrome-launch.json, or NoSession
    owner,      \* browser named by .product-capture-chrome-owner.json, or NoBrowser
    boundary,   \* the conformance boundary marker exists
    singleton,  \* who made each of Chrome's Singleton entries, or NoBrowser
    host,       \* the container of a session
    go,         \* where the Go process of a session is
    seen,       \* the records cleanupStaleChromeProfileLocks read
    node,       \* where the Node process of a session is
    round,      \* capture attempt of main()
    try,        \* startup attempt of launchChromeBrowser
    op,         \* how the browser operation ended
    unclean,    \* closeCaptureBrowser collected cleanup errors
    stop,       \* progress of shutdownBrowserProcess
    chrome,     \* state of each Chrome process group
    pid         \* PID of each Chrome browser process

fileVars == <<dirExists, meta, journal, owner, boundary, singleton>>
goVars == <<go, seen>>
nodeVars == <<node, round, try, op, unclean, stop>>
chromeVars == <<chrome, pid>>
vars == <<fileVars, host, goVars, nodeVars, chromeVars>>

-----------------------------------------------------------------------------
(* Process states *)

CleanStep == {"cleanSocket", "cleanCookie", "cleanLock",
              "cleanOwner", "cleanJournal", "cleanBoundary"}
ResetStep == {"reset", "resetOwner", "resetJournal", "resetBoundary"}
GoLocked == {"inspect"} \cup CleanStep \cup ResetStep
                \cup {"publish", "start", "run", "stop"}
GoActive == {"create", "load", "lock"} \cup GoLocked
GoState == {"idle", "done"} \cup GoActive

NodeAlive == {"prepare", "spawn", "attach", "owner", "held", "capture",
              "close", "term", "reaped", "closed"}
NodeState == {"none", "exited", "gone"} \cup NodeAlive

\* "exited": Chrome is gone and its shell supervisor waits on; "killed": the
\* group got SIGKILL and is not gone yet.
Executing == {"starting", "running", "exiting"}
GroupAlive == Executing \cup {"exited", "killed"}
ChromeState == {"none", "dead"} \cup GroupAlive

Records == [single : [SingletonName -> Browser \cup {NoBrowser}],
            owner : BOOLEAN, journal : BOOLEAN]
NothingSeen == [single |-> [n \in SingletonName |-> NoBrowser],
                owner |-> FALSE, journal |-> FALSE]

Current(s) == <<s, round[s], try[s]>>
NoSingletons == \A n \in SingletonName : singleton[n] = NoBrowser

\* flock(2) belongs to the open file description that Go passes to Node and
\* Node to the supervisor and Chrome: it is held until the last of them ends.
Holds(s) == \/ go[s] \in GoLocked
            \/ node[s] \in NodeAlive
            \/ \E b \in BrowsersOf(s) : chrome[b] \in GroupAlive

\* What the target of b's SingletonLock names.
Target(b) == <<host[b[1]], pid[b]>>

\* The browsers whose process exists (not a zombie) as PID p of container h.
ProcessesAt(h, p) ==
    {b \in Browser : /\ chrome[b] \in Executing \cup {"killed"}
                     /\ Target(b) = <<h, p>>}

FreePids(h) == {p \in Pid : ProcessesAt(h, p) = {}}

-----------------------------------------------------------------------------
(* Go: acquireManagedBrowserProfile *)

Goto(s, state) == go' = [go EXCEPT ![s] = state]

\* Any error after the lock is taken releases it and closes the directory.
Release(s) == /\ Goto(s, "done")
              /\ seen' = [seen EXCEPT ![s] = NothingSeen]

\* The script's memory goes with its process.
NodeEnds(s, state) == /\ node' = [node EXCEPT ![s] = state]
                      /\ round' = [round EXCEPT ![s] = 1]
                      /\ try' = [try EXCEPT ![s] = 1]
                      /\ op' = [op EXCEPT ![s] = "captured"]
                      /\ unclean' = [unclean EXCEPT ![s] = FALSE]
                      /\ stop' = [stop EXCEPT ![s] = "no"]

\* os.Mkdir either creates the directory or finds it.
MakeDirectory(s) ==
    /\ go[s] = "idle"
    /\ dirExists' = TRUE
    /\ Goto(s, IF dirExists THEN "load" ELSE "create")
    /\ UNCHANGED <<meta, journal, owner, boundary, singleton, host, seen,
                   nodeVars, chromeVars>>

\* An existing directory must hold metadata of this session's scope.
LoadMetadata(s) ==
    /\ go[s] = "load"
    /\ Goto(s, IF meta # NoSession /\ ScopeOf[meta] = ScopeOf[s]
               THEN "lock" ELSE "done")
    /\ UNCHANGED <<fileVars, host, seen, nodeVars, chromeVars>>

\* A created directory gets metadata, renamed into place without replacing;
\* the directory sync after the rename may still fail the call.
PublishMetadata(s) ==
    /\ go[s] = "create"
    /\ meta = NoSession
    /\ meta' = s
    /\ \E state \in {"lock", "done"} : Goto(s, state)
    /\ UNCHANGED <<dirExists, journal, owner, boundary, singleton, host, seen,
                   nodeVars, chromeVars>>

\* A failure before that rename removes the empty directory again.
RollBackDirectory(s) ==
    /\ go[s] = "create"
    /\ meta = NoSession
    /\ dirExists' = FALSE
    /\ Goto(s, "done")
    /\ UNCHANGED <<meta, journal, owner, boundary, singleton, host, seen,
                   nodeVars, chromeVars>>

\* Mutants of AcquireLock: Node gets no copy of the descriptor, or Chrome.
AcquireLockOfGo(s) ==
    /\ go[s] = "lock"
    /\ Goto(s, IF \E t \in Session : go[t] \in GoLocked THEN "done" ELSE "inspect")
    /\ UNCHANGED <<fileVars, host, seen, nodeVars, chromeVars>>

AcquireLockOfNode(s) ==
    /\ go[s] = "lock"
    /\ Goto(s, IF \E t \in Session : go[t] \in GoLocked \/ node[t] \in NodeAlive
               THEN "done" ELSE "inspect")
    /\ UNCHANGED <<fileVars, host, seen, nodeVars, chromeVars>>

\* LOCK_EX | LOCK_NB, refused while any copy of another descriptor is open.
AcquireLock(s) ==
    /\ go[s] = "lock"
    /\ Goto(s, IF \E t \in Session : Holds(t) THEN "done" ELSE "inspect")
    /\ UNCHANGED <<fileVars, host, seen, nodeVars, chromeVars>>

\* The records that may authorize the removal of the Singleton entries: an
\* owner v1 of this host, an owner v2 bound to the journal, or the journal
\* alone.  The lock's target names the host of the record and its PID.
AuthorityHolds(s) ==
    LET lock == singleton["SingletonLock"] IN
    /\ lock # NoBrowser
    /\ \/ /\ owner # NoBrowser
          /\ owner[1] \in Legacy
          /\ host[owner[1]] = host[s]
          /\ Target(lock)[1] = host[s]
       \/ /\ owner # NoBrowser
          /\ owner[1] \notin Legacy
          /\ owner[1] = journal
          /\ Target(lock)[1] = host[journal]
       \/ /\ owner = NoBrowser
          /\ journal # NoSession
          /\ Target(lock)[1] = host[journal]
    /\ owner # NoBrowser => pid[owner] = pid[lock]

\* The PID of the SingletonLock names no process of the inspecting container.
\* An unrelated process may have that PID: then the verdict is "unknown".
LockProcessGone(s) ==
    ProcessesAt(host[s], pid[singleton["SingletonLock"]]) = {}

\* collect the entries, then decide: nothing to do, remove them, or fail.
InspectLocks(s) ==
    /\ go[s] = "inspect"
    /\ \/ /\ NoSingletons
          /\ Goto(s, "reset")
          /\ UNCHANGED seen
       \/ /\ ~NoSingletons
          /\ AuthorityHolds(s)
          /\ LockProcessGone(s)
          /\ Goto(s, "cleanSocket")
          /\ seen' = [seen EXCEPT ![s] = [single |-> singleton,
                                          owner |-> owner # NoBrowser,
                                          journal |-> journal # NoSession]]
       \/ /\ ~NoSingletons    \* unknown, active, or a foreign process has the PID
          /\ Release(s)
    /\ UNCHANGED <<fileVars, host, nodeVars, chromeVars>>

\* Mutant of CleanupEntry: the lock goes first.
CleanupLockFirst == [cleanSocket |-> "SingletonLock",
                     cleanCookie |-> "SingletonSocket",
                     cleanLock   |-> "SingletonCookie"]

\* chromeSingletonCleanupOrder: the lock last, so that an interrupted cleanup
\* can be authorized again.
CleanupEntry == [cleanSocket |-> "SingletonSocket",
                 cleanCookie |-> "SingletonCookie",
                 cleanLock   |-> "SingletonLock"]

\* Mutant of AfterStep: the journal goes before the owner it authorizes.
AfterStepJournalFirst ==
    [cleanSocket  |-> "cleanCookie",   cleanCookie   |-> "cleanLock",
     cleanLock    |-> "cleanJournal",  cleanJournal  |-> "cleanOwner",
     cleanOwner   |-> "cleanBoundary", cleanBoundary |-> "reset",
     resetOwner   |-> "resetJournal",  resetJournal  |-> "resetBoundary",
     resetBoundary |-> "publish"]

AfterStep == [cleanSocket  |-> "cleanCookie",   cleanCookie   |-> "cleanLock",
              cleanLock    |-> "cleanOwner",    cleanOwner    |-> "cleanJournal",
              cleanJournal |-> "cleanBoundary", cleanBoundary |-> "reset",
              resetOwner   |-> "resetJournal",  resetJournal  |-> "resetBoundary",
              resetBoundary |-> "publish"]

\* Each entry is inspected again and unlinked; an entry that is not the one
\* collected fails the cleanup.
UnlinkSingleton(s) ==
    /\ go[s] \in DOMAIN CleanupEntry
    /\ LET name == CleanupEntry[go[s]] IN
       \/ /\ seen[s].single[name] = NoBrowser
          /\ Goto(s, AfterStep[go[s]])
          /\ UNCHANGED <<singleton, seen>>
       \/ /\ seen[s].single[name] # NoBrowser
          /\ singleton[name] = seen[s].single[name]
          /\ singleton' = [singleton EXCEPT ![name] = NoBrowser]
          /\ Goto(s, AfterStep[go[s]])
          /\ UNCHANGED seen
       \/ /\ seen[s].single[name] # NoBrowser
          /\ singleton[name] # seen[s].single[name]
          /\ Release(s)
          /\ UNCHANGED singleton
    /\ UNCHANGED <<dirExists, meta, journal, owner, boundary, host,
                   nodeVars, chromeVars>>

\* createChromeProfileLaunchAt starts only when no Singleton entry exists.
CheckNoSingletons(s) ==
    /\ go[s] = "reset"
    /\ IF NoSingletons
       THEN Goto(s, "resetOwner") /\ UNCHANGED seen
       ELSE Release(s)
    /\ UNCHANGED <<fileVars, host, nodeVars, chromeVars>>

\* The owner goes before the journal that authorizes it, after stale locks
\* (if it was there when they were inspected) and before every launch.
UnlinkOwner(s) ==
    /\ go[s] \in {"cleanOwner", "resetOwner"}
    /\ owner' = IF go[s] = "cleanOwner" /\ ~seen[s].owner
                THEN owner ELSE NoBrowser
    /\ Goto(s, AfterStep[go[s]])
    /\ UNCHANGED <<dirExists, meta, journal, boundary, singleton, host, seen,
                   nodeVars, chromeVars>>

UnlinkJournal(s) ==
    /\ go[s] \in {"cleanJournal", "resetJournal"}
    /\ journal' = IF go[s] = "cleanJournal" /\ ~seen[s].journal
                  THEN journal ELSE NoSession
    /\ Goto(s, AfterStep[go[s]])
    /\ UNCHANGED <<dirExists, meta, owner, boundary, singleton, host, seen,
                   nodeVars, chromeVars>>

UnlinkBoundary(s) ==
    /\ go[s] \in {"cleanBoundary", "resetBoundary"}
    /\ boundary' = FALSE
    /\ Goto(s, AfterStep[go[s]])
    /\ UNCHANGED <<dirExists, meta, journal, owner, singleton, host, seen,
                   nodeVars, chromeVars>>

\* The journal is renamed into place and must not replace another one.
PublishJournal(s) ==
    /\ go[s] = "publish"
    /\ IF journal = NoSession
       THEN /\ journal' = s
            /\ Goto(s, "start")
            /\ UNCHANGED seen
       ELSE Release(s) /\ UNCHANGED journal
    /\ UNCHANGED <<dirExists, meta, owner, boundary, singleton, host,
                   nodeVars, chromeVars>>

\* An I/O error at any step with the lock held; the journal may be out.
AcquireFails(s) ==
    /\ go[s] \in GoLocked \ {"run", "stop"}
    /\ Release(s)
    /\ \/ UNCHANGED journal
       \/ go[s] = "publish" /\ journal = NoSession /\ journal' = s
    /\ UNCHANGED <<dirExists, meta, owner, boundary, singleton, host,
                   nodeVars, chromeVars>>

-----------------------------------------------------------------------------
(* Go: captureHTMLWithPlaywright runs Node in a process group of its own *)

StartNode(s) ==
    /\ go[s] = "start"
    /\ Goto(s, "run")
    /\ seen' = [seen EXCEPT ![s] = NothingSeen]
    /\ node' = [node EXCEPT ![s] = "prepare"]
    /\ UNCHANGED <<fileVars, host, round, try, op, unclean, stop, chromeVars>>

\* The deadline: SIGTERM to the group of Node.  A stopped Node never sees it.
Deadline(s) ==
    /\ go[s] = "run"
    /\ node[s] \in NodeAlive
    /\ Goto(s, "stop")
    /\ stop' = [stop EXCEPT ![s] = IF node[s] = "held" THEN "no" ELSE "term"]
    /\ UNCHANGED <<fileVars, host, seen, node, round, try, op, unclean,
                   chromeVars>>

\* Mutant of KillNode: no SIGKILL follows the SIGTERM a stopped Node ignores.
KillUnlessHeld(s) ==
    /\ go[s] = "stop"
    /\ node[s] \in NodeAlive \ {"held"}
    /\ NodeEnds(s, "gone")
    /\ UNCHANGED <<fileVars, host, goVars, chromeVars>>

\* SIGKILL after the grace period.  The Chrome group is another group.
KillNode(s) ==
    /\ go[s] = "stop"
    /\ node[s] \in NodeAlive
    /\ NodeEnds(s, "gone")
    /\ UNCHANGED <<fileVars, host, goVars, chromeVars>>

\* Mutant of FinishCapture: the provider takes its journal back at the end.
FinishWithoutJournal(s) ==
    /\ go[s] \in {"run", "stop"}
    /\ node[s] \notin NodeAlive
    /\ Goto(s, "done")
    /\ journal' = NoSession
    /\ UNCHANGED <<dirExists, meta, owner, boundary, singleton, host, seen,
                   nodeVars, chromeVars>>

\* cmd.Run returns and the deferred Release closes Go's copy of the lock.
FinishCapture(s) ==
    /\ go[s] \in {"run", "stop"}
    /\ node[s] \notin NodeAlive
    /\ Goto(s, "done")
    /\ UNCHANGED <<fileVars, host, seen, nodeVars, chromeVars>>

-----------------------------------------------------------------------------
(* Node *)

NodeGoto(s, state) == node' = [node EXCEPT ![s] = state]

Operation(s, how) == op' = [op EXCEPT ![s] = how]

\* prepareChromeProfile: no Singleton entry, and a journal of this launch.
PrepareProfile(s) ==
    /\ node[s] = "prepare"
    /\ IF NoSingletons /\ journal = s
       THEN NodeGoto(s, "spawn") /\ UNCHANGED <<round, try, op, unclean, stop>>
       ELSE NodeEnds(s, "exited")
    /\ UNCHANGED <<fileVars, host, goVars, chromeVars>>

\* A detached shell supervisor and Chrome under it, with the lock descriptor.
\* After a SIGTERM Node ends before it gets here: shutdownBrowserProcess polls
\* faster than the delay that precedes the next try.
SpawnChrome(s) ==
    /\ node[s] = "spawn"
    /\ stop[s] = "no"
    /\ \E p \in FreePids(host[s]) :
         /\ chrome' = [chrome EXCEPT ![Current(s)] = "starting"]
         /\ pid' = [pid EXCEPT ![Current(s)] = p]
    /\ NodeGoto(s, "attach")
    /\ UNCHANGED <<fileVars, host, goVars, round, try, op, unclean, stop>>

\* Without a child to kill the abort fails, which ends every retry.
SpawnFails(s) ==
    /\ node[s] = "spawn"
    /\ NodeEnds(s, "exited")
    /\ UNCHANGED <<fileVars, host, goVars, chromeVars>>

\* The CDP listener belongs to the group and the browser PID is the child.
AttachBrowser(s) ==
    /\ node[s] = "attach"
    /\ chrome[Current(s)] \in {"starting", "running"}
    /\ NodeGoto(s, "owner")
    /\ UNCHANGED <<fileVars, host, goVars, round, try, op, unclean, stop,
                   chromeVars>>

\* Identity, listener or CDP errors and their timeouts end the try.
AttachFails(s) ==
    /\ node[s] = "attach"
    /\ NodeGoto(s, "close")
    /\ Operation(s, "startup")
    /\ UNCHANGED <<fileVars, host, goVars, round, try, unclean, stop,
                   chromeVars>>

\* What writeChromeProfileOwner verifies before it publishes anything.
OwnerVerified(s) ==
    /\ journal = s
    /\ singleton["SingletonLock"] # NoBrowser
    /\ Target(singleton["SingletonLock"]) = Target(Current(s))
    /\ chrome[Current(s)] \in {"starting", "running", "exiting"}

\* linkSync of the finished temporary file fails if an owner exists.  The
\* directory sync after it may fail the try with the owner published.
PublishOwner(s) ==
    /\ node[s] = "owner"
    /\ s \notin Conformance
    /\ OwnerVerified(s)
    /\ owner = NoBrowser
    /\ owner' = Current(s)
    /\ \/ NodeGoto(s, "capture") /\ UNCHANGED op
       \/ /\ "ownerSync" \in Faults
          /\ NodeGoto(s, "close")
          /\ Operation(s, "startup")
    /\ UNCHANGED <<dirExists, meta, journal, boundary, singleton, host, goVars,
                   round, try, unclean, stop, chromeVars>>

OwnerRefused(s) ==
    /\ node[s] = "owner"
    /\ ~OwnerVerified(s) \/ owner # NoBrowser \/ (s \in Conformance /\ boundary)
    /\ NodeGoto(s, "close")
    /\ Operation(s, "startup")
    /\ UNCHANGED <<fileVars, host, goVars, round, try, unclean, stop,
                   chromeVars>>

\* Mutant of HoldBeforeOwner: pause before the lock and Chrome are verified.
HoldUnverified(s) ==
    /\ node[s] = "owner"
    /\ s \in Conformance
    /\ owner = NoBrowser
    /\ ~boundary
    /\ boundary' = TRUE
    /\ NodeGoto(s, "held")
    /\ UNCHANGED <<dirExists, meta, journal, owner, singleton, host, goVars,
                   round, try, op, unclean, stop, chromeVars>>

\* profile-startup-crash-before-owner: stop Chrome, publish the marker, stop.
HoldBeforeOwner(s) ==
    /\ node[s] = "owner"
    /\ s \in Conformance
    /\ OwnerVerified(s)
    /\ owner = NoBrowser
    /\ ~boundary
    /\ boundary' = TRUE
    /\ NodeGoto(s, "held")
    /\ UNCHANGED <<dirExists, meta, journal, owner, singleton, host, goVars,
                   round, try, op, unclean, stop, chromeVars>>

\* The page work of captureMain, which needs the browser to succeed.
CaptureEnds(s) ==
    /\ node[s] = "capture"
    /\ \/ /\ chrome[Current(s)] \in {"starting", "running"}
          /\ Operation(s, "captured")
       \/ \E how \in {"crashed", "failed"} : Operation(s, how)
    /\ NodeGoto(s, "close")
    /\ UNCHANGED <<fileVars, host, goVars, round, try, unclean, stop,
                   chromeVars>>

\* SIGTERM makes Chrome exit by itself, or finds it unwilling.
Terminated(b) == IF chrome[b] \in {"starting", "running"}
                 THEN {chrome[b], "exiting"} ELSE {chrome[b]}

\* closeCaptureBrowser: close the connection (an error is only collected) and
\* send SIGTERM to the group of the supervisor, which ignores it.
CloseBrowser(s) ==
    /\ node[s] = "close"
    /\ \E bad \in BOOLEAN : unclean' = [unclean EXCEPT ![s] = bad]
    /\ \E state \in Terminated(Current(s)) :
         chrome' = [chrome EXCEPT ![Current(s)] = state]
    /\ NodeGoto(s, "term")
    /\ UNCHANGED <<fileVars, host, goVars, round, try, op, stop, pid>>

\* Mutants: Chrome alone is killed, not its group; or nothing is.
ReapChild(s) ==
    /\ node[s] = "term"
    /\ chrome[Current(s)] \in GroupAlive
    /\ chrome' = [chrome EXCEPT ![Current(s)] = "exited"]
    /\ NodeGoto(s, "reaped")
    /\ UNCHANGED <<fileVars, host, goVars, round, try, op, unclean, stop, pid>>

ReapUnkilled(s) ==
    /\ node[s] = "term"
    /\ unclean' = [unclean EXCEPT ![s] = TRUE]
    /\ NodeGoto(s, "closed")
    /\ UNCHANGED <<fileVars, host, goVars, round, try, op, stop, chromeVars>>

\* terminateChromeChild: SIGKILL to the group, then the leader is reaped.
ReapBrowser(s) ==
    /\ node[s] = "term"
    /\ chrome[Current(s)] \in GroupAlive
    /\ chrome' = [chrome EXCEPT ![Current(s)] = "dead"]
    /\ NodeGoto(s, "reaped")
    /\ UNCHANGED <<fileVars, host, goVars, round, try, op, unclean, stop, pid>>

\* It throws when the group does not go away in time.
ReapFails(s) ==
    /\ node[s] = "term"
    /\ "termination" \in Faults
    /\ chrome[Current(s)] \in GroupAlive
    /\ chrome' = [chrome EXCEPT ![Current(s)] = "killed"]
    /\ unclean' = [unclean EXCEPT ![s] = TRUE]
    /\ NodeGoto(s, "closed")
    /\ UNCHANGED <<fileVars, host, goVars, round, try, op, stop, pid>>

\* A reaped browser loses its owner record unless its lock is still there; a
\* failed try passes no profile directory and keeps the record.
RemoveOwner(s) ==
    /\ node[s] = "reaped"
    /\ owner' = IF op[s] # "startup" /\ singleton["SingletonLock"] = NoBrowser
                THEN NoBrowser ELSE owner
    /\ NodeGoto(s, "closed")
    /\ UNCHANGED <<dirExists, meta, journal, boundary, singleton, host, goVars,
                   round, try, op, unclean, stop, chromeVars>>

\* launchChromeBrowser gives up on a cleanup failure or a leftover entry.
TryAgain(s) == /\ op[s] = "startup"
               /\ ~unclean[s]
               /\ NoSingletons
               /\ try[s] < MaxTry

RetryStartup(s) ==
    /\ node[s] = "closed"
    /\ TryAgain(s)
    /\ try' = [try EXCEPT ![s] = try[s] + 1]
    /\ NodeGoto(s, "spawn")
    /\ UNCHANGED <<fileVars, host, goVars, round, op, unclean, stop,
                   chromeVars>>

\* main(): the message of the error, which joins the operation's and the
\* cleanup's messages, may be one that isBrowserTargetCrashError knows.
MayLookCrashed(s) == op[s] \in {"crashed", "startup"} \/ unclean[s]

\* A retry with a fresh browser while the deadline is ahead.
RetryCapture(s) ==
    /\ node[s] = "closed"
    /\ ~TryAgain(s)
    /\ MayLookCrashed(s)
    /\ round[s] < MaxRound
    /\ round' = [round EXCEPT ![s] = round[s] + 1]
    /\ try' = [try EXCEPT ![s] = 1]
    /\ unclean' = [unclean EXCEPT ![s] = FALSE]
    /\ NodeGoto(s, "prepare")
    /\ UNCHANGED <<fileVars, host, goVars, op, stop, chromeVars>>

NodeExits(s) ==
    /\ node[s] = "closed"
    /\ ~TryAgain(s)
    /\ NodeEnds(s, "exited")
    /\ UNCHANGED <<fileVars, host, goVars, chromeVars>>

\* shutdownBrowserProcess runs beside the capture: it terminates the browser
\* that was active and then ends the process.
ShutdownTerm(s) ==
    /\ stop[s] = "term"
    /\ \E state \in Terminated(Current(s)) :
         chrome' = [chrome EXCEPT ![Current(s)] = state]
    /\ stop' = [stop EXCEPT ![s] = "kill"]
    /\ UNCHANGED <<fileVars, host, goVars, node, round, try, op, unclean, pid>>

\* Mutant of ShutdownExit: Node ends while the group is in its grace period.
ShutdownUnkilled(s) ==
    /\ stop[s] = "kill"
    /\ NodeEnds(s, "exited")
    /\ UNCHANGED <<fileVars, host, goVars, chromeVars>>

ShutdownExit(s) ==
    /\ stop[s] = "kill"
    /\ \E state \in {"dead"} \cup (Faults \cap {"termination"}) :
         chrome' = IF chrome[Current(s)] \in GroupAlive
                   THEN [chrome EXCEPT ![Current(s)] =
                           IF state = "dead" THEN "dead" ELSE "killed"]
                   ELSE chrome
    /\ NodeEnds(s, "exited")
    /\ UNCHANGED <<fileVars, host, goVars, pid>>

-----------------------------------------------------------------------------
(* Chrome, as the code under src/ relies on it *)

\* Chrome is stopped together with the Node process that holds it.
Paused(b) == node[b[1]] = "held" /\ b = Current(b[1])

\* ProcessSingleton: the lock first; a second Chrome on the profile gives up.
ChromeTakesLock(b) ==
    /\ chrome[b] = "starting"
    /\ ~Paused(b)
    /\ IF singleton["SingletonLock"] = NoBrowser
       THEN /\ singleton' = [singleton EXCEPT !["SingletonLock"] = b]
            /\ chrome' = [chrome EXCEPT ![b] = "running"]
       ELSE /\ chrome' = [chrome EXCEPT ![b] = "exited"]
            /\ UNCHANGED singleton
    /\ UNCHANGED <<dirExists, meta, journal, owner, boundary, host, goVars,
                   nodeVars, pid>>

ChromePublishes(b) ==
    /\ chrome[b] = "running"
    /\ ~Paused(b)
    /\ \E n \in {"SingletonSocket", "SingletonCookie"} :
         /\ singleton[n] = NoBrowser
         /\ singleton' = [singleton EXCEPT ![n] = b]
    /\ UNCHANGED <<dirExists, meta, journal, owner, boundary, host, goVars,
                   nodeVars, chromeVars>>

\* Chrome may quit by itself; a quitting Chrome removes its lock last.
ChromeQuits(b) ==
    /\ chrome[b] = "running"
    /\ ~Paused(b)
    /\ chrome' = [chrome EXCEPT ![b] = "exiting"]
    /\ UNCHANGED <<fileVars, host, goVars, nodeVars, pid>>

ChromeCleansUp(b) ==
    /\ chrome[b] = "exiting"
    /\ ~Paused(b)
    /\ \/ \E n \in SingletonName :
            /\ singleton[n] = b
            /\ n = "SingletonCookie" => singleton["SingletonSocket"] # b
            /\ n = "SingletonLock" => /\ singleton["SingletonSocket"] # b
                                      /\ singleton["SingletonCookie"] # b
            /\ singleton' = [singleton EXCEPT ![n] = NoBrowser]
            /\ UNCHANGED chrome
       \/ /\ \A n \in SingletonName : singleton[n] # b
          /\ chrome' = [chrome EXCEPT ![b] = "exited"]
          /\ UNCHANGED singleton
    /\ UNCHANGED <<dirExists, meta, journal, owner, boundary, host, goVars,
                   nodeVars, pid>>

\* A Chrome that dies leaves its entries behind and its supervisor running.
ChromeDies(b) ==
    /\ chrome[b] \in Executing
    /\ chrome' = [chrome EXCEPT ![b] = "exited"]
    /\ UNCHANGED <<fileVars, host, goVars, nodeVars, pid>>

\* A group that outlived the wait for its SIGKILL goes away later.
KilledGroupGoes(b) ==
    /\ chrome[b] = "killed"
    /\ chrome' = [chrome EXCEPT ![b] = "dead"]
    /\ UNCHANGED <<fileVars, host, goVars, nodeVars, pid>>

-----------------------------------------------------------------------------
(* Crashes *)

ProviderDies(s) ==
    /\ go[s] \in GoActive
    /\ Release(s)
    /\ UNCHANGED <<fileVars, host, nodeVars, chromeVars>>

NodeDies(s) ==
    /\ node[s] \in NodeAlive
    /\ NodeEnds(s, "gone")
    /\ UNCHANGED <<fileVars, host, goVars, chromeVars>>

\* SIGKILL of a container ends every process in it at once.
ContainerDies(h) ==
    LET here == {s \in Session : host[s] = h} IN
    /\ \E s \in here : Holds(s) \/ go[s] \in GoActive
    /\ go' = [s \in Session |->
                IF s \in here /\ go[s] \in GoActive THEN "done" ELSE go[s]]
    /\ seen' = [s \in Session |-> IF s \in here THEN NothingSeen ELSE seen[s]]
    /\ node' = [s \in Session |->
                  IF s \in here /\ node[s] \in NodeAlive THEN "gone" ELSE node[s]]
    /\ round' = [s \in Session |-> IF s \in here THEN 1 ELSE round[s]]
    /\ try' = [s \in Session |-> IF s \in here THEN 1 ELSE try[s]]
    /\ op' = [s \in Session |-> IF s \in here THEN "captured" ELSE op[s]]
    /\ unclean' = [s \in Session |-> IF s \in here THEN FALSE ELSE unclean[s]]
    /\ stop' = [s \in Session |-> IF s \in here THEN "no" ELSE stop[s]]
    /\ chrome' = [b \in Browser |->
                    IF b[1] \in here /\ chrome[b] \in GroupAlive
                    THEN "dead" ELSE chrome[b]]
    /\ UNCHANGED <<fileVars, host, pid>>

-----------------------------------------------------------------------------

\* A new profile, or one that a crash of the previous release left behind.
NewProfile ==
    /\ dirExists = FALSE
    /\ meta = NoSession
    /\ owner = NoBrowser
    /\ singleton = [n \in SingletonName |-> NoBrowser]

LegacyProfile ==
    \E b \in Browser, extra \in SUBSET {"SingletonSocket", "SingletonCookie"} :
      /\ b[1] \in Legacy
      /\ dirExists = TRUE
      /\ meta = b[1]
      /\ owner = b
      /\ singleton = [n \in SingletonName |->
                        IF n = "SingletonLock" \/ n \in extra
                        THEN b ELSE NoBrowser]

Init ==
    /\ NewProfile \/ LegacyProfile
    /\ journal = NoSession
    /\ boundary = FALSE
    /\ host \in [Session -> Host]
    /\ go = [s \in Session |-> IF s \in Legacy THEN "done" ELSE "idle"]
    /\ seen = [s \in Session |-> NothingSeen]
    /\ node = [s \in Session |-> "none"]
    /\ round = [s \in Session |-> 1]
    /\ try = [s \in Session |-> 1]
    /\ op = [s \in Session |-> "captured"]
    /\ unclean = [s \in Session |-> FALSE]
    /\ stop = [s \in Session |-> "no"]
    /\ chrome = [b \in Browser |-> "none"]
    /\ \E p \in Pid : pid = [b \in Browser |-> p]

GoStep(s) ==
    \/ MakeDirectory(s) \/ LoadMetadata(s) \/ PublishMetadata(s)
    \/ RollBackDirectory(s) \/ AcquireLock(s) \/ InspectLocks(s)
    \/ UnlinkSingleton(s) \/ CheckNoSingletons(s) \/ UnlinkOwner(s)
    \/ UnlinkJournal(s) \/ UnlinkBoundary(s) \/ PublishJournal(s)
    \/ AcquireFails(s) \/ StartNode(s) \/ KillNode(s) \/ FinishCapture(s)

NodeStep(s) ==
    \/ PrepareProfile(s) \/ SpawnChrome(s) \/ SpawnFails(s) \/ AttachBrowser(s)
    \/ AttachFails(s) \/ PublishOwner(s) \/ OwnerRefused(s)
    \/ HoldBeforeOwner(s) \/ CaptureEnds(s) \/ CloseBrowser(s)
    \/ ReapBrowser(s) \/ ReapFails(s) \/ RemoveOwner(s) \/ RetryStartup(s)
    \/ RetryCapture(s) \/ NodeExits(s) \/ ShutdownTerm(s) \/ ShutdownExit(s)

ChromeStep(b) ==
    \/ ChromeTakesLock(b) \/ ChromePublishes(b) \/ ChromeQuits(b)
    \/ ChromeCleansUp(b) \/ ChromeDies(b) \/ KilledGroupGoes(b)

Next ==
    \/ \E s \in Session : GoStep(s) \/ Deadline(s) \/ NodeStep(s)
                            \/ ProviderDies(s) \/ NodeDies(s)
    \/ \E b \in Browser : ChromeStep(b)
    \/ \E h \in Host : ContainerDies(h)

Spec == Init /\ [][Next]_vars

-----------------------------------------------------------------------------
(* Properties *)

\* Every variable stays in the set of values its code can give it.
TypeOK ==
    /\ dirExists \in BOOLEAN
    /\ meta \in Session \cup {NoSession}
    /\ journal \in Session \cup {NoSession}
    /\ owner \in Browser \cup {NoBrowser}
    /\ boundary \in BOOLEAN
    /\ singleton \in [SingletonName -> Browser \cup {NoBrowser}]
    /\ host \in [Session -> Host]
    /\ go \in [Session -> GoState]
    /\ seen \in [Session -> Records]
    /\ node \in [Session -> NodeState]
    /\ round \in [Session -> 1..MaxRound]
    /\ try \in [Session -> 1..MaxTry]
    /\ op \in [Session -> {"startup", "captured", "crashed", "failed"}]
    /\ unclean \in [Session -> BOOLEAN]
    /\ stop \in [Session -> {"no", "term", "kill"}]
    /\ chrome \in [Browser -> ChromeState]
    /\ pid \in [Browser -> Pid]

\* The OS lock serializes captures for the lifetime of every child process:
\* two sessions never hold a copy of a locked descriptor at once.
MutualExclusion ==
    \A s, t \in Session : Holds(s) /\ Holds(t) => s = t

\* No two Chrome processes run on the profile, whatever crashed before.
SingleBrowser ==
    \A b, c \in Browser :
        chrome[b] \in Executing /\ chrome[c] \in Executing => b = c

\* The journal of a launch is on disk as long as a process of its Chrome
\* group is, so that a crash finds the authority to clean up after it.
JournalCoversBrowser ==
    \A b \in Browser : chrome[b] \in GroupAlive => journal = b[1]

\* An owner v2 record is never left without the journal it is bound to.
OwnerBoundToJournal ==
    owner # NoBrowser /\ owner[1] \notin Legacy => journal = owner[1]

\* Whatever died, at whatever step: once nobody holds the profile, what is
\* left on disk is something the next acquisition on the right host may
\* clean up, not an unknown state that refuses every later capture.
Recoverable ==
    ~(\E s \in Session : Holds(s)) /\ ~NoSingletons
        => /\ singleton["SingletonLock"] # NoBrowser
           /\ IF owner = NoBrowser
              THEN journal = singleton["SingletonLock"][1]
              ELSE Target(owner) = Target(singleton["SingletonLock"])

\* Only Chrome removes the lock of a live Chrome: no cleanup does.
LiveLockKept ==
    [][\A b \in Browser :
         /\ singleton["SingletonLock"] = b
         /\ chrome[b] \in {"starting", "running"}
         => singleton'["SingletonLock"] = b]_vars

\* A session paused at the conformance boundary shows the journal and the
\* lock and no owner until something kills it.
BoundaryIsPreOwner ==
    \A s \in Session : node[s] = "held" =>
        /\ journal = s
        /\ owner = NoBrowser
        /\ boundary
        /\ singleton["SingletonLock"] = Current(s)

\* A Node process that ends by itself, after success, failure or SIGTERM,
\* leaves no Chrome group behind to keep the profile locked.
NoOrphanAfterExit ==
    \A s \in Session : node[s] = "exited" =>
        \A b \in BrowsersOf(s) : chrome[b] \notin GroupAlive

\* A session starts a Chrome only after its earlier groups were reaped.
ReapedBeforeRetry ==
    \A b, c \in Browser :
        b[1] = c[1] /\ chrome[b] \in Executing /\ chrome[c] \in GroupAlive
            => b = c

\* A v1 owner record authorizes cleanup on its own host only.
LegacyCleanupOnSameHost ==
    [][\A s \in Session :
         /\ go[s] = "cleanLock"
         /\ owner # NoBrowser
         /\ owner[1] \in Legacy
         /\ singleton'["SingletonLock"] # singleton["SingletonLock"]
         => host[s] = host[owner[1]]]_vars

\* The scheduler runs Go and Node, and the deadline timer fires.
FairSpec ==
    /\ Spec
    /\ \A s \in Session : /\ WF_vars(GoStep(s))
                          /\ WF_vars(NodeStep(s))
                          /\ WF_vars(Deadline(s))

\* Every provider invocation ends, whatever Chrome and Node do.
EveryCaptureEnds ==
    \A s \in Session : go[s] # "idle" ~> go[s] = "done"

\* Seen from outside: who holds the lock, and the Chromes that run.
Lease == INSTANCE ProfileLease WITH
            holders <- {s \in Session : Holds(s)},
            browsing <- {b \in Browser : chrome[b] \in Executing}

\* The profile implements the lease.  The lock passes from one session to the
\* next only through a state in which nobody holds it and no Chrome runs, only
\* its holder starts a Chrome, and only when no other runs, whoever started it.
LeaseSpec == Lease!Spec

=============================================================================
