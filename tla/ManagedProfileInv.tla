-------------------------- MODULE ManagedProfileInv --------------------------
(***************************************************************************)
(* The inductive invariant behind the safety properties of ManagedProfile: *)
(* what each stage of a session knows about the files and the processes.   *)
(***************************************************************************)
EXTENDS ManagedProfile

\* The Go process has not started Node yet.
Early == {"idle", "create", "load", "lock", "inspect", "publish", "start"}
            \cup CleanStep \cup ResetStep

\* Chrome groups a session must not have twice: without termination faults
\* those with any process, with them those with a running Chrome.
Live == IF "termination" \in Faults THEN Executing ELSE GroupAlive

\* The states of Node between its launch of a browser and the end of it.
Driving == {"attach", "owner", "held", "capture", "close", "term"}

\* Before StartNode a session has no process but Go.
NothingStarted ==
    \A s \in Session : go[s] \in Early =>
        /\ node[s] = "none"
        /\ \A b \in BrowsersOf(s) : chrome[b] = "none"

\* A shutdown runs in a Node process.
StopIsAlive == \A s \in Session : stop[s] # "no" => node[s] \in NodeAlive

\* From "start" on the journal on disk is that of the session.
BackedByJournal ==
    \A s \in Session :
        \/ go[s] = "start"
        \/ node[s] \in NodeAlive
        \/ \E b \in BrowsersOf(s) : chrome[b] \in GroupAlive
        => journal = s

\* What InspectLocks read of the records is still what is on disk.
RecordsSeen ==
    \A s \in Session :
        /\ go[s] \in {"cleanSocket", "cleanCookie", "cleanLock", "cleanOwner"}
              => /\ seen[s].owner = (owner # NoBrowser)
                 /\ seen[s].journal = (journal # NoSession)
        /\ go[s] = "cleanJournal" => seen[s].journal = (journal # NoSession)

\* The owner goes first, the journal second, and both before a new journal.
RecordsGone ==
    \A s \in Session :
        /\ go[s] \in {"cleanJournal", "cleanBoundary", "resetJournal",
                      "resetBoundary", "publish", "start"} => owner = NoBrowser
        /\ go[s] \in {"cleanBoundary", "resetBoundary", "publish"}
              => journal = NoSession

\* The entries go in the order socket, cookie, lock, as they were inspected.
EntriesSeen ==
    \A s \in Session :
        /\ go[s] = "cleanSocket" => seen[s].single = singleton
        /\ go[s] = "cleanCookie" =>
              /\ seen[s].single["SingletonCookie"] = singleton["SingletonCookie"]
              /\ seen[s].single["SingletonLock"] = singleton["SingletonLock"]
              /\ singleton["SingletonSocket"] = NoBrowser
        /\ go[s] = "cleanLock" =>
              /\ seen[s].single["SingletonLock"] = singleton["SingletonLock"]
              /\ singleton["SingletonSocket"] = NoBrowser
              /\ singleton["SingletonCookie"] = NoBrowser
        /\ go[s] \in {"cleanOwner", "cleanJournal", "cleanBoundary", "publish",
                      "start"} \cup ResetStep => NoSingletons

\* A v1 owner under cleanup names the host of the session that cleans up.
LegacySeen ==
    \A s \in Session :
        /\ go[s] \in {"cleanSocket", "cleanCookie", "cleanLock"}
        /\ owner # NoBrowser
        /\ owner[1] \in Legacy
        => host[s] = host[owner[1]]

\* Node drives one browser at a time, and none before or after it.
LiveIsCurrent ==
    \A s \in Session : \A b \in BrowsersOf(s) : chrome[b] \in Live =>
        /\ node[s] \in Driving \cup {"gone"}
        /\ node[s] \in Driving => b = Current(s)

OneLive ==
    \A b, c \in Browser :
        chrome[b] \in Live /\ chrome[c] \in Live => b = c

\* While Node drives a browser its group has not been sent SIGKILL.
DrivenIsAlive ==
    \A s \in Session : node[s] \in Driving =>
        chrome[Current(s)] \in Executing \cup {"exited"}

\* Every entry is of the Chrome that holds the lock, a running Chrome holds
\* it, and a starting one has made no entry.
EntriesOfLock ==
    /\ \A n \in SingletonName :
          singleton[n] \in {NoBrowser, singleton["SingletonLock"]}
    /\ \A b \in Browser :
          /\ chrome[b] = "running" => singleton["SingletonLock"] = b
          /\ chrome[b] = "starting" => singleton["SingletonLock"] # b

\* Node starts Chrome on a profile without entries; later entries are those
\* of its browser.
EntriesOfCurrent ==
    \A s \in Session :
        /\ node[s] = "spawn" => NoSingletons
        /\ node[s] \in Driving \cup {"reaped", "closed"} =>
              singleton["SingletonLock"] \in {NoBrowser, Current(s)}

\* Without faults an owner record is of the browser Node drives, and it is
\* gone before the next one starts.
OwnerOfCurrent ==
    \A s \in Session :
        /\ node[s] \in {"spawn", "attach", "owner", "held"} => owner = NoBrowser
        /\ node[s] \in {"close", "term", "reaped"} /\ op[s] = "startup"
              => owner = NoBrowser
        /\ node[s] \in {"prepare", "closed"} /\ singleton["SingletonLock"] = NoBrowser
              => owner = NoBrowser

StartingUnowned ==
    \A b \in Browser : chrome[b] = "starting" => owner = NoBrowser

\* The records on disk name the Chrome that made the lock.
RecordsNameLock ==
    singleton["SingletonLock"] # NoBrowser =>
        IF owner = NoBrowser
        THEN journal = singleton["SingletonLock"][1]
        ELSE Target(owner) = Target(singleton["SingletonLock"])

LockInv == MutualExclusion /\ NothingStarted /\ StopIsAlive
RecordInv == /\ BackedByJournal /\ RecordsSeen /\ RecordsGone /\ LegacySeen
             /\ OwnerBoundToJournal
BrowserInv == LiveIsCurrent /\ OneLive /\ DrivenIsAlive
EntryInv == EntriesSeen /\ EntriesOfLock /\ EntriesOfCurrent /\ BoundaryIsPreOwner
RecoveryInv == OwnerOfCurrent /\ StartingUnowned /\ RecordsNameLock

\* The invariant that the proofs show inductive.
InductiveInv ==
    /\ TypeOK /\ LockInv /\ RecordInv /\ BrowserInv /\ EntryInv
    /\ Faults = {} => RecoveryInv

=============================================================================
