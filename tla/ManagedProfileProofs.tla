------------------------ MODULE ManagedProfileProofs ------------------------
(***************************************************************************)
(* What holds of ManagedProfile for any number of sessions, containers,    *)
(* PIDs, capture attempts and Chrome starts.                               *)
(***************************************************************************)
EXTENDS ManagedProfileInv, TLAPS

USE DEF fileVars, goVars, nodeVars, chromeVars

-----------------------------------------------------------------------------
(* Types *)

LEMMA CurrentIsBrowser ==
    ASSUME TypeOK, NEW s \in Session
    PROVE  /\ Current(s) \in Browser
           /\ Current(s) \in BrowsersOf(s)
           /\ Current(s)[1] = s
BY DEF TypeOK, Current, Browser, BrowsersOf

LEMMA InitType == Init => TypeOK
<1> SUFFICES ASSUME Init PROVE TypeOK
    OBVIOUS
<1>1. /\ 1 \in 1..MaxRound
      /\ 1 \in 1..MaxTry
    BY BoundsAssumption
<1>2. /\ go \in [Session -> GoState]
      /\ node \in [Session -> NodeState]
      /\ chrome \in [Browser -> ChromeState]
      /\ pid \in [Browser -> Pid]
    BY DEF Init, GoState, GoActive, GoLocked, NodeState, ChromeState
<1>3. seen \in [Session -> Records]
    BY DEF Init, Records, NothingSeen, SingletonName
<1>4. CASE NewProfile
    BY <1>1, <1>2, <1>3, <1>4 DEF Init, NewProfile, TypeOK, SingletonName
<1>5. CASE LegacyProfile
    <2>1. PICK b \in Browser, extra \in SUBSET {"SingletonSocket", "SingletonCookie"} :
            /\ b[1] \in Legacy
            /\ dirExists = TRUE
            /\ meta = b[1]
            /\ owner = b
            /\ singleton = [n \in SingletonName |->
                              IF n = "SingletonLock" \/ n \in extra
                              THEN b ELSE NoBrowser]
        BY <1>5 DEF LegacyProfile
    <2>2. meta \in Session
        BY <2>1 DEF Browser
    <2> QED
        BY <1>1, <1>2, <1>3, <2>1, <2>2 DEF Init, TypeOK
<1> QED
    BY <1>4, <1>5 DEF Init

LEMMA GotoType ==
    ASSUME TypeOK, NEW s \in Session, NEW state \in GoState, Goto(s, state)
    PROVE  go' \in [Session -> GoState]
BY DEF TypeOK, Goto

LEMMA ReleaseType ==
    ASSUME TypeOK, NEW s \in Session, Release(s)
    PROVE  /\ go' \in [Session -> GoState]
           /\ seen' \in [Session -> Records]
<1>1. NothingSeen \in Records
    BY DEF NothingSeen, Records
<1>2. "done" \in GoState
    BY DEF GoState
<1> QED
    BY <1>1, <1>2, GotoType DEF Release, TypeOK

LEMMA AfterStepType ==
    ASSUME NEW step \in CleanStep \cup ResetStep, step # "reset"
    PROVE  AfterStep[step] \in GoState
BY DEF AfterStep, CleanStep, ResetStep, GoState, GoActive, GoLocked

LEMMA InspectLocksType ==
    ASSUME TypeOK, NEW s \in Session, InspectLocks(s)
    PROVE  TypeOK'
<1>1. {"reset", "cleanSocket"} \subseteq GoState
    BY DEF GoState, GoActive, GoLocked, CleanStep, ResetStep
<1>2. go' \in [Session -> GoState] /\ seen' \in [Session -> Records]
    <2>1. CASE Goto(s, "reset") /\ UNCHANGED seen
        BY <1>1, <2>1, GotoType DEF TypeOK
    <2>2. CASE /\ Goto(s, "cleanSocket")
               /\ seen' = [seen EXCEPT ![s] = [single |-> singleton,
                                               owner |-> owner # NoBrowser,
                                               journal |-> journal # NoSession]]
        <3>1. [single |-> singleton, owner |-> owner # NoBrowser,
               journal |-> journal # NoSession] \in Records
            BY DEF TypeOK, Records
        <3> QED
            BY <1>1, <2>2, <3>1, GotoType DEF TypeOK
    <2>3. CASE Release(s)
        BY <2>3, ReleaseType
    <2> QED
        BY <2>1, <2>2, <2>3 DEF InspectLocks
<1> QED
    BY <1>2 DEF InspectLocks, TypeOK

LEMMA UnlinkSingletonType ==
    ASSUME TypeOK, NEW s \in Session, UnlinkSingleton(s)
    PROVE  TypeOK'
<1>1. AfterStep[go[s]] \in GoState
    BY AfterStepType DEF UnlinkSingleton, CleanupEntry, CleanStep, ResetStep
<1>2. /\ go' \in [Session -> GoState]
      /\ seen' \in [Session -> Records]
      /\ singleton' \in [SingletonName -> Browser \cup {NoBrowser}]
    <2>1. CASE Release(s) /\ UNCHANGED singleton
        BY <2>1, ReleaseType DEF TypeOK
    <2>2. CASE Goto(s, AfterStep[go[s]]) /\ UNCHANGED <<singleton, seen>>
        BY <1>1, <2>2, GotoType DEF TypeOK
    <2>3. CASE /\ Goto(s, AfterStep[go[s]])
               /\ UNCHANGED seen
               /\ singleton' = [singleton EXCEPT ![CleanupEntry[go[s]]] = NoBrowser]
        BY <1>1, <2>3, GotoType DEF TypeOK
    <2> QED
        BY <2>1, <2>2, <2>3 DEF UnlinkSingleton
<1> QED
    BY <1>2 DEF UnlinkSingleton, TypeOK

LEMMA GoStepType ==
    ASSUME TypeOK, NEW s \in Session, GoStep(s)
    PROVE  TypeOK'
<1> USE DEF Goto, GoState, GoActive, GoLocked, CleanStep, ResetStep
<1>1. CASE MakeDirectory(s)
    BY <1>1 DEF TypeOK, MakeDirectory
<1>2. CASE LoadMetadata(s)
    BY <1>2 DEF TypeOK, LoadMetadata
<1>3. CASE PublishMetadata(s)
    BY <1>3 DEF TypeOK, PublishMetadata
<1>4. CASE RollBackDirectory(s)
    BY <1>4 DEF TypeOK, RollBackDirectory
<1>5. CASE AcquireLock(s)
    BY <1>5 DEF TypeOK, AcquireLock
<1>6. CASE InspectLocks(s)
    BY <1>6, InspectLocksType
<1>7. CASE UnlinkSingleton(s)
    BY <1>7, UnlinkSingletonType
<1>8. CASE CheckNoSingletons(s)
    BY <1>8, ReleaseType DEF TypeOK, CheckNoSingletons
<1>9. CASE UnlinkOwner(s)
    <2>1. AfterStep[go[s]] \in GoState
        BY <1>9 DEF UnlinkOwner, AfterStep
    <2> QED
        BY <1>9, <2>1 DEF TypeOK, UnlinkOwner
<1>10. CASE UnlinkJournal(s)
    <2>1. AfterStep[go[s]] \in GoState
        BY <1>10 DEF UnlinkJournal, AfterStep
    <2> QED
        BY <1>10, <2>1 DEF TypeOK, UnlinkJournal
<1>11. CASE UnlinkBoundary(s)
    <2>1. AfterStep[go[s]] \in GoState
        BY <1>11 DEF UnlinkBoundary, AfterStep
    <2> QED
        BY <1>11, <2>1 DEF TypeOK, UnlinkBoundary
<1>12. CASE PublishJournal(s)
    BY <1>12, ReleaseType DEF TypeOK, PublishJournal
<1>13. CASE AcquireFails(s)
    BY <1>13, ReleaseType DEF TypeOK, AcquireFails
<1>14. CASE StartNode(s)
    <2>1. NothingSeen \in Records /\ "prepare" \in NodeState
        BY DEF NothingSeen, Records, NodeState, NodeAlive
    <2> QED
        BY <1>14, <2>1 DEF TypeOK, StartNode
<1>15. CASE KillNode(s)
    <2>1. "gone" \in NodeState /\ 1 \in 1..MaxRound /\ 1 \in 1..MaxTry
        BY BoundsAssumption DEF NodeState
    <2> QED
        BY <1>15, <2>1 DEF TypeOK, KillNode, NodeEnds
<1>16. CASE FinishCapture(s)
    BY <1>16 DEF TypeOK, FinishCapture
<1> QED
    BY <1>1, <1>2, <1>3, <1>4, <1>5, <1>6, <1>7, <1>8, <1>9, <1>10, <1>11,
       <1>12, <1>13, <1>14, <1>15, <1>16 DEF GoStep

LEMMA NodeEndsType ==
    ASSUME TypeOK, NEW s \in Session, NEW state \in NodeState, NodeEnds(s, state)
    PROVE  /\ node' \in [Session -> NodeState]
           /\ round' \in [Session -> 1..MaxRound]
           /\ try' \in [Session -> 1..MaxTry]
           /\ op' \in [Session -> {"startup", "captured", "crashed", "failed"}]
           /\ unclean' \in [Session -> BOOLEAN]
           /\ stop' \in [Session -> {"no", "term", "kill"}]
<1>1. 1 \in 1..MaxRound /\ 1 \in 1..MaxTry
    BY BoundsAssumption
<1> QED
    BY <1>1 DEF TypeOK, NodeEnds

LEMMA TerminatedType ==
    ASSUME TypeOK, NEW b \in Browser, NEW state \in Terminated(b)
    PROVE  state \in ChromeState
BY DEF TypeOK, Terminated, ChromeState, GroupAlive, Executing

LEMMA NodeStepType ==
    ASSUME TypeOK, NEW s \in Session, NodeStep(s)
    PROVE  TypeOK'
<1> DEFINE b == Current(s)
<1> USE DEF NodeGoto, Operation, NodeState, NodeAlive
<1> HIDE DEF b
<1>0. b \in Browser
    BY CurrentIsBrowser DEF b
<1>1. CASE PrepareProfile(s)
    <2>1. "exited" \in NodeState /\ "spawn" \in NodeState
        OBVIOUS
    <2> QED
        BY <1>1, <2>1, NodeEndsType DEF TypeOK, PrepareProfile
<1>2. CASE SpawnChrome(s)
    <2>1. "starting" \in ChromeState
        BY DEF ChromeState, GroupAlive, Executing
    <2>2. PICK p \in Pid : /\ chrome' = [chrome EXCEPT ![b] = "starting"]
                           /\ pid' = [pid EXCEPT ![b] = p]
        BY <1>2 DEF SpawnChrome, FreePids, b
    <2> QED
        BY <1>2, <2>1, <2>2 DEF TypeOK, SpawnChrome
<1>3. CASE SpawnFails(s)
    BY <1>3, NodeEndsType DEF TypeOK, SpawnFails
<1>4. CASE AttachBrowser(s)
    BY <1>4 DEF TypeOK, AttachBrowser
<1>5. CASE AttachFails(s)
    BY <1>5 DEF TypeOK, AttachFails
<1>6. CASE PublishOwner(s)
    BY <1>0, <1>6 DEF TypeOK, PublishOwner, b
<1>7. CASE OwnerRefused(s)
    BY <1>7 DEF TypeOK, OwnerRefused
<1>8. CASE HoldBeforeOwner(s)
    BY <1>8 DEF TypeOK, HoldBeforeOwner
<1>9. CASE CaptureEnds(s)
    BY <1>9 DEF TypeOK, CaptureEnds
<1>10. CASE CloseBrowser(s)
    <2>1. PICK state \in Terminated(b) : chrome' = [chrome EXCEPT ![b] = state]
        BY <1>10 DEF CloseBrowser, b
    <2>2. chrome' \in [Browser -> ChromeState]
        BY <1>0, <2>1, TerminatedType DEF TypeOK
    <2> QED
        BY <1>10, <2>2 DEF TypeOK, CloseBrowser
<1>11. CASE ReapBrowser(s)
    <2>1. chrome' \in [Browser -> ChromeState]
        BY <1>11 DEF TypeOK, ReapBrowser, ChromeState
    <2> QED
        BY <1>11, <2>1 DEF TypeOK, ReapBrowser
<1>12. CASE ReapFails(s)
    <2>1. chrome' \in [Browser -> ChromeState]
        BY <1>12 DEF TypeOK, ReapFails, ChromeState, GroupAlive
    <2> QED
        BY <1>12, <2>1 DEF TypeOK, ReapFails
<1>13. CASE RemoveOwner(s)
    BY <1>13 DEF TypeOK, RemoveOwner
<1>14. CASE RetryStartup(s)
    <2>1. try[s] + 1 \in 1..MaxTry
        BY <1>14, BoundsAssumption DEF TypeOK, RetryStartup, TryAgain
    <2> QED
        BY <1>14, <2>1 DEF TypeOK, RetryStartup
<1>15. CASE RetryCapture(s)
    <2>1. round[s] + 1 \in 1..MaxRound /\ 1 \in 1..MaxTry
        BY <1>15, BoundsAssumption DEF TypeOK, RetryCapture
    <2> QED
        BY <1>15, <2>1 DEF TypeOK, RetryCapture
<1>16. CASE NodeExits(s)
    BY <1>16, NodeEndsType DEF TypeOK, NodeExits
<1>17. CASE ShutdownTerm(s)
    <2>1. PICK state \in Terminated(b) : chrome' = [chrome EXCEPT ![b] = state]
        BY <1>17 DEF ShutdownTerm, b
    <2>2. chrome' \in [Browser -> ChromeState]
        BY <1>0, <2>1, TerminatedType DEF TypeOK
    <2> QED
        BY <1>17, <2>2 DEF TypeOK, ShutdownTerm
<1>18. CASE ShutdownExit(s)
    <2>1. chrome' \in [Browser -> ChromeState]
        BY <1>18 DEF TypeOK, ShutdownExit, ChromeState, GroupAlive
    <2>2. UNCHANGED <<fileVars, host, goVars, pid>> /\ NodeEnds(s, "exited")
        BY <1>18 DEF ShutdownExit
    <2> QED
        BY <2>1, <2>2, NodeEndsType DEF TypeOK
<1> QED
    BY <1>1, <1>2, <1>3, <1>4, <1>5, <1>6, <1>7, <1>8, <1>9, <1>10, <1>11,
       <1>12, <1>13, <1>14, <1>15, <1>16, <1>17, <1>18 DEF NodeStep

LEMMA ChromeStepType ==
    ASSUME TypeOK, NEW b \in Browser, ChromeStep(b)
    PROVE  TypeOK'
<1> USE DEF ChromeState, GroupAlive, Executing, SingletonName
<1>1. CASE ChromeTakesLock(b)
    BY <1>1 DEF TypeOK, ChromeTakesLock
<1>2. CASE ChromePublishes(b)
    BY <1>2 DEF TypeOK, ChromePublishes
<1>3. CASE ChromeQuits(b)
    BY <1>3 DEF TypeOK, ChromeQuits
<1>4. CASE ChromeCleansUp(b)
    BY <1>4 DEF TypeOK, ChromeCleansUp
<1>5. CASE ChromeDies(b)
    BY <1>5 DEF TypeOK, ChromeDies
<1>6. CASE KilledGroupGoes(b)
    BY <1>6 DEF TypeOK, KilledGroupGoes
<1> QED
    BY <1>1, <1>2, <1>3, <1>4, <1>5, <1>6 DEF ChromeStep

LEMMA CrashType ==
    ASSUME TypeOK,
           \/ \E s \in Session : Deadline(s) \/ ProviderDies(s) \/ NodeDies(s)
           \/ \E h \in Host : ContainerDies(h)
    PROVE  TypeOK'
<1>1. ASSUME NEW s \in Session, Deadline(s) PROVE TypeOK'
    BY <1>1 DEF TypeOK, Deadline, Goto, GoState, GoActive, GoLocked
<1>2. ASSUME NEW s \in Session, ProviderDies(s) PROVE TypeOK'
    BY <1>2, ReleaseType DEF TypeOK, ProviderDies
<1>3. ASSUME NEW s \in Session, NodeDies(s) PROVE TypeOK'
    BY <1>3, NodeEndsType DEF TypeOK, NodeDies, NodeState
<1>4. ASSUME NEW h \in Host, ContainerDies(h) PROVE TypeOK'
    <2>1. /\ 1 \in 1..MaxRound /\ 1 \in 1..MaxTry
          /\ NothingSeen \in Records
          /\ "done" \in GoState /\ "gone" \in NodeState /\ "dead" \in ChromeState
        BY BoundsAssumption
        DEF NothingSeen, Records, GoState, NodeState, ChromeState
    <2>2. /\ go' \in [Session -> GoState]
          /\ seen' \in [Session -> Records]
          /\ node' \in [Session -> NodeState]
          /\ round' \in [Session -> 1..MaxRound]
        BY <1>4, <2>1 DEF TypeOK, ContainerDies
    <2>3. /\ try' \in [Session -> 1..MaxTry]
          /\ op' \in [Session -> {"startup", "captured", "crashed", "failed"}]
          /\ unclean' \in [Session -> BOOLEAN]
          /\ stop' \in [Session -> {"no", "term", "kill"}]
          /\ chrome' \in [Browser -> ChromeState]
        BY <1>4, <2>1 DEF TypeOK, ContainerDies
    <2> QED
        BY <1>4, <2>2, <2>3 DEF TypeOK, ContainerDies
<1> QED
    BY <1>1, <1>2, <1>3, <1>4

LEMMA NextType == TypeOK /\ [Next]_vars => TypeOK'
<1> SUFFICES ASSUME TypeOK, [Next]_vars PROVE TypeOK'
    OBVIOUS
<1>1. CASE Next
    BY <1>1, GoStepType, NodeStepType, ChromeStepType, CrashType DEF Next
<1>2. CASE UNCHANGED vars
    BY <1>2 DEF vars, TypeOK
<1> QED
    BY <1>1, <1>2

\* No action, crash or retry takes a variable out of the values its code can
\* give it; the attempt counters of main() and launchChromeBrowser stay in
\* their bounds.
THEOREM Typing == Spec => []TypeOK
BY InitType, NextType, PTL DEF Spec

-----------------------------------------------------------------------------
(* What the steps of each kind of process leave alone *)

LEMMA GoFrame ==
    ASSUME TypeOK, NEW s \in Session, GoStep(s)
    PROVE  /\ UNCHANGED <<host, chromeVars>>
           /\ \A t \in Session \ {s} : /\ go'[t] = go[t]
                                       /\ seen'[t] = seen[t]
                                       /\ node'[t] = node[t]
                                       /\ round'[t] = round[t]
                                       /\ try'[t] = try[t]
                                       /\ op'[t] = op[t]
                                       /\ stop'[t] = stop[t]
           /\ go'[s] \in Early => go[s] \in Early /\ node'[s] = node[s]
           /\ go'[s] \in GoLocked => go[s] \in GoLocked \/ AcquireLock(s)
           /\ \/ UNCHANGED nodeVars
              \/ go[s] = "start" /\ StartNode(s)
              \/ KillNode(s)
<1> USE DEF TypeOK, Goto, Release, NodeEnds, Early, GoLocked, CleanStep, ResetStep
<1>1. CASE MakeDirectory(s)
    BY <1>1 DEF MakeDirectory
<1>2. CASE LoadMetadata(s)
    BY <1>2 DEF LoadMetadata
<1>3. CASE PublishMetadata(s)
    BY <1>3 DEF PublishMetadata
<1>4. CASE RollBackDirectory(s)
    BY <1>4 DEF RollBackDirectory
<1>5. CASE AcquireLock(s)
    <2> HIDE DEF AcquireLock
    <2>1. /\ UNCHANGED <<host, chromeVars, nodeVars, seen>>
          /\ \A t \in Session \ {s} : go'[t] = go[t]
          /\ go[s] = "lock"
        BY <1>5 DEF AcquireLock
    <2> QED
        BY <1>5, <2>1
<1>6. CASE InspectLocks(s)
    BY <1>6 DEF InspectLocks
<1>7. CASE UnlinkSingleton(s)
    BY <1>7 DEF UnlinkSingleton, CleanupEntry, AfterStep
<1>8. CASE CheckNoSingletons(s)
    BY <1>8 DEF CheckNoSingletons
<1>9. CASE UnlinkOwner(s)
    BY <1>9 DEF UnlinkOwner, AfterStep
<1>10. CASE UnlinkJournal(s)
    BY <1>10 DEF UnlinkJournal, AfterStep
<1>11. CASE UnlinkBoundary(s)
    BY <1>11 DEF UnlinkBoundary, AfterStep
<1>12. CASE PublishJournal(s)
    BY <1>12 DEF PublishJournal
<1>13. CASE AcquireFails(s)
    BY <1>13 DEF AcquireFails
<1>14. CASE StartNode(s)
    BY <1>14 DEF StartNode
<1>15. CASE KillNode(s)
    BY <1>15 DEF KillNode
<1>16. CASE FinishCapture(s)
    BY <1>16 DEF FinishCapture
<1> QED
    BY <1>1, <1>2, <1>3, <1>4, <1>5, <1>6, <1>7, <1>8, <1>9, <1>10, <1>11,
       <1>12, <1>13, <1>14, <1>15, <1>16 DEF GoStep

LEMMA NodeFrame ==
    ASSUME TypeOK, NEW s \in Session, NodeStep(s)
    PROVE  /\ UNCHANGED <<host, goVars, dirExists, meta, journal, singleton>>
           /\ \A t \in Session \ {s} : /\ node'[t] = node[t]
                                       /\ round'[t] = round[t]
                                       /\ try'[t] = try[t]
                                       /\ op'[t] = op[t]
                                       /\ stop'[t] = stop[t]
           /\ \A b \in Browser \ {Current(s)} : chrome'[b] = chrome[b] /\ pid'[b] = pid[b]
           /\ node[s] \in NodeAlive \/ stop[s] # "no"
           /\ node'[s] \in NodeAlive \/ node'[s] = "exited" \/ node'[s] = node[s]
           /\ chrome'[Current(s)] \in GroupAlive =>
                \/ chrome[Current(s)] \in GroupAlive
                \/ SpawnChrome(s)
           /\ chrome'[Current(s)] \in Executing =>
                \/ chrome[Current(s)] \in Executing
                \/ SpawnChrome(s)
           /\ stop'[s] # "no" => stop[s] # "no"
           /\ stop'[s] # "no" => node'[s] \in NodeAlive \/ node'[s] = node[s]
<1> DEFINE b == Current(s)
<1>0. b \in Browser
    BY CurrentIsBrowser DEF b
<1> HIDE DEF b
<1> USE <1>0 DEF TypeOK, NodeGoto, Operation, NodeEnds, NodeAlive, GroupAlive, Executing
<1>1. CASE PrepareProfile(s)
    BY <1>1 DEF PrepareProfile
<1>2. CASE SpawnChrome(s)
    <2>1. PICK p \in Pid : /\ chrome' = [chrome EXCEPT ![b] = "starting"]
                           /\ pid' = [pid EXCEPT ![b] = p]
        BY <1>2 DEF SpawnChrome, FreePids, b
    <2>2. \A c \in Browser \ {b} : chrome'[c] = chrome[c] /\ pid'[c] = pid[c]
        BY <2>1
    <2> QED
        BY <1>2, <2>2 DEF SpawnChrome, b
<1>3. CASE SpawnFails(s)
    BY <1>3 DEF SpawnFails
<1>4. CASE AttachBrowser(s)
    BY <1>4 DEF AttachBrowser
<1>5. CASE AttachFails(s)
    BY <1>5 DEF AttachFails
<1>6. CASE PublishOwner(s)
    BY <1>6 DEF PublishOwner
<1>7. CASE OwnerRefused(s)
    BY <1>7 DEF OwnerRefused
<1>8. CASE HoldBeforeOwner(s)
    BY <1>8 DEF HoldBeforeOwner
<1>9. CASE CaptureEnds(s)
    BY <1>9 DEF CaptureEnds
<1>10. CASE CloseBrowser(s)
    BY <1>10 DEF CloseBrowser, b, Terminated
<1>11. CASE ReapBrowser(s)
    BY <1>11 DEF ReapBrowser, b
<1>12. CASE ReapFails(s)
    BY <1>12 DEF ReapFails, b
<1>13. CASE RemoveOwner(s)
    BY <1>13 DEF RemoveOwner
<1>14. CASE RetryStartup(s)
    BY <1>14 DEF RetryStartup
<1>15. CASE RetryCapture(s)
    BY <1>15 DEF RetryCapture
<1>16. CASE NodeExits(s)
    BY <1>16 DEF NodeExits
<1>17. CASE ShutdownTerm(s)
    BY <1>17 DEF ShutdownTerm, b, Terminated
<1>18. CASE ShutdownExit(s)
    BY <1>18 DEF ShutdownExit, b
<1> QED
    BY <1>1, <1>2, <1>3, <1>4, <1>5, <1>6, <1>7, <1>8, <1>9, <1>10, <1>11,
       <1>12, <1>13, <1>14, <1>15, <1>16, <1>17, <1>18 DEF NodeStep

LEMMA ChromeFrame ==
    ASSUME TypeOK, NEW b \in Browser, ChromeStep(b)
    PROVE  /\ UNCHANGED <<host, goVars, nodeVars, pid,
                          dirExists, meta, journal, owner, boundary>>
           /\ \A c \in Browser \ {b} : chrome'[c] = chrome[c]
           /\ chrome[b] \in GroupAlive
           /\ chrome'[b] \in Executing => chrome[b] \in Executing
           /\ chrome'[b] \in GroupAlive \/ chrome[b] = "killed"
           /\ chrome'[b] # "killed"
<1> USE DEF TypeOK, GroupAlive, Executing
<1>1. CASE ChromeTakesLock(b)
    BY <1>1 DEF ChromeTakesLock
<1>2. CASE ChromePublishes(b)
    BY <1>2 DEF ChromePublishes
<1>3. CASE ChromeQuits(b)
    BY <1>3 DEF ChromeQuits
<1>4. CASE ChromeCleansUp(b)
    BY <1>4 DEF ChromeCleansUp
<1>5. CASE ChromeDies(b)
    BY <1>5 DEF ChromeDies
<1>6. CASE KilledGroupGoes(b)
    BY <1>6 DEF KilledGroupGoes
<1> QED
    BY <1>1, <1>2, <1>3, <1>4, <1>5, <1>6 DEF ChromeStep

Crash == \/ \E s \in Session : Deadline(s) \/ ProviderDies(s) \/ NodeDies(s)
         \/ \E h \in Host : ContainerDies(h)

LEMMA CrashFrame ==
    ASSUME TypeOK, Crash
    PROVE  /\ UNCHANGED <<host, fileVars, pid>>
           /\ \A t \in Session :
                /\ go'[t] = go[t] \/ go'[t] \in {"done", "stop"}
                /\ go'[t] = "stop" => go[t] \in {"run", "stop"}
                /\ seen'[t] = seen[t] \/ seen'[t] = NothingSeen
                /\ go'[t] \in Early => seen'[t] = seen[t] \/ go[t] = "idle"
                /\ \/ /\ node'[t] = node[t]
                      /\ round'[t] = round[t]
                      /\ try'[t] = try[t]
                      /\ op'[t] = op[t]
                   \/ node'[t] = "gone" /\ node[t] \in NodeAlive
                   \/ node'[t] = node[t] /\ node[t] \notin NodeAlive
                /\ stop'[t] # "no" => node'[t] = node[t]
                /\ stop'[t] # "no" => stop[t] # "no" \/ node[t] \in NodeAlive
           /\ \A b \in Browser :
                \/ chrome'[b] = chrome[b]
                \/ chrome[b] \in GroupAlive /\ chrome'[b] = "dead" /\ node'[b[1]] \notin NodeAlive
<1> USE DEF TypeOK, Browser
<1>1. ASSUME NEW s \in Session, Deadline(s)
      PROVE  /\ UNCHANGED <<host, fileVars, seen, node, round, try, op, chromeVars>>
             /\ node[s] \in NodeAlive
             /\ go[s] = "run"
             /\ go' = [go EXCEPT ![s] = "stop"]
             /\ \A t \in Session \ {s} : stop'[t] = stop[t]
    BY <1>1 DEF Deadline, Goto
<1>2. ASSUME NEW s \in Session, ProviderDies(s)
      PROVE  /\ UNCHANGED <<host, fileVars, nodeVars, chromeVars>>
             /\ go' = [go EXCEPT ![s] = "done"]
             /\ seen' = [seen EXCEPT ![s] = NothingSeen]
    BY <1>2 DEF ProviderDies, Release, Goto
<1>3. ASSUME NEW s \in Session, NodeDies(s)
      PROVE  /\ UNCHANGED <<host, fileVars, goVars, chromeVars>>
             /\ node[s] \in NodeAlive
             /\ node'[s] = "gone" /\ stop'[s] = "no"
             /\ \A t \in Session \ {s} : /\ node'[t] = node[t]
                                         /\ round'[t] = round[t]
                                         /\ try'[t] = try[t]
                                         /\ op'[t] = op[t]
                                         /\ stop'[t] = stop[t]
    BY <1>3 DEF NodeDies, NodeEnds
<1>4. ASSUME NEW h \in Host, ContainerDies(h)
      PROVE  /\ UNCHANGED <<host, fileVars, pid>>
             /\ \A t \in Session :
                  /\ go'[t] = go[t] \/ go'[t] = "done"
                  /\ seen'[t] = seen[t] \/ seen'[t] = NothingSeen
                  /\ go'[t] \in Early => seen'[t] = seen[t] \/ go[t] = "idle"
                  /\ \/ /\ node'[t] = node[t]
                        /\ round'[t] = round[t]
                        /\ try'[t] = try[t]
                        /\ op'[t] = op[t]
                     \/ node'[t] = "gone" /\ node[t] \in NodeAlive
                     \/ node'[t] = node[t] /\ node[t] \notin NodeAlive
                  /\ stop'[t] = "no" \/ (stop'[t] = stop[t] /\ node'[t] = node[t])
             /\ \A b \in Browser :
                  \/ chrome'[b] = chrome[b]
                  \/ /\ chrome[b] \in GroupAlive
                     /\ chrome'[b] = "dead"
                     /\ node'[b[1]] \notin NodeAlive
    BY <1>4 DEF ContainerDies, Early, GoActive, GoLocked, CleanStep, ResetStep,
                NodeAlive
<1> USE DEF Early
<1>5. CASE \E s \in Session : Deadline(s)
    BY <1>1, <1>5
<1>6. CASE \E s \in Session : ProviderDies(s)
    BY <1>2, <1>6 DEF CleanStep, ResetStep
<1>7. CASE \E s \in Session : NodeDies(s)
    BY <1>3, <1>7
<1>8. CASE \E h \in Host : ContainerDies(h)
    BY <1>4, <1>8
<1> QED
    BY <1>5, <1>6, <1>7, <1>8 DEF Crash

-----------------------------------------------------------------------------
(* The lock *)

LEMMA InitLock == Init => LockInv
BY DEF Init, LockInv, MutualExclusion, NothingStarted, StopIsAlive, Holds,
       GoLocked, CleanStep, ResetStep, NodeAlive, GroupAlive, Executing,
       BrowsersOf, Browser

\* A session comes to hold the lock by flock(2) only: every later copy of the
\* descriptor is made by a process that has one.
LEMMA OnlyAcquireGrows ==
    ASSUME TypeOK, LockInv, Next, NEW t \in Session, Holds(t)', ~Holds(t)
    PROVE  AcquireLock(t)
<1> USE DEF Holds
<1>0. BrowsersOf(t) \subseteq Browser /\ \A b \in BrowsersOf(t) : b[1] = t
    BY DEF BrowsersOf, Browser
<1>1. ASSUME NEW s \in Session, GoStep(s) PROVE AcquireLock(t)
    <2>1. s = t
        BY <1>1, GoFrame
    <2>2. ~(node'[t] \in NodeAlive)
        <3>1. CASE UNCHANGED nodeVars
            BY <3>1
        <3>2. CASE go[s] = "start" /\ StartNode(s)
            BY <2>1, <3>2 DEF GoLocked
        <3>3. CASE KillNode(s)
            BY <2>1, <3>3 DEF KillNode
        <3> QED
            BY <1>1, <3>1, <3>2, <3>3, GoFrame
    <2>3. AcquireLock(s)
        BY <1>1, <2>1, <2>2, GoFrame
    <2> QED
        BY <2>1, <2>3, Zenon
<1>2. ASSUME NEW s \in Session, NodeStep(s) PROVE FALSE
    <2>1. PICK b \in BrowsersOf(t) : chrome'[b] \in GroupAlive
        BY <1>2, NodeFrame DEF LockInv, StopIsAlive
    <2>2. b = Current(s) /\ SpawnChrome(s)
        BY <1>0, <1>2, <2>1, NodeFrame
    <2>3. s = t
        BY <1>0, <2>1, <2>2, CurrentIsBrowser
    <2> QED
        BY <2>2, <2>3 DEF SpawnChrome, NodeAlive
<1>3. ASSUME NEW b \in Browser, ChromeStep(b) PROVE FALSE
    BY <1>0, <1>3, ChromeFrame
<1>4. CASE Crash
    BY <1>0, <1>4, CrashFrame DEF GoLocked, CleanStep, ResetStep, GroupAlive,
       NodeAlive, Executing
<1> QED
    BY <1>1, <1>2, <1>3, <1>4 DEF Next, Crash

LEMMA MutualExclusionStep ==
    ASSUME TypeOK, LockInv, Next
    PROVE  MutualExclusion'
<1> SUFFICES ASSUME NEW s \in Session, NEW t \in Session, Holds(s)', Holds(t)',
                    s # t
             PROVE  FALSE
    BY DEF MutualExclusion
<1>1. Holds(s) => ~Holds(t)
    BY DEF LockInv, MutualExclusion
<1>2. ASSUME NEW u \in Session, AcquireLock(u), NEW v \in Session, v # u,
             Holds(u)', Holds(v)'
      PROVE  FALSE
    <2>1. Holds(v)
        <3>1. ~AcquireLock(v)
            BY <1>2 DEF AcquireLock, Goto, TypeOK
        <3> QED
            BY <1>2, <3>1, OnlyAcquireGrows
    <2>2. go' = [go EXCEPT ![u] = "done"]
        BY <1>2, <2>1 DEF AcquireLock, Goto
    <2>3. Holds(u)
        BY <1>2, <2>2 DEF Holds, AcquireLock, TypeOK, GoLocked, CleanStep, ResetStep
    <2> QED
        BY <1>2, <2>1, <2>3 DEF LockInv, MutualExclusion
<1>3. CASE AcquireLock(s)
    BY <1>2, <1>3
<1>4. CASE AcquireLock(t)
    BY <1>2, <1>4
<1>5. CASE Holds(s) /\ Holds(t)
    BY <1>1, <1>5
<1> QED
    BY <1>3, <1>4, <1>5, OnlyAcquireGrows

LEMMA NothingStartedStep ==
    ASSUME TypeOK, LockInv, Next
    PROVE  NothingStarted'
<1> SUFFICES ASSUME NEW t \in Session, go'[t] \in Early
             PROVE  /\ node'[t] = "none"
                    /\ \A b \in BrowsersOf(t) : chrome'[b] = "none"
    BY DEF NothingStarted, BrowsersOf
<1>0. BrowsersOf(t) \subseteq Browser /\ \A b \in BrowsersOf(t) : b[1] = t
    BY DEF BrowsersOf, Browser
<1> DEFINE Before == /\ go[t] \in Early
                     /\ node[t] = "none"
                     /\ stop[t] = "no"
                     /\ \A b \in BrowsersOf(t) : chrome[b] = "none"
<1>1. ASSUME go[t] \in Early PROVE Before
    BY <1>1 DEF LockInv, NothingStarted, StopIsAlive, NodeAlive
<1>2. ASSUME NEW s \in Session, GoStep(s)
      PROVE  Before /\ node'[t] = node[t] /\ chrome' = chrome
    BY <1>1, <1>2, GoFrame
<1>3. ASSUME NEW s \in Session, NodeStep(s)
      PROVE  Before /\ s # t
    <2>1. Before
        BY <1>1, <1>3, NodeFrame
    <2> QED
        BY <1>3, <2>1, NodeFrame DEF NodeAlive
<1>4. ASSUME NEW b \in Browser, ChromeStep(b)
      PROVE  Before /\ b \notin BrowsersOf(t)
    <2>1. Before
        BY <1>1, <1>4, ChromeFrame
    <2> QED
        BY <1>4, <2>1, ChromeFrame DEF GroupAlive, Executing
<1>5. CASE Crash
    <2>1. Before
        BY <1>1, <1>5, CrashFrame DEF Early, CleanStep, ResetStep
    <2> QED
        BY <1>0, <1>5, <2>1, CrashFrame DEF GroupAlive, Executing, NodeAlive
<1>6. ASSUME NEW s \in Session, NodeStep(s)
      PROVE  node'[t] = node[t] /\ \A b \in BrowsersOf(t) : chrome'[b] = chrome[b]
    BY <1>0, <1>3, <1>6, NodeFrame, CurrentIsBrowser
<1> QED
    BY <1>0, <1>2, <1>3, <1>4, <1>5, <1>6, ChromeFrame DEF Next, Crash

LEMMA StopIsAliveStep ==
    ASSUME TypeOK, LockInv, Next
    PROVE  StopIsAlive'
<1> SUFFICES ASSUME NEW t \in Session, stop'[t] # "no"
             PROVE  node'[t] \in NodeAlive
    BY DEF StopIsAlive
<1> USE DEF LockInv, StopIsAlive
<1>1. ASSUME NEW s \in Session, GoStep(s) PROVE node'[t] \in NodeAlive
    <2>1. CASE UNCHANGED nodeVars
        BY <2>1
    <2>2. CASE StartNode(s)
        BY <2>2 DEF StartNode, TypeOK, NodeAlive
    <2>3. CASE KillNode(s)
        BY <2>3 DEF KillNode, NodeEnds, TypeOK
    <2> QED
        BY <1>1, <2>1, <2>2, <2>3, GoFrame
<1>2. ASSUME NEW s \in Session, NodeStep(s) PROVE node'[t] \in NodeAlive
    BY <1>2, NodeFrame
<1>3. ASSUME NEW b \in Browser, ChromeStep(b) PROVE node'[t] \in NodeAlive
    BY <1>3, ChromeFrame
<1>4. CASE Crash
    BY <1>4, CrashFrame
<1> QED
    BY <1>1, <1>2, <1>3, <1>4 DEF Next, Crash

LEMMA LockStep == TypeOK /\ LockInv /\ [Next]_vars => LockInv'
<1>1. ASSUME TypeOK, LockInv, Next PROVE LockInv'
    BY <1>1, MutualExclusionStep, NothingStartedStep, StopIsAliveStep DEF LockInv
<1>2. ASSUME LockInv, UNCHANGED vars PROVE LockInv'
    BY <1>2 DEF vars, LockInv, MutualExclusion, NothingStarted, StopIsAlive, Holds
<1> QED
    BY <1>1, <1>2

LEMMA LockAlways == Spec => [](TypeOK /\ LockInv)
<1>1. Init => TypeOK /\ LockInv
    BY InitType, InitLock
<1>2. TypeOK /\ LockInv /\ [Next]_vars => (TypeOK /\ LockInv)'
    BY NextType, LockStep
<1> QED
    BY <1>1, <1>2, PTL DEF Spec

\* The OS lock serializes captures for the lifetime of every child process, on
\* any number of containers and whatever dies in between.
THEOREM Exclusion == Spec => []MutualExclusion
<1>1. TypeOK /\ LockInv => MutualExclusion
    BY DEF LockInv
<1> QED
    BY <1>1, LockAlways, PTL

-----------------------------------------------------------------------------
(* The browsers of a session *)

LEMMA BrowserOfSession ==
    ASSUME NEW s \in Session
    PROVE  /\ BrowsersOf(s) \subseteq Browser
           /\ \A b \in BrowsersOf(s) : b[1] = s
           /\ \A b \in Browser : b[1] \in Session /\ b \in BrowsersOf(b[1])
BY DEF BrowsersOf, Browser

LEMMA LiveIsAlive == Live \subseteq GroupAlive /\ Executing \subseteq Live
BY DEF Live, GroupAlive

LEMMA InitBrowsers == Init => BrowserInv
<1> SUFFICES ASSUME Init PROVE BrowserInv
    OBVIOUS
<1>1. \A b \in Browser : chrome[b] \notin Live
    BY DEF Init, Live, GroupAlive, Executing
<1>2. \A s \in Session : node[s] \notin Driving
    BY DEF Init, Driving
<1> QED
    BY <1>1, <1>2, BrowserOfSession
    DEF BrowserInv, LiveIsCurrent, OneLive, DrivenIsAlive

\* A group comes to life by SpawnChrome only.
LEMMA LiveShrinks ==
    ASSUME TypeOK, Next, NEW b \in Browser, chrome'[b] \in Live, chrome[b] \notin Live
    PROVE  \E s \in Session : SpawnChrome(s) /\ b = Current(s)
<1> USE DEF Live
<1>1. ASSUME NEW s \in Session, GoStep(s) PROVE FALSE
    BY <1>1, GoFrame
<1>2. ASSUME NEW s \in Session, NodeStep(s) PROVE SpawnChrome(s) /\ b = Current(s)
    BY <1>2, NodeFrame
<1>3. ASSUME NEW c \in Browser, ChromeStep(c) PROVE FALSE
    BY <1>3, ChromeFrame
<1>4. ASSUME Crash PROVE FALSE
    BY <1>4, CrashFrame DEF GroupAlive, Executing
<1> QED
    BY <1>1, <1>2, <1>3, <1>4 DEF Next, Crash

\* At SpawnChrome no group of any session is live.
LEMMA SpawnsAlone ==
    ASSUME TypeOK, LockInv, BrowserInv, NEW s \in Session, SpawnChrome(s)
    PROVE  /\ \A b \in Browser : chrome[b] \notin Live
           /\ \A b \in Browser \ {Current(s)} : chrome'[b] = chrome[b]
<1>1. \A b \in BrowsersOf(s) : chrome[b] \notin Live
    BY DEF SpawnChrome, BrowserInv, LiveIsCurrent, Driving
<1>2. Holds(s)
    BY DEF SpawnChrome, Holds, NodeAlive
<1>3. \A b \in Browser : chrome[b] \in Live => b[1] = s
    BY <1>2, BrowserOfSession, LiveIsAlive DEF LockInv, MutualExclusion, Holds
<1> QED
    BY <1>1, <1>3, BrowserOfSession, NodeFrame DEF NodeStep

LEMMA OneLiveStep ==
    ASSUME TypeOK, LockInv, BrowserInv, Next
    PROVE  OneLive'
<1> SUFFICES ASSUME NEW b \in Browser, NEW c \in Browser,
                    chrome'[b] \in Live, chrome'[c] \in Live
             PROVE  b = c
    BY DEF OneLive, Live
<1>1. CASE chrome[b] \in Live /\ chrome[c] \in Live
    BY <1>1 DEF BrowserInv, OneLive
<1>2. ASSUME NEW s \in Session, SpawnChrome(s) PROVE b = c
    BY <1>2, SpawnsAlone
<1> QED
    BY <1>1, <1>2, LiveShrinks

Stage(s) ==
    /\ node[s] \in Driving => chrome[Current(s)] \in Executing \cup {"exited"}
    /\ \A b \in BrowsersOf(s) : chrome[b] \in Live =>
         /\ node[s] \in Driving \cup {"gone"}
         /\ node[s] \in Driving => b = Current(s)

LEMMA StageInv == BrowserInv <=> OneLive /\ \A s \in Session : Stage(s)
BY DEF BrowserInv, LiveIsCurrent, DrivenIsAlive, Stage

LEMMA NodeStepStage ==
    ASSUME TypeOK, LockInv, BrowserInv, NEW s \in Session, NodeStep(s)
    PROVE  Stage(s)'
<1> DEFINE b == Current(s)
<1>0. /\ b \in Browser
      /\ BrowsersOf(s) \subseteq Browser
      /\ BrowsersOf(s)' = BrowsersOf(s)
    BY CurrentIsBrowser, BrowserOfSession DEF b, BrowsersOf
<1>s. Stage(s)
    BY StageInv
<1>c. UNCHANGED <<round, try>> => b' = b
    BY DEF b, Current, TypeOK
<1>l. \A c \in Browser : chrome'[c] \in Live /\ ~SpawnChrome(s) => chrome[c] \in Live
    BY NodeFrame DEF Live
<1>k. "dead" \notin Live
    BY DEF Live, GroupAlive, Executing
<1> HIDE DEF b
<1> USE DEF TypeOK, NodeGoto, Operation
<1> DEFINE Rests == ~(node'[s] \in Driving) /\ \A c \in BrowsersOf(s) : chrome'[c] \notin Live
<1>r. Rests => Stage(s)'
    BY <1>0 DEF Stage
<1> DEFINE Drives == /\ node[s] \in Driving
                     /\ node'[s] \in Driving
                     /\ UNCHANGED <<round, try>>
                     /\ chrome'[b] \in Executing \cup {"exited"}
                     /\ ~SpawnChrome(s)
<1>d. Drives => Stage(s)'
    BY <1>0, <1>s, <1>c, <1>l DEF Stage, b
<1>n. node[s] \notin Driving \cup {"gone"} => \A c \in BrowsersOf(s) : chrome[c] \notin Live
    BY <1>s DEF Stage
<1>1. CASE PrepareProfile(s)
    <2>1. Rests
        BY <1>1, <1>n DEF PrepareProfile, NodeEnds, Driving
    <2> QED
        BY <2>1, <1>r
<1>2. CASE SpawnChrome(s)
    <2>1. chrome'[b] = "starting" /\ node'[s] = "attach" /\ b' = b
        BY <1>0, <1>2, <1>c DEF SpawnChrome, b
    <2>2. \A c \in BrowsersOf(s) : chrome'[c] \in Live => c = b
        BY <1>0, <1>2, SpawnsAlone DEF b
    <2> QED
        BY <1>0, <2>1, <2>2 DEF Stage, Driving, Executing, b
<1>3. CASE SpawnFails(s)
    <2>1. Rests
        BY <1>3, <1>n DEF SpawnFails, NodeEnds, Driving
    <2> QED
        BY <2>1, <1>r
<1>4. ASSUME UNCHANGED <<round, try, chrome>>, node[s] \in Driving, node'[s] \in Driving
      PROVE  Stage(s)'
    BY <1>0, <1>4, <1>s, <1>c DEF Stage, b
<1>5. CASE AttachBrowser(s) \/ AttachFails(s)
    BY <1>4, <1>5 DEF AttachBrowser, AttachFails, Driving
<1>6. CASE PublishOwner(s) \/ OwnerRefused(s)
    BY <1>4, <1>6 DEF PublishOwner, OwnerRefused, Driving
<1>7. CASE HoldBeforeOwner(s) \/ CaptureEnds(s)
    BY <1>4, <1>7 DEF HoldBeforeOwner, CaptureEnds, Driving
<1>8. CASE CloseBrowser(s)
    <2>1. chrome[b] \in Executing \cup {"exited"}
        BY <1>8, <1>s DEF CloseBrowser, Stage, Driving, b
    <2>2. chrome'[b] \in Executing \cup {"exited"}
        BY <1>0, <1>8, <2>1 DEF CloseBrowser, Terminated, Executing, b
    <2>3. /\ node[s] \in Driving /\ node'[s] \in Driving
          /\ UNCHANGED <<round, try>>
          /\ ~SpawnChrome(s)
        BY <1>8 DEF CloseBrowser, Driving, SpawnChrome
    <2> QED
        BY <1>d, <2>2, <2>3
<1>9. CASE ReapBrowser(s)
    <2>1. chrome'[b] = "dead" /\ node'[s] = "reaped" /\ ~SpawnChrome(s) /\ node[s] = "term"
        BY <1>0, <1>9 DEF ReapBrowser, SpawnChrome, b
    <2>2. \A c \in BrowsersOf(s) : chrome[c] \in Live => c = b
        BY <2>1, <1>s DEF Stage, b, Driving
    <2>3. Rests
        BY <1>0, <1>k, <1>l, <2>1, <2>2 DEF Driving
    <2> QED
        BY <2>3, <1>r
<1>10. CASE ReapFails(s)
    <2>1. /\ chrome'[b] = "killed" /\ node'[s] = "closed"
          /\ ~SpawnChrome(s) /\ node[s] = "term"
        BY <1>0, <1>10 DEF ReapFails, SpawnChrome, b
    <2>2. \A c \in BrowsersOf(s) : chrome[c] \in Live => c = b
        BY <2>1, <1>s DEF Stage, b, Driving
    <2>3. "killed" \notin Live
        BY <1>10 DEF ReapFails, Live, Executing
    <2>4. Rests
        BY <1>0, <1>l, <2>1, <2>2, <2>3 DEF Driving
    <2> QED
        BY <2>4, <1>r
<1>11. CASE RemoveOwner(s)
    <2>1. Rests
        BY <1>11, <1>n DEF RemoveOwner, Driving
    <2> QED
        BY <2>1, <1>r
<1>12. CASE RetryStartup(s)
    <2>1. Rests
        BY <1>12, <1>n DEF RetryStartup, Driving
    <2> QED
        BY <2>1, <1>r
<1>13. CASE RetryCapture(s)
    <2>1. Rests
        BY <1>13, <1>n DEF RetryCapture, Driving
    <2> QED
        BY <2>1, <1>r
<1>14. CASE NodeExits(s)
    <2>1. Rests
        BY <1>14, <1>n DEF NodeExits, NodeEnds, Driving
    <2> QED
        BY <2>1, <1>r
<1>15. CASE ShutdownTerm(s)
    <2>1. CASE node[s] \in Driving
        <3>1. chrome[b] \in Executing \cup {"exited"}
            BY <2>1, <1>s DEF Stage, b
        <3>2. chrome'[b] \in Executing \cup {"exited"}
            BY <1>0, <1>15, <3>1 DEF ShutdownTerm, Terminated, Executing, b
        <3>3. node'[s] = node[s] /\ UNCHANGED <<round, try>>
            BY <1>15 DEF ShutdownTerm
        <3>4. ~SpawnChrome(s)
            BY <1>15 DEF ShutdownTerm, SpawnChrome
        <3> QED
            BY <1>d, <2>1, <3>2, <3>3, <3>4
    <2>2. CASE node[s] \notin Driving
        <3>1. node[s] \in NodeAlive /\ node'[s] = node[s] /\ ~SpawnChrome(s)
            BY <1>15 DEF LockInv, StopIsAlive, ShutdownTerm, SpawnChrome
        <3>2. Rests
            BY <1>0, <1>l, <1>n, <2>2, <3>1 DEF NodeAlive
        <3> QED
            BY <3>2, <1>r
    <2> QED
        BY <2>1, <2>2
<1>16. CASE ShutdownExit(s)
    <2>1. node[s] \in NodeAlive /\ node'[s] = "exited" /\ ~SpawnChrome(s)
        BY <1>16 DEF LockInv, StopIsAlive, ShutdownExit, NodeEnds, SpawnChrome
    <2>2. chrome'[b] \notin Live
        BY <1>0, <1>16 DEF ShutdownExit, Live, GroupAlive, Executing, b
    <2>3. \A c \in BrowsersOf(s) : chrome[c] \in Live => c = b
        BY <1>s, <2>1 DEF Stage, NodeAlive, b
    <2>4. Rests
        BY <1>0, <1>l, <2>1, <2>2, <2>3 DEF Driving
    <2> QED
        BY <2>4, <1>r
<1> QED
    BY <1>1, <1>2, <1>3, <1>5, <1>6, <1>7, <1>8, <1>9, <1>10, <1>11, <1>12,
       <1>13, <1>14, <1>15, <1>16 DEF NodeStep

LEMMA BrowserStep ==
    ASSUME TypeOK, LockInv, BrowserInv, Next
    PROVE  BrowserInv'
<1>0. \A t \in Session : /\ Stage(t)
                         /\ BrowsersOf(t)' = BrowsersOf(t)
                         /\ Current(t) \in Browser /\ Current(t)[1] = t
    BY StageInv, CurrentIsBrowser DEF BrowsersOf
<1>1. ASSUME NEW s \in Session, GoStep(s), NEW t \in Session PROVE Stage(t)'
    <2>1. chrome' = chrome
        BY <1>1, GoFrame
    <2>2. CASE UNCHANGED nodeVars
        BY <1>0, <2>1, <2>2 DEF Stage, Current
    <2>3. CASE StartNode(s)
        <3>1. CASE t = s
            <4>1. \A b \in BrowsersOf(s) : chrome[b] \notin Live
                BY <2>3, LiveIsAlive DEF LockInv, NothingStarted, StartNode,
                   Early, Live, GroupAlive, Executing
            <4>2. node'[s] = "prepare"
                BY <2>3 DEF StartNode, TypeOK
            <4> QED
                BY <1>0, <2>1, <3>1, <4>1, <4>2 DEF Stage, Driving
        <3>2. CASE t # s
            BY <1>0, <1>1, <2>1, <3>2, GoFrame DEF Stage, Current
        <3> QED
            BY <3>1, <3>2
    <2>4. CASE KillNode(s)
        <3>1. CASE t = s
            BY <1>0, <2>1, <2>4, <3>1 DEF KillNode, NodeEnds, TypeOK, Stage, Driving
        <3>2. CASE t # s
            BY <1>0, <1>1, <2>1, <3>2, GoFrame DEF Stage, Current
        <3> QED
            BY <3>1, <3>2
    <2> QED
        BY <1>1, <2>2, <2>3, <2>4, GoFrame
<1>2. ASSUME NEW s \in Session, NodeStep(s), NEW t \in Session PROVE Stage(t)'
    <2>1. CASE t = s
        BY <1>2, <2>1, NodeStepStage
    <2>2. CASE t # s
        <3>1. /\ node'[t] = node[t]
              /\ Current(t)' = Current(t)
            BY <1>2, <2>2, NodeFrame DEF Current
        <3>2. \A b \in BrowsersOf(t) : chrome'[b] = chrome[b]
            BY <1>0, <1>2, <2>2, NodeFrame, BrowserOfSession
        <3>3. Current(t) \in BrowsersOf(t)
            BY CurrentIsBrowser
        <3> QED
            BY <1>0, <3>1, <3>2, <3>3 DEF Stage
    <2> QED
        BY <2>1, <2>2
<1>3. ASSUME NEW c \in Browser, ChromeStep(c), NEW t \in Session PROVE Stage(t)'
    <2>1. /\ node' = node
          /\ Current(t)' = Current(t)
        BY <1>3, ChromeFrame DEF Current
    <2>2. \A b \in Browser : chrome'[b] \in Live => chrome[b] \in Live
        BY <1>3, ChromeFrame DEF Live
    <2>3. chrome[Current(t)] \in Executing \cup {"exited"}
            => chrome'[Current(t)] \in Executing \cup {"exited"}
        BY <1>0, <1>3, ChromeFrame DEF GroupAlive, Executing
    <2> QED
        BY <1>0, <2>1, <2>2, <2>3, BrowserOfSession DEF Stage
<1>4. ASSUME Crash, NEW t \in Session PROVE Stage(t)'
    <2>1. \A b \in Browser : chrome'[b] \in Live => chrome[b] \in Live
        BY <1>4, CrashFrame DEF Live, GroupAlive, Executing
    <2>2. CASE node'[t] = "gone"
        BY <1>0, <2>1, <2>2, BrowserOfSession DEF Stage, Driving
    <2>3. CASE node'[t] = node[t] /\ node[t] \notin NodeAlive
        BY <1>0, <2>1, <2>3, BrowserOfSession DEF Stage, Driving, NodeAlive
    <2>4. CASE node'[t] = node[t] /\ round'[t] = round[t] /\ try'[t] = try[t]
               /\ node[t] \in NodeAlive
        <3>1. Current(t)' = Current(t)
            BY <2>4 DEF Current
        <3>2. chrome'[Current(t)] = chrome[Current(t)]
            BY <1>0, <1>4, <2>4, CrashFrame
        <3> QED
            BY <1>0, <2>1, <2>4, <3>1, <3>2, BrowserOfSession DEF Stage
    <2> QED
        BY <1>4, <2>2, <2>3, <2>4, CrashFrame
<1>5. \A t \in Session : Stage(t)'
    BY <1>1, <1>2, <1>3, <1>4 DEF Next, Crash
<1>6. OneLive'
    BY OneLiveStep
<1>7. ASSUME OneLive', \A t \in Session : Stage(t)' PROVE BrowserInv'
    BY <1>7 DEF BrowserInv, LiveIsCurrent, DrivenIsAlive, Stage
<1> QED
    BY <1>5, <1>6, <1>7

LEMMA BrowserAlways == Spec => []BrowserInv
<1>1. TypeOK /\ LockInv /\ BrowserInv /\ [Next]_vars => BrowserInv'
    <2>1. ASSUME TypeOK, LockInv, BrowserInv, UNCHANGED vars PROVE BrowserInv'
        BY <2>1 DEF vars, BrowserInv, LiveIsCurrent, OneLive, DrivenIsAlive, Current
    <2> QED
        BY <2>1, BrowserStep
<1> QED
    BY <1>1, InitBrowsers, LockAlways, PTL DEF Spec

\* No two Chrome processes ever run on the profile, whatever crashed before.
THEOREM OneBrowser == Spec => []SingleBrowser
<1>1. BrowserInv => SingleBrowser
    BY DEF BrowserInv, OneLive, SingleBrowser, Live, GroupAlive
<1> QED
    BY <1>1, BrowserAlways, PTL

\* Node leaves no Chrome group behind when it ends by itself, as long as no
\* group survives its SIGKILL.
THEOREM NoOrphan ==
    ASSUME "termination" \notin Faults
    PROVE  Spec => []NoOrphanAfterExit
<1>1. BrowserInv => NoOrphanAfterExit
    BY DEF BrowserInv, LiveIsCurrent, NoOrphanAfterExit, Live, Driving
<1> QED
    BY <1>1, BrowserAlways, PTL

\* Under the same condition every retry finds the earlier groups reaped.
THEOREM Reaped ==
    ASSUME "termination" \notin Faults
    PROVE  Spec => []ReapedBeforeRetry
<1>1. BrowserInv => ReapedBeforeRetry
    BY DEF BrowserInv, OneLive, ReapedBeforeRetry, Live, GroupAlive
<1> QED
    BY <1>1, BrowserAlways, PTL

-----------------------------------------------------------------------------
(* The files under the lock *)

LEMMA GoFiles ==
    ASSUME TypeOK, NEW s \in Session, GoStep(s)
    PROVE  /\ journal' # journal => go[s] \in {"cleanJournal", "resetJournal", "publish"}
           /\ owner' # owner => go[s] \in {"cleanOwner", "resetOwner"}
           /\ singleton' # singleton => go[s] \in {"cleanSocket", "cleanCookie", "cleanLock"}
           /\ boundary' # boundary => go[s] \in {"cleanBoundary", "resetBoundary"}
<1>1. CASE MakeDirectory(s) \/ LoadMetadata(s) \/ PublishMetadata(s) \/ RollBackDirectory(s)
    BY <1>1 DEF MakeDirectory, LoadMetadata, PublishMetadata, RollBackDirectory
<1>2. CASE AcquireLock(s) \/ InspectLocks(s) \/ CheckNoSingletons(s)
    BY <1>2 DEF AcquireLock, InspectLocks, CheckNoSingletons
<1>3. CASE UnlinkSingleton(s)
    BY <1>3 DEF UnlinkSingleton, CleanupEntry
<1>4. CASE UnlinkOwner(s) \/ UnlinkJournal(s) \/ UnlinkBoundary(s)
    BY <1>4 DEF UnlinkOwner, UnlinkJournal, UnlinkBoundary
<1>5. CASE PublishJournal(s) \/ AcquireFails(s)
    BY <1>5 DEF PublishJournal, AcquireFails
<1>6. CASE StartNode(s) \/ KillNode(s) \/ FinishCapture(s)
    BY <1>6 DEF StartNode, KillNode, FinishCapture
<1> QED
    BY <1>1, <1>2, <1>3, <1>4, <1>5, <1>6 DEF GoStep

LEMMA NodeFiles ==
    ASSUME NEW s \in Session, NodeStep(s)
    PROVE  /\ owner' # owner => node[s] \in {"owner", "reaped"}
           /\ boundary' # boundary => node[s] = "owner"
<1>1. CASE PrepareProfile(s) \/ SpawnChrome(s) \/ SpawnFails(s) \/ AttachBrowser(s)
           \/ AttachFails(s) \/ PublishOwner(s) \/ OwnerRefused(s)
    BY <1>1 DEF PrepareProfile, SpawnChrome, SpawnFails, AttachBrowser, AttachFails,
                PublishOwner, OwnerRefused
<1>2. CASE HoldBeforeOwner(s) \/ CaptureEnds(s) \/ CloseBrowser(s)
           \/ ReapBrowser(s) \/ ReapFails(s) \/ RemoveOwner(s)
    BY <1>2 DEF HoldBeforeOwner, CaptureEnds, CloseBrowser, ReapBrowser,
                ReapFails, RemoveOwner
<1>3. CASE RetryStartup(s) \/ RetryCapture(s) \/ NodeExits(s) \/ ShutdownTerm(s)
           \/ ShutdownExit(s)
    BY <1>3 DEF RetryStartup, RetryCapture, NodeExits, ShutdownTerm, ShutdownExit
<1> QED
    BY <1>1, <1>2, <1>3 DEF NodeStep

LEMMA ChromeFiles ==
    ASSUME NEW b \in Browser, ChromeStep(b), singleton' # singleton
    PROVE  chrome[b] \in Executing
BY DEF ChromeStep, ChromeTakesLock, ChromePublishes, ChromeQuits, ChromeCleansUp,
       ChromeDies, KilledGroupGoes, Executing

\* While a session holds the lock and has not started Node, nobody but its Go
\* process changes the files or the stage it is in.
LEMMA EarlyFrame ==
    ASSUME TypeOK, LockInv, Next, NEW t \in Session, go'[t] \in Early, ~GoStep(t)
    PROVE  /\ go'[t] = go[t]
           /\ go[t] \in GoLocked =>
                /\ seen'[t] = seen[t]
                /\ UNCHANGED <<journal, owner, singleton, boundary>>
<1> DEFINE Alone == go[t] \in GoLocked =>
                      \A s \in Session \ {t} : ~Holds(s)
<1>0. Alone
    BY DEF LockInv, MutualExclusion, Holds
<1>1. ASSUME NEW s \in Session, GoStep(s)
      PROVE  /\ go'[t] = go[t]
             /\ go[t] \in GoLocked =>
                  /\ seen'[t] = seen[t]
                  /\ UNCHANGED <<journal, owner, singleton, boundary>>
    <2>1. s # t
        BY <1>1
    <2>2. go[t] \in GoLocked => go[s] \notin GoLocked
        BY <1>0, <2>1 DEF Holds
    <2> QED
        BY <1>1, <2>1, <2>2, GoFrame, GoFiles DEF GoLocked, CleanStep, ResetStep
<1>2. ASSUME NEW s \in Session, NodeStep(s)
      PROVE  /\ go'[t] = go[t]
             /\ go[t] \in GoLocked =>
                  /\ seen'[t] = seen[t]
                  /\ UNCHANGED <<journal, owner, singleton, boundary>>
    <2>1. go' = go /\ seen' = seen /\ UNCHANGED <<journal, singleton>>
        BY <1>2, NodeFrame
    <2>2. ASSUME go[t] \in GoLocked
          PROVE  UNCHANGED <<owner, boundary>>
        <3>1. CASE s = t
            BY <1>2, <2>1, <3>1, NodeFiles DEF LockInv, NothingStarted
        <3>2. CASE s # t
            BY <1>0, <1>2, <2>2, <3>2, NodeFiles DEF Holds, NodeAlive
        <3> QED
            BY <3>1, <3>2
    <2> QED
        BY <2>1, <2>2
<1>3. ASSUME NEW b \in Browser, ChromeStep(b)
      PROVE  /\ go'[t] = go[t]
             /\ go[t] \in GoLocked =>
                  /\ seen'[t] = seen[t]
                  /\ UNCHANGED <<journal, owner, singleton, boundary>>
    <2>1. go' = go /\ seen' = seen /\ UNCHANGED <<journal, owner, boundary>>
        BY <1>3, ChromeFrame
    <2>2. ASSUME go[t] \in GoLocked
          PROVE  singleton' = singleton
        <3>1. SUFFICES ASSUME chrome[b] \in Executing PROVE FALSE
            BY <1>3, ChromeFiles
        <3>2. b[1] # t
            BY <2>1, <3>1, BrowserOfSession DEF LockInv, NothingStarted, Executing
        <3>3. Holds(b[1]) /\ b[1] \in Session
            BY <3>1, BrowserOfSession DEF Holds, GroupAlive
        <3> QED
            BY <1>0, <2>2, <3>2, <3>3
    <2> QED
        BY <2>1, <2>2
<1>4. CASE Crash
    BY <1>4, CrashFrame DEF Early, GoLocked, CleanStep, ResetStep
<1> QED
    BY <1>1, <1>2, <1>3, <1>4 DEF Next, Crash

GoStage(s) ==
    /\ go[s] \in {"cleanSocket", "cleanCookie", "cleanLock", "cleanOwner"}
          => /\ seen[s].owner = (owner # NoBrowser)
             /\ seen[s].journal = (journal # NoSession)
    /\ go[s] = "cleanJournal" => seen[s].journal = (journal # NoSession)
    /\ go[s] \in {"cleanJournal", "cleanBoundary", "resetJournal",
                  "resetBoundary", "publish", "start"} => owner = NoBrowser
    /\ go[s] \in {"cleanBoundary", "resetBoundary", "publish"} => journal = NoSession
    /\ go[s] = "cleanSocket" => seen[s].single = singleton
    /\ go[s] = "cleanCookie" =>
          /\ seen[s].single["SingletonCookie"] = singleton["SingletonCookie"]
          /\ seen[s].single["SingletonLock"] = singleton["SingletonLock"]
          /\ singleton["SingletonSocket"] = NoBrowser
    /\ go[s] = "cleanLock" =>
          /\ seen[s].single["SingletonLock"] = singleton["SingletonLock"]
          /\ singleton["SingletonSocket"] = NoBrowser
          /\ singleton["SingletonCookie"] = NoBrowser
    /\ go[s] \in {"cleanOwner", "cleanJournal", "cleanBoundary", "publish",
                  "start"} \cup ResetStep => NoSingletons
    /\ /\ go[s] \in {"cleanSocket", "cleanCookie", "cleanLock"}
       /\ owner # NoBrowser
       /\ owner[1] \in Legacy
       => host[s] = host[owner[1]]

GoInv == \A s \in Session : GoStage(s)

LEMMA GoInvMeaning == GoInv <=> RecordsSeen /\ RecordsGone /\ EntriesSeen /\ LegacySeen
BY DEF GoInv, GoStage, RecordsSeen, RecordsGone, EntriesSeen, LegacySeen

LEMMA GoStepStage ==
    ASSUME TypeOK, NEW s \in Session, GoStage(s), GoStep(s)
    PROVE  GoStage(s)'
<1> USE DEF TypeOK, Goto, Release, ResetStep
<1>0. ASSUME go'[s] \in {"done", "create", "load", "lock", "inspect", "run"}
      PROVE  GoStage(s)'
    BY <1>0 DEF GoStage
<1>1. CASE MakeDirectory(s) \/ LoadMetadata(s) \/ PublishMetadata(s) \/ RollBackDirectory(s)
    <2>1. go'[s] \in {"done", "create", "load", "lock"}
        BY <1>1 DEF MakeDirectory, LoadMetadata, PublishMetadata, RollBackDirectory
    <2> QED
        BY <1>0, <2>1
<1>2. CASE AcquireLock(s) \/ StartNode(s) \/ FinishCapture(s) \/ AcquireFails(s)
    <2>1. go'[s] \in {"done", "inspect", "run"}
        BY <1>2 DEF AcquireLock, StartNode, FinishCapture, AcquireFails
    <2> QED
        BY <1>0, <2>1
<1>3. CASE KillNode(s)
    BY <1>3 DEF KillNode, GoStage
<1>4. CASE InspectLocks(s)
    <2>1. CASE Release(s)
        BY <1>0, <2>1
    <2>2. CASE NoSingletons /\ Goto(s, "reset")
        BY <1>4, <2>2 DEF InspectLocks, GoStage, NoSingletons
    <2>3. CASE /\ AuthorityHolds(s)
               /\ Goto(s, "cleanSocket")
               /\ seen' = [seen EXCEPT ![s] = [single |-> singleton,
                                               owner |-> owner # NoBrowser,
                                               journal |-> journal # NoSession]]
        <3>1. owner # NoBrowser /\ owner[1] \in Legacy => host[s] = host[owner[1]]
            BY <2>3 DEF AuthorityHolds
        <3>2. UNCHANGED <<fileVars, host>>
            BY <1>4 DEF InspectLocks
        <3> QED
            BY <2>3, <3>1, <3>2 DEF GoStage
    <2> QED
        BY <1>4, <2>1, <2>2, <2>3 DEF InspectLocks
<1>5. CASE UnlinkSingleton(s)
    <2>1. CASE Release(s)
        BY <1>0, <2>1
    <2>2. ASSUME ~Release(s), go[s] = "cleanSocket"
          PROVE  GoStage(s)'
        BY <1>5, <2>2 DEF UnlinkSingleton, CleanupEntry, AfterStep, GoStage, SingletonName
    <2>3. ASSUME ~Release(s), go[s] = "cleanCookie"
          PROVE  GoStage(s)'
        BY <1>5, <2>3 DEF UnlinkSingleton, CleanupEntry, AfterStep, GoStage, SingletonName
    <2>4. ASSUME ~Release(s), go[s] = "cleanLock"
          PROVE  GoStage(s)'
        BY <1>5, <2>4 DEF UnlinkSingleton, CleanupEntry, AfterStep, GoStage,
                          SingletonName, NoSingletons
    <2> QED
        BY <1>5, <2>1, <2>2, <2>3, <2>4 DEF UnlinkSingleton, CleanupEntry
<1>6. CASE CheckNoSingletons(s)
    BY <1>0, <1>6 DEF CheckNoSingletons, GoStage, NoSingletons
<1>7. CASE UnlinkOwner(s)
    <2>1. /\ go[s] = "cleanOwner" => go'[s] = "cleanJournal"
          /\ go[s] = "resetOwner" => go'[s] = "resetJournal"
          /\ go[s] \in {"cleanOwner", "resetOwner"}
        BY <1>7 DEF UnlinkOwner, AfterStep
    <2>2. owner' = NoBrowser
        BY <1>7 DEF UnlinkOwner, GoStage
    <2>3. UNCHANGED <<journal, singleton, seen>>
        BY <1>7 DEF UnlinkOwner
    <2>4. NoSingletons
        BY <2>1 DEF GoStage
    <2>5. go[s] = "cleanOwner" => seen[s].journal = (journal # NoSession)
        BY DEF GoStage
    <2> QED
        BY <2>1, <2>2, <2>3, <2>4, <2>5 DEF GoStage, NoSingletons
<1>8. CASE UnlinkJournal(s)
    <2>1. /\ go[s] = "cleanJournal" => go'[s] = "cleanBoundary"
          /\ go[s] = "resetJournal" => go'[s] = "resetBoundary"
          /\ go[s] \in {"cleanJournal", "resetJournal"}
        BY <1>8 DEF UnlinkJournal, AfterStep
    <2>2. journal' = NoSession
        BY <1>8 DEF UnlinkJournal, GoStage
    <2>3. UNCHANGED <<owner, singleton, seen>>
        BY <1>8 DEF UnlinkJournal
    <2>4. owner = NoBrowser /\ NoSingletons
        BY <2>1 DEF GoStage
    <2> QED
        BY <2>1, <2>2, <2>3, <2>4 DEF GoStage, NoSingletons
<1>9. CASE UnlinkBoundary(s)
    <2>1. /\ go[s] = "cleanBoundary" => go'[s] = "reset"
          /\ go[s] = "resetBoundary" => go'[s] = "publish"
          /\ go[s] \in {"cleanBoundary", "resetBoundary"}
        BY <1>9 DEF UnlinkBoundary, AfterStep
    <2>2. UNCHANGED <<owner, journal, singleton, seen>>
        BY <1>9 DEF UnlinkBoundary
    <2>3. owner = NoBrowser /\ journal = NoSession /\ NoSingletons
        BY <2>1 DEF GoStage
    <2> QED
        BY <2>1, <2>2, <2>3 DEF GoStage, NoSingletons
<1>10. CASE PublishJournal(s)
    BY <1>0, <1>10 DEF PublishJournal, GoStage, NoSingletons
<1> QED
    BY <1>1, <1>2, <1>3, <1>4, <1>5, <1>6, <1>7, <1>8, <1>9, <1>10 DEF GoStep

LEMMA GoInvStep ==
    ASSUME TypeOK, LockInv, GoInv, Next
    PROVE  GoInv'
<1> SUFFICES ASSUME NEW t \in Session PROVE GoStage(t)'
    BY DEF GoInv
<1>0. GoStage(t)
    BY DEF GoInv
<1>1. CASE GoStep(t)
    BY <1>0, <1>1, GoStepStage
<1>2. CASE go'[t] \notin Early
    BY <1>2 DEF GoStage, Early, CleanStep, ResetStep
<1>3. CASE go'[t] \in Early /\ ~GoStep(t)
    <2>1. go'[t] = go[t]
        BY <1>3, EarlyFrame
    <2>2. host' = host
        BY GoFrame, NodeFrame, ChromeFrame, CrashFrame DEF Next, Crash
    <2>3. CASE go[t] \in GoLocked
        <3>1. seen'[t] = seen[t] /\ UNCHANGED <<journal, owner, singleton>>
            BY <1>3, <2>3, EarlyFrame
        <3> QED
            BY <1>0, <2>1, <2>2, <3>1 DEF GoStage, NoSingletons
    <2>4. CASE go[t] \notin GoLocked
        BY <2>1, <2>4 DEF GoStage, GoLocked, CleanStep, ResetStep
    <2> QED
        BY <2>3, <2>4
<1> QED
    BY <1>1, <1>2, <1>3

InUse(s) == \/ go[s] = "start"
            \/ node[s] \in NodeAlive
            \/ \E b \in BrowsersOf(s) : chrome[b] \in GroupAlive

LEMMA BackedMeaning == BackedByJournal <=> \A s \in Session : InUse(s) => journal = s
BY DEF BackedByJournal, InUse

LEMMA BackedStep ==
    ASSUME TypeOK, LockInv, BackedByJournal, Next
    PROVE  BackedByJournal'
<1> SUFFICES ASSUME NEW t \in Session, InUse(t)' PROVE journal' = t
    BY DEF BackedByJournal, InUse, BrowsersOf
<1>0. \A s \in Session : /\ InUse(s) => journal = s
                         /\ InUse(s) => Holds(s)
                         /\ InUse(s) => go[s] = "start" \/ go[s] \notin Early
    BY BackedMeaning
    DEF InUse, Holds, GoLocked, LockInv, NothingStarted, NodeAlive, GroupAlive, Executing
<1>1. ASSUME NEW s \in Session, GoStep(s) PROVE journal' = t
    <2>1. CASE InUse(t)
        <3>1. Holds(s) => s = t
            BY <1>0, <2>1 DEF LockInv, MutualExclusion
        <3>2. journal' # journal => Holds(s)
            BY <1>1, GoFiles DEF Holds, GoLocked, CleanStep, ResetStep
        <3>3. journal' = journal
            BY <1>0, <1>1, <2>1, <3>1, <3>2, GoFiles DEF Early, CleanStep, ResetStep
        <3> QED
            BY <1>0, <2>1, <3>3
    <2>2. CASE ~InUse(t)
        <3>1. chrome' = chrome
            BY <1>1, GoFrame
        <3>2. node'[t] \notin NodeAlive
            BY <1>1, <2>2, GoFrame DEF InUse, StartNode, KillNode, NodeEnds,
               NodeAlive, TypeOK
        <3>3. go'[t] = "start" /\ go[t] # "start"
            BY <2>2, <3>1, <3>2 DEF InUse, BrowsersOf
        <3>4. s = t
            BY <1>1, <3>3, GoFrame
        <3>5. go[s] = "publish" /\ PublishJournal(s)
            BY <1>1, <3>3, <3>4
            DEF GoStep, MakeDirectory, LoadMetadata, PublishMetadata, RollBackDirectory,
                AcquireLock, InspectLocks, UnlinkSingleton, CheckNoSingletons, UnlinkOwner,
                UnlinkJournal, UnlinkBoundary, PublishJournal, AcquireFails, StartNode,
                KillNode, FinishCapture, Goto, Release, TypeOK, CleanupEntry, AfterStep
        <3> QED
            BY <3>3, <3>4, <3>5 DEF PublishJournal, Goto, Release, TypeOK
    <2> QED
        BY <2>1, <2>2
<1>2. ASSUME NEW s \in Session, NodeStep(s) PROVE InUse(t) /\ journal' = journal
    <2>1. go' = go /\ journal' = journal
        BY <1>2, NodeFrame
    <2>2. ASSUME node'[t] \in NodeAlive PROVE node[t] \in NodeAlive
        BY <1>2, <2>2, NodeFrame DEF NodeAlive, LockInv, StopIsAlive
    <2>3. ASSUME NEW b \in BrowsersOf(t), chrome'[b] \in GroupAlive PROVE InUse(t)
        <3>1. CASE chrome[b] \in GroupAlive
            BY <3>1 DEF InUse
        <3>2. CASE chrome[b] \notin GroupAlive
            <4>1. b = Current(s) /\ SpawnChrome(s)
                BY <1>2, <2>3, <3>2, NodeFrame, BrowserOfSession
            <4>2. s = t
                BY <4>1, CurrentIsBrowser, BrowserOfSession
            <4> QED
                BY <4>1, <4>2 DEF InUse, SpawnChrome, NodeAlive
        <3> QED
            BY <3>1, <3>2
    <2> QED
        BY <2>1, <2>2, <2>3 DEF InUse, BrowsersOf
<1>3. ASSUME NEW c \in Browser, ChromeStep(c) PROVE InUse(t) /\ journal' = journal
    <2>1. \A b \in BrowsersOf(t) : chrome'[b] \in GroupAlive => chrome[b] \in GroupAlive
        BY <1>3, ChromeFrame, BrowserOfSession
    <2> QED
        BY <1>3, <2>1, ChromeFrame DEF InUse, BrowsersOf
<1>4. ASSUME Crash PROVE InUse(t) /\ journal' = journal
    <2>1. \A b \in BrowsersOf(t) : chrome'[b] \in GroupAlive => chrome[b] \in GroupAlive
        BY <1>4, CrashFrame, BrowserOfSession DEF GroupAlive, Executing
    <2>2. /\ go'[t] = "start" => go[t] = "start"
          /\ node'[t] \in NodeAlive => node[t] \in NodeAlive
          /\ journal' = journal
        BY <1>4, CrashFrame DEF NodeAlive
    <2> QED
        BY <2>1, <2>2 DEF InUse, BrowsersOf
<1> QED
    BY <1>0, <1>1, <1>2, <1>3, <1>4 DEF Next, Crash

LEMMA OwnerBoundStep ==
    ASSUME TypeOK, LockInv, GoInv, OwnerBoundToJournal, Next
    PROVE  OwnerBoundToJournal'
<1> USE DEF OwnerBoundToJournal
<1>1. ASSUME NEW s \in Session, GoStep(s) PROVE OwnerBoundToJournal'
    <2>1. owner' = owner \/ owner' = NoBrowser
        <3>1. CASE UnlinkOwner(s)
            BY <3>1 DEF UnlinkOwner
        <3>2. CASE ~UnlinkOwner(s)
            <4>1. owner' # owner => go[s] \in {"cleanOwner", "resetOwner"}
                BY <1>1, GoFiles
            <4> QED
                BY <1>1, <3>2, <4>1
                DEF GoStep, MakeDirectory, LoadMetadata, PublishMetadata, RollBackDirectory,
                    AcquireLock, InspectLocks, UnlinkSingleton, CheckNoSingletons,
                    UnlinkJournal, UnlinkBoundary, PublishJournal, AcquireFails,
                    StartNode, KillNode, FinishCapture
        <3> QED
            BY <3>1, <3>2
    <2>2. journal' # journal => owner' = NoBrowser
        <3>1. ASSUME journal' # journal, go[s] = "resetJournal" \/ go[s] = "cleanJournal"
                     \/ go[s] = "publish"
              PROVE  owner = NoBrowser
            BY <3>1 DEF GoInv, GoStage
        <3> QED
            BY <1>1, <2>1, <3>1, GoFiles
    <2> QED
        BY <2>1, <2>2
<1>2. ASSUME NEW s \in Session, NodeStep(s) PROVE OwnerBoundToJournal'
    <2>1. journal' = journal
        BY <1>2, NodeFrame
    <2>2. CASE owner' = owner \/ owner' = NoBrowser
        BY <2>1, <2>2
    <2>3. CASE owner' # owner /\ owner' # NoBrowser
        <3>1. PublishOwner(s)
            BY <1>2, <2>3
            DEF NodeStep, PrepareProfile, SpawnChrome, SpawnFails, AttachBrowser,
                AttachFails, OwnerRefused, HoldBeforeOwner, CaptureEnds, CloseBrowser,
                ReapBrowser, ReapFails, RemoveOwner, RetryStartup, RetryCapture,
                NodeExits, ShutdownTerm, ShutdownExit
        <3> QED
            BY <2>1, <3>1, CurrentIsBrowser DEF PublishOwner, OwnerVerified
    <2> QED
        BY <2>2, <2>3
<1>3. ASSUME NEW b \in Browser, ChromeStep(b) PROVE OwnerBoundToJournal'
    BY <1>3, ChromeFrame
<1>4. CASE Crash
    BY <1>4, CrashFrame
<1> QED
    BY <1>1, <1>2, <1>3, <1>4 DEF Next, Crash

LEMMA InitRecords == Init => GoInv /\ BackedByJournal /\ OwnerBoundToJournal
<1> SUFFICES ASSUME Init PROVE GoInv /\ BackedByJournal /\ OwnerBoundToJournal
    OBVIOUS
<1>1. GoInv
    BY DEF Init, GoInv, GoStage, ResetStep
<1>2. BackedByJournal
    BY BrowserOfSession DEF Init, BackedByJournal, NodeAlive, GroupAlive, Executing
<1>3. OwnerBoundToJournal
    BY DEF Init, NewProfile, LegacyProfile, OwnerBoundToJournal
<1> QED
    BY <1>1, <1>2, <1>3

LEMMA RecordsAlways == Spec => [](GoInv /\ BackedByJournal /\ OwnerBoundToJournal)
<1> DEFINE RecInv == GoInv /\ BackedByJournal /\ OwnerBoundToJournal
<1>1. ASSUME TypeOK, LockInv, RecInv, Next PROVE RecInv'
    BY <1>1, GoInvStep, BackedStep, OwnerBoundStep
<1>2. ASSUME RecInv, UNCHANGED vars PROVE RecInv'
    BY <1>2 DEF vars, GoInv, GoStage, BackedByJournal, OwnerBoundToJournal, NoSingletons
<1>3. TypeOK /\ LockInv /\ RecInv /\ [Next]_vars => RecInv'
    BY <1>1, <1>2
<1> QED
    BY <1>3, InitRecords, LockAlways, PTL DEF Spec

\* As long as a process of a Chrome group exists, the journal of its launch is
\* on disk: a crash at any moment finds the authority to clean up after it.
THEOREM JournalCovers == Spec => []JournalCoversBrowser
<1>1. BackedByJournal => JournalCoversBrowser
    <2>1. ASSUME BackedByJournal, NEW b \in Browser, chrome[b] \in GroupAlive
          PROVE  journal = b[1]
        <3>1. b[1] \in Session /\ b \in BrowsersOf(b[1])
            BY DEF Browser, BrowsersOf
        <3> QED
            BY <2>1, <3>1 DEF BackedByJournal
    <2> QED
        BY <2>1 DEF JournalCoversBrowser
<1> QED
    BY <1>1, RecordsAlways, PTL

\* An interrupted cleanup or launch never leaves an owner v2 record without the
\* journal it is bound to, which would refuse every later capture.
THEOREM OwnerBound == Spec => []OwnerBoundToJournal
BY RecordsAlways, PTL

\* A v1 owner record authorizes cleanup on its own host only.
THEOREM LegacyHost == Spec => LegacyCleanupOnSameHost
<1>1. GoInv => \A s \in Session :
                 go[s] = "cleanLock" /\ owner # NoBrowser /\ owner[1] \in Legacy
                   => host[s] = host[owner[1]]
    BY DEF GoInv, GoStage
<1>2. GoInv => [\A s \in Session :
         /\ go[s] = "cleanLock"
         /\ owner # NoBrowser
         /\ owner[1] \in Legacy
         /\ singleton'["SingletonLock"] # singleton["SingletonLock"]
         => host[s] = host[owner[1]]]_vars
    BY <1>1
<1> QED
    BY <1>2, RecordsAlways, PTL DEF LegacyCleanupOnSameHost

-----------------------------------------------------------------------------
(* Chrome's Singleton entries *)

\* A session that Node or Chrome works for is alone with the files.
LEMMA GoKeepsFiles ==
    ASSUME TypeOK, LockInv, NEW s \in Session, GoStep(s), NEW t \in Session,
           \/ node[t] \in NodeAlive
           \/ \E b \in BrowsersOf(t) : chrome[b] \in GroupAlive
    PROVE  UNCHANGED <<journal, owner, singleton, boundary>>
<1>1. SUFFICES ASSUME go[s] \in CleanStep \cup ResetStep \cup {"publish"} PROVE FALSE
    BY GoFiles DEF CleanStep, ResetStep
<1>2. Holds(s) /\ Holds(t)
    BY <1>1 DEF Holds, GoLocked
<1>3. s = t
    BY <1>2 DEF LockInv, MutualExclusion
<1>4. node[t] = "none" /\ \A b \in BrowsersOf(t) : chrome[b] = "none"
    BY <1>1, <1>3 DEF LockInv, NothingStarted, Early
<1> QED
    BY <1>4 DEF NodeAlive, GroupAlive, Executing

LEMMA EntriesOfLockStep ==
    ASSUME TypeOK, LockInv, BrowserInv, GoInv, EntriesOfLock, EntriesOfCurrent, Next
    PROVE  EntriesOfLock'
<1> USE DEF EntriesOfLock
<1>1. ASSUME NEW s \in Session, GoStep(s) PROVE EntriesOfLock'
    <2>1. chrome' = chrome
        BY <1>1, GoFrame
    <2>2. CASE singleton' = singleton
        BY <2>1, <2>2
    <2>3. CASE singleton' # singleton
        <3>1. UnlinkSingleton(s)
            BY <1>1, <2>3
            DEF GoStep, MakeDirectory, LoadMetadata, PublishMetadata, RollBackDirectory,
                AcquireLock, InspectLocks, CheckNoSingletons, UnlinkOwner,
                UnlinkJournal, UnlinkBoundary, PublishJournal, AcquireFails,
                StartNode, KillNode, FinishCapture
        <3>2. \A b \in Browser : chrome[b] \notin GroupAlive
            BY <1>1, <2>3, GoKeepsFiles, BrowserOfSession
        <3>3. PICK name \in SingletonName :
                 /\ name = CleanupEntry[go[s]]
                 /\ singleton' = [singleton EXCEPT ![name] = NoBrowser]
            BY <2>3, <3>1 DEF UnlinkSingleton, CleanupEntry, SingletonName
        <3>4. name = "SingletonLock" =>
                /\ singleton["SingletonSocket"] = NoBrowser
                /\ singleton["SingletonCookie"] = NoBrowser
            BY <3>1, <3>3 DEF GoInv, GoStage, UnlinkSingleton, CleanupEntry
        <3>5. \A n \in SingletonName :
                 singleton'[n] \in {NoBrowser, singleton'["SingletonLock"]}
            BY <3>3, <3>4 DEF SingletonName, TypeOK
        <3> QED
            BY <2>1, <3>2, <3>5 DEF GroupAlive, Executing
    <2> QED
        BY <2>2, <2>3
<1>2. ASSUME NEW s \in Session, NodeStep(s) PROVE EntriesOfLock'
    <2>1. singleton' = singleton
        BY <1>2, NodeFrame
    <2>2. ASSUME NEW b \in Browser, chrome'[b] \in {"starting", "running"}
          PROVE  chrome'[b] = chrome[b] \/ (SpawnChrome(s) /\ chrome'[b] = "starting")
        <3>1. CASE b # Current(s)
            BY <1>2, <3>1, NodeFrame
        <3>2. CASE b = Current(s)
            BY <1>2, <2>2, <3>2
            DEF NodeStep, PrepareProfile, SpawnChrome, SpawnFails, AttachBrowser,
                AttachFails, PublishOwner, OwnerRefused, HoldBeforeOwner, CaptureEnds,
                CloseBrowser, ReapBrowser, ReapFails, RemoveOwner, RetryStartup,
                RetryCapture, NodeExits, ShutdownTerm, ShutdownExit, Terminated, TypeOK
        <3> QED
            BY <3>1, <3>2
    <2>3. SpawnChrome(s) => singleton["SingletonLock"] = NoBrowser
        BY DEF EntriesOfCurrent, SpawnChrome, NoSingletons, SingletonName
    <2> QED
        BY <2>1, <2>2, <2>3, BrowserAssumption DEF Browser
<1>3. ASSUME NEW b \in Browser, ChromeStep(b) PROVE EntriesOfLock'
    <2> USE BrowserAssumption DEF TypeOK, SingletonName
    <2>0. NoBrowser \notin Browser
        BY DEF Browser
    <2>1. CASE ChromeTakesLock(b)
        BY <2>0, <2>1 DEF ChromeTakesLock
    <2>2. CASE ChromePublishes(b)
        BY <2>0, <2>2 DEF ChromePublishes
    <2>3. CASE ChromeQuits(b) \/ ChromeDies(b) \/ KilledGroupGoes(b)
        BY <2>3 DEF ChromeQuits, ChromeDies, KilledGroupGoes
    <2>4. CASE ChromeCleansUp(b)
        BY <2>0, <2>4 DEF ChromeCleansUp
    <2> QED
        BY <1>3, <2>1, <2>2, <2>3, <2>4 DEF ChromeStep
<1>4. CASE Crash
    BY <1>4, CrashFrame
<1> QED
    BY <1>1, <1>2, <1>3, <1>4 DEF Next, Crash

\* A Chrome that runs belongs to the session that Node works for.
LEMMA RunsForNode ==
    ASSUME TypeOK, LockInv, BrowserInv, NEW t \in Session, node[t] \in NodeAlive,
           NEW b \in Browser, chrome[b] \in Executing
    PROVE  node[t] \in Driving /\ b = Current(t)
<1>1. b[1] \in Session /\ b \in BrowsersOf(b[1])
    BY DEF Browser, BrowsersOf
<1>2. Holds(t) /\ Holds(b[1])
    BY <1>1 DEF Holds, GroupAlive
<1>3. b[1] = t
    BY <1>1, <1>2 DEF LockInv, MutualExclusion
<1> QED
    BY <1>1, <1>3, LiveIsAlive DEF BrowserInv, LiveIsCurrent, NodeAlive

LEMMA EntriesOfCurrentStep ==
    ASSUME TypeOK, LockInv, BrowserInv, EntriesOfCurrent, Next
    PROVE  EntriesOfCurrent'
<1> DEFINE Kept == Driving \cup {"reaped", "closed"}
<1> SUFFICES ASSUME NEW t \in Session
             PROVE  /\ node'[t] = "spawn" => NoSingletons'
                    /\ node'[t] \in Kept =>
                         singleton'["SingletonLock"] \in {NoBrowser, Current(t)'}
    BY DEF EntriesOfCurrent
<1> DEFINE Goal == /\ node'[t] = "spawn" => NoSingletons'
                   /\ node'[t] \in Kept =>
                        singleton'["SingletonLock"] \in {NoBrowser, Current(t)'}
<1>0. /\ node[t] = "spawn" => NoSingletons
      /\ node[t] \in Kept => singleton["SingletonLock"] \in {NoBrowser, Current(t)}
    BY DEF EntriesOfCurrent
<1>k. Kept \cup {"spawn"} \subseteq NodeAlive
    BY DEF Driving, NodeAlive
<1>1. ASSUME NEW s \in Session, GoStep(s) PROVE Goal
    <2>1. CASE node'[t] \notin Kept \cup {"spawn"}
        BY <2>1
    <2>2. CASE node'[t] \in Kept \cup {"spawn"}
        <3>1. node'[t] = node[t] /\ round'[t] = round[t] /\ try'[t] = try[t]
            BY <1>1, <2>2, GoFrame DEF StartNode, KillNode, NodeEnds, TypeOK, Driving
        <3>2. singleton' = singleton
            BY <1>1, <1>k, <2>2, <3>1, GoKeepsFiles
        <3> QED
            BY <1>0, <3>1, <3>2 DEF NoSingletons, Current
    <2> QED
        BY <2>1, <2>2
<1>2. ASSUME NEW s \in Session, NodeStep(s) PROVE Goal
    <2>1. singleton' = singleton
        BY <1>2, NodeFrame
    <2>2. CASE s # t
        BY <1>0, <1>2, <2>1, <2>2, NodeFrame DEF NoSingletons, Current
    <2>3. CASE s = t
        <3> USE <2>3 DEF TypeOK, NodeGoto, Driving, SingletonName, NoSingletons
        <3>1. CASE PrepareProfile(s) \/ RetryStartup(s)
            BY <2>1, <3>1 DEF PrepareProfile, RetryStartup, TryAgain, NodeEnds
        <3>2. CASE SpawnChrome(s)
            BY <1>0, <2>1, <3>2 DEF SpawnChrome
        <3>3. CASE RetryCapture(s)
            BY <3>3 DEF RetryCapture
        <3>4. CASE SpawnFails(s) \/ NodeExits(s) \/ ShutdownExit(s)
            BY <3>4 DEF SpawnFails, NodeExits, ShutdownExit, NodeEnds
        <3>5. ASSUME UNCHANGED <<singleton, round, try>>, node[t] \in Kept
              PROVE  Goal \/ node'[t] = "spawn"
            BY <1>0, <3>5 DEF Current
        <3>6. CASE AttachBrowser(s) \/ AttachFails(s) \/ PublishOwner(s) \/ OwnerRefused(s)
            BY <2>1, <3>5, <3>6 DEF AttachBrowser, AttachFails, PublishOwner, OwnerRefused
        <3>7. CASE HoldBeforeOwner(s) \/ CaptureEnds(s) \/ CloseBrowser(s)
            BY <2>1, <3>5, <3>7 DEF HoldBeforeOwner, CaptureEnds, CloseBrowser
        <3>8. CASE ReapBrowser(s) \/ ReapFails(s) \/ RemoveOwner(s)
            BY <2>1, <3>5, <3>8 DEF ReapBrowser, ReapFails, RemoveOwner
        <3>9. CASE ShutdownTerm(s)
            BY <1>0, <2>1, <3>9 DEF ShutdownTerm, Current
        <3> QED
            BY <1>2, <3>1, <3>2, <3>3, <3>4, <3>6, <3>7, <3>8, <3>9 DEF NodeStep
    <2> QED
        BY <2>2, <2>3
<1>3. ASSUME NEW b \in Browser, ChromeStep(b) PROVE Goal
    <2>1. node' = node /\ Current(t)' = Current(t)
        BY <1>3, ChromeFrame DEF Current
    <2>2. CASE singleton' = singleton
        BY <1>0, <2>1, <2>2 DEF NoSingletons
    <2>3. CASE singleton' # singleton /\ node[t] \in Kept \cup {"spawn"}
        <3>1. node[t] \in Driving /\ b = Current(t)
            BY <1>3, <1>k, <2>3, RunsForNode, ChromeFiles
        <3>2. singleton'["SingletonLock"] \in {singleton["SingletonLock"], NoBrowser, b}
            BY <1>3, <2>3 DEF ChromeStep, ChromeTakesLock, ChromePublishes, ChromeQuits,
               ChromeCleansUp, ChromeDies, KilledGroupGoes, TypeOK, SingletonName
        <3> QED
            BY <1>0, <2>1, <3>1, <3>2 DEF Driving
    <2> QED
        BY <2>1, <2>2, <2>3
<1>4. ASSUME Crash PROVE Goal
    BY <1>0, <1>4, <1>k, CrashFrame DEF NoSingletons, Current, NodeAlive, Driving
<1> QED
    BY <1>1, <1>2, <1>3, <1>4 DEF Next, Crash

LEMMA BoundaryStep ==
    ASSUME TypeOK, LockInv, BrowserInv, EntriesOfCurrent, BoundaryIsPreOwner, Next
    PROVE  BoundaryIsPreOwner'
<1> SUFFICES ASSUME NEW t \in Session, node'[t] = "held"
             PROVE  /\ journal' = t
                    /\ owner' = NoBrowser
                    /\ boundary'
                    /\ singleton'["SingletonLock"] = Current(t)'
    BY DEF BoundaryIsPreOwner
<1> DEFINE Goal == /\ journal' = t
                   /\ owner' = NoBrowser
                   /\ boundary'
                   /\ singleton'["SingletonLock"] = Current(t)'
<1>0. node[t] = "held" => /\ journal = t
                          /\ owner = NoBrowser
                          /\ boundary
                          /\ singleton["SingletonLock"] = Current(t)
    BY DEF BoundaryIsPreOwner
<1>1. ASSUME NEW s \in Session, GoStep(s) PROVE Goal
    <2>1. node[t] = "held" /\ round'[t] = round[t] /\ try'[t] = try[t]
        BY <1>1, GoFrame DEF StartNode, KillNode, NodeEnds, TypeOK
    <2>2. UNCHANGED <<journal, owner, singleton, boundary>>
        BY <1>1, <2>1, GoKeepsFiles DEF NodeAlive
    <2> QED
        BY <1>0, <2>1, <2>2 DEF Current
<1>2. ASSUME NEW s \in Session, NodeStep(s) PROVE Goal
    <2>1. CASE s # t
        <3>1. node[t] = "held" /\ Current(t)' = Current(t)
            BY <1>2, <2>1, NodeFrame DEF Current
        <3>2. node[s] \notin NodeAlive
            BY <2>1, <3>1 DEF LockInv, MutualExclusion, Holds, NodeAlive
        <3>3. UNCHANGED <<journal, owner, singleton, boundary>>
            BY <1>2, <3>2, NodeFrame, NodeFiles DEF NodeAlive
        <3> QED
            BY <1>0, <3>1, <3>3
    <2>2. CASE s = t
        <3>1. CASE HoldBeforeOwner(s)
            <4>1. /\ journal = s
                  /\ owner = NoBrowser
                  /\ boundary'
                  /\ singleton["SingletonLock"] # NoBrowser
                  /\ node[s] = "owner"
                  /\ UNCHANGED <<journal, owner, singleton, round, try>>
                BY <3>1 DEF HoldBeforeOwner, OwnerVerified
            <4>2. singleton["SingletonLock"] = Current(s)
                BY <4>1 DEF EntriesOfCurrent, Driving
            <4> QED
                BY <2>2, <4>1, <4>2 DEF Current
        <3>2. CASE ~HoldBeforeOwner(s)
            <4>1. ShutdownTerm(s)
                BY <1>2, <2>2, <3>2
                DEF NodeStep, PrepareProfile, SpawnChrome, SpawnFails, AttachBrowser,
                    AttachFails, PublishOwner, OwnerRefused, CaptureEnds, CloseBrowser,
                    ReapBrowser, ReapFails, RemoveOwner, RetryStartup, RetryCapture,
                    NodeExits, ShutdownExit, NodeGoto, NodeEnds, TypeOK
            <4> QED
                BY <1>0, <2>2, <4>1 DEF ShutdownTerm, Current
        <3> QED
            BY <3>1, <3>2
    <2> QED
        BY <2>1, <2>2
<1>3. ASSUME NEW b \in Browser, ChromeStep(b) PROVE Goal
    <2>1. /\ node[t] = "held" /\ Current(t)' = Current(t)
          /\ UNCHANGED <<journal, owner, boundary>>
        BY <1>3, ChromeFrame DEF Current
    <2>2. singleton' = singleton
        <3>1. SUFFICES ASSUME singleton' # singleton PROVE FALSE
            OBVIOUS
        <3>2. b = Current(t)
            BY <1>3, <2>1, <3>1, RunsForNode, ChromeFiles DEF NodeAlive
        <3>3. Paused(b)
            BY <2>1, <3>2, CurrentIsBrowser DEF Paused
        <3> QED
            BY <1>3, <3>1, <3>3 DEF ChromeStep, ChromeTakesLock, ChromePublishes,
               ChromeQuits, ChromeCleansUp, ChromeDies, KilledGroupGoes
    <2> QED
        BY <1>0, <2>1, <2>2
<1>4. ASSUME Crash PROVE Goal
    BY <1>0, <1>4, CrashFrame DEF Current, NodeAlive
<1> QED
    BY <1>1, <1>2, <1>3, <1>4 DEF Next, Crash

Entries == EntriesOfLock /\ EntriesOfCurrent /\ BoundaryIsPreOwner

LEMMA InitEntries == Init => Entries
<1> SUFFICES ASSUME Init PROVE Entries
    OBVIOUS
<1>1. EntriesOfCurrent /\ BoundaryIsPreOwner
    BY DEF Init, EntriesOfCurrent, BoundaryIsPreOwner, Driving
<1>2. \A n \in SingletonName : singleton[n] \in {NoBrowser, singleton["SingletonLock"]}
    BY DEF Init, NewProfile, LegacyProfile, SingletonName
<1>3. EntriesOfLock
    BY <1>2 DEF Init, EntriesOfLock
<1> QED
    BY <1>1, <1>3 DEF Entries

LEMMA EntriesAlways == Spec => []Entries
<1>1. ASSUME TypeOK, LockInv, BrowserInv, GoInv, Entries, Next PROVE Entries'
    BY <1>1, EntriesOfLockStep, EntriesOfCurrentStep, BoundaryStep DEF Entries
<1>2. ASSUME Entries, UNCHANGED vars PROVE Entries'
    BY <1>2 DEF vars, Entries, EntriesOfLock, EntriesOfCurrent, BoundaryIsPreOwner,
                NoSingletons, Current
<1>3. TypeOK /\ LockInv /\ BrowserInv /\ GoInv /\ Entries /\ [Next]_vars => Entries'
    BY <1>1, <1>2
<1> QED
    BY <1>3, InitEntries, LockAlways, BrowserAlways, RecordsAlways, PTL DEF Spec

\* The conformance boundary is held before the owner record and after the lock
\* and the journal, for as long as the session is paused there.
THEOREM PreOwner == Spec => []BoundaryIsPreOwner
<1>1. Entries => BoundaryIsPreOwner
    BY DEF Entries
<1> QED
    BY <1>1, EntriesAlways, PTL

\* No cleanup of any session removes the lock of a Chrome that runs.
THEOREM LiveLock == Spec => LiveLockKept
<1>1. ASSUME TypeOK, LockInv, BrowserInv, Next, NEW b \in Browser,
             singleton["SingletonLock"] = b, chrome[b] \in {"starting", "running"}
      PROVE  singleton'["SingletonLock"] = b
    <2>0. b[1] \in Session /\ b \in BrowsersOf(b[1]) /\ b # NoBrowser
        BY BrowserAssumption DEF Browser, BrowsersOf
    <2>1. ASSUME NEW s \in Session, GoStep(s) PROVE singleton' = singleton
        BY <1>1, <2>0, <2>1, GoKeepsFiles DEF GroupAlive, Executing
    <2>2. ASSUME NEW s \in Session, NodeStep(s) PROVE singleton' = singleton
        BY <1>1, <2>2, NodeFrame
    <2>3. ASSUME NEW c \in Browser, ChromeStep(c) PROVE singleton'["SingletonLock"] = b
        BY <1>1, <2>0, <2>3
        DEF ChromeStep, ChromeTakesLock, ChromePublishes, ChromeQuits, ChromeCleansUp,
            ChromeDies, KilledGroupGoes, TypeOK, SingletonName
    <2>4. Crash => singleton' = singleton
        BY <1>1, CrashFrame
    <2> QED
        BY <1>1, <2>1, <2>2, <2>3, <2>4 DEF Next, Crash
<1>2. TypeOK /\ LockInv /\ BrowserInv /\ [Next]_vars =>
        [\A b \in Browser :
           /\ singleton["SingletonLock"] = b
           /\ chrome[b] \in {"starting", "running"}
           => singleton'["SingletonLock"] = b]_vars
    BY <1>1
<1> QED
    BY <1>2, LockAlways, BrowserAlways, PTL DEF Spec, LiveLockKept

-----------------------------------------------------------------------------
(* Recovery, when nothing but crashes and startup errors goes wrong *)

Known == /\ TypeOK /\ LockInv /\ BrowserInv /\ GoInv /\ BackedByJournal
         /\ EntriesOfLock /\ EntriesOfCurrent

LEMMA OwnerOfCurrentStep ==
    ASSUME Faults = {}, Known, OwnerOfCurrent, Next
    PROVE  OwnerOfCurrent'
<1> DEFINE Goal(t) ==
        /\ node'[t] \in {"spawn", "attach", "owner", "held"} => owner' = NoBrowser
        /\ node'[t] \in {"close", "term", "reaped"} /\ op'[t] = "startup"
              => owner' = NoBrowser
        /\ node'[t] \in {"prepare", "closed"} /\ singleton'["SingletonLock"] = NoBrowser
              => owner' = NoBrowser
<1> SUFFICES ASSUME NEW t \in Session PROVE Goal(t)
    BY DEF OwnerOfCurrent
<1> USE DEF Known
<1>0. /\ node[t] \in {"spawn", "attach", "owner", "held"} => owner = NoBrowser
      /\ node[t] \in {"close", "term", "reaped"} /\ op[t] = "startup" => owner = NoBrowser
      /\ node[t] \in {"prepare", "closed"} /\ singleton["SingletonLock"] = NoBrowser
            => owner = NoBrowser
    BY DEF OwnerOfCurrent
<1>a. node'[t] \notin NodeAlive => Goal(t)
    BY DEF NodeAlive
<1>s. /\ node'[t] = node[t]
      /\ op'[t] = op[t]
      /\ UNCHANGED <<owner, singleton>>
      => Goal(t)
    BY <1>0
<1>1. ASSUME NEW s \in Session, GoStep(s), node'[t] \in NodeAlive PROVE Goal(t)
    <2>1. CASE node[t] \in NodeAlive
        <3>1. UNCHANGED <<owner, singleton>>
            BY <1>1, <2>1, GoKeepsFiles
        <3>2. node'[t] = node[t] /\ op'[t] = op[t]
            BY <1>1, <2>1, GoFrame
            DEF StartNode, KillNode, NodeEnds, TypeOK, NodeAlive, LockInv, NothingStarted, Early
        <3> QED
            BY <1>s, <3>1, <3>2
    <2>2. CASE node[t] \notin NodeAlive
        <3>1. s = t /\ go[s] = "start" /\ StartNode(s)
            BY <1>1, <2>2, GoFrame DEF KillNode, NodeEnds, NodeAlive, TypeOK
        <3>2. owner' = NoBrowser
            BY <3>1 DEF StartNode, GoInv, GoStage
        <3> QED
            BY <3>2
    <2> QED
        BY <2>1, <2>2
<1>2. ASSUME NEW s \in Session, NodeStep(s), node'[t] \in NodeAlive PROVE Goal(t)
    <2>1. singleton' = singleton
        BY <1>2, NodeFrame
    <2>2. CASE s # t
        <3>1. node[t] \in NodeAlive /\ node'[t] = node[t] /\ op'[t] = op[t]
            BY <1>2, <2>2, NodeFrame
        <3>2. node[s] \notin NodeAlive
            BY <2>2, <3>1 DEF LockInv, MutualExclusion, Holds
        <3>3. owner' = owner
            BY <1>2, <3>2, NodeFiles DEF NodeAlive
        <3> QED
            BY <1>s, <2>1, <3>1, <3>3
    <2>3. CASE s = t
        <3> USE <2>3 DEF TypeOK, NodeGoto, Operation
        <3>1. CASE PrepareProfile(s)
            BY <1>0, <1>a, <2>1, <3>1
            DEF PrepareProfile, NodeEnds, NoSingletons, SingletonName, NodeAlive
        <3>2. CASE SpawnChrome(s) \/ AttachBrowser(s) \/ AttachFails(s)
            BY <1>0, <3>2 DEF SpawnChrome, AttachBrowser, AttachFails
        <3>3. CASE SpawnFails(s) \/ NodeExits(s) \/ ShutdownExit(s)
            BY <1>a, <3>3 DEF SpawnFails, NodeExits, ShutdownExit, NodeEnds, NodeAlive
        <3>4. CASE PublishOwner(s)
            BY <3>4 DEF PublishOwner
        <3>5. CASE OwnerRefused(s) \/ HoldBeforeOwner(s)
            BY <1>0, <3>5 DEF OwnerRefused, HoldBeforeOwner
        <3>6. CASE CaptureEnds(s)
            BY <3>6 DEF CaptureEnds
        <3>7. CASE CloseBrowser(s) \/ ReapBrowser(s) \/ ReapFails(s)
            BY <1>0, <3>7 DEF CloseBrowser, ReapBrowser, ReapFails
        <3>8. CASE RemoveOwner(s)
            BY <1>0, <3>8 DEF RemoveOwner
        <3>9. CASE RetryStartup(s) \/ RetryCapture(s)
            BY <1>0, <3>9 DEF RetryStartup, RetryCapture, TryAgain, NoSingletons, SingletonName
        <3>10. CASE ShutdownTerm(s)
            BY <1>s, <3>10 DEF ShutdownTerm
        <3> QED
            BY <1>2, <3>1, <3>2, <3>3, <3>4, <3>5, <3>6, <3>7, <3>8, <3>9, <3>10
            DEF NodeStep
    <2> QED
        BY <2>2, <2>3
<1>3. ASSUME NEW b \in Browser, ChromeStep(b), node'[t] \in NodeAlive PROVE Goal(t)
    <2>1. node'[t] = node[t] /\ op'[t] = op[t] /\ owner' = owner
        BY <1>3, ChromeFrame
    <2>2. CASE singleton' = singleton
        BY <1>s, <2>1, <2>2
    <2>3. CASE singleton' # singleton
        <3>1. node[t] \in Driving
            BY <1>3, <2>1, <2>3, RunsForNode, ChromeFiles
        <3> QED
            BY <1>0, <2>1, <3>1 DEF Driving
    <2> QED
        BY <2>2, <2>3
<1>4. ASSUME Crash, node'[t] \in NodeAlive PROVE Goal(t)
    BY <1>4, <1>s, CrashFrame DEF NodeAlive
<1> QED
    BY <1>a, <1>1, <1>2, <1>3, <1>4 DEF Next, Crash

LEMMA StartingUnownedStep ==
    ASSUME Faults = {}, Known, OwnerOfCurrent, StartingUnowned, Next
    PROVE  StartingUnowned'
<1> SUFFICES ASSUME NEW b \in Browser, chrome'[b] = "starting"
             PROVE  owner' = NoBrowser
    BY DEF StartingUnowned
<1> USE DEF Known
<1>0. chrome[b] = "starting" => owner = NoBrowser
    BY DEF StartingUnowned
<1>b. b[1] \in Session /\ b \in BrowsersOf(b[1])
    BY DEF Browser, BrowsersOf
<1>1. ASSUME NEW s \in Session, GoStep(s) PROVE owner' = NoBrowser
    BY <1>0, <1>1, <1>b, GoFrame, GoKeepsFiles DEF GroupAlive, Executing
<1>2. ASSUME NEW s \in Session, NodeStep(s) PROVE owner' = NoBrowser
    <2>1. CASE PublishOwner(s)
        <3>1. chrome[b] = "starting"
            BY <2>1 DEF PublishOwner
        <3>2. b = Current(s)
            BY <2>1, <3>1, RunsForNode DEF PublishOwner, NodeAlive, Executing
        <3>3. singleton["SingletonLock"] = b
            BY <2>1, <3>2 DEF PublishOwner, OwnerVerified, EntriesOfCurrent, Driving
        <3> QED
            BY <3>1, <3>3 DEF EntriesOfLock
    <2>2. CASE SpawnChrome(s)
        BY <2>2 DEF SpawnChrome, OwnerOfCurrent
    <2>3. CASE ~PublishOwner(s) /\ ~SpawnChrome(s)
        <3>1. chrome[b] = "starting"
            <4>1. CASE b # Current(s)
                BY <1>2, <4>1, NodeFrame
            <4>2. CASE b = Current(s)
                BY <1>2, <2>3, <4>2
                DEF NodeStep, PrepareProfile, SpawnFails, AttachBrowser,
                    AttachFails, OwnerRefused, HoldBeforeOwner, CaptureEnds,
                    CloseBrowser, ReapBrowser, ReapFails, RemoveOwner, RetryStartup,
                    RetryCapture, NodeExits, ShutdownTerm, ShutdownExit, Terminated, TypeOK
            <4> QED
                BY <4>1, <4>2
        <3>2. owner' = owner \/ owner' = NoBrowser
            BY <1>2, <2>3
            DEF NodeStep, PrepareProfile, SpawnFails, AttachBrowser, AttachFails,
                OwnerRefused, HoldBeforeOwner, CaptureEnds, CloseBrowser, ReapBrowser,
                ReapFails, RemoveOwner, RetryStartup, RetryCapture, NodeExits,
                ShutdownTerm, ShutdownExit
        <3> QED
            BY <1>0, <3>1, <3>2
    <2> QED
        BY <2>1, <2>2, <2>3
<1>3. ASSUME NEW c \in Browser, ChromeStep(c) PROVE owner' = NoBrowser
    <2>1. chrome[b] = "starting"
        BY <1>3 DEF ChromeStep, ChromeTakesLock, ChromePublishes, ChromeQuits,
           ChromeCleansUp, ChromeDies, KilledGroupGoes, TypeOK
    <2> QED
        BY <1>0, <1>3, <2>1, ChromeFrame
<1>4. Crash => owner' = NoBrowser
    BY <1>0, CrashFrame
<1> QED
    BY <1>1, <1>2, <1>3, <1>4 DEF Next, Crash

LEMMA RecordsNameLockStep ==
    ASSUME Known, OwnerOfCurrent, StartingUnowned, RecordsNameLock, Next
    PROVE  RecordsNameLock'
<1> SUFFICES ASSUME singleton'["SingletonLock"] # NoBrowser
             PROVE  IF owner' = NoBrowser
                    THEN journal' = singleton'["SingletonLock"][1]
                    ELSE Target(owner)' = Target(singleton["SingletonLock"])'
    BY DEF RecordsNameLock
<1> USE DEF Known
<1> DEFINE lock == singleton["SingletonLock"]
<1>t. lock \in Browser \cup {NoBrowser} /\ owner \in Browser \cup {NoBrowser}
    BY DEF TypeOK, SingletonName
<1>k. ASSUME lock' = lock, UNCHANGED <<owner, journal, pid, host>>
      PROVE  RecordsNameLock'
    BY <1>k DEF RecordsNameLock, Target
<1>1. ASSUME NEW s \in Session, GoStep(s) PROVE RecordsNameLock'
    <2>1. UNCHANGED <<pid, host>>
        BY <1>1, GoFrame
    <2>2. CASE singleton' # singleton
        <3>1. UNCHANGED <<owner, journal>>
            BY <1>1, <2>2, GoFiles
        <3>2. UnlinkSingleton(s)
            BY <1>1, <2>2
            DEF GoStep, MakeDirectory, LoadMetadata, PublishMetadata, RollBackDirectory,
                AcquireLock, InspectLocks, CheckNoSingletons, UnlinkOwner,
                UnlinkJournal, UnlinkBoundary, PublishJournal, AcquireFails,
                StartNode, KillNode, FinishCapture
        <3>3. lock' = lock
            BY <3>2 DEF UnlinkSingleton, TypeOK, SingletonName
        <3> QED
            BY <1>k, <2>1, <3>1, <3>3
    <2>3. CASE singleton' = singleton
        <3>1. lock # NoBrowser
            BY <2>3
        <3>2. UNCHANGED <<owner, journal>>
            BY <1>1, <3>1, GoFiles DEF GoInv, GoStage, ResetStep, NoSingletons, SingletonName
        <3> QED
            BY <1>k, <2>1, <2>3, <3>2
    <2> QED
        BY <2>2, <2>3
<1>2. ASSUME NEW s \in Session, NodeStep(s) PROVE RecordsNameLock'
    <2>1. UNCHANGED <<journal, singleton, host>>
        BY <1>2, NodeFrame
    <2>2. ~SpawnChrome(s)
        BY <2>1 DEF SpawnChrome, EntriesOfCurrent, NoSingletons, SingletonName
    <2>3. ~RemoveOwner(s) \/ owner' = owner
        BY <2>1 DEF RemoveOwner
    <2>4. pid' = pid
        BY <1>2, <2>2
        DEF NodeStep, PrepareProfile, SpawnFails, AttachBrowser, AttachFails,
            PublishOwner, OwnerRefused, HoldBeforeOwner, CaptureEnds, CloseBrowser,
            ReapBrowser, ReapFails, RemoveOwner, RetryStartup, RetryCapture, NodeExits,
            ShutdownTerm, ShutdownExit
    <2>5. CASE PublishOwner(s)
        <3>1. owner' = Current(s) /\ Target(lock) = Target(Current(s))
            BY <2>5 DEF PublishOwner, OwnerVerified
        <3>2. owner' # NoBrowser
            BY <3>1, CurrentIsBrowser, BrowserAssumption DEF Browser
        <3>3. Target(owner)' = Target(lock)'
            BY <2>1, <2>4, <3>1 DEF Target
        <3> QED
            BY <3>2, <3>3 DEF RecordsNameLock
    <2>6. CASE ~PublishOwner(s)
        <3>1. owner' = owner
            BY <1>2, <2>3, <2>6
            DEF NodeStep, PrepareProfile, SpawnChrome, SpawnFails, AttachBrowser,
                AttachFails, OwnerRefused, HoldBeforeOwner, CaptureEnds, CloseBrowser,
                ReapBrowser, ReapFails, RetryStartup, RetryCapture, NodeExits,
                ShutdownTerm, ShutdownExit
        <3> QED
            BY <1>k, <2>1, <2>4, <3>1
    <2> QED
        BY <2>5, <2>6
<1>3. ASSUME NEW b \in Browser, ChromeStep(b) PROVE RecordsNameLock'
    <2>1. UNCHANGED <<owner, journal, pid, host>>
        BY <1>3, ChromeFrame
    <2>2. CASE lock' = lock
        BY <1>k, <2>1, <2>2
    <2>3. CASE lock' # lock
        <3>1. chrome[b] = "starting" /\ lock' = b
            BY <1>3, <2>3 DEF ChromeStep, ChromeTakesLock, ChromePublishes, ChromeQuits,
               ChromeCleansUp, ChromeDies, KilledGroupGoes, TypeOK, SingletonName
        <3>2. owner = NoBrowser
            BY <3>1 DEF StartingUnowned
        <3>3. b[1] \in Session /\ b \in BrowsersOf(b[1])
            BY DEF Browser, BrowsersOf
        <3>4. journal = b[1]
            BY <3>1, <3>3 DEF BackedByJournal, GroupAlive, Executing
        <3> QED
            BY <2>1, <3>1, <3>2, <3>4 DEF RecordsNameLock
    <2> QED
        BY <2>2, <2>3
<1>4. Crash => RecordsNameLock'
    BY <1>k, CrashFrame
<1>5. RecordsNameLock'
    BY <1>1, <1>2, <1>3, <1>4 DEF Next, Crash
<1> QED
    BY <1>5 DEF RecordsNameLock

LEMMA RecoveryAlways ==
    ASSUME Faults = {}
    PROVE  Spec => []RecoveryInv
<1>1. Init => RecoveryInv
    BY DEF Init, NewProfile, LegacyProfile, RecoveryInv, OwnerOfCurrent,
           StartingUnowned, RecordsNameLock, SingletonName
<1>2. ASSUME Known, RecoveryInv, Next PROVE RecoveryInv'
    BY <1>2, OwnerOfCurrentStep, StartingUnownedStep, RecordsNameLockStep DEF RecoveryInv
<1>3. ASSUME RecoveryInv, UNCHANGED vars PROVE RecoveryInv'
    BY <1>3 DEF vars, RecoveryInv, OwnerOfCurrent, StartingUnowned, RecordsNameLock, Target
<1>4. Known /\ RecoveryInv /\ [Next]_vars => RecoveryInv'
    BY <1>2, <1>3
<1>5. TypeOK /\ LockInv /\ BrowserInv /\ GoInv /\ BackedByJournal /\ Entries => Known
    BY DEF Known, Entries
<1> QED
    BY <1>1, <1>4, <1>5, LockAlways, BrowserAlways, RecordsAlways, EntriesAlways, PTL
    DEF Spec

\* Whatever died, at whatever step: what is left on disk is something the next
\* acquisition may clean up, as long as every Chrome group can be killed and
\* no directory sync fails after the owner record is linked.
THEOREM Recovery ==
    ASSUME Faults = {}
    PROVE  Spec => []Recoverable
<1>1. RecoveryInv /\ EntriesOfLock => Recoverable
    BY DEF RecoveryInv, RecordsNameLock, EntriesOfLock, Recoverable, NoSingletons,
           SingletonName
<1>2. Entries => EntriesOfLock
    BY DEF Entries
<1> QED
    BY <1>1, <1>2, RecoveryAlways, EntriesAlways, PTL

-----------------------------------------------------------------------------
(* The refinement of the lease *)

Holding == {s \in Session : Holds(s)}
Browsing == {b \in Browser : chrome[b] \in Executing}

\* What the lock and the browsers say of the lease: one holder and one browser
\* at the most, and the browser is the holder's.
LeaseInv ==
    /\ \A s, t \in Holding : s = t
    /\ \A b, c \in Browsing : b = c
    /\ \A b \in Browsing : b[1] \in Holding

LEMMA LeaseHolds == LockInv /\ BrowserInv => LeaseInv
<1>1. ASSUME BrowserInv, NEW b \in Browsing, NEW c \in Browsing PROVE b = c
    BY <1>1, LiveIsAlive DEF BrowserInv, OneLive, Browsing, Live
<1>2. ASSUME NEW b \in Browsing PROVE b[1] \in Holding
    <2>1. b[1] \in Session /\ b \in BrowsersOf(b[1])
        BY DEF Browsing, Browser, BrowsersOf
    <2>2. chrome[b] \in GroupAlive
        BY DEF Browsing, GroupAlive
    <2> QED
        BY <2>1, <2>2 DEF Holding, Holds
<1> QED
    BY <1>1, <1>2 DEF LockInv, MutualExclusion, LeaseInv, Holding

\* The lock is taken only when nobody holds it, and no Chrome starts with that.
LEMMA LockGranted ==
    ASSUME TypeOK, LockInv, Next, NEW t \in Session, Holds(t)', ~Holds(t)
    PROVE  Holding = {} /\ Browsing' = Browsing
<1>1. AcquireLock(t)
    BY OnlyAcquireGrows
<1>2. SUFFICES ASSUME \E s \in Session : Holds(s) PROVE FALSE
    BY <1>1 DEF AcquireLock, Holding, Browsing
<1>3. /\ go' = [go EXCEPT ![t] = "done"]
      /\ UNCHANGED <<node, chrome>>
    BY <1>1, <1>2 DEF AcquireLock, Goto
<1> QED
    BY <1>3 DEF Holds, TypeOK, GoLocked, CleanStep, ResetStep, BrowsersOf

\* A Chrome starts only when no other runs.
LEMMA BrowserStarts ==
    ASSUME TypeOK, LockInv, BrowserInv, Next, NEW b \in Browsing', b \notin Browsing
    PROVE  Browsing = {} /\ Browsing' = {b}
<1>1. b \in Browser /\ chrome'[b] \in Executing /\ chrome[b] \notin Executing
    BY DEF Browsing
<1>2. PICK s \in Session : SpawnChrome(s) /\ b = Current(s)
    <2>1. ASSUME NEW s \in Session, GoStep(s) PROVE FALSE
        BY <1>1, <2>1, GoFrame
    <2>2. ASSUME NEW s \in Session, NodeStep(s) PROVE SpawnChrome(s) /\ b = Current(s)
        BY <1>1, <2>2, NodeFrame
    <2>3. ASSUME NEW c \in Browser, ChromeStep(c) PROVE FALSE
        BY <1>1, <2>3, ChromeFrame
    <2>4. ASSUME Crash PROVE FALSE
        BY <1>1, <2>4, CrashFrame DEF Executing
    <2> QED
        BY <2>1, <2>2, <2>3, <2>4 DEF Next, Crash
<1> QED
    BY <1>1, <1>2, SpawnsAlone, LiveIsAlive DEF Browsing

LEMMA LeaseStep ==
    ASSUME TypeOK, LockInv, BrowserInv, LeaseInv, LeaseInv', Next
    PROVE  [Lease!Next]_(Lease!vars)
<1> USE DEF LeaseInv, Lease!Next, Lease!vars, Holding, Browsing
<1>1. CASE Holding' = Holding
    <2>1. CASE \E b \in Browsing' : b \notin Browsing
        <3>1. PICK b \in Browsing' : b \notin Browsing
            BY <2>1
        <3>2. Browsing = {} /\ Browsing' = {b}
            BY <3>1, BrowserStarts
        <3>3. b \in Browser /\ Holding = {b[1]}
            BY <1>1, <3>1, <3>2
        <3>4. Lease!StartBrowser(b)
            BY <1>1, <3>2, <3>3 DEF Lease!StartBrowser
        <3> QED
            BY <3>3, <3>4
    <2>2. CASE Browsing' \subseteq Browsing
        <3>1. CASE Browsing' = Browsing
            BY <1>1, <3>1
        <3>2. CASE Browsing' # Browsing
            <4>1. Browsing # {} /\ Browsing' = {}
                BY <2>2, <3>2
            <4> QED
                BY <1>1, <4>1 DEF Lease!StopBrowser
        <3> QED
            BY <3>1, <3>2
    <2> QED
        BY <2>1, <2>2
<1>2. CASE \E t \in Holding' : t \notin Holding
    <2>1. PICK t \in Session : Holds(t)' /\ ~Holds(t)
        BY <1>2
    <2>2. Holding = {} /\ Browsing' = Browsing /\ Holding' = {t}
        BY <2>1, LockGranted
    <2>3. Lease!Grant(t)
        BY <2>2 DEF Lease!Grant
    <2> QED
        BY <2>3
<1>3. CASE Holding' # Holding /\ Holding' \subseteq Holding
    <2>1. Holding # {} /\ Holding' = {} /\ Browsing' = {}
        BY <1>3
    <2> QED
        BY <2>1 DEF Lease!Return
<1> QED
    BY <1>1, <1>2, <1>3

\* The profile implements the lease: the lock passes from one session to the
\* next only through a state in which nobody holds it and no Chrome runs, only
\* its holder starts a Chrome, and only when no other runs.
THEOREM Refinement == Spec => LeaseSpec
<1>1. Init => Lease!Init
    BY DEF Init, Lease!Init, Holds, GoLocked, CleanStep, ResetStep, NodeAlive,
           GroupAlive, Executing, BrowsersOf, Browser
<1>2. TypeOK /\ LockInv /\ BrowserInv /\ LeaseInv /\ LeaseInv' /\ [Next]_vars
        => [Lease!Next]_(Lease!vars)
    <2>1. ASSUME UNCHANGED vars PROVE UNCHANGED Lease!vars
        BY <2>1 DEF vars, Lease!vars, Holds
    <2> QED
        BY <2>1, LeaseStep
<1> QED
    BY <1>1, <1>2, LeaseHolds, LockAlways, BrowserAlways, PTL
    DEF Spec, LeaseSpec, Lease!Spec

-----------------------------------------------------------------------------

\* The invariant as a whole: what each stage of a session knows about the files
\* and the processes is true whatever the other sessions, Chrome and crashes do.
THEOREM Induction == Spec => []InductiveInv
<1>1. TypeOK /\ LockInv /\ BrowserInv /\ Entries
        /\ GoInv /\ BackedByJournal /\ OwnerBoundToJournal
        /\ (Faults = {} => RecoveryInv)
      => InductiveInv
    BY GoInvMeaning DEF InductiveInv, RecordInv, EntryInv, Entries
<1>2. CASE Faults = {}
    BY <1>1, <1>2, LockAlways, BrowserAlways, EntriesAlways, RecordsAlways,
       RecoveryAlways, PTL
<1>3. CASE ~(Faults = {})
    BY <1>1, <1>3, LockAlways, BrowserAlways, EntriesAlways, RecordsAlways, PTL
<1> QED
    BY <1>2, <1>3

-----------------------------------------------------------------------------
(* Nobody goes back *)

\* How many steps the Go process of a session has left at most.
GoLeft(g) ==
    CASE g = "idle" -> 18
      [] g \in {"create", "load"} -> 17
      [] g = "lock" -> 16
      [] g = "inspect" -> 15
      [] g = "cleanSocket" -> 14
      [] g = "cleanCookie" -> 13
      [] g = "cleanLock" -> 12
      [] g = "cleanOwner" -> 11
      [] g = "cleanJournal" -> 10
      [] g = "cleanBoundary" -> 9
      [] g = "reset" -> 8
      [] g = "resetOwner" -> 7
      [] g = "resetJournal" -> 6
      [] g = "resetBoundary" -> 5
      [] g = "publish" -> 4
      [] g = "start" -> 3
      [] g = "run" -> 2
      [] g = "stop" -> 1
      [] OTHER -> 0

\* The same of one Chrome start of Node, of a shutdown, and of a Chrome group.
StartLeft(n) ==
    CASE n = "prepare" -> 9
      [] n = "spawn" -> 8
      [] n = "attach" -> 7
      [] n = "owner" -> 6
      [] n \in {"held", "capture"} -> 5
      [] n = "close" -> 4
      [] n = "term" -> 3
      [] n = "reaped" -> 2
      [] n = "closed" -> 1
      [] OTHER -> 0

StopLeft(p) == CASE p = "no" -> 2 [] p = "term" -> 1 [] OTHER -> 0

ChromeLeft(c) ==
    CASE c = "none" -> 6
      [] c = "starting" -> 5
      [] c = "running" -> 4
      [] c = "exiting" -> 3
      [] c = "exited" -> 2
      [] c = "killed" -> 1
      [] OTHER -> 0

NodeLife(n) == CASE n = "none" -> 2 [] n \in NodeAlive -> 1 [] OTHER -> 0

GoOn(s) == GoLeft(go'[s]) < GoLeft(go[s])

\* Node goes on within a Chrome start, to the next one, to the next capture
\* attempt, or to its end.
NodeOn(s) ==
    \/ NodeLife(node'[s]) < NodeLife(node[s])
    \/ /\ node[s] \in NodeAlive /\ node'[s] \in NodeAlive
       /\ \/ round[s] < round'[s]
          \/ /\ round'[s] = round[s]
             /\ \/ try[s] < try'[s]
                \/ /\ try'[s] = try[s]
                   /\ \/ StartLeft(node'[s]) < StartLeft(node[s])
                      \/ node'[s] = node[s] /\ StopLeft(stop'[s]) < StopLeft(stop[s])

NodeStays(s) == node'[s] = node[s] /\ round'[s] = round[s] /\ try'[s] = try[s] /\ stop'[s] = stop[s]

\* What a step may do to one session: nothing, or take its processes on.
Onward(s) ==
    /\ go'[s] = go[s] \/ GoOn(s)
    /\ NodeStays(s) \/ NodeOn(s)
    /\ \A b \in BrowsersOf(s) :
          chrome'[b] = chrome[b] \/ ChromeLeft(chrome'[b]) < ChromeLeft(chrome[b])

GoesOn(s) ==
    /\ Onward(s)
    /\ GoStep(s) => GoOn(s) \/ NodeOn(s)
    /\ NodeStep(s) => NodeOn(s)

\* No process of a session ever goes back, and no Chrome group is started
\* twice: the retries of launchChromeBrowser within those of main, the shutdown
\* beside them and all crashes leave finitely many steps of Go and Node, the
\* same whatever the other sessions and Chrome do.
SessionsGoOn == [][\A s \in Session : GoesOn(s)]_vars

\* Chrome starts that are still ahead have no group yet.
Ahead(s, r, t) ==
    \/ round[s] < r
    \/ round[s] = r /\ try[s] < t
    \/ round[s] = r /\ try[s] = t /\ node[s] \in {"none", "prepare", "spawn"}

Fresh(s) ==
    node[s] \in NodeAlive \cup {"none"} =>
        \A r \in 1..MaxRound, t \in 1..MaxTry : Ahead(s, r, t) => chrome[<<s, r, t>>] = "none"

\* A Node that is not there has no attempts, and only a deadline stops one.
Reset(s) ==
    /\ node[s] \notin NodeAlive => round[s] = 1 /\ try[s] = 1
    /\ stop[s] # "no" => go[s] \in {"stop", "done"}

GoingOn == \A s \in Session : Fresh(s) /\ Reset(s)

\* What the ranks are.
LEMMA GoLefts ==
    /\ GoLeft("idle") = 18 /\ GoLeft("create") = 17 /\ GoLeft("load") = 17
    /\ GoLeft("lock") = 16 /\ GoLeft("inspect") = 15 /\ GoLeft("cleanSocket") = 14
    /\ GoLeft("cleanCookie") = 13 /\ GoLeft("cleanLock") = 12 /\ GoLeft("cleanOwner") = 11
    /\ GoLeft("cleanJournal") = 10 /\ GoLeft("cleanBoundary") = 9 /\ GoLeft("reset") = 8
    /\ GoLeft("resetOwner") = 7 /\ GoLeft("resetJournal") = 6 /\ GoLeft("resetBoundary") = 5
    /\ GoLeft("publish") = 4 /\ GoLeft("start") = 3 /\ GoLeft("run") = 2
    /\ GoLeft("stop") = 1 /\ GoLeft("done") = 0
    /\ \A g \in GoActive : GoLeft(g) > 0
BY DEF GoLeft, GoActive, GoLocked, CleanStep, ResetStep

LEMMA NodeLefts ==
    /\ StartLeft("prepare") = 9 /\ StartLeft("spawn") = 8 /\ StartLeft("attach") = 7
    /\ StartLeft("owner") = 6 /\ StartLeft("held") = 5 /\ StartLeft("capture") = 5
    /\ StartLeft("close") = 4 /\ StartLeft("term") = 3 /\ StartLeft("reaped") = 2
    /\ StartLeft("closed") = 1
    /\ StopLeft("no") = 2 /\ StopLeft("term") = 1 /\ StopLeft("kill") = 0
    /\ NodeLife("none") = 2 /\ NodeLife("exited") = 0 /\ NodeLife("gone") = 0
    /\ \A n \in NodeAlive : NodeLife(n) = 1
BY DEF StartLeft, StopLeft, NodeLife, NodeAlive

LEMMA ChromeLefts ==
    /\ ChromeLeft("none") = 6 /\ ChromeLeft("starting") = 5 /\ ChromeLeft("running") = 4
    /\ ChromeLeft("exiting") = 3 /\ ChromeLeft("exited") = 2 /\ ChromeLeft("killed") = 1
    /\ ChromeLeft("dead") = 0
BY DEF ChromeLeft

\* The steps of Go, each of which is a way on.
LEMMA GoGoesOn ==
    ASSUME TypeOK, LockInv, NEW s \in Session, Reset(s), GoStep(s)
    PROVE  /\ GoOn(s) \/ NodeOn(s)
           /\ go'[s] = go[s] \/ GoOn(s)
           /\ NodeStays(s) \/ NodeOn(s)
           /\ UNCHANGED chrome
           /\ Reset(s)'
           /\ NodeStays(s) \/ node'[s] = "gone" \/ go[s] = "start"
<1>a. UNCHANGED chrome
    BY GoFrame
<1> USE GoLefts DEF TypeOK, Goto, Release, GoOn, NodeStays, Reset
<1> DEFINE Through == GoOn(s) /\ UNCHANGED nodeVars /\ go[s] \notin {"stop", "done"}
<1>1. CASE MakeDirectory(s) \/ LoadMetadata(s) \/ PublishMetadata(s) \/ RollBackDirectory(s)
    <2>1. Through
        BY <1>1 DEF MakeDirectory, LoadMetadata, PublishMetadata, RollBackDirectory
    <2> QED
        BY <1>a, <2>1
<1>2. CASE AcquireLock(s) \/ InspectLocks(s) \/ CheckNoSingletons(s)
    <2>1. CASE AcquireLock(s)
        <3>1. Through
            BY <2>1 DEF AcquireLock
        <3> QED
            BY <1>a, <3>1
    <2>2. CASE InspectLocks(s) \/ CheckNoSingletons(s)
        <3>1. Through
            BY <2>2 DEF InspectLocks, CheckNoSingletons
        <3> QED
            BY <1>a, <3>1
    <2> QED
        BY <1>2, <2>1, <2>2
<1>3. CASE UnlinkSingleton(s) \/ UnlinkOwner(s) \/ UnlinkJournal(s) \/ UnlinkBoundary(s)
    <2>1. Through
        BY <1>3 DEF UnlinkSingleton, UnlinkOwner, UnlinkJournal, UnlinkBoundary, CleanupEntry, AfterStep
    <2> QED
        BY <1>a, <2>1
<1>4. CASE PublishJournal(s) \/ AcquireFails(s)
    <2>1. CASE PublishJournal(s)
        <3>1. Through
            BY <2>1 DEF PublishJournal
        <3> QED
            BY <1>a, <3>1
    <2>2. CASE AcquireFails(s)
        <3>1. Through
            BY <2>2 DEF AcquireFails, GoActive, GoLocked, CleanStep, ResetStep
        <3> QED
            BY <1>a, <3>1
    <2> QED
        BY <1>4, <2>1, <2>2
<1>5. CASE StartNode(s)
    <2>1. node[s] = "none" /\ stop[s] = "no"
        BY <1>5 DEF StartNode, LockInv, NothingStarted, Early, StopIsAlive, NodeAlive
    <2>2. node'[s] = "prepare" /\ UNCHANGED <<round, try, stop>> /\ go[s] = "start" /\ GoOn(s)
        BY <1>5 DEF StartNode
    <2>3. NodeOn(s)
        BY <2>1, <2>2, NodeLefts DEF NodeOn, NodeAlive
    <2> QED
        BY <1>a, <2>1, <2>2, <2>3 DEF NodeAlive
<1>6. CASE KillNode(s)
    <2>1. /\ node[s] \in NodeAlive /\ node'[s] = "gone" /\ UNCHANGED go
          /\ round'[s] = 1 /\ try'[s] = 1 /\ stop'[s] = "no"
        BY <1>6 DEF KillNode, NodeEnds
    <2>2. NodeOn(s)
        BY <2>1, NodeLefts DEF NodeOn
    <2> QED
        BY <1>a, <2>1, <2>2
<1>7. CASE FinishCapture(s)
    <2>1. GoOn(s) /\ UNCHANGED nodeVars /\ go'[s] = "done"
        BY <1>7 DEF FinishCapture
    <2> QED
        BY <1>a, <2>1
<1> QED
    BY <1>1, <1>2, <1>3, <1>4, <1>5, <1>6, <1>7 DEF GoStep

\* The steps of Node: to its end, on in a Chrome start, to another one, to
\* another capture attempt, or on with a shutdown.
NodeMoves(s) ==
    /\ node[s] \in NodeAlive
    /\ \/ /\ node'[s] = "exited"
          /\ round'[s] = 1 /\ try'[s] = 1 /\ stop'[s] = "no"
       \/ /\ node'[s] \in NodeAlive
          /\ round'[s] = round[s] /\ try'[s] = try[s] /\ stop'[s] = stop[s]
          /\ StartLeft(node'[s]) < StartLeft(node[s])
          /\ node'[s] = "spawn" => node[s] = "prepare" /\ UNCHANGED chrome
          /\ node'[s] # "prepare"
       \/ /\ node'[s] = "spawn"
          /\ round'[s] = round[s] /\ try'[s] = try[s] + 1 /\ stop'[s] = stop[s]
          /\ UNCHANGED chrome
       \/ /\ node'[s] = "prepare"
          /\ round'[s] = round[s] + 1 /\ try'[s] = 1 /\ stop'[s] = stop[s]
          /\ UNCHANGED chrome
       \/ /\ node'[s] = node[s]
          /\ round'[s] = round[s] /\ try'[s] = try[s]
          /\ stop[s] = "term" /\ stop'[s] = "kill"
          /\ chrome[Current(s)] = "none" => UNCHANGED chrome

LEMMA NodeStepMoves ==
    ASSUME TypeOK, LockInv, NEW s \in Session, NodeStep(s)
    PROVE  NodeMoves(s)
<1> USE NodeLefts DEF TypeOK, NodeGoto, NodeEnds, NodeMoves, NodeAlive
<1>1. CASE PrepareProfile(s)
    BY <1>1 DEF PrepareProfile
<1>2. CASE SpawnChrome(s)
    BY <1>2 DEF SpawnChrome
<1>3. CASE SpawnFails(s)
    BY <1>3 DEF SpawnFails
<1>4. CASE AttachBrowser(s)
    BY <1>4 DEF AttachBrowser
<1>5. CASE AttachFails(s)
    BY <1>5 DEF AttachFails
<1>6. CASE PublishOwner(s)
    BY <1>6 DEF PublishOwner
<1>7. CASE OwnerRefused(s)
    BY <1>7 DEF OwnerRefused
<1>8. CASE HoldBeforeOwner(s)
    BY <1>8 DEF HoldBeforeOwner
<1>9. CASE CaptureEnds(s)
    BY <1>9 DEF CaptureEnds
<1>10. CASE CloseBrowser(s)
    BY <1>10 DEF CloseBrowser
<1>11. CASE ReapBrowser(s)
    BY <1>11 DEF ReapBrowser
<1>12. CASE ReapFails(s)
    BY <1>12 DEF ReapFails
<1>13. CASE RemoveOwner(s)
    BY <1>13 DEF RemoveOwner
<1>14. CASE RetryStartup(s)
    BY <1>14 DEF RetryStartup
<1>15. CASE RetryCapture(s)
    BY <1>15 DEF RetryCapture
<1>16. CASE NodeExits(s)
    BY <1>16 DEF NodeExits
<1>17. CASE ShutdownTerm(s)
    <2>1. node[s] \in NodeAlive
        BY <1>17 DEF ShutdownTerm, LockInv, StopIsAlive
    <2>2. chrome[Current(s)] = "none" => UNCHANGED chrome
        BY <1>17 DEF ShutdownTerm, Terminated
    <2>3. /\ node'[s] = node[s] /\ round'[s] = round[s] /\ try'[s] = try[s]
          /\ stop[s] = "term" /\ stop'[s] = "kill"
        BY <1>17 DEF ShutdownTerm
    <2> QED
        BY <2>1, <2>2, <2>3
<1>18. CASE ShutdownExit(s)
    BY <1>18 DEF ShutdownExit, LockInv, StopIsAlive
<1> QED
    BY <1>1, <1>2, <1>3, <1>4, <1>5, <1>6, <1>7, <1>8, <1>9, <1>10, <1>11,
       <1>12, <1>13, <1>14, <1>15, <1>16, <1>17, <1>18 DEF NodeStep

\* A group is started where there was none, and only ends after that.
LEMMA NodeStepChrome ==
    ASSUME TypeOK, NEW s \in Session, Fresh(s), NodeStep(s), NEW b \in Browser
    PROVE  chrome'[b] = chrome[b] \/ ChromeLeft(chrome'[b]) < ChromeLeft(chrome[b])
<1>1. CASE b # Current(s)
    BY <1>1, NodeFrame
<1>2. CASE b = Current(s)
    <2>a. chrome \in [Browser -> ChromeState] /\ "none" \in ChromeState
        BY DEF TypeOK, ChromeState
    <2> USE ChromeLefts DEF GroupAlive, Executing
    <2>1. CASE SpawnChrome(s)
        <3>1. node[s] = "spawn" /\ round[s] \in 1..MaxRound /\ try[s] \in 1..MaxTry
            BY <2>1 DEF SpawnChrome, TypeOK
        <3>2. chrome[<<s, round[s], try[s]>>] = "none"
            BY <3>1 DEF Fresh, Ahead, NodeAlive
        <3>3. chrome'[b] = "starting"
            BY <1>2, <2>1, <2>a DEF SpawnChrome
        <3> QED
            BY <1>2, <3>2, <3>3 DEF Current
    <2>2. CASE CloseBrowser(s) \/ ShutdownTerm(s)
        BY <1>2, <2>2, <2>a DEF CloseBrowser, ShutdownTerm, Terminated
    <2>3. CASE ReapBrowser(s) \/ ReapFails(s)
        BY <1>2, <2>3, <2>a DEF ReapBrowser, ReapFails
    <2>4. CASE ShutdownExit(s)
        BY <1>2, <2>4, <2>a DEF ShutdownExit
    <2>5. CASE UNCHANGED chrome
        BY <2>5
    <2> QED
        BY <2>1, <2>2, <2>3, <2>4, <2>5
        DEF NodeStep, PrepareProfile, SpawnFails, AttachBrowser, AttachFails, PublishOwner,
            OwnerRefused, HoldBeforeOwner, CaptureEnds, RemoveOwner, RetryStartup, RetryCapture,
            NodeExits
<1> QED
    BY <1>1, <1>2

\* So every step of Node takes it on.
LEMMA NodeGoesOn ==
    ASSUME TypeOK, LockInv, NEW s \in Session, NodeStep(s)
    PROVE  NodeOn(s)
<1>1. NodeMoves(s)
    BY NodeStepMoves
<1>2. round[s] \in Nat /\ try[s] \in Nat
    BY DEF TypeOK
<1> QED
    BY <1>1, <1>2, NodeLefts DEF NodeMoves, NodeOn, NodeAlive

\* What is ahead of a session stays without a group.
LEMMA NodeKeepsFresh ==
    ASSUME TypeOK, LockInv, NEW s \in Session, Fresh(s), Reset(s), NodeStep(s)
    PROVE  Fresh(s)' /\ Reset(s)'
<1>1. NodeMoves(s) /\ UNCHANGED go
    BY NodeStepMoves, NodeFrame
<1>2. Reset(s)'
    BY <1>1 DEF NodeMoves, Reset, NodeAlive
<1>3. ASSUME NEW r \in 1..MaxRound, NEW t \in 1..MaxTry, node'[s] \in NodeAlive,
             Ahead(s, r, t)'
      PROVE  chrome'[<<s, r, t>>] = "none"
    <2>0. round[s] \in Nat /\ try[s] \in Nat /\ r \in Nat /\ t \in Nat /\ <<s, r, t>> \in Browser
        BY DEF TypeOK, Browser
    <2>1. Ahead(s, r, t)
        BY <1>1, <1>3, <2>0, NodeLefts DEF NodeMoves, NodeAlive, Ahead
    <2>2. chrome[<<s, r, t>>] = "none"
        BY <1>1, <2>1 DEF Fresh, NodeMoves
    <2>3. CASE <<s, r, t>> # Current(s)
        BY <2>0, <2>2, <2>3, NodeFrame
    <2>4. CASE <<s, r, t>> = Current(s)
        <3>1. r = round[s] /\ t = try[s]
            BY <2>4 DEF Current
        <3>2. node'[s] \in {"prepare", "spawn"} \/ round'[s] # round[s] \/ try'[s] # try[s]
            BY <1>3, <2>0, <3>1 DEF Ahead, NodeAlive
        <3>3. UNCHANGED chrome
            BY <1>1, <1>3, <2>0, <2>2, <2>4, <3>2 DEF NodeMoves, NodeAlive
        <3> QED
            BY <2>2, <3>3
    <2> QED
        BY <2>3, <2>4
<1>4. node'[s] # "none"
    BY <1>1 DEF NodeMoves, NodeAlive
<1> QED
    BY <1>2, <1>3, <1>4 DEF Fresh

\* Chrome ends, step by step, and starts nothing.
LEMMA ChromeGoesOn ==
    ASSUME TypeOK, NEW b \in Browser, ChromeStep(b), NEW c \in Browser
    PROVE  /\ chrome'[c] = chrome[c] \/ ChromeLeft(chrome'[c]) < ChromeLeft(chrome[c])
           /\ chrome[c] = "none" => chrome'[c] = "none"
<1>1. CASE c # b
    BY <1>1, ChromeFrame
<1>2. CASE c = b
    <2> USE ChromeLefts DEF TypeOK, ChromeState, GroupAlive, Executing
    <2>1. CASE ChromeTakesLock(b)
        BY <1>2, <2>1 DEF ChromeTakesLock
    <2>2. CASE ChromePublishes(b)
        BY <1>2, <2>2 DEF ChromePublishes
    <2>3. CASE ChromeQuits(b)
        BY <1>2, <2>3 DEF ChromeQuits
    <2>4. CASE ChromeCleansUp(b)
        BY <1>2, <2>4 DEF ChromeCleansUp
    <2>5. CASE ChromeDies(b)
        BY <1>2, <2>5 DEF ChromeDies
    <2>6. CASE KilledGroupGoes(b)
        BY <1>2, <2>6 DEF KilledGroupGoes
    <2> QED
        BY <2>1, <2>2, <2>3, <2>4, <2>5, <2>6 DEF ChromeStep
<1> QED
    BY <1>1, <1>2

\* A crash, or the deadline, takes a process on or ends it.
LEMMA CrashGoesOn ==
    ASSUME TypeOK, LockInv, Crash, NEW s \in Session, Reset(s)
    PROVE  /\ Onward(s)
           /\ Reset(s)'
           /\ \/ node'[s] = node[s] /\ round'[s] = round[s] /\ try'[s] = try[s]
              \/ node'[s] = "gone"
           /\ \A b \in Browser : chrome[b] = "none" => chrome'[b] = "none"
<1>1. /\ \A b \in Browser : \/ chrome'[b] = chrome[b]
                            \/ chrome[b] \in GroupAlive /\ chrome'[b] = "dead"
      /\ BrowsersOf(s) \subseteq Browser
    BY CrashFrame, BrowserOfSession
<1>2. \A b \in Browser : chrome[b] \in GroupAlive => chrome[b] # "none" /\ ChromeLeft("dead") < ChromeLeft(chrome[b])
    BY ChromeLefts DEF GroupAlive, Executing
<1>3. stop[s] # "no" => node[s] \in NodeAlive
    BY DEF LockInv, StopIsAlive
<1> DEFINE Moved == /\ go'[s] = go[s] \/ GoOn(s)
                    /\ NodeStays(s) \/ NodeOn(s)
                    /\ Reset(s)'
                    /\ \/ node'[s] = node[s] /\ round'[s] = round[s] /\ try'[s] = try[s]
                       \/ node'[s] = "gone"
<1>4. Moved
    <2> USE GoLefts DEF TypeOK, Goto, Release, GoOn, NodeStays, Reset
    <2>1. ASSUME node[s] \in NodeAlive, node'[s] = "gone" PROVE NodeOn(s)
        BY <2>1, NodeLefts DEF NodeOn
    <2>2. ASSUME UNCHANGED <<go[s], node[s], round[s], try[s], stop[s]>> PROVE Moved
        BY <2>2
    <2>3. ASSUME NEW t \in Session, Deadline(t) PROVE Moved
        <3>1. CASE t # s
            BY <2>2, <2>3, <3>1 DEF Deadline
        <3>2. CASE t = s
            <4>1. /\ node[s] \in NodeAlive /\ go[s] = "run" /\ go'[s] = "stop"
                  /\ UNCHANGED <<node, round, try>> /\ stop[s] = "no"
                  /\ stop'[s] \in {"no", "term"}
                BY <2>3, <3>2 DEF Deadline
            <4>2. NodeStays(s) \/ NodeOn(s)
                BY <4>1, NodeLefts DEF NodeOn
            <4> QED
                BY <4>1, <4>2
        <3> QED
            BY <3>1, <3>2
    <2>4. ASSUME NEW t \in Session, ProviderDies(t) PROVE Moved
        <3>1. CASE t # s
            BY <2>2, <2>4, <3>1 DEF ProviderDies
        <3>2. CASE t = s
            BY <2>4, <3>2 DEF ProviderDies
        <3> QED
            BY <3>1, <3>2
    <2>5. ASSUME NEW t \in Session, NodeDies(t) PROVE Moved
        <3>1. CASE t # s
            BY <2>2, <2>5, <3>1 DEF NodeDies, NodeEnds
        <3>2. CASE t = s
            <4>1. /\ node[s] \in NodeAlive /\ node'[s] = "gone" /\ UNCHANGED go
                  /\ round'[s] = 1 /\ try'[s] = 1 /\ stop'[s] = "no"
                BY <2>5, <3>2 DEF NodeDies, NodeEnds
            <4> QED
                BY <2>1, <4>1
        <3> QED
            BY <3>1, <3>2
    <2>6. ASSUME NEW h \in Host, ContainerDies(h) PROVE Moved
        <3>1. CASE host[s] # h
            BY <2>2, <2>6, <3>1 DEF ContainerDies
        <3>2. CASE host[s] = h
            <4>1. /\ go'[s] = IF go[s] \in GoActive THEN "done" ELSE go[s]
                  /\ node'[s] = IF node[s] \in NodeAlive THEN "gone" ELSE node[s]
                  /\ round'[s] = 1 /\ try'[s] = 1 /\ stop'[s] = "no"
                BY <2>6, <3>2 DEF ContainerDies
            <4>2. CASE node[s] \in NodeAlive
                BY <2>1, <4>1, <4>2
            <4>3. CASE node[s] \notin NodeAlive
                BY <1>3, <4>1, <4>3
            <4> QED
                BY <4>2, <4>3
        <3> QED
            BY <3>1, <3>2
    <2> QED
        BY <2>3, <2>4, <2>5, <2>6 DEF Crash
<1> QED
    BY <1>1, <1>2, <1>4 DEF Onward

\* Nothing that leaves Node where it was, or ends it, starts a group ahead.
LEMMA FreshStays ==
    ASSUME TypeOK, NEW s \in Session, Fresh(s),
           \/ node'[s] = node[s] /\ round'[s] = round[s] /\ try'[s] = try[s]
           \/ node[s] = "none" /\ node'[s] = "prepare" /\ round'[s] = round[s] /\ try'[s] = try[s]
           \/ node'[s] \in {"gone", "exited"},
           \A b \in Browser : chrome[b] = "none" => chrome'[b] = "none"
    PROVE  Fresh(s)'
<1>1. \A r \in 1..MaxRound, t \in 1..MaxTry : <<s, r, t>> \in Browser
    BY DEF Browser
<1> QED
    BY <1>1 DEF Fresh, Ahead, NodeAlive

\* Every step of the system, for one session.
LEMMA NextGoesOn ==
    ASSUME TypeOK, LockInv, GoingOn, [Next]_vars, NEW s \in Session
    PROVE  /\ Onward(s)
           /\ GoStep(s) => GoOn(s) \/ NodeOn(s)
           /\ NodeStep(s) => NodeOn(s)
           /\ Fresh(s)' /\ Reset(s)'
<1>a. Fresh(s) /\ Reset(s) /\ BrowsersOf(s) \subseteq Browser
    BY BrowserOfSession DEF GoingOn
<1>b. /\ GoStep(s) => GoOn(s) \/ NodeOn(s)
      /\ NodeStep(s) => NodeOn(s)
    BY <1>a, GoGoesOn, NodeGoesOn
<1> DEFINE Good == Onward(s) /\ Fresh(s)' /\ Reset(s)'
<1>1. CASE GoStep(s)
    <2>1. UNCHANGED chrome /\ Reset(s)' /\ Onward(s)
        BY <1>a, <1>1, GoGoesOn DEF Onward
    <2>2. \/ node'[s] = node[s] /\ round'[s] = round[s] /\ try'[s] = try[s]
          \/ node[s] = "none" /\ node'[s] = "prepare" /\ round'[s] = round[s] /\ try'[s] = try[s]
          \/ node'[s] = "gone"
        <3>1. CASE UNCHANGED nodeVars
            BY <3>1
        <3>2. CASE StartNode(s)
            BY <3>2 DEF StartNode, LockInv, NothingStarted, Early, TypeOK
        <3>3. CASE KillNode(s)
            BY <3>3 DEF KillNode, NodeEnds, TypeOK
        <3> QED
            BY <1>1, <3>1, <3>2, <3>3, GoFrame
    <2> QED
        BY <1>a, <1>b, <2>1, <2>2, FreshStays
<1>2. CASE NodeStep(s)
    <2>1. go'[s] = go[s]
        BY <1>2, NodeFrame
    <2>2. \A b \in Browser : chrome'[b] = chrome[b] \/ ChromeLeft(chrome'[b]) < ChromeLeft(chrome[b])
        BY <1>a, <1>2, NodeStepChrome
    <2> QED
        BY <1>a, <1>b, <1>2, <2>1, <2>2, NodeKeepsFresh DEF Onward
<1>3. ASSUME UNCHANGED <<go[s], node[s], round[s], try[s], stop[s]>>,
             \A b \in BrowsersOf(s) : chrome'[b] = chrome[b]
      PROVE  Good
    <2>1. Reset(s)' /\ Onward(s)
        BY <1>a, <1>3 DEF Reset, Onward, NodeStays
    <2>2. Fresh(s)'
        BY <1>a, <1>3 DEF Fresh, Ahead, BrowsersOf
    <2> QED
        BY <2>1, <2>2
<1>4. ASSUME NEW t \in Session, t # s, GoStep(t) \/ NodeStep(t) PROVE Good
    <2>1. UNCHANGED <<go[s], node[s], round[s], try[s], stop[s]>>
        BY <1>4, GoFrame, NodeFrame
    <2>2. \A b \in BrowsersOf(s) : chrome'[b] = chrome[b]
        <3>1. \A b \in BrowsersOf(s) : b # Current(t) /\ b \in Browser
            BY <1>a, <1>4, CurrentIsBrowser, BrowserOfSession
        <3> QED
            BY <1>4, <3>1, GoFrame, NodeFrame
    <2> QED
        BY <1>3, <2>1, <2>2
<1>5. ASSUME NEW b \in Browser, ChromeStep(b) PROVE Good
    <2>1. UNCHANGED <<go, node, round, try, stop>>
        BY <1>5, ChromeFrame
    <2>2. \A c \in Browser : /\ chrome'[c] = chrome[c] \/ ChromeLeft(chrome'[c]) < ChromeLeft(chrome[c])
                             /\ chrome[c] = "none" => chrome'[c] = "none"
        BY <1>5, ChromeGoesOn
    <2>3. Fresh(s)'
        BY <1>a, <2>1, <2>2, FreshStays
    <2> QED
        BY <1>a, <2>1, <2>2, <2>3 DEF Onward, NodeStays, Reset
<1>6. CASE Crash
    <2>1. /\ Onward(s) /\ Reset(s)'
          /\ \/ node'[s] = node[s] /\ round'[s] = round[s] /\ try'[s] = try[s]
             \/ node'[s] = "gone"
          /\ \A b \in Browser : chrome[b] = "none" => chrome'[b] = "none"
        BY <1>a, <1>6, CrashGoesOn
    <2>2. Fresh(s)'
        BY <1>a, <2>1, FreshStays
    <2> QED
        BY <1>b, <2>1, <2>2
<1>7. CASE UNCHANGED vars
    <2>1. UNCHANGED <<go, node, round, try, stop, chrome>>
        BY <1>7 DEF vars
    <2>2. Good
        BY <1>3, <2>1
    <2> QED
        BY <1>b, <2>2
<1> QED
    BY <1>b, <1>1, <1>2, <1>4, <1>5, <1>6, <1>7 DEF Next, Crash

\* Whatever crashes, no process of a session goes back and no Chrome group is
\* started twice: the rounds of main and the tries of launchChromeBrowser are
\* all that is left of a session, and no other session gives it any.
THEOREM OnlyOnward == Spec => SessionsGoOn /\ []GoingOn
<1>1. Init => GoingOn
    <2> SUFFICES ASSUME Init, NEW s \in Session PROVE Fresh(s) /\ Reset(s)
        BY DEF GoingOn
    <2>1. /\ node[s] = "none" /\ round[s] = 1 /\ try[s] = 1 /\ stop[s] = "no"
          /\ chrome = [b \in Browser |-> "none"]
        BY DEF Init
    <2>2. \A r \in 1..MaxRound, t \in 1..MaxTry : <<s, r, t>> \in Browser
        BY DEF Browser
    <2> QED
        BY <2>1, <2>2 DEF Fresh, Reset
<1>2. TypeOK /\ LockInv /\ GoingOn /\ [Next]_vars => GoingOn'
    BY NextGoesOn DEF GoingOn
<1>3. TypeOK /\ LockInv /\ GoingOn /\ [Next]_vars => \A s \in Session : GoesOn(s)
    BY NextGoesOn DEF GoesOn
<1> QED
    BY <1>1, <1>2, <1>3, LockAlways, PTL DEF Spec, SessionsGoOn

=============================================================================
