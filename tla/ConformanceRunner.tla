--------------------------- MODULE ConformanceRunner ---------------------------
(***************************************************************************)
(* A run of the browser conformance command: it opens its endpoint, gets   *)
(* an origin for it, runs the candidate's containers one after another,    *)
(* collects what their browsers report, crashes a managed profile twice    *)
(* and writes a report.  Whatever fails on the way, it takes down what it  *)
(* has started and says so with its exit code.                             *)
(*                                                                         *)
(* How a tunnel to the endpoint is got and stopped is in TunnelRun; here   *)
(* both work or do not.                                                    *)
(***************************************************************************)
EXTENDS ProfilePersistence, Sequences

CONSTANTS
    Versions,   \* the containers that are asked for their versions
    Scenarios,  \* the lifecycle scenarios
    Causes      \* how its context may end

VARIABLES
    stage,      \* the step of Run: a container it waits for, or a name
    collect,    \* the step of launchAndCollect
    evidence,   \* what is said of the profile
    volume,     \* the volume of the profile
    report,     \* the verdict written
    serving,    \* the HTTP server
    failed      \* Run returns an error

Browsed == <<"direct", "attached">>
Persisted == <<"init", "crash", "boundary", "seed", "verify">>
Order == Versions \o Scenarios \o Browsed \o Persisted

SetOf(s) == {s[i] : i \in DOMAIN s}
VolumeUser == SetOf(Persisted) \cup {"probe", "cookie"}
Job == SetOf(Order) \cup VolumeUser

Between == {"listen", "origin", "volume", "posted", "unvolume",
            "report", "teardown", "shutdown", "ended"}

\* docker run is given a new name each time.
ASSUME ConformanceAssumption ==
    /\ Container = Job
    /\ Kept = Session
    /\ Probing = SetOf(Versions) \cup {"probe", "boundary", "cookie", "verify"}
    /\ Kind = SetOf(Browsed) \cup {"seed", "verify"}
    /\ Cookied = {"seed", "verify"}
    /\ Seed = "seed"
    /\ Versions \in Seq(Job)
    /\ Scenarios \in Seq(Job)
    /\ Causes \subseteq {"canceled", "deadline"}
    /\ \A i, j \in DOMAIN Order : Order[i] = Order[j] => i = j
    /\ SetOf(Order) \cap ({"probe", "cookie", Run} \cup Between) = {}

runVars == <<stage, collect, evidence, volume, report, serving, failed>>
vars == <<containerVars, collectorVars, profileVars, runVars>>

Fact == {"startup", "crash", "recovered", "cookie"}

TypeOK ==
    /\ ContainerTypeOK
    /\ CollectorTypeOK
    /\ ProfileTypeOK
    /\ stage \in SetOf(Order) \cup Between
    /\ collect \in {"select", "seen", "lost", "await"}
    /\ evidence \in SUBSET Fact
    /\ volume \in {"none", "created", "removed"}
    /\ report \in {"none", "pass", "fail"}
    /\ serving \in {"up", "failed", "closed"}
    /\ failed \in BOOLEAN

Init ==
    /\ ContainerInit
    /\ CollectorInit
    /\ ProfileInit
    /\ stage = "listen"
    /\ collect = "select"
    /\ evidence = {}
    /\ volume = "none"
    /\ report = "none"
    /\ serving = "up"
    /\ failed = FALSE

Live == ctx[Run] = "live"

Passed == stage = "ended" /\ ~failed

-----------------------------------------------------------------------------
(* Steps of Run *)

StayOut == UNCHANGED <<navigated, observed, marked, handler, released,
                       token, waiter, profileVars, boxVars>>

To(next) == stage' = next /\ UNCHANGED at
Begin(c, step) == at' = [at EXCEPT ![c] = step]
Fail(next) == failed' = TRUE /\ To(next)

\* Of an error that nobody returns only this is worth remembering.
Forget(c) == errs' = [errs EXCEPT ![c] = @ \cap {"cleanup"}]

Place(c) == CHOOSE i \in DOMAIN Order : Order[i] = c

\* The next container, or what is between the two.
Proceed(c) ==
    /\ Forget(c)
    /\ UNCHANGED failed
    /\ CASE c = "attached" -> To("volume")
         [] c = "verify" -> To("posted")
         [] OTHER -> LET next == Order[Place(c) + 1]
                     IN stage' = next /\ Begin(next, "launch")

FailJob(c) == Fail(IF c \in VolumeUser THEN "unvolume" ELSE "teardown") /\ UNCHANGED errs

Listen ==
    /\ stage = "listen"
    /\ \/ To("origin") /\ UNCHANGED failed
       \/ Fail("ended")
    /\ UNCHANGED <<errs, ctx, collect, evidence, volume, report, serving>>

\* The origin is given, or a tunnel has one; its health is checked.
Origin ==
    /\ stage = "origin"
    /\ \/ stage' = Order[1] /\ Begin(Order[1], "launch") /\ UNCHANGED failed
       \/ Fail("shutdown")
    /\ UNCHANGED <<errs, ctx, collect, evidence, volume, report, serving>>

Proves(c) == CASE c = "boundary" -> {"startup"}
               [] c = "seed" -> {"crash"}
               [] c = "verify" -> {"recovered"}
               [] OTHER -> {}

\* Mutant of JobReturns: the run goes on after an error.
JobReturnsAnyhow(c) ==
    /\ stage = c
    /\ c \notin SetOf(Browsed)
    /\ at[c] = "done"
    /\ evidence' = evidence \cup Proves(c)
    /\ Proceed(c)
    /\ UNCHANGED <<ctx, collect, volume, report, serving>>

\* A container that Run waits for; what "verify" printed must say that it has
\* posted, which it has if the endpoint answered it.
JobReturns(c) ==
    /\ stage = c
    /\ c \notin SetOf(Browsed)
    /\ at[c] = "done"
    /\ evidence' = IF errs[c] = {} THEN evidence \cup Proves(c) ELSE evidence
    /\ \/ errs[c] = {} /\ (c = "verify" => handler[c] = "answered") /\ Proceed(c)
       \/ (errs[c] # {} \/ c = "verify") /\ FailJob(c)
    /\ UNCHANGED <<ctx, collect, volume, report, serving>>

-----------------------------------------------------------------------------
(* launchAndCollect and waitForLaunchCleanup *)

\* What comes first: the report, the end of the launch, or the context.
Select(c) ==
    /\ stage = c
    /\ collect = "select"
    /\ UNCHANGED <<evidence, volume, report, serving>>
    /\ \/ /\ \/ waiter[c] = "seen" /\ collect' = "seen"
             \/ (waiter[c] = "failed" \/ ~Live) /\ collect' = "lost"
          /\ CancelContext(c)
          /\ UNCHANGED <<stage, at, errs, failed>>
       \/ /\ at[c] = "done"
          /\ errs[c] = {}
          /\ collect' = "await"
          /\ UNCHANGED <<stage, at, errs, failed, ctx>>
       \/ /\ at[c] = "done"
          /\ errs[c] # {}
          /\ CancelContext(c)
          /\ FailJob(c)
          /\ UNCHANGED collect

\* The end of a launch that was canceled is waited for; an error that has the
\* cancellation in it is taken for the cancellation.
LaunchEnded(c) ==
    /\ stage = c
    /\ collect \in {"seen", "lost"}
    /\ at[c] = "done"
    /\ IF collect = "seen" /\ (errs[c] = {} \/ "canceled" \in errs[c])
       THEN Proceed(c)
       ELSE FailJob(c)
    /\ collect' = "select"
    /\ UNCHANGED <<ctx, evidence, volume, report, serving>>

\* The launch ended well before its report was seen.
AwaitReport(c) ==
    /\ stage = c
    /\ collect = "await"
    /\ \/ waiter[c] = "seen" /\ Proceed(c)
       \/ (waiter[c] = "failed" \/ ~Live) /\ FailJob(c)
    /\ CancelContext(c)
    /\ collect' = "select"
    /\ UNCHANGED <<evidence, volume, report, serving>>

-----------------------------------------------------------------------------
(* validateManagedProfilePersistence, the report, and the way out *)

CreateVolume ==
    /\ stage = "volume"
    /\ \/ /\ Live
          /\ stage' = "init"
          /\ Begin("init", "launch")
          /\ volume' = "created"
          /\ UNCHANGED failed
       \/ (~Live \/ DockerFails("volume")) /\ Fail("report") /\ UNCHANGED volume
    /\ UNCHANGED <<errs, ctx, collect, evidence, report, serving>>

Posted ==
    /\ stage = "posted"
    /\ \/ waiter["verify"] = "seen" /\ evidence' = evidence \cup {"cookie"} /\ UNCHANGED failed
       \/ waiter["verify"] = "failed" /\ failed' = TRUE /\ UNCHANGED evidence
    /\ To("unvolume")
    /\ UNCHANGED <<errs, ctx, collect, volume, report, serving>>

\* Mutant of RemoveVolume: its error is dropped.
RemoveVolumeQuietly ==
    /\ stage = "unvolume"
    /\ To("report")
    /\ volume' \in {"removed", IF DockerFails("volume") THEN volume ELSE "removed"}
    /\ UNCHANGED <<failed, errs, ctx, collect, evidence, report, serving>>

\* docker volume rm -f: an error while a container has the volume.
RemoveVolume ==
    /\ stage = "unvolume"
    /\ To("report")
    /\ \/ /\ \A c \in VolumeUser : ~Exists(c)
          /\ volume' = "removed"
          /\ UNCHANGED failed
       \/ /\ DockerFails("volume") \/ \E c \in VolumeUser : Exists(c)
          /\ failed' = TRUE
          /\ UNCHANGED volume
    /\ UNCHANGED <<errs, ctx, collect, evidence, report, serving>>

\* The report is written whether the profile failed or not; the comparison of
\* the two browsers may fail too, and so may the write.
WriteReport ==
    /\ stage = "report"
    /\ To("teardown")
    /\ report' \in {"none", IF ~failed /\ evidence = Fact THEN "pass" ELSE "fail", "fail"}
    /\ failed' = (report' # "pass")
    /\ UNCHANGED <<errs, ctx, collect, evidence, volume, serving>>

\* stopTunnel
TearDown ==
    /\ stage = "teardown"
    /\ To("shutdown")
    /\ failed' \in {failed, TRUE}
    /\ UNCHANGED <<errs, ctx, collect, evidence, volume, report, serving>>

\* Mutant of Shutdown: requests that were not answered do not count.
ShutdownUnwaited ==
    /\ stage = "shutdown"
    /\ To("ended")
    /\ failed' = (failed \/ serving # "up")
    /\ serving' = IF serving = "up" THEN "closed" ELSE serving
    /\ UNCHANGED <<errs, ctx, collect, evidence, volume, report>>

\* Shutdown has two seconds, and requests may take longer.
Shutdown ==
    /\ stage = "shutdown"
    /\ To("ended")
    /\ \/ ~Held /\ UNCHANGED failed
       \/ failed' = TRUE
    /\ failed' \/ serving = "up"
    /\ serving' = IF serving = "up" THEN "closed" ELSE serving
    /\ UNCHANGED <<errs, ctx, collect, evidence, volume, report>>

RunStep ==
    /\ \/ Listen    \/ Origin      \/ CreateVolume \/ Posted \/ RemoveVolume
       \/ TearDown  \/ WriteReport \/ Shutdown
       \/ \E c \in Job : JobReturns(c)
       \/ \E c \in SetOf(Browsed) : Select(c) \/ LaunchEnded(c) \/ AwaitReport(c)
    /\ StayOut

-----------------------------------------------------------------------------
(* What runs beside Run *)

First(c) ==
    CASE c \in SetOf(Scenarios) -> "ready"
      [] c = "crash" -> "boundary"
      [] c = "seed" -> "observe"
      [] OTHER -> "wait"

Signal(c) == IF c = "sigterm" THEN "term" ELSE "stop"

\* The goroutine, or the call, that runs a container.
JobStep(c) ==
    /\ \/ /\ \/ Launch(c, First(c))  \/ CommandReturns(c) \/ Canceled(c)
             \/ BecomesReady(c)      \/ DelayEnds(c, Signal(c)) \/ CleanUp(c)
          /\ UNCHANGED <<profileVars, collectorVars>>
       \/ CrashStep(c)
    /\ UNCHANGED <<runVars>>

\* Wait begins when launchAndCollect, the seed, or the end of "verify" calls it.
Asked(k) ==
    /\ waiter[k] = "idle"
    /\ CASE k = Seed -> at[Seed] = "observe"
         [] k = "verify" -> stage = "posted"
         [] OTHER -> stage = k
    /\ Waiting(k, "checking")
    /\ UNCHANGED token

Ctx(k) == IF k \in Cookied THEN ctx[Run] ELSE ctx[k]

Waiter(k) ==
    /\ Asked(k) \/ Check(k) \/ Wake(k) \/ (Ctx(k) # "live" /\ Expire(k))
    /\ UNCHANGED <<containerVars, profileVars, runVars>>

Handle(k) ==
    /\ Mark(k)
    /\ UNCHANGED <<containerVars, profileVars, runVars>>

Respond ==
    /\ Answer
    /\ UNCHANGED <<containerVars, profileVars, runVars>>

\* On its way out the run looks at its context no more, only at what Serve has
\* returned.
Leaving == {"report", "teardown", "shutdown"}

\* The endpoint goes down, and the run with it.
ServeFails ==
    /\ serving = "up"
    /\ Live \/ stage = "shutdown"
    /\ serving' = "failed"
    /\ EndRun("canceled")
    /\ UNCHANGED <<boxVars, jobVars, collectorVars, profileVars, stage,
                   collect, evidence, volume, report, failed>>

\* The timeout of the command, or a signal to it.
ContextEnds(cause) ==
    /\ Live
    /\ stage \notin Leaving
    /\ EndRun(cause)
    /\ UNCHANGED <<boxVars, jobVars, collectorVars, profileVars, runVars>>

Docker(c) ==
    /\ Daemon(c)
    /\ UNCHANGED <<profileVars, collectorVars, runVars>>

World ==
    \/ \E c \in Job : Docker(c)
    \/ /\ \/ \E c \in Job : Program(c) \/ TakeProfile(c)
          \/ Flush
          \/ serving = "up" /\ \E k \in Kind : Request(k, k)
          \/ Drop /\ UNCHANGED <<containerVars, profileVars>>
       /\ UNCHANGED runVars

\* The process ends with Run, and its goroutines with it.
Next ==
    /\ stage # "ended"
    /\ \/ RunStep
       \/ \E c \in Job : JobStep(c)
       \/ \E k \in Kind : Waiter(k)
       \/ \E k \in Cookied : Handle(k)
       \/ Respond
       \/ ServeFails
       \/ \E cause \in Causes : ContextEnds(cause)
       \/ World

Spec == Init /\ [][Next]_vars

\* Somebody goes on as long as somebody can: the goroutines of the process, its
\* deadline, and docker with its commands.  The programs in the containers, and
\* who makes requests, need not.
Scheduled ==
    /\ stage # "ended"
    /\ \/ RunStep
       \/ \E c \in Job : JobStep(c) \/ Docker(c)
       \/ \E k \in Kind : Waiter(k)
       \/ ContextEnds("deadline")

FairSpec == Spec /\ WF_vars(Scheduled)

-----------------------------------------------------------------------------
(* Properties *)

\* What the runner says of the profile is true of the volume: the first crash
\* left the records of a browser that was killed before it had an owner, the
\* second those of a browser with its cookie on disk, "verify" closed what it
\* had recovered from them, and its cookie came back to the endpoint.
EvidenceIsReal ==
    /\ "startup" \in evidence /\ at["seed"] \in {"idle", "launch"} => session = "crash"
    /\ "crash" \in evidence => cookie = "durable"
    /\ "crash" \in evidence /\ at["verify"] \in {"idle", "launch"} => session = "seed"
    /\ "recovered" \in evidence => session = "closed"
    /\ "cookie" \in evidence => {"seed", "verify"} \subseteq marked

\* A report that says "pass" was written after everything it stands for: both
\* browsers reported, the profile survived both crashes, and nothing is left
\* of the volume and of the containers that used it.
PassingReport ==
    report = "pass" =>
        /\ SetOf(Browsed) \subseteq observed
        /\ evidence = Fact
        /\ volume = "removed"
        /\ \A c \in VolumeUser : Gone(c)

\* A run passes only with such a report, when it has taken down every container
\* whose cleanup it waited for, and answered every request.
PassedIsComplete ==
    Passed =>
        /\ report = "pass"
        /\ serving = "closed"
        /\ ~Held
        /\ \A c \in Job \ SetOf(Browsed) : Gone(c)

\* The run ends, whatever hangs: every wait has its own end or the run's.
RunEnds == <>(stage = "ended")

\* Seen from outside: the program that has the profile, until its container
\* stops, and its browser once it has asked for its page.
Having == {c \in Session : session = c /\ box[c] = "running"}

Lease == INSTANCE ProfileLease WITH
            Browser <- {<<c>> : c \in Session},
            holders <- Having,
            browsing <- {<<c>> : c \in Having \cap navigated}

\* The runner never asks for a profile that somebody still has: what it finds
\* out about a crash is not the lock's refusal.  It keeps to the lease without
\* the help of the lock, whatever fails or times out between two sessions.
SessionsInTurn == Lease!Spec

\* A run that passed has left no container of the candidate behind.
PassedLeavesNothing == Passed => \A c \in Job : Gone(c)

=============================================================================
