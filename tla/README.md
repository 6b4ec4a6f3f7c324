# Verification of the product-capture provider

TLA+ modules, TLC runs and TLAPS proofs about `workflow-plugin-product-capture`:
a workflow step that sends a product page to a provider, and the provider, a Go
program that drives a native Chrome from a Node script on a profile that
survives from one capture to the next; the staging proof, which submits such a
task and checks what comes back; and the conformance runner, which runs the
provider in containers, crashes it on purpose and certifies what it saw.

## 1. The system

| component | state | operations | what is hard |
|---|---|---|---|
| **Managed profile**, Go side (`browser_profile_managed_linux.go`, `browser_profile_lock_unix.go`) | a directory: metadata (generation, scope), launch journal, owner record, conformance marker, Chrome's three `Singleton*` entries; the flock | acquire (mkdir, metadata, lock, inspect, clean up, journal), release | crashes between any two system calls; the flock outlives the Go process in Node and Chrome; PIDs are judged in a container's own PID space |
| **Chrome lifecycle**, Node side (`provider.go` 1736-2975) | the child, its group, the owner record | spawn under a supervisor, identify, attach, publish owner, close, terminate, remove owner, retry | three tries per capture, four captures per process, SIGTERM beside all of it |
| **Capture script** (`provider.go` 2977-3713) | page, deadline, attempt, standard output | navigate, continuation gate, canonical retry, wait for title, print | transient errors, navigation races, retry after output |
| **Provider process** (`provider.go` 1-1735) | child process, bounded stdout and stderr | envelope, validation, normalisation, DNS pinning, run, cleanup | deadline, output limits |
| **Process policies** (`browser_process_*.go`) | process groups | configure, terminate group | PID reuse, zombies, members that survive |
| **Workflow step** (`internal/plugin`) | task, stalls | dispatch, poll, validate proof, output | late answers, stalled tasks, timeouts |
| **Snapshot extraction** (`internal/snapshot`) | none (pure) | HTML to snapshot | text heuristics |
| **Staging proof** (`internal/stagingproof`, `cmd/product-capture-staging-proof`) | compute capacity, workload, task | wait for capacity, dispatch, poll, check | eventual capacity, polling |
| **Conformance runner** (`internal/conformance`) | containers, tunnel, fixtures, evidence | run matrix, collect, persistence checks | container lifecycle, late requests |
| **Release preparation** (`internal/releaseprep`) | files | rewrite manifest | none |
| **Build and release** (`.github`, `docker`, `schemas`, `contracts`, `cmd`) | none | thin entry points and data | none |

How they interact: the step dispatches a task to a compute host, which runs the
provider with an envelope; the provider acquires the profile, starts Node with a
copy of the lock descriptor, Node starts Chrome with another copy.  Go talks to
Node by environment, standard output and error, exit code and signals; Node to
Chrome by CDP and signals; all of them, over time and over containers, through
the profile directory.  The conformance runner and the staging proof are outer
harnesses that run the same provider in containers and on staging.

What makes each part correct:

* profile: one session at a time; one Chrome at a time; a crash at any step
  leaves a profile that a later session can open; no live Chrome loses its lock;
* Chrome lifecycle: no Chrome without a holder, no Chrome after Node's exit,
  no retry beside an unreaped Chrome;
* provider process: every invocation ends.
* capture script: one unmarked document at most, crashes retried, gates clicked
  only where the probe found no challenge, every run ends;
* process policies: success means that nothing runs, SIGKILL before giving up,
  no signal to another program;
* step and staging proof: what they report is coherent although its parts were
  read one after the other, a failure they report is final, a worker's preview
  owns none of the step's fields, and both end although the server may not
  answer;
* conformance runner: what its report says of the profile is true of the volume,
  no wake-up of a waiter is lost, a cleanup without an error leaves no container
  and nobody who could still create it, a pass is complete, there is never a
  second tunnel, and the run ends whatever hangs.

## 2. Modules

| module | models | form |
|---|---|---|
| `ManagedProfile` | one to several provider invocations (Go, Node, Chrome) in containers on one profile directory; crashes of every process | state machine, 40 actions |
| `ProfileLease` | what the profile promises: a lease, and who may run Chrome on it | abstract specification, implemented by `ManagedProfile`, which has the lock, and by `ConformanceRunner`, which keeps to it without the lock's help |
| `ManagedProfileInv` | the inductive invariant | operators |
| `ManagedProfileProofs` | proofs | TLAPS |
| `ProcessGroup` | a Linux process group: leader, members, zombies, a reused number | shared by the next two |
| `ChromeTermination` | two concurrent `terminateChromeChild` calls on one Chrome | state machine |
| `CommandTermination` | Go's `TerminateGroup` beside `exec.Cmd.Wait` | state machine |
| `ChromeTerminationProofs`, `CommandTerminationProofs` | proofs | TLAPS |
| `CaptureRun` | `main`/`captureMain` of the Node script on a live page, and what Go makes of its output | state machine |
| `CaptureRunProofs` | proofs | TLAPS |
| `ComputeServer` | external: agents, tasks with leases and stalls, receipts, artifacts, as the clients see them | shared by the next two |
| `CaptureStep` | one `Execute` of the workflow step with `waitForProductCapture` | client of the server |
| `StagingProof` | `run` of the staging proof, with its failure evidence and the diagnostic operation | client of the server |
| `ClientPromise` | what a client of the server promises: tasks asked for once and in turn, success only while its tasks are proven | abstract specification, implemented by both clients |
| `ComputeClients` | both clients and other people's tasks on one server | composition |
| `ComputeClientsProofs` | proofs | TLAPS |
| `ManagedContainer` | `docker run` commands, their containers, and the goroutine that runs one and cleans up after it | shared by the conformance modules |
| `Collector` | the endpoint's handlers, its waiters and the channel with one token between them | part of the next two |
| `ProfilePersistence` | the profile in a docker volume, the two injected crashes, their probes | extends the two above |
| `ConformanceRunner` | `Run` of the conformance command, from its listener to its exit code | state machine over the three above |
| `TunnelAttempt` | one attempt to start and stop cloudflared, native or in docker | extends `ManagedContainer` |
| `TunnelRun` | the attempts of a run, the check through the tunnel, and the deferred Stop | state machine |
| `ManagedContainerProofs`, `ConformanceProofs`, `TunnelProofs` | proofs | TLAPS |
| `MC...` | constants for TLC | |

### How state and actions correspond to the code

*ManagedProfile.*  The file variables are the directory entries of the profile;
`go`, `node`, `chrome` say which system call or await each process is at.  One
action is one system call with an effect others can see (`PublishMetadata`,
`AcquireLock`, `UnlinkSingleton`, `PublishJournal`, `PublishOwner`) or one
stretch of Node's event loop (`SpawnChrome`, `AttachBrowser`, `CloseBrowser`).
Reads whose result is used later keep it in `seen`.  The flock is not a
variable: `Holds` derives it from the processes that still have a copy of the
descriptor, as the kernel does.  Crashes are actions of their own
(`ProviderDies`, `NodeDies`, `ChromeDies`, `ContainerDies`), enabled at every
step.

*ChromeTermination, CommandTermination.*  An action is what runs between two
awaits (or two system calls in Go).  A poll that sees no change is a stuttering
step, so a grace period may end at any moment.  `blind` is a history variable:
who could not inspect the group before it sent a signal.

*CaptureRun.*  `pc` names the await that is next, `stage` the step of
`captureMain` it belongs to (the same helper runs in several).  A document is a
record of what the script can tell of it (`Page`); the page navigates, gains a
title or crashes between any two awaits, and every page operation may end in
success, a timeout, a destroyed context, or another error.  Awaits that change
nothing and swallow their errors are left out.  The text heuristics of
`collectAmazonPageSignals` are the attributes of the record.

*CaptureStep, StagingProof.*  `stepPc` and `pc` name the next request; a request
is one action, so the server may change anything between two of them.  A read
whose result is used later is kept (`seen`, `online`, `leased`, `executors`,
`listed`).  `stepLate` and `late` say that the context of the current wait is
done: from then on a request fails, and a select between the poll timer and the
context may take either.  A transient error is answered by a poll and the same
request and changes nothing, so it is a stuttering step, except where it costs
one of the evidence reads.  `output` maps each key of the step's output to who
wrote its value.  What the code compares by hashes (task binding, dependency
closure, artifact hash, schemas) is a refusal that may always happen, except the
three facts that the properties are about: the worker and the executor of a
receipt, and whether the stored artifact is what the receipt commits to.

*ManagedContainer.*  `cli` is the `docker run` command the runner waits for,
`box` the container the daemon keeps, `code` how its program ended; they come
apart, because a command may be told to act on a container that is not created
yet, and a command may end before its container.  `at` is the next docker
command, wait or select of the goroutine, `errs` what it has joined so far,
`ctx` the error of its context.  An action is one docker command, one arm of a
select, or one thing the daemon does by itself.  A step of the code that joins
errors adds to `errs`; which of them the caller looks at is up to the caller.

*Collector, ProfilePersistence, ConformanceRunner.*  A handler acts in two
critical sections (`Observe`, `Mark`), with the signal that follows each; the
seed's handler then waits to be released.  `waiter` is a goroutine that looks
at the records (`Check`) and sleeps on the channel (`Wake`, `Expire`).
`session` says whose records the volume holds and `cookie` whether the cookie is
on disk; a probe ends well only on what it was sent for.  `stage` is the step of
`Run`, which is the name of a container while it waits for that one; `collect` is
the step of `launchAndCollect`, where the observation, the end of the launch and
the context race.  `evidence` has one element for each claim of the report.

*TunnelAttempt, TunnelRun.*  `at` goes through `Start` (download, origin) and
`Stop` with the same container steps as above; a native tunnel has no container.
`stage` is the step of `Run` that holds the tunnel.

### Plan

1. `ManagedProfile` with its lease and proofs (done).
2. `ChromeTermination`, `CommandTermination` and proofs (done).
3. `CaptureRun` and proofs (done).
4. `ComputeServer`, `CaptureStep`, `StagingProof`, `ComputeClients` and proofs
   (done).
5. `ManagedContainer`, `Collector`, `ProfilePersistence`, `ConformanceRunner`,
   `TunnelAttempt`, `TunnelRun` and proofs (done).
6. The browser diagnostic of the provider: its probes and its report, beside the
   same launch and termination (open, see section 5).
7. Pure operators, checked against reference definitions: bounded buffers,
   redaction windows, workload bounds, canonical ASINs (open).
8. `ClientPromise`, implemented by both clients, and the lease of the profile as
   the conformance runner keeps to it, with proofs (done).
9. The half of liveness that is safety: nobody goes back (done for the profile, the
   capture script, the conformance runner and the tunnel, see section 4).

## 3. What the runs check

| run | question | bounds | distinct states |
|---|---|---|---|
| `profile_recovery` | what a crash at any step leaves behind can be cleaned up; no live Chrome loses its lock | 2 sessions and a profile of the earlier release, 2 containers, 1 PID each, 2 startup tries | 365 000 |
| `profile_sessions` | the lease implemented (one session, one Chrome, both of one holder, never handed over while a Chrome runs), records bound to each other, although terminations and directory syncs fail | 2 sessions, 1 container, 2 PIDs, 2 capture attempts | 871 000 |
| `profile_ends` | every invocation ends, a held conformance session included | 2 sessions (1 conformance), 2 tries | 100 000 |
| `chrome_termination` | two concurrent terminations: success means gone, failure comes after SIGKILL, others are spared, the group ends | leader and 2 members, failing inspections | 5 300 |
| `command_termination` | the same of Go's termination | leader and 4 members | 950 |
| `capture_run` | one unmarked document, crashes retried, challenges spared, the run ends | 8 kinds of page, the code's own 4 attempts, 3 navigations, 5 probes | 419 000 |
| `compute_clients` | what the step passes on and what the staging proof reports is coherent, verified and final; previews own nothing; both keep `ClientPromise`; both end | 1 client at a time on 2 agents, 2 executors of the retained worker, the code's own 3 evidence reads | 420 000 |
| `owner_blocks_recovery` | *violation*: a retry beside a Chrome group that was not reaped may leave a profile that every later acquisition refuses | | |
| `conformance_run` | evidence is true of the volume, cleaned up means gone, no wake-up is lost, a pass is earned and complete, sessions take turns on the profile, the run ends | 1 version container, 1 scenario, both browsers, all five persistence containers, 2 probes; docker fails for the first crash and for the volume; a deadline | 149 000 |
| `tunnel_attempts` | no attempt beside an earlier tunnel, a pass has stopped all of them, the run ends | the code's own 3 attempts, native, in docker or none; docker fails for the second | 202 000 |
| `node_dies` | *violation*: Node dies of an unhandled rejection and leaves its Chrome | | |
| `swallowed_cleanup` | *violation*: a failed cleanup is taken for the cancellation it is joined with, and the run passes beside a container | | |

Each violation run has an entry under `findings` in `PROJECT.json` with the line
of the document, comment or test it contradicts.  The type invariants of most
modules, `MutualExclusion`, `SingleBrowser` (both follow from the lease),
`LegacyCleanupOnSameHost`, `MissingProofTolerated` and the properties of the last
part of section 4 are in no run: they are proved.

**Why the bounds are enough.**  The profile's protocol relates a session to the
one before it, so two sessions (and an old profile) show every pair; two
containers are needed because PIDs are judged per container, one PID each makes
every new process a reuse of the last one's number, two PIDs allow two Chrome
groups in one container.  A second capture attempt is needed for a retry beside
an unreaped group, a second startup try for a retry inside `launchChromeBrowser`;
a third repeats the second.  Of a process group only "leader", "some member" and
"the number is someone else's" matter; two members allow one to outlive the
other.  `capture_run` uses the bounds of the code.  In `compute_clients` a second
agent allows another worker's receipt and a second matching agent, a second
executor an upgrade between two reads.  Its clients run one at a time
(`OneSpec`): the answers one of them reads depend on the task of the other only
through leases and the queue, which only the capacity check reads; and the server
acts only on the task that is being asked for, while it can still change an answer.
In `conformance_run` the three version containers, and the three scenarios, run one
after another through the same code and are forgotten, so one of each stands for
all; docker fails for the container with the longest path (`crash`) and for the
volume that all of them share.  `tunnel_attempts` lets docker fail for the middle
attempt, which has one before and one after it.  The proofs drop all these bounds:
they hold for any number of sessions, members, retries, scenarios and attempts, for
both clients and other people's tasks at once (`Spec`), whatever docker fails at.

**Fairness.**  `ManagedProfile!FairSpec`: Go's steps, Node's steps and the
deadline are weakly fair, per session.  Go's system calls return; Node's steps
include failures and time-outs, and where Node stops itself or hangs, Go's
deadline and `KillNode` follow.  Chrome has no fairness: it may ignore every
request.  `ChromeTermination!FairSpec`: the timers of a caller fire, a process
that got SIGKILL goes, Node's event loop reports the exit.  `CaptureRun!FairSpec`:
every await ends; an evaluation in the page has no time-out of its own, but Go
terminates Node five seconds after the deadline, which `ManagedProfile` models.
In these runs nothing assumes that the deadline passes: the loops end by their
own bounds.  `ComputeClients!FairSpec`: each client runs and each of its contexts
ends, as `context.WithTimeout` provides; nothing is asked of the server.
`ConformanceRunner!FairSpec` and `TunnelRun!FairSpec`: one weak fairness of the
union of what the process itself, docker's commands and (in the first) the
deadline do, so that somebody goes on while somebody can.  The programs in the
containers and those who make requests may do nothing for ever.  In `TunnelRun` no
deadline is needed; a process that got SIGKILL ends.

## 4. What is proved

All theorems hold for every value of the constants that the named assumptions
allow, and their proofs are checked by tlapm to the last leaf.

* **ManagedProfileProofs** (14 theorems).  `InductiveInv` is the strengthening:
  `LockInv` (mutual exclusion needs to know that a session that has not started
  Node has no process at all), `BrowserInv` (a live group is the one Node
  drives, which gives `SingleBrowser`), `RecordInv` and `EntryInv` (what a
  cleanup has read is still on disk, because only the holder writes),
  and, without faults, `RecoveryInv` (the records name the Chrome that made the
  lock).  Each is shown preserved under the ones before it, with frame lemmas for the
  actions that leave its variables alone.  From it follow the safety properties
  of the two profile runs, the action properties, and `Refinement`: the profile
  implements `ProfileLease`, whose steps say who may start a Chrome and that
  nobody takes the lease from a running one.  It needs that a running Chrome
  is of the session that holds the lock and that no process starts but by its
  parent, which is what `BrowserInv` and `LockInv` say together.
* **ChromeTerminationProofs, CommandTerminationProofs** (5 each).  The invariant
  says what each caller knows at each wait: after SIGKILL no member is live
  unless an inspection failed, and a number whose group is gone is never
  signalled.  `ChromeGone` covers the abort of a Chrome that was never identified,
  too: what it may leave has its SIGKILL pending.
* **CaptureRunProofs** (6).  `Control` ties an await to the steps it may belong
  to; `Written` says that after the write only the close follows, with no error
  that `main` retries; `Judged` says that marks about to be clicked are of a
  document without a challenge, or with a title.  `CrashIsRetried` needs no
  invariant beyond types: on a crashed page every await throws the crash or goes on
  to an await that does.
* **ComputeClientsProofs** (9).  `ServerKeeps` shows that a terminal status and
  a verified receipt are final; it needs that only settled tasks have verified
  receipts and that a leased task has a lessee (`ServerInv`).  `StepInv` and
  `RunInv` say what the next request relies on (`Gathered`), that an error is
  chosen before its evidence is read (`Decided`) and that the product's part is
  complete while the diagnostic runs (`Earlier`).  What was read stays true while
  the server moves (`StepStays`, `RunStays`), and each action adds only what it
  has just read.  `PromisesAreKept`: both clients implement `ClientPromise`.  Its
  one hypothesis, `Own`, is that the tasks of the clients are not among those other
  people submit, nor the step's among the proof's.  A step of the server advances one task of one client at most
  (`TaskAdvances`), and a client passes in the step in which it finds the last
  proof (`FindProof`), not when it prints.
* **ManagedContainerProofs** (lemmas).  `ContainerInv` says what the goroutine of a
  container relies on: before `docker run` has created the container there is
  nothing, and from the final removal on either that command has ended or an error
  says that it has not.  `CleanMeansGone` follows.  Both of the next modules cite it.
* **ConformanceProofs** (8).  The invariant is built in parts, each of which needs
  those before it.  `InOrder` says that containers run one after another, so that
  what a stage left behind is not touched again.  `Kills` (`CrashSound`,
  `SeedSound`) says what an injection had found when it killed its container.
  `Watched` says that waiters take turns; this is why one token is enough and the
  reason for `NoLostWakeup`, which the handlers alone do not give.  `Judged` ties
  evidence and verdict to the ends they were taken from.  `Sessions` adds whose
  records the volume holds: a container that was killed with its records there
  leaves them, and only `verify` closes them, which gives `EvidenceIsReal`.
  `SessionsTakeTurns`: whatever docker fails at, the runner never has two programs
  that may take the profile, so that what it finds out about a crash is not the
  lock's refusal.
* **TunnelProofs** (4).  `Swept` says what the steps of Stop leave of a tunnel that
  docker works for, `InTurn` that earlier attempts are over and later ones have not
  begun.

**Nobody goes back.**  The runs check liveness on small instances.  Of each of
these properties one half is an action property, and it is proved for every value
of the constants: the steps of the code's own processes go in one direction of a
well-founded order, and nothing beside them turns them back.

| theorem | order | what else it shows |
|---|---|---|
| `ManagedProfileProofs!OnlyOnward` | per session: Go's steps; Node's life, capture attempt, try, step of the try, step of the shutdown; the states of each Chrome group | no Chrome start is used twice: one that is ahead has no group yet (`Fresh`) |
| `CaptureRunProofs!CaptureOnlyForward` | lexicographic: attempt of `main`, phase, rounds of the inner loops, await | no retry of one loop gives rounds back to another |
| `ConformanceProofs!ConformanceOnlyForward` | position of `Run`, step of `launchAndCollect`; the step of each goroutine | every name given to `docker run` is used once |
| `TunnelProofs!TunnelStepsRunOut` | one number, at most 40 for each attempt and 20 more | the number bounds the steps that are left |

What remains for TLC is that somebody can take a step and, under fairness, does.
The two clients of the compute server poll until their contexts end, so they have
no such order; neither have the terminations, which are a straight line for each
caller.

The constants' assumptions are named: `ConformanceAssumption` and
`AttemptsAssumption` say that names are used once, `KindAssumption` which reports
carry a cookie.

Only model-checked: the liveness properties (`EveryCaptureEnds`,
`TerminationIsEffective`, `EveryRunEnds`, `StepEnds`, and `RunEnds` of the
composition of the clients, of the conformance runner and of the tunnel).  Liveness
under fairness and ENABLED are beyond the prover.  Every safety and action property
that a run expects to hold is proved.

## 5. Assumptions and what is not modelled

* The kernel keeps the files of a container that dies: no power loss, so a
  rename is as durable as the sync after it.
* A crash between `Mkdir` and the publication of the metadata leaves a directory
  that every later acquisition refuses; the code fails closed, the model has it.
* Two system calls without a sleep between them see the same process under one
  number.  Across a sleep numbers are reused freely.
* The supervisor shell dies only with its group or its container; killed alone
  it would release its copy of the flock earlier than Chrome's.
* Node's 25 ms exit poll is shorter than the 50 ms pause before a startup retry.
* Playwright's `close` does not fail with the text of a crashed target.  If it
  did, `main` would retry after the document was written (`OneDocument`).
* An error of `waitForTimeout` is left out, as are navigations that start before
  the script's first one.
* The interior of the attach (listener ownership, `/json/version`, CDP PID) is
  one step that succeeds or fails; it compares facts that do not change while the
  group lives.
* Snapshot extraction, envelope and workload validation, release preparation,
  signing and command-line handling are sequential functions of text.  The policies
  of other systems refuse managed profiles.
* The compute server is external.  It runs a task once, lists one receipt per
  task, never takes back a terminal status or a verdict, and may do everything
  else at any time, never answering included.  What the clients say of it that is
  not in this repository is exactly `ComputeServer`.
* One execution of the step is modelled.  A task ID from the configuration is
  refused by the server when it is used again; that is `StepSubmitFails`.
* The stderr that is shown is checked against the digest of the artifact list, not
  against the receipt's hash: `PreviewIsVerified` speaks of the receipt only.
* A Chrome that is aborted before its identity was captured counts as terminated
  once its leader is reaped (`provider.go:2609`); for it `ReturnedMeansGone` says that
  a member that lingers has been sent SIGKILL.
* *Containers.*  No container is created after its `docker run` command ended, a
  killed one included.  `Faulty` bounds the containers docker may fail for and
  those whose second grace period may be over with the command still there.  Store
  and signal of a handler are one action: nothing waits between them.
* *Endpoint.*  A request that is refused changes nothing.  Each page is asked for
  once.  Output of a program that cannot be decoded is a program that failed.
* *Ends.*  The context of a run is watched until the report is written, and
  everything freezes when the process ends.  A signal to the command acts like
  the cancellation that follows a server's failure.  The 59 seconds in which the
  end of a launch is awaited exceed the sum of the bounds of its cleanup, so they
  do not pass first.  Errors that a stage drops when it proceeds keep only the
  fact that a cleanup failed.
* *Tunnel.*  `ConformanceRunner` has an origin that comes or does not, and a
  tunnel that stops or does not; `TunnelRun` has the detail and, in turn, one
  action for all checks of the candidate.  A tunnel that prints its origin and
  dies is one that dies when it is up.  The container that reports cloudflared's
  version is part of `Fetch`.

### Where the code departs from its documents, without a run

* An owner record of version 2 authorizes a cleanup in another container
  (`browser_profile_managed_linux.go:683`); `LegacyCleanupOnSameHost` is proved
  for the records of the earlier release only.
* A task that is leased while the capacity is being listed is neither a lease nor
  queued in what the staging proof read, and the check passes (`proof.go:412-418`).
* A proof that exists and is not verified yet fails the step at once
  (`step.go:267`), while `MissingProofTolerated` covers one that does not exist.
* `Stop` is deferred inside `Start` (`browser.go:3194-3201`), its error is joined to
  the start's, the later `stopTunnel` (1157) does nothing, and
  `retryableTunnelStartError` (1065-1073) still matches: an attempt whose teardown
  failed is followed by another one, where
  `docs/plans/2026-07-10-native-chrome-session-design.md:530-532` stops.
  `RetryAfterTeardown` excepts `Faulty` for this reason.

### Not modelled

* *Browser diagnostic*: its launch, profile and termination are `ManagedProfile`'s
  and `ChromeTermination`'s.  Its probes run one after another in one process, add
  to a report that nothing else reads, and are sent once; the DNS retries are
  a loop with a deadline.
* *Buffers and redaction, envelope and workload validation, comparison of
  fingerprints, resolver rules*: functions of bytes and text whose results are
  verdicts that may fall either way here.  What they compute is a matter of their unit tests.
* *Snapshot extraction*: a pure function of a document; only its two refusals matter to
  the rest, and `CaptureRun` has them.
* *Release preparation, signing, command-line handling*: sequential, no state
  between two invocations.
* *Process policies of other systems*: the managed profile is refused there.
