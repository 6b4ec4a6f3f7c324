------------------------------ MODULE CaptureRun ------------------------------
(***************************************************************************)
(* One capture: captureHTMLWithPlaywright starts Node, whose main drives a *)
(* page through captureMain: navigate, look for an interstitial, pass a    *)
(* continuation gate, wait for the title, print the page, close Chrome.    *)
(*                                                                         *)
(* One action is what runs between two awaits of the script.  The page is  *)
(* live: at any moment a navigation may replace its document, a title may  *)
(* appear in it, or its target may crash; so two reads of one function may *)
(* see two documents.  An await that changes nothing and whose errors are  *)
(* swallowed (a load wait, the optional wait, a back-off) is left out.     *)
(* Chrome's launch and termination are ManagedProfile's.                   *)
(***************************************************************************)
EXTENDS Integers, Sequences

CONSTANTS
    Pages,          \* the documents a navigation may load
    Warmup,         \* PRODUCT_CAPTURE_BROWSER_WARMUP_URL is set
    CrashAttempts,  \* maxBrowserCrashAttempts: 4
    GotoTries,      \* navigations per gotoWithTransientRetry: 3
    CheckTries      \* maxAttempts of hasAmazonInterstitial: 5

(* What the script can tell of a document: where it is, the title          *)
(* productTitleReady finds (in the DOM or in metadata), a captcha form, a  *)
(* captcha challenge, the text of a continuation gate, and a continuation  *)
(* control, in the captcha form if there is one.                           *)
Page == [at : {"home", "other"}, title : {"none", "metadata", "dom"},
         form : BOOLEAN, challenge : BOOLEAN, gate : BOOLEAN, control : BOOLEAN]

Blank == [at |-> "blank", title |-> "none", form |-> FALSE, challenge |-> FALSE,
          gate |-> FALSE, control |-> FALSE]

ASSUME PagesAssumption == Pages \subseteq Page
ASSUME WarmupAssumption == Warmup \in BOOLEAN
ASSUME BoundsAssumption ==
    /\ CrashAttempts \in Nat \ {0}
    /\ GotoTries \in Nat \ {0}
    /\ CheckTries \in Nat \ {0}

VARIABLES
    browser,    \* "none", "open", or "stuck" after a failed close
    crashed,    \* the page's target has crashed
    doc,        \* the page's document
    marked,     \* it bears the script's continuation markers
    late,       \* the deadline has passed
    attempt,    \* main's browser attempts before this one
    pc, stage,  \* the next await, and the step of captureMain it is part of
    tries,      \* rounds of the current retry loop before this one
    form,       \* captchaForm, as probeAmazonInterstitial read it
    control,    \* signals.continuationCandidates > 0, as the gate read it
    nav,        \* navigateFromCurrentDocument's waitForNavigation is pending
    err,        \* what captureMain is about to throw
    out,        \* the documents on standard output
    overflow,   \* limitedBuffer refused a write
    result      \* "none", then what runWorkload makes of the run

pageVars == <<browser, crashed, doc, marked>>
readVars == <<form, control, nav>>
outVars == <<out, overflow>>
vars == <<pageVars, late, attempt, pc, stage, tries, readVars, err, outVars, result>>

Check == {"check1", "check2", "check3", "check4"}
Gate == {"gate1", "gate2"}
Steps == {"warmup", "target", "canonical"} \cup Check \cup Gate
             \cup {"home", "wait", "require"}

GotoAt == {"goto", "gotoTitle", "gotoWait"}
CheckAt == {"count", "signals", "title", "lastTitle"}
GateAt == {"gateDom", "gateSignals", "gateCount", "gateClick", "gateLoad"}
PageAt == GotoAt \cup CheckAt \cup GateAt
             \cup {"prepare", "assign", "navWait", "navLoad", "home", "wait",
                   "require", "diagCount", "diagSignals", "clear", "content"}
Exited == {"succeeded", "failed", "died"}

Errors == {"crash", "transient", "other"}
Thrown == Errors \cup {"review", "notitle"}

Init ==
    /\ browser = "none" /\ crashed = FALSE
    /\ doc = Blank /\ marked = FALSE
    /\ late = FALSE
    /\ attempt = 0
    /\ pc = "launch" /\ stage = "warmup" /\ tries = 0
    /\ form = FALSE /\ control = FALSE /\ nav = FALSE
    /\ err = "none"
    /\ out = <<>> /\ overflow = FALSE
    /\ result = "none"

-----------------------------------------------------------------------------
(* Awaits *)

\* How a page operation may end.  isTransientNavigationError holds of a
\* timeout and of a destroyed execution context, isTimeoutError of the first.
Outcome == IF crashed THEN {"crash"} ELSE {"ok", "timeout", "destroyed", "other"}

Transient(o) == o \in {"timeout", "destroyed"}

HasTitle(d) == d.title # "none"

\* productTitleReady(...).catch(() => false)
TitleSeen == ~crashed /\ HasTitle(doc)

\* The first await of a step of captureMain.
Entry(s) ==
    CASE s \in {"warmup", "target", "canonical"} -> "goto"
      [] s \in Check -> "count"
      [] s \in Gate -> "gateDom"
      [] OTHER -> s

Begin(s) == stage' = s /\ pc' = Entry(s) /\ tries' = 0

Await(p) == pc' = p /\ UNCHANGED <<stage, tries>>

Throw(e) == err' = e /\ pc' = "close" /\ UNCHANGED <<stage, tries>>

Class(o) == IF Transient(o) THEN "transient" ELSE o

\* collectAmazonPageSignals marks the document's continuation controls, and
\* takes the marks off all others.
Collect(d) == marked' = d.control /\ UNCHANGED <<browser, crashed, doc>>

-----------------------------------------------------------------------------
(* launchChromeBrowser, newCapturePage, installCaptureNetworkPolicy *)

Launch ==
    /\ pc = "launch"
    /\ browser' = "open" /\ crashed' = FALSE
    /\ doc' = Blank /\ marked' = FALSE
    /\ pc' = "prepare"
    /\ UNCHANGED <<late, attempt, stage, tries, readVars, err, outVars, result>>

\* captureMain's finally is not yet in force: main sees the error at once.
LaunchFails ==
    /\ pc = "launch"
    /\ \E e \in {"crash", "other"} : err' = e
    /\ pc' = "caught"
    /\ UNCHANGED <<pageVars, late, attempt, stage, tries, readVars, outVars, result>>

Prepare ==
    /\ pc = "prepare"
    /\ \E o \in Outcome :
          IF o = "ok"
             THEN Begin(IF Warmup THEN "warmup" ELSE "target") /\ UNCHANGED err
             ELSE Throw(Class(o))
    /\ UNCHANGED <<pageVars, late, attempt, readVars, outVars, result>>

-----------------------------------------------------------------------------
(* gotoWithTransientRetry *)

GotoReturns ==
    IF stage = "warmup"
       THEN pc' = "assign" /\ nav' = ~late /\ UNCHANGED <<stage, tries>>
       ELSE Begin(IF stage = "target" THEN "check1" ELSE "check3") /\ UNCHANGED nav

\* No time is left: the last error is thrown, or that nothing started.
GotoLate ==
    /\ pc = "goto" /\ late
    /\ Throw(IF tries = 0 THEN "other" ELSE "transient")
    /\ UNCHANGED <<pageVars, late, attempt, readVars, outVars, result>>

Goto ==
    /\ pc = "goto" /\ ~late /\ ~crashed
    /\ doc' \in Pages /\ marked' = FALSE
    /\ GotoReturns
    /\ UNCHANGED <<browser, crashed, late, attempt, form, control, err, outVars, result>>

GotoFails ==
    /\ pc = "goto" /\ ~late
    /\ \E o \in Outcome \ {"ok"} :
          IF Transient(o) THEN Await("gotoTitle") /\ UNCHANGED err
                          ELSE Throw(Class(o))
    /\ UNCHANGED <<pageVars, late, attempt, readVars, outVars, result>>

\* Mutant of NextTry: the round is not counted.
NextTryUncounted ==
    IF tries < GotoTries - 1
       THEN pc' = "goto" /\ UNCHANGED <<stage, tries, err>>
       ELSE Throw("transient")

\* The loop's next round, or after the last the error it ended with.
NextTry ==
    IF tries < GotoTries - 1
       THEN pc' = "goto" /\ tries' = tries + 1 /\ UNCHANGED <<stage, err>>
       ELSE Throw("transient")

\* A failed navigation may have loaded the page all the same.
GotoTitle ==
    /\ pc = "gotoTitle"
    /\ \/ TitleSeen /\ GotoReturns /\ UNCHANGED err
       \/ /\ doc # Blank
          /\ Await("gotoWait") /\ UNCHANGED <<nav, err>>
       \/ /\ doc = Blank
          /\ NextTry /\ UNCHANGED nav
    /\ UNCHANGED <<pageVars, late, attempt, form, control, outVars, result>>

\* waitForProductTitle: a timeout is answered by one more look.
GotoWait ==
    /\ pc = "gotoWait"
    /\ \/ TitleSeen /\ GotoReturns /\ UNCHANGED err
       \/ /\ late \/ ~crashed
          /\ NextTry /\ UNCHANGED nav
       \/ /\ ~late
          /\ \E o \in Outcome \ {"ok", "timeout"} : Throw(Class(o))
          /\ UNCHANGED nav
    /\ UNCHANGED <<pageVars, late, attempt, form, control, outVars, result>>

-----------------------------------------------------------------------------
(* navigateFromCurrentDocument *)

\* window.location.assign.  If the evaluation throws, nothing awaits the
\* navigation any more.
AssignLocation ==
    /\ pc = "assign"
    /\ \E o \in Outcome :
          IF o = "ok" \/ Transient(o) THEN Await("navWait") /\ UNCHANGED err
                                      ELSE Throw(Class(o))
    /\ UNCHANGED <<pageVars, late, attempt, readVars, outVars, result>>

AwaitNavigation ==
    /\ pc = "navWait"
    /\ nav' = FALSE
    /\ \E o \in IF nav THEN Outcome ELSE {"ok"} :
          IF o = "ok" \/ Transient(o) THEN Await("navLoad") /\ UNCHANGED err
                                      ELSE Throw(Class(o))
    /\ UNCHANGED <<pageVars, late, attempt, form, control, outVars, result>>

LoadNavigation ==
    /\ pc = "navLoad"
    /\ \/ /\ late \/ ~crashed
          /\ Begin("check1") /\ UNCHANGED err
       \/ /\ ~late
          /\ \E o \in Outcome \cap {"crash", "other"} : Throw(o)
    /\ UNCHANGED <<pageVars, late, attempt, readVars, outVars, result>>

\* The pending navigation commits, or times out.
NavigationSettles ==
    /\ nav /\ ~crashed
    /\ pc \notin {"navWait"} \cup Exited
    /\ nav' = FALSE
    /\ UNCHANGED <<pageVars, late, attempt, pc, stage, tries, form, control, err,
                   outVars, result>>

\* It is rejected while the script awaits something else: no handler is
\* attached, and Node dies of the unhandled rejection.
NavigationRejected ==
    /\ nav /\ pc \notin {"navWait"} \cup Exited
    /\ nav' = FALSE
    /\ pc' = "died"
    /\ UNCHANGED <<pageVars, late, attempt, stage, tries, form, control, err,
                   outVars, result>>

-----------------------------------------------------------------------------
(* hasAmazonInterstitial *)

AfterCheck == [check1 |-> "gate1", check2 |-> "home", check3 |-> "gate2",
               check4 |-> "require"]
AfterGate == [gate1 |-> "check2", gate2 |-> "wait"]

EndGate == Begin(AfterGate[stage])

\* What the caller does with the answer: captureMain sends an interstitial to
\* manual review, the gate leaves it alone.
Answer(interstitial) ==
    IF stage \in Gate
       THEN /\ IF interstitial \/ ~control THEN EndGate ELSE Await("gateCount")
            /\ UNCHANGED err
       ELSE IF interstitial
               THEN Await("diagCount") /\ err' = "review"
               ELSE Begin(AfterCheck[stage]) /\ UNCHANGED err

\* An error of the probe: a crash is thrown, an unknown one is taken for an
\* interstitial, a transient one asks for the title.
ProbeFails(o) ==
    \/ o = "crash" /\ Throw("crash")
    \/ o = "other" /\ Answer(TRUE)
    \/ Transient(o) /\ Await("title") /\ UNCHANGED err

\* countAmazonCaptchaForms; at the deadline productTitleReady instead.
CountForms ==
    /\ pc = "count"
    /\ \/ /\ late /\ UNCHANGED form
          /\ \/ TitleSeen /\ Answer(FALSE)
             \/ Answer(TRUE)
       \/ /\ ~late /\ ~crashed
          /\ form' = doc.form
          /\ Await("signals") /\ UNCHANGED err
       \/ /\ ~late /\ UNCHANGED form
          /\ \E o \in Outcome \ {"ok"} : ProbeFails(o)
    /\ UNCHANGED <<pageVars, late, attempt, control, nav, outVars, result>>

\* Mutant of Suspicious: the challenge is looked for in forms only.
SuspiciousForm(d) == form /\ (d.challenge \/ ~(d.gate /\ d.form /\ d.control))

\* The rest of probeAmazonInterstitial: a form without a challenge is benign
\* if the page reads as a gate and the control is in the form.
Suspicious(d) == d.challenge \/ (form /\ ~(d.gate /\ d.form /\ d.control))

ProbeSignals ==
    /\ pc = "signals"
    /\ \/ ~crashed /\ Collect(doc) /\ Answer(Suspicious(doc))
       \/ /\ UNCHANGED pageVars
          /\ \E o \in Outcome \ {"ok"} : ProbeFails(o)
    /\ UNCHANGED <<late, attempt, readVars, outVars, result>>

\* After a transient error a page with a title is no interstitial.
CheckTitle ==
    /\ pc = "title"
    /\ \/ ~late /\ TitleSeen /\ Answer(FALSE)
       \/ /\ tries < CheckTries - 1
          /\ pc' = "count" /\ tries' = tries + 1
          /\ UNCHANGED <<stage, err>>
       \/ /\ tries = CheckTries - 1
          /\ Await("lastTitle") /\ UNCHANGED err
    /\ UNCHANGED <<pageVars, late, attempt, readVars, outVars, result>>

CheckLastTitle ==
    /\ pc = "lastTitle"
    /\ \/ ~late /\ TitleSeen /\ Answer(FALSE)
       \/ Answer(TRUE)
    /\ UNCHANGED <<pageVars, late, attempt, readVars, outVars, result>>

-----------------------------------------------------------------------------
(* handleAmazonContinuationGate *)

\* safeProductDomTitleReady
GateDom ==
    /\ pc = "gateDom"
    /\ \/ ~crashed /\ doc.title = "dom" /\ EndGate
       \/ Await("gateSignals")
    /\ UNCHANGED <<pageVars, late, attempt, readVars, err, outVars, result>>

GateSignals ==
    /\ pc = "gateSignals"
    /\ \/ /\ ~crashed /\ Collect(doc)
          /\ control' = doc.control
          /\ IF HasTitle(doc) /\ ~doc.gate THEN EndGate ELSE Await("count")
       \/ EndGate /\ UNCHANGED <<pageVars, control>>
    /\ UNCHANGED <<late, attempt, form, nav, err, outVars, result>>

\* Controls that still bear the marker.
GateCount ==
    /\ pc = "gateCount"
    /\ \/ ~crashed /\ marked /\ Await("gateClick")
       \/ EndGate
    /\ UNCHANGED <<pageVars, late, attempt, readVars, err, outVars, result>>

\* clickFirstWorkingContinuation
GateClick ==
    /\ pc = "gateClick"
    /\ \/ ~late /\ ~crashed /\ marked /\ Await("gateLoad")
       \/ EndGate
    /\ UNCHANGED <<pageVars, late, attempt, readVars, err, outVars, result>>

GateLoad ==
    /\ pc = "gateLoad"
    /\ EndGate
    /\ UNCHANGED <<pageVars, late, attempt, readVars, err, outVars, result>>

-----------------------------------------------------------------------------
(* captureMain *)

\* isAmazonHomeLandingWithoutProductEvidence
HomeLanding(d) ==
    d.at = "home" /\ ~HasTitle(d) /\ ~d.form /\ ~d.challenge /\ ~d.gate /\ ~d.control

\* retryCanonicalAmazonProductURLAfterHomeLanding
RetryCanonical ==
    /\ pc = "home"
    /\ \/ /\ ~crashed /\ Collect(doc)
          /\ Begin(IF HomeLanding(doc) THEN "canonical" ELSE "wait")
       \/ Begin("wait") /\ UNCHANGED pageVars
    /\ UNCHANGED <<late, attempt, readVars, err, outVars, result>>

\* waitForProductTitle, whose answer captureMain does not use.
WaitForTitle ==
    /\ pc = "wait"
    /\ \/ /\ late \/ ~crashed
          /\ Begin("check4") /\ UNCHANGED err
       \/ /\ ~late
          /\ \E o \in Outcome \ {"ok", "timeout"} : Throw(Class(o))
    /\ UNCHANGED <<pageVars, late, attempt, readVars, outVars, result>>

RequireTitle ==
    /\ pc = "require"
    /\ \/ /\ ~crashed
          /\ IF HasTitle(doc)
                THEN Await("clear") /\ UNCHANGED err
                ELSE Await("diagCount") /\ err' = "notitle"
       \/ \E o \in Outcome \ {"ok"} : Throw(Class(o))
    /\ UNCHANGED <<pageVars, late, attempt, readVars, outVars, result>>

\* amazonCaptureDiagnostics: only a crash is thrown.
DiagnoseForms ==
    /\ pc = "diagCount"
    /\ IF crashed THEN Throw("crash") ELSE Await("diagSignals") /\ UNCHANGED err
    /\ UNCHANGED <<pageVars, late, attempt, readVars, outVars, result>>

\* Mutant of DiagnoseSignals: it swallows a crash as it does other errors.
DiagnoseCrashed ==
    /\ pc = "diagSignals"
    /\ Throw(err)
    /\ \/ ~crashed /\ Collect(doc)
       \/ UNCHANGED pageVars
    /\ UNCHANGED <<late, attempt, readVars, outVars, result>>

DiagnoseSignals ==
    /\ pc = "diagSignals"
    /\ IF crashed
          THEN Throw("crash") /\ UNCHANGED pageVars
          ELSE Throw(err) /\ (Collect(doc) \/ UNCHANGED pageVars)
    /\ UNCHANGED <<late, attempt, readVars, outVars, result>>

\* Mutant of ClearMarkers: the cleanup is skipped.
ClearNothing ==
    /\ pc = "clear"
    /\ Await("content")
    /\ UNCHANGED <<pageVars, late, attempt, readVars, err, outVars, result>>

ClearMarkers ==
    /\ pc = "clear"
    /\ \/ /\ ~crashed
          /\ marked' = FALSE
          /\ Await("content") /\ UNCHANGED <<browser, crashed, doc, err>>
       \/ /\ \E o \in Outcome \ {"ok"} : Throw(Class(o))
          /\ UNCHANGED pageVars
    /\ UNCHANGED <<late, attempt, readVars, outVars, result>>

\* page.content and the write; limitedBuffer refuses what exceeds its limit,
\* and os/exec then closes the pipe, of which Node may die.
WriteContent ==
    /\ pc = "content"
    /\ \/ /\ ~crashed
          /\ out' = Append(out, [title |-> doc.title, marked |-> marked])
          /\ pc' = "close" /\ err' = "none"
          /\ UNCHANGED <<stage, tries, overflow>>
       \/ /\ ~crashed
          /\ overflow' = TRUE
          /\ pc' \in {"close", "died"} /\ err' = "none"
          /\ UNCHANGED <<stage, tries, out>>
       \/ /\ \E o \in Outcome \ {"ok"} : Throw(Class(o))
          /\ UNCHANGED outVars
    /\ UNCHANGED <<pageVars, late, attempt, readVars, result>>

\* closeCaptureBrowserAfterOperation: a failed close adds to the error, or is
\* one.  Closing rejects a navigation still pending.
CloseBrowser ==
    /\ pc = "close" /\ ~nav
    /\ \/ browser' = "none" /\ UNCHANGED err
       \/ browser' = "stuck" /\ err' = IF err = "none" THEN "other" ELSE err
    /\ pc' = IF err' = "none" THEN "succeeded" ELSE "caught"
    /\ UNCHANGED <<crashed, doc, marked, late, attempt, stage, tries, readVars,
                   outVars, result>>

-----------------------------------------------------------------------------
(* main *)

\* Mutant of Retriable: any error is retried.
RetriableAny == attempt < CrashAttempts - 1 /\ ~late

\* A crash, and only a crash, is retried with a fresh browser.
Retriable == err = "crash" /\ attempt < CrashAttempts - 1 /\ ~late

RetryCrash ==
    /\ pc = "caught" /\ Retriable
    /\ attempt' = attempt + 1
    /\ pc' = "launch" /\ err' = "none"
    /\ UNCHANGED <<pageVars, late, stage, tries, readVars, outVars, result>>

GiveUp ==
    /\ pc = "caught" /\ ~Retriable
    /\ pc' = "failed"
    /\ UNCHANGED <<pageVars, late, attempt, stage, tries, readVars, err, outVars,
                   result>>

-----------------------------------------------------------------------------
(* The provider: captureHTMLWithPlaywright's return, and runWorkload *)

\* snapshot.ExtractAmazon wants a title, and may refuse the canonical ASIN.
Extract ==
    /\ pc \in Exited /\ result = "none"
    /\ \/ /\ pc = "succeeded" /\ ~overflow
          /\ \E i \in 1 .. Len(out) : out[i].title # "none"
          /\ result' = "snapshot"
       \/ result' = "error"
    /\ UNCHANGED <<pageVars, late, attempt, pc, stage, tries, readVars, err, outVars>>

-----------------------------------------------------------------------------
(* The page and the clock *)

Running == pc \notin Exited

DeadlinePasses ==
    /\ Running /\ ~late
    /\ late' = TRUE
    /\ UNCHANGED <<pageVars, attempt, pc, stage, tries, readVars, err, outVars, result>>

\* A redirect, a click or a navigation that had timed out loads a document.
Navigates ==
    /\ pc \in PageAt \ {"prepare"} /\ ~crashed
    /\ doc' \in Pages /\ marked' = FALSE
    /\ UNCHANGED <<browser, crashed, late, attempt, pc, stage, tries, readVars, err,
                   outVars, result>>

\* The document's scripts give it a title.
TitleAppears ==
    /\ pc \in PageAt \ {"prepare"} /\ ~crashed
    /\ ~HasTitle(doc)
    /\ \E t \in {"metadata", "dom"} : doc' = [doc EXCEPT !.title = t]
    /\ doc' \in Pages
    /\ UNCHANGED <<browser, crashed, marked, late, attempt, pc, stage, tries,
                   readVars, err, outVars, result>>

TargetCrashes ==
    /\ pc \in PageAt /\ ~crashed
    /\ crashed' = TRUE
    /\ UNCHANGED <<browser, doc, marked, late, attempt, pc, stage, tries, readVars,
                   err, outVars, result>>

-----------------------------------------------------------------------------

Navigating == Goto \/ GotoFails \/ GotoLate \/ GotoTitle \/ GotoWait
                  \/ AssignLocation \/ AwaitNavigation \/ LoadNavigation
Judging == CountForms \/ ProbeSignals \/ CheckTitle \/ CheckLastTitle
Gating == GateDom \/ GateSignals \/ GateCount \/ GateClick \/ GateLoad
Finishing == RetryCanonical \/ WaitForTitle \/ RequireTitle \/ DiagnoseForms
                 \/ DiagnoseSignals \/ ClearMarkers \/ WriteContent
Attempting == Launch \/ LaunchFails \/ Prepare \/ CloseBrowser \/ RetryCrash
                  \/ GiveUp \/ NavigationRejected \/ Extract

\* What the script and the provider do; NavigationSettles is Chrome's.
Step == Navigating \/ Judging \/ Gating \/ Finishing \/ Attempting

Next == Step \/ NavigationSettles \/ DeadlinePasses \/ Navigates \/ TitleAppears
            \/ TargetCrashes

Spec == Init /\ [][Next]_vars

\* Every await ends: Go terminates Node after the deadline, whatever it awaits.
FairSpec == Spec /\ WF_vars(Step)

-----------------------------------------------------------------------------
(* Properties *)

\* The variables keep their types.
TypeOK ==
    /\ browser \in {"none", "open", "stuck"}
    /\ crashed \in BOOLEAN /\ marked \in BOOLEAN /\ late \in BOOLEAN
    /\ doc \in Pages \cup {Blank}
    /\ attempt \in 0 .. CrashAttempts - 1
    /\ pc \in PageAt \cup Exited \cup {"launch", "close", "caught"}
    /\ stage \in Steps
    /\ tries \in Nat
    /\ form \in BOOLEAN /\ control \in BOOLEAN /\ nav \in BOOLEAN
    /\ err \in Thrown \cup {"none"}
    /\ out \in Seq([title : {"none", "metadata", "dom"}, marked : BOOLEAN])
    /\ overflow \in BOOLEAN
    /\ result \in {"none", "snapshot", "error"}

\* Standard output holds at most one document, although main runs captureMain
\* up to four times and a close can fail after the document was written.
OneDocument == Len(out) <= 1

\* A published document bears none of the script's own markers, whichever of
\* the checks, gates and diagnostics had put them there.
MarkersRemoved == \A i \in 1 .. Len(out) : ~out[i].marked

\* main gives up on a crashed page only at the deadline or after its last
\* attempt: no wrapper, swallowed error or diagnosis hides the crash from it,
\* except where every try of a navigation had already failed.
CrashIsRetried ==
    [][/\ crashed /\ pc # "close" /\ pc' = "close"
              => err' = "crash" \/ late \/ pc = "gotoTitle"
       /\ pc' = "failed" /\ err = "crash" /\ pc # "failed"
              => late \/ attempt = CrashAttempts - 1]_vars

\* The gate never clicks on a challenge, except on a page that has a title as
\* well: the marks it clicks are those its own probe made and judged.
ClicksSpareChallenges ==
    [][pc = "gateClick" /\ pc' = "gateLoad" => ~doc.challenge \/ HasTitle(doc)]_vars

\* Every run ends: each of the nested retry loops is bounded.
EveryRunEnds == <>(result # "none")

-----------------------------------------------------------------------------
(* What the code does not hold *)

\* "closes/reaps on every exit path": Node never exits with its browser open.
ReapedOnEveryExit == pc \in Exited => browser # "open"
=============================================================================
