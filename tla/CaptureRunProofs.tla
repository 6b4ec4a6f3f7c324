--------------------------- MODULE CaptureRunProofs ---------------------------
(***************************************************************************)
(* Proofs about CaptureRun, for every set of pages and every bound on the  *)
(* tries.  Control says which steps of captureMain an await can belong to; *)
(* Written, where the run can be once a document is on standard output;    *)
(* Judged, what is known of a document whose marked control is about to be *)
(* clicked.                                                                *)
(***************************************************************************)
EXTENDS CaptureRun, TLAPS

Navigations == {"warmup", "target", "canonical"}

Control ==
    /\ pc \in PageAt \cup Exited \cup {"launch", "close", "caught"}
    /\ stage \in Steps
    /\ tries \in Nat
    /\ pc \in GotoAt => stage \in Navigations
    /\ pc \in CheckAt => stage \in Check \cup Gate
    /\ pc \in GateAt => stage \in Gate

\* A step of captureMain begins at an await that can belong to it.
LEMMA BeginControl ==
    ASSUME NEW s \in Steps, Begin(s)
    PROVE  Control'
<1>1. s \in Navigations \/ s \in Check \/ s \in Gate \/ s \in {"home", "wait", "require"}
  BY DEF Steps, Navigations
<1>2. CASE s \in Navigations
  BY <1>2 DEF Begin, Entry, Control, Navigations, PageAt, GotoAt, CheckAt, GateAt
<1>3. CASE s \in Check
  BY <1>3 DEF Begin, Entry, Control, Check, PageAt, GotoAt, CheckAt, GateAt
<1>4. CASE s \in Gate
  BY <1>4 DEF Begin, Entry, Control, Check, Gate, PageAt, GotoAt, CheckAt, GateAt
<1>5. CASE s \in {"home", "wait", "require"}
  BY <1>5 DEF Begin, Entry, Control, Check, Gate, PageAt, GotoAt, CheckAt, GateAt
<1> QED
  BY <1>1, <1>2, <1>3, <1>4, <1>5

\* A thrown error goes to the close of the browser.
LEMMA ThrowControl ==
    ASSUME Control, NEW e, Throw(e)
    PROVE  Control'
  BY DEF Control, Throw, PageAt, GotoAt, CheckAt, GateAt, Exited

\* An await of the same step keeps the step.
LEMMA AwaitControl ==
    ASSUME Control, NEW p \in PageAt, Await(p),
           p \in GotoAt => stage \in Navigations,
           p \in CheckAt => stage \in Check \cup Gate,
           p \in GateAt => stage \in Gate
    PROVE  Control'
  BY DEF Control, Await

LEMMA EndGateControl ==
    ASSUME stage \in Gate, EndGate
    PROVE  Control'
<1>1. AfterGate[stage] \in Steps
  BY DEF AfterGate, Gate, Steps, Check
<1> QED
  BY <1>1, BeginControl DEF EndGate

LEMMA GotoReturnsControl ==
    ASSUME Control, GotoReturns
    PROVE  Control'
<1>1. CASE stage = "warmup"
  BY <1>1 DEF GotoReturns, Control, PageAt, GotoAt, CheckAt, GateAt
<1>2. CASE stage # "warmup"
  <2>1. {"check1", "check3"} \subseteq Steps
    BY DEF Steps, Check
  <2> QED
    BY <1>2, <2>1, BeginControl DEF GotoReturns
<1> QED
  BY <1>1, <1>2

LEMMA NextTryControl ==
    ASSUME Control, stage \in Navigations, NextTry
    PROVE  Control'
<1>1. CASE tries < GotoTries - 1
  BY <1>1 DEF NextTry, Control, PageAt, GotoAt, CheckAt, GateAt
<1>2. CASE ~(tries < GotoTries - 1)
  BY <1>2, ThrowControl DEF NextTry
<1> QED
  BY <1>1, <1>2

LEMMA AnswerControl ==
    ASSUME Control, stage \in Check \cup Gate, NEW b \in BOOLEAN, Answer(b)
    PROVE  Control'
<1>1. CASE stage \in Gate
  <2>1. CASE b \/ ~control
    BY <1>1, <2>1, EndGateControl DEF Answer
  <2>2. CASE ~(b \/ ~control)
    BY <1>1, <2>2 DEF Answer, Await, Control, PageAt, GotoAt, CheckAt, GateAt
  <2> QED
    BY <2>1, <2>2
<1>2. CASE stage \notin Gate
  <2>1. CASE b
    BY <1>2, <2>1 DEF Answer, Await, Control, PageAt, GotoAt, CheckAt, GateAt
  <2>2. CASE ~b
    <3>1. AfterCheck[stage] \in Steps
      BY <1>2 DEF AfterCheck, Check, Gate, Steps
    <3> QED
      BY <1>2, <2>2, <3>1, BeginControl DEF Answer
  <2> QED
    BY <2>1, <2>2
<1> QED
  BY <1>1, <1>2

LEMMA ProbeFailsControl ==
    ASSUME Control, pc \in CheckAt, NEW o, ProbeFails(o)
    PROVE  Control'
<1>0. stage \in Check \cup Gate
  BY DEF Control
<1>1. CASE o = "crash"
  BY <1>1, ThrowControl DEF ProbeFails, Transient
<1>2. CASE o = "other"
  BY <1>0, <1>2, AnswerControl DEF ProbeFails, Transient
<1>3. CASE Transient(o)
  BY <1>0, <1>3 DEF ProbeFails, Await, Control, PageAt, GotoAt, CheckAt, GateAt, Transient
<1> QED
  BY <1>1, <1>2, <1>3 DEF ProbeFails

\* Every step of the model keeps the await and the step of captureMain together.
LEMMA ControlNext ==
    ASSUME Control, Next
    PROVE  Control'
<1>1. CASE Launch
  BY <1>1 DEF Launch, Control, PageAt, GotoAt, CheckAt, GateAt, Exited
<1>2. CASE LaunchFails
  BY <1>2 DEF LaunchFails, Control, PageAt, GotoAt, CheckAt, GateAt, Exited
<1>3. CASE Prepare
  BY <1>3, BeginControl, ThrowControl DEF Prepare, Steps
<1>4. CASE Goto
  BY <1>4, GotoReturnsControl DEF Goto
<1>5. CASE GotoFails
  BY <1>5, ThrowControl DEF GotoFails, Await, Control, PageAt, GotoAt, CheckAt, GateAt, Exited
<1>6. CASE GotoLate
  BY <1>6, ThrowControl DEF GotoLate
<1>7. CASE GotoTitle
  <2>0. stage \in Navigations
    BY <1>7 DEF GotoTitle, Control, GotoAt
  <2> QED
    BY <1>7, <2>0, GotoReturnsControl, NextTryControl
    DEF GotoTitle, Await, Control, PageAt, GotoAt, CheckAt, GateAt
<1>8. CASE GotoWait
  <2>0. stage \in Navigations
    BY <1>8 DEF GotoWait, Control, GotoAt
  <2> QED
    BY <1>8, <2>0, GotoReturnsControl, NextTryControl, ThrowControl DEF GotoWait
<1>9. CASE AssignLocation
  BY <1>9, ThrowControl DEF AssignLocation, Await, Control, PageAt, GotoAt, CheckAt, GateAt, Exited
<1>10. CASE AwaitNavigation
  BY <1>10, ThrowControl DEF AwaitNavigation, Await, Control, PageAt, GotoAt, CheckAt, GateAt, Exited
<1>11. CASE LoadNavigation
  BY <1>11, BeginControl, ThrowControl DEF LoadNavigation, Steps, Check
<1>12. CASE NavigationSettles
  BY <1>12 DEF NavigationSettles, Control, PageAt, GotoAt, CheckAt, GateAt, Exited
<1>13. CASE NavigationRejected
  BY <1>13 DEF NavigationRejected, Control, PageAt, GotoAt, CheckAt, GateAt, Exited
<1>14. CASE CountForms
  <2>0. pc \in CheckAt /\ stage \in Check \cup Gate
    BY <1>14 DEF CountForms, Control, CheckAt
  <2>1. CASE Await("signals")
    BY <2>0, <2>1 DEF Await, Control, PageAt, GotoAt, CheckAt, GateAt
  <2> QED
    BY <1>14, <2>0, <2>1, AnswerControl, ProbeFailsControl DEF CountForms
<1>15. CASE ProbeSignals
  <2>0. pc \in CheckAt /\ stage \in Check \cup Gate
    BY <1>15 DEF ProbeSignals, Control, CheckAt
  <2>1. CASE Answer(Suspicious(doc))
    <3>1. Answer(TRUE) \/ Answer(FALSE)
      BY <2>1 DEF Answer
    <3> QED
      BY <2>0, <3>1, AnswerControl
  <2> QED
    BY <1>15, <2>0, <2>1, ProbeFailsControl DEF ProbeSignals
<1>16. CASE CheckTitle
  <2>0. stage \in Check \cup Gate
    BY <1>16 DEF CheckTitle, Control, CheckAt
  <2>1. CASE Answer(FALSE)
    BY <2>0, <2>1, AnswerControl
  <2>2. CASE pc' = "count" /\ tries' = tries + 1 /\ UNCHANGED stage
    BY <2>0, <2>2 DEF Control, PageAt, GotoAt, CheckAt, GateAt
  <2>3. CASE Await("lastTitle")
    BY <2>0, <2>3 DEF Await, Control, PageAt, GotoAt, CheckAt, GateAt
  <2> QED
    BY <1>16, <2>1, <2>2, <2>3 DEF CheckTitle
<1>17. CASE CheckLastTitle
  <2>0. stage \in Check \cup Gate
    BY <1>17 DEF CheckLastTitle, Control, CheckAt
  <2> QED
    BY <1>17, <2>0, AnswerControl DEF CheckLastTitle
<1>18. CASE GateDom
  <2>0. stage \in Gate
    BY <1>18 DEF GateDom, Control, GateAt
  <2> QED
    BY <1>18, <2>0, EndGateControl
    DEF GateDom, Await, Control, PageAt, GotoAt, CheckAt, GateAt
<1>19. CASE GateSignals
  <2>0. stage \in Gate
    BY <1>19 DEF GateSignals, Control, GateAt
  <2> QED
    BY <1>19, <2>0, EndGateControl
    DEF GateSignals, Await, Control, PageAt, GotoAt, CheckAt, GateAt
<1>20. CASE GateCount
  <2>0. stage \in Gate
    BY <1>20 DEF GateCount, Control, GateAt
  <2> QED
    BY <1>20, <2>0, EndGateControl
    DEF GateCount, Await, Control, PageAt, GotoAt, CheckAt, GateAt
<1>21. CASE GateClick
  <2>0. stage \in Gate
    BY <1>21 DEF GateClick, Control, GateAt
  <2> QED
    BY <1>21, <2>0, EndGateControl
    DEF GateClick, Await, Control, PageAt, GotoAt, CheckAt, GateAt
<1>22. CASE GateLoad
  <2>0. stage \in Gate
    BY <1>22 DEF GateLoad, Control, GateAt
  <2> QED
    BY <1>22, <2>0, EndGateControl
    DEF GateLoad, Await, Control, PageAt, GotoAt, CheckAt, GateAt
<1>23. CASE RetryCanonical
  BY <1>23, BeginControl DEF RetryCanonical, Steps
<1>24. CASE WaitForTitle
  BY <1>24, BeginControl, ThrowControl DEF WaitForTitle, Steps, Check
<1>25. CASE RequireTitle
  BY <1>25, ThrowControl DEF RequireTitle, Await, Control, PageAt, GotoAt, CheckAt, GateAt, Exited
<1>26. CASE DiagnoseForms
  BY <1>26, ThrowControl DEF DiagnoseForms, Await, Control, PageAt, GotoAt, CheckAt, GateAt, Exited
<1>27. CASE DiagnoseSignals
  BY <1>27, ThrowControl DEF DiagnoseSignals
<1>28. CASE ClearMarkers
  BY <1>28, ThrowControl DEF ClearMarkers, Await, Control, PageAt, GotoAt, CheckAt, GateAt, Exited
<1>29. CASE WriteContent
  BY <1>29, ThrowControl DEF WriteContent, Await, Control, PageAt, GotoAt, CheckAt, GateAt, Exited
<1>30. CASE CloseBrowser
  BY <1>30 DEF CloseBrowser, Control, PageAt, GotoAt, CheckAt, GateAt, Exited
<1>31. CASE RetryCrash
  BY <1>31 DEF RetryCrash, Control, PageAt, GotoAt, CheckAt, GateAt, Exited
<1>32. CASE GiveUp
  BY <1>32 DEF GiveUp, Control, PageAt, GotoAt, CheckAt, GateAt, Exited
<1>33. CASE Extract
  BY <1>33 DEF Extract, Control, PageAt, GotoAt, CheckAt, GateAt, Exited
<1>34. CASE DeadlinePasses
  BY <1>34 DEF DeadlinePasses, Control, PageAt, GotoAt, CheckAt, GateAt, Exited
<1>35. CASE Navigates
  BY <1>35 DEF Navigates, Control, PageAt, GotoAt, CheckAt, GateAt, Exited
<1>36. CASE TitleAppears
  BY <1>36 DEF TitleAppears, Control, PageAt, GotoAt, CheckAt, GateAt, Exited
<1>37. CASE TargetCrashes
  BY <1>37 DEF TargetCrashes, Control, PageAt, GotoAt, CheckAt, GateAt, Exited
<1> QED
  BY <1>1, <1>2, <1>3, <1>4, <1>5, <1>6, <1>7, <1>8, <1>9, <1>10, <1>11,
     <1>12, <1>13, <1>14, <1>15, <1>16, <1>17, <1>18, <1>19, <1>20, <1>21,
     <1>22, <1>23, <1>24, <1>25, <1>26, <1>27, <1>28, <1>29, <1>30, <1>31,
     <1>32, <1>33, <1>34, <1>35, <1>36, <1>37
  DEF Next, Step, Navigating, Judging, Gating, Finishing, Attempting

-----------------------------------------------------------------------------
(* The other variables *)

PageOK ==
    /\ browser \in {"none", "open", "stuck"}
    /\ crashed \in BOOLEAN /\ marked \in BOOLEAN
    /\ doc \in Pages \cup {Blank}

RunOK ==
    /\ late \in BOOLEAN
    /\ attempt \in 0 .. CrashAttempts - 1
    /\ result \in {"none", "snapshot", "error"}

ReadsOK == form \in BOOLEAN /\ control \in BOOLEAN /\ nav \in BOOLEAN

ErrOK == err \in Thrown \cup {"none"}

OutOK ==
    /\ out \in Seq([title : {"none", "metadata", "dom"}, marked : BOOLEAN])
    /\ overflow \in BOOLEAN

LEMMA DocumentType ==
    ASSUME PageOK
    PROVE  /\ doc.title \in {"none", "metadata", "dom"}
           /\ doc.form \in BOOLEAN /\ doc.control \in BOOLEAN
<1>1. CASE doc = Blank
  BY <1>1 DEF Blank
<1>2. CASE doc \in Page
  BY <1>2 DEF Page
<1> QED
  BY <1>1, <1>2, PagesAssumption DEF PageOK

LEMMA DocumentFields ==
    ASSUME PageOK, NEW t
    PROVE  [doc EXCEPT !.title = t].title = t
<1>1. CASE doc = Blank
  BY <1>1 DEF Blank
<1>2. CASE doc \in Page
  BY <1>2 DEF Page
<1> QED
  BY <1>1, <1>2, PagesAssumption DEF PageOK

\* Only these actions touch the page.
LEMMA PageNext ==
    ASSUME PageOK, Next
    PROVE  PageOK'
<1>0. doc.control \in BOOLEAN
  BY DocumentType
<1>1. CASE UNCHANGED pageVars
  BY <1>1 DEF pageVars, PageOK
<1>2. CASE Launch \/ Goto \/ Navigates \/ TitleAppears \/ TargetCrashes
  BY <1>2 DEF Launch, Goto, Navigates, TitleAppears, TargetCrashes, PageOK
<1>3. CASE ProbeSignals \/ GateSignals \/ RetryCanonical \/ DiagnoseSignals
  BY <1>0, <1>1, <1>3
  DEF ProbeSignals, GateSignals, RetryCanonical, DiagnoseSignals, Collect, PageOK
<1>4. CASE ClearMarkers
  BY <1>1, <1>4 DEF ClearMarkers, PageOK
<1>5. CASE CloseBrowser
  BY <1>5 DEF CloseBrowser, PageOK
<1> QED
  BY <1>1, <1>2, <1>3, <1>4, <1>5
  DEF Next, Step, Navigating, Judging, Gating, Finishing, Attempting, LaunchFails,
      Prepare, GotoFails, GotoLate, GotoTitle, GotoWait, AssignLocation,
      AwaitNavigation, LoadNavigation, NavigationSettles, NavigationRejected,
      CountForms, CheckTitle, CheckLastTitle, GateDom, GateCount, GateClick,
      GateLoad, WaitForTitle, RequireTitle, DiagnoseForms, WriteContent,
      RetryCrash, GiveUp, Extract, DeadlinePasses

LEMMA RunNext ==
    ASSUME RunOK, Next
    PROVE  RunOK'
<1>1. CASE UNCHANGED <<late, attempt, result>>
  BY <1>1 DEF RunOK
<1>2. CASE DeadlinePasses
  BY <1>2 DEF DeadlinePasses, RunOK
<1>3. CASE Extract
  BY <1>3 DEF Extract, RunOK
<1>4. CASE RetryCrash
  BY <1>4, BoundsAssumption DEF RetryCrash, Retriable, RunOK
<1> QED
  BY <1>1, <1>2, <1>3, <1>4
  DEF Next, Step, Navigating, Judging, Gating, Finishing, Attempting, Launch,
      LaunchFails, Prepare, Goto, GotoFails, GotoLate, GotoTitle, GotoWait,
      AssignLocation, AwaitNavigation, LoadNavigation, NavigationSettles,
      NavigationRejected, CountForms, ProbeSignals, CheckTitle, CheckLastTitle,
      GateDom, GateSignals, GateCount, GateClick, GateLoad, RetryCanonical,
      WaitForTitle, RequireTitle, DiagnoseForms, DiagnoseSignals, ClearMarkers,
      WriteContent, CloseBrowser, GiveUp, Navigates, TitleAppears, TargetCrashes

LEMMA ReadsNext ==
    ASSUME ReadsOK, PageOK, RunOK, Next
    PROVE  ReadsOK'
<1>0. doc.form \in BOOLEAN /\ doc.control \in BOOLEAN /\ late \in BOOLEAN
  BY DocumentType DEF RunOK
<1>1. CASE UNCHANGED readVars
  BY <1>1 DEF readVars, ReadsOK
<1>2. CASE Goto \/ GotoTitle \/ GotoWait
  BY <1>0, <1>2 DEF Goto, GotoTitle, GotoWait, GotoReturns, ReadsOK, readVars
<1>3. CASE AwaitNavigation \/ NavigationSettles \/ NavigationRejected
  BY <1>3 DEF AwaitNavigation, NavigationSettles, NavigationRejected, ReadsOK
<1>4. CASE CountForms \/ GateSignals
  BY <1>0, <1>4 DEF CountForms, GateSignals, ReadsOK
<1> QED
  BY <1>1, <1>2, <1>3, <1>4
  DEF Next, Step, Navigating, Judging, Gating, Finishing, Attempting, Launch,
      LaunchFails, Prepare, GotoFails, GotoLate, AssignLocation, LoadNavigation,
      ProbeSignals, CheckTitle, CheckLastTitle, GateDom, GateCount, GateClick,
      GateLoad, RetryCanonical, WaitForTitle, RequireTitle, DiagnoseForms,
      DiagnoseSignals, ClearMarkers, WriteContent, CloseBrowser, RetryCrash, GiveUp,
      Extract, DeadlinePasses, Navigates, TitleAppears, TargetCrashes

\* What the branches shared by several actions do to the error.
LEMMA ErrBranches ==
    /\ \A e : Throw(e) => err' = e
    /\ \A o \in Outcome \ {"ok"} : Class(o) \in Errors
    /\ NextTry => err' \in {err, "transient"}
    /\ \A b \in BOOLEAN : Answer(b) => err' \in {err, "review"}
    /\ \A o : ProbeFails(o) => err' \in {err, "crash", "review"}
<1>1. \A e : Throw(e) => err' = e
  BY DEF Throw
<1>2. \A o \in Outcome \ {"ok"} : Class(o) \in Errors
  BY DEF Outcome, Class, Transient, Errors
<1>3. NextTry => err' \in {err, "transient"}
  BY DEF NextTry, Throw
<1>4. \A b \in BOOLEAN : Answer(b) => err' \in {err, "review"}
  BY DEF Answer
<1>5. \A o : ProbeFails(o) => err' \in {err, "crash", "review"}
  BY <1>1, <1>4 DEF ProbeFails
<1> QED
  BY <1>1, <1>2, <1>3, <1>4, <1>5

LEMMA ErrNext ==
    ASSUME ErrOK, Next
    PROVE  ErrOK'
<1>1. CASE UNCHANGED err
  BY <1>1 DEF ErrOK
<1>2. CASE \E e \in Thrown \cup {"none"} : err' = e
  BY <1>2 DEF ErrOK
<1>3. CASE err' \in {err, "transient", "review", "crash"}
  BY <1>3 DEF ErrOK, Thrown, Errors
<1>4. CASE LaunchFails \/ GotoLate
  BY <1>4, ErrBranches DEF LaunchFails, GotoLate, ErrOK, Thrown, Errors
<1>5. CASE Prepare \/ GotoFails \/ AssignLocation \/ AwaitNavigation \/ WaitForTitle
              \/ GotoWait
  BY <1>1, <1>2, <1>3, <1>5, ErrBranches
  DEF Prepare, GotoFails, AssignLocation, AwaitNavigation, WaitForTitle, GotoWait,
      Thrown, Outcome, Transient
<1>6. CASE LoadNavigation \/ RequireTitle \/ ClearMarkers \/ WriteContent
  BY <1>1, <1>2, <1>6, ErrBranches
  DEF LoadNavigation, RequireTitle, ClearMarkers, WriteContent, Thrown, Errors
<1>7. CASE CountForms \/ ProbeSignals \/ CheckTitle \/ CheckLastTitle \/ GotoTitle
  <2>1. Suspicious(doc) \in BOOLEAN /\ {TRUE, FALSE} \subseteq BOOLEAN
    BY DEF Suspicious
  <2> QED
    BY <1>1, <1>3, <1>7, <2>1, ErrBranches
    DEF CountForms, ProbeSignals, CheckTitle, CheckLastTitle, GotoTitle
<1>8. CASE DiagnoseForms \/ DiagnoseSignals
  BY <1>1, <1>3, <1>8, ErrBranches DEF DiagnoseForms, DiagnoseSignals
<1>9. CASE CloseBrowser \/ RetryCrash
  BY <1>9 DEF CloseBrowser, RetryCrash, ErrOK, Thrown, Errors
<1> QED
  BY <1>1, <1>4, <1>5, <1>6, <1>7, <1>8, <1>9
  DEF Next, Step, Navigating, Judging, Gating, Finishing, Attempting, Launch, Goto,
      NavigationSettles, NavigationRejected, GateDom, GateSignals, GateCount,
      GateClick, GateLoad, RetryCanonical, GiveUp, Extract, DeadlinePasses,
      Navigates, TitleAppears, TargetCrashes

LEMMA OutNext ==
    ASSUME OutOK, PageOK, Next
    PROVE  OutOK'
<1>1. CASE UNCHANGED outVars
  BY <1>1 DEF outVars, OutOK
<1>2. CASE WriteContent
  <2>1. [title |-> doc.title, marked |-> marked]
          \in [title : {"none", "metadata", "dom"}, marked : BOOLEAN]
    BY DocumentType DEF PageOK
  <2>2. CASE overflow' = overflow
              /\ out' = Append(out, [title |-> doc.title, marked |-> marked])
    BY <2>1, <2>2 DEF OutOK
  <2>3. CASE overflow' = TRUE /\ out' = out
    BY <2>3 DEF OutOK
  <2> QED
    BY <1>1, <1>2, <2>2, <2>3 DEF WriteContent
<1> QED
  BY <1>1, <1>2
  DEF Next, Step, Navigating, Judging, Gating, Finishing, Attempting, Launch,
      LaunchFails, Prepare, Goto, GotoFails, GotoLate, GotoTitle, GotoWait,
      AssignLocation, AwaitNavigation, LoadNavigation, NavigationSettles,
      NavigationRejected, CountForms, ProbeSignals, CheckTitle, CheckLastTitle,
      GateDom, GateSignals, GateCount, GateClick, GateLoad, RetryCanonical,
      WaitForTitle, RequireTitle, DiagnoseForms, DiagnoseSignals, ClearMarkers,
      CloseBrowser, RetryCrash, GiveUp, Extract, DeadlinePasses, Navigates,
      TitleAppears, TargetCrashes

-----------------------------------------------------------------------------
(* Type correctness *)

Typed == Control /\ PageOK /\ RunOK /\ ReadsOK /\ ErrOK /\ OutOK

LEMMA TypedIsTypeOK == Typed => TypeOK
  BY DEF Typed, Control, PageOK, RunOK, ReadsOK, ErrOK, OutOK, TypeOK

LEMMA TypedInit ==
    ASSUME Init
    PROVE  Typed
<1>1. Control
  BY DEF Init, Control, Steps, GotoAt, CheckAt, GateAt
<1>2. PageOK /\ ReadsOK /\ ErrOK
  BY DEF Init, PageOK, ReadsOK, ErrOK
<1>3. RunOK
  <2>1. late \in BOOLEAN
    BY DEF Init
  <2>2. attempt = 0 /\ result = "none"
    BY DEF Init
  <2>3. attempt \in 0 .. CrashAttempts - 1
    BY <2>2, BoundsAssumption
  <2> QED
    BY <2>1, <2>2, <2>3 DEF RunOK
<1>4. OutOK
  <2>1. overflow \in BOOLEAN
    BY DEF Init
  <2>2. out = <<>>
    BY DEF Init
  <2>3. out \in Seq([title : {"none", "metadata", "dom"}, marked : BOOLEAN])
    BY <2>2
  <2> QED
    BY <2>1, <2>3 DEF OutOK
<1> QED
  BY <1>1, <1>2, <1>3, <1>4 DEF Typed

LEMMA TypedNext ==
    ASSUME Typed, [Next]_vars
    PROVE  Typed'
<1>1. CASE Next
  BY <1>1, ControlNext, PageNext, RunNext, ReadsNext, ErrNext, OutNext DEF Typed
<1>2. CASE UNCHANGED vars
  BY <1>2
  DEF vars, pageVars, readVars, outVars, Typed, Control, PageOK, RunOK, ReadsOK,
      ErrOK, OutOK
<1> QED
  BY <1>1, <1>2

LEMMA SpecTyped == Spec => []Typed
  BY TypedInit, TypedNext, PTL DEF Spec

\* Every variable keeps its type, for every set of pages and every bound.
THEOREM CaptureTypes == Spec => []TypeOK
  BY SpecTyped, TypedIsTypeOK, PTL

-----------------------------------------------------------------------------
(* What is on standard output *)

\* Once a document is written nothing leads back to a browser: the close leaves
\* no error, or one that main does not retry.
Written ==
    /\ out # <<>> =>
          \/ pc = "close" /\ err = "none"
          \/ pc = "caught" /\ err = "other"
          \/ pc \in Exited
    /\ pc = "content" => ~marked
    /\ OneDocument
    /\ MarkersRemoved

LEMMA WrittenInit == Init => Written
  BY DEF Init, Written, OneDocument, MarkersRemoved, Exited

\* Away from the write, it is enough that the steps after it lead nowhere else.
LEMMA WrittenFrame ==
    ASSUME Written, UNCHANGED out,
           pc' = "content" => ~marked',
           \/ pc \notin {"close", "caught"} \cup Exited
           \/ pc' = pc /\ err' = err
           \/ pc' \in Exited
    PROVE  Written'
  BY DEF Written, OneDocument, MarkersRemoved, Exited

\* Where an answer of hasAmazonInterstitial leads.
LEMMA AnswerLeaves ==
    ASSUME stage \in Check \cup Gate, NEW b \in BOOLEAN, Answer(b)
    PROVE  /\ pc' \in {"count", "gateCount", "gateDom", "home", "wait", "require",
                        "diagCount"}
           /\ pc' = "gateCount" => ~b
<1>1. CASE stage \in Gate
  BY <1>1 DEF Answer, EndGate, AfterGate, Begin, Entry, Await, Gate, Check
<1>2. CASE stage \notin Gate
  BY <1>2 DEF Answer, AfterCheck, Begin, Entry, Await, Gate, Check
<1> QED
  BY <1>1, <1>2

LEMMA WrittenNext ==
    ASSUME Typed, Written, [Next]_vars
    PROVE  Written'
<1>1. CASE UNCHANGED vars
  BY <1>1, WrittenFrame DEF vars, pageVars, outVars, Written
<1>2. CASE WriteContent
  <2>1. CASE out' = Append(out, [title |-> doc.title, marked |-> marked])
                /\ pc = "content" /\ pc' = "close" /\ err' = "none"
    <3>1. out = <<>> /\ ~marked
      BY <2>1 DEF Written, Exited
    <3>2. Len(out') = 1 /\ out'[1].marked = marked
      BY <2>1, <3>1
    <3> QED
      BY <2>1, <3>1, <3>2 DEF Written, OneDocument, MarkersRemoved
  <2>2. CASE UNCHANGED out
    BY <1>2, <2>2, WrittenFrame DEF WriteContent, Throw, Exited
  <2> QED
    BY <1>2, <2>1, <2>2 DEF WriteContent, outVars
<1>3. CASE CloseBrowser
  BY <1>3 DEF CloseBrowser, Written, OneDocument, MarkersRemoved, outVars, Exited
<1>4. CASE RetryCrash
  BY <1>4 DEF RetryCrash, Retriable, Written, OneDocument, MarkersRemoved, outVars,
              Exited
<1>5. CASE GiveUp
  BY <1>5, WrittenFrame DEF GiveUp, outVars, Exited
<1>6. CASE ClearMarkers
  BY <1>6, WrittenFrame
  DEF ClearMarkers, outVars, Await, Throw, Exited
<1>7. CASE NavigationSettles \/ NavigationRejected \/ DeadlinePasses \/ Navigates
              \/ TitleAppears \/ TargetCrashes \/ Extract
  BY <1>7, WrittenFrame
  DEF NavigationSettles, NavigationRejected, DeadlinePasses, Navigates, TitleAppears,
      TargetCrashes, Extract, outVars, pageVars, Written, Exited
<1>8. CASE Launch \/ LaunchFails \/ Prepare
  BY <1>8, WrittenFrame
  DEF Launch, LaunchFails, Prepare, Begin, Entry, Throw, outVars, Exited, Check, Gate
<1>9. CASE Navigating
  BY <1>9, WrittenFrame
  DEF Navigating, Goto, GotoFails, GotoLate, GotoTitle, GotoWait, AssignLocation,
      AwaitNavigation, LoadNavigation, GotoReturns, NextTry, Begin, Entry, Await,
      Throw, outVars, Exited, Check, Gate
<1>10. CASE Judging
  <2>1. UNCHANGED out /\ pc \in CheckAt
    BY <1>10 DEF Judging, CountForms, ProbeSignals, CheckTitle, CheckLastTitle,
                 outVars, CheckAt
  <2>2. stage \in Check \cup Gate
    BY <2>1 DEF Typed, Control
  <2>3. \A b \in BOOLEAN : Answer(b) => pc' # "content"
    BY <2>2, AnswerLeaves
  <2>4. Suspicious(doc) \in BOOLEAN
    BY DEF Suspicious
  <2>5. pc' # "content"
    BY <1>10, <2>3, <2>4
    DEF Judging, CountForms, ProbeSignals, CheckTitle, CheckLastTitle, ProbeFails,
        Await, Throw
  <2> QED
    BY <2>1, <2>5, WrittenFrame DEF CheckAt, Exited
<1>11. CASE Gating
  <2>1. UNCHANGED out /\ pc \in GateAt
    BY <1>11 DEF Gating, GateDom, GateSignals, GateCount, GateClick, GateLoad,
                 outVars, GateAt
  <2>2. stage \in Gate
    BY <2>1 DEF Typed, Control
  <2>3. pc' # "content"
    BY <1>11, <2>2
    DEF Gating, GateDom, GateSignals, GateCount, GateClick, GateLoad, EndGate,
        AfterGate, Begin, Entry, Await, Gate, Check
  <2> QED
    BY <2>1, <2>3, WrittenFrame DEF GateAt, Exited
<1>12. CASE RetryCanonical \/ WaitForTitle \/ RequireTitle \/ DiagnoseForms
               \/ DiagnoseSignals
  BY <1>12, WrittenFrame
  DEF RetryCanonical, WaitForTitle, RequireTitle, DiagnoseForms, DiagnoseSignals,
      Begin, Entry, Await, Throw, outVars, Exited, Check, Gate
<1> QED
  BY <1>1, <1>2, <1>3, <1>4, <1>5, <1>6, <1>7, <1>8, <1>9, <1>10, <1>11, <1>12
  DEF Next, Step, Finishing, Attempting

LEMMA SpecWritten == Spec => []Written
  BY SpecTyped, WrittenInit, WrittenNext, PTL DEF Spec

\* At most one document on standard output, whatever attempts and closes fail.
THEOREM CaptureWritesOnce == Spec => []OneDocument
<1>1. Written => OneDocument
  BY DEF Written
<1> QED
  BY <1>1, SpecWritten, PTL

\* No published document bears the script's markers.
THEOREM CaptureIsUnmarked == Spec => []MarkersRemoved
<1>1. Written => MarkersRemoved
  BY DEF Written
<1> QED
  BY <1>1, SpecWritten, PTL

-----------------------------------------------------------------------------
(* The gate's click *)

\* The marks the gate is about to click are of a document its probe judged, or
\* one that has a title.
Judged ==
    pc \in {"gateCount", "gateClick"} /\ marked => ~doc.challenge \/ HasTitle(doc)

LEMMA JudgedNext ==
    ASSUME Typed, Judged, [Next]_vars
    PROVE  Judged'
<1>1. CASE UNCHANGED <<pageVars, pc>>
  BY <1>1 DEF pageVars, Judged, HasTitle
<1>2. CASE pc' \notin {"gateCount", "gateClick"}
  BY <1>2 DEF Judged
<1>3. CASE CountForms
  <2>1. UNCHANGED pageVars /\ stage \in Check \cup Gate
    BY <1>3 DEF CountForms, Typed, Control, CheckAt
  <2>2. CASE TitleSeen
    BY <2>1, <2>2 DEF TitleSeen, HasTitle, pageVars, Judged
  <2>3. CASE Answer(TRUE)
    BY <1>2, <2>1, <2>3, AnswerLeaves
  <2> QED
    BY <1>2, <1>3, <2>2, <2>3 DEF CountForms, ProbeFails, Await, Throw
<1>4. CASE ProbeSignals
  <2>1. stage \in Check \cup Gate
    BY <1>4 DEF ProbeSignals, Typed, Control, CheckAt
  <2>2. CASE Collect(doc) /\ Answer(Suspicious(doc))
    <3>1. Suspicious(doc) \in BOOLEAN /\ doc' = doc
      BY <2>2 DEF Suspicious, Collect
    <3>2. pc' \in {"gateCount", "gateClick"} => ~Suspicious(doc)
      BY <2>1, <2>2, <3>1, AnswerLeaves
    <3> QED
      BY <3>1, <3>2 DEF Suspicious, Judged
  <2>3. CASE Answer(TRUE)
    BY <1>2, <2>1, <2>3, AnswerLeaves
  <2> QED
    BY <1>2, <1>4, <2>2, <2>3 DEF ProbeSignals, ProbeFails, Await, Throw
<1>5. CASE CheckTitle \/ CheckLastTitle
  <2>1. UNCHANGED pageVars /\ stage \in Check \cup Gate
    BY <1>5 DEF CheckTitle, CheckLastTitle, Typed, Control, CheckAt
  <2>2. CASE TitleSeen
    BY <2>1, <2>2 DEF TitleSeen, HasTitle, pageVars, Judged
  <2>3. CASE Answer(TRUE)
    BY <1>2, <2>1, <2>3, AnswerLeaves
  <2> QED
    BY <1>2, <1>5, <2>2, <2>3 DEF CheckTitle, CheckLastTitle, Await
<1>6. CASE GateCount
  BY <1>6 DEF GateCount, pageVars, Judged, HasTitle
<1>7. CASE GateDom \/ GateSignals \/ GateClick \/ GateLoad
  <2>1. stage \in Gate
    BY <1>7 DEF GateDom, GateSignals, GateClick, GateLoad, Typed, Control, GateAt
  <2> QED
    BY <1>2, <1>7, <2>1
    DEF GateDom, GateSignals, GateClick, GateLoad, EndGate, AfterGate, Begin, Entry,
        Await, Gate, Check
<1>8. CASE Finishing
  BY <1>2, <1>8
  DEF Finishing, RetryCanonical, WaitForTitle, RequireTitle, DiagnoseForms,
      DiagnoseSignals, ClearMarkers, WriteContent, Begin, Entry, Await, Throw, Check,
      Gate
<1>9. CASE Attempting \/ Navigating
  BY <1>1, <1>2, <1>9
  DEF Attempting, Launch, LaunchFails, Prepare, CloseBrowser, RetryCrash, GiveUp,
      NavigationRejected, Extract, Navigating, Goto, GotoFails, GotoLate, GotoTitle,
      GotoWait, AssignLocation, AwaitNavigation, LoadNavigation, GotoReturns, NextTry,
      Begin, Entry, Await, Throw, Check, Gate, Exited
<1>10. CASE NavigationSettles \/ DeadlinePasses
  BY <1>1, <1>10 DEF NavigationSettles, DeadlinePasses
<1>11. CASE Navigates \/ TargetCrashes
  BY <1>11 DEF Navigates, TargetCrashes, Judged, HasTitle
<1>12. CASE TitleAppears
  <2>1. PICK t \in {"metadata", "dom"} : doc' = [doc EXCEPT !.title = t]
    BY <1>12 DEF TitleAppears
  <2>2. HasTitle(doc)'
    BY <1>12, <2>1, DocumentFields DEF HasTitle, Typed
  <2> QED
    BY <2>2 DEF Judged
<1>13. CASE UNCHANGED vars
  BY <1>1, <1>13 DEF vars
<1> QED
  BY <1>3, <1>4, <1>5, <1>6, <1>7, <1>8, <1>9, <1>10, <1>11, <1>12, <1>13
  DEF Next, Step, Judging, Gating

\* No click of a continuation gate lands on a challenge, unless the page shows a
\* product title as well.
THEOREM CaptureSparesChallenges == Spec => ClicksSpareChallenges
<1>1. Init => Judged
  BY DEF Init, Judged
<1>2. Typed /\ Judged /\ [Next]_vars
        => [pc = "gateClick" /\ pc' = "gateLoad" => ~doc.challenge \/ HasTitle(doc)]_vars
  <2> SUFFICES ASSUME Typed, Judged, Next, pc = "gateClick", pc' = "gateLoad"
               PROVE  ~doc.challenge \/ HasTitle(doc)
    OBVIOUS
  <2>0. stage \in Gate
    BY DEF Typed, Control, GateAt
  <2>1. GateClick
    BY DEF Next, Step, Navigating, Judging, Gating, Finishing, Attempting, Launch,
           LaunchFails, Prepare, Goto, GotoFails, GotoLate, GotoTitle, GotoWait,
           AssignLocation, AwaitNavigation, LoadNavigation, NavigationSettles,
           NavigationRejected, CountForms, ProbeSignals, CheckTitle, CheckLastTitle,
           GateDom, GateSignals, GateCount, GateLoad, RetryCanonical, WaitForTitle,
           RequireTitle, DiagnoseForms, DiagnoseSignals, ClearMarkers, WriteContent,
           CloseBrowser, RetryCrash, GiveUp, Extract, DeadlinePasses, Navigates,
           TitleAppears, TargetCrashes, Exited
  <2>2. marked
    BY <2>0, <2>1 DEF GateClick, EndGate, AfterGate, Begin, Entry, Gate, Check
  <2> QED
    BY <2>2 DEF Judged
<1> QED
  BY <1>1, <1>2, JudgedNext, SpecTyped, PTL DEF Spec, ClicksSpareChallenges

-----------------------------------------------------------------------------
(* Retries *)

\* The actions that may end captureMain with the browser still to close.
LEMMA CrashThrown ==
    ASSUME Typed, Next, crashed, pc # "close", pc' = "close"
    PROVE  err' = "crash" \/ late \/ pc = "gotoTitle"
<1>1. Outcome = {"crash"} /\ Class("crash") = "crash" /\ ~TitleSeen
  BY DEF Outcome, Class, Transient, TitleSeen
<1>2. CASE Navigating
  BY <1>1, <1>2
  DEF Navigating, Goto, GotoFails, GotoLate, GotoTitle, GotoWait, AssignLocation,
      AwaitNavigation, LoadNavigation, Begin, Entry, Await, Throw, Transient, Check,
      Gate
<1>3. CASE Judging
  <2>1. stage \in Check \cup Gate
    BY <1>3 DEF Judging, CountForms, ProbeSignals, CheckTitle, CheckLastTitle, Typed,
                Control, CheckAt
  <2>2. \A b \in BOOLEAN : ~Answer(b)
    BY <2>1, AnswerLeaves
  <2> QED
    BY <1>1, <1>3, <2>2
    DEF Judging, CountForms, ProbeSignals, CheckTitle, CheckLastTitle, ProbeFails,
        Await, Throw, Transient
<1>4. CASE Gating
  <2>1. stage \in Gate
    BY <1>4 DEF Gating, GateDom, GateSignals, GateCount, GateClick, GateLoad, Typed,
                Control, GateAt
  <2> QED
    BY <1>4, <2>1
    DEF Gating, GateDom, GateSignals, GateCount, GateClick, GateLoad, EndGate,
        AfterGate, Begin, Entry, Await, Gate, Check
<1>5. CASE Finishing
  BY <1>1, <1>5
  DEF Finishing, RetryCanonical, WaitForTitle, RequireTitle, DiagnoseForms,
      DiagnoseSignals, ClearMarkers, WriteContent, Begin, Entry, Await, Throw, Check,
      Gate
<1>6. CASE Attempting
  BY <1>1, <1>6
  DEF Attempting, Launch, LaunchFails, Prepare, CloseBrowser, RetryCrash, GiveUp,
      NavigationRejected, Extract, Begin, Entry, Throw, Check, Gate
<1>7. CASE NavigationSettles \/ DeadlinePasses \/ Navigates \/ TitleAppears
              \/ TargetCrashes
  BY <1>7 DEF NavigationSettles, DeadlinePasses, Navigates, TitleAppears, TargetCrashes
<1> QED
  BY <1>2, <1>3, <1>4, <1>5, <1>6, <1>7 DEF Next, Step

\* main is only left to fail on a crash at the deadline or after its last attempt.
LEMMA CrashGivenUp ==
    ASSUME Typed, Next, pc' = "failed", err = "crash", pc # "failed"
    PROVE  late \/ attempt = CrashAttempts - 1
<1>1. CASE Navigating
  BY <1>1
  DEF Navigating, Goto, GotoFails, GotoLate, GotoTitle, GotoWait, AssignLocation,
      AwaitNavigation, LoadNavigation, GotoReturns, NextTry, Begin, Entry, Await,
      Throw, Check, Gate
<1>2. CASE Judging
  <2>1. stage \in Check \cup Gate
    BY <1>2 DEF Judging, CountForms, ProbeSignals, CheckTitle, CheckLastTitle, Typed,
                Control, CheckAt
  <2>2. \A b \in BOOLEAN : ~Answer(b)
    BY <2>1, AnswerLeaves
  <2>3. Suspicious(doc) \in BOOLEAN
    BY DEF Suspicious
  <2> QED
    BY <1>2, <2>2, <2>3
    DEF Judging, CountForms, ProbeSignals, CheckTitle, CheckLastTitle, ProbeFails,
        Await, Throw
<1>3. CASE Gating
  <2>1. stage \in Gate
    BY <1>3 DEF Gating, GateDom, GateSignals, GateCount, GateClick, GateLoad, Typed,
                Control, GateAt
  <2> QED
    BY <1>3, <2>1
    DEF Gating, GateDom, GateSignals, GateCount, GateClick, GateLoad, EndGate,
        AfterGate, Begin, Entry, Await, Gate, Check
<1>4. CASE Finishing
  BY <1>4
  DEF Finishing, RetryCanonical, WaitForTitle, RequireTitle, DiagnoseForms,
      DiagnoseSignals, ClearMarkers, WriteContent, Begin, Entry, Await, Throw, Check,
      Gate
<1>5. CASE GiveUp
  <2>1. ~(attempt < CrashAttempts - 1) \/ late
    BY <1>5 DEF GiveUp, Retriable
  <2> QED
    BY <2>1, BoundsAssumption DEF Typed, RunOK
<1>6. CASE Attempting /\ ~GiveUp
  BY <1>6
  DEF Attempting, Launch, LaunchFails, Prepare, CloseBrowser, RetryCrash,
      NavigationRejected, Extract, Begin, Entry, Throw, Check, Gate
<1>7. CASE NavigationSettles \/ DeadlinePasses \/ Navigates \/ TitleAppears
              \/ TargetCrashes
  BY <1>7 DEF NavigationSettles, DeadlinePasses, Navigates, TitleAppears, TargetCrashes
<1> QED
  BY <1>1, <1>2, <1>3, <1>4, <1>5, <1>6, <1>7 DEF Next, Step

\* A crash of the page is retried as long as an attempt and time are left.
THEOREM CaptureRetriesCrashes == Spec => CrashIsRetried
<1>1. Typed /\ [Next]_vars =>
        [/\ crashed /\ pc # "close" /\ pc' = "close"
                => err' = "crash" \/ late \/ pc = "gotoTitle"
         /\ pc' = "failed" /\ err = "crash" /\ pc # "failed"
                => late \/ attempt = CrashAttempts - 1]_vars
  BY CrashThrown, CrashGivenUp
<1> QED
  BY <1>1, SpecTyped, PTL DEF Spec, CrashIsRetried

-----------------------------------------------------------------------------
(* How long a run can be *)

\* Where the run is in an attempt: the steps of captureMain, and what is before
\* and after them.
StageRank(s) ==
    CASE s = "warmup" -> 16
      [] s = "target" -> 16
      [] s = "check1" -> 14
      [] s = "gate1" -> 13
      [] s = "check2" -> 12
      [] s = "home" -> 11
      [] s = "canonical" -> 10
      [] s = "check3" -> 9
      [] s = "gate2" -> 8
      [] s = "wait" -> 7
      [] s = "check4" -> 6
      [] s = "require" -> 5

PhaseOf(p, s, r) ==
    CASE p \in GotoAt \cup CheckAt \cup GateAt -> StageRank(s)
      [] p = "launch" -> 20
      [] p = "prepare" -> 19
      [] p \in {"assign", "navWait", "navLoad"} -> 15
      [] p = "home" -> 11
      [] p = "wait" -> 7
      [] p \in {"require", "clear", "content"} -> 5
      [] p \in {"diagCount", "diagSignals"} -> 4
      [] p = "close" -> 3
      [] p = "caught" -> 2
      [] p \in Exited -> IF r = "none" THEN 1 ELSE 0

Phase == PhaseOf(pc, stage, result)

\* Where it is in a step of captureMain.
AwaitRank(p) ==
    CASE p = "goto" -> 3
      [] p = "gotoTitle" -> 2
      [] p = "gotoWait" -> 1
      [] p = "assign" -> 3
      [] p = "navWait" -> 2
      [] p = "navLoad" -> 1
      [] p = "gateDom" -> 9
      [] p = "gateSignals" -> 8
      [] p = "count" -> 7
      [] p = "signals" -> 6
      [] p = "title" -> 5
      [] p = "lastTitle" -> 4
      [] p = "gateCount" -> 3
      [] p = "gateClick" -> 2
      [] p = "gateLoad" -> 1
      [] p = "require" -> 3
      [] p = "diagCount" -> 2
      [] p = "diagSignals" -> 1
      [] p = "clear" -> 2
      [] p = "content" -> 1
      [] OTHER -> 0

\* The rounds of the loop an await is in.
Rounds(p) == IF p \in GotoAt THEN GotoTries ELSE CheckTries

\* The run comes nearer to its end: another attempt of those main may make, a
\* later phase, another round of those its loop may make, or a later await.
Forward ==
    \/ attempt < attempt' /\ attempt' < CrashAttempts
    \/ attempt' = attempt /\ Phase' < Phase
    \/ /\ attempt' = attempt /\ Phase' = Phase
       /\ \/ tries < tries' /\ tries' < Rounds(pc)
          \/ tries' = tries /\ AwaitRank(pc') < AwaitRank(pc)

LEMMA PhaseIs ==
    ASSUME NEW p, NEW s, NEW r
    PROVE  /\ p \in GotoAt \cup CheckAt \cup GateAt => PhaseOf(p, s, r) = StageRank(s)
           /\ p = "launch" => PhaseOf(p, s, r) = 20
           /\ p = "prepare" => PhaseOf(p, s, r) = 19
           /\ p \in {"assign", "navWait", "navLoad"} => PhaseOf(p, s, r) = 15
           /\ p = "home" => PhaseOf(p, s, r) = 11
           /\ p = "wait" => PhaseOf(p, s, r) = 7
           /\ p \in {"require", "clear", "content"} => PhaseOf(p, s, r) = 5
           /\ p \in {"diagCount", "diagSignals"} => PhaseOf(p, s, r) = 4
           /\ p = "close" => PhaseOf(p, s, r) = 3
           /\ p = "caught" => PhaseOf(p, s, r) = 2
           /\ p \in Exited => PhaseOf(p, s, r) = IF r = "none" THEN 1 ELSE 0
BY DEF PhaseOf, GotoAt, CheckAt, GateAt, Exited

LEMMA StagesRank ==
    /\ StageRank("warmup") = 16 /\ StageRank("target") = 16 /\ StageRank("check1") = 14
    /\ StageRank("gate1") = 13 /\ StageRank("check2") = 12 /\ StageRank("home") = 11
    /\ StageRank("canonical") = 10 /\ StageRank("check3") = 9 /\ StageRank("gate2") = 8
    /\ StageRank("wait") = 7 /\ StageRank("check4") = 6 /\ StageRank("require") = 5
BY DEF StageRank

LEMMA AwaitsRank ==
    /\ AwaitRank("goto") = 3 /\ AwaitRank("gotoTitle") = 2 /\ AwaitRank("gotoWait") = 1
    /\ AwaitRank("assign") = 3 /\ AwaitRank("navWait") = 2 /\ AwaitRank("navLoad") = 1
    /\ AwaitRank("gateDom") = 9 /\ AwaitRank("gateSignals") = 8
    /\ AwaitRank("count") = 7 /\ AwaitRank("signals") = 6 /\ AwaitRank("title") = 5
    /\ AwaitRank("lastTitle") = 4 /\ AwaitRank("gateCount") = 3
    /\ AwaitRank("gateClick") = 2 /\ AwaitRank("gateLoad") = 1
    /\ AwaitRank("require") = 3 /\ AwaitRank("diagCount") = 2
    /\ AwaitRank("diagSignals") = 1 /\ AwaitRank("clear") = 2 /\ AwaitRank("content") = 1
BY DEF AwaitRank

LEMMA BeginForward ==
    ASSUME NEW s \in Steps, Begin(s), UNCHANGED attempt,
           Phase \in Nat, StageRank(s) < Phase
    PROVE  Forward
<1>1. PhaseOf(Entry(s), s, result') = StageRank(s)
  <2>1. CASE s \in Navigations
    <3>1. s \notin Check /\ s \notin Gate
      BY <2>1 DEF Navigations, Check, Gate
    <3>2. Entry(s) = "goto"
      BY <2>1, <3>1 DEF Entry, Navigations
    <3> QED
      BY <3>2, PhaseIs DEF GotoAt
  <2>2. CASE s \in Check
    <3>1. s \notin Navigations /\ s \notin Gate
      BY <2>2 DEF Navigations, Check, Gate
    <3>2. Entry(s) = "count"
      BY <2>2, <3>1 DEF Entry, Navigations
    <3> QED
      BY <3>2, PhaseIs DEF CheckAt
  <2>3. CASE s \in Gate
    BY <2>3, PhaseIs DEF Entry, Gate, Check, GateAt
  <2>4. CASE s \in {"home", "wait", "require"}
    <3>1. Entry(s) = s
      BY <2>4 DEF Entry, Gate, Check
    <3> QED
      BY <2>4, <3>1, PhaseIs, StagesRank
  <2> QED
    BY <2>1, <2>2, <2>3, <2>4 DEF Steps, Navigations
<1>2. Phase' = StageRank(s)
  BY <1>1 DEF Phase, Begin
<1> QED
  BY <1>2 DEF Forward

\* An await of captureMain is before the close.
LEMMA PagePhase ==
    ASSUME Control, pc \in PageAt
    PROVE  Phase \in Nat /\ Phase >= 4
<1>1. CASE pc \in GotoAt \cup CheckAt \cup GateAt
  <2>1. stage \in Navigations \cup Check \cup Gate
    BY <1>1 DEF Control
  <2> QED
    BY <1>1, <2>1, PhaseIs, StagesRank DEF Phase, Navigations, Check, Gate
<1> QED
  BY <1>1, PhaseIs DEF Phase, PageAt

LEMMA ThrowForward ==
    ASSUME Control, pc \in PageAt, NEW e, Throw(e), UNCHANGED attempt
    PROVE  Forward
<1>1. Phase' = 3
  BY PhaseIs DEF Throw, Phase
<1> QED
  BY <1>1, PagePhase DEF Forward

\* The next await of the same step.
LEMMA AwaitForward ==
    ASSUME NEW p, Await(p), UNCHANGED attempt,
           \/ {pc, p} \subseteq GotoAt \cup CheckAt \cup GateAt
           \/ {pc, p} \subseteq {"assign", "navWait", "navLoad"}
           \/ {pc, p} \subseteq {"require", "clear", "content"}
           \/ {pc, p} \subseteq {"diagCount", "diagSignals"},
           AwaitRank(p) < AwaitRank(pc)
    PROVE  Forward
<1>1. Phase' = Phase
  BY PhaseIs DEF Await, Phase
<1> QED
  BY <1>1 DEF Await, Forward

LEMMA EndGateForward ==
    ASSUME Control, pc \in CheckAt \cup GateAt, stage \in Gate, EndGate, UNCHANGED attempt
    PROVE  Forward
<1>1. Phase = StageRank(stage)
  BY PhaseIs DEF Phase
<1>2. AfterGate[stage] \in Steps /\ StageRank(AfterGate[stage]) < Phase /\ Phase \in Nat
  BY <1>1, StagesRank DEF AfterGate, Gate, Steps, Check
<1> QED
  BY <1>2, BeginForward DEF EndGate

LEMMA GotoReturnsForward ==
    ASSUME Control, pc \in GotoAt, GotoReturns, UNCHANGED attempt
    PROVE  Forward
<1>1. Phase = StageRank(stage) /\ stage \in Navigations
  BY PhaseIs DEF Phase, Control
<1>2. CASE stage = "warmup"
  <2>1. Phase = 16 /\ Phase' = 15
    BY <1>1, <1>2, PhaseIs, StagesRank DEF GotoReturns, Phase
  <2> QED
    BY <2>1 DEF Forward
<1>3. CASE stage = "target"
  BY <1>1, <1>3, BeginForward, StagesRank DEF GotoReturns, Steps, Check
<1>4. CASE stage = "canonical"
  BY <1>1, <1>4, BeginForward, StagesRank DEF GotoReturns, Steps, Check
<1> QED
  BY <1>1, <1>2, <1>3, <1>4 DEF Navigations

LEMMA NextTryForward ==
    ASSUME Control, pc \in GotoAt, NextTry, UNCHANGED attempt, GotoTries \in Nat
    PROVE  Forward
<1>1. CASE tries < GotoTries - 1
  <2>1. pc' = "goto" /\ tries' = tries + 1 /\ UNCHANGED stage /\ tries \in Nat
    BY <1>1 DEF NextTry, Control
  <2>2. Phase' = Phase
    BY <2>1, PhaseIs DEF Phase, GotoAt
  <2> QED
    BY <1>1, <2>1, <2>2 DEF Forward, Rounds
<1>2. CASE ~(tries < GotoTries - 1)
  BY <1>2, ThrowForward DEF NextTry, PageAt
<1> QED
  BY <1>1, <1>2

LEMMA AnswerForward ==
    ASSUME Control, pc \in CheckAt, NEW b \in BOOLEAN, Answer(b), UNCHANGED attempt
    PROVE  Forward
<1>1. Phase = StageRank(stage) /\ stage \in Check \cup Gate
  BY PhaseIs DEF Phase, Control
<1>2. AwaitRank("gateCount") < AwaitRank(pc)
  BY AwaitsRank DEF CheckAt
<1>3. CASE stage \in Gate
  <2>1. CASE EndGate
    BY <1>3, <2>1, EndGateForward
  <2>2. CASE Await("gateCount")
    BY <1>2, <2>2, AwaitForward DEF GateAt
  <2> QED
    BY <1>3, <2>1, <2>2 DEF Answer
<1>4. CASE stage \notin Gate
  <2>1. CASE Await("diagCount")
    <3>1. Phase' = 4 /\ Phase \in Nat /\ Phase > 4
      BY <1>1, <1>4, <2>1, PhaseIs, StagesRank DEF Await, Phase, Check
    <3> QED
      BY <3>1 DEF Forward
  <2>2. CASE Begin(AfterCheck[stage])
    <3>1. /\ AfterCheck[stage] \in Steps
          /\ StageRank(AfterCheck[stage]) < Phase /\ Phase \in Nat
      BY <1>1, <1>4, StagesRank DEF AfterCheck, Check, Gate, Steps
    <3> QED
      BY <2>2, <3>1, BeginForward
  <2> QED
    BY <1>4, <2>1, <2>2 DEF Answer
<1> QED
  BY <1>3, <1>4

LEMMA ProbeFailsForward ==
    ASSUME Control, pc \in {"count", "signals"}, NEW o, ProbeFails(o), UNCHANGED attempt
    PROVE  Forward
<1>0. pc \in CheckAt /\ pc \in PageAt
  BY DEF CheckAt, PageAt
<1>1. CASE Throw("crash")
  BY <1>0, <1>1, ThrowForward
<1>2. CASE Answer(TRUE)
  BY <1>0, <1>2, AnswerForward
<1>3. CASE Await("title")
  BY <1>3, AwaitForward, AwaitsRank DEF CheckAt
<1> QED
  BY <1>1, <1>2, <1>3 DEF ProbeFails

\* Every step of the script and of the provider comes nearer to the end.
LEMMA StepForward ==
    ASSUME Typed, Step
    PROVE  Forward
<1>0. Control /\ GotoTries \in Nat /\ CrashAttempts \in Nat /\ attempt \in 0 .. CrashAttempts - 1
      /\ tries \in Nat
  BY BoundsAssumption DEF Typed, Control, RunOK
<1> USE <1>0
<1>1. CASE Launch
  <2>1. Phase = 20 /\ Phase' = 19
    BY <1>1, PhaseIs DEF Launch, Phase
  <2> QED
    BY <1>1, <2>1 DEF Launch, Forward
<1>2. CASE LaunchFails
  <2>1. Phase = 20 /\ Phase' = 2
    BY <1>2, PhaseIs DEF LaunchFails, Phase
  <2> QED
    BY <1>2, <2>1 DEF LaunchFails, Forward
<1>3. CASE Prepare
  <2>1. Phase = 19 /\ pc \in PageAt
    BY <1>3, PhaseIs DEF Prepare, Phase, PageAt
  <2>2. {"warmup", "target"} \subseteq Steps
    BY DEF Steps
  <2> QED
    BY <1>3, <2>1, <2>2, BeginForward, ThrowForward, StagesRank DEF Prepare
<1>4. CASE Goto
  BY <1>4, GotoReturnsForward DEF Goto, GotoAt
<1>5. CASE GotoFails
  BY <1>5, ThrowForward, AwaitForward, AwaitsRank DEF GotoFails, PageAt, GotoAt
<1>6. CASE GotoLate
  BY <1>6, ThrowForward DEF GotoLate, PageAt, GotoAt
<1>7. CASE GotoTitle
  <2>1. pc \in GotoAt /\ pc = "gotoTitle"
    BY <1>7 DEF GotoTitle, GotoAt
  <2>2. CASE Await("gotoWait")
    BY <1>7, <2>1, <2>2, AwaitForward, AwaitsRank DEF GotoTitle, GotoAt
  <2> QED
    BY <1>7, <2>1, <2>2, GotoReturnsForward, NextTryForward DEF GotoTitle
<1>8. CASE GotoWait
  BY <1>8, GotoReturnsForward, NextTryForward, ThrowForward DEF GotoWait, PageAt, GotoAt
<1>9. CASE AssignLocation
  BY <1>9, ThrowForward, AwaitForward, AwaitsRank DEF AssignLocation, PageAt
<1>10. CASE AwaitNavigation
  BY <1>10, ThrowForward, AwaitForward, AwaitsRank DEF AwaitNavigation, PageAt
<1>11. CASE LoadNavigation
  <2>1. Phase = 15 /\ pc \in PageAt
    BY <1>11, PhaseIs DEF LoadNavigation, Phase, PageAt
  <2>2. "check1" \in Steps
    BY DEF Steps, Check
  <2> QED
    BY <1>11, <2>1, <2>2, BeginForward, ThrowForward, StagesRank DEF LoadNavigation
<1>12. CASE NavigationRejected
  <2>1. Phase' \in {0, 1} /\ Phase \in Nat /\ Phase >= 2
    <3>1. CASE pc \in PageAt
      BY <1>12, <3>1, PagePhase, PhaseIs DEF NavigationRejected, Phase, Exited
    <3>2. CASE pc \in {"launch", "close", "caught"}
      BY <1>12, <3>2, PhaseIs DEF NavigationRejected, Phase, Exited
    <3> QED
      BY <1>12, <3>1, <3>2 DEF NavigationRejected, Control
  <2> QED
    BY <1>12, <2>1 DEF NavigationRejected, Forward
<1>13. CASE CountForms
  <2>1. pc \in CheckAt /\ pc = "count"
    BY <1>13 DEF CountForms, CheckAt
  <2>2. CASE Await("signals")
    BY <1>13, <2>1, <2>2, AwaitForward, AwaitsRank DEF CountForms, CheckAt
  <2> QED
    BY <1>13, <2>1, <2>2, AnswerForward, ProbeFailsForward DEF CountForms
<1>14. CASE ProbeSignals
  <2>1. pc \in CheckAt /\ pc = "signals" /\ UNCHANGED attempt
    BY <1>14 DEF ProbeSignals, CheckAt
  <2>2. CASE Answer(Suspicious(doc))
    <3>1. Answer(TRUE) \/ Answer(FALSE)
      BY <2>2 DEF Answer
    <3> QED
      BY <2>1, <3>1, AnswerForward
  <2> QED
    BY <1>14, <2>1, <2>2, ProbeFailsForward DEF ProbeSignals
<1>15. CASE CheckTitle
  <2>1. pc \in CheckAt /\ pc = "title" /\ UNCHANGED attempt
    BY <1>15 DEF CheckTitle, CheckAt
  <2>2. CASE tries < CheckTries - 1 /\ pc' = "count" /\ tries' = tries + 1 /\ UNCHANGED stage
    <3>1. Phase' = Phase
      BY <2>1, <2>2, PhaseIs DEF Phase, CheckAt
    <3> QED
      BY <2>1, <2>2, <3>1, BoundsAssumption DEF Forward, Rounds, GotoAt
  <2>3. CASE Await("lastTitle")
    BY <2>1, <2>3, AwaitForward, AwaitsRank DEF CheckAt
  <2> QED
    BY <1>15, <2>1, <2>2, <2>3, AnswerForward DEF CheckTitle
<1>16. CASE CheckLastTitle
  BY <1>16, AnswerForward DEF CheckLastTitle, CheckAt
<1>17. CASE Gating
  <2>1. pc \in GateAt /\ stage \in Gate /\ UNCHANGED attempt
    BY <1>17 DEF Gating, GateDom, GateSignals, GateCount, GateClick, GateLoad, Control, GateAt
  <2>2. ASSUME NEW p \in GateAt \cup CheckAt, Await(p), AwaitRank(p) < AwaitRank(pc)
        PROVE  Forward
    BY <2>1, <2>2, AwaitForward
  <2>3. CASE EndGate
    BY <2>1, <2>3, EndGateForward
  <2> QED
    BY <1>17, <2>2, <2>3, AwaitsRank
    DEF Gating, GateDom, GateSignals, GateCount, GateClick, GateLoad, GateAt, CheckAt
<1>18. CASE RetryCanonical
  <2>1. Phase = 11
    BY <1>18, PhaseIs DEF RetryCanonical, Phase
  <2>2. {"canonical", "wait"} \subseteq Steps
    BY DEF Steps
  <2> QED
    BY <1>18, <2>1, <2>2, BeginForward, StagesRank DEF RetryCanonical
<1>19. CASE WaitForTitle
  <2>1. Phase = 7 /\ pc \in PageAt
    BY <1>19, PhaseIs DEF WaitForTitle, Phase, PageAt
  <2>2. "check4" \in Steps
    BY DEF Steps, Check
  <2> QED
    BY <1>19, <2>1, <2>2, BeginForward, ThrowForward, StagesRank DEF WaitForTitle
<1>20. CASE RequireTitle
  <2>1. pc \in PageAt /\ pc = "require" /\ UNCHANGED attempt
    BY <1>20 DEF RequireTitle, PageAt
  <2>2. CASE Await("diagCount")
    <3>1. Phase = 5 /\ Phase' = 4
      BY <2>1, <2>2, PhaseIs DEF Phase, Await
    <3> QED
      BY <2>1, <3>1 DEF Forward
  <2>3. CASE Await("clear")
    BY <2>1, <2>3, AwaitForward, AwaitsRank
  <2> QED
    BY <1>20, <2>1, <2>2, <2>3, ThrowForward DEF RequireTitle
<1>21. CASE DiagnoseForms
  BY <1>21, ThrowForward, AwaitForward, AwaitsRank DEF DiagnoseForms, PageAt
<1>22. CASE DiagnoseSignals
  BY <1>22, ThrowForward DEF DiagnoseSignals, PageAt
<1>23. CASE ClearMarkers
  BY <1>23, ThrowForward, AwaitForward, AwaitsRank DEF ClearMarkers, PageAt
<1>24. CASE WriteContent
  <2>1. pc \in PageAt /\ pc = "content" /\ UNCHANGED attempt
    BY <1>24 DEF WriteContent, PageAt
  <2>2. CASE pc' \in {"close", "died"}
    <3>1. Phase = 5 /\ Phase' \in {0, 1, 3}
      BY <2>1, <2>2, PhaseIs DEF Phase, Exited
    <3> QED
      BY <2>1, <3>1 DEF Forward
  <2> QED
    BY <1>24, <2>1, <2>2, ThrowForward DEF WriteContent
<1>25. CASE CloseBrowser
  <2>1. Phase = 3 /\ Phase' \in {0, 1, 2}
    BY <1>25, PhaseIs DEF CloseBrowser, Phase, Exited
  <2> QED
    BY <1>25, <2>1 DEF CloseBrowser, Forward
<1>26. CASE RetryCrash
  BY <1>26 DEF RetryCrash, Retriable, Forward
<1>27. CASE GiveUp
  <2>1. Phase = 2 /\ Phase' \in {0, 1}
    BY <1>27, PhaseIs DEF GiveUp, Phase, Exited
  <2> QED
    BY <1>27, <2>1 DEF GiveUp, Forward
<1>28. CASE Extract
  <2>1. Phase = 1 /\ Phase' = 0
    BY <1>28, PhaseIs DEF Extract, Phase
  <2> QED
    BY <1>28, <2>1 DEF Extract, Forward
<1> QED
  BY <1>1, <1>2, <1>3, <1>4, <1>5, <1>6, <1>7, <1>8, <1>9, <1>10, <1>11, <1>12, <1>13, <1>14,
     <1>15, <1>16, <1>17, <1>18, <1>19, <1>20, <1>21, <1>22, <1>23, <1>24, <1>25, <1>26, <1>27,
     <1>28
  DEF Step, Navigating, Judging, Finishing, Attempting

\* The retry loops of main, of gotoWithTransientRetry and of
\* hasAmazonInterstitial are nested, and what one of them does never gives
\* another one rounds back: every step of the script is one of finitely many
\* that are left, and the page, Chrome and the clock leave its place alone.
OnlyForward ==
    [][/\ Step => Forward
       /\ ~Step => Phase' = Phase /\ UNCHANGED <<attempt, pc, stage, tries>>]_vars

Places == Phase \in 0 .. 20 /\ AwaitRank(pc) \in 0 .. 9 /\ attempt \in 0 .. CrashAttempts - 1

THEOREM CaptureOnlyForward == Spec => OnlyForward /\ []Places
<1>1. ASSUME Typed, [Next]_vars
      PROVE  /\ Step => Forward
             /\ ~Step => Phase' = Phase /\ UNCHANGED <<attempt, pc, stage, tries>>
  <2>1. ASSUME ~Step PROVE UNCHANGED <<attempt, pc, stage, tries, result>>
    BY <1>1, <2>1
    DEF Next, NavigationSettles, DeadlinePasses, Navigates, TitleAppears, TargetCrashes, vars
  <2> QED
    BY <1>1, <2>1, StepForward DEF Phase
<1>2. ASSUME Typed PROVE Places
  <2>1. AwaitRank(pc) \in 0 .. 9
    BY DEF AwaitRank
  <2>2. attempt \in 0 .. CrashAttempts - 1
    BY <1>2 DEF Typed, RunOK
  <2>3. CASE pc \in GotoAt \cup CheckAt \cup GateAt
    <3>1. stage \in Navigations \cup Check \cup Gate
      BY <1>2, <2>3 DEF Typed, Control
    <3> QED
      BY <2>1, <2>2, <2>3, <3>1, PhaseIs, StagesRank DEF Places, Phase, Navigations, Check, Gate
  <2>4. CASE pc \notin GotoAt \cup CheckAt \cup GateAt
    <3>1. pc \in PageAt \cup Exited \cup {"launch", "close", "caught"}
      BY <1>2 DEF Typed, Control
    <3> QED
      BY <2>1, <2>2, <2>4, <3>1, PhaseIs DEF Places, Phase, PageAt
  <2> QED
    BY <2>3, <2>4
<1> QED
  BY <1>1, <1>2, SpecTyped, PTL DEF Spec, OnlyForward

=============================================================================
