----------------------------- MODULE MCConformance -----------------------------
(* Small instances of ConformanceRunner. *)
EXTENDS ConformanceRunner

MCVersions == <<"chrome">>
MCScenarios == <<"sigterm">>
None == << >>

MCContainer == Job
MCKept == Session
MCProbing == SetOf(Versions) \cup {"probe", "boundary", "cookie", "verify"}
MCKind == SetOf(Browsed) \cup {"seed", "verify"}

=============================================================================
