------------------------------- MODULE Collector -------------------------------
(***************************************************************************)
(* The diagnostic endpoint of the conformance runner: HTTP handlers record *)
(* navigations and observations under one mutex, and waiters look at them  *)
(* and sleep on one channel that holds one token.  The handler of the seed *)
(* observation answers only when the runner releases it.                   *)
(*                                                                         *)
(* A request that is refused changes nothing and is left out; so is a      *)
(* signal after the one that filled the channel.  An action is what a      *)
(* handler does under the mutex, with the signal that follows.             *)
(***************************************************************************)

CONSTANTS
    Kind,       \* what browsers report: the paths of the endpoint
    Cookied,    \* reports that need the cookie of the run
    Seed        \* the report whose navigation sets it, and that is held

ASSUME KindAssumption == Seed \in Cookied /\ Cookied \subseteq Kind

VARIABLES
    navigated,  \* reports whose navigation was recorded
    observed,   \* reports that were recorded
    marked,     \* cookied reports that were also marked
    handler,    \* the request that carries a cookied report
    released,   \* profileSeedRelease is closed
    token,      \* the channel "updated" is full
    waiter      \* the goroutine that waits for a report

collectorVars == <<navigated, observed, marked, handler, released, token, waiter>>

CollectorTypeOK ==
    /\ navigated \in SUBSET Kind
    /\ observed \in SUBSET Kind
    /\ marked \in SUBSET Cookied
    /\ handler \in [Cookied -> {"idle", "recorded", "held", "answered", "dropped"}]
    /\ released \in BOOLEAN
    /\ token \in BOOLEAN
    /\ waiter \in [Kind -> {"idle", "checking", "blocked", "seen", "failed"}]

CollectorInit ==
    /\ navigated = {}
    /\ observed = {}
    /\ marked = {}
    /\ handler = [k \in Cookied |-> "idle"]
    /\ released = FALSE
    /\ token = FALSE
    /\ waiter = [k \in Kind |-> "idle"]

-----------------------------------------------------------------------------
(* Handlers *)

\* GET: the first navigation is kept, and each one signals.
Navigate(k) ==
    /\ navigated' = navigated \cup {k}
    /\ token' = TRUE
    /\ UNCHANGED <<observed, marked, handler, released, waiter>>

\* POST: recordObservation.
Observe(k) ==
    /\ k \in navigated \ observed
    /\ observed' = observed \cup {k}
    /\ token' = TRUE
    /\ handler' = IF k \in Cookied THEN [handler EXCEPT ![k] = "recorded"] ELSE handler
    /\ UNCHANGED <<navigated, marked, released, waiter>>

\* Mutant of Mark: no signal.
MarkSilently(k) ==
    /\ handler[k] = "recorded"
    /\ marked' = marked \cup {k}
    /\ handler' = [handler EXCEPT ![k] = IF k = Seed THEN "held" ELSE "answered"]
    /\ UNCHANGED <<navigated, observed, released, token, waiter>>

\* markProfileSeedObserved and markProfileVerifyObserved
Mark(k) ==
    /\ handler[k] = "recorded"
    /\ marked' = marked \cup {k}
    /\ token' = TRUE
    /\ handler' = [handler EXCEPT ![k] = IF k = Seed THEN "held" ELSE "answered"]
    /\ UNCHANGED <<navigated, observed, released, waiter>>

Answer ==
    /\ handler[Seed] = "held"
    /\ released
    /\ handler' = [handler EXCEPT ![Seed] = "answered"]
    /\ UNCHANGED <<navigated, observed, marked, released, token, waiter>>

\* The client is gone, and the context of its request ends.
Drop ==
    /\ handler[Seed] = "held"
    /\ handler' = [handler EXCEPT ![Seed] = "dropped"]
    /\ UNCHANGED <<navigated, observed, marked, released, token, waiter>>

Held == \E k \in Cookied : handler[k] \in {"recorded", "held"}

-----------------------------------------------------------------------------
(* Wait and waitProfileCondition *)

Ready(k) == k \in (IF k \in Cookied THEN marked ELSE observed)

Waiting(k, to) ==
    /\ waiter' = [waiter EXCEPT ![k] = to]
    /\ UNCHANGED <<navigated, observed, marked, handler, released>>

Check(k) ==
    /\ waiter[k] = "checking"
    /\ Waiting(k, IF Ready(k) THEN "seen" ELSE "blocked")
    /\ UNCHANGED token

Wake(k) ==
    /\ waiter[k] = "blocked"
    /\ token
    /\ token' = FALSE
    /\ Waiting(k, "checking")

\* Its context is done.
Expire(k) ==
    /\ waiter[k] = "blocked"
    /\ Waiting(k, "failed")
    /\ UNCHANGED token

-----------------------------------------------------------------------------

\* No wake-up is lost: who sleeps although its report is there has a token to
\* wake up to.  The channel holds one token for all, so this needs that nobody
\* else takes it.
NoLostWakeup ==
    \A k \in Kind : waiter[k] = "blocked" /\ Ready(k) => token

=============================================================================
