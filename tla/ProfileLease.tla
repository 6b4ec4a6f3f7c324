---------------------------- MODULE ProfileLease ----------------------------
(***************************************************************************)
(* What the managed profile promises: the profile is leased to one session *)
(* at a time, only its holder runs Chrome on it, one at a time, and the    *)
(* lease ends only when no Chrome of the holder is left.                   *)
(***************************************************************************)
CONSTANTS Session,      \* who may hold the lease
          Browser       \* tuples; a browser is of the session it begins with

VARIABLES holders,      \* the session that holds the lease, if any does
          browsing      \* the browser that runs on the profile, if any does

vars == <<holders, browsing>>

Init == holders = {} /\ browsing = {}

Grant(s) == /\ holders = {}
            /\ holders' = {s}
            /\ UNCHANGED browsing

StartBrowser(b) == /\ holders = {b[1]}
                   /\ browsing = {}
                   /\ browsing' = {b}
                   /\ UNCHANGED holders

StopBrowser == /\ browsing # {}
               /\ browsing' = {}
               /\ UNCHANGED holders

\* The last process of the holder ends, possibly a Chrome.
Return == /\ holders # {}
          /\ holders' = {}
          /\ browsing' = {}

Next == \/ \E s \in Session : Grant(s)
        \/ \E b \in Browser : StartBrowser(b)
        \/ StopBrowser
        \/ Return

Spec == Init /\ [][Next]_vars

=============================================================================
