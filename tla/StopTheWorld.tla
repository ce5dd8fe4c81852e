------------------------- MODULE StopTheWorld -------------------------
(* What the handshake of the collector promises, without locks, barriers *)
(* or nannies: a collection marks with a fixed team, the team is every   *)
(* registered thread, and each member of it sweeps exactly once before   *)
(* the next collection marks.                                            *)
CONSTANT Threads

VARIABLES
    registered,  \* threads that own a collector
    marking,     \* a collection is marking
    unswept      \* threads that still owe the sweep of the last collection

vars == <<registered, marking, unswept>>

Init == registered = {} /\ marking = FALSE /\ unswept = {}

\* Threads come and go, but never while a collection marks.
Join(t) ==
    /\ ~marking /\ t \notin registered
    /\ registered' = registered \cup {t}
    /\ UNCHANGED <<marking, unswept>>

Leave(t) ==
    /\ ~marking /\ t \in registered \ unswept
    /\ registered' = registered \ {t}
    /\ UNCHANGED <<marking, unswept>>

StartMarking ==
    /\ ~marking /\ unswept = {} /\ registered # {}
    /\ marking' = TRUE
    /\ UNCHANGED <<registered, unswept>>

EndMarking ==
    /\ marking
    /\ marking' = FALSE
    /\ unswept' = registered
    /\ UNCHANGED registered

Sweep(t) ==
    /\ t \in unswept
    /\ unswept' = unswept \ {t}
    /\ UNCHANGED <<registered, marking>>

Next ==
    \/ \E t \in Threads : Join(t) \/ Leave(t) \/ Sweep(t)
    \/ StartMarking \/ EndMarking

Safe == Init /\ [][Next]_vars

\* Marking ends and every thread gets to sweep; nobody need start.
Spec ==
    /\ Safe
    /\ WF_vars(EndMarking)
    /\ \A t \in Threads : WF_vars(Sweep(t))
=======================================================================
