----------------------------- MODULE AtomicMove -----------------------------
(***************************************************************************)
(* What a durable relocation promises: a session has one home, the home's  *)
(* directory is complete, and a move is one step.  A move that is not yet  *)
(* settled may be undone by a power failure, so the copies it may fall     *)
(* back to are kept.                                                       *)
(***************************************************************************)
CONSTANT Cwds

VARIABLES
    home,    \* where the session lives
    stable,  \* where a power failure may put it
    intact   \* where a complete copy is

vars == <<home, stable, intact>>

Init ==
    /\ home \in Cwds
    /\ stable = {home}
    /\ intact = {home}

Copy(c) ==
    /\ c \notin intact
    /\ intact' = intact \cup {c}
    /\ UNCHANGED <<home, stable>>

Move(c) ==
    /\ c \in intact
    /\ c # home
    /\ home' = c
    /\ stable' = stable \cup {c}
    /\ UNCHANGED intact

Settle ==
    /\ stable' = {home}
    /\ UNCHANGED <<home, intact>>

\* Only a copy that no failure can fall back to may go.
Drop(c) ==
    /\ c \in intact \ stable
    /\ intact' = intact \ {c}
    /\ UNCHANGED <<home, stable>>

PowerFail ==
    /\ home' \in stable
    /\ stable' = {home'}
    /\ intact' \in SUBSET Cwds
    /\ home' \in intact'

Next ==
    \/ \E c \in Cwds : Copy(c) \/ Move(c) \/ Drop(c)
    \/ Settle
    \/ PowerFail

Spec == Init /\ [][Next]_vars
=============================================================================
