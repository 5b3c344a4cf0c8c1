------------------------------- MODULE Quota -------------------------------
(***************************************************************************)
(* What a limit on accounts per device promises                            *)
(* (src/config/app.go, RegisterDeviceLimit): places are granted only while  *)
(* fewer than Limit are out, a place is either kept for good or given back  *)
(* once, and a place that was given back is not granted again to the same  *)
(* attempt.                                                                *)
(***************************************************************************)
EXTENDS Naturals, FiniteSets

CONSTANTS
    Takers,     \* the attempts that may ask for a place
    OwnerOf,    \* the owner each attempt belongs to
    Limit       \* the places of one owner

VARIABLES
    granted,    \* the attempts that hold a place
    kept,       \* those of them that keep it
    returned    \* the attempts that gave theirs back

Held(o) == {t \in granted : OwnerOf[t] = o}

QuotaInit == granted = {} /\ kept = {} /\ returned = {}

Grant(t) ==
    /\ t \notin granted \cup returned
    /\ Cardinality(Held(OwnerOf[t])) < Limit
    /\ granted' = granted \cup {t}
    /\ UNCHANGED <<kept, returned>>

Keep(t) ==
    /\ t \in granted \ kept
    /\ kept' = kept \cup {t}
    /\ UNCHANGED <<granted, returned>>

GiveBack(t) ==
    /\ t \in granted \ kept
    /\ granted' = granted \ {t}
    /\ returned' = returned \cup {t}
    /\ UNCHANGED kept

QuotaNext == \E t \in Takers : Grant(t) \/ Keep(t) \/ GiveBack(t)

QuotaSpec == QuotaInit /\ [][QuotaNext]_<<granted, kept, returned>>
=============================================================================
