------------------------------ MODULE OrderBook ------------------------------
(***************************************************************************)
(* What the C2C market promises, without handlers, requests or jobs: an    *)
(* order goes from open to paid to closed and never back, it takes its     *)
(* quantity from the listing when it opens and returns it once, when it    *)
(* closes; only the seller changes how much the listing offers.            *)
(***************************************************************************)
EXTENDS Naturals

CONSTANTS
  Listings,
  Orders,
  MaxCount     \* bound on the quantity of a listing

VARIABLES
  lot,         \* quantity a listing was offered with
  free,        \* quantity still on offer
  phase,       \* life-cycle of an order
  placedOn,    \* listing an order was placed on
  size         \* quantity of an order

vars == <<lot, free, phase, placedOn, size>>

Init ==
  /\ lot = [l \in Listings |-> 0]
  /\ free = [l \in Listings |-> 0]
  /\ phase = [o \in Orders |-> "none"]
  /\ placedOn \in [Orders -> Listings]
  /\ size = [o \in Orders |-> 0]

\* The seller opens a listing or replaces what it offers.
Offer(l, n) ==
  /\ lot' = [lot EXCEPT ![l] = n]
  /\ free' = [free EXCEPT ![l] = n]
  /\ UNCHANGED <<phase, placedOn, size>>

Open(o, l, n) ==
  /\ phase[o] = "none"
  /\ n <= free[l]
  /\ free' = [free EXCEPT ![l] = @ - n]
  /\ phase' = [phase EXCEPT ![o] = "open"]
  /\ placedOn' = [placedOn EXCEPT ![o] = l]
  /\ size' = [size EXCEPT ![o] = n]
  /\ UNCHANGED lot

Pay(o) ==
  /\ phase[o] = "open"
  /\ phase' = [phase EXCEPT ![o] = "paid"]
  /\ UNCHANGED <<lot, free, placedOn, size>>

\* The quantity comes back, up to what the listing now offers in all.
Close(o) ==
  /\ phase[o] \in {"open", "paid"}
  /\ phase' = [phase EXCEPT ![o] = "closed"]
  /\ LET l == placedOn[o]
     IN  free' = [free EXCEPT ![l] = IF @ + size[o] <= lot[l] THEN @ + size[o] ELSE lot[l]]
  /\ UNCHANGED <<lot, placedOn, size>>

Next ==
  \/ \E l \in Listings, n \in 1..MaxCount : Offer(l, n)
  \/ \E o \in Orders :
       \/ \E l \in Listings, n \in 1..MaxCount : Open(o, l, n)
       \/ Pay(o)
       \/ Close(o)

Spec == Init /\ [][Next]_vars
==============================================================================
