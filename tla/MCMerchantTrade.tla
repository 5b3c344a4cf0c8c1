-------------------------- MODULE MCMerchantTrade --------------------------
(* Instances of MerchantTrade for TLC. *)
EXTENDS MerchantTrade, TLC

CONSTANTS m1, t1, t2, o1, o2, r1, r2, s1, s2

OneOwner == [t \in Tasks |-> m1]
TwoSides == {"buyer", "seller"}
Deposit  == [m \in Merchants |-> MaxCount]

TradeSymmetry == Permutations(Orders) \cup Permutations(Sweepers) \cup Permutations(Reqs)
=============================================================================
