--------------------------- MODULE MCThirdPartyPay ---------------------------
\* Small instances of ThirdPartyPay for TLC.
EXTENDS ThirdPartyPay, TLC

\* Orders, numbers and calls are only ever compared for equality.
PaySymmetry == Permutations(Orders) \cup Permutations(Numbers) \cup Permutations(Calls)
==============================================================================
