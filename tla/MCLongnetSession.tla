--------------------------- MODULE MCLongnetSession ---------------------------
\* Small instances of LongnetSession for TLC.
EXTENDS LongnetSession, TLC

CONSTANTS c1, c2, w1

OpenerOf == [id \in Ids |-> <<"open", id>>]
ReaderOf == [id \in Ids |-> <<"read", id>>]
AllGoroutines == Range(OpenerOf) \cup Range(ReaderOf) \cup {w1}

ConnectionSymmetry == Permutations(Ids)
=============================================================================
