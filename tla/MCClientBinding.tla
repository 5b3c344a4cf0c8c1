-------------------------- MODULE MCClientBinding --------------------------
\* Small instances of ClientBinding for TLC.
EXTENDS ClientBinding, TLC

CONSTANTS c1, w1, q1

OpenerOf == [id \in Ids |-> <<"open", id>>]
ReaderOf == [id \in Ids |-> <<"read", id>>]
AllGoroutines == Range(OpenerOf) \cup Range(ReaderOf) \cup {w1}
=============================================================================
