--------------------------- MODULE MCTalkSession ---------------------------
(* Instances of TalkSession for TLC. *)
EXTENDS TalkSession, TLC

CONSTANTS a, b, c, d, r1, r2

\* c has pinned d and never written: a row without a link.
OlderRow == <<[user |-> c, peer |-> d, link |-> 0, retain |-> 0]>>

\* The conversation of c and d, as it should be.
OlderPair == <<[user |-> c, peer |-> d, link |-> 1, retain |-> 0],
               [user |-> d, peer |-> c, link |-> 1, retain |-> 0]>>

RequestSymmetry == Permutations(Reqs)
TalkSymmetry    == RequestSymmetry \cup Permutations(Users)
=============================================================================
