--------------------------- MODULE MCGroupMembers ---------------------------
(* Instances of GroupMembers for TLC. *)
EXTENDS GroupMembers

CONSTANTS o, a, b, c, r1, r2, r3

Call(op, by, who) == [op |-> op, by |-> by, who |-> who]

\* What the owner o and a member a may do with each other, with b who applies,
\* and with c.
MCCalls ==
    {Call("invite", o, {b}), Call("invite", o, {a, b}), Call("invite", a, {c}),
     Call("read", a, {}), Call("apply", b, {}),
     Call("agree", o, {}), Call("decline", o, {}), Call("secede", a, {}),
     Call("remove", o, {a}), Call("handover", o, {a}), Call("promote", o, {a}),
     Call("dismiss", o, {})}
=============================================================================
