--------------------------- MODULE MCRegistration ---------------------------
(* Instances of Registration for TLC. *)
EXTENDS Registration

CONSTANTS r1, r2, r3, d1, e1, e2

\* Two requests of one device and one address, a third of the same device.
MCDeviceOf == [r \in Reqs |-> d1]
MCEmailOf  == [r \in Reqs |-> IF r = r3 THEN e2 ELSE e1]
=============================================================================
