---------------------------- MODULE MCRedEnvelope ----------------------------
\* Small instances of RedEnvelope for TLC.
EXTENDS RedEnvelope

\* Envelope ids and users are only ever compared for equality.
EnvelopeSymmetry == Permutations(Users) \cup Permutations(Envelopes)
==============================================================================
