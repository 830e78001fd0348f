------------------------------ MODULE MCOnion ------------------------------
EXTENDS Onion, SequencesExt

CONSTANTS a, b, MaxHops, Lengths

Hops == [node : {a, b}, length : Lengths]

\* A route may visit a node again, and may be empty.
SmallRoutes == BoundedSeq(Hops, MaxHops)
=============================================================================
