------------------------- MODULE MCCarrierServices -------------------------
\* CarrierServiceLoops on small instances: see the .cfg file for the bounds.
EXTENDS CarrierServiceLoops

CONSTANTS s1, s2, s3

MCService == {s1, s2, s3}

MCSymmetry == Permutations(Service)
==============================================================================
