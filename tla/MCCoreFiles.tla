---------------------------- MODULE MCCoreFiles ----------------------------
EXTENDS CoreFiles

\* A behaviour is followed up to its first exception; a race is one with the
\* switch it is part of.
Followed == Cardinality(spoiled \ {"overlap", "config", "raced"}) <= 1
=============================================================================
