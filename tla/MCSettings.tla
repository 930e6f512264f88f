----------------------------- MODULE MCSettings -----------------------------
EXTENDS Settings, FiniteSets

\* A behaviour is followed up to its first mishap.
Followed == Cardinality(spoiled) <= 1
=============================================================================
