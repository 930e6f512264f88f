----------------------------- MODULE MCCoreConfig ----------------------------
EXTENDS CoreConfig
=============================================================================
