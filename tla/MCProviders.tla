----------------------------- MODULE MCProviders -----------------------------
EXTENDS Providers
=============================================================================
