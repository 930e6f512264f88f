----------------------------- MODULE MCCrontab -----------------------------
EXTENDS Crontab

\* No property speaks of what follows one of these.
Followed == mishaps \cap {"overlap", "abandoned"} = {}
=============================================================================
