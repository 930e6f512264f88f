------------------------------- MODULE MCTgBot -------------------------------
EXTENDS TgBot
=============================================================================
