--------------------------- MODULE MCDummyClients ---------------------------
EXTENDS DummyClients

MCSession == (1 .. Games) \X (1 .. PerGame)
=============================================================================
