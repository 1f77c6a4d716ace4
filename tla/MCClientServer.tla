--------------------------- MODULE MCClientServer ---------------------------
EXTENDS ClientServer, TLC

CONSTANTS c1, c2, s1, s2, f1

MCClients == {c1, c2}
MCServers == {s1, s2}
MCFiles == {f1}
=============================================================================
