--------------------------- MODULE MCPeerNetwork ---------------------------
EXTENDS PeerNetwork, TLC

CONSTANTS n1, n2

MCNodes == {n1, n2}
MCOrder == <<n1, n2>>

\* One host per node: a node's address is its own.
MCAddrOwn == [n \in Nodes |-> n]
=============================================================================
