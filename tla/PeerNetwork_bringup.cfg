\* Two nodes on two hosts, one retry per connect; bring-up stops once
\* the mesh is up or a node has closed.
CONSTANTS
    n1 = n1
    n2 = n2
    Nodes <- MCNodes
    Order <- MCOrder
    Addr <- MCAddrOwn
    Retries = 1
SPECIFICATION Spec
INVARIANT TypeOK
PROPERTY LinksSettle
CHECK_DEADLOCK FALSE
