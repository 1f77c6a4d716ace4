\* Two nodes on two hosts, one retry per connect: is every started node's
\* engine eventually told whether the network is up?
CONSTANTS
    n1 = n1
    n2 = n2
    Nodes <- MCNodes
    Order <- MCOrder
    Addr <- MCAddrOwn
    Retries = 1
SPECIFICATION Spec
PROPERTY NetworkAnswers
CHECK_DEADLOCK FALSE
