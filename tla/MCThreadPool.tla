---------------------------- MODULE MCThreadPool ----------------------------
EXTENDS ThreadPool

CONSTANTS w1, w2

\* Two workers (the program uses eight).
MCWorkers == {w1, w2}
=============================================================================
