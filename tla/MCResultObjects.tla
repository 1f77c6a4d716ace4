------------------------- MODULE MCResultObjects -------------------------
EXTENDS ResultObjects

CONSTANTS r1, r2, q1, o1, o2, v1, v2, e1, e2

MCRSlots == {r1, r2}
MCVSlots == {q1}
MCOSlots == {o1, o2}
MCVals == {v1, v2}
MCErrs == {e1, e2}
=============================================================================
