\* Two result<T, E> and two optional<T> objects, one result<void, E> (its
\* copies and assignments are optional<E>'s), two values of T and two of E:
\* enough for every assignment between alternatives, a move from either, and swap.
CONSTANTS
    r1 = r1  r2 = r2  q1 = q1  o1 = o1  o2 = o2
    v1 = v1  v2 = v2  e1 = e1  e2 = e2
    RSlots <- MCRSlots
    VSlots <- MCVSlots
    OSlots <- MCOSlots
    Vals <- MCVals
    Errs <- MCErrs
SPECIFICATION Spec
INVARIANT TypeOK LifetimeSound
PROPERTY ImplementsValueStore
\* A bad_result_access or bad_optional_access ends the process (nothing
\* in the program catches it), so the states after a throw have no step.
CHECK_DEADLOCK FALSE
