------------------------------ MODULE Optional ------------------------------
(***************************************************************************)
(* util::optional<T> (src/src/util/optional.h).  An object is a record:   *)
(*                                                                         *)
(*   init  initialized_                                                    *)
(*   live  whether a T object exists in storage_ (the placement new and   *)
(*         the explicit ~T() calls decide it, not the flag)                *)
(*   v     the value of that object                                        *)
(*   bad   whether some step did something undefined to storage_: a T     *)
(*         constructed over a live one, or a destructor or an assignment  *)
(*         applied where no T lives                                        *)
(*                                                                         *)
(* A value moved from stays a valid T with an unspecified value, Moved.   *)
(* The overloads for const&, & and && differ only in whether the value    *)
(* is copied or moved; the caller of these operators says which.          *)
(***************************************************************************)

\* storage_ holds no object.
NoValue == "novalue"

\* The value a T has after it has been moved from.
Moved == "moved"

\* What an access on the wrong alternative does: bad_optional_access (or
\* bad_result_access) is thrown.
Throw == "throw"

\* Record the undefined behaviour of a step on o when c holds.
Flag(o, c) == [o EXCEPT !.bad = @ \/ c]

\* is_initialized() and has_value(): initialized_.
IsInitialized(o) == o.init

\* optional_base() and optional_base(none_t): initialized_(false).
Empty == [init |-> FALSE, live |-> FALSE, v |-> NoValue, bad |-> FALSE]

\* construct(val), construct(in_place_init, args): placement new of a T
\* into storage_, then initialized_ = true.
Construct(o, x) == [Flag(o, o.live) EXCEPT !.init = TRUE, !.live = TRUE, !.v = x]

\* destroy_impl(): ~T() on storage_, then initialized_ = false.
DestroyImpl(o) ==
    [Flag(o, ~o.live) EXCEPT !.init = FALSE, !.live = FALSE, !.v = NoValue]

\* destroy(): destroy_impl() only when initialized_.
Destroy(o) == IF IsInitialized(o) THEN DestroyImpl(o) ELSE o

\* assign_value(val): get_impl() = val.
AssignValue(o, x) == [Flag(o, ~o.live) EXCEPT !.v = x]

\* optional(val), optional(T&&) and the in-place constructor: an empty
\* base, then construct.
Of(x) == Construct(Empty, x)

\* The copy and move constructors, and those from a compatible optional:
\* an empty base, then construct from rhs's value if rhs has one.
CopyOf(rhs) == IF IsInitialized(rhs) THEN Construct(Empty, rhs.v) ELSE Empty

\* What a move leaves in rhs: still initialized, with a moved-from value.
MovedFrom(o) == IF IsInitialized(o) THEN [o EXCEPT !.v = Moved] ELSE o

\* An assignment from an empty rhs that keeps the old value.
AssignNoReset(o, rhs) ==
    IF o.init
    THEN IF rhs.init THEN AssignValue(o, rhs.v) ELSE o
    ELSE IF rhs.init THEN Construct(o, rhs.v) ELSE o

\* assign(rhs) for optional_base and optional_base<U>, by copy or move
\* (operator= of both): assign the value, destroy, construct or nothing.
Assign(o, rhs) ==
    IF IsInitialized(o)
    THEN IF IsInitialized(rhs) THEN AssignValue(o, rhs.v) ELSE Destroy(o)
    ELSE IF IsInitialized(rhs) THEN Construct(o, rhs.v) ELSE o

\* assign(val), by copy or move (operator=(U&&)).
AssignVal(o, x) == IF IsInitialized(o) THEN AssignValue(o, x) ELSE Construct(o, x)

\* emplace(args): emplace_assign, which destroys, then constructs.
Emplace(o, x) == Construct(Destroy(o), x)

\* value(): the value, or bad_optional_access.
Value(o) == IF IsInitialized(o) THEN o.v ELSE Throw

\* value_or(other): the value, or other.
ValueOr(o, d) == IF IsInitialized(o) THEN o.v ELSE d

\* map(f): an optional of f's result, or none (f a function).
MapWith(f, o) == IF IsInitialized(o) THEN Of(f[o.v]) ELSE Empty
=============================================================================
