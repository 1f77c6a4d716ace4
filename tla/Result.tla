------------------------------- MODULE Result -------------------------------
(***************************************************************************)
(* util::result<T, E> and util::result<void, E> (src/src/util/result.h).  *)
(*                                                                         *)
(* A result<T, E> object is a record:                                      *)
(*                                                                         *)
(*   err   error_                                                          *)
(*   live  which object exists in storage_: "ok" (a T), "err" (an E) or   *)
(*         "none"; placement new and the explicit destructor calls decide *)
(*         it, not the flag                                                *)
(*   v     the value of that object                                        *)
(*   bad   whether some step did something undefined to storage_ (as in   *)
(*         Optional)                                                       *)
(*                                                                         *)
(* A result<void, E> is its member error_, an optional<E>: its records    *)
(* are those of Optional, and it is ok exactly when error_ is empty.       *)
(*                                                                         *)
(* The const&, & and && overloads differ only in what they move; the      *)
(* caller of these operators says which.  The callbacks of map, map_err   *)
(* and and_then are passed as functions.                                   *)
(***************************************************************************)
Opt == INSTANCE Optional

\* The alternative error_ names.
Alt(r) == IF r.err THEN "err" ELSE "ok"

\* A result_base before any constructor body has run: storage_ holds
\* nothing and error_ is not yet set.
Raw == [err |-> FALSE, live |-> "none", v |-> Opt!NoValue, bad |-> FALSE]

\* construct(ok | err, val), construct(ok | err, in_place_init, args):
\* placement new of a T or an E into storage_, then error_ is set.
Construct(r, alt, x) ==
    [Opt!Flag(r, r.live # "none")
        EXCEPT !.err = (alt = "err"), !.live = alt, !.v = x]

\* destroy(): ~T() when is_ok(), else ~E(); error_ is left as it is.
Destroy(r) ==
    [Opt!Flag(r, r.live # Alt(r)) EXCEPT !.live = "none", !.v = Opt!NoValue]

\* assign_value(ok | err, val): get_ok_impl() or get_err_impl() = val,
\* then error_ is set.
AssignValue(r, alt, x) ==
    [Opt!Flag(r, r.live # alt) EXCEPT !.v = x, !.err = (alt = "err")]

\* The constructors of result_base and result from an ok or an error
\* value, explicit, implicit or in place.
Of(alt, x) == Construct(Raw, alt, x)

\* A copy constructor that drops the is_ok() test and always constructs a T.
CopyOfAlwaysOk(rhs) == Construct(Raw, "ok", rhs.v)

\* result_base(const result_base&) and result_base(result_base&&).
CopyOf(rhs) == Construct(Raw, Alt(rhs), rhs.v)

\* What result_base(result_base&&) and assign(result_base&&) leave in rhs:
\* the object it holds, moved from.
MovedFrom(r) == [r EXCEPT !.v = Opt!Moved]

\* A switching assignment that constructs without destroy().
AssignNoDestroy(r, rhs) ==
    IF Alt(r) = Alt(rhs)
    THEN AssignValue(r, Alt(rhs), rhs.v)
    ELSE Construct(r, Alt(rhs), rhs.v)

\* assign(const result_base&) and assign(result_base&&), through
\* operator=: the same alternative is assigned, another one is destroyed
\* and constructed.
Assign(r, rhs) ==
    IF Alt(r) = Alt(rhs)
    THEN AssignValue(r, Alt(rhs), rhs.v)
    ELSE Construct(Destroy(r), Alt(rhs), rhs.v)

\* emplace(ok | err, args): emplace_assign, which destroys, then
\* constructs.
Emplace(r, alt, x) == Construct(Destroy(r), alt, x)

\* ok() and err(): the value of that alternative, or bad_result_access.
Get(r, alt) == IF Alt(r) = alt THEN r.v ELSE Opt!Throw

\* ok_or(other) and err_or(other): the value of that alternative, or other.
GetOr(r, alt, d) == IF Alt(r) = alt THEN r.v ELSE d

\* and_then(f): f's result when ok, else a result with a copy of the error.
AndThen(f, r) == IF Alt(r) = "ok" THEN f[r.v] ELSE Of("err", r.v)

\* map(f): a result of f applied to the value, else of a copy of the error.
Map(f, r) == IF Alt(r) = "ok" THEN Of("ok", f[r.v]) ELSE Of("err", r.v)

\* map_err(f): a result of a copy of the value, else of f applied to the
\* error.
MapErr(g, r) ==
    IF Alt(r) = "ok" THEN Of("ok", r.v) ELSE Of("err", g[r.v])

-----------------------------------------------------------------------------
(* result<void, E>: an optional<E> error_.                                 *)

\* result(), result(ok_t): base(ok), error_ default-constructed.
VoidOk == Opt!Empty

\* The constructors from an error: error_ constructed from it.
VoidErr(e) == Opt!Of(e)

\* is_ok(): !error_.has_value().
VoidIsOk(q) == ~q.init

\* emplace(ok) and set_ok(): destroy(), which is error_.reset().
SetOk(q) == Opt!Destroy(q)

\* emplace(err, args): emplace_assign, which is error_.emplace(args).
EmplaceErr(q, e) == Opt!Emplace(q, e)

\* err(): error_.get() when is_err(), else bad_result_access.
VoidGetErr(q) == IF VoidIsOk(q) THEN Opt!Throw ELSE q.v

\* err_or(other): error_.get() when is_err(), else other.
VoidErrOr(q, d) == IF VoidIsOk(q) THEN d ELSE q.v

\* and_then(f): f()'s result<U, E> when ok, else one with a copy of the
\* error.
VoidAndThen(fr, q) == IF VoidIsOk(q) THEN fr ELSE Of("err", q.v)

\* map(f): result<U, E> of f()'s value when ok, else of a copy of the
\* error.
VoidMap(x, q) == IF VoidIsOk(q) THEN Of("ok", x) ELSE Of("err", q.v)

\* map_err(f): result<void, R>: ok, or of f applied to the error.
VoidMapErr(g, q) == IF VoidIsOk(q) THEN VoidOk ELSE VoidErr(g[q.v])
=============================================================================
