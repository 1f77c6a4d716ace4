----------------------------- MODULE ValueStore -----------------------------
(***************************************************************************)
(* What result<T, E>, result<void, E> and optional<T> promise, in the     *)
(* words of their header comments: each object holds one value (an ok     *)
(* value or an error; an error or nothing; a value or none), copies and   *)
(* moves carry it, a move leaves the source with an unspecified value of  *)
(* the same alternative, map applies the function only to the value       *)
(* ("if the result contains an error value, the same error is copied and  *)
(* returned"), map_err only to the error, and_then returns the function's *)
(* result only when ok, and an access to an absent value throws.  Nothing *)
(* here says how the storage is managed.                                   *)
(*                                                                         *)
(* val[s] is [tag, x]: tag "ok" or "err" for a result, "some" or "none"   *)
(* for an optional; x the value, NoPayload for a void ok or a none.       *)
(* call names the kind of each step, so that one kind of call cannot pass *)
(* for another.                                                            *)
(***************************************************************************)
CONSTANTS RSlots, VSlots, OSlots, Vals, Errs,
          Moved,   \* a moved-from value
          F(_),    \* map's function on values
          G(_),    \* map_err's function on errors
          FRA(_)   \* and_then's function, from a value to a result

VARIABLES val, stopped,
          call   \* the kind of the last call

Slots == RSlots \cup VSlots \cup OSlots

NoPayload == "nopayload"

Gone == [tag |-> "dead", x |-> NoPayload]

Alive == {s \in Slots : val[s] # Gone}

\* The values a constructor or a setter can give an object of slot s.
Fresh(s) ==
    IF s \in RSlots
    THEN [tag : {"ok"}, x : Vals] \cup [tag : {"err"}, x : Errs]
    ELSE IF s \in VSlots
    THEN {[tag |-> "ok", x |-> NoPayload]} \cup [tag : {"err"}, x : Errs]
    ELSE {[tag |-> "none", x |-> NoPayload]} \cup [tag : {"some"}, x : Vals]

Kind(s) == IF s \in RSlots THEN 1 ELSE IF s \in VSlots THEN 2 ELSE 3

\* The value a move leaves behind.
Emptied(a) == IF a.x = NoPayload THEN a ELSE [a EXCEPT !.x = Moved]

\* What map, map_err and and_then return, per kind of source.
Mapped(s, op, a) ==
    CASE s \in RSlots /\ op = "map" ->
              {IF a.tag = "ok" THEN [a EXCEPT !.x = F(a.x)] ELSE a}
      [] s \in RSlots /\ op = "map_err" ->
              {IF a.tag = "err" THEN [a EXCEPT !.x = G(a.x)] ELSE a}
      [] s \in RSlots /\ op = "and_then" ->
              {IF a.tag = "ok" THEN FRA(a.x) ELSE a}
      [] s \in VSlots /\ op = "map" ->
              IF a.tag = "ok" THEN [tag : {"ok"}, x : Vals] ELSE {a}
      [] s \in VSlots /\ op = "and_then" ->
              IF a.tag = "ok" THEN Fresh(CHOOSE r \in RSlots : TRUE) ELSE {a}
      [] s \in VSlots /\ op = "map_err" ->
              {IF a.tag = "err" THEN [a EXCEPT !.x = G(a.x)] ELSE a}
      [] s \in OSlots ->
              {IF a.tag = "some" THEN [a EXCEPT !.x = F(a.x)] ELSE a}

Init == val = [s \in Slots |-> Gone] /\ stopped = FALSE /\ call = "none"

Make(s) ==
    /\ val[s] = Gone
    /\ \E a \in Fresh(s) : val' = [val EXCEPT ![s] = a]
    /\ call' = "new"

\* A copy or a move, into a new object or over an existing one.
Copy(d, s) ==
    /\ s \in Alive /\ d # s /\ Kind(d) = Kind(s)
    /\ \E w \in {val[s], Emptied(val[s])} :
          val' = [val EXCEPT ![s] = w, ![d] = val[s]]
    /\ call' = "copy"

\* emplace, set_ok, reset, assignment of a value.
Overwrite(s) ==
    /\ s \in Alive
    /\ \E a \in Fresh(s) : val' = [val EXCEPT ![s] = a]
    /\ call' = "set"

\* A read that moves the value out.
Drain(s) ==
    /\ s \in Alive /\ val[s].x # NoPayload
    /\ val' = [val EXCEPT ![s] = Emptied(val[s])]
    /\ call' = "drain"

\* map, map_err or and_then from s into d, the source possibly moved from.
Apply(d, s, op) ==
    /\ s \in Alive
    /\ \E a \in Mapped(s, op, val[s]), w \in {val[s], Emptied(val[s])} :
          val' = [val EXCEPT ![s] = w, ![d] = a]
    /\ call' = op

Swap(a, b) ==
    /\ {a, b} \subseteq Alive /\ a # b /\ Kind(a) = Kind(b)
    /\ val' = [val EXCEPT ![a] = val[b], ![b] = val[a]]
    /\ call' = "swap"

Kill(s) ==
    /\ s \in Alive /\ val' = [val EXCEPT ![s] = Gone]
    /\ call' = "kill"

\* An access to a value that is not there throws, which ends the process.
Fail(s) ==
    /\ s \in Alive /\ (s \in RSlots \/ val[s].x = NoPayload)
    /\ stopped' = TRUE /\ UNCHANGED val
    /\ call' = "fail"

\* Each disjunct is a kind of call, named first.
Next ==
    /\ ~stopped
    /\ \/ call' \in {"new", "set", "drain", "kill"} /\ UNCHANGED stopped
          /\ \E s \in Slots : Make(s) \/ Overwrite(s) \/ Drain(s) \/ Kill(s)
       \/ call' \in {"copy", "swap"} /\ UNCHANGED stopped
          /\ \E d, s \in Slots : Copy(d, s) \/ Swap(d, s)
       \/ call' \in {"map", "map_err", "and_then"} /\ UNCHANGED stopped
          /\ \E d, s \in Slots : Apply(d, s, call')
       \/ call' = "fail" /\ \E s \in Slots : Fail(s)

Spec == Init /\ [][Next]_<<val, stopped, call>>
=============================================================================
