--------------------------- MODULE ResultObjects ---------------------------
(***************************************************************************)
(* A program's use of util::result<T, E>, util::result<void, E> and        *)
(* util::optional<T> (src/src/util/result.h, optional.h): a few objects of *)
(* each kind, each step one call of the public interface on them: a        *)
(* constructor (by value, by copy or by move), an assignment, emplace,     *)
(* set_ok, reset, an accessor, map, map_err, and_then, swap, or the        *)
(* destructor.  obj[s] is the record of the object in slot s (Optional and *)
(* Result), or Dead while none lives there.  Nothing in the program        *)
(* catches an exception, so a bad_result_access or bad_optional_access     *)
(* ends the process (halted).  misuse records that some step constructed   *)
(* over a live object, or destroyed or assigned one that does not exist.  *)
(*                                                                         *)
(* The callbacks of map, map_err and and_then are fixed functions of their *)
(* argument (F, G, FR); a callback of result<void, E> takes no argument,   *)
(* so its result is any value.  A callback given an rvalue may or may not  *)
(* move from it.  Reads that copy change nothing and are left out; reads   *)
(* that move, and reads that throw, are steps.                             *)
(***************************************************************************)
EXTENDS TLC

CONSTANTS RSlots,  \* slots holding a result<T, E>
          VSlots,  \* slots holding a result<void, E>
          OSlots,  \* slots holding an optional<T>
          Vals,    \* values of T
          Errs     \* values of E

Opt == INSTANCE Optional
Res == INSTANCE Result

Slots == RSlots \cup VSlots \cup OSlots

ASSUME RSlots \cap VSlots = {} /\ RSlots \cap OSlots = {} /\ VSlots \cap OSlots = {}
ASSUME Opt!Moved \notin Vals \cup Errs

VARIABLES obj, halted, misuse,
          call,  \* the kind of the last call, a ghost for ValueStore
          seen   \* seen[s] = Seen(s, obj[s]), kept for ValueStore

vars == <<obj, halted, misuse, call, seen>>

Ops == {"map", "map_err", "and_then"}

\* No object lives in the slot.
Dead == [bad |-> FALSE]

Live == {s \in Slots : obj[s] # Dead}

\* The callbacks: F maps a T, G an E, FR a T to a result<T, E>.
F(x) == IF x \in Vals THEN CHOOSE y \in Vals : y # x ELSE x
G(e) == IF e \in Errs THEN CHOOSE y \in Errs : y # e ELSE e
FR(x) == IF x = CHOOSE y \in Vals : TRUE THEN Res!Of("ok", F(x))
         ELSE Res!Of("err", CHOOSE e \in Errs : TRUE)

\* The same, as the functions map, map_err and and_then are passed.
FFun == [x \in Vals \cup {Opt!Moved} |-> F(x)]
GFun == [e \in Errs \cup {Opt!Moved} |-> G(e)]
FRFun == [x \in Vals \cup {Opt!Moved} |-> FR(x)]

\* The objects a constructor from a value makes in slot s.
NewObjects(s) ==
    IF s \in RSlots
    THEN {Res!Of("ok", x) : x \in Vals} \cup {Res!Of("err", e) : e \in Errs}
    ELSE IF s \in VSlots
    THEN {Res!VoidOk} \cup {Res!VoidErr(e) : e \in Errs}
    ELSE {Opt!Empty} \cup {Opt!Of(x) : x \in Vals}

SameKind(a, b) ==
    \/ a \in RSlots /\ b \in RSlots
    \/ a \in VSlots /\ b \in VSlots
    \/ a \in OSlots /\ b \in OSlots

\* The copy or move constructor, the assignment, what a move leaves in its
\* source, and the destructor, of the object in slot s (result<void, E>
\* has its optional error_'s, being defaulted).
CopyOfK(s, o) == IF s \in RSlots THEN Res!CopyOf(o) ELSE Opt!CopyOf(o)
AssignK(s, o, rhs) ==
    IF s \in RSlots THEN Res!Assign(o, rhs) ELSE Opt!Assign(o, rhs)
MovedFromK(s, o) == IF s \in RSlots THEN Res!MovedFrom(o) ELSE Opt!MovedFrom(o)
DestroyK(s, o) == IF s \in RSlots THEN Res!Destroy(o) ELSE Opt!Destroy(o)

\* What an rvalue source is left with when a callback or a read may move
\* its value.
MaybeMoved(s, o) == {o, MovedFromK(s, o)}

\* The records of a result<T, E> and of an optional<X>: storage_ holds a
\* value of the type it was constructed as, or nothing.
RRecords ==
    LET Rec(l, V) == [err : BOOLEAN, live : {l}, v : V, bad : BOOLEAN]
    IN  Rec("ok", Vals \cup {Opt!Moved}) \cup Rec("err", Errs \cup {Opt!Moved})
        \cup Rec("none", {Opt!NoValue})
ORecords(X) ==
    [init : BOOLEAN, live : {TRUE}, v : X \cup {Opt!Moved}, bad : BOOLEAN] \cup
    [init : BOOLEAN, live : {FALSE}, v : {Opt!NoValue}, bad : BOOLEAN]

TypeOK ==
    /\ \A s \in Slots :
          obj[s] \in {Dead} \cup CASE s \in RSlots -> RRecords
                                  [] s \in VSlots -> ORecords(Errs)
                                  [] OTHER -> ORecords(Vals)
    /\ halted \in BOOLEAN
    /\ misuse \in BOOLEAN
    /\ call \in {"none", "new", "copy", "set", "drain", "fail", "kill", "swap"} \cup Ops

\* What an object holds, seen as the value the header comments speak of
\* ("dead" and "nopayload" are ValueStore's Gone and NoPayload).
Seen(s, o) ==
    CASE o = Dead -> [tag |-> "dead", x |-> "nopayload"]
      [] s \in RSlots -> [tag |-> Res!Alt(o), x |-> o.v]
      [] s \in VSlots /\ o.init -> [tag |-> "err", x |-> o.v]
      [] s \in VSlots -> [tag |-> "ok", x |-> "nopayload"]
      [] o.init -> [tag |-> "some", x |-> o.v]
      [] OTHER -> [tag |-> "none", x |-> "nopayload"]

Init ==
    /\ obj = [s \in Slots |-> Dead]
    /\ halted = FALSE
    /\ misuse = FALSE
    /\ call = "none"
    /\ seen = [s \in Slots |-> Seen(s, Dead)]

\* The step, a call of kind c, puts the objects of f in their slots; the records in gone are
\* temporaries or objects destroyed by it.
Update(c, f, gone) ==
    /\ obj' = f @@ obj
    /\ misuse' = (misuse \/ \E o \in {f[s] : s \in DOMAIN f} \cup gone : o.bad)
    /\ call' = c
    /\ seen' = [s \in Slots |-> Seen(s, obj'[s])]
    /\ UNCHANGED halted

\* An accessor called on the wrong alternative throws.
Throws == halted' = TRUE /\ call' = "fail" /\ UNCHANGED <<obj, misuse, seen>>

\* The result of a call op that makes a temporary tmp and puts it in slot d,
\* from slot s left as src: a dead d is constructed in place (the copy is
\* elided), a live one is move-assigned the temporary, which is then
\* destroyed.  With d = s the source is assigned over.
Place(op, d, s, src, tmp) ==
    LET dst == IF d = s THEN src ELSE obj[d]
    IN  Update(op, (d :> IF dst = Dead THEN tmp ELSE AssignK(d, dst, tmp)) @@ (s :> src),
               IF dst = Dead THEN {} ELSE {DestroyK(d, MovedFromK(d, tmp))})

-----------------------------------------------------------------------------
(* The calls common to the three kinds.                                    *)

\* A constructor from a value, or the default one.
New(s) ==
    /\ ~halted /\ obj[s] = Dead
    /\ \E o \in NewObjects(s) : Update("new", s :> o, {})

\* The copy constructor, or with mv the move constructor.
CopyNew(d, s, mv) ==
    /\ ~halted /\ obj[d] = Dead /\ s \in Live /\ SameKind(d, s)
    /\ Update("copy", (d :> CopyOfK(d, obj[s])) @@
              (s :> IF mv THEN MovedFromK(s, obj[s]) ELSE obj[s]), {})

\* The copy assignment, or with mv the move assignment.
AssignFrom(d, s, mv) ==
    /\ ~halted /\ {d, s} \subseteq Live /\ d # s /\ SameKind(d, s)
    /\ Update("copy", (d :> AssignK(d, obj[d], obj[s])) @@
              (s :> IF mv THEN MovedFromK(s, obj[s]) ELSE obj[s]), {})

\* The destructor.
Destruct(s) ==
    /\ ~halted /\ s \in Live
    /\ Update("kill", s :> Dead, {DestroyK(s, obj[s])})

-----------------------------------------------------------------------------
(* result<T, E>.                                                           *)

\* emplace(ok, x) or emplace(err, e).
REmplace(s) ==
    /\ ~halted /\ s \in Live
    /\ \/ \E x \in Vals : Update("set", s :> Res!Emplace(obj[s], "ok", x), {})
       \/ \E e \in Errs : Update("set", s :> Res!Emplace(obj[s], "err", e), {})

\* ok() or err() (alt) on an rvalue, whose value is moved out; on the
\* other alternative they throw.
RGet(s, alt) ==
    /\ ~halted /\ s \in Live
    /\ IF Res!Get(obj[s], alt) = Opt!Throw THEN Throws
       ELSE Update("drain", s :> Res!MovedFrom(obj[s]), {})

\* The && form of ok_or or err_or (alt): the value is moved out when it is
\* of that alternative, else the other value is returned.
RGetOr(s, alt) ==
    /\ ~halted /\ s \in Live
    /\ Res!GetOr(obj[s], alt, Opt!NoValue) # Opt!NoValue
    /\ Update("drain", s :> Res!MovedFrom(obj[s]), {})

\* map, map_err or and_then (op) on slot s, by lvalue or (mv) by rvalue,
\* the result put in slot d.
RApply(d, s, op, mv) ==
    /\ ~halted /\ s \in Live
    /\ LET r     == obj[s]
           tmp   == CASE op = "map"     -> Res!Map(FFun, r)
                      [] op = "map_err" -> Res!MapErr(GFun, r)
                      [] op = "and_then" -> Res!AndThen(FRFun, r)
           given == Res!Alt(r) = IF op = "map_err" THEN "err" ELSE "ok"
       IN  \E src \in IF mv /\ given THEN MaybeMoved(s, r) ELSE {r} :
              Place(op, d, s, src, tmp)

-----------------------------------------------------------------------------
(* result<void, E>.                                                        *)

\* emplace(ok) or set_ok().
VSetOk(s) ==
    /\ ~halted /\ s \in Live
    /\ Update("set", s :> Res!SetOk(obj[s]), {})

\* emplace(err, e).
VEmplaceErr(s) ==
    /\ ~halted /\ s \in Live
    /\ \E e \in Errs : Update("set", s :> Res!EmplaceErr(obj[s], e), {})

\* err() on an rvalue: the error is moved out; on an ok result it throws.
VGetErr(s) ==
    /\ ~halted /\ s \in Live
    /\ IF Res!VoidGetErr(obj[s]) = Opt!Throw THEN Throws
       ELSE Update("drain", s :> Opt!MovedFrom(obj[s]), {})

\* err_or's && form: an error is moved out, an ok result returns other.
VErrOr(s) ==
    /\ ~halted /\ s \in Live
    /\ Res!VoidErrOr(obj[s], Opt!NoValue) # Opt!NoValue
    /\ Update("drain", s :> Opt!MovedFrom(obj[s]), {})

\* map or and_then into a result<T, E> in slot d, or map_err into a
\* result<void, E>; f() returns any value or result.
VApply(d, s, op, mv) ==
    /\ ~halted /\ s \in Live
    /\ d \in IF op = "map_err" THEN VSlots ELSE RSlots
    /\ LET q     == obj[s]
           tmps  == CASE op = "map"      -> {Res!VoidMap(x, q) : x \in Vals}
                      [] op = "and_then" -> {Res!VoidAndThen(fr, q) :
                                                 fr \in NewObjects(d)}
                      [] op = "map_err"  -> {Res!VoidMapErr(GFun, q)}
           given == op = "map_err" /\ ~Res!VoidIsOk(q)
       IN  \E tmp \in tmps, src \in IF mv /\ given THEN MaybeMoved(s, q) ELSE {q} :
              Place(op, d, s, src, tmp)

-----------------------------------------------------------------------------
(* optional<T>.                                                            *)

\* operator=(x).
OAssignVal(s) ==
    /\ ~halted /\ s \in Live
    /\ \E x \in Vals : Update("set", s :> Opt!AssignVal(obj[s], x), {})

\* reset(), operator=(none).
OReset(s) ==
    /\ ~halted /\ s \in Live
    /\ Update("set", s :> Opt!Destroy(obj[s]), {})

\* emplace(x).
OEmplace(s) ==
    /\ ~halted /\ s \in Live
    /\ \E x \in Vals : Update("set", s :> Opt!Emplace(obj[s], x), {})

\* value() on an rvalue: the value is moved out; on an empty optional it
\* throws.
OValue(s) ==
    /\ ~halted /\ s \in Live
    /\ IF Opt!Value(obj[s]) = Opt!Throw THEN Throws
       ELSE Update("drain", s :> Opt!MovedFrom(obj[s]), {})

\* value_or's && form: the value is moved out, or other returned.
OValueOr(s) ==
    /\ ~halted /\ s \in Live
    /\ Opt!ValueOr(obj[s], Opt!NoValue) # Opt!NoValue
    /\ Update("drain", s :> Opt!MovedFrom(obj[s]), {})

\* map(f) on slot s, by lvalue or (mv) by rvalue, into slot d.
OMap(d, s, mv) ==
    /\ ~halted /\ s \in Live
    /\ \E src \in IF mv /\ obj[s].init THEN MaybeMoved(s, obj[s]) ELSE {obj[s]} :
          Place("map", d, s, src, Opt!MapWith(FFun, obj[s]))

\* swap(other): std::swap, a move construction of a temporary from a, the
\* move assignments a = move(b) and b = move(tmp), and tmp's destructor.
OSwap(a, b) ==
    /\ ~halted /\ {a, b} \subseteq Live /\ a # b
    /\ LET tmp == Opt!CopyOf(obj[a])
       IN  Update("swap", (a :> Opt!Assign(Opt!MovedFrom(obj[a]), obj[b])) @@
                  (b :> Opt!Assign(Opt!MovedFrom(obj[b]), tmp)),
                  {Opt!Destroy(Opt!MovedFrom(tmp))})

-----------------------------------------------------------------------------


Next ==
    \/ \E s \in Slots : New(s) \/ Destruct(s)
    \/ \E d, s \in Slots, mv \in BOOLEAN : CopyNew(d, s, mv) \/ AssignFrom(d, s, mv)
    \/ \E s \in RSlots : REmplace(s) \/ \E alt \in {"ok", "err"} : RGet(s, alt) \/ RGetOr(s, alt)
    \/ \E d, s \in RSlots, op \in Ops, mv \in BOOLEAN : RApply(d, s, op, mv)
    \/ \E s \in VSlots : VSetOk(s) \/ VEmplaceErr(s) \/ VGetErr(s) \/ VErrOr(s)
    \/ \E d \in Slots, s \in VSlots, op \in Ops, mv \in BOOLEAN : VApply(d, s, op, mv)
    \/ \E s \in OSlots : OAssignVal(s) \/ OReset(s) \/ OEmplace(s) \/ OValue(s)
                          \/ OValueOr(s)
    \/ \E d, s \in OSlots, mv \in BOOLEAN : OMap(d, s, mv) \/ OSwap(d, s)

\* A throw ends the process: no step follows.
Spec == Init /\ [][Next]_vars

-----------------------------------------------------------------------------

\* Every object's storage is used soundly whatever calls the program makes:
\* no constructor runs over a live object, no destructor or assignment on
\* storage that holds none or the other type, and the object in storage_
\* is the one error_ (initialized_) says, so that destroy() and the
\* accessors use the right type.  The switching assignment of result_base
\* (destroy, then construct), emplace_assign and optional's destroy() and
\* destroy_impl() are what keep it.
LifetimeSound ==
    /\ ~misuse
    /\ \A s \in Live :
          IF s \in RSlots THEN obj[s].live = Res!Alt(obj[s])
          ELSE obj[s].live = obj[s].init
-----------------------------------------------------------------------------
(* The objects refine ValueStore, through seen.                            *)

VS == INSTANCE ValueStore
        WITH val <- seen, stopped <- halted, call <- call,
             Moved <- Opt!Moved, FRA <- LAMBDA x : Seen(CHOOSE r \in RSlots : TRUE, FR(x))

\* The calls keep the promises of the header comments: every step is a
\* copy, a move, a setter, a read, a map, map_err or and_then, a swap or a
\* destructor of ValueStore, with the value it gives (map leaves an error
\* alone, map_err a value, a move leaves the source's alternative).
ImplementsValueStore == VS!Spec
=============================================================================
