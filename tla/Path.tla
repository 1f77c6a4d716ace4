-------------------------------- MODULE Path --------------------------------
(***************************************************************************)
(* util::fs::path (src/src/util/path.cc), the lexical path operations the *)
(* file service's access check is built from.  A path's path_ is a        *)
(* sequence of one-character strings; positions are 0-based offsets into  *)
(* it, as the string iterators of the code are.  prefix_length_ is 0 and  *)
(* root_name_length() is 0 in this build, so there is never a root name:  *)
(* the root path of an absolute path is "/".                               *)
(*                                                                         *)
(* Comparison.  compare() returns 0 exactly when both paths have the same *)
(* root directory and the same characters after it, so == and != are     *)
(* equality of path_.  Its ordering results (where it tests it2 against   *)
(* the wrong string's end, path.cc:174) are used by no operator of the    *)
(* program.                                                                *)
(***************************************************************************)
EXTENDS Integers, Sequences, SequencesExt

Sep == "/"
Dot == "."
DotDot == <<Dot, Dot>>

-----------------------------------------------------------------------------
(* Construction: assign(str) and process_assigned_path().  Runs of '/'     *)
(* are squeezed to one, except that a path starting with exactly two      *)
(* slashes (a network name) keeps them.                                    *)

ProcessAssigned(s) ==
    LET start == IF Len(s) > 2 /\ s[1] = Sep /\ s[2] = Sep /\ s[3] # Sep
                 THEN 2 ELSE 0
        kept  == SelectSeq([i \in 1..Len(s) |-> i], LAMBDA i :
                    i <= start + 1 \/ ~(s[i] = Sep /\ s[i - 1] = Sep))
    IN  [k \in 1..Len(kept) |-> s[kept[k]]]

HasRootDirectory(s) == Len(s) > 0 /\ s[1] = Sep

RootPathLength(s) == IF HasRootDirectory(s) THEN 1 ELSE 0

HasRelativePath(s) == RootPathLength(s) < Len(s)

\* root_path(): root_name() (always empty) followed by root_directory().
RootPath(s) == IF HasRootDirectory(s) THEN <<Sep>> ELSE <<>>

-----------------------------------------------------------------------------
(* path::iterator.  root_ is the offset of the root '/', or the end when  *)
(* there is none.                                                          *)

RootPos(s) == IF HasRootDirectory(s) THEN 0 ELSE Len(s)

\* std::find(it, last_, '/'), and the loop skipping redundant slashes.
FindSep(s, i)  == LET j == SelectInSubSeq(s, i + 1, Len(s), LAMBDA c : c = Sep)
                  IN  IF j = 0 THEN Len(s) ELSE j - 1
SkipSeps(s, i) == LET j == SelectInSubSeq(s, i + 1, Len(s), LAMBDA c : c # Sep)
                  IN  IF j = 0 THEN Len(s) ELSE j - 1

\* increment(pos): the end of the element that starts at pos.  On a
\* leading "//" the code tests `(*it + 1) == '/'`, a character plus one,
\* which is never true for '/', so any leading double slash is one
\* element; std::find from a '/' stays where it is.
Increment(s, pos) ==
    IF pos = Len(s) THEN pos
    ELSE LET fromStart == pos = 0
             it        == pos + 1
         IN  IF s[pos + 1] = Sep
             THEN IF it # Len(s) /\ s[it + 1] = Sep
                  THEN IF fromStart THEN it ELSE SkipSeps(s, it)
                  ELSE it
             ELSE IF fromStart /\ it # Len(s) /\ s[it + 1] = ":" THEN it + 1
             ELSE FindSep(s, it)

\* decrement(pos): back to the start of the previous element.
Decrement(s, pos) ==
    IF pos = 0 THEN 0
    ELSE LET it0 == pos - 1
             j   == SelectLastInSubSeq(s, 1, it0, LAMBDA c : c = Sep)
             it1 == IF it0 # RootPos(s) /\ (pos # Len(s) \/ s[it0 + 1] # Sep)
                    THEN j ELSE it0
         IN  IF it1 = 2 /\ s[1] = Sep /\ s[2] = Sep THEN 0 ELSE it1

\* update_current(): the element at iter_ as a path; a trailing '/' that is
\* not the root is the empty element.
Current(s, iter) ==
    IF \/ iter = Len(s)
       \/ iter # 0 /\ s[iter + 1] = Sep /\ iter # RootPos(s) /\ iter + 1 = Len(s)
    THEN <<>>
    ELSE ProcessAssigned(SubSeq(s, iter + 1, Increment(s, iter)))

\* operator++: increment, then step over separators that are neither the
\* root nor the last character.
RECURSIVE SkipInner(_, _)
SkipInner(s, i) ==
    IF i # Len(s) /\ i # RootPos(s) /\ s[i + 1] = Sep /\ i + 1 # Len(s)
    THEN SkipInner(s, i + 1) ELSE i

Advance(s, iter) == SkipInner(s, Increment(s, iter))

\* The elements from begin() to end(), in order.
RECURSIVE ElementsFrom(_, _)
ElementsFrom(s, iter) ==
    IF iter = Len(s) THEN <<>>
    ELSE <<Current(s, iter)>> \o ElementsFrom(s, Advance(s, iter))

Elements(s) == ElementsFrom(s, 0)

\* *--end(): the last element.
LastElement(s) == Current(s, Decrement(s, Len(s)))

-----------------------------------------------------------------------------
(* Decomposition and modifiers.                                            *)

Filename(s) == IF HasRelativePath(s) THEN LastElement(s) ELSE <<>>

HasFilename(s) == HasRelativePath(s) /\ Filename(s) # <<>>

RemoveFilename(s) ==
    IF HasFilename(s) THEN SubSeq(s, 1, Len(s) - Len(Filename(s))) ELSE s

\* operator/=(rhs): an empty rhs adds a trailing separator; an absolute rhs
\* replaces the path unless the path is empty and rhs is "/"; otherwise a
\* separator, then rhs's elements joined by '/'.  path_ += does not squeeze.
JoinElement(acc, e) ==
    (IF acc # <<>> /\ Last(acc) = Sep THEN acc ELSE Append(acc, Sep)) \o e

Slash(p, rhs) ==
    IF rhs = <<>>
    THEN IF p # <<>> /\ Last(p) # Sep /\ Last(p) # ":" THEN Append(p, Sep)
         ELSE p
    ELSE IF HasRootDirectory(rhs) /\ (p # <<>> \/ rhs # <<Sep>>) THEN rhs
    ELSE LET base == IF HasRootDirectory(rhs) THEN <<>>
                     ELSE IF HasFilename(p) THEN Append(p, Sep)
                     ELSE p
             es   == Elements(rhs)
         IN  FoldLeft(JoinElement, base \o Head(es), Tail(es))

\* operator/(path, std::string): the string is made a path first.
SlashString(p, str) == Slash(p, ProcessAssigned(str))

-----------------------------------------------------------------------------
(* lexically_normal().                                                     *)

\* Mutant: a ".." after a name is appended instead of removing the name.
NormalStepKeepDotDot(s, st, name) ==
    IF name = <<Dot>> THEN [st EXCEPT !.n = Slash(st.n, <<>>)]
    ELSE IF name = DotDot /\ st.n # <<>> /\ st.n = RootPath(s) THEN st
    ELSE [n   |-> IF name = <<>> /\ st.ldd THEN st.n ELSE Slash(st.n, name),
          ldd |-> name = DotDot]

\* One turn of the loop over the elements: "." adds a separator; ".."
\* after something stops at the root, removes the previous name (and its
\* slash) unless that is "..", and is otherwise added; an empty element
\* right after ".." is dropped.  `ldd` is last_dot_dot, which a "." or a
\* ".." that removed a name leaves as it was.
NormalStep(s, st, name) ==
    IF name = <<Dot>> THEN [st EXCEPT !.n = Slash(st.n, <<>>)]
    ELSE IF name = DotDot /\ st.n # <<>> /\ st.n = RootPath(s) THEN st
    ELSE IF name = DotDot /\ st.n # <<>> /\ LastElement(st.n) # DotDot
    THEN [st EXCEPT !.n = RemoveFilename(IF Last(st.n) = Sep
                                         THEN Front(st.n) ELSE st.n)]
    ELSE [n   |-> IF name = <<>> /\ st.ldd THEN st.n ELSE Slash(st.n, name),
          ldd |-> name = DotDot]

LexicallyNormal(s) ==
    LET st == FoldLeft(LAMBDA acc, e : NormalStep(s, acc, e),
                       [n |-> <<>>, ldd |-> FALSE], Elements(s))
    IN  IF st.n = <<>> THEN <<Dot>> ELSE st.n

-----------------------------------------------------------------------------
(* lexically_relative(base).  The loop over equal elements tests          *)
(* `me != base.end()`, an iterator of this path against one of base's     *)
(* string: they never compare equal, so only me's end and the elements    *)
(* stop it.  Past base's end, *them is the cleared element "", and        *)
(* operator++ there stays at the end.                                      *)

ElementOr(es, i) == IF i <= Len(es) THEN es[i] ELSE <<>>

\* The number of elements of me that match base's, element by element.
CommonLength(me, them) ==
    LET n == SelectInSeq([i \in 1..Len(me) |-> me[i] = ElementOr(them, i)],
                         LAMBDA eq : ~eq)
    IN  IF n = 0 THEN Len(me) ELSE n - 1

\* The difference count over base's remaining elements.
StepCount(c, e) ==
    IF e # <<>> /\ e # <<Dot>> /\ e # DotDot THEN c + 1
    ELSE IF e = DotDot THEN c - 1 ELSE c

LexicallyRelative(p, base) ==
    IF HasRootDirectory(p) # HasRootDirectory(base) THEN <<>>
    ELSE LET me    == Elements(p)
             them  == Elements(base)
             k     == CommonLength(me, them)
             rest  == SubSeq(them, k + 1, Len(them))
             count == FoldLeft(StepCount, 0, rest)
             ups   == FoldLeft(LAMBDA acc, i : Slash(acc, DotDot), <<>>,
                               [i \in 1..count |-> i])
         IN  IF k = Len(me) /\ k >= Len(them) THEN <<Dot>>
             ELSE IF count < 0 THEN <<>>
             ELSE FoldLeft(Slash, ups, SubSeq(me, k + 1, Len(me)))
=============================================================================
