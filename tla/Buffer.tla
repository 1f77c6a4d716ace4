------------------------------- MODULE Buffer -------------------------------
(***************************************************************************)
(* util::buffer (src/src/util/buffer.cc, buffer.h): the growable circular  *)
(* byte buffer behind every socket's input and output and every message    *)
(* body.  The state is the C++ object's fields: data_, capacity_, read_,   *)
(* write_ and full_, held in the record buf.                               *)
(*                                                                         *)
(* Bytes are abstracted to identities: the k-th byte ever written is the   *)
(* number k, so a byte read in the wrong place is told apart from the one  *)
(* that should have been read.  Memory that was never written (new[]) or   *)
(* that lies past the end of the allocation reads as Garbage.              *)
(*                                                                         *)
(* The ghost variable out is every byte the buffer has handed out or       *)
(* dropped, in order; written counts the bytes put in.  thrown is an       *)
(* uncaught buffer_exception: nothing in the program catches one, so it    *)
(* ends the process.                                                       *)
(***************************************************************************)
EXTENDS Naturals, Sequences, SequencesExt

CONSTANTS
    InitCap,      \* buffer(size): the capacity a buffer is made with
    MaxCap,       \* bound: resize is not explored past this capacity
    MaxBytes,     \* bound: bytes written over a behaviour
    Amounts,      \* sizes a caller passes to put, get_many, consume
    ReserveSize,  \* Socket::Receive's reserve(bytes); 1024 = default_size
    Garbage,      \* the value of memory that holds no written byte
    Ops           \* the operations the buffer's caller uses

ASSUME InitCap > 0 /\ MaxCap >= InitCap /\ MaxBytes >= InitCap /\ ReserveSize > 0
ASSUME Amounts \subseteq 1..MaxCap
ASSUME Ops \subseteq {"put", "get", "get_many", "consume", "receive", "send"}

Byte == 1..MaxBytes

VARIABLES buf, written, out, thrown

vars == <<buf, written, out, thrown>>

-----------------------------------------------------------------------------
(* Observers: size(), space_remaining(), space_remaining_until_end().      *)

Size(b) ==
    IF b.full THEN b.capacity
    ELSE IF b.write >= b.read THEN b.write - b.read
    ELSE b.capacity + b.write - b.read

SpaceRemaining(b) == b.capacity - Size(b)

SpaceRemainingUntilEnd(b) ==
    IF b.read > b.write THEN b.read - b.write ELSE b.capacity - b.write

Empty(b) == ~b.full /\ b.read = b.write

(* A load of data_[i]; past the allocation it is whatever lies there.      *)
Cell(b, i) == IF i < b.capacity THEN b.data[i] ELSE Garbage

(* memcpy(dest, data_ + from, n) as the n values it loads.                 *)
Load(b, from, n) == [k \in 1..n |-> Cell(b, from + k - 1)]

(* memcpy(data_ + at, s, Len(s)).                                          *)
Store(b, at, s) ==
    [b EXCEPT !.data = [i \in DOMAIN b.data |->
                          IF at <= i /\ i < at + Len(s) THEN s[i - at + 1]
                          ELSE b.data[i]]]

(* The unread bytes, oldest first: what the buffer is meant to hold.       *)
Contents(b) == [k \in 1..Size(b) |-> b.data[(b.read + k - 1) % b.capacity]]

-----------------------------------------------------------------------------
(* Pointer arithmetic: advance_write and advance_read.  advance_write      *)
(* throws when the bytes do not fit; its callers test that first.          *)

AdvanceWriteThrows(b, by) == by # 0 /\ (b.full \/ SpaceRemaining(b) < by)

(* Mutant: the wrap test written with > instead of >=.                    *)
AdvanceWriteLateWrap(b, by) ==
    IF by = 0 THEN b
    ELSE LET w == IF b.write + by > b.capacity
                  THEN b.write + by - b.capacity ELSE b.write + by
         IN  [b EXCEPT !.write = w, !.full = (b.read = w)]

AdvanceWrite(b, by) ==
    IF by = 0 THEN b
    ELSE LET w == IF b.write + by >= b.capacity
                  THEN b.write + by - b.capacity ELSE b.write + by
         IN  [b EXCEPT !.write = w, !.full = (b.read = w)]

AdvanceRead(b, by) ==
    IF by = 0 THEN b
    ELSE LET r == IF b.read + by >= b.capacity
                  THEN b.read + by - b.capacity ELSE b.read + by
         IN  [b EXCEPT !.read = r, !.full = FALSE]

(* read_into(dest, n): copies n bytes from read_, splitting the copy where *)
(* space_remaining_until_end() says the first part ends.                   *)
ReadInto(b, n) ==
    LET first == SpaceRemainingUntilEnd(b)
    IN  IF first >= n THEN Load(b, b.read, n)
        ELSE Load(b, b.read, first) \o Load(b, 0, n - first)

(* The new capacity of resize(to_fit): doubled until the data fits.  The   *)
(* branch for capacities above max_size / 2 needs a 2^63-byte buffer.      *)
RECURSIVE Grown(_, _)
Grown(c, needed) == IF c >= needed THEN c ELSE Grown(2 * c, needed)

(* resize(to_fit): a new allocation, the unread bytes copied to its start  *)
(* with read_into, the pointers reset.  The old data_ is not freed.        *)
Resize(b, toFit) ==
    LET cur    == Size(b)
        newCap == Grown(b.capacity, cur + toFit)
        copied == ReadInto(b, cur)
    IN  AdvanceWrite([data     |-> [i \in 0..newCap - 1 |->
                                      IF i < cur THEN copied[i + 1] ELSE Garbage],
                      capacity |-> newCap, read |-> 0, write |-> 0,
                      full     |-> FALSE], cur)

ResizeFits(b, toFit) == Grown(b.capacity, Size(b) + toFit) <= MaxCap

(* put(data, n) after any resize: one memcpy at write_, or two when the    *)
(* bytes circle round, then advance_write(n).                              *)
PutInPlace(b, s) ==
    LET first == SpaceRemainingUntilEnd(b)
        n     == Len(s)
        b1    == IF first >= n THEN Store(b, b.write, s)
                 ELSE Store(Store(b, b.write, SubSeq(s, 1, first)),
                            0, SubSeq(s, first + 1, n))
    IN  AdvanceWrite(b1, n)

(* Mutant: the pointers reset without the memmove of the unread bytes.   *)
ShiftNoMove(b) ==
    IF b.full /\ b.read = 0 THEN b
    ELSE IF b.write > b.read
    THEN [b EXCEPT !.read = 0, !.write = b.write - b.read]
    ELSE LET temp  == Load(b, 0, b.write)
             first == b.capacity - b.read
             b1    == Store(b, 0, Load(b, b.read, first))
             b2    == Store(b1, first, temp)
         IN  [b2 EXCEPT !.read = 0, !.write = Size(b)]

(* shift(): moves the unread bytes to the start of data_.                  *)
Shift(b) ==
    IF b.full /\ b.read = 0 THEN b
    ELSE IF b.write > b.read
    THEN LET sz == b.write - b.read
         IN  [Store(b, 0, Load(b, b.read, sz)) EXCEPT !.read = 0, !.write = sz]
    ELSE LET temp  == Load(b, 0, b.write)
             first == b.capacity - b.read
             b1    == Store(b, 0, Load(b, b.read, first))
             b2    == Store(b1, first, temp)
         IN  [b2 EXCEPT !.read = 0, !.write = Size(b)]

(* reserve(size): the address at which size bytes may be written.          *)
Reserve(b, size) ==
    IF SpaceRemainingUntilEnd(b) >= size THEN b
    ELSE IF SpaceRemaining(b) >= size THEN Shift(b)
    ELSE Resize(b, size)

ReserveFits(b, size) ==
    SpaceRemainingUntilEnd(b) >= size \/ SpaceRemaining(b) >= size
    \/ ResizeFits(b, size)

(* view(): one view when write_ >= read_, else two.                        *)
View(b) ==
    IF b.write >= b.read THEN <<[at |-> b.read, size |-> Size(b)]>>
    ELSE <<[at |-> b.read, size |-> b.capacity - b.read],
           [at |-> 0, size |-> b.write]>>

ViewBytes(b) ==
    FlattenSeq([i \in DOMAIN View(b) |-> Load(b, View(b)[i].at, View(b)[i].size)])

-----------------------------------------------------------------------------
(* The buffers the program makes.  buffer(size): empty, never written.    *)
EmptyInit ==
    /\ buf = [data |-> [i \in 0..InitCap - 1 |-> Garbage],
              capacity |-> InitCap, read |-> 0, write |-> 0, full |-> FALSE]
    /\ written = 0
    /\ out = <<>>
    /\ thrown = FALSE

(* buffer(data, n), a message body made from a string: full, with         *)
(* read_ = write_ = 0.                                                     *)
FromDataInit ==
    /\ buf = [data |-> [i \in 0..InitCap - 1 |-> i + 1],
              capacity |-> InitCap, read |-> 0, write |-> 0, full |-> TRUE]
    /\ written = InitCap
    /\ out = <<>>
    /\ thrown = FALSE

Init == EmptyInit \/ FromDataInit

(* Mutant: the byte counter skips one.                                    *)
FreshSkip(n) == [k \in 1..n |-> written + k + 1]

Fresh(n) == [k \in 1..n |-> written + k]

(* put(data, n, true), put_iter(.., true) and bytes::insert: resize if the *)
(* bytes do not fit, then write them in place.                             *)
Put(n) ==
    /\ ~thrown /\ "put" \in Ops
    /\ written + n <= MaxBytes
    /\ LET b1 == IF n > SpaceRemaining(buf) THEN Resize(buf, n) ELSE buf
       IN  /\ n > SpaceRemaining(buf) => ResizeFits(buf, n)
           /\ buf' = PutInPlace(b1, Fresh(n))
    /\ written' = written + n
    /\ UNCHANGED <<out, thrown>>

(* get(): the byte at read_ (callers test empty() first).                  *)
Get ==
    /\ ~thrown /\ "get" \in Ops
    /\ ~Empty(buf)
    /\ out' = Append(out, buf.data[buf.read])
    /\ buf' = AdvanceRead(buf, 1)
    /\ UNCHANGED <<written, thrown>>

(* get_many(n) and to_string(): read_into, then advance_read.              *)
GetMany(n) ==
    /\ ~thrown /\ "get_many" \in Ops
    /\ n <= Size(buf)
    /\ out' = out \o ReadInto(buf, n)
    /\ buf' = AdvanceRead(buf, n)
    /\ UNCHANGED <<written, thrown>>

(* consume(n): drops the n oldest bytes; out records which they are.       *)
Consume(n) ==
    /\ ~thrown /\ "consume" \in Ops
    /\ n <= Size(buf)
    /\ out' = out \o SubSeq(Contents(buf), 1, n)
    /\ buf' = AdvanceRead(buf, n)
    /\ UNCHANGED <<written, thrown>>

(* Socket::Receive: reserve(ReserveSize), ::read of j bytes into the       *)
(* reserved space, commit(j).  A commit that does not fit throws.          *)
Receive(j) ==
    /\ ~thrown /\ "receive" \in Ops
    /\ written + j <= MaxBytes
    /\ ReserveFits(buf, ReserveSize)
    /\ LET b1 == Reserve(buf, ReserveSize)
           b2 == Store(b1, b1.write, Fresh(j))
       IN  IF AdvanceWriteThrows(b2, j)
           THEN /\ thrown' = TRUE
                /\ UNCHANGED <<buf, written>>
           ELSE /\ buf' = AdvanceWrite(b2, j)
                /\ written' = written + j
                /\ UNCHANGED thrown
    /\ UNCHANGED out

(* Socket::Send: the bytes of view() are written out, k of them accepted,  *)
(* then consume(k).                                                        *)
Send(k) ==
    /\ ~thrown /\ "send" \in Ops
    /\ k <= Size(buf)
    /\ out' = out \o SubSeq(ViewBytes(buf), 1, k)
    /\ buf' = AdvanceRead(buf, k)
    /\ UNCHANGED <<written, thrown>>

Next ==
    \/ Get
    \/ \E n \in Amounts : Put(n) \/ GetMany(n) \/ Consume(n) \/ Send(n)
    \/ \E j \in 0..ReserveSize : Receive(j)

Spec == Init /\ [][Next]_vars

-----------------------------------------------------------------------------
TypeOK ==
    /\ buf.capacity \in InitCap..MaxCap
    /\ buf.data \in [0..buf.capacity - 1 -> Byte \cup {Garbage}]
    /\ buf.read \in Nat /\ buf.write \in Nat /\ buf.full \in BOOLEAN
    /\ written \in 0..MaxBytes
    /\ out \in Seq(Byte \cup {Garbage})
    /\ thrown \in BOOLEAN

(* The buffer neither loses nor invents bytes in its bookkeeping: read_    *)
(* and write_ stay inside the allocation, full_ only when they meet, and   *)
(* size() is always the bytes put in less the bytes taken out, across     *)
(* every wrap of advance_write/advance_read, every shift() and resize().  *)
SizeConserved ==
    /\ buf.read < buf.capacity /\ buf.write < buf.capacity
    /\ buf.full => buf.read = buf.write
    /\ Size(buf) = written - Len(out)

(* A step that keeps the allocation leaves the unread bytes in place: the  *)
(* bytes still to be read after put, reserve (with its shift), commit,     *)
(* get, consume or send are the old ones with the taken prefix removed,    *)
(* in the same order.  Steps that end the process are excluded.           *)
UnreadBytesKept ==
    [][ (~thrown' /\ buf'.capacity = buf.capacity) =>
          IsPrefix(SubSeq(Contents(buf), Len(out') - Len(out) + 1, Size(buf)),
                   Contents(buf')) ]_vars

(* The buffer is a FIFO queue of bytes: every byte handed out is the       *)
(* oldest unread one, under the mapping queue = the unread bytes and       *)
(* taken = the bytes handed out.                                           *)
Queue == INSTANCE ByteQueue WITH queue <- Contents(buf), taken <- out

ImplementsByteQueue == Queue!Spec
=============================================================================
