----------------------------- MODULE EventMessage -----------------------------
(***************************************************************************)
(* A message of the event log (EventMessage.cpp): values are encoded by a  *)
(* type and as few bytes as they need, and put into a list of buffers.     *)
(* The first four bytes are the size of the message.                       *)
(*                                                                         *)
(* Each call of push_memory is a step, so that a value may be split        *)
(* between two buffers anywhere that the code may split it.  Bytes have    *)
(* Base values in place of 256; a type fits in a byte.                     *)
(***************************************************************************)
EXTENDS Integers, Sequences, SequencesExt

CONSTANTS
  Base,        \* 256
  PartSize     \* the least size of a buffer, 256

ASSUME PartAssumption ==
  Base \in Nat \ {0, 1} /\ PartSize \in Nat /\ PartSize >= 4

VARIABLES
  parts,    \* the buffers: their sizes, and the bytes that are used
  pos,      \* where the next byte goes in the last one
  size,     \* bytes in all buffers, a number of 32 bits
  pending,  \* what is still to be pushed of a value: a list of lists of bytes
  pushed,   \* history: the values
  closed    \* has the size been set?

encoding == <<parts, pos, size, pending, pushed, closed>>

Byte == Nat
Part == [size : Nat, data : Seq(Byte)]

\* 2^32 and 2^64.
Word == Base * Base * Base * Base
Long == Word * Word

\* What can be pushed: the types of the parameters of EventMessage's methods, and
\* counts.
Value ==
       [kind : {"uint", "string_lib"}, value : 0 .. Long - 1]
  \cup [kind : {"int"}, value : {i \in Int : -Long <= 2 * i /\ 2 * i < Long}]
  \cup [kind : {"float"}, value : [1 .. 4 -> Byte]]
  \cup [kind : {"array"}, value : Nat]
  \cup [kind : {"string"}, value : Seq(Byte)]

EncodingTypeOK ==
  /\ parts \in Seq(Part) /\ parts # <<>>
  /\ pos \in Nat /\ size \in 0 .. Word - 1
  /\ pending \in Seq(Seq(Byte))
  /\ pushed \in Seq(Value)
  /\ closed \in BOOLEAN

-----------------------------------------------------------------------------
(* The encoding.                                                            *)

\* The numbers of DataTypes.
Type(kind, width) ==
  CASE kind = "uint" -> IF width = 8 THEN 10 ELSE 2 * width
    [] kind = "float" -> 11
    [] kind = "string" -> 12 + width
    [] kind = "array" -> 15 + width
    [] kind = "string_lib" -> IF width = 8 THEN 26 ELSE 21 + width
    [] kind = "nint" -> IF width = 8 THEN 31 ELSE 26 + width

\* The bytes of a number in memory, the lowest first: the others are left when it
\* is divided.
LittleEndian(i, width) ==
  LET rest[k \in 0 .. width] == IF k = 0 THEN i ELSE rest[k - 1] \div Base
  IN  [k \in 1 .. width |-> rest[k - 1] % Base]

\* How many bytes a number needs, if numbers of four bytes are below top.
Width(i, top) ==
  IF i < Base THEN 1
  ELSE IF i < Base * Base THEN 2
  ELSE IF i < Base * Base * Base THEN 3
  ELSE IF i < top THEN 4 ELSE 8

Number(kind, i, top) ==
  LET w == Width(i, top) IN << <<Type(kind, w)>>, LittleEndian(i, w) >>

PushUint(i) == Number("uint", i, Word)

\* Mistake: a negative number is not negated.
PushIntPlain(i) == IF i >= 0 THEN PushUint(i) ELSE Number("nint", i, Word)

\* The least number is its own negation, and less than any limit.
PushInt(i) ==
  IF i >= 0 THEN PushUint(i)
  ELSE Number("nint", IF 2 * i = -Long THEN i ELSE -i, Word)

\* Numbers of four bytes end at 254 in place of 256.
PushStringId(i) == Number("string_lib", i, (Base - 2) * Base * Base * Base)

PushFloat(f) == << <<Type("float", 4)>>, f >>

\* A count of more than three bytes is not pushed.
PushArray(n) ==
  LET w == Width(n, Word) IN IF w > 3 THEN <<>> ELSE << <<Type("array", w)>>, LittleEndian(n, w) >>

\* The length counts the zero at the end.
PushString(s) ==
  LET w == Width(Len(s) + 1, Word)
  IN  IF w > 3 THEN <<>>
      ELSE << <<Type("string", w)>>, LittleEndian(Len(s) + 1, w), s, <<0>> >>

Encoded(v) ==
  CASE v.kind = "uint" -> PushUint(v.value)
    [] v.kind = "int" -> PushInt(v.value)
    [] v.kind = "string_lib" -> PushStringId(v.value)
    [] v.kind = "float" -> PushFloat(v.value)
    [] v.kind = "array" -> PushArray(v.value)
    [] v.kind = "string" -> PushString(v.value)

-----------------------------------------------------------------------------
(* The buffers.                                                             *)

EncodingInit ==
  /\ parts = << [size |-> PartSize, data |-> <<0, 0, 0, 0>>] >>
  /\ pos = 4 /\ size = 4
  /\ pending = <<>> /\ pushed = <<>> /\ closed = FALSE

PushValue(v) ==
  /\ pending = <<>> /\ ~closed
  /\ pending' = Encoded(v) /\ pushed' = Append(pushed, v)
  /\ UNCHANGED <<parts, pos, size, closed>>

Larger(a, b) == IF a < b THEN b ELSE a

Fits(n) == pos + n <= Last(parts).size

\* Mistake: a new buffer has the least size whatever goes into it.
NewPartLeast(m) ==
  /\ parts' = Append(parts, [size |-> PartSize, data |-> m])
  /\ pos' = Len(m)

\* A new buffer is as large as what goes into it.
NewPart(m) ==
  /\ parts' = Append(parts, [size |-> Larger(PartSize, Len(m)), data |-> m])
  /\ pos' = Len(m)

PushMemory ==
  /\ pending # <<>>
  /\ LET m == Head(pending)
     IN  /\ IF Fits(Len(m))
            THEN /\ parts' = [parts EXCEPT ![Len(parts)].data = @ \o m]
                 /\ pos' = pos + Len(m)
            ELSE NewPart(m)
         /\ size' = (size + Len(m)) % Word
  /\ pending' = Tail(pending)
  /\ UNCHANGED <<pushed, closed>>

SetSize ==
  /\ pending = <<>> /\ ~closed
  /\ parts' = [parts EXCEPT ![1].data = LittleEndian(size, 4) \o SubSeq(@, 5, Len(@))]
  /\ closed' = TRUE
  /\ UNCHANGED <<pos, size, pending, pushed>>

\* The message is written and deleted, and another one is made.
NewMessage ==
  /\ closed
  /\ parts' = << [size |-> PartSize, data |-> <<0, 0, 0, 0>>] >>
  /\ pos' = 4 /\ size' = 4
  /\ pending' = <<>> /\ pushed' = <<>> /\ closed' = FALSE

-----------------------------------------------------------------------------
(* A reader of the log.                                                     *)

\* EventMessage::write
Written == FlattenSeq([i \in DOMAIN parts |-> parts[i].data])

NumberAt(s, p, width) ==
  LET upper[k \in 0 .. width] ==
        IF k = 0 THEN 0 ELSE upper[k - 1] * Base + s[p + width - k]
  IN  upper[width]

WidthOf(kind, type) == CHOOSE w \in {1, 2, 3, 4, 8} : Type(kind, w) = type

\* The value at a place, and the place after it.
ValueAt(s, p) ==
  LET type == s[p]
      Found(kind, v, w) == [kind |-> kind, value |-> v, next |-> p + 1 + w]
      FoundNumber(kind, as) ==
        LET w == WidthOf(as, type) IN Found(kind, NumberAt(s, p + 1, w), w)
  IN  CASE type <= 10 -> FoundNumber("number", "uint")
        [] type = 11 -> Found("float", SubSeq(s, p + 1, p + 4), 4)
        [] type \in 13 .. 15 ->
             LET w == WidthOf("string", type)
                 n == NumberAt(s, p + 1, w)
             IN  Found("string", SubSeq(s, p + 1 + w, p + w + n - 1), w + n)
        [] type \in 16 .. 18 -> FoundNumber("array", "array")
        [] type \in 22 .. 26 -> FoundNumber("string_lib", "string_lib")
        [] type \in 27 .. 31 ->
             LET w == WidthOf("nint", type) IN Found("number", -NumberAt(s, p + 1, w), w)

\* The values after the first four bytes, of which there are fewer than bytes.
Decoded(s) ==
  LET read[n \in 0 .. Len(s)] ==
        IF n = 0 THEN [next |-> 5, values |-> <<>>]
        ELSE LET r == read[n - 1]
                 v == ValueAt(s, r.next)
             IN  IF r.next > Len(s) THEN r
                 ELSE [next |-> v.next,
                       values |-> Append(r.values, [kind |-> v.kind, value |-> v.value])]
  IN  read[Len(s)].values

\* What a reader makes of a value: the least of all numbers is read as zero,
\* and what is too long is not there.
Meaning(v) ==
  CASE v.kind \in {"int", "uint"} ->
         <<[kind |-> "number",
            value |-> IF 2 * v.value = -Long THEN 0 ELSE v.value]>>
    [] v.kind = "string" -> IF Len(v.value) + 1 < Base * Base * Base THEN <<v>> ELSE <<>>
    [] v.kind = "array" -> IF v.value < Base * Base * Base THEN <<v>> ELSE <<>>
    [] OTHER -> <<v>>

\* No buffer is written beyond its end, and pos is where the last one ends,
\* whatever the sizes of the values (EventMessage.cpp 42-61).
PartsFit ==
  /\ \A i \in DOMAIN parts : Len(parts[i].data) <= parts[i].size
  /\ pos = Len(Last(parts).data)

\* The size that the writer asks for, to see whether the message fits in its
\* packet, is exactly what write() copies, and a message that was closed begins
\* with it (EventMessage.cpp 3, 21-30, 206-208; M_event_writer.cpp 346-358).
SizeExact ==
  /\ size = Len(Written) % Word
  /\ closed => NumberAt(Written, 1, 4) = size

\* A reader gets back the values that were pushed, wherever they are split
\* between buffers, but for the least number and strings and counts beyond three
\* bytes (EventMessage.cpp 83-204).
RoundTrip ==
  pending = <<>> => Decoded(Written) = FlattenSeq([i \in DOMAIN pushed |-> Meaning(pushed[i])])

=============================================================================
