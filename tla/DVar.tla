-------------------------------- MODULE DVar --------------------------------
(***************************************************************************)
(* The D-Bus variants of libcdvar: signatures and the types parsed from    *)
(* them, the writer that marshals values into a buffer, the reader that    *)
(* takes them out of a buffer a peer sent, and the fast-forward that skips *)
(* (and still validates) whole values.                                     *)
(*                                                                         *)
(* Bytes are numbers below 256; a value of fixed size is the sequence of   *)
(* its bytes in host order (little endian).  Characters of a signature are *)
(* one-character strings, Code being what they are as bytes.               *)
(***************************************************************************)
EXTENDS Integers, SequencesExt

CONSTANTS
  DepthMax,     \* C_DVAR_TYPE_DEPTH_MAX
  LengthMax,    \* C_DVAR_TYPE_LENGTH_MAX
  PageSize,     \* what the writer's buffer starts with
  Junk          \* a byte of memory that was allocated and not written

ASSUME DVarAssumption ==
  /\ DepthMax \in Nat \ {0} /\ DepthMax % 2 = 0
  /\ LengthMax \in Nat \ {0}
  /\ PageSize \in Nat \ {0}
  /\ Junk \in 0..255

Code == [c \in {"y", "b", "n", "q", "i", "u", "x", "t", "h", "d", "s", "o",
                "g", "v", "a", "(", ")", "{", "}", "/", ":", ".", "1", "2", "?"} |->
  CASE c = "y" -> 121 [] c = "b" -> 98  [] c = "n" -> 110 [] c = "q" -> 113
    [] c = "i" -> 105 [] c = "u" -> 117 [] c = "x" -> 120 [] c = "t" -> 116
    [] c = "h" -> 104 [] c = "d" -> 100 [] c = "s" -> 115 [] c = "o" -> 111
    [] c = "g" -> 103 [] c = "v" -> 118 [] c = "a" -> 97  [] c = "(" -> 40
    [] c = ")" -> 41  [] c = "{" -> 123 [] c = "}" -> 125 [] c = "/" -> 47
    [] c = ":" -> 58  [] c = "." -> 46  [] c = "1" -> 49  [] c = "2" -> 50
    [] OTHER -> 63]

Bytes(str) == [k \in DOMAIN str |-> Code[str[k]]]

\* The characters of bytes, "?" for the ones no signature contains.
Chars(bytes) ==
  [k \in DOMAIN bytes |->
     IF \E c \in DOMAIN Code : Code[c] = bytes[k]
     THEN CHOOSE c \in DOMAIN Code : Code[c] = bytes[k] ELSE "?"]

Align(n, alignment) == n + ((-n) % 2^alignment)

(***************************************************************************)
(* Types.  A type is a sequence of elements, one per character of its      *)
(* signature; the first element's length is the length of the type.        *)
(***************************************************************************)
TypeElement(c, length, alignment, size, basic) ==
  [element |-> c, length |-> length, alignment |-> alignment,
   size |-> size, basic |-> basic]

Builtins ==
  [c \in {"y"} |-> TypeElement(c, 1, 0, 1, TRUE)]
  @@ [c \in {"n", "q"} |-> TypeElement(c, 1, 1, 2, TRUE)]
  @@ [c \in {"b", "i", "u", "h"} |-> TypeElement(c, 1, 2, 4, TRUE)]
  @@ [c \in {"x", "t", "d"} |-> TypeElement(c, 1, 3, 8, TRUE)]
  @@ [c \in {"s", "o"} |-> TypeElement(c, 1, 2, 0, TRUE)]
  @@ [c \in {"g"} |-> TypeElement(c, 1, 0, 0, TRUE)]
  @@ [c \in {"v"} |-> TypeElement(c, 1, 0, 0, FALSE)]

Basic == {c \in DOMAIN Builtins : Builtins[c].basic}
Opener(c) == IF c = "}" THEN "{" ELSE "("

\* c_dvar_verify_type(): the length of the first type of str, 0 when none is
\* valid.  i characters are done; stack holds the containers that are open.
RECURSIVE VerifyFrom(_, _, _)
VerifyFrom(str, i, stack) ==
  LET c         == str[i + 1]
      container == IF stack = <<>> THEN "" ELSE Last(stack)
      tuples(s) == Len(SelectSeq(s, LAMBDA x : x # "a"))
      inDict    == \/ container # "{"
                   \/ str[i] = "{" /\ c \in Basic
                   \/ str[i] # "{" /\ str[i - 1] = "{" /\ c # "}"
                   \/ str[i] # "{" /\ str[i - 1] # "{" /\ c = "}"
      opened    == Append(stack, c)
      \* an array ends with the type it holds
      arraysDone(s) ==
        SubSeq(s, 1, Max({0} \cup {k \in DOMAIN s : s[k] # "a"}))
      terminal(s) ==
        LET left == arraysDone(s)
        IN  IF left = <<>> THEN i + 1 ELSE VerifyFrom(str, i + 1, left)
  IN  IF i >= Len(str) \/ i >= LengthMax \/ ~inDict THEN 0
      ELSE CASE c \in {"{", "(", "a"} ->
                  IF \/ c = "{" /\ container # "a"
                     \/ Len(opened) > DepthMax
                     \/ tuples(opened) > DepthMax \div 2
                     \/ Len(opened) - tuples(opened) > DepthMax \div 2
                  THEN 0 ELSE VerifyFrom(str, i + 1, opened)
             [] c \in {"}", ")"} ->
                  IF container # Opener(c) \/ str[i] = "("
                  THEN 0 ELSE terminal(Front(stack))
             [] c \in DOMAIN Builtins -> terminal(stack)
             [] OTHER -> 0

VerifyType(str) == VerifyFrom(str, 0, <<>>)

RECURSIVE IsSignature(_)
IsSignature(str) ==
  \/ str = <<>>
  \/ /\ Len(str) <= LengthMax
     /\ VerifyType(str) > 0
     /\ IsSignature(SubSeq(str, VerifyType(str) + 1, Len(str)))

\* Faulty variant: a type may be followed by more.
IsTypePrefix(str) == str # <<>> /\ VerifyType(str) > 0

\* c_dvar_is_type()
IsType(str) == str # <<>> /\ VerifyType(str) = Len(str)

\* c_dvar_type_new_from_signature(), its first pass: how long the next type
\* is, going by brackets only; 0 when it is overlong or closes too much.
RECURSIVE TypeLength(_, _, _)
TypeLength(str, n, depth) ==
  IF n >= Len(str) \/ n >= LengthMax THEN 0
  ELSE LET c == str[n + 1]
           d == depth + (IF c \in {"(", "{"} THEN 1 ELSE 0)
                      - (IF c \in {")", "}"} THEN 1 ELSE 0)
       IN  IF d < 0 THEN 0
           ELSE IF c = "a" \/ d > 0 THEN TypeLength(str, n + 1, d)
           ELSE n + 1

\* A member `this` (an index) of the tuple at index `at` is complete.
Contain(type, at, this) ==
  LET t == type[at]  m == type[this]
  IN  [type EXCEPT
         ![at].size = IF m.size # 0 /\ (this = at + 1 \/ t.size # 0)
                      THEN Align(t.size, m.alignment) + m.size ELSE 0,
         ![at].length = @ + m.length]

\* The arrays around a complete type `this` are complete with it; then the
\* tuple around them accounts for it.  Returns type and the open containers.
RECURSIVE Terminal(_, _, _)
Terminal(type, stack, this) ==
  IF stack = <<>> THEN [type |-> type, stack |-> stack]
  ELSE LET at == Last(stack)
       IN  IF type[at].element = "a"
           THEN Terminal([type EXCEPT ![at].length = @ + type[this].length],
                         Front(stack), at)
           ELSE [type |-> Contain(type, at, this), stack |-> stack]

\* The second pass: element by element; stack holds the indices of the open
\* containers.  Returns the type, or the empty sequence for an error.
RECURSIVE ParseFrom(_, _, _)
ParseFrom(str, type, stack) ==
  LET i         == Len(type) + 1
      c         == str[i]
      at        == IF stack = <<>> THEN 0 ELSE Last(stack)
      container == IF at = 0 THEN "" ELSE type[at].element
      inDict    == \/ container # "{"
                   \/ i < at + 2 /\ c \in Basic
                   \/ i = at + 2 /\ c # "}"
                   \/ i > at + 2 /\ c = "}"
      opened    == Append(stack, i)
      tuples    == Cardinality({k \in DOMAIN stack :
                                  type[stack[k]].element # "a"})
                   + (IF c = "a" THEN 0 ELSE 1)
      continue(x) == IF x.stack = <<>> THEN x.type
                     ELSE ParseFrom(str, x.type, x.stack)
  IN  IF i > Len(str) \/ ~inDict THEN <<>>
      ELSE CASE c \in {"(", "{", "a"} ->
                  IF \/ Len(opened) > DepthMax
                     \/ tuples > DepthMax \div 2
                     \/ Len(opened) - tuples > DepthMax \div 2
                  THEN <<>>
                  ELSE ParseFrom(str,
                         Append(type,
                           IF c = "a" THEN TypeElement(c, 1, 2, 0, FALSE)
                                      ELSE TypeElement(c, 2, 3, 0, FALSE)),
                         opened)
             [] c \in {"}", ")"} ->
                  IF container # Opener(c) THEN <<>>
                  ELSE continue(Terminal(Append(type, TypeElement(c, 1, 0, 0, FALSE)),
                                         Front(stack), at))
             [] c \in DOMAIN Builtins ->
                  continue(Terminal(Append(type, Builtins[c]), stack, i))
             [] OTHER -> <<>>

NewOfLength(str, n) ==
  IF n = 0 THEN <<>> ELSE ParseFrom(SubSeq(str, 1, n), <<>>, <<>>)
NewFromSignature(str) == NewOfLength(str, TypeLength(str, 0, 0))

\* c_dvar_type_compare_string() = 0
TypeEquals(type, str) ==
  /\ Len(type) = Len(str)
  /\ \A k \in DOMAIN str : type[k].element = str[k]

(***************************************************************************)
(* The variant.  Its levels are the containers that are open: the type     *)
(* array, the index of the next element, how many elements are left, what  *)
(* kind of container it is, where it is in the buffer and, when reading,   *)
(* how many bytes it has left, when writing, where its array's size goes.  *)
(* Operations leave a variant whose poison, once it is not Ok, stays.      *)
(***************************************************************************)
Ok == "ok"

Level(types, n, nb) ==
  [types |-> types, i |-> 1, n |-> n, container |-> "",
   ib |-> 0, nb |-> nb, index |-> 0]

Cur(v) == Last(v.levels)
SetCur(v, l) == [v EXCEPT !.levels = Append(Front(v.levels), l)]
Poison(v, e) == [v EXCEPT !.poison = e]
Then(v, Op(_)) == IF v.poison # Ok THEN v ELSE Op(v)

RealChar(c) ==
  CASE c \in {"[", "]"} -> "a" [] c \in {"<", ">"} -> "v"
    [] c = ")" -> "(" [] c = "}" -> "{" [] OTHER -> c

Openers == {"[", "<", "(", "{"}
Closers == {"]", ">", ")", "}"}

\* c_dvar_next_varg(): c must be what comes next.
NextVarg(v, c) ==
  LET l == Cur(v)
  IN  CASE c \in Closers ->
             IF (c # "]" /\ l.n > 0) \/ l.container # RealChar(c)
             THEN Poison(v, "NotRecoverable") ELSE v
        [] c \in {"a", "v"} -> Poison(v, "NotRecoverable")
        [] c \in Openers /\ Len(v.levels) >= DepthMax ->
             Poison(v, "DepthOverflow")
        [] OTHER ->
             IF l.n = 0 \/ (l.n > 0 /\ l.types[l.i].element # RealChar(c))
             THEN Poison(v, "NotRecoverable") ELSE v

Push(v) ==
  LET l == Cur(v)
  IN  [v EXCEPT !.levels = Append(@,
         [l EXCEPT !.i = @ + 1,
                   !.n = l.types[l.i].length - 1,
                   !.container = l.types[l.i].element,
                   !.index = 0])]

Pop(v) ==
  LET up == Front(v.levels)  n == Cur(v).ib - Last(up).ib
  IN  [v EXCEPT !.levels =
         [up EXCEPT ![Len(up)].ib = @ + n,
                    ![Len(up)].nb = IF v.ro THEN @ - n ELSE @]]

\* A tuple's own level ends before its closing bracket.
PushTuple(v) ==
  LET w == Push(v) IN SetCur(w, [Cur(w) EXCEPT !.n = @ - 1])

\* The level of a variant holds one type of its own.
PushVariant(v, type) ==
  LET w == Push(v)
  IN  SetCur(w, [Cur(w) EXCEPT !.types = type, !.i = 1, !.n = Len(type)])

\* A terminal was handled: the iterator moves on, except within an array.
Advance(v) ==
  LET l == Cur(v)  length == l.types[l.i].length
  IN  IF l.container = "a" THEN v
      ELSE SetCur(v, [l EXCEPT !.i = @ + length, !.n = @ - length])

\* c_dvar_rewind() and what end_read()/end_write() reset.
Rewind(v) ==
  [v EXCEPT !.levels =
     <<[Head(@) EXCEPT !.i = 1, !.n = Len(v.levels[1].types), !.ib = 0,
                       !.nb = Len(v.data), !.index = 0]>>]

\* c_dvar_bswap*(): a number as the wire has it, and back.
Swap(v, bytes) == IF v.big THEN Reverse(bytes) ELSE bytes
U32(n) == <<n % 256, (n \div 256) % 256, 0, 0>>

\* The number four bytes stand for; every number that is larger than any
\* buffer is Huge.
Huge == 2^30
Number(bytes) ==
  IF \E k \in DOMAIN bytes : k > 2 /\ bytes[k] # 0 THEN Huge
  ELSE bytes[1] + (IF Len(bytes) > 1 THEN 256 * bytes[2] ELSE 0)

(***************************************************************************)
(* Writing.  arg is the argument of the format character: bytes in host    *)
(* order, a string, or the type of a variant.                              *)
(***************************************************************************)
RECURSIVE PowerFrom(_, _)
PowerFrom(p, n) == IF p >= n THEN p ELSE PowerFrom(2 * p, n)

\* c_dvar_write_data(): room for it (the memory that is added holds junk),
\* zeroes up to the alignment, then the data.
WriteData(v, alignment, bytes) ==
  LET l    == Cur(v)
      from == Align(l.ib, alignment)
      end  == from + Len(bytes)
      size == IF Len(v.data) >= end THEN Len(v.data)
              ELSE IF end <= PageSize THEN PageSize ELSE PowerFrom(1, end)
      data == [k \in 1..size |->
                 CASE k > from /\ k <= end -> bytes[k - from]
                   [] k > l.ib /\ k <= from -> 0
                   [] k \in DOMAIN v.data /\ (k <= l.ib \/ k > end) -> v.data[k]
                   [] OTHER -> Junk]
  IN  SetCur([v EXCEPT !.data = data], [l EXCEPT !.ib = end])

BeginWrite(big, types) ==
  [ro |-> FALSE, big |-> big, data |-> <<>>, poison |-> Ok, out |-> <<>>,
   levels |-> <<Level(types, Len(types), 0)>>]

\* '[': a placeholder for the size, alignment to what the array holds.
WriteOpenArray(v) ==
  LET w == WriteData(v, 2, U32(0))
      x == SetCur(w, [Cur(w) EXCEPT !.index = Cur(w).ib - 4])
  IN  Push(WriteData(x, Cur(x).types[Cur(x).i + 1].alignment, <<>>))

\* ']': the size goes where the placeholder is.
WriteCloseArray(v) ==
  LET up   == v.levels[Len(v.levels) - 1]
      size == Swap(v, U32(Cur(v).ib - up.ib))
  IN  Pop([v EXCEPT !.data =
             [k \in DOMAIN @ |->
                IF k \in (up.index + 1)..(up.index + 4)
                THEN size[k - up.index] ELSE @[k]]])

WriteOpenVariant(v, type) ==
  LET w == WriteData(v, 0, <<Len(type)>>)
      x == WriteData(w, 0,
             Bytes([k \in DOMAIN type |-> type[k].element]) \o <<0>>)
  IN  PushVariant(x, type)

WriteString(v, c, str) ==
  LET w == IF c = "g" THEN WriteData(v, 0, <<Len(str)>>)
                      ELSE WriteData(v, 2, Swap(v, U32(Len(str))))
  IN  WriteData(w, 0, Bytes(str) \o <<0>>)

\* c_dvar_try_vwrite() for one format character.
TryWrite(v, c, arg) ==
  CASE c = "["         -> WriteOpenArray(v)
    [] c = "<"         -> WriteOpenVariant(v, arg)
    [] c \in {"(", "{"} -> PushTuple(WriteData(v, 3, <<>>))
    [] c = "]"         -> Advance(WriteCloseArray(v))
    [] c \in {">", ")", "}"} -> Advance(Pop(v))
    [] c = "b"         -> Advance(WriteData(v, 2,
                            Swap(v, U32(IF Number(arg) = 0 THEN 0 ELSE 1))))
    [] c \in {"s", "o", "g"} -> Advance(WriteString(v, c, arg))
    [] OTHER           -> Advance(WriteData(v, Builtins[c].alignment,
                                            Swap(v, arg)))

Write(v, c, arg) ==
  Then(v, LAMBDA w : Then(NextVarg(w, c), LAMBDA x : TryWrite(x, c, arg)))

\* c_dvar_end_write(): the error, or the bytes written.
WriteResult(v) ==
  IF v.poison # Ok THEN v.poison
  ELSE IF Len(v.levels) > 1 \/ Cur(v).n > 0 THEN "CorruptData" ELSE Ok
WrittenBytes(v) == SubSeq(v.data, 1, Cur(v).ib)

(***************************************************************************)
(* Reading.  What a read hands out is left in `out`.                       *)
(***************************************************************************)
\* c_dvar_read_data(): the alignment must be zeroed and all of it there.
ReadData(v, alignment, n) ==
  LET l     == Cur(v)
      from  == Align(l.ib, alignment)
      whole == (from - l.ib) + n
  IN  IF l.nb < whole THEN Poison(v, "OutOfBounds")
      ELSE IF \E k \in (l.ib + 1)..from : v.data[k] # 0
      THEN Poison(v, "CorruptData")
      ELSE SetCur([v EXCEPT !.out = SubSeq(v.data, from + 1, from + n)],
                  [l EXCEPT !.ib = @ + whole, !.nb = @ - whole])

\* c_dvar_read_u8() to c_dvar_read_u64()
ReadFixed(v, alignment, n) ==
  Then(ReadData(v, alignment, n),
       LAMBDA w : [w EXCEPT !.out = Swap(w, @)])

BeginRead(big, types, data) ==
  [ro |-> TRUE, big |-> big, data |-> data, poison |-> Ok, out |-> <<>>,
   levels |-> <<Level(types, Len(types), Len(data))>>]

More(v) == v.poison = Ok /\ Cur(v).nb > 0

\* '[': the size, then the alignment, which does not count.
ReadOpenArray(v) ==
  Then(ReadFixed(v, 2, 4), LAMBDA w :
    LET size == Number(w.out)
        l    == Cur(w)
    IN  Then(ReadData(w, l.types[l.i + 1].alignment, 0), LAMBDA x :
          IF size > Cur(x).nb THEN Poison(x, "OutOfBounds")
          ELSE LET y == Push(x) IN SetCur(y, [Cur(y) EXCEPT !.nb = size])))

\* A length of lengthSize bytes, that many bytes, and a zero.
ReadBlob(v, alignment, lengthSize, IsValid(_)) ==
  Then(ReadFixed(v, alignment, lengthSize), LAMBDA w :
  Then(ReadData(w, 0, Number(w.out)), LAMBDA x :
  Then(ReadData(x, 0, 1), LAMBDA y :
    IF y.out # <<0>> \/ ~IsValid(x.out) THEN Poison(y, "CorruptData")
    ELSE [y EXCEPT !.out = x.out])))

\* '<': the signature that is there; expect is the type the caller wants,
\* or the empty sequence for any.
EnterVariant(v, str, type, expect) ==
  IF expect = <<>>
  THEN IF type = <<>> \/ Len(type) # Len(str)
       THEN Poison(v, "CorruptData") ELSE PushVariant(v, type)
  ELSE IF ~TypeEquals(expect, str)
       THEN Poison(v, "TypeMismatch") ELSE PushVariant(v, expect)

ReadOpenVariant(v, expect) ==
  Then(ReadBlob(v, 0, 1, LAMBDA b : IsType(Chars(b))), LAMBDA w :
    EnterVariant(w, Chars(w.out), NewFromSignature(Chars(w.out)), expect))

\* c_dvar_is_string() (c_utf8_verify() refuses the zero byte) and
\* c_dvar_is_path()
IsString(bytes) == \A k \in DOMAIN bytes : bytes[k] \in 1..127
IsPath(bytes) ==
  /\ bytes # <<>> /\ Head(bytes) = Code["/"]
  /\ \A k \in DOMAIN bytes :
       IF bytes[k] = Code["/"]
       THEN (k > 1 /\ bytes[k - 1] # Code["/"] /\ k < Len(bytes)) \/ k = 1
       ELSE bytes[k] \in (48..57) \cup (65..90) \cup (97..122) \cup {95}

\* Strings, paths and signatures.
ReadText(v, c) ==
  CASE c = "s" -> ReadBlob(v, 2, 4, IsString)
    [] c = "o" -> ReadBlob(v, 2, 4, IsPath)
    [] c = "g" -> ReadBlob(v, 0, 1, LAMBDA b : IsSignature(Chars(b)))

\* c_dvar_try_vread() for one format character.
TryRead(v, c, expect) ==
  CASE c = "["  -> ReadOpenArray(v)
    [] c = "<"  -> ReadOpenVariant(v, expect)
    [] c \in {"(", "{"} -> Then(ReadData(v, 3, 0), PushTuple)
    [] c = "]"  -> IF Cur(v).nb > 0 THEN Poison(v, "CorruptData")
                   ELSE Advance(Pop(v))
    [] c \in {">", ")", "}"} -> Advance(Pop(v))
    [] c = "b"  -> Then(ReadFixed(v, 2, 4), LAMBDA w :
                     IF Number(w.out) \notin {0, 1}
                     THEN Poison(w, "CorruptData") ELSE Advance(w))
    [] c \in {"s", "o", "g"} -> Then(ReadText(v, c), Advance)
    [] OTHER    -> Then(ReadFixed(v, Builtins[c].alignment, Builtins[c].size),
                        Advance)

\* c_dvar_dummy_vread(): what a failed or poisoned read hands out.
Dummy(c) ==
  CASE c \in {"s", "g"} -> <<>>
    [] c = "o" -> <<Code["/"]>>
    [] c \in DOMAIN Builtins \ {"v"} -> [k \in 1..Builtins[c].size |-> 0]
    [] OTHER -> <<>>

OrDummy(v, c) == IF v.poison # Ok THEN [v EXCEPT !.out = Dummy(c)] ELSE v

Read(v, c, expect) ==
  OrDummy(Then(v, LAMBDA x :
            Then(NextVarg(x, c), LAMBDA y : TryRead(y, c, expect))), c)

\* What follows in the container: an element, or its end.
AtElement(v) == Cur(v).n > 0 /\ (Cur(v).container # "a" \/ More(v))
Closer(v) ==
  CASE Cur(v).container = "a" -> "]" [] Cur(v).container = "v" -> ">"
    [] Cur(v).container = "(" -> ")" [] OTHER -> "}"
StreamChar(c) == CASE c = "a" -> "[" [] c = "v" -> "<" [] OTHER -> c

\* The elements whose bytes are all valid.
\* Faulty variant: booleans among them, whose bytes are not.
LeapCharsWithBool == {"y", "n", "q", "i", "h", "u", "x", "t", "d", "b"}
LeapChars == {"y", "n", "q", "i", "h", "u", "x", "t", "d"}

\* c_dvar_ff(): one whole value is skipped, arrays of fixed elements that
\* need no validation in one go.
RECURSIVE FastForward(_, _)
Onward(v, depth) == IF depth = 0 THEN v ELSE FastForward(v, depth)

FastForward(v, depth) ==
  LET l       == Cur(v)
      c       == IF AtElement(v) THEN StreamChar(l.types[l.i].element)
                 ELSE Closer(v)
      leap    == c \in LeapChars /\ depth > 0 /\ l.container = "a"
      rest    == l.nb % l.types[l.i].size
      leapt   == SetCur(v, [l EXCEPT !.ib = @ + l.nb - rest, !.nb = rest])
      d       == CASE leap \/ c \in Closers -> depth - 1
                   [] c \in Openers -> depth + 1
                   [] OTHER -> depth
  IN  IF v.poison # Ok THEN v
      ELSE IF ~AtElement(v) /\ depth = 0 THEN Poison(v, "NotRecoverable")
      ELSE Onward(Read(IF leap THEN leapt ELSE v,
                       IF leap THEN "]" ELSE c, <<>>), d)

\* c_dvar_skip() with the format "*"
Skip(v) == Then(v, LAMBDA w : FastForward(w, 0))

\* c_dvar_end_read()
ReadResult(v) ==
  IF v.poison # Ok THEN v.poison
  ELSE IF Len(v.levels) > 1 \/ Cur(v).n > 0 THEN "NotRecoverable"
  ELSE IF Cur(v).nb > 0 THEN "CorruptData" ELSE Ok
=============================================================================
