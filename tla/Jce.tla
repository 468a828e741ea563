--------------------------------- MODULE Jce ---------------------------------
(***************************************************************************)
(* Every type of src/jni/jce/Jce.h: besides those of JceBytes reals,       *)
(* vectors, maps and structs, which contain each other.  A type is a       *)
(* record: k names the overload of read and write, the other fields its    *)
(* parameters: the size of the buffer of a CharPtr, what a Vector is of,   *)
(* key and val of a Map, the fields of a Struct.  A map's value is the     *)
(* sequence of its pairs in key order, a struct's the sequence of its      *)
(* fields' values.                                                         *)
(***************************************************************************)
EXTENDS JceBytes, SequencesExt

ASSUME RealAssumption ==
  SizeOf["Float"] >= 2 /\ SizeOf["Float"] <= SizeOf["Double"]

-----------------------------------------------------------------------------
(* JceOutputStream. *)

\* What write refuses, with an exception.
TooLong(T, v) == T.k = "String" /\ Len(v) > JCE_MAX_STRING_LENGTH

RECURSIVE Write(_, _, _)
Write(T, v, tag) ==
  CASE IsInteger(T.k)   -> WriteInteger(v, Carrier(T.k), tag)
    [] T.k = "Float"    -> HeadOf(eFloat, tag) \o Reverse(v)
    [] T.k = "Double"   -> HeadOf(eDouble, tag) \o Reverse(v)
    [] T.k = "String"   -> WriteString(v, tag)
    [] T.k = "CharPtr"  -> WriteBytes(v, "Int64", tag)
    [] T.k = "Chars"    -> WriteBytes(v, "Int32", tag)
    [] T.k = "Vector"   ->
         HeadOf(eList, tag) \o WriteInteger(Len(v), "Int32", 0)
           \o FlattenSeq([i \in 1..Len(v) |-> Write(T.of, v[i], 0)])
    [] T.k = "Map"      -> \* pairs in the order of their keys
         HeadOf(eMap, tag) \o WriteInteger(Len(v), "Int32", 0)
           \o FlattenSeq([i \in 1..Len(v) |->
                            Write(T.key, v[i][1], 0) \o Write(T.val, v[i][2], 1)])
    [] T.k = "Struct"   ->
         HeadOf(eStructBegin, tag)
           \o FlattenSeq([i \in 1..Len(v) |-> Write(T.fields[i].type, v[i], T.fields[i].tag)])
           \o HeadOf(eStructEnd, 0)

-----------------------------------------------------------------------------
(* JceInputStream. *)

\* What converting a float, the bytes of its memory lowest first, does to it: the
\* processor makes of a signalling NaN a quiet one, and keeps all else.
SignallingNaN(f) ==
  LET w == Len(f)
  IN  /\ f[w] % 128 = 127 /\ f[w - 1] \in 128..191
      /\ f[w - 1] # 128 \/ \E i \in 1..(w - 2) : f[i] # 0
Converted(f) == IF SignallingNaN(f) THEN [f EXCEPT ![Len(f) - 1] = @ + 64] ELSE f

\* The Double of a float's value.
ToDouble(f) == Converted(f) \o [i \in 1..(SizeOf["Double"] - SizeOf["Float"]) |-> 0]

\* A Float read as a Double is converted to a Double and back before jce_ntohf
\* puts its bytes in order.
ReadReal(buf, cur, type, k) ==
  IF type = eZeroTag THEN Value([i \in 1..SizeOf[k] |-> 0], cur)
  ELSE IF k = "Double" /\ type = eDouble
    THEN Then(ReadBuf(buf, cur, SizeOf["Double"]), LAMBDA b, p : Value(Reverse(b), p))
  ELSE IF type = eFloat
    THEN Then(ReadBuf(buf, cur, SizeOf["Float"]), LAMBDA b, p :
           Value(IF k = "Float" THEN Reverse(b) ELSE ToDouble(Reverse(Converted(b))), p))
  ELSE Throw("mismatch", cur)

RECURSIVE Read(_, _, _, _, _, _), ReadPairs(_, _, _, _, _), ReadFields(_, _, _, _, _)

ReadPairs(buf, cur, n, T, read) == \* insert keeps the first value of a key
  IF n = 0 THEN Value(read, cur)
  ELSE Then(Read(buf, cur, T.key, <<>>, 0, TRUE), LAMBDA key, p :
         Then(Read(buf, p, T.val, <<>>, 1, TRUE), LAMBDA v, q :
           ReadPairs(buf, q, n - 1, T,
             IF \E i \in DOMAIN read : read[i][1] = key THEN read
             ELSE Append(read, <<key, v>>))))

\* T::readFrom: field by field, each with the default it is reset to.
ReadFields(buf, cur, T, i, read) ==
  IF i > Len(T.fields) THEN Value(read, cur)
  ELSE LET f == T.fields[i]
       IN  Then(Read(buf, cur, f.type, f.default, f.tag, f.require), LAMBDA v, p :
             ReadFields(buf, p, T, i + 1, Append(read, v)))

ReadList(buf, cur, T) ==
  Then(ReadCount(buf, cur, Len(buf)), LAMBDA n, p :
    ReadElements(LAMBDA c : Read(buf, c, T, <<>>, 0, TRUE), p, n))

ReadMap(buf, cur, T) ==
  Then(ReadCount(buf, cur, Len(buf)), LAMBDA n, p : ReadPairs(buf, p, n, T, <<>>))

ReadStruct(buf, cur, T) ==
  Then(ReadFields(buf, cur, T, 1, <<>>), LAMBDA v, p :
    Then(SkipToStructEnd(Skip(buf), buf, p), LAMBDA e, q : Value(v, q)))

ReadBody(buf, cur, T, type) == \* behind the field's head
  CASE IsInteger(T.k) -> ReadInteger(buf, cur, type, T.k)
    [] T.k \in {"Float", "Double"} -> ReadReal(buf, cur, type, T.k)
    [] T.k = "String" -> ReadString(buf, cur, type)
    [] T.k = "CharPtr" /\ type = eSimpleList -> ReadBytes(buf, cur, T.bufLen)
    [] T.k = "Chars" -> ReadChars(buf, cur, type)
    [] T.k = "Vector" /\ type = eList -> ReadList(buf, cur, T.of)
    [] T.k = "Map" /\ type = eMap -> ReadMap(buf, cur, T)
    [] T.k = "Struct" /\ type = eStructBegin -> ReadStruct(buf, cur, T)
    [] OTHER -> Throw("mismatch", cur)

Read(buf, cur, T, old, tag, isRequire) ==
  ReadTagged(LAMBDA p, type : ReadBody(buf, p, T, type), buf, cur, old, tag, isRequire)

-----------------------------------------------------------------------------
(* Fields behind the last one a reader knows, kept as they are. *)

RECURSIVE UnknownEnd(_, _, _)
UnknownEnd(buf, cur, lasttag) ==
  IF HasEnd(buf, cur) THEN Value(cur, cur)
  ELSE Then(PeekHead(buf, cur), LAMBDA h, p :
         IF h.tag <= lasttag THEN Value(cur, cur)
         ELSE Then(Skip(buf)[p, h.type], LAMBDA v, q : UnknownEnd(buf, q, h.tag)))

ReadUnknown(buf, cur, tag) ==
  Then(UnknownEnd(buf, cur, tag), LAMBDA end, p : Value(SubSeq(buf, cur + 1, end), p))

=============================================================================
