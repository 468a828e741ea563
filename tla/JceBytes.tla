------------------------------- MODULE JceBytes -------------------------------
(***************************************************************************)
(* The tag and type encoding of src/jni/jce/Jce.h: numbers, heads, integer *)
(* fields, strings and byte vectors, as functions from values to bytes and *)
(* back, and the way past fields nobody asked for.  A byte is a number, a  *)
(* stream the sequence of its bytes and a cursor (how many were read), a   *)
(* C++ exception a result whose err is not "none".  Jce has the types that *)
(* contain others.                                                         *)
(***************************************************************************)
EXTENDS Integers, Sequences

CONSTANTS SizeOf,                \* bytes of Char, Short, Int32, Int64, Float, Double,
                                 \* and of the Length of an eString4, a uint32_t
          kString1Max,           \* 255 in the code
          JCE_MAX_STRING_LENGTH  \* 100 * 2^20 in the code

ASSUME JceAssumption ==
  /\ SizeOf \in [{"Char", "Short", "Int32", "Int64", "Float", "Double", "Length"} -> Nat]
  /\ SizeOf["Char"] = 1
  /\ SizeOf["Char"] < SizeOf["Short"] /\ SizeOf["Short"] < SizeOf["Int32"]
  /\ SizeOf["Int32"] < SizeOf["Int64"] /\ SizeOf["Int32"] <= SizeOf["Length"]
  /\ kString1Max \in 1..255
  /\ JCE_MAX_STRING_LENGTH \in Nat /\ kString1Max <= JCE_MAX_STRING_LENGTH

\* The types of a field's head.
eChar == 0
eShort == 1
eInt32 == 2
eInt64 == 3
eFloat == 4
eDouble == 5
eString1 == 6
eString4 == 7
eMap == 8
eList == 9
eStructBegin == 10
eStructEnd == 11
eZeroTag == 12
eSimpleList == 13

\* The integer types a value is written as, narrowest first, and their heads.
Integers == <<"Char", "Short", "Int32", "Int64">>
Rank(k)  == CHOOSE i \in 1..4 : Integers[i] = k
Fixed    == Integers \o <<"Float", "Double">> \* by head, from eChar on

-----------------------------------------------------------------------------
(* Numbers. *)

Byte == 0..255

Power[w \in Nat] == IF w = 0 THEN 1 ELSE 256 * Power[w - 1]

BigEndian(n, w) == \* also of a negative n: two's complement
  [i \in 1..w |-> (n \div Power[w - i]) % 256]

FromBytes(top, rest) ==
  LET number[i \in 0..Len(rest)] == IF i = 0 THEN top ELSE 256 * number[i - 1] + rest[i]
  IN  number[Len(rest)]
Unsigned(bytes) == FromBytes(0, bytes)
Signed(bytes) ==
  FromBytes(IF Head(bytes) < 128 THEN Head(bytes) ELSE Head(bytes) - 256, Tail(bytes))

HalfRange(k) == 128 * Power[SizeOf[k] - 1]
Fits(n, k) == k = "Int64" \/ n \in -HalfRange(k)..(HalfRange(k) - 1)

\* The signed type an overload hands its value to, and the cast back.
Carrier(k) == CASE k = "Bool" -> "Char"    [] k = "UInt8" -> "Short"
                [] k = "UInt16" -> "Int32" [] k = "UInt32" -> "Int64"
                [] k = "Enum" -> "Int32"   [] OTHER -> k
CastBack(k, n) == CASE k = "Bool" -> IF n = 0 THEN 0 ELSE 1
                    [] k = "UInt8" -> n % 256
                    [] k = "UInt16" -> n % Power[SizeOf["Short"]]
                    [] k = "UInt32" -> n % Power[SizeOf["Int32"]]
                    [] OTHER -> n
IsInteger(k) ==
  k \in {"Bool", "Enum", "UInt8", "UInt16", "UInt32", "Char", "Short", "Int32", "Int64"}

-----------------------------------------------------------------------------
(* JceOutputStream. *)

HeadOf(type, tag) ==
  IF tag < 15 THEN <<type + 16 * tag>> ELSE <<type + 16 * 15, tag>>

\* Mutant: the bounds of the narrower type are off by one.
NarrowestWide(n, k) ==
  Integers[CHOOSE i \in 1..Rank(k) :
             /\ i = Rank(k) \/ n \in -HalfRange(Integers[i])..HalfRange(Integers[i])
             /\ \A j \in 1..(i - 1) : n \notin -HalfRange(Integers[j])..HalfRange(Integers[j])]

Narrowest(n, k) == \* the first of the integer types, up to k, that holds n
  Integers[CHOOSE i \in 1..Rank(k) :
             (i = Rank(k) \/ Fits(n, Integers[i])) /\ \A j \in 1..(i - 1) : ~Fits(n, Integers[j])]

WriteInteger(n, k, tag) ==
  IF n = 0 THEN HeadOf(eZeroTag, tag)
  ELSE LET small == Narrowest(n, k)
       IN  HeadOf(Rank(small) - 1, tag) \o BigEndian(n, SizeOf[small])

WriteString(s, tag) ==
  IF Len(s) > kString1Max
    THEN HeadOf(eString4, tag) \o BigEndian(Len(s), SizeOf["Length"]) \o s
    ELSE HeadOf(eString1, tag) \o <<Len(s)>> \o s

WriteBytes(s, size, tag) == \* a vector of Char, and a char * with its length
  HeadOf(eSimpleList, tag) \o HeadOf(eChar, 0) \o WriteInteger(Len(s), size, 0) \o s

-----------------------------------------------------------------------------
(* BufferReader: what it returns, or why it throws, and where it stands then. *)

Value(v, cur)   == [err |-> "none", val |-> v, cur |-> cur]
Throw(why, cur) == [err |-> why, val |-> <<>>, cur |-> cur]
Ok(r) == r.err = "none"

\* The result of r, or of continuing after it with its value and its cursor.
Then(r, Continue(_, _)) == IF Ok(r) THEN Continue(r.val, r.cur) ELSE r

HasEnd(buf, cur) == cur >= Len(buf)

\* Mutant: the bytes behind the end are read too, whatever they are.
ReadBufUnchecked(buf, cur, len) ==
  Value([i \in 1..len |-> IF cur + i <= Len(buf) THEN buf[cur + i] ELSE 0], cur + len)

ReadBuf(buf, cur, len) ==
  IF cur + len > Len(buf) THEN Throw("decode", cur)
                          ELSE Value(SubSeq(buf, cur + 1, cur + len), cur + len)

\* A head [type, tag]; the cursor of the result is behind it.
PeekHead(buf, cur) ==
  IF cur + 1 > Len(buf) THEN Throw("decode", cur)
  ELSE LET h    == buf[cur + 1]
           type == h % 16
       IN  IF h \div 16 # 15 THEN Value([type |-> type, tag |-> h \div 16], cur + 1)
           ELSE IF cur + 2 > Len(buf) THEN Throw("decode", cur)
           ELSE Value([type |-> type, tag |-> buf[cur + 2]], cur + 2)

-----------------------------------------------------------------------------
(* JceInputStream: passing over fields.  skip is the function of a stream  *)
(* that does it: skip[cur, type] is the result of SkipField.               *)

SkipOne(skip, buf, cur) == \* skipField(): a head and its field
  Then(PeekHead(buf, cur), LAMBDA h, p : skip[p, h.type])

\* Where the search for a tag ends, and whether it has found it.  An exception
\* ends it where it occurs; the cursor is not put back.
Stops(buf, cur, tag) ==
  \/ HasEnd(buf, cur)
  \/ LET h == PeekHead(buf, cur)
     IN  ~Ok(h) \/ tag <= h.val.tag \/ h.val.type = eStructEnd

Finds(buf, cur, tag) ==
  /\ ~HasEnd(buf, cur)
  /\ LET h == PeekHead(buf, cur)
     IN  Ok(h) /\ tag = h.val.tag /\ h.val.type # eStructEnd

SkipToTag(skip, buf, cur, tag) ==
  LET search[c \in Int] ==
        IF Stops(buf, c, tag) THEN Value(Finds(buf, c, tag), c)
        ELSE LET s == SkipOne(skip, buf, c)
             IN  IF Ok(s) THEN search[s.cur] ELSE Value(FALSE, s.cur)
  IN  IF Stops(buf, cur, tag) THEN Value(Finds(buf, cur, tag), cur) ELSE search[cur]

\* A size in front of a container's elements: read(size, 0), which is required.
ReadSize(skip, buf, cur, k) ==
  Then(SkipToTag(skip, buf, cur, 0), LAMBDA found, at :
    IF ~found THEN Throw("missing", at)
    ELSE Then(PeekHead(buf, at), LAMBDA h, p :
           IF h.type = eZeroTag THEN Value(0, p)
           ELSE IF h.type >= Rank(k) THEN Throw("mismatch", p)
           ELSE Then(ReadBuf(buf, p, SizeOf[Integers[h.type + 1]]), LAMBDA b, q :
                  Value(Signed(b), q))))

SkipFields(skip, buf, cur, n) ==
  LET past[c, left \in Int] ==
        IF left <= 0 THEN Value(<<>>, c)
        ELSE Then(SkipOne(skip, buf, c), LAMBDA v, p : past[p, left - 1])
  IN  past[cur, n]

SkipToStructEnd(skip, buf, cur) ==
  LET past[c \in Int] ==
        Then(PeekHead(buf, c), LAMBDA h, p :
          Then(skip[p, h.type], LAMBDA v, q :
            IF h.type = eStructEnd THEN Value(<<>>, q) ELSE past[q]))
  IN  past[cur]

\* Mutant: a map counts as many fields as it has pairs.
SkipMapHalf(skip, buf, cur) ==
  Then(ReadSize(skip, buf, cur, "Int32"), LAMBDA n, p : SkipFields(skip, buf, p, n))

SkipMap(skip, buf, cur) ==
  Then(ReadSize(skip, buf, cur, "Int32"), LAMBDA n, p : SkipFields(skip, buf, p, 2 * n))

SkipList(skip, buf, cur) ==
  Then(ReadSize(skip, buf, cur, "Int32"), LAMBDA n, p : SkipFields(skip, buf, p, n))

SkipBytes(skip, buf, cur) == \* behind an eSimpleList
  Then(PeekHead(buf, cur), LAMBDA h, p :
    IF h.type # eChar THEN Throw("mismatch", p)
    ELSE Then(ReadSize(skip, buf, p, "Int32"), LAMBDA n, q : Value(<<>>, q + n)))

SkipField(skip, buf, cur, type) == \* skip() does not look at the end of the buffer
  CASE type < Len(Fixed) -> Value(<<>>, cur + SizeOf[Fixed[type + 1]])
    [] type = eString1 ->
         Then(ReadBuf(buf, cur, 1), LAMBDA b, p : Value(<<>>, p + b[1]))
    [] type = eString4 ->
         Then(ReadBuf(buf, cur, SizeOf["Length"]), LAMBDA b, p : Value(<<>>, p + Unsigned(b)))
    [] type = eMap -> SkipMap(skip, buf, cur)
    [] type = eList -> SkipList(skip, buf, cur)
    [] type = eSimpleList -> SkipBytes(skip, buf, cur)
    [] type = eStructBegin -> SkipToStructEnd(skip, buf, cur)
    [] type \in {eStructEnd, eZeroTag} -> Value(<<>>, cur)
    [] OTHER -> Throw("mismatch", cur)

Skip(buf) == LET skip[cur \in Int, type \in Nat] == SkipField(skip, buf, cur, type) IN skip

-----------------------------------------------------------------------------
(* JceInputStream: reading fields. *)

\* read(v, tag, isRequire) where v was old before: Body(cur, type) is what an
\* overload makes of a field of that type behind its head (Jce.h:646-675).
ReadTagged(Body(_, _), buf, cur, old, tag, isRequire) ==
  Then(SkipToTag(Skip(buf), buf, cur, tag), LAMBDA found, at :
    IF found THEN Then(PeekHead(buf, at), LAMBDA h, p : Body(p, h.type))
    ELSE IF isRequire THEN Throw("missing", at)
    ELSE Value(old, at))

ReadInteger(buf, cur, type, k) == \* any width up to the one asked for
  IF type = eZeroTag THEN Value(0, cur)
  ELSE IF type >= Rank(Carrier(k)) THEN Throw("mismatch", cur)
  ELSE Then(ReadBuf(buf, cur, SizeOf[Integers[type + 1]]), LAMBDA b, p :
         Value(CastBack(k, Signed(b)), p))

ReadString(buf, cur, type) ==
  CASE type = eString1 ->
         Then(ReadBuf(buf, cur, 1), LAMBDA b, p : ReadBuf(buf, p, b[1]))
    [] type = eString4 ->
         Then(ReadBuf(buf, cur, SizeOf["Length"]), LAMBDA b, p :
           IF Unsigned(b) > JCE_MAX_STRING_LENGTH THEN Throw("invalid", p)
           ELSE ReadBuf(buf, p, Unsigned(b)))
    [] OTHER -> Throw("mismatch", cur)

\* UInt32 size; read(size, 0), and the limit on it.
ReadCount(buf, cur, limit) ==
  Then(ReadSize(Skip(buf), buf, cur, "Int64"), LAMBDA n, p :
    LET size == CastBack("UInt32", n)
    IN  IF size > limit THEN Throw("invalid", p) ELSE Value(size, p))

ReadBytes(buf, cur, limit) == \* behind an eSimpleList
  Then(PeekHead(buf, cur), LAMBDA h, p :
    IF h.type # eChar THEN Throw("mismatch", p)
    ELSE Then(ReadCount(buf, p, limit), LAMBDA n, q : ReadBuf(buf, q, n)))

\* A vector that has its size, then read(v[i], 0) for each element (Jce.h:1110-1113).
ReadElements(One(_), cur, n) ==
  LET read[c, left \in Int] ==
        IF left = 0 THEN Value(<<>>, c)
        ELSE Then(One(c), LAMBDA v, p :
               Then(read[p, left - 1], LAMBDA vs, q : Value(<<v>> \o vs, q)))
  IN  read[cur, n]

ReadChar(buf, cur) ==
  ReadTagged(LAMBDA p, type : ReadInteger(buf, p, type, "Char"), buf, cur, 0, 0, TRUE)

\* A vector<Char> is read from either kind of list.
ReadCharList(buf, cur) ==
  Then(ReadCount(buf, cur, Len(buf)), LAMBDA n, p :
    ReadElements(LAMBDA c : ReadChar(buf, c), p, n))
ReadChars(buf, cur, type) ==
  CASE type = eSimpleList -> ReadBytes(buf, cur, Len(buf))
    [] type = eList       -> ReadCharList(buf, cur)
    [] OTHER              -> Throw("mismatch", cur)

=============================================================================
