------------------------------ MODULE JceStream ------------------------------
(***************************************************************************)
(* A program that writes fields to a JceOutputStream in the order of their *)
(* tags, a connection that delivers the bytes or only the first of them,   *)
(* and a program, perhaps of another version, that reads with a            *)
(* JceInputStream the fields it knows.  A tag is a byte; the fields of one *)
(* struct are written and read by generated code, tags ascending.          *)
(***************************************************************************)
EXTENDS Jce

\* What is written and read: a sequence of [samples, readers, tags, maxFields,
\* cuts].  A sample is a field's [type, val], a reader the [type, old] it is read
\* into; maxFields bounds the fields written, and cuts has the numbers of bytes
\* behind which the connection may lose the rest.
CONSTANT Programs

VARIABLES program, \* which of Programs this is
          written, \* the fields, a sequence of [tag, type, val]
          got,     \* the bytes the reader was given, once phase is "reads"
          phase,   \* "writes", "reads", or "thrown"
          cur,     \* the reader's cursor
          asked,   \* its last request, a sequence of one [tag, type, old, require]
          res      \* the result of that request

streamVars == <<program, written, got, phase, cur, asked, res>>

Encoded(fields) ==
  FlattenSeq([i \in 1..Len(fields) |-> Write(fields[i].type, fields[i].val, fields[i].tag)])

This    == Programs[program]
Samples == This.samples
Readers == This.readers
Tags    == This.tags

LastTag(fields) == IF fields = <<>> THEN -1 ELSE Last(fields).tag

StreamInit ==
  /\ program \in DOMAIN Programs /\ written = <<>> /\ got = <<>> /\ phase = "writes" /\ cur = 0
  /\ asked = <<>> /\ res = Value(<<>>, 0)

WriteField(tag, sample) ==
  /\ phase = "writes" /\ Len(written) < This.maxFields
  /\ tag > LastTag(written) /\ ~TooLong(sample.type, sample.val)
  /\ written' = Append(written, [tag |-> tag, type |-> sample.type, val |-> sample.val])
  /\ UNCHANGED <<program, got, phase, cur, asked, res>>

Deliver(n) == \* setBuffer with the bytes that came
  /\ phase = "writes"
  /\ got' = SubSeq(Encoded(written), 1, n)
  /\ phase' = "reads"
  /\ UNCHANGED <<program, written, cur, asked, res>>

ReadField(tag, reader, require) ==
  /\ phase = "reads" /\ tag > LastTag(asked)
  /\ asked' = <<[tag |-> tag, type |-> reader.type, old |-> reader.old, require |-> require]>>
  /\ res' = Read(got, cur, reader.type, reader.old, tag, require)
  /\ cur' = res'.cur
  /\ phase' = IF Ok(res') THEN "reads" ELSE "thrown"
  /\ UNCHANGED <<program, written, got>>

StreamDone == phase = "thrown" \/ (phase = "reads" /\ \A t \in Tags : t <= LastTag(asked))

StreamNext ==
  \/ \E tag \in Tags, i \in DOMAIN Samples : WriteField(tag, Samples[i])
  \/ LET all == Len(Encoded(written))
     IN  \E n \in (This.cuts \cap 0..all) \cup {all} : Deliver(n)
  \/ \E tag \in Tags, i \in DOMAIN Readers, require \in BOOLEAN :
       ReadField(tag, Readers[i], require)
  \/ StreamDone /\ UNCHANGED streamVars

StreamSpec == StreamInit /\ [][StreamNext]_streamVars

-----------------------------------------------------------------------------
(* What a value written as one type means to a reader of another, without  *)
(* a word about bytes: the set of the value, or empty where they disagree. *)

IsReal(k) == k \in {"Float", "Double"}
IsBytes(k) == k \in {"Chars", "CharPtr"}

\* What a reader's integer type holds, and what becomes of a value that it does
\* not hold but the signed type that it is read through does: the code narrows it
\* without a word, an unsigned type to what is left modulo its size, and a Bool to
\* whether it is zero.
ValuesOf(k) ==
  CASE k = "Bool"   -> 0..1
    [] k = "UInt8"  -> 0..255
    [] k = "UInt16" -> 0..(Power[SizeOf["Short"]] - 1)
    [] k = "UInt32" -> 0..(Power[SizeOf["Int32"]] - 1)
    [] k = "Enum"   -> -HalfRange("Int32")..(HalfRange("Int32") - 1)
    [] k = "Int64"  -> Int
    [] OTHER        -> -HalfRange(k)..(HalfRange(k) - 1)
ReadThrough(k) ==
  CASE k = "Bool"   -> ValuesOf("Char")  [] k = "UInt8"  -> ValuesOf("Short")
    [] k = "UInt16" -> ValuesOf("Int32") [] k = "UInt32" -> ValuesOf("Int64")
    [] OTHER        -> ValuesOf(k)
Narrowed(v, k) ==
  IF k = "Bool" THEN 1
  ELSE v % CASE k = "UInt8" -> 256 [] k = "UInt16" -> Power[SizeOf["Short"]]
             [] k = "UInt32" -> Power[SizeOf["Int32"]]

IntegerAs(v, k) ==
  IF v \in ValuesOf(k) THEN {v} ELSE IF v \in ReadThrough(k) THEN {Narrowed(v, k)} ELSE {}

RECURSIVE As(_, _, _)

AllAs(v, T, U) == \* element by element
  LET each == [i \in DOMAIN v |-> As(v[i], T, U)]
  IN  IF \E i \in DOMAIN v : each[i] = {} THEN {}
      ELSE {[i \in DOMAIN v |-> CHOOSE x \in each[i] : TRUE]}

FieldAs(v, T, f) == \* the struct's field with f's tag
  IF \E i \in DOMAIN T.fields : T.fields[i].tag = f.tag
    THEN LET i == CHOOSE j \in DOMAIN T.fields : T.fields[j].tag = f.tag
         IN  As(v[i], T.fields[i].type, f.type)
    ELSE IF f.require THEN {} ELSE {f.default}

As(v, T, U) ==
  CASE IsInteger(T.k) /\ IsInteger(U.k) -> IntegerAs(v, U.k)
    [] IsInteger(T.k) /\ IsReal(U.k) ->
         IF v = 0 THEN {[i \in 1..SizeOf[U.k] |-> 0]} ELSE {}
    [] T.k = "Float" /\ U.k = "Double" -> {ToDouble(v)}
    [] IsBytes(T.k) /\ IsBytes(U.k) ->
         IF U.k = "CharPtr" /\ Len(v) > U.bufLen THEN {} ELSE {v}
    [] T.k = "Vector" /\ U.k = "Vector" -> AllAs(v, T.of, U.of)
    [] T.k = "Vector" /\ U.k = "Chars"  -> AllAs(v, T.of, [k |-> "Char"])
    [] T.k = "Map" /\ U.k = "Map" ->
         LET keys == AllAs([i \in DOMAIN v |-> v[i][1]], T.key, U.key)
             vals == AllAs([i \in DOMAIN v |-> v[i][2]], T.val, U.val)
         IN  {[i \in DOMAIN v |-> <<ks[i], vs[i]>>] : ks \in keys, vs \in vals}
    [] T.k = "Struct" /\ U.k = "Struct" ->
         LET each == [i \in DOMAIN U.fields |-> FieldAs(v, T, U.fields[i])]
         IN  IF \E i \in DOMAIN each : each[i] = {} THEN {}
             ELSE {[i \in DOMAIN each |-> CHOOSE x \in each[i] : TRUE]}
    [] OTHER -> IF T.k = U.k THEN {v} ELSE {}

Asked   == Last(asked)
Matches == {i \in DOMAIN written : written[i].tag = Asked.tag}
Meant   == UNION {As(written[i].val, written[i].type, Asked.type) : i \in Matches}
Whole   == Len(got) = Len(Encoded(written))

\* A Float whose bytes in the other order are a signalling NaN does not survive
\* being read as a Double (Jce.h:852-855 converts it before they are in order).
Garbled ==
  \E i \in Matches : /\ written[i].type.k = "Float" /\ Asked.type.k = "Double"
                     /\ SignallingNaN(Reverse(written[i].val))

\* The stream ends within the size of a string or a container that the reader
\* passes over: behind the head and before the content.
ContentStart(f) ==
  LET all == Write(f.type, f.val, f.tag)
  IN  CASE f.type.k \in {"String", "Chars", "CharPtr"} -> Len(all) - Len(f.val)
        [] f.type.k \in {"Vector", "Map"} ->
             Len(HeadOf(eList, f.tag)) + Len(WriteInteger(Len(f.val), "Int32", 0))
        [] OTHER -> 0

EndsInSize ==
  \E i \in DOMAIN written :
    /\ written[i].tag < Asked.tag
    /\ LET start == Len(Encoded(SubSeq(written, 1, i - 1)))
       IN  start < Len(got) /\ Len(got) < start + ContentStart(written[i])

IsZero(v, k) == IF IsInteger(k) THEN v = 0 ELSE IsReal(k) /\ v = [i \in 1..SizeOf[k] |-> 0]

-----------------------------------------------------------------------------
(* Properties. *)

\* A field of a stream that arrived whole is read as the value it was written
\* with, whatever fields are before it, known or not, and whatever width,
\* signedness or kind of list it was written in, if the reader's type can hold
\* it.  If not it is refused, but for what the signed type holds that an unsigned
\* one is read through: that is narrowed (a Short 300 is 44 to a reader of UInt8).
\* A field nobody wrote is the old value, or an exception where it is required.
\* One value comes out wrong, and as something else: see Garbled.
ReadsWhatWasWritten ==
  (asked # <<>> /\ Whole) =>
    IF Garbled THEN Ok(res)
    ELSE IF Matches # {} THEN IF Meant = {} THEN ~Ok(res) ELSE Ok(res) /\ res.val \in Meant
    ELSE IF Asked.require THEN res.err = "missing"
    ELSE Ok(res) /\ res.val = Asked.old

\* A reader that stops at any tag has its cursor behind the fields up to that
\* tag, not a byte before or after: what readUnknown takes there, written again
\* by writeUnknown behind the fields the reader knows, is the stream as it was.
UnknownFieldsSurvive ==
  (asked # <<>> /\ Whole /\ Ok(res)) =>
    LET known == SelectSeq(written, LAMBDA f : f.tag <= Asked.tag)
        rest  == ReadUnknown(got, cur, Asked.tag)
    IN  Ok(rest) /\ Encoded(known) \o rest.val = Encoded(written)

\* Of a stream cut short at any byte a read returns what was written, or the old
\* value of an optional field, or throws.  Nothing else is made up but a zero, and
\* only where the cut is within the size of a string or container passed over
\* (skipToTag drops the exception and leaves its cursor at the bytes of the size
\* that came) and the last byte that came is like the head of the zero asked for:
\* 2C of the size 0000 2C00 of 11264 bytes, the smallest such, for a tag of 2.
TruncatedReadsAreHonest ==
  (asked # <<>> /\ Ok(res) /\ ~Garbled) =>
    \/ res.val \in Meant
    \/ ~Asked.require /\ res.val = Asked.old
    \/ /\ EndsInSize /\ Last(got) = Head(HeadOf(eZeroTag, Asked.tag))
       /\ IsZero(res.val, Asked.type.k)

=============================================================================
