--------------------------------- MODULE MCJce ---------------------------------
(* The encoding for TLC, with integers of 1 to 4 bytes (TLC's integers have   *)
(* 32 bits): a behaviour is either one of three programs that write and read a *)
(* stream, whole or cut, or the requests of a client to the daemon.           *)
EXTENDS JceStream, ObserverProtocol

Sizes == [Char |-> 1, Short |-> 2, Int32 |-> 3, Int64 |-> 4, Float |-> 2, Double |-> 3, Length |-> 4]

T(kind)     == [k |-> kind]
VectorOf(t) == [k |-> "Vector", of |-> t]
MapOf(a, b) == [k |-> "Map", key |-> a, val |-> b]
Field(tag, t, require, default) ==
  [tag |-> tag, type |-> t, require |-> require, default |-> default]
StructOf(fields) == [k |-> "Struct", fields |-> fields]
Sample(t, v) == [type |-> t, val |-> v]
Reader(t, v) == [type |-> t, old |-> v]

Old2  == StructOf(<<Field(0, T("Int32"), TRUE, 0), Field(2, T("String"), FALSE, <<9>>)>>)
New3  == StructOf(<<Field(0, T("Short"), TRUE, 0),
                    Field(1, VectorOf(T("String")), FALSE, <<>>),
                    Field(2, T("String"), FALSE, <<9>>)>>)

AllSamples == <<
  Sample(T("Bool"), 1), Sample(T("Char"), -128), Sample(T("UInt8"), 200),
  Sample(T("Short"), 127), Sample(T("Short"), 128), Sample(T("UInt16"), 65535),
  Sample(T("Int32"), -32768), Sample(T("Enum"), 32768), Sample(T("UInt32"), 16777215),
  Sample(T("Int64"), 0), Sample(T("Int64"), 2147483647),
  Sample(T("Float"), <<1, 2>>), Sample(T("Float"), <<127, 190>>), Sample(T("Double"), <<1, 2, 3>>),
  Sample(T("String"), <<>>), Sample(T("String"), <<11, 2, 250>>),
  Sample(T("String"), <<1, 2, 3, 4>>),
  Sample(T("Chars"), <<5, 27>>), Sample(T("CharPtr"), <<5, 6, 7>>),
  Sample(VectorOf(T("Int32")), <<5, -6, 0>>), Sample(VectorOf(T("Short")), <<300, 11>>),
  Sample(MapOf(T("String"), T("Chars")), <<<< <<1>>, <<0, 11>> >>, << <<2>>, <<>> >> >>),
  Sample(Old2, <<3, <<1, 2>> >>),
  Sample(New3, <<300, << <<1>>, <<>> >>, <<4>> >>) >>

AllReaders == <<
  Reader(T("Bool"), 0), Reader(T("Char"), 7), Reader(T("UInt8"), 7), Reader(T("Short"), 7),
  Reader(T("UInt16"), 7), Reader(T("Int32"), 7), Reader(T("UInt32"), 7), Reader(T("Int64"), 7),
  Reader(T("Enum"), 7), Reader(T("Float"), <<7, 7>>), Reader(T("Double"), <<7, 7, 7>>),
  Reader(T("String"), <<7>>), Reader(T("Chars"), <<7>>),
  Reader([k |-> "CharPtr", bufLen |-> 2], <<>>),
  Reader(VectorOf(T("Int32")), <<>>),
  Reader(MapOf(T("String"), T("Chars")), <<>>),
  Reader(Old2, <<0, <<>> >>), Reader(New3, <<0, <<>>, <<>> >>) >>

\* Bytes of a field that look like the head of another one: 11 ends a struct,
\* 17 and 33 are a Short of tag 1 and 2.
CutSamples == <<
  Sample(T("Int32"), 33), Sample(T("Int32"), 70000), Sample(T("String"), <<17, 33>>),
  Sample(T("String"), <<17, 33, 44, 28>>), Sample(MapOf(T("Char"), T("Short")), << <<1, 33>> >>),
  Sample(T("Chars"), <<11, 33>>), Sample(VectorOf(T("Short")), <<8449, 3>>),
  Sample(Old2, <<3, <<1, 33>> >>) >>
CutReaders == <<
  Reader(T("Int32"), 7), Reader(T("String"), <<7>>), Reader(T("Chars"), <<7>>),
  Reader(VectorOf(T("Int32")), <<>>), Reader(Old2, <<0, <<>> >>) >>

\* As long as a size must be to look like a field of tag 2, and the cuts in it.
LongText == [i \in 1..11264 |-> 33]
LongSamples == << Sample(T("String"), LongText), Sample(T("Chars"), LongText) >>
LongReaders == << Reader(T("Int32"), 7), Reader(T("Float"), <<7, 7>>), Reader(T("String"), <<7>>) >>

\* Both heads of a string, and a text too long for the buffer in its request.
SomeTexts == {<<47>>, <<47, 45>>, <<12, 22, 45, 6>>}

AllPrograms == <<
  [samples |-> AllSamples, readers |-> AllReaders, tags |-> {14, 15}, maxFields |-> 2, cuts |-> {}],
  [samples |-> CutSamples, readers |-> CutReaders, tags |-> {0, 1, 2}, maxFields |-> 3, cuts |-> 0..100],
  [samples |-> LongSamples, readers |-> LongReaders, tags |-> {0, 1, 2}, maxFields |-> 1, cuts |-> 0..7] >>

-----------------------------------------------------------------------------
Init == StreamInit /\ ProtocolInit

Next ==
  \/ requests = 0 /\ StreamNext /\ UNCHANGED protocolVars
  \/ phase = "writes" /\ written = <<>> /\ ProtocolNext /\ UNCHANGED streamVars

Spec == Init /\ [][Next]_<<streamVars, protocolVars>>
=============================================================================
