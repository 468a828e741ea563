----------------------------- MODULE HoldersProofs -----------------------------
(***************************************************************************)
(* What the utilities that own something keep to, for any number of        *)
(* owners and threads.  The three parts share nothing but this module, as  *)
(* in MCHolders.                                                           *)
(*                                                                         *)
(* BufferWriter keeps to its memory and to its content, for any memory and *)
(* any writes.  What reserve and memcpy do to the heap is stated once      *)
(* (AppendEffect) and used by every operation that writes.                 *)
(*                                                                         *)
(* AutoPtr counts right if clients keep to the rules (handles are not      *)
(* shared, noDelete is not taken back).  Its invariant says besides what a *)
(* thread knows in the middle of a call.  The one fact that is not obvious *)
(* is Alone: a thread that has brought a count to zero, or has a new       *)
(* object it has not counted yet, is the only one that can reach it.       *)
(*                                                                         *)
(* ScopedJavaRef's holders own what they refer to: every step but four     *)
(* renews the reference of one holder (Renewed), and RenewKeeps says once  *)
(* why that is right.                                                      *)
(***************************************************************************)
EXTENDS BufferWriter, AutoPtr, ScopedJavaRef, FiniteSetTheorems, TLAPS

-----------------------------------------------------------------------------
(* Output buffers. *)

\* The memory of a writer before and after an append of s.
Keeps(v) ==
  /\ _buf'[v] = _buf[v] /\ _buf_len'[v] = _buf_len[v]
  /\ _buf[v] # NULL => heap'[_buf[v]] = heap[_buf[v]]

HoldsNow(w, s) ==
  /\ Needed(w, s) <= _buf_len'[w]
  /\ IF _buf'[w] = NULL THEN _buf_len'[w] = 0
     ELSE _buf_len'[w] > 0 /\ Len(heap'[_buf'[w]]) = _buf_len'[w]
  /\ _buf'[w] # NULL =>
       \A i \in 1..Needed(w, s) :
         heap'[_buf'[w]][i] = IF i <= _len[w] THEN heap[_buf[w]][i] ELSE s[i - _len[w]]

Owned(w) ==
  \A a \in Addresses :
    heap'[a] # <<>> => a = _buf'[w] \/ (heap[a] # <<>> /\ a # _buf[w])

Apart == \A w, v \in Writers : w # v => _buf[w] # _buf[v] \/ _buf[w] = NULL

\* A function on 1..n is a sequence of length n.
LEMMA FunctionIsSequence ==
  ASSUME NEW S, NEW n \in Nat, NEW f \in [1..n -> S]
  PROVE  f \in Seq(S) /\ Len(f) = n
OBVIOUS

\* An append that needs a larger block: two cells for each that is needed.
LEMMA GrowEffect ==
  ASSUME BufferInv, NEW w \in Writers, NEW s \in Seq(Cell), NEW a \in Addresses,
         _buf_len[w] < Needed(w, s), heap[a] = <<>>,
         heap' = Replaced(w, a, Grown(w, s)),
         _buf' = [_buf EXCEPT ![w] = a],
         _buf_len' = [_buf_len EXCEPT ![w] = 2 * Needed(w, s)]
  PROVE  /\ _buf' \in [Writers -> Addresses \cup {NULL}]
         /\ _buf_len' \in [Writers -> Nat]
         /\ heap' \in [Addresses -> Seq(Cell)]
         /\ \A v \in Writers \ {w} : Keeps(v)
         /\ HoldsNow(w, s) /\ Apart' /\ Owned(w)
<1> DEFINE n == Needed(w, s)  block == Grown(w, s)
<1>1. n \in Nat /\ n > 0 /\ _len[w] \in Nat /\ n = _len[w] + Len(s) /\ Len(s) \in Nat
  BY DEF BufferInv, BufferTypeOK, Needed
<1>2. _buf[w] # NULL =>
        /\ _buf[w] \in Addresses /\ heap[_buf[w]] \in Seq(Cell)
        /\ _len[w] <= Len(heap[_buf[w]])
  BY DEF BufferInv, BufferTypeOK, InBounds
<1>3. _buf[w] = NULL => _len[w] = 0
  BY DEF BufferInv, BufferTypeOK, InBounds
<1>4. \A i \in 1..(2 * n) : block[i] \in Cell
  <2> SUFFICES ASSUME NEW i \in 1..(2 * n) PROVE block[i] \in Cell
    OBVIOUS
  <2>1. CASE i <= _len[w]
    <3>1. _buf[w] # NULL
      BY <1>1, <1>3, <2>1
    <3>2. heap[_buf[w]][i] \in Cell
      BY <1>1, <1>2, <2>1, <3>1
    <3> QED
      BY <1>1, <2>1, <3>2 DEF Grown
  <2>2. CASE i > _len[w] /\ i <= n
    <3>1. s[i - _len[w]] \in Cell
      BY <1>1, <2>2
    <3> QED
      BY <1>1, <2>2, <3>1 DEF Grown
  <2>3. CASE i > n
    BY <1>1, <2>3 DEF Grown, Cell
  <2> QED
    BY <1>1, <2>1, <2>2, <2>3
<1>5. block \in Seq(Cell) /\ Len(block) = 2 * n
  <2>1. block = [i \in 1..(2 * n) |-> block[i]]
    BY DEF Grown
  <2>2. block \in [1..(2 * n) -> Cell]
    BY <1>4, <2>1
  <2>3. 2 * n \in Nat
    BY <1>1
  <2> HIDE DEF block, n
  <2> QED
    BY <2>2, <2>3, FunctionIsSequence
<1>6. a # _buf[w]
  <2>1. Len(heap[a]) = 0 /\ a # NULL
    BY BufferAssumption
  <2> QED
    BY <2>1 DEF BufferInv, InBounds, BufferTypeOK
<1>7. /\ heap' \in [Addresses -> Seq(Cell)] /\ heap'[a] = block
      /\ \A b \in Addresses \ {a} : heap'[b] = IF b = _buf[w] THEN <<>> ELSE heap[b]
  BY <1>5 DEF Replaced, Without, BufferInv, BufferTypeOK
<1>8. /\ _buf' \in [Writers -> Addresses \cup {NULL}] /\ _buf'[w] = a
      /\ _buf_len' \in [Writers -> Nat] /\ _buf_len'[w] = 2 * n
      /\ \A v \in Writers \ {w} : _buf'[v] = _buf[v] /\ _buf_len'[v] = _buf_len[v]
  BY <1>1 DEF BufferInv, BufferTypeOK
<1>9. \A v \in Writers : _buf[v] # a
  <2>1. Len(heap[a]) = 0 /\ a # NULL
    BY BufferAssumption
  <2> QED
    BY <2>1 DEF BufferInv, InBounds, BufferTypeOK
<1>10. \A v \in Writers \ {w} : Keeps(v)
  BY <1>7, <1>8, <1>9 DEF Keeps, BufferInv, BufferTypeOK
<1>11. HoldsNow(w, s)
  <2>1. a # NULL
    BY BufferAssumption
  <2>2. \A i \in 1..n : block[i] = IF i <= _len[w] THEN heap[_buf[w]][i] ELSE s[i - _len[w]]
    BY <1>1 DEF Grown
  <2> QED
    BY <1>1, <1>5, <1>7, <1>8, <2>1, <2>2 DEF HoldsNow
<1>12. Apart'
  BY <1>8, <1>9, BufferAssumption DEF Apart, BufferInv
<1>13. Owned(w)
  BY <1>7, <1>8 DEF Owned
<1> QED
  BY <1>7, <1>8, <1>10, <1>11, <1>12, <1>13

\* An append that fits the block.
LEMMA FillEffect ==
  ASSUME BufferInv, NEW w \in Writers, NEW s \in Seq(Cell),
         _buf_len[w] >= Needed(w, s),
         heap' = IF _buf[w] = NULL THEN heap ELSE [heap EXCEPT ![_buf[w]] = Filled(w, s)],
         UNCHANGED <<_buf, _buf_len>>
  PROVE  /\ heap' \in [Addresses -> Seq(Cell)]
         /\ \A v \in Writers \ {w} : Keeps(v)
         /\ HoldsNow(w, s) /\ Owned(w)
<1> DEFINE n == Needed(w, s)
<1>1. n \in Nat /\ _len[w] \in Nat /\ n = _len[w] + Len(s) /\ Len(s) \in Nat
  BY DEF BufferInv, BufferTypeOK, Needed
<1>2. CASE _buf[w] = NULL
  BY <1>1, <1>2 DEF BufferInv, BufferTypeOK, InBounds, Keeps, HoldsNow, Owned
<1>3. CASE _buf[w] # NULL
  <2> DEFINE old == heap[_buf[w]]  block == Filled(w, s)
  <2>1. /\ _buf[w] \in Addresses /\ old \in Seq(Cell)
        /\ Len(old) = _buf_len[w] /\ _buf_len[w] > 0 /\ _buf_len[w] \in Nat /\ n <= Len(old)
    BY <1>3 DEF BufferInv, BufferTypeOK, InBounds
  <2>2. \A i \in 1..Len(old) : block[i] \in Cell
    <3> SUFFICES ASSUME NEW i \in 1..Len(old) PROVE block[i] \in Cell
      OBVIOUS
    <3>1. CASE i > _len[w] /\ i <= n
      <4>1. s[i - _len[w]] \in Cell
        BY <1>1, <3>1
      <4> QED
        BY <1>1, <3>1, <4>1 DEF Filled
    <3>2. CASE ~(i > _len[w] /\ i <= n)
      <4>1. old[i] \in Cell
        BY <2>1
      <4> QED
        BY <1>1, <3>2, <4>1 DEF Filled
    <3> QED
      BY <3>1, <3>2
  <2>3. block \in Seq(Cell) /\ Len(block) = Len(old)
    <3>1. block = [i \in 1..Len(old) |-> block[i]]
      BY DEF Filled
    <3>2. block \in [1..Len(old) -> Cell]
      BY <2>2, <3>1
    <3>3. Len(old) \in Nat
      BY <2>1
    <3> HIDE DEF block, old
    <3> QED
      BY <3>2, <3>3, FunctionIsSequence
  <2>4. /\ heap' \in [Addresses -> Seq(Cell)] /\ heap'[_buf[w]] = block
        /\ \A b \in Addresses \ {_buf[w]} : heap'[b] = heap[b]
    BY <1>3, <2>1, <2>3 DEF BufferInv, BufferTypeOK
  <2>5. \A v \in Writers \ {w} : Keeps(v)
    BY <1>3, <2>4 DEF Keeps, BufferInv, BufferTypeOK
  <2>6. HoldsNow(w, s)
    <3>1. \A i \in 1..n : block[i] = IF i <= _len[w] THEN heap[_buf[w]][i] ELSE s[i - _len[w]]
      BY <1>1, <2>1 DEF Filled
    <3> QED
      BY <1>3, <2>1, <2>3, <2>4, <3>1 DEF HoldsNow
  <2>7. Owned(w)
    BY <2>1, <2>4 DEF Owned
  <2> QED
    BY <2>4, <2>5, <2>6, <2>7
<1> QED
  BY <1>2, <1>3

\* What writeBuf does to the memory, whether or not the block has to grow.
LEMMA AppendEffect ==
  ASSUME BufferInv, NEW w \in Writers, NEW s \in Seq(Cell), Append_(w, s)
  PROVE  /\ _buf' \in [Writers -> Addresses \cup {NULL}]
         /\ _buf_len' \in [Writers -> Nat]
         /\ heap' \in [Addresses -> Seq(Cell)]
         /\ \A v \in Writers \ {w} : Keeps(v)
         /\ HoldsNow(w, s) /\ Apart' /\ Owned(w)
<1>1. CASE _buf_len[w] < Needed(w, s)
  <2>1. PICK a \in Addresses : /\ heap[a] = <<>>
                               /\ heap' = Replaced(w, a, Grown(w, s))
                               /\ _buf' = [_buf EXCEPT ![w] = a]
    BY <1>1 DEF Append_, BufferInv, BufferTypeOK, Needed
  <2>2. _buf_len' = [_buf_len EXCEPT ![w] = 2 * Needed(w, s)]
    BY <1>1 DEF Append_, BufferInv, BufferTypeOK, Needed
  <2> QED
    BY <1>1, <2>1, <2>2, GrowEffect
<1>2. CASE ~(_buf_len[w] < Needed(w, s))
  <2>1. /\ _buf_len[w] >= Needed(w, s) /\ UNCHANGED <<_buf, _buf_len>>
        /\ heap' = IF _buf[w] = NULL THEN heap ELSE [heap EXCEPT ![_buf[w]] = Filled(w, s)]
    BY <1>2 DEF Append_
  <2>2. Apart'
    BY <2>1 DEF Apart, BufferInv
  <2>3. _buf' \in [Writers -> Addresses \cup {NULL}] /\ _buf_len' \in [Writers -> Nat]
    BY <2>1 DEF BufferInv, BufferTypeOK
  <2> QED
    BY <2>1, <2>2, <2>3, FillEffect
<1> QED
  BY <1>1, <1>2

-----------------------------------------------------------------------------
(* The invariant, action by action. *)

WriterIInv == BufferInv /\ EveryBlockHasAnOwner /\ ContentAsMeant

\* A copy's source is a sequence of cells as long as the source says.
LEMMA ContentType ==
  ASSUME BufferInv, NEW v \in Writers
  PROVE  /\ Content(v) \in Seq(Cell) /\ Len(Content(v)) = _len[v]
         /\ \A i \in 1.._len[v] : Content(v)[i] = heap[_buf[v]][i]
<1>1. CASE _buf[v] = NULL
  BY <1>1 DEF BufferInv, BufferTypeOK, InBounds, Content
<1>2. CASE _buf[v] # NULL
  <2>1. /\ _buf[v] \in Addresses /\ heap[_buf[v]] \in Seq(Cell)
        /\ _len[v] \in Nat /\ _len[v] <= Len(heap[_buf[v]])
    BY <1>2 DEF BufferInv, BufferTypeOK, InBounds
  <2> QED
    BY <1>2, <2>1 DEF Content
<1> QED
  BY <1>1, <1>2

\* Two sequences of one length that agree everywhere are the same.
LEMMA SameSequence ==
  ASSUME NEW S, NEW s \in Seq(S), NEW t \in Seq(S), Len(s) = Len(t),
         \A i \in 1..Len(s) : s[i] = t[i]
  PROVE  s = t
OBVIOUS

\* A writer whose memory and length an action leaves alone keeps its content.
LEMMA ContentKept ==
  ASSUME NEW v \in Writers, Keeps(v), _len'[v] = _len[v]
  PROVE  Content(v)' = Content(v)
BY DEF Keeps, Content

LEMMA BytesAreCells == Seq(Byte) \subseteq Seq(Cell)
BY DEF Cell

LEMMA WriteBufKeeps ==
  ASSUME WriterIInv, NEW w \in Writers, NEW s \in Chunks, WriteBuf(w, s)
  PROVE  WriterIInv'
<1>1. s \in Seq(Cell)
  BY BufferAssumption, BytesAreCells
<1>2. /\ _buf' \in [Writers -> Addresses \cup {NULL}]
      /\ _buf_len' \in [Writers -> Nat] /\ heap' \in [Addresses -> Seq(Cell)]
      /\ \A v \in Writers \ {w} : Keeps(v)
      /\ HoldsNow(w, s) /\ Apart' /\ Owned(w)
  BY <1>1, AppendEffect DEF WriterIInv, WriteBuf
<1>3. /\ w \in live /\ live' = live /\ spoiled' = spoiled
      /\ _len' = [_len EXCEPT ![w] = _len[w] + Len(s)]
      /\ meant' = [meant EXCEPT ![w] = meant[w] \o s]
  BY DEF WriteBuf
<1>4. _len[w] \in Nat /\ Len(s) \in Nat /\ meant[w] \in Seq(Cell)
  BY <1>1 DEF WriterIInv, BufferInv, BufferTypeOK
<1>5. BufferTypeOK'
  BY <1>1, <1>2, <1>3, <1>4 DEF WriterIInv, BufferInv, BufferTypeOK
<1>6. \A v \in Writers : InBounds(v)'
  <2>1. InBounds(w)'
    BY <1>2, <1>3, <1>4 DEF WriterIInv, BufferInv, BufferTypeOK, InBounds, HoldsNow, Needed
  <2>2. ASSUME NEW v \in Writers \ {w} PROVE InBounds(v)'
    BY <1>2, <1>3 DEF WriterIInv, BufferInv, BufferTypeOK, InBounds, Keeps
  <2> QED
    BY <2>1, <2>2
<1>7. \A v \in Writers \ live' : _buf'[v] = NULL /\ _len'[v] = 0 /\ meant'[v] = <<>>
  BY <1>2, <1>3 DEF WriterIInv, BufferInv, BufferTypeOK, Keeps
<1>8. EveryBlockHasAnOwner'
  BY <1>2, <1>3 DEF WriterIInv, EveryBlockHasAnOwner, Owned, Keeps, BufferInv, BufferTypeOK
<1>9. ContentAsMeant'
  <2>1. ASSUME NEW v \in (live \ spoiled) \ {w} PROVE Content(v)' = meant'[v]
    BY <1>2, <1>3, ContentKept DEF WriterIInv, ContentAsMeant, BufferInv, BufferTypeOK
  <2>2. ASSUME w \notin spoiled PROVE Content(w)' = meant'[w]
    <3>1. Content(w) = meant[w]
      BY <1>3, <2>2 DEF WriterIInv, ContentAsMeant
    <3>2. /\ Len(meant[w]) = _len[w]
          /\ \A i \in 1.._len[w] : meant[w][i] = heap[_buf[w]][i]
      BY <3>1, ContentType DEF WriterIInv
    <3>3. BufferInv'
      BY <1>2, <1>5, <1>6, <1>7 DEF BufferInv, Apart
    <3>4. /\ Content(w)' \in Seq(Cell) /\ Len(Content(w)') = _len[w] + Len(s)
          /\ \A i \in 1..(_len[w] + Len(s)) : Content(w)'[i] = heap'[_buf'[w]][i]
      <4>1. _len'[w] = _len[w] + Len(s)
        BY <1>3 DEF WriterIInv, BufferInv, BufferTypeOK
      <4>2. CASE _buf'[w] = NULL
        BY <1>4, <3>3, <4>1, <4>2 DEF Content, BufferInv, InBounds, BufferTypeOK
      <4>3. CASE _buf'[w] # NULL
        <5>1. /\ heap'[_buf'[w]] \in Seq(Cell) /\ _len'[w] \in Nat
              /\ _len'[w] <= Len(heap'[_buf'[w]])
          BY <3>3, <4>3 DEF BufferInv, InBounds, BufferTypeOK
        <5> QED
          BY <4>1, <4>3, <5>1 DEF Content
      <4> QED
        BY <4>2, <4>3
    <3>5. meant'[w] = meant[w] \o s
      BY <1>3 DEF WriterIInv, BufferInv, BufferTypeOK
    <3>6. /\ meant'[w] \in Seq(Cell) /\ Len(meant'[w]) = _len[w] + Len(s)
          /\ \A i \in 1..(_len[w] + Len(s)) :
               meant'[w][i] = IF i <= _len[w] THEN heap[_buf[w]][i] ELSE s[i - _len[w]]
      <4>1. meant'[w] \in Seq(Cell) /\ Len(meant'[w]) = _len[w] + Len(s)
        BY <1>1, <1>4, <3>2, <3>5
      <4>2. \A i \in 1..(Len(meant[w]) + Len(s)) :
              (meant[w] \o s)[i] = IF i <= Len(meant[w]) THEN meant[w][i] ELSE s[i - Len(meant[w])]
        BY <1>1, <1>4
      <4>3. \A i \in 1..(_len[w] + Len(s)) : i <= _len[w] => i \in 1.._len[w]
        BY <1>4
      <4> QED
        BY <3>2, <3>5, <4>1, <4>2, <4>3
    <3>7. \A i \in 1..(_len[w] + Len(s)) : Content(w)'[i] = meant'[w][i]
      <4>1. CASE _buf'[w] = NULL
        BY <1>2, <1>4, <4>1 DEF HoldsNow, Needed
      <4>2. CASE _buf'[w] # NULL
        BY <1>2, <3>4, <3>6, <4>2 DEF HoldsNow, Needed
      <4> QED
        BY <4>1, <4>2
    <3> QED
      BY <3>4, <3>6, <3>7, SameSequence
  <2> QED
    BY <1>3, <2>1, <2>2 DEF ContentAsMeant
<1> QED
  BY <1>2, <1>5, <1>6, <1>7, <1>8, <1>9 DEF WriterIInv, BufferInv, Apart

\* What a copy reads is as long as its source says, junk or not.
LEMMA SourceType ==
  ASSUME BufferInv, NEW w \in Writers, NEW v \in Writers
  PROVE  Source(w, v) \in Seq(Cell) /\ Len(Source(w, v)) = _len[v]
<1>1. _len[w] \in Nat
  BY DEF BufferInv, BufferTypeOK
<1>2. CASE w = v /\ _buf_len[w] < 2 * _len[w]
  <2>1. Source(w, v) = [i \in 1.._len[v] |-> Junk]
    BY <1>2 DEF Source
  <2>2. [i \in 1.._len[v] |-> Junk] \in [1.._len[v] -> Cell]
    BY DEF Cell
  <2> QED
    BY <1>1, <1>2, <2>1, <2>2, FunctionIsSequence
<1>3. CASE ~(w = v /\ _buf_len[w] < 2 * _len[w])
  <2>1. Source(w, v) = Content(v)
    BY <1>3 DEF Source
  <2> QED
    BY <2>1, ContentType
<1> QED
  BY <1>2, <1>3

\* The copy constructor and operator=, of another writer or of the same.
LEMMA CopyKeeps ==
  ASSUME WriterIInv, NEW w \in Writers, NEW v \in live, Copy(w, v),
         live' = live \cup {w},
         spoiled' = IF _len[w] # 0 THEN spoiled \cup {w} ELSE spoiled \ {w}
  PROVE  WriterIInv'
<1> DEFINE s == Source(w, v)  t == Content(v)
           n == IF w = v THEN 2 * _len[w] ELSE _len[v]
<1>1. /\ v \in Writers /\ s \in Seq(Cell) /\ Len(s) = _len[v]
      /\ t \in Seq(Cell) /\ Len(t) = _len[v]
      /\ \A i \in 1.._len[v] : t[i] = heap[_buf[v]][i]
  BY ContentType, SourceType DEF WriterIInv, BufferInv, BufferTypeOK
<1>2. /\ _buf' \in [Writers -> Addresses \cup {NULL}]
      /\ _buf_len' \in [Writers -> Nat] /\ heap' \in [Addresses -> Seq(Cell)]
      /\ \A u \in Writers \ {w} : Keeps(u)
      /\ HoldsNow(w, s) /\ Apart' /\ Owned(w)
  <2>1. Append_(w, s)
    BY DEF Copy
  <2>2. BufferInv
    BY DEF WriterIInv
  <2> HIDE DEF s
  <2> QED
    BY <1>1, <2>1, <2>2, AppendEffect
<1>3. _len' = [_len EXCEPT ![w] = n] /\ meant' = [meant EXCEPT ![w] = t]
  BY DEF Copy
<1>4. /\ _len[w] \in Nat /\ _len[v] \in Nat /\ n \in Nat /\ n <= Needed(w, s)
      /\ (_len[w] = 0 => n = _len[v] /\ s = t)
  <2>1. _len[w] \in Nat /\ _len[v] \in Nat /\ _buf_len[w] \in Nat
    BY <1>1 DEF WriterIInv, BufferInv, BufferTypeOK
  <2>2. n \in Nat /\ n <= _len[w] + _len[v] /\ (_len[w] = 0 => n = _len[v])
    BY <2>1
  <2>3. _len[w] = 0 => s = t
    BY <2>1 DEF Source
  <2> HIDE DEF s, t, n
  <2> QED
    BY <1>1, <2>1, <2>2, <2>3 DEF Needed
<1> HIDE DEF t, n
<1> HIDE DEF s
<1>5. BufferTypeOK'
  BY <1>1, <1>2, <1>3, <1>4 DEF WriterIInv, BufferInv, BufferTypeOK
<1>6. \A u \in Writers : InBounds(u)'
  <2>1. InBounds(w)'
    BY <1>1, <1>2, <1>3, <1>4 DEF WriterIInv, BufferInv, BufferTypeOK, InBounds, HoldsNow, Needed
  <2>2. ASSUME NEW u \in Writers \ {w} PROVE InBounds(u)'
    BY <1>2, <1>3 DEF WriterIInv, BufferInv, BufferTypeOK, InBounds, Keeps
  <2> QED
    BY <2>1, <2>2
<1>7. \A u \in Writers \ live' : _buf'[u] = NULL /\ _len'[u] = 0 /\ meant'[u] = <<>>
  BY <1>2, <1>3 DEF WriterIInv, BufferInv, BufferTypeOK, Keeps
<1>8. EveryBlockHasAnOwner'
  BY <1>2, <1>3 DEF WriterIInv, EveryBlockHasAnOwner, Owned, Keeps, BufferInv, BufferTypeOK
<1>9. ContentAsMeant'
  <2>1. ASSUME NEW u \in (live \ spoiled) \ {w} PROVE Content(u)' = meant'[u]
    BY <1>2, <1>3, ContentKept DEF WriterIInv, ContentAsMeant, BufferInv, BufferTypeOK
  <2>2. ASSUME w \notin spoiled' PROVE Content(w)' = meant'[w]
    <3>1. _len[w] = 0
      BY <2>2
    <3>2. BufferInv'
      BY <1>2, <1>5, <1>6, <1>7 DEF BufferInv, Apart
    <3>3. /\ Content(w)' \in Seq(Cell) /\ Len(Content(w)') = _len[v]
          /\ \A i \in 1.._len[v] : Content(w)'[i] = heap'[_buf'[w]][i]
      <4>1. _len'[w] = _len[v]
        BY <1>3, <1>4, <3>1 DEF WriterIInv, BufferInv, BufferTypeOK
      <4>2. CASE _buf'[w] = NULL
        BY <1>4, <3>2, <4>1, <4>2 DEF Content, BufferInv, InBounds, BufferTypeOK
      <4>3. CASE _buf'[w] # NULL
        <5>1. /\ heap'[_buf'[w]] \in Seq(Cell) /\ _len'[w] \in Nat
              /\ _len'[w] <= Len(heap'[_buf'[w]])
          BY <3>2, <4>3 DEF BufferInv, InBounds, BufferTypeOK
        <5> QED
          BY <4>1, <4>3, <5>1 DEF Content
      <4> QED
        BY <4>2, <4>3
    <3>4. meant'[w] = s
      BY <1>3, <1>4, <3>1 DEF WriterIInv, BufferInv, BufferTypeOK
    <3>5. \A i \in 1.._len[v] : Content(w)'[i] = s[i]
      <4>1. CASE _buf'[w] = NULL
        BY <1>1, <1>2, <1>4, <3>1, <4>1 DEF HoldsNow, Needed
      <4>2. CASE _buf'[w] # NULL
        BY <1>1, <1>2, <1>4, <3>1, <3>3, <4>2 DEF HoldsNow, Needed
      <4> QED
        BY <4>1, <4>2
    <3> QED
      BY <1>1, <3>3, <3>4, <3>5, SameSequence
  <2> QED
    BY <2>1, <2>2 DEF ContentAsMeant
<1> QED
  BY <1>2, <1>5, <1>6, <1>7, <1>8, <1>9 DEF WriterIInv, BufferInv, Apart

LEMMA ConstructKeeps == ASSUME WriterIInv, NEW w \in Writers, NewWriter(w) PROVE WriterIInv'
<1>1. /\ UNCHANGED <<_buf, _len, _buf_len, heap, meant, spoiled>>
      /\ live' = live \cup {w} /\ w \notin live
  BY DEF NewWriter
<1>2. BufferInv'
  BY <1>1 DEF WriterIInv, BufferInv, BufferTypeOK, InBounds
<1>3. EveryBlockHasAnOwner'
  BY <1>1 DEF WriterIInv, EveryBlockHasAnOwner
<1>4. ContentAsMeant'
  BY <1>1 DEF WriterIInv, ContentAsMeant, Content, BufferInv
<1> QED
  BY <1>2, <1>3, <1>4 DEF WriterIInv

LEMMA ResetKeeps == ASSUME WriterIInv, NEW w \in Writers, ResetWriter(w) PROVE WriterIInv'
<1>1. /\ UNCHANGED <<_buf, _buf_len, heap, live>> /\ w \in live
      /\ _len' = [_len EXCEPT ![w] = 0] /\ meant' = [meant EXCEPT ![w] = <<>>]
      /\ spoiled' = spoiled \ {w}
  BY DEF ResetWriter
<1>2. BufferInv'
  <2>1. BufferTypeOK'
    BY <1>1 DEF WriterIInv, BufferInv, BufferTypeOK
  <2>2. \A v \in Writers : InBounds(v)'
    BY <1>1 DEF WriterIInv, BufferInv, BufferTypeOK, InBounds
  <2> QED
    BY <1>1, <2>1, <2>2 DEF WriterIInv, BufferInv, BufferTypeOK
<1>3. EveryBlockHasAnOwner'
  BY <1>1 DEF WriterIInv, EveryBlockHasAnOwner
<1>4. ContentAsMeant'
  <2>1. ASSUME NEW v \in (live \ spoiled) \ {w} PROVE Content(v)' = meant'[v]
    BY <1>1 DEF WriterIInv, ContentAsMeant, Content, BufferInv, BufferTypeOK
  <2>2. Content(w)' = meant'[w]
    BY <1>1 DEF WriterIInv, Content, BufferInv, BufferTypeOK
  <2> QED
    BY <1>1, <2>1, <2>2 DEF ContentAsMeant
<1> QED
  BY <1>2, <1>3, <1>4 DEF WriterIInv

LEMMA DestroyKeeps == ASSUME WriterIInv, NEW w \in Writers, DestroyWriter(w) PROVE WriterIInv'
<1>1. /\ w \in live /\ live' = live \ {w} /\ spoiled' = spoiled \ {w}
      /\ _buf' = [_buf EXCEPT ![w] = NULL] /\ _len' = [_len EXCEPT ![w] = 0]
      /\ _buf_len' = [_buf_len EXCEPT ![w] = 0] /\ meant' = [meant EXCEPT ![w] = <<>>]
      /\ heap' = IF _buf[w] = NULL THEN heap ELSE Without(heap, w)
  BY DEF DestroyWriter
<1>2. /\ heap' \in [Addresses -> Seq(Cell)]
      /\ \A a \in Addresses : heap'[a] = IF a = _buf[w] THEN <<>> ELSE heap[a]
  BY <1>1, BufferAssumption DEF WriterIInv, BufferInv, BufferTypeOK, Without
<1>3. \A v \in Writers \ {w} : Keeps(v)
  BY <1>1, <1>2 DEF WriterIInv, BufferInv, BufferTypeOK, Keeps
<1>4. BufferInv'
  <2>1. BufferTypeOK'
    BY <1>1, <1>2 DEF WriterIInv, BufferInv, BufferTypeOK
  <2>2. \A v \in Writers : InBounds(v)'
    BY <1>1, <1>3 DEF WriterIInv, BufferInv, BufferTypeOK, InBounds, Keeps
  <2> QED
    BY <1>1, <2>1, <2>2 DEF WriterIInv, BufferInv, BufferTypeOK
<1>5. EveryBlockHasAnOwner'
  BY <1>1, <1>2 DEF WriterIInv, EveryBlockHasAnOwner, BufferInv, BufferTypeOK
<1>6. ContentAsMeant'
  <2> SUFFICES ASSUME NEW v \in live' \ spoiled' PROVE Content(v)' = meant'[v]
    BY DEF ContentAsMeant
  <2>1. v \in Writers \ {w} /\ v \in live \ spoiled
    BY <1>1 DEF WriterIInv, BufferInv, BufferTypeOK
  <2> QED
    BY <1>1, <1>3, <2>1, ContentKept DEF WriterIInv, ContentAsMeant, BufferInv, BufferTypeOK
<1> QED
  BY <1>4, <1>5, <1>6 DEF WriterIInv

LEMMA SwapKeeps == ASSUME WriterIInv, NEW w \in Writers, NEW v \in Writers, SwapWriters(w, v) PROVE WriterIInv'
<1> DEFINE o(u) == CASE u = w -> v [] u = v -> w [] OTHER -> u
<1>1. /\ w \in live /\ v \in live /\ UNCHANGED <<live, heap>>
      /\ \A u \in Writers :
           /\ o(u) \in Writers /\ (u \in live <=> o(u) \in live)
           /\ _buf'[u] = _buf[o(u)] /\ _len'[u] = _len[o(u)]
           /\ _buf_len'[u] = _buf_len[o(u)] /\ meant'[u] = meant[o(u)]
           /\ (u \in spoiled' <=> o(u) \in spoiled)
  BY DEF SwapWriters, Swapped, WriterIInv, BufferInv, BufferTypeOK
<1>2. \A t, u \in Writers : t # u => o(t) # o(u)
  OBVIOUS
<1>3. \A u \in Writers : \E t \in Writers : o(t) = u
  OBVIOUS
<1>4. BufferTypeOK'
  <2>1. /\ _buf' \in [Writers -> Addresses \cup {NULL}] /\ _len' \in [Writers -> Nat]
        /\ _buf_len' \in [Writers -> Nat] /\ meant' \in [Writers -> Seq(Cell)]
    BY DEF SwapWriters, Swapped, WriterIInv, BufferInv, BufferTypeOK
  <2>2. spoiled' \subseteq live' /\ live' \subseteq Writers
    <3>1. spoiled' \subseteq Writers
      BY DEF SwapWriters
    <3> HIDE DEF o
    <3> QED
      BY <1>1, <3>1 DEF WriterIInv, BufferInv, BufferTypeOK
  <2> QED
    BY <1>1, <2>1, <2>2 DEF WriterIInv, BufferInv, BufferTypeOK
<1> HIDE DEF o
<1>5. \A u \in Writers : InBounds(u)'
  BY <1>1 DEF WriterIInv, BufferInv, InBounds
<1>6. Apart'
  BY <1>1, <1>2 DEF WriterIInv, BufferInv, Apart
<1>7. \A u \in Writers \ live' : _buf'[u] = NULL /\ _len'[u] = 0 /\ meant'[u] = <<>>
  BY <1>1 DEF WriterIInv, BufferInv
<1>8. EveryBlockHasAnOwner'
  <2> SUFFICES ASSUME NEW a \in Addresses, heap[a] # <<>>
               PROVE  \E u \in live : _buf'[u] = a
    BY <1>1 DEF EveryBlockHasAnOwner
  <2>1. PICK t \in live : _buf[t] = a
    BY DEF WriterIInv, EveryBlockHasAnOwner
  <2>2. PICK u \in Writers : o(u) = t
    BY <1>3 DEF WriterIInv, BufferInv, BufferTypeOK
  <2> QED
    BY <1>1, <2>1, <2>2
<1>9. ContentAsMeant'
  <2> SUFFICES ASSUME NEW u \in live \ spoiled' PROVE Content(u)' = meant'[u]
    BY <1>1 DEF ContentAsMeant
  <2>1. u \in Writers
    BY DEF WriterIInv, BufferInv, BufferTypeOK
  <2>2. Content(u)' = Content(o(u))
    BY <1>1, <2>1 DEF Content
  <2> QED
    BY <1>1, <2>1, <2>2 DEF WriterIInv, ContentAsMeant
<1> QED
  BY <1>4, <1>5, <1>6, <1>7, <1>8, <1>9 DEF WriterIInv, BufferInv, Apart

-----------------------------------------------------------------------------
(* The theorems. *)

LEMMA InvariantHolds == BufferSpec => []WriterIInv
<1>1. BufferInit => WriterIInv
  BY DEF BufferInit, WriterIInv, BufferInv, BufferTypeOK, InBounds, EveryBlockHasAnOwner,
         ContentAsMeant, Cell
<1>2. WriterIInv /\ [BufferNext]_bufferVars => WriterIInv'
  <2> SUFFICES ASSUME WriterIInv, [BufferNext]_bufferVars PROVE WriterIInv'
    OBVIOUS
  <2>1. CASE UNCHANGED bufferVars
    BY <2>1 DEF bufferVars, WriterIInv, BufferInv, BufferTypeOK, InBounds, EveryBlockHasAnOwner,
                ContentAsMeant, Content
  <2>2. ASSUME NEW w \in Writers, NEW v \in Writers, CopyWriter(w, v) PROVE WriterIInv'
    <3>1. /\ _len[w] = 0 /\ w \notin spoiled /\ spoiled' = spoiled
          /\ live' = live \cup {w} /\ v \in live /\ Copy(w, v)
      BY <2>2 DEF CopyWriter, WriterIInv, BufferInv, BufferTypeOK
    <3>2. spoiled' = IF _len[w] # 0 THEN spoiled \cup {w} ELSE spoiled \ {w}
      BY <3>1
    <3> QED
      BY <3>1, <3>2, CopyKeeps
  <2>3. ASSUME NEW w \in Writers, NEW v \in Writers, AssignWriter(w, v) PROVE WriterIInv'
    <3>1. /\ w \in live /\ v \in live /\ live' = live /\ Copy(w, v)
          /\ spoiled' = IF _len[w] # 0 THEN spoiled \cup {w} ELSE spoiled \ {w}
      BY <2>3 DEF AssignWriter
    <3>2. live' = live \cup {w}
      BY <3>1
    <3> QED
      BY <3>1, <3>2, CopyKeeps
  <2>4. CASE BufferNext
    BY <2>2, <2>3, <2>4, ConstructKeeps, ResetKeeps, DestroyKeeps, WriteBufKeeps, SwapKeeps
       DEF BufferNext
  <2> QED
    BY <2>1, <2>4
<1> QED
  BY <1>1, <1>2, PTL DEF BufferSpec

\* Whatever is written, copied and swapped, every writer stays within the block
\* it alone owns, leaks none, and holds what was written to it, unless a copy was
\* assigned to it over content (reserve, writeBuf, operator=, swap, the destructor).
THEOREM WritersHoldWhatWasWritten == BufferSpec => []WriterInv
<1>1. WriterIInv => WriterInv
  BY DEF WriterIInv, WriterInv
<1> QED
  BY <1>1, InvariantHolds, PTL

-----------------------------------------------------------------------------
(* Counted pointers. *)

\* What a thread knows of its handle, its source and its pointer.
Placed(t) ==
  LET s == thread[t]
  IN  /\ s.at = "idle" => s = Idle
      /\ s.at \in {"copied", "assigning", "counted"} =>
           /\ s.handle \in Handle /\ s.from # s.handle
           /\ s.from # None => ptr[s.from] = s.p
      /\ s.at = "copied" => s.p \in Object /\ ptr[s.handle] = s.p
      /\ s.at \in {"assigning", "counted"} => ptr[s.handle] \notin {Unmade, s.p}
      /\ s.at = "assigning" => s.p \in Object
      /\ s.at \in {"releasing", "zero"} => s = Step(s.at, None, None, s.p) /\ s.p \in Object

\* A handle is changed by one thread, and read by none meanwhile.
Separate ==
  \A t, u \in Thread : t # u /\ thread[t].handle # None =>
    thread[u].handle # thread[t].handle /\ thread[u].from # thread[t].handle

Refers(o) == (\E h \in Handle : ptr[h] = o) \/ \E t \in Thread : thread[t].p = o

\* Only live objects are referred to, and no other was used.
OnlyLive == touched = {} /\ \A o \in Object : Refers(o) => object[o] = "live"

Unshared(t) == thread[t].at = "zero" \/ (thread[t].at \in {"copied", "assigning"} /\ thread[t].from = None)

Alone(t) ==
  Unshared(t) /\ ~noDelete[thread[t].p] =>
    /\ \A u \in Thread \ {t} : thread[u].p # thread[t].p
    /\ \A h \in Handle : ptr[h] = thread[t].p => thread[t].at = "copied" /\ h = thread[t].handle

CountInv ==
  /\ PtrTypeOK /\ CountIsHolders /\ OnlyLive /\ Separate /\ NothingLeaks
  /\ \A t \in Thread : Placed(t) /\ Alone(t)

-----------------------------------------------------------------------------
LEMMA HoldersFinite ==
  ASSUME NEW o
  PROVE  IsFiniteSet(Holders(o)) /\ Cardinality(Holders(o)) \in Nat
<1>1. IsFiniteSet(Handle \cup Thread)
  BY AutoPtrAssumption, FS_Union
<1>2. Holders(o) \in SUBSET (Handle \cup Thread)
  BY DEF Holders
<1> QED
  BY <1>1, <1>2, FS_Subset, FS_CardinalityType

\* One holder takes the place of another.
LEMMA Exchange ==
  ASSUME NEW S, IsFiniteSet(S), NEW a \in S, NEW b, b \notin S
  PROVE  Cardinality((S \ {a}) \cup {b}) = Cardinality(S)
<1>1. IsFiniteSet(S \ {a}) /\ Cardinality(S \ {a}) = Cardinality(S) - 1
  BY FS_RemoveElement
<1>2. b \notin S \ {a}
  OBVIOUS
<1>3. Cardinality((S \ {a}) \cup {b}) = Cardinality(S \ {a}) + 1
  BY <1>1, <1>2, FS_AddElement
<1> QED
  BY <1>1, <1>3, FS_CardinalityType

\* One thread moves.
Moves(t, s) == thread'[t] = s /\ \A u \in Thread \ {t} : thread'[u] = thread[u]

LEMMA GotoMoves ==
  ASSUME PtrTypeOK, NEW t \in Thread, NEW s, Goto(t, s)
  PROVE  Moves(t, s)
BY DEF PtrTypeOK, Goto, Moves

LEMMA UsesLive ==
  ASSUME OnlyLive, NEW o \in Object, Refers(o), Use(o)
  PROVE  touched' = {}
BY DEF OnlyLive, Use

-----------------------------------------------------------------------------
(* One lemma per step. *)

LEMMA ConstructStep ==
  ASSUME CountInv, NEW t \in Thread, NEW h \in Handle, NEW o \in Object \cup {Null},
         ConstructPtr(t, h, o)
  PROVE  CountInv'
<1> DEFINE s == IF o = Null THEN Idle ELSE Step("copied", h, None, o)
<1>0. /\ PtrTypeOK /\ CountIsHolders /\ OnlyLive /\ Separate /\ NothingLeaks
      /\ \A u \in Thread : Placed(u) /\ Alone(u)
      /\ Unmade \notin Object \cup {Null} /\ Null \notin Object /\ None \notin Handle
  BY AutoPtrAssumption DEF CountInv
<1>1. /\ thread[t] = Idle /\ ptr[h] = Unmade /\ ptr'[h] = o
      /\ \A k \in Handle \ {h} : ptr'[k] = ptr[k]
      /\ count' = count /\ noDelete' = noDelete /\ touched' = touched /\ Moves(t, s)
  BY <1>0, GotoMoves DEF ConstructPtr, PtrTypeOK
<1>2. /\ \A p \in Object \ {o} : object'[p] = object[p]
      /\ o # Null => object'[o] = "live" /\ (object[o] = "unborn" \/ noDelete[o])
      /\ \A p \in Object : object[p] = "live" => object'[p] = "live"
  BY <1>0 DEF ConstructPtr, Pointer, PtrTypeOK
<1>3. PtrTypeOK'
  <2>1. object' \in [Object -> {"unborn", "live", "deleted"}]
    BY <1>0 DEF ConstructPtr, Pointer, PtrTypeOK
  <2>2. s \in [at : Place, handle : Handle \cup {None}, from : Handle \cup {None}, p : Object \cup {Null}]
    BY DEF Idle, Step, Place
  <2> QED
    BY <1>0, <1>1, <2>1, <2>2 DEF ConstructPtr, Goto, PtrTypeOK
<1>4. \A u \in Thread : thread[u].handle # h /\ thread[u].from # h
  BY <1>0, <1>1 DEF Placed, Idle, Step, PtrTypeOK, Place
<1>5. \A p \in Object : Holders(p)' = Holders(p)
  <2>1. ASSUME NEW p \in Object, NEW k \in Handle PROVE HasCounted(k, p)' = HasCounted(k, p)
    <3>1. CASE k = h
      BY <1>0, <1>1, <3>1 DEF HasCounted, Made, Moves, Idle, Step
    <3>2. CASE k # h
      BY <1>0, <1>1, <3>2 DEF HasCounted, Made, Moves, Idle, Step
    <3> QED
      BY <3>1, <3>2
  <2>2. ASSUME NEW p \in Object, NEW u \in Thread PROVE Holds(u, p)' = Holds(u, p)
    BY <1>0, <1>1 DEF Holds, Moves, Idle, Step
  <2> QED
    BY <2>1, <2>2 DEF Holders
<1>6. CountIsHolders'
  BY <1>0, <1>1, <1>5 DEF CountIsHolders
<1>7. \A p \in Object \ {o} : Refers(p)' => Refers(p)
  BY <1>0, <1>1 DEF Refers, Moves, Idle, Step
<1>8. OnlyLive'
  BY <1>0, <1>1, <1>2, <1>7 DEF OnlyLive
<1>9. Separate'
  BY <1>0, <1>1, <1>4 DEF Separate, Moves, Idle, Step
<1>10. \A u \in Thread : Placed(u)'
  <2>1. Placed(t)'
    BY <1>0, <1>1 DEF Placed, Moves, Idle, Step
  <2>2. ASSUME NEW u \in Thread \ {t} PROVE Placed(u)'
    BY <1>0, <1>1, <1>4 DEF Placed, Moves, PtrTypeOK
  <2> QED
    BY <2>1, <2>2
<1>11. \A u \in Thread : Alone(u)'
  <2>1. Alone(t)'
    <3>1. CASE o = Null
      BY <1>1, <3>1 DEF Alone, Unshared, Moves, Idle, Step
    <3>2. CASE o # Null /\ ~noDelete[o]
      <4>1. ~Refers(o)
        BY <1>0, <1>2, <3>2 DEF OnlyLive
      <4> QED
        BY <1>0, <1>1, <3>2, <4>1 DEF Alone, Unshared, Moves, Idle, Step, Refers
    <3>3. CASE o # Null /\ noDelete[o]
      BY <1>1, <3>3 DEF Alone, Moves, Step
    <3> QED
      BY <3>1, <3>2, <3>3
  <2>2. ASSUME NEW u \in Thread \ {t} PROVE Alone(u)'
    <3> SUFFICES ASSUME Unshared(u), ~noDelete[thread[u].p]
                 PROVE  /\ thread'[t].p # thread[u].p
                        /\ ptr'[h] # thread[u].p
                        /\ Alone(u)
      BY <1>0, <1>1 DEF Alone, Unshared, Moves
    <3>1. thread[u].p \in Object /\ object[thread[u].p] = "live"
      BY <1>0 DEF Placed, Unshared, OnlyLive, Refers
    <3> QED
      BY <1>0, <1>1, <1>2, <3>1 DEF Moves, Idle, Step
  <2> QED
    BY <2>1, <2>2
<1>12. NothingLeaks'
  <2> SUFFICES ASSUME NEW p \in Object, object'[p] = "live", ~noDelete[p] PROVE Refers(p)'
    BY <1>1 DEF NothingLeaks, Refers
  <2>1. CASE p = o
    BY <1>1, <2>1 DEF Refers
  <2>2. CASE p # o
    <3>1. Refers(p)
      BY <1>0, <1>2, <2>2 DEF NothingLeaks, Refers
    <3> QED
      BY <1>0, <1>1, <3>1 DEF Refers, Moves, Idle, Step
  <2> QED
    BY <2>1, <2>2
<1> QED
  BY <1>3, <1>6, <1>8, <1>9, <1>10, <1>11, <1>12 DEF CountInv

LEMMA CopyConstructStep ==
  ASSUME CountInv, NEW t \in Thread, NEW h \in Handle, NEW r \in Handle,
         CopyPtr(t, h, r)
  PROVE  CountInv'
<1> DEFINE s == IF ptr[r] = Null THEN Idle ELSE Step("copied", h, r, ptr[r])
<1>0. /\ PtrTypeOK /\ CountIsHolders /\ OnlyLive /\ Separate /\ NothingLeaks
      /\ \A u \in Thread : Placed(u) /\ Alone(u)
      /\ Unmade \notin Object \cup {Null} /\ Null \notin Object /\ None \notin Handle
  BY AutoPtrAssumption DEF CountInv
<1>1. /\ thread[t] = Idle /\ ptr[h] = Unmade /\ ptr'[h] = ptr[r] /\ ptr[r] # Unmade /\ r # h
      /\ \A k \in Handle \ {h} : ptr'[k] = ptr[k]
      /\ \A u \in Thread : thread[u].handle # r
      /\ count' = count /\ noDelete' = noDelete /\ touched' = touched /\ object' = object
      /\ Moves(t, s)
  BY <1>0, GotoMoves DEF CopyPtr, PtrTypeOK, MayRead, Made, Changing
<1>2. PtrTypeOK'
  <2>1. s \in [at : Place, handle : Handle \cup {None}, from : Handle \cup {None}, p : Object \cup {Null}]
    BY <1>0, <1>1 DEF Idle, Step, Place, PtrTypeOK
  <2> QED
    BY <1>0, <1>1, <2>1 DEF CopyPtr, Goto, PtrTypeOK
<1>3. \A u \in Thread : thread[u].handle # h /\ thread[u].from # h
  BY <1>0, <1>1 DEF Placed, Idle, Step, PtrTypeOK, Place
<1>4. CountIsHolders'
  <2>1. ASSUME NEW p \in Object, NEW k \in Handle PROVE HasCounted(k, p)' = HasCounted(k, p)
    <3>1. CASE k = h
      BY <1>0, <1>1, <3>1 DEF HasCounted, Made, Moves, Idle, Step
    <3>2. CASE k # h
      BY <1>0, <1>1, <3>2 DEF HasCounted, Made, Moves, Idle, Step
    <3> QED
      BY <3>1, <3>2
  <2>2. ASSUME NEW p \in Object, NEW u \in Thread PROVE Holds(u, p)' = Holds(u, p)
    BY <1>0, <1>1 DEF Holds, Moves, Idle, Step
  <2>3. \A p \in Object : Holders(p)' = Holders(p)
    BY <2>1, <2>2 DEF Holders
  <2> QED
    BY <1>0, <1>1, <2>3 DEF CountIsHolders
<1>5. \A p \in Object : Refers(p)' <=> Refers(p)
  BY <1>0, <1>1 DEF Refers, Moves, Idle, Step
<1>6. OnlyLive' /\ NothingLeaks'
  BY <1>0, <1>1, <1>5 DEF OnlyLive, NothingLeaks, Refers
<1>7. Separate'
  BY <1>0, <1>1, <1>3 DEF Separate, Moves, Idle, Step
<1>8. \A u \in Thread : Placed(u)'
  <2>1. Placed(t)'
    BY <1>0, <1>1 DEF Placed, Moves, Idle, Step, PtrTypeOK
  <2>2. ASSUME NEW u \in Thread \ {t} PROVE Placed(u)'
    BY <1>0, <1>1, <1>3 DEF Placed, Moves, PtrTypeOK
  <2> QED
    BY <2>1, <2>2
<1>9. \A u \in Thread : Alone(u)'
  <2>1. Alone(t)'
    BY <1>0, <1>1 DEF Alone, Unshared, Moves, Idle, Step
  <2>2. ASSUME NEW u \in Thread \ {t} PROVE Alone(u)'
    <3> SUFFICES ASSUME Unshared(u), ~noDelete[thread[u].p]
                 PROVE  ptr[r] # thread[u].p /\ thread[u].p # Null /\ Alone(u)
      BY <1>0, <1>1 DEF Alone, Unshared, Moves, Idle, Step
    <3> QED
      BY <1>0, <1>1 DEF Alone, Unshared, Placed
  <2> QED
    BY <2>1, <2>2
<1> QED
  BY <1>2, <1>4, <1>6, <1>7, <1>8, <1>9 DEF CountInv

\* operator= has compared the pointers and found them different.
LEMMA AssignStep ==
  ASSUME CountInv, NEW t \in Thread, NEW h \in Handle,
         (\E o \in Object \cup {Null} : AssignPtr(t, h, o)) \/ (\E r \in Handle : AssignHandle(t, h, r))
  PROVE  CountInv'
<1>0. /\ PtrTypeOK /\ CountIsHolders /\ OnlyLive /\ Separate /\ NothingLeaks
      /\ \A u \in Thread : Placed(u) /\ Alone(u)
      /\ Unmade \notin Object \cup {Null} /\ Null \notin Object /\ None \notin Handle
  BY AutoPtrAssumption DEF CountInv
<1>1. PICK r \in Handle \cup {None}, o \in Object \cup {Null} :
        /\ thread[t] = Idle /\ ptr[h] \notin {Unmade, o} /\ r # h
        /\ r # None => ptr[r] = o /\ object' = object /\ \A u \in Thread : thread[u].handle # r
        /\ \A u \in Thread : thread[u].handle # h /\ thread[u].from # h
        /\ r = None => Pointer(o)
        /\ Goto(t, Step(IF o = Null THEN "counted" ELSE "assigning", h, r, o))
        /\ ptr' = ptr /\ count' = count /\ noDelete' = noDelete /\ touched' = touched
  <2>1. CASE \E o \in Object \cup {Null} : AssignPtr(t, h, o)
    BY <1>0, <2>1 DEF AssignPtr, MayChange, Made, Changing, Reading
  <2>2. CASE \E r \in Handle : AssignHandle(t, h, r)
    <3>1. PICK r \in Handle : AssignHandle(t, h, r)
      BY <2>2
    <3>2. ptr[r] \in Object \cup {Null}
      BY <1>0, <3>1 DEF AssignHandle, MayRead, Made, PtrTypeOK
    <3> QED
      BY <1>0, <3>1, <3>2 DEF AssignHandle, MayChange, MayRead, Made, Changing, Reading
  <2> QED
    BY <2>1, <2>2
<1> DEFINE s == Step(IF o = Null THEN "counted" ELSE "assigning", h, r, o)
<1>2. Moves(t, s)
  BY <1>0, <1>1, GotoMoves
<1>3. /\ \A p \in Object \ {o} : object'[p] = object[p]
      /\ o # Null /\ r = None => object[o] = "unborn" \/ noDelete[o]
      /\ o # Null => object'[o] = "live"
      /\ object' \in [Object -> {"unborn", "live", "deleted"}]
  <2>1. CASE r = None
    BY <1>0, <1>1, <2>1 DEF Pointer, PtrTypeOK
  <2>2. CASE r # None
    BY <1>0, <1>1, <2>2 DEF PtrTypeOK, OnlyLive, Refers
  <2> QED
    BY <2>1, <2>2
<1>4. PtrTypeOK'
  <2>1. s \in [at : Place, handle : Handle \cup {None}, from : Handle \cup {None}, p : Object \cup {Null}]
    BY <1>0, <1>1 DEF Step, Place
  <2> QED
    BY <1>0, <1>1, <1>3, <2>1 DEF Goto, PtrTypeOK
<1>5. CountIsHolders'
  <2>1. ASSUME NEW p \in Object, NEW k \in Handle PROVE HasCounted(k, p)' = HasCounted(k, p)
    BY <1>0, <1>1, <1>2 DEF HasCounted, Made, Moves, Idle, Step
  <2>2. ASSUME NEW p \in Object, NEW u \in Thread PROVE Holds(u, p)' = Holds(u, p)
    BY <1>0, <1>1, <1>2 DEF Holds, Moves, Idle, Step
  <2>3. \A p \in Object : Holders(p)' = Holders(p)
    BY <2>1, <2>2 DEF Holders
  <2> QED
    BY <1>0, <1>1, <2>3 DEF CountIsHolders
<1>6. \A p \in Object \ {o} : Refers(p)' <=> Refers(p)
  BY <1>0, <1>1, <1>2 DEF Refers, Moves, Idle, Step
<1>7. OnlyLive' /\ NothingLeaks'
  <2>1. o \in Object => Refers(o)'
    BY <1>2 DEF Refers, Moves, Step
  <2> QED
    BY <1>0, <1>1, <1>3, <1>6, <2>1 DEF OnlyLive, NothingLeaks, Refers
<1>8. Separate'
  BY <1>0, <1>1, <1>2 DEF Separate, Moves, Idle, Step
<1>9. \A u \in Thread : Placed(u)'
  <2>1. Placed(t)'
    BY <1>0, <1>1, <1>2 DEF Placed, Moves, Idle, Step
  <2>2. ASSUME NEW u \in Thread \ {t} PROVE Placed(u)'
    BY <1>0, <1>1, <1>2 DEF Placed, Moves
  <2> QED
    BY <2>1, <2>2
<1>10. \A u \in Thread : Alone(u)'
  <2>1. Alone(t)'
    <3> SUFFICES ASSUME Unshared(t)', ~noDelete[o] PROVE ~Refers(o)
      BY <1>0, <1>1, <1>2 DEF Alone, Unshared, Moves, Step, Refers
    <3>1. o # Null /\ r = None
      BY <1>2 DEF Unshared, Moves, Step
    <3> QED
      BY <1>0, <1>3, <3>1 DEF OnlyLive
  <2>2. ASSUME NEW u \in Thread \ {t} PROVE Alone(u)'
    <3> SUFFICES ASSUME Unshared(u), ~noDelete[thread[u].p]
                 PROVE  o # thread[u].p /\ Alone(u)
      BY <1>0, <1>1, <1>2 DEF Alone, Unshared, Moves, Step
    <3>1. thread[u].p \in Object /\ object[thread[u].p] = "live"
      BY <1>0 DEF Placed, Unshared, OnlyLive, Refers
    <3>2. r # None => o # thread[u].p
      BY <1>0, <1>1 DEF Alone
    <3> QED
      BY <1>0, <1>3, <3>1, <3>2
  <2> QED
    BY <2>1, <2>2
<1> QED
  BY <1>4, <1>5, <1>7, <1>8, <1>9, <1>10 DEF CountInv

LEMMA IncRefStep ==
  ASSUME CountInv, NEW t \in Thread, IncRef(t)
  PROVE  CountInv'
<1>0. /\ PtrTypeOK /\ CountIsHolders /\ OnlyLive /\ Separate /\ NothingLeaks
      /\ \A u \in Thread : Placed(u) /\ Alone(u)
      /\ Null \notin Object /\ None \notin Handle /\ Handle \cap Thread = {}
  BY AutoPtrAssumption DEF CountInv
<1>a. PICK p \in Object, h \in Handle, at \in {"copied", "assigning"}, r \in Handle \cup {None} :
        thread[t] = Step(at, h, r, p)
  <2>1. thread[t] = Step(thread[t].at, thread[t].handle, thread[t].from, thread[t].p)
    BY <1>0 DEF PtrTypeOK, Step
  <2> QED
    BY <1>0, <2>1 DEF IncRef, Placed, PtrTypeOK
<1> DEFINE new == IF at = "copied" THEN h ELSE t
           s == IF at = "copied" THEN Idle ELSE Step("counted", h, r, p)
<1>1. /\ thread[t].at = at /\ thread[t].p = p /\ thread[t].handle = h /\ thread[t].from = r
      /\ ptr' = ptr /\ noDelete' = noDelete /\ object' = object
      /\ count' = [count EXCEPT ![p] = count[p] + 1]
      /\ Goto(t, s) /\ Moves(t, s)
  <2>1. Goto(t, s)
    BY <1>0, <1>a DEF IncRef, Step
  <2> QED
    BY <1>0, <1>a, <2>1, GotoMoves DEF IncRef, Step
<1>2. touched' = {}
  BY <1>0, <1>1, UsesLive DEF IncRef, Refers
<1>3. PtrTypeOK'
  <2>1. s \in [at : Place, handle : Handle \cup {None}, from : Handle \cup {None}, p : Object \cup {Null}]
    BY <1>0 DEF Idle, Step, Place, PtrTypeOK
  <2>2. count' \in [Object -> Nat]
    BY <1>0, <1>1 DEF PtrTypeOK
  <2> QED
    BY <1>0, <1>1, <1>2, <2>1, <2>2 DEF Goto, PtrTypeOK
<1>4. Holders(p)' = Holders(p) \cup {new} /\ new \notin Holders(p)
  <2>1. CASE at = "copied"
    <3>1. \A k \in Handle : HasCounted(k, p)' <=> HasCounted(k, p) \/ k = h
      <4>1. \A u \in Thread \ {t} : thread[u].handle # h
        BY <1>0, <1>1 DEF Separate
      <4>2. ptr[h] = p /\ p # Unmade
        BY <1>0, <1>1, <2>1, AutoPtrAssumption DEF Placed
      <4>3. Made(h)'
        BY <1>1, <2>1, <4>1, <4>2 DEF Made, Moves, Idle, Step
      <4>4. \A k \in Handle \ {h} : Made(k)' = Made(k)
        BY <1>1, <2>1 DEF Made, Moves, Idle, Step
      <4> QED
        BY <1>1, <4>2, <4>3, <4>4 DEF HasCounted
    <3>2. \A u \in Thread : Holds(u, p)' = Holds(u, p)
      BY <1>0, <1>1, <2>1 DEF Holds, Moves, Idle, Step
    <3>3. ~HasCounted(h, p) /\ new = h /\ h \notin Thread
      BY <1>0, <1>1, <2>1 DEF HasCounted, Made
    <3> QED
      BY <1>1, <3>1, <3>2, <3>3 DEF Holders
  <2>2. CASE at = "assigning"
    <3>1. \A k \in Handle : HasCounted(k, p)' = HasCounted(k, p)
      BY <1>0, <1>1, <2>2 DEF HasCounted, Made, Moves, Step
    <3>2. \A u \in Thread : Holds(u, p)' <=> Holds(u, p) \/ u = t
      BY <1>0, <1>1, <2>2 DEF Holds, Moves, Step
    <3>3. ~Holds(t, p) /\ new = t /\ t \notin Handle
      BY <1>0, <1>1, <2>2 DEF Holds
    <3> QED
      BY <1>1, <3>1, <3>2, <3>3 DEF Holders
  <2> QED
    BY <1>1, <2>1, <2>2
<1>5. \A q \in Object \ {p} : Holders(q)' = Holders(q)
  <2>1. \A q \in Object \ {p}, k \in Handle : HasCounted(k, q)' = HasCounted(k, q)
    BY <1>0, <1>1 DEF HasCounted, Made, Moves, Idle, Step, Placed, PtrTypeOK
  <2>2. \A q \in Object \ {p}, u \in Thread : Holds(u, q)' = Holds(u, q)
    BY <1>0, <1>1 DEF Holds, Moves, Idle, Step, PtrTypeOK
  <2> QED
    BY <2>1, <2>2 DEF Holders
<1>6. CountIsHolders'
  <2>1. Cardinality(Holders(p)') = Cardinality(Holders(p)) + 1
    BY <1>4, HoldersFinite, FS_AddElement
  <2> QED
    BY <1>0, <1>1, <1>5, <2>1 DEF CountIsHolders, PtrTypeOK
<1>7. \A q \in Object : Refers(q)' <=> Refers(q)
  <2>1. ptr[h] = p \/ s.p = p
    BY <1>0, <1>1 DEF Placed, Step
  <2>2. s.p \in {p, Null}
    BY <1>0, <1>1 DEF Idle, Step, PtrTypeOK
  <2> QED
    BY <1>0, <1>1, <2>1, <2>2 DEF Refers, Moves
<1>8. OnlyLive' /\ NothingLeaks'
  BY <1>0, <1>1, <1>2, <1>7 DEF OnlyLive, NothingLeaks, Refers
<1>9. s.handle \in {None, h} /\ s.from \in {None, r} /\ s.p \in {Null, p}
  BY <1>0, <1>1 DEF Idle, Step, PtrTypeOK
<1>10. Separate'
  BY <1>0, <1>1, <1>9 DEF Separate, Moves
<1>11. \A u \in Thread : Placed(u)'
  <2>1. Placed(t)'
    BY <1>0, <1>1 DEF Placed, Moves, Idle, Step, PtrTypeOK
  <2>2. \A u \in Thread \ {t} : Placed(u)'
    BY <1>0, <1>1 DEF Placed, Moves
  <2> QED
    BY <2>1, <2>2
<1>12. \A u \in Thread : Alone(u)'
  <2>1. Alone(t)'
    BY <1>0, <1>1 DEF Alone, Unshared, Moves, Idle, Step, PtrTypeOK
  <2>2. ASSUME NEW u \in Thread \ {t} PROVE Alone(u)'
    <3> SUFFICES ASSUME Unshared(u), ~noDelete[thread[u].p]
                 PROVE  s.p # thread[u].p
      BY <1>0, <1>1 DEF Alone, Unshared, Moves
    <3> QED
      BY <1>0, <1>1, <1>9 DEF Alone, Unshared, Placed
  <2> QED
    BY <2>1, <2>2
<1> QED
  BY <1>3, <1>6, <1>8, <1>10, <1>11, <1>12 DEF CountInv

\* The old pointer moves from the handle to the thread, the new one the other way.
LEMMA ReplaceStep ==
  ASSUME CountInv, NEW t \in Thread, Replace(t)
  PROVE  CountInv'
<1>0. /\ PtrTypeOK /\ CountIsHolders /\ OnlyLive /\ Separate /\ NothingLeaks
      /\ \A u \in Thread : Placed(u) /\ Alone(u)
      /\ Null \notin Object /\ None \notin Handle /\ Handle \cap Thread = {}
      /\ Unmade \notin Object \cup {Null}
  BY AutoPtrAssumption DEF CountInv
<1>a. PICK p \in Object \cup {Null}, h \in Handle, old \in Object \cup {Null} :
        thread[t].p = p /\ thread[t].handle = h /\ ptr[h] = old /\ old # p
  BY <1>0 DEF Replace, Placed, PtrTypeOK
<1> DEFINE s == IF old = Null THEN Idle ELSE Step("releasing", None, None, old)
<1>1. /\ thread[t].at = "counted" /\ thread[t].p = p /\ thread[t].handle = h
      /\ ptr' = [ptr EXCEPT ![h] = p] /\ Moves(t, s)
      /\ noDelete' = noDelete /\ object' = object /\ count' = count /\ touched' = touched
  BY <1>0, <1>a, GotoMoves DEF Replace, Placed, PtrTypeOK
<1>2. PtrTypeOK'
  <2>1. s \in [at : Place, handle : Handle \cup {None}, from : Handle \cup {None}, p : Object \cup {Null}]
    BY <1>a, <1>1 DEF Idle, Step, Place
  <2> QED
    BY <1>0, <1>a, <1>1, <2>1 DEF Replace, Goto, PtrTypeOK
<1>3. \A u \in Thread \ {t} : thread[u].handle # h /\ thread[u].from # h
  BY <1>0, <1>a, <1>1 DEF Separate
<1>4. /\ ptr'[h] = p /\ \A k \in Handle \ {h} : ptr'[k] = ptr[k]
      /\ Made(h) /\ Made(h)'
      /\ \A k \in Handle : ptr[k] # Unmade => (Made(k)' <=> Made(k))
  <2>1. s.at # "copied"
    BY DEF Idle, Step
  <2>2. ptr'[h] = p /\ \A k \in Handle \ {h} : ptr'[k] = ptr[k]
    BY <1>0, <1>1 DEF PtrTypeOK
  <2>3. Made(h) /\ Made(h)'
    BY <1>0, <1>a, <1>1, <1>3, <2>1, <2>2 DEF Made, Moves
  <2>4. ASSUME NEW k \in Handle \ {h}, ptr[k] # Unmade PROVE Made(k)' = Made(k)
    BY <1>1, <2>1, <2>2, <2>4 DEF Made, Moves
  <2> QED
    BY <2>2, <2>3, <2>4
<1>5. /\ \A q \in Object : HasCounted(h, q)' <=> q = p
      /\ \A q \in Object : HasCounted(h, q) <=> q = old
      /\ \A q \in Object, k \in Handle \ {h} : HasCounted(k, q)' = HasCounted(k, q)
      /\ \A q \in Object : Holds(t, q)' <=> q = old
      /\ \A q \in Object : Holds(t, q) <=> q = p
      /\ \A q \in Object, u \in Thread \ {t} : Holds(u, q)' = Holds(u, q)
  BY <1>0, <1>a, <1>1, <1>4 DEF HasCounted, Holds, Moves, Idle, Step
<1>6. CountIsHolders'
  <2> SUFFICES ASSUME NEW q \in Object PROVE Cardinality(Holders(q)') = Cardinality(Holders(q))
    BY <1>0, <1>a, <1>1 DEF CountIsHolders
  <2>1. CASE q = p
    <3>1. Holders(q)' = (Holders(q) \ {t}) \cup {h} /\ t \in Holders(q) /\ h \notin Holders(q)
      BY <1>0, <1>a, <1>1, <1>5, <2>1 DEF Holders
    <3> QED
      BY <3>1, HoldersFinite, Exchange
  <2>2. CASE q = old
    <3>1. Holders(q)' = (Holders(q) \ {h}) \cup {t} /\ h \in Holders(q) /\ t \notin Holders(q)
      BY <1>0, <1>a, <1>1, <1>5, <2>2 DEF Holders
    <3> QED
      BY <3>1, HoldersFinite, Exchange
  <2>3. CASE q # p /\ q # old
    <3>1. Holders(q)' = Holders(q)
      BY <1>0, <1>a, <1>1, <1>5, <2>3 DEF Holders
    <3> QED
      BY <3>1
  <2> QED
    BY <2>1, <2>2, <2>3
<1>7. \A q \in Object : Refers(q)' <=> Refers(q)
  BY <1>0, <1>a, <1>1, <1>4 DEF Refers, Moves, Idle, Step
<1>8. OnlyLive' /\ NothingLeaks'
  BY <1>0, <1>a, <1>1, <1>7 DEF OnlyLive, NothingLeaks, Refers
<1>9. Separate'
  BY <1>0, <1>a, <1>1 DEF Separate, Moves, Idle, Step
<1>10. \A u \in Thread : Placed(u)'
  <2>1. Placed(t)'
    BY <1>0, <1>a, <1>1 DEF Placed, Moves, Idle, Step
  <2>2. ASSUME NEW u \in Thread \ {t} PROVE Placed(u)'
    BY <1>0, <1>a, <1>1, <1>3, <1>4 DEF Placed, Moves, PtrTypeOK
  <2> QED
    BY <2>1, <2>2
<1>11. \A u \in Thread : Alone(u)'
  <2>1. Alone(t)'
    BY <1>0, <1>a, <1>1 DEF Alone, Unshared, Moves, Idle, Step
  <2>2. ASSUME NEW u \in Thread \ {t} PROVE Alone(u)'
    <3> SUFFICES ASSUME Unshared(u), ~noDelete[thread[u].p]
                 PROVE  s.p # thread[u].p /\ p # thread[u].p
      BY <1>0, <1>a, <1>1, <1>4 DEF Alone, Unshared, Moves
    <3>1. thread[u].p \in Object /\ thread[u].handle # h
      BY <1>0, <1>3 DEF Placed, Unshared
    <3> QED
      BY <1>0, <1>a, <1>1, <3>1 DEF Alone, Idle, Step
  <2> QED
    BY <2>1, <2>2
<1> QED
  BY <1>2, <1>6, <1>8, <1>9, <1>10, <1>11 DEF CountInv

LEMMA DestroyStep ==
  ASSUME CountInv, NEW t \in Thread, NEW h \in Handle, DestroyPtr(t, h)
  PROVE  CountInv'
<1>0. /\ PtrTypeOK /\ CountIsHolders /\ OnlyLive /\ Separate /\ NothingLeaks
      /\ \A u \in Thread : Placed(u) /\ Alone(u)
      /\ Null \notin Object /\ None \notin Handle /\ Handle \cap Thread = {}
      /\ Unmade \notin Object \cup {Null}
  BY AutoPtrAssumption DEF CountInv
<1>a. PICK old \in Object \cup {Null} : ptr[h] = old
  BY <1>0 DEF DestroyPtr, PtrTypeOK
<1> DEFINE s == IF old = Null THEN Idle ELSE Step("releasing", None, None, old)
<1>1. /\ thread[t] = Idle /\ Goto(t, s) /\ Moves(t, s)
      /\ ptr' = [ptr EXCEPT ![h] = Unmade]
      /\ ptr'[h] = Unmade /\ \A k \in Handle \ {h} : ptr'[k] = ptr[k]
      /\ \A u \in Thread : thread[u].handle # h /\ thread[u].from # h
      /\ noDelete' = noDelete /\ object' = object /\ count' = count /\ touched' = touched
  BY <1>0, <1>a, GotoMoves DEF DestroyPtr, PtrTypeOK, Changing, Reading
<1>2. PtrTypeOK'
  <2>1. s \in [at : Place, handle : Handle \cup {None}, from : Handle \cup {None}, p : Object \cup {Null}]
    BY DEF Idle, Step, Place
  <2> QED
    BY <1>0, <1>1, <2>1 DEF Goto, PtrTypeOK
<1>3. Made(h) /\ ~Made(h)' /\ \A k \in Handle \ {h} : Made(k)' <=> Made(k)
  <2>1. s.at # "copied" /\ thread[t].at # "copied"
    BY <1>1 DEF Idle, Step
  <2> QED
    BY <1>0, <1>a, <1>1, <2>1 DEF Made, Moves
<1>4. /\ \A q \in Object : ~HasCounted(h, q)' /\ (HasCounted(h, q) <=> q = old)
      /\ \A q \in Object, k \in Handle \ {h} : HasCounted(k, q)' <=> HasCounted(k, q)
      /\ \A q \in Object : (Holds(t, q)' <=> q = old) /\ ~Holds(t, q)
      /\ \A q \in Object, u \in Thread \ {t} : Holds(u, q)' <=> Holds(u, q)
  BY <1>0, <1>a, <1>1, <1>3 DEF HasCounted, Holds, Moves, Idle, Step
<1>5. CountIsHolders'
  <2> SUFFICES ASSUME NEW q \in Object PROVE Cardinality(Holders(q)') = Cardinality(Holders(q))
    BY <1>0, <1>1 DEF CountIsHolders
  <2>1. CASE q = old
    <3>1. Holders(q)' = (Holders(q) \ {h}) \cup {t} /\ h \in Holders(q) /\ t \notin Holders(q)
      BY <1>0, <1>4, <2>1 DEF Holders
    <3> QED
      BY <3>1, HoldersFinite, Exchange
  <2>2. CASE q # old
    <3>1. Holders(q)' = Holders(q)
      BY <1>0, <1>4, <2>2 DEF Holders
    <3> QED
      BY <3>1
  <2> QED
    BY <2>1, <2>2
<1>6. \A q \in Object : Refers(q)' <=> Refers(q)
  BY <1>0, <1>a, <1>1 DEF Refers, Moves, Idle, Step
<1>7. OnlyLive' /\ NothingLeaks'
  BY <1>0, <1>1, <1>6 DEF OnlyLive, NothingLeaks, Refers
<1>8. Separate'
  BY <1>0, <1>1 DEF Separate, Moves, Idle, Step
<1>9. \A u \in Thread : Placed(u)'
  <2>1. Placed(t)'
    BY <1>0, <1>a, <1>1 DEF Placed, Moves, Idle, Step
  <2>2. ASSUME NEW u \in Thread \ {t} PROVE Placed(u)'
    BY <1>0, <1>1 DEF Placed, Moves, PtrTypeOK
  <2> QED
    BY <2>1, <2>2
<1>10. \A u \in Thread : Alone(u)'
  <2>1. Alone(t)'
    BY <1>1 DEF Alone, Unshared, Moves, Idle, Step
  <2>2. ASSUME NEW u \in Thread \ {t} PROVE Alone(u)'
    <3> SUFFICES ASSUME Unshared(u), ~noDelete[thread[u].p]
                 PROVE  s.p # thread[u].p /\ Unmade # thread[u].p
      BY <1>0, <1>1 DEF Alone, Unshared, Moves
    <3>1. thread[u].p \in Object /\ thread[u].handle # h
      BY <1>0, <1>1 DEF Placed, Unshared
    <3> QED
      BY <1>0, <1>a, <1>1, <3>1 DEF Alone, Idle, Step
  <2> QED
    BY <2>1, <2>2
<1> QED
  BY <1>2, <1>5, <1>7, <1>8, <1>9, <1>10 DEF CountInv

LEMMA SwapStep ==
  ASSUME CountInv, NEW t \in Thread, NEW h \in Handle, NEW r \in Handle, SwapPtrs(t, h, r)
  PROVE  CountInv'
<1>0. /\ PtrTypeOK /\ CountIsHolders /\ OnlyLive /\ Separate /\ NothingLeaks
      /\ \A u \in Thread : Placed(u) /\ Alone(u)
      /\ Null \notin Object /\ None \notin Handle /\ Handle \cap Thread = {}
      /\ Unmade \notin Object \cup {Null}
  BY AutoPtrAssumption DEF CountInv
<1>1. /\ thread' = thread /\ h # r /\ ptr[h] # Unmade /\ ptr[r] # Unmade
      /\ ptr'[h] = ptr[r] /\ ptr'[r] = ptr[h]
      /\ \A k \in Handle \ {h, r} : ptr'[k] = ptr[k]
      /\ \A u \in Thread : {thread[u].handle, thread[u].from} \cap {h, r} = {}
      /\ noDelete' = noDelete /\ object' = object /\ count' = count /\ touched' = touched
  BY <1>0 DEF SwapPtrs, PtrTypeOK, Changing, Reading
<1>2. PtrTypeOK'
  BY <1>0, <1>1 DEF SwapPtrs, PtrTypeOK
<1>3. CountIsHolders'
  <2>1. \A k \in Handle : Made(k)' <=> Made(k)
    BY <1>1 DEF Made
  <2>2. Made(h) /\ Made(r)
    BY <1>1 DEF Made
  <2> SUFFICES ASSUME NEW q \in Object PROVE Cardinality(Holders(q)') = Cardinality(Holders(q))
    BY <1>0, <1>1 DEF CountIsHolders
  <2>3. \A u \in Thread : Holds(u, q)' <=> Holds(u, q)
    BY <1>1 DEF Holds
  <2>4. /\ \A k \in Handle \ {h, r} : HasCounted(k, q)' <=> HasCounted(k, q)
        /\ HasCounted(h, q)' <=> HasCounted(r, q)
        /\ HasCounted(r, q)' <=> HasCounted(h, q)
        /\ HasCounted(h, q) <=> ptr[h] = q
        /\ HasCounted(r, q) <=> ptr[r] = q
    BY <1>1, <2>1, <2>2 DEF HasCounted
  <2>5. CASE ptr[h] = q /\ ptr[r] # q
    <3>1. Holders(q)' = (Holders(q) \ {h}) \cup {r} /\ h \in Holders(q) /\ r \notin Holders(q)
      BY <1>0, <1>1, <2>3, <2>4, <2>5 DEF Holders
    <3> QED
      BY <3>1, HoldersFinite, Exchange
  <2>6. CASE ptr[h] # q /\ ptr[r] = q
    <3>1. Holders(q)' = (Holders(q) \ {r}) \cup {h} /\ r \in Holders(q) /\ h \notin Holders(q)
      BY <1>0, <1>1, <2>3, <2>4, <2>6 DEF Holders
    <3> QED
      BY <3>1, HoldersFinite, Exchange
  <2>7. CASE ptr[h] = q <=> ptr[r] = q
    <3>1. Holders(q)' = Holders(q)
      BY <1>0, <1>1, <2>3, <2>4, <2>7 DEF Holders
    <3> QED
      BY <3>1
  <2> QED
    BY <2>5, <2>6, <2>7
<1>4. \A q \in Object : Refers(q)' <=> Refers(q)
  BY <1>0, <1>1 DEF Refers
<1>5. OnlyLive' /\ NothingLeaks' /\ Separate'
  <2>1. OnlyLive'
    BY <1>0, <1>1, <1>4 DEF OnlyLive
  <2>2. NothingLeaks'
    BY <1>0, <1>1, <1>4 DEF NothingLeaks, Refers
  <2>3. Separate'
    BY <1>0, <1>1 DEF Separate
  <2> QED
    BY <2>1, <2>2, <2>3
<1>6. \A u \in Thread : Placed(u)'
  <2> SUFFICES ASSUME NEW u \in Thread PROVE Placed(u)'
    OBVIOUS
  <2>1. \A k \in Handle : k \in {thread[u].handle, thread[u].from} => ptr'[k] = ptr[k]
    BY <1>1
  <2>2. thread'[u] = thread[u] /\ Placed(u)
    BY <1>0, <1>1
  <2>3. thread[u].from \in Handle \cup {None}
    BY <1>0 DEF PtrTypeOK
  <2>4. /\ thread[u].at \in {"copied", "assigning", "counted"} =>
             ptr'[thread[u].handle] = ptr[thread[u].handle]
        /\ thread[u].from # None => ptr'[thread[u].from] = ptr[thread[u].from]
    BY <2>1, <2>2, <2>3 DEF Placed
  <2> QED
    BY <2>2, <2>4 DEF Placed
<1>7. \A u \in Thread : Alone(u)'
  <2> SUFFICES ASSUME NEW u \in Thread, Unshared(u), ~noDelete[thread[u].p]
               PROVE  Alone(u)'
    BY <1>1 DEF Alone, Unshared
  <2>1. /\ \A v \in Thread \ {u} : thread[v].p # thread[u].p
        /\ \A k \in Handle : ptr[k] = thread[u].p => thread[u].at = "copied" /\ k = thread[u].handle
    BY <1>0 DEF Alone
  <2>2. thread[u].handle \notin {h, r}
    BY <1>1
  <2>3. ptr[h] # thread[u].p /\ ptr[r] # thread[u].p
    BY <1>0, <2>1, <2>2
  <2> QED
    BY <1>1, <2>1, <2>3 DEF Alone
<1> QED
  BY <1>2, <1>3, <1>5, <1>6, <1>7 DEF CountInv

LEMMA SetNoDeleteStep ==
  ASSUME CountInv, NEW t \in Thread, NEW h \in Handle, SetNoDelete(t, h)
  PROVE  CountInv'
<1>0. /\ PtrTypeOK /\ CountIsHolders /\ OnlyLive /\ Separate /\ NothingLeaks
      /\ \A u \in Thread : Placed(u) /\ Alone(u)
  BY DEF CountInv
<1>1. /\ ptr' = ptr /\ thread' = thread /\ object' = object /\ count' = count /\ touched' = touched
      /\ noDelete' = [noDelete EXCEPT ![ptr[h]] = TRUE]
      /\ \A o \in Object : noDelete[o] => noDelete'[o]
  BY <1>0 DEF SetNoDelete, PtrTypeOK
<1>2. PtrTypeOK'
  BY <1>0, <1>1 DEF PtrTypeOK
<1>3. CountIsHolders' /\ OnlyLive' /\ Separate' /\ NothingLeaks'
  BY <1>0, <1>1 DEF CountIsHolders, Holders, HasCounted, Made, Holds, OnlyLive, Refers, Separate,
                    NothingLeaks
<1>4. \A u \in Thread : Placed(u)'
  BY <1>0, <1>1 DEF Placed
<1>5. ASSUME NEW u \in Thread PROVE Alone(u)'
  <2> SUFFICES ASSUME Unshared(u), ~noDelete'[thread[u].p] PROVE Alone(u) /\ ~noDelete[thread[u].p]
    BY <1>1 DEF Alone, Unshared
  <2>1. thread[u].p \in Object
    BY <1>0 DEF Placed, Unshared
  <2> QED
    BY <1>0, <1>1, <2>1
<1> QED
  BY <1>2, <1>3, <1>4, <1>5 DEF CountInv

\* Whoever brings the count to zero finds nobody else near the object.
LEMMA DecRefStep ==
  ASSUME CountInv, NEW t \in Thread, DecRef(t)
  PROVE  CountInv'
<1>0. /\ PtrTypeOK /\ CountIsHolders /\ OnlyLive /\ Separate /\ NothingLeaks
      /\ \A u \in Thread : Placed(u) /\ Alone(u)
      /\ Null \notin Object /\ None \notin Handle /\ Handle \cap Thread = {}
  BY AutoPtrAssumption DEF CountInv
<1>a. PICK p \in Object : thread[t] = Step("releasing", None, None, p)
  BY <1>0 DEF DecRef, Placed
<1> DEFINE s == IF count[p] = 1 THEN Step("zero", None, None, p) ELSE Idle
<1>1. /\ thread[t].at = "releasing" /\ thread[t].p = p /\ thread[t].handle = None
      /\ ptr' = ptr /\ noDelete' = noDelete /\ object' = object
      /\ count' = [count EXCEPT ![p] = count[p] - 1]
      /\ Goto(t, s) /\ Moves(t, s)
  <2>1. Goto(t, s)
    BY <1>a DEF DecRef, Step
  <2> QED
    BY <1>0, <1>a, <2>1, GotoMoves DEF DecRef, Step
<1>2. touched' = {}
  BY <1>0, <1>a, <1>1, UsesLive DEF DecRef, Refers
<1>3. /\ Holders(p)' = Holders(p) \ {t} /\ t \in Holders(p)
      /\ \A q \in Object \ {p} : Holders(q)' = Holders(q)
  <2>1. /\ \A q \in Object, k \in Handle : HasCounted(k, q)' <=> HasCounted(k, q)
        /\ \A q \in Object : ~Holds(t, q)' /\ (Holds(t, q) <=> q = p)
        /\ \A q \in Object, u \in Thread \ {t} : Holds(u, q)' <=> Holds(u, q)
    BY <1>0, <1>1 DEF HasCounted, Made, Holds, Moves, Idle, Step
  <2> QED
    BY <1>0, <2>1 DEF Holders
<1>4. count[p] = Cardinality(Holders(p)) /\ Cardinality(Holders(p)') = count[p] - 1
      /\ count[p] - 1 \in Nat
  <2>1. count[p] = Cardinality(Holders(p))
    BY <1>0 DEF CountIsHolders
  <2>2. /\ IsFiniteSet(Holders(p) \ {t})
        /\ Cardinality(Holders(p) \ {t}) = Cardinality(Holders(p)) - 1
    BY <1>3, HoldersFinite, FS_RemoveElement
  <2>3. Cardinality(Holders(p) \ {t}) \in Nat
    BY <2>2, FS_CardinalityType
  <2> QED
    BY <1>3, <2>1, <2>2, <2>3
<1>5. CountIsHolders'
  BY <1>0, <1>1, <1>3, <1>4 DEF CountIsHolders, PtrTypeOK
<1>6. PtrTypeOK'
  <2>1. s \in [at : Place, handle : Handle \cup {None}, from : Handle \cup {None}, p : Object \cup {Null}]
    BY DEF Idle, Step, Place
  <2>2. count' \in [Object -> Nat]
    BY <1>0, <1>1, <1>4 DEF PtrTypeOK
  <2> QED
    BY <1>0, <1>1, <1>2, <2>1, <2>2 DEF Goto, PtrTypeOK
<1>7. \A q \in Object : (Refers(q)' => Refers(q)) /\ (q # p /\ Refers(q) => Refers(q)')
  <2>1. thread[t].p = p /\ thread'[t].p \in {p, Null} /\ ptr' = ptr
    BY <1>0, <1>1 DEF Moves, Idle, Step
  <2>2. \A u \in Thread \ {t} : thread'[u].p = thread[u].p
    BY <1>1 DEF Moves
  <2> QED
    BY <1>0, <2>1, <2>2 DEF Refers
<1>8. OnlyLive'
  BY <1>0, <1>1, <1>2, <1>7 DEF OnlyLive
<1>9. Refers(p)'
  <2>1. CASE count[p] = 1
    BY <1>1, <2>1 DEF Refers, Moves, Step
  <2>2. CASE count[p] # 1
    <3>1. Holders(p)' # {}
      <4>1. Cardinality(Holders(p)') # 0
        BY <1>0, <1>4, <2>2 DEF PtrTypeOK
      <4> QED
        BY <4>1, FS_EmptySet
    <3>2. PICK x \in Holders(p)' : TRUE
      BY <3>1
    <3>3. (x \in Handle /\ HasCounted(x, p)') \/ (x \in Thread /\ Holds(x, p)')
      BY <3>2 DEF Holders
    <3> QED
      BY <3>3 DEF HasCounted, Holds, Refers
  <2> QED
    BY <2>1, <2>2
<1>10. NothingLeaks'
  BY <1>0, <1>1, <1>7, <1>9 DEF NothingLeaks, Refers
<1>11. s.handle = None /\ s.from = None /\ s.p \in {p, Null}
  BY DEF Idle, Step
<1>12. Separate'
  BY <1>0, <1>1, <1>11 DEF Separate, Moves
<1>13. \A u \in Thread : Placed(u)'
  <2>1. Placed(t)'
    BY <1>1 DEF Placed, Moves, Idle, Step
  <2>2. \A u \in Thread \ {t} : Placed(u)'
    BY <1>0, <1>1 DEF Placed, Moves
  <2> QED
    BY <2>1, <2>2
<1>14. ASSUME NEW u \in Thread \ {t} PROVE Alone(u)'
  <2> SUFFICES ASSUME Unshared(u), ~noDelete[thread[u].p] PROVE s.p # thread[u].p /\ Alone(u)
    BY <1>0, <1>1 DEF Alone, Unshared, Moves
  <2>1. thread[u].p \in Object
    BY <1>0 DEF Placed, Unshared
  <2> QED
    BY <1>0, <1>1, <1>11, <2>1 DEF Alone
<1>15. Alone(t)'
  <2> SUFFICES ASSUME count[p] = 1, ~noDelete[p]
               PROVE  /\ \A u \in Thread \ {t} : thread[u].p # p
                      /\ \A h \in Handle : ptr[h] # p
    BY <1>1 DEF Alone, Unshared, Moves, Idle, Step
  <2>1. Holders(p)' = {}
    <3>1. IsFiniteSet(Holders(p) \ {t})
      BY HoldersFinite, FS_RemoveElement
    <3>2. Cardinality(Holders(p) \ {t}) = 0
      BY <1>3, <1>4
    <3> QED
      BY <1>3, <3>1, <3>2, FS_EmptySet
  <2>2. /\ \A u \in Thread \ {t} : ~Holds(u, p)
        /\ \A h \in Handle : ~HasCounted(h, p)
    <3>1. Holders(p) \ {t} = {}
      BY <1>3, <2>1
    <3> QED
      BY <1>0, <3>1 DEF Holders
  <2>3. ASSUME NEW u \in Thread \ {t}, thread[u].p = p PROVE FALSE
    <3>1. thread[u].at \in {"copied", "assigning", "zero"}
      BY <1>0, <2>2, <2>3 DEF Holds, Placed, Idle, Step, PtrTypeOK, Place
    <3>2. ~Unshared(u)
      BY <1>0, <1>1, <2>3 DEF Alone
    <3>3. /\ thread[u].from # None /\ ptr[thread[u].from] = p
          /\ thread[u].from # thread[u].handle /\ thread[u].handle # None
      BY <1>0, <2>3, <3>1, <3>2 DEF Unshared, Placed
    <3>4. thread[u].from \in Handle
      BY <1>0, <3>3 DEF PtrTypeOK
    <3>5. Made(thread[u].from)
      <4>1. \A v \in Thread : thread[v].handle # thread[u].from
        BY <1>0, <3>3, <3>4 DEF Separate
      <4>2. p # Unmade
        BY AutoPtrAssumption
      <4> QED
        BY <3>3, <4>1, <4>2 DEF Made
    <3> QED
      BY <2>2, <3>3, <3>4, <3>5 DEF HasCounted
  <2>4. ASSUME NEW h \in Handle, ptr[h] = p PROVE FALSE
    <3>1. ~Made(h)
      BY <2>2, <2>4 DEF HasCounted
    <3>2. PICK u \in Thread : thread[u].at = "copied" /\ thread[u].handle = h
      BY <2>4, <3>1, AutoPtrAssumption DEF Made
    <3>3. thread[u].p = p /\ u # t
      BY <1>0, <1>1, <2>4, <3>2 DEF Placed
    <3> QED
      BY <2>3, <3>3
  <2> QED
    BY <2>3, <2>4
<1> QED
  BY <1>5, <1>6, <1>8, <1>10, <1>12, <1>13, <1>14, <1>15 DEF CountInv

LEMMA DeleteStep ==
  ASSUME CountInv, NEW t \in Thread, Delete(t)
  PROVE  CountInv'
<1>0. /\ PtrTypeOK /\ CountIsHolders /\ OnlyLive /\ Separate /\ NothingLeaks
      /\ \A u \in Thread : Placed(u) /\ Alone(u)
      /\ Null \notin Object /\ None \notin Handle
  BY AutoPtrAssumption DEF CountInv
<1>a. PICK p \in Object : thread[t] = Step("zero", None, None, p)
  BY <1>0 DEF Delete, Placed
<1>1. /\ thread[t].at = "zero" /\ thread[t].p = p
      /\ ptr' = ptr /\ count' = count /\ Goto(t, Idle) /\ Moves(t, Idle)
  BY <1>0, <1>a, GotoMoves DEF Delete, Step
<1>2. touched' = {}
  BY <1>0, <1>a, <1>1, UsesLive DEF Delete, Refers
<1>3. /\ noDelete' \in [Object -> BOOLEAN] /\ object' \in [Object -> {"unborn", "live", "deleted"}]
      /\ noDelete'[p] /\ \A q \in Object \ {p} : noDelete'[q] = noDelete[q] /\ object'[q] = object[q]
      /\ noDelete[p] => object'[p] = object[p]
  <2>1. /\ noDelete \in [Object -> BOOLEAN]
        /\ object \in [Object -> {"unborn", "live", "deleted"}]
    BY <1>0 DEF PtrTypeOK
  <2>2. CASE noDelete[p]
    BY <1>1, <2>1, <2>2 DEF Delete
  <2>3. CASE ~noDelete[p]
    <3>1. /\ noDelete' = [noDelete EXCEPT ![p] = TRUE]
          /\ object' = [object EXCEPT ![p] = "deleted"]
      BY <1>1, <2>3 DEF Delete
    <3> QED
      BY <2>1, <2>3, <3>1
  <2> QED
    BY <2>2, <2>3
<1>4. PtrTypeOK'
  <2>1. Idle \in [at : Place, handle : Handle \cup {None}, from : Handle \cup {None},
                  p : Object \cup {Null}]
    BY DEF Idle, Step, Place
  <2>2. thread' = [thread EXCEPT ![t] = Idle]
    BY <1>1 DEF Goto
  <2> QED
    BY <1>0, <1>1, <1>2, <1>3, <2>1, <2>2 DEF PtrTypeOK
<1>5. CountIsHolders'
  <2>1. /\ \A q \in Object, k \in Handle : HasCounted(k, q)' <=> HasCounted(k, q)
        /\ \A q \in Object, u \in Thread : Holds(u, q)' <=> Holds(u, q)
    BY <1>0, <1>1 DEF HasCounted, Made, Holds, Moves, Idle, Step
  <2>2. \A q \in Object : Holders(q)' = Holders(q)
    BY <2>1 DEF Holders
  <2> QED
    BY <1>0, <1>1, <2>2 DEF CountIsHolders
<1>6. \A q \in Object : (Refers(q)' => Refers(q)) /\ (q # p /\ Refers(q) => Refers(q)')
  BY <1>0, <1>1 DEF Refers, Moves, Idle, Step
<1>7. ~noDelete[p] => ~Refers(p)'
  BY <1>0, <1>1 DEF Alone, Unshared, Refers, Moves, Idle, Step
<1>8. OnlyLive'
  BY <1>0, <1>2, <1>3, <1>6, <1>7 DEF OnlyLive
<1>9. NothingLeaks'
  BY <1>0, <1>3, <1>6 DEF NothingLeaks, Refers
<1>10. Separate'
  BY <1>0, <1>1 DEF Separate, Moves, Idle, Step
<1>11. \A u \in Thread : Placed(u)'
  BY <1>0, <1>1 DEF Placed, Moves, Idle, Step
<1>12. ASSUME NEW u \in Thread PROVE Alone(u)'
  <2>1. CASE u = t
    BY <1>1, <2>1 DEF Alone, Unshared, Moves, Idle, Step
  <2>2. CASE u # t
    <3> SUFFICES ASSUME Unshared(u), ~noDelete'[thread[u].p]
                 PROVE  Alone(u) /\ ~noDelete[thread[u].p] /\ thread[u].p # Null
      BY <1>0, <1>1, <2>2 DEF Alone, Unshared, Moves, Idle, Step
    <3>1. thread[u].p \in Object
      BY <1>0 DEF Placed, Unshared
    <3> QED
      BY <1>0, <1>3, <3>1
  <2> QED
    BY <2>1, <2>2
<1> QED
  BY <1>4, <1>5, <1>8, <1>9, <1>10, <1>11, <1>12 DEF CountInv

-----------------------------------------------------------------------------
LEMMA CountInit == PtrInit => CountInv
<1> SUFFICES ASSUME PtrInit PROVE CountInv
  OBVIOUS
<1>0. /\ Null \notin Object /\ None \notin Handle /\ Unmade \notin Object \cup {Null}
  BY AutoPtrAssumption
<1>1. PtrTypeOK
  BY DEF PtrInit, PtrTypeOK, Idle, Step, Place
<1>2. \A t \in Thread : Placed(t) /\ Alone(t)
  BY DEF PtrInit, Placed, Alone, Unshared, Idle, Step
<1>3. OnlyLive /\ Separate /\ NothingLeaks
  BY <1>0 DEF PtrInit, OnlyLive, Refers, Separate, NothingLeaks, Idle, Step
<1>4. CountIsHolders
  <2>1. \A o \in Object : Holders(o) = {}
    BY <1>0 DEF PtrInit, Holders, HasCounted, Holds, Idle, Step
  <2> QED
    BY <2>1, FS_EmptySet DEF PtrInit, CountIsHolders
<1> QED
  BY <1>1, <1>2, <1>3, <1>4 DEF CountInv

LEMMA CountNext == CountInv /\ [PtrNext]_ptrVars => CountInv'
<1> SUFFICES ASSUME CountInv, [PtrNext]_ptrVars PROVE CountInv'
  OBVIOUS
<1>1. CASE PtrNext
  BY <1>1, ConstructStep, CopyConstructStep, AssignStep, IncRefStep, ReplaceStep, DestroyStep,
     SwapStep, SetNoDeleteStep, DecRefStep, DeleteStep DEF PtrNext
<1>2. CASE UNCHANGED ptrVars
  BY <1>2 DEF ptrVars, CountInv, PtrTypeOK, CountIsHolders, Holders, HasCounted, Made, Holds, OnlyLive,
              Refers, Separate, NothingLeaks, Placed, Alone, Unshared
<1> QED
  BY <1>1, <1>2

\* The inductive invariant holds in every state.
THEOREM CountCorrect == PtrSpec => []CountInv
<1>1. PtrInit => CountInv
  BY CountInit
<1>2. CountInv /\ [PtrNext]_ptrVars => CountInv'
  BY CountNext
<1> QED
  BY <1>1, <1>2, PTL DEF PtrSpec

\* Of clients that share no handle between threads, in any interleaving of their
\* operations: an object's count is the number of references to it, what was
\* deleted is never used or reached again, and what no reference leads to has been
\* deleted or is being deleted (incRef, decRef, operator=, swap, the destructor).
THEOREM ObjectsDieWithTheirLastReference == PtrSpec => []PtrInv
<1>1. CountInv => DeletedIsForgotten
  BY DEF CountInv, OnlyLive, Refers, DeletedIsForgotten
<1>2. CountInv => PtrInv
  BY <1>1 DEF CountInv, PtrInv
<1> QED
  BY <1>2, CountCorrect, PTL

-----------------------------------------------------------------------------
(* Holders of Java references. *)

Entry == [kind : {"local", "global"}, thread : JavaThread, object : JavaObject]

\* What a thread may rely on when it uses a local holder: it was made here, its
\* environment is this thread's or none yet, and its reference is this thread's.
AtHome ==
  \A h \in Local :
    /\ h \in made => home[h] \in JavaThread /\ env[h] \in {Nothing, home[h]}
    /\ obj[h] # Nothing => ref[obj[h]].thread = home[h]

\* What the client holds is there.
RawIsThere == \A s \in raw : ref[s] # Free

RefIInv == RefInv /\ AtHome /\ RawIsThere

-----------------------------------------------------------------------------
\* What a thread may use is valid there.
LEMMA UsableIsValid ==
  ASSUME RefIInv, NEW t \in JavaThread, NEW h \in Holder, Usable(t, h), obj[h] # Nothing
  PROVE  obj[h] \in Slot /\ ref[obj[h]] \in Entry /\ Valid(t, obj[h], ref)
<1>1. obj[h] \in Slot /\ ref[obj[h]] \in {Free} \cup Entry
  BY DEF RefIInv, RefInv, RefTypeOK, Entry
<1>2. ref[obj[h]] # Free /\ ref[obj[h]].kind = Kind(h)
  BY <1>1 DEF RefIInv, RefInv, OneOwner, Owns
<1>3. CASE h \in Local
  BY <1>1, <1>2, <1>3 DEF RefIInv, AtHome, Usable, Valid
<1>4. CASE h \notin Local
  BY <1>1, <1>2, <1>4 DEF Kind, Valid
<1> QED
  BY <1>1, <1>2, <1>3, <1>4

LEMMA UnmadeIsEmpty ==
  ASSUME RefIInv, NEW h \in Holder, h \notin made
  PROVE  obj[h] = Nothing
BY DEF RefIInv, RefInv, RefTypeOK, OneOwner, Owns

\* Thread t gives holder h the new reference n, or none, and deletes the one it had.
Renewed(t, h, n) ==
  /\ n \in Slot \cup {Nothing}
  /\ n # Nothing => ref[n] = Free /\ ref'[n] \in Entry
                    /\ ref'[n].kind = Kind(h) /\ ref'[n].thread = t
  /\ obj[h] # Nothing => ref'[obj[h]] = Free
  /\ \A s \in Slot \ {n, obj[h]} : ref'[s] = ref[s]
  /\ ref' \in [Slot -> {Free} \cup Entry]
  /\ obj' = [obj EXCEPT ![h] = n]

LEMMA SetNewRefRenews ==
  ASSUME RefIInv, NEW t \in JavaThread, NEW h \in Holder, NEW s \in Slot \cup {Nothing},
         s # Nothing => Valid(t, s, ref),
         obj[h] # Nothing => Valid(t, obj[h], ref),
         SetNewRef(t, h, s)
  PROVE  /\ misused' = {}
         /\ \E n : Renewed(t, h, n) /\ (s = Nothing => n = Nothing)
<1>0. /\ misused = {} /\ ref \in [Slot -> {Free} \cup Entry] /\ obj[h] \in Slot \cup {Nothing}
      /\ Nothing \notin Slot /\ Kind(h) \in {"local", "global"}
  BY HoldersAssumption DEF RefIInv, RefInv, RefTypeOK, NeverMisused, Entry, Kind
<1>1. PICK n \in Fresh(s, ref) :
        /\ Check(t, {s, obj[h]}, ref)
        /\ ref' = DeleteRef(obj[h], NewRef(t, Kind(h), s, n, ref))
        /\ obj' = [obj EXCEPT ![h] = n]
  BY DEF SetNewRef
<1>2. misused' = {}
  BY <1>0, <1>1 DEF Check
<1>3. CASE n = Nothing
  <2>1. ref' = DeleteRef(obj[h], ref)
    BY <1>1, <1>3 DEF NewRef
  <2>2. Renewed(t, h, Nothing)
    <3>1. CASE obj[h] = Nothing
      BY <1>0, <1>1, <1>3, <2>1, <3>1 DEF DeleteRef, Renewed
    <3>2. CASE obj[h] # Nothing
      <4>1. ref' = [ref EXCEPT ![obj[h]] = Free] /\ obj[h] \in Slot
        BY <1>0, <2>1, <3>2 DEF DeleteRef
      <4> QED
        BY <1>0, <1>1, <1>3, <4>1 DEF Renewed
    <3> QED
      BY <3>1, <3>2
  <2> QED
    BY <1>2, <2>2
<1>4. CASE n # Nothing
  <2>1. n \in Slot /\ ref[n] = Free /\ s \in Slot /\ ref[s] \in Entry
    BY <1>0, <1>1, <1>4 DEF Fresh, Valid
  <2> DEFINE e == [kind |-> Kind(h), thread |-> t, object |-> ref[s].object]
  <2>2. e \in Entry /\ e.kind = Kind(h) /\ e.thread = t
    BY <1>0, <2>1 DEF Entry
  <2>3. NewRef(t, Kind(h), s, n, ref) = [ref EXCEPT ![n] = e]
    <3>1. ref[s] # Free
      BY <2>1, HoldersAssumption DEF Entry
    <3> QED
      BY <1>4, <3>1 DEF NewRef
  <2> HIDE DEF e
  <2>4. obj[h] # n
    <3>1. obj[h] # Nothing => ref[obj[h]] # Free
      BY DEF Valid
    <3> QED
      BY <2>1, <3>1, <1>4
  <2>5. Renewed(t, h, n)
    <3>1. CASE obj[h] = Nothing
      <4>1. ref' = [ref EXCEPT ![n] = e]
        BY <1>1, <2>3, <3>1 DEF DeleteRef
      <4> QED
        BY <1>0, <1>1, <2>1, <2>2, <3>1, <4>1 DEF Renewed
    <3>2. CASE obj[h] # Nothing
      <4>1. ref' = [[ref EXCEPT ![n] = e] EXCEPT ![obj[h]] = Free]
        BY <1>1, <2>3, <3>2 DEF DeleteRef
      <4>2. obj[h] \in Slot
        BY <1>0, <3>2
      <4>3. ref'[n] = e /\ ref'[obj[h]] = Free /\ \A x \in Slot \ {n, obj[h]} : ref'[x] = ref[x]
        BY <1>0, <2>1, <2>4, <4>1, <4>2
      <4>4. ref' \in [Slot -> {Free} \cup Entry]
        BY <1>0, <2>1, <2>2, <4>1, <4>2
      <4> QED
        BY <1>1, <2>1, <2>2, <4>3, <4>4 DEF Renewed
    <3> QED
      BY <3>1, <3>2
  <2> QED
    BY <1>0, <1>2, <2>1, <2>5
<1> QED
  BY <1>3, <1>4

\* Giving up a reference: the same, with none in its place.
LEMMA ResetRefRenews ==
  ASSUME RefIInv, NEW t \in JavaThread, NEW h \in Holder, Usable(t, h), ResetRef(t, h)
  PROVE  misused' = {} /\ Renewed(t, h, Nothing)
<1>0. /\ misused = {} /\ ref \in [Slot -> {Free} \cup Entry] /\ obj[h] \in Slot \cup {Nothing}
      /\ Nothing \notin Slot
  BY HoldersAssumption DEF RefIInv, RefInv, RefTypeOK, NeverMisused, Entry
<1>1. misused' = {}
  BY <1>0, UsableIsValid DEF ResetRef, Check
<1>2. ref' = DeleteRef(obj[h], ref) /\ obj' = [obj EXCEPT ![h] = Nothing]
  BY DEF ResetRef
<1>3. CASE obj[h] = Nothing
  BY <1>0, <1>1, <1>2, <1>3 DEF DeleteRef, Renewed
<1>4. CASE obj[h] # Nothing
  <2>1. ref' = [ref EXCEPT ![obj[h]] = Free] /\ obj[h] \in Slot
    BY <1>0, <1>2, <1>4 DEF DeleteRef
  <2> QED
    BY <1>0, <1>1, <1>2, <2>1 DEF Renewed
<1> QED
  BY <1>3, <1>4

\* Renewing a reference leaves every reference one owner.
LEMMA RenewKeepsOwners ==
  ASSUME RefIInv, NEW t \in JavaThread, NEW h \in Holder, NEW n, Renewed(t, h, n),
         raw' = raw,
         h \in made' \/ n = Nothing, made \ {h} \subseteq made'
  PROVE  OneOwner'
<1>0. /\ obj \in [Holder -> Slot \cup {Nothing}] /\ ref \in [Slot -> {Free} \cup Entry]
      /\ OneOwner /\ Nothing \notin Slot /\ Free \notin Entry
  BY HoldersAssumption DEF RefIInv, RefInv, RefTypeOK, Entry
<1>1. /\ obj'[h] = n /\ \A k \in Holder \ {h} : obj'[k] = obj[k]
      /\ n # Nothing => n \in Slot
  BY <1>0 DEF Renewed
<1>2. n # Nothing => n # obj[h] /\ n \notin raw /\ \A k \in Holder : obj[k] # n
  <2>1. HAVE n # Nothing
  <2>2. n \in Slot /\ ref[n] = Free
    BY <2>1, <1>1 DEF Renewed
  <2>3. \A k \in Holder : obj[k] # n
    BY <1>0, <2>2 DEF OneOwner, Owns
  <2> QED
    BY <1>0, <2>2, <2>3 DEF RefIInv, RefInv, RefTypeOK, RawIsThere
<1>3. \A s \in Slot \ {n} : ref'[s] # Free => ref'[s] = ref[s] /\ s # obj[h]
  BY <1>0 DEF Renewed
<1>4. \A s \in Slot : ref'[s] # Free => s \in raw' \/ \E k \in made' : Owns(k, s)'
  <2> SUFFICES ASSUME NEW s \in Slot, ref'[s] # Free, s \notin raw
               PROVE  \E k \in made' : obj'[k] = s
    BY DEF Owns
  <2>1. CASE s = n
    BY <1>0, <1>1, <2>1
  <2>2. CASE s # n
    <3>1. PICK k \in made : obj[k] = s
      BY <1>0, <1>3, <2>2 DEF OneOwner, Owns
    <3>2. k # h /\ k \in Holder
      BY <1>3, <2>2, <3>1 DEF RefIInv, RefInv, RefTypeOK
    <3> QED
      BY <1>1, <3>1, <3>2
  <2> QED
    BY <2>1, <2>2
<1>5. ASSUME NEW s \in Slot, NEW k \in Holder, obj'[k] = s
      PROVE  /\ k \in made' /\ ref'[s] # Free /\ s \notin raw' /\ ref'[s].kind = Kind(k)
             /\ \A j \in Holder : obj'[j] = s => j = k
  <2>1. CASE k = h
    <3>1. s = n /\ n # Nothing
      BY <1>0, <1>1, <1>5, <2>1
    <3>2. ref'[s] \in Entry /\ ref'[s].kind = Kind(h)
      BY <3>1 DEF Renewed
    <3> QED
      BY <1>0, <1>1, <1>2, <2>1, <3>1, <3>2
  <2>2. CASE k # h
    <3>1. obj[k] = s /\ s # n
      BY <1>1, <1>2, <1>5, <2>2, <1>0
    <3>2. /\ k \in made /\ ref[s] # Free /\ s \notin raw /\ ref[s].kind = Kind(k)
          /\ \A j \in Holder : obj[j] = s => j = k
      BY <1>0, <3>1 DEF OneOwner, Owns
    <3>3. ref'[s] = ref[s]
      BY <2>2, <3>1, <3>2 DEF Renewed
    <3> QED
      BY <1>0, <1>1, <2>2, <3>1, <3>2, <3>3
  <2> QED
    BY <2>1, <2>2
<1> QED
  BY <1>4, <1>5 DEF OneOwner, Owns

\* It leaves the other holders' references theirs, and the client's there.
LEMMA RenewKeepsOthers ==
  ASSUME RefIInv, NEW t \in JavaThread, NEW h \in Holder, NEW n, Renewed(t, h, n), raw' = raw
  PROVE  /\ RawIsThere'
         /\ \A k \in Holder \ {h} : obj'[k] = obj[k] /\ (obj[k] # Nothing => ref'[obj[k]] = ref[obj[k]])
         /\ obj' \in [Holder -> Slot \cup {Nothing}]
         /\ obj'[h] = n
<1>0. /\ obj \in [Holder -> Slot \cup {Nothing}] /\ ref \in [Slot -> {Free} \cup Entry]
      /\ OneOwner /\ Nothing \notin Slot /\ Free \notin Entry /\ RawIsThere /\ raw \subseteq Slot
  BY HoldersAssumption DEF RefIInv, RefInv, RefTypeOK, Entry
<1>1. obj' \in [Holder -> Slot \cup {Nothing}] /\ obj'[h] = n /\ \A k \in Holder \ {h} : obj'[k] = obj[k]
  BY <1>0 DEF Renewed
<1>2. ASSUME NEW k \in Holder \ {h}, obj[k] # Nothing PROVE ref'[obj[k]] = ref[obj[k]]
  <2>1. obj[k] \in Slot /\ ref[obj[k]] # Free
    BY <1>0, <1>2 DEF OneOwner, Owns
  <2>2. obj[k] # obj[h]
    BY <1>0, <2>1 DEF OneOwner, Owns
  <2>3. obj[k] # n
    BY <1>0, <2>1 DEF Renewed
  <2> QED
    BY <2>1, <2>2, <2>3 DEF Renewed
<1>3. RawIsThere'
  <2> SUFFICES ASSUME NEW s \in raw PROVE ref'[s] # Free
    BY DEF RawIsThere
  <2>1. s \in Slot /\ ref[s] # Free
    BY <1>0 DEF RawIsThere
  <2>2. s # obj[h]
    BY <1>0, <2>1 DEF OneOwner, Owns
  <2>3. CASE s = n
    BY <1>0, <2>1, <2>3 DEF Renewed
  <2>4. CASE s # n
    BY <2>1, <2>2, <2>4 DEF Renewed
  <2> QED
    BY <2>3, <2>4
<1> QED
  BY <1>1, <1>2, <1>3

\* A step that renews one holder's reference keeps the invariant if it leaves the
\* holder at home.
LEMMA RenewKeeps ==
  ASSUME RefIInv, NEW t \in JavaThread, NEW h \in Holder, NEW n, Renewed(t, h, n),
         misused' = {}, raw' = raw,
         h \in made' \/ n = Nothing, made \ {h} \subseteq made', made' \subseteq made \cup {h},
         home' \in [Local -> JavaThread \cup {Nothing}], env' \in [Local -> JavaThread \cup {Nothing}],
         \A k \in Local \ {h} : home'[k] = home[k] /\ env'[k] = env[k],
         h \in Local /\ h \in made' => home'[h] = t /\ env'[h] \in {Nothing, t},
         h \in Local /\ n # Nothing => env'[h] = t
  PROVE  RefIInv'
<1>0. /\ RefTypeOK /\ EnvironmentKnown /\ AtHome /\ OneOwner /\ Nothing \notin Slot
      /\ obj \in [Holder -> Slot \cup {Nothing}] /\ made \subseteq Holder
  BY HoldersAssumption DEF RefIInv, RefInv, RefTypeOK
<1>1. OneOwner'
  BY RenewKeepsOwners
<1>2. /\ RawIsThere'
      /\ \A k \in Holder \ {h} : obj'[k] = obj[k] /\ (obj[k] # Nothing => ref'[obj[k]] = ref[obj[k]])
      /\ obj' \in [Holder -> Slot \cup {Nothing}]
      /\ obj'[h] = n
  BY RenewKeepsOthers
<1>3. RefTypeOK'
  <2>1. ref' \in [Slot -> {Free} \cup Entry]
    BY DEF Renewed
  <2>2. made' \subseteq Holder /\ raw' \subseteq Slot /\ misused' \subseteq Slot
    BY <1>0 DEF RefTypeOK
  <2> QED
    BY <1>2, <2>1, <2>2 DEF RefTypeOK, Entry
<1>4. EnvironmentKnown'
  <2> SUFFICES ASSUME NEW k \in Local, obj'[k] # Nothing PROVE env'[k] = home'[k]
    BY DEF EnvironmentKnown
  <2>1. CASE k = h
    BY <1>2, <2>1
  <2>2. CASE k # h
    BY <1>0, <1>2, <2>2 DEF EnvironmentKnown, Holder
  <2> QED
    BY <2>1, <2>2
<1>5. AtHome'
  <2> SUFFICES ASSUME NEW k \in Local
               PROVE  /\ k \in made' => home'[k] \in JavaThread /\ env'[k] \in {Nothing, home'[k]}
                      /\ obj'[k] # Nothing => ref'[obj'[k]].thread = home'[k]
    BY DEF AtHome
  <2>1. CASE k = h
    <3>1. n # Nothing => ref'[n].thread = t /\ h \in made'
      BY DEF Renewed
    <3> QED
      BY <1>2, <2>1, <3>1
  <2>2. CASE k # h
    <3>1. k \in made' => k \in made
      BY <2>2
    <3> QED
      BY <1>0, <1>2, <2>2, <3>1 DEF AtHome, Holder
  <2> QED
    BY <2>1, <2>2
<1> QED
  BY <1>1, <1>2, <1>3, <1>4, <1>5 DEF RefIInv, RefInv, NeverMisused

-----------------------------------------------------------------------------
(* The steps. *)

LEMMA ObtainStep ==
  ASSUME RefIInv, NEW t \in JavaThread, NEW o \in JavaObject, Obtain(t, o)
  PROVE  RefIInv'
<1>0. /\ RefTypeOK /\ NeverMisused /\ OneOwner /\ EnvironmentKnown /\ AtHome /\ RawIsThere
      /\ ref \in [Slot -> {Free} \cup Entry] /\ Free \notin Entry /\ Nothing \notin Slot
      /\ raw \subseteq Slot /\ obj \in [Holder -> Slot \cup {Nothing}]
  BY HoldersAssumption DEF RefIInv, RefInv, RefTypeOK, Entry
<1>1. PICK n \in Slot : /\ ref[n] = Free
                        /\ ref' = [ref EXCEPT ![n] = [kind |-> "local", thread |-> t, object |-> o]]
                        /\ raw' = raw \cup {n}
  BY DEF Obtain
<1>2. UNCHANGED <<obj, env, home, made, misused>>
  BY DEF Obtain, holderVars
<1>3. ref'[n] \in Entry /\ ref' \in [Slot -> {Free} \cup Entry] /\ \A s \in Slot \ {n} : ref'[s] = ref[s]
  BY <1>0, <1>1 DEF Entry
<1>4. \A h \in Holder : obj[h] # n
  BY <1>0, <1>1 DEF OneOwner, Owns
<1>5. OneOwner'
  BY <1>0, <1>1, <1>2, <1>3, <1>4 DEF OneOwner, Owns
<1>6. RefTypeOK'
  BY <1>0, <1>1, <1>2, <1>3 DEF RefTypeOK, Entry
<1>7. AtHome'
  BY <1>0, <1>2, <1>3, <1>4 DEF AtHome, Holder
<1>8. RawIsThere'
  BY <1>0, <1>1, <1>3 DEF RawIsThere
<1> QED
  BY <1>0, <1>2, <1>5, <1>6, <1>7, <1>8 DEF RefIInv, RefInv, NeverMisused, EnvironmentKnown

LEMMA DeleteRawStep ==
  ASSUME RefIInv, NEW t \in JavaThread, NEW s \in Slot, DeleteRaw(t, s)
  PROVE  RefIInv'
<1>0. /\ RefTypeOK /\ NeverMisused /\ OneOwner /\ EnvironmentKnown /\ AtHome /\ RawIsThere
      /\ ref \in [Slot -> {Free} \cup Entry] /\ Free \notin Entry /\ Nothing \notin Slot
      /\ raw \subseteq Slot /\ obj \in [Holder -> Slot \cup {Nothing}]
  BY HoldersAssumption DEF RefIInv, RefInv, RefTypeOK, Entry
<1>1. s \in raw /\ ref' = [ref EXCEPT ![s] = Free] /\ raw' = raw \ {s}
  BY <1>0 DEF DeleteRaw, DeleteRef
<1>2. UNCHANGED <<obj, env, home, made, misused>>
  BY DEF DeleteRaw, holderVars
<1>3. \A h \in Holder : obj[h] # s
  BY <1>0, <1>1 DEF OneOwner, Owns
<1>4. OneOwner'
  BY <1>0, <1>1, <1>2, <1>3 DEF OneOwner, Owns
<1>5. RefTypeOK'
  BY <1>0, <1>1, <1>2 DEF RefTypeOK, Entry
<1>6. AtHome'
  BY <1>0, <1>1, <1>2, <1>3 DEF AtHome, Holder
<1>7. RawIsThere'
  BY <1>0, <1>1 DEF RawIsThere
<1> QED
  BY <1>0, <1>2, <1>4, <1>5, <1>6, <1>7 DEF RefIInv, RefInv, NeverMisused, EnvironmentKnown

LEMMA AdoptStep ==
  ASSUME RefIInv, NEW t \in JavaThread, NEW h \in Holder, NEW s \in Slot, Adopt(t, h, s)
  PROVE  RefIInv'
<1>0. /\ RefTypeOK /\ NeverMisused /\ OneOwner /\ EnvironmentKnown /\ AtHome /\ RawIsThere
      /\ Nothing \notin Slot /\ made \subseteq Holder /\ raw \subseteq Slot
      /\ obj \in [Holder -> Slot \cup {Nothing}]
      /\ env \in [Local -> JavaThread \cup {Nothing}] /\ home \in [Local -> JavaThread \cup {Nothing}]
  BY HoldersAssumption DEF RefIInv, RefInv, RefTypeOK
<1>1. /\ h \in Local /\ h \notin made /\ made' = made \cup {h}
      /\ home' = [home EXCEPT ![h] = t] /\ env' = [env EXCEPT ![h] = t] /\ obj' = [obj EXCEPT ![h] = s]
      /\ s \in raw /\ raw' = raw \ {s} /\ ref' = ref /\ misused' = misused
  BY DEF Adopt, Make
<1>2. ref[s] # Free /\ ref[s].kind = "local" /\ ref[s].thread = t
  BY DEF Adopt, Valid
<1>3. /\ home'[h] = t /\ env'[h] = t /\ obj'[h] = s
      /\ \A k \in Local \ {h} : home'[k] = home[k] /\ env'[k] = env[k]
      /\ \A k \in Holder \ {h} : obj'[k] = obj[k]
  BY <1>0, <1>1
<1>4. \A k \in Holder : obj[k] # s
  BY <1>0, <1>1 DEF OneOwner, Owns
<1>5. OneOwner'
  <2>1. \A x \in Slot : ref'[x] # Free => x \in raw' \/ \E k \in made' : obj'[k] = x
    <3> SUFFICES ASSUME NEW x \in Slot, ref[x] # Free, x \notin raw'
                 PROVE  \E k \in made' : obj'[k] = x
      BY <1>1
    <3>1. CASE x = s
      BY <1>1, <1>3, <3>1
    <3>2. CASE x # s
      <4>1. PICK k \in made : obj[k] = x
        BY <1>0, <1>1, <3>2 DEF OneOwner, Owns
      <4> QED
        BY <1>0, <1>1, <1>3, <4>1
    <3> QED
      BY <3>1, <3>2
  <2>2. ASSUME NEW x \in Slot, NEW k \in Holder, obj'[k] = x
        PROVE  /\ k \in made' /\ ref'[x] # Free /\ x \notin raw' /\ ref'[x].kind = Kind(k)
               /\ \A j \in Holder : obj'[j] = x => j = k
    <3>1. CASE k = h
      BY <1>1, <1>2, <1>3, <1>4, <2>2, <3>1 DEF Kind
    <3>2. CASE k # h
      BY <1>0, <1>1, <1>3, <1>4, <2>2, <3>2 DEF OneOwner, Owns
    <3> QED
      BY <3>1, <3>2
  <2> QED
    BY <2>1, <2>2 DEF OneOwner, Owns
<1>6. RefTypeOK'
  <2>1. made' \subseteq Holder /\ raw' \subseteq Slot
    BY <1>0, <1>1
  <2>2. /\ obj' \in [Holder -> Slot \cup {Nothing}] /\ env' \in [Local -> JavaThread \cup {Nothing}]
        /\ home' \in [Local -> JavaThread \cup {Nothing}]
    BY <1>0, <1>1
  <2> QED
    BY <1>0, <1>1, <2>1, <2>2 DEF RefTypeOK
<1>7. EnvironmentKnown'
  BY <1>0, <1>3 DEF EnvironmentKnown, Holder
<1>8. AtHome'
  BY <1>0, <1>1, <1>2, <1>3 DEF AtHome, Holder
<1>9. RawIsThere'
  BY <1>0, <1>1 DEF RawIsThere
<1> QED
  BY <1>0, <1>1, <1>5, <1>6, <1>7, <1>8, <1>9 DEF RefIInv, RefInv, NeverMisused

\* What every step that gives a holder a reference of another, or the client's,
\* has in common.
LEMMA RenewStep ==
  ASSUME RefIInv, NEW t \in JavaThread, NEW h \in Holder, NEW s \in Slot \cup {Nothing},
         s # Nothing => Valid(t, s, ref),
         \/ Make(t, h)
         \/ Usable(t, h) /\ UNCHANGED <<home, made>>,
         SetNewRef(t, h, s), raw' = raw,
         env' \in [Local -> JavaThread \cup {Nothing}],
         \A k \in Local \ {h} : env'[k] = env[k],
         h \in Local => env'[h] \in {Nothing, t},
         h \in Local /\ s # Nothing => env'[h] = t
  PROVE  RefIInv'
<1>0. /\ home \in [Local -> JavaThread \cup {Nothing}] /\ Nothing \notin Slot
  BY HoldersAssumption DEF RefIInv, RefInv, RefTypeOK
<1>1. /\ h \in made' /\ made' = made \cup {h}
      /\ home' \in [Local -> JavaThread \cup {Nothing}] /\ \A k \in Local \ {h} : home'[k] = home[k]
      /\ h \in Local => home'[h] = t
  BY <1>0 DEF Make, Usable
<1>2. obj[h] # Nothing => Valid(t, obj[h], ref)
  BY UsableIsValid, UnmadeIsEmpty DEF Make
<1>3. misused' = {} /\ \E n : Renewed(t, h, n) /\ (s = Nothing => n = Nothing)
  BY <1>2, SetNewRefRenews
<1>4. PICK n : Renewed(t, h, n) /\ (s = Nothing => n = Nothing)
  BY <1>3
<1>5. h \in Local /\ n # Nothing => env'[h] = t
  BY <1>4
<1> QED
  BY <1>1, <1>3, <1>4, <1>5, RenewKeeps

\* What a local holder that may be used knows.
LEMMA UsableEnv ==
  ASSUME RefIInv, NEW t \in JavaThread, NEW r \in Local, Usable(t, r)
  PROVE  env[r] \in {Nothing, t} /\ (obj[r] # Nothing => env[r] = t)
<1>1. r \in made /\ home[r] = t /\ r \in Holder
  BY DEF Usable, Holder
<1> QED
  BY <1>1 DEF RefIInv, AtHome, RefInv, EnvironmentKnown

\* Another holder's reference, as the source of a copy.
LEMMA SourceIsValid ==
  ASSUME RefIInv, NEW t \in JavaThread, NEW r \in Holder, Usable(t, r)
  PROVE  obj[r] \in Slot \cup {Nothing} /\ (obj[r] # Nothing => Valid(t, obj[r], ref))
BY UsableIsValid DEF RefIInv, RefInv, RefTypeOK

LEMMA EnvType ==
  ASSUME RefIInv
  PROVE  /\ env \in [Local -> JavaThread \cup {Nothing}] /\ Nothing \notin JavaThread
         /\ Local \subseteq Holder
BY HoldersAssumption DEF RefIInv, RefInv, RefTypeOK, Holder

LEMMA KeepEnv ==
  ASSUME RefIInv, NEW t \in JavaThread, NEW h \in Holder, NEW e \in {Nothing, t}, Keep(t, h, e)
  PROVE  /\ env' \in [Local -> JavaThread \cup {Nothing}] /\ \A k \in Local \ {h} : env'[k] = env[k]
         /\ h \in Local => env'[h] = t
<1>1. CASE h \in Local
  <2>1. env' = [env EXCEPT ![h] = t]
    BY <1>1 DEF Keep
  <2> QED
    BY <1>1, <2>1, EnvType
<1>2. CASE h \notin Local
  BY <1>2, EnvType DEF Keep
<1> QED
  BY <1>1, <1>2

LEMMA CopyRefStep ==
  ASSUME RefIInv, NEW t \in JavaThread, NEW h \in Holder, NEW r \in Holder, CopyConstruct(t, h, r)
  PROVE  RefIInv'
<1>1. /\ h \in Local /\ r \in Local /\ Usable(t, r) /\ Make(t, h) /\ SetNewRef(t, h, obj[r])
      /\ env' = [env EXCEPT ![h] = env[r]] /\ raw' = raw
  BY DEF CopyConstruct
<1>2. env[r] \in {Nothing, t} /\ (obj[r] # Nothing => env[r] = t)
  BY <1>1, UsableEnv
<1>3. env' \in [Local -> JavaThread \cup {Nothing}] /\ env'[h] = env[r]
      /\ \A k \in Local \ {h} : env'[k] = env[k]
  BY <1>1, <1>2, EnvType
<1> QED
  BY <1>1, <1>2, <1>3, SourceIsValid, RenewStep

LEMMA MakeFromRefStep ==
  ASSUME RefIInv, NEW t \in JavaThread, NEW h \in Holder, NEW r \in Holder, ConstructFrom(t, h, r)
  PROVE  RefIInv'
<1>1. Make(t, h) /\ Usable(t, r) /\ SetNewRef(t, h, obj[r]) /\ raw' = raw
  BY DEF ConstructFrom
<1>2. PICK e \in {Nothing, t} : Keep(t, h, e)
  BY UsableEnv DEF ConstructFrom
<1> QED
  BY <1>1, <1>2, KeepEnv, SourceIsValid, RenewStep

LEMMA ResetFromStep ==
  ASSUME RefIInv, NEW t \in JavaThread, NEW h \in Holder, NEW r \in Holder, ResetFrom(t, h, r)
  PROVE  RefIInv'
<1>1. /\ Usable(t, h) /\ Usable(t, r) /\ SetNewRef(t, h, obj[r]) /\ raw' = raw
      /\ UNCHANGED <<home, made>>
  BY DEF ResetFrom
<1>2. EnvOf(h, r) \in {Nothing, t} /\ Keep(t, h, EnvOf(h, r))
  BY UsableEnv DEF ResetFrom, EnvOf
<1> QED
  BY <1>1, <1>2, KeepEnv, SourceIsValid, RenewStep

LEMMA ResetToStep ==
  ASSUME RefIInv, NEW t \in JavaThread, NEW h \in Holder, NEW s \in Slot, ResetTo(t, h, s)
  PROVE  RefIInv'
<1>1. /\ Usable(t, h) /\ Valid(t, s, ref) /\ SetNewRef(t, h, s) /\ raw' = raw
      /\ UNCHANGED <<home, made>> /\ Keep(t, h, t)
  BY DEF ResetTo
<1> QED
  BY <1>1, KeepEnv, RenewStep

LEMMA MakeRefStep ==
  ASSUME RefIInv, NEW t \in JavaThread, NEW h \in Holder, Construct(t, h)
  PROVE  RefIInv'
<1>0. /\ RefTypeOK /\ NeverMisused /\ OneOwner /\ EnvironmentKnown /\ AtHome /\ RawIsThere
      /\ made \subseteq Holder
  BY DEF RefIInv, RefInv, RefTypeOK
<1>1. h \notin made /\ made' = made \cup {h} /\ UNCHANGED <<ref, obj, raw, misused>>
  BY DEF Construct, Make
<1>2. /\ home' \in [Local -> JavaThread \cup {Nothing}] /\ env' \in [Local -> JavaThread \cup {Nothing}]
      /\ \A k \in Local \ {h} : home'[k] = home[k] /\ env'[k] = env[k]
      /\ h \in Local => home'[h] = t /\ env'[h] = Nothing
  BY <1>0 DEF Construct, Make, RefTypeOK
<1>3. obj[h] = Nothing
  BY <1>1, UnmadeIsEmpty
<1>4. RefTypeOK'
  BY <1>0, <1>1, <1>2 DEF RefTypeOK
<1>5. OneOwner'
  BY <1>0, <1>1 DEF OneOwner, Owns
<1>6. EnvironmentKnown'
  BY <1>0, <1>1, <1>2, <1>3 DEF EnvironmentKnown
<1>7. AtHome'
  BY <1>0, <1>1, <1>2, <1>3 DEF AtHome
<1>8. RawIsThere'
  BY <1>0, <1>1 DEF RawIsThere
<1> QED
  BY <1>0, <1>1, <1>4, <1>5, <1>6, <1>7, <1>8 DEF RefIInv, RefInv, NeverMisused

LEMMA ResetStep ==
  ASSUME RefIInv, NEW t \in JavaThread, NEW h \in Holder, Reset(t, h)
  PROVE  RefIInv'
<1>1. Usable(t, h) /\ ResetRef(t, h) /\ UNCHANGED <<env, home, made, raw>>
  BY DEF Reset
<1>2. misused' = {} /\ Renewed(t, h, Nothing)
  BY <1>1, ResetRefRenews
<1>3. home' \in [Local -> JavaThread \cup {Nothing}] /\ env' \in [Local -> JavaThread \cup {Nothing}]
  BY <1>1 DEF RefIInv, RefInv, RefTypeOK
<1>4. h \in Local => home'[h] = t /\ env'[h] \in {Nothing, t}
  BY <1>1, UsableEnv DEF Usable
<1> QED
  BY <1>1, <1>2, <1>3, <1>4, RenewKeeps

LEMMA DestroyRefStep ==
  ASSUME RefIInv, NEW t \in JavaThread, NEW h \in Holder, Destroy(t, h)
  PROVE  RefIInv'
<1>1. /\ Usable(t, h) /\ ResetRef(t, h) /\ UNCHANGED <<env, raw>> /\ made' = made \ {h}
      /\ home' = IF h \in Local THEN [home EXCEPT ![h] = Nothing] ELSE home
  BY DEF Destroy
<1>2. misused' = {} /\ Renewed(t, h, Nothing)
  BY <1>1, ResetRefRenews
<1>3. /\ home' \in [Local -> JavaThread \cup {Nothing}] /\ env' \in [Local -> JavaThread \cup {Nothing}]
      /\ \A k \in Local \ {h} : home'[k] = home[k]
  BY <1>1 DEF RefIInv, RefInv, RefTypeOK
<1> QED
  BY <1>1, <1>2, <1>3, RenewKeeps

LEMMA ReleaseStep ==
  ASSUME RefIInv, NEW t \in JavaThread, NEW h \in Holder, Release(t, h)
  PROVE  RefIInv'
<1>0. /\ RefTypeOK /\ NeverMisused /\ OneOwner /\ EnvironmentKnown /\ AtHome /\ RawIsThere
      /\ obj \in [Holder -> Slot \cup {Nothing}] /\ Nothing \notin Slot /\ Local \subseteq Holder
      /\ raw \subseteq Slot
  BY HoldersAssumption DEF RefIInv, RefInv, RefTypeOK, Holder
<1>1. /\ obj[h] # Nothing /\ raw' = raw \cup {obj[h]} /\ obj' = [obj EXCEPT ![h] = Nothing]
      /\ UNCHANGED <<ref, env, home, made, misused>>
  BY DEF Release
<1>2. obj[h] \in Slot /\ obj'[h] = Nothing /\ \A k \in Holder \ {h} : obj'[k] = obj[k]
  BY <1>0, <1>1
<1>3. ref[obj[h]] # Free /\ \A k \in Holder : obj[k] = obj[h] => k = h
  BY <1>0, <1>2 DEF OneOwner, Owns
<1>4. OneOwner'
  <2>1. \A s \in Slot : ref'[s] # Free => s \in raw' \/ \E k \in made' : obj'[k] = s
    <3> SUFFICES ASSUME NEW s \in Slot, ref[s] # Free, s \notin raw, s # obj[h]
                 PROVE  \E k \in made : obj'[k] = s
      BY <1>1
    <3>1. PICK k \in made : obj[k] = s
      BY <1>0 DEF OneOwner, Owns
    <3> QED
      BY <1>0, <1>2, <3>1 DEF RefTypeOK
  <2>2. ASSUME NEW s \in Slot, NEW k \in Holder, obj'[k] = s
        PROVE  /\ k \in made' /\ ref'[s] # Free /\ s \notin raw' /\ ref'[s].kind = Kind(k)
               /\ \A j \in Holder : obj'[j] = s => j = k
    <3>1. k # h /\ obj[k] = s
      BY <1>0, <1>2, <2>2
    <3> QED
      BY <1>0, <1>1, <1>2, <1>3, <3>1 DEF OneOwner, Owns
  <2> QED
    BY <2>1, <2>2 DEF OneOwner, Owns
<1>5. RefTypeOK'
  BY <1>0, <1>1, <1>2 DEF RefTypeOK
<1>6. EnvironmentKnown'
  BY <1>0, <1>1, <1>2 DEF EnvironmentKnown
<1>7. AtHome'
  BY <1>0, <1>1, <1>2 DEF AtHome
<1>8. RawIsThere'
  BY <1>0, <1>1, <1>3 DEF RawIsThere
<1> QED
  BY <1>0, <1>1, <1>4, <1>5, <1>6, <1>7, <1>8 DEF RefIInv, RefInv, NeverMisused

-----------------------------------------------------------------------------
LEMMA RefIInvInit == RefInit => RefIInv
<1> SUFFICES ASSUME RefInit PROVE RefIInv
  OBVIOUS
<1>1. /\ \A h \in Holder : obj[h] = Nothing
      /\ \A s \in Slot : ref[s] = Free
      /\ made = {} /\ raw = {} /\ misused = {} /\ Local \subseteq Holder /\ Nothing \notin Slot
  BY HoldersAssumption DEF RefInit, Holder
<1>2. RefTypeOK
  BY DEF RefInit, RefTypeOK
<1>3. OneOwner
  BY <1>1 DEF OneOwner, Owns
<1> QED
  BY <1>1, <1>2, <1>3 DEF RefIInv, RefInv, NeverMisused, EnvironmentKnown, AtHome, RawIsThere

LEMMA RefIInvNext == RefIInv /\ [RefNext]_refVars => RefIInv'
<1> SUFFICES ASSUME RefIInv, [RefNext]_refVars PROVE RefIInv'
  OBVIOUS
<1>1. CASE UNCHANGED refVars
  BY <1>1 DEF refVars, holderVars, RefIInv, RefInv, RefTypeOK, NeverMisused, OneOwner, Owns,
              EnvironmentKnown, AtHome, RawIsThere
<1>2. CASE RefNext
  <2>1. PICK t \in JavaThread :
          \/ \E o \in JavaObject : Obtain(t, o)
          \/ \E s \in Slot : DeleteRaw(t, s) \/ \E h \in Holder : Adopt(t, h, s) \/ ResetTo(t, h, s)
          \/ \E h \in Holder : \/ Construct(t, h) \/ Reset(t, h) \/ Release(t, h) \/ Destroy(t, h)
                               \/ \E r \in Holder : \/ CopyConstruct(t, h, r) \/ ConstructFrom(t, h, r)
                                                    \/ ResetFrom(t, h, r)
    BY <1>2 DEF RefNext
  <2> QED
    BY <2>1, ObtainStep, DeleteRawStep, AdoptStep, ResetToStep, MakeRefStep, ResetStep,
       ReleaseStep, DestroyRefStep, CopyRefStep, MakeFromRefStep, ResetFromStep
<1> QED
  BY <1>1, <1>2

\* Whatever clients that keep a local holder on its thread do with holders, no
\* reference is leaked, deleted twice, used after that or in another thread
\* (scoped_java_ref.h:77-190, scoped_java_ref.cpp:30-75).
THEOREM ReferencesHaveOneOwner == RefSpec => []RefInv
<1>1. RefIInv => RefInv
  BY DEF RefIInv
<1> QED
  BY <1>1, RefIInvInit, RefIInvNext, PTL DEF RefSpec

=============================================================================
