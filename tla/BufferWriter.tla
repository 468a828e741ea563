----------------------------- MODULE BufferWriter -----------------------------
(***************************************************************************)
(* The growing buffer that a JceOutputStream writes to (Jce.h).  A writer  *)
(* owns a block of memory, of which it has filled the first _len cells.    *)
(***************************************************************************)
EXTENDS Naturals, Sequences

CONSTANTS Writers, Addresses, NULL, Byte,
          Junk,  \* what new memory holds
          Chunks, \* what the program writes at once
          MaxLen  \* bound on what one writer is made to hold

ASSUME BufferAssumption ==
  /\ NULL \notin Addresses /\ Junk \notin Byte
  /\ Chunks \subseteq Seq(Byte) /\ MaxLen \in Nat

VARIABLES _buf, _len, _buf_len, \* the fields, of each writer
          live,    \* the writers that are constructed
          heap,    \* the cells of each block, none where nothing is allocated
          meant,   \* what a reader of the calls takes a writer's content for
          spoiled  \* the writers assigned to, by themselves too, when not empty

bufferVars == <<_buf, _len, _buf_len, live, heap, meant, spoiled>>

Cell == Byte \cup {Junk}

BufferInit ==
  /\ _buf = [w \in Writers |-> NULL]
  /\ _len = [w \in Writers |-> 0] /\ _buf_len = [w \in Writers |-> 0]
  /\ live = {} /\ spoiled = {}
  /\ heap = [a \in Addresses |-> <<>>] /\ meant = [w \in Writers |-> <<>>]

Content(w) == IF _buf[w] = NULL THEN <<>> ELSE SubSeq(heap[_buf[w]], 1, _len[w])

Without(h, w) == \* delete[] _buf
  [a \in Addresses |-> IF a = _buf[w] THEN <<>> ELSE h[a]]

Replaced(w, a, block) == [Without(heap, w) EXCEPT ![a] = block]

Needed(w, s) == _len[w] + Len(s)

\* The new block of twice the need, with what was written before.
\* Mutant: the new block starts with the new bytes.
GrownForgets(w, s) ==
  [i \in 1..(2 * Needed(w, s)) |->
     IF i > _len[w] /\ i <= _len[w] + Len(s) THEN s[i - _len[w]] ELSE Junk]

Grown(w, s) ==
  [i \in 1..(2 * Needed(w, s)) |->
     IF i <= _len[w] THEN heap[_buf[w]][i]
     ELSE IF i <= _len[w] + Len(s) THEN s[i - _len[w]] ELSE Junk]

Filled(w, s) ==
  [i \in 1..Len(heap[_buf[w]]) |->
     IF i > _len[w] /\ i <= _len[w] + Len(s) THEN s[i - _len[w]] ELSE heap[_buf[w]][i]]

\* writeBuf but for its last line: reserve, and copy s behind the content.
Append_(w, s) ==
  /\ Needed(w, s) <= MaxLen
  /\ \/ /\ _buf_len[w] < Needed(w, s)
        /\ \E a \in Addresses :
             /\ heap[a] = <<>>
             /\ heap' = Replaced(w, a, Grown(w, s))
             /\ _buf' = [_buf EXCEPT ![w] = a]
        /\ _buf_len' = [_buf_len EXCEPT ![w] = 2 * Needed(w, s)]
     \/ /\ _buf_len[w] >= Needed(w, s)
        /\ heap' = IF _buf[w] = NULL THEN heap
                   ELSE [heap EXCEPT ![_buf[w]] = Filled(w, s)]
        /\ UNCHANGED <<_buf, _buf_len>>

WriteBuf(w, s) ==
  /\ w \in live
  /\ Append_(w, s)
  /\ _len' = [_len EXCEPT ![w] = _len[w] + Len(s)]
  /\ meant' = [meant EXCEPT ![w] = meant[w] \o s]
  /\ UNCHANGED <<live, spoiled>>

NewWriter(w) ==
  /\ w \notin live
  /\ live' = live \cup {w}
  /\ UNCHANGED <<_buf, _len, _buf_len, heap, meant, spoiled>>

\* What writeBuf(v._buf, v._len) copies: the address is taken before reserve
\* deletes the block of w, so a writer assigned to itself that has to grow reads
\* memory that is no longer its own, which may hold anything.
Source(w, v) ==
  IF w = v /\ _buf_len[w] < 2 * _len[w] THEN [i \in 1.._len[w] |-> Junk] ELSE Content(v)

\* The copy constructor, and operator=, which appends before it sets _len to
\* that of v, its own new one if w is v: the content of v arrives only in a
\* writer that was empty, and assigned to itself a writer is twice as long.
Copy(w, v) ==
  /\ Append_(w, Source(w, v))
  /\ _len' = [_len EXCEPT ![w] = IF w = v THEN 2 * _len[w] ELSE _len[v]]
  /\ meant' = [meant EXCEPT ![w] = Content(v)]

CopyWriter(w, v) ==
  /\ w \notin live /\ v \in live
  /\ Copy(w, v)
  /\ live' = live \cup {w} /\ UNCHANGED spoiled

AssignWriter(w, v) ==
  /\ w \in live /\ v \in live
  /\ Copy(w, v)
  /\ spoiled' = IF _len[w] # 0 THEN spoiled \cup {w} ELSE spoiled \ {w}
  /\ UNCHANGED live

ResetWriter(w) ==
  /\ w \in live
  /\ _len' = [_len EXCEPT ![w] = 0]
  /\ meant' = [meant EXCEPT ![w] = <<>>] /\ spoiled' = spoiled \ {w}
  /\ UNCHANGED <<_buf, _buf_len, live, heap>>

Swapped(f, w, v) == [f EXCEPT ![w] = f[v], ![v] = f[w]]

SwapWriters(w, v) ==
  /\ w \in live /\ v \in live
  /\ _buf' = Swapped(_buf, w, v)
  /\ _buf_len' = Swapped(_buf_len, w, v)
  /\ _len' = Swapped(_len, w, v)
  /\ meant' = Swapped(meant, w, v)
  /\ spoiled' = {u \in Writers :
       (CASE u = w -> v [] u = v -> w [] OTHER -> u) \in spoiled}
  /\ UNCHANGED <<live, heap>>

DestroyWriter(w) ==
  /\ w \in live
  /\ live' = live \ {w} /\ spoiled' = spoiled \ {w}
  /\ heap' = IF _buf[w] = NULL THEN heap ELSE Without(heap, w)
  /\ _buf' = [_buf EXCEPT ![w] = NULL]
  /\ _len' = [_len EXCEPT ![w] = 0] /\ _buf_len' = [_buf_len EXCEPT ![w] = 0]
  /\ meant' = [meant EXCEPT ![w] = <<>>]

BufferNext ==
  \E w \in Writers :
    \/ NewWriter(w) \/ ResetWriter(w) \/ DestroyWriter(w)
    \/ \E s \in Chunks : WriteBuf(w, s)
    \/ \E v \in Writers : CopyWriter(w, v) \/ AssignWriter(w, v) \/ SwapWriters(w, v)

BufferSpec == BufferInit /\ [][BufferNext]_bufferVars

-----------------------------------------------------------------------------
(* Properties. *)

BufferTypeOK ==
  /\ _buf \in [Writers -> Addresses \cup {NULL}]
  /\ _len \in [Writers -> Nat] /\ _buf_len \in [Writers -> Nat]
  /\ live \subseteq Writers /\ spoiled \subseteq live
  /\ heap \in [Addresses -> Seq(Cell)] /\ meant \in [Writers -> Seq(Cell)]

InBounds(w) ==
  /\ _len[w] <= _buf_len[w]
  /\ IF _buf[w] = NULL THEN _buf_len[w] = 0
     ELSE _buf_len[w] > 0 /\ Len(heap[_buf[w]]) = _buf_len[w]

\* Over any sequence of writes, copies, swaps and resets, _buf_len is the size
\* of the writer's block, _len stays within it, no two writers delete the same
\* block, and a dead one holds none.
BufferInv ==
  /\ BufferTypeOK
  /\ \A w \in Writers : InBounds(w)
  /\ \A w, v \in Writers : w # v => _buf[w] # _buf[v] \/ _buf[w] = NULL
  /\ \A w \in Writers \ live : _buf[w] = NULL /\ _len[w] = 0 /\ meant[w] = <<>>

\* No block is left behind by reserve, by a copy or by the destructor.
EveryBlockHasAnOwner ==
  \A a \in Addresses : heap[a] # <<>> => \E w \in live : _buf[w] = a

\* A writer holds exactly what was written to it since it was constructed,
\* reset or copied to, unless a copy, of another or of itself, was assigned to
\* it over content: operator= appends to what is there.
ContentAsMeant == \A w \in live \ spoiled : Content(w) = meant[w]

\* Growing, copying, swapping and resetting write past no block and neither leak
\* nor share one, even when a writer is assigned to itself and grows out of the
\* block it copies from, and they lose no byte but where operator= is given a
\* writer with content, itself included (Jce.h:325-396).
WriterInv == BufferInv /\ EveryBlockHasAnOwner /\ ContentAsMeant

=============================================================================
