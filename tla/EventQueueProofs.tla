-------------------------- MODULE EventQueueProofs --------------------------
(***************************************************************************)
(* For every heap: the list is always the sequence of entries enqueued and *)
(* not removed, no entry leaks or is reached after its free, and the list  *)
(* implements the first-in first-out queue.                                *)
(***************************************************************************)
EXTENDS EventQueue, TLAPS

\* Removing the first entry of a queue, by dequeue or by the destroy loop.
LEMMA RemoveHead ==
  ASSUME QueueInv, head # NULL
  PROVE  /\ contents # <<>> /\ head = contents[1] /\ head \in Entry
         /\ next[head] = IF Len(contents) = 1 THEN NULL ELSE contents[2]
         /\ Tail(contents) \in Seq(Entry)
         /\ Len(Tail(contents)) = Len(contents) - 1
         /\ \A i \in 1..Len(Tail(contents)) : Tail(contents)[i] = contents[i + 1]
         /\ \A i \in 1..Len(Tail(contents)) : Tail(contents)[i] # head
  <1>1. contents # <<>> /\ head = contents[1]
    BY DEF QueueInv, ListSpellsContents
  <1>2. contents \in Seq(Entry) /\ Len(contents) \in Nat /\ Len(contents) >= 1
    BY <1>1 DEF QueueInv, TypeOK
  <1>3. next[contents[1]] = IF 1 = Len(contents) THEN NULL ELSE contents[2]
    <2>1. 1 \in 1..Len(contents)
      BY <1>2
    <2>2. next[contents[1]] = IF 1 = Len(contents) THEN NULL ELSE contents[1 + 1]
      BY <2>1 DEF QueueInv, ListSpellsContents
    <2>3. 1 + 1 = 2
      OBVIOUS
    <2> QED
      BY <2>2, <2>3
  <1>4. /\ Tail(contents) \in Seq(Entry)
        /\ Len(Tail(contents)) = Len(contents) - 1
        /\ \A i \in 1..Len(Tail(contents)) : Tail(contents)[i] = contents[i + 1]
    BY <1>1, <1>2
  <1>5. \A i \in 1..Len(Tail(contents)) : Tail(contents)[i] # head
    <2> SUFFICES ASSUME NEW i \in 1..Len(Tail(contents)), Tail(contents)[i] = head
                 PROVE  FALSE
      OBVIOUS
    <2>1. contents[i + 1] = contents[1] /\ i + 1 \in 1..Len(contents) /\ 1 \in 1..Len(contents)
      BY <1>1, <1>2, <1>4
    <2> QED
      BY <2>1, <1>2 DEF QueueInv, NoEntryTwice
  <1> QED
    BY <1>1, <1>2, <1>3, <1>4, <1>5

\* The entries left when the first one goes.
LEMMA RemoveHeadListed ==
  ASSUME QueueInv, head # NULL
  PROVE  {Tail(contents)[i] : i \in 1..Len(Tail(contents))} = Listed \ {head}
  <1>1. Len(contents) \in Nat /\ Len(contents) >= 1
    BY RemoveHead DEF QueueInv, TypeOK
  <1>2. ASSUME NEW i \in 1..Len(Tail(contents))
        PROVE  Tail(contents)[i] \in Listed \ {head}
    BY <1>1, <1>2, RemoveHead DEF Listed
  <1>3. ASSUME NEW e \in Listed \ {head}
        PROVE  \E i \in 1..Len(Tail(contents)) : e = Tail(contents)[i]
    <2>1. PICK j \in 1..Len(contents) : e = contents[j]
      BY DEF Listed
    <2>2. j # 1
      BY <2>1, RemoveHead
    <2>3. j - 1 \in 1..Len(Tail(contents)) /\ e = Tail(contents)[j - 1]
      BY <1>1, <2>1, <2>2, RemoveHead
    <2> QED
      BY <2>3
  <1> QED
    BY <1>2, <1>3

LEMMA InitQueueInv == Init => QueueInv
  BY DEF Init, QueueInv, TypeOK, Pointer, ListSpellsContents, NoEntryTwice,
         EveryEntryAccountedFor, Listed

LEMMA EnqueueInv ==
  ASSUME QueueInv, NEW e \in Entry, Enqueue(e)
  PROVE  QueueInv'
  <1> DEFINE n == Len(contents)
  <1>1. contents \in Seq(Entry) /\ n \in Nat /\ phase = "ready" /\ e \in held
    BY DEF QueueInv, TypeOK, Enqueue
  <1>2. /\ contents' \in Seq(Entry) /\ Len(contents') = n + 1
        /\ \A i \in 1..n : contents'[i] = contents[i]
        /\ contents'[n + 1] = e
    BY <1>1 DEF Enqueue
  <1>3. \A i \in 1..n : contents[i] \in Listed /\ contents[i] \in Entry
    BY <1>1 DEF Listed
  <1>4. \A i \in 1..n : contents[i] # e
    BY <1>1, <1>3 DEF QueueInv, EveryEntryAccountedFor
  <1>5. tail = NULL <=> n = 0
    BY <1>1, <1>3, NullAssumption DEF QueueInv, ListSpellsContents
  <1>6. TypeOK'
    BY <1>1, <1>2, NullAssumption
    DEF QueueInv, TypeOK, Enqueue, LinkAtTail, Pointer
  <1>7. ListSpellsContents'
    <2>1. head' = contents'[1] /\ tail' = contents'[n + 1]
      <3>1. CASE n = 0
        BY <3>1, <1>1, <1>2, <1>5 DEF Enqueue
      <3>2. CASE n # 0
        BY <3>2, <1>1, <1>2, <1>5 DEF Enqueue, QueueInv, ListSpellsContents
      <3> QED
        BY <3>1, <3>2
    <2>2. ASSUME NEW i \in 1..n + 1
          PROVE  next'[contents'[i]] = IF i = n + 1 THEN NULL ELSE contents'[i + 1]
      <3>1. CASE n = 0
        BY <3>1, <1>1, <1>2, <1>5 DEF Enqueue, LinkAtTail, QueueInv, TypeOK
      <3>2. CASE n # 0
        <4>1. tail = contents[n] /\ tail # NULL /\ tail \in Entry /\ tail # e
          BY <3>2, <1>1, <1>3, <1>4, <1>5 DEF QueueInv, ListSpellsContents
        <4>2. next' = [next EXCEPT ![e] = NULL, ![tail] = e]
          BY <4>1 DEF Enqueue, LinkAtTail
        <4>3. CASE i = n + 1
          BY <4>1, <4>2, <4>3, <1>2 DEF QueueInv, TypeOK
        <4>4. CASE i = n
          BY <4>1, <4>2, <4>4, <1>1, <1>2 DEF QueueInv, TypeOK
        <4>5. CASE i < n
          <5>1. contents[i] # contents[n] /\ i \in 1..n /\ n \in 1..n
            BY <4>5, <1>1 DEF QueueInv, NoEntryTwice
          <5>2. next[contents[i]] = contents[i + 1]
            BY <5>1, <4>5, <1>1 DEF QueueInv, ListSpellsContents
          <5>3. next'[contents[i]] = next[contents[i]]
            BY <5>1, <4>1, <4>2, <1>3, <1>4 DEF QueueInv, TypeOK
          <5> QED
            BY <5>1, <5>2, <5>3, <4>5, <1>1, <1>2
        <4> QED
          BY <4>3, <4>4, <4>5, <1>1
      <3> QED
        BY <3>1, <3>2
    <2> QED
      BY <2>1, <2>2, <1>1, <1>2 DEF ListSpellsContents
  <1>8. NoEntryTwice'
    BY <1>1, <1>2, <1>4 DEF QueueInv, NoEntryTwice
  <1>9. Listed' = Listed \cup {e}
    BY <1>1, <1>2 DEF Listed
  <1>10. EveryEntryAccountedFor'
    BY <1>9, <1>1 DEF QueueInv, EveryEntryAccountedFor, Enqueue
  <1> QED
    BY <1>1, <1>6, <1>7, <1>8, <1>10 DEF QueueInv, Enqueue

\* What dequeue and the destroy loop do to the list.
LEMMA RemoveKeepsList ==
  ASSUME QueueInv, head # NULL,
         head' = next[head], next' = [next EXCEPT ![head] = NULL],
         contents' = Tail(contents)
  PROVE  /\ head' \in Pointer /\ next' \in [Entry -> Pointer]
         /\ contents' \in Seq(Entry)
         /\ head' = IF contents' = <<>> THEN NULL ELSE contents'[1]
         /\ \A i \in 1..Len(contents') :
              next'[contents'[i]] = IF i = Len(contents') THEN NULL ELSE contents'[i + 1]
         /\ NoEntryTwice'
         /\ Listed' = Listed \ {head}
  <1>1. contents \in Seq(Entry) /\ Len(contents) \in Nat /\ Len(contents) >= 1
    BY RemoveHead DEF QueueInv, TypeOK
  <1>2. /\ Len(contents') = Len(contents) - 1 /\ contents' \in Seq(Entry)
        /\ \A i \in 1..Len(contents') : contents'[i] = contents[i + 1] /\ contents'[i] # head
    BY RemoveHead
  <1>3. head' \in Pointer /\ next' \in [Entry -> Pointer]
    BY RemoveHead DEF QueueInv, TypeOK, Pointer
  <1>4. head' = IF contents' = <<>> THEN NULL ELSE contents'[1]
    <2>1. next[head] = IF Len(contents) = 1 THEN NULL ELSE contents[2]
      BY RemoveHead
    <2>2. CASE Len(contents) = 1
      <3>1. Len(contents') = 0 /\ contents' \in Seq(Entry)
        BY <2>2, <1>2
      <3>2. contents' = <<>>
        BY <3>1
      <3> QED
        BY <2>1, <2>2, <3>2
    <2>3. CASE Len(contents) # 1
      <3>1. Len(contents') >= 1 /\ Len(contents') \in Nat
        BY <2>3, <1>1, <1>2
      <3>4. 1 \in 1..Len(contents') /\ contents' # <<>>
        BY <3>1
      <3>2. contents'[1] = contents[1 + 1]
        BY <3>4, <1>2
      <3>3. 1 + 1 = 2
        OBVIOUS
      <3> QED
        BY <2>1, <2>3, <3>4, <3>2, <3>3
    <2> QED
      BY <2>2, <2>3
  <1>5. ASSUME NEW i \in 1..Len(contents')
        PROVE  next'[contents'[i]] = IF i = Len(contents') THEN NULL ELSE contents'[i + 1]
    <2>1. next'[contents'[i]] = next[contents[i + 1]]
      BY <1>1, <1>2 DEF QueueInv, TypeOK
    <2>2. i + 1 \in 1..Len(contents) /\ (i = Len(contents') <=> i + 1 = Len(contents))
      BY <1>1, <1>2
    <2>3. next[contents[i + 1]] = IF i + 1 = Len(contents) THEN NULL ELSE contents[(i + 1) + 1]
      BY <2>2 DEF QueueInv, ListSpellsContents
    <2>4. i # Len(contents') => contents'[i + 1] = contents[(i + 1) + 1]
      <3>0. Len(contents') \in Nat
        BY <1>1, <1>2
      <3>1. i # Len(contents') => i + 1 \in 1..Len(contents')
        BY <3>0
      <3>2. ASSUME NEW j \in 1..Len(contents') PROVE contents'[j] = contents[j + 1]
        BY <1>2
      <3> QED
        BY <3>1, <3>2, Zenon
    <2> QED
      BY <2>1, <2>2, <2>3, <2>4
  <1>6. NoEntryTwice'
    <2> SUFFICES ASSUME NEW i \in 1..Len(contents'), NEW j \in 1..Len(contents'),
                        contents'[i] = contents'[j]
                 PROVE  i = j
      BY DEF NoEntryTwice
    <2>1. contents[i + 1] = contents[j + 1] /\ i + 1 \in 1..Len(contents) /\ j + 1 \in 1..Len(contents)
      BY <1>1, <1>2
    <2> QED
      BY <2>1, <1>1 DEF QueueInv, NoEntryTwice
  <1>7. Listed' = Listed \ {head}
    BY RemoveHeadListed DEF Listed
  <1> QED
    BY <1>2, <1>3, <1>4, <1>5, <1>6, <1>7

LEMMA DequeueInv ==
  ASSUME QueueInv, Dequeue
  PROVE  QueueInv'
  <1>1. /\ head # NULL /\ head' = next[head] /\ next' = [next EXCEPT ![head] = NULL]
        /\ contents' = Tail(contents) /\ phase = "ready" /\ phase' = phase
        /\ tail' = TailAfter(head') /\ taken' = head
        /\ held' = held \cup {head} /\ live' = live
    BY DEF Dequeue
  <1>2. contents \in Seq(Entry) /\ Len(contents) \in Nat /\ head \in Entry
    BY <1>1, RemoveHead DEF QueueInv, TypeOK
  <1>3. TypeOK'
    BY <1>1, <1>2, RemoveKeepsList DEF QueueInv, TypeOK, TailAfter, Pointer
  <1>4. tail' = IF contents' = <<>> THEN NULL ELSE contents'[Len(contents')]
    <2>1. CASE contents' = <<>>
      BY <2>1, <1>1, RemoveKeepsList DEF TailAfter
    <2>2. CASE contents' # <<>>
      <3>1. head' \in Entry /\ head' # NULL
        BY <2>2, <1>1, RemoveKeepsList, NullAssumption
      <3>2. tail' = contents[Len(contents)]
        BY <3>1, <1>1, RemoveHead DEF TailAfter, QueueInv, ListSpellsContents
      <3>3. /\ contents' \in Seq(Entry) /\ Len(contents') = Len(contents) - 1
            /\ \A i \in 1..Len(contents') : contents'[i] = contents[i + 1]
        BY <1>1, RemoveHead
      <3>4. Len(contents') \in 1..Len(contents') /\ Len(contents') + 1 = Len(contents)
        BY <3>3, <2>2, <1>2
      <3> QED
        BY <3>2, <3>3, <3>4, <2>2
    <2> QED
      BY <2>1, <2>2
  <1>5. ListSpellsContents'
    BY <1>1, <1>4, RemoveKeepsList DEF ListSpellsContents
  <1>6. head \in Listed /\ Listed' = Listed \ {head}
    <2>1. head = contents[1] /\ contents # <<>>
      BY <1>1, RemoveHead
    <2>2. 1 \in 1..Len(contents)
      BY <1>2, <2>1
    <2>3. head \in Listed
      BY <2>1, <2>2 DEF Listed
    <2> QED
      BY <1>1, <2>3, RemoveKeepsList
  <1>7. EveryEntryAccountedFor'
    BY <1>1, <1>6 DEF QueueInv, EveryEntryAccountedFor
  <1> QED
    BY <1>1, <1>3, <1>5, <1>7, RemoveKeepsList DEF QueueInv

LEMMA DestroyOneInv ==
  ASSUME QueueInv, DestroyOne
  PROVE  QueueInv'
  <1>1. /\ head # NULL /\ head' = next[head] /\ next' = [next EXCEPT ![head] = NULL]
        /\ contents' = Tail(contents) /\ phase' = "destroying"
        /\ tail' = tail /\ taken' = taken /\ held' = held /\ live' = live \ {head}
    BY DEF DestroyOne
  <1>2. TypeOK'
    BY <1>1, RemoveKeepsList DEF QueueInv, TypeOK
  <1>3. ListSpellsContents'
    BY <1>1, RemoveKeepsList DEF ListSpellsContents
  <1>4. head \in Listed /\ Listed' = Listed \ {head}
    <2>1. Len(contents) \in Nat /\ Len(contents) >= 1
      BY <1>1, RemoveHead DEF QueueInv, TypeOK
    <2>2. head \in Listed /\ Listed' = Listed \ {head}
      <3>1. 1 \in 1..Len(contents) /\ head = contents[1]
        BY <1>1, <2>1, RemoveHead
      <3>2. head \in Listed
        BY <3>1 DEF Listed
      <3>3. Listed' = Listed \ {head}
        BY <1>1, RemoveKeepsList
      <3> QED
        BY <3>2, <3>3
    <2> QED
      BY <2>2
  <1>5. EveryEntryAccountedFor'
    BY <1>1, <1>4 DEF QueueInv, EveryEntryAccountedFor
  <1> QED
    BY <1>1, <1>2, <1>3, <1>5, RemoveKeepsList DEF QueueInv

LEMMA NextQueueInv == QueueInv /\ [Next]_queueVars => QueueInv'
  <1> SUFFICES ASSUME QueueInv, [Next]_queueVars PROVE QueueInv'
    OBVIOUS
  <1> USE DEF QueueInv, TypeOK, Pointer, ListSpellsContents, NoEntryTwice,
              EveryEntryAccountedFor, Listed
  <1>1. CASE Create
    <2>1. contents = <<>>
      BY <1>1, NullAssumption DEF Create
    <2> QED
      BY <1>1, <2>1 DEF Create
  <1>2. CASE Dequeue
    BY <1>2, DequeueInv
  <1>3. CASE DequeueNothing
    BY <1>3 DEF DequeueNothing
  <1>4. CASE DestroyOne
    BY <1>4, DestroyOneInv
  <1>5. CASE DestroyEnd
    BY <1>5 DEF DestroyEnd
  <1>6. ASSUME NEW e \in Entry, Malloc(e) PROVE QueueInv'
    BY <1>6 DEF Malloc
  <1>7. ASSUME NEW e \in Entry, Enqueue(e) PROVE QueueInv'
    BY <1>7, EnqueueInv
  <1>8. ASSUME NEW e \in Entry, Free(e) PROVE QueueInv'
    BY <1>8 DEF Free
  <1>9. CASE UNCHANGED queueVars
    BY <1>9 DEF queueVars
  <1> QED
    BY <1>1, <1>2, <1>3, <1>4, <1>5, <1>6, <1>7, <1>8, <1>9 DEF Next

\* The pointers spell the entries enqueued and not removed, none twice, and
\* every entry is in the list or with the client: event_queue.c for any heap.
THEOREM QueueCorrect == Spec => []QueueInv
  <1>1. Init => QueueInv
    BY InitQueueInv
  <1>2. QueueInv /\ [Next]_queueVars => QueueInv'
    BY NextQueueInv
  <1> QED
    BY <1>1, <1>2, PTL DEF Spec

\* A destroyed queue has freed all it held.
THEOREM DestroyFreesAll == Spec => []DestroyedQueueIsEmpty
  <1>1. QueueInv => DestroyedQueueIsEmpty
    <2> SUFFICES ASSUME QueueInv, phase = "none" PROVE live = held /\ tail = NULL
      BY DEF DestroyedQueueIsEmpty
    <2>1. contents = <<>>
      BY NullAssumption DEF QueueInv, ListSpellsContents, TypeOK
    <2> QED
      BY <2>1 DEF QueueInv, EveryEntryAccountedFor, Listed
  <1> QED
    BY <1>1, QueueCorrect, PTL

\* The linked list implements the first-in first-out queue.
THEOREM ListIsFifo == Spec => IsFifo
  <1>1. Init => Fifo!Init
    BY DEF Init, Fifo!Init
  <1>2. QueueInv /\ [Next]_queueVars => [Fifo!Next]_(Fifo!fifoVars)
    <2> SUFFICES ASSUME QueueInv, [Next]_queueVars PROVE [Fifo!Next]_(Fifo!fifoVars)
      OBVIOUS
    <2> USE DEF Fifo!Next, Fifo!fifoVars
    <2>0. head = NULL <=> contents = <<>>
      BY NullAssumption DEF QueueInv, TypeOK, ListSpellsContents
    <2>1. CASE Create
      BY <2>1 DEF Create, Fifo!Create
    <2>2. CASE Dequeue
      <3>1. head = Head(contents) /\ contents # <<>>
        BY <2>2, RemoveHead DEF Dequeue
      <3> QED
        BY <2>2, <3>1 DEF Dequeue, Fifo!Take
    <2>3. CASE DequeueNothing
      BY <2>0, <2>3 DEF DequeueNothing, Fifo!TakeNothing
    <2>4. CASE DestroyOne
      BY <2>0, <2>4 DEF DestroyOne, Fifo!Discard
    <2>5. CASE DestroyEnd
      BY <2>0, <2>5 DEF DestroyEnd, Fifo!Destroy
    <2>6. ASSUME NEW e \in Entry, Malloc(e) PROVE UNCHANGED Fifo!fifoVars
      BY <2>6 DEF Malloc
    <2>7. ASSUME NEW e \in Entry, Enqueue(e) PROVE Fifo!Put(e)
      BY <2>7 DEF Enqueue, Fifo!Put
    <2>8. ASSUME NEW e \in Entry, Free(e) PROVE UNCHANGED Fifo!fifoVars
      BY <2>8 DEF Free
    <2>9. CASE UNCHANGED queueVars
      BY <2>9 DEF queueVars
    <2> QED
      BY <2>1, <2>2, <2>3, <2>4, <2>5, <2>6, <2>7, <2>8, <2>9 DEF Next
  <1> QED
    BY <1>1, <1>2, QueueCorrect, PTL DEF Spec, IsFifo, Fifo!Spec

=============================================================================
