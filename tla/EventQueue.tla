----------------------------- MODULE EventQueue -----------------------------
(***************************************************************************)
(* The singly linked list of src/jni/observer/event_queue.c, with the      *)
(* malloc and free of the entries that its client, ThreadFunc of           *)
(* FileObserver.cpp, performs around it.  An entry is a heap address;      *)
(* its inotify event never matters to the list.                            *)
(***************************************************************************)
EXTENDS Naturals, Sequences

CONSTANTS Entry, \* heap addresses malloc may return for a queue_entry
          NULL

ASSUME NullAssumption == NULL \notin Entry

VARIABLES phase,      \* "none" before create, "ready", "destroying" in the loop
          head, tail, \* struct queue_struct
          next,       \* next_ptr of every entry
          live,       \* the entries malloc'ed and not freed
          held,       \* the live entries the client has a pointer to
          taken,      \* what the last queue_dequeue returned
          contents    \* history: the entries enqueued and not yet removed

queueVars == <<phase, head, tail, next, live, held, taken, contents>>

Pointer == Entry \cup {NULL}
Listed  == {contents[i] : i \in 1..Len(contents)}

TypeOK ==
  /\ phase \in {"none", "ready", "destroying"}
  /\ head \in Pointer /\ tail \in Pointer
  /\ next \in [Entry -> Pointer]
  /\ live \subseteq Entry /\ held \subseteq Entry
  /\ taken \in Pointer
  /\ contents \in Seq(Entry)

Init ==
  /\ phase = "none" /\ head = NULL /\ tail = NULL
  /\ next = [e \in Entry |-> NULL]
  /\ live = {} /\ held = {} /\ taken = NULL /\ contents = <<>>

Create == \* queue_create; a failed malloc ends the process
  /\ phase = "none"
  /\ phase' = "ready" /\ head' = NULL /\ tail' = NULL /\ contents' = <<>>
  /\ UNCHANGED <<next, live, held, taken>>

Malloc(e) == \* the client's malloc: next_ptr holds whatever was there
  /\ e \notin live
  /\ live' = live \cup {e} /\ held' = held \cup {e}
  /\ \E garbage \in Pointer : next' = [next EXCEPT ![e] = garbage]
  /\ UNCHANGED <<phase, head, tail, taken, contents>>

LinkAtTail(e) ==
  IF tail # NULL THEN [next EXCEPT ![e] = NULL, ![tail] = e]
                 ELSE [next EXCEPT ![e] = NULL]

\* Mutant: the new entry becomes the head.
EnqueueAtHead(e) ==
  /\ phase = "ready" /\ e \in held
  /\ next' = [next EXCEPT ![e] = head]
  /\ head' = e
  /\ tail' = IF tail # NULL THEN tail ELSE e
  /\ held' = held \ {e}
  /\ contents' = Append(contents, e)
  /\ UNCHANGED <<phase, live, taken>>

Enqueue(e) ==
  /\ phase = "ready" /\ e \in held
  /\ next' = LinkAtTail(e)
  /\ head' = IF tail # NULL THEN head ELSE e
  /\ tail' = e
  /\ held' = held \ {e}
  /\ contents' = Append(contents, e)
  /\ UNCHANGED <<phase, live, taken>>

\* Mutant: the tail still points to the last entry when it has left.
TailAfterKept(newHead) == tail

TailAfter(newHead) == IF newHead = NULL THEN NULL ELSE tail

Dequeue ==
  /\ phase = "ready" /\ head # NULL
  /\ taken' = head
  /\ head' = next[head]
  /\ tail' = TailAfter(next[head])
  /\ next' = [next EXCEPT ![head] = NULL]
  /\ held' = held \cup {head}
  /\ contents' = Tail(contents)
  /\ UNCHANGED <<phase, live>>

DequeueNothing ==
  /\ phase = "ready" /\ head = NULL
  /\ taken' = NULL
  /\ UNCHANGED <<phase, head, tail, next, live, held, contents>>

Free(e) == \* the client's free after it has classified the event
  /\ e \in held
  /\ live' = live \ {e} /\ held' = held \ {e}
  /\ UNCHANGED <<phase, head, tail, next, taken, contents>>

DestroyOne == \* one iteration of queue_destroy's loop
  /\ phase \in {"ready", "destroying"} /\ head # NULL
  /\ phase' = "destroying"
  /\ head' = next[head]
  /\ next' = [next EXCEPT ![head] = NULL]
  /\ live' = live \ {head}
  /\ contents' = Tail(contents)
  /\ UNCHANGED <<tail, held, taken>>

DestroyEnd ==
  /\ phase \in {"ready", "destroying"} /\ head = NULL
  /\ phase' = "none" /\ tail' = NULL
  /\ UNCHANGED <<head, next, live, held, taken, contents>>

Next ==
  \/ Create \/ Dequeue \/ DequeueNothing \/ DestroyOne \/ DestroyEnd
  \/ \E e \in Entry : Malloc(e) \/ Enqueue(e) \/ Free(e)

Spec == Init /\ [][Next]_queueVars

-----------------------------------------------------------------------------
\* The head, next_ptr and tail pointers spell exactly the entries enqueued and
\* not removed, oldest first, and the last one ends the list (event_queue.c
\* keeps tail only while the queue is in use: the destroy loop leaves it behind).
ListSpellsContents ==
  /\ head = IF contents = <<>> THEN NULL ELSE contents[1]
  /\ phase = "ready" =>
       tail = IF contents = <<>> THEN NULL ELSE contents[Len(contents)]
  /\ \A i \in 1..Len(contents) :
       next[contents[i]] = IF i = Len(contents) THEN NULL ELSE contents[i + 1]

\* No entry is in the list twice, so destroying the queue frees none twice.
NoEntryTwice ==
  \A i, j \in 1..Len(contents) : contents[i] = contents[j] => i = j

\* Every malloc'ed entry is in the list or in the client's hands, never both:
\* nothing leaks, and the list never reaches a freed entry.
EveryEntryAccountedFor ==
  /\ live = held \cup Listed
  /\ held \cap Listed = {}

\* A destroyed queue has freed all it held: only the client's entries are left.
DestroyedQueueIsEmpty == phase = "none" => live = held /\ tail = NULL

\* What the two destroy actions and the list operations rely on, as one
\* inductive invariant of event_queue.c; EventQueueProofs proves it.
QueueInv ==
  /\ TypeOK
  /\ ListSpellsContents
  /\ NoEntryTwice
  /\ EveryEntryAccountedFor
  /\ phase = "none" => head = NULL /\ tail = NULL

\* The list is a first-in first-out queue: queue_dequeue returns entries in the
\* order queue_enqueue got them, and NULL exactly when there is none.
Fifo == INSTANCE FifoQueue WITH items <- contents
IsFifo == Fifo!Spec

=============================================================================
