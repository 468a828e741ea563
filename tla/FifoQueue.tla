------------------------------ MODULE FifoQueue ------------------------------
(***************************************************************************)
(* What src/jni/observer/event_queue.h promises its only client, the       *)
(* watching thread of FileObserver: a first-in first-out queue of event    *)
(* entries that is created, filled, drained, and destroyed together with   *)
(* whatever was left in it.  EventQueue is the linked list that does it.   *)
(***************************************************************************)
EXTENDS Sequences

CONSTANTS Entry, NULL

VARIABLES phase, \* "none", "ready", or "destroying"
          items, \* the entries in the queue, oldest first
          taken  \* what the last dequeue returned

fifoVars == <<phase, items, taken>>

Init == phase = "none" /\ items = <<>> /\ taken = NULL

Create ==
  /\ phase = "none"
  /\ phase' = "ready" /\ items' = <<>>
  /\ UNCHANGED taken

Put(e) ==
  /\ phase = "ready"
  /\ items' = Append(items, e)
  /\ UNCHANGED <<phase, taken>>

Take ==
  /\ phase = "ready" /\ items # <<>>
  /\ taken' = Head(items)
  /\ items' = Tail(items)
  /\ UNCHANGED phase

TakeNothing ==
  /\ phase = "ready" /\ items = <<>>
  /\ taken' = NULL
  /\ UNCHANGED <<phase, items>>

Discard ==
  /\ phase \in {"ready", "destroying"} /\ items # <<>>
  /\ phase' = "destroying"
  /\ items' = Tail(items)
  /\ UNCHANGED taken

Destroy ==
  /\ phase \in {"ready", "destroying"} /\ items = <<>>
  /\ phase' = "none"
  /\ UNCHANGED <<items, taken>>

Next ==
  \/ Create \/ Take \/ TakeNothing \/ Discard \/ Destroy
  \/ \E e \in Entry : Put(e)

Spec == Init /\ [][Next]_fifoVars

=============================================================================
