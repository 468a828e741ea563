-------------------------- MODULE FileObserverOrder --------------------------
(***************************************************************************)
(* FileObserver with a history of what the kernel queued for each          *)
(* descriptor, to say that an observer without a filter loses nothing.     *)
(***************************************************************************)
EXTENDS FileObserver

VARIABLE posted \* the masks queued for each descriptor, oldest first

orderVars == <<observerVars, posted>>

OrderInit == Init /\ posted = [o \in Observer |-> <<>>]

Grown(o) == SubSeq(kq'[o], Len(kq[o]) + 1, Len(kq'[o]))

OrderNext ==
  \/ Environment /\ posted' = [o \in Observer |-> posted[o] \o Grown(o)]
  \/ /\ \E o \in Observer :
          StartWatching(o) \/ StopWatching(o) \/ ThreadRuns(o) \/ ReadFails(o) \/ Return(o)
     /\ UNCHANGED posted

OrderSpec == OrderInit /\ [][OrderNext]_orderVars

FairOrderSpec == OrderSpec /\ ThreadFairness

\* The masks of the calls; Error, which is always the last one, is of none.
Told(o) ==
  LET n == Len(notified[o])
  IN  [i \in 1..(IF n > 0 /\ notified[o][n].event = "Error" THEN n - 1 ELSE n) |->
         notified[o][i].mask]

InHand(o) == IF thread[o] \in {"checking", "calling"} /\ notifyEvent[o] # "Error"
               THEN <<mask[o]>> ELSE <<>>

\* Without a filter and until it is stopped or done, an observer's delegate has
\* heard every event the kernel queued, in the kernel's order, but for those on
\* their way: the one in hand, the batch, and the kernel's queue
\* (FileObserver.cpp:98-125, 211-224).
NothingLostOrReordered ==
  EventFilter = {} =>
    \A o \in Observer :
      mState[o] # "Stopped" /\ thread[o] \notin {"closing", "ended"} =>
        posted[o] = Told(o) \o InHand(o) \o batch[o] \o kq[o]

=============================================================================
