------------------------- MODULE FileObserverProofs -------------------------
(***************************************************************************)
(* For any number of observers, filter, and limits: FileObserver reports   *)
(* Delete only of a directory that is gone, says nothing after a terminal  *)
(* event, after stopWatching lets at most one event through, and without   *)
(* a filter loses and reorders nothing.  The history of FileObserverOrder  *)
(* is of use to that last theorem only.                                    *)
(***************************************************************************)
EXTENDS FileObserverOrder, SequenceTheorems, TLAPS

-----------------------------------------------------------------------------
(* The kernel's queues. *)

LEMMA PushQueue ==
  ASSUME NEW q \in Seq(Mask), NEW m \in Mask
  PROVE  /\ Push(q, m) \in Seq(Mask)
         /\ m # "DELETE_SELF" /\ Announces(Push(q, m)) => Announces(q)
  <1>1. "Q_OVERFLOW" \in Mask
    BY DEF Mask
  <1>2. ASSUME NEW e \in Mask
        PROVE  /\ Append(q, e) \in Seq(Mask)
               /\ e # "DELETE_SELF" /\ Announces(Append(q, e)) => Announces(q)
    <2> SUFFICES ASSUME e # "DELETE_SELF", Announces(Append(q, e)) PROVE Announces(q)
      OBVIOUS
    <2>1. PICK i \in 1..Len(Append(q, e)) : Append(q, e)[i] = "DELETE_SELF"
      BY DEF Announces
    <2>2. Len(Append(q, e)) = Len(q) + 1 /\ Len(q) \in Nat
      OBVIOUS
    <2>3. i # Len(q) + 1
      BY <2>1, <2>2
    <2>4. i \in 1..Len(q) /\ q[i] = "DELETE_SELF"
      BY <2>1, <2>2, <2>3
    <2> QED
      BY <2>4 DEF Announces
  <1>3. Push(q, m) \in {q, Append(q, "Q_OVERFLOW"), Append(q, m)}
    BY DEF Push
  <1>4. m # "DELETE_SELF" => Push(q, m) \in {q, Append(q, "Q_OVERFLOW"), Append(q, m)}
    BY <1>3
  <1> QED
    BY <1>1, <1>2, <1>3

LEMMA PushGoneQueue == \A q \in Seq(Mask) : PushGone(q) \in Seq(Mask)
  <1>1. "DELETE_SELF" \in Mask /\ "IGNORED" \in Mask
    BY DEF Mask
  <1> QED
    BY <1>1, PushQueue DEF PushGone

-----------------------------------------------------------------------------
(* Type correctness. *)

LEMMA PostTypes ==
  ASSUME TypeOK, NEW grown \in [Observer -> Seq(Mask)], NEW inode, Post(inode, grown)
  PROVE  kq' \in [Observer -> Seq(Mask)] /\ lost' \subseteq Observer
  BY DEF TypeOK, KernelTypeOK, Post

LEMMA KernelTypes ==
  ASSUME TypeOK, KernelNext
  PROVE  KernelTypeOK'
  <1> USE InotifyAssumption
  <1>0. kq \in [Observer -> Seq(Mask)] /\ "OPEN" \in Mask /\ "CLOSE_NOWRITE" \in Mask
    BY DEF TypeOK, KernelTypeOK, Mask
  <1>1. CASE OpenDir
    <2>1. [o \in Observer |-> Push(kq[o], "OPEN")] \in [Observer -> Seq(Mask)]
      BY <1>0, PushQueue
    <2> QED
      BY <1>1, <2>1, PostTypes DEF OpenDir, TypeOK, KernelTypeOK, Exists, Inode
  <1>2. CASE Uninstall
    <2>1. [o \in Observer |-> PushGone(kq[o])] \in [Observer -> Seq(Mask)]
      BY <1>0, PushGoneQueue
    <2>2. kq' \in [Observer -> Seq(Mask)] /\ lost' \subseteq Observer
      BY <1>0, <1>2, <2>1, PostTypes DEF Uninstall, TypeOK, KernelTypeOK
    <2> QED
      BY <1>2, <2>2 DEF Uninstall, TypeOK, KernelTypeOK
  <1>3. CASE Install
    BY <1>3 DEF Install, TypeOK, KernelTypeOK
  <1>4. ASSUME NEW m \in TouchMask, Touch(m) PROVE KernelTypeOK'
    <2>1. [o \in Observer |-> Push(kq[o], m)] \in [Observer -> Seq(Mask)]
      BY <1>0, PushQueue
    <2> QED
      BY <1>4, <2>1, PostTypes DEF Touch, TypeOK, KernelTypeOK
  <1>5. ASSUME NEW inode \in open, CloseDir(inode) PROVE KernelTypeOK'
    <2> DEFINE closed == [o \in Observer |-> Push(kq[o], "CLOSE_NOWRITE")]
    <2>1. closed \in [Observer -> Seq(Mask)]
      BY <1>0, PushQueue
    <2>2. [o \in Observer |-> PushGone(closed[o])] \in [Observer -> Seq(Mask)]
      BY <2>1, PushGoneQueue
    <2>3. kq' \in [Observer -> Seq(Mask)] /\ lost' \subseteq Observer
      BY <1>5, <2>1, <2>2, PostTypes DEF CloseDir
    <2> QED
      BY <1>5, <2>3 DEF CloseDir, TypeOK, KernelTypeOK
  <1> QED
    BY <1>1, <1>2, <1>3, <1>4, <1>5 DEF KernelNext

LEMMA EventOfType == EventOf \in [Mask -> Event] /\ \A m \in Mask : EventOf[m] # "Error"
  BY DEF EventOf, Event

LEMMA ClassifyType == \A m \in Mask : Classify(m) \in Event /\ Classify(m) # "Error"
  BY EventOfType DEF Classify, Event

LEMMA ReadTypes ==
  ASSUME TypeOK, NEW o \in Observer, Read(o)
  PROVE  batch' \in [Observer -> Seq(Mask)] /\ kq' \in [Observer -> Seq(Mask)]
  <1> DEFINE n == Smaller(Len(kq[o]), BufferEvents)
  <1>1. kq[o] \in Seq(Mask) /\ Len(kq[o]) \in Nat
    BY DEF TypeOK, KernelTypeOK
  <1>2. n \in 0..Len(kq[o])
    BY <1>1, FileObserverAssumption DEF Smaller
  <1>3. SubSeq(kq[o], 1, n) \in Seq(Mask) /\ SubSeq(kq[o], n + 1, Len(kq[o])) \in Seq(Mask)
    BY <1>1, <1>2
  <1> HIDE DEF n
  <1>4. /\ batch' = [batch EXCEPT ![o] = SubSeq(kq[o], 1, n)]
        /\ kq' = [kq EXCEPT ![o] = SubSeq(kq[o], n + 1, Len(kq[o]))]
    BY DEF Read, ReadEvents, n
  <1> QED
    BY <1>3, <1>4 DEF TypeOK, KernelTypeOK, ThreadTypeOK

\* A step of the observer o's own thread or of its owner.
StepOf(o) ==
  StartWatching(o) \/ StopWatching(o) \/ ThreadRuns(o) \/ ReadFails(o) \/ Return(o)

\* The thread's branches as they are in the states it can be in: the failed reads
\* reach their limit only in Retry.
Retried(o) ==
  /\ IF failedTimes[o] < kFailedRetryTimes
       THEN Goto(o, "backoff", "reading") /\ UNCHANGED notifyEvent
       ELSE /\ Goto(o, "backoff", "calling")
            /\ notifyEvent' = [notifyEvent EXCEPT ![o] = "Error"]
  /\ UNCHANGED <<kernelVars, mState, failedTimes, batch, mask, notified>>

Filtered(o) ==
  /\ mState[o] # "Stopped"
  /\ Goto(o, "checking",
          IF Wanted(notifyEvent[o]) THEN "calling"
          ELSE IF notifyEvent[o] = "Delete" THEN "closing" ELSE "draining")
  /\ UNCHANGED <<kernelVars, mState, failedTimes, batch, mask, notifyEvent, notified>>

Returned(o) ==
  /\ Goto(o, "inDelegate", IF notifyEvent[o] \in Terminal THEN "closing" ELSE "draining")
  /\ UNCHANGED <<kernelVars, mState, failedTimes, batch, mask, notifyEvent, notified>>

PlainStepOf(o) ==
  \/ StartWatching(o) \/ StopWatching(o) \/ SetupFails(o) \/ Setup(o) \/ Read(o)
  \/ ReadFails(o) \/ Retried(o) \/ Settle(o) \/ Dequeue(o) \/ BatchDone(o) \/ Skip(o)
  \/ Filtered(o) \/ CallDelegate(o) \/ Returned(o) \/ Close(o)

LEMMA PlainSteps ==
  ASSUME ObserverInv, NEW o \in Observer
  PROVE  /\ Retry(o) => Retried(o)
         /\ Filter(o) => Filtered(o)
         /\ Return(o) => Returned(o)
         /\ StepOf(o) => PlainStepOf(o)
  <1>0. RetriesInv(o) /\ failedTimes[o] \in 0..kFailedRetryTimes /\ kFailedRetryTimes \in Nat
    BY FileObserverAssumption DEF ObserverInv, TypeOK, ThreadTypeOK
  <1>1. Retry(o) => Retried(o)
    <2>1. ~(failedTimes[o] < kFailedRetryTimes) => failedTimes[o] = kFailedRetryTimes
      BY <1>0
    <2> QED
      BY <2>1 DEF Retry, Retried, LeaveLoop
  <1>2. Filter(o) => Filtered(o)
    BY <1>0 DEF Filter, Filtered, AfterEvent, LeaveLoop, RetriesInv, Goto
  <1>3. Return(o) => Returned(o)
    BY <1>0 DEF Return, Returned, AfterEvent, LeaveLoop, RetriesInv, Goto, Terminal
  <1> QED
    BY <1>1, <1>2, <1>3 DEF StepOf, ThreadRuns, PlainStepOf

LEMMA RetriedTypes ==
  ASSUME NEW o \in Observer,
         thread \in [Observer -> ThreadState], notifyEvent \in [Observer -> Event],
         {"reading", "calling"} \subseteq ThreadState, "Error" \in Event,
         \/ thread' = [thread EXCEPT ![o] = "reading"] /\ UNCHANGED notifyEvent
         \/ /\ thread' = [thread EXCEPT ![o] = "calling"]
            /\ notifyEvent' = [notifyEvent EXCEPT ![o] = "Error"]
  PROVE  thread' \in [Observer -> ThreadState] /\ notifyEvent' \in [Observer -> Event]
OBVIOUS

LEMMA OwnTypes ==
  ASSUME ObserverInv, NEW o \in Observer, StepOf(o)
  PROVE  TypeOK'
  <1>0. KernelTypeOK /\ ThreadTypeOK /\ RetriesInv(o)
    BY DEF ObserverInv, TypeOK
  <1> USE <1>0 DEF TypeOK, ThreadTypeOK, KernelTypeOK, kernelVars, Goto
  <1>1. CASE StartWatching(o)
    BY <1>1 DEF StartWatching, ThreadState
  <1>2. CASE StopWatching(o)
    BY <1>2 DEF StopWatching, ThreadState
  <1>3. CASE SetupFails(o)
    BY <1>3 DEF SetupFails, ThreadState
  <1>4. CASE Setup(o)
    BY <1>4, InotifyAssumption DEF Setup, ThreadState, AddWatch
  <1>5. CASE Read(o)
    BY <1>5, ReadTypes DEF Read, ReadEvents, ThreadState
  <1>6. CASE Retried(o)
    <2>1. "Error" \in Event /\ {"reading", "calling"} \subseteq ThreadState
      BY DEF Event, ThreadState
    <2>2. \/ thread' = [thread EXCEPT ![o] = "reading"] /\ UNCHANGED notifyEvent
          \/ /\ thread' = [thread EXCEPT ![o] = "calling"]
             /\ notifyEvent' = [notifyEvent EXCEPT ![o] = "Error"]
      BY <1>6 DEF Retried
    <2>3. UNCHANGED <<kernelVars, mState, failedTimes, batch, mask, notified>>
      BY <1>6 DEF Retried
    <2> QED
      BY <2>1, <2>2, <2>3, RetriedTypes
  <1>7. CASE Settle(o)
    BY <1>7 DEF Settle, ThreadState
  <1>8. CASE Dequeue(o)
    <2>1. Head(batch[o]) \in Mask /\ Tail(batch[o]) \in Seq(Mask)
      BY <1>8 DEF Dequeue
    <2> QED
      BY <1>8, <2>1, ClassifyType DEF Dequeue, ThreadState
  <1>9. CASE BatchDone(o)
    BY <1>9 DEF BatchDone, ThreadState
  <1>10. CASE Skip(o)
    BY <1>10 DEF Skip, ThreadState
  <1>11. CASE Filtered(o)
    BY <1>11 DEF Filtered, ThreadState
  <1>12. CASE CallDelegate(o)
    <2>1. [event |-> notifyEvent[o], mask |-> mask[o], inode |-> watch[o],
           state |-> mState[o]] \in Call
      BY DEF Call
    <2> QED
      BY <1>12, <2>1 DEF CallDelegate, ThreadState
  <1>13. CASE Close(o)
    BY <1>13, InotifyAssumption DEF Close, ThreadState, CloseDescriptor
  <1>14. CASE ReadFails(o)
    <2>1. thread[o] = "reading" /\ RetriesInv(o)
      BY <1>14 DEF ReadFails
    <2>2. failedTimes[o] # kFailedRetryTimes
      BY <2>1 DEF RetriesInv
    <2>3. failedTimes[o] + 1 \in 0..kFailedRetryTimes
      BY <2>2, FileObserverAssumption
    <2> QED
      BY <1>14, <2>3 DEF ReadFails, ThreadState
  <1>15. CASE Returned(o)
    BY <1>15 DEF Returned, ThreadState
  <1> QED
    BY <1>1, <1>2, <1>3, <1>4, <1>5, <1>6, <1>7, <1>8, <1>9, <1>10, <1>11, <1>12, <1>13, <1>14,
       <1>15, PlainSteps
    DEF PlainStepOf

-----------------------------------------------------------------------------
(* The parts of the invariant, under a step of one observer. *)

\* The others keep all that is theirs.
LEMMA OthersKeep ==
  ASSUME ObserverInv, NEW o \in Observer, NEW p \in Observer, p # o, StepOf(o)
  PROVE  /\ mState'[p] = mState[p] /\ thread'[p] = thread[p]
         /\ failedTimes'[p] = failedTimes[p] /\ batch'[p] = batch[p]
         /\ notifyEvent'[p] = notifyEvent[p] /\ notified'[p] = notified[p]
         /\ watch'[p] = watch[p] /\ kq'[p] = kq[p] /\ mask'[p] = mask[p]
  <1>0. KernelTypeOK /\ ThreadTypeOK
    BY DEF ObserverInv, TypeOK
  <1>1. CASE StartWatching(o) \/ StopWatching(o) \/ SetupFails(o)
    BY <1>0, <1>1 DEF Goto, kernelVars, ThreadTypeOK, StartWatching, StopWatching, SetupFails
  <1>2. CASE Setup(o)
    BY <1>0, <1>2 DEF Goto, ThreadTypeOK, KernelTypeOK, Setup, AddWatch
  <1>8. CASE Read(o)
    BY <1>0, <1>8 DEF Goto, ThreadTypeOK, KernelTypeOK, Read, ReadEvents
  <1>3. CASE ReadFails(o) \/ Retried(o)
    BY <1>0, <1>3 DEF Goto, kernelVars, ThreadTypeOK, ReadFails, Retried
  <1>4. CASE Settle(o) \/ Dequeue(o) \/ BatchDone(o)
    BY <1>0, <1>4 DEF Goto, kernelVars, ThreadTypeOK, Settle, Dequeue, BatchDone
  <1>5. CASE Skip(o) \/ Filtered(o) \/ Returned(o)
    BY <1>0, <1>5 DEF Goto, kernelVars, ThreadTypeOK, Skip, Filtered, Returned
  <1>6. CASE CallDelegate(o)
    BY <1>0, <1>6 DEF Goto, kernelVars, ThreadTypeOK, CallDelegate
  <1>7. CASE Close(o)
    BY <1>0, <1>7 DEF Goto, ThreadTypeOK, KernelTypeOK, Close, CloseDescriptor
  <1> QED
    BY <1>1, <1>2, <1>3, <1>4, <1>5, <1>6, <1>7, <1>8, PlainSteps DEF PlainStepOf

LEMMA KernelKeeps ==
  ASSUME NEW o \in Observer, StepOf(o)
  PROVE  link' = link /\ installs' = installs /\ open' = open
  BY DEF StepOf, ThreadRuns, kernelVars, StartWatching, StopWatching, SetupFails, Setup, AddWatch,
         Read, ReadEvents, Retry, Settle, Dequeue, BatchDone, Skip, Filter, CallDelegate, Close,
         CloseDescriptor, ReadFails, Return

LEMMA OwnRetries ==
  ASSUME ObserverInv, NEW o \in Observer, StepOf(o)
  PROVE  RetriesInv(o)'
  <1> USE DEF Goto, ObserverInv, TypeOK, ThreadTypeOK, RetriesInv
  <1>1. CASE StartWatching(o) \/ StopWatching(o) \/ SetupFails(o) \/ Setup(o) \/ Read(o)
    BY <1>1, FileObserverAssumption DEF StartWatching, StopWatching, SetupFails, Setup, Read
  <1>2. CASE ReadFails(o) \/ Settle(o) \/ BatchDone(o) \/ Dequeue(o)
    BY <1>2, FileObserverAssumption DEF ReadFails, Settle, BatchDone, Dequeue
  <1>4. CASE Retried(o)
    BY <1>4, FileObserverAssumption DEF Retried
  <1>3. CASE Skip(o) \/ Filtered(o) \/ Returned(o)
    BY <1>3 DEF Skip, Filtered, Returned, Terminal
  <1>5. CASE CallDelegate(o) \/ Close(o)
    BY <1>5 DEF CallDelegate, Close
  <1> QED
    BY <1>1, <1>2, <1>3, <1>4, <1>5, PlainSteps DEF PlainStepOf

LEMMA OwnWatch ==
  ASSUME ObserverInv, NEW o \in Observer, StepOf(o)
  PROVE  WatchInv(o)'
  <1>0. KernelTypeOK /\ ThreadTypeOK /\ WatchInv(o) /\ link <= installs
    BY DEF ObserverInv, TypeOK
  <1> USE DEF Goto, kernelVars, ThreadTypeOK, WatchInv, Unwatched
  <1>1. CASE Setup(o)
    BY <1>0, <1>1, InotifyAssumption DEF Setup, AddWatch, Exists, KernelTypeOK
  <1>2. CASE Read(o)
    BY <1>0, <1>2 DEF Read, ReadEvents
  <1>3. CASE Filtered(o) \/ Returned(o)
    BY <1>0, <1>3 DEF Filtered, Returned
  <1>4. CASE Close(o)
    BY <1>0, <1>4, InotifyAssumption DEF Close, CloseDescriptor, KernelTypeOK
  <1>5. CASE StartWatching(o) \/ StopWatching(o) \/ SetupFails(o)
    BY <1>0, <1>5 DEF StartWatching, StopWatching, SetupFails
  <1>6. CASE Retried(o) \/ Settle(o) \/ ReadFails(o)
    BY <1>0, <1>6 DEF Retried, Settle, ReadFails
  <1>7. CASE Dequeue(o) \/ BatchDone(o)
    BY <1>0, <1>7 DEF Dequeue, BatchDone
  <1>8. CASE Skip(o) \/ CallDelegate(o)
    BY <1>0, <1>8 DEF Skip, CallDelegate
  <1> QED
    BY <1>1, <1>2, <1>3, <1>4, <1>5, <1>6, <1>7, <1>8, PlainSteps DEF PlainStepOf

\* Reading moves announcements from one queue to the other, and makes none up.
LEMMA ReadAnnounces ==
  ASSUME ObserverInv, NEW o \in Observer, Read(o)
  PROVE  Announces(kq'[o]) \/ Announces(batch'[o]) => Announces(kq[o])
  <1> DEFINE n == Smaller(Len(kq[o]), BufferEvents)
             read == SubSeq(kq[o], 1, n)
             rest == SubSeq(kq[o], n + 1, Len(kq[o]))
  <1>1. kq[o] \in Seq(Mask) /\ Len(kq[o]) \in Nat
    BY DEF ObserverInv, TypeOK, KernelTypeOK
  <1>2. n \in 0..Len(kq[o])
    BY <1>1, FileObserverAssumption DEF Smaller
  <1> HIDE DEF n
  <1>3. Len(read) = n /\ \A i \in 1..n : read[i] = kq[o][i]
    BY <1>1, <1>2
  <1>4. Len(rest) = Len(kq[o]) - n /\ \A i \in 1..(Len(kq[o]) - n) : rest[i] = kq[o][n + i]
    BY <1>1, <1>2
  <1>5. kq'[o] = rest /\ batch'[o] = read
    BY DEF Read, ReadEvents, n, ObserverInv, TypeOK, KernelTypeOK, ThreadTypeOK
  <1>6. ASSUME Announces(read) PROVE Announces(kq[o])
    BY <1>1, <1>2, <1>3, <1>6 DEF Announces
  <1>7. ASSUME Announces(rest) PROVE Announces(kq[o])
    <2>1. PICK i \in 1..(Len(kq[o]) - n) : rest[i] = "DELETE_SELF"
      BY <1>4, <1>7 DEF Announces
    <2>2. n + i \in 1..Len(kq[o]) /\ kq[o][n + i] = "DELETE_SELF"
      BY <1>1, <1>2, <1>4, <2>1
    <2> QED
      BY <2>2 DEF Announces
  <1> QED
    BY <1>5, <1>6, <1>7

LEMMA DequeueAnnounces ==
  ASSUME ObserverInv, NEW o \in Observer, Dequeue(o)
  PROVE  /\ Announces(batch'[o]) => Announces(batch[o])
         /\ Head(batch[o]) = "DELETE_SELF" => Announces(batch[o])
  <1>1. batch[o] \in Seq(Mask) /\ batch[o] # <<>> /\ batch'[o] = Tail(batch[o])
    BY DEF Dequeue, ObserverInv, TypeOK, ThreadTypeOK
  <1>2. Len(batch[o]) \in Nat /\ Len(batch[o]) >= 1 /\ Head(batch[o]) = batch[o][1]
    BY <1>1
  <1>3. /\ Len(Tail(batch[o])) = Len(batch[o]) - 1
        /\ \A i \in 1..(Len(batch[o]) - 1) : Tail(batch[o])[i] = batch[o][i + 1]
    BY <1>1
  <1>4. Head(batch[o]) = "DELETE_SELF" => Announces(batch[o])
    BY <1>2 DEF Announces
  <1>5. ASSUME Announces(Tail(batch[o])) PROVE Announces(batch[o])
    <2>1. PICK i \in 1..(Len(batch[o]) - 1) : Tail(batch[o])[i] = "DELETE_SELF"
      BY <1>3, <1>5 DEF Announces
    <2>2. i + 1 \in 1..Len(batch[o]) /\ batch[o][i + 1] = "DELETE_SELF"
      BY <1>2, <1>3, <2>1
    <2> QED
      BY <2>2 DEF Announces
  <1> QED
    BY <1>1, <1>4, <1>5

LEMMA EmptyAnnouncesNothing == ~Announces(<<>>)
  BY DEF Announces

\* CLOSE_NOWRITE is classified as Delete when the path is empty, DELETE_SELF always.
LEMMA ClassifiedDelete ==
  \A m \in Mask : Classify(m) = "Delete" => m = "DELETE_SELF" \/ ~Exists
  BY DEF Classify, EventOf

LEMMA OwnGone ==
  ASSUME ObserverInv, NEW o \in Observer, StepOf(o)
  PROVE  GoneInv(o)'
  <1> USE DEF Goto, kernelVars
  <1>0. /\ link' = link /\ installs' = installs
        /\ GoneInv(o) /\ WatchInv(o) /\ TypeOK
    BY KernelKeeps DEF ObserverInv
  <1>1. CASE Setup(o)
    <2>1. kq'[o] = <<>> /\ batch'[o] = <<>> /\ notified' = notified
          /\ thread'[o] = "reading"
      BY <1>1, <1>0 DEF Setup, AddWatch, WatchInv, Unwatched, TypeOK, ThreadTypeOK
    <2> QED
      BY <1>0, <2>1, EmptyAnnouncesNothing DEF GoneInv
  <1>2. CASE Read(o)
    <2>1. /\ watch' = watch /\ notified' = notified /\ thread'[o] = "settling"
      BY <1>2, <1>0 DEF Read, ReadEvents, TypeOK, ThreadTypeOK
    <2> QED
      BY <1>0, <1>2, <2>1, ReadAnnounces DEF GoneInv
  <1>3. CASE Dequeue(o)
    <2>1. /\ watch' = watch /\ notified' = notified /\ thread'[o] = "checking"
          /\ kq' = kq /\ notifyEvent'[o] = Classify(Head(batch[o]))
          /\ Head(batch[o]) \in Mask
      BY <1>3, <1>0 DEF Dequeue, TypeOK, ThreadTypeOK
    <2>2. watch[o] # 0
      BY <1>0, <1>3 DEF Dequeue, WatchInv, Unwatched
    <2>3. Classify(Head(batch[o])) = "Delete" => watch[o] # link
      BY <1>0, <1>3, <2>1, <2>2, ClassifiedDelete, DequeueAnnounces DEF GoneInv, Exists
    <2> QED
      BY <1>0, <1>3, <2>1, <2>3, DequeueAnnounces DEF GoneInv
  <1>4. CASE CallDelegate(o)
    <2> DEFINE call == [event |-> notifyEvent[o], mask |-> mask[o],
                        inode |-> watch[o], state |-> mState[o]]
    <2>1. /\ watch' = watch /\ kq' = kq /\ batch' = batch
          /\ thread'[o] = "inDelegate" /\ notified'[o] = Append(notified[o], call)
      BY <1>4, <1>0 DEF CallDelegate, TypeOK, ThreadTypeOK
    <2>2. call.inode \in 1..installs /\ (call.event = "Delete" => call.inode # link)
      BY <1>0, <1>4 DEF CallDelegate, GoneInv, WatchInv, Unwatched, TypeOK, KernelTypeOK
    <2>3. notified[o] \in Seq(Call)
      BY <1>0 DEF TypeOK, ThreadTypeOK
    <2> HIDE DEF call
    <2>4. /\ Len(notified'[o]) = Len(notified[o]) + 1 /\ Len(notified[o]) \in Nat
          /\ \A i \in 1..Len(notified[o]) : notified'[o][i] = notified[o][i]
          /\ notified'[o][Len(notified[o]) + 1] = call
      BY <2>1, <2>3
    <2>5. \A i \in 1..Len(notified'[o]) :
            /\ notified'[o][i].inode \in 1..installs
            /\ notified'[o][i].event = "Delete" => notified'[o][i].inode # link
      <3> SUFFICES ASSUME NEW i \in 1..Len(notified'[o])
                   PROVE  /\ notified'[o][i].inode \in 1..installs
                          /\ notified'[o][i].event = "Delete" => notified'[o][i].inode # link
        OBVIOUS
      <3>1. CASE i = Len(notified[o]) + 1
        BY <2>2, <2>4, <3>1
      <3>2. CASE i # Len(notified[o]) + 1
        <4>1. i \in 1..Len(notified[o])
          BY <2>4, <3>2
        <4> QED
          BY <1>0, <2>4, <4>1 DEF GoneInv
      <3> QED
        BY <3>1, <3>2
    <2> QED
      BY <1>0, <2>1, <2>5 DEF GoneInv
  <1>5. CASE Skip(o)
    <2>1. /\ batch'[o] = <<>> /\ notified' = notified /\ thread'[o] = "reading"
          /\ watch' = watch /\ kq' = kq
      BY <1>5, <1>0 DEF Skip, TypeOK, ThreadTypeOK
    <2> QED
      BY <1>0, <2>1, EmptyAnnouncesNothing DEF GoneInv
  <1>8. CASE Close(o)
    <2>1. /\ batch'[o] = <<>> /\ notified' = notified /\ thread'[o] = "ended"
          /\ kq'[o] = <<>>
      BY <1>8, <1>0 DEF Close, CloseDescriptor, TypeOK, ThreadTypeOK, KernelTypeOK
    <2> QED
      BY <1>0, <2>1, EmptyAnnouncesNothing DEF GoneInv
  <1>6. CASE Filtered(o) \/ Returned(o) \/ Retried(o)
    BY <1>0, <1>6 DEF Filtered, Returned, Retried, GoneInv, TypeOK, ThreadTypeOK
  <1>7. CASE \/ StartWatching(o) \/ StopWatching(o) \/ SetupFails(o) \/ Settle(o)
             \/ BatchDone(o) \/ ReadFails(o)
    BY <1>0, <1>7 DEF StartWatching, StopWatching, SetupFails, Settle, BatchDone, ReadFails,
                      GoneInv, TypeOK, ThreadTypeOK
  <1> QED
    BY <1>1, <1>2, <1>3, <1>4, <1>5, <1>6, <1>7, <1>8, PlainSteps DEF PlainStepOf
LEMMA OwnTerminal ==
  ASSUME ObserverInv, NEW o \in Observer, StepOf(o)
  PROVE  TerminalInv(o)'
  <1> USE DEF Goto
  <1>0. TerminalInv(o) /\ TypeOK /\ notified[o] \in Seq(Call)
    BY DEF ObserverInv, TypeOK, ThreadTypeOK
  <1>1. CASE CallDelegate(o)
    <2> DEFINE call == [event |-> notifyEvent[o], mask |-> mask[o],
                        inode |-> watch[o], state |-> mState[o]]
    <2>1. /\ thread[o] = "calling" /\ thread'[o] = "inDelegate"
          /\ notifyEvent' = notifyEvent /\ notified'[o] = Append(notified[o], call)
      BY <1>1, <1>0 DEF CallDelegate, TypeOK, ThreadTypeOK
    <2>2. call.event = notifyEvent[o]
      OBVIOUS
    <2> HIDE DEF call
    <2>3. /\ Len(notified'[o]) = Len(notified[o]) + 1 /\ Len(notified[o]) \in Nat
          /\ \A i \in 1..Len(notified[o]) : notified'[o][i] = notified[o][i]
          /\ notified'[o][Len(notified[o]) + 1] = call /\ notified'[o] # <<>>
      BY <2>1, <1>0
    <2>4. \A i \in 1..Len(notified[o]) : notified[o][i].event \notin Terminal
      BY <1>0, <2>1 DEF TerminalInv, Heard
    <2>5. \A i \in 1..Len(notified'[o]) :
            notified'[o][i].event \in Terminal => i = Len(notified'[o])
      BY <2>3, <2>4
    <2> QED
      BY <2>1, <2>2, <2>3, <2>5 DEF TerminalInv
  <1>2. CASE Dequeue(o)
    <2>1. /\ notified' = notified /\ thread[o] = "draining" /\ thread'[o] = "checking"
          /\ notifyEvent'[o] = Classify(Head(batch[o])) /\ Head(batch[o]) \in Mask
      BY <1>2, <1>0 DEF Dequeue, TypeOK, ThreadTypeOK
    <2> QED
      BY <1>0, <2>1, ClassifyType DEF TerminalInv, Heard
  <1>3. CASE Returned(o)
    <2>1. /\ notified' = notified /\ thread[o] = "inDelegate"
          /\ thread'[o] \in {"closing", "draining"}
          /\ thread'[o] = "draining" => notifyEvent[o] \notin Terminal
      BY <1>3, <1>0 DEF Returned, Terminal, TypeOK, ThreadTypeOK
    <2>2. thread'[o] = "draining" => ~Heard(o)
      BY <1>0, <2>1 DEF TerminalInv, Heard
    <2> QED
      BY <1>0, <2>1, <2>2 DEF TerminalInv, Heard
  <1>4. CASE Filtered(o) \/ Retried(o) \/ Skip(o) \/ Close(o)
    <2>1. /\ notified' = notified /\ thread'[o] \notin {"checking", "inDelegate"}
          /\ \/ thread[o] = "closing" /\ thread'[o] = "ended"
             \/ thread[o] \in {"checking", "backoff"}
      BY <1>4, <1>0 DEF Filtered, Retried, Skip, Close, TypeOK, ThreadTypeOK
    <2> QED
      BY <1>0, <2>1 DEF TerminalInv, Heard
  <1>5. CASE \/ StartWatching(o) \/ StopWatching(o) \/ SetupFails(o) \/ Setup(o) \/ Read(o)
             \/ Settle(o) \/ BatchDone(o) \/ ReadFails(o)
    BY <1>5, <1>0 DEF StartWatching, StopWatching, SetupFails, Setup, Read, Settle, BatchDone,
                      ReadFails, TerminalInv, Heard, TypeOK, ThreadTypeOK
  <1> QED
    BY <1>1, <1>2, <1>3, <1>4, <1>5, PlainSteps DEF PlainStepOf

LEMMA OwnLate ==
  ASSUME ObserverInv, NEW o \in Observer, StepOf(o)
  PROVE  LateInv(o)'
  <1> USE DEF Goto
  <1>0. LateInv(o) /\ TerminalInv(o) /\ TypeOK /\ notified[o] \in Seq(Call)
    BY DEF ObserverInv, TypeOK, ThreadTypeOK
  <1>1. CASE CallDelegate(o)
    <2> DEFINE call == [event |-> notifyEvent[o], mask |-> mask[o],
                        inode |-> watch[o], state |-> mState[o]]
    <2>1. /\ thread[o] = "calling" /\ thread'[o] = "inDelegate" /\ mState' = mState
          /\ notified'[o] = Append(notified[o], call)
      BY <1>1, <1>0 DEF CallDelegate, TypeOK, ThreadTypeOK
    <2>2. call.event = notifyEvent[o] /\ call.state = mState[o]
      OBVIOUS
    <2> HIDE DEF call
    <2>3. /\ Len(notified'[o]) = Len(notified[o]) + 1 /\ Len(notified[o]) \in Nat
          /\ \A i \in 1..Len(notified[o]) : notified'[o][i] = notified[o][i]
          /\ notified'[o][Len(notified[o]) + 1] = call
      BY <2>1, <1>0
    <2>4. ASSUME NEW i \in 1..Len(notified[o]), Late(o, i)
          PROVE  call.event = "Error" /\ mState[o] = "Stopped"
      BY <1>0, <2>1, <2>2, <2>4 DEF LateInv
    <2>5. ASSUME NEW i \in 1..Len(notified'[o]), Late(o, i)'
          PROVE  \/ i \in 1..Len(notified[o]) /\ Late(o, i)
                 \/ i = Len(notified[o]) + 1 /\ call.event # "Error" /\ mState[o] = "Stopped"
      <3>1. notified'[o][i].state = "Stopped" /\ notified'[o][i].event # "Error"
        BY <2>5 DEF Late
      <3>2. CASE i = Len(notified[o]) + 1
        BY <2>2, <2>3, <3>1, <3>2
      <3>3. CASE i # Len(notified[o]) + 1
        <4>1. i \in 1..Len(notified[o])
          BY <2>3, <3>3
        <4> QED
          BY <2>3, <3>1, <4>1 DEF Late
      <3> QED
        BY <3>2, <3>3
    <2>6. ASSUME NEW i \in 1..Len(notified'[o]), NEW j \in 1..Len(notified'[o]),
                 Late(o, i)', Late(o, j)'
          PROVE  i = j
      BY <1>0, <2>4, <2>5, <2>6 DEF LateInv
    <2>7. ASSUME NEW i \in 1..Len(notified'[o]), Late(o, i)'
          PROVE  mState'[o] = "Stopped"
      BY <2>1, <2>4, <2>5, <2>7
    <2> QED
      BY <2>1, <2>6, <2>7 DEF LateInv
  <1>2. CASE Filtered(o) \/ Retried(o)
    BY <1>2, <1>0 DEF Filtered, Retried, LateInv, Late, TypeOK, ThreadTypeOK
  <1>3. CASE StartWatching(o) \/ StopWatching(o)
    BY <1>3, <1>0 DEF StartWatching, StopWatching, LateInv, Late, TypeOK, ThreadTypeOK
  <1>4. CASE \/ SetupFails(o) \/ Setup(o) \/ Read(o) \/ Settle(o) \/ Dequeue(o)
             \/ BatchDone(o) \/ ReadFails(o) \/ Returned(o) \/ Skip(o) \/ Close(o)
    <2>1. notified' = notified /\ mState' = mState /\ thread'[o] # "calling"
      BY <1>4, <1>0 DEF SetupFails, Setup, Read, Settle, Dequeue, BatchDone, ReadFails, Returned,
                        Skip, Close, TypeOK, ThreadTypeOK
    <2> QED
      BY <1>0, <2>1 DEF LateInv, Late
  <1> QED
    BY <1>1, <1>2, <1>3, <1>4, PlainSteps DEF PlainStepOf

\* The thread winds up only with a terminal event delivered.
LEMMA OwnEnd ==
  ASSUME ObserverInv, NEW o \in Observer, StepOf(o)
  PROVE  NoSilentEnd'
  <1> SUFFICES ASSUME EventFilter = {} \/ "Delete" \in EventFilter,
                      NEW p \in Observer, thread'[p] \in {"closing", "ended"}
               PROVE  notified'[p] # <<>> /\ notified'[p][Len(notified'[p])].event \in Terminal
    BY DEF NoSilentEnd
  <1> USE DEF Goto
  <1>0. /\ TerminalInv(o) /\ TypeOK
        /\ \A q \in Observer : thread[q] \in {"closing", "ended"} =>
             notified[q] # <<>> /\ notified[q][Len(notified[q])].event \in Terminal
    BY DEF ObserverInv, NoSilentEnd
  <1>1. CASE p # o
    BY <1>0, <1>1, OthersKeep
  <1>2. CASE p = o
    <2>1. CASE Returned(o)
      <3>1. /\ notified' = notified /\ thread[o] = "inDelegate"
            /\ thread'[o] = "closing" => notifyEvent[o] \in Terminal
            /\ thread'[o] \in {"closing", "draining"}
        BY <2>1, <1>0 DEF Returned, Terminal, TypeOK, ThreadTypeOK
      <3> QED
        BY <1>0, <1>2, <3>1 DEF TerminalInv
    <2>2. CASE Filtered(o)
      <3>1. thread'[o] \in {"calling", "draining"}
        BY <2>2, <1>0 DEF Filtered, Wanted, TypeOK, ThreadTypeOK
      <3> QED
        BY <1>2, <3>1
    <2>3. CASE Close(o)
      BY <2>3, <1>0, <1>2 DEF Close, TypeOK, ThreadTypeOK
    <2>4. CASE StopWatching(o)
      BY <2>4, <1>0, <1>2 DEF StopWatching, TypeOK, ThreadTypeOK
    <2>5. CASE \/ StartWatching(o) \/ SetupFails(o) \/ Setup(o) \/ Read(o) \/ Settle(o)
               \/ Dequeue(o) \/ BatchDone(o) \/ ReadFails(o) \/ Skip(o) \/ Retried(o)
               \/ CallDelegate(o)
      BY <2>5, <1>0, <1>2 DEF StartWatching, SetupFails, Setup, Read, Settle, Dequeue, BatchDone,
                        ReadFails, Skip, Retried, CallDelegate, TypeOK, ThreadTypeOK
    <2> QED
      BY <2>1, <2>2, <2>3, <2>4, <2>5, PlainSteps DEF PlainStepOf
  <1> QED
    BY <1>1, <1>2

-----------------------------------------------------------------------------
(* The parts of the invariant, under a step of the world. *)

\* Posting leaves the descriptors elsewhere alone, and what it adds for the
\* others is what Grown says.
LEMMA PostKeeps ==
  ASSUME NEW grown, NEW inode, Post(inode, grown), NEW o \in Observer
  PROVE  kq'[o] = IF watch[o] = inode THEN grown[o] ELSE kq[o]
  BY DEF Post

\* A queue hears of a deletion only when its directory leaves the path.
LEMMA KernelAnnounces ==
  ASSUME ObserverInv, KernelNext, NEW o \in Observer,
         Announces(kq'[o]), ~Announces(kq[o])
  PROVE  watch[o] # link'
  <1>0. /\ kq \in [Observer -> Seq(Mask)] /\ link \in Nat /\ open \subseteq Inode
        /\ "OPEN" \in Mask /\ "CLOSE_NOWRITE" \in Mask /\ 0 \notin Inode
    BY DEF ObserverInv, TypeOK, KernelTypeOK, Mask, Inode
  <1>1. ASSUME NEW m \in Mask, m # "DELETE_SELF", NEW inode,
               Post(inode, [p \in Observer |-> Push(kq[p], m)])
        PROVE  FALSE
    <2>1. kq'[o] \in {Push(kq[o], m), kq[o]}
      BY <1>1, PostKeeps
    <2>2. kq[o] \in Seq(Mask)
      BY <1>0
    <2>3. Announces(Push(kq[o], m)) => Announces(kq[o])
      BY <1>1, <2>2, PushQueue
    <2> QED
      BY <2>1, <2>3
  <1>2. CASE OpenDir
    <2>1. Post(link, [p \in Observer |-> Push(kq[p], "OPEN")])
      BY <1>2 DEF OpenDir
    <2> QED
      BY <1>0, <1>1, <2>1
  <1>3. CASE Uninstall
    BY <1>0, <1>3, PostKeeps DEF Uninstall, Exists
  <1>4. CASE Install
    BY <1>4 DEF Install
  <1>5. ASSUME NEW m \in TouchMask, Touch(m) PROVE watch[o] # link'
    <2>1. m \in Mask /\ m # "DELETE_SELF"
      BY InotifyAssumption
    <2>2. Post(link, [p \in Observer |-> Push(kq[p], m)])
      BY <1>5 DEF Touch
    <2> QED
      BY <1>1, <2>1, <2>2
  <1>6. ASSUME NEW inode \in open, CloseDir(inode) PROVE watch[o] # link'
    <2> DEFINE closed == [p \in Observer |-> Push(kq[p], "CLOSE_NOWRITE")]
    <2>1. link' = link
      BY <1>6 DEF CloseDir
    <2>2. CASE inode = link
      <3>1. Post(inode, closed)
        BY <1>6, <2>2 DEF CloseDir
      <3> QED
        BY <1>0, <1>1, <3>1
    <2>3. CASE inode # link
      <3>1. Post(inode, [p \in Observer |-> PushGone(closed[p])])
        BY <1>6, <2>3 DEF CloseDir
      <3>2. watch[o] # inode => kq'[o] = kq[o]
        BY <3>1, PostKeeps
      <3> QED
        BY <2>1, <2>3, <3>2
    <2> QED
      BY <2>2, <2>3
  <1> QED
    BY <1>2, <1>3, <1>4, <1>5, <1>6 DEF KernelNext

LEMMA KernelMoves ==
  ASSUME ObserverInv, KernelNext
  PROVE  /\ watch' = watch /\ installs' \in Nat
         /\ \/ link' \in {link, 0}
            \/ link' = installs + 1 /\ installs' = installs + 1
         /\ installs' \in {installs, installs + 1}
         /\ link' <= installs' /\ open' \subseteq 1..installs'
  <1>0. /\ link \in 0..MaxInstalls /\ installs \in 0..MaxInstalls /\ MaxInstalls \in Nat
        /\ link <= installs /\ open \subseteq 1..installs
    BY InotifyAssumption DEF ObserverInv, TypeOK, KernelTypeOK
  <1>1. CASE OpenDir
    <2>1. /\ watch' = watch /\ link' = link /\ installs' = installs
          /\ open' = open \cup {link} /\ link # 0
      BY <1>1 DEF OpenDir, Exists
    <2>2. link \in 1..installs
      BY <1>0, <2>1
    <2>3. installs' \in Nat /\ open' \subseteq 1..installs /\ installs' = installs
      BY <1>0, <2>1, <2>2
    <2> QED
      BY <1>0, <2>1, <2>3
  <1>2. CASE Uninstall
    <2>1. link' = 0 /\ watch' = watch /\ installs' = installs /\ open' = open
      BY <1>2 DEF Uninstall
    <2>2. 0 <= installs
      BY <1>0
    <2> QED
      BY <1>0, <2>1, <2>2
  <1>3. CASE Install
    <2>1. link' = installs + 1 /\ installs' = installs + 1 /\ watch' = watch /\ open' = open
      BY <1>3 DEF Install
    <2>2. 1..installs \subseteq 1..(installs + 1) /\ installs + 1 \in Nat
      BY <1>0
    <2> QED
      BY <1>0, <2>1, <2>2
  <1>4. ASSUME NEW m \in TouchMask, Touch(m)
        PROVE  watch' = watch /\ link' = link /\ installs' = installs /\ open' = open
    BY <1>4 DEF Touch
  <1>5. ASSUME NEW inode \in open, CloseDir(inode)
        PROVE  watch' = watch /\ link' = link /\ installs' = installs /\ open' \subseteq open
    BY <1>5 DEF CloseDir
  <1>6. ASSUME watch' = watch, link' = link, installs' = installs, open' \subseteq open
        PROVE  /\ watch' = watch /\ installs' \in Nat /\ link' = link
               /\ installs' = installs /\ link' <= installs' /\ open' \subseteq 1..installs'
    BY <1>0, <1>6
  <1>7. CASE \E m \in TouchMask : Touch(m)
    BY <1>4, <1>6, <1>7
  <1>8. CASE \E inode \in open : CloseDir(inode)
    BY <1>5, <1>6, <1>8
  <1> QED
    BY <1>1, <1>2, <1>3, <1>7, <1>8 DEF KernelNext

LEMMA KernelIdle ==
  ASSUME ObserverInv, KernelNext, NEW o \in Observer, watch[o] = 0
  PROVE  kq'[o] = kq[o]
  <1>0. \A inode \in open : inode # 0
    BY DEF ObserverInv, TypeOK, KernelTypeOK, Inode
  <1>1. CASE OpenDir
    BY <1>1, PostKeeps DEF OpenDir, Exists
  <1>2. CASE Uninstall
    BY <1>2, PostKeeps DEF Uninstall, Exists
  <1>3. CASE Install
    BY <1>3 DEF Install
  <1>4. ASSUME NEW m \in TouchMask, Touch(m) PROVE kq'[o] = kq[o]
    BY <1>4, PostKeeps DEF Touch, Exists
  <1>5. ASSUME NEW inode \in open, CloseDir(inode) PROVE kq'[o] = kq[o]
    <2>1. \E grown : Post(inode, grown)
      BY <1>5 DEF CloseDir
    <2> QED
      BY <1>0, <1>5, <2>1, PostKeeps
  <1> QED
    BY <1>1, <1>2, <1>3, <1>4, <1>5 DEF KernelNext

LEMMA WorldInv ==
  ASSUME ObserverInv, Environment
  PROVE  ObserverInv'
  <1>0. KernelNext /\ UNCHANGED threadVars
    BY DEF Environment
  <1>1. TypeOK'
    BY <1>0, KernelTypes DEF ObserverInv, TypeOK, ThreadTypeOK, threadVars
  <1>2. ASSUME NEW o \in Observer
        PROVE  RetriesInv(o)' /\ TerminalInv(o)' /\ LateInv(o)'
    BY <1>0 DEF ObserverInv, RetriesInv, TerminalInv, LateInv, Late, Heard, threadVars
  <1>3. ASSUME NEW o \in Observer
        PROVE  WatchInv(o)'
    <2>1. watch[o] \in Nat /\ installs \in Nat
      BY DEF ObserverInv, TypeOK, KernelTypeOK
    <2> QED
      BY <1>0, <2>1, KernelMoves, KernelIdle DEF ObserverInv, WatchInv, threadVars
  <1>4. ASSUME NEW o \in Observer
        PROVE  GoneInv(o)'
    <2>1. /\ WatchInv(o) /\ GoneInv(o)
          /\ watch[o] \in Nat /\ installs \in Nat /\ link \in Nat
      BY DEF ObserverInv, TypeOK, KernelTypeOK
    <2>2. watch'[o] = watch[o] /\ UNCHANGED threadVars
      BY <1>0, KernelMoves
    <2>3. ASSUME NEW inode \in 1..installs, inode # link
          PROVE  inode # link' /\ inode \in 1..installs'
      BY <1>0, <2>1, <2>3, KernelMoves
    <2>4. Announces(kq'[o]) \/ Announces(batch'[o]) => watch'[o] # link'
      <3>1. CASE watch[o] = 0
        BY <1>0, <2>2, <3>1, <2>1, KernelIdle, KernelMoves, EmptyAnnouncesNothing
        DEF WatchInv, threadVars
      <3>2. CASE watch[o] # 0
        <4>1. watch[o] \in 1..installs
          BY <2>1, <3>2 DEF WatchInv
        <4> QED
          BY <1>0, <2>1, <2>2, <2>3, <4>1, KernelAnnounces DEF GoneInv, threadVars
      <3> QED
        BY <3>1, <3>2
    <2>5. thread'[o] \in {"checking", "calling"} /\ notifyEvent'[o] = "Delete" =>
            watch'[o] # link'
      <3> SUFFICES ASSUME thread[o] \in {"checking", "calling"}, notifyEvent[o] = "Delete"
                   PROVE  watch[o] # link'
        BY <2>2 DEF threadVars
      <3>1. watch[o] \in 1..installs /\ watch[o] # link
        BY <2>1 DEF WatchInv, GoneInv, Unwatched
      <3> QED
        BY <2>3, <3>1
    <2>6. ASSUME NEW i \in 1..Len(notified[o])
          PROVE  /\ notified[o][i].inode \in 1..installs'
                 /\ notified[o][i].event = "Delete" => notified[o][i].inode # link'
      <3>1. notified[o][i].inode \in 1..installs
        BY <2>1 DEF GoneInv
      <3>2. notified[o][i].inode \in 1..installs'
        BY <1>0, <2>1, <3>1, KernelMoves
      <3> QED
        BY <2>1, <2>3, <3>1, <3>2 DEF GoneInv
    <2> QED
      BY <2>2, <2>4, <2>5, <2>6 DEF GoneInv, threadVars
  <1>5. NoSilentEnd'
    BY <1>0 DEF ObserverInv, NoSilentEnd, threadVars
  <1> QED
    BY <1>0, <1>1, <1>2, <1>3, <1>4, <1>5, KernelMoves DEF ObserverInv

LEMMA StepInv ==
  ASSUME ObserverInv, NEW o \in Observer, StepOf(o)
  PROVE  ObserverInv'
  <1>1. link' = link /\ installs' = installs /\ open' = open
    BY KernelKeeps
  <1>2. ASSUME NEW p \in Observer, p # o
        PROVE  RetriesInv(p)' /\ WatchInv(p)' /\ GoneInv(p)' /\ TerminalInv(p)' /\ LateInv(p)'
    <2>1. RetriesInv(p) /\ WatchInv(p) /\ GoneInv(p) /\ TerminalInv(p) /\ LateInv(p)
      BY DEF ObserverInv
    <2>0. /\ mState'[p] = mState[p] /\ thread'[p] = thread[p]
          /\ failedTimes'[p] = failedTimes[p] /\ batch'[p] = batch[p]
          /\ notifyEvent'[p] = notifyEvent[p] /\ notified'[p] = notified[p]
          /\ watch'[p] = watch[p] /\ kq'[p] = kq[p]
      BY <1>2, OthersKeep
    <2>2. RetriesInv(p)' /\ WatchInv(p)'
      BY <1>1, <2>0, <2>1 DEF RetriesInv, WatchInv
    <2>3. GoneInv(p)'
      BY <1>1, <2>0, <2>1 DEF GoneInv, Announces
    <2>4. TerminalInv(p)'
      BY <2>0, <2>1 DEF TerminalInv, Heard
    <2>5. LateInv(p)'
      BY <2>0, <2>1 DEF LateInv, Late
    <2> QED
      BY <2>2, <2>3, <2>4, <2>5
  <1>3. ASSUME NEW p \in Observer
        PROVE  RetriesInv(p)' /\ WatchInv(p)' /\ GoneInv(p)' /\ TerminalInv(p)' /\ LateInv(p)'
    BY <1>2, OwnRetries, OwnWatch, OwnGone, OwnTerminal, OwnLate
  <1> QED
    BY <1>1, <1>3, OwnTypes, OwnEnd DEF ObserverInv

LEMMA InitInv == Init => ObserverInv
  <1> SUFFICES ASSUME Init PROVE ObserverInv
    OBVIOUS
  <1> USE InotifyAssumption, FileObserverAssumption DEF Init, KernelInit, ThreadInit
  <1>1. TypeOK
    BY DEF TypeOK, KernelTypeOK, ThreadTypeOK, Mask, Event, ThreadState
  <1>2. ASSUME NEW o \in Observer
        PROVE  RetriesInv(o) /\ WatchInv(o) /\ GoneInv(o) /\ TerminalInv(o) /\ LateInv(o)
    BY EmptyAnnouncesNothing
    DEF RetriesInv, WatchInv, GoneInv, TerminalInv, LateInv, Heard, Unwatched
  <1> QED
    BY <1>1, <1>2 DEF ObserverInv, NoSilentEnd

LEMMA NextInv == ObserverInv /\ [Next]_observerVars => ObserverInv'
  <1> SUFFICES ASSUME ObserverInv, [Next]_observerVars PROVE ObserverInv'
    OBVIOUS
  <1>1. CASE UNCHANGED observerVars
    <2> USE <1>1 DEF observerVars, kernelVars, threadVars
    <2>1. TypeOK'
      BY DEF ObserverInv, TypeOK, KernelTypeOK, ThreadTypeOK
    <2>2. ASSUME NEW o \in Observer
          PROVE  RetriesInv(o)' /\ WatchInv(o)' /\ GoneInv(o)' /\ TerminalInv(o)' /\ LateInv(o)'
      <3>1. RetriesInv(o)' /\ WatchInv(o)'
        BY DEF ObserverInv, RetriesInv, WatchInv
      <3>2. GoneInv(o)'
        BY DEF ObserverInv, GoneInv, Announces
      <3>3. TerminalInv(o)'
        BY DEF ObserverInv, TerminalInv, Heard
      <3>4. LateInv(o)'
        BY DEF ObserverInv, LateInv, Late
      <3> QED
        BY <3>1, <3>2, <3>3, <3>4
    <2>3. NoSilentEnd'
      BY DEF ObserverInv, NoSilentEnd
    <2> QED
      BY <2>1, <2>2, <2>3 DEF ObserverInv
  <1> QED
    BY <1>1, WorldInv, StepInv DEF Next, StepOf

-----------------------------------------------------------------------------
(* What is queued reaches the delegate, all of it and in order: sequences.  *)

Grows(q, r) == \E more \in Seq(Mask) : r = q \o more

LEMMA GrowsBy ==
  ASSUME NEW q \in Seq(Mask), NEW r \in Seq(Mask), Grows(q, r)
  PROVE  /\ SubSeq(r, Len(q) + 1, Len(r)) \in Seq(Mask)
         /\ r = q \o SubSeq(r, Len(q) + 1, Len(r))
  <1>1. PICK more \in Seq(Mask) : r = q \o more
    BY DEF Grows
  <1>2. Len(q) \in Nat /\ Len(more) \in Nat /\ Len(r) = Len(q) + Len(more)
    BY <1>1, ConcatProperties, LenProperties
  <1>3. \A i \in 1..Len(more) : r[Len(q) + i] = more[i]
    <2> TAKE i \in 1..Len(more)
    <2>1. Len(q) + i \in 1..(Len(q) + Len(more)) /\ ~(Len(q) + i <= Len(q))
      BY <1>2
    <2>2. (q \o more)[Len(q) + i] = more[(Len(q) + i) - Len(q)]
      BY <2>1, ConcatProperties
    <2>3. (Len(q) + i) - Len(q) = i
      BY <1>2
    <2> QED
      BY <1>1, <2>2, <2>3
  <1> DEFINE rest == SubSeq(r, Len(q) + 1, Len(r))
  <1>4. /\ rest \in Seq(Mask) /\ Len(rest) = Len(more)
        /\ \A i \in 1..Len(more) : rest[i] = r[Len(q) + i]
    BY <1>2
  <1> HIDE DEF rest
  <1>5. rest = more
    BY <1>3, <1>4, SeqEqual
  <1> QED
    BY <1>1, <1>4, <1>5 DEF rest

LEMMA GrowsOn ==
  ASSUME NEW q \in Seq(Mask), NEW r \in Seq(Mask), NEW s \in Seq(Mask),
         Grows(q, r), Grows(r, s)
  PROVE  Grows(q, s)
  <1>1. PICK more \in Seq(Mask) : r = q \o more
    BY DEF Grows
  <1>2. PICK yet \in Seq(Mask) : s = r \o yet
    BY DEF Grows
  <1>3. s = q \o (more \o yet) /\ more \o yet \in Seq(Mask)
    BY <1>1, <1>2, ConcatAssociative, ConcatProperties
  <1> QED
    BY <1>3 DEF Grows

LEMMA StaysGrows == \A q \in Seq(Mask) : Grows(q, q)
  <1> TAKE q \in Seq(Mask)
  <1>1. q = q \o <<>> /\ <<>> \in Seq(Mask)
    BY ConcatEmptySeq, EmptySeq
  <1> QED
    BY <1>1 DEF Grows

LEMMA PushGrows ==
  ASSUME NEW q \in Seq(Mask), NEW m \in Mask
  PROVE  Push(q, m) \in Seq(Mask) /\ Grows(q, Push(q, m))
  <1>1. ASSUME NEW e \in Mask PROVE Grows(q, Append(q, e))
    <2>1. Append(q, e) = q \o <<e>> /\ <<e>> \in Seq(Mask)
      BY AppendIsConcat
    <2> QED
      BY <2>1 DEF Grows
  <1>2. Push(q, m) \in {q, Append(q, "Q_OVERFLOW"), Append(q, m)}
    BY DEF Push
  <1>3. "Q_OVERFLOW" \in Mask
    BY DEF Mask
  <1> QED
    BY <1>1, <1>2, <1>3, StaysGrows, PushQueue

LEMMA PushGoneGrows == \A q \in Seq(Mask) : Grows(q, PushGone(q))
  <1> TAKE q \in Seq(Mask)
  <1>1. "DELETE_SELF" \in Mask /\ "IGNORED" \in Mask
    BY DEF Mask
  <1> DEFINE gone == Push(q, "DELETE_SELF")
  <1>2. gone \in Seq(Mask) /\ Grows(q, gone)
    BY <1>1, PushGrows
  <1> HIDE DEF gone
  <1>3. Push(gone, "IGNORED") \in Seq(Mask) /\ Grows(gone, Push(gone, "IGNORED"))
    BY <1>1, <1>2, PushGrows
  <1>4. PushGone(q) = Push(gone, "IGNORED")
    BY DEF PushGone, gone
  <1> QED
    BY <1>2, <1>3, <1>4, GrowsOn

\* The kernel only ever adds to the end of a queue.
LEMMA KernelGrows ==
  ASSUME ObserverInv, KernelNext, NEW o \in Observer
  PROVE  Grows(kq[o], kq'[o])
  <1>0. /\ kq[o] \in Seq(Mask) /\ Grows(kq[o], kq[o])
        /\ "OPEN" \in Mask /\ "CLOSE_NOWRITE" \in Mask
    BY StaysGrows DEF ObserverInv, TypeOK, KernelTypeOK, Mask
  <1>1. ASSUME NEW m \in Mask, NEW inode, Post(inode, [p \in Observer |-> Push(kq[p], m)])
        PROVE  Grows(kq[o], kq'[o])
    <2>1. kq'[o] \in {Push(kq[o], m), kq[o]}
      BY <1>1, PostKeeps
    <2> QED
      BY <1>0, <2>1, PushGrows
  <1>2. CASE OpenDir
    <2>1. Post(link, [p \in Observer |-> Push(kq[p], "OPEN")])
      BY <1>2 DEF OpenDir
    <2> QED
      BY <1>0, <1>1, <2>1
  <1>3. CASE Uninstall
    <2>1. \/ kq' = kq
          \/ Post(link, [p \in Observer |-> PushGone(kq[p])])
      BY <1>3 DEF Uninstall
    <2>2. kq'[o] \in {PushGone(kq[o]), kq[o]}
      BY <2>1, PostKeeps
    <2> QED
      BY <1>0, <2>2, PushGoneGrows
  <1>4. CASE Install
    BY <1>0, <1>4 DEF Install
  <1>5. ASSUME NEW m \in TouchMask, Touch(m) PROVE Grows(kq[o], kq'[o])
    <2>1. m \in Mask
      BY InotifyAssumption
    <2>2. Post(link, [p \in Observer |-> Push(kq[p], m)])
      BY <1>5 DEF Touch
    <2> QED
      BY <1>1, <2>1, <2>2
  <1>6. ASSUME NEW inode \in open, CloseDir(inode) PROVE Grows(kq[o], kq'[o])
    <2> DEFINE closed == [p \in Observer |-> Push(kq[p], "CLOSE_NOWRITE")]
    <2>1. CASE inode = link
      <3>1. Post(inode, closed)
        BY <1>6, <2>1 DEF CloseDir
      <3> QED
        BY <1>0, <1>1, <3>1
    <2>2. CASE inode # link
      <3>1. Post(inode, [p \in Observer |-> PushGone(closed[p])])
        BY <1>6, <2>2 DEF CloseDir
      <3>2. closed[o] \in Seq(Mask) /\ Grows(kq[o], closed[o])
        BY <1>0, PushGrows
      <3> HIDE DEF closed
      <3>3. kq'[o] \in {PushGone(closed[o]), kq[o]}
        BY <3>1, PostKeeps
      <3>4. PushGone(closed[o]) \in Seq(Mask) /\ Grows(closed[o], PushGone(closed[o]))
        BY <3>2, PushGoneQueue, PushGoneGrows
      <3>5. Grows(kq[o], PushGone(closed[o]))
        BY <1>0, <3>2, <3>4, GrowsOn
      <3> QED
        BY <1>0, <3>3, <3>5
    <2> QED
      BY <2>1, <2>2
  <1> QED
    BY <1>2, <1>3, <1>4, <1>5, <1>6 DEF KernelNext

LEMMA MasksAssociate ==
  \A s, t, u \in Seq(Mask) : (s \o t) \o u = s \o (t \o u)
BY ConcatAssociative

LEMMA SplitQueue ==
  ASSUME NEW q \in Seq(Mask), NEW n \in 0..Len(q)
  PROVE  /\ SubSeq(q, 1, n) \in Seq(Mask) /\ SubSeq(q, n + 1, Len(q)) \in Seq(Mask)
         /\ q = SubSeq(q, 1, n) \o SubSeq(q, n + 1, Len(q))
  <1> DEFINE front == SubSeq(q, 1, n)
             rest  == SubSeq(q, n + 1, Len(q))
             m     == Len(q)
  <1>0. m \in Nat /\ n \in 0..m
    OBVIOUS
  <1>1. front \in Seq(Mask) /\ Len(front) = n /\ \A i \in 1..n : front[i] = q[i]
    OBVIOUS
  <1>2. rest \in Seq(Mask) /\ Len(rest) = m - n /\ \A i \in 1..(m - n) : rest[i] = q[n + i]
    OBVIOUS
  <1> HIDE DEF front, rest
  <1>3. /\ front \o rest \in Seq(Mask) /\ Len(front \o rest) = m
        /\ \A i \in 1..m : (front \o rest)[i] = IF i <= n THEN front[i] ELSE rest[i - n]
    <2>1. Len(front) + Len(rest) = m
      BY <1>0, <1>1, <1>2
    <2> QED
      BY <1>1, <1>2, <2>1, ConcatProperties
  <1> HIDE DEF m
  <1>4. ASSUME NEW i \in 1..m PROVE q[i] = (front \o rest)[i]
    <2>1. CASE i <= n
      <3>1. i \in 1..n
        BY <1>0, <2>1
      <3> QED
        BY <1>1, <1>3, <2>1, <3>1
    <2>2. CASE ~(i <= n)
      <3>1. i - n \in 1..(m - n) /\ n + (i - n) = i
        BY <1>0, <2>2
      <3>2. rest[i - n] = q[i]
        BY <1>2, <3>1
      <3> QED
        BY <1>3, <2>2, <3>2
    <2> QED
      BY <2>1, <2>2
  <1>5. q = front \o rest
    BY <1>3, <1>4, SeqEqual DEF m
  <1> QED
    BY <1>1, <1>2, <1>5 DEF front, rest

LEMMA HeadAndTail ==
  ASSUME NEW q \in Seq(Mask), q # <<>>
  PROVE  q = <<Head(q)>> \o Tail(q)
  <1>1. Len(q) \in Nat /\ Len(q) >= 1 /\ Head(q) = q[1]
    BY EmptySeq
  <1>2. SubSeq(q, 1, Len(q)) = <<q[1]>> \o SubSeq(q, 2, Len(q))
    <2>1. 1 \in 1..Len(q) /\ Len(q) \in 1..Len(q) /\ 1 + 1 = 2
      BY <1>1
    <2> QED
      BY <2>1, SubSeqRecursiveFirst
  <1>3. SubSeq(q, 1, Len(q)) = q /\ SubSeq(q, 2, Len(q)) = Tail(q)
    BY SubSeqFull, TailIsSubSeq
  <1> QED
    BY <1>1, <1>2, <1>3

-----------------------------------------------------------------------------
(* What is queued reaches the delegate, all of it and in order: the steps.  *)

\* An observer of which the order is claimed.
Attends(o) == mState[o] # "Stopped" /\ thread[o] \notin {"closing", "ended"}

OrderOf(o) == Attends(o) => posted[o] = Told(o) \o InHand(o) \o batch[o] \o kq[o]

\* What NothingLostOrReordered needs besides ObserverInv: the thread reads only
\* after it has dealt with the batch before.
OrderInv ==
  /\ ObserverInv
  /\ posted \in [Observer -> Seq(Mask)]
  /\ \A o \in Observer : thread[o] \in {"reading", "backoff"} => batch[o] = <<>>
  /\ NothingLostOrReordered

MasksOf(calls) ==
  [i \in 1..(IF Len(calls) > 0 /\ calls[Len(calls)].event = "Error"
               THEN Len(calls) - 1 ELSE Len(calls)) |-> calls[i].mask]

LEMMA ToldIsMasks == \A o \in Observer : Told(o) = MasksOf(notified[o])
  BY DEF Told, MasksOf

LEMMA ToldPrimeIsMasks == \A o \in Observer : Told(o)' = MasksOf(notified'[o])
  BY DEF Told, MasksOf

LEMMA MasksType ==
  ASSUME NEW calls \in Seq(Call)
  PROVE  MasksOf(calls) \in Seq(Mask)
  <1> DEFINE n == IF Len(calls) > 0 /\ calls[Len(calls)].event = "Error"
                    THEN Len(calls) - 1 ELSE Len(calls)
  <1>1. Len(calls) \in Nat /\ \A i \in 1..Len(calls) : calls[i] \in Call
    OBVIOUS
  <1>2. n \in Nat /\ n <= Len(calls)
    BY <1>1
  <1> HIDE DEF n
  <1>3. \A i \in 1..n : calls[i].mask \in Mask
    BY <1>1, <1>2 DEF Call
  <1>4. [i \in 1..n |-> calls[i].mask] \in [1..n -> Mask]
    BY <1>3
  <1>5. [i \in 1..n |-> calls[i].mask] \in Seq(Mask)
    BY <1>2, <1>4
  <1> QED
    BY <1>5 DEF MasksOf, n

\* A call adds its mask to what the delegate was told, but a call of Error.
LEMMA MasksOfCall ==
  ASSUME NEW calls \in Seq(Call), NEW call \in Call,
         \A i \in 1..Len(calls) : calls[i].event # "Error"
  PROVE  MasksOf(Append(calls, call)) =
           IF call.event = "Error" THEN MasksOf(calls) ELSE MasksOf(calls) \o <<call.mask>>
  <1> DEFINE more == Append(calls, call)
             n    == Len(calls)
  <1>1. /\ more \in Seq(Call)
        /\ n \in Nat /\ Len(more) = n + 1 /\ more[n + 1] = call
        /\ \A i \in 1..n : more[i] = calls[i]
    BY AppendProperties, LenProperties
  <1>2. more \in Seq(Call)
    BY <1>1
  <1> HIDE DEF more
  <1>3. MasksOf(calls) = [i \in 1..n |-> calls[i].mask]
    BY <1>1 DEF MasksOf
  <1>4. CASE call.event = "Error"
    <2>1. MasksOf(more) = [i \in 1..n |-> more[i].mask]
      BY <1>1, <1>4 DEF MasksOf
    <2>2. [i \in 1..n |-> more[i].mask] = [i \in 1..n |-> calls[i].mask]
      BY <1>1
    <2> QED
      BY <1>3, <1>4, <2>1, <2>2 DEF more
  <1>5. CASE call.event # "Error"
    <2>1. MasksOf(more) = [i \in 1..(n + 1) |-> more[i].mask]
      BY <1>1, <1>5 DEF MasksOf
    <2>2. /\ MasksOf(calls) \in Seq(Mask) /\ <<call.mask>> \in Seq(Mask)
          /\ MasksOf(more) \in Seq(Mask)
      <3>1. call.mask \in Mask
        BY DEF Call
      <3>2. <<call.mask>> \in Seq(Mask)
        BY <3>1
      <3> QED
        BY <1>2, <3>2, MasksType
    <2>3. Len(MasksOf(calls)) = n /\ Len(MasksOf(more)) = n + 1 /\ Len(<<call.mask>>) = 1
      BY <1>1, <1>3, <2>1, <2>2
    <2> DEFINE both == MasksOf(calls) \o <<call.mask>>
    <2>4. /\ both \in Seq(Mask) /\ Len(both) = n + 1
          /\ \A i \in 1..(n + 1) :
               both[i] = IF i <= n THEN MasksOf(calls)[i] ELSE <<call.mask>>[i - n]
      BY <2>2, <2>3, ConcatProperties
    <2> HIDE DEF both
    <2>5. ASSUME NEW i \in 1..(n + 1) PROVE MasksOf(more)[i] = both[i]
      <3>1. CASE i <= n
        <4>1. i \in 1..n
          BY <1>1, <3>1
        <4>2. MasksOf(more)[i] = calls[i].mask
          BY <1>1, <2>1, <4>1
        <4>3. both[i] = calls[i].mask
          BY <1>3, <2>4, <3>1, <4>1
        <4> QED
          BY <4>2, <4>3
      <3>2. CASE ~(i <= n)
        <4>1. i = n + 1 /\ i - n = 1
          BY <1>1, <3>2
        <4>2. MasksOf(more)[i] = call.mask
          BY <1>1, <2>1, <4>1
        <4>3. both[i] = call.mask
          BY <2>4, <3>2, <4>1
        <4> QED
          BY <4>2, <4>3
      <3> QED
        BY <3>1, <3>2
    <2>6. MasksOf(more) = both
      BY <2>2, <2>3, <2>4, <2>5, SeqEqual
    <2> QED
      BY <1>5, <2>6 DEF both, more
  <1> QED
    BY <1>4, <1>5

LEMMA OrderTypes ==
  ASSUME OrderInv, NEW o \in Observer
  PROVE  /\ Told(o) \in Seq(Mask) /\ InHand(o) \in Seq(Mask)
         /\ batch[o] \in Seq(Mask) /\ kq[o] \in Seq(Mask) /\ posted[o] \in Seq(Mask)
         /\ mask[o] \in Mask /\ notified[o] \in Seq(Call)
  <1>1. /\ batch[o] \in Seq(Mask) /\ kq[o] \in Seq(Mask) /\ posted[o] \in Seq(Mask)
        /\ mask[o] \in Mask /\ notified[o] \in Seq(Call)
    BY DEF OrderInv, ObserverInv, TypeOK, KernelTypeOK, ThreadTypeOK
  <1>2. InHand(o) \in Seq(Mask)
    BY <1>1 DEF InHand
  <1>3. Told(o) \in Seq(Mask)
    BY <1>1, MasksType, ToldIsMasks
  <1> QED
    BY <1>1, <1>2, <1>3

LEMMA OrderHere ==
  ASSUME OrderInv, EventFilter = {}, NEW o \in Observer
  PROVE  OrderOf(o)
  BY DEF OrderInv, NothingLostOrReordered, OrderOf, Attends

\* A step of the world lengthens the kernel's queue and the history alike.
LEMMA WorldOrder ==
  ASSUME OrderInv, EventFilter = {}, Environment,
         posted' = [o \in Observer |-> posted[o] \o Grown(o)], NEW o \in Observer
  PROVE  OrderOf(o)'
  <1> SUFFICES ASSUME Attends(o)'
               PROVE  posted'[o] = Told(o)' \o InHand(o)' \o batch'[o] \o kq'[o]
    BY DEF OrderOf
  <1>0. KernelNext /\ UNCHANGED threadVars
    BY DEF Environment
  <1>1. Attends(o) /\ InHand(o)' = InHand(o) /\ batch'[o] = batch[o]
    BY <1>0 DEF Attends, InHand, threadVars
  <1>2. Told(o)' = Told(o)
    BY <1>0, ToldIsMasks, ToldPrimeIsMasks DEF threadVars
  <1>3. kq'[o] \in Seq(Mask)
    BY <1>0, KernelTypes DEF OrderInv, ObserverInv, KernelTypeOK
  <1>4. Grown(o) \in Seq(Mask) /\ kq'[o] = kq[o] \o Grown(o)
    BY <1>0, <1>3, OrderTypes, KernelGrows, GrowsBy DEF Grown, OrderInv
  <1> DEFINE ahead == Told(o) \o InHand(o) \o batch[o]
  <1>5. ahead \in Seq(Mask) /\ kq[o] \in Seq(Mask)
    BY OrderTypes, ConcatProperties
  <1>6. posted[o] = ahead \o kq[o]
    BY <1>1, OrderHere DEF OrderOf
  <1>7. posted'[o] = posted[o] \o Grown(o)
    OBVIOUS
  <1> HIDE DEF ahead
  <1>8. posted'[o] = ahead \o kq'[o]
    <2>1. (ahead \o kq[o]) \o Grown(o) = ahead \o (kq[o] \o Grown(o))
      BY <1>4, <1>5, MasksAssociate, Zenon
    <2> QED
      BY <1>4, <1>6, <1>7, <2>1, Zenon
  <1> QED
    BY <1>1, <1>2, <1>8 DEF ahead

\* Nor does a step of another observer touch any of it.
LEMMA OthersOrder ==
  ASSUME OrderInv, EventFilter = {}, NEW o \in Observer, NEW p \in Observer, p # o,
         StepOf(o), posted' = posted
  PROVE  OrderOf(p)'
  <1>1. /\ mState'[p] = mState[p] /\ thread'[p] = thread[p] /\ batch'[p] = batch[p]
        /\ mask'[p] = mask[p] /\ notifyEvent'[p] = notifyEvent[p]
        /\ notified'[p] = notified[p] /\ kq'[p] = kq[p]
    BY OthersKeep DEF OrderInv
  <1>2. Told(p)' = Told(p)
    BY <1>1, ToldIsMasks, ToldPrimeIsMasks
  <1>3. InHand(p)' = InHand(p) /\ (Attends(p)' => Attends(p))
    BY <1>1 DEF InHand, Attends
  <1> QED
    BY <1>1, <1>2, <1>3, OrderHere DEF OrderOf

\* Its own step moves an event one place on.
LEMMA OwnOrder ==
  ASSUME OrderInv, EventFilter = {}, NEW o \in Observer, StepOf(o), posted' = posted
  PROVE  OrderOf(o)'
  <1> USE DEF Goto
  <1> SUFFICES ASSUME Attends(o)'
               PROVE  posted'[o] = Told(o)' \o InHand(o)' \o batch'[o] \o kq'[o]
    BY DEF OrderOf
  <1>0. ObserverInv /\ TypeOK /\ KernelTypeOK /\ ThreadTypeOK
    BY DEF OrderInv, ObserverInv, TypeOK
  <1>1. /\ Told(o) \in Seq(Mask) /\ InHand(o) \in Seq(Mask)
        /\ batch[o] \in Seq(Mask) /\ kq[o] \in Seq(Mask)
        /\ mask[o] \in Mask /\ notified[o] \in Seq(Call)
    BY OrderTypes
  <1>2. Attends(o) => posted[o] = Told(o) \o InHand(o) \o batch[o] \o kq[o]
    BY OrderHere DEF OrderOf
  <1>3. PlainStepOf(o)
    BY <1>0, PlainSteps
  <1>4. UNCHANGED notified => Told(o)' = Told(o)
    BY ToldIsMasks, ToldPrimeIsMasks
  <1>5. ASSUME Attends(o), UNCHANGED notified, InHand(o)' = InHand(o),
               batch'[o] = batch[o], kq'[o] = kq[o]
        PROVE  posted'[o] = Told(o)' \o InHand(o)' \o batch'[o] \o kq'[o]
    BY <1>2, <1>4, <1>5
  <1>6. CASE StartWatching(o) \/ SetupFails(o) \/ Setup(o) \/ Settle(o) \/ BatchDone(o) \/ ReadFails(o)
    <2>1. Attends(o) /\ UNCHANGED <<notified, batch, kq>> /\ InHand(o)' = InHand(o)
      BY <1>0, <1>6 DEF Attends, InHand, ThreadTypeOK, kernelVars, StartWatching, SetupFails,
                        Setup, AddWatch, Settle, BatchDone, ReadFails
    <2> QED
      BY <1>5, <2>1
  <1>7. CASE StopWatching(o) \/ Skip(o)
    <2>1. mState'[o] = "Stopped"
      BY <1>0, <1>7 DEF StopWatching, Skip, ThreadTypeOK
    <2> QED
      BY <2>1 DEF Attends
  <1>8. CASE Close(o)
    <2>1. thread'[o] = "ended"
      BY <1>0, <1>8 DEF Close, ThreadTypeOK
    <2> QED
      BY <2>1 DEF Attends
  <1>9. CASE Retried(o)
    <2>1. Attends(o) /\ UNCHANGED <<notified, batch, kq>> /\ InHand(o)' = InHand(o)
      BY <1>0, <1>9 DEF Attends, InHand, ThreadTypeOK, kernelVars, Retried
    <2> QED
      BY <1>5, <2>1
  <1>10. CASE Filtered(o)
    <2>1. /\ Attends(o) /\ UNCHANGED <<notified, batch, kq, mask, notifyEvent>>
          /\ thread[o] = "checking" /\ thread'[o] = "calling"
      BY <1>0, <1>10 DEF Attends, ThreadTypeOK, kernelVars, Filtered, Wanted
    <2>2. InHand(o)' = InHand(o)
      BY <2>1 DEF InHand
    <2> QED
      BY <1>5, <2>1, <2>2
  <1>11. CASE Returned(o)
    <2>1. /\ Attends(o) /\ UNCHANGED <<notified, batch, kq>>
          /\ thread[o] = "inDelegate" /\ thread'[o] \in {"closing", "draining"}
      BY <1>0, <1>11 DEF Attends, ThreadTypeOK, kernelVars, Returned
    <2>2. InHand(o)' = InHand(o)
      BY <2>1 DEF InHand
    <2> QED
      BY <1>5, <2>1, <2>2
  <1>12. CASE Read(o)
    <2> DEFINE n    == Smaller(Len(kq[o]), BufferEvents)
               read == SubSeq(kq[o], 1, n)
               rest == SubSeq(kq[o], n + 1, Len(kq[o]))
    <2>1. /\ Attends(o) /\ UNCHANGED notified /\ batch[o] = <<>>
          /\ InHand(o) = <<>> /\ InHand(o)' = <<>>
      BY <1>0, <1>12 DEF Attends, InHand, ThreadTypeOK, Read, OrderInv
    <2>2. n \in 0..Len(kq[o])
      BY <1>1, FileObserverAssumption, LenProperties DEF Smaller
    <2>3. batch'[o] = read /\ kq'[o] = rest
      BY <1>0, <1>12 DEF Read, ReadEvents, KernelTypeOK, ThreadTypeOK
    <2> HIDE DEF n
    <2>4. read \in Seq(Mask) /\ rest \in Seq(Mask) /\ kq[o] = read \o rest
      BY <1>1, <2>2, SplitQueue
    <2> HIDE DEF read, rest
    <2>5. posted[o] = Told(o) \o <<>> \o <<>> \o kq[o]
      BY <1>2, <2>1
    <2>6. Told(o) \o <<>> = Told(o)
      BY <1>1, ConcatEmptySeq
    <2>7. posted[o] = Told(o) \o (read \o rest)
      BY <2>4, <2>5, <2>6
    <2>8. posted[o] = (Told(o) \o read) \o rest
      <3>1. (Told(o) \o read) \o rest = Told(o) \o (read \o rest)
        <4>1. Told(o) \in Seq(Mask)
          BY <1>1
        <4> QED
          BY <2>4, <4>1, MasksAssociate, Zenon
      <3> QED
        BY <2>7, <3>1, Zenon
    <2> QED
      BY <1>4, <2>1, <2>3, <2>6, <2>8
  <1>13. CASE Dequeue(o)
    <2>1. /\ Attends(o) /\ UNCHANGED notified /\ kq'[o] = kq[o] /\ InHand(o) = <<>>
          /\ batch[o] # <<>> /\ batch'[o] = Tail(batch[o]) /\ mask'[o] = Head(batch[o])
          /\ thread'[o] = "checking" /\ notifyEvent'[o] = Classify(Head(batch[o]))
      BY <1>0, <1>13 DEF Attends, InHand, ThreadTypeOK, kernelVars, Dequeue
    <2>2. Head(batch[o]) \in Mask /\ Tail(batch[o]) \in Seq(Mask)
      BY <1>1, <2>1
    <2>3. InHand(o)' = <<Head(batch[o])>>
      BY <2>1, <2>2, ClassifyType DEF InHand
    <2>4. batch[o] = <<Head(batch[o])>> \o Tail(batch[o])
      BY <1>1, <2>1, HeadAndTail
    <2>5. posted[o] = Told(o) \o batch[o] \o kq[o]
      BY <1>1, <1>2, <2>1, ConcatEmptySeq
    <2>6. Told(o) \o batch[o] = (Told(o) \o <<Head(batch[o])>>) \o Tail(batch[o])
      <3>1. <<Head(batch[o])>> \in Seq(Mask)
        BY <2>2
      <3>2. (Told(o) \o <<Head(batch[o])>>) \o Tail(batch[o])
              = Told(o) \o (<<Head(batch[o])>> \o Tail(batch[o]))
        <4>1. Told(o) \in Seq(Mask) /\ Tail(batch[o]) \in Seq(Mask)
          BY <1>1, <2>2
        <4> QED
          BY <3>1, <4>1, MasksAssociate, Zenon
      <3> QED
        BY <2>4, <3>2, Zenon
    <2> QED
      BY <1>4, <2>1, <2>3, <2>5, <2>6
  <1>14. CASE CallDelegate(o)
    <2> DEFINE call == [event |-> notifyEvent[o], mask |-> mask[o],
                        inode |-> watch[o], state |-> mState[o]]
    <2>1. /\ Attends(o) /\ kq'[o] = kq[o] /\ batch'[o] = batch[o]
          /\ thread[o] = "calling" /\ thread'[o] = "inDelegate"
          /\ notified'[o] = Append(notified[o], call)
      BY <1>0, <1>14 DEF Attends, ThreadTypeOK, kernelVars, CallDelegate
    <2>2. call \in Call /\ call.event = notifyEvent[o] /\ call.mask = mask[o]
      BY <1>0, InotifyAssumption DEF Call, ThreadTypeOK, KernelTypeOK
    <2>3. \A i \in 1..Len(notified[o]) : notified[o][i].event # "Error"
      BY <1>0, <2>1 DEF ObserverInv, TerminalInv, Heard, Terminal
    <2> HIDE DEF call
    <2>4. Told(o)' = IF notifyEvent[o] = "Error" THEN Told(o) ELSE Told(o) \o <<mask[o]>>
      BY <1>1, <2>1, <2>2, <2>3, MasksOfCall, ToldIsMasks, ToldPrimeIsMasks
    <2>5. InHand(o) = (IF notifyEvent[o] = "Error" THEN <<>> ELSE <<mask[o]>>) /\ InHand(o)' = <<>>
      BY <2>1 DEF InHand
    <2>6. Told(o)' = Told(o) \o InHand(o)
      BY <1>1, <2>4, <2>5, ConcatEmptySeq
    <2>7. Told(o) \o InHand(o) \in Seq(Mask)
      BY <1>1, ConcatProperties
    <2>8. Told(o)' \o InHand(o)' = Told(o) \o InHand(o)
      BY <2>5, <2>6, <2>7, ConcatEmptySeq
    <2> QED
      BY <1>2, <2>1, <2>8
  <1> QED
    BY <1>3, <1>6, <1>7, <1>8, <1>9, <1>10, <1>11, <1>12, <1>13, <1>14 DEF PlainStepOf

\* The thread reads only when it has dealt with the batch.
LEMMA OwnBatch ==
  ASSUME OrderInv, NEW o \in Observer, StepOf(o)
  PROVE  thread'[o] \in {"reading", "backoff"} => batch'[o] = <<>>
  <1> USE DEF Goto
  <1>0. /\ ObserverInv /\ ThreadTypeOK /\ WatchInv(o)
        /\ thread[o] \in {"reading", "backoff"} => batch[o] = <<>>
    BY DEF OrderInv, ObserverInv, TypeOK
  <1>1. CASE Setup(o)
    BY <1>0, <1>1 DEF Setup, ThreadTypeOK, WatchInv, Unwatched
  <1>2. CASE Skip(o) \/ BatchDone(o) \/ ReadFails(o) \/ Retried(o)
    BY <1>0, <1>2 DEF Skip, BatchDone, ReadFails, Retried, ThreadTypeOK
  <1>3. CASE StartWatching(o) \/ StopWatching(o) \/ SetupFails(o) \/ Read(o) \/ Settle(o)
    BY <1>0, <1>3 DEF StartWatching, StopWatching, SetupFails, Read, Settle, ThreadTypeOK
  <1>4. CASE Dequeue(o) \/ Filtered(o) \/ CallDelegate(o) \/ Returned(o) \/ Close(o)
    <2>1. thread'[o] \in {"checking", "calling", "closing", "draining", "inDelegate", "ended"}
      BY <1>0, <1>4 DEF Dequeue, Filtered, CallDelegate, Returned, Close, ThreadTypeOK
    <2> QED
      BY <2>1
  <1> QED
    BY <1>0, <1>1, <1>2, <1>3, <1>4, PlainSteps DEF PlainStepOf

LEMMA InitOrder == OrderInit => OrderInv
  <1> SUFFICES ASSUME OrderInit PROVE OrderInv
    OBVIOUS
  <1>1. Init /\ posted = [o \in Observer |-> <<>>]
    BY DEF OrderInit
  <1>2. ObserverInv /\ posted \in [Observer -> Seq(Mask)]
    BY <1>1, InitInv, EmptySeq
  <1>3. ASSUME NEW o \in Observer
        PROVE  /\ batch[o] = <<>>
               /\ posted[o] = Told(o) \o InHand(o) \o batch[o] \o kq[o]
    <2>1. /\ notified[o] = <<>> /\ batch[o] = <<>> /\ kq[o] = <<>> /\ posted[o] = <<>>
          /\ thread[o] = "none"
      BY <1>1 DEF Init, KernelInit, ThreadInit
    <2>2. InHand(o) = <<>>
      BY <2>1 DEF InHand
    <2>3. Told(o) = <<>>
      <3>1. Told(o) \in Seq(Mask)
        BY <1>2, MasksType, ToldIsMasks DEF ObserverInv, TypeOK, ThreadTypeOK
      <3>2. Told(o) = [i \in 1..0 |-> notified[o][i].mask]
        BY <2>1, EmptySeq DEF Told
      <3>3. Len(Told(o)) = 0
        BY <3>1, <3>2, LenProperties
      <3> QED
        BY <3>1, <3>3, EmptySeq
    <2>4. <<>> \o <<>> = <<>>
      BY ConcatEmptySeq, EmptySeq
    <2> QED
      BY <2>1, <2>2, <2>3, <2>4
  <1> QED
    BY <1>2, <1>3 DEF OrderInv, NothingLostOrReordered

LEMMA NextOrder == OrderInv /\ [OrderNext]_orderVars => OrderInv'
  <1> SUFFICES ASSUME OrderInv, [OrderNext]_orderVars PROVE OrderInv'
    OBVIOUS
  <1>0. ObserverInv /\ posted \in [Observer -> Seq(Mask)]
    BY DEF OrderInv
  <1>1. CASE UNCHANGED orderVars
    <2>1. UNCHANGED <<observerVars, posted>>
      BY <1>1 DEF orderVars
    <2>2. ObserverInv'
      BY <1>0, <2>1, NextInv
    <2>3. /\ mState' = mState /\ thread' = thread /\ batch' = batch /\ mask' = mask /\ kq' = kq
          /\ notifyEvent' = notifyEvent /\ notified' = notified /\ posted' = posted
      BY <2>1 DEF observerVars, kernelVars, threadVars
    <2>4. \A o \in Observer : Told(o)' = Told(o) /\ InHand(o)' = InHand(o)
      BY <2>3, ToldIsMasks, ToldPrimeIsMasks DEF InHand
    <2> QED
      BY <2>2, <2>3, <2>4 DEF OrderInv, NothingLostOrReordered
  <1>2. CASE Environment /\ posted' = [o \in Observer |-> posted[o] \o Grown(o)]
    <2>1. ObserverInv' /\ KernelNext /\ UNCHANGED threadVars
      BY <1>0, <1>2, WorldInv DEF Environment
    <2>2. ASSUME NEW o \in Observer PROVE posted[o] \o Grown(o) \in Seq(Mask)
      <3>1. posted[o] \in Seq(Mask) /\ kq[o] \in Seq(Mask) /\ kq'[o] \in Seq(Mask)
        BY <1>0, <2>1 DEF ObserverInv, TypeOK, KernelTypeOK
      <3>2. Grown(o) \in Seq(Mask)
        BY <1>0, <2>1, <3>1, KernelGrows, GrowsBy DEF Grown
      <3> QED
        BY <3>1, <3>2, ConcatProperties
    <2>3. posted' \in [Observer -> Seq(Mask)]
      BY <1>2, <2>2
    <2>4. NothingLostOrReordered'
      BY <1>2, WorldOrder DEF NothingLostOrReordered, OrderOf, Attends
    <2> QED
      BY <2>1, <2>3, <2>4 DEF OrderInv, threadVars
  <1>3. ASSUME NEW o \in Observer, StepOf(o), posted' = posted
        PROVE  OrderInv'
    <2>1. ObserverInv'
      BY <1>0, <1>3, StepInv
    <2>2. NothingLostOrReordered'
      BY <1>3, OwnOrder, OthersOrder DEF NothingLostOrReordered, OrderOf, Attends
    <2>3. ASSUME NEW p \in Observer PROVE thread'[p] \in {"reading", "backoff"} => batch'[p] = <<>>
      BY <1>3, OwnBatch, OthersKeep DEF OrderInv
    <2> QED
      BY <1>0, <1>3, <2>1, <2>2, <2>3 DEF OrderInv
  <1> QED
    BY <1>1, <1>2, <1>3 DEF OrderNext, StepOf

-----------------------------------------------------------------------------

\* Every variable keeps its type, the kernel's queues included.
THEOREM TypeCorrect == Spec => []TypeOK
  <1>1. ObserverInv => TypeOK
    BY DEF ObserverInv
  <1> QED
    BY <1>1, InitInv, NextInv, PTL DEF Spec

\* The inductive invariant: watches, announcements on their way, terminal
\* events, and late events, for any number of observers.
THEOREM ObserverCorrect == Spec => []ObserverInv
  BY InitInv, NextInv, PTL DEF Spec

\* Delete is reported only of a directory that has left the path for good.
THEOREM DeletionsAreReal == Spec => []DeleteIsReal
  <1>1. ObserverInv => DeleteIsReal
    BY DEF ObserverInv, GoneInv, DeleteIsReal
  <1> QED
    BY <1>1, ObserverCorrect, PTL

\* Delete or Error is the last call a delegate gets.
THEOREM TerminalEventsAreLast == Spec => []TerminalIsLast
  <1>1. ObserverInv => TerminalIsLast
    BY DEF ObserverInv, TerminalInv, TerminalIsLast
  <1> QED
    BY <1>1, ObserverCorrect, PTL

\* After stopWatching at most one event but Error gets through.
THEOREM LateEventsAreBounded == Spec => []AtMostOneLateEvent
  <1>1. ObserverInv => AtMostOneLateEvent
    BY DEF ObserverInv, LateInv, AtMostOneLateEvent
  <1> QED
    BY <1>1, ObserverCorrect, PTL

\* A thread that had its watch tells its delegate why it ends.
THEOREM ThreadsEndLoudly == Spec => []NoSilentEnd
  <1>1. ObserverInv => NoSilentEnd
    BY DEF ObserverInv
  <1> QED
    BY <1>1, ObserverCorrect, PTL

\* Watching with a history is watching: the history restricts nothing.
THEOREM HistoryRestrictsNothing == OrderSpec => Spec
  <1>1. OrderInit => Init
    BY DEF OrderInit
  <1>2. [OrderNext]_orderVars => [Next]_observerVars
    BY DEF OrderNext, orderVars, Next
  <1> QED
    BY <1>1, <1>2, PTL DEF OrderSpec, Spec

\* Without a filter and until it is stopped or done, an observer's delegate has
\* heard every event the kernel queued, in the kernel's order, but for the one in
\* hand, the batch and the kernel's queue.
THEOREM EventsArriveInOrder == OrderSpec => []NothingLostOrReordered
  <1>1. OrderInv => NothingLostOrReordered
    BY DEF OrderInv
  <1> QED
    BY <1>1, InitOrder, NextOrder, PTL DEF OrderSpec

=============================================================================
