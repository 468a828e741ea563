---------------------------- MODULE FileObserver ----------------------------
(***************************************************************************)
(* src/jni/observer/FileObserver.cpp: ThreadFunc, the thread that watches  *)
(* the path for an observer, and startWatching and stopWatching, which     *)
(* another thread calls.  The two share mState and nothing else.           *)
(***************************************************************************)
EXTENDS Inotify

CONSTANTS EventFilter,       \* mEventFilter as a set of events, {} for 0
          kFailedRetryTimes, \* 10 in the code
          BufferEvents       \* how many events fit in the read buffer

Event == {"None", "Access", "Modify", "AttribChanged", "CloseWrite",
          "CloseNoWrite", "Open", "MovedFrom", "Delete", "Error"}

ASSUME FileObserverAssumption ==
  /\ EventFilter \subseteq Event
  /\ kFailedRetryTimes \in Nat \ {0}
  /\ BufferEvents \in Nat \ {0}

VARIABLES mState,      \* of FileObserver
          thread,      \* where the observer's thread is
          failedTimes, \* read errors so far, never reset
          batch,       \* the thread's event queue: read and not yet dequeued
          mask,        \* the mask of the entry dequeued last
          notifyEvent, \* what it was classified as
          notified     \* history: the calls of delegate->onEvent

threadVars == <<mState, thread, failedTimes, batch, mask, notifyEvent, notified>>
observerVars == <<kernelVars, threadVars>>

\* "none": not started; "setup": before inotify_add_watch; "reading": in read;
\* "backoff": 1 s after a read error; "settling": 500 ms after a read;
\* "draining": at queue_dequeue; "checking": at isStopped; "calling": about to
\* call onEvent; "inDelegate": in it; "closing": past the loop; "ended"; and
\* "failed": returned early because the watch could not be set up.
ThreadState == {"none", "setup", "reading", "backoff", "settling", "draining",
                "checking", "calling", "inDelegate", "closing", "ended", "failed"}

Call == [event : Event, mask : Mask, inode : Nat, state : {"Created", "Started", "Stopped"}]

ThreadTypeOK ==
  /\ mState \in [Observer -> {"Created", "Started", "Stopped"}]
  /\ thread \in [Observer -> ThreadState]
  /\ failedTimes \in [Observer -> 0..kFailedRetryTimes]
  /\ batch \in [Observer -> Seq(Mask)]
  /\ mask \in [Observer -> Mask]
  /\ notifyEvent \in [Observer -> Event]
  /\ notified \in [Observer -> Seq(Call)]

ThreadInit ==
  /\ mState = [o \in Observer |-> "Created"]
  /\ thread = [o \in Observer |-> "none"]
  /\ failedTimes = [o \in Observer |-> 0]
  /\ batch = [o \in Observer |-> <<>>]
  /\ mask = [o \in Observer |-> "IGNORED"]
  /\ notifyEvent = [o \in Observer |-> "None"]
  /\ notified = [o \in Observer |-> <<>>]

Goto(o, from, to) ==
  /\ thread[o] = from
  /\ thread' = [thread EXCEPT ![o] = to]

-----------------------------------------------------------------------------
(* The owner's calls. *)

\* The watcher needs 500 ms and an event before it looks at mState, and Created
\* and Started are alike to it: pthread_create and mState = Started are one step.
StartWatching(o) ==
  /\ thread[o] = "none" /\ mState[o] = "Created"
  /\ thread' = [thread EXCEPT ![o] = "setup"]
  /\ mState' = [mState EXCEPT ![o] = "Started"]
  /\ UNCHANGED <<kernelVars, failedTimes, batch, mask, notifyEvent, notified>>

StopWatching(o) ==
  /\ mState' = [mState EXCEPT ![o] = "Stopped"]
  /\ UNCHANGED <<kernelVars, thread, failedTimes, batch, mask, notifyEvent, notified>>

-----------------------------------------------------------------------------
(* ThreadFunc. *)

SetupFails(o) == \* inotify_init or inotify_add_watch: return, and tell nobody
  /\ Goto(o, "setup", "failed")
  /\ UNCHANGED <<kernelVars, mState, failedTimes, batch, mask, notifyEvent, notified>>

Setup(o) ==
  /\ Goto(o, "setup", "reading")
  /\ Exists
  /\ AddWatch(o)
  /\ UNCHANGED <<mState, failedTimes, batch, mask, notifyEvent, notified>>

Smaller(m, n) == IF m < n THEN m ELSE n

Read(o) == \* blocks while the kernel's queue is empty
  /\ kq[o] # <<>>
  /\ Goto(o, "reading", "settling")
  /\ LET n == Smaller(Len(kq[o]), BufferEvents)
     IN  /\ batch' = [batch EXCEPT ![o] = SubSeq(kq[o], 1, n)]
         /\ ReadEvents(o, n)
  /\ UNCHANGED <<mState, failedTimes, mask, notifyEvent, notified>>

ReadFails(o) ==
  /\ Goto(o, "reading", "backoff")
  /\ failedTimes' = [failedTimes EXCEPT ![o] = @ + 1]
  /\ UNCHANGED <<kernelVars, mState, batch, mask, notifyEvent, notified>>

\* Past the loop, Error is sent when the reads have failed too often, whatever
\* ended the loop.
LeaveLoop(o, from) ==
  IF failedTimes[o] = kFailedRetryTimes
    THEN /\ Goto(o, from, "calling")
         /\ notifyEvent' = [notifyEvent EXCEPT ![o] = "Error"]
    ELSE Goto(o, from, "closing") /\ UNCHANGED notifyEvent

Retry(o) == \* the loop condition
  /\ IF failedTimes[o] < kFailedRetryTimes
       THEN Goto(o, "backoff", "reading") /\ UNCHANGED notifyEvent
       ELSE LeaveLoop(o, "backoff")
  /\ UNCHANGED <<kernelVars, mState, failedTimes, batch, mask, notified>>

Settle(o) ==
  /\ Goto(o, "settling", "draining")
  /\ UNCHANGED <<kernelVars, mState, failedTimes, batch, mask, notifyEvent, notified>>

\* Mutant: the switch has no case for DELETE_SELF.
EventOfNoDelete ==
  [m \in Mask |-> CASE m = "CLOSE_NOWRITE" -> "CloseNoWrite"
                    [] m = "OPEN"          -> "Open"
                    [] OTHER               -> "None"]

EventOf ==
  [m \in Mask |-> CASE m = "ACCESS"        -> "Access"
                    [] m = "MODIFY"        -> "Modify"
                    [] m = "ATTRIB"        -> "AttribChanged"
                    [] m = "CLOSE_WRITE"   -> "CloseWrite"
                    [] m = "CLOSE_NOWRITE" -> "CloseNoWrite"
                    [] m = "OPEN"          -> "Open"
                    [] m = "MOVED_FROM"    -> "MovedFrom"
                    [] m = "DELETE_SELF"   -> "Delete"
                    [] OTHER               -> "None"]

\* Mutant: CLOSE_NOWRITE is a deletion whether or not the path exists.
ClassifyUnchecked(m) == IF m = "CLOSE_NOWRITE" THEN "Delete" ELSE EventOf[m]

Classify(m) == IF m = "CLOSE_NOWRITE" /\ ~Exists THEN "Delete" ELSE EventOf[m]

\* Mutant: the newest event of the batch comes first.
DequeueNewest(o) ==
  /\ batch[o] # <<>>
  /\ Goto(o, "draining", "checking")
  /\ mask' = [mask EXCEPT ![o] = batch[o][Len(batch[o])]]
  /\ batch' = [batch EXCEPT ![o] = SubSeq(@, 1, Len(@) - 1)]
  /\ notifyEvent' = [notifyEvent EXCEPT ![o] = Classify(batch[o][Len(batch[o])])]
  /\ UNCHANGED <<kernelVars, mState, failedTimes, notified>>

Dequeue(o) == \* queue_dequeue, the switch, and free
  /\ batch[o] # <<>>
  /\ Goto(o, "draining", "checking")
  /\ mask' = [mask EXCEPT ![o] = Head(batch[o])]
  /\ batch' = [batch EXCEPT ![o] = Tail(@)]
  /\ notifyEvent' = [notifyEvent EXCEPT ![o] = Classify(Head(batch[o]))]
  /\ UNCHANGED <<kernelVars, mState, failedTimes, notified>>

BatchDone(o) == \* queue_destroy, and the loop condition again
  /\ batch[o] = <<>>
  /\ Goto(o, "draining", "reading")
  /\ UNCHANGED <<kernelVars, mState, failedTimes, batch, mask, notifyEvent, notified>>

Wanted(e) == EventFilter = {} \/ (e # "None" /\ e \in EventFilter)

\* Mutant: the loop goes on after Delete.
AfterEventGoOn(o, from) == Goto(o, from, "draining") /\ UNCHANGED notifyEvent

AfterEvent(o, from) ==
  IF notifyEvent[o] = "Delete"
    THEN LeaveLoop(o, from)
    ELSE Goto(o, from, "draining") /\ UNCHANGED notifyEvent

Skip(o) == \* a stopped observer's thread drops the batch and goes on reading
  /\ mState[o] = "Stopped"
  /\ Goto(o, "checking", "reading")
  /\ batch' = [batch EXCEPT ![o] = <<>>]
  /\ UNCHANGED <<kernelVars, mState, failedTimes, mask, notifyEvent, notified>>

\* Mutant: isStopped is not looked at.
FilterUnchecked(o) ==
  /\ IF Wanted(notifyEvent[o])
       THEN Goto(o, "checking", "calling") /\ UNCHANGED notifyEvent
       ELSE AfterEvent(o, "checking")
  /\ UNCHANGED <<kernelVars, mState, failedTimes, batch, mask, notified>>

Filter(o) ==
  /\ mState[o] # "Stopped"
  /\ IF Wanted(notifyEvent[o])
       THEN Goto(o, "checking", "calling") /\ UNCHANGED notifyEvent
       ELSE AfterEvent(o, "checking")
  /\ UNCHANGED <<kernelVars, mState, failedTimes, batch, mask, notified>>

CallDelegate(o) == \* delegate->onEvent(notifyEvent, path) begins
  /\ Goto(o, "calling", "inDelegate")
  /\ notified' = [notified EXCEPT ![o] =
       Append(@, [event |-> notifyEvent[o], mask |-> mask[o],
                  inode |-> watch[o], state |-> mState[o]])]
  /\ UNCHANGED <<kernelVars, mState, failedTimes, batch, mask, notifyEvent>>

Return(o) == \* from onEvent
  /\ IF notifyEvent[o] = "Error"
       THEN Goto(o, "inDelegate", "closing") /\ UNCHANGED notifyEvent
       ELSE AfterEvent(o, "inDelegate")
  /\ UNCHANGED <<kernelVars, mState, failedTimes, batch, mask, notified>>

\* queue_destroy and close; the inotify_rm_watch before it is given an event
\* mask for a watch descriptor and removes nothing.
Close(o) ==
  /\ Goto(o, "closing", "ended")
  /\ batch' = [batch EXCEPT ![o] = <<>>]
  /\ CloseDescriptor(o)
  /\ UNCHANGED <<mState, failedTimes, mask, notifyEvent, notified>>

ThreadRuns(o) == \* all but a failing read and the delegate's own time
  \/ SetupFails(o) \/ Setup(o) \/ Read(o) \/ Retry(o)
  \/ Settle(o) \/ Dequeue(o) \/ BatchDone(o) \/ Skip(o) \/ Filter(o)
  \/ CallDelegate(o) \/ Close(o)

-----------------------------------------------------------------------------
TypeOK == KernelTypeOK /\ ThreadTypeOK

Init == KernelInit /\ ThreadInit

Environment == KernelNext /\ UNCHANGED threadVars

Next ==
  \/ Environment
  \/ \E o \in Observer :
       StartWatching(o) \/ StopWatching(o) \/ ThreadRuns(o) \/ ReadFails(o) \/ Return(o)

\* The threads are scheduled and the delegate returns; read need not fail.
ThreadFairness ==
  \A o \in Observer : WF_observerVars(ThreadRuns(o)) /\ WF_observerVars(Return(o))

Spec == Init /\ [][Next]_observerVars

-----------------------------------------------------------------------------
Terminal == {"Delete", "Error"}

\* Delete is reported only of a directory that really left the path, though
\* CLOSE_NOWRITE is taken for a deletion on the word of access(), which looks
\* at the path and not at the directory (FileObserver.cpp:171-175, 190-193).
DeleteIsReal ==
  \A o \in Observer : \A i \in 1..Len(notified[o]) :
    notified[o][i].event = "Delete" => notified[o][i].inode # link

\* Delete or Error is the last thing a delegate hears, so it may delete the
\* observer there (FileObserver.cpp:226-239): DELETE_SELF behind a
\* CLOSE_NOWRITE in one batch does not report a second deletion.
TerminalIsLast ==
  \A o \in Observer : \A i \in 1..Len(notified[o]) :
    notified[o][i].event \in Terminal => i = Len(notified[o])

Late(o, i) == notified[o][i].state = "Stopped" /\ notified[o][i].event # "Error"

\* After stopWatching the delegate may still hear the one event that was past
\* the isStopped check (FileObserver.cpp:211-224), and Error.
AtMostOneLateEvent ==
  \A o \in Observer : \A i, j \in 1..Len(notified[o]) :
    Late(o, i) /\ Late(o, j) => i = j

\* A thread that got its watch ends only after it has told the delegate why,
\* when the delegate listens to Delete (FileObserver.cpp:226-243).
NoSilentEnd ==
  (EventFilter = {} \/ "Delete" \in EventFilter) =>
    \A o \in Observer : thread[o] \in {"closing", "ended"} =>
      notified[o] # <<>> /\ notified[o][Len(notified[o])].event \in Terminal

\* Once its directory is gone, an observer reports a terminal event unless it
\* was stopped or the kernel's queue dropped an event.
GoneIsReported ==
  \A o \in Observer :
    (watch[o] # 0 /\ ~Alive(watch[o]))
      ~> \/ \E i \in 1..Len(notified[o]) : notified[o][i].event \in Terminal
         \/ mState[o] = "Stopped"
         \/ o \in lost

-----------------------------------------------------------------------------
(* The inductive invariant behind the safety properties. *)

Announces(q) == \E i \in 1..Len(q) : q[i] = "DELETE_SELF"
Heard(o) == \E i \in 1..Len(notified[o]) : notified[o][i].event \in Terminal

Unwatched == {"none", "setup", "failed", "ended"}

RetriesInv(o) == \* the limit is reached only on the way to Error
  failedTimes[o] = kFailedRetryTimes =>
    \/ thread[o] \in {"backoff", "closing", "ended"}
    \/ thread[o] \in {"calling", "inDelegate"} /\ notifyEvent[o] = "Error"

WatchInv(o) == \* a watch is on a directory that has existed
  /\ watch[o] <= installs
  /\ IF thread[o] \in Unwatched
       THEN watch[o] = 0 /\ kq[o] = <<>> /\ batch[o] = <<>>
       ELSE watch[o] # 0

GoneInv(o) == \* a deletion on its way to the delegate has taken place
  /\ Announces(kq[o]) \/ Announces(batch[o]) => watch[o] # link
  /\ thread[o] \in {"checking", "calling"} /\ notifyEvent[o] = "Delete" => watch[o] # link
  /\ \A i \in 1..Len(notified[o]) :
       /\ notified[o][i].inode \in 1..installs
       /\ notified[o][i].event = "Delete" => notified[o][i].inode # link

TerminalInv(o) == \* after a terminal event the thread only winds up
  /\ \A i \in 1..Len(notified[o]) :
       notified[o][i].event \in Terminal => i = Len(notified[o])
  /\ Heard(o) => thread[o] \in {"inDelegate", "closing", "ended"}
  /\ thread[o] = "inDelegate" =>
       notified[o] # <<>> /\ notified[o][Len(notified[o])].event = notifyEvent[o]
  /\ thread[o] = "checking" => notifyEvent[o] # "Error"

LateInv(o) == \* the one late event is already past
  /\ \A i, j \in 1..Len(notified[o]) : Late(o, i) /\ Late(o, j) => i = j
  /\ \A i \in 1..Len(notified[o]) :
       Late(o, i) => /\ mState[o] = "Stopped"
                     /\ thread[o] = "calling" => notifyEvent[o] = "Error"

ObserverInv ==
  /\ TypeOK
  /\ link <= installs /\ open \subseteq 1..installs
  /\ \A o \in Observer :
       RetriesInv(o) /\ WatchInv(o) /\ GoneInv(o) /\ TerminalInv(o) /\ LateInv(o)
  /\ NoSilentEnd

=============================================================================
