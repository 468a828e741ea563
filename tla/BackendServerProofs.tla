-------------------------- MODULE BackendServerProofs --------------------------
(***************************************************************************)
(* For any number of observers, URLs, requests, and limits.                *)
(* FileDeleteObserver uses FileObserver as FileObserver's specification    *)
(* allows, its watching thread never touches an observer already freed,    *)
(* and a request is sent only for a deletion that took place and was not   *)
(* cancelled in time. The daemon uses its observers as                     *)
(* FileDeleteObserver's specification allows, its pointer to the newest    *)
(* one leads to a live observer except where the code lets it go, and it   *)
(* is told to stop only for a cause.                                       *)
(***************************************************************************)
EXTENDS BackendServer, FileObserverProofs

(* The delegate and its owner: FileDeleteObserver. *)

\* What an observer's own thread does, in ThreadFunc or in onEvent.
Actor(o) == WatcherRuns(o) \/ WatchFails(o)

LEMMA ActorSteps ==
  ASSUME NEW o \in Observer, Actor(o)
  PROVE  StepOf(o) \/ UNCHANGED observerVars
  BY DEF Actor, WatcherRuns, WatchFails, Watches, Outside, OnEventRuns, Enter, OnEvent,
         SendNothing, CurlInitFails, SendRequest, Answered, NotAnswered, TryAgain, StopDaemon,
         Finish, Leave, StepOf, ThreadRuns

LEMMA OwnerSteps ==
  ASSUME NEW o \in Observer,
         Create(o) \/ StopBegins(o) \/ StopEnds(o) \/ \E u \in Url \cup {NoUrl} : SetUrl(o, u)
  PROVE  StepOf(o) \/ UNCHANGED observerVars
  BY DEF Create, StopBegins, StopEnds, SetUrl, StepOf

\* Every step is one that FileObserver's specification allows.
LEMMA DeleteRefines == [DeleteNext]_reporterVars => [Next]_observerVars
  <1> SUFFICES ASSUME [DeleteNext]_reporterVars PROVE [Next]_observerVars
    OBVIOUS
  <1>1. CASE UNCHANGED reporterVars
    BY <1>1 DEF reporterVars
  <1>2. CASE KernelNext /\ UNCHANGED <<threadVars, deleteVars>>
    BY <1>2 DEF Next, Environment
  <1>3. CASE OwnerCalls
    BY <1>3, OwnerSteps DEF OwnerCalls, Next, StepOf
  <1>4. CASE \E o \in Observer : WatcherRuns(o) \/ WatchFails(o)
    BY <1>4, ActorSteps DEF Actor, Next, StepOf
  <1> QED
    BY <1>1, <1>2, <1>3, <1>4 DEF DeleteNext

\* FileDeleteObserver drives FileObserver within FileObserver's specification.
THEOREM DriveFileObserver == DeleteSpec => Spec
  <1>1. DeleteInitial => Init
    BY DEF DeleteInitial, Init
  <1> QED
    BY <1>1, DeleteRefines, PTL DEF DeleteSpec, Spec

-----------------------------------------------------------------------------
(* The invariant, under a step of one observer's thread. *)

\* The other observers keep all that is theirs.
LEMMA ActorKeepsOthers ==
  ASSUME ReporterInv, NEW o \in Observer, NEW p \in Observer, p # o, Actor(o)
  PROVE  /\ mState'[p] = mState[p] /\ thread'[p] = thread[p]
         /\ notifyEvent'[p] = notifyEvent[p] /\ notified'[p] = notified[p]
         /\ object'[p] = object[p] /\ mCancelled'[p] = mCancelled[p]
         /\ handler'[p] = handler[p] /\ tries'[p] = tries[p]
         /\ request'[p] = request[p] /\ sent'[p] = sent[p]
  <1>1. /\ mState'[p] = mState[p] /\ thread'[p] = thread[p]
        /\ notifyEvent'[p] = notifyEvent[p] /\ notified'[p] = notified[p]
    BY ActorSteps, OthersKeep DEF ReporterInv, observerVars, threadVars
  <1>2. /\ object'[p] = object[p] /\ mCancelled'[p] = mCancelled[p]
        /\ handler'[p] = handler[p] /\ tries'[p] = tries[p]
        /\ request'[p] = request[p] /\ sent'[p] = sent[p]
    <2>1. CASE Watches(o) \/ WatchFails(o)
      BY <2>1 DEF Watches, WatchFails, Outside
    <2>2. CASE OnEventRuns(o)
      BY <2>2 DEF OnEventRuns, Enter, OnEvent, SendNothing, CurlInitFails, SendRequest, Answered,
                  NotAnswered, TryAgain, StopDaemon, Finish, Leave, Step, FailedAttempt,
                  Delivered, ReporterInv, DeleteTypeOK
    <2> QED
      BY <2>1, <2>2 DEF Actor, WatcherRuns
  <1> QED
    BY <1>1, <1>2

LEMMA ActorKeepsOwner ==
  ASSUME NEW o \in Observer, Actor(o)
  PROVE  stopping' = stopping /\ mCancelled' = mCancelled /\ mUrl' = mUrl
  BY DEF Actor, WatcherRuns, WatchFails, Watches, Outside, OnEventRuns, Enter, OnEvent,
         SendNothing, CurlInitFails, SendRequest, Answered, NotAnswered, TryAgain, StopDaemon,
         Finish, Leave

\* ThreadFunc outside onEvent.
LEMMA WatchesInv ==
  ASSUME ReporterInv, NEW o \in Observer, Watches(o) \/ WatchFails(o)
  PROVE  /\ LifeInv(o)' /\ ReportInv(o)' /\ CancelInv(o)'
         /\ DeleteTypeOK' /\ WatcherNeverTouchesFreed'
  <1> USE DEF Goto
  <1>0. /\ LifeInv(o) /\ ReportInv(o) /\ CancelInv(o) /\ TypeOK /\ ThreadTypeOK
        /\ DeleteTypeOK /\ WatcherNeverTouchesFreed
    BY DEF ReporterInv, ObserverInv, TypeOK
  <1>1. /\ object' = object /\ mCancelled' = mCancelled /\ mUrl' = mUrl
        /\ handler' = handler /\ tries' = tries /\ request' = request /\ sent' = sent
        /\ noCurl' = noCurl /\ stopping' = stopping /\ keepAlive' = keepAlive
        /\ IF LooksAtObserver(o) THEN Touches("watcher", o) ELSE touchedFreed' = touchedFreed
    BY DEF Watches, WatchFails, Outside
  <1>2. LooksAtObserver(o) => object[o] = "live"
    BY <1>0 DEF LooksAtObserver, LifeInv, DeleteTypeOK
  <1>3. touchedFreed' = touchedFreed
    BY <1>1, <1>2 DEF Touches
  <1>4. DeleteTypeOK' /\ WatcherNeverTouchesFreed'
    BY <1>0, <1>1, <1>3 DEF DeleteTypeOK, WatcherNeverTouchesFreed
  <1>5. mState' = mState /\ notified' = notified /\ thread[o] \notin {"none", "inDelegate"}
    BY DEF Watches, WatchFails, Outside, SetupFails, Setup, Read, Retry, Settle, Dequeue,
           BatchDone, Skip, Filter, Close, ReadFails, AfterEvent, LeaveLoop
  <1>6. /\ thread'[o] \notin {"none", "inDelegate"}
        /\ thread[o] \in {"closing", "ended"} <=> thread'[o] \in {"closing", "ended"}
        /\ thread'[o] = "calling" => notifyEvent'[o] \in {"Delete", "Error"}
    <2>1. CASE Outside(Filter(o), o)
      <3>1. Filtered(o)
        BY <2>1, PlainSteps DEF Outside, ReporterInv
      <3> QED
        BY <3>1, <1>0, FileDeleteObserverAssumption DEF Filtered, Wanted, ThreadTypeOK
    <2>2. CASE Outside(Retry(o), o)
      <3>1. Retried(o)
        BY <2>2, PlainSteps DEF Outside, ReporterInv
      <3> QED
        BY <3>1, <1>0 DEF Retried, ThreadTypeOK
    <2>3. CASE \/ Outside(SetupFails(o), o) \/ Outside(Setup(o), o) \/ Outside(Read(o), o)
               \/ Outside(Settle(o), o) \/ Outside(Dequeue(o), o) \/ Outside(BatchDone(o), o)
               \/ Outside(Skip(o), o) \/ Outside(Close(o), o) \/ Outside(ReadFails(o), o)
      BY <2>3, <1>0 DEF Outside, SetupFails, Setup, Read, Settle, Dequeue, BatchDone, Skip, Close,
                        ReadFails, ThreadTypeOK
    <2> QED
      BY <2>1, <2>2, <2>3 DEF Watches, WatchFails
  <1>7. handler[o] = "idle"
    BY <1>0, <1>5 DEF LifeInv
  <1>8. LifeInv(o)'
    BY <1>0, <1>1, <1>5, <1>6, <1>7 DEF LifeInv
  <1>9. ReportInv(o)'
    BY <1>0, <1>1, <1>5, <1>6, <1>7 DEF ReportInv, Reporting, HasHit
  <1>10. CancelInv(o)'
    BY <1>0, <1>1, <1>5 DEF CancelInv, Reporting
  <1> QED
    BY <1>4, <1>8, <1>9, <1>10

\* The step from ThreadFunc into onEvent.
LEMMA EnterInv ==
  ASSUME ReporterInv, NEW o \in Observer, Enter(o)
  PROVE  /\ LifeInv(o)' /\ ReportInv(o)' /\ CancelInv(o)'
         /\ DeleteTypeOK' /\ WatcherNeverTouchesFreed'
  <1> DEFINE call == [event |-> notifyEvent[o], mask |-> mask[o],
                      inode |-> watch[o], state |-> mState[o]]
  <1>0. /\ LifeInv(o) /\ ReportInv(o) /\ CancelInv(o) /\ TerminalInv(o) /\ ThreadTypeOK
        /\ DeleteTypeOK /\ WatcherNeverTouchesFreed /\ notified[o] \in Seq(Call)
    BY DEF ReporterInv, ObserverInv, TypeOK, ThreadTypeOK
  <1>1. /\ object' = object /\ mCancelled' = mCancelled /\ mUrl' = mUrl /\ tries' = tries
        /\ request' = request /\ sent' = sent /\ stopping' = stopping /\ noCurl' = noCurl
        /\ keepAlive' = keepAlive /\ mState' = mState /\ notifyEvent' = notifyEvent
        /\ thread[o] = "calling" /\ thread'[o] = "inDelegate"
        /\ handler[o] = "idle" /\ handler' = [handler EXCEPT ![o] = "entered"]
        /\ handler'[o] = "entered"
        /\ notified'[o] = Append(notified[o], call)
    BY <1>0 DEF Enter, CallDelegate, Goto, Step, ThreadTypeOK, DeleteTypeOK
  <1>2. object[o] = "live" /\ touchedFreed' = touchedFreed
    <2>1. object[o] = "live"
      BY <1>0, <1>1 DEF LifeInv, DeleteTypeOK
    <2> QED
      BY <2>1 DEF Enter, Touches
  <1>3. DeleteTypeOK' /\ WatcherNeverTouchesFreed'
    BY <1>0, <1>1, <1>2 DEF DeleteTypeOK, HandlerState, WatcherNeverTouchesFreed
  <1>4. LifeInv(o)'
    BY <1>0, <1>1, <1>2 DEF LifeInv
  <1>5. request[o] = NoUrl /\ ~HasHit(o)
    <2>1. ~Heard(o)
      BY <1>0, <1>1 DEF TerminalInv
    <2>2. notified[o] # <<>> => Len(notified[o]) \in 1..Len(notified[o])
      BY <1>0
    <2> QED
      BY <1>0, <2>1, <2>2 DEF ReportInv, Heard, Terminal
  <1>6. ReportInv(o)'
    BY <1>0, <1>1, <1>5, FileDeleteObserverAssumption DEF ReportInv, Reporting, HasHit
  <1>7. CancelInv(o)'
    <2> SUFFICES ASSUME NEW i \in 1..Len(notified'[o]), notified'[o][i].state = "Stopped"
                 PROVE  mCancelled[o]
      BY <1>0, <1>1, <1>5 DEF CancelInv, Reporting
    <2>1. call.state = mState[o]
      OBVIOUS
    <2> HIDE DEF call
    <2>2. /\ Len(notified'[o]) = Len(notified[o]) + 1 /\ Len(notified[o]) \in Nat
          /\ \A j \in 1..Len(notified[o]) : notified'[o][j] = notified[o][j]
          /\ notified'[o][Len(notified[o]) + 1] = call
      BY <1>0, <1>1
    <2>3. CASE i = Len(notified[o]) + 1
      BY <1>0, <2>1, <2>2, <2>3 DEF CancelInv
    <2>4. CASE i # Len(notified[o]) + 1
      <3>1. i \in 1..Len(notified[o])
        BY <2>2, <2>4
      <3> QED
        BY <1>0, <2>2, <3>1 DEF CancelInv
    <2> QED
      BY <2>3, <2>4
  <1> QED
    BY <1>3, <1>4, <1>6, <1>7

\* The steps inside onEvent before it deletes the observer or leaves.
Working(o) ==
  \/ OnEvent(o) \/ SendNothing(o) \/ CurlInitFails(o) \/ SendRequest(o)
  \/ Answered(o) \/ NotAnswered(o) \/ TryAgain(o) \/ StopDaemon(o)

LEMMA WorkingInv ==
  ASSUME ReporterInv, NEW o \in Observer, Working(o)
  PROVE  /\ LifeInv(o)' /\ ReportInv(o)' /\ CancelInv(o)'
         /\ DeleteTypeOK' /\ WatcherNeverTouchesFreed'
  <1>0. /\ LifeInv(o) /\ ReportInv(o) /\ CancelInv(o) /\ TerminalInv(o)
        /\ DeleteTypeOK /\ WatcherNeverTouchesFreed
        /\ kFailRetryTimes \in Nat \ {0} /\ NoUrl \notin Url
        /\ notified[o] \in Seq(Call)
    BY FileDeleteObserverAssumption DEF ReporterInv, ObserverInv, TypeOK, ThreadTypeOK
  <1>1. /\ mState' = mState /\ thread' = thread /\ notifyEvent' = notifyEvent
        /\ notified' = notified /\ object' = object /\ mCancelled' = mCancelled
        /\ mUrl' = mUrl /\ stopping' = stopping
    BY DEF Working, OnEvent, SendNothing, CurlInitFails, SendRequest, Answered, NotAnswered,
           TryAgain, StopDaemon, observerVars, threadVars
  <1>2. /\ handler[o] \in {"entered", "trying", "performing", "waiting", "stopDaemon"}
        /\ handler'[o] \in {"trying", "performing", "waiting", "stopDaemon", "finishing"}
        /\ handler' = [handler EXCEPT ![o] = handler'[o]]
    BY <1>0 DEF Working, OnEvent, SendNothing, CurlInitFails, SendRequest, Answered, NotAnswered,
           TryAgain, StopDaemon, Step, FailedAttempt, DeleteTypeOK
  <1>3. thread[o] = "inDelegate" /\ object[o] = "live"
    BY <1>0, <1>2 DEF LifeInv, DeleteTypeOK
  <1>4. touchedFreed' = touchedFreed
    BY <1>3 DEF Working, OnEvent, SendNothing, CurlInitFails, SendRequest, Answered, NotAnswered,
           TryAgain, StopDaemon, Touches
  <1>5. LifeInv(o)'
    BY <1>0, <1>1, <1>2, <1>3 DEF LifeInv
  <1>6. \* what the observer has heard is the event it is handling
    /\ notified[o] # <<>> /\ Len(notified[o]) \in 1..Len(notified[o])
    /\ notified[o][Len(notified[o])].event = notifyEvent[o]
    BY <1>0, <1>3 DEF TerminalInv
  <1>7. /\ tries' \in [Observer -> 0..kFailRetryTimes]
        /\ handler'[o] \in {"trying", "performing"} => tries'[o] < kFailRetryTimes
    <2>1. CASE SendNothing(o) \/ NotAnswered(o)
      BY <1>0, <2>1 DEF SendNothing, NotAnswered, FailedAttempt, Step, ReportInv, DeleteTypeOK
    <2>2. CASE OnEvent(o) \/ CurlInitFails(o) \/ SendRequest(o) \/ Answered(o) \/ TryAgain(o)
                \/ StopDaemon(o)
      BY <1>0, <2>2 DEF OnEvent, CurlInitFails, SendRequest, Answered, TryAgain, StopDaemon, Step,
                        ReportInv, DeleteTypeOK
    <2> QED
      BY <2>1, <2>2 DEF Working
  <1>8. /\ request' \in [Observer -> Url \cup {NoUrl}]
        /\ handler'[o] = "performing" => request'[o] # NoUrl
        /\ request'[o] # request[o] => handler[o] = "trying" /\ request'[o] # NoUrl
        /\ request[o] # NoUrl => request'[o] # NoUrl
    <2>1. CASE SendRequest(o)
      BY <1>0, <2>1 DEF SendRequest, Step, DeleteTypeOK
    <2>2. CASE ~SendRequest(o)
      <3>1. request' = request /\ handler'[o] # "performing"
        BY <1>0, <1>2, <2>2 DEF Working, OnEvent, SendNothing, CurlInitFails, Answered, NotAnswered,
               TryAgain, StopDaemon, Step, FailedAttempt, DeleteTypeOK
      <3> QED
        BY <1>0, <3>1 DEF DeleteTypeOK
    <2> QED
      BY <2>1, <2>2
  <1>9. /\ sent' \in [Observer -> [Url -> Nat]]
        /\ HasHit(o)' => HasHit(o) \/ handler[o] = "performing"
    <2>1. CASE sent' = sent
      BY <1>0, <2>1 DEF DeleteTypeOK, HasHit
    <2>2. CASE sent' # sent
      <3>1. Delivered(o) /\ handler[o] = "performing"
        BY <2>2 DEF Working, OnEvent, SendNothing, CurlInitFails, SendRequest, Answered, NotAnswered,
               TryAgain, StopDaemon, Step, FailedAttempt
      <3>2. request[o] \in Url
        BY <1>0, <3>1 DEF ReportInv, DeleteTypeOK
      <3>3. sent' \in [Observer -> [Url -> Nat]]
        BY <1>0, <3>1, <3>2 DEF Delivered, DeleteTypeOK
      <3> QED
        BY <3>1, <3>3
    <2> QED
      BY <2>1, <2>2
  <1>10. keepAlive' \in BOOLEAN /\ noCurl' \subseteq Observer
    BY <1>0 DEF Working, OnEvent, SendNothing, CurlInitFails, SendRequest, Answered, NotAnswered,
           TryAgain, StopDaemon, DeleteTypeOK
  <1>11. DeleteTypeOK' /\ WatcherNeverTouchesFreed'
    <2>1. handler' \in [Observer -> HandlerState]
      BY <1>0, <1>2 DEF DeleteTypeOK, HandlerState
    <2> QED
      BY <1>0, <1>1, <1>4, <1>7, <1>8, <1>9, <1>10, <2>1 DEF DeleteTypeOK, WatcherNeverTouchesFreed
  <1>12. handler'[o] \in Reporting =>
           /\ notifyEvent[o] = "Delete"
           /\ ~mCancelled[o] \/ handler[o] \in Reporting
    <2>1. notifyEvent[o] \in {"Delete", "Error"}
      BY <1>0, <1>3 DEF LifeInv
    <2> QED
      BY <1>0, <1>2, <2>1 DEF Working, OnEvent, SendNothing, CurlInitFails, SendRequest, Answered,
         NotAnswered, TryAgain, StopDaemon, Step, FailedAttempt, Reporting, ReportInv, DeleteTypeOK
  <1>13. ReportInv(o)'
    <2>1. handler[o] \in {"trying", "performing"} => handler[o] \in Reporting
      BY DEF Reporting
    <2> QED
      BY <1>0, <1>1, <1>2, <1>3, <1>6, <1>7, <1>8, <1>9, <1>12, <2>1 DEF ReportInv
  <1>14. CancelInv(o)'
    <2>1. handler[o] = "trying" => handler[o] \in Reporting
      BY DEF Reporting
    <2> QED
      BY <1>0, <1>1, <1>8, <1>12, <2>1 DEF CancelInv
  <1> QED
    BY <1>5, <1>11, <1>13, <1>14

\* onEvent deletes the observer, and returns to ThreadFunc.
LEMMA FinishInv ==
  ASSUME ReporterInv, NEW o \in Observer, Finish(o) \/ Leave(o)
  PROVE  /\ LifeInv(o)' /\ ReportInv(o)' /\ CancelInv(o)'
         /\ DeleteTypeOK' /\ WatcherNeverTouchesFreed'
  <1>0. /\ LifeInv(o) /\ ReportInv(o) /\ CancelInv(o) /\ ThreadTypeOK
        /\ DeleteTypeOK /\ WatcherNeverTouchesFreed
    BY DEF ReporterInv, ObserverInv, TypeOK
  <1>1. /\ mState' = mState /\ notifyEvent' = notifyEvent /\ notified' = notified
        /\ mCancelled' = mCancelled /\ mUrl' = mUrl /\ stopping' = stopping
        /\ tries' = tries /\ request' = request /\ sent' = sent /\ keepAlive' = keepAlive
        /\ noCurl' = noCurl
        /\ thread[o] = "inDelegate"
        /\ Leave(o) => Returned(o)
    BY <1>0, PlainSteps DEF ReporterInv, Finish, Leave, Returned, Goto, Step, observerVars, threadVars, LifeInv
  <1>2. CASE Finish(o)
    <2>1. /\ handler[o] = "finishing" /\ handler' = [handler EXCEPT ![o] = "returned"]
          /\ object' = [object EXCEPT ![o] = "freed"] /\ thread' = thread
          /\ handler'[o] = "returned" /\ object'[o] = "freed"
      BY <1>0, <1>2 DEF Finish, Step, observerVars, threadVars, DeleteTypeOK
    <2>2. touchedFreed' = touchedFreed
      <3>1. object[o] = "live"
        BY <1>0, <1>1, <2>1 DEF LifeInv, DeleteTypeOK
      <3> QED
        BY <1>2, <3>1 DEF Finish, Touches
    <2>3. DeleteTypeOK' /\ WatcherNeverTouchesFreed'
      BY <1>0, <1>1, <2>1, <2>2 DEF DeleteTypeOK, WatcherNeverTouchesFreed, HandlerState
    <2>4. LifeInv(o)'
      BY <1>0, <1>1, <2>1 DEF LifeInv
    <2>5. ReportInv(o)' /\ CancelInv(o)'
      BY <1>0, <1>1, <2>1 DEF ReportInv, CancelInv, Reporting, HasHit
    <2> QED
      BY <2>3, <2>4, <2>5
  <1>3. CASE Leave(o)
    <2>1. /\ handler[o] = "returned" /\ handler' = [handler EXCEPT ![o] = "idle"]
          /\ object' = object /\ touchedFreed' = touchedFreed
          /\ handler'[o] = "idle" /\ thread'[o] = "closing"
      BY <1>0, <1>1, <1>3 DEF Leave, Step, Returned, Goto, Terminal, LifeInv, ThreadTypeOK,
                              DeleteTypeOK
    <2>2. DeleteTypeOK' /\ WatcherNeverTouchesFreed'
      BY <1>0, <1>1, <2>1 DEF DeleteTypeOK, WatcherNeverTouchesFreed, HandlerState
    <2>3. LifeInv(o)'
      BY <1>0, <1>1, <2>1 DEF LifeInv
    <2>4. ReportInv(o)' /\ CancelInv(o)'
      BY <1>0, <1>1, <2>1 DEF ReportInv, CancelInv, Reporting, HasHit
    <2> QED
      BY <2>2, <2>3, <2>4
  <1> QED
    BY <1>2, <1>3

LEMMA ActorInv ==
  ASSUME ReporterInv, NEW o \in Observer, Actor(o)
  PROVE  /\ LifeInv(o)' /\ ReportInv(o)' /\ CancelInv(o)'
         /\ DeleteTypeOK' /\ WatcherNeverTouchesFreed'
  BY WatchesInv, EnterInv, WorkingInv, FinishInv DEF Actor, WatcherRuns, OnEventRuns, Working

-----------------------------------------------------------------------------
(* The invariant, under a step of the owner. *)

OwnerActs(o) == Create(o) \/ StopBegins(o) \/ StopEnds(o) \/ \E u \in Url \cup {NoUrl} : SetUrl(o, u)

\* What the owner's call on one observer leaves alone: all that is the
\* thread's own, and the other observers.
LEMMA OwnerKeeps ==
  ASSUME ReporterInv, NEW o \in Observer, OwnerActs(o)
  PROVE  /\ notifyEvent' = notifyEvent /\ notified' = notified /\ handler' = handler
         /\ tries' = tries /\ request' = request /\ sent' = sent
         /\ \A p \in Observer \ {o} :
              /\ mState'[p] = mState[p] /\ thread'[p] = thread[p]
              /\ object'[p] = object[p] /\ mCancelled'[p] = mCancelled[p]
              /\ stopping' = p => stopping = p
  <1>1. ThreadTypeOK /\ DeleteTypeOK /\ Nobody \notin Observer
    BY FileDeleteObserverAssumption DEF ReporterInv, ObserverInv, TypeOK
  <1> QED
    BY <1>1 DEF OwnerActs, Create, StopBegins, StopEnds, SetUrl, StartWatching, StopWatching,
                observerVars, threadVars, ThreadTypeOK, DeleteTypeOK

LEMMA OwnerInv ==
  ASSUME ReporterInv, NEW o \in Observer, OwnerActs(o)
  PROVE  /\ LifeInv(o)' /\ ReportInv(o)' /\ CancelInv(o)'
         /\ DeleteTypeOK' /\ WatcherNeverTouchesFreed'
  <1>0. /\ LifeInv(o) /\ ReportInv(o) /\ CancelInv(o) /\ ThreadTypeOK
        /\ DeleteTypeOK /\ WatcherNeverTouchesFreed /\ Nobody \notin Observer
    BY FileDeleteObserverAssumption DEF ReporterInv, ObserverInv, TypeOK
  <1>1. /\ notifyEvent' = notifyEvent /\ notified' = notified /\ handler' = handler
        /\ tries' = tries /\ request' = request /\ sent' = sent
    BY OwnerKeeps
  <1>2. DeleteTypeOK' /\ WatcherNeverTouchesFreed'
    <2>1. /\ touchedFreed' \in {touchedFreed, touchedFreed \cup {}, touchedFreed \cup {"owner"}}
          /\ keepAlive' = keepAlive /\ stopping' \in {stopping, o, Nobody}
          /\ noCurl' = noCurl
      BY DEF OwnerActs, Create, StopBegins, StopEnds, SetUrl, Touches
    <2>2. /\ object' \in [Observer -> {"unborn", "live", "freed"}]
          /\ mCancelled' \in [Observer -> BOOLEAN]
      BY <1>0 DEF OwnerActs, Create, StopBegins, StopEnds, SetUrl, DeleteTypeOK
    <2>3. mUrl' \in [Observer -> Url \cup {NoUrl}]
      BY <1>0 DEF OwnerActs, Create, StopBegins, StopEnds, SetUrl, DeleteTypeOK
    <2> QED
      BY <1>0, <1>1, <2>1, <2>2, <2>3 DEF DeleteTypeOK, WatcherNeverTouchesFreed
  <1>3. CASE Create(o)
    <2>1. /\ object[o] = "unborn" /\ object'[o] = "live" /\ mCancelled' = mCancelled
          /\ stopping' = stopping
          /\ thread[o] = "none" /\ thread'[o] \in {"none", "setup"}
          /\ mState[o] = "Created" /\ mState'[o] # "Stopped"
          /\ handler[o] = "idle"
      BY <1>0, <1>3 DEF Create, StartWatching, observerVars, threadVars, LifeInv, DeleteTypeOK,
                        ThreadTypeOK
    <2>2. LifeInv(o)'
      BY <1>0, <1>1, <2>1 DEF LifeInv
    <2>3. ReportInv(o)' /\ CancelInv(o)'
      BY <1>0, <1>1, <2>1 DEF LifeInv, ReportInv, CancelInv, HasHit
    <2> QED
      BY <1>2, <2>2, <2>3
  <1>4. CASE ~Create(o)
    <2>1. /\ object' = object /\ thread' = thread /\ object[o] # "unborn"
          /\ mCancelled[o] => mCancelled'[o]
          /\ mState'[o] = "Stopped" => mState[o] = "Stopped" \/ mCancelled'[o]
          /\ stopping' = o => mCancelled'[o] \/ object[o] = "freed"
      <3>1. CASE StopBegins(o)
        BY <1>0, <3>1 DEF StopBegins, observerVars, threadVars, DeleteTypeOK
      <3>2. CASE StopEnds(o)
        <4>1. object[o] # "unborn"
          BY <1>0, <3>2 DEF StopEnds, CancelInv, LifeInv
        <4> QED
          BY <1>0, <3>2, <4>1 DEF StopEnds, StopWatching, observerVars, threadVars, CancelInv,
                                  ThreadTypeOK, DeleteTypeOK
      <3>3. CASE \E u \in Url \cup {NoUrl} : SetUrl(o, u)
        BY <1>0, <3>3 DEF SetUrl, observerVars, threadVars, CancelInv
      <3> QED
        BY <1>4, <3>1, <3>2, <3>3 DEF OwnerActs
    <2>2. LifeInv(o)'
      BY <1>0, <1>1, <2>1 DEF LifeInv
    <2>3. ReportInv(o)' /\ CancelInv(o)'
      BY <1>0, <1>1, <2>1 DEF ReportInv, CancelInv, HasHit
    <2> QED
      BY <1>2, <2>2, <2>3
  <1> QED
    BY <1>3, <1>4

-----------------------------------------------------------------------------
LEMMA ReporterInit == DeleteInitial => ReporterInv
  <1> SUFFICES ASSUME DeleteInitial PROVE ReporterInv
    OBVIOUS
  <1>1. ObserverInv
    BY InitInv DEF DeleteInitial, Init
  <1>2. DeleteTypeOK
    BY FileDeleteObserverAssumption DEF DeleteInitial, DeleteInit, DeleteTypeOK, HandlerState
  <1>3. ASSUME NEW o \in Observer PROVE LifeInv(o) /\ ReportInv(o) /\ CancelInv(o)
    <2>1. /\ mState[o] = "Created" /\ thread[o] = "none" /\ notified[o] = <<>>
          /\ object[o] = "unborn" /\ mCancelled[o] = FALSE /\ handler[o] = "idle"
          /\ tries[o] = 0 /\ request[o] = NoUrl /\ stopping = Nobody
          /\ sent[o] = [u \in Url |-> 0]
      BY DEF DeleteInitial, DeleteInit, ThreadInit
    <2>2. o # Nobody /\ Len(<<>>) = 0
      BY FileDeleteObserverAssumption
    <2>3. LifeInv(o)
      BY <2>1 DEF LifeInv
    <2>4. ReportInv(o)
      BY <2>1 DEF ReportInv, Reporting, HasHit
    <2>5. CancelInv(o)
      BY <2>1, <2>2 DEF CancelInv, Reporting
    <2> QED
      BY <2>3, <2>4, <2>5
  <1> QED
    BY <1>1, <1>2, <1>3 DEF ReporterInv, DeleteInitial, DeleteInit, WatcherNeverTouchesFreed

\* A step of the kernel, of nobody, or of an observer other than p.
LEMMA Unmoved ==
  ASSUME NEW p \in Observer, LifeInv(p), ReportInv(p), CancelInv(p),
         mState'[p] = mState[p], thread'[p] = thread[p], notifyEvent'[p] = notifyEvent[p],
         notified'[p] = notified[p], object'[p] = object[p], mCancelled[p] = mCancelled'[p],
         handler'[p] = handler[p], tries'[p] = tries[p], request'[p] = request[p],
         sent'[p] = sent[p], stopping' = p => stopping = p
  PROVE  LifeInv(p)' /\ ReportInv(p)' /\ CancelInv(p)'
  <1>1. LifeInv(p)'
    BY DEF LifeInv
  <1>2. ReportInv(p)'
    BY DEF ReportInv, Reporting, HasHit
  <1>3. CancelInv(p)'
    BY DEF CancelInv, Reporting
  <1> QED
    BY <1>1, <1>2, <1>3

LEMMA NextReporterInv == ReporterInv /\ [DeleteNext]_reporterVars => ReporterInv'
  <1> SUFFICES ASSUME ReporterInv, [DeleteNext]_reporterVars PROVE ReporterInv'
    OBVIOUS
  <1>1. ObserverInv'
    BY DeleteRefines, NextInv DEF ReporterInv
  <1>2. /\ \A p \in Observer : LifeInv(p) /\ ReportInv(p) /\ CancelInv(p)
        /\ DeleteTypeOK /\ WatcherNeverTouchesFreed
    BY DEF ReporterInv
  <1>3. CASE UNCHANGED <<threadVars, deleteVars>>
    <2>1. \A p \in Observer : LifeInv(p)' /\ ReportInv(p)' /\ CancelInv(p)'
      BY <1>2, <1>3, Unmoved DEF threadVars, deleteVars
    <2>2. DeleteTypeOK' /\ WatcherNeverTouchesFreed'
      BY <1>2, <1>3 DEF deleteVars, DeleteTypeOK, WatcherNeverTouchesFreed
    <2> QED
      BY <1>1, <2>1, <2>2 DEF ReporterInv
  <1>4. CASE \E o \in Observer : WatcherRuns(o) \/ WatchFails(o)
    <2>1. PICK o \in Observer : Actor(o)
      BY <1>4 DEF Actor
    <2>2. ASSUME NEW p \in Observer, p # o
          PROVE  LifeInv(p)' /\ ReportInv(p)' /\ CancelInv(p)'
      BY <1>2, <2>1, <2>2, ActorKeepsOthers, ActorKeepsOwner, Unmoved
    <2> QED
      BY <1>1, <2>1, <2>2, ActorInv DEF ReporterInv
  <1>5. CASE OwnerCalls
    <2>1. PICK o \in Observer : OwnerActs(o)
      BY <1>5 DEF OwnerCalls, OwnerActs
    <2>2. ASSUME NEW p \in Observer, p # o
          PROVE  LifeInv(p)' /\ ReportInv(p)' /\ CancelInv(p)'
      BY <1>2, <2>1, <2>2, OwnerKeeps, Unmoved
    <2> QED
      BY <1>1, <2>1, <2>2, OwnerInv DEF ReporterInv
  <1> QED
    BY <1>3, <1>4, <1>5 DEF DeleteNext, reporterVars, observerVars

\* The life of an observer and of its request, for every step of every party.
THEOREM ReporterCorrect == DeleteSpec => []ReporterInv
  BY ReporterInit, NextReporterInv, PTL DEF DeleteSpec

\* The types of FileObserver's and FileDeleteObserver's variables.
THEOREM DeleteTypeCorrect == DeleteSpec => []DeleteObserverTypeOK
  <1>1. ReporterInv => DeleteObserverTypeOK
    BY DEF ReporterInv, ObserverInv, DeleteObserverTypeOK
  <1> QED
    BY <1>1, ReporterCorrect, PTL

\* The watching thread uses its observer only while that exists, and deletes it
\* once: it stays in onEvent until the deletion and only winds up after it.
THEOREM WatcherSafe == DeleteSpec => []WatcherNeverTouchesFreed
  <1>1. ReporterInv => WatcherNeverTouchesFreed
    BY DEF ReporterInv
  <1> QED
    BY <1>1, ReporterCorrect, PTL

\* A thread that ran to its end has deleted its observer.
THEOREM EndedThreadsFree == DeleteSpec => []EndedMeansFreed
  <1>1. ReporterInv => EndedMeansFreed
    BY DEF ReporterInv, EndedMeansFreed, LifeInv
  <1> QED
    BY <1>1, ReporterCorrect, PTL

\* The server hears of an uninstall only after the watched directory is gone.
THEOREM HitsAreReal == DeleteSpec => []HitOnlyAfterDeletion
  <1>1. ReporterInv => HitOnlyAfterDeletion
    <2> SUFFICES ASSUME ReporterInv, NEW o \in Observer, HasHit(o)
                 PROVE  \E i \in 1..Len(notified[o]) :
                          notified[o][i].event = "Delete" /\ notified[o][i].inode # link
      BY DEF HitOnlyAfterDeletion
    <2>1. /\ ReportInv(o) /\ GoneInv(o) /\ notified[o] \in Seq(Call)
      BY DEF ReporterInv, ObserverInv, TypeOK, ThreadTypeOK
    <2>2. notified[o] # <<>> /\ notified[o][Len(notified[o])].event = "Delete"
      BY <2>1 DEF ReportInv
    <2>3. Len(notified[o]) \in 1..Len(notified[o])
      BY <2>1, <2>2
    <2> WITNESS Len(notified[o]) \in 1..Len(notified[o])
    <2> QED
      BY <2>1, <2>2, <2>3 DEF GoneInv
  <1> QED
    BY <1>1, ReporterCorrect, PTL

\* An observer that was stopped before onEvent was called never reports.
THEOREM StoppedStaySilent == DeleteSpec => []StoppedBeforeCallNeverSends
  <1>1. ReporterInv => StoppedBeforeCallNeverSends
    BY DEF ReporterInv, StoppedBeforeCallNeverSends, CancelInv, ReportInv
  <1> QED
    BY <1>1, ReporterCorrect, PTL

-----------------------------------------------------------------------------
(* The daemon: BackendServer. *)

\* The steps that leave the observers and the kernel alone.
Aside ==
  \/ LeaveWait \/ Exit \/ Listen \/ CheckLoop \/ SelectFails \/ SelectTimesOut
  \/ AcceptFails \/ Receive \/ Reply \/ NoOld \/ Kill
  \/ \E r \in Request : Send(r)

LEMMA NextCases ==
  ASSUME ServerNext
  PROVE  \/ Aside \/ StopOld \/ StoppedOld \/ SetReportUrl \/ World
         \/ \E o \in Observer : NewObserver(o)
         \/ \E o \in Observer : Watcher(o) \/ WatcherReadFails(o)
  BY DEF ServerNext, ListenerRuns, Aside

LEMMA AsideKeeps ==
  ASSUME Aside
  PROVE  UNCHANGED reporterVars /\ mFileObserver' = mFileObserver
  BY DEF Aside, LeaveWait, Exit, Listen, CheckLoop, SelectFails, SelectTimesOut, AcceptFails,
         Receive, Reply, NoOld, Kill, Send

\* The listener's call on an observer is one that its owner may make.
LEMMA ListenerCalls ==
  ASSUME ServerTypeOK, PointerInv, StopOld \/ StoppedOld \/ SetReportUrl
  PROVE  \/ UNCHANGED reporterVars
         \/ /\ mFileObserver \in Observer
            /\ \/ StopBegins(mFileObserver) \/ StopEnds(mFileObserver)
               \/ \E u \in Url \cup {NoUrl} : SetUrl(mFileObserver, u)
  <1>1. CASE StopOld
    BY <1>1 DEF StopOld, ServerTypeOK
  <1>2. CASE StoppedOld
    BY <1>2 DEF StoppedOld, ListenerAt, ServerTypeOK, PointerInv
  <1>3. CASE SetReportUrl
    <2>1. handling.url \in Url \cup {NoUrl}
      BY <1>3 DEF SetReportUrl, ServerTypeOK, Request
    <2> QED
      BY <1>3, <2>1 DEF SetReportUrl, ServerTypeOK
  <1> QED
    BY <1>1, <1>2, <1>3

\* Every step is one that FileDeleteObserver's specification allows.
LEMMA ServerRefines ==
  ServerTypeOK /\ PointerInv /\ [ServerNext]_daemonVars => [DeleteNext]_reporterVars
  <1> SUFFICES ASSUME ServerTypeOK, PointerInv, [ServerNext]_daemonVars
               PROVE  [DeleteNext]_reporterVars
    OBVIOUS
  <1>1. CASE UNCHANGED daemonVars
    BY <1>1 DEF daemonVars
  <1>2. CASE Aside
    BY <1>2, AsideKeeps
  <1>3. CASE StopOld \/ StoppedOld \/ SetReportUrl
    BY <1>3, ListenerCalls DEF DeleteNext, OwnerCalls
  <1>4. CASE World
    BY <1>4 DEF World, DeleteNext
  <1>5. CASE \E o \in Observer : NewObserver(o)
    BY <1>5 DEF NewObserver, DeleteNext, OwnerCalls
  <1>6. CASE \E o \in Observer : Watcher(o) \/ WatcherReadFails(o)
    BY <1>6 DEF Watcher, WatcherReadFails, DeleteNext
  <1> QED
    BY <1>1, <1>2, <1>3, <1>4, <1>5, <1>6, NextCases

-----------------------------------------------------------------------------
(* The daemon's own variables. *)

LEMMA NextServerTypes ==
  ASSUME ServerTypeOK, SelectInv, [ServerNext]_daemonVars
  PROVE  ServerTypeOK' /\ SelectInv'
  <1>0. /\ kMaxRetryTimes \in Nat /\ failTimes \in Nat
        /\ Idle \in Request /\ <<>> \in Seq(Request)
    BY BackendServerAssumption DEF ServerTypeOK, Idle, Request
  <1>1. CASE UNCHANGED serverVars
    BY <1>1 DEF serverVars, ServerTypeOK, SelectInv
  <1>2. CASE LeaveWait \/ Exit \/ Kill
    BY <1>0, <1>2 DEF LeaveWait, Exit, Kill, ServerTypeOK, SelectInv
  <1>3. CASE Listen \/ SelectTimesOut \/ AcceptFails \/ Reply \/ NoOld
    BY <1>0, <1>3 DEF Listen, SelectTimesOut, AcceptFails, Reply, NoOld, ListenerAt, ServerTypeOK,
                      SelectInv
  <1>4. CASE CheckLoop
    BY <1>0, <1>4 DEF CheckLoop, ListenerAt, ServerTypeOK, SelectInv
  <1>5. CASE Receive
    <2>1. Head(inbox) \in Request /\ Tail(inbox) \in Seq(Request)
      BY <1>5 DEF Receive, ServerTypeOK, SelectInv
    <2> QED
      BY <1>5, <2>1 DEF Receive, ListenerAt, ServerTypeOK, SelectInv
  <1>6. CASE StopOld \/ StoppedOld \/ SetReportUrl
    BY <1>0, <1>6 DEF StopOld, StoppedOld, SetReportUrl, ListenerAt, ServerTypeOK, SelectInv
  <1>7. CASE \E o \in Observer : NewObserver(o)
    BY <1>0, <1>7 DEF NewObserver, ListenerAt, ServerTypeOK, SelectInv
  <1>8. CASE \E r \in Request : Send(r)
    BY <1>8, BackendServerAssumption DEF Send, ServerTypeOK, SelectInv
  <1>9. CASE World \/ \E o \in Observer : Watcher(o) \/ WatcherReadFails(o)
    BY <1>9, <1>1 DEF World, Watcher, WatcherReadFails
  <1>10. CASE SelectFails
    BY <1>0, <1>10 DEF SelectFails, ListenerAt, ServerTypeOK, SelectInv
  <1> QED
    BY <1>1, <1>2, <1>3, <1>4, <1>5, <1>6, <1>7, <1>8, <1>9, <1>10
    DEF ServerNext, ListenerRuns, daemonVars

-----------------------------------------------------------------------------
(* Why the daemon stops. *)

\* What one observer's thread does once it has heard a terminal event.
LEMMA WindingUp ==
  ASSUME ReporterInv, NEW o \in Observer, Actor(o),
         thread[o] \in {"inDelegate", "closing", "ended"}
  PROVE  /\ thread'[o] \in {"inDelegate", "closing", "ended"}
         /\ notified' = notified /\ notifyEvent' = notifyEvent
         /\ tries[o] = kFailRetryTimes => tries'[o] = tries[o]
  <1>0. /\ LifeInv(o) /\ ReportInv(o) /\ ThreadTypeOK /\ DeleteTypeOK
        /\ kFailRetryTimes \in Nat \ {0}
    BY FileDeleteObserverAssumption DEF ReporterInv, ObserverInv, TypeOK
  <1>2. CASE Watches(o) \/ WatchFails(o)
    <2>1. Outside(Close(o), o)
      BY <1>2 DEF Watches, WatchFails, Outside, SetupFails, Setup, Read, Retry, Settle, Dequeue,
                  BatchDone, Skip, Filter, ReadFails, AfterEvent, LeaveLoop, Goto
    <2> QED
      BY <1>0, <2>1 DEF Outside, Close, Goto, ThreadTypeOK
  <1>3. CASE Working(o) \/ Finish(o)
    <2>1. UNCHANGED <<thread, notified, notifyEvent>>
      BY <1>3 DEF Working, OnEvent, SendNothing, CurlInitFails, SendRequest, Answered, NotAnswered,
                  TryAgain, StopDaemon, Finish, observerVars, threadVars
    <2>2. tries[o] = kFailRetryTimes => tries'[o] = tries[o]
      BY <1>0, <1>3 DEF Working, OnEvent, SendNothing, CurlInitFails, SendRequest, Answered,
                  NotAnswered, TryAgain, StopDaemon, Finish, FailedAttempt, Step, ReportInv
    <2> QED
      BY <2>1, <2>2
  <1>4. CASE Leave(o)
    <2>1. Returned(o)
      BY <1>4, PlainSteps DEF Leave, ReporterInv
    <2> QED
      BY <1>0, <1>4, <2>1 DEF Leave, Returned, Goto, Terminal, LifeInv, ThreadTypeOK
  <1>5. ~Enter(o)
    BY DEF Enter, CallDelegate, Goto
  <1> QED
    BY <1>2, <1>3, <1>4, <1>5 DEF Actor, WatcherRuns, OnEventRuns, Working

\* What the server has got and what curl has refused is never taken back.
LEMMA AccountGrows ==
  ASSUME ReporterInv, [DeleteNext]_reporterVars, NEW o \in Observer
  PROVE  /\ HasHit(o) => HasHit(o)'
         /\ o \in noCurl => o \in noCurl'
  <1>0. DeleteTypeOK /\ \A p \in Observer : ReportInv(p)
    BY DEF ReporterInv
  <1>1. CASE UNCHANGED <<sent, noCurl>>
    BY <1>1 DEF HasHit
  <1>2. CASE OwnerCalls
    BY <1>1, <1>2 DEF OwnerCalls, Create, StopBegins, StopEnds, SetUrl
  <1>3. ASSUME NEW p \in Observer, Actor(p)
        PROVE  /\ HasHit(o) => HasHit(o)'
               /\ o \in noCurl => o \in noCurl'
    <2>1. CASE Watches(p) \/ WatchFails(p) \/ Enter(p) \/ Finish(p) \/ Leave(p)
      BY <1>1, <2>1 DEF Watches, WatchFails, Outside, Enter, Finish, Leave
    <2>2. CASE Working(p)
      <3>1. noCurl \subseteq noCurl'
        BY <2>2 DEF Working, OnEvent, SendNothing, CurlInitFails, SendRequest, Answered,
                    NotAnswered, TryAgain, StopDaemon
      <3>2. CASE Delivered(p) /\ handler[p] = "performing"
        <4>1. request[p] \in Url
          BY <1>0, <3>2 DEF ReportInv, DeleteTypeOK
        <4>2. ASSUME NEW u \in Url, sent[o][u] # 0 PROVE sent'[o][u] # 0
          <5>1. sent[p] \in [Url -> Nat] /\ sent[o] \in [Url -> Nat]
            BY <1>0 DEF DeleteTypeOK
          <5>2. sent' = [sent EXCEPT ![p] = [sent[p] EXCEPT ![request[p]] = sent[p][request[p]] + 1]]
            BY <3>2 DEF Delivered
          <5>3. sent[p][request[p]] \in Nat /\ sent[p][request[p]] + 1 # 0
            BY <4>1, <5>1
          <5> QED
            BY <1>0, <4>1, <4>2, <5>1, <5>2, <5>3 DEF DeleteTypeOK
        <4> QED
          BY <3>1, <4>2 DEF HasHit
      <3>3. CASE sent' = sent
        BY <3>1, <3>3 DEF HasHit
      <3> QED
        BY <2>2, <3>2, <3>3 DEF Working, OnEvent, SendNothing, CurlInitFails, SendRequest, Answered,
           NotAnswered, TryAgain, StopDaemon, Step, FailedAttempt
    <2> QED
      BY <1>3, <2>1, <2>2 DEF Actor, WatcherRuns, OnEventRuns, Working
  <1> QED
    BY <1>1, <1>2, <1>3 DEF DeleteNext, Actor, reporterVars, deleteVars

LEMMA CauseStays ==
  ASSUME ReporterInv, [DeleteNext]_reporterVars, NEW o \in Observer, Cause(o)
  PROVE  Cause(o)'
  <1>0. LifeInv(o)
    BY DEF ReporterInv
  <1>1. /\ HasHit(o) => HasHit(o)'
        /\ o \in noCurl => o \in noCurl'
    BY AccountGrows
  <1>2. SUFFICES ASSUME TRUE
                 PROVE  /\ thread'[o] \in {"inDelegate", "closing", "ended"}
                        /\ notified'[o] = notified[o]
                        /\ tries[o] = kFailRetryTimes => tries'[o] = tries[o]
    BY <1>1, <1>2 DEF Cause, LastEvent, GaveUp
  <1>3. CASE UNCHANGED <<threadVars, deleteVars>>
    BY <1>3 DEF threadVars, deleteVars, Cause
  <1>4. ASSUME NEW p \in Observer, Actor(p)
        PROVE  /\ thread'[o] \in {"inDelegate", "closing", "ended"}
               /\ notified'[o] = notified[o]
               /\ tries[o] = kFailRetryTimes => tries'[o] = tries[o]
    <2>1. CASE p = o
      BY <1>4, <2>1, WindingUp DEF Cause
    <2>2. CASE p # o
      BY <1>4, <2>2, ActorKeepsOthers DEF Cause
    <2> QED
      BY <2>1, <2>2
  <1>5. ASSUME NEW p \in Observer, OwnerActs(p)
        PROVE  thread'[o] = thread[o] /\ notified' = notified /\ tries' = tries
    <2>1. CASE p # o
      BY <1>5, <2>1, OwnerKeeps
    <2>2. CASE p = o
      BY <1>0, <1>5, <2>2, OwnerKeeps
      DEF OwnerActs, Create, StopBegins, StopEnds, SetUrl, StopWatching, observerVars, threadVars,
          LifeInv, Cause
    <2> QED
      BY <2>1, <2>2
  <1>6. CASE OwnerCalls
    BY <1>5, <1>6 DEF OwnerCalls, OwnerActs, Cause
  <1> QED
    BY <1>3, <1>4, <1>6 DEF DeleteNext, Actor, reporterVars, observerVars

LEMMA NextCause ==
  ASSUME ReporterInv, CauseInv, [DeleteNext]_reporterVars
  PROVE  CauseInv'
  <1>0. /\ DeleteTypeOK /\ NoUrl \notin Url
        /\ \A o \in Observer : LifeInv(o) /\ ReportInv(o) /\ TerminalInv(o)
    BY FileDeleteObserverAssumption DEF ReporterInv, ObserverInv
  <1>1. CASE UNCHANGED <<handler, keepAlive>>
    BY <1>1, CauseStays DEF CauseInv
  <1>2. CASE OwnerCalls
    BY <1>1, <1>2 DEF OwnerCalls, Create, StopBegins, StopEnds, SetUrl
  <1>3. ASSUME NEW p \in Observer, Actor(p) PROVE CauseInv'
    <2>1. \A o \in Observer \ {p} : handler'[o] = handler[o]
      BY <1>3, ActorKeepsOthers
    <2>2. ~keepAlive' => \E o \in Observer : Cause(o)'
      <3>1. keepAlive' = keepAlive \/ handler[p] = "stopDaemon"
        BY <1>3 DEF Actor, WatcherRuns, WatchFails, Watches, Outside, OnEventRuns, Enter, OnEvent,
                    SendNothing, CurlInitFails, SendRequest, Answered, NotAnswered, TryAgain,
                    StopDaemon, Finish, Leave, Step
      <3> QED
        BY <3>1, CauseStays DEF CauseInv
    <2>3. handler'[p] = "stopDaemon" => Cause(p)'
      <3>1. CASE Watches(p) \/ WatchFails(p)
        BY <3>1, CauseStays DEF Watches, WatchFails, Outside, CauseInv
      <3>2. CASE Enter(p) \/ Finish(p) \/ Leave(p)
        BY <1>0, <3>2 DEF Enter, Finish, Leave, Step, DeleteTypeOK
      <3>3. CASE Working(p)
        <4>1. /\ thread[p] = "inDelegate" /\ UNCHANGED <<thread, notified, notifyEvent>>
              /\ notified[p] # <<>> /\ LastEvent(p) = notifyEvent[p]
          BY <1>0, <3>3 DEF Working, OnEvent, SendNothing, CurlInitFails, SendRequest, Answered,
             NotAnswered, TryAgain, StopDaemon, Step, FailedAttempt, LifeInv, TerminalInv,
             observerVars, threadVars, LastEvent
        <4>2. CASE OnEvent(p)
          BY <1>0, <4>1, <4>2 DEF OnEvent, Step, DeleteTypeOK, Cause, LastEvent
        <4>3. CASE CurlInitFails(p) \/ Answered(p) \/ TryAgain(p)
          <5>1. LastEvent(p)' = "Delete" /\ notified'[p] # <<>> /\ thread'[p] = "inDelegate"
            BY <1>0, <4>1, <4>3
            DEF CurlInitFails, Answered, TryAgain, Step, ReportInv, Reporting, LastEvent
          <5>2. handler'[p] = "stopDaemon" => HasHit(p)' \/ GaveUp(p)'
            <6>1. CASE CurlInitFails(p)
              BY <6>1 DEF CurlInitFails, GaveUp
            <6>2. CASE Answered(p)
              <7>1. request[p] \in Url /\ sent[p] \in [Url -> Nat]
                BY <1>0, <6>2 DEF Answered, Step, ReportInv, DeleteTypeOK
              <7>2. sent'[p][request[p]] = sent[p][request[p]] + 1
                BY <1>0, <6>2, <7>1 DEF Answered, Delivered, DeleteTypeOK
              <7>3. sent'[p][request[p]] # 0
                BY <7>1, <7>2
              <7> QED
                BY <7>1, <7>3 DEF HasHit
            <6>3. CASE TryAgain(p)
              <7>1. tries[p] \in 0..kFailRetryTimes /\ kFailRetryTimes \in Nat
                BY <1>0, FileDeleteObserverAssumption DEF DeleteTypeOK
              <7>2. ~(tries[p] < kFailRetryTimes) => tries[p] = kFailRetryTimes
                BY <7>1
              <7> QED
                BY <1>0, <6>3, <7>2 DEF TryAgain, Step, DeleteTypeOK, GaveUp
            <6> QED
              BY <4>3, <6>1, <6>2, <6>3
          <5> QED
            BY <5>1, <5>2 DEF Cause
        <4>4. CASE SendNothing(p) \/ SendRequest(p) \/ NotAnswered(p) \/ StopDaemon(p)
          BY <1>0, <4>4 DEF SendNothing, SendRequest, NotAnswered, StopDaemon, Step, FailedAttempt,
                            DeleteTypeOK
        <4> QED
          BY <3>3, <4>2, <4>3, <4>4 DEF Working
      <3> QED
        BY <1>3, <3>1, <3>2, <3>3 DEF Actor, WatcherRuns, OnEventRuns, Working
    <2> QED
      BY <2>1, <2>2, <2>3, CauseStays DEF CauseInv
  <1> QED
    BY <1>1, <1>2, <1>3 DEF DeleteNext, Actor, reporterVars, deleteVars

-----------------------------------------------------------------------------
(* What the listener's pointer leads to. *)

LEMMA QuietActor ==
  ASSUME ReporterInv, NEW p \in Observer, Actor(p),
         \A o \in Observer : QuietInv(o)
  PROVE  \A o \in Observer : QuietInv(o)'
  <1>0. DeleteTypeOK
    BY DEF ReporterInv
  <1>1. mCancelled' = mCancelled
    BY ActorKeepsOwner
  <1>2. keepAlive' => keepAlive
    BY DEF Actor, WatcherRuns, WatchFails, Watches, Outside, OnEventRuns, Enter, OnEvent,
           SendNothing, CurlInitFails, SendRequest, Answered, NotAnswered, TryAgain, StopDaemon,
           Finish, Leave
  <1>3. ASSUME NEW o \in Observer, o # p PROVE QuietInv(o)'
    BY <1>1, <1>2, <1>3, ActorKeepsOthers DEF QuietInv
  <1>4. QuietInv(p)'
    <2>1. CASE Watches(p) \/ WatchFails(p)
      BY <1>1, <1>2, <2>1 DEF Watches, WatchFails, Outside, QuietInv
    <2>2. CASE Finish(p)
      BY <1>0, <1>1, <2>2 DEF Finish, Step, QuietInv
    <2>3. CASE Enter(p) \/ Leave(p)
      BY <1>0, <1>1, <2>3 DEF Enter, Leave, Step, QuietInv, DeleteTypeOK
    <2>4. CASE Working(p)
      BY <1>0, <1>1, <1>2, <2>4 DEF Working, OnEvent, SendNothing, CurlInitFails, SendRequest,
         Answered, NotAnswered, TryAgain, StopDaemon, Step, FailedAttempt, QuietInv, DeleteTypeOK
    <2> QED
      BY <2>1, <2>2, <2>3, <2>4 DEF Actor, WatcherRuns, OnEventRuns, Working
  <1> QED
    BY <1>3, <1>4

LEMMA QuietOwner ==
  ASSUME ReporterInv, NEW p \in Observer, OwnerActs(p),
         \A o \in Observer : QuietInv(o)
  PROVE  \A o \in Observer : QuietInv(o)'
  <1>1. DeleteTypeOK
    BY DEF ReporterInv
  <1>2. handler' = handler /\ keepAlive' = keepAlive
    BY OwnerKeeps DEF OwnerActs, Create, StopBegins, StopEnds, SetUrl
  <1>3. \A o \in Observer : /\ mCancelled[o] => mCancelled'[o]
                            /\ object'[o] = "freed" => object[o] = "freed"
    BY <1>1 DEF OwnerActs, Create, StopBegins, StopEnds, SetUrl, DeleteTypeOK
  <1> QED
    BY <1>2, <1>3 DEF QuietInv

LEMMA PointerActor ==
  ASSUME ReporterInv, ServerTypeOK, PointerInv, NEW p \in Observer, Actor(p),
         UNCHANGED serverVars
  PROVE  PointerInv'
  <1>0. DeleteTypeOK
    BY DEF ReporterInv
  <1>1. stopping' = stopping /\ mCancelled' = mCancelled
    BY ActorKeepsOwner
  <1>2. \A o \in Observer : object[o] # "unborn" => object'[o] # "unborn"
    <2>1. object' = object \/ object' = [object EXCEPT ![p] = "freed"]
      BY DEF Actor, WatcherRuns, WatchFails, Watches, Outside, OnEventRuns, Enter, OnEvent,
             SendNothing, CurlInitFails, SendRequest, Answered, NotAnswered, TryAgain, StopDaemon,
             Finish, Leave
    <2> QED
      BY <1>0, <2>1 DEF DeleteTypeOK
  <1> QED
    BY <1>1, <1>2 DEF PointerInv, ServerTypeOK, serverVars

\* The listener's own steps, in which mFileObserver or its state may change.
LEMMA PointerListener ==
  ASSUME ReporterInv, ServerTypeOK, PointerInv,
         \/ StopOld \/ StoppedOld \/ SetReportUrl
         \/ \E o \in Observer : NewObserver(o)
  PROVE  PointerInv'
  <1>0. DeleteTypeOK /\ Nobody \notin Observer
    BY FileDeleteObserverAssumption DEF ReporterInv
  <1>1. CASE StopOld
    BY <1>0, <1>1 DEF StopOld, ListenerAt, StopBegins, PointerInv
  <1>2. CASE StoppedOld
    BY <1>0, <1>2 DEF StoppedOld, ListenerAt, StopEnds, PointerInv
  <1>3. CASE SetReportUrl
    BY <1>0, <1>3 DEF SetReportUrl, ListenerAt, SetUrl, PointerInv, reporterVars, deleteVars
  <1>4. ASSUME NEW o \in Observer, NewObserver(o) PROVE PointerInv'
    <2>1. ~mCancelled[o]
      BY <1>4 DEF NewObserver, Create, ReporterInv, LifeInv
    <2> QED
      BY <1>0, <1>4, <2>1 DEF NewObserver, ListenerAt, Create, PointerInv, DeleteTypeOK
  <1> QED
    BY <1>1, <1>2, <1>3, <1>4

LEMMA PointerAside ==
  ASSUME PointerInv, Aside
  PROVE  PointerInv'
  <1>1. /\ UNCHANGED reporterVars /\ mFileObserver' = mFileObserver
    BY AsideKeeps
  <1>2. \/ listener' = listener
        \/ listener \notin {"stopped", "creating"} /\ listener' \notin {"stopped", "creating"}
        \/ mFileObserver = Nobody /\ listener # "stopped" /\ listener' # "stopped"
    BY DEF Aside, LeaveWait, Exit, Listen, CheckLoop, SelectFails, SelectTimesOut, AcceptFails,
           Receive, Reply, NoOld, Kill, Send, ListenerAt
  <1> QED
    BY <1>1, <1>2 DEF PointerInv, reporterVars, deleteVars

-----------------------------------------------------------------------------
(* Why no two observers report the same deletion. *)

\* What one step of an observer's thread may do to what OneReporterInv relates.
LEMMA ActorReports ==
  ASSUME ReporterInv, NEW p \in Observer, Actor(p)
  PROVE  /\ mCancelled' = mCancelled
         /\ \A o \in Observer : object[o] = "freed" => object'[o] = "freed"
         /\ \A o \in Observer : object[o] = "unborn" <=> object'[o] = "unborn"
         /\ \A o \in Observer \ {p} :
              /\ handler'[o] = handler[o] /\ request'[o] = request[o]
              /\ thread'[o] = thread[o] /\ notified'[o] = notified[o]
              /\ watch'[o] = watch[o]
         /\ watch'[p] \in {watch[p], 0, link}
         /\ Reports(p)' => Reports(p) \/ (OnEvent(p) /\ ~mCancelled[p])
  <1>0. /\ LifeInv(p) /\ ReportInv(p) /\ ThreadTypeOK /\ KernelTypeOK /\ DeleteTypeOK
        /\ ObserverInv
    BY DEF ReporterInv, ObserverInv, TypeOK
  <1>1. mCancelled' = mCancelled
    BY ActorKeepsOwner
  <1>2. object' = object \/ (object' = [object EXCEPT ![p] = "freed"] /\ Finish(p))
    BY DEF Actor, WatcherRuns, WatchFails, Watches, Outside, OnEventRuns, Enter, OnEvent,
           SendNothing, CurlInitFails, SendRequest, Answered, NotAnswered, TryAgain, StopDaemon,
           Finish, Leave
  <1>3. Finish(p) => object[p] = "live"
    BY <1>0 DEF Finish, Step, LifeInv, DeleteTypeOK
  <1>4. \A o \in Observer \ {p} :
          /\ handler'[o] = handler[o] /\ request'[o] = request[o]
          /\ thread'[o] = thread[o] /\ notified'[o] = notified[o]
    BY ActorKeepsOthers
  <1>5. \A o \in Observer \ {p} : watch'[o] = watch[o]
    BY <1>0, ActorSteps, OthersKeep DEF observerVars, kernelVars
  <1>6. watch'[p] \in {watch[p], 0, link}
    BY <1>0, ActorSteps DEF observerVars, kernelVars, KernelTypeOK, StepOf, ThreadRuns,
       StartWatching, StopWatching, SetupFails, Setup, AddWatch, Read, ReadEvents, Retry, Settle,
       Dequeue, BatchDone, Skip, Filter, CallDelegate, Close, CloseDescriptor, ReadFails, Return
  <1>7. Reports(p)' => Reports(p) \/ (OnEvent(p) /\ ~mCancelled[p])
    <2>1. CASE Watches(p) \/ WatchFails(p)
      BY <2>1 DEF Watches, WatchFails, Outside, Reports, Reporting
    <2>2. CASE Enter(p) \/ Finish(p) \/ Leave(p)
      BY <1>0, <2>2 DEF Enter, Finish, Leave, Step, DeleteTypeOK, Reports, Reporting
    <2>3. CASE OnEvent(p)
      BY <1>0, <2>3 DEF OnEvent, Step, DeleteTypeOK, Reports, Reporting
    <2>4. CASE Working(p) /\ ~OnEvent(p)
      BY <1>0, <2>4 DEF Working, SendNothing, CurlInitFails, SendRequest, Answered, NotAnswered,
         TryAgain, StopDaemon, Step, FailedAttempt, DeleteTypeOK, Reports, Reporting
    <2> QED
      BY <2>1, <2>2, <2>3, <2>4 DEF Actor, WatcherRuns, OnEventRuns, Working
  <1> QED
    BY <1>0, <1>1, <1>2, <1>3, <1>4, <1>5, <1>6, <1>7 DEF DeleteTypeOK

\* An observer that reports has heard, as the last thing, of a directory that has
\* left the path, and hears of nothing more.
LEMMA ReporterHeard ==
  ASSUME ReporterInv, NEW o \in Observer, Reports(o)
  PROVE  /\ notified[o] # <<>> /\ Heard(o)
         /\ thread[o] \in {"inDelegate", "closing", "ended"}
         /\ DeletionOf(o) # link /\ DeletionOf(o) # 0
  <1>0. /\ LifeInv(o) /\ ReportInv(o) /\ TerminalInv(o) /\ GoneInv(o)
        /\ notified[o] \in Seq(Call)
    BY DEF ReporterInv, ObserverInv, TypeOK, ThreadTypeOK
  <1>1. notified[o] # <<>> /\ notified[o][Len(notified[o])].event = "Delete"
    <2>1. CASE request[o] # NoUrl
      BY <1>0, <2>1 DEF ReportInv
    <2>2. CASE handler[o] \in Reporting
      <3>1. thread[o] = "inDelegate" /\ notifyEvent[o] = "Delete"
        BY <1>0, <2>2 DEF LifeInv, ReportInv, Reporting
      <3> QED
        BY <1>0, <3>1 DEF TerminalInv
    <2> QED
      BY <2>1, <2>2 DEF Reports
  <1>2. Len(notified[o]) \in 1..Len(notified[o])
    BY <1>0, <1>1
  <1>3. Heard(o)
    BY <1>1, <1>2 DEF Heard, Terminal
  <1>4. DeletionOf(o) # link /\ DeletionOf(o) \in 1..installs
    BY <1>0, <1>1, <1>2 DEF GoneInv, DeletionOf
  <1> QED
    BY <1>0, <1>1, <1>3, <1>4 DEF TerminalInv

LEMMA HeardActor ==
  ASSUME ReporterInv, NEW p \in Observer, Actor(p), HeardInv(p)
  PROVE  HeardInv(p)'
  <1>0. LifeInv(p) /\ TypeOK /\ notified[p] \in Seq(Call)
    BY DEF ReporterInv, ObserverInv, TypeOK, ThreadTypeOK
  <1> SUFFICES ASSUME thread'[p] = "inDelegate"
               PROVE  notified'[p] # <<>> /\ DeletionOf(p)' = watch'[p]
    BY DEF HeardInv
  <1>1. CASE Enter(p)
    <2> DEFINE call == [event |-> notifyEvent[p], mask |-> mask[p],
                        inode |-> watch[p], state |-> mState[p]]
    <2>1. notified'[p] = Append(notified[p], call) /\ watch' = watch
      BY <1>0, <1>1 DEF Enter, CallDelegate, kernelVars, TypeOK, ThreadTypeOK
    <2>2. call.inode = watch[p]
      OBVIOUS
    <2> HIDE DEF call
    <2>3. notified'[p] # <<>> /\ notified'[p][Len(notified'[p])] = call
      BY <1>0, <2>1
    <2> QED
      BY <2>1, <2>2, <2>3 DEF DeletionOf
  <1>2. CASE Working(p) \/ Finish(p)
    BY <1>2 DEF Working, OnEvent, SendNothing, CurlInitFails, SendRequest, Answered, NotAnswered,
       TryAgain, StopDaemon, Finish, observerVars, kernelVars, threadVars, HeardInv, DeletionOf
  <1>3. ~Leave(p)
    <2>1. Leave(p) => Returned(p)
      BY PlainSteps DEF Leave, ReporterInv
    <2> QED
      BY <1>0, <2>1 DEF Returned, Goto, TypeOK, ThreadTypeOK
  <1>4. ~(Watches(p) \/ WatchFails(p))
    BY <1>0 DEF Watches, WatchFails, Outside, SetupFails, Setup, Read, Retry, Settle, Dequeue,
       BatchDone, Skip, Filter, Close, ReadFails, AfterEvent, LeaveLoop, Goto, TypeOK, ThreadTypeOK
  <1> QED
    BY <1>1, <1>2, <1>3, <1>4 DEF Actor, WatcherRuns, OnEventRuns, Working

LEMMA OneReporterActor ==
  ASSUME ReporterInv, OneReporterInv, NEW p \in Observer, Actor(p), UNCHANGED serverVars
  PROVE  OneReporterInv'
  <1>0. SoleInv /\ \A o \in Observer : HeardInv(o)
    BY DEF OneReporterInv
  <1>1. \A o \in Observer : Spent(o) => Spent(o)'
    BY ActorReports DEF Spent
  <1>2. SoleInv'
    BY <1>0, <1>1, ActorReports DEF SoleInv, serverVars
  <1>3. \A o \in Observer : HeardInv(o)'
    BY <1>0, HeardActor, ActorReports DEF HeardInv, DeletionOf
  <1>4. \A o \in Observer : Reports(o) => DeletionOf(o)' = DeletionOf(o)
    <2>1. \A o \in Observer \ {p} : notified'[o] = notified[o]
      BY ActorReports
    <2>2. Reports(p) => notified' = notified
      BY ReporterHeard, WindingUp
    <2> QED
      BY <2>1, <2>2 DEF DeletionOf
  <1>5. ASSUME NEW o \in Observer, NEW q \in Observer, o # q, Reports(o)
        PROVE  watch'[q] = DeletionOf(o) => Spent(q)'
    <2>1. watch'[q] \in {watch[q], 0, link}
      BY ActorReports
    <2> QED
      BY <1>1, <1>5, <2>1, ReporterHeard DEF OneReporterInv, ApartInv
  <1>6. CASE Reports(p)' => Reports(p)
    <2>1. \A o \in Observer : Reports(o)' => Reports(o)
      BY <1>6, ActorReports DEF Reports
    <2>2. ASSUME NEW o \in Observer, NEW q \in Observer, o # q PROVE ApartInv(o, q)'
      BY <1>4, <1>5, <2>1, <2>2 DEF OneReporterInv, ApartInv
    <2> QED
      BY <1>2, <1>3, <2>2 DEF OneReporterInv
  <1>7. CASE Reports(p)' /\ ~Reports(p)
    <2>1. OnEvent(p) /\ ~mCancelled[p]
      BY <1>7, ActorReports
    <2>2. /\ thread[p] = "inDelegate" /\ object[p] = "live"
      BY <2>1 DEF OnEvent, Step, ReporterInv, LifeInv, DeleteTypeOK
    <2>3. UNCHANGED <<watch, notified, object>>
      BY <2>1 DEF OnEvent, observerVars, kernelVars, threadVars
    <2>4. DeletionOf(p) = watch[p] /\ watch[p] # 0
      BY <1>0, <2>2 DEF HeardInv, ReporterInv, ObserverInv, WatchInv, Unwatched
    <2>5. ~Spent(p)
      BY <2>1, <2>2 DEF Spent
    <2>6. ASSUME NEW q \in Observer, q # p
          PROVE  /\ Reports(q) => DeletionOf(q) # DeletionOf(p)
                 /\ watch[q] = DeletionOf(p) => Spent(q)
      <3>1. Reports(q) => DeletionOf(q) # DeletionOf(p)
        BY <2>4, <2>5, <2>6 DEF OneReporterInv, ApartInv
      <3>2. p = mFileObserver
        BY <1>0, <2>2, <2>5 DEF SoleInv
      <3>3. watch[q] # 0 => object[q] # "unborn"
        BY DEF ReporterInv, ObserverInv, WatchInv, Unwatched, LifeInv
      <3> QED
        BY <1>0, <2>4, <2>6, <3>1, <3>2, <3>3 DEF SoleInv
    <2>7. \A q \in Observer \ {p} : Reports(q)' <=> Reports(q)
      BY ActorReports DEF Reports
    <2>8. \A q \in Observer : DeletionOf(q)' = DeletionOf(q)
      BY <2>3 DEF DeletionOf
    <2>9. ASSUME NEW o \in Observer, NEW q \in Observer, o # q PROVE ApartInv(o, q)'
      <3>1. CASE o = p
        BY <1>1, <2>3, <2>6, <2>7, <2>8, <2>9, <3>1 DEF ApartInv
      <3>2. CASE q = p
        BY <1>5, <2>6, <2>7, <2>8, <2>9, <3>2 DEF ApartInv
      <3>3. CASE o # p /\ q # p
        BY <1>5, <2>7, <2>8, <2>9, <3>3 DEF OneReporterInv, ApartInv
      <3> QED
        BY <3>1, <3>2, <3>3
    <2> QED
      BY <1>2, <1>3, <2>9 DEF OneReporterInv
  <1> QED
    BY <1>6, <1>7

\* A step that leaves the observers' threads and their watches alone.
LEMMA OneReporterElsewhere ==
  ASSUME ReporterInv, OneReporterInv, SoleInv',
         UNCHANGED <<handler, request, notified, watch>>,
         \A o \in Observer : thread'[o] = "inDelegate" => thread[o] = "inDelegate",
         \A o \in Observer : Spent(o) => Spent(o)'
  PROVE  OneReporterInv'
  BY DEF OneReporterInv, HeardInv, ApartInv, Reports, DeletionOf

LEMMA OneReporterListener ==
  ASSUME ReporterInv, ServerTypeOK, PointerInv, OneReporterInv,
         \/ StopOld \/ StoppedOld \/ SetReportUrl
         \/ \E o \in Observer : NewObserver(o)
  PROVE  OneReporterInv'
  <1>0. /\ DeleteTypeOK /\ ThreadTypeOK /\ Nobody \notin Observer /\ SoleInv
        /\ \A o \in Observer : LifeInv(o)
    BY FileDeleteObserverAssumption
    DEF ReporterInv, ObserverInv, TypeOK, OneReporterInv
  <1>1. UNCHANGED reporterVars \/ \E o \in Observer : OwnerActs(o)
    BY ListenerCalls DEF OwnerActs, NewObserver
  <1>2. UNCHANGED <<handler, request, notified, watch>>
    <2>1. CASE UNCHANGED reporterVars
      BY <2>1 DEF reporterVars, deleteVars, observerVars, kernelVars, threadVars
    <2>2. ASSUME NEW o \in Observer, OwnerActs(o)
          PROVE  UNCHANGED <<handler, request, notified, watch>>
      <3>1. watch' = watch
        BY <2>2 DEF OwnerActs, Create, StopBegins, StopEnds, SetUrl, StartWatching, StopWatching,
                    observerVars, kernelVars
      <3> QED
        BY <2>2, <3>1, OwnerKeeps
    <2> QED
      BY <1>1, <2>1, <2>2
  <1>3. \A o \in Observer : thread'[o] = "inDelegate" => thread[o] = "inDelegate"
    <2>1. CASE UNCHANGED reporterVars
      BY <2>1 DEF reporterVars, observerVars, threadVars
    <2>2. ASSUME NEW o \in Observer, OwnerActs(o)
          PROVE  thread' = thread \/ thread' = [thread EXCEPT ![o] = "setup"]
      BY <2>2 DEF OwnerActs, Create, StopBegins, StopEnds, SetUrl, StartWatching, StopWatching,
                  observerVars, threadVars
    <2> QED
      BY <1>0, <1>1, <2>1, <2>2 DEF ThreadTypeOK
  <1>4. \A o \in Observer : Spent(o) => Spent(o)'
    <2>1. CASE UNCHANGED reporterVars
      BY <2>1 DEF reporterVars, deleteVars, Spent
    <2>2. ASSUME NEW o \in Observer, OwnerActs(o)
          PROVE  \A q \in Observer : Spent(q) => Spent(q)'
      BY <1>0, <2>2 DEF OwnerActs, Create, StopBegins, StopEnds, SetUrl, Spent, DeleteTypeOK
    <2> QED
      BY <1>1, <2>1, <2>2
  <1>5. SoleInv'
    <2>1. CASE StopOld
      <3>1. mFileObserver' = mFileObserver /\ Spent(mFileObserver)' /\ object' = object
        BY <1>0, <2>1 DEF StopOld, StopBegins, Spent, DeleteTypeOK, ServerTypeOK
      <3> QED
        BY <1>0, <1>4, <3>1 DEF SoleInv
    <2>2. CASE StoppedOld
      BY <1>0, <1>4, <2>2 DEF StoppedOld, ListenerAt, StopEnds, SoleInv
    <2>3. CASE SetReportUrl
      BY <1>0, <1>4, <2>3 DEF SetReportUrl, ListenerAt, SetUrl, SoleInv, reporterVars, deleteVars
    <2>4. ASSUME NEW o \in Observer, NewObserver(o) PROVE SoleInv'
      BY <1>0, <1>4, <2>4 DEF NewObserver, ListenerAt, Create, SoleInv, DeleteTypeOK
    <2> QED
      BY <2>1, <2>2, <2>3, <2>4
  <1> QED
    BY <1>2, <1>3, <1>4, <1>5, OneReporterElsewhere

LEMMA OneReporterAside ==
  ASSUME ReporterInv, OneReporterInv, Aside \/ World
  PROVE  OneReporterInv'
  <1>1. /\ UNCHANGED <<handler, request, notified, thread, watch, object, mCancelled>>
        /\ mFileObserver' = mFileObserver
    <2>1. World => watch' = watch
      BY KernelMoves DEF World, ReporterInv
    <2> QED
      BY <2>1, AsideKeeps DEF World, reporterVars, deleteVars, observerVars, kernelVars, threadVars,
                              serverVars
  <1>2. \/ listener' = listener
        \/ listener \notin {"stopped", "creating"} /\ listener' \notin {"stopped", "creating"}
        \/ mFileObserver = Nobody
    BY DEF Aside, World, LeaveWait, Exit, Listen, CheckLoop, SelectFails, SelectTimesOut,
           AcceptFails, Receive, Reply, NoOld, Kill, Send, ListenerAt, serverVars
  <1>3. SoleInv'
    BY <1>1, <1>2, FileDeleteObserverAssumption DEF OneReporterInv, SoleInv, Spent
  <1> QED
    BY <1>1, <1>3, OneReporterElsewhere DEF Spent

LEMMA NextOneReporter ==
  ASSUME ReporterInv, ServerTypeOK, PointerInv, OneReporterInv, [ServerNext]_daemonVars
  PROVE  OneReporterInv'
  <1>1. CASE UNCHANGED daemonVars
    <2>1. /\ UNCHANGED <<handler, request, notified, thread, watch, object, mCancelled>>
          /\ UNCHANGED <<mFileObserver, listener>>
      BY <1>1 DEF daemonVars, serverVars, reporterVars, deleteVars, observerVars, kernelVars,
                  threadVars
    <2>2. SoleInv'
      BY <2>1 DEF OneReporterInv, SoleInv, Spent
    <2> QED
      BY <2>1, <2>2, OneReporterElsewhere DEF Spent
  <1>2. CASE Aside \/ World
    BY <1>2, OneReporterAside
  <1>3. CASE \/ StopOld \/ StoppedOld \/ SetReportUrl
             \/ \E o \in Observer : NewObserver(o)
    BY <1>3, OneReporterListener
  <1>4. CASE \E o \in Observer : Watcher(o) \/ WatcherReadFails(o)
    <2>1. PICK p \in Observer : Actor(p) /\ UNCHANGED serverVars
      BY <1>4 DEF Watcher, WatcherReadFails, Actor
    <2> QED
      BY <2>1, OneReporterActor
  <1> QED
    BY <1>1, <1>2, <1>3, <1>4, NextCases

-----------------------------------------------------------------------------
LEMMA ServerInitInv == ServerInitial => DaemonInv
  <1> SUFFICES ASSUME ServerInitial PROVE DaemonInv
    OBVIOUS
  <1>1. ReporterInv
    BY ReporterInit DEF ServerInitial
  <1>2. ServerTypeOK /\ SelectInv
    BY BackendServerAssumption
    DEF ServerInitial, ServerInit, ServerTypeOK, SelectInv, Request, Idle
  <1>3. PointerInv /\ CauseInv /\ \A o \in Observer : QuietInv(o)
    BY DEF ServerInitial, ServerInit, DeleteInitial, DeleteInit, PointerInv, CauseInv, QuietInv
  <1>4. OneReporterInv
    BY DEF ServerInitial, DeleteInitial, DeleteInit, ThreadInit, OneReporterInv, SoleInv, HeardInv,
           ApartInv, Reports, Reporting
  <1> QED
    BY <1>1, <1>2, <1>3, <1>4 DEF DaemonInv

LEMMA NextDaemonInv == DaemonInv /\ [ServerNext]_daemonVars => DaemonInv'
  <1> SUFFICES ASSUME DaemonInv, [ServerNext]_daemonVars PROVE DaemonInv'
    OBVIOUS
  <1>0. /\ ReporterInv /\ ServerTypeOK /\ SelectInv /\ PointerInv /\ CauseInv
        /\ OneReporterInv /\ \A o \in Observer : QuietInv(o)
    BY DEF DaemonInv
  <1>1. [DeleteNext]_reporterVars
    BY <1>0, ServerRefines
  <1>2. ReporterInv' /\ CauseInv' /\ ServerTypeOK' /\ SelectInv' /\ OneReporterInv'
    BY <1>0, <1>1, NextReporterInv, NextCause, NextServerTypes, NextOneReporter
  <1>3. CASE UNCHANGED deleteVars /\ UNCHANGED serverVars
    BY <1>0, <1>2, <1>3 DEF deleteVars, serverVars, PointerInv, QuietInv, DaemonInv
  <1>4. CASE Aside
    <2>1. \A o \in Observer : QuietInv(o)'
      BY <1>0, <1>4, AsideKeeps DEF reporterVars, deleteVars, QuietInv
    <2> QED
      BY <1>0, <1>2, <1>4, <2>1, PointerAside DEF DaemonInv
  <1>5. CASE \/ StopOld \/ StoppedOld \/ SetReportUrl
             \/ \E o \in Observer : NewObserver(o)
    <2>1. UNCHANGED reporterVars \/ \E o \in Observer : OwnerActs(o)
      BY <1>0, <1>5, ListenerCalls DEF OwnerActs, NewObserver
    <2>2. \A o \in Observer : QuietInv(o)'
      BY <1>0, <2>1, QuietOwner DEF reporterVars, deleteVars, QuietInv
    <2> QED
      BY <1>0, <1>2, <1>5, <2>2, PointerListener DEF DaemonInv
  <1>6. CASE \E o \in Observer : Watcher(o) \/ WatcherReadFails(o)
    <2>1. PICK p \in Observer : Actor(p) /\ UNCHANGED serverVars
      BY <1>6 DEF Watcher, WatcherReadFails, Actor
    <2> QED
      BY <1>0, <1>2, <2>1, QuietActor, PointerActor DEF DaemonInv
  <1> QED
    BY <1>3, <1>4, <1>5, <1>6, NextCases DEF World, daemonVars, reporterVars

-----------------------------------------------------------------------------
\* The daemon drives its observers within FileDeleteObserver's specification,
\* so all that is proved of that holds in the daemon.
THEOREM DriveFileDeleteObserver == ServerSpec => DeleteSpec
  <1>1. ServerInitial => DeleteInitial
    BY DEF ServerInitial
  <1>2. DaemonInv => ServerTypeOK /\ PointerInv
    BY DEF DaemonInv
  <1> QED
    BY <1>1, <1>2, ServerInitInv, NextDaemonInv, ServerRefines, PTL DEF ServerSpec, DeleteSpec

\* The listener, its pointer, and the daemon's end, for every step of every party.
THEOREM DaemonCorrect == ServerSpec => []DaemonInv
  BY ServerInitInv, NextDaemonInv, PTL DEF ServerSpec

\* The types of the variables of all three modules.
THEOREM DaemonTypeCorrect == ServerSpec => []DaemonTypeOK
  <1>1. DaemonInv => DaemonTypeOK
    BY DEF DaemonInv, ReporterInv, ObserverInv, DaemonTypeOK, DeleteObserverTypeOK
  <1> QED
    BY <1>1, DaemonCorrect, PTL

\* While the daemon is meant to live, the pointer leads to a live observer but
\* for the rest of a FILE_PATH request.
LEMMA PointerLive == DaemonInv => CurrentObserverLive
  <1> SUFFICES ASSUME DaemonInv, keepAlive, listener \notin {"stopped", "creating"},
                      mFileObserver # Nobody
               PROVE  object[mFileObserver] = "live"
    BY DEF CurrentObserverLive
  <1>1. mFileObserver \in Observer
    BY DEF DaemonInv, ServerTypeOK
  <1>2. object[mFileObserver] \in {"unborn", "live", "freed"}
    BY <1>1 DEF DaemonInv, ReporterInv, DeleteTypeOK
  <1> QED
    BY <1>1, <1>2 DEF DaemonInv, PointerInv, QuietInv

THEOREM PointersLead == ServerSpec => []CurrentObserverLive
  BY PointerLive, DaemonCorrect, PTL

\* The listener uses a freed observer only after the daemon was told to stop, or
\* between the two writes of stopWatching.
THEOREM OwnerTouchesFreedRarely == ServerSpec => OwnerTouchesFreedOnlyThen
  <1>1. DaemonInv /\ [ServerNext]_daemonVars =>
          [("owner" \in touchedFreed' /\ "owner" \notin touchedFreed)
             => ~keepAlive \/ listener = "stopped"]_daemonVars
    <2> SUFFICES ASSUME DaemonInv, ServerNext, "owner" \in touchedFreed',
                        "owner" \notin touchedFreed, keepAlive, listener # "stopped"
                 PROVE  FALSE
      OBVIOUS
    <2>1. CurrentObserverLive
      BY PointerLive
    <2>2. CASE Aside \/ World
      BY <2>2, AsideKeeps DEF World, reporterVars, deleteVars
    <2>3. CASE StoppedOld
      BY <2>3 DEF StoppedOld, ListenerAt
    <2>4. CASE StopOld \/ SetReportUrl
      BY <2>1, <2>4 DEF StopOld, SetReportUrl, ListenerAt, StopBegins, SetUrl, Touches,
                        CurrentObserverLive, reporterVars, deleteVars
    <2>5. CASE \E o \in Observer : NewObserver(o)
      BY <2>5 DEF NewObserver, Create
    <2>6. CASE \E o \in Observer : Watcher(o) \/ WatcherReadFails(o)
      <3>1. PICK o \in Observer : Actor(o)
        BY <2>6 DEF Watcher, WatcherReadFails, Actor
      <3>2. touchedFreed' = touchedFreed \/ Touches("watcher", o)
        BY <3>1 DEF Actor, WatcherRuns, WatchFails, Watches, Outside, OnEventRuns, Enter, OnEvent,
           SendNothing, CurlInitFails, SendRequest, Answered, NotAnswered, TryAgain, StopDaemon,
           Finish, Leave
      <3> QED
        BY <3>2 DEF Touches
    <2> QED
      BY <2>2, <2>3, <2>4, <2>5, <2>6, NextCases
  <1> QED
    BY <1>1, DaemonCorrect, PTL DEF ServerSpec, OwnerTouchesFreedOnlyThen

\* However often the same path is registered again, no two observers report the
\* same uninstall: only the newest may begin to, and one that is created once the
\* older is past its look at mCancelled finds another directory or none.
THEOREM DeletionsReportedByOne == ServerSpec => []OneReporterPerDeletion
  <1>1. DaemonInv => OneReporterPerDeletion
    BY DEF DaemonInv, OneReporterInv, ApartInv, Reports, OneReporterPerDeletion
  <1> QED
    BY <1>1, DaemonCorrect, PTL

\* The daemon is told to stop only by an observer that heard Error, or that heard
\* a deletion it then tried to report.
THEOREM ShutdownsHaveCause == ServerSpec => []ShutdownHasCause
  <1>1. DaemonInv => ShutdownHasCause
    BY DEF DaemonInv, CauseInv, Cause, ShutdownHasCause
  <1> QED
    BY <1>1, DaemonCorrect, PTL

=============================================================================
