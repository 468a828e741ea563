------------------------- MODULE FileDeleteObserver -------------------------
(***************************************************************************)
(* src/jni/observer/FileDeleteObserver.cpp: the delegate that turns a      *)
(* Delete event into an HTTP request and then deletes itself, the          *)
(* FileObserver it owns included.  onEvent runs in the watching thread;    *)
(* the owner's calls (create, set the URL, stop) come from one other       *)
(* thread that is never told of the deletion.                              *)
(***************************************************************************)
EXTENDS FileObserver, FiniteSets

CONSTANTS Url,            \* the non-empty URLs a client may set
          NoUrl,          \* the empty string, which a client may set as well
          Nobody,         \* no observer
          kFailRetryTimes \* 10 in the code

ASSUME FileDeleteObserverAssumption ==
  /\ NoUrl \notin Url /\ Nobody \notin Observer
  /\ kFailRetryTimes \in Nat \ {0}
  /\ EventFilter = {"Delete", "Error"} \* FileDeleteObserver.cpp:16

VARIABLES object,     \* "unborn", "live", or "freed"
          mCancelled,
          mUrl,
          handler,    \* where onEvent is, in the watching thread
          tries,      \* attempts of onDelete that have failed
          noCurl,     \* history: the observers whose curl_easy_init failed
          request,    \* the URL the attempt under way has read
          sent,       \* history: the requests that reached the web server
          stopping,   \* the observer whose stopWatching is half done
          keepAlive,  \* gKeepAliveDaemonProcess, which BackendServer::Stop clears
          touchedFreed \* history: who used an observer already freed

deleteVars == <<object, mCancelled, mUrl, handler, tries, noCurl, request, sent,
                stopping, keepAlive, touchedFreed>>
reporterVars == <<observerVars, deleteVars>>

HandlerState == {"idle", "entered", "trying", "performing", "waiting",
                 "stopDaemon", "finishing", "returned"}

DeleteTypeOK ==
  /\ object \in [Observer -> {"unborn", "live", "freed"}]
  /\ mCancelled \in [Observer -> BOOLEAN]
  /\ mUrl \in [Observer -> Url \cup {NoUrl}]
  /\ handler \in [Observer -> HandlerState]
  /\ tries \in [Observer -> 0..kFailRetryTimes]
  /\ noCurl \subseteq Observer
  /\ request \in [Observer -> Url \cup {NoUrl}]
  /\ sent \in [Observer -> [Url -> Nat]]
  /\ stopping \in Observer \cup {Nobody}
  /\ keepAlive \in BOOLEAN
  /\ touchedFreed \subseteq {"watcher", "owner"}

DeleteInit ==
  /\ object = [o \in Observer |-> "unborn"]
  /\ mCancelled = [o \in Observer |-> FALSE]
  /\ mUrl = [o \in Observer |-> NoUrl]
  /\ handler = [o \in Observer |-> "idle"]
  /\ tries = [o \in Observer |-> 0]
  /\ noCurl = {}
  /\ request = [o \in Observer |-> NoUrl]
  /\ sent = [o \in Observer |-> [u \in Url |-> 0]]
  /\ stopping = Nobody /\ keepAlive = TRUE /\ touchedFreed = {}

Touches(who, o) ==
  touchedFreed' = touchedFreed \cup (IF object[o] = "live" THEN {} ELSE {who})

-----------------------------------------------------------------------------
(* The owner's calls.  A write to a freed observer is recorded; the memory is *)
(* nobody's, so it changes nothing here (that it may crash is Kill's part).   *)

Create(o) == \* new FileDeleteObserver(path), then startWatching
  /\ object[o] = "unborn"
  /\ object' = [object EXCEPT ![o] = "live"]
  /\ \/ StartWatching(o)
     \/ UNCHANGED observerVars \* pthread_create failed; nobody looks
  /\ UNCHANGED <<mCancelled, mUrl, handler, tries, noCurl, request, sent, stopping,
                 keepAlive, touchedFreed>>

SetUrl(o, u) == \* setHttpRequestOnDelete, of any text
  /\ object[o] # "unborn"
  /\ Touches("owner", o)
  /\ mUrl' = IF object[o] = "live" THEN [mUrl EXCEPT ![o] = u] ELSE mUrl
  /\ UNCHANGED <<observerVars, object, mCancelled, handler, tries, noCurl, request, sent,
                 stopping, keepAlive>>

StopBegins(o) == \* stopWatching: mCancelled = true
  /\ object[o] # "unborn" /\ stopping = Nobody
  /\ Touches("owner", o)
  /\ mCancelled' = IF object[o] = "live" THEN [mCancelled EXCEPT ![o] = TRUE]
                                         ELSE mCancelled
  /\ stopping' = o
  /\ UNCHANGED <<observerVars, object, mUrl, handler, tries, noCurl, request, sent, keepAlive>>

StopEnds(o) == \* mFileObserver->stopWatching()
  /\ stopping = o
  /\ Touches("owner", o)
  /\ stopping' = Nobody
  /\ IF object[o] = "live" THEN StopWatching(o) ELSE UNCHANGED observerVars
  /\ UNCHANGED <<object, mCancelled, mUrl, handler, tries, noCurl, request, sent, keepAlive>>

-----------------------------------------------------------------------------
(* onEvent, in the watching thread. *)

Step(o, from, to) ==
  /\ handler[o] = from
  /\ handler' = [handler EXCEPT ![o] = to]

Enter(o) ==
  /\ CallDelegate(o)
  /\ Step(o, "idle", "entered")
  /\ Touches("watcher", o)
  /\ UNCHANGED <<object, mCancelled, mUrl, tries, noCurl, request, sent, stopping, keepAlive>>

\* Mutant: mCancelled is not looked at.
OnEventUncancelled(o) ==
  /\ Step(o, "entered", IF notifyEvent[o] = "Error" THEN "stopDaemon" ELSE "trying")
  /\ Touches("watcher", o)
  /\ UNCHANGED <<observerVars, object, mCancelled, mUrl, tries, noCurl, request, sent,
                 stopping, keepAlive>>

\* Mutant: a cancelled observer stops the daemon before it deletes itself.
OnEventStopsAlways(o) ==
  /\ Step(o, "entered", IF notifyEvent[o] = "Delete" /\ ~mCancelled[o]
                          THEN "trying" ELSE "stopDaemon")
  /\ Touches("watcher", o)
  /\ UNCHANGED <<observerVars, object, mCancelled, mUrl, tries, noCurl, request, sent,
                 stopping, keepAlive>>

\* Mutant: Error deletes the observer and leaves the daemon running.
OnEventErrorLeavesDaemon(o) ==
  /\ Step(o, "entered", IF notifyEvent[o] = "Delete" /\ ~mCancelled[o]
                          THEN "trying" ELSE "finishing")
  /\ Touches("watcher", o)
  /\ UNCHANGED <<observerVars, object, mCancelled, mUrl, tries, noCurl, request, sent,
                 stopping, keepAlive>>

OnEvent(o) ==
  /\ IF notifyEvent[o] = "Error" THEN Step(o, "entered", "stopDaemon")
     ELSE IF mCancelled[o] THEN Step(o, "entered", "finishing")
     ELSE Step(o, "entered", "trying")
  /\ Touches("watcher", o)
  /\ UNCHANGED <<observerVars, object, mCancelled, mUrl, tries, noCurl, request, sent,
                 stopping, keepAlive>>

\* Mutant: the loop of onDelete does not count.
FailedAttemptUncounted(o, from) == Step(o, from, "waiting") /\ UNCHANGED tries

\* An attempt of onDelete's loop that failed.
FailedAttempt(o, from) ==
  /\ Step(o, from, "waiting")
  /\ tries' = [tries EXCEPT ![o] = @ + 1]

SendNothing(o) == \* sendRequest with an empty URL: -1
  /\ mUrl[o] = NoUrl
  /\ FailedAttempt(o, "trying")
  /\ Touches("watcher", o)
  /\ UNCHANGED <<observerVars, object, mCancelled, mUrl, noCurl, request, sent,
                 stopping, keepAlive>>

CurlInitFails(o) == \* result stays 0, which onDelete takes for CURLE_OK
  /\ mUrl[o] # NoUrl
  /\ Step(o, "trying", "stopDaemon")
  /\ noCurl' = noCurl \cup {o}
  /\ Touches("watcher", o)
  /\ UNCHANGED <<observerVars, object, mCancelled, mUrl, tries, request, sent,
                 stopping, keepAlive>>

SendRequest(o) == \* libcurl copies the URL; the owner may change it from here on
  /\ mUrl[o] # NoUrl
  /\ Step(o, "trying", "performing")
  /\ request' = [request EXCEPT ![o] = mUrl[o]]
  /\ Touches("watcher", o)
  /\ UNCHANGED <<observerVars, object, mCancelled, mUrl, tries, noCurl, sent,
                 stopping, keepAlive>>

Delivered(o) == sent' = [sent EXCEPT ![o][request[o]] = @ + 1]

Answered(o) == \* CURLE_OK, whatever the HTTP status
  /\ Step(o, "performing", "stopDaemon")
  /\ Delivered(o)
  /\ UNCHANGED <<observerVars, object, mCancelled, mUrl, tries, noCurl, request,
                 stopping, keepAlive, touchedFreed>>

NotAnswered(o) == \* an error or the 30 s timeout: the server may have got it
  /\ FailedAttempt(o, "performing")
  /\ Delivered(o) \/ UNCHANGED sent
  /\ UNCHANGED <<observerVars, object, mCancelled, mUrl, noCurl, request,
                 stopping, keepAlive, touchedFreed>>

TryAgain(o) == \* after 3 s, also after the last attempt
  /\ Step(o, "waiting", IF tries[o] < kFailRetryTimes THEN "trying" ELSE "stopDaemon")
  /\ UNCHANGED <<observerVars, object, mCancelled, mUrl, tries, noCurl, request, sent,
                 stopping, keepAlive, touchedFreed>>

StopDaemon(o) == \* BackendServer::Stop()
  /\ Step(o, "stopDaemon", "finishing")
  /\ keepAlive' = FALSE
  /\ UNCHANGED <<observerVars, object, mCancelled, mUrl, tries, noCurl, request, sent,
                 stopping, touchedFreed>>

Finish(o) == \* delete this, and with it mFileObserver
  /\ Step(o, "finishing", "returned")
  /\ Touches("watcher", o)
  /\ object' = [object EXCEPT ![o] = "freed"]
  /\ UNCHANGED <<observerVars, mCancelled, mUrl, tries, noCurl, request, sent,
                 stopping, keepAlive>>

Leave(o) == \* back in ThreadFunc
  /\ Return(o)
  /\ Step(o, "returned", "idle")
  /\ UNCHANGED <<object, mCancelled, mUrl, tries, noCurl, request, sent, stopping,
                 keepAlive, touchedFreed>>

OnEventRuns(o) ==
  \/ Enter(o) \/ OnEvent(o) \/ SendNothing(o) \/ CurlInitFails(o)
  \/ SendRequest(o) \/ Answered(o) \/ NotAnswered(o) \/ TryAgain(o)
  \/ StopDaemon(o) \/ Finish(o) \/ Leave(o)

\* ThreadFunc uses the observer here: its path, isStopped, and eventFilter.
LooksAtObserver(o) == thread[o] \in {"setup", "draining", "checking"}

Outside(ThreadFuncStep, o) == \* a step of ThreadFunc outside onEvent
  /\ ThreadFuncStep
  /\ IF LooksAtObserver(o) THEN Touches("watcher", o) ELSE UNCHANGED touchedFreed
  /\ UNCHANGED <<object, mCancelled, mUrl, handler, tries, noCurl, request, sent,
                 stopping, keepAlive>>

Watches(o) ==
  \/ Outside(SetupFails(o), o) \/ Outside(Setup(o), o) \/ Outside(Read(o), o)
  \/ Outside(Retry(o), o) \/ Outside(Settle(o), o) \/ Outside(Dequeue(o), o)
  \/ Outside(BatchDone(o), o) \/ Outside(Skip(o), o) \/ Outside(Filter(o), o)
  \/ Outside(Close(o), o)

WatcherRuns(o) == Watches(o) \/ OnEventRuns(o)
WatchFails(o)  == Outside(ReadFails(o), o)

OwnerCalls ==
  \E o \in Observer :
    \/ Create(o) \/ StopBegins(o) \/ StopEnds(o)
    \/ \E u \in Url \cup {NoUrl} : SetUrl(o, u)

DeleteInitial == KernelInit /\ ThreadInit /\ DeleteInit

DeleteNext ==
  \/ KernelNext /\ UNCHANGED <<threadVars, deleteVars>>
  \/ OwnerCalls
  \/ \E o \in Observer : WatcherRuns(o) \/ WatchFails(o)

\* Threads are scheduled, and libcurl's 30 s timeout ends every attempt.
WatcherFairness == \A o \in Observer : WF_reporterVars(WatcherRuns(o))

DeleteSpec == DeleteInitial /\ [][DeleteNext]_reporterVars
FairDeleteSpec == DeleteSpec /\ WatcherFairness

-----------------------------------------------------------------------------
DeleteObserverTypeOK == TypeOK /\ DeleteTypeOK

HasHit(o) == \E u \in Url : sent[o][u] # 0

\* The watching thread deletes its observer at the end of onEvent and never
\* looks at it again, nor deletes it twice (FileDeleteObserver.cpp:127-131,
\* FileObserver.cpp:211-243).
WatcherNeverTouchesFreed == "watcher" \notin touchedFreed

\* An observer whose thread ran to its end has deleted itself, cancelled or not.
EndedMeansFreed ==
  \A o \in Observer : thread[o] \in {"closing", "ended"} => object[o] = "freed"

\* The server hears of an uninstall only after the watched directory is gone.
HitOnlyAfterDeletion ==
  \A o \in Observer : HasHit(o) =>
    \E i \in 1..Len(notified[o]) :
      notified[o][i].event = "Delete" /\ notified[o][i].inode # link

\* An observer that was stopped before onEvent was called never reports, though
\* the thread may be past its own check: stopWatching sets mCancelled before it
\* sets mState (FileDeleteObserver.cpp:30-35, 46-52).
StoppedBeforeCallNeverSends ==
  \A o \in Observer : \A i \in 1..Len(notified[o]) :
    notified[o][i].state = "Stopped" => request[o] = NoUrl /\ ~HasHit(o)

\* A delegate that has been called gets to the end of onEvent and deletes itself.
CalledMeansFreed ==
  \A o \in Observer : handler[o] = "entered" ~> object[o] = "freed"

-----------------------------------------------------------------------------
(* The inductive invariant behind the safety properties. *)

Reporting == {"trying", "performing", "waiting"}

LifeInv(o) == \* the object lives exactly as long as its thread needs it
  /\ handler[o] = "idle" <=> thread[o] # "inDelegate"
  /\ thread[o] \in {"calling", "inDelegate"} => notifyEvent[o] \in {"Delete", "Error"}
  /\ object[o] = "unborn" => thread[o] = "none" /\ mState[o] = "Created" /\ ~mCancelled[o]
  /\ object[o] = "freed" <=>
       handler[o] = "returned" \/ thread[o] \in {"closing", "ended"}

ReportInv(o) == \* only the Delete event leads to a request
  /\ handler[o] \in Reporting => notifyEvent[o] = "Delete"
  /\ handler[o] \in {"entered", "trying", "performing"} => tries[o] < kFailRetryTimes
  /\ thread[o] \notin {"inDelegate", "closing", "ended"} => tries[o] = 0
  /\ handler[o] = "performing" => request[o] # NoUrl
  /\ HasHit(o) => request[o] # NoUrl
  /\ request[o] # NoUrl =>
       notified[o] # <<>> /\ notified[o][Len(notified[o])].event = "Delete"

CancelInv(o) == \* mCancelled is set before mState
  /\ mState[o] = "Stopped" => mCancelled[o]
  /\ stopping = o => mCancelled[o] \/ object[o] = "freed"
  /\ \A i \in 1..Len(notified[o]) :
       notified[o][i].state = "Stopped" =>
         mCancelled[o] /\ handler[o] \notin Reporting /\ request[o] = NoUrl

ReporterInv ==
  /\ ObserverInv /\ DeleteTypeOK
  /\ \A o \in Observer : LifeInv(o) /\ ReportInv(o) /\ CancelInv(o)
  /\ WatcherNeverTouchesFreed

=============================================================================
