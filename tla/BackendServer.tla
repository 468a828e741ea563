---------------------------- MODULE BackendServer ----------------------------
(***************************************************************************)
(* The daemon of src/jni/observer/BackendServer.cpp from the moment fork   *)
(* has made it: the main thread that waits for keepAlive to fall, the      *)
(* listener thread that serves requests one at a time, and the watching    *)
(* threads of the observers it has created.  Only the newest observer is   *)
(* remembered, in mFileObserver, and nothing resets that pointer when the  *)
(* observer deletes itself.                                                *)
(***************************************************************************)
EXTENDS FileDeleteObserver

CONSTANTS kMaxRetryTimes, \* 5 in the code
          ClientSends,    \* bound: the kinds of requests clients send
          MaxRequests,    \* bound: how many
          MaxBacklog,     \* bound: how many wait to be accepted
          MayBeKilled     \* bound: whether the system may end the daemon

ASSUME BackendServerAssumption ==
  /\ kMaxRetryTimes \in Nat \ {0} /\ MaxRequests \in Nat /\ MaxBacklog \in Nat
  /\ MayBeKilled \in BOOLEAN
  /\ ClientSends \subseteq {"HELLO", "FILE_PATH", "REQ_ON_DEL", "HANGUP"}

VARIABLES daemon,        \* "running", "exited" by exit(0), or "killed"
          main,          \* the main thread of the daemon
          listener,      \* the listener thread
          mLoop,
          failTimes,     \* failed selects, never reset
          mFileObserver, \* the newest observer, Nobody for NULL
          inbox,         \* connections with a request to be accepted
          handling,      \* the request being handled, Idle when there is none
          requests       \* how many were made

serverVars == <<daemon, main, listener, mLoop, failTimes, mFileObserver, inbox,
                handling, requests>>
daemonVars == <<reporterVars, serverVars>>

\* A client may also connect and go away: recv then yields no request.
Request == [type : {"HELLO", "FILE_PATH", "HANGUP"}]
             \cup [type : {"REQ_ON_DEL"}, url : Url \cup {NoUrl}]

Idle == [type |-> "HANGUP"]

ServerTypeOK ==
  /\ daemon \in {"running", "exited", "killed"}
  /\ main \in {"waiting", "lingering", "exited"}
  /\ listener \in {"unborn", "listening", "selecting", "handling", "stopped",
                   "creating", "ended"}
  /\ mLoop \in BOOLEAN
  /\ failTimes \in 0..kMaxRetryTimes
  /\ mFileObserver \in Observer \cup {Nobody}
  /\ inbox \in Seq(Request) /\ handling \in Request
  /\ requests \in 0..MaxRequests

ServerInit ==
  /\ daemon = "running" /\ main = "waiting" /\ listener = "unborn"
  /\ mLoop = TRUE /\ failTimes = 0 /\ mFileObserver = Nobody
  /\ inbox = <<>> /\ handling = Idle /\ requests = 0

Running == daemon = "running"

-----------------------------------------------------------------------------
(* The main thread. *)

\* Mutant: the listener must end before it is told to.
LeaveWaitJoins ==
  /\ Running /\ main = "waiting" /\ ~keepAlive /\ listener = "ended"
  /\ main' = "lingering"
  /\ mLoop' = FALSE
  /\ UNCHANGED <<reporterVars, daemon, listener, failTimes, mFileObserver, inbox,
                 handling, requests>>

LeaveWait == \* the while loop of Start ends; stopListening
  /\ Running /\ main = "waiting" /\ ~keepAlive
  /\ main' = "lingering"
  /\ mLoop' = IF listener = "unborn" THEN mLoop ELSE FALSE
  /\ UNCHANGED <<reporterVars, daemon, listener, failTimes, mFileObserver, inbox,
                 handling, requests>>

Exit == \* exit(0), 10 s later, whatever the other threads are doing
  /\ Running /\ main = "lingering"
  /\ main' = "exited" /\ daemon' = "exited" /\ inbox' = <<>>
  /\ UNCHANGED <<reporterVars, listener, mLoop, failTimes, mFileObserver, handling,
                 requests>>

-----------------------------------------------------------------------------
(* The listener thread: BackendThread and startListening. *)

ListenerAt(from, to) ==
  /\ Running /\ listener = from
  /\ listener' = to

\* createThread, the constructor, and listen.  With its port taken the socket
\* listens on another one that no client knows: as if nobody ever called Send.
Listen ==
  /\ ListenerAt("unborn", "listening") \/ ListenerAt("unborn", "ended")
  /\ UNCHANGED <<reporterVars, daemon, main, mLoop, failTimes, mFileObserver, inbox,
                 handling, requests>>

CheckLoop == \* the loop condition; past the loop the socket is closed
  /\ IF mLoop /\ failTimes < kMaxRetryTimes
       THEN ListenerAt("listening", "selecting") /\ UNCHANGED inbox
       ELSE ListenerAt("listening", "ended") /\ inbox' = <<>>
  /\ UNCHANGED <<reporterVars, daemon, main, mLoop, failTimes, mFileObserver,
                 handling, requests>>

SelectFails ==
  /\ ListenerAt("selecting", "listening")
  /\ failTimes' = failTimes + 1
  /\ UNCHANGED <<reporterVars, daemon, main, mLoop, mFileObserver, inbox, handling,
                 requests>>

SelectTimesOut ==
  /\ inbox = <<>>
  /\ ListenerAt("selecting", "listening")
  /\ UNCHANGED <<reporterVars, daemon, main, mLoop, failTimes, mFileObserver, inbox,
                 handling, requests>>

AcceptFails == \* as it does once unclosed sockets have used up the descriptors
  /\ inbox # <<>>
  /\ ListenerAt("selecting", "listening")
  /\ UNCHANGED <<reporterVars, daemon, main, mLoop, failTimes, mFileObserver, inbox,
                 handling, requests>>

Receive == \* accept and recv
  /\ inbox # <<>>
  /\ ListenerAt("selecting",
                IF Head(inbox).type = "HANGUP" THEN "listening" ELSE "handling")
  /\ handling' = Head(inbox) /\ inbox' = Tail(inbox)
  /\ UNCHANGED <<reporterVars, daemon, main, mLoop, failTimes, mFileObserver, requests>>

(* handle *)

Reply == \* HELLO is echoed
  /\ handling.type = "HELLO"
  /\ ListenerAt("handling", "listening") /\ handling' = Idle
  /\ UNCHANGED <<reporterVars, daemon, main, mLoop, failTimes, mFileObserver, inbox,
                 requests>>

StopOld == \* FILE_PATH: mFileObserver->stopWatching(), first half
  /\ handling.type = "FILE_PATH" /\ mFileObserver # Nobody
  /\ ListenerAt("handling", "stopped")
  /\ StopBegins(mFileObserver)
  /\ UNCHANGED <<daemon, main, mLoop, failTimes, mFileObserver, inbox, handling, requests>>

StoppedOld ==
  /\ ListenerAt("stopped", "creating")
  /\ StopEnds(mFileObserver)
  /\ UNCHANGED <<daemon, main, mLoop, failTimes, mFileObserver, inbox, handling, requests>>

\* Mutant: a registration does not stop the observer before it.
NoOldStopped ==
  /\ handling.type = "FILE_PATH"
  /\ ListenerAt("handling", "creating")
  /\ UNCHANGED <<reporterVars, daemon, main, mLoop, failTimes, mFileObserver, inbox,
                 handling, requests>>

NoOld ==
  /\ handling.type = "FILE_PATH" /\ mFileObserver = Nobody
  /\ ListenerAt("handling", "creating")
  /\ UNCHANGED <<reporterVars, daemon, main, mLoop, failTimes, mFileObserver, inbox,
                 handling, requests>>

NewObserver(o) ==
  /\ ListenerAt("creating", "listening") /\ handling' = Idle
  /\ Create(o)
  /\ mFileObserver' = o
  /\ UNCHANGED <<daemon, main, mLoop, failTimes, inbox, requests>>

SetReportUrl == \* REQ_ON_DEL
  /\ handling.type = "REQ_ON_DEL"
  /\ ListenerAt("handling", "listening") /\ handling' = Idle
  /\ IF mFileObserver # Nobody THEN SetUrl(mFileObserver, handling.url)
                               ELSE UNCHANGED reporterVars
  /\ UNCHANGED <<daemon, main, mLoop, failTimes, mFileObserver, inbox, requests>>

ListenerRuns == \* all but the failures the code meets from outside
  \/ Listen \/ CheckLoop \/ SelectTimesOut \/ Receive \/ Reply \/ StopOld
  \/ StoppedOld \/ NoOld \/ SetReportUrl
  \/ \E o \in Observer : NewObserver(o)

-----------------------------------------------------------------------------
(* The rest of the world. *)

\* An observer that no registration has been made for yet.
RoomToRegister ==
  LET underWay == IF handling.type = "FILE_PATH"
                     /\ listener \in {"handling", "stopped", "creating"} THEN 1 ELSE 0
      waiting  == Len(SelectSeq(inbox, LAMBDA r : r.type = "FILE_PATH"))
  IN  waiting + underWay < Cardinality({o \in Observer : object[o] = "unborn"})

Send(r) == \* BackendServer::SendRequest in the application's process
  /\ Running /\ requests < MaxRequests /\ Len(inbox) < MaxBacklog
  /\ r.type \in ClientSends
  /\ r.type = "FILE_PATH" => RoomToRegister
  /\ listener \notin {"unborn", "ended"}
  /\ inbox' = Append(inbox, r) /\ requests' = requests + 1
  /\ UNCHANGED <<reporterVars, daemon, main, listener, mLoop, failTimes,
                 mFileObserver, handling>>

Kill == \* the system, or a crash, ends the daemon
  /\ MayBeKilled /\ Running /\ daemon' = "killed" /\ inbox' = <<>>
  /\ UNCHANGED <<reporterVars, main, listener, mLoop, failTimes, mFileObserver,
                 handling, requests>>

World == \* followed for as long as there is a daemon to see it
  /\ Running /\ KernelNext
  /\ UNCHANGED <<threadVars, deleteVars, serverVars>>

Watcher(o) == Running /\ WatcherRuns(o) /\ UNCHANGED serverVars
WatcherReadFails(o) == Running /\ WatchFails(o) /\ UNCHANGED serverVars

ServerInitial == DeleteInitial /\ ServerInit

ServerNext ==
  \/ LeaveWait \/ Exit \/ ListenerRuns \/ SelectFails \/ AcceptFails \/ Kill \/ World
  \/ \E r \in Request : Send(r)
  \/ \E o \in Observer : Watcher(o) \/ WatcherReadFails(o)

DaemonFairness ==
  /\ WF_daemonVars(LeaveWait) /\ WF_daemonVars(Exit)
  /\ WF_daemonVars(ListenerRuns)
  /\ \A o \in Observer : WF_daemonVars(Watcher(o))

ServerSpec == ServerInitial /\ [][ServerNext]_daemonVars
FairServerSpec == ServerSpec /\ DaemonFairness

-----------------------------------------------------------------------------
DaemonTypeOK == DeleteObserverTypeOK /\ ServerTypeOK

\* While the daemon is meant to live, the listener's pointer leads to a live
\* observer, except inside FILE_PATH, once the old observer has been cancelled:
\* it may then delete itself without stopping the daemon (BackendServer.cpp:
\* 248-272, FileDeleteObserver.cpp:46-52, 127-131).
CurrentObserverLive ==
  keepAlive /\ listener \notin {"stopped", "creating"} =>
    mFileObserver = Nobody \/ object[mFileObserver] = "live"

\* The listener uses an observer already freed only after the daemon was told to
\* stop, or between the two writes of stopWatching (FileDeleteObserver.cpp:33-34).
OwnerTouchesFreedOnlyThen ==
  [][("owner" \in touchedFreed' /\ "owner" \notin touchedFreed)
       => ~keepAlive \/ listener = "stopped"]_daemonVars

\* Registering again while an observer runs never makes two observers report
\* the same uninstall: the old one is cancelled before the new one has its watch
\* (BackendServer.cpp:255-258, FileDeleteObserver.cpp:30-35, 46-52).
DeletionOf(o) == notified[o][Len(notified[o])].inode
OneReporterPerDeletion ==
  \A o, p \in Observer :
    request[o] # NoUrl /\ request[p] # NoUrl /\ DeletionOf(o) = DeletionOf(p) => o = p

\* The daemon is told to stop only by an observer that heard Error, or heard
\* Delete and then got an answer, was refused a curl handle, or used up its
\* attempts: an empty URL, set at whatever moment, never ends the attempts early
\* (FileDeleteObserver.cpp:43-125).
LastEvent(o) == notified[o][Len(notified[o])].event
GaveUp(o)    == o \in noCurl \/ tries[o] = kFailRetryTimes
ShutdownHasCause ==
  ~keepAlive =>
    \E o \in Observer :
      /\ notified[o] # <<>>
      /\ \/ LastEvent(o) = "Error"
         \/ LastEvent(o) = "Delete" /\ (HasHit(o) \/ GaveUp(o))

\* A daemon told to stop does stop (BackendServer.cpp:113-123).
StopEndsDaemon == ~keepAlive ~> ~Running

\* Once the directory of an observer nobody replaced is gone, the daemon reports
\* as well as it can and ends, unless the kernel's queue dropped an event.
DeletionEndsDaemon ==
  \A o \in Observer :
    (Running /\ watch[o] # 0 /\ ~Alive(watch[o]))
      ~> mCancelled[o] \/ o \in lost \/ ~Running

-----------------------------------------------------------------------------
(* The inductive invariant behind CurrentObserverLive, OneReporterPerDeletion,   *)
(* OwnerTouchesFreedOnlyThen and ShutdownHasCause.                               *)

SelectInv == listener = "selecting" => failTimes < kMaxRetryTimes

PointerInv == \* what mFileObserver points to
  /\ listener = "stopped" => mFileObserver # Nobody
  /\ stopping = IF listener = "stopped" THEN mFileObserver ELSE Nobody
  /\ mFileObserver # Nobody =>
       /\ object[mFileObserver] # "unborn"
       /\ listener \notin {"stopped", "creating"} => ~mCancelled[mFileObserver]

\* Only a cancelled observer deletes itself and leaves the daemon alone.
QuietInv(o) ==
  keepAlive /\ (object[o] = "freed" \/ handler[o] = "finishing") => mCancelled[o]

Cause(o) == \* what an observer may stop the daemon for, once and for all
  /\ thread[o] \in {"inDelegate", "closing", "ended"} /\ notified[o] # <<>>
  /\ \/ LastEvent(o) = "Error"
     \/ LastEvent(o) = "Delete" /\ (HasHit(o) \/ GaveUp(o))

CauseInv ==
  /\ ~keepAlive => \E o \in Observer : Cause(o)
  /\ \A o \in Observer : handler[o] = "stopDaemon" => Cause(o)

Spent(o) == mCancelled[o] \/ object[o] = "freed" \* cannot begin to report any more

\* In onEvent past the look at mCancelled, or with an attempt behind it.
Reports(o) == handler[o] \in Reporting \/ request[o] # NoUrl

SoleInv == \* of the observers ever made, the newest alone may begin to report
  \A o \in Observer : object[o] # "unborn" =>
    Spent(o) \/ (o = mFileObserver /\ listener \notin {"stopped", "creating"})

HeardInv(o) == \* onEvent is about the directory under the watch
  thread[o] = "inDelegate" => notified[o] # <<>> /\ DeletionOf(o) = watch[o]

ApartInv(o, p) == \* whose deletion one reports, no other reports or will report
  Reports(o) =>
    /\ Reports(p) => DeletionOf(o) # DeletionOf(p)
    /\ watch[p] = DeletionOf(o) => Spent(p)

OneReporterInv ==
  /\ SoleInv
  /\ \A o \in Observer : HeardInv(o)
  /\ \A o, p \in Observer : o # p => ApartInv(o, p)

DaemonInv ==
  /\ ReporterInv /\ ServerTypeOK
  /\ SelectInv /\ PointerInv /\ CauseInv /\ OneReporterInv
  /\ \A o \in Observer : QuietInv(o)

=============================================================================
