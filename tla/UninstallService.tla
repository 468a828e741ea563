--------------------------- MODULE UninstallService ---------------------------
(***************************************************************************)
(* How a URL travels from the application to the daemon: the application   *)
(* process keeps it in a static field and binds the service; the service,  *)
(* in a process of its own, delays it on a handler thread until a timer    *)
(* says the library has started, and sends the path once and the URL every *)
(* time over sockets nobody answers.  Updates are numbered: 0 is none.     *)
(* Their texts may be empty: only null is refused on the way.              *)
(*                                                                         *)
(* Android's part is external: it creates a service that is started or     *)
(* bound and destroys one that is neither, it tells every connection of    *)
(* every (re)creation, and it may kill any process.  One tick is 1000 ms;  *)
(* threads may be late by any number of ticks.                             *)
(***************************************************************************)
EXTENDS Naturals, FiniteSets, SequencesExt

CONSTANTS MaxUpdates,  \* calls of setHttpRequestOnUninstall
          Blank,       \* those of them that set an empty text
          MaxServices, \* instances of the service
          MaxKills     \* processes that die

ASSUME ServiceAssumption ==
  MaxUpdates \in Nat /\ Blank \subseteq 1..MaxUpdates /\ MaxServices \in Nat \ {0} /\ MaxKills \in Nat

InitDelay == 2
StopDelay == 5

VARIABLES sUrl, updates, bound, toConnect, \* the application process
          started, lib, services,          \* the service process
          daemon, backlog, url,            \* the daemon; url = NoWatch: it watches nothing
          held,                            \* history: updates that were delayed
          kills, faults                    \* history: what failed

appVars     == <<sUrl, updates, bound, toConnect>>
serviceVars == <<started, lib, services>>
daemonVars  == <<daemon, backlog, url>>
history     == <<held, kills, faults>>
vars == <<appVars, serviceVars, daemonVars, history>>

NoUrl   == 0
NoWatch == MaxUpdates + 1
Updates == 1..MaxUpdates

\* A service's part in the process: its handler's messages, its fields, and
\* what its handler thread is about to send.
Message == [what : {"setUrl"}, url : Updates, wait : 0..InitDelay]
             \cup [what : {"stop"}, url : {NoUrl}, wait : 0..StopDelay]
Service == [life : {"live", "destroyed", "killed"}, messages : Seq(Message),
            timer : 0..InitDelay, mInitSuccess : {"no", "yes", "never"}, mStart : BOOLEAN,
            at : {"idle", "path", "url"}, sending : 0..MaxUpdates]

New == [life |-> "live", messages |-> <<>>, timer |-> InitDelay, mInitSuccess |-> "no",
        mStart |-> FALSE, at |-> "idle", sending |-> NoUrl]

Running == {i \in DOMAIN services : services[i].life # "killed"}
Live    == {i \in DOMAIN services : services[i].life = "live"}

Init ==
  /\ sUrl = NoUrl /\ updates = 0 /\ bound = 0 /\ toConnect = 0
  /\ started = FALSE /\ lib = "unloaded" /\ services = <<>>
  /\ daemon = "none" /\ backlog = <<>> /\ url = NoWatch
  /\ held = {} /\ kills = 0 /\ faults = {}

-----------------------------------------------------------------------------
(* The application process. *)

SetHttpRequestOnUninstall ==
  /\ updates < MaxUpdates
  /\ updates' = updates + 1 /\ sUrl' = updates + 1
  /\ started' = TRUE /\ bound' = bound + 1 /\ toConnect' = toConnect + 1
  /\ UNCHANGED <<lib, services, daemonVars, history>>

\* Mutant: sendMessageAtFrontOfQueue.
EnqueueFront(q, m) == <<m>> \o q

Enqueue(q, m) == \* after everything that is due no later
  InsertAt(q, Cardinality({k \in DOMAIN q : q[k].wait <= m.wait}) + 1, m)

SetUrlMessage(u, wait) == [what |-> "setUrl", url |-> u, wait |-> wait]
StopMessage            == [what |-> "stop", url |-> NoUrl, wait |-> StopDelay]

\* mInitSuccess is not volatile: a thread of the binder may still see false.
OnServiceConnected ==
  /\ toConnect > 0 /\ toConnect' = toConnect - 1
  /\ \E i \in Live, wait \in {0, InitDelay} :
       /\ wait = 0 => services[i].mInitSuccess = "yes"
       /\ services' = [services EXCEPT ![i].messages =
                         Enqueue(Enqueue(@, SetUrlMessage(sUrl, wait)), StopMessage)]
       /\ held' = IF wait = 0 THEN held ELSE held \cup {sUrl}
  /\ UNCHANGED <<sUrl, updates, bound, started, lib, daemonVars, kills, faults>>

KillApplication ==
  /\ bound > 0 /\ kills < MaxKills /\ kills' = kills + 1
  /\ sUrl' = NoUrl /\ bound' = 0 /\ toConnect' = 0
  /\ UNCHANGED <<updates, serviceVars, daemonVars, held, faults>>

-----------------------------------------------------------------------------
(* The service process. *)

LoadLibrary == \* JNI_OnLoad runs once in a process, and forks if nobody serves
  \/ lib # "unloaded" /\ UNCHANGED <<lib, daemon, faults>>
  \/ lib = "unloaded" /\ lib' = "failed" /\ faults' = faults \cup {"library"} /\ UNCHANGED daemon
  \/ /\ lib = "unloaded" /\ lib' = "loaded"
     /\ \/ daemon = "listening" /\ UNCHANGED <<daemon, faults>>
        \/ daemon # "listening" /\ daemon' = "starting" /\ UNCHANGED faults
        \/ daemon = "none" /\ UNCHANGED daemon /\ faults' = faults \cup {"fork"}

OnCreate ==
  /\ started \/ bound > 0
  /\ Live = {} /\ Len(services) < MaxServices
  /\ LoadLibrary
  /\ services' = Append(services, New)
  /\ UNCHANGED <<appVars, started, backlog, url, held, kills>>

TimerTask(i) ==
  /\ services[i].mInitSuccess = "no" /\ services[i].timer = 0
  /\ services' = [services EXCEPT ![i].mInitSuccess = IF lib = "loaded" THEN "yes" ELSE "never"]
  /\ UNCHANGED <<appVars, started, lib, daemonVars, history>>

Soon(n)   == IF n = 0 THEN 0 ELSE n - 1
Nearer(m) == [m EXCEPT !.wait = Soon(@)]

Tick ==
  /\ services' = [i \in DOMAIN services |->
       [services[i] EXCEPT !.timer = Soon(@),
                           !.messages = [k \in DOMAIN @ |-> Nearer(@[k])]]]
  /\ services' # services
  /\ UNCHANGED <<appVars, started, lib, daemonVars, history>>

\* Mutant: a monitor that has started takes no other URL.
HandleMessageOnce(i) ==
  LET s == services[i]  m == Head(s.messages)
  IN  /\ s.at = "idle" /\ s.messages # <<>> /\ m.wait = 0
      /\ IF m.what = "setUrl" /\ lib = "loaded" /\ ~s.mStart
         THEN services' = [services EXCEPT ![i].messages = Tail(@), ![i].sending = m.url, ![i].at = "path"]
         ELSE services' = [services EXCEPT ![i].messages = Tail(@)]
      /\ UNCHANGED <<appVars, started, lib, daemonVars, history>>

HandleMessage(i) ==
  LET s == services[i]  m == Head(s.messages)
  IN  /\ s.at = "idle" /\ s.messages # <<>> /\ m.wait = 0
      /\ \/ /\ m.what = "setUrl" /\ lib = "loaded"
            /\ services' = [services EXCEPT ![i].messages = Tail(@), ![i].sending = m.url,
                              ![i].at = IF s.mStart THEN "url" ELSE "path"]
            /\ UNCHANGED started
         \/ /\ m.what = "setUrl" /\ lib # "loaded"
            /\ services' = [services EXCEPT ![i].messages = Tail(@)]
            /\ UNCHANGED started
         \/ /\ m.what = "stop"
            /\ services' = [services EXCEPT ![i].messages = Tail(@)]
            /\ started' = (started /\ s.life # "live")
      /\ UNCHANGED <<appVars, lib, daemonVars, history>>

SendRequest(r) == \* refused unless somebody listens; the caller is not told
  IF daemon = "listening" THEN backlog' = Append(backlog, r) /\ UNCHANGED faults
  ELSE UNCHANGED backlog /\ faults' = faults \cup {"refused"}

\* Mutant: setHttpRequestOnUninstall returns after start().
StartOnly(i) ==
  /\ services[i].at = "path" /\ SendRequest(NoUrl)
  /\ services' = [services EXCEPT ![i].at = "idle", ![i].sending = NoUrl, ![i].mStart = TRUE]
  /\ UNCHANGED <<appVars, started, lib, daemon, url, held, kills>>

Start(i) ==
  /\ services[i].at = "path" /\ SendRequest(NoUrl)
  /\ services' = [services EXCEPT ![i].at = "url", ![i].mStart = TRUE]
  /\ UNCHANGED <<appVars, started, lib, daemon, url, held, kills>>

SetHttpRequestOnDelete(i) ==
  /\ services[i].at = "url" /\ SendRequest(services[i].sending)
  /\ services' = [services EXCEPT ![i].at = "idle", ![i].sending = NoUrl]
  /\ UNCHANGED <<appVars, started, lib, daemon, url, held, kills>>

\* What a service that is gone still holds is as late as what was delayed.
Waiting(i) == {m.url : m \in ToSet(services[i].messages)} \cup {services[i].sending}

Destroy ==
  /\ ~started /\ bound = 0
  /\ \E i \in Live : /\ services' = [services EXCEPT ![i].life = "destroyed"]
                     /\ held' = held \cup (Waiting(i) \cap Updates)
  /\ UNCHANGED <<appVars, started, lib, daemonVars, kills, faults>>

Killed(s) == [s EXCEPT !.life = "killed", !.messages = <<>>, !.timer = 0, !.mInitSuccess = "never",
                       !.mStart = FALSE, !.at = "idle", !.sending = NoUrl]

KillService == \* and every connection hears of the next one
  /\ Running # {} /\ kills < MaxKills /\ kills' = kills + 1
  /\ services' = [i \in DOMAIN services |-> Killed(services[i])]
  /\ lib' = "unloaded" /\ faults' = faults \cup {"service"}
  /\ toConnect' = bound
  /\ UNCHANGED <<sUrl, updates, bound, started, daemonVars, held>>

-----------------------------------------------------------------------------
(* The daemon. *)

StartListening ==
  /\ daemon = "starting" /\ daemon' = "listening"
  /\ UNCHANGED <<appVars, serviceVars, backlog, url, history>>

Handle ==
  /\ daemon = "listening" /\ backlog # <<>>
  /\ url' = IF Head(backlog) = NoUrl THEN NoUrl \* FILE_PATH: a new observer
            ELSE IF url = NoWatch THEN url ELSE Head(backlog)
  /\ backlog' = Tail(backlog)
  /\ UNCHANGED <<appVars, serviceVars, daemon, history>>

KillDaemon ==
  /\ daemon # "none" /\ kills < MaxKills /\ kills' = kills + 1
  /\ daemon' = "none" /\ backlog' = <<>> /\ url' = NoWatch
  /\ faults' = faults \cup {"daemon"}
  /\ UNCHANGED <<appVars, serviceVars, held>>

Kill == KillApplication \/ KillService \/ KillDaemon

Next ==
  \/ SetHttpRequestOnUninstall \/ OnServiceConnected
  \/ OnCreate \/ Tick \/ Destroy
  \/ \E i \in Running : TimerTask(i) \/ HandleMessage(i) \/ Start(i) \/ SetHttpRequestOnDelete(i)
  \/ StartListening \/ Handle
  \/ Kill

Spec == Init /\ [][Next]_vars

\* The schedulers of the processes run every thread; Android creates and
\* connects what it was asked for.
Fairness ==
  /\ WF_vars(OnServiceConnected) /\ WF_vars(OnCreate) /\ WF_vars(Tick)
  /\ WF_vars(StartListening)
  /\ \A i \in 1..MaxServices :
       WF_vars(i \in Running /\ (TimerTask(i) \/ HandleMessage(i) \/ Start(i) \/ SetHttpRequestOnDelete(i)))

FairSpec == Spec /\ Fairness /\ WF_vars(Handle)

-----------------------------------------------------------------------------
(* Properties. *)

ServiceFaults == {"library", "fork", "refused", "service", "daemon", "read"}
DaemonFaults  == {"inotify", "overflow", "curl", "network"} \* and "read": only in UninstallReport

TypeOK ==
  /\ sUrl \in 0..MaxUpdates /\ updates \in 0..MaxUpdates
  /\ bound \in 0..MaxUpdates /\ toConnect \in 0..bound
  /\ started \in BOOLEAN /\ lib \in {"unloaded", "loaded", "failed"}
  /\ services \in Seq(Service) /\ Len(services) <= MaxServices
  /\ daemon \in {"none", "starting", "listening"}
  /\ backlog \in Seq(0..MaxUpdates) /\ url \in 0..NoWatch
  /\ held \subseteq Updates /\ kills \in 0..MaxKills
  /\ faults \subseteq ServiceFaults \cup DaemonFaults

\* Nothing is on its way.
AtRest ==
  /\ sUrl # NoUrl /\ toConnect = 0 /\ backlog = <<>> /\ Live # {}
  /\ \A i \in Running : Waiting(i) \subseteq {NoUrl}

\* When everything has arrived and nothing failed, the daemon would send the
\* latest URL, or an earlier one that was delayed by 2000 ms or by a service
\* that is gone: whatever the service lost, the application can find a fault
\* or a delay for it.
LatestUrlKept == AtRest /\ faults \cap ServiceFaults = {} => url = sUrl \/ url \in held

\* The daemon's URL never gives way to an older one, unless that one was
\* delayed.
GoesBackOnlyToDelayed ==
  [][(url' < url /\ {url, url'} \subseteq Updates) => url' \in held]_vars

\* A URL that a connection has not passed on yet reaches the daemon, unless it
\* is replaced or something failed.
UrlReachesDaemon ==
  \A u \in Updates : sUrl = u /\ toConnect > 0 ~>
    sUrl # u \/ url = u \/ faults \cap ServiceFaults # {}

\* "Wait until loadLibrary is initialised (the lower layer has things to do)":
\* mInitSuccess would then mean that the daemon has started.
InitWaitsForTheLowerLayer ==
  \A i \in Running : services[i].mInitSuccess = "yes" /\ kills = 0 => daemon = "listening"

=============================================================================
