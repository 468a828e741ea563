------------------------------- MODULE DaemonEnd -------------------------------
(***************************************************************************)
(* How the daemon ends, with time.  BackendServer has every step of it but *)
(* lets Exit come at any moment; here the sleeps of the main thread, the   *)
(* timeout of select, and curl's are timers, and what takes no time in the *)
(* code takes none.  Registering (Replace) is one step.                    *)
(*                                                                         *)
(* onDelete does not look at mCancelled: a report that began before its    *)
(* observer was replaced goes on, and stops the daemon when it is done.    *)
(***************************************************************************)
EXTENDS Integers

CONSTANTS Reporter, Nobody, \* the observers, and none
          PollTime, LingerTime, \* 2 and 10 s, in Start
          kSelectTimeout,       \* 6 s
          CurlTimeout, Pause,   \* 30 and 3 s, in sendRequest and onDelete
          kFailRetryTimes       \* 10

ASSUME EndAssumption ==
  /\ Nobody \notin Reporter
  /\ {PollTime, LingerTime, kSelectTimeout, CurlTimeout, Pause, kFailRetryTimes} \subseteq Nat \ {0}
  /\ kSelectTimeout < LingerTime

VARIABLES keepAlive, mLoop,
          main,      \* "waiting", "lingering" or "exited"
          listener,  \* "selecting", "receiving" or "ended"
          report,    \* where every observer's thread is
          attempts,  \* the attempts it has made
          mFileObserver,
          mainDue, selectDue, due, \* the time left of sleeps and timeouts
          sinceStop, \* history: the time since keepAlive fell
          age,       \* history: the time since an observer began to report
          cause,     \* history: the observer that made keepAlive fall, or "errors"
          late,      \* history: observers registered after that
          overtaken  \* history: observers replaced in the middle of a report

mainVars     == <<main, mainDue>>
listenerVars == <<listener, selectDue, mLoop, mFileObserver>>
reportVars   == <<report, attempts, due>>
registering  == <<late, overtaken>>
history      == <<sinceStop, age, cause, registering>>
endVars == <<keepAlive, mainVars, listenerVars, reportVars, history>>

EndInit ==
  /\ keepAlive = TRUE /\ mLoop = TRUE
  /\ main = "waiting" /\ mainDue = PollTime
  /\ listener = "selecting" /\ selectDue = kSelectTimeout /\ mFileObserver = Nobody
  /\ report = [o \in Reporter |-> "unborn"] /\ attempts = [o \in Reporter |-> 0]
  /\ due = [o \in Reporter |-> 0]
  /\ sinceStop = 0 /\ age = [o \in Reporter |-> 0] /\ cause = Nobody
  /\ late = {} /\ overtaken = {}

Running == main # "exited"
Reporting(o) == report[o] \in {"attempt", "pause"}

Stop(why) == \* BackendServer::Stop
  /\ keepAlive' = FALSE
  /\ cause' = IF keepAlive THEN why ELSE cause

-----------------------------------------------------------------------------
(* The main thread. *)

Poll == \* usleep is over: the while loop, then stopListening
  /\ main = "waiting" /\ mainDue = 0
  /\ IF keepAlive THEN mainDue' = PollTime /\ UNCHANGED <<main, mLoop>>
                  ELSE main' = "lingering" /\ mainDue' = LingerTime /\ mLoop' = FALSE
  /\ UNCHANGED <<keepAlive, listener, selectDue, mFileObserver, reportVars, history>>

Exit ==
  /\ main = "lingering" /\ mainDue = 0
  /\ main' = "exited"
  /\ UNCHANGED <<keepAlive, mainDue, listenerVars, reportVars, history>>

-----------------------------------------------------------------------------
(* The listener thread. *)

\* Mutant: the loop ends only when no request comes.
CheckLoopAfterTimeout ==
  IF mLoop \/ listener = "receiving" THEN listener' = "selecting" /\ selectDue' = kSelectTimeout
           ELSE listener' = "ended" /\ UNCHANGED selectDue

CheckLoop == \* the condition of startListening's loop, and the next select
  IF mLoop THEN listener' = "selecting" /\ selectDue' = kSelectTimeout
           ELSE listener' = "ended" /\ UNCHANGED selectDue

SelectTimesOut ==
  /\ Running /\ listener = "selecting" /\ selectDue = 0
  /\ CheckLoop
  /\ UNCHANGED <<keepAlive, mainVars, mLoop, mFileObserver, reportVars, history>>

AcceptClient == \* recv may then wait for as long as the client is silent
  /\ Running /\ listener = "selecting"
  /\ listener' = "receiving"
  /\ UNCHANGED <<keepAlive, mainVars, mLoop, selectDue, mFileObserver, reportVars, history>>

Serve == \* any request but FILE_PATH
  /\ Running /\ listener = "receiving"
  /\ CheckLoop
  /\ UNCHANGED <<keepAlive, mainVars, mLoop, mFileObserver, reportVars, history>>

Replace(o) == \* FILE_PATH: stop the current observer, create and start another
  /\ Running /\ listener = "receiving" /\ report[o] = "unborn"
  /\ report' = [report EXCEPT ![o] = "watching"]
  /\ mFileObserver' = o
  /\ late' = IF keepAlive THEN late ELSE late \cup {o}
  /\ overtaken' = overtaken \cup {p \in {mFileObserver} \cap Reporter : Reporting(p)}
  /\ CheckLoop
  /\ UNCHANGED <<keepAlive, mainVars, mLoop, attempts, due, sinceStop, age, cause>>

-----------------------------------------------------------------------------
(* The watching threads. *)

Turn(o, from, to, d) ==
  /\ Running /\ report[o] = from
  /\ report' = [report EXCEPT ![o] = to] /\ due' = [due EXCEPT ![o] = d]

\* Mutant: onEvent does not look at mCancelled.
DeletedAnyway(o) ==
  /\ Turn(o, "watching", "attempt", CurlTimeout)
  /\ attempts' = [attempts EXCEPT ![o] = 1]
  /\ UNCHANGED <<keepAlive, mainVars, listenerVars, history>>

Deleted(o) == \* onEvent(Delete), or nothing when isStopped is seen in time
  /\ IF o = mFileObserver
       THEN Turn(o, "watching", "attempt", CurlTimeout) /\ attempts' = [attempts EXCEPT ![o] = 1]
       ELSE Turn(o, "watching", "ended", 0) /\ UNCHANGED attempts
  /\ UNCHANGED <<keepAlive, mainVars, listenerVars, history>>

ReadsFail(o) == \* onEvent(Error), cancelled or not
  /\ Turn(o, "watching", "ended", 0)
  /\ Stop("errors")
  /\ UNCHANGED <<mainVars, listenerVars, attempts, sinceStop, age, registering>>

Done(o, from) == \* the end of onDelete
  /\ Turn(o, from, "ended", 0)
  /\ Stop(o)
  /\ UNCHANGED <<mainVars, listenerVars, attempts, sinceStop, age, registering>>

Succeeds(o) == Done(o, "attempt")

Fails(o) == \* at once, or after curl's timeout
  /\ Turn(o, "attempt", "pause", Pause)
  /\ UNCHANGED <<keepAlive, mainVars, listenerVars, attempts, history>>

Retry(o) ==
  /\ due[o] = 0
  /\ IF attempts[o] = kFailRetryTimes THEN Done(o, "pause")
     ELSE /\ Turn(o, "pause", "attempt", CurlTimeout)
          /\ attempts' = [attempts EXCEPT ![o] = @ + 1]
          /\ UNCHANGED <<keepAlive, mainVars, listenerVars, history>>

-----------------------------------------------------------------------------
(* Time passes while no sleep, timeout or report is due. *)

Less(n) == IF n = 0 THEN 0 ELSE n - 1

Tick ==
  /\ Running /\ mainDue > 0 /\ (listener = "selecting" => selectDue > 0)
  /\ \A o \in Reporter : Reporting(o) => due[o] > 0
  /\ mainDue' = Less(mainDue) /\ selectDue' = Less(selectDue)
  /\ due' = [o \in Reporter |-> Less(due[o])]
  /\ sinceStop' = IF keepAlive THEN 0 ELSE sinceStop + 1
  /\ age' = [o \in Reporter |-> IF Reporting(o) THEN age[o] + 1 ELSE age[o]]
  /\ UNCHANGED <<keepAlive, mLoop, main, listener, report, attempts, mFileObserver, cause, registering>>

EndNext ==
  \/ Poll \/ Exit \/ SelectTimesOut \/ AcceptClient \/ Serve \/ Tick
  \/ \E o \in Reporter : \/ Replace(o) \/ Deleted(o) \/ ReadsFail(o)
                         \/ Succeeds(o) \/ Fails(o) \/ Retry(o)

EndSpec == EndInit /\ [][EndNext]_endVars

-----------------------------------------------------------------------------
(* Properties. *)

ReportTime == kFailRetryTimes * (CurlTimeout + Pause)

EndTypeOK ==
  /\ keepAlive \in BOOLEAN /\ mLoop \in BOOLEAN
  /\ main \in {"waiting", "lingering", "exited"}
  /\ listener \in {"selecting", "receiving", "ended"}
  /\ report \in [Reporter -> {"unborn", "watching", "attempt", "pause", "ended"}]
  /\ attempts \in [Reporter -> 0..kFailRetryTimes]
  /\ mFileObserver \in Reporter \cup {Nobody}
  /\ late \subseteq Reporter /\ overtaken \subseteq Reporter
  /\ cause \in Reporter \cup {Nobody, "errors"}
  /\ mainDue \in 0..(PollTime + LingerTime) /\ selectDue \in 0..kSelectTimeout
  /\ due \in [Reporter -> 0..(CurlTimeout + Pause)]
  /\ sinceStop \in Nat /\ age \in [Reporter -> Nat]

\* Once told to stop the process is gone in 12 seconds, whatever its other threads
\* wait for (BackendServer.cpp:115-124).
GoneInTime == Running => sinceStop <= PollTime + LingerTime

\* A report is over, sent or given up, 330 s after the deletion, and tells the
\* daemon to stop (FileDeleteObserver.cpp:66-83).
OverInTime == \A o \in Reporter : age[o] <= ReportTime

\* The ten seconds are enough for the listener to leave its loop and close its
\* socket, unless a client that connected is silent (BackendServer.cpp:122,
\* 167-199).
ListenerLeftBeforeExit == main = "exited" => listener \in {"ended", "receiving"}

\* The end of the daemon, measured: every deadline above is met, and what exit
\* interrupts in the listener is at most a recv.
EndInv == EndTypeOK /\ GoneInTime /\ OverInTime /\ ListenerLeftBeforeExit

\* exit cuts off the current observer, watching or reporting, only if it was
\* registered after the stop, or if the stop came from read errors or from a report
\* that was under way when its observer was replaced (BackendServer.cpp:122-123,
\* FileDeleteObserver.cpp:46-83).
CurrentCutOnlyByOthers ==
  main = "exited" /\ mFileObserver # Nobody /\ report[mFileObserver] # "ended" =>
    mFileObserver \in late \/ cause \in overtaken \cup {"errors"}

=============================================================================
