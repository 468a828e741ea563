------------------------------ MODULE DaemonProofs ------------------------------
(***************************************************************************)
(* The daemon's end is in time, and its listener leaks no descriptor of    *)
(* its own, for any number of observers and clients and any times for      *)
(* which select's timeout is shorter than the time the main thread         *)
(* lingers.  The two parts share nothing but this module.                  *)
(*                                                                         *)
(* DaemonEnd: every deadline is proved by a sum that no step makes larger, *)
(* the time that has passed and the time a timer has left.  Of a report    *)
(* that sum is bounded by the periods of the attempts made so far.         *)
(*                                                                         *)
(* DaemonSockets: its invariant is inductive as it stands, and makes a     *)
(* full table one of leaks.                                                *)
(***************************************************************************)
EXTENDS DaemonEnd, DaemonSockets, FiniteSetTheorems, TLAPS

-----------------------------------------------------------------------------
(* The end of the daemon. *)

Period == CurlTimeout + Pause

\* The main thread's timer and the time since the stop add up to no more than
\* it may take.
MainInTime ==
  /\ keepAlive => main = "waiting" /\ sinceStop = 0
  /\ main = "waiting" => mainDue <= PollTime /\ (~keepAlive => sinceStop + mainDue <= PollTime)
  /\ main = "lingering" => sinceStop + mainDue <= PollTime + LingerTime

\* While the main thread lingers the listener need only wake up to leave.
ListenerInTime ==
  /\ main # "waiting" => ~mLoop
  /\ main = "lingering" /\ listener = "selecting" => selectDue < mainDue
  /\ main = "exited" => listener # "selecting"

\* What a report has taken, and may still take before its next turn, fits into
\* the periods of the attempts it has made.
ReporterInTime(o) ==
  /\ report[o] \in {"unborn", "watching"} => age[o] = 0
  /\ report[o] = "attempt" =>
       attempts[o] >= 1 /\ age[o] + due[o] <= (attempts[o] - 1) * Period + CurlTimeout
  /\ report[o] = "pause" =>
       attempts[o] >= 1 /\ age[o] + due[o] <= attempts[o] * Period
  /\ report[o] = "ended" => age[o] <= kFailRetryTimes * Period

\* Only the current observer reports, but for those overtaken; and the daemon
\* was told to stop by read errors, or by an observer whose report is over.
CauseKnown ==
  /\ \A o \in Reporter : Reporting(o) => o = mFileObserver \/ o \in overtaken
  /\ main # "waiting" => ~keepAlive
  /\ ~keepAlive =>
       \/ cause = "errors"
       \/ /\ cause \in Reporter /\ report[cause] = "ended"
          /\ cause = mFileObserver \/ cause \in overtaken \/ mFileObserver \in late

EndIInv ==
  /\ EndTypeOK /\ MainInTime /\ ListenerInTime /\ CauseKnown
  /\ \A o \in Reporter : ReporterInTime(o)

-----------------------------------------------------------------------------
LEMMA Times ==
  /\ PollTime \in Nat \ {0} /\ LingerTime \in Nat \ {0} /\ kSelectTimeout \in Nat \ {0}
  /\ CurlTimeout \in Nat \ {0} /\ Pause \in Nat \ {0} /\ kFailRetryTimes \in Nat \ {0}
  /\ kSelectTimeout < LingerTime /\ Period \in Nat /\ Period = CurlTimeout + Pause
  /\ Nobody \notin Reporter
BY EndAssumption DEF EndAssumption, Period

\* Multiples of the period.
LEMMA Periods ==
  ASSUME NEW a \in Nat
  PROVE  /\ a * Period \in Nat /\ (a + 1) * Period = a * Period + Period
         /\ a <= kFailRetryTimes => a * Period <= kFailRetryTimes * Period
<1> DEFINE p == Period
<1>1. p \in Nat /\ kFailRetryTimes \in Nat
  BY Times
<1> HIDE DEF p
<1>2. a * p \in Nat /\ (a + 1) * p = a * p + p
  BY <1>1
<1>3. ASSUME a <= kFailRetryTimes PROVE a * p <= kFailRetryTimes * p
  <2>1. PICK d \in Nat : kFailRetryTimes = a + d
    <3>1. kFailRetryTimes - a \in Nat /\ kFailRetryTimes = a + (kFailRetryTimes - a)
      BY <1>1, <1>3
    <3> QED
      BY <3>1
  <2>2. (a + d) * p = a * p + d * p /\ d * p \in Nat
    BY <1>1
  <2> QED
    BY <1>2, <2>1, <2>2
<1> QED
  BY <1>2, <1>3 DEF p

LEMMA Lessen ==
  ASSUME NEW n \in Nat
  PROVE  Less(n) \in Nat /\ Less(n) <= n /\ (n > 0 => Less(n) = n - 1)
BY DEF Less

-----------------------------------------------------------------------------
(* Time. *)

LEMMA TickStep ==
  ASSUME EndIInv, Tick
  PROVE  EndIInv'
<1>0. EndTypeOK /\ MainInTime /\ ListenerInTime /\ CauseKnown /\ \A o \in Reporter : ReporterInTime(o)
  BY DEF EndIInv
<1>1. /\ mainDue \in Nat /\ mainDue > 0 /\ mainDue' = mainDue - 1
      /\ selectDue \in Nat /\ selectDue' \in Nat /\ selectDue' <= selectDue
      /\ listener = "selecting" => selectDue > 0 /\ selectDue' = selectDue - 1
      /\ UNCHANGED <<keepAlive, mLoop, main, listener, report, attempts, mFileObserver, cause, late, overtaken>>
  BY <1>0, Lessen, Times DEF Tick, EndTypeOK, registering
<1>2. ASSUME NEW o \in Reporter
      PROVE  /\ age[o] \in Nat /\ due[o] \in Nat /\ age'[o] \in Nat /\ due'[o] \in Nat /\ due'[o] <= due[o]
             /\ IF Reporting(o) THEN age'[o] = age[o] + 1 /\ due'[o] = due[o] - 1
                                ELSE age'[o] = age[o]
  <2>1. /\ age[o] \in Nat /\ due[o] \in Nat
        /\ age'[o] = IF Reporting(o) THEN age[o] + 1 ELSE age[o]
        /\ due'[o] = Less(due[o]) /\ (Reporting(o) => due[o] > 0)
    BY <1>0, Times DEF Tick, EndTypeOK
  <2> QED
    BY <2>1, Lessen
<1>3. sinceStop \in Nat /\ sinceStop' = IF keepAlive THEN 0 ELSE sinceStop + 1
  BY <1>0 DEF Tick, EndTypeOK
<1>4. EndTypeOK'
  <2>1. mainDue' \in 0..(PollTime + LingerTime) /\ selectDue' \in 0..kSelectTimeout
    BY <1>0, <1>1, Times DEF EndTypeOK
  <2>2. due' \in [Reporter -> 0..(CurlTimeout + Pause)]
    <3>1. ASSUME NEW o \in Reporter PROVE Less(due[o]) \in 0..(CurlTimeout + Pause)
      <4>1. due[o] \in 0..(CurlTimeout + Pause) /\ due[o] \in Nat
        BY <1>0, Times DEF EndTypeOK
      <4> QED
        BY <4>1, Lessen, Times
    <3> QED
      BY <3>1 DEF Tick
  <2>3. age' \in [Reporter -> Nat]
    BY <1>0 DEF Tick, EndTypeOK
  <2> QED
    BY <1>0, <1>1, <1>3, <2>1, <2>2, <2>3 DEF EndTypeOK
<1>5. MainInTime'
  BY <1>0, <1>1, <1>3, Times DEF MainInTime
<1>6. ListenerInTime'
  BY <1>0, <1>1 DEF ListenerInTime
<1>7. CauseKnown'
  BY <1>0, <1>1 DEF CauseKnown, Reporting
<1>8. ASSUME NEW o \in Reporter PROVE ReporterInTime(o)'
  <2> DEFINE a == (attempts[o] - 1) * Period + CurlTimeout  b == attempts[o] * Period
  <2>1. report'[o] = report[o] /\ attempts'[o] = attempts[o]
    BY <1>1
  <2>2. attempts[o] >= 1 => a \in Int /\ b \in Int
    <3>1. attempts[o] \in Nat
      BY <1>0, Times DEF EndTypeOK
    <3>2. attempts[o] >= 1 => attempts[o] - 1 \in Nat
      BY <3>1
    <3> QED
      BY <3>1, <3>2, Periods, Times
  <2>3. /\ report[o] \in {"unborn", "watching"} => age[o] = 0
        /\ report[o] = "attempt" => attempts[o] >= 1 /\ age[o] + due[o] <= a
        /\ report[o] = "pause" => attempts[o] >= 1 /\ age[o] + due[o] <= b
        /\ report[o] = "ended" => age[o] <= kFailRetryTimes * Period
    BY <1>0 DEF ReporterInTime
  <2> HIDE DEF a, b
  <2>4. /\ report[o] \in {"unborn", "watching"} => age'[o] = 0
        /\ report[o] = "attempt" => attempts[o] >= 1 /\ age'[o] + due'[o] <= a
        /\ report[o] = "pause" => attempts[o] >= 1 /\ age'[o] + due'[o] <= b
        /\ report[o] = "ended" => age'[o] <= kFailRetryTimes * Period
    BY <1>2, <2>2, <2>3 DEF Reporting
  <2> QED
    BY <2>1, <2>4 DEF ReporterInTime, a, b, Period
<1> QED
  BY <1>4, <1>5, <1>6, <1>7, <1>8 DEF EndIInv

-----------------------------------------------------------------------------
(* The main thread and the listener. *)

\* Steps in which no observer takes part.
LEMMA ReportersKeep ==
  ASSUME EndIInv, UNCHANGED <<reportVars, age>>
  PROVE  \A o \in Reporter : ReporterInTime(o)'
BY DEF EndIInv, ReporterInTime, reportVars, Period

LEMMA PollStep ==
  ASSUME EndIInv, Poll
  PROVE  EndIInv'
<1>0. EndTypeOK /\ MainInTime /\ ListenerInTime /\ CauseKnown
  BY DEF EndIInv
<1>1. /\ main = "waiting" /\ mainDue = 0
      /\ UNCHANGED <<keepAlive, listener, selectDue, mFileObserver, reportVars, sinceStop, age, cause, late, overtaken>>
      /\ sinceStop \in Nat /\ selectDue \in 0..kSelectTimeout
  BY <1>0 DEF Poll, history, registering, EndTypeOK
<1>2. \/ keepAlive /\ mainDue' = PollTime /\ main' = main /\ mLoop' = mLoop
      \/ ~keepAlive /\ main' = "lingering" /\ mainDue' = LingerTime /\ mLoop' = FALSE
  BY DEF Poll
<1>3. EndTypeOK'
  <2>1. mainDue' \in 0..(PollTime + LingerTime)
    <3>1. mainDue' = PollTime \/ mainDue' = LingerTime
      BY <1>2
    <3> QED
      BY <3>1, Times
  <2>3. mLoop' \in BOOLEAN /\ main' \in {"waiting", "lingering", "exited"}
    BY <1>0, <1>1, <1>2 DEF EndTypeOK
  <2>2. UNCHANGED <<keepAlive, listener, selectDue, mFileObserver, report, attempts, due, sinceStop, age,
                    cause, late, overtaken>>
    BY <1>1 DEF reportVars
  <2> QED
    BY <1>0, <2>1, <2>2, <2>3 DEF EndTypeOK
<1>4. MainInTime'
  BY <1>0, <1>1, <1>2, Times DEF MainInTime
<1>5. ListenerInTime'
  BY <1>0, <1>1, <1>2, Times DEF ListenerInTime
<1>6. CauseKnown'
  BY <1>0, <1>1, <1>2 DEF CauseKnown, Reporting, reportVars
<1> QED
  BY <1>1, <1>3, <1>4, <1>5, <1>6, ReportersKeep DEF EndIInv

LEMMA ExitStep ==
  ASSUME EndIInv, Exit
  PROVE  EndIInv'
<1>0. EndTypeOK /\ MainInTime /\ ListenerInTime /\ CauseKnown
  BY DEF EndIInv
<1>1. /\ main = "lingering" /\ mainDue = 0 /\ main' = "exited" /\ selectDue \in 0..kSelectTimeout
      /\ UNCHANGED <<keepAlive, mainDue, listener, selectDue, mLoop, mFileObserver, reportVars, sinceStop, age,
                     cause, late, overtaken>>
  BY <1>0 DEF Exit, history, registering, listenerVars, EndTypeOK
<1>2. EndTypeOK'
  BY <1>0, <1>1 DEF EndTypeOK, reportVars
<1>3. MainInTime'
  BY <1>0, <1>1 DEF MainInTime
<1>4. ListenerInTime'
  BY <1>0, <1>1, Times DEF ListenerInTime
<1>5. CauseKnown'
  BY <1>0, <1>1 DEF CauseKnown, Reporting, reportVars
<1> QED
  BY <1>1, <1>2, <1>3, <1>4, <1>5, ReportersKeep DEF EndIInv

\* What every step of the listener does to the listener itself.
LEMMA ListenerMoves ==
  ASSUME EndIInv, main # "exited", CheckLoop \/ (listener' = "receiving" /\ UNCHANGED selectDue),
         UNCHANGED <<main, mainDue, mLoop>>
  PROVE  /\ listener' \in {"selecting", "receiving", "ended"} /\ selectDue' \in 0..kSelectTimeout
         /\ ListenerInTime'
<1>1. main \in {"waiting", "lingering"} /\ selectDue \in 0..kSelectTimeout
      /\ (main # "waiting" => ~mLoop)
  BY DEF EndIInv, EndTypeOK, ListenerInTime
<1>2. /\ listener' \in {"selecting", "receiving", "ended"} /\ selectDue' \in 0..kSelectTimeout
      /\ listener' = "selecting" => mLoop
  BY <1>1, Times DEF CheckLoop
<1> QED
  BY <1>1, <1>2 DEF ListenerInTime

LEMMA ListenerStep ==
  ASSUME EndIInv, SelectTimesOut \/ AcceptClient \/ Serve
  PROVE  EndIInv'
<1>0. EndTypeOK /\ MainInTime /\ CauseKnown
  BY DEF EndIInv
<1>1. /\ main # "exited"
      /\ CheckLoop \/ (listener' = "receiving" /\ UNCHANGED selectDue)
      /\ UNCHANGED <<main, mainDue, mLoop, keepAlive, mFileObserver, reportVars, sinceStop, age,
                     cause, late, overtaken>>
  BY DEF SelectTimesOut, AcceptClient, Serve, mainVars, history, registering, Running
<1>2. /\ listener' \in {"selecting", "receiving", "ended"} /\ selectDue' \in 0..kSelectTimeout
      /\ ListenerInTime'
  BY <1>1, ListenerMoves
<1>3. EndTypeOK'
  BY <1>0, <1>1, <1>2 DEF EndTypeOK, reportVars
<1>4. MainInTime'
  BY <1>0, <1>1 DEF MainInTime
<1>5. CauseKnown'
  BY <1>0, <1>1 DEF CauseKnown, Reporting, reportVars
<1> QED
  BY <1>1, <1>2, <1>3, <1>4, <1>5, ReportersKeep DEF EndIInv

LEMMA ReplaceStep ==
  ASSUME EndIInv, NEW o \in Reporter, Replace(o)
  PROVE  EndIInv'
<1>0. EndTypeOK /\ MainInTime /\ CauseKnown /\ \A p \in Reporter : ReporterInTime(p)
  BY DEF EndIInv
<1>1. /\ main # "exited" /\ CheckLoop /\ report[o] = "unborn" /\ mFileObserver' = o
      /\ UNCHANGED <<main, mainDue, mLoop, keepAlive, attempts, due, sinceStop, age, cause>>
      /\ late' = (IF keepAlive THEN late ELSE late \cup {o})
      /\ overtaken' = overtaken \cup {p \in {mFileObserver} \cap Reporter : Reporting(p)}
  BY DEF Replace, mainVars, Running
<1>2. report'[o] = "watching" /\ \A p \in Reporter \ {o} : report'[p] = report[p]
  BY <1>0 DEF Replace, EndTypeOK
<1>3. EndTypeOK' /\ ListenerInTime'
  <2>1. report' \in [Reporter -> {"unborn", "watching", "attempt", "pause", "ended"}]
    BY <1>0 DEF Replace, EndTypeOK
  <2> QED
    BY <1>0, <1>1, <2>1, ListenerMoves DEF EndTypeOK
<1>4. MainInTime'
  BY <1>0, <1>1 DEF MainInTime
<1>5. CauseKnown'
  <2>1. ASSUME NEW p \in Reporter, Reporting(p)' PROVE p \in overtaken'
    <3>1. p # o /\ Reporting(p)
      BY <1>2, <2>1 DEF Reporting
    <3> QED
      BY <1>0, <1>1, <3>1 DEF CauseKnown
  <2>2. ~keepAlive => o \in late'
    BY <1>1
  <2>3. cause \in Reporter /\ report[cause] = "ended" => report'[cause] = "ended"
    BY <1>1, <1>2
  <2> QED
    BY <1>0, <1>1, <2>1, <2>2, <2>3 DEF CauseKnown
<1>6. \A p \in Reporter : ReporterInTime(p)'
  BY <1>0, <1>1, <1>2 DEF ReporterInTime, Period
<1> QED
  BY <1>3, <1>4, <1>5, <1>6 DEF EndIInv

-----------------------------------------------------------------------------
(* The watching threads. *)

\* What a turn of one observer's thread leaves alone, and what the rest of the
\* invariant asks of it.
LEMMA TurnKeeps ==
  ASSUME EndIInv, NEW o \in Reporter, NEW to \in {"attempt", "pause", "ended"},
         NEW d \in 0..(CurlTimeout + Pause), NEW n \in 0..kFailRetryTimes,
         report[o] \in {"watching", "attempt", "pause"}, main # "exited",
         report' = [report EXCEPT ![o] = to], due' = [due EXCEPT ![o] = d],
         attempts' = [attempts EXCEPT ![o] = n],
         UNCHANGED <<mainVars, listenerVars, sinceStop, age, registering>>,
         to # "ended" => Reporting(o) \/ o = mFileObserver,
         \/ UNCHANGED <<keepAlive, cause>>
         \/ keepAlive' = FALSE /\ ~keepAlive /\ UNCHANGED cause
         \/ keepAlive' = FALSE /\ cause' = "errors"
         \/ keepAlive' = FALSE /\ cause' = o /\ Reporting(o) /\ to = "ended",
         ReporterInTime(o)'
  PROVE  EndIInv'
<1>0. /\ EndTypeOK /\ MainInTime /\ ListenerInTime /\ CauseKnown
      /\ \A p \in Reporter : ReporterInTime(p)
      /\ main' = main /\ mainDue' = mainDue /\ listener' = listener /\ selectDue' = selectDue
      /\ mLoop' = mLoop /\ mFileObserver' = mFileObserver /\ sinceStop' = sinceStop
      /\ age' = age /\ late' = late /\ overtaken' = overtaken
  BY DEF EndIInv, mainVars, listenerVars, registering
<1>1. /\ report'[o] = to /\ due'[o] = d /\ attempts'[o] = n
      /\ \A p \in Reporter \ {o} : report'[p] = report[p] /\ due'[p] = due[p] /\ attempts'[p] = attempts[p]
  BY <1>0 DEF EndTypeOK
<1>2. EndTypeOK'
  <2>1. /\ report' \in [Reporter -> {"unborn", "watching", "attempt", "pause", "ended"}]
        /\ due' \in [Reporter -> 0..(CurlTimeout + Pause)]
        /\ attempts' \in [Reporter -> 0..kFailRetryTimes]
    BY <1>0 DEF EndTypeOK
  <2>2. keepAlive' \in BOOLEAN /\ cause' \in Reporter \cup {Nobody, "errors"}
    BY <1>0 DEF EndTypeOK
  <2> QED
    BY <1>0, <2>1, <2>2 DEF EndTypeOK
<1>3. MainInTime'
  <2>1. keepAlive /\ ~keepAlive' => main = "waiting" /\ mainDue <= PollTime /\ sinceStop + mainDue <= PollTime
    BY <1>0, Times DEF MainInTime, EndTypeOK
  <2> QED
    BY <1>0, <2>1 DEF MainInTime
<1>4. ListenerInTime'
  BY <1>0 DEF ListenerInTime
<1>5. CauseKnown'
  <2>1. ASSUME NEW p \in Reporter, Reporting(p)' PROVE p = mFileObserver \/ p \in overtaken
    <3>1. CASE p = o
      BY <1>0, <1>1, <2>1, <3>1 DEF CauseKnown, Reporting
    <3>2. CASE p # o
      BY <1>0, <1>1, <2>1, <3>2 DEF CauseKnown, Reporting
    <3> QED
      BY <3>1, <3>2
  <2>2. main # "waiting" => ~keepAlive'
    BY <1>0 DEF CauseKnown
  <2>3. \A p \in Reporter : report[p] = "ended" => report'[p] = "ended"
    BY <1>1
  <2>4. CASE UNCHANGED cause /\ ~keepAlive
    BY <1>0, <2>1, <2>2, <2>3, <2>4 DEF CauseKnown
  <2>5. CASE UNCHANGED keepAlive /\ keepAlive
    BY <1>0, <2>1, <2>2, <2>5 DEF CauseKnown
  <2>6. CASE cause' = "errors"
    BY <1>0, <2>1, <2>2, <2>6 DEF CauseKnown
  <2>7. CASE cause' = o /\ Reporting(o) /\ to = "ended"
    BY <1>0, <1>1, <2>1, <2>2, <2>7 DEF CauseKnown
  <2> QED
    BY <2>4, <2>5, <2>6, <2>7
<1>6. \A p \in Reporter : ReporterInTime(p)'
  BY <1>0, <1>1 DEF ReporterInTime, Period
<1> QED
  BY <1>2, <1>3, <1>4, <1>5, <1>6 DEF EndIInv

LEMMA DeletedStep ==
  ASSUME EndIInv, NEW o \in Reporter, Deleted(o)
  PROVE  EndIInv'
<1>0. /\ report[o] = "watching" /\ main # "exited" /\ ReporterInTime(o) /\ attempts[o] \in 0..kFailRetryTimes
      /\ attempts \in [Reporter -> 0..kFailRetryTimes]
      /\ due \in [Reporter -> 0..(CurlTimeout + Pause)] /\ report \in [Reporter -> {"unborn", "watching", "attempt", "pause", "ended"}]
  BY DEF Deleted, Turn, Running, EndIInv, EndTypeOK
<1>1. UNCHANGED <<keepAlive, mainVars, listenerVars, sinceStop, age, cause, registering>>
  BY DEF Deleted, history
<1>2. age[o] = 0
  BY <1>0 DEF ReporterInTime
<1>3. CASE o = mFileObserver
  <2>1. /\ report' = [report EXCEPT ![o] = "attempt"] /\ due' = [due EXCEPT ![o] = CurlTimeout]
        /\ attempts' = [attempts EXCEPT ![o] = 1]
    BY <1>3 DEF Deleted, Turn
  <2>2. report'[o] = "attempt" /\ due'[o] = CurlTimeout /\ attempts'[o] = 1 /\ age'[o] = 0
    BY <1>0, <1>1, <1>2, <2>1
  <2>3. ReporterInTime(o)'
    <3>1. (1 - 1) * Period = 0
      BY Times
    <3> QED
      BY <2>2, <3>1, Times DEF ReporterInTime, Period
  <2>4. CurlTimeout \in 0..(CurlTimeout + Pause) /\ 1 \in 0..kFailRetryTimes
    BY Times
  <2> QED
    BY <1>0, <1>1, <1>3, <2>1, <2>3, <2>4, TurnKeeps
<1>4. CASE o # mFileObserver
  <2>1. /\ report' = [report EXCEPT ![o] = "ended"] /\ due' = [due EXCEPT ![o] = 0] /\ attempts' = attempts
    BY <1>4 DEF Deleted, Turn
  <2>2. attempts' = [attempts EXCEPT ![o] = attempts[o]] /\ report'[o] = "ended" /\ age'[o] = 0
    BY <1>0, <1>1, <1>2, <2>1
  <2>3. ReporterInTime(o)'
    <3>1. 0 <= kFailRetryTimes * Period
      BY Times, Periods
    <3> QED
      BY <2>2, <3>1 DEF ReporterInTime, Period
  <2>4. 0 \in 0..(CurlTimeout + Pause)
    BY Times
  <2> QED
    BY <1>0, <1>1, <2>1, <2>2, <2>3, <2>4, TurnKeeps
<1> QED
  BY <1>3, <1>4

\* The periods of the attempts made so far.
LEMMA InTime ==
  ASSUME EndIInv, NEW o \in Reporter
  PROVE  /\ report[o] = "watching" => age[o] <= kFailRetryTimes * Period
         /\ report[o] = "attempt" => age[o] + Pause <= attempts[o] * Period
                                     /\ age[o] <= kFailRetryTimes * Period
         /\ report[o] = "pause" => age[o] <= attempts[o] * Period
                                   /\ age[o] <= kFailRetryTimes * Period
<1> DEFINE n == attempts[o]
<1>1. /\ n \in Nat /\ n <= kFailRetryTimes /\ age[o] \in Nat /\ due[o] \in Nat
      /\ ReporterInTime(o)
  BY Times DEF EndIInv, EndTypeOK
<1>2. n * Period \in Nat /\ kFailRetryTimes * Period \in Nat /\ n * Period <= kFailRetryTimes * Period
  BY <1>1, Periods, Times
<1>3. n >= 1 => n * Period = (n - 1) * Period + Period /\ (n - 1) * Period \in Nat
  <2> SUFFICES ASSUME n >= 1 PROVE n * Period = (n - 1) * Period + Period /\ (n - 1) * Period \in Nat
    OBVIOUS
  <2>1. n - 1 \in Nat /\ (n - 1) + 1 = n
    BY <1>1
  <2> QED
    BY <2>1, Periods
<1>4. /\ report[o] = "watching" => age[o] = 0
      /\ report[o] = "attempt" => n >= 1 /\ age[o] + due[o] <= (n - 1) * Period + CurlTimeout
      /\ report[o] = "pause" => n >= 1 /\ age[o] + due[o] <= n * Period
  BY <1>1 DEF ReporterInTime
<1> DEFINE a == (n - 1) * Period  b == n * Period  k == kFailRetryTimes * Period
<1>5. /\ b \in Nat /\ k \in Nat /\ b <= k /\ (n >= 1 => b = a + Period /\ a \in Nat)
      /\ report[o] = "attempt" => n >= 1 /\ age[o] + due[o] <= a + CurlTimeout
      /\ report[o] = "pause" => n >= 1 /\ age[o] + due[o] <= b
  BY <1>2, <1>3, <1>4
<1> HIDE DEF a, b, k, n
<1>6. report[o] = "attempt" => age[o] + Pause <= b /\ age[o] <= k
  BY <1>1, <1>5, Times
<1>7. report[o] = "pause" => age[o] <= b /\ age[o] <= k
  BY <1>1, <1>5, Times
<1>8. report[o] = "watching" => age[o] <= k
  BY <1>1, <1>4, <1>5
<1> QED
  BY <1>6, <1>7, <1>8 DEF b, k, n

\* An observer's thread that ends, whatever it leaves keepAlive.
LEMMA EndsInTime ==
  ASSUME EndIInv, NEW o \in Reporter, report[o] \in {"watching", "attempt", "pause"}, main # "exited",
         report' = [report EXCEPT ![o] = "ended"], due' = [due EXCEPT ![o] = 0],
         UNCHANGED <<attempts, mainVars, listenerVars, sinceStop, age, registering>>,
         \/ keepAlive' = FALSE /\ ~keepAlive /\ UNCHANGED cause
         \/ keepAlive' = FALSE /\ cause' = "errors"
         \/ keepAlive' = FALSE /\ cause' = o /\ Reporting(o)
  PROVE  EndIInv'
<1>1. /\ attempts \in [Reporter -> 0..kFailRetryTimes]
      /\ report \in [Reporter -> {"unborn", "watching", "attempt", "pause", "ended"}]
  BY DEF EndIInv, EndTypeOK
<1>2. /\ attempts' = [attempts EXCEPT ![o] = attempts[o]] /\ attempts[o] \in 0..kFailRetryTimes
      /\ report'[o] = "ended" /\ age'[o] = age[o] /\ 0 \in 0..(CurlTimeout + Pause)
  BY <1>1, Times
<1>3. ReporterInTime(o)'
  <2>1. age[o] <= kFailRetryTimes * Period
    BY InTime
  <2> QED
    BY <1>2, <2>1 DEF ReporterInTime, Period
<1> QED
  BY <1>2, <1>3, TurnKeeps

LEMMA ReadsFailStep ==
  ASSUME EndIInv, NEW o \in Reporter, ReadsFail(o)
  PROVE  EndIInv'
<1>1. /\ report[o] = "watching" /\ main # "exited"
      /\ report' = [report EXCEPT ![o] = "ended"] /\ due' = [due EXCEPT ![o] = 0]
      /\ UNCHANGED <<attempts, mainVars, listenerVars, sinceStop, age, registering>>
      /\ keepAlive' = FALSE /\ cause' = IF keepAlive THEN "errors" ELSE cause
  BY DEF ReadsFail, Turn, Stop, Running
<1>2. keepAlive \in BOOLEAN
  BY DEF EndIInv, EndTypeOK
<1> QED
  BY <1>1, <1>2, EndsInTime

LEMMA DoneStep ==
  ASSUME EndIInv, NEW o \in Reporter, NEW from \in {"attempt", "pause"}, Done(o, from)
  PROVE  EndIInv'
<1>1. /\ report[o] = from /\ main # "exited"
      /\ report' = [report EXCEPT ![o] = "ended"] /\ due' = [due EXCEPT ![o] = 0]
      /\ UNCHANGED <<attempts, mainVars, listenerVars, sinceStop, age, registering>>
      /\ keepAlive' = FALSE /\ cause' = IF keepAlive THEN o ELSE cause
  BY DEF Done, Turn, Stop, Running
<1>2. keepAlive \in BOOLEAN /\ Reporting(o)
  BY <1>1 DEF EndIInv, EndTypeOK, Reporting
<1> QED
  BY <1>1, <1>2, EndsInTime

LEMMA FailsStep ==
  ASSUME EndIInv, NEW o \in Reporter, Fails(o)
  PROVE  EndIInv'
<1>1. /\ report[o] = "attempt" /\ main # "exited" /\ Reporting(o)
      /\ report' = [report EXCEPT ![o] = "pause"] /\ due' = [due EXCEPT ![o] = Pause]
      /\ UNCHANGED <<keepAlive, attempts, mainVars, listenerVars, sinceStop, age, cause, registering>>
  BY DEF Fails, Turn, Running, history, Reporting
<1>2. /\ attempts \in [Reporter -> 0..kFailRetryTimes] /\ attempts[o] \in 0..kFailRetryTimes
      /\ due \in [Reporter -> 0..(CurlTimeout + Pause)] /\ ReporterInTime(o)
      /\ report \in [Reporter -> {"unborn", "watching", "attempt", "pause", "ended"}]
  BY DEF EndIInv, EndTypeOK
<1>3. /\ attempts' = [attempts EXCEPT ![o] = attempts[o]] /\ Pause \in 0..(CurlTimeout + Pause)
      /\ report'[o] = "pause" /\ due'[o] = Pause /\ age'[o] = age[o] /\ attempts'[o] = attempts[o]
  BY <1>1, <1>2, Times
<1>4. ReporterInTime(o)'
  <2>1. attempts[o] >= 1
    BY <1>1, <1>2 DEF ReporterInTime
  <2>2. age[o] + Pause <= attempts[o] * Period
    BY <1>1, InTime
  <2> QED
    BY <1>3, <2>1, <2>2 DEF ReporterInTime, Period
<1> QED
  BY <1>1, <1>2, <1>3, <1>4, TurnKeeps

LEMMA RetryStep ==
  ASSUME EndIInv, NEW o \in Reporter, Retry(o)
  PROVE  EndIInv'
<1>1. CASE attempts[o] = kFailRetryTimes
  BY <1>1, DoneStep DEF Retry
<1>2. CASE attempts[o] # kFailRetryTimes
  <2>1. /\ report[o] = "pause" /\ main # "exited" /\ Reporting(o)
        /\ report' = [report EXCEPT ![o] = "attempt"] /\ due' = [due EXCEPT ![o] = CurlTimeout]
        /\ attempts' = [attempts EXCEPT ![o] = attempts[o] + 1]
        /\ UNCHANGED <<keepAlive, mainVars, listenerVars, sinceStop, age, cause, registering>>
    BY <1>2 DEF Retry, Turn, Running, history, Reporting
  <2>2. /\ attempts \in [Reporter -> 0..kFailRetryTimes] /\ attempts[o] \in 0..kFailRetryTimes
        /\ due \in [Reporter -> 0..(CurlTimeout + Pause)] /\ age[o] \in Nat
        /\ report \in [Reporter -> {"unborn", "watching", "attempt", "pause", "ended"}]
    BY DEF EndIInv, EndTypeOK
  <2>3. /\ CurlTimeout \in 0..(CurlTimeout + Pause) /\ attempts[o] \in Nat
        /\ attempts[o] + 1 \in 0..kFailRetryTimes
    BY <1>2, <2>2, Times
  <2>4. /\ report'[o] = "attempt" /\ due'[o] = CurlTimeout /\ age'[o] = age[o]
        /\ attempts'[o] = attempts[o] + 1
    BY <2>1, <2>2
  <2>5. ReporterInTime(o)'
    <3>1. age[o] <= attempts[o] * Period
      BY <2>1, InTime
    <3>2. (attempts[o] + 1) - 1 = attempts[o] /\ attempts[o] + 1 >= 1
      BY <2>3
    <3>3. attempts[o] * Period \in Nat
      BY <2>3, Periods
    <3>4. age[o] + CurlTimeout <= attempts[o] * Period + CurlTimeout
      <4> DEFINE b == attempts[o] * Period
      <4>1. age[o] <= b /\ b \in Nat
        BY <3>1, <3>3
      <4> HIDE DEF b
      <4>2. age[o] + CurlTimeout <= b + CurlTimeout
        BY <2>2, <4>1, Times
      <4> QED
        BY <4>2 DEF b
    <3> QED
      BY <2>4, <3>2, <3>4 DEF ReporterInTime, Period
  <2> QED
    BY <2>1, <2>2, <2>3, <2>5, TurnKeeps
<1> QED
  BY <1>1, <1>2

-----------------------------------------------------------------------------
LEMMA EndIInvInit == EndInit => EndIInv
<1> SUFFICES ASSUME EndInit PROVE EndIInv
  OBVIOUS
<1>1. EndTypeOK
  BY Times DEF EndInit, EndTypeOK
<1>2. MainInTime /\ ListenerInTime
  BY Times DEF EndInit, MainInTime, ListenerInTime
<1>3. CauseKnown /\ \A o \in Reporter : ReporterInTime(o)
  BY DEF EndInit, CauseKnown, Reporting, ReporterInTime
<1> QED
  BY <1>1, <1>2, <1>3 DEF EndIInv

LEMMA EndIInvNext == EndIInv /\ [EndNext]_endVars => EndIInv'
<1> SUFFICES ASSUME EndIInv, [EndNext]_endVars PROVE EndIInv'
  OBVIOUS
<1>1. CASE EndNext
  <2>1. \/ Poll \/ Exit \/ SelectTimesOut \/ AcceptClient \/ Serve \/ Tick
        \/ \E o \in Reporter : \/ Replace(o) \/ Deleted(o) \/ ReadsFail(o)
                               \/ Done(o, "attempt") \/ Fails(o) \/ Retry(o)
    BY <1>1 DEF EndNext, Succeeds
  <2> QED
    BY <2>1, PollStep, ExitStep, ListenerStep, TickStep, ReplaceStep, DeletedStep, ReadsFailStep,
       DoneStep, FailsStep, RetryStep
<1>2. CASE UNCHANGED endVars
  BY <1>2 DEF endVars, mainVars, listenerVars, reportVars, history, registering, EndIInv, EndTypeOK,
              MainInTime, ListenerInTime, CauseKnown, Reporting, ReporterInTime, Period
<1> QED
  BY <1>1, <1>2

\* The inductive invariant holds in every state.
THEOREM EndIInvHolds == EndSpec => []EndIInv
BY EndIInvInit, EndIInvNext, PTL DEF EndSpec

\* Whatever the times are, if select's is less than the time the main thread
\* lingers: the process is gone PollTime + LingerTime after the stop, a report is
\* over kFailRetryTimes periods after the deletion, and the listener has left its
\* loop or waits in recv (Start, startListening, onDelete).
THEOREM DaemonEndsInTime == EndSpec => []EndInv
<1>1. EndIInv => EndInv
  <2> SUFFICES ASSUME EndIInv PROVE EndInv
    OBVIOUS
  <2>1. EndTypeOK /\ MainInTime /\ ListenerInTime
    BY DEF EndIInv
  <2>2. GoneInTime
    <3>1. /\ main \in {"waiting", "lingering", "exited"} /\ keepAlive \in BOOLEAN
          /\ mainDue \in Nat /\ sinceStop \in Nat
      BY <2>1, Times DEF EndTypeOK
    <3> QED
      BY <2>1, <3>1, Times DEF GoneInTime, MainInTime, Running
  <2>3. OverInTime
    <3> SUFFICES ASSUME NEW o \in Reporter PROVE age[o] <= kFailRetryTimes * Period
      BY DEF OverInTime, ReportTime, Period
    <3>1. report[o] \in {"unborn", "watching", "attempt", "pause", "ended"} /\ ReporterInTime(o)
      BY DEF EndIInv, EndTypeOK
    <3>2. 0 <= kFailRetryTimes * Period
      BY Periods, Times
    <3> QED
      BY <3>1, <3>2, InTime DEF ReporterInTime
  <2>4. ListenerLeftBeforeExit
    BY <2>1 DEF ListenerLeftBeforeExit, ListenerInTime, EndTypeOK
  <2> QED
    BY <2>1, <2>2, <2>3, <2>4 DEF EndInv
<1> QED
  BY <1>1, EndIInvHolds, PTL

\* exit cuts off the current observer only if it came after the stop, or if the
\* stop came from read errors or from an observer replaced in the middle of its
\* report (Start, handle, onDelete).
THEOREM ExitCutsOnlyOthers == EndSpec => []CurrentCutOnlyByOthers
<1>1. EndIInv => CurrentCutOnlyByOthers
  BY DEF EndIInv, CauseKnown, CurrentCutOnlyByOthers
<1> QED
  BY <1>1, EndIInvHolds, PTL

-----------------------------------------------------------------------------
(* The descriptors of the daemon. *)

\* One element more.
LEMMA OneMore ==
  ASSUME NEW S, IsFiniteSet(S), NEW x, NEW T, T \subseteq S \cup {x}
  PROVE  Cardinality(T) <= Cardinality(S) + 1
<1>1. /\ IsFiniteSet(S \cup {x}) /\ Cardinality(S) \in Nat
      /\ Cardinality(S \cup {x}) = IF x \in S THEN Cardinality(S) ELSE Cardinality(S) + 1
  BY FS_AddElement, FS_CardinalityType
<1>2. /\ Cardinality(T) <= Cardinality(S \cup {x})
      /\ Cardinality(T) \in Nat /\ Cardinality(S \cup {x}) \in Nat
  BY <1>1, FS_Subset, FS_CardinalityType
<1>3. Cardinality(S \cup {x}) <= Cardinality(S) + 1
  BY <1>1
<1> QED
  BY <1>1, <1>2, <1>3

\* The descriptors in use are sets of connections and of observers.
LEMMA OpenFinite ==
  /\ IsFiniteSet(OpenConnections) /\ Cardinality(OpenConnections) \in Nat
  /\ IsFiniteSet(OpenWatches) /\ Cardinality(OpenWatches) \in Nat
  /\ OpenConnections \cap OpenWatches = {}
<1>1. OpenConnections \subseteq Connection /\ OpenWatches \subseteq Observer
  BY DEF OpenConnections, OpenWatches
<1>2. IsFiniteSet(OpenConnections) /\ IsFiniteSet(OpenWatches)
  BY <1>1, SocketsAssumption, FS_Subset
<1> QED
  BY <1>1, <1>2, SocketsAssumption, FS_CardinalityType

LEMMA OpenFiniteNext ==
  /\ IsFiniteSet(OpenConnections') /\ Cardinality(OpenConnections') \in Nat
  /\ IsFiniteSet(OpenWatches') /\ Cardinality(OpenWatches') \in Nat
<1>1. OpenConnections' \subseteq Connection /\ OpenWatches' \subseteq Observer
  BY DEF OpenConnections, OpenWatches
<1>2. IsFiniteSet(OpenConnections') /\ IsFiniteSet(OpenWatches')
  BY <1>1, SocketsAssumption, FS_Subset
<1> QED
  BY <1>2, FS_CardinalityType

WithinLimit == Cardinality(OpenConnections) + Cardinality(OpenWatches) <= FdLimit

\* A step that opens nothing keeps within the limit.
LEMMA OpensNothing ==
  ASSUME WithinLimit, OpenConnections' \subseteq OpenConnections, OpenWatches' \subseteq OpenWatches
  PROVE  WithinLimit'
<1>1. /\ Cardinality(OpenConnections') <= Cardinality(OpenConnections)
      /\ Cardinality(OpenWatches') <= Cardinality(OpenWatches)
  BY OpenFinite, FS_Subset
<1> QED
  BY <1>1, OpenFinite, OpenFiniteNext, SocketsAssumption DEF WithinLimit

\* A step that opens one descriptor needs one to be free.
LEMMA OpensConnection ==
  ASSUME WithinLimit, ~Full, NEW c, OpenConnections' \subseteq OpenConnections \cup {c},
         OpenWatches' \subseteq OpenWatches
  PROVE  WithinLimit'
<1>1. Cardinality(OpenConnections') <= Cardinality(OpenConnections) + 1
  BY OpenFinite, OneMore
<1>2. Cardinality(OpenWatches') <= Cardinality(OpenWatches)
  BY OpenFinite, FS_Subset
<1> QED
  BY <1>1, <1>2, OpenFinite, OpenFiniteNext, SocketsAssumption DEF WithinLimit, Full

LEMMA OpensWatch ==
  ASSUME WithinLimit, ~Full, NEW o, OpenWatches' \subseteq OpenWatches \cup {o},
         OpenConnections' \subseteq OpenConnections
  PROVE  WithinLimit'
<1>1. Cardinality(OpenWatches') <= Cardinality(OpenWatches) + 1
  BY OpenFinite, OneMore
<1>2. Cardinality(OpenConnections') <= Cardinality(OpenConnections)
  BY OpenFinite, FS_Subset
<1> QED
  BY <1>1, <1>2, OpenFinite, OpenFiniteNext, SocketsAssumption DEF WithinLimit, Full

\* The types of the variables.
SocketTypes ==
  /\ conn \in [Connection -> {"unmade", "queued", "open", "closed"}]
  /\ data \in [Connection -> Request \cup Gone \cup {Nothing}]
  /\ served \in Connection \cup {Nothing}
  /\ watch \in [Observer -> {"unborn", "starting", "failed", "inited", "lost", "watching",
                             "blind", "closed"}]
  /\ current \in Observer \cup {Nothing} /\ running \in BOOLEAN

LEMMA TypeOKParts == TypeOK <=> SocketTypes /\ WithinLimit
BY DEF TypeOK, SocketTypes, WithinLimit

-----------------------------------------------------------------------------
LEMMA ConnectStep ==
  ASSUME SocketsInv, NEW c \in Connection, Connect(c)
  PROVE  SocketsInv'
<1>0. SocketTypes /\ WithinLimit /\ OnlyTheDeadStayOpen
  BY TypeOKParts DEF SocketsInv
<1>1. /\ conn[c] = "unmade" /\ conn' = [conn EXCEPT ![c] = "queued"]
      /\ UNCHANGED <<data, served, watch, current, running>>
  BY DEF Connect, watchVars
<1>2. SocketTypes'
  BY <1>0, <1>1 DEF SocketTypes
<1>3. WithinLimit'
  <2>1. OpenConnections' \subseteq OpenConnections /\ OpenWatches' \subseteq OpenWatches
    BY <1>0, <1>1 DEF OpenConnections, OpenWatches, SocketTypes
  <2> QED
    BY <1>0, <2>1, OpensNothing
<1>4. OnlyTheDeadStayOpen'
  BY <1>0, <1>1 DEF OnlyTheDeadStayOpen, SocketTypes
<1> QED
  BY <1>2, <1>3, <1>4, TypeOKParts DEF SocketsInv, TypeOK, SocketTypes, WithinLimit

LEMMA WriteStep ==
  ASSUME SocketsInv, NEW c \in Connection, NEW r \in Request \cup Gone, Write(c, r)
  PROVE  SocketsInv'
<1>0. SocketTypes /\ WithinLimit /\ OnlyTheDeadStayOpen
  BY TypeOKParts DEF SocketsInv
<1>1. /\ data[c] = Nothing /\ data' = [data EXCEPT ![c] = r]
      /\ UNCHANGED <<conn, served, watch, current, running>>
  BY DEF Write, watchVars
<1>2. SocketTypes'
  BY <1>0, <1>1 DEF SocketTypes
<1>3. WithinLimit'
  BY <1>0, <1>1, OpensNothing DEF OpenConnections, OpenWatches
<1>4. OnlyTheDeadStayOpen'
  <2>1. Nothing \notin Gone
    BY SocketsAssumption
  <2> QED
    BY <1>0, <1>1, <2>1 DEF OnlyTheDeadStayOpen, SocketTypes
<1> QED
  BY <1>2, <1>3, <1>4 DEF SocketsInv, TypeOK, SocketTypes, WithinLimit

LEMMA AcceptStep ==
  ASSUME SocketsInv, NEW c \in Connection, Accept(c)
  PROVE  SocketsInv'
<1>0. SocketTypes /\ WithinLimit /\ OnlyTheDeadStayOpen
  BY TypeOKParts DEF SocketsInv
<1>1. /\ ~Full /\ conn' = [conn EXCEPT ![c] = "open"] /\ served' = c /\ served = Nothing
      /\ UNCHANGED <<data, watch, current, running>>
  BY DEF Accept, watchVars
<1>2. SocketTypes'
  BY <1>0, <1>1 DEF SocketTypes
<1>3. WithinLimit'
  <2>1. OpenConnections' \subseteq OpenConnections \cup {c} /\ OpenWatches' \subseteq OpenWatches
    BY <1>0, <1>1 DEF OpenConnections, OpenWatches, SocketTypes
  <2> QED
    BY <1>0, <1>1, <2>1, OpensConnection
<1>4. OnlyTheDeadStayOpen'
  <2>1. Nothing \notin Connection
    BY SocketsAssumption
  <2> QED
    BY <1>0, <1>1, <2>1 DEF OnlyTheDeadStayOpen, SocketTypes
<1> QED
  BY <1>2, <1>3, <1>4 DEF SocketsInv, TypeOK, SocketTypes, WithinLimit

LEMMA RecvNothingStep ==
  ASSUME SocketsInv, RecvNothing
  PROVE  SocketsInv'
<1>0. SocketTypes /\ WithinLimit /\ OnlyTheDeadStayOpen
  BY TypeOKParts DEF SocketsInv
<1>1. /\ data[served] \in Gone /\ served' = Nothing
      /\ UNCHANGED <<conn, data, watch, current, running>>
  BY DEF RecvNothing, watchVars
<1>2. SocketTypes'
  BY <1>0, <1>1 DEF SocketTypes
<1>3. WithinLimit'
  BY <1>0, <1>1, OpensNothing DEF OpenConnections, OpenWatches
<1>4. OnlyTheDeadStayOpen'
  BY <1>0, <1>1 DEF OnlyTheDeadStayOpen
<1> QED
  BY <1>2, <1>3, <1>4 DEF SocketsInv, TypeOK, SocketTypes, WithinLimit

LEMMA HandleStep ==
  ASSUME SocketsInv, Handle
  PROVE  SocketsInv'
<1>0. SocketTypes /\ WithinLimit /\ OnlyTheDeadStayOpen
  BY TypeOKParts DEF SocketsInv
<1>1. /\ served \in Connection /\ conn' = [conn EXCEPT ![served] = "closed"] /\ served' = Nothing
      /\ UNCHANGED <<data, running>>
  BY <1>0 DEF Handle, watchVars, SocketTypes
<1>2. \/ UNCHANGED <<watch, current>>
      \/ \E o \in Observer : watch' = [watch EXCEPT ![o] = "starting"] /\ current' = o
  BY DEF Handle, watchVars
<1>3. SocketTypes'
  <2>1. conn' \in [Connection -> {"unmade", "queued", "open", "closed"}]
    BY <1>0, <1>1 DEF SocketTypes
  <2>2. /\ watch' \in [Observer -> {"unborn", "starting", "failed", "inited", "lost", "watching",
                                    "blind", "closed"}]
        /\ current' \in Observer \cup {Nothing}
    BY <1>0, <1>2 DEF SocketTypes
  <2> QED
    BY <1>0, <1>1, <2>1, <2>2 DEF SocketTypes
<1>4. WithinLimit'
  <2>1. OpenConnections' \subseteq OpenConnections
    BY <1>0, <1>1 DEF OpenConnections, SocketTypes
  <2>2. OpenWatches' \subseteq OpenWatches
    BY <1>0, <1>2 DEF OpenWatches, SocketTypes
  <2> QED
    BY <1>0, <2>1, <2>2, OpensNothing
<1>5. OnlyTheDeadStayOpen'
  BY <1>0, <1>1 DEF OnlyTheDeadStayOpen, SocketTypes
<1> QED
  BY <1>3, <1>4, <1>5 DEF SocketsInv, TypeOK, SocketTypes, WithinLimit

\* A step of an observer's thread touches the listener's side in nothing.
LEMMA ThreadKeeps ==
  ASSUME SocketsInv, NEW o \in Observer, running' \in BOOLEAN, UNCHANGED <<listenVars, current>>,
         NEW to \in {"unborn", "starting", "failed", "inited", "lost", "watching", "blind", "closed"},
         watch' = [watch EXCEPT ![o] = to],
         to \in {"failed", "closed"} \/ watch[o] \in {"inited", "watching", "blind", "lost"} \/ ~Full
  PROVE  SocketsInv'
<1>0. SocketTypes /\ WithinLimit /\ OnlyTheDeadStayOpen
  BY TypeOKParts DEF SocketsInv
<1>1. /\ UNCHANGED <<conn, data, served, current>> /\ watch'[o] = to
      /\ \A p \in Observer \ {o} : watch'[p] = watch[p]
  BY <1>0 DEF listenVars, SocketTypes
<1>2. SocketTypes'
  BY <1>0, <1>1 DEF SocketTypes
<1>3. OpenConnections' \subseteq OpenConnections
  BY <1>1 DEF OpenConnections
<1>4. WithinLimit'
  <2>1. CASE ~Full
    <3>1. OpenWatches' \subseteq OpenWatches \cup {o}
      BY <1>1 DEF OpenWatches
    <3> QED
      BY <1>0, <1>3, <2>1, <3>1, OpensWatch
  <2>2. CASE to \in {"failed", "closed"} \/ watch[o] \in {"inited", "watching", "blind", "lost"}
    <3>1. OpenWatches' \subseteq OpenWatches
      BY <1>1, <2>2 DEF OpenWatches
    <3> QED
      BY <1>0, <1>3, <3>1, OpensNothing
  <2> QED
    BY <2>1, <2>2
<1>5. OnlyTheDeadStayOpen'
  BY <1>0, <1>1 DEF OnlyTheDeadStayOpen
<1> QED
  BY <1>2, <1>4, <1>5 DEF SocketsInv, TypeOK, SocketTypes, WithinLimit

LEMMA ThreadStep ==
  ASSUME SocketsInv, NEW o \in Observer,
         \/ InotifyInit(o) \/ AddWatch(o) \/ AddWatchFails(o)
         \/ DirectoryDeleted(o) \/ StoppedTooLate(o) \/ ReadErrors(o)
  PROVE  SocketsInv'
<1>0. running \in BOOLEAN
  BY DEF SocketsInv, TypeOK
<1>1. UNCHANGED <<listenVars, current>> /\ running' \in BOOLEAN
  BY <1>0 DEF InotifyInit, AddWatch, AddWatchFails, DirectoryDeleted, StoppedTooLate, ReadErrors
<1>2. CASE InotifyInit(o)
  BY <1>1, <1>2, ThreadKeeps DEF InotifyInit, Thread
<1>3. CASE AddWatch(o)
  BY <1>1, <1>3, ThreadKeeps DEF AddWatch, Thread
<1>4. CASE AddWatchFails(o)
  BY <1>1, <1>4, ThreadKeeps DEF AddWatchFails, Thread
<1>5. CASE DirectoryDeleted(o)
  BY <1>1, <1>5, ThreadKeeps DEF DirectoryDeleted, Thread
<1>6. CASE StoppedTooLate(o)
  BY <1>1, <1>6, ThreadKeeps DEF StoppedTooLate, Thread
<1>7. CASE ReadErrors(o)
  BY <1>1, <1>7, ThreadKeeps DEF ReadErrors, Thread
<1> QED
  BY <1>2, <1>3, <1>4, <1>5, <1>6, <1>7

LEMMA SocketsInit == Init => SocketsInv
<1> SUFFICES ASSUME Init PROVE SocketsInv
  OBVIOUS
<1>1. SocketTypes
  BY DEF Init, SocketTypes
<1>2. OpenConnections = {} /\ OpenWatches = {}
  BY DEF Init, OpenConnections, OpenWatches
<1>3. WithinLimit
  BY <1>2, FS_EmptySet, SocketsAssumption DEF WithinLimit
<1>4. OnlyTheDeadStayOpen
  BY DEF Init, OnlyTheDeadStayOpen
<1> QED
  BY <1>1, <1>3, <1>4, TypeOKParts DEF SocketsInv

LEMMA SocketsNext == SocketsInv /\ [Next]_vars => SocketsInv'
<1> SUFFICES ASSUME SocketsInv, [Next]_vars PROVE SocketsInv'
  OBVIOUS
<1>1. CASE Next
  BY <1>1, ConnectStep, WriteStep, AcceptStep, RecvNothingStep, HandleStep, ThreadStep DEF Next, Listener
<1>2. CASE UNCHANGED vars
  BY <1>2 DEF vars, listenVars, watchVars, SocketsInv, TypeOK, OnlyTheDeadStayOpen, OpenConnections, OpenWatches
<1> QED
  BY <1>1, <1>2

\* Of any number of clients and observers: never more descriptors than there are,
\* and a connection stays open behind the listener's back only if its client
\* died without a word (startListening, FileObserver's thread).
THEOREM ListenerLeaksOnlyTheDead == Spec => []SocketsInv
BY SocketsInit, SocketsNext, PTL DEF Spec

\* With no descriptor left for the current observer, all but the one of the
\* connection being served have leaked.
LEMMA FullOfLeaks ==
  ASSUME SocketsInv, Full, current \in Observer, watch[current] = "starting"
  PROVE  Cardinality(Leaks) >= FdLimit - 1
<1> DEFINE A == {c \in OpenConnections : data[c] \in Gone}
<1>1. Leaks = A \cup OpenWatches
  BY DEF Leaks, OpenWatches
<1>2. A \subseteq OpenConnections /\ OpenConnections \subseteq A \cup {served}
  BY DEF SocketsInv, OnlyTheDeadStayOpen, OpenConnections
<1>3. IsFiniteSet(A) /\ Cardinality(A) \in Nat
  BY <1>2, OpenFinite, FS_Subset, FS_CardinalityType
<1> HIDE DEF A
<1>4. Cardinality(OpenConnections) <= Cardinality(A) + 1
  BY <1>2, <1>3, OneMore
<1>5. Cardinality(Leaks) = Cardinality(A) + Cardinality(OpenWatches)
  <2>1. A \cap OpenWatches = {}
    BY <1>2, OpenFinite
  <2>2. Cardinality(A \cup OpenWatches) =
          Cardinality(A) + Cardinality(OpenWatches) - Cardinality(A \cap OpenWatches)
    BY <1>3, OpenFinite, FS_Union
  <2>3. Cardinality(A \cap OpenWatches) = 0
    BY <2>1, FS_EmptySet
  <2> QED
    BY <1>1, <1>3, <2>2, <2>3, OpenFinite
<1>6. Cardinality(OpenConnections) + Cardinality(OpenWatches) >= FdLimit
  BY DEF Full
<1> QED
  BY <1>3, <1>4, <1>5, <1>6, OpenFinite, SocketsAssumption

\* The current observer gets its descriptor unless leaks have used up all but one
\* (FileObserver::startWatching, startListening).
THEOREM WatchesFailOnlyForLeaks == Spec => RegisteredIsWatched
<1>1. ASSUME SocketsInv, [Next]_vars
      PROVE  [\A o \in Observer :
                watch[o] # "failed" /\ watch'[o] = "failed"
                  => o # current \/ Cardinality(Leaks) >= FdLimit - 1]_vars
  <2> SUFFICES ASSUME Next, NEW o \in Observer, watch[o] # "failed", watch'[o] = "failed", o = current
               PROVE  Cardinality(Leaks) >= FdLimit - 1
    BY <1>1
  <2>0. watch \in [Observer -> {"unborn", "starting", "failed", "inited", "lost", "watching",
                                "blind", "closed"}]
    BY <1>1 DEF SocketsInv, TypeOK
  <2>1. PICK p \in Observer :
          \/ InotifyInit(p) \/ AddWatch(p) \/ AddWatchFails(p)
          \/ DirectoryDeleted(p) \/ StoppedTooLate(p) \/ ReadErrors(p)
    <3>1. ASSUME NEW c \in Connection, Connect(c) \/ Accept(c) PROVE FALSE
      BY <3>1 DEF Connect, Accept, watchVars
    <3>2. ASSUME NEW c \in Connection, NEW r \in Request \cup Gone, Write(c, r) PROVE FALSE
      BY <3>2 DEF Write, watchVars
    <3>3. ~RecvNothing
      BY DEF RecvNothing, watchVars
    <3>4. ~Handle
      BY <2>0 DEF Handle, watchVars
    <3> QED
      BY <3>1, <3>2, <3>3, <3>4 DEF Next, Listener
  <2>2. InotifyInit(o) /\ Full
    <3>1. \E to : Thread(p, watch[p], to)
      BY <2>1 DEF InotifyInit, AddWatch, AddWatchFails, DirectoryDeleted, StoppedTooLate, ReadErrors, Thread
    <3>2. p = o
      BY <2>0, <3>1 DEF Thread
    <3>3. \/ InotifyInit(p)
          \/ \E to \in {"watching", "lost", "closed", "blind"} : watch' = [watch EXCEPT ![p] = to]
      BY <2>1 DEF AddWatch, AddWatchFails, DirectoryDeleted, StoppedTooLate, ReadErrors, Thread
    <3> QED
      BY <2>0, <3>2, <3>3 DEF InotifyInit, Thread
  <2>3. watch[o] = "starting"
    BY <2>2 DEF InotifyInit, Thread
  <2> QED
    BY <1>1, <2>2, <2>3, FullOfLeaks
<1> QED
  BY <1>1, ListenerLeaksOnlyTheDead, PTL DEF Spec, RegisteredIsWatched

=============================================================================
