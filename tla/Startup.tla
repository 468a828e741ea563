-------------------------------- MODULE Startup --------------------------------
(***************************************************************************)
(* How a daemon comes to be: application processes that load the library   *)
(* (JNI_OnLoad) ask on the port whether a daemon is alive, twice, and fork *)
(* one if not; the new process binds the port and listens.  Nothing makes  *)
(* these steps one.  The processes may be killed at any time.              *)
(*                                                                         *)
(* The kernel's side is external: with SO_REUSEADDR set, bind fails while  *)
(* another socket listens on the port, and so does listen; two sockets may *)
(* be bound as long as neither listens; a socket that could not be bound   *)
(* listens on a port the kernel picks.                                     *)
(***************************************************************************)
EXTENDS FiniteSets

CONSTANTS Loaders, \* processes that load the library, of one application or several
          Daemons, \* processes that fork may create
          None

ASSUME StartupAssumption == None \notin Loaders \cup Daemons

VARIABLES at,      \* where each loader is
          nth,     \* 1 in JNI_OnLoad's check, 2 in Start's
          conn,    \* its connection: "none", "open", "answered", "closed", "reset"
          to,      \* the daemon it is connected to
          state,   \* of each daemon's socket and process
          main,    \* what its main thread has done: "waits" or "stops"
          serving, \* the loader whose connection its listener has accepted
          full,    \* daemons whose table of descriptors has no room
          lapse,   \* loaders that began their check, or waited in it, while nobody served
          met,     \* daemons that were on their way at the same time as another one
          failed   \* daemons whose system calls failed

loaderVars == <<at, nth, conn, to>>
daemonVars == <<state, main, serving, full>>
history    == <<lapse, met, failed>>
vars == <<loaderVars, daemonVars, history>>

Checking == {"connect", "write", "read"}
Coming   == {"forked", "bound", "unbound", "listening"}

Init ==
  /\ at = [l \in Loaders |-> "off"] /\ nth = [l \in Loaders |-> 1]
  /\ conn = [l \in Loaders |-> "none"] /\ to = [l \in Loaders |-> None]
  /\ state = [d \in Daemons |-> "none"] /\ main = [d \in Daemons |-> "waits"]
  /\ serving = [d \in Daemons |-> None] /\ full = {}
  /\ lapse = {} /\ met = {} /\ failed = {}

Listening == {d \in Daemons : state[d] = "listening"}
Served    == \E d \in Listening : main[d] = "waits"

-----------------------------------------------------------------------------
(* The loaders. *)

Go(l, pc) == at' = [at EXCEPT ![l] = pc]

Load(l) ==
  /\ at[l] = "off" /\ Go(l, "connect")
  /\ UNCHANGED <<nth, conn, to, daemonVars, failed>>

\* IsServerAlive returned: JNI_OnLoad calls Start, which asks again.
Conclude(l, alive) ==
  /\ conn' = [conn EXCEPT ![l] = "none"] /\ to' = [to EXCEPT ![l] = None]
  /\ IF alive THEN Go(l, "loaded") /\ UNCHANGED nth
     ELSE IF nth[l] = 1 THEN Go(l, "connect") /\ nth' = [nth EXCEPT ![l] = 2]
     ELSE Go(l, "fork") /\ UNCHANGED nth

Connect(l) ==
  /\ at[l] = "connect"
  /\ \/ \E d \in Listening :
          /\ conn' = [conn EXCEPT ![l] = "open"] /\ to' = [to EXCEPT ![l] = d]
          /\ Go(l, "write") /\ UNCHANGED nth
     \/ Listening = {} /\ Conclude(l, FALSE)
  /\ UNCHANGED <<daemonVars, failed>>

CallFails(l) == \* socket, getaddrinfo: out of descriptors or memory
  /\ at[l] = "connect" /\ Conclude(l, FALSE)
  /\ failed' = failed \cup {l}
  /\ UNCHANGED daemonVars

Write(l) ==
  /\ at[l] = "write" /\ Go(l, "read")
  /\ UNCHANGED <<nth, conn, to, daemonVars, failed>>

Read(l) == \* a read that fails decodes what the stack holds behind the buffer
  /\ at[l] = "read" /\ conn[l] # "open"
  /\ \/ Conclude(l, conn[l] = "answered")
     \/ conn[l] = "reset" /\ Go(l, "dead") /\ UNCHANGED <<nth, conn, to>>
  /\ UNCHANGED <<daemonVars, failed>>

Fork(l) ==
  /\ at[l] = "fork" /\ Go(l, "loaded")
  /\ \/ \E d \in Daemons : state[d] = "none" /\ state' = [state EXCEPT ![d] = "forked"]
     \/ UNCHANGED state \* fork failed
  /\ UNCHANGED <<nth, conn, to, main, serving, full, failed>>

KillLoader(l) ==
  /\ at[l] \notin {"off", "dead"} /\ Go(l, "dead")
  /\ UNCHANGED <<nth, conn, to, daemonVars, failed>>

-----------------------------------------------------------------------------
(* The daemons. *)

Becomes(d, s) == state' = [state EXCEPT ![d] = s]

\* Mutant: the port in the wrong byte order.
BindElsewhere(d) ==
  /\ state[d] = "forked"
  /\ Becomes(d, "unbound")
  /\ UNCHANGED <<loaderVars, main, serving, full, failed>>

Bind(d) == \* BackendServer(port): what bind returns is only logged
  /\ state[d] = "forked"
  /\ Becomes(d, IF Listening = {} THEN "bound" ELSE "unbound")
  /\ UNCHANGED <<loaderVars, main, serving, full, failed>>

ThreadFails(d) == \* pthread_create, socket: nobody looks
  /\ state[d] = "forked"
  /\ Becomes(d, "deaf") /\ failed' = failed \cup {d}
  /\ UNCHANGED <<loaderVars, main, serving, full>>

\* Mutant: SO_REUSEPORT lets several sockets listen on the port.
ListenShared(d) ==
  /\ state[d] \in {"bound", "unbound"}
  /\ Becomes(d, IF state[d] = "bound" THEN "listening" ELSE "deaf")
  /\ UNCHANGED <<loaderVars, main, serving, full, failed>>

Listen(d) ==
  /\ state[d] \in {"bound", "unbound"}
  /\ Becomes(d, IF state[d] = "bound" /\ Listening = {} THEN "listening" ELSE "deaf")
  /\ UNCHANGED <<loaderVars, main, serving, full, failed>>

Fill(d) == \* with watches, and with connections the listener never closed
  /\ state[d] = "listening" /\ full' = full \cup {d}
  /\ UNCHANGED <<loaderVars, state, main, serving, failed>>

Empty(d) == \* a watch was closed
  /\ state[d] = "listening" /\ full' = full \ {d}
  /\ UNCHANGED <<loaderVars, state, main, serving, failed>>

Accept(d) == \* without room it fails, changes nothing, and is tried again
  /\ state[d] = "listening" /\ serving[d] = None /\ d \notin full
  /\ \E l \in Loaders :
       /\ to[l] = d /\ conn[l] = "open" /\ at[l] \in Checking \cup {"dead"}
       /\ serving' = [serving EXCEPT ![d] = l]
  /\ UNCHANGED <<loaderVars, state, main, full, failed>>

\* Mutant: the connection is closed before the reply.
ReceiveSilent(d) ==
  LET l == serving[d]
  IN  /\ state[d] = "listening" /\ l # None /\ at[l] # "write"
      /\ conn' = [conn EXCEPT ![l] = "closed"]
      /\ serving' = [serving EXCEPT ![d] = None]
      /\ UNCHANGED <<at, nth, to, state, main, full, failed>>

Receive(d) == \* recv waits until the other side has written or is gone
  LET l == serving[d]
  IN  /\ state[d] = "listening" /\ l # None /\ at[l] # "write"
      /\ conn' = [conn EXCEPT ![l] = IF at[l] = "read" THEN "answered" ELSE "closed"]
      /\ serving' = [serving EXCEPT ![d] = None]
      /\ UNCHANGED <<at, nth, to, state, main, full, failed>>

Reset(d) == \* what was sent to d and not read comes back
  conn' = [l \in Loaders |-> IF to[l] = d /\ conn[l] = "open" THEN "reset" ELSE conn[l]]

Stop(d) == \* an observer said so, and the main thread told the listener
  /\ state[d] = "listening" /\ main[d] = "waits"
  /\ main' = [main EXCEPT ![d] = "stops"]
  /\ UNCHANGED <<loaderVars, state, serving, full, failed>>

\* Mutant: a timeout of select counts as a failure.
LeaveLoopImpatient(d) ==
  /\ state[d] = "listening" /\ serving[d] = None
  /\ Becomes(d, "deaf") /\ Reset(d)
  /\ UNCHANGED <<at, nth, to, main, serving, full, failed>>

\* Mutant: the socket is left open.
LeaveLoopOpen(d) ==
  /\ state[d] = "listening" /\ serving[d] = None
  /\ \/ main[d] = "stops" /\ UNCHANGED failed
     \/ failed' = failed \cup {d}
  /\ Becomes(d, "deaf")
  /\ UNCHANGED <<loaderVars, main, serving, full>>

LeaveLoop(d) == \* mLoop is false, or select failed for the fifth time
  /\ state[d] = "listening" /\ serving[d] = None
  /\ \/ main[d] = "stops" /\ UNCHANGED failed
     \/ failed' = failed \cup {d}
  /\ Becomes(d, "deaf") /\ Reset(d)
  /\ full' = full \ {d}
  /\ UNCHANGED <<at, nth, to, main, serving>>

Die(d) == \* exit, or a kill
  /\ state[d] \notin {"none", "dead"}
  /\ Becomes(d, "dead") /\ Reset(d)
  /\ serving' = [serving EXCEPT ![d] = None]
  /\ full' = full \ {d}
  /\ UNCHANGED <<at, nth, to, main, failed>>

Observe == \* the history, in every step
  /\ lapse' = {l \in Loaders : (l \in lapse \/ at'[l] \in Checking) /\ (l \in lapse \/ ~Served \/ ~Served')}
  /\ met' = met \cup {d \in Daemons : state'[d] \in Coming /\
                        \E e \in Daemons \ {d} : state'[e] \in Coming}

LoaderStep(l) == Load(l) \/ Connect(l) \/ Write(l) \/ Read(l) \/ Fork(l)
DaemonStep(d) == Bind(d) \/ ThreadFails(d) \/ Listen(d) \/ Accept(d) \/ Receive(d)

Done == /\ \A l \in Loaders : at[l] \in {"loaded", "dead"}
        /\ \A d \in Daemons : state[d] \in {"none", "deaf", "dead"}

Next ==
  \/ /\ \/ \E l \in Loaders : LoaderStep(l) \/ CallFails(l) \/ KillLoader(l)
        \/ \E d \in Daemons : DaemonStep(d) \/ Stop(d) \/ Fill(d) \/ Empty(d) \/ LeaveLoop(d)
                              \/ Die(d)
     /\ Observe
  \/ Done /\ UNCHANGED vars

Spec == Init /\ [][Next]_vars

\* The scheduler runs every process, and a listener told to stop looks at
\* mLoop at the latest when select times out.
Fairness ==
  /\ \A l \in Loaders : WF_vars((Connect(l) \/ Write(l) \/ Read(l) \/ Fork(l)) /\ Observe)
  /\ \A d \in Daemons :
       /\ WF_vars(DaemonStep(d) /\ Observe)
       /\ WF_vars(main[d] = "stops" /\ LeaveLoop(d) /\ Observe)

FairSpec == Spec /\ Fairness

-----------------------------------------------------------------------------
(* Properties. *)

TypeOK ==
  /\ at \in [Loaders -> Checking \cup {"off", "fork", "loaded", "dead"}]
  /\ nth \in [Loaders -> {1, 2}]
  /\ conn \in [Loaders -> {"none", "open", "answered", "closed", "reset"}]
  /\ to \in [Loaders -> Daemons \cup {None}]
  /\ state \in [Daemons -> Coming \cup {"none", "deaf", "dead"}]
  /\ main \in [Daemons -> {"waits", "stops"}]
  /\ serving \in [Daemons -> Loaders \cup {None}]
  /\ full \subseteq Listening
  /\ lapse \subseteq Loaders /\ met \subseteq Daemons /\ failed \subseteq Daemons \cup Loaders

OneListener == \A d, e \in Listening : d = e

Connections ==
  /\ \A l \in Loaders :
       /\ conn[l] = "open" => at[l] \in {"write", "read", "dead"} /\ to[l] \in Listening
       /\ conn[l] = "closed" => at[l] = "dead"
       /\ conn[l] = "reset" => at[l] = "dead" \/ l \in lapse
       /\ at[l] \in {"write", "read"} => conn[l] # "none"
       /\ at[l] = "off" => nth[l] = 1 /\ conn[l] = "none"
  /\ \A d \in Daemons : serving[d] # None =>
       state[d] = "listening" /\ to[serving[d]] = d /\ conn[serving[d]] = "open"

Histories ==
  /\ \A l \in Loaders : at[l] \in Checking /\ nth[l] = 2 => l \in lapse \cup failed
  /\ \A d, e \in Daemons : d # e /\ state[d] \in Coming /\ state[e] \in Coming => d \in met
  /\ \A d \in Daemons : state[d] = "unbound" => d \in met

\* The accounts of both sides of every connection agree: one socket listens, a
\* connection is open only to it, a connection closed without an answer belongs
\* to a loader that is gone, and one that was reset began while nobody served.
StartupInv == TypeOK /\ OneListener /\ Connections /\ Histories

\* Two checks of IsServerAlive that find nobody mean that at some moment since
\* the library was loaded nobody did serve, or that the loader's own system
\* calls failed: nobody forks a daemon beside one that served all along.
ForkOnlyIfUnserved == \A l \in Loaders : at[l] = "fork" => l \in lapse \cup failed

\* A daemon that runs and can never be asked anything again, not even to stop,
\* comes from a system call that failed, from another daemon on its way at the
\* same time, or from the shutdown it is in.
DeafHasCause ==
  \A d \in Daemons : state[d] = "deaf" => d \in met \cup failed \/ main[d] = "stops"

\* A connection is answered by a daemon that was alive to read it: nobody is
\* answered by a process that lost the port to another one.
AnswersComeFromThePort ==
  \A d \in Daemons : serving[d] # None => state[d] = "listening" /\ Cardinality(Listening) = 1

\* IsServerAlive reads without a timeout, from a listener that serves one
\* connection after the other (BackendServer.cpp:67-91, 188-216): it returns all
\* the same, whoever dies, unless the daemon it asks is out of descriptors again
\* and again: the connection then stays in the backlog, and JNI_OnLoad hangs.
CheckEnds ==
  \A l \in Loaders :
    \/ []<>(to[l] \in full)
    \/ at[l] \in Checking ~> at[l] \in {"loaded", "fork", "dead"}

\* After a fork somebody does listen on the port, be it the new daemon or the
\* one it lost the port to, unless the new daemon died on the way or had a
\* system call fail.
ForkMeansService ==
  \A d \in Daemons :
    state[d] = "forked" ~> Listening # {} \/ state[d] = "dead" \/ d \in failed

=============================================================================
