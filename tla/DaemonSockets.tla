----------------------------- MODULE DaemonSockets -----------------------------
(***************************************************************************)
(* The descriptors of the daemon.  The listener closes a connection only   *)
(* after handle: when recv yields nothing a break leaves the switch, and   *)
(* the socket stays open.  A watching thread closes its inotify descriptor *)
(* only at its end, which a stopped one does not reach.  With the table    *)
(* full, accept and inotify_init fail.                                     *)
(*                                                                         *)
(* Clients never close a connection either (SimpleTcpClient has no         *)
(* destructor): it ends with their process.                                *)
(***************************************************************************)
EXTENDS Integers, FiniteSets

CONSTANTS Connection, Observer,
          Nothing,  \* no connection, no observer, no data
          FdLimit   \* the descriptors there are for connections and watches

Request == {"HELLO", "FILE_PATH"} \* REQ_ON_DEL is served as HELLO is, with no descriptor
Gone    == {"end", "reset"} \* the client's process died: recv yields 0 or -1

ASSUME SocketsAssumption ==
  /\ IsFiniteSet(Connection) /\ IsFiniteSet(Observer) /\ Connection \cap Observer = {}
  /\ Nothing \notin Connection \cup Observer \cup Request \cup Gone
  /\ FdLimit \in Nat \ {0}

VARIABLES conn,     \* the server's side of every connection
          data,     \* what arrived on it
          served,   \* the connection the listener is at
          watch,    \* every observer's thread and its inotify descriptor
          current,  \* mFileObserver
          running   \* until an observer tells the daemon to stop

listenVars == <<conn, data, served>>
watchVars  == <<watch, current, running>>
vars       == <<listenVars, watchVars>>

Init ==
  /\ conn = [c \in Connection |-> "unmade"] /\ data = [c \in Connection |-> Nothing]
  /\ served = Nothing
  /\ watch = [o \in Observer |-> "unborn"] /\ current = Nothing /\ running = TRUE

OpenConnections == {c \in Connection : conn[c] = "open"}
OpenWatches     == {o \in Observer : watch[o] \in {"inited", "watching", "blind", "lost"}}
Full            == Cardinality(OpenConnections) + Cardinality(OpenWatches) >= FdLimit

-----------------------------------------------------------------------------
(* The clients. *)

Connect(c) ==
  /\ running /\ conn[c] = "unmade"
  /\ conn' = [conn EXCEPT ![c] = "queued"]
  /\ UNCHANGED <<data, served, watchVars>>

\* Bound: no more registrations than there are observers.
Write(c, r) ==
  /\ r = "FILE_PATH" =>
       Cardinality({d \in Connection : data[d] = r}) < Cardinality(Observer)
  /\ conn[c] \in {"queued", "open"} /\ data[c] = Nothing
  /\ data' = [data EXCEPT ![c] = r]
  /\ UNCHANGED <<conn, served, watchVars>>

-----------------------------------------------------------------------------
(* The listener thread. *)

Accept(c) ==
  /\ running /\ served = Nothing /\ conn[c] = "queued" /\ ~Full
  /\ conn' = [conn EXCEPT ![c] = "open"] /\ served' = c
  /\ UNCHANGED <<data, watchVars>>

\* Mutant: a client that went away is waited for.
RecvNothingWaits ==
  /\ running /\ served # Nothing /\ data[served] = "reset"
  /\ served' = Nothing
  /\ UNCHANGED <<conn, data, watchVars>>

RecvNothing == \* break, past close
  /\ running /\ served # Nothing /\ data[served] \in Gone
  /\ served' = Nothing
  /\ UNCHANGED <<conn, data, watchVars>>

Registers == data[served] = "FILE_PATH"

\* Mutant: a reply that cannot be sent leaves handle past close.
HandleLeaving ==
  /\ running /\ served # Nothing /\ data[served] \in Request
  /\ conn' = IF data[served] = "HELLO" THEN conn ELSE [conn EXCEPT ![served] = "closed"]
  /\ served' = Nothing
  /\ IF ~Registers THEN UNCHANGED watchVars
     ELSE \E o \in Observer :
       /\ watch[o] = "unborn"
       /\ watch' = [watch EXCEPT ![o] = "starting"] /\ current' = o
       /\ UNCHANGED running
  /\ UNCHANGED data

Handle == \* handle, then close
  /\ running /\ served # Nothing /\ data[served] \in Request
  /\ conn' = [conn EXCEPT ![served] = "closed"] /\ served' = Nothing
  /\ IF ~Registers THEN UNCHANGED watchVars
     ELSE \E o \in Observer : \* stops the current observer and replaces it
       /\ watch[o] = "unborn"
       /\ watch' = [watch EXCEPT ![o] = "starting"] /\ current' = o
       /\ UNCHANGED running
  /\ UNCHANGED data

-----------------------------------------------------------------------------
(* The watching threads. *)

Thread(o, from, to) == running /\ watch[o] = from /\ watch' = [watch EXCEPT ![o] = to]

InotifyInit(o) ==
  /\ Thread(o, "starting", IF Full THEN "failed" ELSE "inited")
  /\ UNCHANGED <<listenVars, current, running>>

AddWatch(o) == Thread(o, "inited", "watching") /\ UNCHANGED <<listenVars, current, running>>

AddWatchFails(o) == \* return NULL, with fd open
  /\ Thread(o, "inited", "lost")
  /\ UNCHANGED <<listenVars, current, running>>

\* The directory is deleted: isStopped hides it from a stopped observer, whose
\* thread reads on, unless it was stopped after that test.
DirectoryDeleted(o) ==
  /\ Thread(o, "watching", IF o = current THEN "closed" ELSE "blind")
  /\ running' = (o # current)
  /\ UNCHANGED <<listenVars, current>>

StoppedTooLate(o) == \* mCancelled is seen by onEvent, and the thread ends
  /\ o # current /\ Thread(o, "watching", "closed")
  /\ UNCHANGED <<listenVars, current, running>>

ReadErrors(o) == \* ten of them: Error, whether stopped or not
  /\ watch[o] \in {"watching", "blind"} /\ Thread(o, watch[o], "closed")
  /\ running' = FALSE
  /\ UNCHANGED <<listenVars, current>>

Listener == (\E c \in Connection : Accept(c)) \/ RecvNothing \/ Handle

Next ==
  \/ Listener
  \/ \E c \in Connection : Connect(c) \/ \E r \in Request \cup Gone : Write(c, r)
  \/ \E o \in Observer : \/ InotifyInit(o) \/ AddWatch(o) \/ AddWatchFails(o)
                         \/ DirectoryDeleted(o) \/ StoppedTooLate(o) \/ ReadErrors(o)

Spec     == Init /\ [][Next]_vars
-----------------------------------------------------------------------------
(* Fairness: the listener's thread runs, and a client that has connected   *)
(* writes its request at once, or dies.                                    *)

FairSpec == Spec /\ WF_vars(Listener)
                 /\ \A c \in Connection : WF_vars(\E r \in Request \cup Gone : Write(c, r))

-----------------------------------------------------------------------------
(* Properties. *)

TypeOK ==
  /\ conn \in [Connection -> {"unmade", "queued", "open", "closed"}]
  /\ data \in [Connection -> Request \cup Gone \cup {Nothing}]
  /\ served \in Connection \cup {Nothing}
  /\ watch \in [Observer -> {"unborn", "starting", "failed", "inited", "lost", "watching",
                             "blind", "closed"}]
  /\ current \in Observer \cup {Nothing} /\ running \in BOOLEAN
  /\ Cardinality(OpenConnections) + Cardinality(OpenWatches) <= FdLimit

\* A connection the listener is not at is open only because its client died
\* without a word: serving a request leaks nothing (BackendServer.cpp:199-214).
OnlyTheDeadStayOpen ==
  \A c \in Connection : conn[c] = "open" /\ c # served => data[c] \in Gone

\* No more descriptors are open than there may be, and the listener leaks none
\* of those it serves itself.
SocketsInv == TypeOK /\ OnlyTheDeadStayOpen

\* Descriptors that nothing will ever use or close: of clients that died, of
\* observers that were replaced, and of one that found no directory.
Leaks == {c \in OpenConnections : data[c] \in Gone}
           \cup {o \in OpenWatches : o # current \/ watch[o] = "lost"}

\* Every request reaches handle, unless the daemon is told to stop, or leaks have
\* used up all descriptors but one, which the current watch may have: then the
\* daemon is deaf, and nothing tells its clients (BackendServer.cpp:185-214).
RequestsAreHandled ==
  \A c \in Connection :
    conn[c] = "queued" /\ data[c] \in Request
      ~> conn[c] = "closed" \/ ~running \/ Cardinality(Leaks) >= FdLimit - 1

\* A registration that was handled leads to a watch, unless the directory is not
\* there, another registration comes first, or leaks have used up all descriptors
\* but the one of the connection being served (FileObserver.cpp:58-78).
RegisteredIsWatched ==
  [][\A o \in Observer :
       watch[o] # "failed" /\ watch'[o] = "failed"
         => o # current \/ Cardinality(Leaks) >= FdLimit - 1]_vars

=============================================================================
