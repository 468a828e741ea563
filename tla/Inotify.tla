------------------------------- MODULE Inotify -------------------------------
(***************************************************************************)
(* The parts of the kernel the observers lean on: one watched path (always *)
(* /data/data/<package>, UninstallMonitor.java:38), the directories that   *)
(* exist there one after the other, and one inotify descriptor per         *)
(* observer with its event queue.  Not under src/: modelled from the calls *)
(* and the masks in src/jni/observer/FileObserver.cpp.                     *)
(*                                                                         *)
(* A directory (an inode) is the number of the installation that made it.  *)
(* rmdir unlinks it at once, but the kernel reports DELETE_SELF only when  *)
(* the last open handle is closed, just after that handle's CLOSE_NOWRITE. *)
(***************************************************************************)
EXTENDS Naturals, Sequences

CONSTANTS Observer,    \* one inotify descriptor each
          TouchMask,   \* other masks that activity in the directory causes
          MaxInstalls, \* bound: how many directories the path ever has
          MaxTouches,  \* bound: opens and other activity
          MaxKq        \* fs.inotify.max_queued_events

Mask == {"ACCESS", "MODIFY", "ATTRIB", "CLOSE_WRITE", "CLOSE_NOWRITE", "OPEN",
         "MOVED_FROM", "MOVED_TO", "CREATE", "DELETE", "DELETE_SELF",
         "IGNORED", "Q_OVERFLOW"}

\* Events about a child carry its name; two of them are taken to differ.
Named == {"CREATE", "DELETE", "MOVED_FROM", "MOVED_TO", "MODIFY", "CLOSE_WRITE"}

ASSUME InotifyAssumption ==
  /\ TouchMask \subseteq Mask \ {"DELETE_SELF", "IGNORED", "Q_OVERFLOW"}
  /\ MaxInstalls \in Nat \ {0} /\ MaxTouches \in Nat
  /\ MaxKq \in Nat \ {0}

VARIABLES link,     \* the directory at the path, 0 when there is none
          installs, \* how many there have been
          open,     \* directories some process holds open
          watch,    \* the directory each descriptor watches, 0 without a watch
          kq,       \* each descriptor's queue of masks
          lost,     \* descriptors whose queue has dropped an event
          touches

kernelVars == <<link, installs, open, watch, kq, lost, touches>>

Inode == 1..MaxInstalls

KernelTypeOK ==
  /\ link \in 0..MaxInstalls /\ installs \in 0..MaxInstalls
  /\ open \subseteq Inode
  /\ watch \in [Observer -> 0..MaxInstalls]
  /\ kq \in [Observer -> Seq(Mask)]
  /\ lost \subseteq Observer
  /\ touches \in 0..MaxTouches

KernelInit == \* the application that starts the daemon is installed
  /\ link = 1 /\ installs = 1 /\ open = {}
  /\ watch = [o \in Observer |-> 0]
  /\ kq = [o \in Observer |-> <<>>]
  /\ lost = {} /\ touches = 0

Exists == link # 0 \* access(path, F_OK) of isFileExist, FileObserver.cpp:26-31
Alive(inode) == inode = link \/ inode \in open

Full(q)   == Len(q) >= MaxKq
OverflowQueued(q) == \E i \in 1..Len(q) : q[i] = "Q_OVERFLOW"

\* One event for one descriptor: dropped when the queue is full, but for a
\* single Q_OVERFLOW, and merged with an identical event queued just before.
Push(q, m) ==
  IF Full(q) THEN IF OverflowQueued(q) THEN q ELSE Append(q, "Q_OVERFLOW")
  ELSE IF q # <<>> /\ q[Len(q)] = m /\ m \notin Named THEN q
  ELSE Append(q, m)

PushGone(q) == Push(Push(q, "DELETE_SELF"), "IGNORED")

\* The descriptors that watch the inode get the queues in grown.
Post(inode, grown) ==
  LET hearers == {o \in Observer : watch[o] = inode}
  IN  /\ kq' = [o \in Observer |-> IF o \in hearers THEN grown[o] ELSE kq[o]]
      /\ lost' = lost \cup {o \in hearers : OverflowQueued(grown[o])}

Touch(m) == \* other activity in the directory at the path
  /\ Exists /\ touches < MaxTouches /\ touches' = touches + 1
  /\ Post(link, [o \in Observer |-> Push(kq[o], m)])
  /\ UNCHANGED <<link, installs, open, watch>>

OpenDir ==
  /\ Exists /\ link \notin open /\ touches < MaxTouches
  /\ touches' = touches + 1
  /\ open' = open \cup {link}
  /\ Post(link, [o \in Observer |-> Push(kq[o], "OPEN")])
  /\ UNCHANGED <<link, installs, watch>>

CloseDir(inode) ==
  /\ inode \in open
  /\ open' = open \ {inode}
  /\ LET closed == [o \in Observer |-> Push(kq[o], "CLOSE_NOWRITE")]
     IN  IF inode = link
           THEN Post(inode, closed)
           ELSE Post(inode, [o \in Observer |-> PushGone(closed[o])])
  /\ UNCHANGED <<link, installs, watch, touches>>

Uninstall ==
  /\ Exists
  /\ link' = 0
  /\ IF link \in open THEN UNCHANGED <<kq, lost>>
                      ELSE Post(link, [o \in Observer |-> PushGone(kq[o])])
  /\ UNCHANGED <<installs, open, watch, touches>>

Install ==
  /\ ~Exists /\ installs < MaxInstalls
  /\ installs' = installs + 1 /\ link' = installs + 1
  /\ UNCHANGED <<open, watch, kq, lost, touches>>

KernelNext ==
  \/ OpenDir \/ Uninstall \/ Install
  \/ \E m \in TouchMask : Touch(m)
  \/ \E inode \in open : CloseDir(inode)

\* What the observer's own system calls do.
AddWatch(o) == \* inotify_add_watch, FileObserver.cpp:73
  /\ watch' = [watch EXCEPT ![o] = link]
  /\ UNCHANGED <<link, installs, open, kq, lost, touches>>

ReadEvents(o, n) == \* read, FileObserver.cpp:88: the n oldest events
  /\ kq' = [kq EXCEPT ![o] = SubSeq(@, n + 1, Len(@))]
  /\ UNCHANGED <<link, installs, open, watch, lost, touches>>

CloseDescriptor(o) == \* close, FileObserver.cpp:243
  /\ watch' = [watch EXCEPT ![o] = 0]
  /\ kq' = [kq EXCEPT ![o] = <<>>]
  /\ UNCHANGED <<link, installs, open, lost, touches>>

=============================================================================
