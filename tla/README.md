# FileObserver: models, checks and proofs

The repository is an Android "uninstall reporter". The application loads a native
library that forks a daemon; the daemon watches `/data/data/<package>` with inotify,
outlives the application, and sends one HTTP request when the directory is removed.
This directory holds TLA+ modules of that program, TLC configurations that check
them on small instances, and TLAPS proofs of their safety properties for every
instance.

Paths are relative to the repository; `observer/` stands for `jni/observer/`.

## 1. The system

| component | state it keeps | operations | talks to |
|---|---|---|---|
| event queue, `observer/event_queue.c` | a linked list, `head`, `tail`, `next_ptr` | create, enqueue, dequeue, destroy | called by `ThreadFunc`, which mallocs and frees the entries |
| `FileObserver` | `mState`, and inside `ThreadFunc` the descriptor, `failedTimes`, the batch | `startWatching`, `stopWatching`; a thread that loops over read, settle, classify, filter, notify | inotify; its delegate by `onEvent`; its owner through `mState` alone |
| `FileDeleteObserver` | `mCancelled`, `mUrl`, the `FileObserver` it owns | start, stop, set the URL; `onEvent` in the watching thread, which sends the request and deletes the object | libcurl; `BackendServer::Stop`; the listener, which is not told of the deletion |
| `BackendServer` (the daemon) | `gKeepAliveDaemonProcess`, `mLoop`, `failTimes`, `mFileObserver` | main thread: wait, stop listening, exit; listener thread: select, accept, `handle` HELLO, FILE_PATH, REQ_ON_DEL | clients over TCP; the newest observer through a raw pointer |
| client calls (`NativeFileObserver`, `SimpleTcpClient`, `library_loader`) | a socket that nobody closes | `JNI_OnLoad` forks a daemon unless one answers HELLO; one connection per request | the daemon |
| uninstall service (Java) | `sUrl` in the application; `mInitSuccess`, a timer, delayed messages, `mStart` in the service's process | start the monitor once, send every URL, 2 s late while the library starts, stop itself after 5 s | Android; the client calls |
| Jce encoding, `jce/Jce.h` | an output buffer, a reader's cursor | write and read typed, tagged fields | client and daemon, for every request |
| JNI support, `base/` | the references a holder owns | make, keep, release references | the JVM |
| `tc_*` headers, `util/` | counts | handles that count references, from several threads | none of the program's own code uses the handles |

What is hard in it: one watching thread per registration and the listener share
flags and raw pointers without a lock; the observer deletes itself; `access()` is
asked about a path 500 ms after the event that prompts the question; queues overflow;
requests time out and are retried; a main thread ends the process by the clock.
Before that, several processes may fork a daemon for the one port; a URL reaches the
daemon through three processes, each of which Android may kill, over connections that
tell the sender nothing; and a request is whatever one `recv` returns.
`PROJECT.json` lists each of these hazards at its line, with the properties that
watch over it.

## 2. The modules

| module | models | kind |
|---|---|---|
| `FifoQueue` | what `event_queue.h` promises | abstract specification |
| `EventQueue` | `event_queue.c` with its client's malloc and free | implements `FifoQueue` |
| `EventQueueProofs` | | theorems |
| `Inotify` | the path, its successive directories, the kernel's queues | external, from the calls in `FileObserver.cpp` |
| `FileObserver` | `ThreadFunc`, `startWatching`, `stopWatching` | extends `Inotify` |
| `FileObserverOrder` | the same with a history of what the kernel queued | extends `FileObserver` |
| `FileObserverProofs` | | theorems |
| `FileDeleteObserver` | the delegate, and an owner that calls it at any time | composes with `FileObserver`, refines it |
| `BackendServer`, `MCBackendServer` | the daemon after `fork`: main thread, listener, clients' requests | composes with `FileDeleteObserver`, refines it |
| `BackendServerProofs` | | theorems about the two |
| `Startup` | `JNI_OnLoad`, `IsServerAlive`, `fork`, bind, listen of several processes | the sockets are external |
| `StartupProofs` | | theorems |
| `DaemonSockets` | which descriptors the daemon opens and closes | a view of `BackendServer` and `FileObserver` |
| `DaemonEnd` | the end of the daemon, with the time its sleeps and timeouts take | a view of `BackendServer` and `FileDeleteObserver` |
| `DaemonProofs` | | theorems about the two |
| `MCQueueAndEnd` | a behaviour of `EventQueue` or of `DaemonEnd` | instance |
| `UninstallService` | the Java side: application, service, monitor | Android is external |
| `UninstallReport` | the whole way from a URL to a hit on the server | extends `UninstallService` |
| `UninstallProofs` | | theorems about the two |
| `JceBytes` | `Jce.h`: integers, heads, strings and byte vectors to bytes and back, and the way past unknown fields | functions, no state |
| `Jce` | `Jce.h`: the types that contain others | functions, extends `JceBytes` |
| `JceStream` | a writer, a connection and a reader of another version | uses `Jce` |
| `ObserverProtocol` | the requests of `Observer.jce` through `recv` and `handle` | uses `JceBytes` |
| `ProtocolProofs` | | theorems about `JceBytes` and `ObserverProtocol` |
| `MCJce` | the samples, and a behaviour of either of the two | instance |
| `BufferWriter` | the output buffer, its copies and assignments | |
| `AutoPtr` | `TC_AutoPtr`, `TC_HandleBase`, `TC_Atomic` in several threads | |
| `ScopedJavaRef` | `ScopedJavaLocalRef`, `ScopedJavaGlobalRef` | the JVM's tables are external |
| `MCHolders` | a behaviour of one of the three | instance |
| `HoldersProofs` | | theorems about the three |

A module that needs no definitions for its constants is checked under its own name.
`MCQueueAndEnd`, `MCJce` and `MCHolders` are sums: every step is one of one component
while the others are in their initial states, so a run explores each component in full
and no products of them.

`BackendServer` composes the daemon from its parts at the grain of single statements.
`DaemonSockets`, `DaemonEnd` and `UninstallReport` look at the same code for one
question each (descriptors, time, the URL's way), and merge the statements between
which nothing happens that the question could tell.

Each module keeps the program's names for state (`mState`, `mCancelled`, `mUrl`,
`failedTimes`, `mLoop`, `mFileObserver`, ...). A variable `thread`, `handler` or `at` is
a program counter. Histories are variables that the code does not have, for the
properties to speak of; no guard of the code's own steps reads them. They are
`notified`, `sent`, `touchedFreed`, `contents` and `posted` in the first modules, and
those marked "history" in the later ones.

### EventQueue

An entry is a heap address. `Malloc` leaves `next_ptr` with any value. The destroy
loop is one action per iteration, so an entry is unlinked and freed before the next
is looked at. `taken` is what the last `queue_dequeue` returned.

### Inotify

A directory is the number of the installation that made it; `link` is the one at the
path. `rmdir` unlinks at once, and the kernel queues DELETE_SELF and IGNORED when the
last open handle goes, just after that handle's CLOSE_NOWRITE. Identical neighbours
merge, a full queue takes one Q_OVERFLOW and drops the rest (`lost`). Events about
children carry names, so two of them never merge. A rename of the directory is not
modelled: the package installer creates and removes.

### FileObserver

One action per step of `ThreadFunc` that another thread or the kernel can get
between: `Setup`, `Read`, `Settle` (500 ms), `Dequeue` (which asks `access()`),
`Skip` and `Filter` (at `isStopped`), `CallDelegate`, `Return`, `Close`. `LeaveLoop`
is the test of `failedTimes` behind the loop, and is reached from the read errors and
from Delete alike. `SetupFails` covers both silent early returns.
`pthread_create` and `mState = Started` are one step: the thread looks at `mState`
only 500 ms after its first event, and only for `Stopped`.

### FileDeleteObserver

`onEvent` is cut where its thread can be overtaken: at its entry, at the look at
`mCancelled`, at every attempt's begin and end, at the sleep, at `BackendServer::Stop`,
and at `delete this`. `SetUrl` sets any text, the empty one too, at any moment, also
between two attempts and during one. An attempt reads the URL in one step; the two reads
of the code, with a `std::string` torn between them, would look empty (`SendNothing`) or
crash (`Kill` in `BackendServer`). `NotAnswered` may or may not have reached the server.
`stopWatching` is two steps, `StopBegins` and `StopEnds`, for its two writes. An owner
may go on calling an observer that has deleted itself: the access is recorded in
`touchedFreed` and changes nothing, since the memory is nobody's. `noCurl` is a history
of the observers that were refused a curl handle.

### BackendServer

The listener serves one request at a time; FILE_PATH takes three steps (`StopOld`,
`StoppedOld`, `NewObserver`) because the watching threads run in between. `Exit` may
come at any time after `LeaveWait`: the 10 s of the code are not measured. `Kill` is
the system ending the process or any crash, an exception of the decoder included.
A listener whose port is taken ends up on a random port: that is a behaviour in which
no client ever calls `Send`; how it comes about is in `Startup`. All registrations are
of one path, as `UninstallMonitor.java:38` makes them. A REQ_ON_DEL carries any text:
nobody on the way from the application (`UninstallObserver.java:17` refuses null only)
to `handle` asks whether it is empty.

### Startup

A loader is a process in `System.loadLibrary`: `Load`, then `IsServerAlive` twice
(`Connect`, `Write`, `Read`, and `Conclude` for what it returns), then `Fork`. `nth` is
1 in the check of `JNI_OnLoad` and 2 in the check of `BackendServer::Start`. A daemon
goes from "forked" over `Bind` and `Listen` to "listening", or to "deaf" when the port
is taken: what `bind` returns is only logged. `CallFails` and `ThreadFails` are the
failing system calls, `KillLoader` and `Die` come at any moment. A read on a reset
connection leaves the buffer as it was; what is decoded then is behind it on the stack,
so `Read` may also end in "dead". A daemon's table of descriptors fills and empties
(`full`, by `Fill` and `Empty`, at any moment: what fills it is in `DaemonSockets`).
While it is full `accept` fails, the loop goes round (`BackendServer.cpp:188-192`), and
the connection stays in the backlog with its client waiting in `Read`, which has no
timeout.

### DaemonSockets

`handle` closes a connection it has served; the two `break`s of
`BackendServer.cpp:199-205` do not. A watching thread's descriptor is open from
`InotifyInit` to its end, which "blind" (stopped: it drops every event and reads on)
and "lost" (no directory to watch) never reach. `Full` makes `accept` and
`inotify_init` fail. The module follows the daemon until it is told to stop; failing
selects are `BackendServer`'s.

### DaemonEnd

Sleeps and timeouts are timers (`mainDue`, `selectDue`, `due`), and `Tick` lets time
pass only up to the next one: what takes no time in the code takes none in the model.
An attempt ends in any number of ticks up to curl's timeout. `Replace` is a whole
FILE_PATH request. The properties about time rest on this assumption of a prompt
scheduler; between the listener's 6 s and the main thread's 10 s there are 4 s of
slack. All the other modules order steps without time.

### UninstallService and UninstallReport

Updates of the URL are numbered, 0 is none; those in the constant `Blank` have an empty
text, which travels like any other. A service is a record: its handler's
queue in order of due time, its timer, `mInitSuccess`, `mStart`, and what its handler
thread is about to send. A tick is 1000 ms; messages are handled when due or later.
Android creates one service at a time when one is started or bound, tells every
connection of every creation (`toConnect`), and destroys it when it is neither.
`KillApplication`, `KillService` and `KillDaemon` may come at any time.
`SendRequest` is a connection that is refused unless the daemon listens; the caller is
not told. `mInitSuccess` is not volatile, so that a binder thread may read it late.

`UninstallReport` adds the watched directory and the observers: the current one as
`watcher`, those it replaced as `older`. Besides Delete (`OnEvent`) an observer's thread
may give up after too many failed reads (`OnError`: it stops the daemon without a
report, also when it was replaced long ago), and the kernel's queue may overflow just
when DELETE_SELF is due (`EventLost`); both are recorded as faults, "read" and
"overflow". An attempt without a text fails. `Uninstall` ends the application's and the
service's processes and removes the directory, while requests may still be in the
backlog. The daemon survives the uninstall, as the program intends. Requests that reach
a daemon whose observer has freed itself are left to `BackendServer`.

### JceBytes, Jce, JceStream, ObserverProtocol

`JceBytes` has one pair of functions for each kind of field: an integer is written in
the narrowest type that holds it or as the zero tag, heads take two bytes from tag 15
on, a string has a length of one byte or four, a byte vector is a simple list.
`ReadTagged` is what every overload of `read` does around its own work: look for the
tag, then the head, then the body, or else keep the old value or throw. Exceptions are
results with an `err`. The loops over fields (`SkipToTag`, `SkipFields`, `ReadElements`)
are recursive functions of the cursor.

`Jce` adds reals, vectors, maps and structs, which contain each other: `Write` and
`Read` go by cases on a type, as the overloads do. That recursion is over types, and
its operators are RECURSIVE; no module with a theorem uses `Jce`. `ReadReal` takes a
Float that is read as a Double through the conversions of `Jce.h:852-855` in their
order: to double and back with the bytes still in network order, then into order, then
to double. The one thing a conversion changes in bytes is a signalling NaN, which it
makes quiet (`Converted`).

`JceStream` lets a program of one version write fields and one of another read them.
What a read ought to return (`As`) is said without the code's casts: the value that was
written, if the reader's type holds it, and else a refusal. From this the code departs
in two places, which the oracle names. Unsigned types and Bool are read through a wider
or signed type and then cut: a value that only the latter holds is narrowed (`Narrowed`:
a Short 300 read as UInt8 is 44, a Char -128 is 128). And a Float that is a signalling
NaN the wrong way round comes out as another number (`Garbled`).

`ObserverProtocol` writes and reads its messages as the generated code of `Observer.h`
does, field by field, and passes the bytes of the program's own requests through a
`recv` that returns any part of them. A text that `write` would refuse (100 MB) is not
a request; `ProtocolAssumption` also wants such a text to fit an `Int32` with the few
bytes around it, which 2^31 leaves ample room for.

### BufferWriter, AutoPtr, ScopedJavaRef

One action per member function of the buffer, with the block each writer owns;
`operator=` appends to what is there and then takes the other's length (`Jce.h:345`). It
does not ask whether the other is the writer itself. Then the address of the block is
taken before `reserve` deletes it: a writer that has to grow copies from freed memory
(`Source`, any bytes), and either way it is twice as long afterwards. In `AutoPtr` every
step between which another thread may run is an action: read a pointer, count, replace,
`decRef`'s test of the count, its test of `_bNoDelete`. In `ScopedJavaRef` the JVM hands
out a deleted slot again, so that deleting twice hits another holder.

Two rules of a client of `TC_AutoPtr` are guards of `AutoPtr`: no handle is used by one
thread while another changes it (`MayChange`, `MayRead`), and `setNoDelete(false)` is
not called on a shared object. The steps of the code cannot protect a client that
breaks them, and no code of the repository is one.

## 3. The runs

One run looks for a violation and is listed apart; all others finish with no error.
"Bounds" name the constants that are smaller than in the code or that bound the
environment.

| run | what it shows | bounds, and why they are enough |
|---|---|---|
| `event_queue_and_daemon_end` | pointers spell the list, no leak, no double free (`QueueInv`), and first-in first-out (`IsFifo`); deadlines (`EndInv`) and what `exit` cuts off (`CurrentCutOnlyByOthers`) | four addresses: a head, a tail, an entry between them and one in the client's hands; two observers, two attempts, the times 2, 6, 10, 30 and 3 s become 1, 2, 4, 6 and 1, in the same order, the sum of several waits larger than the longest |
| `file_observer` | what is reported has happened (`DeleteIsReal`) and is final (`TerminalIsLast`), in the kernel's order and complete (`NothingLostOrReordered`), with `AtMostOneLateEvent` after a stop; a deletion is reported (`GoneIsReported`) | one observer without a filter, so that every event is heard; two installations, three events besides a removal, a queue of 4 and batches of 3, so that a batch, a queue and an event in hand coexist and the queue does overflow in some behaviours; two read errors |
| `file_delete_observer` | `HitOnlyAfterDeletion`, `StoppedBeforeCallNeverSends`, and every call of `onEvent` ends in its deletion (`CalledMeansFreed`) | one observer, two URLs, two attempts, an owner that may call at any time |
| `backend_server` | the inductive invariant (`DaemonInv`: types, who points to whom, who is freed), `OneReporterPerDeletion`, `ShutdownHasCause`, `OwnerTouchesFreedOnlyThen` | two observers, two installations, four requests: register, set, register, set, with a text or without, one of them waiting to be accepted at a time (`MaxBacklog`) and nobody killing the daemon (`MayBeKilled`); reads of one event (the two runs above read more) |
| `backend_server_live` | `StopEndsDaemon`, `DeletionEndsDaemon` | two requests of any kind, two observers, reads of two events; the daemon may be killed |
| `startup` | the inductive invariant, `ForkOnlyIfUnserved`, `DeafHasCause`, `CheckEnds`, `ForkMeansService` | two loaders and two daemons: each loader forks one, and either fork races with the other's checks; tables of descriptors that fill and empty |
| `uninstall_report` | which URL the daemon has (`LatestUrlKept`, `GoesBackOnlyToDelayed`), which the server hears (`HitIsTheOneMeant`), that it does (`SureIsReported`), and the types and bounds of both in `UninstallInv` | two updates, the later one with an empty text, two services, one kill, three attempts: an update before and one after a restart or a kill |
| `url_delivery` | the last URL arrives (`UrlReachesDaemon`) | two updates, two services, two kills, the service's side alone; an empty text travels no differently |
| `daemon_sockets` | which descriptors leak (`SocketsInv`) and what that costs (`RegisteredIsWatched`, `RequestsAreHandled`) | four connections, two registrations, three descriptors: enough for the table to fill with leaks |
| `jce` | `ReadsWhatWasWritten`, `UnknownFieldsSurvive`, `TruncatedReadsAreHonest`; `WholeRequestsArrive`, `CutRequestsMakeNothingUp` | three programs: 24 fields (every type, both sides of every width) at tags 14 and 15, the head's boundary, two in a stream, and 18 types of reader; up to three fields at tags 0 to 2 cut after any byte; texts of 11264 bytes cut within their size. Four requests, a buffer of 16 bytes, which texts of the samples exceed |
| `holders` | `WriterInv`, `PtrInv`, `RefInv`: every block, object and reference is released once, by its last holder | two writers, three blocks, so that either grows while the other holds one, up to four bytes in each, so that a writer of two can be assigned to itself; three handles of two objects in three threads; two local holders and a global one, three slots, two threads |

`EmptyUrlHasCause`, `NoOlderHit`, `ReplacedStaySilent` are conjuncts of `UninstallInv`;
`GoneInTime`, `OverInTime`, `ListenerLeftBeforeExit` of `EndInv`; `OnlyTheDeadStayOpen`
of `SocketsInv`; `WholeRequestsTakeEffect` and `OnlyCutMessagesThrow` of
`WholeRequestsArrive`; the modules state each of them with a comment of its own.

The limits 10, 10 and 5 of the code are 1 or 2 in the runs: the loops treat every
iteration before the last alike. `EventFilter` is `{}` or the set of
`FileDeleteObserver.cpp:16`. Observers, addresses and the like are symmetric where no
liveness is checked. The runs of the daemon, of its end, of its sockets and of the
service do not check deadlock: a daemon exits, and updates, services and connections
come to their bounds.

TLC's integers have 32 bits, so `MCJce` gives Char, Short, Int32 and Int64 the
sizes 1, 2, 3 and 4 bytes: the code's case distinctions are on the order of the sizes
only. The length of a long string, which is no Int32 but a uint32_t, keeps its 4 bytes,
since its single bytes matter. `kString1Max` is 3 there and 255 in the code.

| run | what it finds |
|---|---|
| `uninstall_service_init` | `mInitSuccess` becomes true 2 s after `loadLibrary`, daemon or no daemon; the comment at `UninstallReportService.java:115` says it waits for the lower layer |

What the runs found that a reader of the code should know, none of it contradicted by
a comment or a test of the repository:

- the listener does use freed observers, in exactly two windows: after the daemon was
  told to stop and before it exits, and between the two writes of `stopWatching`;
- `GoneIsReported` needs its three excuses: a stopped observer's thread drops every
  event, Error excepted, and a queue overflow may drop DELETE_SELF itself.
  `SureIsReported` needs the same two for the whole way, as "read" and "overflow";
- an empty URL is accepted everywhere and replaces the one the daemon had: the daemon
  then watches and reports nothing (`EmptyUrlHasCause` names that as a cause), but an
  empty URL that arrives during the report ends nothing early (`ShutdownHasCause`);
- a daemon that is out of descriptors leaves connections in its backlog, and a client's
  alive check, made from `JNI_OnLoad` and without a timeout, waits as long: `CheckEnds`
  needs that excuse;
- a stopped observer may hear one more event, which `mCancelled`, set first, turns
  into a silent deletion of the observer;
- two processes that load the library together may both fork; one of the daemons then
  stays deaf for ever (`DeafHasCause` names that as a cause);
- clients that die without a word, observers that were replaced and paths that do not
  exist cost a descriptor each for good: `RequestsAreHandled` and `RegisteredIsWatched`
  need the excuse that leaks have used up all but one;
- a report under way when its observer is replaced stops the daemon in which the new
  observer watches (`CurrentCutOnlyByOthers`);
- an update that was delayed by 2 s may overtake a later one (`GoesBackOnlyToDelayed`);
- a request of which `recv` returns only a part may end the daemon by an exception
  (`WholeRequestsArrive` says that a whole one never does);
- a stream cut within the size of a string or a container that the reader passes over
  may show it a field that nobody wrote, with the value zero: `skipToTag` drops the
  exception and leaves the cursor between the bytes of the size. The smallest string
  that does it has 11264 bytes, its size 00 00 2C 00: cut before the last of these, it
  shows a reader of tag 2 a zero. `TruncatedReadsAreHonest` says that nothing else is
  made up;
- a writer that is assigned to itself does not keep its content, and copies from a
  freed block when it has to grow; no code of the repository does it;
- a copy of a local reference whose environment is NULL cannot come about, though the
  copy constructor drops what `SetNewLocalRef` returns (`EnvironmentKnown` in `RefInv`).

### Fairness

`FairOrderSpec` makes each watching thread weakly fair (the scheduler runs it, and
`read` returns once the queue is not empty), and assumes that the delegate returns. A
failing `read` or `select`, a failing `accept`, the kernel, the clients and `Kill` are
never forced. `FairDeleteSpec` relies on libcurl's 30 s timeout
(`FileDeleteObserver.cpp:100`) to end an attempt, and on nothing of the owner's.
`FairServerSpec` adds the daemon's main thread and listener.

In `Startup` every process is scheduled, and a listener told to stop looks at `mLoop`
when its select times out (`BackendServer.cpp:167`); loading, kills and the order to
stop are never forced. In `DaemonSockets` the listener runs, and a client that has
connected writes its request or dies. In `UninstallService` the processes' threads run,
and Android creates and connects what it was asked for; updates, kills and the service's
destruction are never forced. `FairSpecAll` of `UninstallReport` adds the daemon's
threads: its attempts end, by libcurl's timeout. All of it is weak fairness. `FairSpec`
of `UninstallService`, of `url_delivery`, has the service's threads and a daemon that
handles what is in its backlog.

## 4. The proofs

No proof bounds a constant; the assumptions are the `ASSUME`s of the modules (limits
are positive, NULL is no address, no name stands for two things), which TLC evaluates
in the runs.

- `EventQueueProofs`: `QueueInv` is inductive as it stands, for any heap. The list
  properties and the refinement `ListIsFifo` follow.
- `FileObserverProofs`: `ObserverInv` strengthens the safety properties by what is under
  way. `DeleteIsReal` speaks of the calls made; it holds because a DELETE_SELF still
  queued or in the batch, or an event classified as Delete and not yet delivered,
  already means that the directory is gone (`GoneInv`), and a directory that is gone
  never comes back under its number. `TerminalIsLast` needs that Delete leaves the loop
  with `failedTimes` below its limit (`RetriesInv`), so that Error does not follow it.
  `AtMostOneLateEvent` needs that the late event has passed (`LateInv`). One lemma per
  part and kind of step; the kernel's steps are apart from the threads'.
  `NothingLostOrReordered` is proved of `OrderSpec`, of which `HistoryRestrictsNothing`
  shows that the history restricts nothing. Its invariant `OrderInv` adds that the
  thread reads with an empty batch only. The kernel only ever adds to the end of a
  queue, whether it merges, overflows or announces a removal (`KernelGrows`), and the
  thread's steps regroup the concatenation: `Read` splits the queue, `Dequeue` the
  batch, `CallDelegate` moves the event in hand to what was told, which needs that Error
  was not told before (`TerminalInv`). `BackendServerProofs` extends this module but not
  the history: it uses the theorems of `Spec`.
- `BackendServerProofs`, first about `FileDeleteObserver`: `DriveFileObserver` shows
  that every step is one of `FileObserver` or leaves it alone, which carries the
  theorems above over. `ReporterInv` adds that an object is freed exactly when its
  handler has returned or its thread winds up (`LifeInv`), that only Delete leads to a
  request (`ReportInv`), and that `mCancelled` comes before `Stopped` (`CancelInv`).
  Then about the daemon: `DriveFileDeleteObserver` does the same one level up;
  `DaemonInv` adds that the pointer is never cancelled outside FILE_PATH (`PointerInv`),
  that only a cancelled observer frees itself while the daemon is to live (`QuietInv`),
  that whoever stops the daemon keeps its reason (`CauseInv`: Error, or Delete with an
  answer, no curl handle, or all attempts used up, whatever the URL has become since),
  and why no two observers report one uninstall (`OneReporterInv`): only the newest
  observer is not spent, that is neither cancelled nor freed (`SoleInv`); it began to
  report a directory that no other unspent observer watches, and that directory is gone
  for those that come after (`ApartInv`). TLC checks `DaemonInv` in `backend_server`.
- `StartupProofs`: `StartupInv`, `ForkOnlyIfUnserved` and `DeafHasCause` are inductive
  together. The accounts of both ends of a connection say that one closed without an
  answer or reset belongs to a loader that is gone or that asked while nobody served,
  and so the second check that finds nobody has noticed it (`lapse`).
- `DaemonProofs`, about the end of the daemon and its descriptors. `EndIInv` bounds
  every timer by what is left: whoever is told to stop finds its sleep, select or
  attempt shorter than its deadline, and the listener's waits added up end before the
  main thread's 10 s do; `DaemonEndsInTime` and `ExitCutsOnlyOthers` follow.
  `SocketsInv` is inductive as it stands; that a registration without a watch means
  leaks (`WatchesFailOnlyForLeaks`) is then a count: all descriptors are open, one by
  the connection being served, and every other one is a leak or the current watch.
- `HoldersProofs`, one part for each of three components. `WriterInv`: `BufferInv` (a
  writer fills no more than its block, and no two writers share one), the owners and the
  contents are inductive together, for any memory and any writes and assignments, those
  of a writer to itself included: these too keep to the writer's own blocks, and what
  they do to the content is left open (`spoiled`). `PtrInv`, for any threads, handles
  and objects, under the two rules of section 2: the count of every object is the number
  of references to it, those that a thread has counted for a handle and those it is
  about to drop included. A thread between two steps is the only one at its handle
  (`Alone`), so that the set of references changes by one with every step that counts.
  `RefInv`, for any holders, slots and threads: a reference is in the hands of one
  holder or raw, and what is raw is still there, which is why a slot that the JVM hands
  out again is nobody's.
- `UninstallProofs`, for any number of updates, services, kills and tries.
  `UninstallIInv` has two halves. `WayInv` says where a URL can be: an update that was
  not delayed (`Fresh`) is at least as new as all that is ahead of it, in the handlers'
  queues, in the sending threads, in the backlog and at the daemon (`InOrder`); what
  waits for a timer, or belongs to a service that is gone, was delayed (`ServiceInv`,
  which also keeps the handler's queue sorted, the lemma `EnqueueInserts`); every path
  is followed by a URL, in the backlog or about to be sent (`PathsFollowed`); while
  nothing has failed the path came first (`PathFirst`), and a service still has the
  latest URL, or the daemon has it, or will, or one that was delayed (`LatestOnItsWay`).
  `ReportInv` says what the observers make of it: what the daemon has or will get after
  the uninstall is not older than what it had, and only the current observer reports;
  that the daemon ends before the uninstall only after a failed read is `EndingInv`. Two
  lemmas carry `InOrder` over the steps that lose, delay or kill (`ThinnedInOrder`,
  `ClearedInOrder`), one each over those that add, take or send. `GoesBackOnlyToDelayed`
  follows from `InOrder` at the one step that changes the daemon's URL to another.

- `ProtocolProofs`, for any widths of the integer types that `JceAssumption` allows, any
  limit on strings, any texts and buffer sizes. The law of the encoding comes first, for
  the three kinds of field that requests are made of. Let a buffer have, from the cursor
  on and as far as it goes, the bytes that `write` made of a field (`Begins`). A read
  that asks for the field's tag there returns the value and stands behind the field; if
  the buffer ends before the field's head does, it keeps the old value or reports a
  field missing; if it ends behind the head, the read throws. `IntegersComeBack` says so
  for every pair of a writer's and a reader's type: the value as the cast to the
  reader's type makes it, if the reader's carrier holds it, and a mismatch if not.
  `StringsComeBack` covers both forms of a string, `ByteVectorsComeBack` the size inside
  the field, which may be cut on its own. What this rests on: `BigEndian` cuts a number
  into digits of base 256 in two's complement and `Signed` and `Unsigned` put them
  together again, for any number of digits (`FromBytesBack`, `SignedBack`,
  `UnsignedBack`); the narrowest type is narrow enough (`NarrowestFits`); a head of one
  or two bytes comes back (`HeadIsThere`). The digits need induction. The induction
  theorems of the library cannot be used, but the well-foundedness of `<` on Nat can
  (`WFMin`): a set of numbers that fail would have a least one (`NatMin`).
  `AffineRecursion` builds by it the function that the recursive definitions of `Power`
  and `FromBytes` choose. `RequestsComeBack` puts the fields of a message together, for
  a message cut anywhere. `ProtocolInv` then needs little: what is on the way is the
  message of the last request (`SentAsAsked`), a reply that came whole is the message of
  an alive check (`HelloComesBack`), the request's text is one that `write` accepts.
  That, with `WholeRequestsArrive`, is inductive; `WholeRequestsSuffice` and
  `NothingIsMadeUp` follow.

Some theorems state parts of an inductive invariant that no run lists by itself, since
a run checks the whole: `DestroyFreesAll`, `ThreadsEndLoudly`, `WatcherSafe`,
`EndedThreadsFree`, `PointersLead`, `OneDaemonAnswers` and the type theorems. The laws
of the encoding are theorems about operators, not about behaviours; runs check them
through `ReadsWhatWasWritten` and `TruncatedReadsAreHonest`, on samples.

Only model-checked:

- the liveness properties (`GoneIsReported`, `CalledMeansFreed`, `StopEndsDaemon`,
  `DeletionEndsDaemon`, `CheckEnds`, `ForkMeansService`, `UrlReachesDaemon`,
  `SureIsReported`, `RequestsAreHandled`), since fairness and ENABLED are out of the
  prover's reach;
- `ReadsWhatWasWritten`, `UnknownFieldsSurvive` and `TruncatedReadsAreHonest` of
  `JceStream`, which are about types of any depth (RECURSIVE operators). What the
  theorems say of them is the case of integers, strings and byte vectors, read where
  they begin; that a reader finds them behind fields it does not know is checked only.

## 5. Not modelled

- The time of the daemon's steps outside `DaemonEnd`, and 500 ms, 3 s, 10 s and 30 s as
  numbers.
- The two reads of `mUrl` in one attempt (`FileDeleteObserver.cpp:85-101`), between
  which the listener may assign it: a `std::string` torn that way looks empty or
  crashes, which `SendNothing` and `Kill` stand for; no property speaks of the race
  itself.
- Handles of `TC_AutoPtr` that threads share without a lock of their own, and
  `setNoDelete(false)` on an object others hold.
- Renames of the watched directory; registrations of different paths by applications
  that share the daemon.
- `jce/Jce_json.h`, which nothing includes; the overloads of `Jce.h` for arrays given by
  pointer and length, `BufferWriterBuff` and `MapBufferReader`, which nothing calls.
- `tc_functor.h`, `tc_loki.h` and `basictypes.h`: templates that select types at compile
  time. `tc_lock.h`: the scoped lock around every operation of `TC_Atomic`, each of
  which is one step of `AutoPtr`. The `add` and `sub` of `TC_Atomic`, uncalled.
- The conversions of `jni_android.cpp`, which nothing calls; the list of
  `jni_register_helper`, filled before `main` and read once.
- Logging (output), libcurl (third-party), the JNI generator (a build tool), and the
  test programs, which the build does not link.
