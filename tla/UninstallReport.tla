---------------------------- MODULE UninstallReport ----------------------------
(***************************************************************************)
(* The whole way, from the application's call to the hit on the server:    *)
(* UninstallService's processes, with a daemon whose observers watch the   *)
(* application's directory, and the uninstall, which ends the application  *)
(* and the service while requests may still be under way.  What goes on    *)
(* inside the daemon is BackendServer's and FileDeleteObserver's; here     *)
(* matters which URL is reported, and whether any is.                      *)
(***************************************************************************)
EXTENDS UninstallService

CONSTANT MaxTries \* kFailRetryTimes

ASSUME ReportAssumption == MaxTries \in Nat \ {0}

VARIABLES installed,
          watcher,  \* the current observer; its URL is url
          older,    \* observers it replaced, cancelled, with the URL they had
          ending,   \* keepAlive is false
          hits,     \* URLs that reached the server
          meant, sure, atEnd \* history: sUrl, what was certain, and url when it was uninstalled

reportVars == <<installed, watcher, older, ending, hits, meant, sure, atEnd>>
allVars == <<vars, reportVars>>

Nobody  == [at |-> "none", tries |-> 0]
Starter == [at |-> "starting", tries |-> 0]

InitAll ==
  /\ Init /\ installed = TRUE /\ watcher = Nobody /\ older = <<>> /\ ending = FALSE
  /\ hits = {} /\ meant = NoUrl /\ sure = {} /\ atEnd = NoWatch

-----------------------------------------------------------------------------
(* The application's and the service's steps, while it is installed. *)

ServiceStep ==
  \/ SetHttpRequestOnUninstall \/ OnServiceConnected \/ OnCreate \/ Tick \/ Destroy
  \/ \E i \in Running : TimerTask(i) \/ HandleMessage(i) \/ Start(i) \/ SetHttpRequestOnDelete(i)
  \/ KillApplication \/ KillService

Uninstall == \* the processes of the package are killed, its directory is removed
  /\ installed /\ installed' = FALSE
  /\ services' = [i \in DOMAIN services |-> Killed(services[i])]
  /\ sUrl' = NoUrl /\ bound' = 0 /\ toConnect' = 0 /\ started' = FALSE /\ lib' = "unloaded"
  /\ meant' = sUrl /\ atEnd' = url
  /\ sure' = (IF AtRest /\ faults = {} THEN {"url"} ELSE {})
               \cup (IF watcher.at = "watching" /\ ToSet(backlog) \cup {url} \subseteq Updates \ Blank
                     THEN {"report"} ELSE {})
  /\ UNCHANGED <<updates, daemonVars, history, watcher, older, ending, hits>>

-----------------------------------------------------------------------------
(* The daemon's steps. *)

Freed == watcher.at = "done" \* what handle does then is BackendServer's

HandleRequest ==
  /\ ~Freed /\ Handle
  /\ IF Head(backlog) = NoUrl
     THEN /\ older' = IF url = NoWatch THEN older
                      ELSE Append(older, [at |-> watcher.at, url |-> url, tries |-> watcher.tries])
          /\ watcher' = Starter
     ELSE UNCHANGED <<older, watcher>>
  /\ UNCHANGED <<installed, ending, hits, meant, sure, atEnd>>

\* inotify_init and inotify_add_watch: of a directory that is there, unless they fail.
Watched(w, v) ==
  /\ w.at = "starting"
  /\ \/ installed /\ v.at = "watching" /\ UNCHANGED faults
     \/ installed /\ v.at = "blind" /\ faults' = faults \cup {"inotify"}
     \/ ~installed /\ v.at = "blind" /\ UNCHANGED faults
  /\ v.tries = w.tries

AddWatch ==
  /\ \/ /\ \E a \in {"watching", "blind"} :
             watcher' = [watcher EXCEPT !.at = a] /\ Watched(watcher, watcher')
        /\ UNCHANGED older
     \/ /\ \E k \in DOMAIN older, a \in {"watching", "blind"} :
             older' = [older EXCEPT ![k].at = a] /\ Watched(older[k], older'[k])
        /\ UNCHANGED watcher
  /\ UNCHANGED <<appVars, serviceVars, daemonVars, held, kills, installed, ending, hits, meant, sure, atEnd>>

\* Mutant: an observer that was cancelled reports all the same.
OnEventUncancelled ==
  /\ ~installed
  /\ \/ watcher.at = "watching" /\ watcher' = [watcher EXCEPT !.at = "reporting"] /\ UNCHANGED older
     \/ /\ \E k \in DOMAIN older : older[k].at = "watching" /\ older' = [older EXCEPT ![k].at = "reporting"]
        /\ UNCHANGED watcher
  /\ UNCHANGED <<vars, installed, ending, hits, meant, sure, atEnd>>

OnEvent == \* Delete: the directory is gone; a cancelled observer frees itself
  /\ ~installed
  /\ \/ watcher.at = "watching" /\ watcher' = [watcher EXCEPT !.at = "reporting"] /\ UNCHANGED older
     \/ /\ \E k \in DOMAIN older : older[k].at = "watching" /\ older' = [older EXCEPT ![k].at = "done"]
        /\ UNCHANGED watcher
  /\ UNCHANGED <<vars, installed, ending, hits, meant, sure, atEnd>>

OnError == \* read failed too often: the daemon stops without a report, cancelled or not
  /\ \/ watcher.at = "watching" /\ watcher' = [watcher EXCEPT !.at = "done"] /\ UNCHANGED older
     \/ /\ \E k \in DOMAIN older : older[k].at = "watching" /\ older' = [older EXCEPT ![k].at = "done"]
        /\ UNCHANGED watcher
  /\ ending' = TRUE /\ faults' = faults \cup {"read"}
  /\ UNCHANGED <<appVars, serviceVars, daemonVars, held, kills, installed, hits, meant, sure, atEnd>>

EventLost == \* the kernel's queue was full: nobody hears that the directory is gone
  /\ ~installed
  /\ \/ /\ watcher.at = "watching" /\ watcher' = [watcher EXCEPT !.at = "blind"]
        /\ faults' = faults \cup {"overflow"} /\ UNCHANGED older
     \/ /\ \E k \in DOMAIN older : older[k].at = "watching" /\ older' = [older EXCEPT ![k].at = "blind"]
        /\ UNCHANGED <<watcher, faults>>
  /\ UNCHANGED <<appVars, serviceVars, daemonVars, held, kills, installed, ending, hits, meant, sure,
                 atEnd>>

NoText(u) == u \in Blank \cup {NoUrl}

\* Mutant: the loop ends after an attempt that failed, too.
OutcomesOnce(w, u) ==
  LET once == [w EXCEPT !.at = "done", !.tries = @ + 1]
  IN  {[who |-> once, hits |-> hits, fault |-> IF once.tries = MaxTries THEN {"network"} ELSE {}]}

\* One attempt: it succeeds, cannot even start (which passes for success), or
\* fails; it may time out when the server has been hit.  With no text it fails.
Outcomes(w, u) ==
  LET done   == [w EXCEPT !.at = "done"]
      failed == IF w.tries + 1 = MaxTries THEN [done EXCEPT !.tries = @ + 1]
                ELSE [w EXCEPT !.tries = @ + 1]
      hit    == hits \cup {u}
  IN  IF NoText(u) THEN {[who |-> failed, hits |-> hits, fault |-> {}]}
      ELSE {[who |-> done, hits |-> hit, fault |-> {}], [who |-> done, hits |-> hits, fault |-> {"curl"}]}
             \cup [who : {failed}, hits : {hits, hit},
                   fault : {IF failed.at = "done" THEN {"network"} ELSE {}}]

Ended(out) ==
  /\ hits' = out.hits /\ faults' = faults \cup out.fault
  /\ ending' = (ending \/ out.who.at = "done")

Attempt ==
  /\ \/ /\ watcher.at = "reporting" /\ UNCHANGED older
        /\ \E out \in Outcomes(watcher, url) : watcher' = out.who /\ Ended(out)
     \/ /\ UNCHANGED watcher
        /\ \E k \in DOMAIN older :
             /\ older[k].at = "reporting"
             /\ \E out \in Outcomes(older[k], older[k].url) : older' = [older EXCEPT ![k] = out.who] /\ Ended(out)
  /\ UNCHANGED <<appVars, serviceVars, daemonVars, held, kills, installed, meant, sure, atEnd>>

Gone == /\ watcher' = Nobody /\ older' = <<>> /\ ending' = FALSE
        /\ UNCHANGED <<installed, hits, meant, sure, atEnd>>

Exit == \* the main thread has waited long enough, whatever the others do
  /\ ending /\ Gone
  /\ daemon' = "none" /\ backlog' = <<>> /\ url' = NoWatch
  /\ UNCHANGED <<appVars, serviceVars, history>>

NextAll ==
  \/ installed /\ ServiceStep /\ UNCHANGED reportVars
  \/ Uninstall
  \/ StartListening /\ UNCHANGED reportVars
  \/ HandleRequest \/ AddWatch \/ OnEvent \/ OnError \/ EventLost \/ Attempt \/ Exit
  \/ KillDaemon /\ Gone

SpecAll == InitAll /\ [][NextAll]_allVars

\* The service's threads need no `installed' here: Uninstall disables them.
FairSpecAll ==
  /\ SpecAll /\ Fairness
  /\ WF_allVars(HandleRequest) /\ WF_allVars(AddWatch) /\ WF_allVars(OnEvent) /\ WF_allVars(Attempt)

-----------------------------------------------------------------------------
(* Properties. *)

ReportTypeOK ==
  /\ installed \in BOOLEAN /\ ending \in BOOLEAN
  /\ watcher \in [at : {"none", "starting", "watching", "blind", "reporting", "done"}, tries : 0..MaxTries]
  /\ \A k \in DOMAIN older : older[k].url \in 0..MaxUpdates
  /\ hits \subseteq Updates \ Blank /\ meant \in 0..MaxUpdates /\ atEnd \in 0..NoWatch
  /\ (watcher.at = "none") = (url = NoWatch)

\* The daemon watches with no text to send only while the URL follows, when the
\* service was killed after it had sent the path (UninstallMonitor.java:22-46), or
\* when an empty text is one the application has set (UninstallObserver.java:17).
EmptyUrlHasCause ==
  installed /\ NoText(url) =>
    \/ \E u \in ToSet(backlog) : u # NoUrl
    \/ \E i \in Running : services[i].at = "url"
    \/ "service" \in faults
    \/ url \in Blank /\ url <= updates

\* What reaches the server is the URL the application set last, or one that was
\* delayed on its way, when nothing was under way and nothing had failed.
HitIsTheOneMeant == "url" \in sure => hits \subseteq {meant} \cup held

\* A report never carries an older URL than the daemon had when the
\* application was uninstalled, unless that URL was delayed: what is still
\* under way only brings it forward.
NoOlderHit ==
  atEnd \in Updates => \A u \in hits : u >= atEnd \/ u \in held

\* No hit of a URL nobody wanted reported: an observer that was replaced while
\* the application was installed stays silent.
ReplacedStaySilent ==
  \A k \in DOMAIN older : older[k].at = "reporting" => ~installed /\ watcher.at \in {"starting", "blind"}

\* What the daemon knows before the uninstall bounds what it does after it.
UninstallInv ==
  TypeOK /\ ReportTypeOK /\ EmptyUrlHasCause /\ NoOlderHit /\ ReplacedStaySilent

\* A daemon that watches with a URL when the application is uninstalled, and is
\* not being told the path again or an empty text, reports, or tries as often as
\* it may, unless the kernel lost the event, reading it failed too often, or the
\* daemon was killed (FileDeleteObserver.cpp:43-81, FileObserver.cpp:66-87).  (A
\* path that arrives then cancels the observer that would have reported.)
SureIsReported ==
  "report" \in sure ~>
    hits # {} \/ faults \cap {"network", "curl", "daemon", "read", "overflow"} # {}

=============================================================================
