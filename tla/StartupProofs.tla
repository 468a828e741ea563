----------------------------- MODULE StartupProofs -----------------------------
(***************************************************************************)
(* That a second daemon is forked only if nobody served, that a deaf       *)
(* daemon has a cause, and that one socket listens, for any number of      *)
(* loading processes and daemons.  StartupInv says which connections can   *)
(* be open, closed or reset, which is what the two histories rest on; it   *)
(* is inductive together with them.                                        *)
(***************************************************************************)
EXTENDS Startup, FiniteSetTheorems, TLAPS

IInv == StartupInv /\ ForkOnlyIfUnserved /\ DeafHasCause

\* The histories only grow.
LEMMA ObserveTypes ==
  ASSUME TypeOK, Observe
  PROVE  lapse' \subseteq Loaders /\ met' \subseteq Daemons /\ lapse \subseteq lapse' /\ met \subseteq met'
BY DEF TypeOK, Observe

\* A loader that is asking, or waits, in a step before or after which nobody
\* serves is in lapse.
LEMMA LapseNoticed ==
  ASSUME Observe, NEW l \in Loaders, at'[l] \in Checking, ~Served \/ ~Served'
  PROVE  l \in lapse'
BY DEF Observe

LEMMA NobodyListens == Listening = {} => ~Served
BY DEF Served

\* What Conclude makes of the loader.
LEMMA ConcludeEffect ==
  ASSUME TypeOK, NEW l \in Loaders, NEW b \in BOOLEAN, Conclude(l, b)
  PROVE  /\ conn' = [conn EXCEPT ![l] = "none"] /\ to' = [to EXCEPT ![l] = None]
         /\ \A k \in Loaders \ {l} : at'[k] = at[k] /\ nth'[k] = nth[k]
         /\ at' \in [Loaders -> Checking \cup {"off", "fork", "loaded", "dead"}]
         /\ nth' \in [Loaders -> {1, 2}]
         /\ at'[l] \in {"loaded", "connect", "fork"}
         /\ at'[l] = "connect" => ~b /\ nth'[l] = 2
         /\ at'[l] = "fork" => ~b /\ nth[l] = 2 /\ nth'[l] = 2
BY DEF TypeOK, Conclude, Go, Checking

\* The loaders' steps leave the daemons alone, but for fork.
LEMMA LoaderKeeps ==
  ASSUME IInv, Observe, NEW l \in Loaders, LoaderStep(l) \/ CallFails(l) \/ KillLoader(l)
  PROVE  IInv'
<1> USE DEF IInv, StartupInv, Checking, Coming
<1>0. lapse' \subseteq Loaders /\ met' \subseteq Daemons /\ lapse \subseteq lapse' /\ met \subseteq met'
  BY ObserveTypes
<1>1. CASE Load(l)
  BY <1>1, <1>0 DEF Load, Go, daemonVars, TypeOK, OneListener, Connections, Histories,
     ForkOnlyIfUnserved, DeafHasCause, Listening
<1>2. CASE Write(l)
  BY <1>2, <1>0 DEF Write, Go, daemonVars, TypeOK, OneListener, Connections, Histories,
     ForkOnlyIfUnserved, DeafHasCause, Listening
<1>3. CASE KillLoader(l)
  BY <1>3, <1>0 DEF KillLoader, Go, daemonVars, TypeOK, OneListener, Connections, Histories,
     ForkOnlyIfUnserved, DeafHasCause, Listening
<1>4. CASE Fork(l)
  <2>1. TypeOK' /\ at[l] = "fork" /\ at' = [at EXCEPT ![l] = "loaded"] /\ UNCHANGED <<nth, conn, to, main, serving, full, failed>>
    BY <1>4, <1>0 DEF Fork, Go, TypeOK, Listening
  <2>2. /\ Listening' = Listening
        /\ \A d \in Daemons : state'[d] # state[d] => state[d] = "none" /\ state'[d] = "forked"
    BY <1>4 DEF Fork, TypeOK, Listening
  <2>3. OneListener' /\ Connections'
    BY <1>0, <2>1, <2>2 DEF OneListener, Connections, TypeOK
  <2>4. \A d, e \in Daemons : d # e /\ state'[d] \in Coming /\ state'[e] \in Coming => d \in met'
    BY DEF Observe
  <2>5. Histories' /\ ForkOnlyIfUnserved' /\ DeafHasCause'
    BY <1>0, <2>1, <2>2, <2>4 DEF Histories, ForkOnlyIfUnserved, DeafHasCause, TypeOK
  <2> QED
    BY <2>1, <2>3, <2>5
<1>5. CASE Connect(l)
  <2>1. UNCHANGED <<state, main, serving, full, failed>> /\ Listening' = Listening /\ at[l] = "connect"
    BY <1>5 DEF Connect, daemonVars, Listening
  <2>2. ~ \E d \in Daemons : serving[d] = l
    BY <2>1, StartupAssumption DEF Connections, TypeOK
  <2>3. CASE \E d \in Listening :
               /\ conn' = [conn EXCEPT ![l] = "open"] /\ to' = [to EXCEPT ![l] = d]
               /\ Go(l, "write") /\ UNCHANGED nth
    <3>1. PICK d \in Listening :
               /\ conn' = [conn EXCEPT ![l] = "open"] /\ to' = [to EXCEPT ![l] = d]
               /\ Go(l, "write") /\ UNCHANGED nth
      BY <2>3
    <3>2. d \in Daemons /\ TypeOK'
      BY <1>0, <2>1, <3>1 DEF TypeOK, Go, Listening
    <3>3. OneListener' /\ Connections'
      BY <1>0, <2>1, <2>2, <3>1, <3>2 DEF OneListener, Connections, TypeOK, Go
    <3>4. Histories' /\ ForkOnlyIfUnserved' /\ DeafHasCause'
      BY <1>0, <2>1, <3>1, <3>2 DEF Histories, ForkOnlyIfUnserved, DeafHasCause, TypeOK, Go
    <3> QED
      BY <3>2, <3>3, <3>4
  <2>4. CASE Listening = {} /\ Conclude(l, FALSE)
    <3>0. /\ conn' = [conn EXCEPT ![l] = "none"] /\ to' = [to EXCEPT ![l] = None]
          /\ \A k \in Loaders \ {l} : at'[k] = at[k] /\ nth'[k] = nth[k]
          /\ at' \in [Loaders -> Checking \cup {"off", "fork", "loaded", "dead"}]
          /\ nth' \in [Loaders -> {1, 2}]
          /\ at'[l] \in {"loaded", "connect", "fork"}
          /\ at'[l] \in {"connect", "fork"} => nth'[l] = 2
          /\ at'[l] = "fork" => nth[l] = 2
      BY <2>4, ConcludeEffect
    <3>1. TypeOK' /\ at'[l] \in {"loaded", "connect", "fork"}
      BY <1>0, <2>1, <3>0 DEF TypeOK
    <3>2. OneListener' /\ Connections'
      BY <1>0, <2>1, <2>2, <3>0, <3>1 DEF OneListener, Connections, TypeOK
    <3>3. at'[l] = "connect" => l \in lapse'
      BY <2>4, LapseNoticed, NobodyListens
    <3>4. at'[l] = "fork" => l \in lapse' \cup failed'
      BY <1>0, <2>1, <3>0 DEF Histories
    <3>5. Histories' /\ ForkOnlyIfUnserved' /\ DeafHasCause'
      BY <1>0, <2>1, <3>0, <3>1, <3>3, <3>4
         DEF Histories, ForkOnlyIfUnserved, DeafHasCause, TypeOK
    <3> QED
      BY <3>1, <3>2, <3>5
  <2> QED
    BY <1>5, <2>3, <2>4 DEF Connect
<1>6. CASE Read(l)
  <2>1. /\ UNCHANGED <<state, main, serving, full, failed>> /\ Listening' = Listening
        /\ at[l] = "read" /\ conn[l] # "open"
    BY <1>6 DEF Read, daemonVars, Listening
  <2>2. ~ \E d \in Daemons : serving[d] = l
    BY <2>1, StartupAssumption DEF Connections, TypeOK
  <2>3. CASE conn[l] = "reset" /\ Go(l, "dead") /\ UNCHANGED <<nth, conn, to>>
    BY <1>0, <2>1, <2>2, <2>3 DEF Go, TypeOK, OneListener, Connections, Histories,
       ForkOnlyIfUnserved, DeafHasCause
  <2>4. CASE Conclude(l, conn[l] = "answered")
    <3>0. /\ conn' = [conn EXCEPT ![l] = "none"] /\ to' = [to EXCEPT ![l] = None]
          /\ \A k \in Loaders \ {l} : at'[k] = at[k] /\ nth'[k] = nth[k]
          /\ at' \in [Loaders -> Checking \cup {"off", "fork", "loaded", "dead"}]
          /\ nth' \in [Loaders -> {1, 2}]
          /\ at'[l] \in {"loaded", "connect", "fork"}
          /\ at'[l] \in {"connect", "fork"} => conn[l] # "answered" /\ nth'[l] = 2
          /\ at'[l] = "fork" => nth[l] = 2
      BY <2>4, ConcludeEffect
    <3>1. TypeOK' /\ at'[l] \in {"loaded", "connect", "fork"}
      BY <1>0, <2>1, <3>0 DEF TypeOK
    <3>2. OneListener' /\ Connections'
      BY <1>0, <2>1, <2>2, <3>0, <3>1 DEF OneListener, Connections, TypeOK
    <3>3. at'[l] \in {"connect", "fork"} => conn[l] # "answered"
      BY <3>0
    <3>4. at'[l] \in {"connect", "fork"} => l \in lapse'
      BY <1>0, <2>1, <3>3 DEF Connections, TypeOK
    <3>5. Histories' /\ ForkOnlyIfUnserved' /\ DeafHasCause'
      BY <1>0, <2>1, <3>0, <3>1, <3>4
         DEF Histories, ForkOnlyIfUnserved, DeafHasCause, TypeOK
    <3> QED
      BY <3>1, <3>2, <3>5
  <2> QED
    BY <1>6, <2>3, <2>4 DEF Read
<1>7. CASE CallFails(l)
  <2>1. /\ UNCHANGED <<state, main, serving, full>> /\ Listening' = Listening
        /\ at[l] = "connect" /\ failed' = failed \cup {l}
    BY <1>7 DEF CallFails, daemonVars, Listening
  <2>2. ~ \E d \in Daemons : serving[d] = l
    BY <2>1, StartupAssumption DEF Connections, TypeOK
  <2>3. /\ conn' = [conn EXCEPT ![l] = "none"] /\ to' = [to EXCEPT ![l] = None]
        /\ \A k \in Loaders \ {l} : at'[k] = at[k] /\ nth'[k] = nth[k]
        /\ at' \in [Loaders -> Checking \cup {"off", "fork", "loaded", "dead"}]
        /\ nth' \in [Loaders -> {1, 2}]
        /\ at'[l] \in {"loaded", "connect", "fork"}
    BY <1>7, ConcludeEffect DEF CallFails
  <2>4. TypeOK'
    BY <1>0, <2>1, <2>3 DEF TypeOK
  <2>5. OneListener' /\ Connections'
    BY <1>0, <2>1, <2>2, <2>3, <2>4 DEF OneListener, Connections, TypeOK
  <2>6. Histories' /\ ForkOnlyIfUnserved' /\ DeafHasCause'
    BY <1>0, <2>1, <2>3, <2>4 DEF Histories, ForkOnlyIfUnserved, DeafHasCause, TypeOK
  <2> QED
    BY <2>4, <2>5, <2>6
<1> QED
  BY <1>1, <1>2, <1>3, <1>4, <1>5, <1>6, <1>7 DEF LoaderStep

\* The daemons' steps leave the loaders where they are.
LEMMA DaemonKeeps ==
  ASSUME IInv, Observe, NEW d \in Daemons, DaemonStep(d) \/ Stop(d) \/ Fill(d) \/ Empty(d) \/ LeaveLoop(d) \/ Die(d)
  PROVE  IInv'
<1> USE DEF IInv, StartupInv
<1>0. lapse' \subseteq Loaders /\ met' \subseteq Daemons /\ lapse \subseteq lapse' /\ met \subseteq met'
  BY ObserveTypes
<1>1. \A a, b \in Daemons : a # b /\ state'[a] \in Coming /\ state'[b] \in Coming => a \in met'
  BY DEF Observe
<1>2. at' = at /\ nth' = nth /\ to' = to
  BY DEF DaemonStep, Bind, ThreadFails, Listen, Accept, Receive, Stop, Fill, Empty, LeaveLoop, Die, loaderVars
<1>3. ForkOnlyIfUnserved' /\ (\A l \in Loaders : at'[l] \in Checking /\ nth'[l] = 2 => l \in lapse' \cup failed')
  <2>1. failed \subseteq failed'
    BY DEF DaemonStep, Bind, ThreadFails, Listen, Accept, Receive, Stop, Fill, Empty, LeaveLoop, Die
  <2> QED
    BY <1>0, <1>2, <2>1 DEF ForkOnlyIfUnserved, Histories
<1>4. CASE Bind(d)
  <2>1. /\ state' = [state EXCEPT ![d] = IF Listening = {} THEN "bound" ELSE "unbound"]
        /\ state[d] = "forked" /\ UNCHANGED <<conn, main, serving, full, failed>>
    BY <1>4 DEF Bind, Becomes, loaderVars
  <2>2. TypeOK' /\ Listening' = Listening
    BY <1>0, <1>2, <2>1 DEF TypeOK, Listening, Coming
  <2>3. OneListener' /\ Connections'
    BY <1>0, <1>2, <2>1, <2>2 DEF OneListener, Connections, TypeOK
  <2>4. state'[d] = "unbound" => d \in met'
    <3>1. CASE Listening = {}
      BY <2>1, <3>1 DEF TypeOK
    <3>2. CASE Listening # {}
      BY <1>0, <2>1, <3>2 DEF Histories, Listening, TypeOK, Coming
    <3> QED
      BY <3>1, <3>2
  <2>5. \A e \in Daemons \ {d} : state'[e] = state[e]
    BY <2>1 DEF TypeOK
  <2>6. Histories' /\ DeafHasCause'
    BY <1>0, <1>1, <1>3, <2>1, <2>4, <2>5 DEF Histories, DeafHasCause, TypeOK
  <2> QED
    BY <1>3, <2>2, <2>3, <2>6
<1>5. CASE ThreadFails(d)
  <2>1. /\ state' = [state EXCEPT ![d] = "deaf"] /\ failed' = failed \cup {d}
        /\ state[d] = "forked" /\ UNCHANGED <<conn, main, serving, full>>
    BY <1>5 DEF ThreadFails, Becomes, loaderVars
  <2>2. TypeOK' /\ Listening' = Listening
    BY <1>0, <1>2, <2>1 DEF TypeOK, Listening, Coming
  <2>3. OneListener' /\ Connections'
    BY <1>0, <1>2, <2>1, <2>2 DEF OneListener, Connections, TypeOK
  <2>4. Histories' /\ DeafHasCause'
    BY <1>0, <1>1, <1>3, <2>1 DEF Histories, DeafHasCause, TypeOK
  <2> QED
    BY <1>3, <2>2, <2>3, <2>4
<1>6. CASE Listen(d)
  <2>1. /\ state[d] \in {"bound", "unbound"} /\ UNCHANGED <<conn, main, serving, full, failed>>
        /\ state' = [state EXCEPT ![d] =
                       IF state[d] = "bound" /\ Listening = {} THEN "listening" ELSE "deaf"]
    BY <1>6 DEF Listen, Becomes, loaderVars
  <2>2. TypeOK'
    BY <1>0, <1>2, <2>1 DEF TypeOK, Coming, Listening
  <2>3. OneListener' /\ Listening \subseteq Listening'
    BY <2>1 DEF TypeOK, OneListener, Listening
  <2>4. Connections'
    BY <1>0, <1>2, <2>1, <2>3 DEF Connections, TypeOK
  <2>5. state'[d] = "deaf" => d \in met'
    <3>1. CASE state[d] = "unbound"
      BY <1>0, <3>1 DEF Histories
    <3>2. CASE state[d] = "bound" /\ Listening # {}
      BY <1>0, <3>2 DEF Histories, Listening, Coming
    <3>3. CASE state[d] = "bound" /\ Listening = {}
      BY <2>1, <3>3 DEF TypeOK
    <3> QED
      BY <2>1, <3>1, <3>2, <3>3
  <2>6. Histories' /\ DeafHasCause'
    BY <1>0, <1>1, <1>3, <2>1, <2>5 DEF Histories, DeafHasCause, TypeOK
  <2> QED
    BY <1>3, <2>2, <2>3, <2>4, <2>6
<1>7. CASE Accept(d)
  <2>1. /\ state[d] = "listening" /\ UNCHANGED <<conn, state, main, full, failed>>
        /\ \E l \in Loaders : to[l] = d /\ conn[l] = "open" /\ serving' = [serving EXCEPT ![d] = l]
    BY <1>7 DEF Accept, loaderVars
  <2>2. TypeOK' /\ Listening' = Listening
    BY <1>0, <1>2, <2>1 DEF TypeOK, Listening
  <2>3. OneListener' /\ Connections'
    BY <1>0, <1>2, <2>1, <2>2 DEF OneListener, Connections, TypeOK
  <2>4. Histories' /\ DeafHasCause'
    BY <1>0, <1>1, <1>3, <2>1 DEF Histories, DeafHasCause
  <2> QED
    BY <1>3, <2>2, <2>3, <2>4
<1>8. CASE Receive(d)
  <2> DEFINE l == serving[d]
  <2>1. /\ state[d] = "listening" /\ l # None /\ at[l] # "write" /\ UNCHANGED <<state, main, full, failed>>
        /\ conn' = [conn EXCEPT ![l] = IF at[l] = "read" THEN "answered" ELSE "closed"]
        /\ serving' = [serving EXCEPT ![d] = None]
    BY <1>8 DEF Receive
  <2>2. l \in Loaders /\ to[l] = d /\ conn[l] = "open" /\ at[l] \in {"read", "dead"}
    BY <2>1 DEF Connections, TypeOK
  <2>3. TypeOK' /\ Listening' = Listening
    BY <1>0, <1>2, <2>1, <2>2 DEF TypeOK, Listening
  <2>4. \A e \in Daemons : serving'[e] # None => e # d /\ serving[e] # l /\ serving'[e] = serving[e]
    BY <2>1, <2>2 DEF Connections, TypeOK
  <2>5. OneListener' /\ Connections'
    BY <1>0, <1>2, <2>1, <2>2, <2>3, <2>4 DEF OneListener, Connections, TypeOK
  <2>6. Histories' /\ DeafHasCause'
    BY <1>0, <1>1, <1>3, <2>1 DEF Histories, DeafHasCause
  <2> QED
    BY <1>3, <2>3, <2>5, <2>6
<1>9. CASE Stop(d)
  BY <1>0, <1>1, <1>2, <1>3, <1>9 DEF Stop, loaderVars, TypeOK, OneListener, Connections, Histories,
     DeafHasCause, Listening
<1>10. CASE Fill(d) \/ Empty(d)
  <2>1. UNCHANGED <<conn, state, main, serving, failed>> /\ full' \subseteq Listening
    BY <1>10 DEF Fill, Empty, loaderVars, TypeOK, Listening
  <2>2. TypeOK' /\ Listening' = Listening
    BY <1>0, <1>2, <2>1 DEF TypeOK, Listening
  <2>3. OneListener' /\ Connections'
    BY <1>2, <2>1, <2>2, <1>0 DEF OneListener, Connections
  <2>4. Histories' /\ DeafHasCause'
    BY <1>0, <1>1, <1>3, <2>1 DEF Histories, DeafHasCause
  <2> QED
    BY <1>3, <2>2, <2>3, <2>4
<1>11. ASSUME NEW s \in {"deaf", "dead"}, Becomes(d, s), Reset(d), state[d] \in Coming \cup {"deaf"},
              main' = main, failed \subseteq failed', failed' \subseteq Daemons \cup Loaders, s = "deaf" => d \in failed' \/ main[d] = "stops",
              \A e \in Daemons \ {d} : serving'[e] = serving[e],
              full' = full \ {d}, serving'[d] = None, serving' \in [Daemons -> Loaders \cup {None}]
       PROVE  IInv'
  <2>1. state' = [state EXCEPT ![d] = s] /\ state \in [Daemons -> Coming \cup {"none", "deaf", "dead"}]
    BY <1>11 DEF Becomes, TypeOK
  <2>2. TypeOK'
    BY <1>0, <1>2, <1>11, <2>1 DEF TypeOK, Reset, Listening
  <2>3. OneListener' /\ Listening' = Listening \ {d}
    BY <1>11, <2>1 DEF OneListener, Listening
  <2>4. \A l \in Loaders : conn'[l] = IF to[l] = d /\ conn[l] = "open" THEN "reset" ELSE conn[l]
    BY <1>11 DEF Reset
  <2>5. ASSUME NEW l \in Loaders, to[l] = d, conn[l] = "open", at[l] # "dead"
        PROVE  l \in lapse'
    <3>1. d \in Listening /\ at'[l] \in Checking
      BY <1>2, <2>5 DEF Connections, Checking
    <3>2. ~Served'
      BY <1>11, <2>3, <3>1 DEF Served, OneListener
    <3> QED
      BY <3>1, <3>2, LapseNoticed
  <2>6. Connections'
    BY <1>0, <1>2, <1>11, <2>1, <2>3, <2>4, <2>5 DEF Connections, Listening, TypeOK
  <2>7. Histories' /\ DeafHasCause'
    BY <1>0, <1>1, <1>3, <1>11, <2>1 DEF Histories, DeafHasCause
  <2> QED
    BY <1>3, <2>2, <2>3, <2>6, <2>7
<1>12. CASE LeaveLoop(d)
  BY <1>11, <1>12 DEF LeaveLoop, Coming, TypeOK
<1>13. CASE Die(d)
  BY <1>11, <1>13 DEF Die, TypeOK
<1> QED
  BY <1>4, <1>5, <1>6, <1>7, <1>8, <1>9, <1>10, <1>12, <1>13 DEF DaemonStep

LEMMA Inductive == Spec => []IInv
<1>1. Init => IInv
  BY StartupAssumption DEF Init, IInv, StartupInv, TypeOK, OneListener, Connections, Histories, Listening,
     Coming, Checking, ForkOnlyIfUnserved, DeafHasCause
<1>2. IInv /\ [Next]_vars => IInv'
  <2> SUFFICES ASSUME IInv, [Next]_vars PROVE IInv'
    OBVIOUS
  <2>1. CASE UNCHANGED vars
    BY <2>1 DEF vars, loaderVars, daemonVars, history, IInv, StartupInv, TypeOK, OneListener, Connections,
       Histories, Listening, ForkOnlyIfUnserved, DeafHasCause
  <2> QED
    BY <2>1, LoaderKeeps, DaemonKeeps DEF Next, Done
<1> QED
  BY <1>1, <1>2, PTL DEF Spec

\* The accounts of loaders and daemons agree, whatever dies when: for any
\* number of processes that load the library (JNI_OnLoad) and fork.
THEOREM AccountsAgree == Spec => []StartupInv
BY Inductive, PTL DEF IInv

\* Nobody forks a daemon beside one that served during both its checks.
THEOREM ForksOnlyIfUnserved == Spec => []ForkOnlyIfUnserved
BY Inductive, PTL DEF IInv

\* A daemon that runs and listens to nobody met another one, failed, or stops.
THEOREM DeafDaemonsHaveCause == Spec => []DeafHasCause
BY Inductive, PTL DEF IInv

\* A connection is served by the one daemon that holds the port.
THEOREM OneDaemonAnswers == Spec => []AnswersComeFromThePort
<1>1. IInv => AnswersComeFromThePort
  <2> SUFFICES ASSUME IInv, NEW d \in Daemons, serving[d] # None
               PROVE  state[d] = "listening" /\ Cardinality(Listening) = 1
    BY DEF AnswersComeFromThePort
  <2>1. state[d] = "listening" /\ Listening = {d}
    BY DEF IInv, StartupInv, Connections, OneListener, Listening
  <2> QED
    BY <2>1, FS_Singleton
<1> QED
  BY <1>1, Inductive, PTL

================================================================================
