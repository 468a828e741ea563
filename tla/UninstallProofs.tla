---------------------------- MODULE UninstallProofs ----------------------------
(***************************************************************************)
(* UninstallReport is correct for every number of updates, services, kills *)
(* and tries.  The inductive invariant says of the way of a URL that       *)
(*   - what was not delayed is as new as all that went ahead of it         *)
(*     (InOrder): the handlers, the service that sends, the backlog;       *)
(*   - a URL follows every path (PathsFollowed), and, while nothing has    *)
(*     failed, the path comes before the first URL (PathFirst);            *)
(*   - while nothing has failed, a service still has the latest URL, or    *)
(*     the daemon has or will have it or one that was delayed, or waits    *)
(*     for the URL that follows its path (LatestOnItsWay);                 *)
(* and of the daemon that after the uninstall nothing older comes than     *)
(* what it had, and that only the current observer reports.                *)
(***************************************************************************)
EXTENDS UninstallReport, FiniteSetTheorems, TLAPS

-----------------------------------------------------------------------------
(* A handler's messages: Enqueue keeps them in the order of their times. *)

Sorted(q) == \A k, l \in 1..Len(q) : k <= l => q[k].wait <= q[l].wait

\* r is q with m at position p: behind what is due no later.
Inserted(q, m, p, r) ==
  /\ p \in 1..(Len(q) + 1) /\ Len(r) = Len(q) + 1
  /\ \A k \in 1..(p - 1) : r[k] = q[k] /\ q[k].wait <= m.wait
  /\ r[p] = m
  /\ \A k \in p..Len(q) : r[k + 1] = q[k] /\ q[k].wait > m.wait

LEMMA MessageWait ==
  ASSUME NEW m \in Message
  PROVE  m.wait \in 0..StopDelay
BY DEF Message, InitDelay, StopDelay

LEMMA NoLater ==
  ASSUME NEW q \in Seq(Message), Sorted(q), NEW w \in Nat
  PROVE  LET n == Cardinality({k \in DOMAIN q : q[k].wait <= w})
         IN  n \in 0..Len(q) /\ \A k \in 1..Len(q) : (q[k].wait <= w) = (k <= n)
<1> DEFINE S == {k \in DOMAIN q : q[k].wait <= w}
           n == Cardinality(S)
<1>1. DOMAIN q = 1..Len(q) /\ Len(q) \in Nat /\ \A k \in 1..Len(q) : q[k].wait \in Nat
  <2>1. DOMAIN q = 1..Len(q) /\ Len(q) \in Nat /\ \A k \in 1..Len(q) : q[k] \in Message
    OBVIOUS
  <2>2. ASSUME NEW k \in 1..Len(q)
        PROVE  q[k].wait \in Nat
    BY <2>1, MessageWait DEF StopDelay
  <2> QED
    BY <2>1, <2>2
<1>2. IsFiniteSet(S) /\ n \in Nat /\ n <= Len(q)
  <2>0. PICK l \in Nat : l = Len(q)
    BY <1>1
  <2>1. IsFiniteSet(1..Len(q)) /\ Cardinality(1..Len(q)) = Len(q)
    <3>1. IsFiniteSet(1..l) /\ Cardinality(1..l) = l
      BY FS_Interval
    <3> QED
      BY <2>0, <3>1
  <2>2. S \in SUBSET (1..Len(q))
    BY <1>1
  <2> QED
    BY <2>1, <2>2, FS_Subset, FS_CardinalityType
<1>3. ASSUME NEW k \in S
      PROVE  k <= n
  <2>1. k \in 1..Len(q) /\ q[k].wait <= w
    BY <1>1
  <2>2. \A l \in 1..k : l \in S
    <3> SUFFICES ASSUME NEW l \in 1..k
                 PROVE  l \in S
      OBVIOUS
    <3>1. l \in 1..Len(q) /\ l <= k
      BY <2>1, <1>1
    <3>2. q[l].wait <= q[k].wait
      BY <2>1, <3>1 DEF Sorted
    <3> QED
      BY <1>1, <2>1, <3>1, <3>2
  <2>3. Cardinality(1..k) = k
    BY <2>1, FS_Interval
  <2> QED
    BY <1>2, <2>2, <2>3, FS_Subset
<1>4. S = 1..n
  <2>1. S \in SUBSET (1..n)
    BY <1>1, <1>2, <1>3
  <2>2. IsFiniteSet(1..n) /\ Cardinality(1..n) = n
    BY <1>2, FS_Interval
  <2> QED
    BY <2>1, <2>2, FS_Subset
<1> QED
  BY <1>1, <1>2, <1>4

LEMMA EnqueueInserts ==
  ASSUME NEW q \in Seq(Message), Sorted(q), NEW m \in Message
  PROVE  /\ Enqueue(q, m) \in Seq(Message)
         /\ \E p \in 1..(Len(q) + 1) : Inserted(q, m, p, Enqueue(q, m))
         /\ Sorted(Enqueue(q, m))
<1> DEFINE n == Cardinality({k \in DOMAIN q : q[k].wait <= m.wait})
           r == Enqueue(q, m)
<1>1. m.wait \in Nat
  BY MessageWait DEF StopDelay
<1>2. n \in 0..Len(q) /\ \A k \in 1..Len(q) : (q[k].wait <= m.wait) = (k <= n)
  BY <1>1, NoLater
<1>3. \A k \in 1..Len(q) : q[k] \in Message /\ q[k].wait \in Nat
  <2>1. \A k \in 1..Len(q) : q[k] \in Message
    OBVIOUS
  <2> QED
    BY <2>1, MessageWait DEF StopDelay
<1> HIDE DEF n
<1>4. r = SubSeq(q, 1, n) \o <<m>> \o SubSeq(q, n + 1, Len(q))
  <2>1. r = SubSeq(q, 1, (n + 1) - 1) \o <<m>> \o SubSeq(q, n + 1, Len(q))
    BY DEF Enqueue, InsertAt, n, r
  <2>2. (n + 1) - 1 = n
    BY <1>2
  <2> HIDE DEF r
  <2> QED
    BY <2>1, <2>2, Zenon
<1>5. /\ SubSeq(q, 1, n) \in Seq(Message) /\ Len(SubSeq(q, 1, n)) = n
      /\ \A k \in 1..n : SubSeq(q, 1, n)[k] = q[k]
  BY <1>2, <1>3
<1>6. /\ SubSeq(q, n + 1, Len(q)) \in Seq(Message) /\ Len(SubSeq(q, n + 1, Len(q))) = Len(q) - n
      /\ \A k \in 1..(Len(q) - n) : SubSeq(q, n + 1, Len(q))[k] = q[n + k]
  BY <1>2, <1>3
<1> DEFINE a == SubSeq(q, 1, n)
           b == SubSeq(q, n + 1, Len(q))
<1> HIDE DEF a, b, r
<1>7. /\ r \in Seq(Message) /\ Len(r) = Len(q) + 1
      /\ \A k \in 1..n : r[k] = a[k]
      /\ r[n + 1] = m
      /\ \A k \in 1..(Len(q) - n) : r[n + 1 + k] = b[k]
  <2>1. r = a \o <<m>> \o b
    BY <1>4 DEF a, b, r
  <2>2. a \in Seq(Message) /\ b \in Seq(Message) /\ Len(a) = n /\ Len(b) = Len(q) - n
    BY <1>5, <1>6 DEF a, b
  <2> DEFINE c == a \o <<m>>
  <2>3. /\ c \in Seq(Message) /\ Len(c) = n + 1 /\ c[n + 1] = m
        /\ \A k \in 1..n : c[k] = a[k]
    BY <1>2, <2>2
  <2> HIDE DEF c
  <2>4. r = c \o b
    BY <2>1 DEF c
  <2> QED
    BY <1>2, <2>2, <2>3, <2>4
<1>8. Inserted(q, m, n + 1, r)
  <2>1. \A k \in 1..n : r[k] = q[k]
    BY <1>5, <1>7 DEF a
  <2>2. \A k \in (n + 1)..Len(q) : r[k + 1] = q[k]
    <3> TAKE k \in (n + 1)..Len(q)
    <3>1. k - n \in 1..(Len(q) - n) /\ n + 1 + (k - n) = k + 1 /\ n + (k - n) = k
      BY <1>2
    <3>2. r[n + 1 + (k - n)] = b[k - n]
      BY <1>7, <3>1
    <3>3. b[k - n] = q[n + (k - n)]
      BY <1>6, <3>1 DEF b
    <3> QED
      BY <3>1, <3>2, <3>3
  <2> QED
    BY <1>1, <1>2, <1>3, <1>7, <2>1, <2>2 DEF Inserted
<1>9. Sorted(r)
  <2>1. ASSUME NEW k \in 1..Len(r), NEW l \in 1..Len(r), k <= l
        PROVE  r[k].wait <= r[l].wait
    <3>1. /\ \A j \in 1..n : r[j] = q[j] /\ q[j].wait <= m.wait
          /\ \A j \in (n + 1)..Len(q) : r[j + 1] = q[j] /\ q[j].wait > m.wait
          /\ r[n + 1] = m
      BY <1>2, <1>8 DEF Inserted
    <3>2. \A i, j \in 1..Len(q) : i <= j => q[i].wait <= q[j].wait
      BY DEF Sorted
    <3>3. CASE l <= n
      BY <1>2, <2>1, <3>1, <3>2, <3>3
    <3>4. CASE l = n + 1
      BY <1>1, <1>2, <2>1, <3>1, <3>4
    <3>5. CASE l > n + 1
      <4>1. l - 1 \in (n + 1)..Len(q) /\ (l - 1) + 1 = l
        BY <1>2, <1>7, <3>5
      <4>2. r[l] = q[l - 1] /\ q[l - 1].wait > m.wait
        BY <3>1, <4>1
      <4>3. CASE k <= n
        BY <1>2, <2>1, <3>1, <3>2, <4>1, <4>2, <4>3
      <4>4. CASE k = n + 1
        BY <1>1, <1>2, <1>3, <3>1, <4>1, <4>2, <4>4
      <4>5. CASE k > n + 1
        <5>1. k - 1 \in (n + 1)..Len(q) /\ (k - 1) + 1 = k /\ k - 1 <= l - 1
          BY <1>2, <1>7, <2>1, <4>5
        <5>2. r[k] = q[k - 1]
          BY <3>1, <5>1
        <5> QED
          BY <1>2, <3>2, <4>1, <4>2, <5>1, <5>2
      <4> QED
        BY <1>2, <2>1, <4>3, <4>4, <4>5
    <3> QED
      BY <1>2, <2>1, <3>3, <3>4, <3>5
  <2> QED
    BY <2>1 DEF Sorted
<1> QED
  BY <1>2, <1>7, <1>8, <1>9 DEF r

-----------------------------------------------------------------------------
Ids       == 1..Len(services)
N(i)      == Len(services[i].messages)
Url(i, k) == services[i].messages[k].url
Sends(i)  == services[i].sending

\* A step that changes the service i at most.
OnlyIn(i) ==
  /\ services' \in Seq(Service) /\ Len(services') = Len(services)
  /\ \A j \in Ids \ {i} : services'[j] = services[j]

LEMMA ServiceFields ==
  ASSUME NEW s \in Service
  PROVE  /\ s.life \in {"live", "destroyed", "killed"} /\ s.messages \in Seq(Message)
         /\ s.timer \in 0..InitDelay /\ s.mInitSuccess \in {"no", "yes", "never"}
         /\ s.mStart \in BOOLEAN /\ s.at \in {"idle", "path", "url"} /\ s.sending \in 0..MaxUpdates
BY DEF Service

LEMMA ServicesTyped ==
  ASSUME services \in Seq(Service)
  PROVE  /\ Len(services) \in Nat /\ DOMAIN services = Ids
         /\ \A i \in Ids : services[i] \in Service
BY DEF Ids

LEMMA OneReplaced ==
  ASSUME services \in Seq(Service), NEW i \in Ids, NEW s \in Service,
         services' = [services EXCEPT ![i] = s]
  PROVE  OnlyIn(i) /\ services'[i] = s
BY DEF OnlyIn, Ids

LEMMA TimerTaskEffect ==
  ASSUME services \in Seq(Service), NEW i \in Ids, TimerTask(i)
  PROVE  /\ OnlyIn(i)
         /\ services'[i].life = services[i].life /\ services'[i].messages = services[i].messages
         /\ services'[i].mStart = services[i].mStart /\ services'[i].at = services[i].at
         /\ services'[i].sending = services[i].sending
<1> DEFINE s == [services[i] EXCEPT !.mInitSuccess = IF lib = "loaded" THEN "yes" ELSE "never"]
<1>1. services[i] \in Service
  BY DEF Ids
<1>2. s \in Service
  BY <1>1 DEF Service
<1>3. services' = [services EXCEPT ![i] = s]
  BY DEF TimerTask
<1>4. OnlyIn(i) /\ services'[i] = s
  BY <1>2, <1>3, OneReplaced
<1> QED
  BY <1>1, <1>4 DEF Service

LEMMA StartEffect ==
  ASSUME services \in Seq(Service), NEW i \in Ids, Start(i)
  PROVE  /\ OnlyIn(i) /\ services[i].at = "path" /\ services'[i].at = "url"
         /\ services'[i].life = services[i].life /\ services'[i].messages = services[i].messages
         /\ services'[i].sending = services[i].sending
<1> DEFINE s == [services[i] EXCEPT !.at = "url", !.mStart = TRUE]
<1>1. services[i] \in Service
  BY DEF Ids
<1>2. s \in Service /\ s.at = "url" /\ s.life = services[i].life /\ s.messages = services[i].messages
      /\ s.sending = services[i].sending
  BY <1>1 DEF Service
<1>3. services' = [services EXCEPT ![i] = s] /\ services[i].at = "path"
  BY DEF Start
<1> HIDE DEF s
<1>4. OnlyIn(i) /\ services'[i] = s
  BY <1>2, <1>3, OneReplaced
<1> QED
  BY <1>2, <1>3, <1>4

LEMMA SendEffect ==
  ASSUME services \in Seq(Service), NEW i \in Ids, SetHttpRequestOnDelete(i)
  PROVE  /\ OnlyIn(i) /\ services[i].at = "url" /\ services'[i].at = "idle"
         /\ services'[i].life = services[i].life /\ services'[i].messages = services[i].messages
         /\ services'[i].sending = NoUrl /\ services'[i].mStart = services[i].mStart
<1> DEFINE s == [services[i] EXCEPT !.at = "idle", !.sending = NoUrl]
<1>1. services[i] \in Service /\ NoUrl \in 0..MaxUpdates
  BY ServiceAssumption DEF Ids, ServiceAssumption, NoUrl
<1>2. s \in Service /\ s.at = "idle" /\ s.life = services[i].life /\ s.messages = services[i].messages
      /\ s.sending = NoUrl /\ s.mStart = services[i].mStart
  BY <1>1 DEF Service
<1>3. services' = [services EXCEPT ![i] = s] /\ services[i].at = "url"
  BY DEF SetHttpRequestOnDelete
<1> HIDE DEF s
<1>4. OnlyIn(i) /\ services'[i] = s
  BY <1>2, <1>3, OneReplaced
<1> QED
  BY <1>2, <1>3, <1>4

LEMMA MessageFields ==
  ASSUME NEW m \in Message
  PROVE  /\ \/ m.what = "setUrl" /\ m.url \in Updates
            \/ m.what = "stop" /\ m.url = NoUrl
         /\ m.url \in 0..MaxUpdates /\ m.wait \in Nat /\ m.wait <= StopDelay
<1>1. CASE m \in [what : {"setUrl"}, url : Updates, wait : 0..InitDelay]
  BY <1>1, ServiceAssumption DEF ServiceAssumption, Updates, InitDelay, StopDelay
<1>2. CASE m \in [what : {"stop"}, url : {NoUrl}, wait : 0..StopDelay]
  BY <1>2, ServiceAssumption DEF ServiceAssumption, NoUrl, StopDelay
<1> QED
  BY <1>1, <1>2 DEF Message

LEMMA HandleMessageEffect ==
  ASSUME services \in Seq(Service), NEW i \in Ids, HandleMessage(i)
  PROVE  /\ OnlyIn(i) /\ services[i].at = "idle" /\ N(i) \in Nat \ {0} /\ N(i)' = N(i) - 1
         /\ services'[i].life = services[i].life /\ services'[i].mStart = services[i].mStart
         /\ \A k \in 1..N(i)' : services'[i].messages[k] = services[i].messages[k + 1]
         /\ \/ /\ lib = "loaded" /\ Url(i, 1) \in Updates /\ Sends(i)' = Url(i, 1)
               /\ services'[i].at = IF services[i].mStart THEN "url" ELSE "path"
            \/ /\ lib # "loaded" \/ Url(i, 1) = NoUrl
               /\ Sends(i)' = Sends(i) /\ services'[i].at = "idle"
<1> DEFINE q == services[i].messages
           handled(a, u) == [services[i] EXCEPT !.messages = Tail(@), !.sending = u, !.at = a]
<1>0. services[i] \in Service
  BY ServicesTyped
<1>1. q \in Seq(Message) /\ services[i].at = "idle" /\ q # <<>>
  BY <1>0, ServiceFields DEF HandleMessage
<1>2. Head(q) \in Message /\ Head(q) = q[1] /\ Tail(q) \in Seq(Message) /\ Len(q) \in Nat \ {0}
      /\ Len(Tail(q)) = Len(q) - 1 /\ \A k \in 1..(Len(q) - 1) : Tail(q)[k] = q[k + 1]
  BY <1>1
<1>3. \/ Head(q).what = "setUrl" /\ Url(i, 1) \in Updates
      \/ Head(q).what = "stop" /\ Url(i, 1) = NoUrl
  BY <1>2, MessageFields DEF Url
<1>4. \A a \in {"idle", "path", "url"}, u \in 0..MaxUpdates :
        /\ handled(a, u) \in Service /\ handled(a, u).messages = Tail(q) /\ handled(a, u).sending = u
        /\ handled(a, u).at = a
        /\ handled(a, u).life = services[i].life /\ handled(a, u).mStart = services[i].mStart
  BY <1>0, <1>2 DEF Service
<1>5. \E a \in {"idle", "path", "url"}, u \in 0..MaxUpdates :
        /\ services' = [services EXCEPT ![i] = handled(a, u)]
        /\ \/ /\ lib = "loaded" /\ Url(i, 1) \in Updates /\ u = Url(i, 1)
              /\ a = IF services[i].mStart THEN "url" ELSE "path"
           \/ /\ lib # "loaded" \/ Url(i, 1) = NoUrl
              /\ u = services[i].sending /\ a = "idle"
  <2>1. services[i].sending \in 0..MaxUpdates /\ Url(i, 1) \in 0..MaxUpdates
    BY <1>0, <1>2, MessageFields, ServiceFields DEF Url
  <2>2. CASE Head(q).what = "setUrl" /\ lib = "loaded" /\
             services' = [services EXCEPT ![i].messages = Tail(@), ![i].sending = Head(q).url,
                              ![i].at = IF services[i].mStart THEN "url" ELSE "path"]
    <3> DEFINE a == IF services[i].mStart THEN "url" ELSE "path"
    <3>1. services' = [services EXCEPT ![i] = handled(a, Url(i, 1))]
      BY <1>0, <1>1, <1>2, <2>2 DEF Service, Url
    <3>2. Url(i, 1) \in Updates
      BY <1>3, <2>2
    <3> QED
      BY <2>1, <2>2, <3>1, <3>2
  <2>3. CASE /\ (Head(q).what = "setUrl" /\ lib # "loaded") \/ Head(q).what = "stop"
             /\ services' = [services EXCEPT ![i].messages = Tail(@)]
    <3>1. services' = [services EXCEPT ![i] = handled("idle", services[i].sending)]
      BY <1>0, <1>1, <1>2, <2>3 DEF Service
    <3>2. lib # "loaded" \/ Url(i, 1) = NoUrl
      BY <1>3, <2>3
    <3> QED
      BY <2>1, <3>1, <3>2
  <2> QED
    BY <2>2, <2>3 DEF HandleMessage
<1>6. PICK a \in {"idle", "path", "url"}, u \in 0..MaxUpdates :
        /\ services' = [services EXCEPT ![i] = handled(a, u)]
        /\ \/ /\ lib = "loaded" /\ Url(i, 1) \in Updates /\ u = Url(i, 1)
              /\ a = IF services[i].mStart THEN "url" ELSE "path"
           \/ /\ lib # "loaded" \/ Url(i, 1) = NoUrl
              /\ u = services[i].sending /\ a = "idle"
  BY <1>5
<1> HIDE DEF handled
<1> DEFINE s == handled(a, u)
<1>7. /\ s \in Service /\ s.messages = Tail(q) /\ s.sending = u /\ s.at = a
      /\ s.life = services[i].life /\ s.mStart = services[i].mStart
      /\ services' = [services EXCEPT ![i] = s]
  <2>1. /\ s \in Service /\ s.messages = Tail(q) /\ s.sending = u /\ s.at = a
        /\ s.life = services[i].life /\ s.mStart = services[i].mStart
    BY <1>4
  <2>2. services' = [services EXCEPT ![i] = s]
    BY <1>6
  <2> QED
    BY <2>1, <2>2
<1> HIDE DEF s
<1>8. OnlyIn(i) /\ services'[i] = s
  BY <1>7, OneReplaced
<1>9. N(i)' = N(i) - 1 /\ N(i) \in Nat \ {0}
  BY <1>2, <1>7, <1>8 DEF N
<1>10. \A k \in 1..N(i)' : services'[i].messages[k] = services[i].messages[k + 1]
  BY <1>2, <1>7, <1>8, <1>9 DEF N
<1> QED
  BY <1>1, <1>6, <1>7, <1>8, <1>9, <1>10 DEF Sends

LEMMA ConnectEffect ==
  ASSUME services \in Seq(Service), NEW i \in Ids, NEW wait \in {0, InitDelay}, sUrl \in Updates,
         Sorted(services[i].messages),
         services' = [services EXCEPT ![i].messages =
                        Enqueue(Enqueue(@, SetUrlMessage(sUrl, wait)), StopMessage)]
  PROVE  /\ OnlyIn(i) /\ services'[i].life = services[i].life /\ services'[i].mStart = services[i].mStart
         /\ services'[i].at = services[i].at /\ services'[i].sending = services[i].sending
         /\ N(i) \in Nat /\ N(i)' = N(i) + 2 /\ Sorted(services'[i].messages)
         /\ services'[i].messages[N(i) + 2].url = NoUrl
         /\ \E p \in 1..(N(i) + 1) :
              /\ \A k \in 1..(p - 1) : services'[i].messages[k] = services[i].messages[k]
              /\ services'[i].messages[p].url = sUrl /\ services'[i].messages[p].wait = wait
              /\ \A k \in p..N(i) : /\ services'[i].messages[k + 1] = services[i].messages[k]
                                    /\ services[i].messages[k].wait > wait
<1> DEFINE q == services[i].messages
           m == SetUrlMessage(sUrl, wait)
           t == Enqueue(q, m)
           r == Enqueue(t, StopMessage)
           s == [services[i] EXCEPT !.messages = r]
<1>0. services[i] \in Service
  BY ServicesTyped
<1>1. q \in Seq(Message)
  BY <1>0, ServiceFields
<1>2. m \in Message /\ m.url = sUrl /\ m.wait = wait /\ wait \in Nat
      /\ StopMessage \in Message /\ StopMessage.url = NoUrl /\ StopMessage.wait = StopDelay
  BY DEF SetUrlMessage, StopMessage, Message, InitDelay, StopDelay, NoUrl
<1> HIDE DEF m, t, r
<1>3. t \in Seq(Message) /\ Sorted(t) /\ \E p \in 1..(Len(q) + 1) : Inserted(q, m, p, t)
  BY <1>1, <1>2, EnqueueInserts DEF t
<1>4. r \in Seq(Message) /\ Sorted(r) /\ \E p \in 1..(Len(t) + 1) : Inserted(t, StopMessage, p, r)
  BY <1>2, <1>3, EnqueueInserts DEF r
<1>5. s \in Service /\ services' = [services EXCEPT ![i] = s] /\ s.messages = r
  BY <1>0, <1>4 DEF Service, r, t, m
<1>6. OnlyIn(i) /\ services'[i] = s
  BY <1>5, OneReplaced
<1>7. PICK p \in 1..(Len(q) + 1) : Inserted(q, m, p, t)
  BY <1>3
<1>8. PICK l \in 1..(Len(t) + 1) : Inserted(t, StopMessage, l, r)
  BY <1>4
<1>9. Len(q) \in Nat /\ Len(t) = Len(q) + 1
  BY <1>1, <1>7 DEF Inserted
<1>10. l = Len(t) + 1
  <2>1. \A k \in l..Len(t) : t[k].wait > StopDelay
    BY <1>2, <1>8 DEF Inserted
  <2>2. \A k \in 1..Len(t) : t[k] \in Message
    BY <1>3
  <2>3. \A k \in 1..Len(t) : ~(t[k].wait > StopDelay)
    BY <2>2, MessageFields DEF StopDelay
  <2> QED
    BY <1>9, <2>1, <2>3
<1>11. Len(r) = Len(q) + 2 /\ r[Len(q) + 2].url = NoUrl /\ \A k \in 1..(Len(q) + 1) : r[k] = t[k]
  BY <1>2, <1>8, <1>9, <1>10 DEF Inserted
<1>12. /\ \A k \in 1..(p - 1) : r[k] = q[k]
       /\ r[p].url = sUrl /\ r[p].wait = wait
       /\ \A k \in p..Len(q) : r[k + 1] = q[k] /\ q[k].wait > wait
  <2>1. /\ \A k \in 1..(p - 1) : t[k] = q[k]
        /\ t[p] = m
        /\ \A k \in p..Len(q) : t[k + 1] = q[k] /\ q[k].wait > wait
    BY <1>2, <1>7 DEF Inserted
  <2>2. \A k \in 1..(p - 1) : r[k] = t[k]
    BY <1>9, <1>11
  <2>3. r[p] = t[p]
    BY <1>9, <1>11
  <2>4. \A k \in p..Len(q) : r[k + 1] = t[k + 1]
    BY <1>9, <1>11
  <2> QED
    BY <1>2, <2>1, <2>2, <2>3, <2>4
<1>13. services'[i].messages = r /\ services'[i].life = services[i].life
       /\ services'[i].mStart = services[i].mStart
       /\ services'[i].at = services[i].at /\ services'[i].sending = services[i].sending
  BY <1>0, <1>5, <1>6 DEF Service
<1>14. N(i) = Len(q) /\ N(i)' = Len(r)
  BY <1>13 DEF N
<1> HIDE DEF s
<1>15. /\ p \in 1..(N(i) + 1)
       /\ \A k \in 1..(p - 1) : services'[i].messages[k] = services[i].messages[k]
       /\ services'[i].messages[p].url = sUrl /\ services'[i].messages[p].wait = wait
       /\ \A k \in p..N(i) : /\ services'[i].messages[k + 1] = services[i].messages[k]
                             /\ services[i].messages[k].wait > wait
  BY <1>12, <1>13, <1>14
<1>16. /\ N(i) \in Nat /\ N(i)' = N(i) + 2 /\ Sorted(services'[i].messages)
       /\ services'[i].messages[N(i) + 2].url = NoUrl
  BY <1>4, <1>9, <1>11, <1>13, <1>14
<1> QED
  BY <1>6, <1>13, <1>15, <1>16

LEMMA TickEffect ==
  ASSUME services \in Seq(Service), Tick
  PROVE  /\ services' \in Seq(Service) /\ Len(services') = Len(services)
         /\ \A i \in Ids :
              /\ services'[i].life = services[i].life /\ services'[i].at = services[i].at
              /\ services'[i].sending = services[i].sending /\ services'[i].mStart = services[i].mStart
              /\ N(i) \in Nat /\ N(i)' = N(i)
              /\ \A k \in 1..N(i) :
                   /\ services'[i].messages[k].url = services[i].messages[k].url
                   /\ services'[i].messages[k].wait = Soon(services[i].messages[k].wait)
              /\ Sorted(services[i].messages) => Sorted(services'[i].messages)
<1> DEFINE later(q) == [k \in DOMAIN q |-> Nearer(q[k])]
           s(i) == [services[i] EXCEPT !.timer = Soon(@), !.messages = later(@)]
<1>1. services' = [i \in Ids |-> s(i)] /\ Len(services) \in Nat
  BY ServicesTyped DEF Tick
<1>2. ASSUME NEW i \in Ids
      PROVE  /\ later(services[i].messages) \in Seq(Message)
             /\ Len(later(services[i].messages)) = Len(services[i].messages)
             /\ Len(services[i].messages) \in Nat
             /\ \A k \in 1..Len(services[i].messages) :
                  /\ later(services[i].messages)[k].url = services[i].messages[k].url
                  /\ later(services[i].messages)[k].wait = Soon(services[i].messages[k].wait)
                  /\ services[i].messages[k].wait \in Nat
  <2> DEFINE q == services[i].messages
  <2>1. q \in Seq(Message) /\ Len(q) \in Nat /\ DOMAIN q = 1..Len(q) /\ \A k \in 1..Len(q) : q[k] \in Message
    <3>1. q \in Seq(Message)
      BY ServicesTyped, ServiceFields
    <3> QED
      BY <3>1
  <2> HIDE DEF q
  <2>2. ASSUME NEW m \in Message
        PROVE  /\ Nearer(m) \in Message
               /\ Nearer(m).url = m.url
               /\ Nearer(m).wait = Soon(m.wait) /\ m.wait \in Nat
    <3>1. CASE m \in [what : {"setUrl"}, url : Updates, wait : 0..InitDelay]
      <4>1. m.wait \in 0..InitDelay /\ Soon(m.wait) \in 0..InitDelay
        BY <3>1 DEF Soon, InitDelay
      <4> QED
        BY <3>1, <4>1 DEF Message, Nearer
    <3>2. CASE m \in [what : {"stop"}, url : {NoUrl}, wait : 0..StopDelay]
      <4>1. m.wait \in 0..StopDelay /\ Soon(m.wait) \in 0..StopDelay
        BY <3>2 DEF Soon, StopDelay
      <4> QED
        BY <3>2, <4>1 DEF Message, Nearer
    <3> QED
      BY <3>1, <3>2 DEF Message
  <2>4. later(q) = [k \in 1..Len(q) |-> Nearer(q[k])]
    BY <2>1
  <2> HIDE DEF later
  <2>5. later(q) \in Seq(Message) /\ Len(later(q)) = Len(q)
    BY <2>1, <2>2, <2>4
  <2>6. \A k \in 1..Len(q) : later(q)[k] = Nearer(q[k])
    BY <2>4
  <2> QED
    BY <2>1, <2>2, <2>5, <2>6 DEF q
<1> HIDE DEF later
<1>3. ASSUME NEW i \in Ids
      PROVE  /\ s(i) \in Service /\ s(i).life = services[i].life /\ s(i).at = services[i].at
             /\ s(i).sending = services[i].sending /\ s(i).mStart = services[i].mStart
             /\ s(i).messages = later(services[i].messages)
  <2>1. services[i] \in Service
    BY ServicesTyped
  <2>2. Soon(services[i].timer) \in 0..InitDelay
    BY <2>1, ServiceFields DEF Soon, InitDelay
  <2>3. later(services[i].messages) \in Seq(Message)
    BY <1>2
  <2> QED
    BY <2>1, <2>2, <2>3 DEF Service
<1> HIDE DEF s
<1>4. services' \in Seq(Service) /\ Len(services') = Len(services) /\ \A i \in Ids : services'[i] = s(i)
  BY <1>1, <1>3 DEF Ids
<1>5. ASSUME NEW i \in Ids
      PROVE  /\ N(i) \in Nat /\ N(i)' = N(i)
             /\ \A k \in 1..N(i) :
                   /\ services'[i].messages[k].url = services[i].messages[k].url
                   /\ services'[i].messages[k].wait = Soon(services[i].messages[k].wait)
                   /\ services[i].messages[k].wait \in Nat
  BY <1>2, <1>3, <1>4 DEF N
<1>6. ASSUME NEW i \in Ids, Sorted(services[i].messages)
      PROVE  Sorted(services'[i].messages)
  <2> DEFINE q == services[i].messages
             r == services'[i].messages
  <2>1. /\ Len(r) = Len(q)
        /\ \A k \in 1..Len(q) : r[k].wait = Soon(q[k].wait) /\ q[k].wait \in Nat
    BY <1>5 DEF N
  <2>2. \A k, l \in 1..Len(q) : k <= l => q[k].wait <= q[l].wait
    BY <1>6 DEF Sorted
  <2> HIDE DEF q, r
  <2>3. \A m, n \in Nat : m <= n => Soon(m) <= Soon(n)
    BY DEF Soon
  <2>4. Sorted(r)
    BY <2>1, <2>2, <2>3 DEF Sorted
  <2> QED
    BY <2>4 DEF r
<1> QED
  BY <1>3, <1>4, <1>5, <1>6

LEMMA CreateEffect ==
  ASSUME services \in Seq(Service), OnCreate
  PROVE  /\ services' \in Seq(Service) /\ Len(services') = Len(services) + 1
         /\ \A i \in Ids : services'[i] = services[i]
         /\ services'[Len(services) + 1] = New /\ New \in Service
<1>1. <<>> \in Seq(Message)
  OBVIOUS
<1>2. New \in Service
  BY <1>1, ServiceAssumption DEF New, Service, ServiceAssumption, InitDelay, NoUrl
<1>3. services' = Append(services, New)
  BY DEF OnCreate
<1> QED
  BY <1>2, <1>3 DEF Ids

LEMMA DestroyEffect ==
  ASSUME services \in Seq(Service), NEW i \in Ids,
         services' = [services EXCEPT ![i].life = "destroyed"]
  PROVE  /\ OnlyIn(i) /\ services'[i].life = "destroyed"
         /\ services'[i].messages = services[i].messages /\ services'[i].at = services[i].at
         /\ services'[i].sending = services[i].sending /\ services'[i].mStart = services[i].mStart
<1> DEFINE s == [services[i] EXCEPT !.life = "destroyed"]
<1>1. services[i] \in Service
  BY DEF Ids
<1>2. s \in Service /\ s.life = "destroyed" /\ s.messages = services[i].messages /\ s.at = services[i].at
      /\ s.sending = services[i].sending /\ s.mStart = services[i].mStart
  BY <1>1 DEF Service
<1>3. services' = [services EXCEPT ![i] = s]
  OBVIOUS
<1> HIDE DEF s
<1>4. OnlyIn(i) /\ services'[i] = s
  BY <1>2, <1>3, OneReplaced
<1> QED
  BY <1>2, <1>4

LEMMA KilledEffect ==
  ASSUME services \in Seq(Service), services' = [i \in DOMAIN services |-> Killed(services[i])]
  PROVE  /\ services' \in Seq(Service) /\ Len(services') = Len(services)
         /\ \A i \in Ids :
              /\ services'[i].life = "killed" /\ services'[i].messages = <<>>
              /\ services'[i].at = "idle" /\ services'[i].sending = NoUrl /\ services'[i].mStart = FALSE
<1>1. <<>> \in Seq(Message) /\ NoUrl \in 0..MaxUpdates /\ 0 \in 0..InitDelay
  BY ServiceAssumption DEF ServiceAssumption, InitDelay, NoUrl
<1>2. ASSUME NEW s \in Service
      PROVE  /\ Killed(s) \in Service /\ Killed(s).life = "killed" /\ Killed(s).messages = <<>>
             /\ Killed(s).at = "idle" /\ Killed(s).sending = NoUrl /\ Killed(s).mStart = FALSE
  BY <1>1 DEF Killed, Service
<1>3. \A i \in Ids : Killed(services[i]) \in Service
  BY <1>2, ServicesTyped
<1>4. services' = [i \in 1..Len(services) |-> Killed(services[i])] /\ Len(services) \in Nat
  BY ServicesTyped DEF Ids
<1>5. /\ services' \in Seq(Service) /\ Len(services') = Len(services)
      /\ \A i \in Ids : services'[i] = Killed(services[i])
  BY <1>3, <1>4 DEF Ids
<1> QED
  BY <1>2, <1>5, ServicesTyped

-----------------------------------------------------------------------------
(* The inductive invariant. *)

Fresh(u) == u \in Updates \ held

\* The application's URL is its latest update.
AppInv ==
  /\ sUrl \in {NoUrl, updates} /\ bound <= updates /\ (bound > 0 => sUrl = updates)

Holds(i, u) == Sends(i) = u \/ \E k \in 1..N(i) : Url(i, k) = u
Stale(i)    == ~Fresh(Sends(i)) /\ \A k \in 1..N(i) : ~Fresh(Url(i, k))

\* What waits for a timer was delayed, and so was all that a service that is
\* gone still has.
ServiceInv(i) ==
  /\ (services[i].at = "idle") = (Sends(i) = NoUrl)
  /\ Sorted(services[i].messages)
  /\ \A k \in 1..N(i) : services[i].messages[k].wait > 0 => ~Fresh(Url(i, k))
  /\ services[i].life # "live" => Stale(i)
  /\ services[i].life = "killed" => N(i) = 0 /\ services[i].at = "idle"

ServicesInv ==
  /\ \A i \in Ids : ServiceInv(i)
  /\ \A i, j \in Ids : services[i].life = "live" /\ services[j].life = "live" => i = j

DaemonWithin(v) == (\A k \in 1..Len(backlog) : backlog[k] <= v) /\ (url # NoWatch => url <= v)
Within(j, v)    == Sends(j) <= v /\ \A k \in 1..N(j) : Url(j, k) <= v

\* What was not delayed is as new as all that went ahead of it.
Known ==
  DaemonWithin(updates) /\ \A i \in Ids : Within(i, updates)

BacklogInOrder ==
  \A l \in 1..Len(backlog) : Fresh(backlog[l]) =>
    /\ \A k \in 1..l : backlog[k] <= backlog[l]
    /\ url # NoWatch => url <= backlog[l]

SendingInOrder ==
  \A i \in Ids : Fresh(Sends(i)) =>
    DaemonWithin(Sends(i)) /\ \A j \in Ids \ {i} : Within(j, Sends(i))

MessagesInOrder ==
  \A i \in Ids : \A k \in 1..N(i) : Fresh(Url(i, k)) =>
    /\ DaemonWithin(Url(i, k)) /\ \A j \in Ids \ {i} : Within(j, Url(i, k))
    /\ Sends(i) <= Url(i, k) /\ \A l \in 1..k : Url(i, l) <= Url(i, k)

InOrder == Known /\ BacklogInOrder /\ SendingInOrder /\ MessagesInOrder

\* After every path a URL comes.
UrlFollows == (\E i \in Ids : services[i].at = "url") \/ "service" \in faults

PathsFollowed ==
  installed =>
    /\ url = NoUrl => (\E l \in 1..Len(backlog) : backlog[l] # NoUrl) \/ UrlFollows
    /\ \A k \in 1..Len(backlog) : backlog[k] = NoUrl =>
         (\E l \in k..Len(backlog) : backlog[l] # NoUrl) \/ UrlFollows

NoFault == faults \cap ServiceFaults = {}

\* While nothing has failed the library is there, and a service tells the path
\* before the first URL.
PathFirst ==
  installed /\ NoFault =>
    /\ lib # "failed" /\ \A i \in Ids : services[i].life # "killed" /\ lib = "loaded"
    /\ \A i \in Ids : services[i].at = "url" \/ services[i].mStart =>
         url # NoWatch \/ \E k \in 1..Len(backlog) : backlog[k] = NoUrl
    /\ url = NoWatch => \A l \in 1..Len(backlog) : \E k \in 1..l : backlog[k] = NoUrl

\* While nothing has failed the latest URL is under way, or the daemon has it
\* or will have it, or one that was delayed.
Good(u) == u \in Updates /\ (u = sUrl \/ u \in held)

DaemonGood ==
  \/ \E k \in 1..Len(backlog) : Good(backlog[k]) /\ \A l \in (k + 1)..Len(backlog) : backlog[l] = NoUrl
  \/ (\A l \in 1..Len(backlog) : backlog[l] = NoUrl) /\ (url = NoUrl \/ Good(url))

LatestOnItsWay ==
  NoFault /\ sUrl # NoUrl /\ toConnect = 0 =>
    \/ \E i \in Ids : Holds(i, sUrl)
    \/ (\A i \in Ids : Stale(i)) /\ DaemonGood

DaemonOff == daemon # "listening" => backlog = <<>> /\ url = NoWatch

\* After the uninstall nothing newer comes, and nothing older but what was delayed.
LateEnough(u) == u >= atEnd \/ u \in held \cup {NoUrl}

WatcherInv ==
  /\ watcher.at # "done" => watcher.tries < MaxTries
  /\ watcher.at = "reporting" => ~installed
  /\ \A k \in 1..Len(older) :
       /\ older[k].at # "done" => older[k].tries < MaxTries
       /\ older[k].at = "reporting" /\ atEnd \in Updates => LateEnough(older[k].url)

\* The daemon ends of itself after the uninstall, or because reading failed.
EndingInv == ending => ~installed \/ "read" \in faults

UninstalledInv ==
  /\ installed => hits = {} /\ atEnd = NoWatch /\ sure = {}
  /\ ~installed => sUrl = NoUrl
  /\ ~installed /\ atEnd \in Updates =>
       LateEnough(url) /\ \A k \in 1..Len(backlog) : LateEnough(backlog[k])
  /\ "url" \in sure =>
       /\ backlog = <<>> /\ url \in {meant, NoWatch} \cup held /\ hits \subseteq {meant} \cup held
       /\ \A k \in 1..Len(older) : older[k].at # "reporting"

Older == [at : {"none", "starting", "watching", "blind", "reporting", "done"},
          url : 0..MaxUpdates, tries : 0..MaxTries]

WayInv ==
  /\ TypeOK /\ AppInv /\ ServicesInv /\ InOrder
  /\ DaemonOff /\ PathsFollowed /\ PathFirst /\ LatestOnItsWay

ReportInv ==
  /\ ReportTypeOK /\ older \in Seq(Older) /\ NoOlderHit /\ ReplacedStaySilent
  /\ WatcherInv /\ UninstalledInv

UninstallIInv == WayInv /\ ReportInv /\ EndingInv

-----------------------------------------------------------------------------
(* What the type invariant says of the parts. *)

LEMMA Constants ==
  /\ MaxUpdates \in Nat /\ MaxKills \in Nat /\ MaxTries \in Nat \ {0} /\ NoUrl = 0 /\ NoWatch = MaxUpdates + 1
  /\ Updates = 1..MaxUpdates
BY ServiceAssumption, ReportAssumption
   DEF ServiceAssumption, ReportAssumption, NoUrl, NoWatch, Updates

LEMMA BlankUpdates == Blank \subseteq Updates
BY ServiceAssumption DEF ServiceAssumption, Updates

Typed ==
  /\ services \in Seq(Service) /\ Len(services) \in Nat /\ DOMAIN services = Ids
  /\ Ids = 1..Len(services)
  /\ backlog \in Seq(0..MaxUpdates) /\ Len(backlog) \in Nat /\ DOMAIN backlog = 1..Len(backlog)
  /\ \A k \in 1..Len(backlog) : backlog[k] \in Nat /\ backlog[k] <= MaxUpdates
  /\ url \in Nat /\ url <= NoWatch /\ held \subseteq Updates
  /\ updates \in Nat /\ updates <= MaxUpdates
  /\ \A i \in Ids :
       /\ services[i] \in Service /\ services[i].mStart \in BOOLEAN
       /\ Sends(i) \in Nat /\ Sends(i) <= MaxUpdates
       /\ services[i].messages \in Seq(Message)
       /\ N(i) \in Nat
       /\ \A k \in 1..N(i) : /\ Url(i, k) \in Nat /\ Url(i, k) <= MaxUpdates
                             /\ services[i].messages[k].wait \in Nat

LEMMA Parts == TypeOK => Typed
<1> SUFFICES ASSUME TypeOK
             PROVE  Typed
  OBVIOUS
<1>1. services \in Seq(Service) /\ Len(services) \in Nat /\ DOMAIN services = Ids
      /\ \A i \in Ids : services[i] \in Service
  BY ServicesTyped DEF TypeOK
<1>2. /\ backlog \in Seq(0..MaxUpdates) /\ Len(backlog) \in Nat /\ DOMAIN backlog = 1..Len(backlog)
      /\ \A k \in 1..Len(backlog) : backlog[k] \in Nat /\ backlog[k] <= MaxUpdates
  BY Constants DEF TypeOK
<1>3. /\ url \in Nat /\ url <= NoWatch /\ held \subseteq Updates
      /\ updates \in Nat /\ updates <= MaxUpdates
  BY Constants DEF TypeOK
<1>4. ASSUME NEW i \in Ids
      PROVE  /\ services[i].mStart \in BOOLEAN
             /\ Sends(i) \in Nat /\ Sends(i) <= MaxUpdates
             /\ services[i].messages \in Seq(Message) /\ N(i) \in Nat
             /\ \A k \in 1..N(i) : services[i].messages[k] \in Message
  <2>1. /\ services[i].mStart \in BOOLEAN
        /\ services[i].messages \in Seq(Message) /\ services[i].sending \in 0..MaxUpdates
    BY <1>1, ServiceFields
  <2>2. N(i) \in Nat /\ N(i) = Len(services[i].messages)
    BY <2>1 DEF N
  <2>3. \A k \in 1..N(i) : services[i].messages[k] \in Message
    BY <2>1, <2>2
  <2> QED
    BY <2>1, <2>2, <2>3, Constants DEF Sends
<1>5. ASSUME NEW i \in Ids, NEW k \in 1..N(i)
      PROVE  /\ Url(i, k) \in Nat /\ Url(i, k) <= MaxUpdates
             /\ services[i].messages[k].wait \in Nat
  BY <1>4, MessageFields, Constants DEF Url
<1> QED
  BY <1>1, <1>2, <1>3, <1>4, <1>5 DEF Ids, Typed

LEMMA PartsNext == TypeOK' => Typed'
BY Parts, PTL

-----------------------------------------------------------------------------
(* Steps that neither send nor add a URL: some services lose what they hold, *)
(* more may count as delayed, and the application may have a newer one.      *)

Kept(i)    == /\ i \in Ids /\ N(i)' = N(i) /\ Sends(i)' = Sends(i)
              /\ \A k \in 1..N(i) : Url(i, k)' = Url(i, k)
Emptied(i) == N(i)' = 0 /\ Sends(i)' = NoUrl
Thinned ==
  /\ \A i \in Ids' : Emptied(i) \/ Kept(i)
  /\ held \subseteq held' /\ updates <= updates'
  /\ backlog' = backlog /\ url' = url

LEMMA FreshBefore ==
  ASSUME held \subseteq held'
  PROVE  \A u : Fresh(u)' => Fresh(u)
BY DEF Fresh

LEMMA NotFresh == ~Fresh(NoUrl) /\ ~Fresh(0) /\ ~Fresh(NoWatch)
BY Constants DEF Fresh

LEMMA ThinnedInOrder ==
  ASSUME Typed, Typed', InOrder, Thinned
  PROVE  InOrder'
<1>1. /\ \A i \in Ids' : Emptied(i) \/ Kept(i)
      /\ backlog' = backlog /\ url' = url /\ updates <= updates'
  BY DEF Thinned
<1>2. \A u : Fresh(u)' => Fresh(u)
  BY FreshBefore DEF Thinned
<1>3. updates \in Nat /\ updates' \in Nat /\ Len(backlog) \in Nat /\ url \in Nat
  BY DEF Typed
<1>4. ASSUME NEW v, DaemonWithin(v)
      PROVE  DaemonWithin(v)'
  BY <1>1, <1>4 DEF DaemonWithin
<1>5. ASSUME NEW i \in Ids', NEW v \in Nat, i \in Ids => Within(i, v)
      PROVE  Within(i, v)'
  <2>1. CASE Emptied(i)
    BY <1>5, <2>1, Constants DEF Emptied, Within
  <2>2. CASE Kept(i)
    BY <1>5, <2>2 DEF Kept, Within
  <2> QED
    BY <1>1, <2>1, <2>2
<1>6. Known'
  <2>1. PICK u \in Nat : u = updates'
    BY <1>3
  <2>2. DaemonWithin(updates) /\ \A i \in Ids : Within(i, updates)
    BY DEF InOrder, Known
  <2>3. DaemonWithin(u)
    BY <1>1, <1>3, <2>1, <2>2 DEF DaemonWithin, Typed
  <2>4. ASSUME NEW i \in Ids
        PROVE  Within(i, u)
    BY <1>1, <1>3, <2>1, <2>2 DEF Within, Typed
  <2>5. DaemonWithin(u)' /\ \A i \in Ids' : Within(i, u)'
    BY <1>4, <1>5, <2>3, <2>4
  <2> QED
    BY <2>1, <2>5 DEF Known, DaemonWithin, Within
<1>7. BacklogInOrder'
  BY <1>1, <1>2 DEF InOrder, BacklogInOrder
<1>8. SendingInOrder'
  <2> SUFFICES ASSUME NEW i \in Ids', Fresh(Sends(i))'
               PROVE  DaemonWithin(Sends(i))' /\ \A j \in Ids' \ {i} : Within(j, Sends(i))'
    BY DEF SendingInOrder
  <2>1. Kept(i)
    BY <1>1, <1>2, NotFresh DEF Emptied, Fresh
  <2>2. PICK v \in Nat : v = Sends(i)
    BY <2>1 DEF Typed, Kept
  <2>3. Sends(i)' = v /\ i \in Ids /\ Fresh(v)
    BY <1>2, <2>1, <2>2 DEF Kept, Fresh
  <2>4. DaemonWithin(v) /\ \A j \in Ids \ {i} : Within(j, v)
    BY <2>2, <2>3 DEF InOrder, SendingInOrder
  <2>5. DaemonWithin(v)' /\ \A j \in Ids' \ {i} : Within(j, v)'
    BY <1>4, <1>5, <2>4
  <2> QED
    BY <2>3, <2>5 DEF DaemonWithin, Within
<1>9. MessagesInOrder'
  <2> SUFFICES ASSUME NEW i \in Ids', NEW k \in (1..N(i))', Fresh(Url(i, k))'
               PROVE  /\ DaemonWithin(Url(i, k))' /\ \A j \in Ids' \ {i} : Within(j, Url(i, k))'
                      /\ (Sends(i) <= Url(i, k))' /\ \A l \in 1..k : (Url(i, l) <= Url(i, k))'
    BY DEF MessagesInOrder
  <2>1. Kept(i)
    BY <1>1 DEF Emptied
  <2>2. i \in Ids /\ k \in 1..N(i) /\ Url(i, k)' = Url(i, k) /\ Sends(i)' = Sends(i)
    BY <2>1 DEF Kept
  <2>3. PICK v \in Nat : v = Url(i, k)
    BY <2>2 DEF Typed
  <2>4. Url(i, k)' = v /\ Fresh(v)
    BY <1>2, <2>2, <2>3 DEF Fresh
  <2>5. /\ DaemonWithin(v) /\ \A j \in Ids \ {i} : Within(j, v)
        /\ Sends(i) <= v /\ \A l \in 1..k : Url(i, l) <= v
    BY <2>2, <2>3, <2>4 DEF InOrder, MessagesInOrder
  <2>6. DaemonWithin(v)' /\ \A j \in Ids' \ {i} : Within(j, v)'
    BY <1>4, <1>5, <2>5
  <2>7. \A l \in 1..k : Url(i, l)' = Url(i, l)
    BY <2>1, <2>2 DEF Kept, Typed
  <2> QED
    BY <2>2, <2>4, <2>5, <2>6, <2>7 DEF DaemonWithin, Within
<1> QED
  BY <1>6, <1>7, <1>8, <1>9 DEF InOrder

-----------------------------------------------------------------------------
(* Steps that add a URL, pass one on, or send one. *)

\* What is kept is within what it was within.
LEMMA KeptWithin ==
  ASSUME NEW i, Kept(i), NEW v, Within(i, v)
  PROVE  Within(i, v)'
BY DEF Kept, Within

Connected(i, p) ==
  /\ Ids' = Ids /\ N(i)' = N(i) + 2 /\ Sends(i)' = Sends(i)
  /\ \A k \in 1..(p - 1) : Url(i, k)' = Url(i, k)
  /\ Url(i, p)' = updates
  /\ \A k \in p..N(i) : Url(i, k + 1)' = Url(i, k) /\ ~Fresh(Url(i, k))
  /\ \A k \in 1..N(i)' : k = N(i) + 2 => Url(i, k)' = NoUrl
  /\ \A j \in Ids \ {i} : Kept(j) /\ Stale(j)

LEMMA ConnectInOrder ==
  ASSUME Typed, Typed', InOrder, NEW i \in Ids, NEW p \in 1..(N(i) + 1), Connected(i, p),
         held \subseteq held', UNCHANGED <<backlog, url, updates>>
  PROVE  InOrder'
<1>1. /\ Ids' = Ids /\ N(i)' = N(i) + 2 /\ Sends(i)' = Sends(i) /\ N(i) \in Nat
      /\ \A k \in 1..(p - 1) : Url(i, k)' = Url(i, k)
      /\ Url(i, p)' = updates
      /\ \A k \in p..N(i) : Url(i, k + 1)' = Url(i, k) /\ ~Fresh(Url(i, k))
      /\ \A k \in 1..N(i)' : k = N(i) + 2 => Url(i, k)' = NoUrl
      /\ \A j \in Ids \ {i} : Kept(j) /\ Stale(j)
  BY DEF Connected, Typed
<1>2. \A u : Fresh(u)' => Fresh(u)
  BY FreshBefore
<1>3. updates \in Nat /\ updates' = updates
  BY DEF Typed
<1>4. ASSUME NEW v
      PROVE  DaemonWithin(v)' = DaemonWithin(v)
  BY DEF DaemonWithin
<1>5. \A k \in 1..N(i)' : \/ k \in 1..(p - 1) /\ Url(i, k)' = Url(i, k)
                          \/ k = p /\ Url(i, k)' = updates
                          \/ k - 1 \in p..N(i) /\ Url(i, k)' = Url(i, k - 1) /\ ~Fresh(Url(i, k - 1))
                          \/ Url(i, k)' = NoUrl
  <2> TAKE k \in 1..N(i)'
  <2>1. CASE k < p
    BY <1>1, <2>1
  <2>2. CASE k = p
    BY <1>1, <2>2
  <2>3. CASE k > p /\ k <= N(i) + 1
    <3>1. k - 1 \in p..N(i) /\ (k - 1) + 1 = k
      BY <1>1, <2>3
    <3> QED
      BY <1>1, <3>1
  <2>4. CASE k = N(i) + 2
    BY <1>1, <2>4
  <2>5. k < p \/ k = p \/ (k > p /\ k <= N(i) + 1) \/ k = N(i) + 2
    BY <1>1
  <2> QED
    BY <2>1, <2>2, <2>3, <2>4, <2>5
<1>6. DaemonWithin(updates) /\ \A j \in Ids : Within(j, updates)
  BY DEF InOrder, Known
<1>7. Within(i, updates)'
  <2>1. Sends(i) <= updates /\ \A k \in 1..N(i) : Url(i, k) <= updates
    BY <1>6 DEF Within
  <2>2. ASSUME NEW k \in 1..N(i)'
        PROVE  Url(i, k)' <= updates
    <3>1. k - 1 \in p..N(i) => k - 1 \in 1..N(i)
      BY <1>1
    <3>2. k \in 1..(p - 1) => k \in 1..N(i)
      BY <1>1
    <3> QED
      BY <1>3, <1>5, <2>1, <3>1, <3>2, Constants
  <2> QED
    BY <1>1, <1>3, <2>1, <2>2 DEF Within
<1>8. \A j \in Ids : Within(j, updates)'
  <2>1. \A j \in Ids \ {i} : Within(j, updates)'
    BY <1>1, <1>3, <1>6, KeptWithin DEF Within
  <2> QED
    BY <1>7, <2>1
<1>9. Known'
  BY <1>1, <1>3, <1>4, <1>6, <1>8 DEF Known
<1>10. BacklogInOrder'
  BY <1>2 DEF InOrder, BacklogInOrder
<1>11. ASSUME NEW j \in Ids, j # i
       PROVE  ~Fresh(Sends(j))' /\ \A k \in (1..N(j))' : ~Fresh(Url(j, k))'
  BY <1>1, <1>2, <1>11 DEF Kept, Stale, Fresh
<1>12. SendingInOrder'
  <2> SUFFICES ASSUME Fresh(Sends(i))'
               PROVE  DaemonWithin(Sends(i))' /\ \A j \in Ids \ {i} : Within(j, Sends(i))'
    BY <1>1, <1>11 DEF SendingInOrder
  <2>1. PICK v \in Nat : v = Sends(i)
    BY DEF Typed
  <2>2. Fresh(v) /\ Sends(i)' = v
    BY <1>1, <1>2, <2>1 DEF Fresh
  <2>3. DaemonWithin(v) /\ \A j \in Ids \ {i} : Within(j, v)
    BY <2>1, <2>2 DEF InOrder, SendingInOrder
  <2>4. DaemonWithin(v)' /\ \A j \in Ids \ {i} : Within(j, v)'
    BY <1>1, <1>4, <2>3, KeptWithin
  <2> QED
    BY <2>2, <2>4 DEF DaemonWithin, Within
<1>13. MessagesInOrder'
  <2> SUFFICES ASSUME NEW k \in (1..N(i))', Fresh(Url(i, k))'
               PROVE  /\ DaemonWithin(Url(i, k))' /\ \A j \in Ids \ {i} : Within(j, Url(i, k))'
                      /\ (Sends(i) <= Url(i, k))' /\ \A l \in 1..k : (Url(i, l) <= Url(i, k))'
    BY <1>1, <1>11 DEF MessagesInOrder
  <2>1. k \in 1..N(i)' /\ k \in Nat
    BY <1>1
  <2>2. CASE k \in 1..(p - 1) /\ Url(i, k)' = Url(i, k)
    <3>1. PICK v \in Nat : v = Url(i, k)
      BY <1>1, <2>2 DEF Typed
    <3>2. Fresh(v) /\ Url(i, k)' = v /\ k \in 1..N(i)
      BY <1>1, <1>2, <2>2, <3>1 DEF Fresh
    <3>3. /\ DaemonWithin(v) /\ \A j \in Ids \ {i} : Within(j, v)
          /\ Sends(i) <= v /\ \A l \in 1..k : Url(i, l) <= v
      BY <3>1, <3>2 DEF InOrder, MessagesInOrder
    <3>4. DaemonWithin(v)' /\ \A j \in Ids \ {i} : Within(j, v)'
      BY <1>1, <1>4, <3>3, KeptWithin
    <3>5. \A l \in 1..k : Url(i, l)' = Url(i, l)
      BY <1>1, <2>1, <2>2
    <3> QED
      BY <1>1, <3>2, <3>3, <3>4, <3>5 DEF DaemonWithin, Within
  <2>3. CASE k = p /\ Url(i, k)' = updates
    <3>1. \A l \in 1..k : Url(i, l)' <= updates
      BY <1>1, <1>3, <1>7, <2>1 DEF Within
    <3>2. Sends(i)' <= updates /\ \A j \in Ids \ {i} : Within(j, updates)'
      BY <1>3, <1>7, <1>8 DEF Within
    <3> QED
      BY <1>1, <1>3, <1>4, <1>6, <2>3, <3>1, <3>2 DEF DaemonWithin, Within
  <2>4. CASE k - 1 \in p..N(i) /\ Url(i, k)' = Url(i, k - 1) /\ ~Fresh(Url(i, k - 1))
    BY <1>2, <2>4 DEF Fresh
  <2>5. CASE Url(i, k)' = NoUrl
    BY <1>2, <2>5, NotFresh DEF Fresh
  <2> QED
    BY <1>5, <2>1, <2>2, <2>3, <2>4, <2>5
<1> QED
  BY <1>9, <1>10, <1>12, <1>13 DEF InOrder

\* The handler takes its first message, and may be about to send its URL.
Popped(i) ==
  /\ Ids' = Ids /\ N(i) >= 1 /\ N(i)' = N(i) - 1
  /\ \A k \in 1..N(i)' : Url(i, k)' = Url(i, k + 1)
  /\ Sends(i) = NoUrl /\ Sends(i)' \in {NoUrl, Url(i, 1)}
  /\ \A j \in Ids \ {i} : Kept(j)

LEMMA PoppedInOrder ==
  ASSUME Typed, Typed', InOrder, NEW i \in Ids, Popped(i), UNCHANGED <<backlog, url, updates, held>>
  PROVE  InOrder'
<1>1. /\ Ids' = Ids /\ N(i) >= 1 /\ N(i)' = N(i) - 1 /\ N(i) \in Nat
      /\ \A k \in 1..N(i)' : Url(i, k)' = Url(i, k + 1) /\ k + 1 \in 1..N(i)
      /\ Sends(i) = NoUrl /\ Sends(i)' \in {NoUrl, Url(i, 1)} /\ 1 \in 1..N(i)
      /\ \A j \in Ids \ {i} : Kept(j)
  <2>1. N(i) \in Nat
    BY DEF Typed
  <2>2. N(i) >= 1 /\ N(i)' = N(i) - 1
    BY DEF Popped
  <2>3. \A k \in 1..N(i)' : k + 1 \in 1..N(i)
    BY <2>1, <2>2
  <2> QED
    BY <2>1, <2>2, <2>3 DEF Popped
<1>2. \A u : Fresh(u)' = Fresh(u)
  BY DEF Fresh
<1>3. ASSUME NEW v
      PROVE  DaemonWithin(v)' = DaemonWithin(v)
  BY DEF DaemonWithin
<1>4. ASSUME NEW v \in Nat, NEW j \in Ids, Within(j, v)
      PROVE  Within(j, v)'
  <2>1. CASE j = i
    <3>1. \A k \in 1..N(i) : Url(i, k) <= v
      BY <1>4, <2>1 DEF Within
    <3>2. Sends(i)' <= v
      BY <1>1, <3>1, Constants
    <3> QED
      BY <1>1, <2>1, <3>1, <3>2 DEF Within
  <2> QED
    BY <1>1, <1>4, <2>1, KeptWithin
<1>5. Known'
  <2>1. PICK v \in Nat : v = updates
    BY DEF Typed
  <2>2. DaemonWithin(v)' /\ \A j \in Ids' : Within(j, v)'
    BY <1>1, <1>3, <1>4, <2>1 DEF InOrder, Known
  <2> QED
    BY <2>1, <2>2 DEF Known, DaemonWithin, Within
<1>6. BacklogInOrder'
  BY <1>2 DEF InOrder, BacklogInOrder
<1>7. SendingInOrder'
  <2> SUFFICES ASSUME NEW j \in Ids, Fresh(Sends(j))'
               PROVE  DaemonWithin(Sends(j))' /\ \A l \in Ids \ {j} : Within(l, Sends(j))'
    BY <1>1 DEF SendingInOrder
  <2>1. PICK v \in Nat : v = Sends(j)' /\ Fresh(v)
    BY <1>1, <1>2 DEF Typed, Fresh
  <2>2. DaemonWithin(v) /\ \A l \in Ids \ {j} : Within(l, v)
    <3>1. CASE j = i
      <4>1. v = Url(i, 1)
        BY <1>1, <2>1, <3>1, NotFresh
      <4> QED
        BY <1>1, <2>1, <3>1, <4>1 DEF InOrder, MessagesInOrder
    <3>2. CASE j # i
      BY <1>1, <2>1, <3>2 DEF InOrder, SendingInOrder, Kept
    <3> QED
      BY <3>1, <3>2
  <2>3. DaemonWithin(v)' /\ \A l \in Ids \ {j} : Within(l, v)'
    BY <1>3, <1>4, <2>2
  <2> QED
    BY <2>1, <2>3 DEF DaemonWithin, Within
<1>8. MessagesInOrder'
  <2> SUFFICES ASSUME NEW j \in Ids, NEW k \in (1..N(j))', Fresh(Url(j, k))'
               PROVE  /\ DaemonWithin(Url(j, k))' /\ \A l \in Ids \ {j} : Within(l, Url(j, k))'
                      /\ (Sends(j) <= Url(j, k))' /\ \A l \in 1..k : (Url(j, l) <= Url(j, k))'
    BY <1>1 DEF MessagesInOrder
  <2>1. PICK v \in Nat : v = Url(j, k)' /\ Fresh(v)
    BY <1>1, <1>2 DEF Typed, Fresh
  <2>2. k \in 1..N(j)'
    OBVIOUS
  <2>3. /\ DaemonWithin(v) /\ \A l \in Ids \ {j} : Within(l, v)
        /\ Sends(j)' <= v /\ \A l \in 1..k : Url(j, l)' <= v
    <3>1. CASE j = i
      <4>1. v = Url(i, k + 1) /\ k + 1 \in 1..N(i) /\ k \in Nat
        BY <1>1, <2>1, <2>2, <3>1
      <4>2. /\ DaemonWithin(v) /\ \A l \in Ids \ {j} : Within(l, v)
            /\ Sends(i) <= v /\ \A l \in 1..(k + 1) : Url(i, l) <= v
        BY <2>1, <3>1, <4>1 DEF InOrder, MessagesInOrder
      <4>3. Sends(i)' <= v
        BY <1>1, <4>1, <4>2, Constants
      <4>4. ASSUME NEW l \in 1..k
            PROVE  Url(i, l)' <= v
        <5>1. l \in 1..N(i)' /\ l + 1 \in 1..(k + 1)
          BY <1>1, <2>2, <3>1, <4>1
        <5> QED
          BY <1>1, <4>2, <5>1
      <4> QED
        BY <3>1, <4>2, <4>3, <4>4
    <3>2. CASE j # i
      <4>1. k \in 1..N(j) /\ v = Url(j, k) /\ Sends(j)' = Sends(j) /\ N(j) \in Nat
            /\ \A l \in 1..N(j) : Url(j, l)' = Url(j, l)
        BY <1>1, <2>1, <2>2, <3>2 DEF Kept, Typed
      <4>2. /\ DaemonWithin(v) /\ \A l \in Ids \ {j} : Within(l, v)
            /\ Sends(j) <= v /\ \A l \in 1..k : Url(j, l) <= v
        BY <2>1, <4>1 DEF InOrder, MessagesInOrder
      <4> QED
        BY <4>1, <4>2
    <3> QED
      BY <3>1, <3>2
  <2>4. DaemonWithin(v)' /\ \A l \in Ids \ {j} : Within(l, v)'
    BY <1>3, <1>4, <2>3
  <2> QED
    BY <2>1, <2>3, <2>4 DEF DaemonWithin, Within
<1> QED
  BY <1>5, <1>6, <1>7, <1>8 DEF InOrder

\* A request is accepted, the path's or that of the URL a service was sending.
Appended(u) ==
  /\ Len(backlog)' = Len(backlog) + 1 /\ \A k \in 1..Len(backlog) : backlog'[k] = backlog[k]
  /\ \A k \in 1..Len(backlog)' : k = Len(backlog) + 1 => backlog'[k] = u

LEMMA PathInOrder ==
  ASSUME Typed, Typed', InOrder, Appended(NoUrl), Ids' = Ids, \A j \in Ids : Kept(j),
         UNCHANGED <<url, updates, held>>
  PROVE  InOrder'
<1>1. /\ Len(backlog)' = Len(backlog) + 1 /\ Len(backlog) \in Nat
      /\ \A k \in 1..Len(backlog) : backlog'[k] = backlog[k]
      /\ \A k \in 1..Len(backlog)' : k \in 1..Len(backlog) \/ backlog'[k] = NoUrl
  BY DEF Appended, Typed
<1>2. \A u : Fresh(u)' = Fresh(u)
  BY DEF Fresh
<1>3. ASSUME NEW v \in Nat, DaemonWithin(v)
      PROVE  DaemonWithin(v)'
  BY <1>1, <1>3, Constants DEF DaemonWithin
<1>4. Known'
  <2>1. PICK v \in Nat : v = updates
    BY DEF Typed
  <2>2. DaemonWithin(v)' /\ \A j \in Ids' : Within(j, v)'
    BY <1>3, <2>1, KeptWithin DEF InOrder, Known
  <2> QED
    BY <2>1, <2>2 DEF Known, DaemonWithin, Within
<1>5. BacklogInOrder'
  BY <1>1, <1>2, NotFresh DEF InOrder, BacklogInOrder
<1>6. SendingInOrder'
  <2> SUFFICES ASSUME NEW j \in Ids, Fresh(Sends(j))'
               PROVE  DaemonWithin(Sends(j))' /\ \A l \in Ids \ {j} : Within(l, Sends(j))'
    BY DEF SendingInOrder
  <2>1. PICK v \in Nat : v = Sends(j) /\ Sends(j)' = v /\ Fresh(v)
    BY <1>2 DEF Typed, Fresh, Kept
  <2>2. DaemonWithin(v)' /\ \A l \in Ids \ {j} : Within(l, v)'
    BY <1>3, <2>1, KeptWithin DEF InOrder, SendingInOrder
  <2> QED
    BY <2>1, <2>2 DEF DaemonWithin, Within
<1>7. MessagesInOrder'
  <2> SUFFICES ASSUME NEW j \in Ids, NEW k \in (1..N(j))', Fresh(Url(j, k))'
               PROVE  /\ DaemonWithin(Url(j, k))' /\ \A l \in Ids \ {j} : Within(l, Url(j, k))'
                      /\ (Sends(j) <= Url(j, k))' /\ \A l \in 1..k : (Url(j, l) <= Url(j, k))'
    BY DEF MessagesInOrder
  <2>1. /\ k \in 1..N(j) /\ N(j) \in Nat /\ Url(j, k)' = Url(j, k) /\ Sends(j)' = Sends(j)
        /\ \A l \in 1..N(j) : Url(j, l)' = Url(j, l)
    BY DEF Kept, Typed
  <2>2. PICK v \in Nat : v = Url(j, k) /\ Url(j, k)' = v /\ Fresh(v)
    BY <1>2, <2>1 DEF Typed, Fresh
  <2>3. /\ DaemonWithin(v) /\ \A l \in Ids \ {j} : Within(l, v)
        /\ Sends(j) <= v /\ \A l \in 1..k : Url(j, l) <= v
    BY <2>1, <2>2 DEF InOrder, MessagesInOrder
  <2>4. DaemonWithin(v)' /\ \A l \in Ids \ {j} : Within(l, v)'
    BY <1>3, <2>3, KeptWithin
  <2> QED
    BY <2>1, <2>2, <2>3, <2>4 DEF DaemonWithin, Within
<1> QED
  BY <1>4, <1>5, <1>6, <1>7 DEF InOrder

LEMMA UrlInOrder ==
  ASSUME Typed, Typed', InOrder, NEW i \in Ids, NEW w \in Nat, w = Sends(i), Appended(w), Ids' = Ids,
         Sends(i)' = NoUrl, N(i)' = N(i), \A k \in 1..N(i) : Url(i, k)' = Url(i, k),
         \A j \in Ids \ {i} : Kept(j), UNCHANGED <<url, updates, held>>
  PROVE  InOrder'
<1>1. /\ Len(backlog)' = Len(backlog) + 1 /\ Len(backlog) \in Nat
      /\ \A k \in 1..Len(backlog) : backlog'[k] = backlog[k]
      /\ \A k \in 1..Len(backlog)' : k \in 1..Len(backlog) \/ (k = Len(backlog) + 1 /\ backlog'[k] = w)
  BY DEF Appended, Typed
<1>2. \A u : Fresh(u)' = Fresh(u)
  BY DEF Fresh
<1>3. ASSUME NEW v \in Nat, DaemonWithin(v), w <= v
      PROVE  DaemonWithin(v)'
  BY <1>1, <1>3 DEF DaemonWithin
<1>4. ASSUME NEW v \in Nat, NEW j \in Ids, Within(j, v)
      PROVE  Within(j, v)'
  <2>1. CASE j = i
    BY <1>4, <2>1, Constants DEF Within
  <2> QED
    BY <1>4, <2>1, KeptWithin
<1>5. \A j \in Ids : N(j)' = N(j) /\ N(j) \in Nat /\ \A k \in 1..N(j) : Url(j, k)' = Url(j, k)
  BY DEF Kept, Typed
<1>6. \A v : Within(i, v) => w <= v
  BY DEF Within
<1>7. Known'
  <2>1. PICK v \in Nat : v = updates
    BY DEF Typed
  <2>2. DaemonWithin(v)' /\ \A j \in Ids' : Within(j, v)'
    BY <1>3, <1>4, <1>6, <2>1 DEF InOrder, Known
  <2> QED
    BY <2>1, <2>2 DEF Known, DaemonWithin, Within
<1>8. BacklogInOrder'
  <2> SUFFICES ASSUME NEW l \in (1..Len(backlog))', Fresh(backlog[l])'
               PROVE  /\ \A k \in 1..l : (backlog[k] <= backlog[l])'
                      /\ (url # NoWatch => url <= backlog[l])'
    BY DEF BacklogInOrder
  <2>1. CASE l \in 1..Len(backlog)
    BY <1>1, <1>2, <2>1 DEF InOrder, BacklogInOrder, Fresh
  <2>2. CASE l = Len(backlog) + 1 /\ backlog'[l] = w
    <3>1. Fresh(w)
      BY <1>2, <2>2 DEF Fresh
    <3>2. DaemonWithin(w)
      BY <3>1 DEF InOrder, SendingInOrder
    <3>3. \A k \in 1..l : k \in 1..Len(backlog)'
      BY <1>1, <2>2
    <3> QED
      BY <1>1, <2>2, <3>2, <3>3 DEF DaemonWithin
  <2> QED
    BY <1>1, <2>1, <2>2
<1>9. SendingInOrder'
  <2> SUFFICES ASSUME NEW j \in Ids, Fresh(Sends(j))'
               PROVE  DaemonWithin(Sends(j))' /\ \A l \in Ids \ {j} : Within(l, Sends(j))'
    BY DEF SendingInOrder
  <2>1. j # i
    BY <1>2, NotFresh DEF Fresh
  <2>2. PICK v \in Nat : v = Sends(j) /\ Sends(j)' = v /\ Fresh(v)
    BY <1>2, <2>1 DEF Typed, Fresh, Kept
  <2>3. DaemonWithin(v) /\ \A l \in Ids \ {j} : Within(l, v)
    BY <2>2 DEF InOrder, SendingInOrder
  <2>4. DaemonWithin(v)' /\ \A l \in Ids \ {j} : Within(l, v)'
    BY <1>3, <1>4, <1>6, <2>1, <2>3
  <2> QED
    BY <2>2, <2>4 DEF DaemonWithin, Within
<1>10. MessagesInOrder'
  <2> SUFFICES ASSUME NEW j \in Ids, NEW k \in (1..N(j))', Fresh(Url(j, k))'
               PROVE  /\ DaemonWithin(Url(j, k))' /\ \A l \in Ids \ {j} : Within(l, Url(j, k))'
                      /\ (Sends(j) <= Url(j, k))' /\ \A l \in 1..k : (Url(j, l) <= Url(j, k))'
    BY DEF MessagesInOrder
  <2>1. /\ k \in 1..N(j) /\ N(j) \in Nat /\ Url(j, k)' = Url(j, k)
        /\ \A l \in 1..N(j) : Url(j, l)' = Url(j, l)
    BY <1>5
  <2>2. PICK v \in Nat : v = Url(j, k) /\ Url(j, k)' = v /\ Fresh(v)
    BY <1>2, <2>1 DEF Typed, Fresh
  <2>3. /\ DaemonWithin(v) /\ \A l \in Ids \ {j} : Within(l, v)
        /\ Sends(j) <= v /\ \A l \in 1..k : Url(j, l) <= v
    BY <2>1, <2>2 DEF InOrder, MessagesInOrder
  <2>4. DaemonWithin(v)' /\ \A l \in Ids \ {j} : Within(l, v)'
    BY <1>3, <1>4, <1>6, <2>3
  <2>5. Sends(j)' <= v
    BY <2>2, <2>3, Constants DEF Kept
  <2> QED
    BY <2>1, <2>2, <2>3, <2>4, <2>5 DEF DaemonWithin, Within
<1> QED
  BY <1>7, <1>8, <1>9, <1>10 DEF InOrder

\* The daemon refuses a URL: it is gone.
LEMMA RefusedInOrder ==
  ASSUME Typed, Typed', InOrder, NEW i \in Ids, Ids' = Ids,
         Sends(i)' = NoUrl, N(i)' = N(i), \A k \in 1..N(i) : Url(i, k)' = Url(i, k),
         \A j \in Ids \ {i} : Kept(j), UNCHANGED <<backlog, url, updates, held>>
  PROVE  InOrder'
<1>1. \A u : Fresh(u)' = Fresh(u)
  BY DEF Fresh
<1>2. ASSUME NEW v
      PROVE  DaemonWithin(v)' = DaemonWithin(v)
  BY DEF DaemonWithin
<1>3. ASSUME NEW v \in Nat, NEW j \in Ids, Within(j, v)
      PROVE  Within(j, v)'
  <2>1. CASE j = i
    BY <1>3, <2>1, Constants DEF Within
  <2> QED
    BY <1>3, <2>1, KeptWithin
<1>4. \A j \in Ids : N(j)' = N(j) /\ N(j) \in Nat /\ \A k \in 1..N(j) : Url(j, k)' = Url(j, k)
  BY DEF Kept, Typed
<1>5. Known'
  <2>1. PICK v \in Nat : v = updates
    BY DEF Typed
  <2>2. DaemonWithin(v)' /\ \A j \in Ids' : Within(j, v)'
    BY <1>2, <1>3, <2>1 DEF InOrder, Known
  <2> QED
    BY <2>1, <2>2 DEF Known, DaemonWithin, Within
<1>6. BacklogInOrder'
  BY <1>1 DEF InOrder, BacklogInOrder
<1>7. SendingInOrder'
  <2> SUFFICES ASSUME NEW j \in Ids, Fresh(Sends(j))'
               PROVE  DaemonWithin(Sends(j))' /\ \A l \in Ids \ {j} : Within(l, Sends(j))'
    BY DEF SendingInOrder
  <2>1. j # i
    BY <1>1, NotFresh DEF Fresh
  <2>2. PICK v \in Nat : v = Sends(j) /\ Sends(j)' = v /\ Fresh(v)
    BY <1>1, <2>1 DEF Typed, Fresh, Kept
  <2>3. DaemonWithin(v)' /\ \A l \in Ids \ {j} : Within(l, v)'
    BY <1>2, <1>3, <2>2 DEF InOrder, SendingInOrder
  <2> QED
    BY <2>2, <2>3 DEF DaemonWithin, Within
<1>8. MessagesInOrder'
  <2> SUFFICES ASSUME NEW j \in Ids, NEW k \in (1..N(j))', Fresh(Url(j, k))'
               PROVE  /\ DaemonWithin(Url(j, k))' /\ \A l \in Ids \ {j} : Within(l, Url(j, k))'
                      /\ (Sends(j) <= Url(j, k))' /\ \A l \in 1..k : (Url(j, l) <= Url(j, k))'
    BY DEF MessagesInOrder
  <2>1. /\ k \in 1..N(j) /\ N(j) \in Nat /\ Url(j, k)' = Url(j, k)
        /\ \A l \in 1..N(j) : Url(j, l)' = Url(j, l)
    BY <1>4
  <2>2. PICK v \in Nat : v = Url(j, k) /\ Url(j, k)' = v /\ Fresh(v)
    BY <1>1, <2>1 DEF Typed, Fresh
  <2>3. /\ DaemonWithin(v) /\ \A l \in Ids \ {j} : Within(l, v)
        /\ Sends(j) <= v /\ \A l \in 1..k : Url(j, l) <= v
    BY <2>1, <2>2 DEF InOrder, MessagesInOrder
  <2>4. DaemonWithin(v)' /\ \A l \in Ids \ {j} : Within(l, v)'
    BY <1>2, <1>3, <2>3
  <2>5. Sends(j)' <= v
    BY <2>2, <2>3, Constants DEF Kept
  <2> QED
    BY <2>1, <2>2, <2>3, <2>4, <2>5 DEF DaemonWithin, Within
<1> QED
  BY <1>5, <1>6, <1>7, <1>8 DEF InOrder

\* The daemon handles its first request.
Shifted ==
  /\ Len(backlog) >= 1 /\ Len(backlog)' = Len(backlog) - 1
  /\ \A k \in 1..Len(backlog)' : backlog'[k] = backlog[k + 1]
  /\ \/ backlog[1] = NoUrl /\ url' = NoUrl
     \/ backlog[1] # NoUrl /\ url = NoWatch /\ url' = NoWatch
     \/ backlog[1] # NoUrl /\ url # NoWatch /\ url' = backlog[1]

LEMMA ShiftedInOrder ==
  ASSUME Typed, Typed', InOrder, Shifted, UNCHANGED <<services, updates, held>>
  PROVE  InOrder'
<1>1. /\ Len(backlog) >= 1 /\ Len(backlog)' = Len(backlog) - 1 /\ Len(backlog) \in Nat
      /\ \A k \in 1..Len(backlog)' : backlog'[k] = backlog[k + 1] /\ k + 1 \in 1..Len(backlog)
      /\ 1 \in 1..Len(backlog)
      /\ \/ url' = NoUrl
         \/ url = NoWatch /\ url' = NoWatch
         \/ url # NoWatch /\ url' = backlog[1]
  BY DEF Shifted, Typed
<1>2. /\ Ids' = Ids
      /\ \A j \in Ids : Sends(j)' = Sends(j) /\ N(j)' = N(j) /\ \A k \in 1..N(j) : Url(j, k)' = Url(j, k)
      /\ \A u : Fresh(u)' = Fresh(u)
  BY DEF Ids, Sends, N, Url, Fresh
<1>3. ASSUME NEW v \in Nat, DaemonWithin(v)
      PROVE  DaemonWithin(v)'
  BY <1>1, <1>3, Constants DEF DaemonWithin
<1>4. ASSUME NEW v, NEW j \in Ids, Within(j, v)
      PROVE  Within(j, v)'
  BY <1>2, <1>4 DEF Within
<1>5. Known'
  <2>1. PICK v \in Nat : v = updates
    BY DEF Typed
  <2>2. DaemonWithin(v)' /\ \A j \in Ids' : Within(j, v)'
    BY <1>2, <1>3, <1>4, <2>1 DEF InOrder, Known
  <2> QED
    BY <2>1, <2>2 DEF Known, DaemonWithin, Within
<1>6. BacklogInOrder'
  <2> SUFFICES ASSUME NEW l \in (1..Len(backlog))', Fresh(backlog[l])'
               PROVE  /\ \A k \in 1..l : (backlog[k] <= backlog[l])'
                      /\ (url # NoWatch => url <= backlog[l])'
    BY DEF BacklogInOrder
  <2>1. backlog'[l] = backlog[l + 1] /\ l + 1 \in 1..Len(backlog) /\ l \in Nat
    BY <1>1
  <2>2. /\ \A k \in 1..(l + 1) : backlog[k] <= backlog[l + 1]
        /\ url # NoWatch => url <= backlog[l + 1]
    BY <1>2, <2>1 DEF InOrder, BacklogInOrder, Fresh
  <2>3. \A k \in 1..l : backlog'[k] <= backlog'[l]
    <3> TAKE k \in 1..l
    <3>1. k \in 1..Len(backlog)' /\ k + 1 \in 1..(l + 1)
      BY <1>1, <2>1
    <3> QED
      BY <1>1, <2>1, <2>2, <3>1
  <2>4. url' # NoWatch => url' <= backlog'[l]
    <3>1. backlog[1] <= backlog[l + 1] /\ backlog[l + 1] \in Nat
      BY <2>1, <2>2 DEF Typed
    <3> QED
      BY <1>1, <2>1, <2>2, <3>1, Constants
  <2> QED
    BY <2>3, <2>4 DEF NoWatch
<1>7. SendingInOrder'
  <2> SUFFICES ASSUME NEW j \in Ids, Fresh(Sends(j))'
               PROVE  DaemonWithin(Sends(j))' /\ \A l \in Ids \ {j} : Within(l, Sends(j))'
    BY <1>2 DEF SendingInOrder
  <2>1. PICK v \in Nat : v = Sends(j) /\ Sends(j)' = v /\ Fresh(v)
    BY <1>2 DEF Typed, Fresh
  <2>2. DaemonWithin(v)' /\ \A l \in Ids \ {j} : Within(l, v)'
    BY <1>3, <1>4, <2>1 DEF InOrder, SendingInOrder
  <2> QED
    BY <2>1, <2>2 DEF DaemonWithin, Within
<1>8. MessagesInOrder'
  <2> SUFFICES ASSUME NEW j \in Ids, NEW k \in (1..N(j))', Fresh(Url(j, k))'
               PROVE  /\ DaemonWithin(Url(j, k))' /\ \A l \in Ids \ {j} : Within(l, Url(j, k))'
                      /\ (Sends(j) <= Url(j, k))' /\ \A l \in 1..k : (Url(j, l) <= Url(j, k))'
    BY <1>2 DEF MessagesInOrder
  <2>1. /\ k \in 1..N(j) /\ N(j) \in Nat /\ Url(j, k)' = Url(j, k) /\ Sends(j)' = Sends(j)
        /\ \A l \in 1..N(j) : Url(j, l)' = Url(j, l)
    BY <1>2 DEF Typed
  <2>2. PICK v \in Nat : v = Url(j, k) /\ Url(j, k)' = v /\ Fresh(v)
    BY <1>2, <2>1 DEF Typed, Fresh
  <2>3. /\ DaemonWithin(v) /\ \A l \in Ids \ {j} : Within(l, v)
        /\ Sends(j) <= v /\ \A l \in 1..k : Url(j, l) <= v
    BY <2>1, <2>2 DEF InOrder, MessagesInOrder
  <2>4. DaemonWithin(v)' /\ \A l \in Ids \ {j} : Within(l, v)'
    BY <1>3, <1>4, <2>3
  <2> QED
    BY <2>1, <2>2, <2>3, <2>4 DEF DaemonWithin, Within
<1> QED
  BY <1>5, <1>6, <1>7, <1>8 DEF InOrder

\* The daemon ends.
LEMMA ClearedInOrder ==
  ASSUME Typed, InOrder, backlog' = <<>>, url' = NoWatch, UNCHANGED <<services, updates, held>>
  PROVE  InOrder'
<1>1. Len(<<>>) = 0
  OBVIOUS
<1>2. BacklogInOrder' /\ \A v : DaemonWithin(v)'
  BY <1>1 DEF BacklogInOrder, DaemonWithin, NoWatch
<1>3. /\ Ids' = Ids /\ (\A j, v : Within(j, v)' = Within(j, v)) /\ (\A u : Fresh(u)' = Fresh(u))
      /\ \A j : Sends(j)' = Sends(j) /\ N(j)' = N(j) /\ \A k : Url(j, k)' = Url(j, k)
  BY DEF Ids, Within, Sends, N, Url, Fresh
<1>4. Known' /\ SendingInOrder'
  BY <1>1 DEF InOrder, Known, SendingInOrder, DaemonWithin, Within, Ids, Sends, N, Url, Fresh, NoWatch
<1>5. MessagesInOrder'
  BY <1>1 DEF InOrder, MessagesInOrder, DaemonWithin, Within, Ids, Sends, N, Url, Fresh, NoWatch
<1> QED
  BY <1>2, <1>4, <1>5 DEF InOrder

-----------------------------------------------------------------------------
(* What the parts of the invariant keep of a step. *)

LEMMA SameServices ==
  ASSUME Typed, services' = services
  PROVE  Ids' = Ids /\ \A i \in Ids : Kept(i)
BY DEF Ids, Kept, N, Sends, Url

LEMMA SameService ==
  ASSUME NEW i \in Ids, services'[i] = services[i]
  PROVE  Kept(i)
BY DEF Kept, N, Sends, Url

LEMMA StaleKept ==
  ASSUME NEW i, Emptied(i) \/ (Kept(i) /\ Stale(i)), N(i) \in Nat, held \subseteq held'
  PROVE  Stale(i)'
<1>1. \A u : Fresh(u)' => Fresh(u)
  BY FreshBefore
<1>2. CASE Emptied(i)
  BY <1>1, <1>2, NotFresh DEF Emptied, Stale, Fresh
<1>3. CASE Kept(i) /\ Stale(i)
  BY <1>1, <1>3 DEF Kept, Stale, Fresh
<1> QED
  BY <1>2, <1>3

LEMMA SameServiceInv ==
  ASSUME NEW i, services'[i] = services[i], ServiceInv(i), held \subseteq held'
  PROVE  ServiceInv(i)'
<1>1. \A u : Fresh(u)' => Fresh(u)
  BY FreshBefore
<1>2. N(i)' = N(i) /\ Sends(i)' = Sends(i) /\ \A k : Url(i, k)' = Url(i, k)
  BY DEF N, Sends, Url
<1> QED
  BY <1>1, <1>2 DEF ServiceInv, Stale, Fresh, Sorted

LEMMA SameServicesInv ==
  ASSUME ServicesInv, services' = services, held \subseteq held'
  PROVE  ServicesInv'
<1>1. Ids' = Ids /\ \A i \in Ids : ServiceInv(i)'
  BY SameServiceInv DEF Ids, ServicesInv
<1> QED
  BY <1>1 DEF ServicesInv

\* A service that is changed, if it was not made to live.
LEMMA OneServiceInv ==
  ASSUME ServicesInv, NEW i \in Ids, OnlyIn(i), ServiceInv(i)', held \subseteq held',
         services'[i].life = "live" => services[i].life = "live"
  PROVE  ServicesInv'
<1>1. Ids' = Ids /\ \A j \in Ids \ {i} : services'[j] = services[j]
  BY DEF Ids, OnlyIn
<1>2. \A j \in Ids : ServiceInv(j)'
  BY <1>1, SameServiceInv DEF ServicesInv
<1>3. \A j \in Ids : services'[j].life = "live" => services[j].life = "live"
  BY <1>1
<1> QED
  BY <1>1, <1>2, <1>3 DEF ServicesInv

LEMMA PathsKept ==
  ASSUME PathsFollowed, UNCHANGED <<url, backlog>>, UrlFollows => UrlFollows', installed' => installed
  PROVE  PathsFollowed'
BY DEF PathsFollowed

LEMMA FirstKept ==
  ASSUME PathFirst, UNCHANGED <<url, backlog>>, faults \subseteq faults', installed' => installed,
         NoFault' => lib' # "failed" /\ \A i \in Ids' : services'[i].life # "killed" /\ lib' = "loaded",
         \A i \in Ids' : services'[i].at = "url" \/ services'[i].mStart =>
                         i \in Ids /\ (services[i].at = "url" \/ services[i].mStart)
  PROVE  PathFirst'
<1> SUFFICES ASSUME installed', NoFault'
             PROVE  /\ lib' # "failed" /\ \A i \in Ids' : services'[i].life # "killed" /\ lib' = "loaded"
                    /\ \A i \in Ids' : services'[i].at = "url" \/ services'[i].mStart =>
                         url # NoWatch \/ \E k \in 1..Len(backlog) : backlog[k] = NoUrl
                    /\ url = NoWatch => \A l \in 1..Len(backlog) : \E k \in 1..l : backlog[k] = NoUrl
  BY DEF PathFirst, NoUrl, NoWatch
<1>1. installed /\ NoFault
  BY DEF NoFault
<1> QED
  BY <1>1 DEF PathFirst

LEMMA LatestKept ==
  ASSUME LatestOnItsWay, UNCHANGED <<url, backlog, sUrl>>, toConnect' = 0 => toConnect = 0,
         faults \subseteq faults', held \subseteq held',
         (\E i \in Ids : Holds(i, sUrl)) => \E i \in Ids' : Holds(i, sUrl)',
         (\A i \in Ids : Stale(i)) => \A i \in Ids' : Stale(i)'
  PROVE  LatestOnItsWay'
<1>1. NoFault' => NoFault
  BY DEF NoFault
<1>2. DaemonGood => DaemonGood'
  <2>1. \A u : Good(u) => Good(u)'
    BY DEF Good
  <2> QED
    BY <2>1 DEF DaemonGood, Good, NoUrl
<1> QED
  BY <1>1, <1>2 DEF LatestOnItsWay, Holds, NoUrl

-----------------------------------------------------------------------------
(* The steps of the application and of the service. *)

LEMMA WayParts ==
  ASSUME WayInv
  PROVE  /\ TypeOK /\ Typed /\ AppInv /\ ServicesInv /\ InOrder
         /\ DaemonOff /\ PathsFollowed /\ PathFirst /\ LatestOnItsWay
BY Parts DEF WayInv

LEMMA SetStep ==
  ASSUME WayInv, SetHttpRequestOnUninstall, UNCHANGED installed
  PROVE  WayInv'
<1>0. /\ TypeOK /\ Typed /\ AppInv /\ ServicesInv /\ InOrder
      /\ DaemonOff /\ PathsFollowed /\ PathFirst /\ LatestOnItsWay
  BY WayParts
<1>1. /\ updates < MaxUpdates /\ updates' = updates + 1 /\ sUrl' = updates + 1
      /\ started' = TRUE /\ bound' = bound + 1 /\ toConnect' = toConnect + 1
      /\ UNCHANGED <<lib, services, daemon, backlog, url, held, kills, faults>>
  BY DEF SetHttpRequestOnUninstall, daemonVars, history
<1>2. updates \in Nat /\ bound \in Nat /\ toConnect \in Nat /\ bound <= updates /\ toConnect <= bound
  BY <1>0 DEF TypeOK, AppInv
<1>3. TypeOK' /\ AppInv'
  BY <1>0, <1>1, <1>2, Constants DEF TypeOK, AppInv
<1>4. Typed'
  BY <1>3, PartsNext
<1>5. ServicesInv'
  BY <1>0, <1>1, SameServicesInv
<1>6. InOrder'
  <2>1. Thinned
    BY <1>0, <1>1, <1>2, SameServices DEF Thinned
  <2> QED
    BY <1>0, <1>4, <2>1, ThinnedInOrder
<1>7. DaemonOff'
  BY <1>0, <1>1 DEF DaemonOff, NoWatch
<1>8. PathsFollowed'
  BY <1>0, <1>1, PathsKept DEF UrlFollows, Ids
<1>9. PathFirst'
  BY <1>0, <1>1 DEF PathFirst, NoFault, Ids, NoUrl, NoWatch
<1>10. LatestOnItsWay'
  BY <1>1, <1>2 DEF LatestOnItsWay
<1> QED
  BY <1>3, <1>5, <1>6, <1>7, <1>8, <1>9, <1>10 DEF WayInv

LEMMA KillApplicationStep ==
  ASSUME WayInv, KillApplication, UNCHANGED installed
  PROVE  WayInv'
<1>0. /\ TypeOK /\ Typed /\ AppInv /\ ServicesInv /\ InOrder
      /\ DaemonOff /\ PathsFollowed /\ PathFirst /\ LatestOnItsWay
  BY WayParts
<1>1. /\ kills < MaxKills /\ kills' = kills + 1
      /\ sUrl' = NoUrl /\ bound' = 0 /\ toConnect' = 0
      /\ UNCHANGED <<updates, started, lib, services, daemon, backlog, url, held, faults>>
  BY DEF KillApplication, daemonVars, serviceVars
<1>2. TypeOK' /\ AppInv'
  BY <1>0, <1>1, Constants DEF TypeOK, AppInv
<1>3. Typed'
  BY <1>2, PartsNext
<1>4. ServicesInv'
  BY <1>0, <1>1, SameServicesInv
<1>5. InOrder'
  <2>1. Thinned
    BY <1>0, <1>1, SameServices DEF Thinned, Typed
  <2> QED
    BY <1>0, <1>3, <2>1, ThinnedInOrder
<1>6. DaemonOff'
  BY <1>0, <1>1 DEF DaemonOff, NoWatch
<1>7. PathsFollowed'
  BY <1>0, <1>1, PathsKept DEF UrlFollows, Ids
<1>8. PathFirst'
  BY <1>0, <1>1 DEF PathFirst, NoFault, Ids, NoUrl, NoWatch
<1>9. LatestOnItsWay'
  BY <1>1 DEF LatestOnItsWay, NoUrl
<1> QED
  BY <1>2, <1>4, <1>5, <1>6, <1>7, <1>8, <1>9 DEF WayInv

LEMMA ConnectStep ==
  ASSUME WayInv, OnServiceConnected, UNCHANGED installed
  PROVE  WayInv'
<1>0. /\ TypeOK /\ Typed /\ AppInv /\ ServicesInv /\ InOrder
      /\ DaemonOff /\ PathsFollowed /\ PathFirst /\ LatestOnItsWay
  BY WayParts
<1>1. PICK i \in Live, wait \in {0, InitDelay} :
        /\ services' = [services EXCEPT ![i].messages =
                          Enqueue(Enqueue(@, SetUrlMessage(sUrl, wait)), StopMessage)]
        /\ held' = IF wait = 0 THEN held ELSE held \cup {sUrl}
  BY DEF OnServiceConnected
<1>2. /\ toConnect > 0 /\ toConnect' = toConnect - 1
      /\ UNCHANGED <<sUrl, updates, bound, started, lib, daemon, backlog, url, kills, faults>>
  BY DEF OnServiceConnected, daemonVars
<1>3. /\ i \in Ids /\ services[i].life = "live" /\ held \subseteq held'
      /\ sUrl = updates /\ sUrl \in Updates /\ updates \in Nat /\ held' \subseteq Updates
  <2>1. i \in Ids /\ services[i].life = "live"
    BY <1>0 DEF Live, Typed
  <2>2. sUrl = updates /\ updates \in Nat /\ updates >= 1 /\ updates <= MaxUpdates /\ held \subseteq Updates
    BY <1>0, <1>2 DEF TypeOK, AppInv
  <2> QED
    BY <1>1, <2>1, <2>2, Constants
<1>4. Sorted(services[i].messages) /\ ServiceInv(i)
  BY <1>0, <1>3 DEF ServicesInv, ServiceInv
<1> DEFINE effect(p) ==
             /\ \A k \in 1..(p - 1) : services'[i].messages[k] = services[i].messages[k]
             /\ services'[i].messages[p].url = sUrl /\ services'[i].messages[p].wait = wait
             /\ \A k \in p..N(i) : /\ services'[i].messages[k + 1] = services[i].messages[k]
                                   /\ services[i].messages[k].wait > wait
<1>5. /\ OnlyIn(i) /\ services'[i].life = services[i].life /\ services'[i].mStart = services[i].mStart
      /\ services'[i].at = services[i].at /\ services'[i].sending = services[i].sending
      /\ N(i) \in Nat /\ N(i)' = N(i) + 2 /\ Sorted(services'[i].messages)
      /\ services'[i].messages[N(i) + 2].url = NoUrl
      /\ \E p \in 1..(N(i) + 1) : effect(p)
  BY <1>0, <1>1, <1>3, <1>4, ConnectEffect DEF Typed
<1>6. PICK p \in 1..(N(i) + 1) : effect(p)
  BY <1>5
<1>7. TypeOK' /\ AppInv'
  <2>1. services' \in Seq(Service) /\ Len(services') = Len(services)
    BY <1>5 DEF OnlyIn
  <2>2. toConnect' \in 0..bound
    BY <1>0, <1>2 DEF TypeOK
  <2> QED
    BY <1>0, <1>2, <1>3, <2>1, <2>2 DEF TypeOK, AppInv
<1>8. Typed'
  BY <1>7, PartsNext
<1>9. Ids' = Ids /\ \A j \in Ids \ {i} : services'[j] = services[j] /\ Kept(j) /\ Stale(j)
  <2>1. Ids' = Ids /\ \A j \in Ids \ {i} : services'[j] = services[j]
    BY <1>5 DEF OnlyIn, Ids
  <2>2. \A j \in Ids \ {i} : services[j].life # "live"
    BY <1>0, <1>3 DEF ServicesInv
  <2>3. \A j \in Ids \ {i} : Stale(j)
    BY <1>0, <2>2 DEF ServicesInv, ServiceInv
  <2> QED
    BY <2>1, <2>3, SameService
<1>10. wait \in Nat /\ N(i) \in Nat /\ \A k \in 1..N(i) : services[i].messages[k].wait \in Nat
  <2>1. wait \in Nat
    BY DEF InitDelay
  <2>2. N(i) \in Nat /\ \A k \in 1..N(i) : services[i].messages[k].wait \in Nat
    BY <1>0, <1>3 DEF Typed
  <2> QED
    BY <2>1, <2>2
<1>11. \A k \in 1..N(i)' : \/ k \in 1..(p - 1) /\ services'[i].messages[k] = services[i].messages[k]
                           \/ /\ k = p /\ services'[i].messages[k].url = updates
                              /\ services'[i].messages[k].wait = wait
                           \/ /\ k - 1 \in p..N(i)
                              /\ services'[i].messages[k] = services[i].messages[k - 1]
                           \/ services'[i].messages[k].url = NoUrl
  <2> TAKE k \in 1..N(i)'
  <2>1. CASE k < p
    BY <1>5, <1>6, <2>1
  <2>2. CASE k = p
    BY <1>3, <1>6, <2>2
  <2>3. CASE k > p /\ k <= N(i) + 1
    <3>1. k - 1 \in p..N(i) /\ (k - 1) + 1 = k
      BY <1>5, <2>3
    <3> QED
      BY <1>6, <3>1
  <2>4. CASE k = N(i) + 2
    BY <1>5, <2>4
  <2>5. k < p \/ k = p \/ (k > p /\ k <= N(i) + 1) \/ k = N(i) + 2
    BY <1>5
  <2> QED
    BY <2>1, <2>2, <2>3, <2>4, <2>5
<1>12. Connected(i, p)
  <2>1. Sends(i)' = Sends(i) /\ Url(i, p)' = updates /\ \A k \in 1..(p - 1) : Url(i, k)' = Url(i, k)
    BY <1>3, <1>5, <1>6 DEF Sends, Url
  <2>2. ASSUME NEW k \in p..N(i)
        PROVE  Url(i, k + 1)' = Url(i, k) /\ ~Fresh(Url(i, k))
    <3>1. services[i].messages[k].wait > 0 /\ k \in 1..N(i)
      BY <1>6, <1>10
    <3> QED
      BY <1>4, <1>6, <3>1 DEF ServiceInv, Url
  <2>3. \A k \in 1..N(i)' : k = N(i) + 2 => Url(i, k)' = NoUrl
    BY <1>5 DEF Url
  <2> QED
    BY <1>5, <1>9, <2>1, <2>2, <2>3 DEF Connected
<1>13. InOrder'
  BY <1>0, <1>2, <1>3, <1>8, <1>12, ConnectInOrder
<1>14. ServicesInv'
  <2>1. \A u : Fresh(u)' => Fresh(u)
    BY <1>3, FreshBefore
  <2>2. ASSUME NEW k \in 1..N(i)', services'[i].messages[k].wait > 0
        PROVE  ~Fresh(Url(i, k))'
    <3>1. CASE k \in 1..(p - 1) /\ services'[i].messages[k] = services[i].messages[k]
      <4>1. k \in 1..N(i)
        BY <1>10, <3>1
      <4>2. ~Fresh(Url(i, k))
        BY <1>4, <2>2, <3>1, <4>1 DEF ServiceInv
      <4> QED
        BY <2>1, <3>1, <4>2 DEF Url, Fresh
    <3>2. CASE /\ k = p /\ services'[i].messages[k].url = updates
               /\ services'[i].messages[k].wait = wait
      <4>1. updates \in held'
        BY <1>1, <1>3, <2>2, <3>2
      <4> QED
        BY <3>2, <4>1 DEF Url, Fresh
    <3>3. CASE k - 1 \in p..N(i) /\ services'[i].messages[k] = services[i].messages[k - 1]
      <4>1. k - 1 \in 1..N(i)
        BY <3>3
      <4>2. ~Fresh(Url(i, k - 1))
        BY <1>4, <2>2, <3>3, <4>1 DEF ServiceInv
      <4> QED
        BY <2>1, <3>3, <4>2 DEF Url, Fresh
    <3>4. CASE services'[i].messages[k].url = NoUrl
      BY <2>1, <3>4, NotFresh DEF Url, Fresh
    <3> QED
      BY <1>11, <3>1, <3>2, <3>3, <3>4
  <2>3. Sends(i)' = Sends(i)
    BY <1>5 DEF Sends
  <2>4. ServiceInv(i)'
    BY <1>3, <1>4, <1>5, <2>2, <2>3 DEF ServiceInv, NoUrl
  <2> QED
    BY <1>0, <1>3, <1>5, <2>4, OneServiceInv
<1>15. DaemonOff'
  BY <1>0, <1>2 DEF DaemonOff, NoWatch
<1>16. PathsFollowed'
  <2>1. \A j \in Ids : services'[j].at = services[j].at
    BY <1>5, <1>9
  <2>2. UrlFollows => UrlFollows'
    BY <1>2, <1>9, <2>1 DEF UrlFollows
  <2> QED
    BY <1>0, <1>2, <2>2, PathsKept
<1>17. PathFirst'
  <2>1. \A j \in Ids : /\ services'[j].at = services[j].at /\ services'[j].life = services[j].life
                       /\ services'[j].mStart = services[j].mStart
    BY <1>5, <1>9
  <2>2. NoFault' => NoFault
    BY <1>2 DEF NoFault
  <2> QED
    BY <1>0, <1>2, <1>9, <2>1, <2>2 DEF PathFirst, NoUrl, NoWatch
<1>18. LatestOnItsWay'
  <2>1. p \in 1..N(i)' /\ Url(i, p)' = sUrl'
    BY <1>2, <1>3, <1>5, <1>6 DEF Url
  <2>2. Holds(i, sUrl)'
    BY <2>1 DEF Holds
  <2> QED
    BY <1>3, <1>9, <2>2 DEF LatestOnItsWay
<1> QED
  BY <1>7, <1>13, <1>14, <1>15, <1>16, <1>17, <1>18 DEF WayInv

LEMMA CreateStep ==
  ASSUME WayInv, OnCreate, UNCHANGED installed
  PROVE  WayInv'
<1>0. /\ TypeOK /\ Typed /\ AppInv /\ ServicesInv /\ InOrder
      /\ DaemonOff /\ PathsFollowed /\ PathFirst /\ LatestOnItsWay
  BY WayParts
<1>1. /\ Live = {} /\ Len(services) < MaxServices /\ LoadLibrary
      /\ UNCHANGED <<sUrl, updates, bound, toConnect, started, backlog, url, held, kills>>
  BY DEF OnCreate, appVars
<1>2. PICK n \in Nat : n = Len(services) + 1
  BY <1>0 DEF Typed
<1>3. /\ services' \in Seq(Service) /\ Len(services') = n
      /\ \A i \in Ids : services'[i] = services[i]
      /\ services'[n] = New
  BY <1>0, <1>2, CreateEffect DEF Typed
<1>4. /\ lib' \in {"unloaded", "loaded", "failed"} /\ daemon' \in {"none", "starting", "listening"}
      /\ faults' \in {faults, faults \cup {"library"}, faults \cup {"fork"}}
      /\ daemon' = "listening" <=> daemon = "listening"
      /\ (lib' = "failed" => lib = "failed" \/ "library" \in faults') /\ lib' # "unloaded"
  BY <1>0, <1>1 DEF LoadLibrary, TypeOK
<1>5. faults \subseteq faults' /\ (NoFault' => NoFault /\ "library" \notin faults')
  BY <1>4 DEF NoFault, ServiceFaults
<1>6. TypeOK' /\ AppInv'
  <2>1. faults' \subseteq ServiceFaults \cup DaemonFaults
    BY <1>0, <1>4 DEF TypeOK, ServiceFaults
  <2>2. Len(services') <= MaxServices
    BY <1>0, <1>1, <1>2, <1>3, ServiceAssumption DEF Typed, ServiceAssumption
  <2> QED
    BY <1>0, <1>1, <1>3, <1>4, <2>1, <2>2 DEF TypeOK, AppInv
<1>7. Typed'
  BY <1>6, PartsNext
<1>8. /\ Ids' = Ids \cup {n} /\ n \notin Ids
      /\ \A i \in Ids : services'[i] = services[i] /\ Kept(i)
  <2>1. Ids' = 1..n /\ Ids = 1..Len(services) /\ Len(services) \in Nat
    BY <1>0, <1>3 DEF Ids, Typed
  <2> QED
    BY <1>2, <1>3, <2>1, SameService
<1>9. /\ services'[n].life = "live" /\ services'[n].at = "idle" /\ services'[n].mStart = FALSE
      /\ services'[n].messages = <<>> /\ Emptied(n)
  BY <1>3 DEF New, Emptied, N, Sends
<1>10. ServicesInv'
  <2>1. \A i \in Ids : ServiceInv(i)'
    BY <1>0, <1>1, <1>8, SameServiceInv DEF ServicesInv
  <2>2. ServiceInv(n)'
    BY <1>9, NotFresh DEF ServiceInv, Sorted, Emptied, NoUrl
  <2>3. \A i \in Ids : services'[i].life # "live"
    BY <1>0, <1>1, <1>8 DEF Live, Typed
  <2> QED
    BY <1>8, <2>1, <2>2, <2>3 DEF ServicesInv
<1>11. InOrder'
  <2>1. Thinned
    BY <1>0, <1>1, <1>8, <1>9 DEF Thinned, Typed
  <2> QED
    BY <1>0, <1>7, <2>1, ThinnedInOrder
<1>12. DaemonOff'
  BY <1>0, <1>1, <1>4 DEF DaemonOff, NoWatch
<1>13. PathsFollowed'
  <2>1. UrlFollows => UrlFollows'
    BY <1>5, <1>8 DEF UrlFollows
  <2> QED
    BY <1>0, <1>1, <2>1, PathsKept
<1>14. PathFirst'
  <2>1. ASSUME NoFault', installed
        PROVE  lib' # "failed" /\ \A i \in Ids' : services'[i].life # "killed" /\ lib' = "loaded"
    <3>1. lib # "failed" /\ \A i \in Ids : services[i].life # "killed"
      BY <1>0, <1>5, <2>1 DEF PathFirst
    <3>2. lib' = "loaded"
      BY <1>4, <1>5, <2>1, <3>1
    <3> QED
      BY <1>8, <1>9, <3>1, <3>2
  <2>2. \A i \in Ids' : services'[i].at = "url" \/ services'[i].mStart =>
                         i \in Ids /\ (services[i].at = "url" \/ services[i].mStart)
    BY <1>8, <1>9
  <2>3. CASE ~installed
    BY <2>3 DEF PathFirst
  <2>4. CASE installed
    BY <1>0, <1>1, <1>5, <2>1, <2>2, <2>4, FirstKept
  <2> QED
    BY <2>3, <2>4
<1>15. LatestOnItsWay'
  <2>1. \A i \in Ids : Holds(i, sUrl) => Holds(i, sUrl)'
    BY <1>1, <1>8 DEF Holds, Kept
  <2>2. (\A i \in Ids : Stale(i)) => \A i \in Ids' : Stale(i)'
    <3>1. \A i \in Ids : Stale(i) => Stale(i)'
      BY <1>0, <1>1, <1>8, StaleKept DEF Typed
    <3>2. Stale(n)'
      <4>1. ~Fresh(NoUrl)'
        BY <1>1, NotFresh DEF Fresh, NoUrl
      <4> QED
        BY <1>9, <4>1 DEF Emptied, Stale, Fresh
    <3> QED
      BY <1>8, <3>1, <3>2
  <2> QED
    BY <1>0, <1>1, <1>5, <1>8, <2>1, <2>2, LatestKept
<1> QED
  BY <1>6, <1>10, <1>11, <1>12, <1>13, <1>14, <1>15 DEF WayInv

LEMMA TimerStep ==
  ASSUME WayInv, NEW i \in Ids, TimerTask(i), UNCHANGED installed
  PROVE  WayInv'
<1>0. /\ TypeOK /\ Typed /\ AppInv /\ ServicesInv /\ InOrder
      /\ DaemonOff /\ PathsFollowed /\ PathFirst /\ LatestOnItsWay
  BY WayParts
<1>1. UNCHANGED <<sUrl, updates, bound, toConnect, started, lib, daemon, backlog, url, held, kills, faults>>
  BY DEF TimerTask, appVars, daemonVars, history
<1>2. /\ OnlyIn(i)
      /\ services'[i].life = services[i].life /\ services'[i].messages = services[i].messages
      /\ services'[i].mStart = services[i].mStart /\ services'[i].at = services[i].at
      /\ services'[i].sending = services[i].sending
  BY <1>0, TimerTaskEffect DEF Typed
<1>3. TypeOK' /\ AppInv'
  BY <1>0, <1>1, <1>2 DEF TypeOK, AppInv, OnlyIn
<1>4. Typed'
  BY <1>3, PartsNext
<1>5. /\ Ids' = Ids
      /\ \A j \in Ids : /\ services'[j].life = services[j].life /\ services'[j].mStart = services[j].mStart
                        /\ services'[j].at = services[j].at /\ Kept(j)
  BY <1>2 DEF OnlyIn, Ids, Kept, N, Sends, Url
<1>6. ServicesInv'
  <2>1. \A u : Fresh(u)' = Fresh(u)
    BY <1>1 DEF Fresh
  <2>2. N(i)' = N(i) /\ Sends(i)' = Sends(i) /\ \A k : Url(i, k)' = Url(i, k)
    BY <1>2 DEF N, Sends, Url
  <2>3. ServiceInv(i)
    BY <1>0 DEF ServicesInv
  <2>4. ServiceInv(i)'
    BY <1>2, <2>1, <2>2, <2>3 DEF ServiceInv, Stale, Fresh, NoUrl
  <2> QED
    BY <1>0, <1>1, <1>2, <2>4, OneServiceInv
<1>7. InOrder'
  <2>1. Thinned
    BY <1>0, <1>1, <1>5 DEF Thinned, Typed
  <2> QED
    BY <1>0, <1>4, <2>1, ThinnedInOrder
<1>8. DaemonOff'
  BY <1>0, <1>1 DEF DaemonOff, NoWatch
<1>9. PathsFollowed'
  <2>1. UrlFollows => UrlFollows'
    BY <1>1, <1>5 DEF UrlFollows
  <2> QED
    BY <1>0, <1>1, <2>1, PathsKept
<1>10. PathFirst'
  <2>1. NoFault' => NoFault
    BY <1>1 DEF NoFault
  <2> QED
    BY <1>0, <1>1, <1>5, <2>1 DEF PathFirst, NoUrl, NoWatch
<1>11. LatestOnItsWay'
  <2>1. \A j \in Ids : Holds(j, sUrl) => Holds(j, sUrl)'
    BY <1>1, <1>5 DEF Holds, Kept
  <2>2. \A j \in Ids : Stale(j) => Stale(j)'
    BY <1>0, <1>1, <1>5, StaleKept DEF Typed
  <2> QED
    BY <1>0, <1>1, <1>5, <2>1, <2>2, LatestKept
<1> QED
  BY <1>3, <1>6, <1>7, <1>8, <1>9, <1>10, <1>11 DEF WayInv

LEMMA TickStep ==
  ASSUME WayInv, Tick, UNCHANGED installed
  PROVE  WayInv'
<1>0. /\ TypeOK /\ Typed /\ AppInv /\ ServicesInv /\ InOrder
      /\ DaemonOff /\ PathsFollowed /\ PathFirst /\ LatestOnItsWay
  BY WayParts
<1>1. UNCHANGED <<sUrl, updates, bound, toConnect, started, lib, daemon, backlog, url, held, kills, faults>>
  BY DEF Tick, appVars, daemonVars, history
<1>2. /\ services' \in Seq(Service) /\ Len(services') = Len(services)
      /\ \A i \in Ids :
           /\ services'[i].life = services[i].life /\ services'[i].at = services[i].at
           /\ services'[i].sending = services[i].sending /\ services'[i].mStart = services[i].mStart
           /\ N(i) \in Nat /\ N(i)' = N(i)
           /\ \A k \in 1..N(i) :
                /\ services'[i].messages[k].url = services[i].messages[k].url
                /\ services'[i].messages[k].wait = Soon(services[i].messages[k].wait)
           /\ Sorted(services[i].messages) => Sorted(services'[i].messages)
  BY <1>0, TickEffect DEF Typed
<1>3. TypeOK' /\ AppInv'
  BY <1>0, <1>1, <1>2 DEF TypeOK, AppInv
<1>4. Typed'
  BY <1>3, PartsNext
<1>5. Ids' = Ids /\ \A i \in Ids : Kept(i)
  BY <1>2 DEF Ids, Kept, Sends, Url
<1>6. ServicesInv'
  <2>1. \A u : Fresh(u)' = Fresh(u)
    BY <1>1 DEF Fresh
  <2>2. ASSUME NEW i \in Ids
        PROVE  ServiceInv(i)'
    <3>1. ServiceInv(i)
      BY <1>0 DEF ServicesInv
    <3>2. /\ N(i)' = N(i) /\ Sends(i)' = Sends(i) /\ \A k \in 1..N(i) : Url(i, k)' = Url(i, k)
      BY <1>2 DEF Sends, Url
    <3>3. \A k \in 1..N(i) : services'[i].messages[k].wait > 0 => services[i].messages[k].wait > 0
      <4> TAKE k \in 1..N(i)
      <4>1. services[i].messages[k].wait \in Nat
        BY <1>0 DEF Typed
      <4>2. services'[i].messages[k].wait = Soon(services[i].messages[k].wait)
        BY <1>2
      <4> QED
        BY <4>1, <4>2 DEF Soon
    <3>4. Stale(i) => Stale(i)'
      BY <2>1, <3>2 DEF Stale, Fresh
    <3> QED
      BY <1>2, <2>1, <3>1, <3>2, <3>3, <3>4 DEF ServiceInv, Fresh, NoUrl
  <2> QED
    BY <1>0, <1>2, <1>5, <2>2 DEF ServicesInv
<1>7. InOrder'
  <2>1. Thinned
    BY <1>0, <1>1, <1>5 DEF Thinned, Typed
  <2> QED
    BY <1>0, <1>4, <2>1, ThinnedInOrder
<1>8. DaemonOff'
  BY <1>0, <1>1 DEF DaemonOff, NoWatch
<1>9. PathsFollowed'
  <2>1. UrlFollows => UrlFollows'
    BY <1>1, <1>2, <1>5 DEF UrlFollows
  <2> QED
    BY <1>0, <1>1, <2>1, PathsKept
<1>10. PathFirst'
  <2>1. NoFault' => NoFault
    BY <1>1 DEF NoFault
  <2> QED
    BY <1>0, <1>1, <1>2, <1>5, <2>1 DEF PathFirst, NoUrl, NoWatch
<1>11. LatestOnItsWay'
  <2>1. \A j \in Ids : Holds(j, sUrl) => Holds(j, sUrl)'
    BY <1>1, <1>5 DEF Holds, Kept
  <2>2. \A j \in Ids : Stale(j) => Stale(j)'
    BY <1>0, <1>1, <1>5, StaleKept DEF Typed
  <2> QED
    BY <1>0, <1>1, <1>5, <2>1, <2>2, LatestKept
<1> QED
  BY <1>3, <1>6, <1>7, <1>8, <1>9, <1>10, <1>11 DEF WayInv

LEMMA WaitingIsHeld ==
  ASSUME Typed, NEW i \in Ids
  PROVE  \A u : u \in Waiting(i) <=> Holds(i, u)
<1> DEFINE q == services[i].messages
<1>1. q \in Seq(Message) /\ DOMAIN q = 1..Len(q) /\ N(i) = Len(q)
  BY DEF Typed, N
<1>2. ToSet(q) = {q[k] : k \in 1..N(i)}
  BY <1>1 DEF ToSet
<1>3. \A k : Url(i, k) = q[k].url
  BY DEF Url
<1> HIDE DEF q
<1>4. \A u : u \in {m.url : m \in ToSet(q)} <=> \E k \in 1..N(i) : Url(i, k) = u
  BY <1>2, <1>3
<1> QED
  BY <1>4 DEF Waiting, Holds, Sends, q

LEMMA DestroyStep ==
  ASSUME WayInv, Destroy, UNCHANGED installed
  PROVE  WayInv'
<1>0. /\ TypeOK /\ Typed /\ AppInv /\ ServicesInv /\ InOrder
      /\ DaemonOff /\ PathsFollowed /\ PathFirst /\ LatestOnItsWay
  BY WayParts
<1>1. UNCHANGED <<sUrl, updates, bound, toConnect, started, lib, daemon, backlog, url, kills, faults>>
  BY DEF Destroy, appVars, daemonVars
<1>2. PICK i \in Live : /\ services' = [services EXCEPT ![i].life = "destroyed"]
                        /\ held' = held \cup (Waiting(i) \cap Updates)
  BY DEF Destroy
<1>3. i \in Ids
  BY <1>0 DEF Live, Typed
<1>4. /\ OnlyIn(i) /\ services'[i].life = "destroyed"
      /\ services'[i].messages = services[i].messages /\ services'[i].at = services[i].at
      /\ services'[i].sending = services[i].sending /\ services'[i].mStart = services[i].mStart
  BY <1>0, <1>2, <1>3, DestroyEffect DEF Typed
<1>5. TypeOK' /\ AppInv'
  <2>1. held' \subseteq Updates
    BY <1>0, <1>2 DEF Typed
  <2> QED
    BY <1>0, <1>1, <1>4, <2>1 DEF TypeOK, AppInv, OnlyIn
<1>6. Typed'
  BY <1>5, PartsNext
<1>7. /\ Ids' = Ids /\ held \subseteq held'
      /\ \A j \in Ids : /\ services'[j].mStart = services[j].mStart
                        /\ services'[j].at = services[j].at /\ Kept(j)
  BY <1>2, <1>4 DEF OnlyIn, Ids, Kept, N, Sends, Url
<1>8. ServicesInv'
  <2>1. \A u : Fresh(u)' => Fresh(u)
    BY <1>7, FreshBefore
  <2>2. N(i)' = N(i) /\ Sends(i)' = Sends(i) /\ \A k : Url(i, k)' = Url(i, k)
    BY <1>4 DEF N, Sends, Url
  <2>3. ServiceInv(i)
    BY <1>0, <1>3 DEF ServicesInv
  <2>4. Stale(i)'
    <3>1. \A u : Holds(i, u) => ~Fresh(u)'
      BY <1>0, <1>2, <1>3, WaitingIsHeld DEF Fresh, Updates
    <3> QED
      BY <2>2, <3>1 DEF Holds, Stale, Fresh
  <2>5. ServiceInv(i)'
    BY <1>4, <2>1, <2>2, <2>3, <2>4 DEF ServiceInv, Fresh, NoUrl
  <2> QED
    BY <1>0, <1>3, <1>4, <1>7, <2>5, OneServiceInv
<1>9. InOrder'
  <2>1. Thinned
    BY <1>0, <1>1, <1>7 DEF Thinned, Typed
  <2> QED
    BY <1>0, <1>6, <2>1, ThinnedInOrder
<1>10. DaemonOff'
  BY <1>0, <1>1 DEF DaemonOff, NoWatch
<1>11. PathsFollowed'
  <2>1. UrlFollows => UrlFollows'
    BY <1>1, <1>7 DEF UrlFollows
  <2> QED
    BY <1>0, <1>1, <2>1, PathsKept
<1>12. PathFirst'
  <2>1. NoFault' => NoFault
    BY <1>1 DEF NoFault
  <2>2. \A j \in Ids : services'[j].life = services[j].life \/ services'[j].life # "killed"
    BY <1>3, <1>4 DEF OnlyIn
  <2> QED
    BY <1>0, <1>1, <1>7, <2>1, <2>2 DEF PathFirst, NoUrl, NoWatch
<1>13. LatestOnItsWay'
  <2>1. \A j \in Ids : Holds(j, sUrl) => Holds(j, sUrl)'
    BY <1>1, <1>7 DEF Holds, Kept
  <2>2. \A j \in Ids : Stale(j) => Stale(j)'
    BY <1>0, <1>1, <1>7, StaleKept DEF Typed
  <2> QED
    BY <1>0, <1>1, <1>7, <2>1, <2>2, LatestKept
<1> QED
  BY <1>5, <1>8, <1>9, <1>10, <1>11, <1>12, <1>13 DEF WayInv

\* The processes of the service end, all of them.
LEMMA AllKilled ==
  ASSUME Typed, services' = [i \in DOMAIN services |-> Killed(services[i])], held \subseteq held'
  PROVE  /\ services' \in Seq(Service) /\ Len(services') = Len(services) /\ Ids' = Ids
         /\ ServicesInv' /\ \A i \in Ids : Emptied(i) /\ Stale(i)'
<1>1. /\ services' \in Seq(Service) /\ Len(services') = Len(services)
      /\ \A i \in Ids :
           /\ services'[i].life = "killed" /\ services'[i].messages = <<>>
           /\ services'[i].at = "idle" /\ services'[i].sending = NoUrl /\ services'[i].mStart = FALSE
  BY KilledEffect DEF Typed
<1>2. Ids' = Ids
  BY <1>1 DEF Ids
<1>3. ~Fresh(NoUrl)'
  BY NotFresh, FreshBefore DEF Fresh, NoUrl
<1>4. ASSUME NEW i \in Ids
      PROVE  Emptied(i) /\ Stale(i)' /\ ServiceInv(i)'
  <2>1. services'[i].messages = <<>> /\ Len(<<>>) = 0 /\ services'[i].sending = NoUrl
    BY <1>1
  <2>2. Emptied(i)
    BY <2>1 DEF Emptied, N, Sends
  <2>3. Stale(i)'
    BY <1>3, <2>2 DEF Emptied, Stale, Fresh
  <2>4. Sorted(services'[i].messages)
    BY <2>1 DEF Sorted
  <2>5. (services'[i].at = "idle") = (Sends(i)' = NoUrl)
    BY <1>1, <2>2 DEF Emptied
  <2>6. N(i)' = 0 /\ services'[i].at = "idle"
    BY <1>1, <2>2 DEF Emptied
  <2> QED
    BY <2>2, <2>3, <2>4, <2>5, <2>6 DEF ServiceInv, NoUrl
<1>5. ServicesInv'
  BY <1>1, <1>2, <1>4 DEF ServicesInv
<1> QED
  BY <1>1, <1>2, <1>4, <1>5

LEMMA KillServiceStep ==
  ASSUME WayInv, KillService, UNCHANGED installed
  PROVE  WayInv'
<1>0. /\ TypeOK /\ Typed /\ AppInv /\ ServicesInv /\ InOrder
      /\ DaemonOff /\ PathsFollowed /\ PathFirst /\ LatestOnItsWay
  BY WayParts
<1>1. /\ kills < MaxKills /\ kills' = kills + 1
      /\ services' = [i \in DOMAIN services |-> Killed(services[i])]
      /\ lib' = "unloaded" /\ faults' = faults \cup {"service"} /\ toConnect' = bound
      /\ UNCHANGED <<sUrl, updates, bound, started, daemon, backlog, url, held>>
  BY DEF KillService, daemonVars
<1>2. /\ services' \in Seq(Service) /\ Len(services') = Len(services) /\ Ids' = Ids
      /\ ServicesInv' /\ \A i \in Ids : Emptied(i)
  BY <1>0, <1>1, AllKilled
<1>3. TypeOK' /\ AppInv'
  <2>1. bound \in Nat /\ kills + 1 \in 0..MaxKills
    BY <1>0, <1>1, Constants DEF TypeOK
  <2>2. faults' \subseteq ServiceFaults \cup DaemonFaults
    BY <1>0, <1>1 DEF TypeOK, ServiceFaults
  <2> QED
    BY <1>0, <1>1, <1>2, <2>1, <2>2 DEF TypeOK, AppInv
<1>4. Typed'
  BY <1>3, PartsNext
<1>5. InOrder'
  <2>1. Thinned
    BY <1>0, <1>1, <1>2 DEF Thinned, Typed
  <2> QED
    BY <1>0, <1>4, <2>1, ThinnedInOrder
<1>6. DaemonOff'
  BY <1>0, <1>1 DEF DaemonOff, NoWatch
<1>7. PathsFollowed'
  <2>1. UrlFollows'
    BY <1>1 DEF UrlFollows
  <2> QED
    BY <1>0, <1>1, <2>1, PathsKept
<1>8. ~NoFault'
  BY <1>1 DEF NoFault, ServiceFaults
<1> QED
  BY <1>2, <1>3, <1>5, <1>6, <1>7, <1>8 DEF WayInv, PathFirst, LatestOnItsWay

LEMMA HandleMessageStep ==
  ASSUME WayInv, NEW i \in Ids, HandleMessage(i), UNCHANGED installed, installed
  PROVE  WayInv'
<1>0. /\ TypeOK /\ Typed /\ AppInv /\ ServicesInv /\ InOrder
      /\ DaemonOff /\ PathsFollowed /\ PathFirst /\ LatestOnItsWay
  BY WayParts
<1>1. /\ UNCHANGED <<sUrl, updates, bound, toConnect, lib, daemon, backlog, url, held, kills, faults>>
      /\ started' \in BOOLEAN
  BY <1>0 DEF HandleMessage, appVars, daemonVars, history, TypeOK
<1>2. /\ OnlyIn(i) /\ services[i].at = "idle" /\ N(i) \in Nat \ {0} /\ N(i)' = N(i) - 1
      /\ services'[i].life = services[i].life /\ services'[i].mStart = services[i].mStart
      /\ \A k \in 1..N(i)' : services'[i].messages[k] = services[i].messages[k + 1]
      /\ \/ /\ lib = "loaded" /\ Url(i, 1) \in Updates /\ Sends(i)' = Url(i, 1)
            /\ services'[i].at = IF services[i].mStart THEN "url" ELSE "path"
         \/ /\ lib # "loaded" \/ Url(i, 1) = NoUrl
            /\ Sends(i)' = Sends(i) /\ services'[i].at = "idle"
  BY <1>0, HandleMessageEffect DEF Typed
<1>3. TypeOK' /\ AppInv'
  BY <1>0, <1>1, <1>2 DEF TypeOK, AppInv, OnlyIn
<1>4. Typed'
  BY <1>3, PartsNext
<1>5. ServiceInv(i) /\ Sends(i) = NoUrl
  BY <1>0, <1>2 DEF ServicesInv, ServiceInv
<1>6. Ids' = Ids /\ \A j \in Ids \ {i} : services'[j] = services[j] /\ Kept(j)
  BY <1>2, SameService DEF OnlyIn, Ids
<1>7. \A k \in 1..N(i)' : Url(i, k)' = Url(i, k + 1) /\ k + 1 \in 1..N(i)
  BY <1>2 DEF Url
<1>8. \A u : Fresh(u)' = Fresh(u)
  BY <1>1 DEF Fresh
<1>9. Stale(i) => Stale(i)'
  BY <1>2, <1>5, <1>7, <1>8, NotFresh DEF Stale, Fresh
<1>10. ServicesInv'
  <2>1. (services'[i].at = "idle") = (Sends(i)' = NoUrl)
    BY <1>2, <1>5, Constants
  <2>2. Sorted(services'[i].messages)
    <3>1. N(i) = Len(services[i].messages) /\ N(i)' = Len(services'[i].messages)
      BY DEF N
    <3>2. \A k, l \in 1..N(i) : k <= l => services[i].messages[k].wait <= services[i].messages[l].wait
      BY <1>5, <3>1 DEF ServiceInv, Sorted
    <3>3. \A k \in 1..N(i)' :
            services'[i].messages[k].wait = services[i].messages[k + 1].wait /\ k + 1 \in 1..N(i)
      BY <1>2, <1>7
    <3>4. \A k, l \in 1..N(i)' : k <= l => k + 1 <= l + 1
      BY <1>2
    <3>5. \A k, l \in 1..N(i)' : k <= l => services'[i].messages[k].wait <= services'[i].messages[l].wait
      BY <3>2, <3>3, <3>4
    <3> QED
      BY <3>1, <3>5 DEF Sorted
  <2>3. \A k \in 1..N(i)' : services'[i].messages[k].wait > 0 => ~Fresh(Url(i, k))'
    BY <1>2, <1>5, <1>7, <1>8 DEF ServiceInv, Fresh
  <2>4. services'[i].life # "killed"
    BY <1>2, <1>5 DEF ServiceInv
  <2>5. ServiceInv(i)'
    BY <1>2, <1>5, <1>9, <2>1, <2>2, <2>3, <2>4 DEF ServiceInv, NoUrl
  <2> QED
    BY <1>0, <1>1, <1>2, <2>5, OneServiceInv
<1>11. InOrder'
  <2>1. Popped(i)
    BY <1>2, <1>5, <1>6, <1>7 DEF Popped
  <2> QED
    BY <1>0, <1>1, <1>4, <2>1, PoppedInOrder
<1>12. DaemonOff'
  BY <1>0, <1>1 DEF DaemonOff, NoWatch
<1>13. PathsFollowed'
  <2>1. UrlFollows => UrlFollows'
    BY <1>1, <1>2, <1>6 DEF UrlFollows
  <2> QED
    BY <1>0, <1>1, <2>1, PathsKept
<1>14. PathFirst'
  <2>1. NoFault' => NoFault
    BY <1>1 DEF NoFault
  <2>2. \A j \in Ids : services'[j].at = "url" \/ services'[j].mStart =>
                         services[j].at = "url" \/ services[j].mStart
    BY <1>2, <1>6
  <2>3. \A j \in Ids : services'[j].life = services[j].life
    BY <1>2, <1>6
  <2> QED
    BY <1>0, <1>1, <1>6, <2>1, <2>2, <2>3 DEF PathFirst, NoUrl, NoWatch
<1>15. LatestOnItsWay'
  <2> SUFFICES ASSUME NoFault', sUrl # NoUrl
               PROVE  LatestOnItsWay'
    BY <1>1 DEF LatestOnItsWay, NoUrl
  <2>1. lib = "loaded"
    BY <1>0, <1>1 DEF PathFirst, NoFault
  <2>2. Sends(i)' = Url(i, 1)
    BY <1>2, <1>5, <2>1
  <2>3. ASSUME NEW j \in Ids, Holds(j, sUrl)
        PROVE  Holds(j, sUrl)'
    <3>1. CASE j = i
      <4>1. PICK k \in 1..N(i) : Url(i, k) = sUrl
        BY <1>5, <2>3, <3>1 DEF Holds
      <4>2. CASE k = 1
        BY <1>1, <2>2, <3>1, <4>1, <4>2 DEF Holds
      <4>3. CASE k # 1
        <5>1. k - 1 \in 1..N(i)' /\ (k - 1) + 1 = k
          BY <1>2, <4>3
        <5>2. Url(i, k - 1)' = sUrl
          BY <1>7, <4>1, <5>1
        <5> QED
          BY <1>1, <3>1, <5>1, <5>2 DEF Holds
      <4> QED
        BY <4>2, <4>3
    <3>2. CASE j # i
      BY <1>1, <1>6, <2>3, <3>2 DEF Holds, Kept
    <3> QED
      BY <3>1, <3>2
  <2>4. \A j \in Ids : Stale(j) => Stale(j)'
    BY <1>0, <1>1, <1>6, <1>9, StaleKept DEF Typed
  <2> QED
    BY <1>0, <1>1, <1>6, <2>3, <2>4, LatestKept
<1> QED
  BY <1>3, <1>10, <1>11, <1>12, <1>13, <1>14, <1>15 DEF WayInv

\* A request is accepted, or refused when nobody listens.
LEMMA RequestSent ==
  ASSUME Typed, NEW r \in 0..MaxUpdates, SendRequest(r)
  PROVE  \/ /\ daemon = "listening" /\ faults' = faults /\ Appended(r) /\ backlog' \in Seq(0..MaxUpdates)
            /\ \E n \in 1..Len(backlog)' : n = Len(backlog) + 1 /\ backlog'[n] = r
         \/ daemon # "listening" /\ backlog' = backlog /\ faults' = faults \cup {"refused"}
<1>1. backlog \in Seq(0..MaxUpdates) /\ Len(backlog) \in Nat
  BY DEF Typed
<1>2. CASE daemon = "listening"
  <2>1. backlog' = Append(backlog, r) /\ faults' = faults
    BY <1>2 DEF SendRequest
  <2>2. /\ Len(backlog)' = Len(backlog) + 1 /\ backlog' \in Seq(0..MaxUpdates)
        /\ \A k \in 1..Len(backlog) : backlog'[k] = backlog[k]
        /\ backlog'[Len(backlog) + 1] = r
    BY <1>1, <2>1
  <2> QED
    BY <1>1, <1>2, <2>1, <2>2 DEF Appended
<1>3. CASE daemon # "listening"
  BY <1>3 DEF SendRequest
<1> QED
  BY <1>2, <1>3

LEMMA StartStep ==
  ASSUME WayInv, NEW i \in Ids, Start(i), UNCHANGED installed
  PROVE  WayInv'
<1>0. /\ TypeOK /\ Typed /\ AppInv /\ ServicesInv /\ InOrder
      /\ DaemonOff /\ PathsFollowed /\ PathFirst /\ LatestOnItsWay
  BY WayParts
<1>1. /\ UNCHANGED <<sUrl, updates, bound, toConnect, started, lib, daemon, url, held, kills>>
      /\ SendRequest(NoUrl) /\ services[i].at = "path"
  BY DEF Start, appVars
<1>2. /\ OnlyIn(i) /\ services'[i].at = "url"
      /\ services'[i].life = services[i].life /\ services'[i].messages = services[i].messages
      /\ services'[i].sending = services[i].sending
  BY <1>0, StartEffect DEF Typed
<1>3. \/ /\ daemon = "listening" /\ faults' = faults /\ Appended(NoUrl) /\ backlog' \in Seq(0..MaxUpdates)
         /\ \E n \in 1..Len(backlog)' : n = Len(backlog) + 1 /\ backlog'[n] = NoUrl
      \/ daemon # "listening" /\ backlog' = backlog /\ faults' = faults \cup {"refused"}
  BY <1>0, <1>1, RequestSent, Constants
<1>4. TypeOK' /\ AppInv'
  BY <1>0, <1>1, <1>2, <1>3 DEF TypeOK, AppInv, OnlyIn, ServiceFaults
<1>5. Typed'
  BY <1>4, PartsNext
<1>6. Ids' = Ids /\ \A j \in Ids : Kept(j)
  BY <1>2 DEF OnlyIn, Ids, Kept, N, Sends, Url
<1>7. ServicesInv'
  <2>1. \A u : Fresh(u)' = Fresh(u)
    BY <1>1 DEF Fresh
  <2>2. N(i)' = N(i) /\ Sends(i)' = Sends(i) /\ \A k : Url(i, k)' = Url(i, k)
    BY <1>2 DEF N, Sends, Url
  <2>3. ServiceInv(i)
    BY <1>0 DEF ServicesInv
  <2>4. ServiceInv(i)'
    BY <1>1, <1>2, <2>1, <2>2, <2>3 DEF ServiceInv, Stale, Fresh, NoUrl
  <2> QED
    BY <1>0, <1>1, <1>2, <2>4, OneServiceInv
<1>8. PathsFollowed'
  BY <1>2, <1>6 DEF PathsFollowed, UrlFollows
<1>9. DaemonOff'
  BY <1>0, <1>1, <1>3 DEF DaemonOff, NoWatch
<1>10. CASE backlog' = backlog /\ faults' = faults \cup {"refused"}
  <2>1. Thinned
    BY <1>0, <1>1, <1>6, <1>10 DEF Thinned, Typed
  <2>2. InOrder'
    BY <1>0, <1>5, <2>1, ThinnedInOrder
  <2>3. ~NoFault'
    BY <1>10 DEF NoFault, ServiceFaults
  <2> QED
    BY <1>4, <1>7, <1>8, <1>9, <2>2, <2>3 DEF WayInv, PathFirst, LatestOnItsWay
<1>11. CASE faults' = faults /\ Appended(NoUrl) /\ \E n \in 1..Len(backlog)' : n = Len(backlog) + 1 /\ backlog'[n] = NoUrl
  <2>1. InOrder'
    BY <1>0, <1>1, <1>5, <1>6, <1>11, PathInOrder
  <2>2. PICK n \in 1..Len(backlog)' : n = Len(backlog) + 1 /\ backlog'[n] = NoUrl
    BY <1>11
  <2>3. /\ Len(backlog)' = n /\ Len(backlog) \in Nat /\ n \in Nat /\ (\A k \in 1..Len(backlog) : backlog'[k] = backlog[k])
        /\ \A k \in 1..n : k \in 1..Len(backlog) \/ k = n
    BY <1>0, <1>11, <2>2 DEF Appended, Typed
  <2>4. NoFault' = NoFault
    BY <1>11 DEF NoFault
  <2>5. PathFirst'
    <3> SUFFICES ASSUME installed, NoFault
                 PROVE  /\ lib # "failed" /\ \A j \in Ids : services'[j].life # "killed" /\ lib = "loaded"
                        /\ url = NoWatch => \A l \in 1..n : \E k \in 1..l : backlog'[k] = NoUrl
      BY <1>1, <1>6, <2>2, <2>3, <2>4 DEF PathFirst, NoUrl, NoWatch
    <3>1. \A j \in Ids : services'[j].life = services[j].life
      BY <1>2 DEF OnlyIn
    <3>2. lib # "failed" /\ \A j \in Ids : services'[j].life # "killed" /\ lib = "loaded"
      BY <1>0, <3>1 DEF PathFirst
    <3>3. ASSUME url = NoWatch, NEW l \in 1..n
          PROVE  \E k \in 1..l : backlog'[k] = NoUrl
      <4>1. CASE l = n
        BY <2>2, <4>1
      <4>2. CASE l \in 1..Len(backlog)
        <5>1. PICK k \in 1..l : backlog[k] = NoUrl
          BY <1>0, <3>3, <4>2 DEF PathFirst
        <5>2. k \in 1..Len(backlog)
          BY <2>3, <4>2
        <5> QED
          BY <2>3, <5>1, <5>2
      <4> QED
        BY <2>3, <4>1, <4>2
    <3> QED
      BY <3>2, <3>3
  <2>6. LatestOnItsWay'
    <3>1. \A j \in Ids : Holds(j, sUrl) => Holds(j, sUrl)'
      BY <1>1, <1>6 DEF Holds, Kept
    <3>2. \A j \in Ids : Stale(j) => Stale(j)'
      BY <1>0, <1>1, <1>6, StaleKept DEF Typed
    <3>3. \A u : Good(u) = Good(u)'
      BY <1>1 DEF Good
    <3>4. DaemonGood => DaemonGood'
      <4>1. ASSUME NEW k \in 1..Len(backlog), Good(backlog[k]), \A l \in (k + 1)..Len(backlog) : backlog[l] = NoUrl
            PROVE  DaemonGood'
        <5>1. k \in 1..n /\ backlog'[k] = backlog[k]
          BY <2>2, <2>3
        <5>2. \A l \in (k + 1)..n : backlog'[l] = NoUrl
          BY <2>2, <2>3, <4>1
        <5>3. Good(backlog[k])' 
          BY <1>1, <4>1, <5>1 DEF Good
        <5> QED
          BY <2>3, <5>1, <5>2, <5>3 DEF DaemonGood, Good, NoUrl
      <4>2. ASSUME \A l \in 1..Len(backlog) : backlog[l] = NoUrl, url = NoUrl \/ Good(url)
            PROVE  DaemonGood'
        <5>1. \A l \in 1..n : backlog'[l] = NoUrl
          BY <2>2, <2>3, <4>2
        <5> QED
          BY <1>1, <2>3, <4>2, <5>1 DEF DaemonGood, Good, NoUrl
      <4> QED
        BY <4>1, <4>2 DEF DaemonGood
    <3> QED
      BY <1>0, <1>1, <1>6, <2>4, <3>1, <3>2, <3>4 DEF LatestOnItsWay, Holds, NoUrl
  <2> QED
    BY <1>4, <1>7, <1>8, <1>9, <2>1, <2>5, <2>6 DEF WayInv
<1> QED
  BY <1>3, <1>10, <1>11

LEMMA SendStep ==
  ASSUME WayInv, NEW i \in Ids, SetHttpRequestOnDelete(i), UNCHANGED installed
  PROVE  WayInv'
<1>0. /\ TypeOK /\ Typed /\ AppInv /\ ServicesInv /\ InOrder
      /\ DaemonOff /\ PathsFollowed /\ PathFirst /\ LatestOnItsWay
  BY WayParts
<1>1. PICK w \in Nat : w = Sends(i) /\ w <= MaxUpdates
  BY <1>0 DEF Typed
<1>2. /\ UNCHANGED <<sUrl, updates, bound, toConnect, started, lib, daemon, url, held, kills>>
      /\ SendRequest(w) /\ services[i].at = "url"
  BY <1>1 DEF SetHttpRequestOnDelete, appVars, Sends
<1>3. /\ OnlyIn(i) /\ services'[i].at = "idle"
      /\ services'[i].life = services[i].life /\ services'[i].messages = services[i].messages
      /\ services'[i].sending = NoUrl /\ services'[i].mStart = services[i].mStart
  BY <1>0, SendEffect DEF Typed
<1>4. \/ /\ daemon = "listening" /\ faults' = faults /\ Appended(w) /\ backlog' \in Seq(0..MaxUpdates)
         /\ \E n \in 1..Len(backlog)' : n = Len(backlog) + 1 /\ backlog'[n] = w
      \/ daemon # "listening" /\ backlog' = backlog /\ faults' = faults \cup {"refused"}
  BY <1>0, <1>1, <1>2, RequestSent, Constants
<1>5. TypeOK' /\ AppInv'
  BY <1>0, <1>2, <1>3, <1>4 DEF TypeOK, AppInv, OnlyIn, ServiceFaults
<1>6. Typed'
  BY <1>5, PartsNext
<1>7. /\ Ids' = Ids /\ \A j \in Ids \ {i} : services'[j] = services[j] /\ Kept(j)
      /\ N(i)' = N(i) /\ N(i) \in Nat /\ Sends(i)' = NoUrl /\ \A k : Url(i, k)' = Url(i, k)
  <2>1. N(i) \in Nat
    BY <1>0 DEF Typed
  <2> QED
    BY <1>3, <2>1, SameService DEF OnlyIn, Ids, N, Sends, Url
<1>8. \A u : Fresh(u)' = Fresh(u)
  BY <1>2 DEF Fresh
<1>9. ServiceInv(i) /\ w # NoUrl
  BY <1>0, <1>1, <1>2 DEF ServicesInv, ServiceInv
<1>10. \A j \in Ids : Stale(j) => Stale(j)'
  <2>1. Stale(i) => Stale(i)'
    BY <1>7, <1>8, NotFresh DEF Stale, Fresh
  <2>2. \A j \in Ids \ {i} : Stale(j) => Stale(j)'
    BY <1>0, <1>2, <1>7, StaleKept DEF Typed
  <2> QED
    BY <2>1, <2>2
<1>11. ServicesInv'
  <2>1. ServiceInv(i)'
    BY <1>3, <1>7, <1>8, <1>9, <1>10 DEF ServiceInv, Fresh, NoUrl
  <2> QED
    BY <1>0, <1>2, <1>3, <2>1, OneServiceInv
<1>12. DaemonOff'
  BY <1>0, <1>2, <1>4 DEF DaemonOff, NoWatch
<1>13. CASE daemon # "listening" /\ backlog' = backlog /\ faults' = faults \cup {"refused"}
  <2>1. InOrder'
    BY <1>0, <1>1, <1>2, <1>6, <1>7, <1>13, RefusedInOrder
  <2>2. PathsFollowed'
    <3>1. url' = NoWatch /\ Len(backlog)' = 0
      BY <1>0, <1>2, <1>13 DEF DaemonOff
    <3> QED
      BY <3>1, Constants DEF PathsFollowed, NoUrl
  <2>3. ~NoFault'
    BY <1>13 DEF NoFault, ServiceFaults
  <2> QED
    BY <1>5, <1>11, <1>12, <2>1, <2>2, <2>3 DEF WayInv, PathFirst, LatestOnItsWay
<1>14. CASE faults' = faults /\ Appended(w) /\ \E n \in 1..Len(backlog)' : n = Len(backlog) + 1 /\ backlog'[n] = w
  <2>1. InOrder'
    BY <1>0, <1>1, <1>2, <1>6, <1>7, <1>14, UrlInOrder
  <2>2. PICK n \in 1..Len(backlog)' : n = Len(backlog) + 1 /\ backlog'[n] = w
    BY <1>14
  <2>3. /\ Len(backlog)' = n /\ Len(backlog) \in Nat /\ n \in Nat /\ (\A k \in 1..Len(backlog) : backlog'[k] = backlog[k])
        /\ \A k \in 1..n : k \in 1..Len(backlog) \/ k = n
    BY <1>0, <1>14, <2>2 DEF Appended, Typed
  <2>4. NoFault' = NoFault
    BY <1>14 DEF NoFault
  <2>5. PathsFollowed'
    <3>1. \A k \in 1..n : n \in k..n
      BY <2>3
    <3> QED
      BY <1>9, <2>2, <2>3, <3>1 DEF PathsFollowed, NoUrl
  <2>6. PathFirst'
    <3> SUFFICES ASSUME installed, NoFault
                 PROVE  /\ lib # "failed" /\ \A j \in Ids : services'[j].life # "killed" /\ lib = "loaded"
                        /\ url # NoWatch \/ \E k \in 1..n : backlog'[k] = NoUrl
                        /\ url = NoWatch => \A l \in 1..n : \E k \in 1..l : backlog'[k] = NoUrl
      BY <1>2, <1>7, <2>2, <2>3, <2>4 DEF PathFirst, NoUrl, NoWatch
    <3>1. \A j \in Ids : services'[j].life = services[j].life
      BY <1>3 DEF OnlyIn
    <3>2. /\ lib # "failed" /\ \A j \in Ids : services'[j].life # "killed" /\ lib = "loaded"
          /\ url # NoWatch \/ \E k \in 1..Len(backlog) : backlog[k] = NoUrl
          /\ url = NoWatch => \A l \in 1..Len(backlog) : \E k \in 1..l : backlog[k] = NoUrl
      BY <1>0, <1>2, <3>1 DEF PathFirst
    <3>3. ASSUME NEW l \in 1..n, NEW k \in 1..Len(backlog), k <= l, backlog[k] = NoUrl
          PROVE  \E h \in 1..l : backlog'[h] = NoUrl
      BY <2>3, <3>3
    <3>4. ASSUME url = NoWatch, NEW l \in 1..n
          PROVE  \E h \in 1..l : backlog'[h] = NoUrl
      <4>1. CASE l = n
        <5>1. PICK k \in 1..Len(backlog) : backlog[k] = NoUrl
          BY <3>2, <3>4
        <5>2. k <= l
          BY <2>2, <2>3, <4>1
        <5> QED
          BY <3>3, <5>1, <5>2
      <4>2. CASE l \in 1..Len(backlog)
        <5>1. PICK k \in 1..l : backlog[k] = NoUrl
          BY <3>2, <3>4, <4>2
        <5>2. k \in 1..Len(backlog) /\ k <= l
          BY <2>3, <4>2
        <5> QED
          BY <3>3, <5>1, <5>2
      <4> QED
        BY <2>3, <4>1, <4>2
    <3>5. n \in 1..n
      BY <2>2, <2>3
    <3> QED
      BY <3>2, <3>4, <3>5
  <2>7. LatestOnItsWay'
    <3> SUFFICES ASSUME NoFault, sUrl # NoUrl, toConnect = 0, \A j \in Ids : ~Holds(j, sUrl)'
                 PROVE  (\A j \in Ids : Stale(j)') /\ DaemonGood'
      BY <1>2, <1>7, <2>4 DEF LatestOnItsWay, NoUrl
    <3>1. sUrl = updates /\ w \in Updates /\ sUrl \in Updates
      BY <1>0, <1>1, <1>9, Constants DEF AppInv, Typed
    <3>2. \A j \in Ids : Holds(j, sUrl) => j = i /\ w = sUrl
      BY <1>1, <1>2, <1>7 DEF Holds, Kept
    <3>3. CASE w = sUrl
      <4>1. ASSUME NEW j \in Ids, NEW u \in Nat, Fresh(u), Holds(j, u)'
            PROVE  FALSE
        <5>1. u <= updates
          <6>1. Holds(j, u)
            BY <1>7, <4>1, NotFresh DEF Holds, Kept
          <6> QED
            BY <1>0, <6>1 DEF InOrder, Known, Within, Holds
        <5>2. w <= u
          <6>1. CASE j = i
            <7>1. PICK k \in 1..N(i) : Url(i, k) = u
              BY <1>7, <4>1, <6>1, NotFresh DEF Holds
            <7> QED
              BY <1>0, <1>1, <4>1, <7>1 DEF InOrder, MessagesInOrder
          <6>2. CASE j # i
            <7>1. Sends(j) = u \/ \E k \in 1..N(j) : Url(j, k) = u
              BY <1>7, <4>1, <6>2 DEF Holds, Kept
            <7>2. Within(i, u)
              BY <1>0, <4>1, <6>2, <7>1 DEF InOrder, MessagesInOrder, SendingInOrder
            <7> QED
              BY <1>1, <7>2 DEF Within
          <6> QED
            BY <6>1, <6>2
        <5>3. u = sUrl
          BY <1>0, <3>1, <3>3, <5>1, <5>2 DEF Typed
        <5> QED
          BY <1>2, <4>1, <5>3 DEF Holds
      <4>2. ASSUME NEW j \in Ids
            PROVE  Stale(j)'
        <5>1. /\ Sends(j)' \in Nat
              /\ \A k \in 1..N(j)' : Url(j, k)' \in Nat
          BY <1>6, <1>7 DEF Typed
        <5>2. ~Fresh(Sends(j))'
          BY <1>8, <4>1, <5>1 DEF Holds, Fresh
        <5>3. \A k \in 1..N(j)' : ~Fresh(Url(j, k))'
          BY <1>8, <4>1, <5>1 DEF Holds, Fresh
        <5> QED
          BY <5>2, <5>3 DEF Stale
      <4>3. DaemonGood'
        BY <1>2, <2>2, <2>3, <3>1, <3>3 DEF DaemonGood, Good
      <4> QED
        BY <4>2, <4>3
    <3>4. CASE w # sUrl
      <4>1. \A j \in Ids : Stale(j)
        BY <1>0, <3>2, <3>4 DEF LatestOnItsWay
      <4>2. w \in held
        BY <1>1, <3>1, <4>1 DEF Stale, Fresh
      <4>3. DaemonGood'
        BY <1>2, <2>2, <2>3, <3>1, <4>2 DEF DaemonGood, Good
      <4> QED
        BY <1>10, <4>1, <4>3
    <3> QED
      BY <3>3, <3>4
  <2> QED
    BY <1>5, <1>11, <1>12, <2>1, <2>5, <2>6, <2>7 DEF WayInv
<1> QED
  BY <1>4, <1>13, <1>14

\* The application goes, and the service with it.
LEMMA UninstallStep ==
  ASSUME WayInv, Uninstall
  PROVE  WayInv'
<1>0. /\ TypeOK /\ Typed /\ AppInv /\ InOrder /\ DaemonOff
  BY WayParts
<1>1. /\ services' = [i \in DOMAIN services |-> Killed(services[i])] /\ installed' = FALSE
      /\ sUrl' = NoUrl /\ bound' = 0 /\ toConnect' = 0 /\ started' = FALSE /\ lib' = "unloaded"
      /\ UNCHANGED <<updates, daemon, backlog, url, held, kills, faults>>
  BY DEF Uninstall, daemonVars, history
<1>2. /\ services' \in Seq(Service) /\ Len(services') = Len(services) /\ Ids' = Ids
      /\ ServicesInv' /\ \A i \in Ids : Emptied(i)
  BY <1>0, <1>1, AllKilled
<1>3. TypeOK' /\ AppInv'
  <2>1. 0 \in 0..MaxUpdates /\ 0 \in 0..0 /\ updates \in Nat /\ updates >= 0
    BY <1>0, Constants DEF Typed
  <2>2. TypeOK'
    BY <1>0, <1>1, <1>2, <2>1, Constants DEF TypeOK
  <2>3. AppInv'
    BY <1>1, <2>1, Constants DEF AppInv
  <2> QED
    BY <2>2, <2>3
<1>4. Typed'
  BY <1>3, PartsNext
<1>5. InOrder'
  <2>1. Thinned
    BY <1>0, <1>1, <1>2 DEF Thinned, Typed
  <2> QED
    BY <1>0, <1>4, <2>1, ThinnedInOrder
<1>6. DaemonOff'
  BY <1>0, <1>1 DEF DaemonOff, NoWatch
<1> QED
  BY <1>1, <1>2, <1>3, <1>5, <1>6 DEF WayInv, PathsFollowed, PathFirst, LatestOnItsWay, NoUrl

-----------------------------------------------------------------------------
(* The steps of the daemon. *)

\* What moves no URL, and adds no fault of the service's kind.
LEMMA QuietStep ==
  ASSUME WayInv, UNCHANGED <<appVars, serviceVars, backlog, url, held, kills, installed>>,
         daemon' \in {daemon, "listening"},
         faults \subseteq faults', faults' \subseteq faults \cup DaemonFaults \cup {"read"}
  PROVE  WayInv'
<1>0. /\ TypeOK /\ Typed /\ AppInv /\ ServicesInv /\ InOrder
      /\ DaemonOff /\ PathsFollowed /\ PathFirst /\ LatestOnItsWay
  BY WayParts
<1>1. UNCHANGED <<sUrl, updates, bound, toConnect, started, lib, services, backlog, url, held, kills, installed>>
  BY DEF appVars, serviceVars
<1>2. NoFault' => NoFault
  BY DEF NoFault
<1>3. TypeOK' /\ AppInv'
  BY <1>0, <1>1 DEF TypeOK, AppInv, ServiceFaults
<1>4. Typed'
  BY <1>3, PartsNext
<1>5. ServicesInv'
  BY <1>0, <1>1, SameServicesInv
<1>6. InOrder'
  <2>1. Thinned
    BY <1>0, <1>1, SameServices DEF Thinned, Typed
  <2> QED
    BY <1>0, <1>4, <2>1, ThinnedInOrder
<1>7. DaemonOff'
  BY <1>0, <1>1 DEF DaemonOff, NoWatch
<1>8. PathsFollowed'
  BY <1>0, <1>1, PathsKept DEF UrlFollows, Ids
<1>9. PathFirst'
  BY <1>0, <1>1, <1>2 DEF PathFirst, Ids, NoUrl, NoWatch
<1>10. LatestOnItsWay'
  <2>1. \A i : Holds(i, sUrl)' = Holds(i, sUrl) /\ Stale(i)' = Stale(i)
    BY <1>1 DEF Holds, Stale, Sends, N, Url, Fresh
  <2>2. Ids' = Ids
    BY <1>1 DEF Ids
  <2> QED
    BY <1>0, <1>1, <2>1, <2>2, LatestKept
<1> QED
  BY <1>3, <1>5, <1>6, <1>7, <1>8, <1>9, <1>10 DEF WayInv

LEMMA HeadAndTail ==
  ASSUME NEW S, NEW q \in Seq(S), q # <<>>
  PROVE  /\ Len(q) \in Nat /\ Len(q) >= 1 /\ Head(q) = q[1] /\ q[1] \in S
         /\ Tail(q) \in Seq(S) /\ Len(Tail(q)) = Len(q) - 1
         /\ \A k \in 1..(Len(q) - 1) : Tail(q)[k] = q[k + 1]
OBVIOUS

\* The daemon takes its first request.
LEMMA HandleShifts ==
  ASSUME Typed, Handle
  PROVE  Shifted /\ backlog' \in Seq(0..MaxUpdates) /\ url' \in 0..NoWatch
<1>1. backlog \in Seq(0..MaxUpdates) /\ backlog # <<>> /\ backlog' = Tail(backlog) /\ url \in 0..NoWatch
  BY Constants DEF Typed, Handle
<1>2. /\ Len(backlog) \in Nat /\ Len(backlog) >= 1 /\ Head(backlog) = backlog[1]
      /\ Len(backlog)' = Len(backlog) - 1 /\ backlog' \in Seq(0..MaxUpdates)
      /\ \A k \in 1..Len(backlog)' : backlog'[k] = backlog[k + 1]
      /\ backlog[1] \in 0..MaxUpdates
  BY <1>1, HeadAndTail
<1>3. url' = IF backlog[1] = NoUrl THEN NoUrl ELSE IF url = NoWatch THEN url ELSE backlog[1]
  BY <1>2 DEF Handle
<1> QED
  BY <1>1, <1>2, <1>3, Constants DEF Shifted

LEMMA HandleStep ==
  ASSUME WayInv, Handle, UNCHANGED installed, sUrl # NoUrl => installed
  PROVE  WayInv'
<1>0. /\ TypeOK /\ Typed /\ AppInv /\ ServicesInv /\ InOrder
      /\ DaemonOff /\ PathsFollowed /\ PathFirst /\ LatestOnItsWay
  BY WayParts
<1>1. /\ UNCHANGED <<sUrl, updates, bound, toConnect, started, lib, services, daemon, held, kills, faults>>
      /\ daemon = "listening"
  BY DEF Handle, appVars, serviceVars, history
<1>2. Shifted /\ backlog' \in Seq(0..MaxUpdates) /\ url' \in 0..NoWatch
  BY <1>0, HandleShifts
<1>3. TypeOK' /\ AppInv'
  BY <1>0, <1>1, <1>2 DEF TypeOK, AppInv
<1>4. Typed'
  BY <1>3, PartsNext
<1>5. ServicesInv'
  BY <1>0, <1>1, SameServicesInv
<1>6. InOrder'
  BY <1>0, <1>1, <1>2, <1>4, ShiftedInOrder
<1>7. DaemonOff'
  BY <1>1 DEF DaemonOff
<1>8. PICK n \in Nat : n = Len(backlog)'
  BY <1>4 DEF Typed
<1>9. /\ Len(backlog) = n + 1
      /\ \A k \in 1..n : backlog'[k] = backlog[k + 1] /\ k + 1 \in 1..(n + 1)
      /\ \/ backlog[1] = NoUrl /\ url' = NoUrl
         \/ backlog[1] # NoUrl /\ url = NoWatch /\ url' = NoWatch
         \/ backlog[1] # NoUrl /\ url # NoWatch /\ url' = backlog[1]
  BY <1>0, <1>2, <1>8 DEF Shifted, Typed
<1>10. \A l \in 1..(n + 1) : l = 1 \/ (l - 1 \in 1..n /\ backlog'[l - 1] = backlog[l])
  <2> TAKE l \in 1..(n + 1)
  <2>1. l # 1 => l - 1 \in 1..n /\ (l - 1) + 1 = l
    BY <1>8
  <2> QED
    BY <1>9, <2>1
<1>11. PathsFollowed'
  <2> SUFFICES ASSUME installed, ~UrlFollows
               PROVE  /\ url' = NoUrl => \E l \in 1..n : backlog'[l] # NoUrl
                      /\ \A k \in 1..n : backlog'[k] = NoUrl => \E l \in k..n : backlog'[l] # NoUrl
    BY <1>1, <1>8 DEF PathsFollowed, UrlFollows, Ids, NoUrl
  <2>1. ASSUME url' = NoUrl
        PROVE  \E l \in 1..n : backlog'[l] # NoUrl
    <3>1. backlog[1] = NoUrl /\ 1 \in 1..(n + 1)
      BY <1>8, <1>9, <2>1, Constants
    <3>2. PICK l \in 1..(n + 1) : backlog[l] # NoUrl
      BY <1>0, <1>9, <3>1 DEF PathsFollowed
    <3> QED
      BY <1>10, <3>1, <3>2
  <2>2. ASSUME NEW k \in 1..n, backlog'[k] = NoUrl
        PROVE  \E l \in k..n : backlog'[l] # NoUrl
    <3>1. k + 1 \in 1..(n + 1) /\ backlog[k + 1] = NoUrl
      BY <1>9, <2>2
    <3>2. PICK l \in (k + 1)..(n + 1) : backlog[l] # NoUrl
      BY <1>0, <1>9, <3>1 DEF PathsFollowed
    <3>3. l \in 1..(n + 1) /\ l - 1 \in k..n /\ l # 1
      BY <1>8, <3>2
    <3> QED
      BY <1>10, <3>2, <3>3
  <2> QED
    BY <2>1, <2>2
<1>12. installed /\ NoFault => url' # NoWatch
  <2> SUFFICES ASSUME installed, NoFault, url = NoWatch
               PROVE  url' # NoWatch
    BY <1>0, <1>9, Constants DEF Typed
  <2>1. PICK k \in 1..1 : backlog[k] = NoUrl
    BY <1>0, <1>8, <1>9 DEF PathFirst
  <2>2. backlog[1] = NoUrl
    BY <2>1
  <2> QED
    BY <1>9, <2>2, Constants
<1>13. PathFirst'
  BY <1>0, <1>1, <1>12 DEF PathFirst, NoFault, Ids, NoWatch
<1>14. LatestOnItsWay'
  <2>1. \A i : Holds(i, sUrl)' = Holds(i, sUrl) /\ Stale(i)' = Stale(i)
    BY <1>1 DEF Holds, Stale, Sends, N, Url, Fresh
  <2>2. Ids' = Ids
    BY <1>1 DEF Ids
  <2>3. ASSUME NoFault, sUrl # NoUrl, DaemonGood
        PROVE  DaemonGood'
    <3>1. CASE \A l \in 1..(n + 1) : backlog[l] = NoUrl
      <4>1. url' = NoUrl /\ \A l \in 1..n : backlog'[l] = NoUrl
        BY <1>8, <1>9, <3>1
      <4> QED
        BY <1>8, <4>1 DEF DaemonGood, NoUrl
    <3>2. ASSUME NEW k \in 1..(n + 1), Good(backlog[k]), \A l \in (k + 1)..(n + 1) : backlog[l] = NoUrl
          PROVE  DaemonGood'
      <4>1. CASE k = 1
        <5>1. \A l \in 1..n : backlog'[l] = NoUrl
          BY <1>9, <3>2, <4>1
        <5>2. url' = backlog[1]
          BY <1>9, <1>12, <2>3, <3>2, <4>1, Constants DEF Good
        <5>3. Good(url)'
          BY <1>1, <3>2, <4>1, <5>2 DEF Good
        <5> QED
          BY <1>8, <5>1, <5>3 DEF DaemonGood, NoUrl
      <4>2. CASE k # 1
        <5>1. PICK j \in 1..n : j = k - 1 /\ backlog'[j] = backlog[k]
          BY <1>10, <4>2
        <5>2. \A l \in (j + 1)..n : l + 1 \in (k + 1)..(n + 1) /\ l \in 1..n
          BY <1>8, <5>1
        <5>3. \A l \in (j + 1)..n : backlog'[l] = NoUrl
          BY <1>9, <3>2, <5>2
        <5> QED
          BY <1>1, <1>8, <3>2, <5>1, <5>3 DEF DaemonGood, Good, NoUrl
      <4> QED
        BY <4>1, <4>2
    <3> QED
      BY <1>9, <2>3, <3>1, <3>2 DEF DaemonGood
  <2> QED
    BY <1>0, <1>1, <2>1, <2>2, <2>3 DEF LatestOnItsWay, NoFault, NoUrl
<1> QED
  BY <1>3, <1>5, <1>6, <1>7, <1>11, <1>13, <1>14 DEF WayInv

\* The daemon ends by itself, after the uninstall, or is killed.
LEMMA DaemonEnds ==
  ASSUME WayInv, daemon' = "none", backlog' = <<>>, url' = NoWatch, kills' \in 0..MaxKills,
         UNCHANGED <<appVars, serviceVars, held, installed>>,
         \/ ~installed /\ sUrl = NoUrl /\ faults' = faults
         \/ faults' \in {faults, faults \cup {"daemon"}} /\ faults' \cap {"daemon", "read"} # {}
  PROVE  WayInv'
<1>0. /\ TypeOK /\ Typed /\ AppInv /\ ServicesInv /\ InOrder
  BY WayParts
<1>1. UNCHANGED <<sUrl, updates, bound, toConnect, started, lib, services, held, installed>>
  BY DEF appVars, serviceVars
<1>2. Len(<<>>) = 0 /\ <<>> \in Seq(0..MaxUpdates)
  OBVIOUS
<1>3. TypeOK' /\ AppInv'
  <2>1. faults' \subseteq ServiceFaults \cup DaemonFaults
    BY <1>0 DEF TypeOK, ServiceFaults
  <2>2. NoWatch \in 0..NoWatch
    BY Constants
  <2>3. TypeOK'
    BY <1>0, <1>1, <1>2, <2>1, <2>2 DEF TypeOK, NoWatch
  <2>4. AppInv'
    BY <1>0, <1>1 DEF AppInv, NoUrl
  <2> QED
    BY <2>3, <2>4
<1>4. ServicesInv'
  BY <1>0, <1>1, SameServicesInv
<1>5. InOrder'
  BY <1>0, <1>1, ClearedInOrder
<1>6. DaemonOff' /\ PathsFollowed'
  BY <1>2, Constants DEF DaemonOff, PathsFollowed, NoWatch, NoUrl
<1>7. PathFirst' /\ LatestOnItsWay'
  <2>1. CASE ~installed /\ sUrl = NoUrl
    BY <1>1, <2>1 DEF PathFirst, LatestOnItsWay, NoUrl
  <2>2. CASE faults' \cap {"daemon", "read"} # {}
    BY <2>2 DEF PathFirst, LatestOnItsWay, NoFault, ServiceFaults
  <2> QED
    BY <2>1, <2>2
<1> QED
  BY <1>3, <1>4, <1>5, <1>6, <1>7 DEF WayInv

-----------------------------------------------------------------------------
(* What is reported. *)

LEMMA ReportParts ==
  ASSUME ReportInv
  PROVE  /\ ReportTypeOK /\ older \in Seq(Older) /\ NoOlderHit /\ ReplacedStaySilent
         /\ WatcherInv /\ UninstalledInv
         /\ Len(older) \in Nat /\ DOMAIN older = 1..Len(older) /\ \A k \in 1..Len(older) : older[k] \in Older
BY DEF ReportInv

\* Steps that leave the daemon and its observers alone.
LEMMA ReportKept ==
  ASSUME ReportInv, UNCHANGED <<reportVars, url>>,
         \/ installed
         \/ UNCHANGED <<backlog, held, sUrl>>
  PROVE  ReportInv'
<1>0. /\ ReportTypeOK /\ older \in Seq(Older) /\ NoOlderHit /\ ReplacedStaySilent
      /\ WatcherInv /\ UninstalledInv
  BY ReportParts
<1>1. UNCHANGED <<installed, watcher, older, ending, hits, meant, sure, atEnd, url>>
  BY DEF reportVars
<1>2. ReportTypeOK' /\ older' \in Seq(Older) /\ ReplacedStaySilent'
  BY <1>0, <1>1 DEF ReportTypeOK, ReplacedStaySilent, Older, NoWatch
<1>3. CASE installed
  <2>1. hits' = {} /\ atEnd' \notin Updates /\ atEnd' = NoWatch /\ sure' = {}
    BY <1>0, <1>1, <1>3, Constants DEF UninstalledInv
  <2>2. NoOlderHit'
    BY <2>1 DEF NoOlderHit
  <2>3. WatcherInv'
    BY <1>0, <1>1, <2>1 DEF WatcherInv, Updates
  <2>4. UninstalledInv'
    BY <1>1, <1>3, <2>1 DEF UninstalledInv, NoWatch
  <2> QED
    BY <1>2, <2>2, <2>3, <2>4 DEF ReportInv, Older
<1>4. CASE UNCHANGED <<backlog, held, sUrl>>
  <2>1. \A u : LateEnough(u)' = LateEnough(u)
    BY <1>1, <1>4 DEF LateEnough, NoUrl
  <2>2. NoOlderHit'
    BY <1>0, <1>1, <1>4 DEF NoOlderHit, Updates
  <2>3. WatcherInv'
    BY <1>0, <1>1, <1>4 DEF WatcherInv, LateEnough, NoUrl, Updates
  <2>4. UninstalledInv'
    BY <1>0, <1>1, <1>4 DEF UninstalledInv, LateEnough, NoUrl, NoWatch, Updates
  <2> QED
    BY <1>2, <2>2, <2>3, <2>4 DEF ReportInv, Older
<1> QED
  BY <1>3, <1>4

\* The application and the service never touch what the daemon reports.
LEMMA ServiceStepKeepsUrl ==
  ASSUME ServiceStep
  PROVE  url' = url
BY DEF ServiceStep, SetHttpRequestOnUninstall, OnServiceConnected, OnCreate, Tick, Destroy, TimerTask,
       HandleMessage, Start, SetHttpRequestOnDelete, KillApplication, KillService, daemonVars

\* At rest the daemon has the latest URL, or one that was delayed.
LEMMA RestHasLatest ==
  ASSUME WayInv, AtRest, NoFault, sUrl # NoUrl => installed
  PROVE  url = sUrl \/ url \in held
<1>0. /\ Typed /\ AppInv /\ ServicesInv /\ PathsFollowed /\ LatestOnItsWay
  BY WayParts
<1>1. /\ sUrl # NoUrl /\ toConnect = 0 /\ backlog = <<>> /\ installed /\ Len(backlog) = 0
      /\ \A i \in Running : Waiting(i) \subseteq {NoUrl}
  BY DEF AtRest
<1>2. ASSUME NEW i \in Ids, NEW u, Holds(i, u)
      PROVE  u = NoUrl
  <2>1. CASE i \in Running
    BY <1>0, <1>1, <1>2, <2>1, WaitingIsHeld
  <2>2. CASE i \notin Running
    <3>1. services[i].life = "killed"
      BY <1>0, <2>2 DEF Running, Typed
    <3>2. N(i) = 0 /\ Sends(i) = NoUrl
      BY <1>0, <3>1 DEF ServicesInv, ServiceInv
    <3> QED
      BY <1>2, <3>2 DEF Holds
  <2> QED
    BY <2>1, <2>2
<1>3. DaemonGood
  BY <1>0, <1>1, <1>2 DEF LatestOnItsWay
<1>4. url = NoUrl \/ Good(url)
  BY <1>1, <1>3 DEF DaemonGood
<1>5. url # NoUrl
  <2>1. \A i \in Ids : services[i].at # "url"
    <3> SUFFICES ASSUME NEW i \in Ids, services[i].at = "url"
                 PROVE  FALSE
      OBVIOUS
    <3>1. Sends(i) # NoUrl
      BY <1>0 DEF ServicesInv, ServiceInv
    <3> QED
      BY <1>2, <3>1 DEF Holds
  <2>2. "service" \notin faults
    BY DEF NoFault, ServiceFaults
  <2> QED
    BY <1>0, <1>1, <2>1, <2>2 DEF PathsFollowed, UrlFollows
<1> QED
  BY <1>4, <1>5 DEF Good

LEMMA UninstallReports ==
  ASSUME WayInv, ReportInv, Uninstall
  PROVE  ReportInv'
<1>0. /\ ReportTypeOK /\ older \in Seq(Older) /\ NoOlderHit /\ ReplacedStaySilent
      /\ WatcherInv /\ UninstalledInv /\ TypeOK /\ Typed /\ InOrder
      /\ DOMAIN older = 1..Len(older)
  BY WayParts, ReportParts
<1>1. /\ installed /\ installed' = FALSE /\ sUrl' = NoUrl /\ meant' = sUrl /\ atEnd' = url
      /\ sure' = (IF AtRest /\ faults = {} THEN {"url"} ELSE {})
                   \cup (IF watcher.at = "watching" /\ ToSet(backlog) \cup {url} \subseteq Updates \ Blank
                         THEN {"report"} ELSE {})
      /\ UNCHANGED <<backlog, url, held, watcher, older, ending, hits>>
  BY DEF Uninstall, daemonVars, history
<1>2. hits = {} /\ (\A k \in 1..Len(older) : older[k].at # "reporting") /\ watcher.at # "reporting"
  BY <1>0, <1>1 DEF UninstalledInv, ReplacedStaySilent, WatcherInv
<1>3. ReportTypeOK' /\ older' \in Seq(Older)
  BY <1>0, <1>1 DEF ReportTypeOK, TypeOK, Older, NoWatch
<1>4. NoOlderHit' /\ ReplacedStaySilent' /\ WatcherInv'
  BY <1>0, <1>1, <1>2 DEF NoOlderHit, ReplacedStaySilent, WatcherInv
<1>5. ASSUME url \in Updates
      PROVE  LateEnough(url)' /\ \A k \in 1..Len(backlog) : LateEnough(backlog[k])'
  <2>1. url \in Nat /\ url # NoWatch
    BY <1>5, Constants
  <2>2. url >= url
    BY <2>1
  <2>3. ASSUME NEW k \in 1..Len(backlog)
        PROVE  backlog[k] >= url \/ backlog[k] \in held \cup {NoUrl}
    <3>1. backlog[k] \in Nat /\ backlog[k] <= MaxUpdates
      BY <1>0 DEF Typed
    <3>2. CASE Fresh(backlog[k])
      BY <1>0, <2>1, <3>1, <3>2 DEF InOrder, BacklogInOrder
    <3>3. CASE ~Fresh(backlog[k])
      BY <3>1, <3>3, Constants DEF Fresh
    <3> QED
      BY <3>2, <3>3
  <2> QED
    BY <1>1, <2>2, <2>3 DEF LateEnough, NoUrl
<1>6. ASSUME "url" \in sure'
      PROVE  backlog = <<>> /\ url \in {sUrl, NoWatch} \cup held
  <2>1. AtRest /\ faults = {}
    BY <1>1, <1>6
  <2> QED
    BY <1>1, <2>1, RestHasLatest DEF AtRest, NoFault
<1>7. UninstalledInv'
  BY <1>1, <1>2, <1>5, <1>6 DEF UninstalledInv, NoUrl, NoWatch, Updates
<1> QED
  BY <1>3, <1>4, <1>7 DEF ReportInv, Older

\* A new observer, and its predecessor among the older ones.
LEMMA StarterReports ==
  ASSUME ReportInv, url' = NoUrl, watcher' = Starter, NoOlderHit', UninstalledInv',
         UNCHANGED <<installed, ending, hits, meant, sure, atEnd, held>>,
         older' \in Seq(Older),
         \A k \in 1..Len(older)' :
           \/ k \in 1..Len(older) /\ older'[k] = older[k]
           \/ /\ older'[k].at # "done" => older'[k].tries < MaxTries
              /\ older'[k].at = "reporting" => ~installed
              /\ older'[k].at = "reporting" /\ atEnd \in Updates => LateEnough(older'[k].url)
  PROVE  ReportInv'
<1>0. /\ ReportTypeOK /\ older \in Seq(Older) /\ ReplacedStaySilent /\ WatcherInv
      /\ DOMAIN older = 1..Len(older)
  BY ReportParts
<1>1. /\ DOMAIN older' = 1..Len(older)' /\ \A k \in 1..Len(older)' : older'[k] \in Older
  OBVIOUS
<1>2. watcher'.at = "starting" /\ watcher'.tries = 0 /\ watcher' = [at |-> "starting", tries |-> 0]
  BY DEF Starter
<1>3. ReportTypeOK'
  <2>1. \A k \in DOMAIN older' : older'[k].url \in 0..MaxUpdates
    BY <1>1 DEF Older
  <2> QED
    BY <1>0, <1>2, <2>1, Constants DEF ReportTypeOK
<1>4. \A k \in 1..Len(older)' : older'[k].at = "reporting" => ~installed
  BY <1>0 DEF ReplacedStaySilent
<1>5. ReplacedStaySilent'
  BY <1>1, <1>2, <1>4 DEF ReplacedStaySilent
<1>6. WatcherInv'
  <2>1. ASSUME NEW k \in 1..Len(older)'
        PROVE  /\ older'[k].at # "done" => older'[k].tries < MaxTries
               /\ older'[k].at = "reporting" /\ atEnd \in Updates => LateEnough(older'[k].url)
    BY <1>0 DEF WatcherInv
  <2> QED
    BY <1>0, <1>2, <2>1, Constants DEF WatcherInv, LateEnough, NoUrl, Updates
<1> QED
  BY <1>3, <1>5, <1>6 DEF ReportInv, Older

LEMMA HandleRequestReports ==
  ASSUME Typed, ReportInv, HandleRequest
  PROVE  ReportInv'
<1>0. /\ ReportTypeOK /\ older \in Seq(Older) /\ NoOlderHit /\ ReplacedStaySilent
      /\ WatcherInv /\ UninstalledInv
      /\ Len(older) \in Nat /\ DOMAIN older = 1..Len(older)
  BY ReportParts
<1>1. /\ Handle /\ watcher.at # "done" /\ backlog # <<>>
      /\ UNCHANGED <<installed, ending, hits, meant, sure, atEnd, held, sUrl>>
  BY DEF HandleRequest, Freed, Handle, appVars, history
<1>2. /\ Shifted /\ url' \in 0..NoWatch /\ backlog \in Seq(0..MaxUpdates)
  BY <1>1, HandleShifts DEF Typed
<1>3. Head(backlog) = backlog[1] /\ Len(backlog) \in Nat /\ 1 \in 1..Len(backlog)
      /\ backlog[1] \in 0..MaxUpdates
  <2>1. backlog \in Seq(0..MaxUpdates) /\ backlog # <<>>
    BY <1>1, <1>2
  <2>2. Len(backlog) \in Nat /\ Len(backlog) >= 1 /\ Head(backlog) = backlog[1] /\ backlog[1] \in 0..MaxUpdates
    BY <2>1, HeadAndTail
  <2> QED
    BY <2>2
<1>4. "url" \notin sure
  BY <1>0, <1>1 DEF UninstalledInv
<1>5. \A u : LateEnough(u)' = LateEnough(u)
  BY <1>1 DEF LateEnough, NoUrl
<1>6. NoOlderHit'
  BY <1>0, <1>1 DEF NoOlderHit, Updates
<1>7. \A k \in 1..Len(backlog)' : backlog'[k] = backlog[k + 1] /\ k + 1 \in 1..Len(backlog)
  BY <1>2, <1>3 DEF Shifted
<1>8. UninstalledInv'
  <2>1. ~installed /\ atEnd \in Updates => LateEnough(url')
    <3>1. LateEnough(NoUrl)
      BY DEF LateEnough
    <3> QED
      BY <1>0, <1>2, <1>3, <3>1 DEF UninstalledInv, Shifted
  <2>2. ~installed /\ atEnd \in Updates => \A k \in 1..Len(backlog)' : LateEnough(backlog'[k])
    BY <1>0, <1>7 DEF UninstalledInv
  <2> QED
    BY <1>0, <1>1, <1>4, <2>1, <2>2 DEF UninstalledInv, LateEnough, NoUrl, NoWatch, Updates
<1>9. /\ watcher.at \in {"none", "starting", "watching", "blind", "reporting", "done"}
      /\ watcher.tries \in 0..MaxTries
  BY <1>0 DEF ReportTypeOK
<1>10. CASE backlog[1] = NoUrl /\ url = NoWatch
  <2>1. url' = NoUrl /\ older' = older /\ watcher' = Starter
    BY <1>2, <1>3, <1>10 DEF Shifted, HandleRequest
  <2> QED
    BY <1>0, <1>1, <1>6, <1>8, <2>1, Constants, StarterReports
<1>11. CASE backlog[1] = NoUrl /\ url # NoWatch
  <2> DEFINE o == [at |-> watcher.at, url |-> url, tries |-> watcher.tries]
  <2>1. url' = NoUrl /\ older' = Append(older, o) /\ watcher' = Starter
    BY <1>2, <1>3, <1>11 DEF Shifted, HandleRequest
  <2>2. o \in Older
    BY <1>9, <1>11, Constants DEF Older, Typed
  <2>3. o.at = watcher.at /\ o.url = url /\ o.tries = watcher.tries
    OBVIOUS
  <2> HIDE DEF o
  <2>4. /\ older' \in Seq(Older) /\ Len(older)' = Len(older) + 1
        /\ \A k \in 1..Len(older)' : \/ k \in 1..Len(older) /\ older'[k] = older[k]
                                     \/ older'[k] = o
    BY <1>0, <2>1, <2>2
  <2>5. /\ o.at # "done" => o.tries < MaxTries
        /\ o.at = "reporting" => ~installed
        /\ o.at = "reporting" /\ atEnd \in Updates => LateEnough(o.url)
    BY <1>0, <2>3 DEF WatcherInv, UninstalledInv
  <2> QED
    BY <1>0, <1>1, <1>6, <1>8, <2>1, <2>4, <2>5, Constants, StarterReports
<1>12. CASE backlog[1] # NoUrl
  <2>1. /\ UNCHANGED <<older, watcher>> /\ (url' = NoWatch <=> url = NoWatch)
    BY <1>2, <1>3, <1>12, Constants DEF Shifted, HandleRequest
  <2>2. ReportTypeOK' /\ older' \in Seq(Older) /\ ReplacedStaySilent'
    BY <1>0, <1>1, <2>1 DEF ReportTypeOK, ReplacedStaySilent, Older, NoWatch
  <2>3. WatcherInv'
    BY <1>0, <1>1, <2>1 DEF WatcherInv, LateEnough, NoUrl, Updates
  <2> QED
    BY <1>6, <1>8, <2>2, <2>3 DEF ReportInv, Older
<1> QED
  BY <1>10, <1>11, <1>12

\* What reaches the server, when the observer with the URL u reports.
LEMMA HitsReport ==
  ASSUME ReportInv, NEW u,
         \/ hits' = hits
         \/ /\ ~installed /\ hits' = hits \cup ({u} \cap (Updates \ Blank))
            /\ atEnd \in Updates => LateEnough(u)
            /\ "url" \in sure => u \in {meant, NoWatch} \cup held,
         "url" \in sure => \A k \in 1..Len(older)' : older'[k].at # "reporting",
         UNCHANGED <<installed, meant, sure, atEnd, held, url, backlog, sUrl>>
  PROVE  NoOlderHit' /\ UninstalledInv' /\ hits' \subseteq Updates \ Blank
<1>0. NoOlderHit /\ UninstalledInv /\ hits \subseteq Updates \ Blank
  BY ReportParts DEF ReportTypeOK
<1>1. hits' \subseteq Updates \ Blank /\ \A h \in hits' : h \in hits \/ (h = u /\ h \in Updates /\ ~installed)
  BY <1>0
<1>2. NoOlderHit'
  <2> SUFFICES ASSUME atEnd \in Updates, NEW h \in hits', h \notin hits
               PROVE  h >= atEnd \/ h \in held
    BY <1>0 DEF NoOlderHit, Updates
  <2>1. h = u /\ h \in Updates /\ LateEnough(u)
    BY <1>1
  <2> QED
    BY <2>1, Constants DEF LateEnough
<1>3. \A v : LateEnough(v)' = LateEnough(v)
  BY DEF LateEnough, NoUrl
<1>4. UninstalledInv'
  <2>1. installed => hits' = {} /\ atEnd = NoWatch /\ sure = {}
    BY <1>0 DEF UninstalledInv
  <2>2. ~installed /\ atEnd \in Updates =>
          LateEnough(url) /\ \A k \in 1..Len(backlog) : LateEnough(backlog[k])
    BY <1>0 DEF UninstalledInv
  <2>3. "url" \in sure => hits' \subseteq {meant} \cup held
    <3>1. NoWatch \notin Updates
      BY Constants
    <3> QED
      BY <1>0, <1>1, <3>1 DEF UninstalledInv
  <2>4. "url" \in sure => backlog = <<>> /\ url \in {meant, NoWatch} \cup held
    BY <1>0 DEF UninstalledInv
  <2>5. ~installed => sUrl = NoUrl
    BY <1>0 DEF UninstalledInv
  <2> QED
    BY <2>1, <2>2, <2>3, <2>4, <2>5 DEF UninstalledInv, LateEnough, NoUrl, NoWatch, Updates
<1> QED
  BY <1>1, <1>2, <1>4

Statuses == {"none", "starting", "watching", "blind", "reporting", "done"}

\* The current observer goes on, with its URL.
LEMMA CurrentReports ==
  ASSUME ReportInv, NEW v \in [at : Statuses, tries : 0..MaxTries], watcher' = v, watcher.at # "none", v.at # "none",
         v.at # "done" => v.tries < MaxTries, v.at = "reporting" => ~installed,
         v.at # "blind" => \A k \in 1..Len(older) : older[k].at # "reporting",
         hits' = hits \/ (~installed /\ hits' = hits \cup ({url} \cap (Updates \ Blank))),
         ending' \in BOOLEAN,
         UNCHANGED <<older, installed, meant, sure, atEnd, held, url, backlog, sUrl>>
  PROVE  ReportInv'
<1>0. /\ ReportTypeOK /\ older \in Seq(Older) /\ ReplacedStaySilent /\ WatcherInv /\ UninstalledInv
      /\ DOMAIN older = 1..Len(older)
  BY ReportParts
<1>1. NoOlderHit' /\ UninstalledInv' /\ hits' \subseteq Updates \ Blank
  <2>1. "url" \in sure => url \in {meant, NoWatch} \cup held
    BY <1>0 DEF UninstalledInv
  <2>2. ~installed /\ atEnd \in Updates => LateEnough(url)
    BY <1>0 DEF UninstalledInv
  <2>3. "url" \in sure => \A k \in 1..Len(older)' : older'[k].at # "reporting"
    BY <1>0 DEF UninstalledInv
  <2>4. PICK u : u = url
    OBVIOUS
  <2> QED
    BY <2>1, <2>2, <2>3, <2>4, HitsReport
<1>2. ReportTypeOK'
  BY <1>0, <1>1 DEF ReportTypeOK, Statuses, NoWatch, Updates
<1>3. ReplacedStaySilent'
  BY <1>0 DEF ReplacedStaySilent
<1>4. WatcherInv'
  BY <1>0 DEF WatcherInv, LateEnough, NoUrl, Updates
<1> QED
  BY <1>0, <1>1, <1>2, <1>3, <1>4 DEF ReportInv, Older

\* An observer that was replaced goes on, with the URL it had.
LEMMA OlderReports ==
  ASSUME ReportInv, NEW k \in 1..Len(older), NEW v \in Older, older' = [older EXCEPT ![k] = v],
         v.url = older[k].url, v.at # "done" => v.tries < MaxTries,
         v.at = "reporting" => older[k].at = "reporting",
         hits' = hits \/ (older[k].at = "reporting" /\ hits' = hits \cup ({v.url} \cap (Updates \ Blank))),
         ending' \in BOOLEAN,
         UNCHANGED <<watcher, installed, meant, sure, atEnd, held, url, backlog, sUrl>>
  PROVE  ReportInv'
<1>0. /\ ReportTypeOK /\ older \in Seq(Older) /\ ReplacedStaySilent /\ WatcherInv /\ UninstalledInv
      /\ DOMAIN older = 1..Len(older) /\ Len(older) \in Nat
  BY ReportParts
<1>1. /\ older' \in Seq(Older) /\ Len(older)' = Len(older) /\ DOMAIN older' = 1..Len(older)
      /\ \A l \in 1..Len(older) : older'[l] = IF l = k THEN v ELSE older[l]
  BY <1>0
<1>2. \A l \in 1..Len(older) : older'[l].at = "reporting" => older[l].at = "reporting" /\ older'[l].url = older[l].url
  BY <1>1
<1>3. NoOlderHit' /\ UninstalledInv' /\ hits' \subseteq Updates \ Blank
  <2>1. "url" \in sure => \A l \in 1..Len(older)' : older'[l].at # "reporting"
    BY <1>0, <1>1, <1>2 DEF UninstalledInv
  <2>2. older[k].at = "reporting" => ~installed /\ "url" \notin sure
    BY <1>0 DEF ReplacedStaySilent, UninstalledInv
  <2>3. older[k].at = "reporting" /\ atEnd \in Updates => LateEnough(v.url)
    BY <1>0 DEF WatcherInv
  <2> QED
    BY <2>1, <2>2, <2>3, HitsReport
<1>4. ReportTypeOK'
  <2>1. \A l \in DOMAIN older' : older'[l].url \in 0..MaxUpdates
    BY <1>0, <1>1 DEF ReportTypeOK, Older
  <2> QED
    BY <1>0, <1>3, <2>1 DEF ReportTypeOK, NoWatch, Updates
<1>5. ReplacedStaySilent'
  BY <1>0, <1>1, <1>2 DEF ReplacedStaySilent
<1>6. WatcherInv'
  <2>1. ASSUME NEW l \in 1..Len(older)
        PROVE  /\ older'[l].at # "done" => older'[l].tries < MaxTries
               /\ older'[l].at = "reporting" /\ atEnd \in Updates => LateEnough(older'[l].url)
    BY <1>0, <1>1, <1>2 DEF WatcherInv
  <2> QED
    BY <1>0, <1>1, <2>1 DEF WatcherInv, LateEnough, NoUrl, Updates
<1> QED
  BY <1>1, <1>3, <1>4, <1>5, <1>6 DEF ReportInv, Older

LEMMA AddWatchReports ==
  ASSUME ReportInv, AddWatch
  PROVE  ReportInv' /\ faults \subseteq faults' /\ faults' \subseteq faults \cup DaemonFaults
<1>0. /\ ReportTypeOK /\ older \in Seq(Older) /\ ReplacedStaySilent /\ WatcherInv
      /\ DOMAIN older = 1..Len(older)
  BY ReportParts
<1>1. UNCHANGED <<sUrl, backlog, url, held, installed, ending, hits, meant, sure, atEnd>>
  BY DEF AddWatch, appVars, daemonVars
<1>2. ending \in BOOLEAN
  BY <1>0 DEF ReportTypeOK
<1>3. ASSUME UNCHANGED older, NEW a \in {"watching", "blind"},
             watcher' = [watcher EXCEPT !.at = a], Watched(watcher, watcher')
      PROVE  ReportInv' /\ faults \subseteq faults' /\ faults' \subseteq faults \cup DaemonFaults
  <2>1. watcher \in [at : Statuses, tries : 0..MaxTries] /\ watcher.at = "starting"
    BY <1>0, <1>3 DEF ReportTypeOK, Statuses, Watched
  <2> DEFINE v == [watcher EXCEPT !.at = a]
  <2>2. v \in [at : Statuses, tries : 0..MaxTries] /\ v.at = a /\ v.tries = watcher.tries
    BY <2>1 DEF Statuses
  <2> HIDE DEF v
  <2>3. watcher' = v
    BY <1>3 DEF v
  <2>4. watcher.tries < MaxTries
    BY <1>0, <2>1 DEF WatcherInv
  <2>5. a # "blind" => installed
    BY <1>3, <2>2, <2>3 DEF Watched
  <2>6. installed => \A k \in 1..Len(older) : older[k].at # "reporting"
    BY <1>0 DEF ReplacedStaySilent
  <2>7. ReportInv'
    BY <1>1, <1>2, <1>3, <2>1, <2>2, <2>3, <2>4, <2>5, <2>6, CurrentReports
  <2> QED
    BY <1>3, <2>7 DEF Watched, DaemonFaults
<1>4. ASSUME UNCHANGED watcher, NEW k \in DOMAIN older, NEW a \in {"watching", "blind"},
             older' = [older EXCEPT ![k].at = a], Watched(older[k], older'[k])
      PROVE  ReportInv' /\ faults \subseteq faults' /\ faults' \subseteq faults \cup DaemonFaults
  <2>1. k \in 1..Len(older) /\ older[k] \in Older /\ older[k].at = "starting"
    BY <1>0, <1>4 DEF Watched
  <2> DEFINE v == [older[k] EXCEPT !.at = a]
  <2>2. v \in Older /\ v.at = a /\ v.tries = older[k].tries /\ v.url = older[k].url
    BY <2>1 DEF Older
  <2>3. older' = [older EXCEPT ![k] = v]
    BY <1>4
  <2> HIDE DEF v
  <2>4. older[k].tries < MaxTries
    BY <1>0, <2>1 DEF WatcherInv
  <2>5. ReportInv'
    BY <1>1, <1>2, <1>4, <2>1, <2>2, <2>3, <2>4, OlderReports
  <2> QED
    BY <1>4, <2>5 DEF Watched, DaemonFaults
<1> QED
  BY <1>3, <1>4 DEF AddWatch

LEMMA OnEventReports ==
  ASSUME ReportInv, OnEvent
  PROVE  ReportInv'
<1>0. /\ ReportTypeOK /\ older \in Seq(Older) /\ ReplacedStaySilent /\ WatcherInv
      /\ DOMAIN older = 1..Len(older)
  BY ReportParts
<1>1. UNCHANGED <<sUrl, backlog, url, held, installed, ending, hits, meant, sure, atEnd>> /\ ~installed
  BY DEF OnEvent, vars, appVars, daemonVars, history
<1>2. ending \in BOOLEAN
  BY <1>0 DEF ReportTypeOK
<1>3. ASSUME UNCHANGED older, watcher.at = "watching", watcher' = [watcher EXCEPT !.at = "reporting"]
      PROVE  ReportInv'
  <2>1. watcher \in [at : Statuses, tries : 0..MaxTries]
    BY <1>0 DEF ReportTypeOK, Statuses
  <2> DEFINE v == [watcher EXCEPT !.at = "reporting"]
  <2>2. v \in [at : Statuses, tries : 0..MaxTries] /\ v.at = "reporting" /\ v.tries = watcher.tries
    BY <2>1 DEF Statuses
  <2> HIDE DEF v
  <2>3. watcher' = v
    BY <1>3 DEF v
  <2>4. watcher.tries < MaxTries
    BY <1>0, <1>3 DEF WatcherInv
  <2>5. \A k \in 1..Len(older) : older[k].at # "reporting"
    BY <1>0, <1>3 DEF ReplacedStaySilent
  <2> QED
    BY <1>1, <1>2, <1>3, <2>2, <2>3, <2>4, <2>5, CurrentReports
<1>4. ASSUME UNCHANGED watcher, NEW k \in DOMAIN older, older' = [older EXCEPT ![k].at = "done"]
      PROVE  ReportInv'
  <2>1. k \in 1..Len(older) /\ older[k] \in Older
    BY <1>0, <1>4
  <2> DEFINE v == [older[k] EXCEPT !.at = "done"]
  <2>2. v \in Older /\ v.at = "done" /\ v.url = older[k].url
    BY <2>1 DEF Older
  <2>3. older' = [older EXCEPT ![k] = v]
    BY <1>4
  <2> HIDE DEF v
  <2> QED
    BY <1>1, <1>2, <1>4, <2>1, <2>2, <2>3, OlderReports
<1> QED
  BY <1>3, <1>4 DEF OnEvent

\* An observer that watched is done, or hears of nothing more.
LEMMA WatchEnds ==
  ASSUME ReportInv, NEW a \in {"done", "blind"},
         \/ watcher.at = "watching" /\ watcher' = [watcher EXCEPT !.at = a] /\ UNCHANGED older
         \/ /\ \E k \in DOMAIN older : older[k].at = "watching" /\ older' = [older EXCEPT ![k].at = a]
            /\ UNCHANGED watcher,
         ending' \in BOOLEAN,
         UNCHANGED <<sUrl, backlog, url, held, installed, hits, meant, sure, atEnd>>
  PROVE  ReportInv'
<1>0. /\ ReportTypeOK /\ older \in Seq(Older) /\ ReplacedStaySilent /\ WatcherInv
      /\ DOMAIN older = 1..Len(older)
  BY ReportParts
<1>1. CASE watcher.at = "watching" /\ watcher' = [watcher EXCEPT !.at = a] /\ UNCHANGED older
  <2>1. watcher \in [at : Statuses, tries : 0..MaxTries]
    BY <1>0 DEF ReportTypeOK, Statuses
  <2> DEFINE v == [watcher EXCEPT !.at = a]
  <2>2. v \in [at : Statuses, tries : 0..MaxTries] /\ v.at = a /\ v.tries = watcher.tries
    BY <2>1 DEF Statuses
  <2> HIDE DEF v
  <2>3. watcher' = v
    BY <1>1 DEF v
  <2>4. watcher.tries < MaxTries
    BY <1>0, <1>1 DEF WatcherInv
  <2>5. \A k \in 1..Len(older) : older[k].at # "reporting"
    BY <1>0, <1>1 DEF ReplacedStaySilent
  <2> QED
    BY <1>1, <2>2, <2>3, <2>4, <2>5, CurrentReports
<1>2. ASSUME UNCHANGED watcher, NEW k \in DOMAIN older, older[k].at = "watching",
             older' = [older EXCEPT ![k].at = a]
      PROVE  ReportInv'
  <2>1. k \in 1..Len(older) /\ older[k] \in Older
    BY <1>0, <1>2
  <2> DEFINE v == [older[k] EXCEPT !.at = a]
  <2>2. v \in Older /\ v.at = a /\ v.url = older[k].url /\ v.tries = older[k].tries
    BY <2>1 DEF Older
  <2>3. older' = [older EXCEPT ![k] = v]
    BY <1>2
  <2>4. older[k].tries < MaxTries
    BY <1>0, <1>2, <2>1 DEF WatcherInv
  <2> HIDE DEF v
  <2> QED
    BY <1>2, <2>1, <2>2, <2>3, <2>4, OlderReports
<1> QED
  BY <1>1, <1>2

LEMMA OnErrorReports ==
  ASSUME ReportInv, OnError
  PROVE  ReportInv'
<1>1. UNCHANGED <<sUrl, backlog, url, held, installed, hits, meant, sure, atEnd>> /\ ending' \in BOOLEAN
  BY DEF OnError, appVars, daemonVars
<1> QED
  BY <1>1, WatchEnds DEF OnError

LEMMA EventLostReports ==
  ASSUME ReportInv, EventLost
  PROVE  ReportInv'
<1>1. UNCHANGED <<sUrl, backlog, url, held, installed, hits, meant, sure, atEnd>> /\ ending' \in BOOLEAN
  BY ReportParts DEF EventLost, appVars, daemonVars, ReportTypeOK
<1> QED
  BY <1>1, WatchEnds DEF EventLost

\* What one attempt may come to.
LEMMA OutcomeOfCurrent ==
  ASSUME NEW w \in [at : Statuses, tries : 0..MaxTries], w.at = "reporting", w.tries < MaxTries,
         NEW u \in 0..MaxUpdates, NEW out \in Outcomes(w, u)
  PROVE  /\ out.who \in [at : Statuses, tries : 0..MaxTries] /\ out.who.at \in {"reporting", "done"}
         /\ out.who.at = "reporting" => out.who.tries < MaxTries
         /\ out.hits \in {hits, hits \cup ({u} \cap (Updates \ Blank))} /\ out.fault \subseteq {"curl", "network"}
<1> DEFINE done   == [w EXCEPT !.at = "done"]
           failed == IF w.tries + 1 = MaxTries THEN [done EXCEPT !.tries = @ + 1]
                     ELSE [w EXCEPT !.tries = @ + 1]
<1>1. w.tries \in Nat /\ MaxTries \in Nat
  BY Constants
<1>2. done \in [at : Statuses, tries : 0..MaxTries] /\ done.at = "done" /\ done.tries = w.tries
  BY DEF Statuses
<1>3. /\ failed \in [at : Statuses, tries : 0..MaxTries] /\ failed.at \in {"reporting", "done"}
      /\ failed.at = "reporting" => failed.tries < MaxTries
  <2> HIDE DEF done
  <2>1. w.tries + 1 \in 0..MaxTries
    BY <1>1
  <2>2. CASE w.tries + 1 = MaxTries
    <3>1. failed = [done EXCEPT !.tries = w.tries + 1]
      BY <1>2, <2>2
    <3> QED
      BY <1>2, <2>1, <3>1
  <2>3. CASE w.tries + 1 # MaxTries
    <3>1. failed = [w EXCEPT !.tries = w.tries + 1] /\ w.tries + 1 < MaxTries
      BY <1>1, <2>3
    <3> QED
      BY <2>1, <3>1
  <2> QED
    BY <2>2, <2>3
<1> HIDE DEF done, failed
<1>4. /\ out.who \in {done, failed} /\ out.hits \in {hits, hits \cup ({u} \cap (Updates \ Blank))}
      /\ out.fault \subseteq {"curl", "network"}
  <2>1. ~NoText(u) => {u} \cap (Updates \ Blank) = {u}
    BY Constants DEF NoText
  <2> QED
    BY <2>1 DEF Outcomes, done, failed
<1> QED
  BY <1>2, <1>3, <1>4

LEMMA OutcomeOfOlder ==
  ASSUME NEW w \in Older, w.at = "reporting", w.tries < MaxTries, NEW out \in Outcomes(w, w.url)
  PROVE  /\ out.who \in Older /\ out.who.at \in {"reporting", "done"} /\ out.who.url = w.url
         /\ out.who.at = "reporting" => out.who.tries < MaxTries
         /\ out.hits \in {hits, hits \cup ({w.url} \cap (Updates \ Blank))} /\ out.fault \subseteq {"curl", "network"}
<1> DEFINE done   == [w EXCEPT !.at = "done"]
           failed == IF w.tries + 1 = MaxTries THEN [done EXCEPT !.tries = @ + 1]
                     ELSE [w EXCEPT !.tries = @ + 1]
<1>1. w.tries \in Nat /\ MaxTries \in Nat
  BY Constants DEF Older
<1>2. done \in Older /\ done.at = "done" /\ done.tries = w.tries /\ done.url = w.url
  BY DEF Older
<1>3. /\ failed \in Older /\ failed.at \in {"reporting", "done"} /\ failed.url = w.url
      /\ failed.at = "reporting" => failed.tries < MaxTries
  <2> HIDE DEF done
  <2>1. w.tries + 1 \in 0..MaxTries
    BY <1>1
  <2>2. CASE w.tries + 1 = MaxTries
    <3>1. failed = [done EXCEPT !.tries = w.tries + 1]
      BY <1>2, <2>2
    <3> QED
      BY <1>2, <2>1, <3>1 DEF Older
  <2>3. CASE w.tries + 1 # MaxTries
    <3>1. failed = [w EXCEPT !.tries = w.tries + 1] /\ w.tries + 1 < MaxTries
      BY <1>1, <2>3
    <3> QED
      BY <2>1, <3>1 DEF Older
  <2> QED
    BY <2>2, <2>3
<1> HIDE DEF done, failed
<1>4. /\ out.who \in {done, failed} /\ out.hits \in {hits, hits \cup ({w.url} \cap (Updates \ Blank))}
      /\ out.fault \subseteq {"curl", "network"}
  <2>1. ~NoText(w.url) => {w.url} \cap (Updates \ Blank) = {w.url}
    BY Constants DEF NoText, Older
  <2> QED
    BY <2>1 DEF Outcomes, done, failed
<1> QED
  BY <1>2, <1>3, <1>4

LEMMA AttemptReports ==
  ASSUME Typed, ReportInv, Attempt
  PROVE  ReportInv' /\ faults \subseteq faults' /\ faults' \subseteq faults \cup DaemonFaults
<1>0. /\ ReportTypeOK /\ older \in Seq(Older) /\ ReplacedStaySilent /\ WatcherInv
      /\ DOMAIN older = 1..Len(older)
  BY ReportParts
<1>1. UNCHANGED <<sUrl, backlog, url, held, installed, meant, sure, atEnd>>
  BY DEF Attempt, appVars, daemonVars
<1>2. ending \in BOOLEAN
  BY <1>0 DEF ReportTypeOK
<1>3. ASSUME UNCHANGED older, watcher.at = "reporting", NEW out \in Outcomes(watcher, url),
             watcher' = out.who, Ended(out)
      PROVE  ReportInv' /\ faults \subseteq faults' /\ faults' \subseteq faults \cup DaemonFaults
  <2>1. watcher \in [at : Statuses, tries : 0..MaxTries] /\ watcher.tries < MaxTries /\ ~installed
    BY <1>0, <1>3 DEF ReportTypeOK, Statuses, WatcherInv
  <2>2. PICK u \in 0..MaxUpdates : u = url
    BY <1>0, <1>3, Constants DEF ReportTypeOK, Typed
  <2>3. /\ out.who \in [at : Statuses, tries : 0..MaxTries] /\ out.who.at \in {"reporting", "done"}
        /\ out.who.at = "reporting" => out.who.tries < MaxTries
        /\ out.hits \in {hits, hits \cup ({u} \cap (Updates \ Blank))} /\ out.fault \subseteq {"curl", "network"}
    BY <1>3, <2>1, <2>2, OutcomeOfCurrent
  <2>4. hits' = out.hits /\ faults' = faults \cup out.fault /\ ending' \in BOOLEAN
    BY <1>2, <1>3 DEF Ended
  <2>5. \A k \in 1..Len(older) : older[k].at # "reporting"
    BY <1>0, <1>3 DEF ReplacedStaySilent
  <2>6. ReportInv'
    BY <1>1, <1>3, <2>1, <2>2, <2>3, <2>4, <2>5, CurrentReports
  <2> QED
    BY <2>3, <2>4, <2>6 DEF DaemonFaults
<1>4. ASSUME UNCHANGED watcher, NEW k \in DOMAIN older, older[k].at = "reporting",
             NEW out \in Outcomes(older[k], older[k].url), older' = [older EXCEPT ![k] = out.who], Ended(out)
      PROVE  ReportInv' /\ faults \subseteq faults' /\ faults' \subseteq faults \cup DaemonFaults
  <2>1. k \in 1..Len(older) /\ older[k] \in Older
    BY <1>0, <1>4
  <2>2. older[k].tries < MaxTries /\ ~installed
    BY <1>0, <1>4, <2>1 DEF WatcherInv, ReplacedStaySilent
  <2>3. /\ out.who \in Older /\ out.who.at \in {"reporting", "done"} /\ out.who.url = older[k].url
        /\ out.who.at = "reporting" => out.who.tries < MaxTries
        /\ out.hits \in {hits, hits \cup ({older[k].url} \cap (Updates \ Blank))} /\ out.fault \subseteq {"curl", "network"}
    BY <1>4, <2>1, <2>2, OutcomeOfOlder
  <2>4. hits' = out.hits /\ faults' = faults \cup out.fault /\ ending' \in BOOLEAN
    BY <1>2, <1>4 DEF Ended
  <2>5. ReportInv'
    BY <1>1, <1>4, <2>1, <2>2, <2>3, <2>4, OlderReports
  <2> QED
    BY <2>3, <2>4, <2>5 DEF DaemonFaults
<1> QED
  BY <1>3, <1>4 DEF Attempt

\* The daemon is gone, and its observers with it.
LEMMA GoneReports ==
  ASSUME ReportInv, Gone, backlog' = <<>>, url' = NoWatch, UNCHANGED <<held, sUrl>>
  PROVE  ReportInv'
<1>0. ReportTypeOK /\ NoOlderHit /\ UninstalledInv
  BY ReportParts
<1>1. /\ watcher' = [at |-> "none", tries |-> 0] /\ older' = <<>> /\ ending' = FALSE
      /\ UNCHANGED <<installed, hits, meant, sure, atEnd>>
  BY DEF Gone, Nobody
<1>2. Len(<<>>) = 0 /\ DOMAIN <<>> = {} /\ <<>> \in Seq(Older)
  OBVIOUS
<1>3. ReportTypeOK'
  <2>1. watcher' \in [at : Statuses, tries : 0..MaxTries] /\ watcher'.at = "none"
    BY <1>1, Constants DEF Statuses
  <2>2. DOMAIN older' = {} /\ url' = NoWatch
    BY <1>1, <1>2
  <2> QED
    BY <1>0, <1>1, <2>1, <2>2 DEF ReportTypeOK, Statuses, NoWatch, Updates
<1>4. NoOlderHit' /\ ReplacedStaySilent' /\ WatcherInv'
  BY <1>0, <1>1, <1>2, Constants DEF NoOlderHit, ReplacedStaySilent, WatcherInv, Updates
<1>5. UninstalledInv'
  <2>1. atEnd \in Updates => NoWatch >= atEnd
    BY Constants
  <2> QED
    BY <1>0, <1>1, <1>2, <2>1 DEF UninstalledInv, LateEnough, NoUrl, NoWatch, Updates
<1> QED
  BY <1>1, <1>2, <1>3, <1>4, <1>5 DEF ReportInv, Older

-----------------------------------------------------------------------------
(* The whole. *)

LEMMA ServiceStepKeeps ==
  ASSUME WayInv, installed, ServiceStep, UNCHANGED installed
  PROVE  WayInv'
<1>1. Running \subseteq Ids
  BY WayParts DEF Running, Typed
<1>2. CASE SetHttpRequestOnUninstall \/ OnServiceConnected \/ OnCreate \/ Tick \/ Destroy
  BY <1>2, SetStep, ConnectStep, CreateStep, TickStep, DestroyStep
<1>3. ASSUME NEW i \in Running,
             TimerTask(i) \/ HandleMessage(i) \/ Start(i) \/ SetHttpRequestOnDelete(i)
      PROVE  WayInv'
  BY <1>1, <1>3, TimerStep, HandleMessageStep, StartStep, SendStep
<1>4. CASE KillApplication \/ KillService
  BY <1>4, KillApplicationStep, KillServiceStep
<1> QED
  BY <1>2, <1>3, <1>4 DEF ServiceStep

\* Only a report after the uninstall, or an error, ends the daemon.
LEMMA EndingKept ==
  ASSUME ReportInv, EndingInv, [NextAll]_allVars
  PROVE  EndingInv'
<1> USE DEF EndingInv
<1>1. CASE UNCHANGED ending
  <2>1. (installed' => installed) /\ ("read" \in faults => "read" \in faults')
    <3>1. faults \subseteq faults'
      BY DEF NextAll, allVars, vars, history, reportVars, ServiceStep, SetHttpRequestOnUninstall, OnServiceConnected,
             OnCreate, LoadLibrary, Tick, Destroy, TimerTask, HandleMessage, Start, SetHttpRequestOnDelete,
             SendRequest, KillApplication, KillService, Uninstall, StartListening, HandleRequest, Handle,
             AddWatch, Watched, OnEvent, OnError, EventLost, Attempt, Ended, Exit, Gone, KillDaemon
    <3>2. installed' => installed
      BY DEF NextAll, allVars, reportVars, Uninstall, HandleRequest, AddWatch, OnEvent, OnError, EventLost,
             Attempt, Exit, Gone
    <3> QED
      BY <3>1, <3>2
  <2> QED
    BY <1>1, <2>1
<1>2. CASE Attempt
  <2>1. ~installed /\ UNCHANGED installed
    BY <1>2, ReportParts DEF Attempt, WatcherInv, ReplacedStaySilent
  <2> QED
    BY <2>1
<1>3. CASE OnError
  BY <1>3 DEF OnError
<1>4. CASE Gone
  BY <1>4 DEF Gone
<1> QED
  BY <1>1, <1>2, <1>3, <1>4
     DEF NextAll, allVars, reportVars, Uninstall, HandleRequest, AddWatch, OnEvent, EventLost, Exit

LEMMA UninstallInit == InitAll => UninstallIInv
<1> SUFFICES ASSUME InitAll
             PROVE  UninstallIInv
  OBVIOUS
<1>1. /\ sUrl = NoUrl /\ updates = 0 /\ bound = 0 /\ toConnect = 0
      /\ started = FALSE /\ lib = "unloaded" /\ services = <<>>
      /\ daemon = "none" /\ backlog = <<>> /\ url = NoWatch
      /\ held = {} /\ kills = 0 /\ faults = {}
      /\ installed = TRUE /\ watcher = [at |-> "none", tries |-> 0] /\ older = <<>> /\ ending = FALSE
      /\ hits = {} /\ meant = NoUrl /\ sure = {} /\ atEnd = NoWatch
  BY DEF InitAll, Init, Nobody
<1>2. /\ Len(services) = 0 /\ Len(backlog) = 0 /\ Len(older) = 0 /\ Ids = {} /\ DOMAIN older = {}
      /\ services \in Seq(Service) /\ backlog \in Seq(0..MaxUpdates) /\ older \in Seq(Older)
  BY <1>1 DEF Ids
<1>3. 0 \in 0..MaxUpdates /\ 0 \in 0..0 /\ 0 \in 0..MaxKills /\ 0 \in 0..MaxTries /\ NoWatch \in 0..NoWatch
      /\ 0 <= MaxServices /\ NoWatch \notin Updates /\ NoWatch # NoUrl
  BY Constants, ServiceAssumption DEF ServiceAssumption
<1>4. TypeOK /\ AppInv
  <2>1. sUrl = 0
    BY <1>1, Constants
  <2>2. TypeOK
    BY <1>1, <1>2, <1>3, <2>1 DEF TypeOK
  <2>3. AppInv
    BY <1>1, <2>1 DEF AppInv
  <2> QED
    BY <2>2, <2>3
<1>5. ServicesInv /\ InOrder
  BY <1>1, <1>2, Constants DEF ServicesInv, InOrder, Known, BacklogInOrder, SendingInOrder, MessagesInOrder,
                               DaemonWithin
<1>6. DaemonOff /\ PathsFollowed /\ PathFirst /\ LatestOnItsWay
  BY <1>1, <1>2, <1>3 DEF DaemonOff, PathsFollowed, PathFirst, LatestOnItsWay
<1>7. ReportTypeOK
  BY <1>1, <1>2, <1>3, Constants DEF ReportTypeOK
<1>8. NoOlderHit /\ ReplacedStaySilent /\ WatcherInv /\ UninstalledInv /\ EndingInv
  BY <1>1, <1>2, <1>3, Constants DEF NoOlderHit, ReplacedStaySilent, WatcherInv, UninstalledInv, EndingInv
<1> QED
  BY <1>2, <1>4, <1>5, <1>6, <1>7, <1>8 DEF UninstallIInv, WayInv, ReportInv

LEMMA UninstallNext == UninstallIInv /\ [NextAll]_allVars => UninstallIInv'
<1> SUFFICES ASSUME UninstallIInv, [NextAll]_allVars
             PROVE  UninstallIInv'
  OBVIOUS
<1>1. WayInv /\ ReportInv /\ EndingInv /\ Typed
  BY WayParts DEF UninstallIInv
<1>2. sUrl # NoUrl => installed
  BY <1>1, ReportParts DEF UninstalledInv
<1>0. EndingInv'
  BY <1>1, EndingKept
<1>3. CASE installed /\ ServiceStep /\ UNCHANGED reportVars
  <2>1. UNCHANGED installed
    BY <1>3 DEF reportVars
  <2> QED
    BY <1>0, <1>1, <1>3, <2>1, ServiceStepKeeps, ServiceStepKeepsUrl, ReportKept DEF UninstallIInv
<1>4. CASE Uninstall
  BY <1>0, <1>1, <1>4, UninstallStep, UninstallReports DEF UninstallIInv
<1>5. CASE StartListening /\ UNCHANGED reportVars
  <2>1. /\ UNCHANGED <<appVars, serviceVars, backlog, url, held, kills, installed, faults>>
        /\ daemon' = "listening" /\ UNCHANGED reportVars /\ sUrl' = sUrl
    BY <1>5 DEF StartListening, reportVars, history, appVars
  <2> QED
    BY <1>0, <1>1, <2>1, QuietStep, ReportKept DEF UninstallIInv
<1>6. CASE HandleRequest
  <2>1. Handle /\ UNCHANGED installed
    BY <1>6 DEF HandleRequest
  <2> QED
    BY <1>0, <1>1, <1>2, <1>6, <2>1, HandleStep, HandleRequestReports DEF UninstallIInv
<1>7. CASE AddWatch
  <2>1. /\ UNCHANGED <<appVars, serviceVars, backlog, url, held, kills, installed>> /\ daemon' = daemon
    BY <1>7 DEF AddWatch, daemonVars
  <2>2. ReportInv' /\ faults \subseteq faults' /\ faults' \subseteq faults \cup DaemonFaults
    BY <1>1, <1>7, AddWatchReports
  <2> QED
    BY <1>0, <1>1, <2>1, <2>2, QuietStep DEF UninstallIInv
<1>8. CASE OnEvent
  <2>1. /\ UNCHANGED <<appVars, serviceVars, backlog, url, held, kills, installed, faults>> /\ daemon' = daemon
    BY <1>8 DEF OnEvent, vars, daemonVars, history
  <2> QED
    BY <1>0, <1>1, <1>8, <2>1, QuietStep, OnEventReports DEF UninstallIInv
<1>9. CASE Attempt
  <2>1. /\ UNCHANGED <<appVars, serviceVars, backlog, url, held, kills, installed>> /\ daemon' = daemon
    BY <1>9 DEF Attempt, daemonVars
  <2>2. ReportInv' /\ faults \subseteq faults' /\ faults' \subseteq faults \cup DaemonFaults
    BY <1>1, <1>9, AttemptReports
  <2> QED
    BY <1>0, <1>1, <2>1, <2>2, QuietStep DEF UninstallIInv
<1>10. CASE Exit
  <2>1. /\ ending /\ Gone /\ daemon' = "none" /\ backlog' = <<>> /\ url' = NoWatch
        /\ UNCHANGED <<appVars, serviceVars, held, kills, faults, installed, sUrl>>
    BY <1>10 DEF Exit, Gone, history, appVars
  <2>2. (~installed /\ sUrl = NoUrl) \/ "read" \in faults
    BY <1>1, <1>2, <2>1 DEF EndingInv
  <2>3. kills' \in 0..MaxKills
    BY <1>1, <2>1, WayParts DEF TypeOK
  <2> QED
    BY <1>0, <1>1, <2>1, <2>2, <2>3, DaemonEnds, GoneReports DEF UninstallIInv
<1>11. CASE KillDaemon /\ Gone
  <2>1. /\ daemon' = "none" /\ backlog' = <<>> /\ url' = NoWatch /\ faults' = faults \cup {"daemon"}
        /\ kills < MaxKills /\ kills' = kills + 1
        /\ UNCHANGED <<appVars, serviceVars, held, installed, sUrl>>
    BY <1>11 DEF KillDaemon, Gone, appVars
  <2>2. kills' \in 0..MaxKills
    <3>1. kills \in 0..MaxKills
      BY <1>1, WayParts DEF TypeOK
    <3> QED
      BY <2>1, <3>1, Constants
  <2> QED
    BY <1>0, <1>1, <1>11, <2>1, <2>2, DaemonEnds, GoneReports DEF UninstallIInv
<1>12. CASE UNCHANGED allVars
  <2>1. /\ UNCHANGED <<appVars, serviceVars, backlog, url, held, kills, installed, faults, reportVars, sUrl>>
        /\ daemon' = daemon
    BY <1>12 DEF allVars, vars, daemonVars, history, reportVars, appVars
  <2> QED
    BY <1>0, <1>1, <2>1, QuietStep, ReportKept DEF UninstallIInv
<1>13. CASE OnError
  <2>1. /\ UNCHANGED <<appVars, serviceVars, backlog, url, held, kills, installed>> /\ daemon' = daemon
        /\ faults' = faults \cup {"read"}
    BY <1>13 DEF OnError, daemonVars
  <2> QED
    BY <1>0, <1>1, <1>13, <2>1, QuietStep, OnErrorReports DEF UninstallIInv
<1>14. CASE EventLost
  <2>1. /\ UNCHANGED <<appVars, serviceVars, backlog, url, held, kills, installed>> /\ daemon' = daemon
        /\ faults \subseteq faults' /\ faults' \subseteq faults \cup DaemonFaults
    BY <1>14 DEF EventLost, daemonVars, DaemonFaults
  <2> QED
    BY <1>0, <1>1, <1>14, <2>1, QuietStep, EventLostReports DEF UninstallIInv
<1> QED
  BY <1>3, <1>4, <1>5, <1>6, <1>7, <1>8, <1>9, <1>10, <1>11, <1>12, <1>13, <1>14 DEF NextAll

\* The inductive invariant holds in every state.
THEOREM UninstallIInvHolds == SpecAll => []UninstallIInv
BY UninstallInit, UninstallNext, PTL DEF SpecAll

LEMMA EmptyUrlExplained ==
  ASSUME UninstallIInv
  PROVE  EmptyUrlHasCause
<1>0. Typed /\ PathsFollowed /\ ServicesInv
  BY WayParts DEF UninstallIInv
<1>3. url \in Blank => url <= updates
  <2>1. url # NoWatch => url <= updates
    BY WayParts DEF UninstallIInv, InOrder, Known, DaemonWithin
  <2> QED
    BY <2>1, Constants, BlankUpdates
<1> SUFFICES ASSUME installed, url = NoUrl, "service" \notin faults,
                    \A i \in Running : services[i].at # "url"
             PROVE  \E u \in ToSet(backlog) : u # NoUrl
  BY <1>3 DEF EmptyUrlHasCause, NoText
<1>1. ~UrlFollows
  <2>1. ASSUME NEW i \in Ids, services[i].at = "url"
        PROVE  FALSE
    <3>1. services[i].life = "killed"
      BY <1>0, <2>1 DEF Running, Typed
    <3> QED
      BY <1>0, <2>1, <3>1 DEF ServicesInv, ServiceInv
  <2> QED
    BY <2>1 DEF UrlFollows
<1>2. PICK l \in 1..Len(backlog) : backlog[l] # NoUrl
  BY <1>0, <1>1 DEF PathsFollowed
<1>4. backlog[l] \in ToSet(backlog)
  BY <1>0, <1>2 DEF Typed, ToSet
<1> QED
  BY <1>2, <1>4

\* What the daemon knows before the uninstall bounds what it does after it:
\* no older hit, no observer that was replaced reports, and the daemon watches
\* with no text to send only while a URL follows, or the service was killed
\* between the two, or the application has set an empty text
\* (UninstallMonitor.java:22-46, UninstallObserver.java:17).
THEOREM UninstallSafe == SpecAll => []UninstallInv
<1>1. UninstallIInv => UninstallInv
  BY EmptyUrlExplained DEF UninstallInv, UninstallIInv, WayInv, ReportInv
<1> QED
  BY <1>1, UninstallIInvHolds, PTL

\* When everything has arrived and nothing failed, the daemon has the latest
\* URL, or one that was delayed (UninstallService.java).
THEOREM LatestUrlIsKept == SpecAll => []LatestUrlKept
<1>1. UninstallIInv => LatestUrlKept
  <2> SUFFICES ASSUME UninstallIInv, AtRest, faults \cap ServiceFaults = {}
               PROVE  url = sUrl \/ url \in held
    BY DEF LatestUrlKept
  <2>1. sUrl # NoUrl => installed
    BY ReportParts DEF UninstallIInv, UninstalledInv
  <2> QED
    BY <2>1, RestHasLatest DEF UninstallIInv, NoFault
<1> QED
  BY <1>1, UninstallIInvHolds, PTL

\* The hit is the one the application asked for last, or one that was delayed,
\* when nothing was under way at the uninstall and nothing had failed.
THEOREM HitIsMeant == SpecAll => []HitIsTheOneMeant
<1>1. UninstallIInv => HitIsTheOneMeant
  BY ReportParts DEF UninstallIInv, UninstalledInv, HitIsTheOneMeant
<1> QED
  BY <1>1, UninstallIInvHolds, PTL

\* The daemon's URL gives way to an older one only if that one was delayed.
THEOREM NeverGoesBack == SpecAll => GoesBackOnlyToDelayed
<1>1. UninstallIInv /\ [NextAll]_allVars =>
        [(url' < url /\ {url, url'} \subseteq Updates) => url' \in held]_vars
  <2> SUFFICES ASSUME UninstallIInv, [NextAll]_allVars, url' < url, {url, url'} \subseteq Updates
               PROVE  url' \in held
    OBVIOUS
  <2>1. Typed /\ InOrder
    BY WayParts DEF UninstallIInv
  <2>2. url # NoWatch /\ url' # NoWatch /\ url' # NoUrl /\ url' # url
    <3>1. url \in Nat
      BY <2>1 DEF Typed
    <3> QED
      BY <3>1, Constants
  <2>3. Handle
    BY <2>2, ServiceStepKeepsUrl
       DEF NextAll, Uninstall, StartListening, HandleRequest, AddWatch, OnEvent, OnError,
           EventLost, Attempt, Exit, KillDaemon,
           allVars, vars, daemonVars
  <2>4. Shifted
    BY <2>1, <2>3, HandleShifts
  <2>5. url' = backlog[1] /\ 1 \in 1..Len(backlog)
    BY <2>1, <2>2, <2>4 DEF Shifted, Typed
  <2>6. CASE Fresh(backlog[1])
    <3>1. url <= backlog[1]
      BY <2>1, <2>2, <2>5, <2>6 DEF InOrder, BacklogInOrder
    <3> QED
      BY <2>1, <2>5, <3>1 DEF Typed
  <2> QED
    BY <2>5, <2>6 DEF Fresh
<1> QED
  BY <1>1, UninstallIInvHolds, PTL DEF SpecAll, GoesBackOnlyToDelayed
=============================================================================
