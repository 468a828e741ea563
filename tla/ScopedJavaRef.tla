----------------------------- MODULE ScopedJavaRef -----------------------------
(***************************************************************************)
(* The holders of Java references: ScopedJavaLocalRef, bound to the JNIEnv *)
(* of one thread, and ScopedJavaGlobalRef.  The JVM's reference tables are *)
(* external: a slot that is deleted may be handed out again, so a          *)
(* reference deleted twice may be somebody else's.                         *)
(*                                                                         *)
(* Clients keep the rule of the class comments: a local holder stays on    *)
(* its thread, and nobody uses a holder that another thread is changing.   *)
(***************************************************************************)
EXTENDS Naturals

CONSTANTS JavaThread, Local, Global, \* the threads and the two kinds of holders
          Slot, JavaObject,          \* of the JVM
          Nothing,                  \* no reference, no environment
          Free                   \* an empty slot

ASSUME HoldersAssumption ==
  /\ Local \cap Global = {} /\ Nothing \notin Slot \cup JavaThread
  /\ Free \notin [kind : {"local", "global"}, thread : JavaThread, object : JavaObject]

VARIABLES ref,     \* the JVM's references: kind, thread that may use it, object
          obj,     \* obj_ of every holder
          env,     \* env_ of the local ones
          home,    \* history: the thread a local holder was made on, or Nothing
          made,    \* the holders that are constructed
          raw,     \* references the client holds itself and must delete
          misused  \* history: calls with a reference that was not valid there

holderVars == <<obj, env, home, made>>
refVars == <<ref, holderVars, raw, misused>>

Holder == Local \cup Global

RefInit ==
  /\ ref = [s \in Slot |-> Free]
  /\ obj = [h \in Holder |-> Nothing] /\ env = [h \in Local |-> Nothing]
  /\ home = [h \in Local |-> Nothing]
  /\ made = {} /\ raw = {} /\ misused = {}

-----------------------------------------------------------------------------
(* The JVM. *)

Valid(t, s, table) == table[s] # Free /\ (table[s].kind = "global" \/ table[s].thread = t)

\* NewLocalRef and NewGlobalRef, which yield Nothing when the table is full.
NewRef(t, kind, s, n, table) ==
  IF n = Nothing THEN table
  ELSE [table EXCEPT ![n] =
          [kind |-> kind, thread |-> t,
           object |-> IF table[s] = Free THEN Nothing ELSE table[s].object]]
Fresh(s, table) ==
  LET free == {n \in Slot : table[n] = Free}
  IN  IF s = Nothing \/ free = {} THEN {Nothing} ELSE free

DeleteRef(s, table) == IF s = Nothing THEN table ELSE [table EXCEPT ![s] = Free]

Check(t, uses, table) == misused' = misused \cup {s \in uses \ {Nothing} : ~Valid(t, s, table)}

-----------------------------------------------------------------------------
(* JavaRef<jobject>. *)

Kind(h) == IF h \in Local THEN "local" ELSE "global"

SetNewRef(t, h, s) == \* SetNewLocalRef and SetNewGlobalRef
  \E n \in Fresh(s, ref) :
    /\ Check(t, {s, obj[h]}, ref)
    /\ ref' = DeleteRef(obj[h], NewRef(t, Kind(h), s, n, ref))
    /\ obj' = [obj EXCEPT ![h] = n]

ResetRef(t, h) == \* ResetLocalRef and ResetGlobalRef
  /\ Check(t, {obj[h]}, ref)
  /\ ref' = DeleteRef(obj[h], ref)
  /\ obj' = [obj EXCEPT ![h] = Nothing]

-----------------------------------------------------------------------------
(* The client's side of raw references. *)

Obtain(t, o) == \* any JNI function that returns an object
  \E n \in Slot :
    /\ ref[n] = Free
    /\ ref' = [ref EXCEPT ![n] = [kind |-> "local", thread |-> t, object |-> o]]
    /\ raw' = raw \cup {n}
    /\ UNCHANGED <<holderVars, misused>>

DeleteRaw(t, s) == \* DeleteLocalRef, DeleteGlobalRef
  /\ s \in raw /\ Valid(t, s, ref)
  /\ ref' = DeleteRef(s, ref) /\ raw' = raw \ {s}
  /\ UNCHANGED <<holderVars, misused>>

-----------------------------------------------------------------------------
(* The holders. *)

Usable(t, h) == h \in made /\ (h \in Local => home[h] = t)

Make(t, h) ==
  /\ h \notin made /\ made' = made \cup {h}
  /\ home' = IF h \in Local THEN [home EXCEPT ![h] = t] ELSE home

\* The environment a local holder keeps after a call that was given e.
Keep(t, h, e) == env' = IF h \in Local THEN [env EXCEPT ![h] = IF e = Nothing THEN t ELSE e] ELSE env

Construct(t, h) == \* ScopedJavaLocalRef(), ScopedJavaGlobalRef()
  /\ Make(t, h)
  /\ env' = IF h \in Local THEN [env EXCEPT ![h] = Nothing] ELSE env
  /\ UNCHANGED <<ref, obj, raw, misused>>

Adopt(t, h, s) == \* ScopedJavaLocalRef(env, obj)
  /\ h \in Local /\ Make(t, h)
  /\ s \in raw /\ Valid(t, s, ref) /\ ref[s].kind = "local"
  /\ obj' = [obj EXCEPT ![h] = s] /\ env' = [env EXCEPT ![h] = t] /\ raw' = raw \ {s}
  /\ UNCHANGED <<ref, misused>>

CopyConstruct(t, h, r) == \* of two local holders: what SetNewLocalRef returns is dropped
  /\ h \in Local /\ r \in Local /\ Usable(t, r) /\ Make(t, h)
  /\ SetNewRef(t, h, obj[r])
  /\ env' = [env EXCEPT ![h] = env[r]]
  /\ UNCHANGED raw

EnvOf(h, r) == IF r \in Local THEN env[r] ELSE IF h \in Local THEN env[h] ELSE Nothing

ResetFrom(t, h, r) == \* Reset(other), operator=, h and r may be one
  /\ Usable(t, h) /\ Usable(t, r)
  /\ SetNewRef(t, h, obj[r]) /\ Keep(t, h, EnvOf(h, r))
  /\ UNCHANGED <<home, made, raw>>

ConstructFrom(t, h, r) == \* the explicit constructors
  /\ Make(t, h) /\ Usable(t, r) /\ h # r
  /\ SetNewRef(t, h, obj[r])
  /\ Keep(t, h, IF r \in Local THEN env[r] ELSE Nothing)
  /\ UNCHANGED raw

ResetTo(t, h, s) == \* Reset(env, obj), the caller keeps obj
  /\ Usable(t, h) /\ s \in raw /\ Valid(t, s, ref)
  /\ SetNewRef(t, h, s) /\ Keep(t, h, t)
  /\ UNCHANGED <<home, made, raw>>

Reset(t, h) ==
  /\ Usable(t, h) /\ ResetRef(t, h)
  /\ UNCHANGED <<env, home, made, raw>>

Release(t, h) ==
  /\ Usable(t, h) /\ obj[h] # Nothing
  /\ raw' = raw \cup {obj[h]} /\ obj' = [obj EXCEPT ![h] = Nothing]
  /\ UNCHANGED <<ref, env, home, made, misused>>

\* Mutant: a destructor without Reset.
DestroyOnly(t, h) ==
  /\ Usable(t, h)
  /\ made' = made \ {h} /\ obj' = [obj EXCEPT ![h] = Nothing]
  /\ home' = IF h \in Local THEN [home EXCEPT ![h] = Nothing] ELSE home
  /\ UNCHANGED <<ref, env, raw, misused>>

Destroy(t, h) ==
  /\ Usable(t, h) /\ ResetRef(t, h)
  /\ made' = made \ {h}
  /\ home' = IF h \in Local THEN [home EXCEPT ![h] = Nothing] ELSE home
  /\ UNCHANGED <<env, raw>>

RefNext ==
  \E t \in JavaThread :
    \/ \E o \in JavaObject : Obtain(t, o)
    \/ \E s \in Slot : DeleteRaw(t, s) \/ \E h \in Holder : Adopt(t, h, s) \/ ResetTo(t, h, s)
    \/ \E h \in Holder : \/ Construct(t, h) \/ Reset(t, h) \/ Release(t, h) \/ Destroy(t, h)
                         \/ \E r \in Holder : \/ CopyConstruct(t, h, r) \/ ConstructFrom(t, h, r)
                                              \/ ResetFrom(t, h, r)

RefSpec == RefInit /\ [][RefNext]_refVars

-----------------------------------------------------------------------------
(* Properties. *)

RefTypeOK ==
  /\ ref \in [Slot -> {Free} \cup [kind : {"local", "global"}, thread : JavaThread,
                                   object : JavaObject]]
  /\ obj \in [Holder -> Slot \cup {Nothing}] /\ env \in [Local -> JavaThread \cup {Nothing}]
  /\ home \in [Local -> JavaThread \cup {Nothing}]
  /\ made \subseteq Holder /\ raw \subseteq Slot /\ misused \subseteq Slot

\* No call is given a reference that was deleted, or is local to another thread,
\* even when a holder is assigned to itself (scoped_java_ref.cpp:38-43, 56-60).
NeverMisused == misused = {}

\* Every reference of the JVM has exactly one owner, which will delete it: a
\* holder of its kind, or the client (scoped_java_ref.h:93-160, 167-190).
Owns(h, s) == obj[h] = s
OneOwner ==
  \A s \in Slot :
    /\ ref[s] # Free => s \in raw \/ \E h \in made : Owns(h, s)
    /\ \A h \in Holder : Owns(h, s) =>
         /\ h \in made /\ ref[s] # Free /\ s \notin raw /\ ref[s].kind = Kind(h)
         /\ \A k \in Holder : Owns(k, s) => k = h

\* A local holder that has a reference knows the environment of its own thread, so
\* that its destructor has one to delete it with (scoped_java_ref.h:77-106, 135).
EnvironmentKnown == \A h \in Local : obj[h] # Nothing => env[h] = home[h]

\* Holders may be copied, assigned to each other and to themselves, reset and
\* released in any order and thread: no reference is leaked, deleted twice, used
\* after its deletion, or used in another thread than its own.
RefInv == RefTypeOK /\ NeverMisused /\ OneOwner /\ EnvironmentKnown

=============================================================================
