-------------------------------- MODULE AutoPtr --------------------------------
(***************************************************************************)
(* Reference counting with several threads: TC_AutoPtr, a handle whose     *)
(* every change is a few unlocked steps, around TC_HandleBase, whose count *)
(* is a TC_Atomic: one locked step at a time.  Between two of those steps  *)
(* any other thread may run.                                               *)
(*                                                                         *)
(* Clients are assumed to change a handle in one thread at a time and to   *)
(* read it while nobody changes it (only the count is locked), and not to  *)
(* take noDelete back (decRef tests the count and noDelete in two steps).  *)
(***************************************************************************)
EXTENDS Integers, FiniteSets

CONSTANTS Object, Handle, Thread,
          Null,    \* the null pointer
          Unmade,  \* a handle that is not constructed, or destroyed
          None     \* no handle

ASSUME AutoPtrAssumption ==
  /\ IsFiniteSet(Handle) /\ IsFiniteSet(Thread)
  /\ Handle \cap Thread = {} /\ None \notin Handle
  /\ Null \notin Object /\ Unmade \notin Object \cup {Null}

VARIABLES ptr,      \* _ptr of every handle
          count,    \* _atomic of every object
          noDelete, \* _bNoDelete
          object,   \* history: "unborn", "live" or "deleted"
          thread,   \* what every thread is in the middle of
          touched   \* history: objects that were used after they were deleted

ptrVars == <<ptr, count, noDelete, object, thread, touched>>

Place == {"idle",
          "copied",    \* a constructor has the pointer and has yet to count it
          "assigning", \* operator= has seen that the pointers differ
          "counted",   \* operator= has counted the new pointer
          "releasing", \* decRef is to come
          "zero"}      \* dec_and_test returned true

Step(at, h, r, o) == [at |-> at, handle |-> h, from |-> r, p |-> o]
Idle == Step("idle", None, None, Null)

PtrInit ==
  /\ ptr = [h \in Handle |-> Unmade]
  /\ count = [o \in Object |-> 0]
  /\ noDelete = [o \in Object |-> FALSE]
  /\ object = [o \in Object |-> "unborn"]
  /\ thread = [t \in Thread |-> Idle]
  /\ touched = {}

Changing(h) == \E t \in Thread : thread[t].handle = h
Reading(h)  == \E t \in Thread : thread[t].from = h

\* A thread that is between two calls and may change, or may read, the handle.
Made(h)         == ptr[h] # Unmade /\ \A t \in Thread : ~(thread[t].at = "copied" /\ thread[t].handle = h)
MayChange(t, h) == thread[t] = Idle /\ Made(h) /\ ~Changing(h) /\ ~Reading(h)
MayRead(h)      == Made(h) /\ ~Changing(h)

Goto(t, s) == thread' = [thread EXCEPT ![t] = s]
Use(o)     == touched' = touched \cup (IF object[o] = "deleted" THEN {o} ELSE {})

-----------------------------------------------------------------------------
(* Handles. *)

\* A pointer that no handle need hold: new, or of an object kept by other means.
Pointer(o) ==
  \/ o = Null /\ UNCHANGED object
  \/ o # Null /\ object[o] = "unborn" /\ object' = [object EXCEPT ![o] = "live"]
  \/ o # Null /\ object[o] = "live" /\ noDelete[o] /\ UNCHANGED object

ConstructPtr(t, h, o) == \* TC_AutoPtr(T* p = 0)
  /\ thread[t] = Idle /\ ptr[h] = Unmade /\ Pointer(o)
  /\ ptr' = [ptr EXCEPT ![h] = o]
  /\ Goto(t, IF o = Null THEN Idle ELSE Step("copied", h, None, o))
  /\ UNCHANGED <<count, noDelete, touched>>

CopyPtr(t, h, r) ==
  /\ thread[t] = Idle /\ ptr[h] = Unmade /\ MayRead(r)
  /\ ptr' = [ptr EXCEPT ![h] = ptr[r]]
  /\ Goto(t, IF ptr[r] = Null THEN Idle ELSE Step("copied", h, r, ptr[r]))
  /\ UNCHANGED <<count, noDelete, object, touched>>

AssignPtr(t, h, o) == \* operator=(T* p)
  /\ MayChange(t, h) /\ ptr[h] # o /\ Pointer(o)
  /\ Goto(t, Step(IF o = Null THEN "counted" ELSE "assigning", h, None, o))
  /\ UNCHANGED <<ptr, count, noDelete, touched>>

AssignHandle(t, h, r) == \* operator=(const TC_AutoPtr& r)
  /\ MayChange(t, h) /\ MayRead(r) /\ ptr[h] # ptr[r]
  /\ Goto(t, Step(IF ptr[r] = Null THEN "counted" ELSE "assigning", h, r, ptr[r]))
  /\ UNCHANGED <<ptr, count, noDelete, object, touched>>

IncRef(t) ==
  /\ thread[t].at \in {"copied", "assigning"}
  /\ Use(thread[t].p) /\ count' = [count EXCEPT ![thread[t].p] = @ + 1]
  /\ Goto(t, IF thread[t].at = "copied" THEN Idle ELSE [thread[t] EXCEPT !.at = "counted"])
  /\ UNCHANGED <<ptr, noDelete, object>>

Replace(t) == \* T* ptr = _ptr; _ptr = p, or r._ptr, which is read again
  LET s == thread[t]
  IN  /\ s.at = "counted"
      /\ ptr' = [ptr EXCEPT ![s.handle] = IF s.from = None THEN s.p ELSE ptr[s.from]]
      /\ Goto(t, IF ptr[s.handle] = Null THEN Idle
                 ELSE Step("releasing", None, None, ptr[s.handle]))
      /\ UNCHANGED <<count, noDelete, object, touched>>

DestroyPtr(t, h) ==
  /\ thread[t] = Idle /\ ptr[h] # Unmade /\ ~Changing(h) /\ ~Reading(h)
  /\ ptr' = [ptr EXCEPT ![h] = Unmade]
  /\ Goto(t, IF ptr[h] = Null THEN Idle ELSE Step("releasing", None, None, ptr[h]))
  /\ UNCHANGED <<count, noDelete, object, touched>>

SwapPtrs(t, h, r) ==
  /\ thread[t] = Idle /\ h # r /\ Unmade \notin {ptr[h], ptr[r]}
  /\ \A k \in {h, r} : ~Changing(k) /\ ~Reading(k)
  /\ ptr' = [ptr EXCEPT ![h] = ptr[r], ![r] = ptr[h]]
  /\ UNCHANGED <<count, noDelete, object, thread, touched>>

-----------------------------------------------------------------------------
(* The object's side. *)

SetNoDelete(t, h) == \* setNoDelete(true)
  /\ thread[t] = Idle /\ ptr[h] \in Object /\ ~Changing(h)
  /\ noDelete' = [noDelete EXCEPT ![ptr[h]] = TRUE]
  /\ UNCHANGED <<ptr, count, object, thread, touched>>

\* Mutant: the last reference but one deletes.
DecRefEarly(t) ==
  LET o == thread[t].p
  IN  /\ thread[t].at = "releasing"
      /\ Use(o) /\ count' = [count EXCEPT ![o] = @ - 1]
      /\ Goto(t, IF count[o] <= 2 THEN Step("zero", None, None, o) ELSE Idle)
      /\ UNCHANGED <<ptr, noDelete, object>>

DecRef(t) == \* _atomic.dec_and_test()
  LET o == thread[t].p
  IN  /\ thread[t].at = "releasing"
      /\ Use(o) /\ count' = [count EXCEPT ![o] = @ - 1]
      /\ Goto(t, IF count[o] = 1 THEN Step("zero", None, None, o) ELSE Idle)
      /\ UNCHANGED <<ptr, noDelete, object>>

Delete(t) == \* && !_bNoDelete
  LET o == thread[t].p
  IN  /\ thread[t].at = "zero" /\ Use(o) /\ Goto(t, Idle)
      /\ IF noDelete[o] THEN UNCHANGED <<noDelete, object>>
         ELSE /\ noDelete' = [noDelete EXCEPT ![o] = TRUE]
              /\ object' = [object EXCEPT ![o] = "deleted"]
      /\ UNCHANGED <<ptr, count>>

PtrNext ==
  \E t \in Thread :
    \/ \E h \in Handle : \/ DestroyPtr(t, h) \/ SetNoDelete(t, h)
                         \/ \E o \in Object \cup {Null} : ConstructPtr(t, h, o) \/ AssignPtr(t, h, o)
                         \/ \E r \in Handle : CopyPtr(t, h, r) \/ AssignHandle(t, h, r) \/ SwapPtrs(t, h, r)
    \/ IncRef(t) \/ Replace(t) \/ DecRef(t) \/ Delete(t)

PtrSpec == PtrInit /\ [][PtrNext]_ptrVars

-----------------------------------------------------------------------------
(* Properties. *)

PtrTypeOK ==
  /\ ptr \in [Handle -> Object \cup {Null, Unmade}]
  /\ count \in [Object -> Nat] /\ noDelete \in [Object -> BOOLEAN]
  /\ object \in [Object -> {"unborn", "live", "deleted"}]
  /\ thread \in [Thread -> [at : Place, handle : Handle \cup {None},
                            from : Handle \cup {None}, p : Object \cup {Null}]]
  /\ touched \subseteq Object

\* Who holds a counted reference: handles, but for those still to count theirs,
\* and threads that have counted what they will store or have still to release
\* what they have removed.
HasCounted(h, o) == ptr[h] = o /\ Made(h)
Holds(t, o)      == thread[t].at \in {"counted", "releasing"} /\ thread[t].p = o
Holders(o)       == {h \in Handle : HasCounted(h, o)} \cup {t \in Thread : Holds(t, o)}

\* The count is the number of references, whatever the threads are in the
\* middle of.
CountIsHolders == \A o \in Object : count[o] = Cardinality(Holders(o))

\* Nothing holds or is about to use an object that is deleted, and nobody ever
\* did.
DeletedIsForgotten ==
  /\ touched = {}
  /\ \A o \in Object : object[o] = "deleted" =>
       (\A h \in Handle : ptr[h] # o) /\ \A t \in Thread : thread[t].p # o

\* An object that is to be deleted is deleted with its last reference: it is
\* referred to, or about to be, or a thread is about to delete it.
NothingLeaks ==
  \A o \in Object : object[o] = "live" /\ ~noDelete[o] =>
    (\E h \in Handle : ptr[h] = o) \/ \E t \in Thread : thread[t].p = o

\* Whatever the threads are in the middle of, an object is deleted when the last
\* reference to it goes, not before and not never (tc_autoptr.h:55-67).
PtrInv == PtrTypeOK /\ CountIsHolders /\ DeletedIsForgotten /\ NothingLeaks

=============================================================================
