------------------------------- MODULE MCHolders -------------------------------
(* The three utilities that own something, for TLC: output buffers with       *)
(* writes of up to two bytes, counted pointers, and Java references.  They    *)
(* have nothing to do with one another, so a behaviour moves one of them only *)
(* while the others are as they were made, and may share the names of values. *)
EXTENDS BufferWriter, AutoPtr, ScopedJavaRef, TLC

CONSTANTS b1, b2

SomeChunks == {<<b1>>, <<b2, b1>>}

Symmetry == Permutations(Writers) \cup Permutations(Addresses)

-----------------------------------------------------------------------------
Init == BufferInit /\ PtrInit /\ RefInit

Next ==
  \/ PtrInit /\ RefInit /\ BufferNext /\ UNCHANGED <<ptrVars, refVars>>
  \/ BufferInit /\ RefInit /\ PtrNext /\ UNCHANGED <<bufferVars, refVars>>
  \/ BufferInit /\ PtrInit /\ RefNext /\ UNCHANGED <<bufferVars, ptrVars>>

Spec == Init /\ [][Next]_<<bufferVars, ptrVars, refVars>>
=============================================================================
