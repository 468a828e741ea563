----------------------------- MODULE MCQueueAndEnd -----------------------------
(* Two small parts for TLC: the list of events on a small heap, and the end of *)
(* the daemon with an observer and the one that replaces it.  They share       *)
(* nothing: a behaviour moves one of them only, while the other is as it       *)
(* starts.                                                                     *)
EXTENDS EventQueue, DaemonEnd, TLC

Symmetry == Permutations(Entry) \cup Permutations(Reporter)

-----------------------------------------------------------------------------
InitEither == Init /\ EndInit

NextEither ==
  \/ EndInit /\ Next /\ UNCHANGED endVars
  \/ Init /\ EndNext /\ UNCHANGED queueVars

SpecEither == InitEither /\ [][NextEither]_<<queueVars, endVars>>

=============================================================================
