---------------------------- MODULE MCEngineDisk ----------------------------
(***************************************************************************)
(* Instances of EngineDisk for TLC.                                        *)
(***************************************************************************)
EXTENDS EngineDisk

Symmetry == Permutations(ExtIds) \cup Permutations(Vecs)

\* Under GroupCommit the possible contents pile up between two flushes.
MCMaxMay == [Always |-> 5, GroupCommit |-> 3]
MCMaxMayWide == [Always |-> 5, GroupCommit |-> 5]
=============================================================================
