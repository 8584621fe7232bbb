--------------------------- MODULE MCProgramCache ---------------------------
(***************************************************************************)
(* Instance of ProgramCache for TLC.                                        *)
(***************************************************************************)
EXTENDS ProgramCache, TLC

CONSTANTS p1, b1, b2

\* Threads are interchangeable.
Symmetry == Permutations(Batches)
=============================================================================
