--------------------------- MODULE MCPohRecording ---------------------------
EXTENDS PohRecording, TLC

\* The senders run the same code.
Symmetry == Permutations(Senders)
=============================================================================
