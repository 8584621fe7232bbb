------------------------- MODULE MCSchedulerSessions -------------------------
EXTENDS SchedulerSessions

MCTransactions == {"reads", "writes"}
MCConflicting(x, y) == "writes" \in {x, y}
=============================================================================
