---------------------------- MODULE ConflictOrder ----------------------------
(***************************************************************************)
(* What the unified scheduler promises, with no queues and no locks: tasks *)
(* whose transactions touch the same account in conflicting ways run one   *)
(* at a time and in the order of their task ids, and a task waits only     *)
(* when it must.                                                           *)
(*                                                                         *)
(* A task is committed once nothing can overtake it any more: it is ready  *)
(* or running.  A new task commits at once when every active task it       *)
(* conflicts with is still waiting and has a greater id; finishing a task  *)
(* commits exactly the tasks for which that has become true.  The module   *)
(* is deterministic in this respect, so an implementation can neither run  *)
(* a task too early nor forget to wake one.                                *)
(***************************************************************************)
EXTENDS Naturals

CONSTANTS
    Tasks,          \* task ids; the smaller id has the higher priority
    Transactions,
    Conflicting(_, _)   \* transactions that may not run in parallel

VARIABLES
    tx,         \* the transaction of each active task
    waiting, ready, running

vars == <<tx, waiting, ready, running>>

Active == waiting \union ready \union running

Conflict(t, u) == t # u /\ Conflicting(tx[t], tx[u])

\* Nothing of `others` has to run before task t of the transaction x.
Unhindered(t, x, others) ==
    \A u \in others : t # u /\ Conflicting(x, tx[u]) => u \in waiting /\ t < u

Init ==
    /\ tx = [t \in {} |-> 0]
    /\ waiting = {} /\ ready = {} /\ running = {}

\* `runs` tells whether the caller gets a task that is runnable at once.
Arrive(t, x, runs) ==
    /\ t \notin Active
    /\ tx' = [u \in DOMAIN tx \union {t} |-> IF u = t THEN x ELSE tx[u]]
    /\ IF Unhindered(t, x, Active)
       THEN /\ ready' = IF runs THEN ready ELSE ready \union {t}
            /\ running' = IF runs THEN running \union {t} ELSE running
            /\ UNCHANGED waiting
       ELSE waiting' = waiting \union {t} /\ UNCHANGED <<ready, running>>

Run(t) ==
    /\ t \in ready
    /\ ready' = ready \ {t}
    /\ running' = running \union {t}
    /\ UNCHANGED <<tx, waiting>>

\* Whom the departure of t leaves unhindered.
Freed(t) == {u \in waiting : Unhindered(u, tx[u], Active \ {t})}

\* A running task is finished, or a ready one is discarded.
Depart(t) ==
    /\ t \in ready \union running
    /\ ready' = (ready \ {t}) \union Freed(t)
    /\ running' = running \ {t}
    /\ waiting' = waiting \ Freed(t)
    /\ tx' = [u \in DOMAIN tx \ {t} |-> tx[u]]

Next ==
    \/ \E t \in Tasks, x \in Transactions, runs \in BOOLEAN : Arrive(t, x, runs)
    \/ \E t \in Tasks : Run(t) \/ Depart(t)

Spec == Init /\ [][Next]_vars

-----------------------------------------------------------------------------
\* "Those returned runnable tasks are guaranteed to be safe to execute in
\* parallel": no two of them conflict.
ConflictFree == \A t, u \in ready \union running : ~Conflict(t, u)

\* A task waits only for a conflicting task that has the higher priority or
\* is beyond recall.
NoIdleWaiting == \A t \in waiting : ~Unhindered(t, tx[t], Active)

\* A task never becomes runnable while a conflicting task of higher priority
\* is left waiting.
NoOvertaking ==
    [][\A t \in waiting \intersect waiting', u \in (ready \union running)' :
          u \notin ready \union running /\ Conflict(t, u)' => u < t]_vars
=============================================================================
