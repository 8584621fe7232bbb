------------------------ MODULE SchedulingStateMachine ------------------------
(***************************************************************************)
(* The unified scheduler's core (agave/unified-scheduler-logic/src/lib.rs). *)
(*                                                                         *)
(* Every address has a usage queue: who uses it now, shared by readers or   *)
(* held by one writer, and which tasks are blocked on it.  A new task tries *)
(* to lock all its addresses and remembers how many it could not get; a     *)
(* task that is descheduled unlocks its addresses and hands each to the     *)
(* next blocked tasks, whose counts go down.  At zero a task is runnable.   *)
(* Block verification queues tasks in the order they come.  Block           *)
(* production queues them by task id and takes addresses back (reblocks)    *)
(* from lower tasks that are not runnable yet.                              *)
(*                                                                         *)
(* One thread owns the state machine, so each call is one step; only        *)
(* clear_and_reinitialize is a loop of steps, with nothing in between.      *)
(* FifoUsage counts the readers of an address; here they are a set in both  *)
(* modes.  Counters that are only reported are left out.                    *)
(***************************************************************************)
EXTENDS Naturals, Sequences, FiniteSets, Functions

CONSTANTS
    Tasks,          \* task ids
    Transactions,   \* their hashes
    LockContexts,   \* for each transaction, its addresses and usages in order
    MaxRunning,     \* max_running_task_count of block production
    MaxUnique       \* max_unique_active_task_count of block production

VARIABLES
    mode,           \* SchedulingMode, fixed when the threads start
    created,        \* tasks that have arrived so far
    tx,             \* the transaction of each active task
    machine,        \* usage queues, blocked usage counts, unblocked_task_queue
    running,        \* tasks returned to the caller, not yet descheduled
    active_task_count,
    unique_active_task_hashes,
    clearing        \* inside clear_and_reinitialize

vars == <<mode, created, tx, machine, running, active_task_count,
          unique_active_task_hashes, clearing>>

Addresses == {c.address : c \in UNION {Range(LockContexts[x]) : x \in Transactions}}

\* A transaction names an address once: tasks are only created for transactions
\* that validate_account_locks has accepted.
ASSUME LocksAssumption ==
    /\ Tasks \subseteq Nat
    /\ \A x \in Transactions :
          /\ LockContexts[x] \in Seq([address : Addresses, usage : {"readonly", "writable"}])
          /\ \A i, j \in DOMAIN LockContexts[x] :
                LockContexts[x][i].address = LockContexts[x][j].address => i = j

-----------------------------------------------------------------------------
\* UsageQueueInner

\* current_usage is None when there are no users.
EmptyQueue == [usage |-> "readonly", users |-> {}, blocked |-> <<>>]

Capability == IF mode = "verification" THEN "fifo" ELSE "priority"

\* The usage task t requests of address a.
RequestedUsage(t, a) ==
    CHOOSE u \in {"readonly", "writable"} : [address |-> a, usage |-> u] \in Range(LockContexts[tx[t]])

\* The tasks of S by task id.
InOrder(S) ==
    CHOOSE s \in [1 .. Cardinality(S) -> S] :
        Range(s) = S /\ \A i, j \in DOMAIN s : i < j => s[i] < s[j]

\* UsageQueueInner::push of each task of S: at the back, or by task id.
Push(blocked, S) ==
    IF Capability = "fifo" THEN blocked \o InOrder(S)
    ELSE InOrder(Range(blocked) \union S)

\* The users that t takes the address from: lower ones that are themselves
\* still blocked elsewhere (try_reblock).  Readers give way to a writer only.
Reblocked(m, q, t, usage) ==
    {u \in q.users : /\ Capability = "priority"
                     /\ q.usage = "writable" \/ usage = "writable"
                     /\ t < u
                     /\ m.blocked_usage_count[u] > 0}

\* Mutant: a reader joins the current readers past a writer that waits.
MutantGranted(q, t, usage, users) ==
    users = {} \/ (q.usage = "readonly" /\ usage = "readonly")

\* prepare_lock and try_lock succeed, once the reblocked users are gone.
Granted(q, t, usage, users) ==
    LET shared == users # {} /\ q.usage = "readonly" /\ usage = "readonly" IN
    IF Capability = "fifo"
    THEN q.blocked = <<>> /\ (users = {} \/ shared)
    ELSE IF shared
         THEN q.blocked = <<>> \/ t < Head(q.blocked)
         ELSE users = {}

\* One iteration of try_lock_usage_queues.
Lock(m, t, c) ==
    LET q == m.queues[c.address]
        taken == Reblocked(m, q, t, c.usage)
        users == q.users \ taken
        granted == Granted(q, t, c.usage, users)
        new == IF granted
               THEN [usage |-> c.usage, users |-> users \union {t},
                     blocked |-> Push(q.blocked, taken)]
               ELSE [q EXCEPT !.users = users, !.blocked = Push(Push(q.blocked, taken), {t})]
        more == taken \union (IF granted THEN {} ELSE {t})
    IN [m EXCEPT !.queues[c.address] = new,
                 !.blocked_usage_count =
                    [u \in Tasks |-> IF u \in more THEN @[u] + 1 ELSE @[u]]]

try_lock_usage_queues(m, t, x) ==
    LET n == Len(LockContexts[x])
        after[i \in 0 .. n] == IF i = 0 THEN m ELSE Lock(after[i - 1], t, LockContexts[x][i])
    IN  after[n]

\* Mutant: pop without pop_lockable_readonly.
MutantLockable(blocked, a) == IF blocked = <<>> THEN 0 ELSE 1

\* How many blocked tasks a free address is handed to: one writer, or the
\* readers at the front (pop and pop_lockable_readonly).
Lockable(blocked, a) ==
    LET reads == {k \in 1..Len(blocked) :
                    \A i \in 1..k : RequestedUsage(blocked[i], a) = "readonly"}
    IN IF blocked = <<>> THEN 0
       ELSE IF reads = {} THEN 1 ELSE CHOOSE k \in reads : k + 1 \notin reads

\* The tasks that are handed the last address they wait for join the queue of
\* those that can run, one after the other.
Woken(m, popped) ==
    LET queue[i \in 0 .. Len(popped)] ==
            IF i = 0 THEN m.unblocked_task_queue
            ELSE IF m.blocked_usage_count[popped[i]] = 1 THEN Append(queue[i - 1], popped[i])
            ELSE queue[i - 1]
    IN  queue[Len(popped)]

\* Mutant: the last reader does not hand the address on.
MutantUnlock(m, t, c) ==
    LET q == m.queues[c.address]
        n == IF q.usage = "writable" THEN Lockable(q.blocked, c.address) ELSE 0
        popped == SubSeq(q.blocked, 1, n)
    IN [queues |-> [m.queues EXCEPT ![c.address] =
                      IF n = 0 THEN [q EXCEPT !.users = @ \ {t}]
                      ELSE [usage |-> RequestedUsage(popped[1], c.address),
                            users |-> Range(popped),
                            blocked |-> SubSeq(q.blocked, n + 1, Len(q.blocked))]],
        blocked_usage_count |->
            [u \in Tasks |-> m.blocked_usage_count[u] - IF u \in Range(popped) THEN 1 ELSE 0],
        unblocked_task_queue |-> Woken(m, popped)]

\* One iteration of unlock_usage_queues.
Unlock(m, t, c) ==
    LET q == m.queues[c.address]
        users == q.users \ {t}
        n == IF users = {} THEN Lockable(q.blocked, c.address) ELSE 0
        popped == SubSeq(q.blocked, 1, n)
        new == IF n = 0 THEN [q EXCEPT !.users = users]
               ELSE [usage |-> RequestedUsage(popped[1], c.address),
                     users |-> Range(popped),
                     blocked |-> SubSeq(q.blocked, n + 1, Len(q.blocked))]
    IN [queues |-> [m.queues EXCEPT ![c.address] = new],
        blocked_usage_count |->
            [u \in Tasks |-> m.blocked_usage_count[u] - IF u \in Range(popped) THEN 1 ELSE 0],
        unblocked_task_queue |-> Woken(m, popped)]

unlock_usage_queues(m, t) ==
    LET n == Len(LockContexts[tx[t]])
        after[i \in 0 .. n] == IF i = 0 THEN m ELSE Unlock(after[i - 1], t, LockContexts[tx[t]][i])
    IN  after[n]

-----------------------------------------------------------------------------
\* SchedulingStateMachine

Init ==
    /\ mode \in {"verification", "production"}
    /\ created = {}
    /\ tx = [t \in {} |-> 0]
    /\ machine = [queues |-> [a \in Addresses |-> EmptyQueue],
                  blocked_usage_count |-> [t \in Tasks |-> 0],
                  unblocked_task_queue |-> <<>>]
    /\ running = {}
    /\ active_task_count = 0
    /\ unique_active_task_hashes = {}
    /\ clearing = FALSE

is_task_runnable == mode = "verification" \/ Cardinality(running) < MaxRunning

\* A task is created once.  Block verification numbers tasks in the
\* order of the ledger and sends them in that order.
New(t) ==
    /\ ~clearing
    /\ t \notin created
    /\ mode = "verification" => \A u \in created : u < t
    /\ created' = created \union {t}

\* The early returns of schedule_or_buffer_task: too many, or a duplicate.
Excess(x) ==
    /\ mode = "production"
    /\ \/ Cardinality(unique_active_task_hashes) >= MaxUnique
       \/ x \in unique_active_task_hashes

DropTask(t, x) ==
    /\ New(t)
    /\ Excess(x)
    /\ UNCHANGED <<mode, tx, machine, running, active_task_count,
                   unique_active_task_hashes, clearing>>

\* Tasks of block production are buffered while a session ends or is paused.
schedule_or_buffer_task(t, x, force_buffering) ==
    /\ New(t)
    /\ ~Excess(x)
    /\ force_buffering => mode = "production"
    /\ tx' = [u \in DOMAIN tx \union {t} |-> IF u = t THEN x ELSE tx[u]]
    /\ unique_active_task_hashes' =
           unique_active_task_hashes \union (IF mode = "production" THEN {x} ELSE {})
    /\ active_task_count' = active_task_count + 1
    /\ LET locked == try_lock_usage_queues(machine, t, x) IN
       \/ /\ locked.blocked_usage_count[t] > 0
          /\ machine' = locked
          /\ UNCHANGED running
       \/ /\ locked.blocked_usage_count[t] = 0
          /\ ~is_task_runnable \/ force_buffering
          /\ machine' = [locked EXCEPT !.unblocked_task_queue = Append(@, t)]
          /\ UNCHANGED running
       \/ /\ locked.blocked_usage_count[t] = 0
          /\ is_task_runnable /\ ~force_buffering
          /\ machine' = locked
          /\ running' = running \union {t}
    /\ UNCHANGED <<mode, clearing>>

schedule_next_unblocked_task ==
    /\ ~clearing
    /\ is_task_runnable
    /\ machine.unblocked_task_queue # <<>>
    /\ running' = running \union {Head(machine.unblocked_task_queue)}
    /\ machine' = [machine EXCEPT !.unblocked_task_queue = Tail(@)]
    /\ UNCHANGED <<mode, created, tx, active_task_count, unique_active_task_hashes, clearing>>

\* Mutant: the hash of a descheduled task stays in the set of active ones.
MutantRelease(m, t) ==
    /\ active_task_count' = active_task_count - 1
    /\ machine' = unlock_usage_queues(m, t)
    /\ running' = running \ {t}
    /\ tx' = [u \in DOMAIN tx \ {t} |-> tx[u]]
    /\ UNCHANGED <<mode, created, unique_active_task_hashes>>

\* What deschedule_task does to a task that the machine m has let go of.
Release(m, t) ==
    /\ unique_active_task_hashes' = unique_active_task_hashes \ {tx[t]}
    /\ active_task_count' = active_task_count - 1
    /\ machine' = unlock_usage_queues(m, t)
    /\ running' = running \ {t}
    /\ tx' = [u \in DOMAIN tx \ {t} |-> tx[u]]
    /\ UNCHANGED <<mode, created>>

deschedule_task(t) ==
    /\ ~clearing
    /\ t \in running
    /\ Release(machine, t)
    /\ UNCHANGED clearing

\* clear_and_reinitialize, called when a session of block production has
\* finished, hence no task is running.
Clear ==
    /\ mode = "production" /\ ~clearing /\ running = {} /\ active_task_count > 0
    /\ clearing' = TRUE
    /\ UNCHANGED <<mode, created, tx, machine, running, active_task_count,
                   unique_active_task_hashes>>

ClearNext ==
    /\ clearing
    /\ machine.unblocked_task_queue # <<>>
    /\ LET rest == [machine EXCEPT !.unblocked_task_queue = Tail(@)]
       IN Release(rest, Head(machine.unblocked_task_queue))
    /\ UNCHANGED clearing

\* reinitialize, whose assertions are part of MachineRewinds.
Reinitialize ==
    /\ clearing
    /\ machine.unblocked_task_queue = <<>>
    /\ clearing' = FALSE
    /\ UNCHANGED <<mode, created, tx, machine, running, active_task_count,
                   unique_active_task_hashes>>

Schedule ==
    \E t \in Tasks, x \in Transactions :
        \/ DropTask(t, x)
        \/ \E force \in BOOLEAN : schedule_or_buffer_task(t, x, force)

Next ==
    \/ Schedule
    \/ schedule_next_unblocked_task
    \/ \E t \in Tasks : deschedule_task(t)
    \/ Clear \/ ClearNext \/ Reinitialize

\* The steps of schedule_next_unblocked_task and of deschedule_task(t), told
\* from others by what they do to running.
TakesNext ==
    /\ mode = "verification"
    /\ machine.unblocked_task_queue # <<>>
    /\ running' = running \union {Head(machine.unblocked_task_queue)}

Returns(t) == t \in running /\ running' = running \ {t}

\* Block verification takes every unblocked task out of the machine before it
\* looks at new ones, and every handler returns its task.
Fairness == WF_running(TakesNext) /\ \A t \in Tasks : WF_running(Returns(t))

Spec == Init /\ [][Next]_vars /\ Fairness

-----------------------------------------------------------------------------
\* Properties

Waiting == {t \in DOMAIN tx : machine.blocked_usage_count[t] > 0}
Ready == Range(machine.unblocked_task_queue)

Conflicts(x, y) ==
    \E c \in Range(LockContexts[x]), d \in Range(LockContexts[y]) :
        c.address = d.address /\ "writable" \in {c.usage, d.usage}

Promise == INSTANCE ConflictOrder WITH
    waiting <- Waiting, ready <- Ready, Conflicting <- Conflicts

\* The usage queues implement ConflictOrder in both modes: conflicting tasks
\* never run together, run in the order of their ids unless one was runnable
\* before the other came, and descheduling a task makes runnable exactly the
\* tasks that nothing else holds back, so no wake-up is lost however often
\* addresses were taken back.
KeepsOrder == Promise!Spec

\* The assertions of prepare_lock, push_blocked and pop_lockable_readonly: an
\* address nobody uses has nobody blocked, and behind readers the first to be
\* blocked is a writer ("write-always-follows-read critical invariant").
WriteFollowsRead ==
    \A a \in Addresses :
        LET q == machine.queues[a] IN
        q.blocked # <<>> =>
            /\ q.users # {}
            /\ q.usage = "readonly" => RequestedUsage(Head(q.blocked), a) = "writable"

\* "UsageQueue state is identical to just after created, if has_no_active_task()",
\* and clear_and_reinitialize gets there by descheduling runnable tasks alone:
\* its assertions hold when it runs out of them.
MachineRewinds ==
    active_task_count = 0 \/ (clearing /\ machine.unblocked_task_queue = <<>>) =>
        /\ active_task_count = 0
        /\ unique_active_task_hashes = {}
        /\ machine.unblocked_task_queue = <<>>
        /\ \A a \in Addresses : machine.queues[a].users = {} /\ machine.queues[a].blocked = <<>>

\* In block verification every task that arrives is run and descheduled.
TasksFinish ==
    \A t \in Tasks :
        mode = "verification" /\ t \in DOMAIN tx ~> t \notin Waiting \union Ready \union running
=============================================================================
