-------------------------- MODULE SchedulerSessions --------------------------
(***************************************************************************)
(* The threads of the unified scheduler in block verification: the          *)
(* ThreadManager of agave/unified-scheduler-pool/src/lib.rs and the         *)
(* BankWithScheduler of agave/runtime/src/installed_scheduler_pool.rs.      *)
(*                                                                         *)
(* The replay thread (owner) takes a scheduler from the pool for a bank,    *)
(* sends it tasks, and ends the session.  The scheduler thread passes tasks *)
(* to handler threads over a channel that is replaced for each session, and *)
(* collects them when they are finished.  The pool's cleaner thread ends    *)
(* the session of a bank that takes too long (the bank gets stale) and      *)
(* returns its scheduler; the owner resumes such a bank with the result so  *)
(* far.  A failed transaction aborts the scheduler thread, and whoever      *)
(* meets the closed channel joins all threads and fetches the error.        *)
(*                                                                         *)
(* Each iteration of a thread's loop is a step.  ConflictOrder stands for   *)
(* the scheduling state machine.  The two channels of finished tasks are    *)
(* one set: which of them is served first is open, because the select may   *)
(* miss a message that arrives while it looks.  Replay works on one bank    *)
(* at a time here; a scheduler given back may be taken for another fork,    *)
(* and is then out of sight.                                                *)
(***************************************************************************)
EXTENDS Integers, Sequences, FiniteSets, Functions

CONSTANTS
    Banks,              \* number of banks replayed
    TasksPerBank,       \* bound on the transactions of a bank
    Handlers,           \* number of handler threads
    Transactions,
    Conflicting(_, _)

ASSUME SessionsAssumption ==
    /\ Banks \in Nat
    /\ TasksPerBank \in Nat \ {0}
    /\ Handlers \in Nat \ {0}

VARIABLES
    bank,       \* the bank in replay and its SchedulerStatus
    owner,      \* where the replay thread is
    op,         \* what the holder of the bank's write lock is doing
    manager,    \* ThreadManager: pooled, joined, session_result_with_timings
    new_tasks,  \* the channel from the owner to the scheduler thread
    results,    \* the channel back
    scheduler,  \* the scheduler thread
    tx, waiting, ready, running,    \* its state machine
    channels,   \* the channels to the handlers, the last one is in use
    handlers,
    finished,   \* the channels back
    executed,   \* what became of each task of the bank
    crashed     \* a panic has reached the owner or the cleaner

machine == <<tx, waiting, ready, running>>
threads == <<scheduler, machine, channels, handlers, finished>>
vars == <<bank, owner, op, manager, new_tasks, results, threads, executed, crashed>>

Machine == INSTANCE ConflictOrder WITH Tasks <- 1..Banks * TasksPerBank

\* Results: Ok, or the task whose error it is.
Ok == 0
NoResult == -1
NoOp == [why |-> "none", at |-> "none", take |-> FALSE]

BankOf(t) == 1 + (t - 1) \div TasksPerBank
TasksOf(b) == {t \in 1..Banks * TasksPerBank : BankOf(t) = b}

Init ==
    /\ bank = [slot |-> 0, status |-> "unavailable", stale |-> NoResult,
               armed |-> FALSE, sent |-> 0, verdict |-> NoResult]
    /\ owner = "idle"
    /\ op = NoOp
    /\ manager = [pooled |-> FALSE, joined |-> TRUE, result |-> NoResult]
    /\ new_tasks = <<>> /\ results = <<>>
    /\ scheduler = [at |-> "exited", ending |-> FALSE, result |-> Ok]
    /\ Machine!Init
    /\ channels = <<>>
    /\ handlers = [h \in 1..Handlers |-> [at |-> "exited", channel |-> 1, context |-> 0, task |-> 0]]
    /\ finished = {}
    /\ executed = [t \in 1..Banks * TasksPerBank |-> "no"]
    /\ crashed = FALSE

\* new_task_receiver has not been dropped.
Receiving == scheduler.at \notin {"closed", "exited"}

\* The bank's lock is free.
Unlocked == op = NoOp /\ ~crashed

-----------------------------------------------------------------------------
\* Taking a scheduler: do_take_resumed_scheduler

\* A pooled scheduler gets a new session (start_session) ...
FromInner(b, result) ==
    /\ manager.pooled
    /\ manager' = [manager EXCEPT !.pooled = FALSE]
    /\ IF Receiving
       THEN /\ new_tasks' = Append(new_tasks, [kind |-> "open", bank |-> b, result |-> result])
            /\ UNCHANGED crashed
       ELSE crashed' = TRUE /\ UNCHANGED new_tasks     \* "no new session after aborted"
    /\ UNCHANGED <<results, threads>>

\* ... or new threads are started (start_threads).
Spawn(b, result) ==
    /\ ~manager.pooled
    /\ manager' = [pooled |-> FALSE, joined |-> FALSE, result |-> NoResult]
    /\ new_tasks' = <<>> /\ results' = <<>>
    /\ scheduler' = [at |-> "session", ending |-> FALSE, result |-> result]
    /\ tx' = [t \in {} |-> 0] /\ waiting' = {} /\ ready' = {} /\ running' = {}
    /\ channels' = <<[payloads |-> <<>>, aux |-> {}]>>
    /\ handlers' = [h \in 1..Handlers |-> [at |-> "loop", channel |-> 1, context |-> b, task |-> 0]]
    /\ finished' = {}
    /\ UNCHANGED crashed

Take(b, result) == FromInner(b, result) \/ Spawn(b, result)

\* BankForks::install_scheduler_into_bank
InstallScheduler ==
    /\ owner = "idle" /\ Unlocked /\ bank.slot < Banks
    /\ Take(bank.slot + 1, Ok)
    /\ bank' = [slot |-> bank.slot + 1, status |-> "active", stale |-> NoResult,
                armed |-> TRUE, sent |-> 0, verdict |-> NoResult]
    /\ owner' = "open"
    /\ executed' = [t \in DOMAIN executed |-> "no"]
    /\ UNCHANGED op

-----------------------------------------------------------------------------
\* BankWithScheduler::schedule_transaction_executions, one transaction a call

\* schedule_execution under the read lock, `b` being the bank after it.
SendTask(b) ==
    /\ b.sent < TasksPerBank
    /\ IF Receiving
       THEN \E x \in Transactions :
              LET t == (b.slot - 1) * TasksPerBank + b.sent + 1 IN
              /\ new_tasks' = Append(new_tasks, [kind |-> "payload", task |-> t, transaction |-> x])
              /\ bank' = [b EXCEPT !.sent = @ + 1]
              /\ owner' = "open"
       ELSE owner' = "failed" /\ bank' = b /\ UNCHANGED new_tasks
    /\ UNCHANGED <<op, manager, results, threads, executed, crashed>>

\* The fast path of with_active_scheduler.
Schedule ==
    /\ owner = "open" /\ Unlocked /\ bank.status = "active"
    /\ SendTask(bank)

\* A stale bank either keeps its error or is to be resumed: the read lock is
\* released.
ScheduleStale ==
    /\ owner = "open" /\ Unlocked /\ bank.status = "stale" /\ bank.sent < TasksPerBank
    /\ owner' = IF bank.stale = Ok THEN "resuming" ELSE "failed"
    /\ UNCHANGED <<bank, op, manager, new_tasks, results, threads, executed, crashed>>

\* The bank of another fork takes the scheduler that this one gave back.
TakenElsewhere ==
    /\ bank.status = "stale" /\ Unlocked
    /\ manager.pooled /\ scheduler.at = "between"
    /\ manager' = [manager EXCEPT !.pooled = FALSE, !.joined = TRUE]
    /\ scheduler' = [at |-> "exited", ending |-> FALSE, result |-> Ok]
    /\ channels' = <<>>
    /\ handlers' = [h \in 1..Handlers |-> [at |-> "exited", channel |-> 1, context |-> 0, task |-> 0]]
    /\ UNCHANGED <<bank, owner, op, new_tasks, results, machine, finished, executed, crashed>>

\* Mutant: the listener is registered before the read lock is taken again.
MutantResume ==
    /\ owner = "resuming" /\ Unlocked
    /\ Take(bank.slot, bank.stale)
    /\ bank' = [bank EXCEPT !.status = "active", !.stale = NoResult, !.armed = TRUE]
    /\ owner' = "resumed"
    /\ UNCHANGED <<op, executed>>

\* transition_from_stale_to_active under the write lock.
Resume ==
    /\ owner = "resuming" /\ Unlocked
    /\ Take(bank.slot, bank.stale)
    /\ bank' = [bank EXCEPT !.status = "active", !.stale = NoResult]
    /\ owner' = "resumed"
    /\ UNCHANGED <<op, executed>>

\* The read lock again: register_timeout_listener, then schedule_execution.
ScheduleResumed ==
    /\ owner = "resumed" /\ Unlocked
    /\ SendTask([bank EXCEPT !.armed = TRUE])

\* retrieve_error_after_schedule_failure; the bank is dead from here on.
RetrieveError ==
    /\ owner = "failed" /\ Unlocked
    /\ owner' = "dead"
    /\ IF bank.status = "active"
       THEN op' = [why |-> "recover", at |-> "join", take |-> TRUE] /\ UNCHANGED bank
       ELSE bank' = [bank EXCEPT !.verdict = bank.stale] /\ UNCHANGED op
    /\ UNCHANGED <<manager, new_tasks, results, threads, executed, crashed>>

-----------------------------------------------------------------------------
\* wait_for_scheduler_termination, and the listener of the cleaner thread

\* WaitReason::PausedForRecentBlockhash, after the last transaction.
Pause ==
    /\ owner = "open" /\ Unlocked
    /\ owner' = "paused"
    /\ op' = IF bank.status = "active" THEN [why |-> "pause", at |-> "end", take |-> FALSE] ELSE op
    /\ UNCHANGED <<bank, manager, new_tasks, results, threads, executed, crashed>>

\* TerminatedToFreeze, or DroppedFromBankForks.
Terminate ==
    /\ owner \in {"open", "paused", "dead"} /\ Unlocked
    /\ IF bank.status = "active"
       THEN /\ op' = [why |-> "terminate", at |-> "end", take |-> FALSE]
            /\ UNCHANGED <<bank, owner>>
       ELSE /\ bank' = [bank EXCEPT !.verdict = bank.stale, !.status = "unavailable", !.armed = FALSE]
            /\ owner' = "idle"
            /\ UNCHANGED op
    /\ UNCHANGED <<manager, new_tasks, results, threads, executed, crashed>>

\* The callback of do_create_timeout_listener.
TimeoutListener ==
    /\ bank.armed /\ Unlocked
    /\ bank' = [bank EXCEPT !.armed = FALSE]
    /\ op' = IF bank.status = "active" THEN [why |-> "stale", at |-> "end", take |-> FALSE] ELSE op
    /\ UNCHANGED <<owner, manager, new_tasks, results, threads, executed, crashed>>

\* The cleaner drops a scheduler of the pool (Drop of ThreadManager).  It shares
\* nothing with the one spawned after it, so only the last one is dropped here.
DropPooled ==
    /\ owner = "idle" /\ bank.slot = Banks /\ manager.pooled /\ Unlocked
    /\ op' = [why |-> "drop", at |-> "join", take |-> TRUE]
    /\ manager' = [manager EXCEPT !.pooled = FALSE]
    /\ new_tasks' = IF Receiving THEN Append(new_tasks, [kind |-> "disconnect"]) ELSE new_tasks
    /\ UNCHANGED <<bank, owner, results, threads, executed, crashed>>

\* do_end_session up to the wait for the result.
EndSession ==
    /\ op.at = "end" /\ ~crashed
    /\ IF manager.joined \/ manager.result # NoResult
       THEN op' = [op EXCEPT !.at = "return"] /\ UNCHANGED new_tasks
       ELSE IF Receiving
       THEN /\ new_tasks' = Append(new_tasks, [kind |-> "close"])
            /\ op' = [op EXCEPT !.at = "result"]
       ELSE op' = [op EXCEPT !.at = "join", !.take = TRUE] /\ UNCHANGED new_tasks
    /\ UNCHANGED <<bank, owner, manager, results, threads, executed, crashed>>

\* The rest of do_end_session.
ReceiveResult ==
    /\ op.at = "result" /\ ~crashed /\ results # <<>>
    /\ results' = Tail(results)
    /\ manager' = [manager EXCEPT !.result = Head(results)]
    /\ op' = [op EXCEPT !.at = IF Head(results) = Ok THEN "return" ELSE "join"]
    /\ UNCHANGED <<bank, owner, new_tasks, threads, executed, crashed>>

\* ensure_join_threads: handlers in turn, then the scheduler thread.  The panic
\* of a handler becomes a panic of the joining thread.
JoinThreads ==
    /\ op.at = "join" /\ ~crashed
    /\ \A h \in 1..Handlers : handlers[h].at = "exited"
    /\ scheduler.at = "exited"
    /\ op.take => results # <<>>
    /\ manager' = [manager EXCEPT !.joined = TRUE, !.result = IF op.take THEN Head(results) ELSE @]
    /\ results' = IF op.take THEN Tail(results) ELSE results
    /\ op' = [op EXCEPT !.at = "return"]
    /\ UNCHANGED <<bank, owner, new_tasks, threads, executed, crashed>>

JoinPanicked ==
    /\ op.at = "join" /\ ~crashed
    /\ \E h \in 1..Handlers :
         handlers[h].at = "panicked" /\ \A g \in 1..h - 1 : handlers[g].at = "exited"
    /\ crashed' = TRUE
    /\ UNCHANGED <<bank, owner, op, manager, new_tasks, results, threads, executed>>

\* take_session_result_with_timings and return_scheduler, unless it is trashed.
Returned == [manager EXCEPT !.pooled = ~manager.joined, !.result = NoResult]

Return ==
    /\ op.at = "return" /\ ~crashed
    /\ op' = NoOp
    /\ bank' =
         CASE op.why = "recover" -> [bank EXCEPT !.verdict = manager.result]
           [] op.why = "terminate" ->
                [bank EXCEPT !.verdict = manager.result, !.status = "unavailable", !.armed = FALSE]
           [] op.why = "stale" -> [bank EXCEPT !.status = "stale", !.stale = manager.result]
           [] OTHER -> bank
    /\ manager' = IF op.why \in {"terminate", "stale"} THEN Returned ELSE manager
    /\ owner' = IF op.why = "terminate" THEN "idle" ELSE owner
    /\ UNCHANGED <<new_tasks, results, threads, executed, crashed>>

-----------------------------------------------------------------------------
\* The scheduler thread

\* Mutant: a session finishes as soon as it is told to.
MutantContinue(ending, active) == IF ending THEN "finished" ELSE "session"

\* At the end of an iteration: can_finish_session.
Continue(ending, active) == IF ending /\ active = {} THEN "finished" ELSE "session"

\* A finished task is received: deschedule_task and
\* abort_or_accumulate_result_with_timings.
ReceiveFinished(f) ==
    /\ scheduler.at = "session" /\ f \in finished
    /\ finished' = finished \ {f}
    /\ IF f.outcome = "panicked"
       THEN /\ scheduler' = [scheduler EXCEPT !.at = "aborted"]
            /\ UNCHANGED machine
       ELSE /\ Machine!Depart(f.task)
            /\ scheduler' =
                 IF f.outcome = "err"
                 THEN [scheduler EXCEPT !.at = "aborted", !.result = f.task]
                 ELSE [scheduler EXCEPT !.at = Continue(scheduler.ending, Machine!Active \ {f.task})]
    /\ UNCHANGED <<bank, owner, op, manager, new_tasks, results, channels, handlers, executed, crashed>>

\* schedule_next_unblocked_task and send_payload.
DispatchUnblocked(t) ==
    /\ scheduler.at = "session"
    /\ Machine!Run(t)
    /\ channels' = [channels EXCEPT ![Len(channels)].payloads =
                        Append(@, [kind |-> "payload", task |-> t])]
    /\ UNCHANGED <<bank, owner, op, manager, new_tasks, results, scheduler, handlers, finished,
                   executed, crashed>>

\* A new task: schedule_or_buffer_task, then send_aux_payload if it is runnable.
ReceiveTask(m) ==
    /\ Machine!Arrive(m.task, m.transaction, TRUE)
    /\ channels' = IF m.task \in running'
                   THEN [channels EXCEPT ![Len(channels)].aux = @ \union {m.task}]
                   ELSE channels
    /\ UNCHANGED scheduler

ReceiveClose ==
    /\ scheduler' = [scheduler EXCEPT !.ending = TRUE, !.at = Continue(TRUE, Machine!Active)]
    /\ UNCHANGED <<machine, channels>>

\* An unblocked task goes before a new one.
ReceiveNew ==
    /\ scheduler.at = "session" /\ ready = {} /\ new_tasks # <<>>
    /\ new_tasks' = Tail(new_tasks)
    /\ \/ Head(new_tasks).kind = "payload" /\ ReceiveTask(Head(new_tasks))
       \/ Head(new_tasks).kind = "close" /\ ReceiveClose
    /\ UNCHANGED <<bank, owner, op, manager, results, handlers, finished, executed, crashed>>

\* The session's result is sent, the state machine is reinitialized.
FinishSession ==
    /\ scheduler.at = "finished"
    /\ results' = Append(results, scheduler.result)
    /\ scheduler' = [scheduler EXCEPT !.at = "between", !.ending = FALSE]
    /\ UNCHANGED <<bank, owner, op, manager, new_tasks, machine, channels, handlers, finished,
                   executed, crashed>>

\* Mutant: one message too few for the handlers to switch.
MutantSendChained(b) ==
    LET chain == [kind |-> "chain", context |-> b, to |-> Len(channels) + 1] IN
    channels' = Append([channels EXCEPT ![Len(channels)].payloads =
                            @ \o [h \in 1..Handlers - 1 |-> chain]],
                       [payloads |-> <<>>, aux |-> {}])

\* send_chained_channel: every handler is told to switch to a new channel.
SendChained(b) ==
    LET chain == [kind |-> "chain", context |-> b, to |-> Len(channels) + 1] IN
    channels' = Append([channels EXCEPT ![Len(channels)].payloads =
                            @ \o [h \in 1..Handlers |-> chain]],
                       [payloads |-> <<>>, aux |-> {}])

\* Between sessions.
ReceiveOpen ==
    /\ scheduler.at = "between" /\ new_tasks # <<>>
    /\ new_tasks' = Tail(new_tasks)
    /\ \/ /\ Head(new_tasks).kind = "open"
          /\ SendChained(Head(new_tasks).bank)
          /\ scheduler' = [scheduler EXCEPT !.at = "session", !.result = Head(new_tasks).result]
       \/ /\ Head(new_tasks).kind = "disconnect"
          /\ scheduler' = [scheduler EXCEPT !.at = "aborted", !.result = Ok]
          /\ UNCHANGED channels
    /\ UNCHANGED <<bank, owner, op, manager, results, machine, handlers, finished, executed, crashed>>

\* Mutant: an aborted thread sends no result.
MutantAbort ==
    /\ scheduler.at = "aborted"
    /\ scheduler' = [scheduler EXCEPT !.at = "sent"]
    /\ UNCHANGED <<bank, owner, op, manager, new_tasks, results, machine, channels, handlers,
                   finished, executed, crashed>>

\* After the main loop: the result is sent as it is, ...
Abort ==
    /\ scheduler.at = "aborted"
    /\ results' = Append(results, scheduler.result)
    /\ scheduler' = [scheduler EXCEPT !.at = "sent"]
    /\ UNCHANGED <<bank, owner, op, manager, new_tasks, machine, channels, handlers, finished,
                   executed, crashed>>

\* ... new_task_receiver is dropped, ...
DropReceiver ==
    /\ scheduler.at = "sent"
    /\ scheduler' = [scheduler EXCEPT !.at = "closed"]
    /\ new_tasks' = <<>>
    /\ UNCHANGED <<bank, owner, op, manager, results, machine, channels, handlers, finished,
                   executed, crashed>>

\* ... and the thread ends, with its ends of the handlers' channels.
ExitScheduler ==
    /\ scheduler.at = "closed"
    /\ scheduler' = [scheduler EXCEPT !.at = "exited"]
    /\ finished' = {}
    /\ UNCHANGED <<bank, owner, op, manager, new_tasks, results, machine, channels, handlers,
                   executed, crashed>>

-----------------------------------------------------------------------------
\* The handler threads

Waits(h) == handlers[h].at = "loop" /\ handlers[h].task = 0

\* Mutant: the handler switches channels and keeps its context.
MutantReceivePayload(h) ==
    LET c == handlers[h].channel
        m == Head(channels[c].payloads) IN
    /\ Waits(h) /\ channels[c].payloads # <<>>
    /\ channels' = [channels EXCEPT ![c].payloads = Tail(@)]
    /\ handlers' = [handlers EXCEPT ![h] =
                        IF m.kind = "payload" THEN [@ EXCEPT !.task = m.task]
                        ELSE [@ EXCEPT !.channel = m.to]]
    /\ UNCHANGED <<bank, owner, op, manager, new_tasks, results, scheduler, machine, finished,
                   executed, crashed>>

\* for_select and after_select: a task, or a new context and channel.
ReceivePayload(h) ==
    LET c == handlers[h].channel
        m == Head(channels[c].payloads) IN
    /\ Waits(h) /\ channels[c].payloads # <<>>
    /\ channels' = [channels EXCEPT ![c].payloads = Tail(@)]
    /\ handlers' = [handlers EXCEPT ![h] =
                        IF m.kind = "payload" THEN [@ EXCEPT !.task = m.task]
                        ELSE [@ EXCEPT !.context = m.context, !.channel = m.to]]
    /\ UNCHANGED <<bank, owner, op, manager, new_tasks, results, scheduler, machine, finished,
                   executed, crashed>>

ReceiveAux(h, t) ==
    LET c == handlers[h].channel IN
    /\ Waits(h) /\ t \in channels[c].aux
    /\ channels' = [channels EXCEPT ![c].aux = @ \ {t}]
    /\ handlers' = [handlers EXCEPT ![h].task = t]
    /\ UNCHANGED <<bank, owner, op, manager, new_tasks, results, scheduler, machine, finished,
                   executed, crashed>>

\* execute_task_with_handler; the task is sent back, or the thread breaks out of
\* its loop since the scheduler thread is gone, or it panics.
Execute(h, outcome) ==
    LET t == handlers[h].task
        there == scheduler.at # "exited" IN
    /\ handlers[h].at = "loop" /\ t # 0
    /\ executed' = [executed EXCEPT ![t] = outcome]
    /\ finished' = IF there THEN finished \union {[task |-> t, outcome |-> outcome]} ELSE finished
    /\ handlers' = [handlers EXCEPT ![h] =
                        [@ EXCEPT !.task = 0,
                                  !.at = IF outcome = "panicked" THEN "panicked"
                                         ELSE IF there THEN "loop" ELSE "exited"]]
    /\ UNCHANGED <<bank, owner, op, manager, new_tasks, results, scheduler, machine, channels, crashed>>

\* The channel is disconnected and drained.
ExitHandler(h) ==
    LET c == handlers[h].channel IN
    /\ Waits(h) /\ channels[c].payloads = <<>> /\ channels[c].aux = {}
    /\ c < Len(channels) \/ scheduler.at = "exited"
    /\ handlers' = [handlers EXCEPT ![h].at = "exited"]
    /\ UNCHANGED <<bank, owner, op, manager, new_tasks, results, scheduler, machine, channels,
                   finished, executed, crashed>>

-----------------------------------------------------------------------------
Owner ==
    \/ InstallScheduler
    \/ Schedule \/ ScheduleStale \/ Resume \/ ScheduleResumed \/ RetrieveError
    \/ Pause \/ Terminate

\* The thread that holds the bank's lock: the owner or the cleaner.
LockHolder == EndSession \/ ReceiveResult \/ JoinThreads \/ JoinPanicked \/ Return

SchedulerThread ==
    /\ ~crashed
    /\ \/ \E f \in finished : ReceiveFinished(f)
       \/ \E t \in ready : DispatchUnblocked(t)
       \/ ReceiveNew \/ FinishSession \/ ReceiveOpen
       \/ Abort \/ DropReceiver \/ ExitScheduler

Handler(h) ==
    /\ ~crashed
    /\ \/ ReceivePayload(h)
       \/ \E t \in running : ReceiveAux(h, t)
       \/ \E outcome \in {"ok", "err", "panicked"} : Execute(h, outcome)
       \/ ExitHandler(h)

Next ==
    \/ Owner
    \/ TimeoutListener \/ DropPooled \/ TakenElsewhere
    \/ LockHolder
    \/ SchedulerThread
    \/ \E h \in 1..Handlers : Handler(h)

\* Every thread runs, and no transaction executes forever.  Nothing is assumed
\* of what the owner does next, or of the timeout.
Fairness ==
    /\ WF_vars(LockHolder)
    /\ WF_vars(SchedulerThread)
    /\ \A h \in 1..Handlers : WF_vars(Handler(h))

Spec == Init /\ [][Next]_vars /\ Fairness

-----------------------------------------------------------------------------
Panicked == \E h \in 1..Handlers : handlers[h].at = "panicked"

\* A handler executes a task in the context of the task's bank, whichever
\* session the handler was in when the task was sent.
TasksMeetTheirBank ==
    \A h \in 1..Handlers : handlers[h].task # 0 => handlers[h].context = BankOf(handlers[h].task)

\* The result the owner gets for a bank is about that bank: an error is the one
\* of its own failed task, and Ok means that every task accepted for it was
\* executed and succeeded, however often the bank was stale or its scheduler
\* shared ("any transaction errors are always handled without loss of
\* information").
VerdictCoversBank ==
    LET sent == {t \in TasksOf(bank.slot) : t <= (bank.slot - 1) * TasksPerBank + bank.sent} IN
    /\ bank.verdict > Ok => bank.verdict \in sent /\ executed[bank.verdict] = "err"
    /\ bank.verdict = Ok /\ ~Panicked => \A t \in sent : executed[t] = "ok"

\* A channel left behind holds one message for each handler that has not passed
\* it yet, and no task: no handler is left in an old session, however far behind.
EveryHandlerSwitches ==
    ~Panicked => \A c \in 1..Len(channels) - 1 :
        /\ channels[c].aux = {}
        /\ \A m \in Range(channels[c].payloads) : m.kind = "chain"
        /\ Len(channels[c].payloads) =
               Cardinality({h \in 1..Handlers : handlers[h].channel <= c /\ handlers[h].at = "loop"})

\* None of the assertions, expects and unreachables between the threads is
\* reached, unless a handler has panicked.
AssertionsHold ==
    ~Panicked =>
        \* active_scheduler, transition_from_stale_to_active
        /\ owner = "resumed" /\ Unlocked => bank.status = "active"
        /\ owner = "resuming" /\ Unlocked => bank.status = "stale" /\ bank.stale = Ok
        \* "no error in {:?}"
        /\ owner = "failed" /\ Unlocked /\ bank.status = "stale" => bank.stale > Ok
        \* start_session, "no new session after aborted"
        /\ manager.pooled => Receiving /\ ~manager.joined /\ manager.result = NoResult
        \* the scheduler thread's two loops
        /\ scheduler.at = "session" /\ scheduler.ending => new_tasks = <<>>
        /\ scheduler.at = "session" /\ new_tasks # <<>> =>
               Head(new_tasks).kind \in {"payload", "close"}
        /\ scheduler.at = "between" /\ new_tasks # <<>> =>
               Head(new_tasks).kind \in {"open", "disconnect"}
        \* put_session_result_with_timings, unwrap_err, Drop
        /\ op.at = "result" \/ (op.at = "join" /\ op.take) => manager.result = NoResult
        /\ op.at = "return" => manager.result # NoResult /\ (op.why = "recover" => manager.result > Ok)
        /\ op.at = "return" /\ op.why = "drop" => manager.result = Ok

\* end_session, the joining of threads and the listener return, so that neither
\* replay nor the cleaner hangs, unless a handler has panicked.
LockIsReleased == op # NoOp ~> op = NoOp \/ Panicked
=============================================================================
