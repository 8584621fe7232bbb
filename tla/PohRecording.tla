---------------------------- MODULE PohRecording ----------------------------
(***************************************************************************)
(* How transactions get into the block a validator produces: the record     *)
(* channel (agave/poh/src/record_channels.rs), the PohService thread that   *)
(* serves it (poh_service.rs, tick_producer), the counters of Poh           *)
(* (agave/entry/src/poh.rs), the working bank of PohRecorder                *)
(* (poh_recorder.rs) and the messages of PohController.                     *)
(*                                                                         *)
(* Senders run freely, without a lock the service would take.  The service  *)
(* closes the channel shortly before the slot runs out of hashes, and must  *)
(* then find room for every record that has been accepted.                  *)
(*                                                                         *)
(* Each access to an atomic is a step of its thread.  Steps that only one   *)
(* thread can observe are joined to the next atomic access.  A record is    *)
(* its bank (transaction_recorder.rs sends one batch a record).  The tick   *)
(* height is kept as the position in the slot: the working bank is always   *)
(* that of the current slot, and a bank whose slot has passed before it is  *)
(* set is marked late.                                                      *)
(***************************************************************************)
EXTENDS Integers, Sequences, FiniteSets

CONSTANTS
    Senders,
    Banks,          \* bound on the banks the validator leads
    Capacity,       \* MAX_ALLOWED_INSERTIONS, 2^10 - 1 in the code
    TicksPerSlot,
    HashesPerTick,
    HashesPerBatch  \* --poh-hashes-per-batch

VARIABLES
    word,           \* bank_id_allowed_insertions
    active,         \* active_senders
    channel,        \* records sent and not received: the bank of each
    senders,        \* where each sender is in try_send
    tracked,        \* track_transaction_indexes
    lock,           \* holder of the transaction_indexes mutex
    indexes,        \* what the mutex protects
    count,          \* history: records sent since the last restart
    poh,            \* tick_number in the slot, remaining_hashes_until_tick
    working_bank,   \* of PohRecorder, 0 if none
    created,        \* banks made so far
    message,        \* the pending message of PohController
    exit,           \* poh_exit
    service         \* the tick_producer thread

sending == <<senders, tracked, lock, indexes, count>>
recorder == <<poh, working_bank, message>>
vars == <<word, active, channel, sending, recorder, created, exit, service>>

NoMessage == [kind |-> "none", bank |-> 0, late |-> FALSE]
Nobody == "nobody"

\* BankIdAllowedInsertions: the bank in the high bits of a word, the budget in
\* the low ones.  An increment of a full budget would carry into the bank.
DisabledBankId == Banks + 1
Words == [bank : 0..DisabledBankId, allowed : 0..Capacity]
Shutdown == [bank |-> DisabledBankId, allowed |-> 0]
Incremented(w) ==
    IF w.allowed < Capacity THEN [bank |-> w.bank, allowed |-> w.allowed + 1]
    ELSE [bank |-> (w.bank + 1) % (DisabledBankId + 1), allowed |-> 0]

SaturatingSub(a, b) == IF a < b THEN 0 ELSE a - b

\* Poh, with [tick, remaining] for tick_number in the slot and
\* remaining_hashes_until_tick.
Poh == [tick : 0..TicksPerSlot - 1, remaining : 1..HashesPerTick]
reset == [tick |-> 0, remaining |-> HashesPerTick]
hash(p) ==
    LET left == p.remaining - 1
    IN  [p EXCEPT !.remaining = @ - (IF left < HashesPerBatch THEN left ELSE HashesPerBatch)]
record_batches(p) == [p EXCEPT !.remaining = @ - 1]
LastTick(p) == p.tick = TicksPerSlot - 1
tick(p) == [tick |-> IF LastTick(p) THEN 0 ELSE p.tick + 1, remaining |-> HashesPerTick]

remaining_hashes_in_slot(p) ==
    (TicksPerSlot - (p.tick + 1)) * HashesPerTick + p.remaining

\* Mutant: forgets the hashes that the ticks take.
MutantShouldShutdown(remaining) == remaining <= Capacity

should_shutdown(remaining) == SaturatingSub(remaining, TicksPerSlot) <= Capacity

Init ==
    /\ word = Shutdown /\ active = 0 /\ channel = <<>>
    /\ senders = [s \in Senders |-> [at |-> "idle", bank |-> 0, seen |-> Shutdown]]
    /\ tracked \in BOOLEAN
    /\ lock = Nobody /\ indexes = 0 /\ count = 0
    /\ poh = reset
    /\ working_bank = 0 /\ created = 0
    /\ message = NoMessage
    /\ exit = FALSE
    /\ service = [at |-> "top", exiting |-> FALSE, taken |-> FALSE,
                  next |-> 0, mode |-> "hash"]

Alive == service.at \notin {"done", "record_panic", "guard_panic", "assert_panic"}

----------------------------------------------------------------------------
(* RecordSender::try_send, for a record of bank b.                         *)

\* Mutant: does not take the mutex.
MutantLoad(s, b) ==
    /\ senders[s].at \in {"idle", "retry"} /\ word.bank = b /\ word.allowed >= 1
    /\ senders' = [senders EXCEPT ![s] = [at |-> "entering", bank |-> b, seen |-> word]]
    /\ UNCHANGED <<word, active, channel, tracked, lock, indexes, count, recorder, created, exit, service>>

\* Takes the mutex if indexes are tracked, and loads the word.
\* A record that may not be sent goes back to the caller at once.
Load(s, b) ==
    /\ \/ senders[s].at = "idle" /\ word.bank = b /\ word.allowed >= 1
       \/ senders[s].at = "retry" /\ senders[s].bank = b
    /\ tracked => lock = Nobody
    /\ IF word.bank = b /\ word.allowed >= 1
       THEN /\ senders' = [senders EXCEPT ![s] = [at |-> "entering", bank |-> b, seen |-> word]]
            /\ lock' = IF tracked THEN s ELSE lock
       ELSE /\ senders' = [senders EXCEPT ![s] = [at |-> "idle", bank |-> 0, seen |-> Shutdown]]
            /\ UNCHANGED lock
    /\ UNCHANGED <<word, active, channel, tracked, indexes, count, recorder, created, exit, service>>

\* The receiver can see that a send is in flight.
Enter(s) ==
    /\ senders[s].at = "entering"
    /\ active' = active + 1
    /\ senders' = [senders EXCEPT ![s].at = "reserving"]
    /\ UNCHANGED <<word, channel, tracked, lock, indexes, count, recorder, created, exit, service>>

\* The compare-exchange.
Reserve(s) ==
    /\ senders[s].at = "reserving"
    /\ IF word = senders[s].seen
       THEN /\ word' = [word EXCEPT !.allowed = @ - 1]
            /\ senders' = [senders EXCEPT ![s] = [at |-> "sending", bank |-> @.bank, seen |-> Shutdown]]
       ELSE /\ senders' = [senders EXCEPT ![s] = [at |-> "failed", bank |-> @.bank, seen |-> Shutdown]]
            /\ UNCHANGED word
    /\ UNCHANGED <<active, channel, tracked, lock, indexes, count, recorder, created, exit, service>>

\* Mutant: continues without leaving active_senders.
MutantRetry(s) ==
    /\ senders[s].at = "failed"
    /\ senders' = [senders EXCEPT ![s].at = "retry"]
    /\ lock' = Nobody
    /\ UNCHANGED <<word, active, channel, tracked, indexes, count, recorder, created, exit, service>>

\* The compare-exchange has failed: leave, let go of the mutex and start again.
Retry(s) ==
    /\ senders[s].at = "failed"
    /\ active' = active - 1
    /\ senders' = [senders EXCEPT ![s].at = "retry"]
    /\ lock' = Nobody
    /\ UNCHANGED <<word, channel, tracked, indexes, count, recorder, created, exit, service>>

\* sender.try_send; the channel is gone once the service has ended.
Send(s) ==
    /\ senders[s].at = "sending"
    /\ channel' = IF Alive THEN Append(channel, senders[s].bank) ELSE channel
    /\ count' = IF tracked THEN count + 1 ELSE count
    /\ senders' = [senders EXCEPT ![s].at = "sent"]
    /\ UNCHANGED <<word, active, tracked, lock, indexes, recorder, created, exit, service>>

\* The caller gets the index of its first transaction.
ReturnIndex(s) ==
    /\ senders[s].at = "sent"
    /\ active' = active - 1
    /\ indexes' = IF tracked THEN indexes + 1 ELSE indexes
    /\ senders' = [senders EXCEPT ![s] = [at |-> "idle", bank |-> 0, seen |-> Shutdown]]
    /\ lock' = Nobody
    /\ UNCHANGED <<word, channel, tracked, count, recorder, created, exit, service>>

----------------------------------------------------------------------------
(* Replay (PohController), and the end of the validator.                   *)

\* A bank for the current slot, if there is none and no message is pending.
SendSetBank ==
    /\ Alive /\ message = NoMessage /\ working_bank = 0 /\ created < Banks
    /\ created' = created + 1
    /\ message' = [kind |-> "set_bank", bank |-> created', late |-> FALSE]
    /\ UNCHANGED <<word, active, channel, sending, poh, working_bank, exit, service>>

SendReset ==
    /\ Alive /\ message = NoMessage
    /\ message' = [kind |-> "reset", bank |-> 0, late |-> FALSE]
    /\ UNCHANGED <<word, active, channel, sending, poh, working_bank, created, exit, service>>

SetExit ==
    /\ ~exit /\ exit' = TRUE
    /\ UNCHANGED <<word, active, channel, sending, recorder, created, service>>

----------------------------------------------------------------------------
(* The service: PohService::tick_producer.                                 *)

\* PohRecorder::record: it fails without the record's bank, and if the next
\* hash must be the last tick, which clears that bank.  It ticks first if due.
RecordFails(bank) == bank # working_bank \/ (poh.remaining = 1 /\ LastTick(poh))
Recorded == record_batches(IF poh.remaining = 1 THEN tick(poh) ELSE poh)

\* A bank that waits to be set when its slot ends is late.
LateAfter(p) == IF LastTick(p) THEN [message EXCEPT !.late = message.kind = "set_bank"] ELSE message

\* Top of the outer loop: on exit and when there is a message, shut down the channel.
CheckMessage ==
    /\ service.at = "top"
    /\ service' = [service EXCEPT !.at = "work", !.exiting = service.exiting \/ exit,
                                  !.taken = message # NoMessage]
    /\ word' = IF service'.exiting \/ service'.taken THEN Shutdown ELSE word
    /\ UNCHANGED <<active, channel, sending, recorder, created, exit>>

\* The record branch of record_or_hash.
Record ==
    /\ service.at = "work" /\ service.next # 0
    /\ IF RecordFails(service.next)
       THEN /\ service' = [service EXCEPT !.at = "record_panic"]
            /\ UNCHANGED <<poh, word>>
       ELSE /\ poh' = Recorded
            /\ word' = IF should_shutdown(remaining_hashes_in_slot(Recorded))
                       THEN Shutdown ELSE word
            /\ service' = [service EXCEPT !.at = "receive", !.next = 0, !.mode = "record"]
    /\ UNCHANGED <<active, channel, sending, working_bank, message, created, exit>>

\* The hash branch: a batch of hashes, and the check that the next batch stays above the threshold.
Hash ==
    /\ service.at = "work" /\ service.next = 0
    /\ LET hashed == hash(poh)
           after == SaturatingSub(remaining_hashes_in_slot(hashed), HashesPerBatch)
       IN  /\ poh' = hashed
           /\ word' = IF should_shutdown(after) THEN Shutdown ELSE word
           /\ service' = [service EXCEPT !.at = IF hashed.remaining = 1 THEN "tick" ELSE "receive",
                                         !.mode = "hash"]
    /\ UNCHANGED <<active, channel, sending, working_bank, message, created, exit>>

Tick ==
    /\ service.at = "tick"
    /\ poh' = tick(poh)
    /\ working_bank' = IF LastTick(poh) THEN 0 ELSE working_bank
    /\ message' = LateAfter(poh)
    /\ service' = [service EXCEPT !.at = "check"]
    /\ UNCHANGED <<word, active, channel, sending, created, exit>>

\* The channel yields a record: on_received_record gives its budget back.
Received ==
    /\ channel # <<>>
    /\ channel' = Tail(channel)
    /\ word' = Incremented(word)
    /\ service' = [service EXCEPT !.at = "work", !.next = Head(channel)]

\* RecordReceiver::try_recv.
Receive ==
    /\ service.at = "receive"
    /\ \/ Received
       \/ /\ channel = <<>>
          /\ service' = [service EXCEPT !.at = "active"]
          /\ UNCHANGED <<word, channel>>
    /\ UNCHANGED <<active, sending, recorder, created, exit>>

ReceiveActive ==
    /\ service.at = "active"
    /\ service' = [service EXCEPT !.at = IF active # 0 THEN "receive" ELSE "again"]
    /\ UNCHANGED <<word, active, channel, sending, recorder, created, exit>>

\* With nothing received, record_or_hash returns after recording; after
\* hashing it goes on, or waits for the time the hashes should have taken.
ReceiveAgain ==
    /\ service.at = "again"
    /\ \/ Received
       \/ /\ channel = <<>>
          /\ \E at \in IF service.mode = "record" THEN {"check"} ELSE {"work", "wait"} :
                 service' = [service EXCEPT !.at = at]
          /\ UNCHANGED <<word, channel>>
    /\ UNCHANGED <<active, sending, recorder, created, exit>>

\* The busy wait: a poll that succeeds, or the end of the wait.
Wait ==
    /\ service.at = "wait"
    /\ \/ Received
       \/ /\ service' = [service EXCEPT !.at = "check"]
          /\ UNCHANGED <<word, channel>>
    /\ UNCHANGED <<active, sending, recorder, created, exit>>

\* Mutant: looks only at the channel.
MutantCheckActive ==
    /\ service.at \in {"check", "leave"}
    /\ service' = [service EXCEPT !.at =
           IF service.at = "leave" THEN "leave_empty"
           ELSE IF service.taken THEN "check_empty" ELSE "handle"]
    /\ UNCHANGED <<word, active, channel, sending, recorder, created, exit>>

\* is_safe_to_restart, the first half: nobody is sending.
\* Asked when a message waits, and on the way out.
CheckActive ==
    /\ service.at \in {"check", "leave"}
    /\ service' = [service EXCEPT !.at =
           IF service.at = "check"
           THEN IF ~service.taken THEN "handle" ELSE IF active = 0 THEN "check_empty" ELSE "work"
           ELSE IF active = 0 THEN "leave_empty" ELSE "top"]
    /\ UNCHANGED <<word, active, channel, sending, recorder, created, exit>>

\* The second half: the channel is empty.
CheckEmpty ==
    /\ service.at \in {"check_empty", "leave_empty"}
    /\ service' = [service EXCEPT !.at =
           IF service.at = "check_empty"
           THEN IF channel = <<>> THEN "handle" ELSE "work"
           ELSE IF channel = <<>> THEN "done" ELSE "top"]
    /\ UNCHANGED <<word, active, channel, sending, recorder, created, exit>>

\* Without a message there is nothing to handle.  A message taken after the
\* exit was seen is not handled, and its guard panics when it is dropped.
SkipMessage ==
    /\ service.at = "handle"
    /\ service.exiting \/ ~service.taken
    /\ service' = [service EXCEPT !.at = IF service.taken THEN "guard_panic"
                                         ELSE IF service.exiting THEN "leave" ELSE "top"]
    /\ UNCHANGED <<word, active, channel, sending, recorder, created, exit>>

\* PohRecorder::reset; the guard takes the message off the count.
HandleReset ==
    /\ service.at = "handle" /\ service.taken /\ ~service.exiting
    /\ message.kind = "reset"
    /\ working_bank' = 0
    /\ poh' = reset
    /\ message' = NoMessage
    /\ service' = [service EXCEPT !.at = "top", !.taken = FALSE]
    /\ UNCHANGED <<word, active, channel, sending, created, exit>>

\* PohRecorder::set_bank; its flush clears a bank that comes too late.
set_bank(m) == IF m.late THEN 0 ELSE m.bank

\* RecordReceiver::restart: the whole budget for the new bank.
restart(bank) == [bank |-> bank, allowed |-> Capacity]

\* The bank is set, and the channel restarted unless only the last tick is left.
HandleSetBank ==
    /\ service.at = "handle" /\ service.taken /\ ~service.exiting
    /\ message.kind = "set_bank"
    /\ LET should_restart == ~message.late /\ ~LastTick(poh)
       IN  /\ should_restart /\ tracked => lock = Nobody
           /\ IF working_bank # 0 \/ (should_restart /\ channel # <<>>)
              THEN /\ service' = [service EXCEPT !.at = "assert_panic"]
                   /\ UNCHANGED <<word, indexes, count, working_bank, message>>
              ELSE /\ working_bank' = set_bank(message)
                   /\ word' = IF should_restart THEN restart(message.bank) ELSE word
                   /\ indexes' = IF should_restart THEN 0 ELSE indexes
                   /\ count' = IF should_restart THEN 0 ELSE count
                   /\ message' = NoMessage
                   /\ service' = [service EXCEPT !.at = "top", !.taken = FALSE]
    /\ UNCHANGED <<active, channel, senders, tracked, lock, poh, created, exit>>

----------------------------------------------------------------------------

Try(s) ==
    \/ \E b \in 1..Banks : Load(s, b)
    \/ Enter(s)
    \/ Reserve(s)
    \/ Retry(s)
    \/ Send(s)
    \/ ReturnIndex(s)

Replay == SendSetBank \/ SendReset

Serve ==
    \/ CheckMessage
    \/ Record
    \/ Hash
    \/ Tick
    \/ Receive
    \/ ReceiveActive
    \/ ReceiveAgain
    \/ Wait
    \/ CheckActive
    \/ CheckEmpty
    \/ SkipMessage
    \/ HandleReset
    \/ HandleSetBank

Next == (\E s \in Senders : Try(s)) \/ Replay \/ SetExit \/ Serve

\* The threads run.  Nobody has to start a send, ask for a bank or exit.
Spec ==
    /\ Init
    /\ [][Next]_vars
    /\ WF_vars(Serve)
    /\ \A s \in Senders : WF_vars(senders[s].at # "idle" /\ Try(s))

----------------------------------------------------------------------------

\* The channel accepts records.
Open == word.bank # DisabledBankId

\* Senders that have a place in the channel and have not filled it.
Reserved == {s \in Senders : senders[s].at = "sending"}

\* The budget in bank_id_allowed_insertions is exact under any interleaving of
\* senders with the service: free, reserved and filled places add up to the
\* capacity while the channel is open (so crossbeam's channel is never full and
\* the assertion in try_send holds), and to no more when it is closed (so
\* fetch_add does not carry into the bank id, which would reopen the channel).
BudgetIsExact ==
    LET used == word.allowed + Len(channel) + Cardinality(Reserved)
    IN  used <= Capacity /\ (Open => used = Capacity)

\* "once sent records can be guaranteed to be recorded" (record_channels): each
\* record the service receives finds its bank still working and a hash before
\* the last tick, and no bank is set on top of another or over unread records.
\* Otherwise the service panics.
SentIsRecorded == service.at \notin {"record_panic", "assert_panic"}

\* When tick_producer handles a message or has ended, no record is in the
\* channel or about to enter it: the two halves of is_safe_to_restart, read at
\* different times, miss nobody.
NothingInFlight ==
    (service.at = "handle" /\ service.taken) \/ service.at = "done" =>
        channel = <<>> /\ Reserved = {}

\* The index try_send returns is the place of the record in the channel since
\* the bank was set, whatever the senders and restarts in between.
IndexesFollowOrder ==
    tracked => \A s \in Senders : senders[s].at = "sent" => indexes + 1 = count

\* A message from replay is handled and an exit is followed, however many
\* senders keep the service busy with records, retries and hashing.
ServiceResponds ==
    /\ message # NoMessage ~> message = NoMessage \/ exit
    /\ exit ~> ~Alive
=============================================================================
