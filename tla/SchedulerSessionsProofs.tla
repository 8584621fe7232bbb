----------------------- MODULE SchedulerSessionsProofs -----------------------
(***************************************************************************)
(* What happens to the tasks of a bank, for any number of banks, tasks and *)
(* handler threads, any transactions and any conflicts between them.       *)
(*                                                                         *)
(* On top of the protocol of SchedulerSessionsProtocol come, each resting  *)
(* on those before it: a task is in one place only, of the queue, the      *)
(* state machine, the last channel, a handler and the finished tasks       *)
(* (TasksOK); a panic is noticed by the session before it can end          *)
(* (PanicOK); the chain of channels leads every handler to the             *)
(* context of the session (ContextOK); a result is blamed on a task of its *)
(* bank that failed, and success means that all of them ran (VerdictOK);   *)
(* no handler thread is left behind a chained channel (SwitchOK).          *)
(***************************************************************************)
EXTENDS SchedulerSessionsProtocol, FiniteSetTheorems

(* --------------------------- tasks are not lost ------------------------- *)

\* 0 stands for no task.
LEMMA NoTaskZero == 0 \notin Tasks
BY DEF Tasks

\* There are no tasks at the beginning.
LEMMA TasksInit == Init => TasksOK
BY NoTaskZero, SMTT(30) DEF Init, Machine!Init, Threads, Tasks, Queued, Holds, MachineOK,
   BoundedOK, QueueOK, FinishedOK, Active, PlacesOK, InChannel, TasksOK

\* The threads do not notice what is sent to the scheduler thread.
LEMMA TasksQueue ==
    ASSUME Typed, Typed', TasksOK, UNCHANGED threads, Last <= Last',
           \/ executed' = executed
           \/ (\A t \in Tasks : executed'[t] = "no") /\ scheduler.at # "session",
           Once(new_tasks) => Once(new_tasks'),
           \A t \in Tasks : Queued(t)' => Queued(t) \/ (t = Last' /\ Last < t)
    PROVE  TasksOK'
<1>0. UNCHANGED <<scheduler, waiting, ready, running, channels, handlers, finished>>
  BY DEF threads, machine
<1>1. Last \in Int /\ Last' \in Int
  <2>1. /\ bank.slot \in Int /\ bank.sent \in Int /\ TasksPerBank \in Int
        /\ bank'.slot \in Int /\ bank'.sent \in Int
    BY SessionsAssumption DEF Typed, TypeOK, BankType
  <2> QED
    BY <2>1 DEF Last
<1>2. Active' = Active /\ Active \subseteq Tasks
  BY <1>0 DEF Active, Typed, TypeOK
<1>3. MachineOK'
  BY <1>0 DEF TasksOK, MachineOK
<1>t. \A t \in Tasks : t \in Int
  BY SessionsAssumption DEF Tasks
<1>4. BoundedOK'
  BY <1>1, <1>2, <1>t DEF TasksOK, BoundedOK
<1>5. QueueOK'
  BY <1>1, <1>t, <1>2, <1>0 DEF TasksOK, BoundedOK, Active, QueueOK
<1>6. PlacesOK'
  BY <1>0, SMTT(30) DEF InChannel, Posted, Current, Holds, Typed, TypeOK, HandlerType,
     TasksOK, PlacesOK, NoTaskIn
<1>7. FinishedOK'
  BY <1>0, <1>2, Zenon DEF TasksOK, FinishedOK
<1> QED
  BY <1>3, <1>4, <1>5, <1>6, <1>7, Zenon DEF TasksOK

\* The owner, the lock holder and the cleaner keep track of the tasks.
LEMMA TasksOwner ==
    ASSUME Typed, Typed', Protocol, TasksOK,
           Owner \/ TimeoutListener \/ DropPooled \/ TakenElsewhere \/ LockHolder
    PROVE  TasksOK'
<1>t. \A t \in Tasks : t \in Int
  BY SessionsAssumption DEF Tasks
<1>l. Last \in Int
  <2>1. bank.slot \in Int /\ bank.sent \in Int /\ TasksPerBank \in Int
    BY SessionsAssumption DEF Typed, TypeOK, BankType
  <2> QED
    BY <2>1 DEF Last
<1>1. CASE InstallScheduler \/ Resume
  <2>1. /\ FromInner(bank'.slot, Ok) \/ Spawn(bank'.slot, Ok)
        /\ Last' \in Int /\ Last <= Last' /\ bank'.slot \in 0 .. Banks
        /\ executed' = executed \/ \A t \in Tasks : executed'[t] = "no"
    BY <1>1, TakeEffect
  <2>2. CASE FromInner(bank'.slot, Ok)
    BY <2>1, <2>2, QueueMessage, TasksQueue DEF MessageType, Result, FromInner, Protocol,
       InSessionOK, InSession
  <2>3. CASE Spawn(bank'.slot, Ok)
    <3>1. /\ waiting' = {} /\ ready' = {} /\ running' = {} /\ Active' = {} /\ finished' = {}
          /\ scheduler'.at = "session"
          /\ \A t : ~Queued(t)' /\ ~InChannel(t)' /\ ~Posted(t)'
          /\ Once(new_tasks') /\ Len(channels') = 1 /\ Once(Current'.payloads)
          /\ \A h \in Threads : handlers'[h].task = 0
      BY <2>3, SpawnEffect, Zenon
    <3>2. MachineOK' /\ QueueOK' /\ FinishedOK'
      BY <3>1 DEF MachineOK, QueueOK, FinishedOK
    <3>3. BoundedOK'
      BY <1>l, <1>t, <2>1, <3>1 DEF BoundedOK, TasksOK
    <3>4. PlacesOK'
      BY <3>1, NoTaskZero DEF PlacesOK
    <3> QED
      BY <3>2, <3>3, <3>4, Zenon DEF TasksOK
  <2> QED
    BY <2>1, <2>2, <2>3, Zenon
<1>2. CASE Schedule \/ ScheduleResumed
  BY <1>2, SendEffect, <1>l, TasksQueue DEF Last, Queued, TasksOK, BoundedOK
<1>3. CASE \/ ScheduleStale \/ RetrieveError \/ Pause \/ Terminate \/ TimeoutListener
           \/ DropPooled \/ LockHolder
  BY <1>3, QuietEffect, <1>l, TasksQueue DEF Last
<1>4. CASE TakenElsewhere
  BY <1>4, NoTaskZero, SMTT(30) DEF TakenElsewhere, Threads, machine, Active, Last, Queued,
     Holds, TasksOK, MachineOK, BoundedOK, QueueOK, FinishedOK, PlacesOK, InChannel
<1> QED
  BY <1>1, <1>2, <1>3, <1>4, Zenon DEF Owner

\* The channels that are not touched.
LEMMA OldChannels ==
    ASSUME TasksOK, Len(channels') = Len(channels),
           \A d \in 1 .. Len(channels) - 1 : channels'[d] = channels[d]
    PROVE  \A c \in 1 .. Len(channels') - 1 : NoTaskIn(c)'
BY DEF TasksOK, PlacesOK, NoTaskIn

\* The scheduler thread keeps track of the tasks.
LEMMA TasksScheduler ==
    ASSUME Typed, Typed', TasksOK, SchedulerThread
    PROVE  TasksOK'
<1>0. /\ waiting \subseteq Tasks /\ ready \subseteq Tasks /\ running \subseteq Tasks /\ Active \subseteq Tasks
      /\ \A h \in Threads : handlers[h].task \in {0} \cup Tasks
      /\ \A f \in finished : f.task \in Tasks /\ f.outcome \in Outcomes /\ f = [task |-> f.task, outcome |-> f.outcome]
  BY DEF Typed, TypeOK, Active, HandlerType
<1>z. 0 \notin Tasks
  BY DEF Tasks
<1>1. CASE \E f \in finished : ReceiveFinished(f)
  BY <1>1, FinishedEffect, OldChannels, SMTT(30) DEF Last, Queued, Posted, InChannel,
     Current, Outcomes, Active, TasksOK, MachineOK, BoundedOK, QueueOK, PlacesOK, FinishedOK
<1>2. CASE \E t \in ready : DispatchUnblocked(t)
  BY <1>0, <1>2, PostEffect, OldChannels, SMTT(30) DEF Last, Queued, Active, TasksOK,
     MachineOK, QueueOK, PlacesOK, InChannel, BoundedOK, FinishedOK
<1>3. CASE ReceiveNew /\ Head(new_tasks).kind = "payload"
  BY <1>3, ArriveEffect, OldChannels DEF Last, Active, TasksOK, QueueOK, BoundedOK,
     PlacesOK, InChannel, MachineOK, FinishedOK
<1>4. CASE ReceiveOpen /\ Head(new_tasks).kind = "open"
  <2>1. PICK b : b = Head(new_tasks).bank
    BY Zenon
  <2>2. /\ scheduler.at = "between" /\ scheduler'.at = "session" /\ Active = {} /\ finished = {}
        /\ \A u : Queued(u)' <=> Queued(u)
        /\ Once(new_tasks) => Once(new_tasks')
        /\ UNCHANGED <<bank, waiting, ready, running, handlers, finished, executed>>
        /\ Len(channels') = Len(channels) + 1 /\ Len(channels) \in Nat /\ Len(channels) > 0
        /\ \A d \in 1 .. Len(channels) - 1 : channels'[d] = channels[d]
        /\ channels'[Len(channels)].aux = {}
        /\ DOMAIN channels'[Len(channels)].payloads = 1 .. Handlers
        /\ \A i \in 1 .. Handlers :
              channels'[Len(channels)].payloads[i] = [kind |-> "chain", context |-> b, to |-> Len(channels) + 1]
        /\ Current'.payloads = <<>> /\ Current'.aux = {}
        /\ \A u : ~Posted(u)' /\ ~InChannel(u)'
        /\ \A h \in Threads : handlers[h].task = 0
    BY <1>4, <2>1, OpenEffect, Zenon
  <2>3. Last' = Last /\ Active' = Active
    BY <2>2, Zenon DEF Last, Active
  <2>4. MachineOK' /\ FinishedOK'
    BY <2>2 DEF TasksOK, MachineOK, FinishedOK
  <2>5. BoundedOK'
    BY <2>2, <2>3, Zenon DEF TasksOK, BoundedOK
  <2>6. QueueOK'
    BY <2>2, <2>3, Zenon DEF TasksOK, QueueOK
  <2>7. PlacesOK'
    <3>1. ASSUME NEW c \in 1 .. Len(channels') - 1
          PROVE  NoTaskIn(c)'
      <4>1. CASE c = Len(channels)
        <5>1. PICK m : m = [kind |-> "chain", context |-> b, to |-> Len(channels) + 1]
          BY Zenon
        <5>2. m.kind = "chain"
          BY <5>1
        <5>3. channels'[c].aux = {} /\ \A i \in DOMAIN channels'[c].payloads : channels'[c].payloads[i] = m
          BY <2>2, <4>1, <5>1, Zenon
        <5> QED
          BY <5>2, <5>3, Zenon DEF NoTaskIn
      <4>2. CASE c \in 1 .. Len(channels) - 1
        BY <2>2, <4>2 DEF TasksOK, PlacesOK, NoTaskIn
      <4> QED
        BY <2>2, <4>1, <4>2
    <3>2. Once(Current'.payloads)
      BY <2>2 DEF Once
    <3> QED
      BY <1>z, <2>2, <3>1, <3>2, Zenon DEF PlacesOK
  <2> QED
    BY <2>4, <2>5, <2>6, <2>7, Zenon DEF TasksOK
<1>5. CASE \/ ReceiveNew /\ Head(new_tasks).kind = "close"
           \/ ReceiveOpen /\ Head(new_tasks).kind = "disconnect"
           \/ FinishSession \/ Abort \/ DropReceiver \/ ExitScheduler
  <2>1. /\ UNCHANGED <<bank, waiting, ready, running, channels, handlers, executed>>
        /\ (\A u : Queued(u)' => Queued(u)) /\ (Once(new_tasks) => Once(new_tasks'))
    BY <1>5, TurnEffect, Zenon
  <2>2. /\ Last' = Last /\ Active' = Active /\ Current' = Current
        /\ \A u : (InChannel(u)' <=> InChannel(u)) /\ (Posted(u)' <=> Posted(u))
    BY <2>1, Zenon DEF Last, Active, Current, InChannel, Posted
  <2>3. MachineOK'
    BY <2>1, Zenon DEF TasksOK, MachineOK
  <2>4. BoundedOK'
    BY <2>1, <2>2, Zenon DEF TasksOK, BoundedOK
  <2>5. PlacesOK'
    BY <2>1, <2>2, Zenon DEF TasksOK, PlacesOK, NoTaskIn
  <2>6. QueueOK'
    BY <1>5, TurnEffect, <2>1, <2>2, Zenon DEF TasksOK, QueueOK
  <2>7. FinishedOK'
    <3>1. ASSUME scheduler.at = "session", Active = {} PROVE finished = {}
      BY <3>1, Zenon DEF TasksOK, FinishedOK, Active
    <3> QED
      BY <1>5, TurnEffect, <2>1, <2>2, <3>1, Zenon DEF TasksOK, FinishedOK
  <2> QED
    BY <2>3, <2>4, <2>5, <2>6, <2>7, Zenon DEF TasksOK
<1> QED
  BY <1>1, <1>2, <1>3, <1>4, <1>5, Zenon DEF SchedulerThread, ReceiveNew, ReceiveOpen

\* A handler takes a task that was posted, or goes on to the next channel.
LEMMA PayloadEffect ==
    ASSUME Typed, TasksOK, NEW h \in Threads, ReceivePayload(h)
    PROVE  /\ UNCHANGED <<bank, owner, op, manager, new_tasks, results, scheduler, waiting, ready, running,
                          finished, executed, crashed>>
           /\ Len(channels') = Len(channels) /\ Len(channels) \in Nat /\ Len(channels) > 0
           /\ Current'.aux = Current.aux
           /\ \A c \in 1 .. Len(channels) - 1 : NoTaskIn(c)'
           /\ \A g \in Threads : g # h => handlers'[g] = handlers[g]
           /\ handlers[h].at = "loop" /\ handlers[h].task = 0 /\ handlers'[h].at = "loop"
           /\ \/ /\ handlers[h].channel = Len(channels) /\ handlers'[h].channel = Len(channels)
                 /\ handlers'[h].context = handlers[h].context
                 /\ \A d \in 1 .. Len(channels) - 1 : channels'[d] = channels[d]
                 /\ \E t \in Tasks : /\ handlers'[h].task = t /\ Posted(t)
                                     /\ \A u : Posted(u) <=> Posted(u)' \/ u = t
                                     /\ Once(Current.payloads) => Once(Current'.payloads) /\ ~Posted(t)'
              \/ /\ handlers[h].channel \in 1 .. Len(channels) - 1 /\ handlers'[h].task = 0
                 /\ handlers'[h].channel = handlers[h].channel + 1
                 /\ Current' = Current
                 /\ handlers'[h].context = channels[handlers[h].channel].payloads[1].context
<1>1. PICK c : c = handlers[h].channel
  OBVIOUS
<1>2. PICK n : n = Len(channels[c].payloads)
  BY Zenon
<1>3. PICK m : m = channels[c].payloads[1]
  OBVIOUS
<1>4. /\ c \in 1 .. Len(channels) /\ handlers[h].at = "loop" /\ handlers[h].task = 0
      /\ Len(channels') = Len(channels)
      /\ \A d \in 1 .. Len(channels) : d # c => channels'[d] = channels[d]
      /\ channels'[c].aux = channels[c].aux
      /\ DOMAIN channels[c].payloads = 1 .. n /\ DOMAIN channels'[c].payloads = 1 .. n - 1
      /\ n \in Nat /\ n > 0
      /\ \A i \in 1 .. n - 1 : channels'[c].payloads[i] = channels[c].payloads[i + 1]
      /\ \A g \in Threads : g # h => handlers'[g] = handlers[g]
      /\ handlers'[h].at = "loop"
      /\ \/ /\ m.kind = "payload" /\ m.task \in Tasks /\ handlers'[h].task = m.task
            /\ handlers'[h].channel = c /\ handlers'[h].context = handlers[h].context
         \/ /\ m.kind = "chain" /\ handlers'[h].task = 0
            /\ handlers'[h].channel = m.to /\ handlers'[h].context = m.context
  <2>1. /\ c \in 1 .. Len(channels) /\ handlers[h].at = "loop" /\ handlers[h].task = 0
    BY <1>1, ReceivePayloadEffect, Zenon
  <2>a. Len(channels') = Len(channels) /\ channels'[c].aux = channels[c].aux
    BY <1>1, ReceivePayloadEffect, Zenon
  <2>b. \A d \in 1 .. Len(channels) : d # c => channels'[d] = channels[d]
    BY <1>1, ReceivePayloadEffect
  <2>2. /\ DOMAIN channels[c].payloads = 1 .. n /\ DOMAIN channels'[c].payloads = 1 .. n - 1
        /\ n \in Nat /\ n > 0
        /\ \A i \in 1 .. n - 1 : channels'[c].payloads[i] = channels[c].payloads[i + 1]
    BY <1>1, <1>2, ReceivePayloadEffect, Zenon
  <2>3. /\ \A g \in Threads : g # h => handlers'[g] = handlers[g]
        /\ handlers'[h].at = "loop"
    BY <1>1, ReceivePayloadEffect, Zenon
  <2>4. \/ /\ m.kind = "payload" /\ m.task \in Tasks /\ handlers'[h].task = m.task
           /\ handlers'[h].channel = c /\ handlers'[h].context = handlers[h].context
        \/ /\ m.kind = "chain" /\ handlers'[h].task = 0
           /\ handlers'[h].channel = m.to /\ handlers'[h].context = m.context
    BY <1>1, <1>3, ReceivePayloadEffect
  <2> QED
    BY <2>1, <2>a, <2>b, <2>2, <2>3, <2>4, Zenon
<1>5. Len(channels) \in Nat /\ Len(channels) > 0
  BY <1>4 DEF Typed, TypeOK
<1>6. UNCHANGED <<bank, owner, op, manager, new_tasks, results, scheduler, waiting, ready, running,
                  finished, executed, crashed>>
  BY DEF ReceivePayload, machine
<1>7. ASSUME NEW d \in 1 .. Len(channels) - 1 PROVE NoTaskIn(d)'
  <2>1. NoTaskIn(d)
    BY Zenon DEF TasksOK, PlacesOK
  <2>2. CASE d = c
    <3>1. ASSUME NEW i \in DOMAIN channels'[c].payloads PROVE channels'[c].payloads[i].kind = "chain"
      <4>1. i + 1 \in DOMAIN channels[c].payloads /\ channels'[c].payloads[i] = channels[c].payloads[i + 1]
        BY <1>4
      <4> QED
        BY <2>1, <2>2, <4>1, Zenon DEF NoTaskIn
    <3> QED
      BY <1>4, <2>1, <2>2, <3>1, Zenon DEF NoTaskIn
  <2>3. CASE d # c
    BY <1>4, <1>5, <2>3, <2>1 DEF NoTaskIn
  <2> QED
    BY <2>2, <2>3, Zenon
<1>8. 1 \in DOMAIN channels[c].payloads
  BY <1>4
<1>9. CASE c = Len(channels)
  <2>1. m.kind # "chain"
    BY <1>3, <1>4, <1>8, <1>9 DEF Typed, ChannelsOK
  <2>2. PICK t \in Tasks : t = m.task
    BY <1>4, <2>1
  <2>3. Current = channels[c] /\ Current' = channels'[c]
    BY <1>4, <1>9, Zenon DEF Current
  <2>4. PICK p, q : p = channels[c].payloads /\ q = channels'[c].payloads
    BY Zenon
  <2>5. /\ \A u : Holds(p, u) <=> Holds(q, u) \/ IsTask(m, u)
        /\ Once(p) => Once(q) /\ \A u \in Tasks : IsTask(m, u) => ~Holds(q, u)
    <3>1. /\ DOMAIN p = 1 .. n /\ DOMAIN q = 1 .. n - 1 /\ n \in Nat /\ n > 0 /\ m = p[1]
          /\ \A i \in 1 .. n - 1 : q[i] = p[i + 1]
      BY <1>3, <1>4, <2>4, Zenon
    <3> QED
      BY <3>1, HoldsShift, Zenon
  <2>6. \A u : IsTask(m, u) <=> u = t
    BY <1>4, <2>1, <2>2, Zenon DEF IsTask
  <2>7. /\ Posted(t) /\ \A u : Posted(u) <=> Posted(u)' \/ u = t
        /\ Once(Current.payloads) => Once(Current'.payloads) /\ ~Posted(t)'
    BY <2>3, <2>4, <2>5, <2>6, Zenon DEF Posted
  <2>8. \A d \in 1 .. Len(channels) - 1 : channels'[d] = channels[d]
    BY <1>4, <1>5, <1>9
  <2>9. Current'.aux = Current.aux
    BY <1>4, <2>3, Zenon
  <2>10. handlers'[h].task = t /\ handlers'[h].channel = c /\ handlers'[h].context = handlers[h].context
    BY <1>4, <2>1, <2>2, Zenon
  <2> QED
    BY <1>1, <1>4, <1>5, <1>6, <1>7, <1>9, <2>2, <2>7, <2>8, <2>9, <2>10, Zenon
<1>10. CASE c # Len(channels)
  <2>1. c \in 1 .. Len(channels) - 1
    BY <1>4, <1>5, <1>10
  <2>2. m.kind = "chain"
    BY <1>3, <1>8, <2>1, Zenon DEF TasksOK, PlacesOK, NoTaskIn
  <2>3. m.to = c + 1
    BY <1>3, <1>4, <1>8, <2>2, Zenon DEF Typed, ChannelsOK
  <2>4. handlers'[h].task = 0 /\ handlers'[h].channel = c + 1 /\ handlers'[h].context = m.context
    BY <1>4, <2>2, <2>3, Zenon
  <2>5. Current' = Current
    BY <1>5, <1>4, <1>10 DEF Current
  <2> QED
    BY <1>1, <1>3, <1>4, <1>5, <1>6, <1>7, <2>1, <2>4, <2>5, Zenon
<1> QED
  BY <1>9, <1>10, Zenon

\* A handler takes a new task.
LEMMA AuxEffect ==
    ASSUME Typed, TasksOK, NEW h \in Threads, NEW t, ReceiveAux(h, t)
    PROVE  /\ UNCHANGED <<bank, owner, op, manager, new_tasks, results, scheduler, waiting, ready, running,
                          finished, executed, crashed>>
           /\ Len(channels') = Len(channels) /\ Len(channels) \in Nat /\ Len(channels) > 0
           /\ \A d \in 1 .. Len(channels) - 1 : channels'[d] = channels[d]
           /\ Current'.payloads = Current.payloads /\ Current'.aux = Current.aux \ {t} /\ t \in Current.aux
           /\ t \in Tasks
           /\ \A g \in Threads : g # h => handlers'[g] = handlers[g]
           /\ handlers[h].at = "loop" /\ handlers[h].task = 0 /\ handlers'[h].at = "loop"
           /\ handlers[h].channel = Len(channels) /\ handlers'[h].channel = Len(channels)
           /\ handlers'[h].context = handlers[h].context /\ handlers'[h].task = t
<1>1. PICK c : c = handlers[h].channel
  BY Zenon
<1>2. /\ c \in 1 .. Len(channels) /\ handlers[h].at = "loop" /\ handlers[h].task = 0
      /\ Len(channels') = Len(channels)
      /\ \A d \in 1 .. Len(channels) : d # c => channels'[d] = channels[d]
      /\ channels'[c].payloads = channels[c].payloads
      /\ channels'[c].aux = channels[c].aux \ {t} /\ t \in channels[c].aux /\ t \in Tasks
      /\ \A g \in Threads : g # h => handlers'[g] = handlers[g]
      /\ handlers'[h].at = "loop" /\ handlers'[h].task = t
      /\ handlers'[h].channel = c /\ handlers'[h].context = handlers[h].context
  BY <1>1, ReceiveAuxEffect, SMTT(30)
<1>3. Len(channels) \in Nat /\ Len(channels) > 0
  BY <1>2 DEF Typed, TypeOK
<1>4. c = Len(channels)
  BY <1>2, <1>3 DEF TasksOK, PlacesOK, NoTaskIn
<1>5. Current = channels[c] /\ Current' = channels'[c]
  BY <1>2, <1>4, Zenon DEF Current
<1>6. \A d \in 1 .. Len(channels) - 1 : channels'[d] = channels[d]
  BY <1>2, <1>3, <1>4
<1>7. UNCHANGED <<bank, owner, op, manager, new_tasks, results, scheduler, waiting, ready, running,
                  finished, executed, crashed>>
  BY DEF ReceiveAux, machine
<1> QED
  BY <1>1, <1>2, <1>3, <1>4, <1>5, <1>6, <1>7, Zenon

\* The handlers keep track of the tasks.
LEMMA TasksHandler ==
    ASSUME Typed, Typed', TasksOK, NEW h \in Threads, Handler(h)
    PROVE  TasksOK'
<1>0. /\ \A g \in Threads : handlers[g].task \in {0} \cup Tasks /\ handlers'[g].task \in {0} \cup Tasks
      /\ running \subseteq Tasks /\ running \subseteq Active
  BY Zenon DEF Typed, TypeOK, HandlerType, Active
<1>z. 0 \notin Tasks
  BY NoTaskZero
<1>u. \A g, k \in Threads, u \in Tasks : handlers[g].task = u /\ handlers[k].task = u => g = k
  BY <1>z, Zenon DEF TasksOK, PlacesOK
<1>f. ASSUME UNCHANGED <<bank, new_tasks, scheduler, waiting, ready, running, finished, executed>>
      PROVE  MachineOK' /\ BoundedOK' /\ QueueOK' /\ FinishedOK'
  BY <1>f DEF Last, Active, Queued, TasksOK, MachineOK, FinishedOK, BoundedOK, QueueOK
<1>1. CASE ReceivePayload(h)
  <2>1. /\ UNCHANGED <<bank, new_tasks, scheduler, waiting, ready, running, finished, executed>>
        /\ Len(channels') = Len(channels) /\ Len(channels) > 0 /\ Current'.aux = Current.aux
        /\ \A c \in 1 .. Len(channels) - 1 : NoTaskIn(c)'
        /\ \A g \in Threads : g # h => handlers'[g] = handlers[g]
        /\ handlers'[h].at = "loop"
    BY <1>1, PayloadEffect, Zenon
  <2>2. MachineOK' /\ BoundedOK' /\ QueueOK' /\ FinishedOK'
    BY <1>f, <2>1, Zenon
  <2>3. ASSUME NEW t \in Tasks, handlers[h].channel = Len(channels), handlers'[h].channel = Len(channels),
               handlers'[h].task = t, Posted(t), \A u : Posted(u) <=> Posted(u)' \/ u = t,
               Once(Current.payloads) => Once(Current'.payloads) /\ ~Posted(t)'
        PROVE  PlacesOK'
    <3>1. Once(Current'.payloads) /\ ~Posted(t)' /\ t \notin Current.aux /\ t \in running /\ executed[t] = "no"
      BY <2>1, <2>3, Zenon DEF TasksOK, PlacesOK, InChannel
    <3>2. \A u \in Tasks : InChannel(u) <=> InChannel(u)' \/ u = t
      BY <2>1, <2>3, <3>1, Zenon DEF InChannel
    <3>3. ~InChannel(t)'
      BY <2>1, <3>1, Zenon DEF InChannel
    <3>4. \A g \in Threads \ {h}, u \in Tasks : handlers[g].task = u => u # t
      BY <2>1, <2>3, Zenon DEF TasksOK, PlacesOK, InChannel
    <3>5. \A u \in Tasks : InChannel(u)' => u \in running' /\ executed'[u] = "no"
      BY <2>1, <3>2, Zenon DEF TasksOK, PlacesOK
    <3>6. ASSUME NEW g \in Threads, NEW u \in Tasks, handlers'[g].task = u
          PROVE  /\ handlers'[g].at = "loop" /\ handlers'[g].channel = Len(channels')
                 /\ u \in running' /\ executed'[u] = "no" /\ ~InChannel(u)'
      <4>1. CASE g = h
        BY <2>1, <2>3, <3>1, <3>3, <3>6, <4>1, Zenon
      <4>2. CASE g # h
        BY <2>1, <3>2, <3>6, <4>2, Zenon DEF TasksOK, PlacesOK
      <4> QED
        BY <4>1, <4>2, Zenon
    <3>7. ASSUME NEW g \in Threads, NEW k \in Threads, handlers'[g].task # 0, handlers'[g].task = handlers'[k].task
          PROVE  g = k
      BY <1>0, <1>u, <2>1, <2>3, <3>4, <3>7
    <3>8. \A u \in Tasks : Posted(u)' => u \notin Current'.aux
      BY <2>1, <2>3, Zenon DEF TasksOK, PlacesOK
    <3> QED
      BY <2>1, <3>1, <3>5, <3>6, <3>7, <3>8, Zenon DEF PlacesOK
  <2>4. ASSUME handlers'[h].task = 0, Current' = Current
        PROVE  PlacesOK'
    <3>0. \A u : Posted(u)' <=> Posted(u)
      BY <2>4, Zenon DEF Posted
    <3>1. \A u \in Tasks : InChannel(u)' <=> InChannel(u)
      BY <2>1, <2>4, <3>0, Zenon DEF InChannel
    <3>2. \A g \in Threads, u \in Tasks : handlers'[g].task = u => g # h /\ handlers'[g] = handlers[g]
      BY <1>z, <2>1, <2>4, Zenon
    <3>3. ASSUME NEW g \in Threads, NEW k \in Threads, handlers'[g].task # 0, handlers'[g].task = handlers'[k].task
          PROVE  g = k
      BY <1>0, <1>u, <3>2, <3>3, Zenon
    <3>4. ASSUME NEW g \in Threads, NEW u \in Tasks, handlers'[g].task = u
          PROVE  /\ handlers'[g].at = "loop" /\ handlers'[g].channel = Len(channels')
                 /\ u \in running' /\ executed'[u] = "no" /\ ~InChannel(u)'
      <4>1. handlers'[g] = handlers[g] /\ handlers[g].task = u
        BY <3>2, <3>4, Zenon
      <4> QED
        BY <2>1, <3>1, <4>1, Zenon DEF TasksOK, PlacesOK
    <3>5. \A u \in Tasks : InChannel(u)' => u \in running' /\ executed'[u] = "no"
      BY <2>1, <3>1, Zenon DEF TasksOK, PlacesOK
    <3>6. Once(Current'.payloads) /\ \A u \in Tasks : Posted(u)' => u \notin Current'.aux
      BY <2>1, <2>4, <3>0, Zenon DEF TasksOK, PlacesOK
    <3> QED
      <4>1. \A c \in 1 .. Len(channels') - 1 : NoTaskIn(c)'
        BY <2>1, Zenon
      <4> QED
        BY <3>3, <3>4, <3>5, <3>6, <4>1, Zenon DEF PlacesOK
  <2>5. PlacesOK'
    BY <1>1, PayloadEffect, <2>3, <2>4, Zenon
  <2> QED
    BY <2>2, <2>5, Zenon DEF TasksOK
<1>2. CASE \E t \in running : ReceiveAux(h, t)
  <2>0. PICK t \in running : ReceiveAux(h, t)
    BY <1>2
  <2>1. /\ UNCHANGED <<bank, new_tasks, scheduler, waiting, ready, running, finished, executed>>
        /\ Len(channels') = Len(channels) /\ Len(channels) > 0
        /\ \A d \in 1 .. Len(channels) - 1 : channels'[d] = channels[d]
        /\ Current'.payloads = Current.payloads /\ Current'.aux = Current.aux \ {t} /\ t \in Current.aux
        /\ t \in Tasks
        /\ \A g \in Threads : g # h => handlers'[g] = handlers[g]
        /\ handlers'[h].at = "loop" /\ handlers'[h].channel = Len(channels) /\ handlers'[h].task = t
    BY <2>0, AuxEffect, Zenon
  <2>2. MachineOK' /\ BoundedOK' /\ QueueOK' /\ FinishedOK'
    BY <1>f, <2>1, Zenon
  <2>3. \A u : Posted(u)' <=> Posted(u)
    BY <2>1, Zenon DEF Posted
  <2>4. InChannel(t) /\ ~Posted(t) /\ t \in running /\ executed[t] = "no"
    BY <2>1, Zenon DEF TasksOK, PlacesOK, InChannel
  <2>5. (\A u \in Tasks : InChannel(u)' => InChannel(u)) /\ ~InChannel(t)'
    BY <2>1, <2>3, <2>4, Zenon DEF InChannel
  <2>6. \A g \in Threads \ {h} : handlers[g].task # t
    BY <2>1, <2>4, Zenon DEF TasksOK, PlacesOK
  <2>7. \A c \in 1 .. Len(channels') - 1 : NoTaskIn(c)'
    BY <2>1, OldChannels, Zenon
  <2>8. ASSUME NEW g \in Threads, NEW u \in Tasks, handlers'[g].task = u
        PROVE  /\ handlers'[g].at = "loop" /\ handlers'[g].channel = Len(channels')
               /\ u \in running' /\ executed'[u] = "no" /\ ~InChannel(u)'
    <3>1. CASE g = h
      BY <2>1, <2>4, <2>5, <2>8, <3>1, Zenon
    <3>2. CASE g # h
      BY <2>1, <2>5, <2>8, <3>2, Zenon DEF TasksOK, PlacesOK
    <3> QED
      BY <3>1, <3>2, Zenon
  <2>9. ASSUME NEW g \in Threads, NEW k \in Threads, handlers'[g].task # 0, handlers'[g].task = handlers'[k].task
        PROVE  g = k
    BY <1>0, <1>u, <2>1, <2>6, <2>9
  <2>10. \A u \in Tasks : InChannel(u)' => u \in running' /\ executed'[u] = "no"
    BY <2>1, <2>5, Zenon DEF TasksOK, PlacesOK
  <2>11. Once(Current'.payloads) /\ \A u \in Tasks : Posted(u)' => u \notin Current'.aux
    BY <2>1, <2>3, Zenon DEF TasksOK, PlacesOK
  <2>12. PlacesOK'
    BY <2>1, <2>7, <2>8, <2>9, <2>10, <2>11, Zenon DEF PlacesOK
  <2> QED
    BY <2>2, <2>12, Zenon DEF TasksOK
<1>3. CASE \E outcome \in {"ok", "err", "panicked"} : Execute(h, outcome)
  <2>0. PICK outcome \in Outcomes : Execute(h, outcome)
    BY <1>3 DEF Outcomes
  <2>1. PICK t : t = handlers[h].task
    BY Zenon
  <2>2. PICK f : f = [task |-> t, outcome |-> outcome]
    BY Zenon
  <2>3. /\ t \in Tasks /\ t # 0 /\ executed'[t] = outcome
        /\ \A u \in Tasks : u # t => executed'[u] = executed[u]
        /\ finished' = IF scheduler.at = "exited" THEN finished ELSE finished \cup {f}
        /\ \A g \in Threads : g # h => handlers'[g] = handlers[g]
        /\ handlers'[h].task = 0
    BY <2>0, <2>1, <2>2, ExecuteEffect
  <2>4. UNCHANGED <<bank, new_tasks, scheduler, waiting, ready, running, channels>>
    BY <2>0, Zenon DEF Execute, machine
  <2>5. f.task = t /\ f.outcome = outcome
    BY <2>2
  <2>6. t \in running /\ executed[t] = "no" /\ ~InChannel(t)
    BY <2>1, <2>3, Zenon DEF TasksOK, PlacesOK
  <2>7. /\ Last' = Last /\ Active' = Active /\ Current' = Current
        /\ \A u : (Queued(u)' <=> Queued(u)) /\ (InChannel(u)' <=> InChannel(u)) /\ (Posted(u)' <=> Posted(u))
    BY <2>4, Zenon DEF Last, Active, Queued, Current, InChannel, Posted
  <2>8. MachineOK'
    BY <2>4 DEF TasksOK, MachineOK
  <2>9. BoundedOK'
    BY <1>0, <2>6, <2>3, <2>4, <2>7, Zenon DEF TasksOK, BoundedOK
  <2>10. QueueOK'
    BY <1>0, <2>6, <2>3, <2>4, <2>7 DEF TasksOK, MachineOK, Typed, TypeOK, QueueOK
  <2>11. FinishedOK'
    <3>1. t \in Active
      BY <1>0, <2>6, Zenon
    <3>2. scheduler.at \notin {"finished", "between"}
      BY <3>1, Zenon DEF TasksOK, FinishedOK
    <3>3. ASSUME scheduler.at = "session", NEW g \in finished'
          PROVE  g.task \in running' /\ executed'[g.task] = g.outcome
      BY <2>3, <2>4, <2>5, <2>6, <3>3, Zenon DEF TasksOK, FinishedOK, Typed, TypeOK,
         Outcomes
    <3> QED
      BY <2>4, <3>2, <3>3, Zenon DEF FinishedOK
  <2>12. PlacesOK'
    <3>1. \A c \in 1 .. Len(channels') - 1 : NoTaskIn(c)'
      BY <2>4, OldChannels, Zenon
    <3>2. ASSUME NEW g \in Threads, NEW u \in Tasks, handlers'[g].task = u
          PROVE  /\ g # h /\ handlers'[g] = handlers[g] /\ handlers[g].task = u
                 /\ u # t /\ executed'[u] = executed[u]
      <4>1. g # h /\ handlers'[g] = handlers[g] /\ handlers[g].task = u
        BY <1>z, <2>3, <3>2, Zenon
      <4>2. u # t
        BY <2>1, <2>3, <4>1, Zenon DEF TasksOK, PlacesOK
      <4> QED
        BY <2>3, <4>1, <4>2, Zenon
    <3>3. ASSUME NEW g \in Threads, NEW u \in Tasks, handlers'[g].task = u
          PROVE  /\ handlers'[g].at = "loop" /\ handlers'[g].channel = Len(channels')
                 /\ u \in running' /\ executed'[u] = "no" /\ ~InChannel(u)'
      <4>1. handlers'[g] = handlers[g] /\ handlers[g].task = u /\ executed'[u] = executed[u]
        BY <3>2, <3>3, Zenon
      <4> QED
        BY <2>4, <2>7, <4>1, Zenon DEF TasksOK, PlacesOK
    <3>4. ASSUME NEW g \in Threads, NEW k \in Threads,
                 handlers'[g].task # 0, handlers'[g].task = handlers'[k].task
          PROVE  g = k
      BY <1>0, <3>4, <1>u, <3>2
    <3>5. \A u \in Tasks : InChannel(u)' => u \in running' /\ executed'[u] = "no"
      BY <2>3, <2>4, <2>6, <2>7, Zenon DEF TasksOK, PlacesOK
    <3>6. Len(channels') > 0 => /\ Once(Current'.payloads)
                                /\ \A u \in Tasks : Posted(u)' => u \notin Current'.aux
      BY <2>4, <2>7, Zenon DEF TasksOK, PlacesOK
    <3> QED
      BY <3>1, <3>3, <3>4, <3>5, <3>6, Zenon DEF PlacesOK
  <2> QED
    BY <2>8, <2>9, <2>10, <2>11, <2>12, Zenon DEF TasksOK
<1>4. CASE ExitHandler(h)
  <2>1. /\ \A g \in Threads : g # h => handlers'[g] = handlers[g]
        /\ handlers[h].task = 0 /\ handlers'[h].task = 0
    BY <1>4, ExitEffect, Zenon
  <2>2. UNCHANGED <<bank, new_tasks, scheduler, waiting, ready, running, channels, finished, executed>>
    BY <1>4, Zenon DEF ExitHandler, machine
  <2>3. MachineOK' /\ BoundedOK' /\ QueueOK' /\ FinishedOK'
    BY <1>f, <2>2, Zenon
  <2>4. /\ Current' = Current
        /\ \A u : (InChannel(u)' <=> InChannel(u)) /\ (Posted(u)' <=> Posted(u))
    BY <2>2, Zenon DEF Current, InChannel, Posted
  <2>5. \A c \in 1 .. Len(channels') - 1 : NoTaskIn(c)'
    BY <2>2, OldChannels, Zenon
  <2>6. ASSUME NEW g \in Threads, NEW u \in Tasks, handlers'[g].task = u
        PROVE  g # h /\ handlers'[g] = handlers[g] /\ handlers[g].task = u
    BY <1>z, <2>1, <2>6, Zenon
  <2>7. ASSUME NEW g \in Threads, NEW u \in Tasks, handlers'[g].task = u
        PROVE  /\ handlers'[g].at = "loop" /\ handlers'[g].channel = Len(channels')
               /\ u \in running' /\ executed'[u] = "no" /\ ~InChannel(u)'
    <3>1. handlers'[g] = handlers[g] /\ handlers[g].task = u
      BY <2>6, <2>7, Zenon
    <3> QED
      BY <2>2, <2>4, <3>1, Zenon DEF TasksOK, PlacesOK
  <2>8. ASSUME NEW g \in Threads, NEW k \in Threads, handlers'[g].task # 0, handlers'[g].task = handlers'[k].task
        PROVE  g = k
    BY <1>0, <2>8, <1>u, <2>6, Zenon
  <2>9. /\ \A u \in Tasks : InChannel(u)' => u \in running' /\ executed'[u] = "no"
        /\ Len(channels') > 0 => /\ Once(Current'.payloads)
                                 /\ \A u \in Tasks : Posted(u)' => u \notin Current'.aux
    BY <2>2, <2>4, Zenon DEF TasksOK, PlacesOK
  <2> QED
    BY <2>3, <2>5, <2>7, <2>8, <2>9, Zenon DEF TasksOK, PlacesOK
<1> QED
  BY <1>1, <1>2, <1>3, <1>4, Zenon DEF Handler

\* A task is never in two places of the queue, the channels and the handlers, and
\* is in the hands of the threads only while the state machine has it running: it
\* is executed at most once.
THEOREM TasksHold == Spec => []TasksOK
<1>1. Typed /\ Typed' /\ Protocol /\ TasksOK /\ [Next]_vars => TasksOK'
  <2> SUFFICES ASSUME Typed, Typed', Protocol, TasksOK, [Next]_vars PROVE TasksOK'
    OBVIOUS
  <2>1. CASE UNCHANGED vars
    <3>1. UNCHANGED <<threads, executed, bank, new_tasks>>
      BY <2>1 DEF vars
    <3>2. Last' = Last /\ (\A u : Queued(u)' <=> Queued(u))
      BY <3>1, Zenon DEF Last, Queued
    <3>3. Last <= Last'
      <4>1. bank.slot \in Int /\ bank.sent \in Int /\ TasksPerBank \in Int
        BY SessionsAssumption DEF Typed, TypeOK, BankType
      <4>2. Last \in Int
        BY <4>1 DEF Last
      <4> QED
        BY <3>2, <4>2
    <3> QED
      BY <3>1, <3>2, <3>3, TasksQueue, Zenon
  <2>2. CASE \E h \in 1 .. Handlers : Handler(h)
    BY <2>2, TasksHandler, Zenon DEF Threads
  <2>3. CASE Owner \/ TimeoutListener \/ DropPooled \/ TakenElsewhere \/ LockHolder
    BY <2>3, TasksOwner, Zenon
  <2>4. CASE SchedulerThread
    BY <2>4, TasksScheduler, Zenon
  <2> QED
    BY <2>1, <2>2, <2>3, <2>4, Zenon DEF Next
<1> QED
  BY <1>1, TasksInit, TypesHold, ProtocolHolds, PTL DEF Spec

(* ------------------------------- panics --------------------------------- *)

\* A handler's panic ends with the threads: no step of another thread undoes it.
LEMMA PanickedKept ==
    ASSUME handlers' = handlers
    PROVE  Panicked' <=> Panicked
BY Zenon DEF Panicked

\* A panic is still to be heard of when the scheduler thread is in a session, so
\* that the session cannot end before.
LEMMA PanicStep ==
    ASSUME Typed, Typed', Protocol, TasksOK, TasksOK', PanicOK, [Next]_vars
    PROVE  PanicOK'
<1>1. CASE UNCHANGED <<scheduler, handlers, finished>>
  BY <1>1 DEF PanicOK, Panicked
<1>2. CASE Owner \/ TimeoutListener \/ DropPooled \/ TakenElsewhere \/ LockHolder
  <2>1. CASE \/ ScheduleStale \/ RetrieveError \/ Pause \/ Terminate \/ TimeoutListener
             \/ DropPooled \/ LockHolder
    BY <2>1, QuietEffect, <1>1, Zenon DEF threads
  <2>2. CASE Schedule \/ ScheduleResumed
    BY <2>2, SendEffect, <1>1, Zenon DEF threads
  <2>3. CASE InstallScheduler \/ Resume
    BY <2>3, TakeEffect, <1>1, SpawnEffect, Zenon DEF FromInner, threads, PanicOK
  <2>4. CASE TakenElsewhere
    BY <2>4 DEF TakenElsewhere, Panicked, PanicOK
  <2> QED
    BY <1>2, <2>1, <2>2, <2>3, <2>4, Zenon DEF Owner
<1>3. CASE SchedulerThread
  BY FinishedEffect, PanickedKept, <1>1, TurnEffect, ArriveEffect, OpenEffect, <1>3, Zenon
     DEF
     Active, PanicOK, TasksOK, FinishedOK, DispatchUnblocked, ReceiveNew, ReceiveOpen,
     SchedulerThread
<1>4. ASSUME NEW h \in Threads, Handler(h) PROVE PanicOK'
  <2>1. CASE ReceivePayload(h)
    BY <2>1, PayloadEffect, Zenon DEF PanicOK, Panicked, Threads
  <2>2. CASE \E t \in running : ReceiveAux(h, t)
    BY <2>2, AuxEffect, Zenon DEF PanicOK, Panicked, Threads
  <2>3. CASE \E outcome \in {"ok", "err", "panicked"} : Execute(h, outcome)
    <3>0. PICK outcome \in Outcomes : Execute(h, outcome)
      BY <2>3 DEF Outcomes
    <3>1. PICK t : t = handlers[h].task
      BY Zenon
    <3>2. PICK f : f = [task |-> t, outcome |-> outcome]
      BY Zenon
    <3>3. /\ t \in Tasks
          /\ finished' = IF scheduler.at = "exited" THEN finished ELSE finished \cup {f}
          /\ \A g \in Threads : g # h => handlers'[g] = handlers[g]
          /\ handlers[h].at = "loop"
          /\ handlers'[h].at = "panicked" <=> outcome = "panicked"
      BY <3>0, <3>1, <3>2, ExecuteEffect
    <3>4. f.outcome = outcome /\ UNCHANGED scheduler
      BY <3>0, <3>2, Zenon DEF Execute
    <3>5. t \in running
      BY <3>1, <3>3, Zenon DEF TasksOK, PlacesOK
    <3>6. scheduler.at \notin {"finished", "between"}
      BY <3>5, Zenon DEF TasksOK, FinishedOK, Active
    <3>7. Panicked' => Panicked \/ outcome = "panicked"
      BY <3>3, Zenon DEF Panicked, Threads
    <3> QED
      BY <3>3, <3>4, <3>6, <3>7, Zenon DEF PanicOK
  <2>4. CASE ExitHandler(h)
    BY <2>4, ExitEffect, Zenon DEF ExitHandler, PanicOK, Panicked, Threads
  <2> QED
    BY <1>4, <2>1, <2>2, <2>3, <2>4, Zenon DEF Handler
<1> QED
  BY <1>1, <1>2, <1>3, <1>4, Zenon DEF Next, vars, threads, Threads

\* A panic of a handler is never missed by the session it happens in.
THEOREM PanicsAreHeard == Spec => []PanicOK
<1>1. Init => PanicOK
  BY DEF Init, PanicOK, Panicked
<1>2. Typed /\ Typed' /\ Protocol /\ TasksOK /\ TasksOK' /\ PanicOK /\ [Next]_vars => PanicOK'
  BY PanicStep, Zenon
<1> QED
  BY <1>1, <1>2, TypesHold, ProtocolHolds, TasksHold, PTL DEF Spec

(* ------------------------------- contexts ------------------------------- *)

\* Handlers that were in the last channel keep their context, and so do the
\* messages that lead to it.
LEMMA InContextKept ==
    ASSUME NEW b, InContext(b), Len(channels') = Len(channels), Len(channels) \in Nat,
           \/ \A d \in 1 .. Len(channels) - 1 : channels'[d] = channels[d]
           \/ Len(channels) > 1 /\ Leads(Len(channels) - 1, b)',
           \A g \in Threads : handlers'[g].at = "loop" /\ handlers'[g].channel = Len(channels) =>
              /\ handlers[g].at = "loop" /\ handlers[g].channel = Len(channels)
              /\ handlers'[g].context = handlers[g].context
    PROVE  InContext(b)'
BY DEF InContext, Leads

\* What a step must keep for the tasks to meet the right context.
LEMMA ContextKept ==
    ASSUME Typed, ContextOK, bank'.slot = bank.slot,
           \A b : InContext(b) => InContext(b)',
           scheduler'.at = "session" => scheduler.at = "session",
           scheduler'.at \in {"finished", "between"} =>
              scheduler.at \in {"session", "finished", "between"},
           \A t \in Tasks : Queued(t)' => Queued(t) \/ BankOf(t) = bank.slot,
           \A t \in Active' : t \in Tasks /\ (t \in Active \/ Queued(t)),
           \A t \in Tasks : InChannel(t)' => InChannel(t) \/ (scheduler'.at = "session" /\ t \in Active'),
           TasksMeetTheirBank'
    PROVE  ContextOK'
<1>1. PICK b : b = bank.slot
  BY Zenon
<1>2. ASSUME scheduler'.at = "session"
      PROVE  InContext(b) /\ InContext(b)' /\ \A t \in Active' : BankOf(t) = b
  BY <1>1, <1>2, Zenon DEF ContextOK
<1>3. scheduler'.at = "session" => InContext(bank.slot)' /\ \A t \in Active' : BankOf(t) = bank'.slot
  BY <1>1, <1>2, Zenon DEF InContext, Leads
<1>4. \A t \in Tasks : InChannel(t)' => InContext(BankOf(t))'
  BY <1>2, Zenon DEF ContextOK
<1>5. scheduler'.at \in {"session", "finished", "between"} =>
         \A t \in Tasks : Queued(t)' => BankOf(t) = bank'.slot
  BY DEF ContextOK
<1> QED
  BY <1>3, <1>4, <1>5, Zenon DEF ContextOK

\* A handler without a new task still has the right context.
LEMMA MeetKept ==
    ASSUME TasksMeetTheirBank,
           \A g \in Threads : handlers'[g].task # 0 =>
              handlers'[g].task = handlers[g].task /\ handlers'[g].context = handlers[g].context
    PROVE  TasksMeetTheirBank'
BY Zenon DEF TasksMeetTheirBank, Threads

\* The context is kept where the threads do not take part.
LEMMA ContextQuiet ==
    ASSUME Typed, ContextOK, UNCHANGED threads, bank'.slot = bank.slot,
           \A t \in Tasks : Queued(t)' => Queued(t) \/ BankOf(t) = bank.slot
    PROVE  ContextOK'
BY ContextKept, Zenon DEF threads, machine, InContext, Leads, Active, InChannel, Current,
   Posted, Typed, TypeOK, ContextOK, TasksMeetTheirBank

\* The owner's and the lock holder's steps: a new session has the context of the
\* bank it is for.
LEMMA ContextOwner ==
    ASSUME Typed, Typed', Protocol, TasksOK, TasksOK', ContextOK,
           Owner \/ TimeoutListener \/ DropPooled \/ TakenElsewhere \/ LockHolder
    PROVE  ContextOK'
<1>1. CASE \/ ScheduleStale \/ RetrieveError \/ Pause \/ Terminate \/ TimeoutListener
           \/ DropPooled \/ LockHolder
  BY <1>1, QuietEffect, ContextQuiet, Zenon
<1>2. CASE Schedule \/ ScheduleResumed
  BY <1>2, SendEffect, ContextQuiet, Zenon DEF Queued
<1>3. CASE InstallScheduler \/ Resume
  <2>1. FromInner(bank'.slot, Ok) \/ Spawn(bank'.slot, Ok)
    BY <1>3, TakeEffect, Zenon
  <2>2. CASE FromInner(bank'.slot, Ok)
    <3>1. manager.pooled /\ UNCHANGED threads
      BY <2>2, Zenon DEF FromInner
    <3>2. UNCHANGED <<scheduler, waiting, ready, running, channels, handlers>>
      BY <3>1, Zenon DEF threads, machine
    <3>3. scheduler.at \notin {"session", "finished"}
      BY <3>1, Zenon DEF Protocol, InSessionOK, AtEndOK, InSession
    <3>4. ASSUME scheduler.at = "between" PROVE \A t \in Tasks : ~Queued(t)'
      BY <3>1, <3>4, <2>2, QueueMessage, SMTT(30) DEF Protocol, BetweenOK, Answered, Taken,
         Pooled, Opening, Dropping, InSession, Queued, Holds, Typed, TypeOK, BankType,
         MessageType, Result, FromInner
    <3>5. \A t : InChannel(t)' <=> InChannel(t)
      BY <3>2, Zenon DEF InChannel, Current, Posted
    <3>6. TasksMeetTheirBank'
      BY <3>2, Zenon DEF ContextOK, TasksMeetTheirBank
    <3>7. \A t \in Tasks : InChannel(t)' => InContext(BankOf(t))'
      BY <3>2, <3>5, Zenon DEF ContextOK, InContext, Leads
    <3> QED
      BY <3>2, <3>3, <3>4, <3>6, <3>7, Zenon DEF ContextOK
  <2>3. CASE Spawn(bank'.slot, Ok)
    <3>1. PICK b : b = bank'.slot
      BY Zenon
    <3>2. Spawn(b, Ok)
      BY <2>3, <3>1, Zenon
    <3>3. /\ Active' = {} /\ \A t : ~Queued(t)' /\ ~InChannel(t)'
          /\ Len(channels') = 1
          /\ \A h \in Threads : handlers'[h].task = 0 /\ handlers'[h].context = b
      BY <3>2, SpawnEffect, Zenon
    <3>4. TasksMeetTheirBank'
      BY <3>3, Zenon DEF TasksMeetTheirBank, Threads
    <3>5. InContext(bank.slot)'
      BY <3>1, <3>3 DEF InContext
    <3> QED
      BY <3>3, <3>4, <3>5, Zenon DEF ContextOK
  <2> QED
    BY <2>1, <2>2, <2>3, Zenon
<1>4. CASE TakenElsewhere
  BY <1>4 DEF TakenElsewhere, Threads, TasksMeetTheirBank, InChannel, ContextOK
<1> QED
  BY <1>1, <1>2, <1>3, <1>4, Zenon DEF Owner

\* The scheduler thread's steps: a task of the bank in replay goes to handlers that
\* have, or are led to, the context of that bank.
LEMMA ContextScheduler ==
    ASSUME Typed, Typed', Protocol, TasksOK, TasksOK', ContextOK, SchedulerThread
    PROVE  ContextOK'
<1>0. /\ \A t \in Active : t \in Tasks
      /\ \A t \in Active' : t \in Tasks
      /\ Len(channels) \in Nat /\ TasksMeetTheirBank
  BY DEF Active, Typed, TypeOK, ContextOK
<1>s. ASSUME handlers' = handlers, Len(channels') = Len(channels),
             \A d \in 1 .. Len(channels) - 1 : channels'[d] = channels[d]
      PROVE  TasksMeetTheirBank' /\ \A b : InContext(b) => InContext(b)'
  BY <1>0, <1>s, MeetKept, InContextKept, Zenon
<1>1. ASSUME NEW f \in finished, ReceiveFinished(f) PROVE ContextOK'
  BY <1>1, FinishedEffect, <1>s, <1>0, ContextKept, Zenon DEF Active, Queued, InChannel,
     Current, Posted
<1>2. ASSUME NEW t \in ready, DispatchUnblocked(t) PROVE ContextOK'
  BY <1>2, PostEffect, <1>s, <1>0, ContextKept, Zenon DEF Typed, TypeOK, Active, Queued
<1>3. CASE \/ ReceiveNew /\ Head(new_tasks).kind = "close"
           \/ ReceiveOpen /\ Head(new_tasks).kind = "disconnect"
           \/ FinishSession \/ Abort \/ DropReceiver \/ ExitScheduler
  BY <1>3, TurnEffect, <1>s, <1>0, ContextKept, Zenon DEF Active, InChannel, Current, Posted
<1>4. CASE ReceiveNew /\ Head(new_tasks).kind = "payload"
  BY <1>4, ArriveEffect, <1>s, <1>0, ContextKept DEF Active
<1>5. CASE ReceiveOpen /\ Head(new_tasks).kind = "open"
  <2>0. PICK b : b = Head(new_tasks).bank
    BY Zenon
  <2>1. /\ scheduler.at = "between" /\ scheduler'.at = "session"
        /\ Active = {} /\ \A u : Queued(u)' <=> Queued(u)
        /\ UNCHANGED <<bank, waiting, ready, running, handlers>>
        /\ \A u : ~InChannel(u)'
        /\ \A h \in Threads : handlers[h].task = 0
    BY <1>5, <2>0, OpenEffect, Zenon
  <2>2. /\ Len(channels') = Len(channels) + 1 /\ Len(channels) > 0
        /\ DOMAIN channels'[Len(channels)].payloads = 1 .. Handlers
        /\ \A i \in 1 .. Handlers :
              channels'[Len(channels)].payloads[i] = [kind |-> "chain", context |-> b, to |-> Len(channels) + 1]
    BY <1>5, <2>0, OpenEffect, Zenon
  <2>3. b = bank.slot /\ b = bank'.slot
    BY <1>5, <2>1, <2>0 DEF ReceiveOpen, Protocol, BetweenOK, Answered, Taken, Pooled,
       Dropping, Opening
  <2>4. InContext(b)'
    <3>1. \A h \in Threads : ~(handlers'[h].at = "loop" /\ handlers'[h].channel = Len(channels'))
      BY <1>0, <2>1, <2>2 DEF Typed, ChannelsOK
    <3>2. Leads(Len(channels) - 1, b)'
      <4>1. PICK k : k = Len(channels) /\ k = Len(channels') - 1
        BY <1>0, <2>2
      <4>2. \A i \in DOMAIN channels'[k].payloads : channels'[k].payloads[i].context = b
        <5> SUFFICES ASSUME NEW i \in DOMAIN channels'[k].payloads PROVE channels'[k].payloads[i].context = b
          OBVIOUS
        <5>1. i \in 1 .. Handlers
          BY <2>2, <4>1, Zenon
        <5>2. PICK m : m = [kind |-> "chain", context |-> b, to |-> Len(channels) + 1]
          BY Zenon
        <5>3. channels'[k].payloads[i] = m
          BY <2>2, <4>1, <5>1, <5>2, Zenon
        <5>4. m.context = b
          BY <5>2
        <5> QED
          BY <5>3, <5>4, Zenon
      <4> QED
        BY <4>1, <4>2, Zenon DEF Leads
    <3> QED
      BY <3>1, <3>2, Zenon DEF InContext
  <2>5. Active' = {}
    BY <2>1, Zenon DEF Active
  <2>6. TasksMeetTheirBank'
    BY <2>1, Zenon DEF TasksMeetTheirBank, Threads
  <2>7. InContext(bank.slot)'
    BY <2>3, <2>4, Zenon DEF InContext, Leads
  <2>8. \A t \in Tasks : Queued(t)' => BankOf(t) = bank'.slot
    BY <2>1, Zenon DEF ContextOK
  <2> QED
    BY <2>1, <2>5, <2>6, <2>7, <2>8, Zenon DEF ContextOK
<1>6. /\ ReceiveNew => Head(new_tasks).kind \in {"payload", "close"}
      /\ ReceiveOpen => Head(new_tasks).kind \in {"open", "disconnect"}
  BY Zenon DEF ReceiveNew, ReceiveOpen
<1> QED
  BY <1>1, <1>2, <1>3, <1>4, <1>5, <1>6, Zenon DEF SchedulerThread

\* The messages left in a channel give the contexts they gave before one was read,
\* and so does that one.
LEMMA LeadsKept ==
    ASSUME Typed, NEW h \in Threads, ReceivePayload(h), NEW b, NEW d \in 1 .. Len(channels), Leads(d, b)
    PROVE  /\ Leads(d, b)'
           /\ handlers[h].channel = d => channels[d].payloads[1].context = b
<1>1. PICK c : c = handlers[h].channel
  BY Zenon
<1>2. PICK n : n = Len(channels[c].payloads)
  BY Zenon
<1>3. /\ \A e \in 1 .. Len(channels) : e # c => channels'[e] = channels[e]
      /\ DOMAIN channels[c].payloads = 1 .. n /\ DOMAIN channels'[c].payloads = 1 .. n - 1
      /\ n \in Nat /\ n > 0
      /\ \A i \in 1 .. n - 1 : channels'[c].payloads[i] = channels[c].payloads[i + 1]
  <2>1. \A e \in 1 .. Len(channels) : e # c => channels'[e] = channels[e]
    BY <1>1, ReceivePayloadEffect
  <2>2. /\ DOMAIN channels[c].payloads = 1 .. n /\ DOMAIN channels'[c].payloads = 1 .. n - 1
        /\ n \in Nat /\ n > 0
        /\ \A i \in 1 .. n - 1 : channels'[c].payloads[i] = channels[c].payloads[i + 1]
    BY <1>1, <1>2, ReceivePayloadEffect, Zenon
  <2> QED
    BY <2>1, <2>2, Zenon
<1>4. CASE d # c
  BY <1>3, <1>4, <1>1 DEF Leads
<1>5. CASE d = c
  <2>1. \A i \in 1 .. n : channels[c].payloads[i].context = b
    BY <1>3, <1>5, Zenon DEF Leads
  <2>2. \A i \in DOMAIN channels'[c].payloads : channels'[c].payloads[i].context = b
    <3> SUFFICES ASSUME NEW i \in DOMAIN channels'[c].payloads PROVE channels'[c].payloads[i].context = b
      OBVIOUS
    <3>1. i \in 1 .. n - 1
      BY <1>3, Zenon
    <3>2. i + 1 \in 1 .. n
      BY <1>3, <3>1
    <3> QED
      BY <1>3, <2>1, <3>1, <3>2, Zenon
  <2>3. channels[c].payloads[1].context = b
    BY <1>3, <2>1
  <2> QED
    BY <1>5, <2>2, <2>3, Zenon DEF Leads
<1> QED
  BY <1>4, <1>5, Zenon

\* The handlers' steps: who goes on to the last channel gets the context that the
\* tasks in it need.
LEMMA ContextHandler ==
    ASSUME Typed, Typed', Protocol, TasksOK, TasksOK', ContextOK, NEW h \in Threads, Handler(h)
    PROVE  ContextOK'
<1>0. /\ \A t \in Active : t \in Tasks
      /\ Len(channels) \in Nat /\ TasksMeetTheirBank
  BY DEF Active, Typed, TypeOK, ContextOK
<1>f. ASSUME UNCHANGED <<bank, new_tasks, scheduler, waiting, ready, running>>,
             \A b : InContext(b) => InContext(b)', TasksMeetTheirBank',
             \A u \in Tasks : InChannel(u)' => InChannel(u)
      PROVE  ContextOK'
  BY <1>f, <1>0, ContextKept, Zenon DEF Active, Queued
<1>1. CASE ReceivePayload(h)
  <2>1. /\ UNCHANGED <<bank, new_tasks, scheduler, waiting, ready, running>>
        /\ Len(channels') = Len(channels) /\ Len(channels) > 0
        /\ Current'.aux = Current.aux
        /\ \A g \in Threads : g # h => handlers'[g] = handlers[g]
        /\ handlers[h].at = "loop"
    BY <1>1, PayloadEffect, Zenon
  <2>2. CASE /\ handlers[h].channel = Len(channels)
             /\ handlers'[h].context = handlers[h].context
             /\ \A d \in 1 .. Len(channels) - 1 : channels'[d] = channels[d]
             /\ \E t \in Tasks : /\ handlers'[h].task = t /\ Posted(t)
                                 /\ \A u : Posted(u) <=> Posted(u)' \/ u = t
    <3>1. PICK t \in Tasks : /\ handlers'[h].task = t /\ Posted(t)
                             /\ \A u : Posted(u) <=> Posted(u)' \/ u = t
      BY <2>2
    <3>2. \A u : InChannel(u)' => InChannel(u)
      BY <2>1, <3>1, Zenon DEF InChannel
    <3>3. InChannel(t)
      BY <2>1, <3>1, Zenon DEF InChannel
    <3>4. handlers[h].context = BankOf(t)
      BY <2>1, <2>2, <3>3, Zenon DEF ContextOK, InContext
    <3>5. TasksMeetTheirBank'
      BY <1>0, <2>1, <2>2, <3>1, <3>4, Zenon DEF TasksMeetTheirBank, Threads
    <3>6. ASSUME NEW b, InContext(b) PROVE InContext(b)'
      BY <2>1, <2>2, <1>0, <3>6, InContextKept, Zenon
    <3> QED
      BY <1>f, <2>1, <3>2, <3>5, <3>6, Zenon
  <2>3. CASE /\ handlers[h].channel \in 1 .. Len(channels) - 1 /\ handlers'[h].task = 0
             /\ handlers'[h].channel = handlers[h].channel + 1
             /\ Current' = Current
             /\ handlers'[h].context = channels[handlers[h].channel].payloads[1].context
    <3>1. \A u : InChannel(u)' <=> InChannel(u)
      BY <2>1, <2>3, Zenon DEF InChannel, Posted
    <3>2. TasksMeetTheirBank'
      BY <1>0, <2>1, <2>3, MeetKept, Zenon
    <3>3. ASSUME NEW b, InContext(b) PROVE InContext(b)'
      <4>1. PICK k : k = Len(channels) - 1 /\ k = Len(channels') - 1
        BY <2>1, Zenon
      <4>2. k \in 1 .. Len(channels) /\ Len(channels) > 1 /\ Len(channels') > 1
        BY <1>0, <2>1, <2>3, <4>1
      <4>3. Leads(k, b)
        BY <3>3, <4>1, <4>2, Zenon DEF InContext
      <4>4. Leads(k, b)' /\ (handlers[h].channel = k => channels[k].payloads[1].context = b)
        BY <1>1, <4>2, <4>3, LeadsKept, Zenon
      <4>5. handlers'[h].channel = Len(channels') => handlers'[h].context = b
        BY <1>0, <2>1, <2>3, <4>1, <4>4
      <4>6. \A g \in Threads : handlers'[g].at = "loop" /\ handlers'[g].channel = Len(channels') =>
               handlers'[g].context = b
        BY <2>1, <3>3, <4>5, Zenon DEF InContext
      <4>7. Leads(Len(channels) - 1, b)'
        BY <4>1, <4>4, Zenon DEF Leads
      <4> QED
        BY <4>6, <4>7, Zenon DEF InContext
    <3> QED
      BY <1>f, <2>1, <3>1, <3>2, <3>3, Zenon
  <2> QED
    BY <1>1, <2>2, <2>3, PayloadEffect, Zenon
<1>2. CASE \E t \in running : ReceiveAux(h, t)
  <2>0. PICK t \in running : ReceiveAux(h, t)
    BY <1>2
  <2>1. /\ UNCHANGED <<bank, new_tasks, scheduler, waiting, ready, running>>
        /\ Len(channels') = Len(channels) /\ Len(channels) > 0
        /\ \A d \in 1 .. Len(channels) - 1 : channels'[d] = channels[d]
        /\ Current'.payloads = Current.payloads /\ Current'.aux = Current.aux \ {t} /\ t \in Current.aux
        /\ t \in Tasks
        /\ \A g \in Threads : g # h => handlers'[g] = handlers[g]
        /\ handlers[h].at = "loop" /\ handlers[h].channel = Len(channels)
        /\ handlers'[h].context = handlers[h].context /\ handlers'[h].task = t
    BY <2>0, AuxEffect, Zenon
  <2>2. \A u : InChannel(u)' => InChannel(u)
    BY <2>1, Zenon DEF InChannel, Posted
  <2>3. InChannel(t)
    BY <2>1, Zenon DEF InChannel
  <2>4. handlers[h].context = BankOf(t)
    BY <2>1, <2>3, Zenon DEF ContextOK, InContext
  <2>5. TasksMeetTheirBank'
    BY <1>0, <2>1, <2>4, Zenon DEF TasksMeetTheirBank, Threads
  <2>6. ASSUME NEW b, InContext(b) PROVE InContext(b)'
    BY <2>1, <1>0, <2>6, InContextKept, Zenon
  <2> QED
    BY <1>f, <2>1, <2>2, <2>5, <2>6, Zenon
<1>3. CASE (\E outcome \in {"ok", "err", "panicked"} : Execute(h, outcome)) \/ ExitHandler(h)
  <2>1. /\ \A g \in Threads : g # h => handlers'[g] = handlers[g]
        /\ handlers[h].at = "loop" /\ handlers'[h].task = 0
        /\ handlers'[h].channel = handlers[h].channel /\ handlers'[h].context = handlers[h].context
    <3>1. CASE \E outcome \in {"ok", "err", "panicked"} : Execute(h, outcome)
      BY <3>1, ExecuteEffect DEF Outcomes
    <3>2. CASE ExitHandler(h)
      <4>1. handlers'[h] = [handlers[h] EXCEPT !.at = "exited"] /\ handlers[h] \in HandlerType
        BY <3>2, Zenon DEF ExitHandler, Typed, TypeOK
      <4>2. handlers'[h].context = handlers[h].context
        BY <4>1, Zenon DEF HandlerType
      <4> QED
        BY <3>2, <4>2, ExitEffect, Zenon
    <3> QED
      BY <1>3, <3>1, <3>2, Zenon
  <2>2. UNCHANGED <<bank, new_tasks, scheduler, waiting, ready, running, channels>>
    BY <1>3 DEF Execute, ExitHandler, machine
  <2>3. \A u : InChannel(u)' <=> InChannel(u)
    BY <2>2, Zenon DEF InChannel, Posted, Current
  <2>4. TasksMeetTheirBank'
    BY <1>0, <2>1, MeetKept, Zenon
  <2>5. ASSUME NEW b, InContext(b) PROVE InContext(b)'
    BY <2>1, <1>0, <2>2, <2>5, InContextKept, Zenon
  <2> QED
    BY <1>f, <2>2, <2>3, <2>4, <2>5, Zenon
<1> QED
  BY <1>1, <1>2, <1>3, Zenon DEF Handler

\* The tasks in the channels meet the context of their bank.
THEOREM ContextsHold == Spec => []ContextOK
<1>1. Init => ContextOK
  BY DEF Init, ContextOK, InChannel, TasksMeetTheirBank
<1>2. Typed /\ Typed' /\ Protocol /\ TasksOK /\ TasksOK' /\ ContextOK /\ [Next]_vars => ContextOK'
  BY ContextQuiet, ContextHandler, ContextOwner, ContextScheduler, Zenon DEF vars, Queued,
     Threads, Next
<1> QED
  BY <1>1, <1>2, TypesHold, ProtocolHolds, TasksHold, PTL DEF Spec

\* A handler always executes a task in the context of the task's bank: a session's
\* tasks are behind the message that takes a handler to that session.
THEOREM HandlersMeetTheBank == Spec => []TasksMeetTheirBank
<1>1. ContextOK => TasksMeetTheirBank
  BY DEF ContextOK
<1> QED
  BY <1>1, ContextsHold, PTL

(* ------------------------------ the verdict ----------------------------- *)

\* What the steps of the owner and of the lock holder do to the results they pass
\* on: an Ok comes from the result of a session that has ended, and a bank with a
\* verdict Ok has no scheduler any more.
LEMMA QuietResults ==
    ASSUME Typed, Protocol, bank.verdict = Ok => bank.status = "unavailable",
           \/ ScheduleStale \/ RetrieveError \/ Pause \/ Terminate \/ TimeoutListener
           \/ DropPooled \/ LockHolder
    PROVE  /\ manager'.result \in {manager.result, scheduler.result, NoResult}
           /\ bank'.stale \in {bank.stale, manager.result}
           /\ bank'.verdict \in {bank.verdict, bank.stale, manager.result}
           /\ InSession' => InSession
           /\ bank'.status = "active" => bank.status = "active"
           /\ bank'.status = "active" /\ manager'.result = Ok =>
                 \/ manager.result = Ok
                 \/ Panicked
                 \/ scheduler.at = "between" /\ InSession /\ new_tasks = <<>>
           /\ bank'.status = "stale" /\ bank'.stale = Ok =>
                 \/ bank.status = "stale" /\ bank.stale = Ok
                 \/ bank.status = "active" /\ manager.result = Ok
           /\ bank'.verdict = Ok =>
                 /\ bank'.status = "unavailable"
                 /\ \/ bank.verdict = Ok
                    \/ bank.status = "stale" /\ bank.stale = Ok
                    \/ bank.status = "active" /\ manager.result = Ok
<1>0. /\ bank \in BankType /\ op \in OpType /\ manager \in ManagerType /\ scheduler \in SchedulerType
      /\ results \in Seq(Result) /\ scheduler.result \in Int /\ manager.result \in Int /\ bank.stale \in Int
  BY ProtocolTypes
<1>1. CASE UNCHANGED <<bank, manager>>
  BY <1>1, Zenon DEF InSession
<1>2. CASE ScheduleStale \/ Pause \/ EndSession \/ JoinPanicked
  BY <1>1, <1>2, Zenon DEF ScheduleStale, Pause, EndSession, JoinPanicked
<1>3. CASE TimeoutListener
  BY <1>0, <1>3, Zenon DEF TimeoutListener, BankType, InSession
<1>4. CASE DropPooled
  BY <1>0, <1>4, Zenon DEF DropPooled, ManagerType, Protocol, OwnerOK, InSession
<1>5. CASE RetrieveError
  BY <1>1, <1>5, <1>0 DEF RetrieveError, BankType, Protocol, OwnerOK, Ok, InSession
<1>6. CASE Terminate
  BY <1>1, <1>6, <1>0, Zenon DEF Terminate, BankType, Protocol, OwnerOK, InSession
<1>7. CASE ReceiveResult
  BY <1>0, <1>7, SMTT(30) DEF ReceiveResult, ManagerType, Protocol, ManagerOK, OpOK,
     InSession, InSessionOK, AtEndOK, AbortedOK, BetweenOK, Answered, Taken, Pooled,
     Opening, Dropping, SchedulerType, Places, Dropped, Failing, Ok
<1>8. CASE JoinThreads
  BY <1>0, <1>8, SMTT(30) DEF JoinThreads, ManagerType, Protocol, ManagerOK, Panicked, OpOK,
     InSession, AbortedOK, Dropped, Failing, Ok
<1>9. CASE Return
  BY <1>9, <1>0, <1>1 DEF Return, Returned, BankType, ManagerType, Protocol, OpOK,
     InSession, JoinedOK, Ok
<1> QED
  BY <1>2, <1>3, <1>4, <1>5, <1>6, <1>7, <1>8, <1>9, Zenon DEF LockHolder

\* The tasks sent for the bank in replay: none for a new bank, one more with each
\* send.
LEMMA SentFacts ==
    ASSUME Typed, Typed'
    PROVE  /\ Sent \subseteq Tasks
           /\ bank'.slot = bank.slot /\ bank'.sent = bank.sent => Sent' = Sent /\ Last' = Last
           /\ bank'.slot = bank.slot /\ Last' = Last + 1 => Sent \subseteq Sent' /\ Sent' \subseteq Sent \cup {Last'}
           /\ bank'.sent = 0 => Sent' = {}
<1>1. Sent \subseteq Tasks
  BY DEF Sent, TasksOf, Tasks
<1>2. bank'.slot = bank.slot /\ bank'.sent = bank.sent => Sent' = Sent /\ Last' = Last
  BY DEF Sent, Last
<1>3. ASSUME bank'.slot = bank.slot, Last' = Last + 1
      PROVE  Sent \subseteq Sent' /\ Sent' \subseteq Sent \cup {Last'}
  <2>1. bank.slot \in Int /\ bank.sent \in Int /\ TasksPerBank \in Int /\ Tasks \subseteq Int
    BY SessionsAssumption DEF Typed, TypeOK, BankType, Tasks
  <2>2. Last \in Int
    BY <2>1 DEF Last
  <2>3. \A t \in Tasks : t <= Last' <=> t <= Last \/ t = Last'
    BY <1>3, <2>1, <2>2
  <2>4. \A b : TasksOf(b) \subseteq Tasks
    BY DEF TasksOf, Tasks
  <2> QED
    BY <1>3, <2>3, <2>4, Zenon DEF Sent
<1>4. ASSUME bank'.sent = 0 PROVE Sent' = {}
  <2>1. PICK b : b = bank'.slot
    BY Zenon
  <2>2. b \in 0 .. Banks /\ Banks \in Nat /\ TasksPerBank \in Nat /\ TasksPerBank > 0 /\ b \in Int
    BY <2>1, SessionsAssumption DEF Typed, TypeOK, BankType
  <2>3. ASSUME NEW t \in Tasks, BankOf(t) = b PROVE ~(t <= (b - 1) * TasksPerBank)
    BY <2>2, <2>3 DEF Tasks, BankOf
  <2>4. Last' = (b - 1) * TasksPerBank
    BY <2>2, <1>4, <2>1 DEF Last
  <2>5. \A t \in Sent' : t \in Tasks /\ BankOf(t) = b /\ t <= Last'
    BY <2>1, Zenon DEF Sent, TasksOf, Tasks
  <2> QED
    BY <2>3, <2>4, <2>5, Zenon
<1> QED
  BY <1>1, <1>2, <1>3, <1>4, Zenon

VerdictOK == ErrorsOK /\ SuccessOK

\* No step makes up an error: the results are those there were, as long as the task
\* that failed stays on record.
LEMMA ErrorsKept ==
    ASSUME ErrorsOK,
           \A r \in Sent : executed[r] = "err" => r \in Sent' /\ executed'[r] = "err",
           scheduler'.result \in {scheduler.result, Ok, NoResult},
           manager'.result \in {manager.result, scheduler.result, NoResult},
           bank'.stale \in {bank.stale, manager.result, NoResult},
           bank'.verdict \in {bank.verdict, bank.stale, manager.result, NoResult}
    PROVE  ErrorsOK'
BY DEF Blames, Ok, NoResult, ErrorsOK

\* The scheduler thread and its handlers do not lose a task of the bank.
LEMMA SuccessKept ==
    ASSUME SuccessOK, UNCHANGED <<bank, manager>>,
           ~Panicked' => ~Panicked,
           \A t \in Sent : executed[t] = "ok" => executed'[t] = "ok",
           scheduler'.at \in {"session", "finished", "between"} =>
              /\ scheduler.at \in {"session", "finished", "between"}
              /\ \A t \in Sent : Queued(t) => Queued(t)' \/ t \in Active'
              /\ \A t \in Sent : t \in Active => t \in Active' \/ executed'[t] = "ok"
    PROVE  SuccessOK'
BY DEF Sent, Last, InSession, AllOk, SuccessOK

\* The results that the owner and the lock holder pass on are the bank's.
LEMMA VerdictQuiet ==
    ASSUME Typed, Typed', Protocol, TasksOK, VerdictOK,
           \/ ScheduleStale \/ RetrieveError \/ Pause \/ Terminate \/ TimeoutListener
           \/ DropPooled \/ LockHolder
    PROVE  VerdictOK'
<1>1. /\ UNCHANGED <<threads, executed>>
      /\ bank'.slot = bank.slot /\ bank'.sent = bank.sent /\ \A t : Queued(t)' <=> Queued(t)
  BY QuietEffect, Zenon
<1>2. UNCHANGED <<scheduler, waiting, ready, running, handlers>>
  BY <1>1, Zenon DEF threads, machine
<1>3. (Panicked' <=> Panicked) /\ Active' = Active /\ Sent' = Sent /\ (AllOk' <=> AllOk)
  BY <1>1, <1>2, SentFacts, Zenon DEF Panicked, Active, AllOk
<1>4. ErrorsOK'
  <2>1. ErrorsOK /\ (bank.verdict = Ok => bank.status = "unavailable")
    BY Zenon DEF VerdictOK, SuccessOK
  <2>2. /\ manager'.result \in {manager.result, scheduler.result, NoResult}
        /\ bank'.stale \in {bank.stale, manager.result}
        /\ bank'.verdict \in {bank.verdict, bank.stale, manager.result}
    BY <2>1, QuietResults, Zenon
  <2> QED
    BY <1>1, <1>2, <1>3, <2>1, <2>2, ErrorsKept, Zenon
<1>5. ASSUME scheduler.at = "between", InSession, new_tasks = <<>> PROVE AllOk
  <2>1. (\A t : ~Queued(t)) /\ Active = {}
    BY <1>5 DEF Queued, Holds, TasksOK, FinishedOK
  <2> QED
    BY <1>5, <2>1, Zenon DEF VerdictOK, SuccessOK, AllOk
<1>6. SuccessOK'
  BY <1>1, <1>2, <1>3, <1>5, QuietResults, Zenon DEF VerdictOK, SuccessOK
<1> QED
  BY <1>4, <1>6, Zenon DEF VerdictOK

\* A task is accepted only into a session whose result is still open.
LEMMA VerdictSend ==
    ASSUME Typed, Typed', Protocol, VerdictOK, Schedule \/ ScheduleResumed
    PROVE  VerdictOK'
<1>1. /\ UNCHANGED <<manager, threads, executed>>
      /\ bank'.slot = bank.slot /\ bank'.status = bank.status /\ bank'.stale = bank.stale
      /\ bank'.verdict = bank.verdict
      /\ \/ Last' = Last + 1 /\ \A t : Queued(t)' <=> Queued(t) \/ t = Last + 1
         \/ bank'.sent = bank.sent /\ UNCHANGED new_tasks
  BY SendEffect, Zenon
<1>2. UNCHANGED <<scheduler, waiting, ready, running, handlers>>
  BY <1>1, Zenon DEF threads, machine
<1>3. (Panicked' <=> Panicked) /\ Active' = Active /\ (InSession' <=> InSession)
  BY <1>1, <1>2, Zenon DEF Panicked, Active, InSession
<1>4. bank.status = "active" /\ manager.result # Ok
  BY DEF Schedule, ScheduleResumed, Unlocked, NoOp, Protocol, OwnerOK, InSession, NoResult,
     Ok
<1>5. /\ Sent \subseteq Sent'
      /\ \A t \in Sent' : t \in Sent \/ Queued(t)'
      /\ \A t : Queued(t) => Queued(t)'
  <2>1. CASE bank'.sent = bank.sent /\ UNCHANGED new_tasks
    BY <1>1, <2>1, SentFacts, Zenon DEF Queued
  <2>2. CASE Last' = Last + 1 /\ \A t : Queued(t)' <=> Queued(t) \/ t = Last + 1
    <3>1. Sent \subseteq Sent' /\ Sent' \subseteq Sent \cup {Last'}
      BY <1>1, <2>2, SentFacts, Zenon
    <3> QED
      BY <2>2, <3>1, Zenon
  <2> QED
    BY <1>1, <2>1, <2>2, Zenon
<1>6. ErrorsOK'
  <2>1. ErrorsOK /\ \A r \in Sent : executed[r] = "err" => r \in Sent' /\ executed'[r] = "err"
    BY <1>1, <1>5, Zenon DEF VerdictOK
  <2> QED
    BY <1>1, <1>2, <2>1, ErrorsKept, Zenon
<1>7. SuccessOK'
  BY <1>1, <1>2, <1>3, <1>4, <1>5, Zenon DEF VerdictOK, SuccessOK
<1> QED
  BY <1>6, <1>7, Zenon DEF VerdictOK

\* A bank that is resumed had succeeded so far, and a new one has no tasks.
LEMMA VerdictTake ==
    ASSUME Typed, Typed', Protocol, TasksOK, PanicOK, VerdictOK, InstallScheduler \/ Resume
    PROVE  VerdictOK'
<1>0. /\ bank \in BankType /\ manager \in ManagerType
  BY ProtocolTypes, Zenon
<1>1. /\ FromInner(bank'.slot, Ok) \/ Spawn(bank'.slot, Ok)
      /\ bank'.status = "active" /\ bank.status # "active" /\ op.at = "none"
  BY TakeEffect, Zenon
<1>2. \/ /\ executed' = executed /\ bank'.slot = bank.slot /\ bank'.sent = bank.sent
         /\ bank'.verdict = bank.verdict
         /\ bank.status = "stale" /\ bank.stale = Ok /\ bank'.stale = NoResult
      \/ bank'.sent = 0 /\ bank'.stale = NoResult /\ bank'.verdict = NoResult
  BY TakeEffect, Zenon
<1>3. /\ manager'.result = NoResult
      /\ scheduler'.result = Ok
      /\ scheduler'.at \in {"session", "finished", "between"} => ~Panicked
  BY <1>0, <1>1, SpawnEffect, SMTT(30) DEF FromInner, ManagerType, threads, Protocol,
     ManagerOK, InSessionOK, InSession, PanicOK, Spawn, JoinedOK, Panicked, Threads
<1>4. NoResult # Ok /\ ~(NoResult > Ok) /\ ~(Ok > Ok)
  BY DEF NoResult, Ok
<1>5. CASE bank'.sent = 0 /\ bank'.stale = NoResult /\ bank'.verdict = NoResult
  BY <1>5, SentFacts, <1>3, <1>4, <1>1, Zenon DEF ErrorsOK, Blames, SuccessOK, VerdictOK
<1>6. CASE /\ executed' = executed /\ bank'.slot = bank.slot /\ bank'.sent = bank.sent
           /\ bank'.verdict = bank.verdict
           /\ bank.status = "stale" /\ bank.stale = Ok /\ bank'.stale = NoResult
  BY <1>6, SentFacts, <1>3, ErrorsKept, <1>1, <1>4, Zenon DEF VerdictOK, SuccessOK, AllOk
<1> QED
  BY <1>2, <1>5, <1>6, Zenon

\* The result of a stale bank stays when its scheduler is taken by another fork.
LEMMA VerdictElsewhere ==
    ASSUME Typed, Typed', PanicOK, VerdictOK, TakenElsewhere
    PROVE  VerdictOK'
BY SentFacts, ErrorsKept, Zenon DEF TakenElsewhere, Typed, TypeOK, ManagerType, VerdictOK,
   PanicOK, SuccessOK, AllOk

\* The scheduler thread blames the task of the bank that failed, and keeps every
\* other one until it succeeded.
LEMMA VerdictScheduler ==
    ASSUME Typed, Typed', Protocol, TasksOK, ContextOK, VerdictOK, SchedulerThread
    PROVE  VerdictOK'
<1>0. ErrorsOK /\ SuccessOK
  BY Zenon DEF VerdictOK
<1>e. ASSUME UNCHANGED <<bank, manager, executed>>, scheduler'.result \in {scheduler.result, Ok}
      PROVE  ErrorsOK'
  BY <1>e, SentFacts, <1>0, ErrorsKept, Zenon
<1>1. ASSUME NEW f \in finished, ReceiveFinished(f) PROVE VerdictOK'
  <2>1. /\ scheduler.at = "session" /\ UNCHANGED <<bank, manager, new_tasks, handlers, executed>>
        /\ f.task \in running /\ executed[f.task] = f.outcome
    BY <1>1, FinishedEffect, Zenon
  <2>2. \A t : Queued(t)' <=> Queued(t)
    BY <2>1, Zenon DEF Queued
  <2>3. Panicked' <=> Panicked
    BY <2>1, PanickedKept, Zenon
  <2>4. CASE f.outcome = "panicked" /\ scheduler'.at = "aborted" /\ scheduler'.result = scheduler.result
    BY <1>e, <2>1, <2>4, <1>0, <2>3, SuccessKept, Zenon DEF VerdictOK
  <2>5. CASE f.outcome = "err" /\ scheduler'.at = "aborted" /\ scheduler'.result = f.task
    BY <2>1, SentFacts, <2>5, <1>0, <2>3, SuccessKept, Zenon DEF Active, Typed, TypeOK,
       ContextOK, TasksOK, BoundedOK, Sent, TasksOf, Tasks, Blames, ErrorsOK, VerdictOK
  <2>6. CASE /\ f.outcome = "ok" /\ scheduler'.result = scheduler.result
             /\ Active' = Active \ {f.task}
    BY <1>e, <2>1, <2>6, <1>0, <2>2, <2>3, SuccessKept, Zenon DEF VerdictOK
  <2> QED
    BY <1>1, <2>4, <2>5, <2>6, FinishedEffect, Zenon
<1>2. ASSUME NEW t \in ready, DispatchUnblocked(t) PROVE VerdictOK'
  BY <1>2, PostEffect, <1>e, <1>0, SuccessKept, Zenon DEF Typed, TypeOK, Active, Queued,
     Panicked, VerdictOK
<1>3. CASE \/ ReceiveNew /\ Head(new_tasks).kind = "close"
           \/ ReceiveOpen /\ Head(new_tasks).kind = "disconnect"
           \/ FinishSession \/ Abort \/ DropReceiver \/ ExitScheduler
  BY <1>3, TurnEffect, <1>e, <1>0, SuccessKept, Zenon DEF Active, Panicked, VerdictOK
<1>4. CASE ReceiveNew /\ Head(new_tasks).kind = "payload"
  BY <1>4, ArriveEffect, PanickedKept, <1>e, <1>0, SuccessKept, Zenon DEF VerdictOK
<1>5. CASE ReceiveOpen /\ Head(new_tasks).kind = "open"
  <2>1. /\ scheduler.at = "between" /\ scheduler'.result = Head(new_tasks).result
        /\ \A u : Queued(u)' <=> Queued(u)
        /\ UNCHANGED <<bank, manager, waiting, ready, running, handlers, executed>>
    BY <1>5, OpenEffect, Zenon
  <2>2. scheduler'.result = Ok
    BY <1>5, <2>1 DEF ReceiveOpen, Protocol, BetweenOK, Answered, Taken, Pooled, Dropping,
       Opening
  <2>3. Active' = Active /\ (Panicked' <=> Panicked)
    BY <2>1, Zenon DEF Active, Panicked
  <2>4. ErrorsOK'
    BY <1>e, <2>1, <2>2, Zenon
  <2>5. SuccessOK'
    BY <2>1, <1>0, <2>3, SuccessKept, Zenon
  <2> QED
    BY <2>4, <2>5, Zenon DEF VerdictOK
<1>6. /\ ReceiveNew => Head(new_tasks).kind \in {"payload", "close"}
      /\ ReceiveOpen => Head(new_tasks).kind \in {"open", "disconnect"}
  BY DEF ReceiveNew, ReceiveOpen
<1> QED
  BY <1>1, <1>2, <1>3, <1>4, <1>5, <1>6, Zenon DEF SchedulerThread

\* A handler executes a task that has not been executed, and that the state
\* machine waits for.
LEMMA VerdictHandler ==
    ASSUME Typed, Typed', TasksOK, VerdictOK, NEW h \in Threads, Handler(h)
    PROVE  VerdictOK'
<1>0. ErrorsOK /\ SuccessOK
  BY Zenon DEF VerdictOK
<1>f. ASSUME UNCHANGED <<bank, manager, new_tasks, scheduler, waiting, ready, running>>,
             \A r \in Tasks : executed[r] # "no" => executed'[r] = executed[r],
             ~Panicked' => ~Panicked
      PROVE  VerdictOK'
  BY <1>f, SentFacts, <1>0, ErrorsKept, SuccessKept, Zenon DEF Active, Queued, VerdictOK
<1>1. CASE ReceivePayload(h) \/ (\E t \in running : ReceiveAux(h, t)) \/ ExitHandler(h)
  BY PayloadEffect, AuxEffect, ExitEffect, <1>1, <1>f, Zenon DEF Panicked, Threads,
     ReceivePayload, ReceiveAux, ExitHandler, machine
<1>2. CASE \E outcome \in {"ok", "err", "panicked"} : Execute(h, outcome)
  <2>0. PICK outcome \in Outcomes : Execute(h, outcome)
    BY <1>2 DEF Outcomes
  <2>1. PICK t : t = handlers[h].task
    BY Zenon
  <2>2. /\ t \in Tasks /\ handlers[h].at = "loop"
        /\ \A u \in Tasks : u # t => executed'[u] = executed[u]
        /\ \A g \in Threads : g # h => handlers'[g] = handlers[g]
    BY <2>0, <2>1, ExecuteEffect
  <2>3. executed[t] = "no"
    BY <2>1, <2>2, Zenon DEF TasksOK, PlacesOK
  <2>4. \A r \in Tasks : executed[r] # "no" => executed'[r] = executed[r]
    BY <2>2, <2>3, Zenon
  <2>5. Panicked => Panicked'
    BY <2>2 DEF Panicked, Threads
  <2>6. UNCHANGED <<bank, manager, new_tasks, scheduler, waiting, ready, running>>
    BY <2>0 DEF Execute, machine
  <2> QED
    BY <1>f, <2>4, <2>5, <2>6, Zenon
<1> QED
  BY <1>1, <1>2, Zenon DEF Handler

\* The results on their way to the owner are about the bank in replay.
THEOREM VerdictsHold == Spec => []VerdictOK
<1>1. Init => VerdictOK
  BY DEF Init, NoResult, Ok, ErrorsOK, Blames, SuccessOK, VerdictOK
<1>2. /\ Typed /\ Typed' /\ Protocol /\ TasksOK /\ PanicOK /\ ContextOK /\ VerdictOK /\ [Next]_vars
      => VerdictOK'
  BY SuccessKept, VerdictHandler, VerdictQuiet, VerdictSend, VerdictTake, VerdictElsewhere,
     VerdictScheduler, Zenon DEF vars, threads, machine, Sent, Last, Active, InSession,
     Panicked, Queued, VerdictOK, ErrorsOK, Blames, Threads, Next, Owner
<1> QED
  BY <1>1, <1>2, TypesHold, ProtocolHolds, TasksHold, PanicsAreHeard, ContextsHold, PTL DEF Spec

\* The result the owner gets is about the bank: an error is the one of a task of
\* the bank that failed, and Ok means that every task accepted for it succeeded.
THEOREM VerdictIsAboutTheBank == Spec => []VerdictCoversBank
<1>1. VerdictOK => VerdictCoversBank
  BY Zenon DEF VerdictOK, ErrorsOK, SuccessOK, Blames, AllOk, VerdictCoversBank, Sent, Last
<1> QED
  BY <1>1, VerdictsHold, PTL


(* -------------------------- the channels behind ------------------------- *)

\* The handlers that have not left channel c yet.
Behind(c) == {h \in 1 .. Handlers : handlers[h].channel <= c /\ handlers[h].at = "loop"}

CountOK ==
    ~Panicked => \A c \in 1 .. Len(channels) - 1 : Len(channels[c].payloads) = Cardinality(Behind(c))

SwitchOK == CountOK /\ ThreadsOK

\* The handlers behind are finitely many.
LEMMA BehindFinite == \A c : IsFiniteSet(Behind(c)) /\ IsFiniteSet(Behind(c)')
<1>1. Handlers \in Int
  BY SessionsAssumption
<1>2. IsFiniteSet(1 .. Handlers)
  BY <1>1, FS_Interval
<1>3. \A c : Behind(c) \in SUBSET (1 .. Handlers) /\ Behind(c)' \in SUBSET (1 .. Handlers)
  BY DEF Behind
<1> QED
  BY <1>2, <1>3, FS_Subset, Zenon

\* A step that leaves the channels behind, and who is in them, alone.
LEMMA CountKept ==
    ASSUME CountOK, Len(channels') = Len(channels), ~Panicked' => ~Panicked,
           ~Panicked' => \A c \in 1 .. Len(channels) - 1 : channels'[c] = channels[c] /\ Behind(c)' = Behind(c)
    PROVE  CountOK'
BY Zenon DEF CountOK

\* The steps in which no handler takes part.
LEMMA SwitchOthers ==
    ASSUME Typed, Typed', Protocol, TasksOK, SwitchOK,
           \/ Owner \/ TimeoutListener \/ DropPooled \/ TakenElsewhere \/ LockHolder
           \/ SchedulerThread \/ UNCHANGED vars
    PROVE  SwitchOK'
<1>0. CountOK /\ ThreadsOK /\ Len(channels) \in Nat
  BY DEF SwitchOK, Typed, TypeOK
<1>1. ASSUME handlers' = handlers, Len(channels') = Len(channels),
             \A c \in 1 .. Len(channels) - 1 : channels'[c] = channels[c],
             scheduler'.at # "exited" => scheduler.at # "exited"
      PROVE  SwitchOK'
  BY <1>1, <1>0, CountKept, Zenon DEF Panicked, Behind, ThreadsOK, SwitchOK
<1>2. CASE UNCHANGED threads
  BY <1>2, <1>1, Zenon DEF threads
<1>3. CASE \/ ScheduleStale \/ RetrieveError \/ Pause \/ Terminate \/ TimeoutListener
           \/ DropPooled \/ LockHolder
  BY <1>2, <1>3, QuietEffect, Zenon
<1>4. CASE Schedule \/ ScheduleResumed
  BY <1>4, SendEffect, <1>2, Zenon
<1>5. CASE InstallScheduler \/ Resume
  <2>1. FromInner(bank'.slot, Ok) \/ Spawn(bank'.slot, Ok)
    BY <1>5, TakeEffect, Zenon
  <2>2. CASE FromInner(bank'.slot, Ok)
    BY <1>2, <2>2, Zenon DEF FromInner
  <2>3. CASE Spawn(bank'.slot, Ok)
    <3>1. PICK b : b = bank'.slot
      BY Zenon
    <3>2. Spawn(b, Ok)
      BY <2>3, <3>1, Zenon
    <3>3. Len(channels') = 1 /\ \A h \in Threads : handlers'[h].at = "loop"
      BY <3>2, SpawnEffect, Zenon
    <3> QED
      BY <3>3 DEF SwitchOK, CountOK, ThreadsOK
  <2> QED
    BY <2>1, <2>2, <2>3, Zenon
<1>6. CASE TakenElsewhere
  BY <1>6 DEF TakenElsewhere, SwitchOK, CountOK, ThreadsOK
<1>7. CASE SchedulerThread
  <2>1. ASSUME NEW f \in finished, ReceiveFinished(f) PROVE SwitchOK'
    BY <2>1, FinishedEffect, <1>1, Zenon
  <2>2. ASSUME NEW t \in ready, DispatchUnblocked(t) PROVE SwitchOK'
    BY <2>2, PostEffect, <1>1, Zenon DEF Typed, TypeOK
  <2>3. CASE \/ ReceiveNew /\ Head(new_tasks).kind = "close"
             \/ ReceiveOpen /\ Head(new_tasks).kind = "disconnect"
             \/ FinishSession \/ Abort \/ DropReceiver \/ ExitScheduler
    BY <2>3, TurnEffect, <1>1, Zenon
  <2>4. CASE ReceiveNew /\ Head(new_tasks).kind = "payload"
    BY <2>4, ArriveEffect, <1>1, Zenon
  <2>5. CASE ReceiveOpen /\ Head(new_tasks).kind = "open"
    <3>1. /\ scheduler.at = "between" /\ handlers' = handlers
          /\ Len(channels') = Len(channels) + 1
          /\ \A d \in 1 .. Len(channels) - 1 : channels'[d] = channels[d]
          /\ DOMAIN channels'[Len(channels)].payloads = 1 .. Handlers
      BY <2>5, OpenEffect, Zenon
    <3>2. (Panicked' <=> Panicked) /\ \A c : Behind(c)' = Behind(c)
      BY <3>1, Zenon DEF Panicked, Behind
    <3>3. ThreadsOK'
      BY <1>0, <3>1, <3>2, Zenon DEF ThreadsOK
    <3>4. ASSUME ~Panicked, NEW c \in 1 .. Len(channels)
          PROVE  Len(channels'[c].payloads) = Cardinality(Behind(c))
      <4>1. CASE c # Len(channels)
        BY <1>0, <3>4, <4>1, <3>1 DEF CountOK
      <4>2. CASE c = Len(channels)
        <5>1. \A h \in 1 .. Handlers : handlers[h].at = "loop" /\ handlers[h].channel <= c
          BY <1>0, <3>1, <3>4, <4>2 DEF ThreadsOK, Typed, ChannelsOK, Threads
        <5>2. Behind(c) = 1 .. Handlers
          BY <5>1, Zenon DEF Behind
        <5>3. Handlers \in Nat /\ Handlers > 0
          BY SessionsAssumption
        <5>4. Cardinality(1 .. Handlers) = Handlers
          BY <5>3, FS_Interval
        <5>5. channels'[c].payloads \in Seq(PayloadType)
          <6>1. channels' \in Seq(ChannelType) /\ c \in 1 .. Len(channels')
            BY <1>0, <3>1 DEF Typed, TypeOK
          <6>2. channels'[c] \in ChannelType
            BY <6>1
          <6> QED
            BY <6>2, Zenon DEF ChannelType
        <5>6. Len(channels'[c].payloads) = Handlers
          BY <3>1, <4>2, <5>5, <5>3
        <5> QED
          BY <5>2, <5>4, <5>6, Zenon
      <4> QED
        BY <4>1, <4>2, Zenon
    <3>5. CountOK'
      BY <1>0, <3>1, <3>2, <3>4 DEF CountOK
    <3> QED
      BY <3>3, <3>5, Zenon DEF SwitchOK
  <2>6. /\ ReceiveNew => Head(new_tasks).kind \in {"payload", "close"}
        /\ ReceiveOpen => Head(new_tasks).kind \in {"open", "disconnect"}
    BY DEF ReceiveNew, ReceiveOpen
  <2> QED
    BY <1>7, <2>1, <2>2, <2>3, <2>4, <2>5, <2>6, Zenon DEF SchedulerThread
<1>8. CASE UNCHANGED vars
  BY <1>2, <1>8, Zenon DEF vars
<1> QED
  BY <1>3, <1>4, <1>5, <1>6, <1>7, <1>8, Zenon DEF Owner

\* The handlers' steps: who leaves a channel takes one message from it, and nobody
\* finds a channel left behind empty.
LEMMA SwitchHandler ==
    ASSUME Typed, Typed', TasksOK, SwitchOK, NEW h \in Threads, Handler(h)
    PROVE  SwitchOK'
<1>0. /\ CountOK /\ ThreadsOK /\ Len(channels) \in Nat
      /\ h \in 1 .. Handlers
      /\ \A g \in 1 .. Handlers : handlers[g].channel \in Nat /\ handlers'[g].channel \in Nat
  <2>1. handlers \in [Threads -> HandlerType] /\ handlers' \in [Threads -> HandlerType]
    BY DEF Typed, TypeOK
  <2>2. \A g \in Threads : handlers[g] \in HandlerType /\ handlers'[g] \in HandlerType
    BY <2>1, Zenon
  <2>3. \A r \in HandlerType : r.channel \in Nat
    BY Zenon DEF HandlerType
  <2> QED
    BY <2>2, <2>3 DEF SwitchOK, Typed, TypeOK, Threads
<1>s. ASSUME \A g \in Threads : g # h => handlers'[g] = handlers[g],
             handlers[h].channel = Len(channels), handlers'[h].channel = Len(channels)
      PROVE  \A c \in 1 .. Len(channels) - 1 : Behind(c)' = Behind(c)
  BY <1>0, <1>s DEF Threads, Behind
<1>1. CASE ReceivePayload(h)
  <2>1. /\ UNCHANGED scheduler
        /\ Len(channels') = Len(channels)
        /\ \A g \in Threads : g # h => handlers'[g] = handlers[g]
        /\ handlers[h].at = "loop" /\ handlers'[h].at = "loop"
    BY <1>1, PayloadEffect, Zenon
  <2>2. Panicked' <=> Panicked
    BY <2>1, Zenon DEF Panicked, Threads
  <2>3. ThreadsOK'
    BY <1>0, <2>1, <2>2, Zenon DEF ThreadsOK
  <2>4. CASE /\ handlers[h].channel = Len(channels) /\ handlers'[h].channel = Len(channels)
             /\ \A d \in 1 .. Len(channels) - 1 : channels'[d] = channels[d]
    BY <1>s, <2>1, <2>4, <1>0, <2>2, CountKept, <2>3, Zenon DEF SwitchOK
  <2>5. CASE /\ handlers[h].channel \in 1 .. Len(channels) - 1
             /\ handlers'[h].channel = handlers[h].channel + 1
    <3>1. PICK c : c = handlers[h].channel
      BY Zenon
    <3>2. Len(channels'[c].payloads) = Len(channels[c].payloads) - 1
      BY <1>1, <3>1, ReceivePayloadEffect, Zenon
    <3>3. \A d \in 1 .. Len(channels) : d # c => channels'[d] = channels[d]
      BY <1>1, <3>1, ReceivePayloadEffect
    <3>4. ASSUME ~Panicked, NEW d \in 1 .. Len(channels) - 1
          PROVE  Len(channels'[d].payloads) = Cardinality(Behind(d)')
      <4>1. Len(channels[d].payloads) = Cardinality(Behind(d))
        BY <1>0, <3>4, Zenon DEF CountOK
      <4>2. CASE d = c
        <5>1. h \in Behind(c) /\ h \notin Behind(c)'
          BY <1>0, <2>1, <2>5, <3>1 DEF Behind
        <5>2. \A g \in 1 .. Handlers : g # h => (g \in Behind(c)' <=> g \in Behind(c))
          BY <2>1, Zenon DEF Behind, Threads
        <5>3. Behind(c)' = Behind(c) \ {h}
          BY <5>1, <5>2, Zenon DEF Behind
        <5>4. IsFiniteSet(Behind(c))
          BY BehindFinite, Zenon
        <5>5. Cardinality(Behind(c) \ {h}) = Cardinality(Behind(c)) - 1
          BY <5>1, <5>4, FS_RemoveElement, Zenon
        <5> QED
          BY <3>2, <4>1, <4>2, <5>3, <5>5, Zenon
      <4>3. CASE d # c
        <5>1. channels'[d] = channels[d]
          BY <1>0, <3>3, <3>4, <4>3
        <5>2. handlers'[h].channel <= d <=> handlers[h].channel <= d
          BY <1>0, <2>5, <3>1, <4>3
        <5>3. \A g \in 1 .. Handlers :
                 (handlers'[g].channel <= d /\ handlers'[g].at = "loop")
                 <=> (handlers[g].channel <= d /\ handlers[g].at = "loop")
          BY <2>1, <5>2, Zenon DEF Threads
        <5>4. Behind(d)' = Behind(d)
          BY <5>3, Zenon DEF Behind
        <5> QED
          BY <4>1, <5>1, <5>4, Zenon
      <4> QED
        BY <4>2, <4>3, Zenon
    <3>5. CountOK'
      BY <2>1, <2>2, <3>4, Zenon DEF CountOK
    <3> QED
      BY <2>3, <3>5, Zenon DEF SwitchOK
  <2> QED
    BY <1>1, <2>4, <2>5, PayloadEffect, Zenon
<1>2. CASE \E t \in running : ReceiveAux(h, t)
  BY <1>2, AuxEffect, <1>0, <1>s, CountKept, Zenon DEF Panicked, Threads, ThreadsOK,
     SwitchOK
<1>3. CASE \E outcome \in {"ok", "err", "panicked"} : Execute(h, outcome)
  <2>0. PICK outcome \in Outcomes : Execute(h, outcome)
    BY <1>3 DEF Outcomes
  <2>1. PICK t : t = handlers[h].task
    BY Zenon
  <2>2. /\ handlers[h].at = "loop" /\ t \in Tasks
        /\ \A g \in Threads : g # h => handlers'[g] = handlers[g]
        /\ handlers'[h].channel = handlers[h].channel
        /\ handlers'[h].at = IF outcome = "panicked" THEN "panicked"
                             ELSE IF scheduler.at = "exited" THEN "exited" ELSE "loop"
    BY <2>0, <2>1, ExecuteEffect, Zenon
  <2>3. UNCHANGED <<scheduler, channels>>
    BY <2>0, Zenon DEF Execute
  <2>4. handlers[h].channel = Len(channels)
    BY <2>1, <2>2, Zenon DEF TasksOK, PlacesOK
  <2>5. Panicked => Panicked'
    BY <2>2, Zenon DEF Panicked, Threads
  <2>6. \A c \in 1 .. Len(channels) - 1 : Behind(c)' = Behind(c)
    BY <1>s, <2>2, <2>4, Zenon
  <2>7. CountOK'
    BY <1>0, <2>3, <2>5, <2>6, CountKept, Zenon
  <2>8. ThreadsOK'
    BY <1>0, <2>2, <2>3, <2>5, Zenon DEF ThreadsOK, Panicked, Threads
  <2> QED
    BY <2>7, <2>8, Zenon DEF SwitchOK
<1>4. CASE ExitHandler(h)
  <2>1. /\ \A g \in Threads : g # h => handlers'[g] = handlers[g]
        /\ handlers[h].at = "loop" /\ handlers'[h].channel = handlers[h].channel
        /\ handlers[h].channel \in 1 .. Len(channels)
    BY <1>4, ExitEffect, Zenon
  <2>2. /\ UNCHANGED <<scheduler, channels>>
        /\ channels[handlers[h].channel].payloads = <<>>
        /\ handlers[h].channel < Len(channels) \/ scheduler.at = "exited"
    BY <1>4, Zenon DEF ExitHandler
  <2>3. Panicked => Panicked'
    BY <2>1, Zenon DEF Panicked, Threads
  <2>4. ASSUME ~Panicked PROVE handlers[h].channel = Len(channels)
    <3>1. SUFFICES ASSUME handlers[h].channel \in 1 .. Len(channels) - 1 PROVE FALSE
      BY <1>0, <2>1
    <3>2. PICK c : c = handlers[h].channel
      BY Zenon
    <3>3. Cardinality(Behind(c)) = 0
      BY <1>0, <2>4, <3>1, <3>2, <2>2, Zenon DEF CountOK
    <3>4. IsFiniteSet(Behind(c))
      BY BehindFinite, Zenon
    <3>5. Behind(c) = {}
      BY <3>3, <3>4, FS_EmptySet, Zenon
    <3>6. h \in Behind(c)
      BY <1>0, <2>1, <3>2 DEF Behind
    <3> QED
      BY <3>5, <3>6, Zenon
  <2>5. ~Panicked => \A c \in 1 .. Len(channels) - 1 : Behind(c)' = Behind(c)
    BY <1>s, <2>1, <2>4, Zenon
  <2>6. CountOK'
    BY <1>0, <2>2, <2>3, <2>5, CountKept, Zenon
  <2>7. ~Panicked => scheduler.at = "exited"
    BY <1>0, <2>2, <2>4
  <2>8. ThreadsOK'
    BY <2>2, <2>3, <2>7, Zenon DEF ThreadsOK
  <2> QED
    BY <2>6, <2>8, Zenon DEF SwitchOK
<1> QED
  BY <1>1, <1>2, <1>3, <1>4, Zenon DEF Handler

\* Each channel left behind holds as many messages as there are handlers to read
\* them, and the handlers stay as long as the scheduler thread does.
THEOREM SwitchesHold == Spec => []SwitchOK
<1>1. Init => SwitchOK
  BY DEF Init, SwitchOK, CountOK, ThreadsOK
<1>2. Typed /\ Typed' /\ Protocol /\ TasksOK /\ SwitchOK /\ [Next]_vars => SwitchOK'
  BY SwitchHandler, SwitchOthers, Zenon DEF Threads, Next
<1> QED
  BY <1>1, <1>2, TypesHold, ProtocolHolds, TasksHold, PTL DEF Spec

\* A channel left behind holds one message for each handler that has not passed it
\* yet, and no task: no handler is left in an old session.
THEOREM NoHandlerIsLeftBehind == Spec => []EveryHandlerSwitches
<1>1. ASSUME Typed, TasksOK, SwitchOK PROVE EveryHandlerSwitches
  <2>1. ASSUME ~Panicked, NEW c \in 1 .. Len(channels) - 1
        PROVE  /\ channels[c].aux = {}
               /\ \A m \in Range(channels[c].payloads) : m.kind = "chain"
               /\ Len(channels[c].payloads) = Cardinality(Behind(c))
    <3>1. NoTaskIn(c)
      BY <1>1, <2>1, Zenon DEF TasksOK, PlacesOK
    <3>2. channels[c].aux = {} /\ \A m \in Range(channels[c].payloads) : m.kind = "chain"
      BY <3>1, Zenon DEF NoTaskIn, Range
    <3>3. Len(channels[c].payloads) = Cardinality(Behind(c))
      BY <1>1, <2>1 DEF SwitchOK, CountOK
    <3> QED
      BY <3>2, <3>3, Zenon
  <2> QED
    BY <2>1, Zenon DEF EveryHandlerSwitches, Behind
<1> QED
  BY <1>1, TypesHold, TasksHold, SwitchesHold, PTL
=============================================================================
