----------------------- MODULE SchedulerSessionsProtocol -----------------------
(***************************************************************************)
(* How the threads of SchedulerSessions stand to each other, for any       *)
(* number of banks, tasks and handler threads, any transactions and any    *)
(* conflicts between them.                                                 *)
(*                                                                         *)
(* Protocol has a conjunct for each place of the scheduler thread, which   *)
(* says what the owner, the operation under the bank's lock, the manager   *)
(* and the queues can be there, and one for each of those.  That none of   *)
(* the assertions between the threads fails is read off it.                *)
(*                                                                         *)
(* The predicates about tasks, and the lemmas at the end that say what a   *)
(* step does to them, are used in SchedulerSessionsProofs.                 *)
(***************************************************************************)
EXTENDS SchedulerSessions, TLAPS

Tasks == 1 .. Banks * TasksPerBank
Result == {NoResult, Ok} \cup Tasks
Threads == 1 .. Handlers

(* -------------------------------- types --------------------------------- *)

BankType ==
    [slot : 0 .. Banks, status : {"unavailable", "active", "stale"}, stale : Result,
     armed : BOOLEAN, sent : 0 .. TasksPerBank, verdict : Result]
Owners == {"idle", "open", "resuming", "resumed", "failed", "dead", "paused"}
OpType ==
    [why : {"none", "recover", "pause", "terminate", "stale", "drop"},
     at : {"none", "end", "result", "join", "return"}, take : BOOLEAN]
ManagerType == [pooled : BOOLEAN, joined : BOOLEAN, result : Result]
MessageType ==
    [kind : {"open"}, bank : 0 .. Banks, result : Result]
    \cup [kind : {"payload"}, task : Tasks, transaction : Transactions]
    \cup [kind : {"close", "disconnect"}]
Places == {"session", "finished", "between", "aborted", "sent", "closed", "exited"}
SchedulerType == [at : Places, ending : BOOLEAN, result : Result]
PayloadType ==
    [kind : {"payload"}, task : Tasks] \cup [kind : {"chain"}, context : 0 .. Banks, to : Nat]
ChannelType == [payloads : Seq(PayloadType), aux : SUBSET Tasks]
HandlerType ==
    [at : {"loop", "exited", "panicked"}, channel : Nat, context : 0 .. Banks,
     task : {0} \cup Tasks]
Outcomes == {"ok", "err", "panicked"}

TypeOK ==
    /\ bank \in BankType
    /\ owner \in Owners
    /\ op \in OpType
    /\ manager \in ManagerType
    /\ new_tasks \in Seq(MessageType)
    /\ results \in Seq(Result)
    /\ scheduler \in SchedulerType
    /\ waiting \in SUBSET Tasks /\ ready \in SUBSET Tasks /\ running \in SUBSET Tasks
    /\ channels \in Seq(ChannelType)
    /\ handlers \in [Threads -> HandlerType]
    /\ finished \in SUBSET [task : Tasks, outcome : Outcomes]
    /\ executed \in [Tasks -> {"no"} \cup Outcomes]
    /\ crashed \in BOOLEAN
    /\ owner # "idle" => bank.slot > 0

(* --------------------------- where the tasks are ------------------------ *)

\* The last task accepted from the owner, and those of the bank in replay.
Last == (bank.slot - 1) * TasksPerBank + bank.sent
Sent == {t \in TasksOf(bank.slot) : t <= Last}

Active == waiting \cup ready \cup running

IsTask(m, t) == m.kind = "payload" /\ m.task = t
Holds(q, t) == \E i \in DOMAIN q : IsTask(q[i], t)
Once(q) == \A i, j \in DOMAIN q, t \in Tasks : IsTask(q[i], t) /\ IsTask(q[j], t) => i = j
Queued(t) == Holds(new_tasks, t)

\* What is in the channel that is in use.
Current == channels[Len(channels)]
Posted(t) == Holds(Current.payloads, t)
NoTaskIn(c) ==
    channels[c].aux = {} /\ \A i \in DOMAIN channels[c].payloads : channels[c].payloads[i].kind = "chain"
InChannel(t) == Len(channels) > 0 /\ (t \in Current.aux \/ Posted(t))

\* The sets of the state machine are apart.
MachineOK ==
    waiting \cap ready = {} /\ waiting \cap running = {} /\ ready \cap running = {}

\* No task is ahead of the owner.
BoundedOK ==
    /\ \A t \in Active : t <= Last
    /\ \A t \in Tasks : Queued(t) => t <= Last
    /\ \A t \in Tasks : executed[t] # "no" => t <= Last

\* A task is queued once, before the state machine has it; while it waits it has
\* not been executed.
QueueOK ==
    scheduler.at \in {"session", "finished", "between"} =>
        /\ Once(new_tasks)
        /\ \A t \in Tasks : Queued(t) => t \notin Active /\ executed[t] = "no"
        /\ \A t \in waiting \cup ready : executed[t] = "no"

\* A running task is on its way to a handler, with one handler, or finished; it
\* is in one place only, and the channel it is in is the last one.
PlacesOK ==
    /\ \A c \in 1 .. Len(channels) - 1 : NoTaskIn(c)
    /\ \A t \in Tasks : InChannel(t) => t \in running /\ executed[t] = "no"
    /\ \A h \in Threads, t \in Tasks : handlers[h].task = t =>
          /\ handlers[h].at = "loop" /\ handlers[h].channel = Len(channels)
          /\ t \in running /\ executed[t] = "no" /\ ~InChannel(t)
    /\ \A g, h \in Threads : handlers[g].task # 0 /\ handlers[g].task = handlers[h].task => g = h
    /\ Len(channels) > 0 =>
          /\ Once(Current.payloads)
          /\ \A t \in Tasks : Posted(t) => t \notin Current.aux

FinishedOK ==
    /\ scheduler.at = "session" =>
          \A f \in finished : f.task \in running /\ executed[f.task] = f.outcome
    /\ scheduler.at \in {"finished", "between"} => finished = {} /\ Active = {}

(* ------------------------- what context they meet ----------------------- *)

ChannelsOK ==
    /\ \A h \in Threads : handlers[h].at = "loop" => handlers[h].channel \in 1 .. Len(channels)
    /\ \A c \in 1 .. Len(channels) : \A i \in DOMAIN channels[c].payloads :
          channels[c].payloads[i].kind = "chain" =>
              c < Len(channels) /\ channels[c].payloads[i].to = c + 1
    /\ scheduler.at \notin {"exited"} => Len(channels) > 0

\* The messages of channel c give the handlers that read them the context b.
Leads(c, b) == \A i \in DOMAIN channels[c].payloads : channels[c].payloads[i].context = b

\* Whoever is in the last channel, or is led to it, has the context b there.
InContext(b) ==
    /\ \A h \in Threads : handlers[h].at = "loop" /\ handlers[h].channel = Len(channels) =>
          handlers[h].context = b
    /\ Len(channels) > 1 => Leads(Len(channels) - 1, b)

\* The tasks in the last channel meet the context of their bank, and in a session
\* that bank is the one in replay.
ContextOK ==
    /\ \A t \in Tasks : InChannel(t) => InContext(BankOf(t))
    /\ TasksMeetTheirBank
    /\ scheduler.at = "session" => InContext(bank.slot) /\ \A t \in Active : BankOf(t) = bank.slot
    /\ scheduler.at \in {"session", "finished", "between"} =>
          \A t \in Tasks : Queued(t) => BankOf(t) = bank.slot

(* ------------------------------ the protocol ---------------------------- *)

\* The manager's session is open as far as it knows.
InSession ==
    bank.status = "active" /\ ~manager.pooled /\ ~manager.joined /\ manager.result = NoResult

\* From position k on the queue q has tasks, and after them perhaps a close.
Ordinary(q, k) ==
    /\ \A i \in DOMAIN q : i >= k => q[i].kind \in {"payload", "close"}
    /\ \A i \in DOMAIN q : q[i].kind = "close" => i = Len(q)
Closes(q) == \E i \in DOMAIN q : q[i].kind = "close"

InSessionOK ==
    scheduler.at = "session" =>
        /\ InSession /\ op.at \in {"none", "end", "result"} /\ results = <<>>
        /\ scheduler.result = Ok
        /\ Ordinary(new_tasks, 1)
        /\ op.at = "result" <=> Closes(new_tasks) \/ scheduler.ending
        /\ scheduler.ending => new_tasks = <<>>

AtEndOK ==
    scheduler.at = "finished" =>
        /\ InSession /\ op.at = "result" /\ results = <<>> /\ new_tasks = <<>>
        /\ scheduler.result = Ok

Answered ==
    InSession /\ op.at = "result" /\ results = <<Ok>> /\ new_tasks = <<>>
Taken ==
    /\ bank.status = "active" /\ ~manager.pooled /\ manager.result = Ok
    /\ op.at \in {"none", "end", "return"} /\ results = <<>> /\ new_tasks = <<>>
Pooled ==
    /\ bank.status # "active" /\ manager.pooled /\ manager.result = NoResult
    /\ op.at = "none" /\ results = <<>> /\ new_tasks = <<>>
Opening ==
    /\ InSession /\ op.at \in {"none", "end", "result"} /\ results = <<>>
    /\ new_tasks # <<>>
    /\ Head(new_tasks).kind = "open" /\ Head(new_tasks).bank = bank.slot
    /\ Head(new_tasks).result = Ok
    /\ Ordinary(new_tasks, 2)
    /\ op.at = "result" <=> Closes(new_tasks)
Dropping ==
    /\ op.why = "drop" /\ op.at = "join" /\ op.take
    /\ bank.status # "active" /\ ~manager.pooled /\ manager.result = NoResult
    /\ results = <<>> /\ new_tasks = <<[kind |-> "disconnect"]>>

BetweenOK ==
    scheduler.at = "between" =>
        /\ ~manager.joined /\ ~scheduler.ending /\ scheduler.result = Ok
        /\ Answered \/ Taken \/ Pooled \/ Opening \/ Dropping

\* After the main loop, unless a handler has panicked: an error of a task, or the
\* scheduler was dropped.
Failing ==
    /\ bank.status = "active" /\ ~manager.pooled
    /\ scheduler.result > Ok
    /\ IF manager.result = NoResult
       THEN scheduler.at # "aborted" => results = <<scheduler.result>>
       ELSE scheduler.at # "aborted" /\ results = <<>> /\ op.at = "join" /\ ~op.take
Dropped ==
    /\ op.why = "drop" /\ op.at = "join" /\ op.take
    /\ bank.status # "active" /\ ~manager.pooled /\ manager.result = NoResult
    /\ scheduler.result = Ok
    /\ scheduler.at # "aborted" => results = <<Ok>>

AbortedOK ==
    /\ scheduler.at = "aborted" => results = <<>>
    /\ scheduler.at \in {"aborted", "sent", "closed", "exited"} /\ ~manager.joined /\ ~Panicked =>
          Failing \/ Dropped

\* A panic is noticed by the scheduler thread before the session can end.
PanicOK ==
    Panicked =>
        /\ scheduler.at \notin {"finished", "between"}
        /\ scheduler.at = "session" => \E f \in finished : f.outcome = "panicked"

\* The scheduler thread hears of a panic only when there is one.
HeardOK ==
    scheduler.at \in {"session", "finished", "between"} =>
        \A f \in finished : f.outcome = "panicked" => Panicked

JoinedOK ==
    manager.joined =>
        /\ scheduler.at = "exited" /\ results = <<>> /\ ~manager.pooled
        /\ \A h \in Threads : handlers[h].at = "exited"
        /\ bank.status = "active" => manager.result > Ok

ManagerOK ==
    /\ bank.status # "active" /\ op.at = "none" =>
          /\ manager.pooled <=> ~manager.joined
          /\ manager.result = NoResult \/ (manager.joined /\ bank.slot = Banks /\ owner = "idle")
    /\ bank.status = "active" => ~manager.pooled
    /\ bank.status = "active" /\ ~manager.joined /\ manager.result > Ok => op.at = "join" /\ ~op.take
    /\ manager.result \in {NoResult, scheduler.result} /\ scheduler.result # NoResult
    /\ manager.pooled => op.at = "none" /\ scheduler.result = Ok /\ (scheduler.at = "between" \/ Panicked)
    /\ \A i \in DOMAIN results : results[i] = scheduler.result

OpOK ==
    /\ op.at = "none" <=> op.why = "none"
    /\ op.at # "none" /\ op.why # "drop" => bank.status = "active"
    /\ op.why = "drop" => bank.status = "unavailable" /\ bank.slot = Banks
    /\ op.at \in {"end", "result"} => ~op.take
    /\ op.at = "result" => InSession
    /\ op.at = "join" /\ op.take =>
          /\ op.why # "drop" => InSession /\ scheduler.at \in {"closed", "exited"}
          /\ op.why = "drop" => manager.result = NoResult /\ ~manager.joined /\ ~manager.pooled
    /\ op.at = "join" /\ ~op.take => ~manager.joined /\ manager.result > Ok
    /\ op.at = "return" =>
          /\ manager.result # NoResult
          /\ op.why = "drop" => manager.joined /\ manager.result = Ok
          /\ op.why = "recover" => manager.joined
    /\ op.why = "drop" => op.at \in {"join", "return"} /\ (op.at = "join" => op.take)
    /\ op.why = "recover" => op.at \in {"join", "return"}

OwnerOK ==
    /\ owner = "idle" <=> bank.status = "unavailable"
    /\ bank.status = "stale" =>
          ~bank.armed /\ bank.stale # NoResult
    /\ bank.status = "unavailable" => ~bank.armed
    /\ owner = "open" /\ bank.status = "active" /\ op.at = "none" => InSession
    /\ owner = "resumed" => InSession /\ ~bank.armed /\ op.at = "none"
    /\ owner = "resuming" => bank.status = "stale" /\ bank.stale = Ok
    /\ owner = "failed" =>
          \/ /\ bank.status = "active" /\ ~Receiving
             /\ IF op.at = "return" THEN manager.joined ELSE InSession /\ op.at # "result"
          \/ bank.status = "stale" /\ bank.stale > Ok
    /\ owner = "paused" /\ bank.status = "active" /\ op.at = "none" => manager.result # NoResult
    /\ owner = "dead" /\ bank.status = "active" /\ op.at = "none" => manager.joined
    /\ op.why = "pause" => owner = "paused"
    /\ op.why = "recover" => owner = "dead"
    /\ op.why = "terminate" => owner \in {"open", "paused", "dead"}
    /\ op.why = "stale" => owner \in {"open", "failed", "paused", "dead"} /\ ~bank.armed

(* ------------------------------ the verdict ----------------------------- *)

\* An error is the one of a task of the bank.
Blames(r) == r > Ok => r \in Sent /\ executed[r] = "err"
AllOk == \A t \in Sent : executed[t] = "ok"

ErrorsOK ==
    /\ Blames(scheduler.result) /\ Blames(manager.result)
    /\ Blames(bank.stale) /\ Blames(bank.verdict)

SuccessOK ==
    /\ scheduler.at \in {"session", "finished", "between"} /\ InSession =>
          \A t \in Sent : Queued(t) \/ t \in Active \/ executed[t] = "ok"
    /\ bank.status = "active" /\ manager.result = Ok /\ ~Panicked => AllOk
    /\ bank.status = "stale" /\ bank.stale = Ok /\ ~Panicked => AllOk
    /\ bank.verdict = Ok /\ ~Panicked => AllOk
    /\ bank.verdict = Ok => bank.status = "unavailable"

ThreadsOK ==
    ~Panicked /\ scheduler.at # "exited" => \A h \in Threads : handlers[h].at = "loop"

TasksOK == MachineOK /\ BoundedOK /\ QueueOK /\ PlacesOK /\ FinishedOK

(* ------------------------------ arithmetic ------------------------------ *)

\* The numbers of the tasks of a bank follow those of the banks before it.
LEMMA TaskNumbers ==
    ASSUME NEW b \in 1 .. Banks, NEW n \in 0 .. TasksPerBank - 1
    PROVE  /\ (b - 1) * TasksPerBank + n + 1 \in Tasks
           /\ BankOf((b - 1) * TasksPerBank + n + 1) = b
BY SessionsAssumption DEF BankOf, Tasks

(* ---------------------------- data structures --------------------------- *)

\* Append, and its inverse at the other end.
LEMMA AppendFacts ==
    ASSUME NEW S, NEW s \in Seq(S), NEW e \in S
    PROVE  /\ Append(s, e) \in Seq(S) /\ Len(Append(s, e)) = Len(s) + 1
           /\ DOMAIN Append(s, e) = 1 .. Len(s) + 1 /\ DOMAIN s = 1 .. Len(s) /\ Len(s) \in Nat
           /\ \A i \in 1 .. Len(s) : Append(s, e)[i] = s[i]
           /\ Append(s, e)[Len(s) + 1] = e
           /\ Append(s, e) # <<>>
           /\ Head(Append(s, e)) = IF s = <<>> THEN e ELSE Head(s)
<1>1. /\ Append(s, e) \in Seq(S) /\ Len(Append(s, e)) = Len(s) + 1
      /\ DOMAIN Append(s, e) = 1 .. Len(s) + 1 /\ DOMAIN s = 1 .. Len(s) /\ Len(s) \in Nat
      /\ \A i \in 1 .. Len(s) : Append(s, e)[i] = s[i]
      /\ Append(s, e)[Len(s) + 1] = e
      /\ Append(s, e) # <<>>
  OBVIOUS
<1>2. Head(Append(s, e)) = Append(s, e)[1]
  BY <1>1
<1>3. s # <<>> => Head(s) = s[1] /\ 1 \in 1 .. Len(s)
  BY <1>1
<1>4. s = <<>> => Len(s) + 1 = 1
  OBVIOUS
<1> QED
  BY <1>1, <1>2, <1>3, <1>4

\* What taking the first message leaves of a queue.
LEMMA TailFacts ==
    ASSUME NEW S, NEW s \in Seq(S), s # <<>>
    PROVE  /\ Head(s) \in S /\ Head(s) = s[1] /\ Tail(s) \in Seq(S)
           /\ Len(Tail(s)) = Len(s) - 1 /\ Len(s) \in Nat /\ Len(s) > 0
           /\ DOMAIN Tail(s) = 1 .. Len(s) - 1 /\ DOMAIN s = 1 .. Len(s)
           /\ \A i \in 1 .. Len(s) - 1 : Tail(s)[i] = s[i + 1]
OBVIOUS

\* What is where when messages are put behind a queue.
LEMMA ConcatFacts ==
    ASSUME NEW S, NEW s \in Seq(S), NEW n \in Nat, NEW q \in Seq(S), Len(q) = n
    PROVE  /\ s \o q \in Seq(S) /\ Len(s \o q) = Len(s) + n
           /\ DOMAIN (s \o q) = 1 .. Len(s) + n /\ DOMAIN s = 1 .. Len(s)
           /\ \A i \in 1 .. Len(s) : (s \o q)[i] = s[i]
           /\ \A i \in Len(s) + 1 .. Len(s) + n : (s \o q)[i] = q[i - Len(s)]
OBVIOUS

\* Changing the messages of a channel changes nothing else.
LEMMA PayloadsUpdate ==
    ASSUME NEW s \in Seq(ChannelType), NEW c \in 1 .. Len(s), NEW p \in Seq(PayloadType)
    PROVE  LET r == [s EXCEPT ![c].payloads = p] IN
           /\ r \in Seq(ChannelType) /\ Len(r) = Len(s)
           /\ r[c] = [payloads |-> p, aux |-> s[c].aux]
           /\ \A d \in 1 .. Len(s) : d # c => r[d] = s[d]
<1> DEFINE r == [s EXCEPT ![c].payloads = p]
<1>1. s[c] \in ChannelType
  OBVIOUS
<1> DEFINE P == Seq(PayloadType)
<1>p. p \in P /\ s[c] \in [payloads : P, aux : SUBSET Tasks]
      /\ ChannelType = [payloads : P, aux : SUBSET Tasks]
  BY <1>1, Zenon DEF ChannelType
<1>2. [s[c] EXCEPT !.payloads = p] = [payloads |-> p, aux |-> s[c].aux]
      /\ [payloads |-> p, aux |-> s[c].aux] \in ChannelType
  <2> HIDE DEF P
  <2> QED
    BY <1>p
<1>3. r = [s EXCEPT ![c] = [payloads |-> p, aux |-> s[c].aux]]
  BY <1>2, Zenon
<1> HIDE DEF r
<1>4. r \in Seq(ChannelType) /\ Len(r) = Len(s) /\ r[c] = [payloads |-> p, aux |-> s[c].aux]
      /\ \A d \in 1 .. Len(s) : d # c => r[d] = s[d]
  BY <1>2, <1>3
<1> QED
  BY <1>4 DEF r

\* Nor does changing its auxiliary part.
LEMMA AuxUpdate ==
    ASSUME NEW s \in Seq(ChannelType), NEW c \in 1 .. Len(s), NEW a \in SUBSET Tasks
    PROVE  LET r == [s EXCEPT ![c].aux = a] IN
           /\ r \in Seq(ChannelType) /\ Len(r) = Len(s)
           /\ r[c] = [payloads |-> s[c].payloads, aux |-> a]
           /\ \A d \in 1 .. Len(s) : d # c => r[d] = s[d]
<1> DEFINE r == [s EXCEPT ![c].aux = a]
<1>1. s[c] \in ChannelType
  OBVIOUS
<1>2. [s[c] EXCEPT !.aux = a] = [payloads |-> s[c].payloads, aux |-> a]
      /\ [payloads |-> s[c].payloads, aux |-> a] \in ChannelType
  BY <1>1 DEF ChannelType
<1>3. r = [s EXCEPT ![c] = [payloads |-> s[c].payloads, aux |-> a]]
  BY <1>2, Zenon
<1> HIDE DEF r
<1>4. r \in Seq(ChannelType) /\ Len(r) = Len(s) /\ r[c] = [payloads |-> s[c].payloads, aux |-> a]
      /\ \A d \in 1 .. Len(s) : d # c => r[d] = s[d]
  BY <1>2, <1>3
<1> QED
  BY <1>4 DEF r

(* --------------------------- types are kept ----------------------------- *)

Typed == TypeOK /\ ChannelsOK

\* A channel whose messages grow or shrink, as a typed value.
LEMMA CurrentTyped ==
    ASSUME Typed, NEW c \in 1 .. Len(channels)
    PROVE  channels[c].payloads \in Seq(PayloadType) /\ channels[c].aux \in SUBSET Tasks
<1> DEFINE P == Seq(PayloadType)
<1>0. channels[c] \in ChannelType
  BY DEF Typed, TypeOK
<1>1. channels[c] \in [payloads : P, aux : SUBSET Tasks]
  BY <1>0, Zenon DEF ChannelType
<1> HIDE DEF P
<1>2. channels[c].payloads \in P /\ channels[c].aux \in SUBSET Tasks
  BY <1>1
<1> QED
  BY <1>2 DEF P

\* The values of op.
LEMMA OpValues ==
    /\ NoOp \in OpType
    /\ [why |-> "recover", at |-> "join", take |-> TRUE] \in OpType
    /\ [why |-> "drop", at |-> "join", take |-> TRUE] \in OpType
    /\ [why |-> "pause", at |-> "end", take |-> FALSE] \in OpType
    /\ [why |-> "terminate", at |-> "end", take |-> FALSE] \in OpType
    /\ [why |-> "stale", at |-> "end", take |-> FALSE] \in OpType
    /\ \A o \in OpType, a \in {"none", "end", "result", "join", "return"} :
          /\ [o EXCEPT !.at = a] \in OpType
          /\ [o EXCEPT !.at = a, !.take = TRUE] \in OpType
BY Zenon DEF OpType, NoOp

\* The types hold before any bank is replayed.
LEMMA InitTyped == Init => Typed
<1> SUFFICES ASSUME Init PROVE Typed
  OBVIOUS
<1> USE SessionsAssumption
<1>1. new_tasks \in Seq(MessageType) /\ results \in Seq(Result) /\ channels \in Seq(ChannelType)
  BY DEF Init
<1>2. bank \in BankType /\ owner \in Owners /\ op \in OpType /\ manager \in ManagerType
      /\ (owner # "idle" => bank.slot > 0)
  BY DEF Init, BankType, Owners, OpType, ManagerType, Result, NoOp, NoResult, Ok
<1>3. scheduler \in SchedulerType /\ handlers \in [Threads -> HandlerType]
  BY DEF Init, SchedulerType, Places, Result, HandlerType, Threads, Ok
<1>4. waiting \in SUBSET Tasks /\ ready \in SUBSET Tasks /\ running \in SUBSET Tasks
  BY DEF Init, Machine!Init
<1>5. finished \in SUBSET [task : Tasks, outcome : Outcomes] /\ crashed \in BOOLEAN
      /\ executed \in [Tasks -> {"no"} \cup Outcomes]
  BY Zenon DEF Init, Tasks
<1>6. ChannelsOK
  BY DEF Init, ChannelsOK, Threads
<1> QED
  BY <1>1, <1>2, <1>3, <1>4, <1>5, <1>6 DEF Typed, TypeOK

\* A scheduler is taken for a bank.
LEMMA TakeTyped ==
    ASSUME Typed, NEW b \in 0 .. Banks, NEW r \in Result, Take(b, r)
    PROVE  /\ manager' \in ManagerType /\ new_tasks' \in Seq(MessageType)
           /\ results' \in Seq(Result) /\ scheduler' \in SchedulerType
           /\ waiting' \in SUBSET Tasks /\ ready' \in SUBSET Tasks /\ running' \in SUBSET Tasks
           /\ channels' \in Seq(ChannelType) /\ handlers' \in [Threads -> HandlerType]
           /\ finished' \in SUBSET [task : Tasks, outcome : Outcomes] /\ crashed' \in BOOLEAN
           /\ ChannelsOK'
<1>1. CASE FromInner(b, r)
  <2>1. [kind |-> "open", bank |-> b, result |-> r] \in MessageType
    BY DEF MessageType
  <2>2. manager' \in ManagerType
    BY <1>1, Zenon DEF FromInner, Typed, TypeOK, ManagerType
  <2>n. new_tasks \in Seq(MessageType)
        /\ (new_tasks' = Append(new_tasks, [kind |-> "open", bank |-> b, result |-> r])
            \/ new_tasks' = new_tasks)
    BY <1>1, Zenon DEF FromInner, Typed, TypeOK
  <2>3. new_tasks' \in Seq(MessageType)
    BY <2>n, <2>1
  <2>c. crashed' \in BOOLEAN
    BY <1>1, Zenon DEF FromInner, Typed, TypeOK
  <2>4. UNCHANGED <<results, scheduler, waiting, ready, running, channels, handlers, finished>>
    BY <1>1 DEF FromInner, threads, machine
  <2>5. ChannelsOK'
    BY <2>4 DEF Typed, ChannelsOK
  <2> QED
    BY <2>2, <2>3, <2>c, <2>4, <2>5 DEF Typed, TypeOK
<1>2. CASE Spawn(b, r)
  BY <1>2, SMTT(30) DEF Spawn, Threads, ManagerType, SchedulerType, Places, Result,
     ChannelType, HandlerType, ChannelsOK, Typed, TypeOK
<1> QED
  BY <1>1, <1>2 DEF Take

\* What SendTask and the owner's other steps do to the types.
LEMMA SendTyped ==
    ASSUME Typed, NEW b \in BankType, b.slot > 0, SendTask(b)
    PROVE  new_tasks' \in Seq(MessageType) /\ bank' \in BankType /\ owner' \in Owners
           /\ bank'.slot = b.slot
<1> USE SessionsAssumption
<1>1. b.slot \in 1 .. Banks /\ b.sent \in 0 .. TasksPerBank - 1
  BY DEF SendTask, BankType
<1>2. CASE Receiving
  <2>1. PICK x \in Transactions :
           /\ new_tasks' = Append(new_tasks,
                 [kind |-> "payload", task |-> (b.slot - 1) * TasksPerBank + b.sent + 1,
                  transaction |-> x])
           /\ bank' = [b EXCEPT !.sent = @ + 1] /\ owner' = "open"
    BY <1>2, Zenon DEF SendTask
  <2>2. PICK t \in Tasks : t = (b.slot - 1) * TasksPerBank + b.sent + 1
    BY <1>1, TaskNumbers, Zenon
  <2>3. [kind |-> "payload", task |-> t, transaction |-> x] \in MessageType
    BY DEF MessageType
  <2>4. new_tasks \in Seq(MessageType)
    BY DEF Typed, TypeOK
  <2>5. new_tasks' \in Seq(MessageType)
    BY <2>1, <2>2, <2>3, <2>4
  <2>6. bank' \in BankType /\ bank'.slot = b.slot
    <3>1. PICK n \in 0 .. TasksPerBank : n = b.sent + 1
      BY <1>1
    <3>2. bank' = [b EXCEPT !.sent = n]
      BY <2>1, <3>1
    <3> QED
      BY <3>2 DEF BankType
  <2> QED
    BY <2>1, <2>5, <2>6 DEF Owners
<1>3. CASE ~Receiving
  BY <1>3 DEF SendTask, Typed, TypeOK, Owners
<1> QED
  BY <1>2, <1>3

\* The replay thread's steps keep the types.
LEMMA OwnerTyped ==
    ASSUME Typed, Owner
    PROVE  Typed'
<1> USE SessionsAssumption
<1>0. bank \in BankType /\ bank.slot \in 0 .. Banks /\ bank.stale \in Result /\ Ok \in Result
      /\ NoResult \in Result /\ op \in OpType /\ owner \in Owners
      /\ (owner # "idle" => bank.slot > 0)
  BY DEF Typed, TypeOK, BankType, Result
<1>1. CASE InstallScheduler
  BY <1>0, <1>1, TakeTyped DEF InstallScheduler, BankType, Owners, Typed, TypeOK
<1>2. CASE Resume
  BY <1>2, <1>0, TakeTyped, Zenon DEF Resume, BankType, Owners, Typed, TypeOK
<1>3. CASE Schedule \/ ScheduleResumed
  <2>1. PICK b \in BankType : b.slot = bank.slot /\ b.slot > 0 /\ SendTask(b)
    BY <1>0, <1>3, Zenon DEF BankType, Schedule, ScheduleResumed
  <2>2. UNCHANGED <<op, manager, results, threads, executed, crashed>>
    BY <2>1, Zenon DEF SendTask
  <2>3. ChannelsOK'
    BY <2>2 DEF Typed, ChannelsOK, threads
  <2> QED
    BY <2>1, <2>2, <2>3, SendTyped DEF Typed, TypeOK, threads, machine
<1>4. CASE ScheduleStale \/ RetrieveError \/ Pause \/ Terminate
  <2>1. UNCHANGED <<manager, new_tasks, results, threads, executed, crashed>>
    BY <1>4 DEF ScheduleStale, RetrieveError, Pause, Terminate
  <2>2. bank' \in BankType /\ bank'.slot = bank.slot
    BY <1>0, <1>4, Zenon DEF ScheduleStale, RetrieveError, Pause, Terminate, BankType
  <2>3. owner' \in Owners /\ (owner' # "idle" => owner # "idle")
    BY <1>0, <1>4 DEF ScheduleStale, RetrieveError, Pause, Terminate, Owners
  <2>4. op' \in OpType
    BY <1>4, <1>0, OpValues, Zenon DEF ScheduleStale, RetrieveError, Pause, Terminate
  <2>5. ChannelsOK'
    BY <2>1 DEF Typed, ChannelsOK, threads
  <2> QED
    BY <1>0, <2>1, <2>2, <2>3, <2>4, <2>5 DEF Typed, TypeOK, threads, machine
<1> QED
  BY <1>1, <1>2, <1>3, <1>4 DEF Owner

\* So do those of the cleaner and of whoever holds the bank's lock.
LEMMA LockTyped ==
    ASSUME Typed, TimeoutListener \/ DropPooled \/ TakenElsewhere \/ LockHolder
    PROVE  Typed'
<1> USE SessionsAssumption
<1>0. bank \in BankType /\ op \in OpType /\ manager \in ManagerType /\ owner \in Owners
      /\ results \in Seq(Result) /\ NoResult \in Result /\ Ok \in Result
      /\ new_tasks \in Seq(MessageType) /\ manager.result \in Result
  BY DEF Typed, TypeOK, ManagerType, Result
<1>1. CASE TakenElsewhere
  <2>m. \A k, l \in BOOLEAN : [manager EXCEPT !.pooled = k, !.joined = l] \in ManagerType
    BY <1>0, Zenon DEF ManagerType
  <2>1. manager' \in ManagerType /\ channels' = <<>> /\ channels' \in Seq(ChannelType)
    <3>1. manager' = [manager EXCEPT !.pooled = FALSE, !.joined = TRUE] /\ channels' = <<>>
      BY <1>1, Zenon DEF TakenElsewhere
    <3>2. manager' \in ManagerType
      BY <2>m, <3>1, Zenon
    <3> QED
      BY <3>1, <3>2
  <2>s. scheduler' \in SchedulerType
    BY <1>0, <1>1 DEF TakenElsewhere, SchedulerType, Places
  <2>2. handlers' = [h \in Threads |-> [at |-> "exited", channel |-> 1, context |-> 0, task |-> 0]]
    BY <1>1 DEF TakenElsewhere, Threads
  <2>3. handlers' \in [Threads -> HandlerType]
    BY <2>2 DEF HandlerType
  <2>4. ChannelsOK'
    BY <1>1, <2>2, <2>1 DEF TakenElsewhere, ChannelsOK
  <2>5. UNCHANGED <<bank, owner, op, new_tasks, results, machine, finished, executed, crashed>>
    BY <1>1 DEF TakenElsewhere
  <2> QED
    BY <2>1, <2>s, <2>3, <2>4, <2>5 DEF Typed, TypeOK, machine
<1>2. CASE TimeoutListener \/ DropPooled \/ LockHolder
  <2>1. UNCHANGED <<threads, executed>>
    BY <1>2 DEF TimeoutListener, DropPooled, LockHolder, EndSession, ReceiveResult,
       JoinThreads, JoinPanicked, Return
  <2>2. bank' \in BankType /\ bank'.slot = bank.slot
    <3>1. CASE Return
      BY <3>1, <1>0, Zenon DEF Return, BankType
    <3>2. CASE ~Return
      BY <1>0, <1>2, <3>2, Zenon DEF TimeoutListener, DropPooled, LockHolder, EndSession,
         ReceiveResult, JoinThreads, JoinPanicked, BankType
    <3> QED
      BY <3>1, <3>2
  <2>3. owner' \in Owners /\ (owner' # "idle" => owner # "idle")
    BY <1>0, <1>2 DEF TimeoutListener, DropPooled, LockHolder, EndSession, ReceiveResult,
       JoinThreads, JoinPanicked, Return, Owners
  <2>4. op' \in OpType
    BY <1>0, OpValues, <1>2, Zenon DEF TimeoutListener, DropPooled, LockHolder, EndSession,
       ReceiveResult, JoinThreads, JoinPanicked, Return
  <2>5. manager' \in ManagerType
    <3>1. results # <<>> => Head(results) \in Result
      BY <1>0
    <3>2. CASE Return
      BY <1>0, <3>2, Zenon DEF Return, Returned, ManagerType
    <3>3. CASE ReceiveResult \/ JoinThreads
      BY <1>0, <3>1, <3>3, Zenon DEF ReceiveResult, JoinThreads, ManagerType
    <3>4. CASE TimeoutListener \/ DropPooled \/ EndSession \/ JoinPanicked
      BY <1>0, <3>4, Zenon DEF TimeoutListener, DropPooled, EndSession, JoinPanicked,
         ManagerType
    <3> QED
      BY <1>2, <3>2, <3>3, <3>4 DEF LockHolder
  <2>6. results' \in Seq(Result)
    <3>1. results' = results \/ (results # <<>> /\ results' = Tail(results))
      BY <1>2 DEF TimeoutListener, DropPooled, LockHolder, EndSession, ReceiveResult,
         JoinThreads, JoinPanicked, Return
    <3> QED
      BY <1>0, <3>1
  <2>7. new_tasks' \in Seq(MessageType)
    <3>1. \/ new_tasks' = new_tasks \/ new_tasks' = Append(new_tasks, [kind |-> "disconnect"])
          \/ new_tasks' = Append(new_tasks, [kind |-> "close"])
      BY <1>2 DEF TimeoutListener, DropPooled, LockHolder, EndSession, ReceiveResult,
         JoinThreads, JoinPanicked, Return
    <3>2. [kind |-> "disconnect"] \in MessageType /\ [kind |-> "close"] \in MessageType
      BY DEF MessageType
    <3> QED
      <4>1. new_tasks \in Seq(MessageType)
        BY <1>0
      <4> HIDE <1>0, <1>2
      <4> QED
        BY <3>1, <3>2, <4>1, AppendFacts
  <2>8. crashed' \in BOOLEAN
    BY <1>2, Zenon DEF TimeoutListener, DropPooled, LockHolder, EndSession, ReceiveResult,
       JoinThreads, JoinPanicked, Return, Typed, TypeOK
  <2>9. ChannelsOK'
    BY <2>1 DEF Typed, ChannelsOK, threads
  <2> QED
    BY <2>1, <2>2, <2>3, <2>4, <2>5, <2>6, <2>7, <2>8, <2>9, Zenon DEF Typed, TypeOK,
       threads, machine
<1> QED
  BY <1>1, <1>2

\* The state machine's sets hold tasks.
LEMMA MachineTyped ==
    ASSUME Typed, NEW t \in Tasks
    PROVE  /\ Machine!Depart(t) \/ Machine!Run(t) =>
                 waiting' \in SUBSET Tasks /\ ready' \in SUBSET Tasks /\ running' \in SUBSET Tasks
           /\ \A x : Machine!Arrive(t, x, TRUE) =>
                 waiting' \in SUBSET Tasks /\ ready' \in SUBSET Tasks /\ running' \in SUBSET Tasks
BY DEF Typed, TypeOK, Machine!Freed, Machine!Depart, Machine!Run, Machine!Arrive

\* ChannelsOK after a change of one channel that adds no message to switch.
LEMMA ChannelsKept ==
    ASSUME Typed, NEW c \in 1 .. Len(channels),
           Len(channels') = Len(channels), \A d \in 1 .. Len(channels) : d # c => channels'[d] = channels[d],
           \A i \in DOMAIN channels'[c].payloads : channels'[c].payloads[i].kind = "chain" =>
              \E j \in DOMAIN channels[c].payloads : channels'[c].payloads[i] = channels[c].payloads[j],
           \A h \in Threads : handlers'[h].at = "loop" => handlers'[h].channel \in 1 .. Len(channels)
    PROVE  ChannelsOK'
BY DEF Typed, ChannelsOK

\* The effects of the steps that change a channel, in terms of the channel.

\* A message is posted in the last channel.
LEMMA DispatchEffect ==
    ASSUME Typed, NEW t \in Tasks, DispatchUnblocked(t), NEW c, c = Len(channels)
    PROVE  /\ c \in 1 .. Len(channels)
           /\ channels' \in Seq(ChannelType) /\ Len(channels') = Len(channels)
           /\ \A d \in 1 .. Len(channels) : d # c => channels'[d] = channels[d]
           /\ channels'[c].aux = channels[c].aux
           /\ DOMAIN channels[c].payloads = 1 .. Len(channels[c].payloads)
           /\ DOMAIN channels'[c].payloads = 1 .. Len(channels[c].payloads) + 1
           /\ \A i \in DOMAIN channels[c].payloads : channels'[c].payloads[i] = channels[c].payloads[i]
           /\ channels'[c].payloads[Len(channels[c].payloads) + 1] = [kind |-> "payload", task |-> t]
<1> DEFINE m == [kind |-> "payload", task |-> t]
           p == Append(channels[c].payloads, m)
<1>1. c \in 1 .. Len(channels) /\ channels \in Seq(ChannelType)
  BY DEF DispatchUnblocked, Typed, TypeOK, ChannelsOK
<1>2. m \in PayloadType
  BY DEF PayloadType
<1>3. channels[c].payloads \in Seq(PayloadType)
  BY <1>1, CurrentTyped
<1>4. channels' = [channels EXCEPT ![c].payloads = p]
  BY DEF DispatchUnblocked
<1>5. /\ p \in Seq(PayloadType) /\ DOMAIN p = 1 .. Len(channels[c].payloads) + 1
      /\ \A i \in 1 .. Len(channels[c].payloads) : p[i] = channels[c].payloads[i]
      /\ DOMAIN channels[c].payloads = 1 .. Len(channels[c].payloads)
      /\ p[Len(channels[c].payloads) + 1] = m
  <2> HIDE DEF m
  <2> QED
    BY <1>2, <1>3, AppendFacts
<1> HIDE DEF p
<1>6. /\ channels' \in Seq(ChannelType) /\ Len(channels') = Len(channels)
      /\ channels'[c] = [payloads |-> p, aux |-> channels[c].aux]
      /\ \A d \in 1 .. Len(channels) : d # c => channels'[d] = channels[d]
  BY <1>1, <1>4, <1>5, PayloadsUpdate
<1>7. channels'[c].payloads = p /\ channels'[c].aux = channels[c].aux
  BY <1>6
<1> QED
  BY <1>1, <1>5, <1>6, <1>7, Zenon

\* A task goes into the auxiliary part of the last channel, or waits.
LEMMA ReceiveTaskEffect ==
    ASSUME Typed, scheduler.at = "session", NEW m \in MessageType, m.kind = "payload",
           ReceiveTask(m), NEW c, c = Len(channels)
    PROVE  /\ m.task \in Tasks
           /\ c \in 1 .. Len(channels)
           /\ channels' \in Seq(ChannelType) /\ Len(channels') = Len(channels)
           /\ \A d \in 1 .. Len(channels) : d # c => channels'[d] = channels[d]
           /\ channels'[c].payloads = channels[c].payloads
           /\ channels'[c].aux =
                 IF m.task \in running' THEN channels[c].aux \cup {m.task} ELSE channels[c].aux
<1>1. c \in 1 .. Len(channels) /\ channels \in Seq(ChannelType)
  BY DEF Typed, TypeOK, ChannelsOK
<1>2. m.task \in Tasks
  BY DEF MessageType
<1>3. channels[c].payloads \in Seq(PayloadType) /\ channels[c].aux \in SUBSET Tasks
  BY <1>1, CurrentTyped
<1>4. CASE m.task \in running'
  <2>1. PICK a \in SUBSET Tasks : a = channels[c].aux \cup {m.task}
    BY <1>2, <1>3, Zenon
  <2>2. channels' = [channels EXCEPT ![c].aux = a]
    BY <1>4, <2>1 DEF ReceiveTask
  <2>3. /\ channels' \in Seq(ChannelType) /\ Len(channels') = Len(channels)
        /\ channels'[c] = [payloads |-> channels[c].payloads, aux |-> a]
        /\ \A d \in 1 .. Len(channels) : d # c => channels'[d] = channels[d]
    BY <1>1, <2>2, AuxUpdate
  <2> QED
    BY <1>1, <1>2, <1>4, <2>1, <2>3
<1>5. CASE m.task \notin running'
  BY <1>1, <1>2, <1>5 DEF ReceiveTask
<1> QED
  BY <1>4, <1>5

\* Every handler is told to go from the last channel to a new one.
LEMMA ChainEffect ==
    ASSUME Typed, scheduler.at = "between", NEW b \in 0 .. Banks, SendChained(b),
           NEW c, c = Len(channels)
    PROVE  /\ c \in 1 .. Len(channels)
           /\ channels' \in Seq(ChannelType) /\ Len(channels') = Len(channels) + 1
           /\ \A d \in 1 .. Len(channels) : d # c => channels'[d] = channels[d]
           /\ channels'[c].aux = channels[c].aux
           /\ DOMAIN channels[c].payloads = 1 .. Len(channels[c].payloads)
           /\ Len(channels'[c].payloads) = Len(channels[c].payloads) + Handlers
           /\ DOMAIN channels'[c].payloads = 1 .. Len(channels[c].payloads) + Handlers
           /\ \A i \in 1 .. Len(channels[c].payloads) :
                 channels'[c].payloads[i] = channels[c].payloads[i]
           /\ \A i \in Len(channels[c].payloads) + 1 .. Len(channels[c].payloads) + Handlers :
                 channels'[c].payloads[i] = [kind |-> "chain", context |-> b, to |-> c + 1]
           /\ channels'[c + 1] = [payloads |-> <<>>, aux |-> {}]
<1> USE SessionsAssumption
<1> DEFINE m == [kind |-> "chain", context |-> b, to |-> c + 1]
           new == [payloads |-> <<>>, aux |-> {}]
<1>1. c \in 1 .. Len(channels) /\ channels \in Seq(ChannelType) /\ c \in Nat
  BY DEF Typed, TypeOK, ChannelsOK
<1>2. m \in PayloadType
  BY <1>1 DEF PayloadType
<1>3. channels[c].payloads \in Seq(PayloadType)
  BY <1>1, CurrentTyped
<1>4. PICK q : q = [h \in 1 .. Handlers |-> m]
  BY Zenon
<1>5. q \in Seq(PayloadType) /\ Len(q) = Handlers /\ \A i \in 1 .. Handlers : q[i] = m
  <2> HIDE DEF m
  <2> QED
    BY <1>2, <1>4
<1>6. PICK p : p = channels[c].payloads \o q
  BY Zenon
<1> HIDE DEF m
<1>7. /\ p \in Seq(PayloadType) /\ Len(p) = Len(channels[c].payloads) + Handlers
      /\ DOMAIN p = 1 .. Len(channels[c].payloads) + Handlers
      /\ \A i \in 1 .. Len(channels[c].payloads) : p[i] = channels[c].payloads[i]
      /\ \A i \in Len(channels[c].payloads) + 1 .. Len(channels[c].payloads) + Handlers : p[i] = m
      /\ DOMAIN channels[c].payloads = 1 .. Len(channels[c].payloads)
  <2>1. Len(channels[c].payloads) \in Nat /\ Handlers \in Nat
    BY <1>3
  <2>2. \A i \in Len(channels[c].payloads) + 1 .. Len(channels[c].payloads) + Handlers :
           p[i] = q[i - Len(channels[c].payloads)]
    BY <1>3, <1>5, <1>6, <2>1, ConcatFacts
  <2>3. \A i \in Len(channels[c].payloads) + 1 .. Len(channels[c].payloads) + Handlers : p[i] = m
    BY <1>5, <2>1, <2>2
  <2> QED
    BY <1>3, <1>5, <1>6, <2>1, <2>3, ConcatFacts
<1>8. PICK s : s = [channels EXCEPT ![c].payloads = p]
  BY Zenon
<1>9. /\ s \in Seq(ChannelType) /\ Len(s) = Len(channels)
      /\ s[c] = [payloads |-> p, aux |-> channels[c].aux]
      /\ \A d \in 1 .. Len(channels) : d # c => s[d] = channels[d]
  BY <1>1, <1>7, <1>8, PayloadsUpdate
<1>10. channels' = Append(s, new)
  BY <1>4, <1>6, <1>8 DEF SendChained, m
<1>11. new \in ChannelType
  BY DEF ChannelType
<1> HIDE DEF new
<1>12. /\ channels' \in Seq(ChannelType) /\ Len(channels') = Len(channels) + 1
       /\ \A d \in 1 .. Len(channels) : channels'[d] = s[d]
       /\ channels'[c + 1] = new
  BY <1>9, <1>10, <1>11, AppendFacts
<1>13. channels'[c] = [payloads |-> p, aux |-> channels[c].aux]
  BY <1>1, <1>9, <1>12
<1>14. channels'[c].payloads = p /\ channels'[c].aux = channels[c].aux
  BY <1>13
<1> QED
  BY <1>1, <1>7, <1>9, <1>12, <1>14, Zenon DEF m, new

\* A handler takes the first message of its channel.
LEMMA ReceivePayloadEffect ==
    ASSUME Typed, NEW h \in Threads, ReceivePayload(h), NEW c, c = handlers[h].channel
    PROVE  /\ c \in 1 .. Len(channels) /\ handlers[h].at = "loop" /\ handlers[h].task = 0
           /\ channels' \in Seq(ChannelType) /\ Len(channels') = Len(channels)
           /\ \A d \in 1 .. Len(channels) : d # c => channels'[d] = channels[d]
           /\ channels'[c].aux = channels[c].aux
           /\ DOMAIN channels[c].payloads = 1 .. Len(channels[c].payloads)
           /\ DOMAIN channels'[c].payloads = 1 .. Len(channels[c].payloads) - 1
           /\ Len(channels'[c].payloads) = Len(channels[c].payloads) - 1
           /\ Len(channels[c].payloads) \in Nat /\ Len(channels[c].payloads) > 0
           /\ \A i \in 1 .. Len(channels[c].payloads) - 1 :
                 channels'[c].payloads[i] = channels[c].payloads[i + 1]
           /\ handlers' \in [Threads -> HandlerType]
           /\ \A g \in Threads : g # h => handlers'[g] = handlers[g]
           /\ handlers'[h].at = "loop"
           /\ LET m == channels[c].payloads[1] IN
              \/ /\ m.kind = "payload" /\ m.task \in Tasks /\ handlers'[h].task = m.task
                 /\ handlers'[h].channel = c /\ handlers'[h].context = handlers[h].context
              \/ /\ m.kind = "chain" /\ handlers'[h].task = 0
                 /\ handlers'[h].channel = m.to /\ handlers'[h].context = m.context
<1>1. /\ c \in 1 .. Len(channels) /\ channels \in Seq(ChannelType)
      /\ handlers[h].at = "loop" /\ handlers[h].task = 0 /\ channels[c].payloads # <<>>
      /\ handlers \in [Threads -> HandlerType] /\ handlers[h] \in HandlerType
  BY DEF ReceivePayload, Waits, Typed, TypeOK, ChannelsOK
<1>2. channels[c].payloads \in Seq(PayloadType)
  BY <1>1, CurrentTyped
<1>3. PICK p : p = Tail(channels[c].payloads)
  BY Zenon
<1>4. PICK m : m = Head(channels[c].payloads)
  BY Zenon
<1>5. /\ m \in PayloadType /\ m = channels[c].payloads[1] /\ p \in Seq(PayloadType)
      /\ Len(p) = Len(channels[c].payloads) - 1 /\ Len(channels[c].payloads) \in Nat
      /\ Len(channels[c].payloads) > 0
      /\ DOMAIN p = 1 .. Len(channels[c].payloads) - 1
      /\ DOMAIN channels[c].payloads = 1 .. Len(channels[c].payloads)
      /\ \A i \in 1 .. Len(channels[c].payloads) - 1 : p[i] = channels[c].payloads[i + 1]
  BY <1>1, <1>2, <1>3, <1>4, TailFacts
<1>6. channels' = [channels EXCEPT ![c].payloads = p]
  BY <1>3 DEF ReceivePayload
<1>7. /\ channels' \in Seq(ChannelType) /\ Len(channels') = Len(channels)
      /\ channels'[c] = [payloads |-> p, aux |-> channels[c].aux]
      /\ \A d \in 1 .. Len(channels) : d # c => channels'[d] = channels[d]
  <2>1. c \in 1 .. Len(channels) /\ channels \in Seq(ChannelType) /\ p \in Seq(PayloadType)
    BY <1>1, <1>5
  <2> QED
    BY <1>6, <2>1, PayloadsUpdate
<1>8. channels'[c].payloads = p /\ channels'[c].aux = channels[c].aux
  BY <1>7
<1>9. \/ m.kind = "payload" /\ m.task \in Tasks
      \/ m.kind = "chain" /\ m.context \in 0 .. Banks /\ m.to \in Nat
  BY <1>5, Zenon DEF PayloadType
<1>10. handlers' = [handlers EXCEPT ![h] =
                        IF m.kind = "payload" THEN [handlers[h] EXCEPT !.task = m.task]
                        ELSE [handlers[h] EXCEPT !.context = m.context, !.channel = m.to]]
  BY <1>4 DEF ReceivePayload
<1>11. PICK n : n = IF m.kind = "payload" THEN [handlers[h] EXCEPT !.task = m.task]
                    ELSE [handlers[h] EXCEPT !.context = m.context, !.channel = m.to]
  BY Zenon
<1>12. /\ n \in HandlerType /\ n.at = "loop"
       /\ \/ /\ m.kind = "payload" /\ m.task \in Tasks /\ n.task = m.task
             /\ n.channel = c /\ n.context = handlers[h].context
          \/ /\ m.kind = "chain" /\ n.task = 0 /\ n.channel = m.to /\ n.context = m.context
  BY <1>1, <1>9, <1>11, Zenon DEF HandlerType
<1>13. /\ handlers' \in [Threads -> HandlerType] /\ handlers'[h] = n
       /\ \A g \in Threads : g # h => handlers'[g] = handlers[g]
  BY <1>1, <1>10, <1>11, <1>12, Zenon
<1> QED
  BY <1>1, <1>5, <1>7, <1>8, <1>12, <1>13, Zenon

\* A handler takes a task from the auxiliary part.
LEMMA ReceiveAuxEffect ==
    ASSUME Typed, NEW h \in Threads, NEW t, ReceiveAux(h, t), NEW c, c = handlers[h].channel
    PROVE  /\ c \in 1 .. Len(channels) /\ handlers[h].at = "loop" /\ handlers[h].task = 0
           /\ channels' \in Seq(ChannelType) /\ Len(channels') = Len(channels)
           /\ \A d \in 1 .. Len(channels) : d # c => channels'[d] = channels[d]
           /\ channels'[c].payloads = channels[c].payloads
           /\ channels'[c].aux = channels[c].aux \ {t} /\ t \in channels[c].aux /\ t \in Tasks
           /\ handlers' \in [Threads -> HandlerType]
           /\ \A g \in Threads : g # h => handlers'[g] = handlers[g]
           /\ handlers'[h].at = "loop" /\ handlers'[h].task = t
           /\ handlers'[h].channel = c /\ handlers'[h].context = handlers[h].context
<1>1. /\ c \in 1 .. Len(channels) /\ channels \in Seq(ChannelType)
      /\ handlers[h].at = "loop" /\ handlers[h].task = 0 /\ t \in channels[c].aux
      /\ handlers \in [Threads -> HandlerType] /\ handlers[h] \in HandlerType
  BY DEF ReceiveAux, Waits, Typed, TypeOK, ChannelsOK
<1>2. channels[c].aux \in SUBSET Tasks /\ t \in Tasks
  BY <1>1, CurrentTyped
<1>3. PICK a \in SUBSET Tasks : a = channels[c].aux \ {t}
  BY <1>2, Zenon
<1>4. channels' = [channels EXCEPT ![c].aux = a]
  BY <1>3 DEF ReceiveAux
<1>5. /\ channels' \in Seq(ChannelType) /\ Len(channels') = Len(channels)
      /\ channels'[c] = [payloads |-> channels[c].payloads, aux |-> a]
      /\ \A d \in 1 .. Len(channels) : d # c => channels'[d] = channels[d]
  BY <1>1, <1>4, AuxUpdate
<1>6. channels'[c].payloads = channels[c].payloads /\ channels'[c].aux = a
  BY <1>5
<1>7. handlers' = [handlers EXCEPT ![h] = [handlers[h] EXCEPT !.task = t]]
  BY DEF ReceiveAux
<1>8. PICK n : n = [handlers[h] EXCEPT !.task = t]
  BY Zenon
<1>9. n \in HandlerType /\ n.at = "loop" /\ n.task = t /\ n.channel = c
      /\ n.context = handlers[h].context
  BY <1>1, <1>2, <1>8, Zenon DEF HandlerType
<1>10. /\ handlers' \in [Threads -> HandlerType] /\ handlers'[h] = n
       /\ \A g \in Threads : g # h => handlers'[g] = handlers[g]
  BY <1>1, <1>7, <1>8, <1>9
<1> QED
  BY <1>1, <1>2, <1>3, <1>5, <1>6, <1>9, <1>10, Zenon

\* A handler has executed its task.
LEMMA ExecuteEffect ==
    ASSUME Typed, NEW h \in Threads, NEW outcome \in Outcomes, Execute(h, outcome),
           NEW t, t = handlers[h].task
    PROVE  /\ handlers[h].at = "loop" /\ t \in Tasks /\ t # 0
           /\ executed' \in [Tasks -> {"no"} \cup Outcomes] /\ executed'[t] = outcome
           /\ \A u \in Tasks : u # t => executed'[u] = executed[u]
           /\ finished' = IF scheduler.at = "exited" THEN finished
                          ELSE finished \cup {[task |-> t, outcome |-> outcome]}
           /\ finished' \in SUBSET [task : Tasks, outcome : Outcomes]
           /\ handlers' \in [Threads -> HandlerType]
           /\ \A g \in Threads : g # h => handlers'[g] = handlers[g]
           /\ handlers'[h].task = 0 /\ handlers'[h].channel = handlers[h].channel
           /\ handlers'[h].context = handlers[h].context
           /\ handlers'[h].at = IF outcome = "panicked" THEN "panicked"
                                ELSE IF scheduler.at = "exited" THEN "exited" ELSE "loop"
<1>1. /\ handlers[h].at = "loop" /\ t # 0 /\ t \in Tasks
      /\ handlers \in [Threads -> HandlerType] /\ handlers[h] \in HandlerType
  BY DEF Execute, Typed, TypeOK, HandlerType
<1>2. executed \in [Tasks -> {"no"} \cup Outcomes]
      /\ executed' = [executed EXCEPT ![t] = outcome]
  BY DEF Execute, Typed, TypeOK
<1>3. finished' = IF scheduler.at = "exited" THEN finished
                  ELSE finished \cup {[task |-> t, outcome |-> outcome]}
  BY DEF Execute
<1>4. finished' \in SUBSET [task : Tasks, outcome : Outcomes]
  BY <1>1, <1>3 DEF Typed, TypeOK
<1>5. PICK a : a = IF outcome = "panicked" THEN "panicked"
                   ELSE IF scheduler.at = "exited" THEN "exited" ELSE "loop"
  OBVIOUS
<1>6. handlers' = [handlers EXCEPT ![h] = [handlers[h] EXCEPT !.task = 0, !.at = a]]
  BY <1>5, Zenon DEF Execute
<1>7. PICK n : n = [handlers[h] EXCEPT !.task = 0, !.at = a]
  OBVIOUS
<1>8. n \in HandlerType /\ n.at = a /\ n.task = 0 /\ n.channel = handlers[h].channel
      /\ n.context = handlers[h].context
  BY <1>1, <1>5, <1>7, Zenon DEF HandlerType
<1>9. /\ handlers' \in [Threads -> HandlerType] /\ handlers'[h] = n
      /\ \A g \in Threads : g # h => handlers'[g] = handlers[g]
  BY <1>1, <1>6, <1>7, <1>8
<1> QED
  BY <1>1, <1>2, <1>3, <1>4, <1>5, <1>8, <1>9

\* A handler ends.
LEMMA ExitEffect ==
    ASSUME Typed, NEW h \in Threads, ExitHandler(h)
    PROVE  /\ handlers[h].at = "loop" /\ handlers[h].task = 0
           /\ handlers' \in [Threads -> HandlerType]
           /\ \A g \in Threads : g # h => handlers'[g] = handlers[g]
           /\ handlers'[h].at = "exited" /\ handlers'[h].task = 0
           /\ handlers'[h].channel = handlers[h].channel
           /\ handlers[h].channel \in 1 .. Len(channels)
<1>1. /\ handlers[h].at = "loop" /\ handlers[h].task = 0
      /\ handlers \in [Threads -> HandlerType] /\ handlers[h] \in HandlerType
      /\ handlers[h].channel \in 1 .. Len(channels)
  BY DEF ExitHandler, Waits, Typed, TypeOK, ChannelsOK
<1>2. handlers' = [handlers EXCEPT ![h] = [handlers[h] EXCEPT !.at = "exited"]]
  BY DEF ExitHandler
<1>3. PICK n : n = [handlers[h] EXCEPT !.at = "exited"]
  BY Zenon
<1>4. n \in HandlerType /\ n.at = "exited" /\ n.task = 0 /\ n.channel = handlers[h].channel
  BY <1>1, <1>3 DEF HandlerType
<1>5. /\ handlers' \in [Threads -> HandlerType] /\ handlers'[h] = n
      /\ \A g \in Threads : g # h => handlers'[g] = handlers[g]
  BY <1>1, <1>2, <1>3, <1>4
<1> QED
  BY <1>1, <1>4, <1>5

\* The steps of the scheduler thread keep the types.
LEMMA SchedulerTyped ==
    ASSUME Typed, SchedulerThread
    PROVE  Typed'
<1> USE SessionsAssumption
<1>0. scheduler \in SchedulerType /\ results \in Seq(Result) /\ new_tasks \in Seq(MessageType)
      /\ scheduler.result \in Result /\ Ok \in Result /\ ready \in SUBSET Tasks
      /\ channels \in Seq(ChannelType) /\ handlers \in [Threads -> HandlerType]
      /\ finished \in SUBSET [task : Tasks, outcome : Outcomes]
  BY DEF Typed, TypeOK, SchedulerType, Result
<1>c. scheduler.at # "exited" => Len(channels) \in 1 .. Len(channels)
  BY <1>0 DEF Typed, ChannelsOK
<1>h. new_tasks # <<>> => Head(new_tasks) \in MessageType /\ Tail(new_tasks) \in Seq(MessageType)
  BY <1>0, TailFacts
<1>k. UNCHANGED <<channels, handlers>> /\ scheduler.at # "exited" => ChannelsOK'
  BY <1>c DEF Typed, ChannelsOK
<1>1. CASE \E f \in finished : ReceiveFinished(f)
  <2>1. PICK f \in finished : ReceiveFinished(f)
    BY <1>1
  <2>2. f.task \in Tasks /\ f.task \in Result
    BY <1>0 DEF Result
  <2>3. UNCHANGED <<bank, owner, op, manager, new_tasks, results, channels, handlers, executed, crashed>>
    BY <2>1 DEF ReceiveFinished
  <2>4. finished' \in SUBSET [task : Tasks, outcome : Outcomes]
    BY <1>0, <2>1 DEF ReceiveFinished
  <2>5. waiting' \in SUBSET Tasks /\ ready' \in SUBSET Tasks /\ running' \in SUBSET Tasks
    BY <2>1, <2>2, MachineTyped, Zenon DEF ReceiveFinished, Typed, TypeOK, machine
  <2>6. scheduler' \in SchedulerType /\ scheduler.at # "exited"
    BY <1>0, <2>1, <2>2, Zenon DEF ReceiveFinished, SchedulerType, Places, Continue
  <2> QED
    BY <1>k, <2>3, <2>4, <2>5, <2>6 DEF Typed, TypeOK
<1>2. CASE \E t \in ready : DispatchUnblocked(t)
  <2>1. PICK t \in Tasks : DispatchUnblocked(t)
    BY <1>0, <1>2
  <2>2. PICK c : c = Len(channels)
    BY Zenon
  <2>3. UNCHANGED <<bank, owner, op, manager, new_tasks, results, scheduler, handlers, finished,
                    executed, crashed>>
    BY <2>1 DEF DispatchUnblocked
  <2>4. waiting' \in SUBSET Tasks /\ ready' \in SUBSET Tasks /\ running' \in SUBSET Tasks
    BY <2>1, MachineTyped, Zenon DEF DispatchUnblocked
  <2>5. /\ c \in 1 .. Len(channels)
        /\ channels' \in Seq(ChannelType) /\ Len(channels') = Len(channels)
        /\ \A d \in 1 .. Len(channels) : d # c => channels'[d] = channels[d]
        /\ DOMAIN channels[c].payloads = 1 .. Len(channels[c].payloads)
        /\ DOMAIN channels'[c].payloads = 1 .. Len(channels[c].payloads) + 1
        /\ \A i \in DOMAIN channels[c].payloads : channels'[c].payloads[i] = channels[c].payloads[i]
        /\ channels'[c].payloads[Len(channels[c].payloads) + 1] = [kind |-> "payload", task |-> t]
    BY <2>1, <2>2, DispatchEffect
  <2>6. \A i \in DOMAIN channels'[c].payloads : channels'[c].payloads[i].kind = "chain" =>
            \E j \in DOMAIN channels[c].payloads : channels'[c].payloads[i] = channels[c].payloads[j]
    BY <2>5, CurrentTyped
  <2>7. ChannelsOK'
    BY <2>3, <2>5, <2>6, ChannelsKept, Zenon DEF Typed, ChannelsOK
  <2> QED
    BY <2>3, <2>4, <2>5, <2>7 DEF Typed, TypeOK
<1>3. CASE ReceiveNew
  <2>1. PICK m \in MessageType : m = Head(new_tasks)
    BY <1>h, <1>3 DEF ReceiveNew
  <2>2. /\ UNCHANGED <<bank, owner, op, manager, results, handlers, finished, executed, crashed>>
        /\ scheduler.at = "session" /\ new_tasks' \in Seq(MessageType)
    BY <1>h, <1>3 DEF ReceiveNew
  <2>3. CASE m.kind = "payload" /\ ReceiveTask(m)
    <3>1. PICK c : c = Len(channels)
      BY Zenon
    <3>2. /\ m.task \in Tasks /\ c \in 1 .. Len(channels)
          /\ channels' \in Seq(ChannelType) /\ Len(channels') = Len(channels)
          /\ \A d \in 1 .. Len(channels) : d # c => channels'[d] = channels[d]
          /\ channels'[c].payloads = channels[c].payloads
      BY <2>2, <2>3, <3>1, ReceiveTaskEffect, Zenon
    <3>3. ChannelsOK'
      BY <2>2, <3>2, ChannelsKept, Zenon DEF Typed, ChannelsOK
    <3>4. Machine!Arrive(m.task, m.transaction, TRUE) /\ scheduler' = scheduler
      BY <2>3, Zenon DEF ReceiveTask
    <3>5. waiting' \in SUBSET Tasks /\ ready' \in SUBSET Tasks /\ running' \in SUBSET Tasks
      BY <3>2, <3>4, MachineTyped, Zenon
    <3> QED
      BY <2>2, <3>2, <3>3, <3>4, <3>5 DEF Typed, TypeOK
  <2>4. CASE ReceiveClose
    BY <1>0, <2>4, <1>k, <2>2, Zenon DEF ReceiveClose, Continue, SchedulerType, Places,
       Typed, TypeOK, machine
  <2> QED
    BY <1>3, <2>1, <2>3, <2>4 DEF ReceiveNew
<1>4. CASE FinishSession \/ Abort \/ DropReceiver \/ ExitScheduler
  <2>1. UNCHANGED <<bank, owner, op, manager, machine, channels, handlers, executed, crashed>>
    BY <1>4 DEF FinishSession, Abort, DropReceiver, ExitScheduler
  <2>2. scheduler' \in SchedulerType /\ scheduler.at # "exited"
    BY <1>0, <1>4, Zenon DEF FinishSession, Abort, DropReceiver, ExitScheduler,
       SchedulerType, Places
  <2>3. results' \in Seq(Result)
    <3>1. results' = results \/ results' = Append(results, scheduler.result)
      BY <1>4, Zenon DEF FinishSession, Abort, DropReceiver, ExitScheduler
    <3> QED
      BY <1>0, <3>1, AppendFacts
  <2>4. new_tasks' \in Seq(MessageType) /\ finished' \in SUBSET [task : Tasks, outcome : Outcomes]
    <3>1. (new_tasks' = new_tasks \/ new_tasks' = <<>>) /\ (finished' = finished \/ finished' = {})
      BY <1>4, Zenon DEF FinishSession, Abort, DropReceiver, ExitScheduler
    <3>2. <<>> \in Seq(MessageType)
      OBVIOUS
    <3>3. {} \in SUBSET [task : Tasks, outcome : Outcomes]
      OBVIOUS
    <3> QED
      BY <1>0, <3>1, <3>2, <3>3, Zenon
  <2> QED
    BY <1>k, <2>1, <2>2, <2>3, <2>4 DEF Typed, TypeOK, machine
<1>5. CASE ReceiveOpen
  <2>1. PICK m \in MessageType : m = Head(new_tasks)
    BY <1>h, <1>5 DEF ReceiveOpen
  <2>2. /\ UNCHANGED <<bank, owner, op, manager, results, machine, handlers, finished, executed, crashed>>
        /\ scheduler.at = "between" /\ new_tasks' \in Seq(MessageType)
    BY <1>h, <1>5, Zenon DEF ReceiveOpen
  <2>3. CASE m.kind = "open"
    <3>1. m.bank \in 0 .. Banks /\ m.result \in Result
      BY <2>3 DEF MessageType
    <3>2. SendChained(m.bank) /\ scheduler' = [scheduler EXCEPT !.at = "session", !.result = m.result]
      BY <1>5, <2>1, <2>3 DEF ReceiveOpen
    <3>3. scheduler' \in SchedulerType
      BY <1>0, <3>1, <3>2, Zenon DEF SchedulerType, Places
    <3>4. PICK c : c = Len(channels)
      BY Zenon
    <3>5. PICK n : n = Len(channels[c].payloads)
      BY Zenon
    <3>6. /\ c \in 1 .. Len(channels)
          /\ channels' \in Seq(ChannelType) /\ Len(channels') = Len(channels) + 1
          /\ \A d \in 1 .. Len(channels) : d # c => channels'[d] = channels[d]
          /\ DOMAIN channels[c].payloads = 1 .. n
          /\ DOMAIN channels'[c].payloads = 1 .. n + Handlers
          /\ \A i \in 1 .. n : channels'[c].payloads[i] = channels[c].payloads[i]
          /\ \A i \in n + 1 .. n + Handlers :
                channels'[c].payloads[i] = [kind |-> "chain", context |-> m.bank, to |-> c + 1]
          /\ channels'[c + 1] = [payloads |-> <<>>, aux |-> {}]
      BY <2>2, <3>1, <3>2, <3>4, <3>5, ChainEffect, ZenonT(30)
    <3>7. n \in Nat
      BY <3>5, <3>6, CurrentTyped
    <3>8. \A h \in Threads : handlers'[h].at = "loop" => handlers'[h].channel \in 1 .. Len(channels')
      BY <2>2, <3>4, <3>6 DEF Typed, ChannelsOK
    <3>9. ASSUME NEW d \in 1 .. Len(channels'), NEW i \in DOMAIN channels'[d].payloads,
                 channels'[d].payloads[i].kind = "chain"
          PROVE  d < Len(channels') /\ channels'[d].payloads[i].to = d + 1
      <4>1. CASE d = c + 1
        BY <3>6, <3>9, <4>1
      <4>2. CASE d = c
        <5>1. CASE i \in 1 .. n
          <6>0. i \in DOMAIN channels[c].payloads /\ c \in 1 .. Len(channels) /\ ~(c < Len(channels))
            BY <3>4, <3>6, <5>1
          <6>1. channels[c].payloads[i].kind # "chain"
            BY <6>0, Zenon DEF Typed, ChannelsOK
          <6> QED
            BY <3>6, <3>9, <4>2, <5>1, <6>1, Zenon
        <5>2. CASE i \in n + 1 .. n + Handlers
          BY <3>4, <3>6, <4>2, <5>2
        <5> QED
          BY <3>6, <3>7, <3>9, <4>2, <5>1, <5>2
      <4>3. CASE d \in 1 .. Len(channels) /\ d # c
        BY <3>6, <3>9, <4>3 DEF Typed, ChannelsOK
      <4> QED
        BY <3>4, <3>6, <3>9, <4>1, <4>2, <4>3
    <3>10. ChannelsOK'
      BY <3>6, <3>8, <3>9 DEF ChannelsOK
    <3> QED
      BY <2>2, <3>3, <3>6, <3>10 DEF Typed, TypeOK, machine
  <2>4. CASE m.kind = "disconnect"
    BY <1>0, <1>5, <2>1, <2>4, <1>k, <2>2, Zenon DEF ReceiveOpen, SchedulerType, Places,
       Typed, TypeOK, machine
  <2> QED
    BY <1>5, <2>1, <2>3, <2>4 DEF ReceiveOpen
<1> QED
  BY <1>1, <1>2, <1>3, <1>4, <1>5 DEF SchedulerThread

\* The steps of a handler keep the types.
LEMMA HandlerTyped ==
    ASSUME Typed, NEW h \in Threads, Handler(h)
    PROVE  Typed'
<1>0. \A g \in Threads : handlers[g].at = "loop" => handlers[g].channel \in 1 .. Len(channels)
  BY DEF Typed, ChannelsOK
<1>1. CASE ReceivePayload(h)
  <2>1. PICK c : c = handlers[h].channel
    OBVIOUS
  <2>2. PICK m : m = channels[c].payloads[1]
    BY Zenon
  <2>3. /\ c \in 1 .. Len(channels)
        /\ channels' \in Seq(ChannelType) /\ Len(channels') = Len(channels)
        /\ \A d \in 1 .. Len(channels) : d # c => channels'[d] = channels[d]
        /\ DOMAIN channels[c].payloads = 1 .. Len(channels[c].payloads)
        /\ DOMAIN channels'[c].payloads = 1 .. Len(channels[c].payloads) - 1
        /\ Len(channels[c].payloads) \in Nat /\ Len(channels[c].payloads) > 0
    BY <1>1, <2>1, ReceivePayloadEffect
  <2>i. \A i \in 1 .. Len(channels[c].payloads) - 1 :
              channels'[c].payloads[i] = channels[c].payloads[i + 1]
    BY <1>1, <2>1, ReceivePayloadEffect, Zenon
  <2>t. /\ handlers' \in [Threads -> HandlerType]
        /\ \A g \in Threads : g # h => handlers'[g] = handlers[g]
    BY <1>1, <2>1, ReceivePayloadEffect, Zenon
  <2>m. handlers'[h].channel = c \/ (m.kind = "chain" /\ handlers'[h].channel = m.to)
    BY <1>1, <2>1, <2>2, ReceivePayloadEffect
  <2>4. handlers'[h].channel \in 1 .. Len(channels)
    BY <2>3, <2>2, <2>m DEF Typed, ChannelsOK, TypeOK
  <2>5. \A i \in DOMAIN channels'[c].payloads :
           \E j \in DOMAIN channels[c].payloads : channels'[c].payloads[i] = channels[c].payloads[j]
    <3>1. ASSUME NEW i \in DOMAIN channels'[c].payloads
          PROVE  i + 1 \in DOMAIN channels[c].payloads
                 /\ channels'[c].payloads[i] = channels[c].payloads[i + 1]
      BY <2>3, <2>i
    <3> QED
      BY <3>1
  <2>6. ChannelsOK'
    BY <1>0, <2>3, <2>4, <2>5, <2>t, ChannelsKept, SMTT(30)
  <2>7. UNCHANGED <<bank, owner, op, manager, new_tasks, results, scheduler, machine, finished,
                    executed, crashed>>
    BY <1>1 DEF ReceivePayload
  <2> QED
    BY <2>3, <2>t, <2>6, <2>7 DEF Typed, TypeOK, machine
<1>2. CASE \E t \in running : ReceiveAux(h, t)
  <2>1. PICK t : ReceiveAux(h, t)
    BY <1>2, Zenon
  <2>2. PICK c : c = handlers[h].channel
    OBVIOUS
  <2>3. /\ c \in 1 .. Len(channels)
        /\ channels' \in Seq(ChannelType) /\ Len(channels') = Len(channels)
        /\ \A d \in 1 .. Len(channels) : d # c => channels'[d] = channels[d]
        /\ channels'[c].payloads = channels[c].payloads
        /\ handlers' \in [Threads -> HandlerType]
        /\ \A g \in Threads : g # h => handlers'[g] = handlers[g]
        /\ handlers'[h].channel = c
    BY <2>1, <2>2, ReceiveAuxEffect
  <2>4. ChannelsOK'
    BY <1>0, <2>3, ChannelsKept, Zenon
  <2>5. UNCHANGED <<bank, owner, op, manager, new_tasks, results, scheduler, machine, finished,
                    executed, crashed>>
    BY <2>1 DEF ReceiveAux
  <2> QED
    BY <2>3, <2>4, <2>5 DEF Typed, TypeOK, machine
<1>3. CASE \E outcome \in Outcomes : Execute(h, outcome)
  <2>1. PICK outcome \in Outcomes : Execute(h, outcome)
    BY <1>3
  <2>2. PICK t : t = handlers[h].task
    OBVIOUS
  <2>3. /\ handlers[h].at = "loop"
        /\ executed' \in [Tasks -> {"no"} \cup Outcomes]
        /\ finished' \in SUBSET [task : Tasks, outcome : Outcomes]
        /\ handlers' \in [Threads -> HandlerType]
        /\ \A g \in Threads : g # h => handlers'[g] = handlers[g]
        /\ handlers'[h].channel = handlers[h].channel
    BY <2>1, <2>2, ExecuteEffect
  <2>4. UNCHANGED <<bank, owner, op, manager, new_tasks, results, scheduler, machine, channels, crashed>>
    BY <2>1 DEF Execute
  <2>5. ChannelsOK'
    BY <1>0, <2>3, <2>4 DEF Typed, ChannelsOK
  <2> QED
    BY <2>3, <2>4, <2>5 DEF Typed, TypeOK, machine
<1>4. CASE ExitHandler(h)
  BY <1>4, ExitEffect, <1>0, Zenon DEF ExitHandler, Typed, ChannelsOK, TypeOK, machine
<1> QED
  BY <1>1, <1>2, <1>3, <1>4 DEF Handler, Outcomes

\* The types hold throughout.
THEOREM TypesHold == Spec => []Typed
<1>1. ASSUME Typed, [Next]_vars PROVE Typed'
  BY <1>1, HandlerTyped, OwnerTyped, LockTyped, SchedulerTyped, Zenon DEF Typed, TypeOK,
     ChannelsOK, vars, threads, machine, Threads, Next
<1> QED
  BY <1>1, InitTyped, PTL DEF Spec

(* ------------------------- the protocol is kept ------------------------- *)

Protocol ==
    /\ InSessionOK /\ AtEndOK /\ BetweenOK /\ AbortedOK /\ HeardOK /\ JoinedOK
    /\ ManagerOK /\ OpOK /\ OwnerOK

\* What sending and receiving do to the queue of the scheduler thread.
LEMMA QueueFacts ==
    ASSUME NEW q \in Seq(MessageType)
    PROVE  /\ Ordinary(<<>>, 1) /\ ~Closes(<<>>)
           /\ \A m \in MessageType, k \in {1, 2} : Ordinary(q, k) /\ ~Closes(q) =>
                 /\ m.kind = "payload" => Ordinary(Append(q, m), k) /\ ~Closes(Append(q, m))
                 /\ m.kind = "close" => Ordinary(Append(q, m), k) /\ Closes(Append(q, m))
           /\ \A m \in MessageType : q = <<>> /\ m.kind = "open" =>
                 Ordinary(Append(q, m), 2) /\ ~Closes(Append(q, m))
           /\ q # <<>> /\ Ordinary(q, 1) =>
                 /\ Head(q).kind \in {"payload", "close"}
                 /\ Head(q).kind = "payload" => Ordinary(Tail(q), 1) /\ (Closes(Tail(q)) <=> Closes(q))
                 /\ Head(q).kind = "close" => Tail(q) = <<>> /\ Closes(q)
           /\ q # <<>> /\ Ordinary(q, 2) /\ Head(q).kind = "open" =>
                 Ordinary(Tail(q), 1) /\ (Closes(Tail(q)) <=> Closes(q))
<1>1. Ordinary(<<>>, 1) /\ ~Closes(<<>>)
  BY DEF Ordinary, Closes
<1>2. ASSUME NEW m \in MessageType
      PROVE  /\ DOMAIN Append(q, m) = 1 .. Len(q) + 1 /\ DOMAIN q = 1 .. Len(q) /\ Len(q) \in Nat
             /\ \A i \in 1 .. Len(q) : Append(q, m)[i] = q[i]
             /\ Append(q, m)[Len(q) + 1] = m /\ Len(Append(q, m)) = Len(q) + 1
  BY AppendFacts
<1>3. ASSUME NEW m \in MessageType, NEW k \in {1, 2}, Ordinary(q, k), ~Closes(q)
      PROVE  /\ m.kind = "payload" => Ordinary(Append(q, m), k) /\ ~Closes(Append(q, m))
             /\ m.kind = "close" => Ordinary(Append(q, m), k) /\ Closes(Append(q, m))
  BY <1>2, <1>3 DEF Ordinary, Closes
<1>4. ASSUME NEW m \in MessageType, q = <<>>, m.kind = "open"
      PROVE  Ordinary(Append(q, m), 2) /\ ~Closes(Append(q, m))
  BY <1>2, <1>4 DEF Ordinary, Closes
<1>5. ASSUME q # <<>>
      PROVE  /\ Head(q) = q[1] /\ Len(Tail(q)) = Len(q) - 1 /\ Len(q) \in Nat /\ Len(q) > 0
             /\ DOMAIN Tail(q) = 1 .. Len(q) - 1 /\ DOMAIN q = 1 .. Len(q)
             /\ \A i \in 1 .. Len(q) - 1 : Tail(q)[i] = q[i + 1]
             /\ \A i \in 2 .. Len(q) : i - 1 \in 1 .. Len(q) - 1 /\ Tail(q)[i - 1] = q[i]
             /\ Len(q) = 1 => Tail(q) = <<>>
  <2>1. PICK r : r = Tail(q)
    BY Zenon
  <2>2. /\ Head(q) = q[1] /\ Len(r) = Len(q) - 1 /\ Len(q) \in Nat /\ Len(q) > 0
        /\ DOMAIN r = 1 .. Len(q) - 1 /\ DOMAIN q = 1 .. Len(q)
        /\ \A i \in 1 .. Len(q) - 1 : r[i] = q[i + 1]
        /\ r \in Seq(MessageType)
    BY <1>5, <2>1, TailFacts
  <2>3. ASSUME NEW i \in 2 .. Len(q)
        PROVE  i - 1 \in 1 .. Len(q) - 1 /\ r[i - 1] = q[i]
    BY <2>2
  <2>4. Len(q) = 1 => r = <<>>
    BY <2>2
  <2> QED
    BY <2>1, <2>2, <2>3, <2>4
<1>t. ASSUME q # <<>>, NEW k \in {1, 2}, Ordinary(q, k), Head(q).kind # "close"
      PROVE  Ordinary(Tail(q), 1) /\ (Closes(Tail(q)) <=> Closes(q))
  <2>1. PICK r : r = Tail(q)
    BY Zenon
  <2>2. /\ q[1].kind # "close" /\ Len(r) = Len(q) - 1 /\ Len(q) \in Nat /\ Len(q) > 0
        /\ DOMAIN r = 1 .. Len(q) - 1 /\ DOMAIN q = 1 .. Len(q)
        /\ \A i \in 1 .. Len(q) - 1 : r[i] = q[i + 1]
        /\ \A i \in 2 .. Len(q) : i - 1 \in 1 .. Len(q) - 1 /\ r[i - 1] = q[i]
    BY <1>5, <1>t, <2>1, Zenon
  <2>3. ASSUME NEW i \in DOMAIN r
        PROVE  /\ r[i].kind \in {"payload", "close"}
               /\ r[i].kind = "close" => i = Len(r)
    <3>1. PICK j \in DOMAIN q : j = i + 1 /\ j >= k /\ r[i] = q[j]
      BY <2>2
    <3>2. q[j].kind \in {"payload", "close"} /\ (q[j].kind = "close" => j = Len(q))
      BY <1>t, <3>1, Zenon DEF Ordinary
    <3> QED
      BY <2>2, <3>1, <3>2
  <2>4. Closes(r) => Closes(q)
    <3>1. \A i \in DOMAIN r : i + 1 \in DOMAIN q
      BY <2>2
    <3> QED
      BY <2>2, <3>1 DEF Closes
  <2>5. Closes(q) => Closes(r)
    BY <2>2 DEF Closes
  <2>6. Ordinary(r, 1)
    BY <2>3, Zenon DEF Ordinary
  <2> QED
    BY <2>1, <2>4, <2>5, <2>6, Zenon
<1>6. ASSUME q # <<>>, Ordinary(q, 1)
      PROVE  /\ Head(q).kind \in {"payload", "close"}
             /\ Head(q).kind = "payload" => Ordinary(Tail(q), 1) /\ (Closes(Tail(q)) <=> Closes(q))
             /\ Head(q).kind = "close" => Tail(q) = <<>> /\ Closes(q)
  BY <1>5, <1>6, <1>t DEF Ordinary, Closes
<1>7. ASSUME q # <<>>, Ordinary(q, 2), Head(q).kind = "open"
      PROVE  Ordinary(Tail(q), 1) /\ (Closes(Tail(q)) <=> Closes(q))
  BY <1>t, <1>7
<1> QED
  BY <1>1, <1>3, <1>4, <1>6, <1>7

\* The types that the protocol needs.
LEMMA ProtocolTypes ==
    ASSUME Typed
    PROVE  /\ bank \in BankType /\ op \in OpType /\ manager \in ManagerType
           /\ scheduler \in SchedulerType /\ owner \in Owners
           /\ new_tasks \in Seq(MessageType) /\ results \in Seq(Result)
           /\ scheduler.result \in Int /\ manager.result \in Int /\ bank.stale \in Int
BY SessionsAssumption DEF Typed, TypeOK, SchedulerType, ManagerType, BankType, Result,
   Tasks, NoResult, Ok

\* Before any bank is replayed the scheduler waits in the pool for a session.
LEMMA ProtocolInit == Init => Protocol
BY SessionsAssumption, SMTT(30) DEF Init, Protocol, InSessionOK, AtEndOK, BetweenOK,
   AbortedOK, HeardOK, JoinedOK, ManagerOK, OpOK, OwnerOK, Threads, NoOp, NoResult, Ok

\* The owner's steps that touch no thread.
LEMMA ProtocolOwner ==
    ASSUME Typed, Protocol, ScheduleStale \/ RetrieveError \/ Pause \/ Terminate \/ TimeoutListener
    PROVE  Protocol'
<1> USE ProtocolTypes
<1>1. /\ op = NoOp
      /\ UNCHANGED <<manager, new_tasks, results, scheduler, handlers, finished>>
  BY DEF ScheduleStale, RetrieveError, Pause, Terminate, TimeoutListener, Unlocked, threads
<1>2. Panicked' <=> Panicked
  BY <1>1 DEF Panicked
<1>3. CASE Pause
  <2>a. InSessionOK' /\ AtEndOK'
    BY <1>3, <1>1, <1>2, Zenon DEF Protocol, InSessionOK, AtEndOK, InSession, Pause, NoOp,
       NoResult, Ok, Receiving
  <2>b. BetweenOK'
    BY <1>3, <1>1, <1>2, Zenon DEF Protocol, BetweenOK, InSession, Answered, Taken, Pooled,
       Opening, Dropping, Pause, NoOp, NoResult, Ok, Receiving
  <2>c. AbortedOK' /\ HeardOK'
    BY <1>3, <1>1, <1>2, Zenon DEF Protocol, AbortedOK, HeardOK, Failing, Dropped, Pause,
       NoOp, NoResult, Ok, Receiving
  <2>d. JoinedOK'
    BY <1>3, <1>1, <1>2, Zenon DEF Protocol, JoinedOK, Pause, NoOp, NoResult, Ok, Receiving
  <2>e. ManagerOK'
    BY <1>3, <1>1, <1>2, Zenon DEF Protocol, ManagerOK, Pause, NoOp, NoResult, Ok, Receiving
  <2>f. OpOK'
    BY <1>3, <1>1, <1>2, Zenon DEF Protocol, OpOK, InSession, Pause, NoOp, NoResult, Ok,
       Receiving
  <2>g. OwnerOK'
    BY <1>3, <1>1, <1>2, Zenon DEF Protocol, OwnerOK, InSession, OpOK, Pause, NoOp,
       NoResult, Ok, Receiving
  <2> QED
    BY <2>a, <2>b, <2>c, <2>d, <2>e, <2>f, <2>g, Zenon DEF Protocol
<1>4. CASE ScheduleStale
  <2>a. InSessionOK' /\ AtEndOK'
    BY <1>4, <1>1, <1>2, Zenon DEF Protocol, InSessionOK, AtEndOK, InSession, ScheduleStale,
       BankType, Result, Tasks, Ok, NoOp, NoResult, Receiving
  <2>b. BetweenOK'
    BY <1>4, <1>1, <1>2, Zenon DEF Protocol, BetweenOK, InSession, Answered, Taken, Pooled,
       Opening, Dropping, ScheduleStale, BankType, Result, Tasks, Ok, NoOp, NoResult,
       Receiving
  <2>c. AbortedOK' /\ HeardOK'
    BY <1>4, <1>1, <1>2, Zenon DEF Protocol, AbortedOK, HeardOK, Failing, Dropped,
       ScheduleStale, BankType, Result, Tasks, Ok, NoOp, NoResult, Receiving
  <2>d. JoinedOK'
    BY <1>4, <1>1, <1>2, Zenon DEF Protocol, JoinedOK, ScheduleStale, BankType, Result,
       Tasks, Ok, NoOp, NoResult, Receiving
  <2>e. ManagerOK'
    BY <1>4, <1>1, <1>2, Zenon DEF Protocol, ManagerOK, ScheduleStale, BankType, Result,
       Tasks, Ok, NoOp, NoResult, Receiving
  <2>f. OpOK'
    BY <1>4, <1>1, <1>2, Zenon DEF Protocol, OpOK, InSession, ScheduleStale, BankType,
       Result, Tasks, Ok, NoOp, NoResult, Receiving
  <2>g. OwnerOK'
    BY <1>4, <1>1, <1>2 DEF Protocol, OwnerOK, InSession, OpOK, ScheduleStale, BankType,
       Result, Tasks, Ok, NoOp, NoResult, Receiving
  <2> QED
    BY <2>a, <2>b, <2>c, <2>d, <2>e, <2>f, <2>g, Zenon DEF Protocol
<1>5. CASE RetrieveError
  <2>1. /\ owner = "failed" /\ owner' = "dead" /\ bank'.slot = bank.slot
        /\ bank'.status = bank.status /\ bank'.stale = bank.stale /\ bank'.armed = bank.armed
        /\ IF bank.status = "active"
           THEN op'.why = "recover" /\ op'.at = "join" /\ op'.take = TRUE
           ELSE op' = op
    BY <1>5 DEF RetrieveError, BankType
  <2>a. InSessionOK' /\ AtEndOK'
    BY <1>1, <1>2, <2>1, Zenon DEF Protocol, InSessionOK, AtEndOK, InSession, OpOK, OwnerOK,
       NoOp, NoResult, Ok, Receiving
  <2>b. BetweenOK'
    BY <1>1, <1>2, <2>1, Zenon DEF Protocol, BetweenOK, InSession, Answered, Taken, Pooled,
       Opening, Dropping, OpOK, OwnerOK, NoOp, NoResult, Ok, Receiving
  <2>c. AbortedOK' /\ HeardOK'
    BY <1>1, <1>2, <2>1, Zenon DEF Protocol, AbortedOK, HeardOK, Failing, Dropped, NoOp,
       NoResult, Ok, Receiving
  <2>d. JoinedOK'
    BY <1>1, <1>2, <2>1, Zenon DEF Protocol, JoinedOK, NoOp, NoResult, Ok, Receiving
  <2>e. ManagerOK'
    BY <1>1, <1>2, <2>1, Zenon DEF Protocol, ManagerOK, NoOp, NoResult, Ok, Receiving
  <2>f. OpOK'
    BY <1>1, <1>2, <2>1, Zenon DEF Protocol, OpOK, InSession, OwnerOK, NoOp, NoResult, Ok,
       Receiving
  <2>g. OwnerOK'
    BY <1>1, <1>2, <2>1, Zenon DEF Protocol, OwnerOK, InSession, OpOK, NoOp, NoResult, Ok,
       Receiving
  <2> QED
    BY <2>a, <2>b, <2>c, <2>d, <2>e, <2>f, <2>g, Zenon DEF Protocol
<1>6. CASE Terminate
  <2>1. /\ owner \in {"open", "paused", "dead"} /\ bank'.slot = bank.slot
        /\ bank'.stale = bank.stale
        /\ IF bank.status = "active"
           THEN op'.why = "terminate" /\ op'.at = "end" /\ op'.take = FALSE /\ UNCHANGED <<bank, owner>>
           ELSE op' = op /\ owner' = "idle" /\ bank'.status = "unavailable" /\ bank'.armed = FALSE
    <3>1. CASE bank.status = "active"
      BY <1>6, <3>1 DEF Terminate, BankType
    <3>2. CASE bank.status # "active"
      BY <1>6, <3>2, Zenon DEF Terminate, BankType
    <3> QED
      BY <3>1, <3>2, Zenon
  <2>a. InSessionOK' /\ AtEndOK'
    BY <1>1, <1>2, <2>1, Zenon DEF Protocol, InSessionOK, AtEndOK, InSession, NoOp,
       NoResult, Ok, Receiving
  <2>b. BetweenOK'
    BY <1>1, <1>2, <2>1, Zenon DEF Protocol, BetweenOK, InSession, Answered, Taken, Pooled,
       Opening, Dropping, NoOp, NoResult, Ok, Receiving
  <2>c. AbortedOK' /\ HeardOK'
    BY <1>1, <1>2, <2>1, Zenon DEF Protocol, AbortedOK, HeardOK, Failing, Dropped, NoOp,
       NoResult, Ok, Receiving
  <2>d. JoinedOK'
    BY <1>1, <1>2, <2>1, Zenon DEF Protocol, JoinedOK, NoOp, NoResult, Ok, Receiving
  <2>e. ManagerOK'
    BY <1>1, <1>2, <2>1, Zenon DEF Protocol, ManagerOK, NoOp, NoResult, Ok, Receiving
  <2>f. OpOK'
    BY <1>1, <1>2, <2>1, Zenon DEF Protocol, OpOK, InSession, NoOp, NoResult, Ok, Receiving
  <2>g. OwnerOK'
    BY <1>1, <1>2, <2>1, Zenon DEF Protocol, OwnerOK, InSession, OpOK, NoOp, NoResult, Ok,
       Receiving
  <2> QED
    BY <2>a, <2>b, <2>c, <2>d, <2>e, <2>f, <2>g, Zenon DEF Protocol
<1>7. CASE TimeoutListener
  <2>a. InSessionOK' /\ AtEndOK'
    BY <1>7, <1>1, <1>2 DEF Protocol, InSessionOK, AtEndOK, InSession, TimeoutListener,
       BankType, NoOp, NoResult, Ok, Receiving, Owners
  <2>b. BetweenOK'
    BY <1>7, <1>1, <1>2 DEF Protocol, BetweenOK, InSession, Answered, Taken, Pooled,
       Opening, Dropping, TimeoutListener, BankType, NoOp, NoResult, Ok, Receiving, Owners
  <2>c. AbortedOK' /\ HeardOK'
    BY <1>7, <1>1, <1>2 DEF Protocol, AbortedOK, HeardOK, Failing, Dropped, TimeoutListener,
       BankType, NoOp, NoResult, Ok, Receiving, Owners
  <2>d. JoinedOK'
    BY <1>7, <1>1, <1>2 DEF Protocol, JoinedOK, TimeoutListener, BankType, NoOp, NoResult,
       Ok, Receiving, Owners
  <2>e. ManagerOK'
    BY <1>7, <1>1, <1>2 DEF Protocol, ManagerOK, TimeoutListener, BankType, NoOp, NoResult,
       Ok, Receiving, Owners
  <2>f. OpOK'
    BY <1>7, <1>1, <1>2 DEF Protocol, OpOK, InSession, TimeoutListener, BankType, NoOp,
       NoResult, Ok, Receiving, Owners
  <2>g. OwnerOK'
    BY <1>7, <1>1, <1>2 DEF Protocol, OwnerOK, InSession, OpOK, TimeoutListener, BankType,
       NoOp, NoResult, Ok, Receiving, Owners
  <2> QED
    BY <2>a, <2>b, <2>c, <2>d, <2>e, <2>f, <2>g, Zenon DEF Protocol
<1> QED
  BY <1>3, <1>4, <1>5, <1>6, <1>7

\* A scheduler is taken, for a new bank or a stale one.
LEMMA ProtocolTake ==
    ASSUME Typed, Typed', Protocol, InstallScheduler \/ Resume
    PROVE  Protocol'
<1> USE ProtocolTypes
<1>0. /\ op = NoOp /\ op' = op /\ bank.status # "active"
      /\ \/ owner = "idle" /\ owner' = "open" /\ bank.slot < Banks
         \/ owner = "resuming" /\ owner' = "resumed" /\ bank'.armed = bank.armed
      /\ bank'.status = "active"
  <2>1. owner = "idle" => bank.status = "unavailable"
    BY DEF Protocol, OwnerOK
  <2>2. owner = "resuming" => bank.status = "stale"
    BY DEF Protocol, OwnerOK
  <2>3. CASE InstallScheduler
    BY <2>1, <2>3 DEF InstallScheduler, Unlocked
  <2>4. CASE Resume
    BY <2>2, <2>4 DEF Resume, Unlocked, BankType
  <2> QED
    BY <2>3, <2>4, Zenon
<1>1. PICK b : Take(b, Ok) /\ b = bank'.slot
  <2>1. owner = "resuming" => bank.stale = Ok
    BY DEF Protocol, OwnerOK
  <2>2. CASE InstallScheduler
    BY <2>2 DEF InstallScheduler
  <2>3. CASE Resume
    BY <2>1, <2>3 DEF Resume, BankType
  <2> QED
    BY <2>2, <2>3
<1>2. CASE FromInner(b, Ok)
  <2>1. /\ manager.pooled /\ ~manager'.pooled /\ manager'.joined = manager.joined
        /\ manager'.result = manager.result
        /\ UNCHANGED <<results, scheduler, handlers, finished>>
        /\ Receiving => new_tasks' = Append(new_tasks, [kind |-> "open", bank |-> b, result |-> Ok])
        /\ ~Receiving => new_tasks' = new_tasks
    BY <1>2 DEF FromInner, ManagerType, threads
  <2>2. Panicked' <=> Panicked
    BY <2>1, Zenon DEF Panicked
  <2>3. ASSUME scheduler.at = "between" PROVE Opening'
    <3>1. PICK m : m = [kind |-> "open", bank |-> b, result |-> Ok]
      BY Zenon
    <3>2. m.kind = "open" /\ m.bank = b /\ m.result = Ok /\ new_tasks = <<>>
          /\ new_tasks' = Append(new_tasks, m)
      BY <2>1, <2>3, <3>1, Zenon DEF Protocol, BetweenOK, Answered, Taken, Pooled, Opening,
         Dropping, InSession, Receiving
    <3>3. m \in MessageType
      BY <1>1, <3>1 DEF Typed, TypeOK, BankType, Result, MessageType
    <3>4. Ordinary(new_tasks', 2) /\ ~Closes(new_tasks') /\ new_tasks' # <<>> /\ Head(new_tasks') = m
      <4>1. Append(<<>>, m) # <<>> /\ Head(Append(<<>>, m)) = m
        BY <3>3
      <4>2. Ordinary(new_tasks', 2) /\ ~Closes(new_tasks')
        BY <3>2, <3>3, QueueFacts, Zenon
      <4> QED
        BY <3>2, <4>1, <4>2
    <3> QED
      BY <1>0, <1>1, <2>1, <2>3, <3>2, <3>4, SMTT(30) DEF Protocol, BetweenOK, Answered,
         Taken, Pooled, Opening, Dropping, InSession, NoOp, ManagerOK
  <2>a. InSessionOK' /\ AtEndOK'
    BY <1>0, <2>1, <2>2, <2>3, Zenon DEF Protocol, InSessionOK, AtEndOK, InSession, NoOp,
       NoResult, Ok, Receiving
  <2>b. BetweenOK'
    BY <1>0, <2>1, <2>2, <2>3, Zenon DEF Protocol, BetweenOK, InSession, Answered, Taken,
       Pooled, Opening, Dropping, NoOp, NoResult, Ok, Receiving
  <2>c. AbortedOK' /\ HeardOK'
    BY <1>0, <2>1, <2>2, <2>3, Zenon DEF Protocol, AbortedOK, HeardOK, Failing, Dropped,
       NoOp, NoResult, Ok, Receiving
  <2>d. JoinedOK'
    BY <1>0, <2>1, <2>2, <2>3, Zenon DEF Protocol, JoinedOK, NoOp, NoResult, Ok, Receiving
  <2>e. ManagerOK'
    BY <1>0, <2>1, <2>2, <2>3 DEF Protocol, ManagerOK, NoOp, NoResult, Ok, Receiving
  <2>f. OpOK'
    BY <1>0, <2>1, <2>2, <2>3, Zenon DEF Protocol, OpOK, InSession, NoOp, NoResult, Ok,
       Receiving
  <2>g. OwnerOK'
    BY <1>0, <2>1, <2>2, <2>3, SMTT(30) DEF Protocol, OwnerOK, InSession, OpOK, ManagerOK,
       JoinedOK, NoOp, NoResult, Ok, Receiving
  <2> QED
    BY <2>a, <2>b, <2>c, <2>d, <2>e, <2>f, <2>g, Zenon DEF Protocol
<1>3. CASE Spawn(b, Ok)
  <2>a. InSessionOK' /\ AtEndOK'
    BY <1>3, QueueFacts, <1>0, Zenon DEF Protocol, InSessionOK, AtEndOK, InSession, Spawn,
       Threads, NoOp, NoResult, Ok, Receiving
  <2>b. BetweenOK'
    BY <1>3, QueueFacts, <1>0, Zenon DEF Protocol, BetweenOK, InSession, Answered, Taken,
       Pooled, Opening, Dropping, Spawn, Threads, NoOp, NoResult, Ok, Receiving
  <2>c. AbortedOK' /\ HeardOK'
    BY <1>3, QueueFacts, <1>0, Zenon DEF Protocol, AbortedOK, HeardOK, Failing, Dropped,
       Spawn, Threads, NoOp, NoResult, Ok, Receiving
  <2>d. JoinedOK'
    BY <1>3, QueueFacts, <1>0, Zenon DEF Protocol, JoinedOK, Spawn, Threads, NoOp, NoResult,
       Ok, Receiving
  <2>e. ManagerOK'
    <3>1. /\ ~manager'.pooled /\ ~manager'.joined /\ manager'.result = NoResult
          /\ results' = <<>> /\ scheduler'.result = Ok /\ bank'.status = "active"
      BY <1>0, <1>3, Zenon DEF Spawn
    <3>2. ~(NoResult > Ok) /\ Ok # NoResult /\ DOMAIN <<>> = {}
      BY DEF NoResult, Ok
    <3> QED
      BY <3>1, <3>2, Zenon DEF ManagerOK
  <2>f. OpOK'
    BY <1>3, QueueFacts, <1>0 DEF Protocol, OpOK, InSession, Spawn, Threads, NoOp, NoResult,
       Ok, Receiving
  <2>g. OwnerOK'
    BY <1>3, QueueFacts, <1>0, Zenon DEF Protocol, OwnerOK, InSession, OpOK, Spawn, Threads,
       NoOp, NoResult, Ok, Receiving
  <2> QED
    BY <2>a, <2>b, <2>c, <2>d, <2>e, <2>f, <2>g, Zenon DEF Protocol
<1> QED
  BY <1>1, <1>2, <1>3, Zenon DEF Take

\* A task is sent.
LEMMA ProtocolSend ==
    ASSUME Typed, Typed', Protocol, Schedule \/ ScheduleResumed
    PROVE  Protocol'
<1> USE ProtocolTypes
<1>1. PICK b \in BankType : /\ SendTask(b) /\ b.slot = bank.slot /\ b.status = bank.status
                            /\ b.stale = bank.stale
  <2>1. CASE Schedule
    BY <2>1 DEF Schedule
  <2>2. CASE ScheduleResumed
    <3>1. [bank EXCEPT !.armed = TRUE] \in BankType
      BY Zenon DEF BankType
    <3> QED
      BY <2>2, <3>1 DEF ScheduleResumed, BankType
  <2> QED
    BY <2>1, <2>2
<1>2. /\ op = NoOp /\ owner \in {"open", "resumed"} /\ bank.status = "active"
      /\ InSession
  BY DEF Schedule, ScheduleResumed, Unlocked, Protocol, OwnerOK, NoOp, InSession
<1>3. /\ UNCHANGED <<op, manager, results, scheduler, handlers, finished>>
      /\ bank'.slot = bank.slot /\ bank'.status = bank.status /\ bank'.stale = bank.stale
      /\ owner' = IF Receiving THEN "open" ELSE "failed"
  BY <1>1, Zenon DEF SendTask, BankType, threads
<1>4. Panicked' <=> Panicked
  BY <1>3 DEF Panicked
<1>5. ~Receiving => new_tasks' = new_tasks
  BY <1>1, Zenon DEF SendTask
<1>6. ASSUME Receiving
      PROVE  /\ new_tasks # <<>> => Head(new_tasks') = Head(new_tasks)
             /\ new_tasks' # <<>>
             /\ \A k \in {1, 2} : Ordinary(new_tasks, k) /\ ~Closes(new_tasks) =>
                   Ordinary(new_tasks', k) /\ ~Closes(new_tasks')
  <2>1. PICK t \in Tasks : t = (b.slot - 1) * TasksPerBank + b.sent + 1
    <3>1. b.slot \in 1 .. Banks /\ b.sent \in 0 .. TasksPerBank - 1
      BY <1>1, <1>2, SessionsAssumption DEF SendTask, BankType, Typed, TypeOK
    <3> QED
      BY <3>1, TaskNumbers
  <2>2. PICK x \in Transactions :
           new_tasks' = Append(new_tasks, [kind |-> "payload", task |-> t, transaction |-> x])
    BY <1>1, <1>6, <2>1, Zenon DEF SendTask
  <2>3. PICK m : m = [kind |-> "payload", task |-> t, transaction |-> x]
    BY Zenon
  <2>4. m \in MessageType /\ m.kind = "payload" /\ new_tasks' = Append(new_tasks, m)
    BY <2>2, <2>3 DEF MessageType
  <2>5. Append(new_tasks, m) # <<>>
        /\ (new_tasks # <<>> => Head(Append(new_tasks, m)) = Head(new_tasks))
    BY <2>4, AppendFacts
  <2> QED
    BY <2>4, <2>5, QueueFacts
<1> QED
  BY <1>2, <1>3, <1>4, <1>5, <1>6, Zenon DEF Protocol, InSessionOK, AtEndOK, BetweenOK,
     AbortedOK, HeardOK, JoinedOK, ManagerOK, OpOK, OwnerOK, InSession, Answered, Taken,
     Pooled, Opening, Dropping, Failing, Dropped, NoOp, NoResult, Ok, Receiving

\* The pool's steps.
LEMMA ProtocolPool ==
    ASSUME Typed, Protocol, DropPooled \/ TakenElsewhere
    PROVE  Protocol'
<1> USE ProtocolTypes
<1>1. CASE DropPooled
  <2>1. /\ op = NoOp /\ owner = "idle" /\ bank.slot = Banks /\ manager.pooled
        /\ UNCHANGED <<bank, owner, results, scheduler, handlers, finished>>
        /\ op'.why = "drop" /\ op'.at = "join" /\ op'.take = TRUE
        /\ ~manager'.pooled /\ manager'.joined = manager.joined /\ manager'.result = manager.result
        /\ Receiving => new_tasks' = Append(new_tasks, [kind |-> "disconnect"])
    BY <1>1 DEF DropPooled, Unlocked, ManagerType, threads
  <2>2. Panicked' <=> Panicked
    BY <2>1, Zenon DEF Panicked
  <2>3. Append(<<>>, [kind |-> "disconnect"]) = <<[kind |-> "disconnect"]>>
    OBVIOUS
  <2>a. InSessionOK' /\ AtEndOK'
    BY <2>1, <2>2, <2>3, Zenon DEF Protocol, InSessionOK, AtEndOK, InSession, NoOp,
       NoResult, Ok, Receiving
  <2>b. BetweenOK'
    BY <2>1, <2>2, <2>3, Zenon DEF Protocol, BetweenOK, InSession, Answered, Taken, Pooled,
       Opening, Dropping, NoOp, NoResult, Ok, Receiving
  <2>c. AbortedOK' /\ HeardOK'
    BY <2>1, <2>2, <2>3, Zenon DEF Protocol, AbortedOK, HeardOK, Failing, Dropped, NoOp,
       NoResult, Ok, Receiving
  <2>d. JoinedOK'
    BY <2>1, <2>2, <2>3, Zenon DEF Protocol, JoinedOK, NoOp, NoResult, Ok, Receiving
  <2>e. ManagerOK'
    BY <2>1, <2>2, <2>3, Zenon DEF Protocol, ManagerOK, NoOp, NoResult, Ok, Receiving
  <2>f. OpOK'
    BY <2>1, <2>2, <2>3, SMTT(30) DEF Protocol, OpOK, InSession, OwnerOK, ManagerOK,
       JoinedOK, NoOp, NoResult, Ok, Receiving
  <2>g. OwnerOK'
    BY <2>1, <2>2, <2>3, Zenon DEF Protocol, OwnerOK, InSession, OpOK, NoOp, NoResult, Ok,
       Receiving
  <2> QED
    BY <2>a, <2>b, <2>c, <2>d, <2>e, <2>f, <2>g, Zenon DEF Protocol
<1>2. CASE TakenElsewhere
  <2>a. InSessionOK' /\ AtEndOK'
    BY <1>2 DEF Protocol, InSessionOK, AtEndOK, InSession, TakenElsewhere, Unlocked,
       ManagerType, Threads, NoOp, NoResult, Ok, Receiving
  <2>b. BetweenOK'
    BY <1>2 DEF Protocol, BetweenOK, InSession, Answered, Taken, Pooled, Opening, Dropping,
       TakenElsewhere, Unlocked, ManagerType, Threads, NoOp, NoResult, Ok, Receiving
  <2>c. AbortedOK' /\ HeardOK'
    BY <1>2 DEF Protocol, AbortedOK, HeardOK, Failing, Dropped, TakenElsewhere, Unlocked,
       ManagerType, Threads, NoOp, NoResult, Ok, Receiving
  <2>d. JoinedOK'
    BY <1>2, SMTT(30) DEF Protocol, JoinedOK, OpOK, OwnerOK, ManagerOK, InSession,
       BetweenOK, Answered, Taken, Pooled, Opening, Dropping, TakenElsewhere, Unlocked,
       ManagerType, Threads, NoOp, NoResult, Ok, Receiving
  <2>e. ManagerOK'
    BY <1>2 DEF Protocol, ManagerOK, TakenElsewhere, Unlocked, ManagerType, Threads, NoOp,
       NoResult, Ok, Receiving
  <2>f. OpOK'
    BY <1>2 DEF Protocol, OpOK, InSession, TakenElsewhere, Unlocked, ManagerType, Threads,
       NoOp, NoResult, Ok, Receiving
  <2>g. OwnerOK'
    BY <1>2 DEF Protocol, OwnerOK, InSession, OpOK, TakenElsewhere, Unlocked, ManagerType,
       Threads, NoOp, NoResult, Ok, Receiving
  <2> QED
    BY <2>a, <2>b, <2>c, <2>d, <2>e, <2>f, <2>g, Zenon DEF Protocol
<1> QED
  BY <1>1, <1>2

\* The steps of the holder of the bank's lock.
LEMMA ProtocolLock ==
    ASSUME Typed, Protocol, LockHolder
    PROVE  Protocol'
<1> USE ProtocolTypes
<1>0. UNCHANGED <<scheduler, handlers, finished>>
  BY Zenon DEF LockHolder, EndSession, ReceiveResult, JoinThreads, JoinPanicked, Return,
     threads
<1>p. Panicked' <=> Panicked
  BY <1>0, Zenon DEF Panicked
<1>1. CASE EndSession
  <2>1. /\ op.at = "end" /\ UNCHANGED <<bank, owner, manager, results>> /\ op'.why = op.why
        /\ \/ /\ manager.joined \/ manager.result # NoResult
              /\ op'.at = "return" /\ op'.take = op.take /\ new_tasks' = new_tasks
           \/ /\ ~manager.joined /\ manager.result = NoResult /\ Receiving
              /\ op'.at = "result" /\ op'.take = op.take
              /\ new_tasks' = Append(new_tasks, [kind |-> "close"])
           \/ /\ ~manager.joined /\ manager.result = NoResult /\ ~Receiving
              /\ op'.at = "join" /\ op'.take /\ new_tasks' = new_tasks
    BY <1>1, Zenon DEF EndSession, OpType
  <2>2. PICK m : m = [kind |-> "close"]
    BY Zenon
  <2>3. m \in MessageType /\ m.kind = "close"
    BY <2>2, Zenon DEF MessageType
  <2>4. /\ Append(new_tasks, m) # <<>>
        /\ new_tasks # <<>> => Head(Append(new_tasks, m)) = Head(new_tasks)
        /\ \A k \in {1, 2} : Ordinary(new_tasks, k) /\ ~Closes(new_tasks) =>
                   Ordinary(Append(new_tasks, m), k) /\ Closes(Append(new_tasks, m))
    BY <2>3, QueueFacts
  <2>5. CASE op'.at = "return"
    <3>a. InSessionOK' /\ AtEndOK'
      BY <1>0, <1>p, <2>1, <2>5, Zenon DEF Protocol, InSessionOK, AtEndOK, InSession, NoOp,
         NoResult, Ok, Receiving
    <3>b. BetweenOK'
      BY <1>0, <1>p, <2>1, <2>5, Zenon DEF Protocol, BetweenOK, InSession, Answered, Taken,
         Pooled, Opening, Dropping, NoOp, NoResult, Ok, Receiving
    <3>c. AbortedOK' /\ HeardOK'
      BY <1>0, <1>p, <2>1, <2>5, Zenon DEF Protocol, AbortedOK, HeardOK, Failing, Dropped,
         NoOp, NoResult, Ok, Receiving
    <3>d. JoinedOK'
      BY <1>0, <1>p, <2>1, <2>5, Zenon DEF Protocol, JoinedOK, NoOp, NoResult, Ok, Receiving
    <3>e. ManagerOK'
      BY <1>0, <1>p, <2>1, <2>5, Zenon DEF Protocol, ManagerOK, NoOp, NoResult, Ok,
         Receiving
    <3>f. OpOK'
      BY <1>0, <1>p, <2>1, <2>5, SMTT(30) DEF Protocol, OpOK, InSession, OwnerOK, ManagerOK,
         JoinedOK, NoOp, NoResult, Ok, Receiving
    <3>g. OwnerOK'
      BY <1>0, <1>p, <2>1, <2>5, Zenon DEF Protocol, OwnerOK, InSession, OpOK, NoOp,
         NoResult, Ok, Receiving
    <3> QED
      BY <3>a, <3>b, <3>c, <3>d, <3>e, <3>f, <3>g, Zenon DEF Protocol
  <2>6. CASE op'.at = "join"
    <3>a. InSessionOK' /\ AtEndOK'
      BY <1>0, <1>p, <2>1, <2>6, Zenon DEF Protocol, InSessionOK, AtEndOK, InSession, NoOp,
         NoResult, Ok, Receiving
    <3>b. BetweenOK'
      BY <1>0, <1>p, <2>1, <2>6, Zenon DEF Protocol, BetweenOK, InSession, Answered, Taken,
         Pooled, Opening, Dropping, NoOp, NoResult, Ok, Receiving
    <3>c. AbortedOK' /\ HeardOK'
      BY <1>0, <1>p, <2>1, <2>6, Zenon DEF Protocol, AbortedOK, HeardOK, Failing, Dropped,
         NoOp, NoResult, Ok, Receiving
    <3>d. JoinedOK'
      BY <1>0, <1>p, <2>1, <2>6, Zenon DEF Protocol, JoinedOK, NoOp, NoResult, Ok, Receiving
    <3>e. ManagerOK'
      BY <1>0, <1>p, <2>1, <2>6, Zenon DEF Protocol, ManagerOK, NoOp, NoResult, Ok,
         Receiving
    <3>f. OpOK'
      BY <1>0, <1>p, <2>1, <2>6, SMTT(30) DEF Protocol, OpOK, InSession, OwnerOK, ManagerOK,
         JoinedOK, NoOp, NoResult, Ok, Receiving
    <3>g. OwnerOK'
      BY <1>0, <1>p, <2>1, <2>6, Zenon DEF Protocol, OwnerOK, InSession, OpOK, NoOp,
         NoResult, Ok, Receiving
    <3> QED
      BY <3>a, <3>b, <3>c, <3>d, <3>e, <3>f, <3>g, Zenon DEF Protocol
  <2>7. CASE op'.at = "result"
    <3>1. /\ ~manager.joined /\ manager.result = NoResult /\ Receiving /\ op'.take = op.take
          /\ new_tasks' = Append(new_tasks, m)
      BY <2>1, <2>2, <2>7, Zenon
    <3>2. InSession' /\ InSession
      BY <2>1, <3>1, Zenon DEF Protocol, InSession, OpOK, ManagerOK
    <3>3. InSessionOK' /\ BetweenOK'
      BY <1>0, <2>1, <2>4, <2>7, <3>1, <3>2, SMTT(30) DEF Protocol, InSessionOK, BetweenOK,
         Answered, Taken, Pooled, Dropping, InSession, NoResult, Ok, Opening
    <3>4. AtEndOK' /\ AbortedOK' /\ HeardOK' /\ JoinedOK'
      <4>a. AtEndOK'
        BY <1>0, <1>p, <2>1, <2>7, <3>1, <3>2, Zenon DEF Protocol, AtEndOK, InSession, NoOp,
           NoResult, Ok, Receiving
      <4>c. AbortedOK' /\ HeardOK'
        BY <1>0, <1>p, <2>1, <2>7, <3>1, <3>2, Zenon DEF Protocol, AbortedOK, HeardOK,
           Failing, Dropped, NoOp, NoResult, Ok, Receiving
      <4>d. JoinedOK'
        BY <1>0, <1>p, <2>1, <2>7, <3>1, <3>2, Zenon DEF Protocol, JoinedOK, NoOp, NoResult,
           Ok, Receiving
      <4> QED
        BY <4>a, <4>c, <4>d, Zenon
    <3>5. ManagerOK' /\ OpOK' /\ OwnerOK'
      <4>e. ManagerOK'
        BY <1>0, <1>p, <2>1, <2>7, <3>1, <3>2, Zenon DEF Protocol, ManagerOK, NoOp,
           NoResult, Ok, Receiving
      <4>f. OpOK'
        BY <1>0, <1>p, <2>1, <2>7, <3>1, <3>2, Zenon DEF Protocol, OpOK, InSession, NoOp,
           NoResult, Ok, Receiving
      <4>g. OwnerOK'
        BY <1>0, <1>p, <2>1, <2>7, <3>1, <3>2, Zenon DEF Protocol, OwnerOK, InSession, OpOK,
           NoOp, NoResult, Ok, Receiving
      <4> QED
        BY <4>e, <4>f, <4>g, Zenon
    <3> QED
      BY <3>3, <3>4, <3>5, Zenon DEF Protocol
  <2> QED
    BY <2>1, <2>5, <2>6, <2>7
<1>2. CASE ReceiveResult
  <2>1. /\ op.at = "result" /\ results # <<>> /\ UNCHANGED <<bank, owner, new_tasks>>
        /\ results' = Tail(results) /\ manager'.pooled = manager.pooled
        /\ manager'.joined = manager.joined /\ manager'.result = Head(results)
        /\ op'.why = op.why /\ op'.take = op.take
        /\ op'.at = IF Head(results) = Ok THEN "return" ELSE "join"
    BY <1>2, Zenon DEF ReceiveResult, OpType, ManagerType
  <2>2. /\ Head(results) = scheduler.result
        /\ \A i \in DOMAIN results' : results'[i] = scheduler.result
        /\ scheduler.result # NoResult /\ (scheduler.result = Ok \/ scheduler.result > Ok)
    BY <2>1 DEF Protocol, ManagerOK, SchedulerType, Result, Tasks, Ok
  <2>3. \A r : results = <<r>> => results' = <<>>
    BY <2>1
  <2>a. InSessionOK' /\ AtEndOK'
    BY <1>0, <1>p, <2>1, <2>2, <2>3, Zenon DEF Protocol, InSessionOK, AtEndOK, InSession,
       NoOp, NoResult, Ok, Receiving
  <2>b. BetweenOK'
    BY <1>0, <1>p, <2>1, <2>2, <2>3, Zenon DEF Protocol, BetweenOK, InSession, Answered,
       Taken, Pooled, Opening, Dropping, NoOp, NoResult, Ok, Receiving
  <2>c. AbortedOK' /\ HeardOK'
    BY <1>0, <1>p, <2>1, <2>2, <2>3 DEF Protocol, AbortedOK, HeardOK, Failing, Dropped,
       OpOK, OwnerOK, InSession, NoOp, NoResult, Ok, Receiving
  <2>d. JoinedOK'
    BY <1>0, <1>p, <2>1, <2>2, <2>3, Zenon DEF Protocol, JoinedOK, NoOp, NoResult, Ok,
       Receiving
  <2>e. ManagerOK'
    BY <1>0, <1>p, <2>1, <2>2, <2>3 DEF Protocol, ManagerOK, OpOK, OwnerOK, InSession, NoOp,
       NoResult, Ok, Receiving
  <2>f. OpOK'
    BY <1>0, <1>p, <2>1, <2>2, <2>3, Zenon DEF Protocol, OpOK, InSession, NoOp, NoResult,
       Ok, Receiving
  <2>g. OwnerOK'
    BY <1>0, <1>p, <2>1, <2>2, <2>3, Zenon DEF Protocol, OwnerOK, InSession, OpOK, NoOp,
       NoResult, Ok, Receiving
  <2> QED
    BY <2>a, <2>b, <2>c, <2>d, <2>e, <2>f, <2>g, Zenon DEF Protocol
<1>3. CASE JoinThreads
  <2>a. InSessionOK' /\ AtEndOK'
    BY <1>3, <1>0, <1>p DEF Protocol, InSessionOK, AtEndOK, InSession, JoinThreads, OpType,
       ManagerType, Threads, Panicked, NoOp, NoResult, Ok, Receiving
  <2>b. BetweenOK'
    BY <1>3, <1>0, <1>p DEF Protocol, BetweenOK, InSession, Answered, Taken, Pooled,
       Opening, Dropping, JoinThreads, OpType, ManagerType, Threads, Panicked, NoOp,
       NoResult, Ok, Receiving
  <2>c. AbortedOK' /\ HeardOK'
    BY <1>3, <1>0, <1>p, Zenon DEF Protocol, AbortedOK, HeardOK, Failing, Dropped,
       JoinThreads, OpType, ManagerType, Threads, Panicked, NoOp, NoResult, Ok, Receiving
  <2>d. JoinedOK'
    BY <1>3, <1>0, <1>p, SMTT(30) DEF Protocol, JoinedOK, OpOK, OwnerOK, ManagerOK,
       InSession, AbortedOK, HeardOK, Failing, Dropped, InSessionOK, AtEndOK, JoinThreads,
       OpType, ManagerType, Threads, Panicked, NoOp, NoResult, Ok, Receiving
  <2>e. ManagerOK'
    BY <1>3, <1>0, <1>p DEF Protocol, ManagerOK, JoinThreads, OpType, ManagerType, Threads,
       Panicked, NoOp, NoResult, Ok, Receiving
  <2>f. OpOK'
    BY <1>3, <1>0, <1>p, SMTT(30) DEF Protocol, OpOK, InSession, OwnerOK, ManagerOK,
       JoinedOK, AbortedOK, HeardOK, Failing, Dropped, InSessionOK, AtEndOK, JoinThreads,
       OpType, ManagerType, Threads, Panicked, NoOp, NoResult, Ok, Receiving
  <2>g. OwnerOK'
    BY <1>3, <1>0, <1>p, Zenon DEF Protocol, OwnerOK, InSession, OpOK, JoinThreads, OpType,
       ManagerType, Threads, Panicked, NoOp, NoResult, Ok, Receiving
  <2> QED
    BY <2>a, <2>b, <2>c, <2>d, <2>e, <2>f, <2>g, Zenon DEF Protocol
<1>4. CASE JoinPanicked
  <2>a. InSessionOK' /\ AtEndOK'
    BY <1>4, <1>0, <1>p, Zenon DEF Protocol, InSessionOK, AtEndOK, InSession, JoinPanicked,
       NoOp, NoResult, Ok, Receiving
  <2>b. BetweenOK'
    BY <1>4, <1>0, <1>p, Zenon DEF Protocol, BetweenOK, InSession, Answered, Taken, Pooled,
       Opening, Dropping, JoinPanicked, NoOp, NoResult, Ok, Receiving
  <2>c. AbortedOK' /\ HeardOK'
    BY <1>4, <1>0, <1>p, Zenon DEF Protocol, AbortedOK, HeardOK, Failing, Dropped,
       JoinPanicked, NoOp, NoResult, Ok, Receiving
  <2>d. JoinedOK'
    BY <1>4, <1>0, <1>p, Zenon DEF Protocol, JoinedOK, JoinPanicked, NoOp, NoResult, Ok,
       Receiving
  <2>e. ManagerOK'
    BY <1>4, <1>0, <1>p, Zenon DEF Protocol, ManagerOK, JoinPanicked, NoOp, NoResult, Ok,
       Receiving
  <2>f. OpOK'
    BY <1>4, <1>0, <1>p, Zenon DEF Protocol, OpOK, InSession, JoinPanicked, NoOp, NoResult,
       Ok, Receiving
  <2>g. OwnerOK'
    BY <1>4, <1>0, <1>p DEF Protocol, OwnerOK, InSession, OpOK, JoinPanicked, NoOp,
       NoResult, Ok, Receiving
  <2> QED
    BY <2>a, <2>b, <2>c, <2>d, <2>e, <2>f, <2>g, Zenon DEF Protocol
<1>5. CASE Return
  <2>1. /\ op.at = "return" /\ op'.at = "none" /\ op'.why = "none" /\ op'.take = FALSE
        /\ UNCHANGED <<new_tasks, results>> /\ bank'.slot = bank.slot
        /\ owner' = IF op.why = "terminate" THEN "idle" ELSE owner
    BY <1>5, Zenon DEF Return, BankType, NoOp
  <2>2. /\ manager.result # NoResult /\ ~manager.pooled
        /\ bank.status = "active" /\ ~manager.joined => manager.result = Ok /\ scheduler.result = Ok
        /\ bank.status = "active" /\ manager.joined => manager.result > Ok
    BY <2>1 DEF Protocol, OpOK, ManagerOK, JoinedOK, ManagerType, Result, Tasks, NoResult,
       Ok
  <2>3. bank.status = "active" /\ ~manager.joined => scheduler.at = "between" \/ Panicked
    BY <2>1, <2>2, SMTT(30) DEF Protocol, InSessionOK, AtEndOK, AbortedOK, InSession,
       Failing, Dropped, SchedulerType, Places, NoResult, Ok
  <2>4. bank.status = "active" /\ scheduler.at = "between" => Taken
    BY <2>1, <2>2, Zenon DEF Protocol, BetweenOK, Answered, Pooled, Opening, Dropping,
       InSession
  <2>6. CASE op.why \in {"terminate", "stale"}
    <3>1. /\ manager'.pooled <=> ~manager.joined
          /\ manager'.joined <=> manager.joined
          /\ manager'.result = NoResult
      BY <1>5, <2>6, Zenon DEF Return, Returned, ManagerType
    <3>2. /\ bank.status = "active" /\ bank'.status # "active"
          /\ op.why = "terminate" => bank'.status = "unavailable" /\ ~bank'.armed
          /\ op.why = "stale" =>
                bank'.status = "stale" /\ bank'.stale = manager.result /\ (bank'.armed <=> bank.armed)
      BY <2>1, <2>6, <1>5, Zenon DEF Protocol, OpOK, Return, BankType
    <3>3. InSessionOK' /\ AtEndOK' /\ AbortedOK' /\ HeardOK'
      <4>a. InSessionOK' /\ AtEndOK'
        BY <1>0, <1>p, <2>1, <2>2, <2>3, <3>1, <3>2, Zenon DEF Protocol, InSessionOK,
           AtEndOK, InSession, NoOp, NoResult, Ok, Receiving
      <4>c. AbortedOK' /\ HeardOK'
        BY <1>0, <1>p, <2>1, <2>2, <2>3, <3>1, <3>2, Zenon DEF Protocol, AbortedOK, HeardOK,
           Failing, Dropped, NoOp, NoResult, Ok, Receiving
      <4> QED
        BY <4>a, <4>c, Zenon
    <3>4. BetweenOK'
      BY <1>0, <2>1, <2>4, <3>1, <3>2, Zenon DEF Protocol, BetweenOK, Taken, Pooled
    <3>5. JoinedOK' /\ ManagerOK'
      BY <1>0, <1>p, <2>1, <2>2, <2>3, <3>1, <3>2, Zenon DEF Protocol, JoinedOK, ManagerOK
    <3>6. OpOK'
      BY <2>1, Zenon DEF OpOK
    <3>7. OwnerOK'
      BY <1>0, <2>1, <2>2, <2>6, <3>2, Zenon DEF Protocol, OwnerOK, Receiving
    <3> QED
      BY <3>3, <3>4, <3>5, <3>6, <3>7 DEF Protocol
  <2>7. CASE op.why \notin {"terminate", "stale"}
    <3>a. InSessionOK' /\ AtEndOK'
      BY <1>5, <2>7, <1>0, <1>p, <2>1, <2>2, <2>3, <2>4, Zenon DEF Protocol, InSessionOK,
         AtEndOK, InSession, Return, BankType, NoOp, NoResult, Ok, Receiving, OpType
    <3>b. BetweenOK'
      BY <1>5, <2>7, <1>0, <1>p, <2>1, <2>2, <2>3, <2>4, Zenon DEF Protocol, BetweenOK,
         InSession, Answered, Taken, Pooled, Opening, Dropping, Return, BankType, NoOp,
         NoResult, Ok, Receiving, OpType
    <3>c. AbortedOK' /\ HeardOK'
      BY <1>5, <2>7, <1>0, <1>p, <2>1, <2>2, <2>3, <2>4, Zenon DEF Protocol, AbortedOK,
         HeardOK, Failing, Dropped, Return, BankType, NoOp, NoResult, Ok, Receiving, OpType
    <3>d. JoinedOK'
      BY <1>5, <2>7, <1>0, <1>p, <2>1, <2>2, <2>3, <2>4, Zenon DEF Protocol, JoinedOK,
         Return, BankType, NoOp, NoResult, Ok, Receiving, OpType
    <3>e. ManagerOK'
      BY <1>5, <2>7, <1>0, <1>p, <2>1, <2>2, <2>3, <2>4, Zenon DEF Protocol, ManagerOK,
         OpOK, OwnerOK, InSession, Return, BankType, NoOp, NoResult, Ok, Receiving, OpType
    <3>f. OpOK'
      BY <1>5, <2>7, <1>0, <1>p, <2>1, <2>2, <2>3, <2>4, Zenon DEF Protocol, OpOK,
         InSession, Return, BankType, NoOp, NoResult, Ok, Receiving, OpType
    <3>g. OwnerOK'
      BY <1>5, <2>7, <1>0, <1>p, <2>1, <2>2, <2>3, <2>4, Zenon DEF Protocol, OwnerOK,
         InSession, OpOK, Return, BankType, NoOp, NoResult, Ok, Receiving, OpType
    <3> QED
      BY <3>a, <3>b, <3>c, <3>d, <3>e, <3>f, <3>g, Zenon DEF Protocol
  <2> QED
    BY <2>6, <2>7
<1> QED
  BY <1>1, <1>2, <1>3, <1>4, <1>5, Zenon DEF LockHolder

\* The steps of the scheduler thread.
LEMMA ProtocolScheduler ==
    ASSUME Typed, Typed', Protocol, SchedulerThread
    PROVE  Protocol'
<1> USE ProtocolTypes
<1>0. UNCHANGED <<bank, owner, op, manager, handlers>>
  BY Zenon DEF SchedulerThread, ReceiveFinished, DispatchUnblocked, ReceiveNew,
     FinishSession, ReceiveOpen, Abort, DropReceiver, ExitScheduler
<1>p. Panicked' <=> Panicked
  BY <1>0 DEF Panicked
<1>1. CASE \E f \in finished : ReceiveFinished(f)
  <2>1. PICK f \in finished : ReceiveFinished(f)
    BY <1>1
  <2>2. /\ scheduler.at = "session" /\ UNCHANGED <<new_tasks, results>> /\ finished' \subseteq finished
        /\ scheduler'.ending = scheduler.ending
        /\ \/ scheduler'.at = "aborted" /\ f.outcome = "panicked" /\ scheduler'.result = scheduler.result
           \/ scheduler'.at = "aborted" /\ scheduler'.result = f.task
           \/ /\ scheduler'.result = scheduler.result
              /\ scheduler'.at = "session" \/ (scheduler'.at = "finished" /\ scheduler.ending)
    BY <2>1, Zenon DEF ReceiveFinished, SchedulerType, Continue
  <2>3. f.outcome = "panicked" => Panicked
    BY <2>2, Zenon DEF Protocol, HeardOK
  <2>4. f.task > Ok /\ f.task # NoResult
    BY SessionsAssumption DEF Typed, TypeOK, Tasks, Ok, NoResult
  <2>a. InSessionOK' /\ AtEndOK'
    BY <1>0, <1>p, <2>2, <2>3, <2>4, Zenon DEF Protocol, InSessionOK, AtEndOK, InSession,
       NoOp, NoResult, Ok, Receiving
  <2>b. BetweenOK'
    BY <1>0, <1>p, <2>2, <2>3, <2>4, Zenon DEF Protocol, BetweenOK, InSession, Answered,
       Taken, Pooled, Opening, Dropping, NoOp, NoResult, Ok, Receiving
  <2>5. InSession /\ results = <<>> /\ scheduler.result = Ok
    BY <2>2 DEF Protocol, InSessionOK
  <2>c. AbortedOK' /\ HeardOK'
    <3>1. AbortedOK'
      BY <1>0, <1>p, <2>2, <2>3, <2>4, <2>5, Zenon DEF AbortedOK, Failing, InSession
    <3>2. HeardOK'
      BY <1>p, <2>2, Zenon DEF Protocol, HeardOK
    <3> QED
      BY <3>1, <3>2, Zenon
  <2>d. JoinedOK'
    BY <1>0, <1>p, <2>2, <2>3, <2>4, Zenon DEF Protocol, JoinedOK, NoOp, NoResult, Ok,
       Receiving
  <2>e. ManagerOK'
    BY <1>0, <1>p, <2>2, <2>4, <2>5 DEF ManagerOK, InSession, NoResult, Ok
  <2>f. OpOK'
    BY <1>0, <1>p, <2>2, <2>3, <2>4, Zenon DEF Protocol, OpOK, InSession, NoOp, NoResult,
       Ok, Receiving
  <2>g. OwnerOK'
    BY <1>0, <1>p, <2>2, <2>3, <2>4, Zenon DEF Protocol, OwnerOK, InSession, OpOK, NoOp,
       NoResult, Ok, Receiving
  <2> QED
    BY <2>a, <2>b, <2>c, <2>d, <2>e, <2>f, <2>g, Zenon DEF Protocol
<1>2. CASE \E t \in ready : DispatchUnblocked(t)
  <2>a. InSessionOK' /\ AtEndOK'
    BY <1>2, <1>0, <1>p DEF Protocol, InSessionOK, AtEndOK, InSession, DispatchUnblocked,
       NoOp, NoResult, Ok, Receiving
  <2>b. BetweenOK'
    BY <1>2, <1>0, <1>p DEF Protocol, BetweenOK, InSession, Answered, Taken, Pooled,
       Opening, Dropping, DispatchUnblocked, NoOp, NoResult, Ok, Receiving
  <2>c. AbortedOK' /\ HeardOK'
    BY <1>2, <1>0, <1>p DEF Protocol, AbortedOK, HeardOK, Failing, Dropped,
       DispatchUnblocked, NoOp, NoResult, Ok, Receiving
  <2>d. JoinedOK'
    BY <1>2, <1>0, <1>p DEF Protocol, JoinedOK, DispatchUnblocked, NoOp, NoResult, Ok,
       Receiving
  <2>e. ManagerOK'
    BY <1>2, <1>0, <1>p DEF Protocol, ManagerOK, DispatchUnblocked, NoOp, NoResult, Ok,
       Receiving
  <2>f. OpOK'
    BY <1>2, <1>0, <1>p, Zenon DEF Protocol, OpOK, InSession, DispatchUnblocked, NoOp,
       NoResult, Ok, Receiving
  <2>g. OwnerOK'
    BY <1>2, <1>0, <1>p, Zenon DEF Protocol, OwnerOK, InSession, OpOK, DispatchUnblocked,
       NoOp, NoResult, Ok, Receiving
  <2> QED
    BY <2>a, <2>b, <2>c, <2>d, <2>e, <2>f, <2>g, Zenon DEF Protocol
<1>3. CASE ReceiveNew
  <2>1. /\ scheduler.at = "session" /\ new_tasks # <<>> /\ UNCHANGED <<results, finished>>
        /\ new_tasks' = Tail(new_tasks) /\ scheduler'.result = scheduler.result
        /\ \/ Head(new_tasks).kind = "payload" /\ scheduler' = scheduler
           \/ /\ Head(new_tasks).kind = "close" /\ scheduler'.ending
              /\ scheduler'.at \in {"session", "finished"}
    BY <1>3, Zenon DEF ReceiveNew, ReceiveTask, ReceiveClose, Continue, SchedulerType
  <2>2. Ordinary(new_tasks, 1) /\ ~scheduler.ending
    BY <2>1 DEF Protocol, InSessionOK
  <2>3. /\ Head(new_tasks).kind = "payload" =>
              Ordinary(new_tasks', 1) /\ (Closes(new_tasks') <=> Closes(new_tasks))
        /\ Head(new_tasks).kind = "close" =>
              new_tasks' = <<>> /\ Closes(new_tasks) /\ Ordinary(new_tasks', 1)
    BY <2>1, <2>2, QueueFacts, Zenon
  <2>a. InSessionOK' /\ AtEndOK'
    BY <1>0, <1>p, <2>1, <2>2, <2>3, Zenon DEF Protocol, InSessionOK, AtEndOK, InSession,
       NoOp, NoResult, Ok, Receiving
  <2>b. BetweenOK'
    BY <1>0, <1>p, <2>1, <2>2, <2>3, Zenon DEF Protocol, BetweenOK, InSession, Answered,
       Taken, Pooled, Opening, Dropping, NoOp, NoResult, Ok, Receiving
  <2>c. AbortedOK' /\ HeardOK'
    BY <1>0, <1>p, <2>1, <2>2, <2>3, Zenon DEF Protocol, AbortedOK, HeardOK, Failing,
       Dropped, NoOp, NoResult, Ok, Receiving
  <2>d. JoinedOK'
    BY <1>0, <1>p, <2>1, <2>2, <2>3, Zenon DEF Protocol, JoinedOK, NoOp, NoResult, Ok,
       Receiving
  <2>e. ManagerOK'
    BY <1>0, <1>p, <2>1, <2>2, <2>3, Zenon DEF Protocol, ManagerOK, NoOp, NoResult, Ok,
       Receiving
  <2>f. OpOK'
    BY <1>0, <1>p, <2>1, <2>2, <2>3, Zenon DEF Protocol, OpOK, InSession, NoOp, NoResult,
       Ok, Receiving
  <2>g. OwnerOK'
    BY <1>0, <1>p, <2>1, <2>2, <2>3, Zenon DEF Protocol, OwnerOK, InSession, OpOK, NoOp,
       NoResult, Ok, Receiving
  <2> QED
    BY <2>a, <2>b, <2>c, <2>d, <2>e, <2>f, <2>g, Zenon DEF Protocol
<1>4. CASE FinishSession
  <2>a. InSessionOK' /\ AtEndOK'
    BY <1>4, <1>0, <1>p, Zenon DEF Protocol, InSessionOK, AtEndOK, InSession, FinishSession,
       SchedulerType, NoOp, NoResult, Ok, Receiving
  <2>b. BetweenOK'
    BY <1>4, <1>0, <1>p, SMTT(30) DEF Protocol, BetweenOK, InSession, Answered, Taken,
       Pooled, Opening, Dropping, OpOK, OwnerOK, ManagerOK, JoinedOK, AbortedOK, HeardOK,
       Failing, Dropped, InSessionOK, AtEndOK, FinishSession, SchedulerType, NoOp, NoResult,
       Ok, Receiving
  <2>c. AbortedOK' /\ HeardOK'
    BY <1>4, <1>0, <1>p DEF Protocol, AbortedOK, HeardOK, Failing, Dropped, FinishSession,
       SchedulerType, NoOp, NoResult, Ok, Receiving
  <2>d. JoinedOK'
    BY <1>4, <1>0, <1>p DEF Protocol, JoinedOK, FinishSession, SchedulerType, NoOp,
       NoResult, Ok, Receiving
  <2>e. ManagerOK'
    BY <1>4, <1>0, <1>p DEF Protocol, ManagerOK, FinishSession, SchedulerType, NoOp,
       NoResult, Ok, Receiving
  <2>f. OpOK'
    BY <1>4, <1>0, <1>p DEF Protocol, OpOK, InSession, FinishSession, SchedulerType, NoOp,
       NoResult, Ok, Receiving
  <2>g. OwnerOK'
    BY <1>4, <1>0, <1>p, Zenon DEF Protocol, OwnerOK, InSession, OpOK, FinishSession,
       SchedulerType, NoOp, NoResult, Ok, Receiving
  <2> QED
    BY <2>a, <2>b, <2>c, <2>d, <2>e, <2>f, <2>g, Zenon DEF Protocol
<1>5. CASE ReceiveOpen
  <2>1. /\ scheduler.at = "between" /\ new_tasks # <<>> /\ UNCHANGED <<results, finished>>
        /\ new_tasks' = Tail(new_tasks) /\ scheduler'.ending = scheduler.ending
        /\ \/ /\ Head(new_tasks).kind = "open" /\ scheduler'.at = "session"
              /\ scheduler'.result = Head(new_tasks).result
           \/ Head(new_tasks).kind = "disconnect" /\ scheduler'.at = "aborted" /\ scheduler'.result = Ok
    BY <1>5, Zenon DEF ReceiveOpen, SchedulerType
  <2>2. Head(<<[kind |-> "disconnect"]>>) = [kind |-> "disconnect"]
        /\ [kind |-> "disconnect"].kind = "disconnect"
    OBVIOUS
  <2>3. CASE Head(new_tasks).kind = "open"
    <3>1. Opening
      BY <2>1, <2>2, <2>3, Zenon DEF Protocol, BetweenOK, Answered, Taken, Pooled, Dropping
    <3>2. Ordinary(new_tasks', 1) /\ (Closes(new_tasks') <=> Closes(new_tasks))
      BY <2>1, <2>3, <3>1, QueueFacts, Zenon DEF Opening
    <3>3. ~scheduler.ending
      BY <2>1, Zenon DEF Protocol, BetweenOK
    <3>a. InSessionOK' /\ AtEndOK'
      BY <1>0, <2>1, <2>3, <3>1, <3>2, <3>3, Zenon DEF InSessionOK, AtEndOK, Opening,
         InSession
    <3>b. BetweenOK'
      BY <1>0, <1>p, <2>1, <2>3, <3>1, <3>2, Zenon DEF Protocol, BetweenOK, InSession,
         Answered, Taken, Pooled, Opening, Dropping, NoOp, NoResult, Ok, Receiving
    <3>c. AbortedOK' /\ HeardOK'
      BY <1>0, <1>p, <2>1, <2>3, <3>1, <3>2, Zenon DEF Protocol, AbortedOK, HeardOK,
         Failing, Dropped, NoOp, NoResult, Ok, Receiving
    <3>d. JoinedOK'
      BY <1>0, <1>p, <2>1, <2>3, <3>1, <3>2, Zenon DEF Protocol, JoinedOK, NoOp, NoResult,
         Ok, Receiving
    <3>e. ManagerOK'
      BY <1>0, <2>1, <2>3, <3>1 DEF ManagerOK, Opening, InSession, NoResult, Ok
    <3>f. OpOK'
      BY <1>0, <1>p, <2>1, <2>3, <3>1, <3>2, Zenon DEF Protocol, OpOK, InSession, NoOp,
         NoResult, Ok, Receiving
    <3>g. OwnerOK'
      BY <1>0, <1>p, <2>1, <2>3, <3>1, <3>2, Zenon DEF Protocol, OwnerOK, InSession, OpOK,
         NoOp, NoResult, Ok, Receiving
    <3> QED
      BY <3>a, <3>b, <3>c, <3>d, <3>e, <3>f, <3>g, Zenon DEF Protocol
  <2>4. CASE Head(new_tasks).kind = "disconnect"
    <3>1. Dropping
      BY <2>1, <2>4, Zenon DEF Protocol, BetweenOK, Answered, Taken, Pooled, Opening
    <3>a. InSessionOK' /\ AtEndOK'
      BY <2>1, <2>4, <1>0, <1>p, Zenon DEF Protocol, InSessionOK, AtEndOK, InSession, NoOp,
         NoResult, Ok, Receiving
    <3>b. BetweenOK'
      BY <2>1, <2>4, <1>0, <1>p, Zenon DEF Protocol, BetweenOK, InSession, Answered, Taken,
         Pooled, Opening, Dropping, NoOp, NoResult, Ok, Receiving
    <3>c. AbortedOK' /\ HeardOK'
      BY <2>1, <2>4, <1>0, <3>1, Zenon DEF AbortedOK, HeardOK, Dropped, Dropping
    <3>d. JoinedOK'
      BY <2>1, <2>4, <1>0, <1>p, Zenon DEF Protocol, JoinedOK, NoOp, NoResult, Ok, Receiving
    <3>e. ManagerOK'
      BY <2>1, <2>4, <1>0, <3>1 DEF ManagerOK, Dropping, NoResult, Ok
    <3>f. OpOK'
      BY <2>1, <2>4, <1>0, <1>p, Zenon DEF Protocol, OpOK, InSession, NoOp, NoResult, Ok,
         Receiving
    <3>g. OwnerOK'
      BY <2>1, <2>4, <1>0, <1>p, Zenon DEF Protocol, OwnerOK, InSession, OpOK, NoOp,
         NoResult, Ok, Receiving
    <3> QED
      BY <3>a, <3>b, <3>c, <3>d, <3>e, <3>f, <3>g, Zenon DEF Protocol
  <2> QED
    BY <2>1, <2>3, <2>4
<1>6. CASE Abort
  <2>a. InSessionOK' /\ AtEndOK'
    BY <1>6, <1>0, <1>p DEF Protocol, InSessionOK, AtEndOK, InSession, Abort, SchedulerType,
       Receiving
  <2>b. BetweenOK'
    BY <1>6, <1>0, <1>p DEF Protocol, BetweenOK, InSession, Answered, Taken, Pooled,
       Opening, Dropping, Abort, SchedulerType, Receiving
  <2>c. AbortedOK' /\ HeardOK'
    BY <1>6, <1>0, <1>p DEF Protocol, AbortedOK, HeardOK, Failing, Dropped, Abort,
       SchedulerType, Receiving
  <2>d. JoinedOK'
    BY <1>6, <1>0, <1>p DEF Protocol, JoinedOK, Abort, SchedulerType, Receiving
  <2>e. ManagerOK'
    BY <1>6, <1>0, <1>p DEF Protocol, ManagerOK, Abort, SchedulerType, Receiving
  <2>f. OpOK'
    BY <1>6, <1>0, <1>p DEF Protocol, OpOK, InSession, Abort, SchedulerType, Receiving
  <2>g. OwnerOK'
    BY <1>6, <1>0, <1>p, Zenon DEF Protocol, OwnerOK, InSession, OpOK, Abort, SchedulerType,
       Receiving
  <2> QED
    BY <2>a, <2>b, <2>c, <2>d, <2>e, <2>f, <2>g, Zenon DEF Protocol
<1>7. CASE DropReceiver \/ ExitScheduler
  <2>a. InSessionOK' /\ AtEndOK'
    BY <1>7, <1>0, <1>p DEF Protocol, InSessionOK, AtEndOK, InSession, DropReceiver,
       ExitScheduler, SchedulerType, NoOp, NoResult, Ok, Receiving
  <2>b. BetweenOK'
    BY <1>7, <1>0, <1>p DEF Protocol, BetweenOK, InSession, Answered, Taken, Pooled,
       Opening, Dropping, DropReceiver, ExitScheduler, SchedulerType, NoOp, NoResult, Ok,
       Receiving
  <2>c. AbortedOK' /\ HeardOK'
    BY <1>7, <1>0, <1>p DEF Protocol, AbortedOK, HeardOK, Failing, Dropped, DropReceiver,
       ExitScheduler, SchedulerType, NoOp, NoResult, Ok, Receiving
  <2>d. JoinedOK'
    BY <1>7, <1>0, <1>p DEF Protocol, JoinedOK, DropReceiver, ExitScheduler, SchedulerType,
       NoOp, NoResult, Ok, Receiving
  <2>e. ManagerOK'
    BY <1>7, <1>0, <1>p DEF Protocol, ManagerOK, DropReceiver, ExitScheduler, SchedulerType,
       NoOp, NoResult, Ok, Receiving
  <2>f. OpOK'
    BY <1>7, <1>0, <1>p, Zenon DEF Protocol, OpOK, InSession, DropReceiver, ExitScheduler,
       SchedulerType, NoOp, NoResult, Ok, Receiving
  <2>g. OwnerOK'
    BY <1>7, <1>0, <1>p, Zenon DEF Protocol, OwnerOK, InSession, OpOK, DropReceiver,
       ExitScheduler, SchedulerType, NoOp, NoResult, Ok, Receiving
  <2> QED
    BY <2>a, <2>b, <2>c, <2>d, <2>e, <2>f, <2>g, Zenon DEF Protocol
<1> QED
  BY <1>1, <1>2, <1>3, <1>4, <1>5, <1>6, <1>7, Zenon DEF SchedulerThread

\* The steps of a handler.
LEMMA ProtocolHandler ==
    ASSUME Typed, Protocol, NEW h \in Threads, Handler(h)
    PROVE  Protocol'
<1> USE ProtocolTypes
<1>1. UNCHANGED <<bank, owner, op, manager, new_tasks, results, scheduler>>
  BY Zenon DEF Handler, ReceivePayload, ReceiveAux, Execute, ExitHandler
<1>2. /\ handlers[h].at = "loop" /\ \A g \in Threads : g # h => handlers'[g] = handlers[g]
      /\ \/ finished' = finished /\ handlers'[h].at # "panicked"
         \/ \E f : finished' \subseteq finished \cup {f} /\ f.outcome # "panicked"
                   /\ handlers'[h].at # "panicked"
         \/ handlers'[h].at = "panicked"
  <2>1. CASE ReceivePayload(h)
    BY <2>1, ReceivePayloadEffect, Zenon DEF ReceivePayload
  <2>2. CASE \E t \in running : ReceiveAux(h, t)
    BY <2>2, ReceiveAuxEffect, Zenon DEF ReceiveAux
  <2>3. CASE \E outcome \in Outcomes : Execute(h, outcome)
    <3>1. PICK outcome \in Outcomes : Execute(h, outcome)
      BY <2>3
    <3>2. /\ handlers[h].at = "loop" /\ \A g \in Threads : g # h => handlers'[g] = handlers[g]
          /\ finished' = IF scheduler.at = "exited" THEN finished
                         ELSE finished \cup {[task |-> handlers[h].task, outcome |-> outcome]}
          /\ handlers'[h].at = IF outcome = "panicked" THEN "panicked"
                               ELSE IF scheduler.at = "exited" THEN "exited" ELSE "loop"
      BY <3>1, ExecuteEffect, Zenon
    <3>3. PICK f : f = [task |-> handlers[h].task, outcome |-> outcome]
      BY Zenon
    <3>4. f.outcome = outcome
      BY <3>3
    <3> QED
      BY <3>2, <3>3, <3>4, Zenon
  <2>4. CASE ExitHandler(h)
    BY <2>4, ExitEffect, Zenon DEF ExitHandler
  <2> QED
    BY <2>1, <2>2, <2>3, <2>4 DEF Handler, Outcomes
<1>3. Panicked => Panicked'
  BY <1>2, Zenon DEF Panicked, Threads
<1>4. handlers'[h].at = "panicked" => Panicked'
  BY Zenon DEF Panicked, Threads
<1>5. HeardOK'
  BY <1>1, <1>2, <1>3, <1>4 DEF HeardOK, Protocol
<1>6. JoinedOK' /\ ~manager.joined
  BY <1>1, <1>2, Zenon DEF Protocol, JoinedOK
<1>7. InSessionOK' /\ AtEndOK' /\ BetweenOK' /\ OpOK' /\ OwnerOK'
  <2>a. InSessionOK' /\ AtEndOK'
    BY <1>1, Zenon DEF Protocol, InSessionOK, AtEndOK, InSession, NoOp, NoResult, Ok,
       Receiving
  <2>b. BetweenOK'
    BY <1>1, Zenon DEF Protocol, BetweenOK, InSession, Answered, Taken, Pooled, Opening,
       Dropping, NoOp, NoResult, Ok, Receiving
  <2>f. OpOK'
    BY <1>1, Zenon DEF Protocol, OpOK, InSession, NoOp, NoResult, Ok, Receiving
  <2>g. OwnerOK'
    BY <1>1 DEF Protocol, OwnerOK, InSession, OpOK, NoOp, NoResult, Ok, Receiving
  <2> QED
    BY <2>a, <2>b, <2>f, <2>g, Zenon
<1>8. AbortedOK' /\ ManagerOK'
  <2>c. AbortedOK'
    BY <1>1, <1>3, Zenon DEF Protocol, AbortedOK, Failing, Dropped, NoOp, NoResult, Ok,
       Receiving
  <2>e. ManagerOK'
    BY <1>1, <1>3 DEF Protocol, ManagerOK, NoOp, NoResult, Ok, Receiving
  <2> QED
    BY <2>c, <2>e, Zenon
<1> QED
  BY <1>5, <1>6, <1>7, <1>8 DEF Protocol

\* The protocol between the threads is kept.
THEOREM ProtocolHolds == Spec => []Protocol
<1>1. ASSUME Typed, Typed', Protocol, [Next]_vars PROVE Protocol'
  <2>1. CASE UNCHANGED vars
    <3>a. InSessionOK' /\ AtEndOK'
      BY <2>1, <1>1, Zenon DEF Protocol, InSessionOK, AtEndOK, InSession, vars, threads,
         Panicked, NoOp, NoResult, Ok, Receiving
    <3>b. BetweenOK'
      BY <2>1, <1>1, Zenon DEF Protocol, BetweenOK, InSession, Answered, Taken, Pooled,
         Opening, Dropping, vars, threads, Panicked, NoOp, NoResult, Ok, Receiving
    <3>c. AbortedOK' /\ HeardOK'
      BY <2>1, <1>1, Zenon DEF Protocol, AbortedOK, HeardOK, Failing, Dropped, vars,
         threads, Panicked, NoOp, NoResult, Ok, Receiving
    <3>d. JoinedOK'
      BY <2>1, <1>1, Zenon DEF Protocol, JoinedOK, vars, threads, Panicked, NoOp, NoResult,
         Ok, Receiving
    <3>e. ManagerOK'
      BY <2>1, <1>1, Zenon DEF Protocol, ManagerOK, vars, threads, Panicked, NoOp, NoResult,
         Ok, Receiving
    <3>f. OpOK'
      BY <2>1, <1>1, Zenon DEF Protocol, OpOK, InSession, vars, threads, Panicked, NoOp,
         NoResult, Ok, Receiving
    <3>g. OwnerOK'
      BY <2>1, <1>1 DEF Protocol, OwnerOK, InSession, OpOK, vars, threads, Panicked, NoOp,
         NoResult, Ok, Receiving
    <3> QED
      BY <3>a, <3>b, <3>c, <3>d, <3>e, <3>f, <3>g, Zenon DEF Protocol
  <2>2. CASE \E h \in 1 .. Handlers : Handler(h)
    BY <1>1, <2>2, ProtocolHandler DEF Threads
  <2>3. CASE Owner \/ TimeoutListener
    BY <1>1, <2>3, ProtocolOwner, ProtocolTake, ProtocolSend DEF Owner
  <2> QED
    BY <1>1, <2>1, <2>2, <2>3, ProtocolPool, ProtocolLock, ProtocolScheduler, Zenon DEF Next
<1> QED
  BY <1>1, ProtocolInit, TypesHold, PTL DEF Spec

\* None of the assertions, expects and unreachables that the code relies on between
\* the replay thread, the cleaner, the scheduler thread and its handlers is
\* reached, unless a handler has panicked: the panic is what the code itself
\* turns into a panic of whoever joins the threads.
THEOREM NoAssertionFails == Spec => []AssertionsHold
<1>1. ASSUME Typed, Protocol, ~Panicked
      PROVE  AssertionsHold
  <2>1. owner = "resumed" => bank.status = "active"
    BY <1>1, Zenon DEF Protocol, OwnerOK, InSession
  <2>2. owner = "resuming" => bank.status = "stale" /\ bank.stale = Ok
    BY <1>1, Zenon DEF Protocol, OwnerOK
  <2>3. owner = "failed" /\ bank.status = "stale" => bank.stale > Ok
    BY <1>1, Zenon DEF Protocol, OwnerOK
  <2>4. manager.pooled => Receiving /\ ~manager.joined /\ manager.result = NoResult
    BY <1>1 DEF Protocol, ManagerOK, JoinedOK, BetweenOK, Answered, Taken, Pooled, Opening,
       Dropping, InSession, Receiving
  <2>5. scheduler.at = "session" /\ scheduler.ending => new_tasks = <<>>
    BY <1>1, Zenon DEF Protocol, InSessionOK
  <2>6. scheduler.at = "session" /\ new_tasks # <<>> =>
           Head(new_tasks).kind \in {"payload", "close"}
    BY <1>1, TailFacts DEF Protocol, InSessionOK, Ordinary, Typed, TypeOK
  <2>7. scheduler.at = "between" /\ new_tasks # <<>> =>
           Head(new_tasks).kind \in {"open", "disconnect"}
    BY <1>1 DEF Protocol, BetweenOK, Answered, Taken, Pooled, Opening, Dropping
  <2>8. op.at = "result" \/ (op.at = "join" /\ op.take) => manager.result = NoResult
    BY <1>1, Zenon DEF Protocol, OpOK, InSession
  <2>9. op.at = "return" => manager.result # NoResult /\ (op.why = "recover" => manager.result > Ok)
    BY <1>1, Zenon DEF Protocol, OpOK, JoinedOK
  <2>10. op.at = "return" /\ op.why = "drop" => manager.result = Ok
    BY <1>1, Zenon DEF Protocol, OpOK
  <2> QED
    BY <2>1, <2>2, <2>3, <2>4, <2>5, <2>6, <2>7, <2>8, <2>9, <2>10, Zenon DEF AssertionsHold
<1>2. Typed /\ Protocol => AssertionsHold
  BY <1>1, Zenon DEF AssertionsHold
<1> QED
  BY <1>2, TypesHold, ProtocolHolds, PTL

(* ------------------------- what each step does -------------------------- *)

\* The last message has gone to the end of a queue.
LEMMA HoldsGrow ==
    ASSUME NEW p, NEW q, NEW n \in Nat, DOMAIN p = 1 .. n, DOMAIN q = 1 .. n + 1,
           \A i \in 1 .. n : q[i] = p[i]
    PROVE  /\ \A t : Holds(q, t) <=> Holds(p, t) \/ IsTask(q[n + 1], t)
           /\ Once(p) /\ (\A t \in Tasks : IsTask(q[n + 1], t) => ~Holds(p, t)) => Once(q)
BY DEF Holds, Once

\* The first message has been taken from a queue.
LEMMA HoldsShift ==
    ASSUME NEW p, NEW q, NEW n \in Nat, n > 0, DOMAIN p = 1 .. n, DOMAIN q = 1 .. n - 1,
           \A i \in 1 .. n - 1 : q[i] = p[i + 1]
    PROVE  /\ \A t : Holds(p, t) <=> Holds(q, t) \/ IsTask(p[1], t)
           /\ Once(p) => Once(q) /\ \A t \in Tasks : IsTask(p[1], t) => ~Holds(q, t)
<1>1. \A i \in DOMAIN q : i + 1 \in DOMAIN p /\ q[i] = p[i + 1] /\ i + 1 # 1
  OBVIOUS
<1>2. \A i \in DOMAIN p : i = 1 \/ (i - 1 \in DOMAIN q /\ q[i - 1] = p[i])
  OBVIOUS
<1>3. 1 \in DOMAIN p
  OBVIOUS
<1>4. \A t : Holds(p, t) <=> Holds(q, t) \/ IsTask(p[1], t)
  BY <1>1, <1>2, <1>3, Zenon DEF Holds
<1>5. ASSUME Once(p) PROVE Once(q)
  BY <1>1, <1>5 DEF Once
<1>6. ASSUME Once(p), NEW t \in Tasks, IsTask(p[1], t) PROVE ~Holds(q, t)
  BY <1>1, <1>3, <1>6, Zenon DEF Once, Holds
<1> QED
  BY <1>4, <1>5, <1>6, Zenon

\* A message that is no task changes nothing for the tasks.
LEMMA QueueMessage ==
    ASSUME Typed, NEW m \in MessageType, m.kind # "payload",
           new_tasks' = new_tasks \/ new_tasks' = Append(new_tasks, m)
    PROVE  /\ \A t : Queued(t)' <=> Queued(t)
           /\ Once(new_tasks) => Once(new_tasks')
<1>0. new_tasks \in Seq(MessageType)
  BY DEF Typed, TypeOK
<1>1. CASE new_tasks' = new_tasks
  BY <1>1, Zenon DEF Queued, Holds
<1>2. CASE new_tasks' = Append(new_tasks, m)
  <2>1. PICK n \in Nat : n = Len(new_tasks)
    BY <1>0
  <2>2. /\ DOMAIN new_tasks = 1 .. n /\ DOMAIN new_tasks' = 1 .. n + 1
        /\ \A i \in 1 .. n : new_tasks'[i] = new_tasks[i]
        /\ new_tasks'[n + 1] = m
    BY <1>0, <1>2, <2>1, AppendFacts
  <2>3. \A t : ~IsTask(m, t)
    BY DEF IsTask
  <2>4. /\ \A t : Holds(new_tasks', t) <=> Holds(new_tasks, t) \/ IsTask(m, t)
        /\ Once(new_tasks) /\ (\A t \in Tasks : IsTask(m, t) => ~Holds(new_tasks, t)) => Once(new_tasks')
    BY <2>2, HoldsGrow, Zenon
  <2> QED
    BY <2>3, <2>4, Zenon DEF Queued
<1> QED
  BY <1>1, <1>2, Zenon

\* What the owner's step does that sends a task.
LEMMA SendEffect ==
    ASSUME Typed, Schedule \/ ScheduleResumed
    PROVE  /\ UNCHANGED <<op, manager, results, threads, executed, crashed>>
           /\ bank'.slot = bank.slot /\ bank'.status = bank.status /\ bank'.stale = bank.stale
           /\ bank'.verdict = bank.verdict
           /\ \/ /\ Receiving /\ Last' = Last + 1 /\ Last + 1 \in Tasks
                 /\ BankOf(Last + 1) = bank.slot
                 /\ \A t : Queued(t)' <=> Queued(t) \/ t = Last + 1
                 /\ Once(new_tasks) /\ ~Queued(Last + 1) => Once(new_tasks')
              \/ /\ ~Receiving /\ bank'.sent = bank.sent /\ UNCHANGED new_tasks
<1> USE SessionsAssumption
<1>0. new_tasks \in Seq(MessageType) /\ bank \in BankType
  BY Zenon DEF Typed, TypeOK
<1>1. PICK b \in BankType :
         /\ SendTask(b) /\ b.slot = bank.slot /\ b.status = bank.status /\ b.stale = bank.stale
         /\ b.verdict = bank.verdict /\ b.sent = bank.sent
  <2>1. CASE Schedule
    BY <1>0, <2>1 DEF Schedule
  <2>2. CASE ScheduleResumed
    <3>1. PICK b : b = [bank EXCEPT !.armed = TRUE]
      BY Zenon
    <3>2. /\ b \in BankType /\ b.slot = bank.slot /\ b.status = bank.status /\ b.stale = bank.stale
          /\ b.verdict = bank.verdict /\ b.sent = bank.sent
      BY <1>0, <3>1, Zenon DEF BankType
    <3> QED
      BY <2>2, <3>1, <3>2, Zenon DEF ScheduleResumed
  <2> QED
    BY <2>1, <2>2, Zenon
<1>2. b.slot \in 1 .. Banks /\ b.sent \in 0 .. TasksPerBank - 1
  BY <1>1 DEF Schedule, ScheduleResumed, SendTask, BankType, Typed, TypeOK
<1>3. UNCHANGED <<op, manager, results, threads, executed, crashed>>
  BY <1>1, Zenon DEF SendTask
<1>4. CASE Receiving
  <2>1. PICK t \in Tasks : t = (b.slot - 1) * TasksPerBank + b.sent + 1 /\ BankOf(t) = b.slot
    BY <1>2, TaskNumbers, Zenon
  <2>2. PICK x \in Transactions :
           /\ new_tasks' = Append(new_tasks,
                 [kind |-> "payload", task |-> (b.slot - 1) * TasksPerBank + b.sent + 1,
                  transaction |-> x])
           /\ bank' = [b EXCEPT !.sent = @ + 1]
    BY <1>1, <1>4, Zenon DEF SendTask
  <2>3. PICK m : m = [kind |-> "payload", task |-> t, transaction |-> x]
    BY Zenon
  <2>4. m \in MessageType /\ m.kind = "payload" /\ m.task = t /\ new_tasks' = Append(new_tasks, m)
    BY <2>1, <2>2, <2>3 DEF MessageType
  <2>5. /\ bank'.slot = bank.slot /\ bank'.status = bank.status /\ bank'.stale = bank.stale
        /\ bank'.verdict = bank.verdict /\ bank'.sent = bank.sent + 1
    BY <1>1, <2>2, Zenon DEF BankType
  <2>6. t = Last + 1 /\ Last' = Last + 1
    BY <1>1, <1>2, <2>5, <2>1 DEF Last
  <2>7. PICK n \in Nat : n = Len(new_tasks)
    BY <1>0
  <2>8. /\ DOMAIN new_tasks = 1 .. n /\ DOMAIN new_tasks' = 1 .. n + 1
        /\ \A i \in 1 .. n : new_tasks'[i] = new_tasks[i]
        /\ new_tasks'[n + 1] = m
    <3>1. new_tasks \in Seq(MessageType) /\ m \in MessageType /\ new_tasks' = Append(new_tasks, m)
      BY <1>0, <2>4, Zenon
    <3>2. /\ DOMAIN new_tasks = 1 .. Len(new_tasks)
          /\ DOMAIN Append(new_tasks, m) = 1 .. Len(new_tasks) + 1
          /\ \A i \in 1 .. Len(new_tasks) : Append(new_tasks, m)[i] = new_tasks[i]
          /\ Append(new_tasks, m)[Len(new_tasks) + 1] = m
      BY <3>1, AppendFacts
    <3> QED
      BY <2>7, <3>1, <3>2, Zenon
  <2>9. /\ \A u : Holds(new_tasks', u) <=> Holds(new_tasks, u) \/ IsTask(m, u)
        /\ Once(new_tasks) /\ (\A u \in Tasks : IsTask(m, u) => ~Holds(new_tasks, u)) => Once(new_tasks')
    BY <2>8, HoldsGrow
  <2>10. \A u : IsTask(m, u) <=> u = t
    BY <2>4, Zenon DEF IsTask
  <2>11. /\ \A u : Queued(u)' <=> Queued(u) \/ u = t
         /\ Once(new_tasks) /\ ~Queued(t) => Once(new_tasks')
    BY <2>9, <2>10, Zenon DEF Queued
  <2> QED
    BY <1>1, <1>3, <1>4, <2>1, <2>5, <2>6, <2>11, Zenon
<1>5. CASE ~Receiving
  BY <1>1, <1>3, <1>5, Zenon DEF SendTask
<1> QED
  BY <1>4, <1>5, Zenon

\* The steps of the owner and of the lock holder that send nothing but the end of a
\* session do not touch the tasks.
LEMMA QuietEffect ==
    ASSUME Typed,
           \/ ScheduleStale \/ RetrieveError \/ Pause \/ Terminate \/ TimeoutListener
           \/ DropPooled \/ LockHolder
    PROVE  /\ UNCHANGED <<threads, executed>>
           /\ bank'.slot = bank.slot /\ bank'.sent = bank.sent
           /\ \A t : Queued(t)' <=> Queued(t)
           /\ Once(new_tasks) => Once(new_tasks')
<1>0. bank \in BankType
  BY DEF Typed, TypeOK
<1>1. UNCHANGED <<threads, executed>>
  BY SMTT(30) DEF ScheduleStale, RetrieveError, Pause, Terminate, TimeoutListener,
     DropPooled, LockHolder, EndSession, ReceiveResult, JoinThreads, JoinPanicked, Return
<1>2. bank'.slot = bank.slot /\ bank'.sent = bank.sent
  BY <1>0, Zenon DEF ScheduleStale, Pause, DropPooled, EndSession, ReceiveResult,
     JoinThreads, JoinPanicked, RetrieveError, BankType, Terminate, TimeoutListener, Return,
     LockHolder
<1>3. PICK m \in MessageType : m.kind # "payload" /\ (new_tasks' = new_tasks \/ new_tasks' = Append(new_tasks, m))
  BY SMTT(30) DEF MessageType, ScheduleStale, RetrieveError, Pause, Terminate,
     TimeoutListener, DropPooled, LockHolder, EndSession, ReceiveResult, JoinThreads,
     JoinPanicked, Return
<1>4. (\A t : Queued(t)' <=> Queued(t)) /\ (Once(new_tasks) => Once(new_tasks'))
  BY <1>3, QueueMessage, Zenon
<1> QED
  BY <1>1, <1>2, <1>4, Zenon

\* Taking a scheduler is the owner's step to a new bank, or back to a stale one.
LEMMA TakeEffect ==
    ASSUME Typed, Protocol, InstallScheduler \/ Resume
    PROVE  /\ \/ FromInner(bank'.slot, Ok) \/ Spawn(bank'.slot, Ok)
           /\ bank'.status = "active" /\ bank.status # "active" /\ op.at = "none" /\ op' = op
           /\ Last \in Int /\ Last' \in Int /\ Last <= Last' /\ bank'.slot \in 0 .. Banks
           /\ \/ /\ Resume /\ executed' = executed /\ bank'.slot = bank.slot /\ bank'.sent = bank.sent
                 /\ Last' = Last /\ bank'.verdict = bank.verdict
                 /\ bank.status = "stale" /\ bank.stale = Ok /\ bank'.stale = NoResult
              \/ /\ InstallScheduler /\ \A t \in Tasks : executed'[t] = "no"
                 /\ bank'.slot = bank.slot + 1 /\ bank'.sent = 0
                 /\ bank'.stale = NoResult /\ bank'.verdict = NoResult
<1> USE SessionsAssumption
<1>0. /\ bank \in BankType /\ bank.slot \in 0 .. Banks /\ bank.sent \in 0 .. TasksPerBank
      /\ executed \in [Tasks -> {"no"} \cup Outcomes]
  BY DEF Typed, TypeOK, BankType
<1>1. PICK k \in Int : k = (bank.slot - 1) * TasksPerBank
  BY <1>0
<1>2. Last = k + bank.sent /\ Last \in Int
  BY <1>0, <1>1 DEF Last
<1>3. CASE Resume
  BY <1>3, <1>0, <1>2, SMTT(30) DEF Resume, Protocol, OwnerOK, BankType, Unlocked, Last,
     NoOp, Take
<1>4. CASE InstallScheduler
  BY <1>4, <1>0, <1>1, <1>2 DEF InstallScheduler, Unlocked, Protocol, OwnerOK, NoOp, Last,
     Take
<1> QED
  BY <1>3, <1>4, Zenon

\* New threads start with nothing.
LEMMA SpawnEffect ==
    ASSUME NEW b, NEW r, Spawn(b, r)
    PROVE  /\ waiting' = {} /\ ready' = {} /\ running' = {} /\ Active' = {} /\ finished' = {}
           /\ scheduler'.at = "session" /\ scheduler'.result = r /\ results' = <<>>
           /\ ~manager'.pooled /\ ~manager'.joined /\ manager'.result = NoResult
           /\ \A t : ~Queued(t)' /\ ~InChannel(t)' /\ ~Posted(t)'
           /\ Once(new_tasks') /\ Len(channels') = 1 /\ Once(Current'.payloads)
           /\ \A h \in Threads : /\ handlers'[h].task = 0 /\ handlers'[h].at = "loop"
                                 /\ handlers'[h].context = b /\ handlers'[h].channel = 1
           /\ ~Panicked'
BY SMTT(30) DEF Spawn, Threads, Active, Current, Holds, Once, Queued, InChannel, Posted,
   Panicked

\* The scheduler thread hears of a task it runs; the task leaves the state machine.
LEMMA FinishedEffect ==
    ASSUME Typed, TasksOK, NEW f \in finished, ReceiveFinished(f)
    PROVE  /\ scheduler.at = "session" /\ f.task \in Tasks /\ f.task \in running /\ f.outcome \in Outcomes
           /\ executed[f.task] = f.outcome /\ finished' = finished \ {f}
           /\ \A g \in finished : g # f => g.task # f.task
           /\ UNCHANGED <<bank, owner, op, manager, new_tasks, results, channels, handlers, executed, crashed>>
           /\ \/ /\ f.outcome = "panicked" /\ scheduler'.at = "aborted" /\ scheduler'.result = scheduler.result
                 /\ UNCHANGED <<waiting, ready, running>>
              \/ /\ f.outcome = "err" /\ scheduler'.at = "aborted" /\ scheduler'.result = f.task
                 /\ running' = running \ {f.task} /\ Active' = Active \ {f.task}
                 /\ waiting' \cup ready' = waiting \cup ready /\ waiting' \cap ready' = {}
              \/ /\ f.outcome = "ok" /\ scheduler'.result = scheduler.result
                 /\ scheduler'.at = "session" \/ (scheduler'.at = "finished" /\ Active' = {})
                 /\ running' = running \ {f.task} /\ Active' = Active \ {f.task}
                 /\ waiting' \cup ready' = waiting \cup ready /\ waiting' \cap ready' = {}
<1>0. scheduler.at = "session" /\ f \in [task : Tasks, outcome : Outcomes] /\ scheduler \in SchedulerType
  BY DEF ReceiveFinished, Typed, TypeOK
<1>1. f.task \in Tasks /\ f.outcome \in Outcomes /\ f.task \in running /\ executed[f.task] = f.outcome
  BY <1>0, Zenon DEF TasksOK, FinishedOK
<1>2. ASSUME NEW g \in finished, g # f PROVE g.task # f.task
  BY <1>0, <1>1, <1>2 DEF Typed, TypeOK, TasksOK, FinishedOK
<1>3. /\ UNCHANGED <<bank, owner, op, manager, new_tasks, results, channels, handlers, executed, crashed>>
      /\ finished' = finished \ {f}
  BY DEF ReceiveFinished
<1>4. CASE f.outcome = "panicked"
  BY <1>0, <1>4, <1>1, <1>2, <1>3, Zenon DEF ReceiveFinished, SchedulerType, machine
<1>5. CASE f.outcome # "panicked"
  <2>1. Machine!Depart(f.task)
    BY <1>5 DEF ReceiveFinished
  <2>2. PICK F \in SUBSET waiting : F = Machine!Freed(f.task)
    BY Zenon DEF Machine!Freed
  <2>3. /\ ready' = (ready \ {f.task}) \cup F /\ running' = running \ {f.task}
        /\ waiting' = waiting \ F
    BY <2>1, <2>2, Zenon DEF Machine!Depart
  <2>4. f.task \notin ready /\ f.task \notin waiting /\ waiting \cap ready = {}
    BY <1>1, Zenon DEF TasksOK, MachineOK
  <2>5. waiting' \cup ready' = waiting \cup ready /\ waiting' \cap ready' = {}
    BY <2>2, <2>3, <2>4, Zenon
  <2>6. Active' = Active \ {f.task}
    BY <2>3, <2>4, <2>5 DEF Active
  <2>7. Machine!Active = Active
    BY Zenon DEF Active, Machine!Active
  <2>8. CASE f.outcome = "err"
    <3>1. scheduler' = [scheduler EXCEPT !.at = "aborted", !.result = f.task]
      BY <2>8, Zenon DEF ReceiveFinished
    <3>2. scheduler'.at = "aborted" /\ scheduler'.result = f.task
      BY <1>0, <3>1, Zenon DEF SchedulerType
    <3> QED
      BY <1>0, <1>1, <1>2, <1>3, <2>3, <2>5, <2>6, <2>8, <3>2, Zenon
  <2>9. CASE f.outcome = "ok"
    BY <1>5, <2>7, <2>9, <1>0, <2>6, <1>1, <1>2, <1>3, <2>3, <2>5, Zenon DEF ReceiveFinished,
       SchedulerType, Continue
  <2> QED
    BY <1>1, <1>5, <2>8, <2>9, Zenon DEF Outcomes
<1> QED
  BY <1>4, <1>5

\* A ready task is posted for the handlers.
LEMMA PostEffect ==
    ASSUME Typed, NEW t \in Tasks, DispatchUnblocked(t)
    PROVE  /\ scheduler.at = "session" /\ t \in ready
           /\ ready' = ready \ {t} /\ running' = running \cup {t} /\ waiting' = waiting
           /\ UNCHANGED <<bank, owner, op, manager, new_tasks, results, scheduler, handlers, finished,
                          executed, crashed>>
           /\ Len(channels') = Len(channels) /\ Len(channels) \in Nat /\ Len(channels) > 0
           /\ \A d \in 1 .. Len(channels) - 1 : channels'[d] = channels[d]
           /\ Current'.aux = Current.aux
           /\ \A u : (Posted(u)' <=> Posted(u) \/ u = t) /\ (InChannel(u)' <=> InChannel(u) \/ u = t)
           /\ Once(Current.payloads) /\ ~Posted(t) => Once(Current'.payloads)
<1>1. PICK c : c = Len(channels)
  BY Zenon
<1>2. PICK n : n = Len(channels[c].payloads)
  BY Zenon
<1>3. PICK m : m = [kind |-> "payload", task |-> t]
  BY Zenon
<1>4. /\ c \in 1 .. Len(channels) /\ Len(channels') = Len(channels)
      /\ \A d \in 1 .. Len(channels) : d # c => channels'[d] = channels[d]
      /\ channels'[c].aux = channels[c].aux
      /\ DOMAIN channels[c].payloads = 1 .. n
      /\ DOMAIN channels'[c].payloads = 1 .. n + 1
      /\ \A i \in DOMAIN channels[c].payloads : channels'[c].payloads[i] = channels[c].payloads[i]
      /\ channels'[c].payloads[n + 1] = m
  BY <1>1, <1>2, <1>3, DispatchEffect
<1>5. n \in Nat /\ Len(channels) \in Nat
  BY <1>4, CurrentTyped, <1>2 DEF Typed, TypeOK
<1>6. Current = channels[c] /\ Current' = channels'[c]
  BY <1>1, <1>4, Zenon DEF Current
<1>7. \A u : IsTask(m, u) <=> u = t
  BY <1>3 DEF IsTask
<1>8. /\ \A u : Holds(Current'.payloads, u) <=> Holds(Current.payloads, u) \/ IsTask(m, u)
      /\ Once(Current.payloads) /\ (\A u \in Tasks : IsTask(m, u) => ~Holds(Current.payloads, u))
            => Once(Current'.payloads)
  <2>1. PICK p, q : p = channels[c].payloads /\ q = channels'[c].payloads
    BY Zenon
  <2>2. /\ DOMAIN p = 1 .. n /\ DOMAIN q = 1 .. n + 1 /\ q[n + 1] = m
        /\ \A i \in 1 .. n : q[i] = p[i]
    BY <1>4, <2>1, Zenon
  <2>3. /\ \A u : Holds(q, u) <=> Holds(p, u) \/ IsTask(m, u)
        /\ Once(p) /\ (\A u \in Tasks : IsTask(m, u) => ~Holds(p, u)) => Once(q)
    BY <1>5, <2>2, HoldsGrow
  <2> QED
    BY <1>6, <2>1, <2>3, Zenon
<1>9. \A u : Posted(u)' <=> Posted(u) \/ u = t
  BY <1>7, <1>8, Zenon DEF Posted
<1>10. Len(channels) > 0 /\ Len(channels') > 0
  BY <1>4, <1>5
<1>11. \A u : InChannel(u)' <=> InChannel(u) \/ u = t
  BY <1>4, <1>6, <1>9, <1>10, Zenon DEF InChannel
<1>12. Once(Current.payloads) /\ ~Posted(t) => Once(Current'.payloads)
  BY <1>7, <1>8, Zenon DEF Posted
<1>13. /\ scheduler.at = "session" /\ t \in ready
       /\ ready' = ready \ {t} /\ running' = running \cup {t} /\ waiting' = waiting
       /\ UNCHANGED <<bank, owner, op, manager, new_tasks, results, scheduler, handlers, finished,
                      executed, crashed>>
  BY Zenon DEF DispatchUnblocked, Machine!Run
<1>14. \A d \in 1 .. Len(channels) - 1 : channels'[d] = channels[d]
  BY <1>1, <1>4, <1>5
<1> QED
  BY <1>4, <1>5, <1>6, <1>9, <1>10, <1>11, <1>12, <1>13, <1>14, Zenon

\* A new task leaves the queue, and waits or is offered to the handlers at once.
LEMMA ArriveEffect ==
    ASSUME Typed, NEW m, m = Head(new_tasks), ReceiveNew, m.kind = "payload", NEW t, t = m.task
    PROVE  /\ scheduler.at = "session" /\ t \in Tasks /\ t \notin Active /\ Queued(t)
           /\ \A u : Queued(u) <=> Queued(u)' \/ u = t
           /\ Once(new_tasks) => Once(new_tasks') /\ ~Queued(t)'
           /\ ready' = ready /\ Active' = Active \cup {t}
           /\ \/ running' = running \cup {t} /\ waiting' = waiting
              \/ running' = running /\ waiting' = waiting \cup {t}
           /\ UNCHANGED <<bank, owner, op, manager, results, scheduler, handlers, finished, executed, crashed>>
           /\ Len(channels') = Len(channels) /\ Len(channels) \in Nat /\ Len(channels) > 0
           /\ \A d \in 1 .. Len(channels) - 1 : channels'[d] = channels[d]
           /\ Current'.payloads = Current.payloads
           /\ \A u : u \in Current'.aux <=> u \in Current.aux \/ (u = t /\ t \in running')
           /\ \A u : /\ Posted(u)' <=> Posted(u)
                     /\ InChannel(u)' <=> InChannel(u) \/ (u = t /\ t \in running')
<1>0. new_tasks \in Seq(MessageType) /\ new_tasks # <<>> /\ new_tasks' = Tail(new_tasks)
      /\ scheduler.at = "session"
      /\ UNCHANGED <<bank, owner, op, manager, results, handlers, finished, executed, crashed>>
  BY Zenon DEF ReceiveNew, Typed, TypeOK
<1>1. m \in MessageType /\ m = new_tasks[1] /\ ReceiveTask(m)
  BY <1>0, TailFacts DEF ReceiveNew
<1>2. PICK c : c = Len(channels)
  BY Zenon
<1>3. /\ t \in Tasks /\ c \in 1 .. Len(channels) /\ Len(channels') = Len(channels)
      /\ \A d \in 1 .. Len(channels) : d # c => channels'[d] = channels[d]
      /\ channels'[c].payloads = channels[c].payloads
      /\ channels'[c].aux = IF t \in running' THEN channels[c].aux \cup {t} ELSE channels[c].aux
  <2>1. /\ m.task \in Tasks /\ c \in 1 .. Len(channels) /\ Len(channels') = Len(channels)
        /\ \A d \in 1 .. Len(channels) : d # c => channels'[d] = channels[d]
        /\ channels'[c].payloads = channels[c].payloads
        /\ channels'[c].aux = IF m.task \in running' THEN channels[c].aux \cup {m.task} ELSE channels[c].aux
    <3>1. Typed /\ scheduler.at = "session" /\ m \in MessageType /\ m.kind = "payload" /\ ReceiveTask(m)
      BY <1>0, <1>1, Zenon
    <3> QED
      BY <1>2, <3>1, ReceiveTaskEffect, Zenon
  <2> QED
    BY <2>1
<1>4. Len(channels) \in Nat /\ Len(channels) > 0
  BY <1>3 DEF Typed, TypeOK
<1>5. Current = channels[c] /\ Current' = channels'[c]
  BY <1>2, <1>3, Zenon DEF Current
<1>6. Current'.payloads = Current.payloads
      /\ \A u : u \in Current'.aux <=> u \in Current.aux \/ (u = t /\ t \in running')
  BY <1>3, <1>5
<1>7. \A u : Posted(u)' <=> Posted(u)
  BY <1>6, Zenon DEF Posted
<1>8. \A u : InChannel(u)' <=> InChannel(u) \/ (u = t /\ t \in running')
  BY <1>3, <1>4, <1>6, <1>7, Zenon DEF InChannel
<1>9. Machine!Arrive(t, m.transaction, TRUE) /\ scheduler' = scheduler
  BY <1>1, Zenon DEF ReceiveTask
<1>10. Machine!Active = Active
  BY DEF Active, Machine!Active
<1>11. /\ t \notin Active /\ ready' = ready
       /\ \/ running' = running \cup {t} /\ waiting' = waiting
          \/ running' = running /\ waiting' = waiting \cup {t}
  BY <1>9, <1>10, Zenon DEF Machine!Arrive
<1>12. Active' = Active \cup {t}
  BY <1>11 DEF Active
<1>13. /\ \A u : Queued(u) <=> Queued(u)' \/ IsTask(m, u)
       /\ Once(new_tasks) => Once(new_tasks') /\ \A u \in Tasks : IsTask(m, u) => ~Queued(u)'
  <2>1. PICK n : n = Len(new_tasks)
    BY Zenon
  <2>2. PICK p, q : p = new_tasks /\ q = new_tasks'
    BY Zenon
  <2>3. /\ n \in Nat /\ n > 0 /\ DOMAIN p = 1 .. n /\ DOMAIN q = 1 .. n - 1
        /\ \A i \in 1 .. n - 1 : q[i] = p[i + 1]
    BY <1>0, <2>1, <2>2, TailFacts, Zenon
  <2>4. /\ \A u : Holds(p, u) <=> Holds(q, u) \/ IsTask(p[1], u)
        /\ Once(p) => Once(q) /\ \A u \in Tasks : IsTask(p[1], u) => ~Holds(q, u)
    BY <2>3, HoldsShift, Zenon
  <2> QED
    BY <1>1, <2>2, <2>4, Zenon DEF Queued
<1>14. \A u : IsTask(m, u) <=> u = t
  BY Zenon DEF IsTask
<1>15. \A d \in 1 .. Len(channels) - 1 : channels'[d] = channels[d]
  BY <1>2, <1>3, <1>4
<1>16. /\ \A u : Queued(u) <=> Queued(u)' \/ u = t
       /\ Once(new_tasks) => Once(new_tasks') /\ ~Queued(t)'
  BY <1>3, <1>13, <1>14, Zenon
<1> QED
  BY <1>0, <1>3, <1>4, <1>6, <1>7, <1>8, <1>9, <1>11, <1>12, <1>15, <1>16, Zenon

\* The next session: every handler is told to go on, and nothing is left behind.
LEMMA OpenEffect ==
    ASSUME Typed, TasksOK, ReceiveOpen, Head(new_tasks).kind = "open", NEW b, b = Head(new_tasks).bank
    PROVE  /\ scheduler.at = "between" /\ scheduler'.at = "session"
           /\ scheduler'.result = Head(new_tasks).result
           /\ Active = {} /\ finished = {}
           /\ \A u : Queued(u)' <=> Queued(u)
           /\ Once(new_tasks) => Once(new_tasks')
           /\ UNCHANGED <<bank, owner, op, manager, results, waiting, ready, running, handlers, finished,
                          executed, crashed>>
           /\ Len(channels') = Len(channels) + 1 /\ Len(channels) \in Nat /\ Len(channels) > 0
           /\ \A d \in 1 .. Len(channels) - 1 : channels'[d] = channels[d]
           /\ Current.aux = {} /\ Current.payloads = <<>>
           /\ channels'[Len(channels)].aux = {}
           /\ DOMAIN channels'[Len(channels)].payloads = 1 .. Handlers
           /\ \A i \in 1 .. Handlers :
                 channels'[Len(channels)].payloads[i] = [kind |-> "chain", context |-> b, to |-> Len(channels) + 1]
           /\ Current'.payloads = <<>> /\ Current'.aux = {}
           /\ \A u : ~Posted(u)' /\ ~InChannel(u)'
           /\ \A h \in Threads : handlers[h].task = 0
<1>0. /\ new_tasks \in Seq(MessageType) /\ new_tasks # <<>> /\ new_tasks' = Tail(new_tasks)
      /\ scheduler.at = "between" /\ scheduler \in SchedulerType
      /\ UNCHANGED <<bank, owner, op, manager, results, waiting, ready, running, handlers, finished, executed, crashed>>
  BY Zenon DEF ReceiveOpen, Typed, TypeOK, machine
<1>1. PICK m \in MessageType : m = Head(new_tasks) /\ m = new_tasks[1] /\ m.kind = "open" /\ m.bank = b
  BY <1>0, TailFacts, Zenon
<1>2. b \in 0 .. Banks
  BY <1>1 DEF MessageType
<1>3. SendChained(b) /\ scheduler' = [scheduler EXCEPT !.at = "session", !.result = m.result]
  BY <1>1 DEF ReceiveOpen
<1>4. scheduler'.at = "session" /\ scheduler'.result = m.result
  BY <1>0, <1>3, Zenon DEF SchedulerType
<1>5. Active = {} /\ finished = {}
  BY <1>0, Zenon DEF TasksOK, FinishedOK
<1>6. running = {}
  BY <1>5 DEF Active
<1>7. PICK c : c = Len(channels)
  BY Zenon
<1>8. c \in 1 .. Len(channels) /\ Len(channels) \in Nat /\ Len(channels) > 0 /\ Current = channels[c]
  <2>0. scheduler.at \notin {"exited"}
    BY <1>0
  <2>1. channels \in Seq(ChannelType) /\ Len(channels) > 0
    BY <2>0, Zenon DEF Typed, TypeOK, ChannelsOK
  <2>2. Len(channels) \in Nat /\ Len(channels) > 0 /\ Len(channels) \in 1 .. Len(channels)
    BY <2>1
  <2> QED
    BY <1>7, <2>2, Zenon DEF Current
<1>9. PICK p \in Seq(PayloadType) : p = channels[c].payloads
  BY <1>8, CurrentTyped
<1>10. \A t \in Tasks : ~InChannel(t)
  BY <1>6, Zenon DEF TasksOK, PlacesOK
<1>11. p = <<>>
  BY <1>9, <1>7, <1>8, <1>10 DEF Typed, ChannelsOK, PayloadType, Holds, IsTask, InChannel,
     Posted
<1>12. Current.aux = {}
  BY <1>8, CurrentTyped, <1>10, Zenon DEF InChannel
<1>13. ASSUME NEW h \in Threads PROVE handlers[h].task = 0
  BY <1>6 DEF Typed, TypeOK, HandlerType, TasksOK, PlacesOK
<1>14. /\ Len(channels') = Len(channels) + 1
       /\ \A d \in 1 .. Len(channels) : d # c => channels'[d] = channels[d]
       /\ channels'[c].aux = channels[c].aux
       /\ DOMAIN channels'[c].payloads = 1 .. Len(p) + Handlers
       /\ \A i \in Len(p) + 1 .. Len(p) + Handlers :
             channels'[c].payloads[i] = [kind |-> "chain", context |-> b, to |-> c + 1]
       /\ channels'[c + 1] = [payloads |-> <<>>, aux |-> {}]
  BY <1>0, <1>2, <1>3, <1>7, <1>9, ChainEffect, SMTT(30)
<1>15. Len(p) = 0 /\ 0 + Handlers = Handlers
  BY <1>11, SessionsAssumption
<1>16. /\ DOMAIN channels'[c].payloads = 1 .. Handlers
       /\ \A i \in 1 .. Handlers : channels'[c].payloads[i] = [kind |-> "chain", context |-> b, to |-> c + 1]
       /\ channels'[c].aux = {}
  BY <1>8, <1>12, <1>14, <1>15
<1>17. Current' = channels'[c + 1]
  BY <1>7, <1>14, Zenon DEF Current
<1>18. Current'.payloads = <<>> /\ Current'.aux = {}
  BY <1>14, <1>17
<1>19. \A u : ~Posted(u)' /\ ~InChannel(u)'
  BY <1>18 DEF Posted, InChannel, Holds
<1>20. /\ \A u : Queued(u)' <=> Queued(u)
       /\ Once(new_tasks) => Once(new_tasks')
  <2>1. PICK n : n = Len(new_tasks)
    BY Zenon
  <2>2. PICK q, r : q = new_tasks /\ r = new_tasks'
    BY Zenon
  <2>3. /\ n \in Nat /\ n > 0 /\ DOMAIN q = 1 .. n /\ DOMAIN r = 1 .. n - 1
        /\ \A i \in 1 .. n - 1 : r[i] = q[i + 1]
    BY <1>0, <2>1, <2>2, TailFacts, Zenon
  <2>4. /\ \A u : Holds(q, u) <=> Holds(r, u) \/ IsTask(q[1], u)
        /\ Once(q) => Once(r)
    BY <2>3, HoldsShift, Zenon
  <2>5. \A u : ~IsTask(m, u)
    BY <1>1, Zenon DEF IsTask
  <2> QED
    BY <1>1, <2>2, <2>4, <2>5, Zenon DEF Queued
<1>21. \A d \in 1 .. Len(channels) - 1 : channels'[d] = channels[d]
  BY <1>7, <1>8, <1>14
<1> QED
  BY <1>0, <1>1, <1>4, <1>5, <1>7, <1>8, <1>9, <1>11, <1>12, <1>13, <1>14, <1>16, <1>18,
     <1>19, <1>20, <1>21, Zenon

\* The scheduler thread's steps that only change what it is about to do.
LEMMA TurnEffect ==
    ASSUME Typed,
           \/ ReceiveNew /\ Head(new_tasks).kind = "close"
           \/ ReceiveOpen /\ Head(new_tasks).kind = "disconnect"
           \/ FinishSession \/ Abort \/ DropReceiver \/ ExitScheduler
    PROVE  /\ UNCHANGED <<bank, owner, op, manager, waiting, ready, running, channels, handlers, executed, crashed>>
           /\ \A u : Queued(u)' => Queued(u)
           /\ Once(new_tasks) => Once(new_tasks')
           /\ \/ /\ scheduler.at = "session" /\ finished' = finished /\ \A u : Queued(u)' <=> Queued(u)
                 /\ scheduler'.at = "session" \/ (scheduler'.at = "finished" /\ Active = {})
                 /\ scheduler'.result = scheduler.result
              \/ /\ scheduler.at = "finished" /\ scheduler'.at = "between" /\ finished' = finished
                 /\ scheduler'.result = scheduler.result /\ \A u : Queued(u)' <=> Queued(u)
              \/ /\ scheduler.at = "between" /\ scheduler'.at = "aborted" /\ finished' = finished
                 /\ scheduler'.result = Ok
              \/ /\ scheduler.at = "aborted" /\ scheduler'.at = "sent" /\ finished' = finished
                 /\ scheduler'.result = scheduler.result
              \/ /\ scheduler.at = "sent" /\ scheduler'.at = "closed" /\ finished' = finished
                 /\ scheduler'.result = scheduler.result
              \/ /\ scheduler.at = "closed" /\ scheduler'.at = "exited" /\ finished' = {}
                 /\ scheduler'.result = scheduler.result
<1>0. new_tasks \in Seq(MessageType) /\ scheduler \in SchedulerType
  BY DEF Typed, TypeOK
<1>1. UNCHANGED <<bank, owner, op, manager, waiting, ready, running, channels, handlers, executed, crashed>>
  BY DEF ReceiveNew, ReceiveClose, machine, ReceiveOpen, FinishSession, Abort, DropReceiver,
     ExitScheduler
<1>2. ASSUME new_tasks # <<>>, new_tasks' = Tail(new_tasks), Head(new_tasks).kind # "payload"
      PROVE  /\ \A u : Queued(u)' <=> Queued(u)
             /\ Once(new_tasks) => Once(new_tasks')
  <2>1. PICK n : n = Len(new_tasks)
    BY Zenon
  <2>2. PICK q, r : q = new_tasks /\ r = new_tasks'
    BY Zenon
  <2>3. /\ n \in Nat /\ n > 0 /\ DOMAIN q = 1 .. n /\ DOMAIN r = 1 .. n - 1 /\ Head(new_tasks) = q[1]
        /\ \A i \in 1 .. n - 1 : r[i] = q[i + 1]
    BY <1>0, <1>2, <2>1, <2>2, TailFacts, Zenon
  <2>4. /\ \A u : Holds(q, u) <=> Holds(r, u) \/ IsTask(q[1], u)
        /\ Once(q) => Once(r)
    BY <2>3, HoldsShift
  <2>5. \A u : ~IsTask(q[1], u)
    BY <1>2, <2>3, Zenon DEF IsTask
  <2> QED
    BY <2>2, <2>4, <2>5, Zenon DEF Queued
<1>3. CASE ReceiveNew /\ Head(new_tasks).kind = "close"
  BY <1>3, <1>0, <1>1, <1>2, Zenon DEF Active, Machine!Active, ReceiveNew, ReceiveClose,
     SchedulerType, Continue
<1>4. CASE ReceiveOpen /\ Head(new_tasks).kind = "disconnect"
  BY <1>4, <1>0, <1>1, <1>2, Zenon DEF ReceiveOpen, SchedulerType
<1>5. CASE FinishSession
  BY <1>0, <1>5, <1>1 DEF FinishSession, SchedulerType, Queued
<1>6. CASE Abort
  BY <1>0, <1>6, <1>1, Zenon DEF Abort, SchedulerType, Queued
<1>7. CASE DropReceiver
  BY <1>0, <1>7, <1>1 DEF DropReceiver, SchedulerType, Queued, Holds, Once
<1>8. CASE ExitScheduler
  BY <1>0, <1>8, <1>1 DEF ExitScheduler, SchedulerType, Queued
<1> QED
  BY <1>3, <1>4, <1>5, <1>6, <1>7, <1>8, Zenon
==============================================================================
