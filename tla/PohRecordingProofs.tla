------------------------- MODULE PohRecordingProofs -------------------------
(***************************************************************************)
(* For every number of senders and banks: no accepted record is lost, the   *)
(* budget is exact and the indexes follow the order of the channel,         *)
(* provided the constants leave the margin that MarginOK states.            *)
(***************************************************************************)
EXTENDS PohRecording, FiniteSetTheorems, SequenceTheorems, TLAPS

\* What Poh and record_channels assume of their configuration.
ConstantsOK ==
    /\ IsFiniteSet(Senders) /\ Nobody \notin Senders
    /\ Banks \in Nat
    /\ Capacity \in Nat \ {0}
    /\ TicksPerSlot \in Nat \ {0}
    /\ HashesPerTick \in Nat /\ HashesPerTick > 1
    /\ HashesPerBatch \in Nat

\* A batch of hashes is no longer than the margin should_shutdown keeps for the
\* ticks, and one tick has room for that margin and a full channel.
MarginOK ==
    /\ HashesPerBatch <= TicksPerSlot
    /\ HashesPerTick > TicksPerSlot + Capacity

Places == {"idle", "retry", "entering", "reserving", "failed", "sending", "sent"}

Locations ==
    {"top", "work", "tick", "receive", "active", "again", "wait", "check", "check_empty",
     "handle", "leave", "leave_empty", "done", "record_panic", "guard_panic", "assert_panic"}

ChannelType == word \in Words /\ active \in Nat /\ channel \in Seq(1..Banks)

SendersType == senders \in [Senders -> [at : Places, bank : 0..Banks, seen : Words]]

LockType ==
    /\ tracked \in BOOLEAN
    /\ lock \in Senders \union {Nobody}
    /\ indexes \in Nat /\ count \in Nat

PohType == poh \in Poh /\ working_bank \in 0..Banks /\ created \in 0..Banks

MessageType ==
    /\ message \in [kind : {"none", "reset", "set_bank"}, bank : 0..Banks, late : BOOLEAN]
    /\ message.kind = "set_bank" => message.bank # 0

ServiceType ==
    service \in [at : Locations, exiting : BOOLEAN, taken : BOOLEAN,
                 next : 0..Banks, mode : {"hash", "record"}]

TypeOK == ChannelType /\ SendersType /\ LockType /\ PohType /\ MessageType /\ ServiceType

----------------------------------------------------------------------------

\* Senders that active_senders counts.
InFlight == {s \in Senders : senders[s].at \in {"reserving", "failed", "sending", "sent"}}

\* Records that still need a hash.
Demand == Len(channel) + Cardinality(Reserved) + (IF service.next = 0 THEN 0 ELSE 1)

ActiveIsExact == active = Cardinality(InFlight)

\* A word that was seen admits the record it was seen for.
SeenOK ==
    \A s \in Senders :
        /\ senders[s].at \in {"entering", "reserving"} =>
               senders[s].bank # 0 /\ senders[s].seen.bank = senders[s].bank /\ senders[s].seen.allowed >= 1
        /\ senders[s].at = "sending" => senders[s].bank # 0

\* All that is accepted belongs to the working bank.
BankOK ==
    /\ Open => word.bank = working_bank /\ working_bank # 0
    /\ \A s \in Reserved : senders[s].bank = working_bank
    /\ \A i \in 1..Len(channel) : channel[i] = working_bank
    /\ service.next # 0 => service.next = working_bank
    /\ message.kind = "set_bank" => working_bank = 0

\* What the place of the service tells.
PlaceOK ==
    /\ service.next # 0 => service.at \in {"work", "record_panic"}
    /\ service.at = "tick" => poh.remaining = 1
    /\ service.at \in {"leave", "leave_empty", "done", "guard_panic"} => service.exiting
    /\ service.at = "check_empty" => service.taken
    /\ service.taken \/ service.exiting => ~Open
    /\ service.at \in {"check_empty", "leave_empty"} => Reserved = {}
    /\ service.at = "again" /\ ~Open => Reserved = {}

\* In the last tick of the slot there is room for all that is accepted, and for
\* a batch of hashes besides unless the service is emptying the channel.
RoomOK ==
    LastTick(poh) =>
        /\ Open => poh.remaining > TicksPerSlot + Capacity
        /\ poh.remaining > Demand \/ Demand = 0
        /\ Demand # 0 /\ service.next = 0 /\ service.at \notin {"receive", "active", "again"}
               => poh.remaining > TicksPerSlot + Capacity

IInv ==
    /\ TypeOK
    /\ ActiveIsExact
    /\ SeenOK
    /\ BudgetIsExact
    /\ BankOK
    /\ PlaceOK
    /\ NothingInFlight
    /\ RoomOK
    /\ SentIsRecorded

\* The mutex: a sender that holds it is the only one between load and return.
Holding == {"entering", "reserving", "failed", "sending", "sent"}

IndexInv ==
    tracked =>
        /\ \A s \in Senders : senders[s].at \in Holding => lock = s
        /\ indexes = IF lock # Nobody /\ senders[lock].at = "sent" THEN count - 1 ELSE count

----------------------------------------------------------------------------

\* Sets of senders are finite.
LEMMA SomeSenders ==
    ASSUME ConstantsOK, NEW S \in SUBSET Senders
    PROVE  /\ IsFiniteSet(S) /\ Cardinality(S) \in Nat
           /\ Cardinality(S) = 0 <=> S = {}
<1>1. IsFiniteSet(S)
  BY FS_Subset DEF ConstantsOK
<1> QED
  BY <1>1, FS_CardinalityType, FS_EmptySet

\* The same for one sender more or fewer.
LEMMA OneMore ==
    ASSUME ConstantsOK, NEW S \in SUBSET Senders, NEW s \in Senders
    PROVE  /\ s \notin S => Cardinality(S \union {s}) = Cardinality(S) + 1
           /\ s \in S => Cardinality(S \ {s}) = Cardinality(S) - 1
<1>1. IsFiniteSet(S)
  BY SomeSenders
<1> QED
  BY <1>1, FS_AddElement, FS_RemoveElement

LEMMA Initial ==
    ASSUME ConstantsOK, Init
    PROVE  IInv /\ IndexInv
<1> USE DEF ConstantsOK, Init
<1>1. TypeOK
  <2>1. ChannelType
    BY DEF ChannelType, Words, Shutdown, DisabledBankId
  <2>2. SendersType
    BY <2>1 DEF SendersType, ChannelType, Places
  <2>3. LockType
    BY DEF LockType
  <2>4. PohType
    BY DEF PohType, Poh, reset
  <2>5. MessageType
    BY DEF MessageType, NoMessage
  <2>6. ServiceType
    BY DEF ServiceType, Locations
  <2> QED
    BY <2>1, <2>2, <2>3, <2>4, <2>5, <2>6 DEF TypeOK
<1>2. Reserved = {} /\ InFlight = {} /\ Cardinality({}) = 0
  BY FS_EmptySet DEF Reserved, InFlight
<1>3. ~Open /\ Len(channel) = 0 /\ service.next = 0
  BY DEF Open, Shutdown
<1>4. ActiveIsExact /\ SeenOK /\ BudgetIsExact
  BY <1>2, <1>3 DEF ActiveIsExact, SeenOK, BudgetIsExact, Shutdown
<1>5. BankOK
  BY <1>2, <1>3 DEF BankOK, NoMessage
<1>6. PlaceOK /\ NothingInFlight /\ SentIsRecorded
  BY <1>2, <1>3 DEF PlaceOK, NothingInFlight, SentIsRecorded
<1>7. RoomOK
  BY <1>2, <1>3 DEF RoomOK, Demand
<1>8. IndexInv
  BY DEF IndexInv, Holding
<1> QED
  BY <1>1, <1>4, <1>5, <1>6, <1>7, <1>8 DEF IInv

----------------------------------------------------------------------------
(* The service.                                                            *)

\* Nobody is sending when active_senders is zero.
LEMMA Quiet ==
    ASSUME ConstantsOK, IInv, active = 0
    PROVE  Reserved = {}
<1>1. InFlight = {}
  BY SomeSenders DEF IInv, ActiveIsExact, InFlight
<1> QED
  BY <1>1 DEF InFlight, Reserved

LEMMA CheckMessageStep ==
    ASSUME ConstantsOK, MarginOK, IInv, CheckMessage
    PROVE  IInv'
<1> USE DEF ConstantsOK, MarginOK
<1>1. TypeOK'
  <2>1. ChannelType'
    BY DEF IInv, TypeOK, CheckMessage, sending, ChannelType, Shutdown, Words, DisabledBankId
  <2>2. SendersType' /\ LockType'
    BY DEF IInv, TypeOK, CheckMessage, sending, SendersType, LockType
  <2>3. PohType' /\ MessageType'
    BY DEF IInv, TypeOK, CheckMessage, recorder, PohType, MessageType
  <2>4. ServiceType'
    BY DEF IInv, TypeOK, CheckMessage, ServiceType, Locations
  <2> QED
    BY <2>1, <2>2, <2>3, <2>4 DEF TypeOK
<1>2. Reserved' = Reserved /\ InFlight' = InFlight
  BY DEF CheckMessage, sending, Reserved, InFlight
<1>3. Cardinality(Reserved) \in Nat
  BY SomeSenders DEF Reserved
<1>4. ActiveIsExact' /\ SeenOK'
  BY <1>2 DEF IInv, CheckMessage, sending, ActiveIsExact, SeenOK
<1>5. BudgetIsExact'
  BY <1>1, <1>2, <1>3 DEF IInv, TypeOK, ChannelType, CheckMessage, BudgetIsExact, Open, Shutdown, Words
<1>6. BankOK'
  BY <1>1, <1>2 DEF IInv, TypeOK, ChannelType, ServiceType, CheckMessage, sending, recorder, BankOK,
     Open, Shutdown
<1>7. PlaceOK'
  BY <1>1, <1>2 DEF IInv, TypeOK, ChannelType, ServiceType, CheckMessage, sending, recorder, PlaceOK,
     Open, Shutdown
<1>8. NothingInFlight' /\ SentIsRecorded'
  BY <1>1, <1>2 DEF IInv, TypeOK, ChannelType, ServiceType, CheckMessage, NothingInFlight,
     SentIsRecorded, PlaceOK
<1>9. RoomOK'
  BY <1>1, <1>2, <1>3 DEF IInv, TypeOK, ChannelType, ServiceType, PohType, CheckMessage, recorder,
     RoomOK, Demand, Open, Shutdown
<1> QED
  BY <1>1, <1>4, <1>5, <1>6, <1>7, <1>8, <1>9 DEF IInv

LEMMA ReceiveActiveStep ==
    ASSUME ConstantsOK, MarginOK, IInv, ReceiveActive
    PROVE  IInv'
<1> USE DEF ConstantsOK, MarginOK
<1>1. TypeOK'
  <2>1. ChannelType' /\ SendersType' /\ LockType' /\ PohType' /\ MessageType'
    BY DEF IInv, TypeOK, ReceiveActive, sending, recorder, ChannelType, SendersType, LockType, PohType,
       MessageType
  <2>2. ServiceType'
    BY DEF IInv, TypeOK, ReceiveActive, ServiceType, Locations
  <2> QED
    BY <2>1, <2>2 DEF TypeOK
<1>2. Reserved' = Reserved /\ InFlight' = InFlight
  BY DEF ReceiveActive, sending, Reserved, InFlight
<1>3. Cardinality(Reserved) \in Nat
  BY SomeSenders DEF Reserved
<1>a. active = 0 => Reserved = {}
  BY Quiet
<1>4. ActiveIsExact' /\ SeenOK'
  BY <1>2 DEF IInv, ReceiveActive, sending, ActiveIsExact, SeenOK
<1>5. BudgetIsExact'
  BY <1>1, <1>2, <1>3, <1>a DEF IInv, TypeOK, ChannelType, ReceiveActive, BudgetIsExact, Open
<1>6. BankOK'
  BY <1>1, <1>2, <1>a DEF IInv, TypeOK, ChannelType, ServiceType, ReceiveActive, sending, recorder, BankOK,
     Open
<1>7. PlaceOK'
  BY <1>1, <1>2, <1>a DEF IInv, TypeOK, ChannelType, ServiceType, ReceiveActive, sending, recorder, PlaceOK,
     Open
<1>8. NothingInFlight' /\ SentIsRecorded'
  BY <1>1, <1>2, <1>a DEF IInv, TypeOK, ChannelType, ServiceType, ReceiveActive, NothingInFlight,
     SentIsRecorded, PlaceOK
<1>9. RoomOK'
  BY <1>1, <1>2, <1>3, <1>a DEF IInv, TypeOK, ChannelType, ServiceType, PohType, ReceiveActive, recorder,
     RoomOK, Demand, Open
<1> QED
  BY <1>1, <1>4, <1>5, <1>6, <1>7, <1>8, <1>9 DEF IInv

LEMMA CheckActiveStep ==
    ASSUME ConstantsOK, MarginOK, IInv, CheckActive
    PROVE  IInv'
<1> USE DEF ConstantsOK, MarginOK
<1>1. TypeOK'
  <2>1. ChannelType' /\ SendersType' /\ LockType' /\ PohType' /\ MessageType'
    BY DEF IInv, TypeOK, CheckActive, sending, recorder, ChannelType, SendersType, LockType, PohType,
       MessageType
  <2>2. ServiceType'
    BY DEF IInv, TypeOK, CheckActive, ServiceType, Locations
  <2> QED
    BY <2>1, <2>2 DEF TypeOK
<1>2. Reserved' = Reserved /\ InFlight' = InFlight
  BY DEF CheckActive, sending, Reserved, InFlight
<1>3. Cardinality(Reserved) \in Nat
  BY SomeSenders DEF Reserved
<1>a. active = 0 => Reserved = {}
  BY Quiet
<1>4. ActiveIsExact' /\ SeenOK'
  BY <1>2 DEF IInv, CheckActive, sending, ActiveIsExact, SeenOK
<1>5. BudgetIsExact'
  BY <1>1, <1>2, <1>3, <1>a DEF IInv, TypeOK, ChannelType, CheckActive, BudgetIsExact, Open
<1>6. BankOK'
  BY <1>1, <1>2, <1>a DEF IInv, TypeOK, ChannelType, ServiceType, CheckActive, sending, recorder, BankOK,
     Open
<1>7. PlaceOK'
  BY <1>1, <1>2, <1>a DEF IInv, TypeOK, ChannelType, ServiceType, CheckActive, sending, recorder, PlaceOK,
     Open
<1>8. NothingInFlight' /\ SentIsRecorded'
  BY <1>1, <1>2, <1>a DEF IInv, TypeOK, ChannelType, ServiceType, CheckActive, NothingInFlight,
     SentIsRecorded, PlaceOK
<1>9. RoomOK'
  BY <1>1, <1>2, <1>3, <1>a DEF IInv, TypeOK, ChannelType, ServiceType, PohType, CheckActive, recorder,
     RoomOK, Demand, Open
<1> QED
  BY <1>1, <1>4, <1>5, <1>6, <1>7, <1>8, <1>9 DEF IInv

LEMMA CheckEmptyStep ==
    ASSUME ConstantsOK, MarginOK, IInv, CheckEmpty
    PROVE  IInv'
<1> USE DEF ConstantsOK, MarginOK
<1>1. TypeOK'
  <2>1. ChannelType' /\ SendersType' /\ LockType' /\ PohType' /\ MessageType'
    BY DEF IInv, TypeOK, CheckEmpty, sending, recorder, ChannelType, SendersType, LockType, PohType,
       MessageType
  <2>2. ServiceType'
    BY DEF IInv, TypeOK, CheckEmpty, ServiceType, Locations
  <2> QED
    BY <2>1, <2>2 DEF TypeOK
<1>2. Reserved' = Reserved /\ InFlight' = InFlight
  BY DEF CheckEmpty, sending, Reserved, InFlight
<1>3. Cardinality(Reserved) \in Nat
  BY SomeSenders DEF Reserved
<1>4. ActiveIsExact' /\ SeenOK'
  BY <1>2 DEF IInv, CheckEmpty, sending, ActiveIsExact, SeenOK
<1>5. BudgetIsExact'
  BY <1>1, <1>2, <1>3 DEF IInv, TypeOK, ChannelType, CheckEmpty, BudgetIsExact, Open
<1>6. BankOK'
  BY <1>1, <1>2 DEF IInv, TypeOK, ChannelType, ServiceType, CheckEmpty, sending, recorder, BankOK,
     Open
<1>7. PlaceOK'
  BY <1>1, <1>2 DEF IInv, TypeOK, ChannelType, ServiceType, CheckEmpty, sending, recorder, PlaceOK,
     Open
<1>8. NothingInFlight' /\ SentIsRecorded'
  BY <1>1, <1>2 DEF IInv, TypeOK, ChannelType, ServiceType, CheckEmpty, NothingInFlight,
     SentIsRecorded, PlaceOK
<1>9. RoomOK'
  BY <1>1, <1>2, <1>3 DEF IInv, TypeOK, ChannelType, ServiceType, PohType, CheckEmpty, recorder,
     RoomOK, Demand, Open
<1> QED
  BY <1>1, <1>4, <1>5, <1>6, <1>7, <1>8, <1>9 DEF IInv

LEMMA SkipMessageStep ==
    ASSUME ConstantsOK, MarginOK, IInv, SkipMessage
    PROVE  IInv'
<1> USE DEF ConstantsOK, MarginOK
<1>1. TypeOK'
  <2>1. ChannelType' /\ SendersType' /\ LockType' /\ PohType' /\ MessageType'
    BY DEF IInv, TypeOK, SkipMessage, sending, recorder, ChannelType, SendersType, LockType, PohType,
       MessageType
  <2>2. ServiceType'
    BY DEF IInv, TypeOK, SkipMessage, ServiceType, Locations
  <2> QED
    BY <2>1, <2>2 DEF TypeOK
<1>2. Reserved' = Reserved /\ InFlight' = InFlight
  BY DEF SkipMessage, sending, Reserved, InFlight
<1>3. Cardinality(Reserved) \in Nat
  BY SomeSenders DEF Reserved
<1>4. ActiveIsExact' /\ SeenOK'
  BY <1>2 DEF IInv, SkipMessage, sending, ActiveIsExact, SeenOK
<1>5. BudgetIsExact'
  BY <1>1, <1>2, <1>3 DEF IInv, TypeOK, ChannelType, SkipMessage, BudgetIsExact, Open
<1>6. BankOK'
  BY <1>1, <1>2 DEF IInv, TypeOK, ChannelType, ServiceType, SkipMessage, sending, recorder, BankOK,
     Open
<1>7. PlaceOK'
  BY <1>1, <1>2 DEF IInv, TypeOK, ChannelType, ServiceType, SkipMessage, sending, recorder, PlaceOK,
     Open
<1>8. NothingInFlight' /\ SentIsRecorded'
  BY <1>1, <1>2 DEF IInv, TypeOK, ChannelType, ServiceType, SkipMessage, NothingInFlight,
     SentIsRecorded, PlaceOK
<1>9. RoomOK'
  BY <1>1, <1>2, <1>3 DEF IInv, TypeOK, ChannelType, ServiceType, PohType, SkipMessage, recorder,
     RoomOK, Demand, Open
<1> QED
  BY <1>1, <1>4, <1>5, <1>6, <1>7, <1>8, <1>9 DEF IInv

LEMMA HandleResetStep ==
    ASSUME ConstantsOK, MarginOK, IInv, HandleReset
    PROVE  IInv'
<1> USE DEF ConstantsOK, MarginOK
<1>1. TypeOK'
  <2>1. ChannelType' /\ SendersType' /\ LockType'
    BY DEF IInv, TypeOK, HandleReset, sending, ChannelType, SendersType, LockType
  <2>2. PohType' /\ MessageType'
    BY DEF IInv, TypeOK, HandleReset, recorder, PohType, MessageType, Poh, reset, NoMessage
  <2>3. ServiceType'
    BY DEF IInv, TypeOK, HandleReset, ServiceType, Locations
  <2> QED
    BY <2>1, <2>2, <2>3 DEF TypeOK
<1>2. Reserved' = Reserved /\ InFlight' = InFlight
  BY DEF HandleReset, sending, Reserved, InFlight
<1>3. Cardinality(Reserved) \in Nat
  BY SomeSenders DEF Reserved
<1>a. channel = <<>> /\ Reserved = {} /\ Cardinality(Reserved) = 0 /\ ~Open
  BY SomeSenders DEF IInv, HandleReset, NothingInFlight, Reserved, PlaceOK
<1>4. ActiveIsExact' /\ SeenOK'
  BY <1>2 DEF IInv, HandleReset, sending, ActiveIsExact, SeenOK
<1>5. BudgetIsExact'
  BY <1>1, <1>2, <1>3, <1>a DEF IInv, TypeOK, ChannelType, HandleReset, BudgetIsExact, Open
<1>6. BankOK'
  BY <1>1, <1>2, <1>a DEF IInv, TypeOK, ChannelType, ServiceType, HandleReset, sending, recorder, BankOK,
     Open, NothingInFlight, NoMessage, Reserved, PlaceOK
<1>7. PlaceOK'
  BY <1>1, <1>2, <1>a DEF IInv, TypeOK, ChannelType, ServiceType, HandleReset, sending, recorder, PlaceOK,
     Open
<1>8. NothingInFlight' /\ SentIsRecorded'
  BY <1>1, <1>2, <1>a DEF IInv, TypeOK, ChannelType, ServiceType, HandleReset, NothingInFlight,
     SentIsRecorded, PlaceOK
<1>9. RoomOK'
  BY <1>1, <1>2, <1>3, <1>a DEF IInv, TypeOK, ChannelType, ServiceType, PohType, HandleReset, recorder,
     RoomOK, Demand, Open, NothingInFlight, PlaceOK
<1> QED
  BY <1>1, <1>4, <1>5, <1>6, <1>7, <1>8, <1>9 DEF IInv


\* The tick that ends the slot finds nothing left to record.
LEMMA TickStep ==
    ASSUME ConstantsOK, MarginOK, IInv, Tick
    PROVE  IInv'
<1> USE DEF ConstantsOK, MarginOK
<1>1. TypeOK'
  <2>1. ChannelType' /\ SendersType' /\ LockType'
    BY DEF IInv, TypeOK, Tick, sending, ChannelType, SendersType, LockType
  <2>2. PohType'
    BY DEF IInv, TypeOK, Tick, PohType, Poh, tick, LastTick
  <2>3. MessageType'
    BY DEF IInv, TypeOK, Tick, MessageType, LateAfter
  <2>4. ServiceType'
    BY DEF IInv, TypeOK, Tick, ServiceType, Locations
  <2> QED
    BY <2>1, <2>2, <2>3, <2>4 DEF TypeOK
<1>2. Reserved' = Reserved /\ InFlight' = InFlight
  BY DEF Tick, sending, Reserved, InFlight
<1>3. Cardinality(Reserved) \in Nat /\ Len(channel) \in Nat
  BY SomeSenders DEF IInv, TypeOK, ChannelType, Reserved
<1>4. service.next = 0 /\ poh.remaining = 1
  BY DEF IInv, Tick, PlaceOK
<1>5. LastTick(poh) => ~Open /\ Demand = 0
  BY <1>3, <1>4 DEF IInv, TypeOK, PohType, Tick, RoomOK, Demand
<1>6. LastTick(poh) => ~Open /\ channel = <<>> /\ Reserved = {}
  <2>1. Demand = 0 => Len(channel) = 0 /\ Cardinality(Reserved) = 0
    BY <1>3, <1>4 DEF Demand
  <2> QED
    BY <1>5, <2>1, SomeSenders, EmptySeq DEF IInv, TypeOK, ChannelType, Reserved
<1>7. ActiveIsExact' /\ SeenOK'
  BY <1>2 DEF IInv, Tick, sending, ActiveIsExact, SeenOK
<1>8. BudgetIsExact'
  BY <1>2 DEF IInv, Tick, BudgetIsExact, Open
<1>9. BankOK'
  <2>1. message'.kind = message.kind
    BY DEF IInv, TypeOK, MessageType, Tick, LateAfter
  <2>2. service'.next = 0
    BY <1>4 DEF IInv, TypeOK, ServiceType, Tick
  <2> QED
    BY <1>2, <1>6, <2>1, <2>2 DEF IInv, Tick, sending, BankOK, Open
<1>10. PlaceOK'
  BY <1>2, <1>4 DEF IInv, TypeOK, ServiceType, Tick, PlaceOK, Open
<1>11. NothingInFlight' /\ SentIsRecorded'
  BY DEF IInv, TypeOK, ServiceType, Tick, NothingInFlight, SentIsRecorded
<1>12. RoomOK'
  <2>1. poh'.remaining = HashesPerTick
    BY DEF Tick, tick
  <2>2. Demand' \in Nat /\ Demand' <= Capacity
    BY <1>2, <1>3, <1>4 DEF IInv, TypeOK, ServiceType, ChannelType, Words, Tick, BudgetIsExact, Demand
  <2> QED
    BY <2>1, <2>2 DEF RoomOK
<1> QED
  BY <1>1, <1>7, <1>8, <1>9, <1>10, <1>11, <1>12 DEF IInv

\* A batch of hashes leaves room for all that is accepted.
LEMMA HashStep ==
    ASSUME ConstantsOK, MarginOK, IInv, Hash
    PROVE  IInv'
<1> USE DEF ConstantsOK, MarginOK
<1>1. /\ poh' \in Poh /\ poh'.tick = poh.tick
      /\ poh'.remaining >= poh.remaining - HashesPerBatch
  BY DEF IInv, TypeOK, PohType, Poh, Hash, hash
<1>2. word' \in {word, Shutdown}
  BY DEF Hash
<1>3. TypeOK'
  <2>1. ChannelType'
    BY <1>2 DEF IInv, TypeOK, Hash, ChannelType, Shutdown, Words, DisabledBankId
  <2>2. SendersType' /\ LockType' /\ PohType' /\ MessageType'
    BY <1>1 DEF IInv, TypeOK, Hash, sending, SendersType, LockType, PohType, MessageType
  <2>3. ServiceType'
    BY DEF IInv, TypeOK, Hash, ServiceType, Locations
  <2> QED
    BY <2>1, <2>2, <2>3 DEF TypeOK
<1>4. Reserved' = Reserved /\ InFlight' = InFlight
  BY DEF Hash, sending, Reserved, InFlight
<1>5. Cardinality(Reserved) \in Nat /\ Len(channel) \in Nat
  BY SomeSenders DEF IInv, TypeOK, ChannelType, Reserved
<1>6. service'.next = 0 /\ service.next = 0 /\ service'.at \in {"tick", "receive"}
  BY DEF IInv, TypeOK, ServiceType, Hash
<1>7. ActiveIsExact' /\ SeenOK'
  BY <1>4 DEF IInv, Hash, sending, ActiveIsExact, SeenOK
<1>8. BudgetIsExact'
  BY <1>2, <1>4, <1>5 DEF IInv, TypeOK, ChannelType, Hash, BudgetIsExact, Open, Shutdown, Words
<1>9. BankOK'
  BY <1>2, <1>4, <1>6 DEF IInv, Hash, sending, BankOK, Open, Shutdown
<1>10. PlaceOK'
  <2>1. service'.at = "tick" => poh'.remaining = 1
    BY DEF IInv, TypeOK, ServiceType, Hash
  <2>2. Open' => Open /\ ~service'.taken /\ ~service'.exiting
    BY <1>2 DEF IInv, TypeOK, ServiceType, Hash, PlaceOK, Open, Shutdown
  <2> QED
    BY <1>6, <2>1, <2>2 DEF PlaceOK
<1>11. NothingInFlight' /\ SentIsRecorded'
  BY <1>6 DEF NothingInFlight, SentIsRecorded
<1>12. RoomOK'
  <2> SUFFICES ASSUME LastTick(poh)' PROVE RoomOK'
    BY DEF RoomOK
  <2>1. LastTick(poh) /\ remaining_hashes_in_slot(poh') = poh'.remaining
    BY <1>1 DEF IInv, TypeOK, PohType, Poh, LastTick, remaining_hashes_in_slot
  <2>2. Demand' = Demand /\ Demand \in Nat /\ Demand <= Capacity
    BY <1>4, <1>5, <1>6 DEF IInv, TypeOK, ChannelType, Words, Hash, BudgetIsExact, Demand
  <2>3. Open' => poh'.remaining > TicksPerSlot + Capacity
    BY <1>1, <2>1 DEF IInv, TypeOK, PohType, Poh, Hash, should_shutdown, SaturatingSub, Open, Shutdown
  <2>4. Demand # 0 => poh'.remaining > Capacity
    BY <1>1, <1>6, <2>1 DEF IInv, TypeOK, PohType, Poh, Hash, RoomOK
  <2>5. service'.at = "tick" => Demand = 0
    BY <1>1, <2>4 DEF Poh, IInv, TypeOK, ServiceType, Hash
  <2> QED
    BY <1>1, <1>6, <2>2, <2>3, <2>4, <2>5 DEF RoomOK, Poh
<1> QED
  BY <1>3, <1>7, <1>8, <1>9, <1>10, <1>11, <1>12 DEF IInv

\* A record finds its bank and a hash: PohRecorder::record does not fail.
LEMMA RecordStep ==
    ASSUME ConstantsOK, MarginOK, IInv, Record
    PROVE  IInv'
<1> USE DEF ConstantsOK, MarginOK
<1>1. Cardinality(Reserved) \in Nat /\ Len(channel) \in Nat
  BY SomeSenders DEF IInv, TypeOK, ChannelType, Reserved
<1>2. ~RecordFails(service.next)
  <2>1. service.next = working_bank
    BY DEF IInv, Record, BankOK
  <2>2. Demand > 0
    BY <1>1 DEF Record, Demand
  <2>3. LastTick(poh) => poh.remaining > 1
    BY <1>1, <2>2 DEF IInv, TypeOK, PohType, Poh, RoomOK, Demand
  <2> QED
    BY <2>1, <2>3 DEF RecordFails
<1>3. /\ poh' = Recorded /\ word' \in {word, Shutdown}
      /\ service' = [service EXCEPT !.at = "receive", !.next = 0, !.mode = "record"]
  BY <1>2 DEF Record
<1>4. /\ poh' \in Poh
      /\ poh.remaining # 1 => poh'.tick = poh.tick /\ poh'.remaining = poh.remaining - 1
      /\ poh.remaining = 1 => poh'.remaining = HashesPerTick - 1
  BY <1>3 DEF IInv, TypeOK, PohType, Poh, Recorded, record_batches, tick, LastTick
<1>5. TypeOK'
  <2>1. ChannelType'
    BY <1>3 DEF IInv, TypeOK, Record, ChannelType, Shutdown, Words, DisabledBankId
  <2>2. SendersType' /\ LockType' /\ PohType' /\ MessageType'
    BY <1>4 DEF IInv, TypeOK, Record, sending, SendersType, LockType, PohType, MessageType
  <2>3. ServiceType'
    <3>1. ServiceType
      BY DEF IInv, TypeOK
    <3>2. service' = [service EXCEPT !.at = "receive", !.next = 0, !.mode = "record"]
      BY <1>3
    <3>3. 0 \in 0..Banks /\ "receive" \in Locations
      BY DEF Locations
    <3> QED
      BY <3>1, <3>2, <3>3, Zenon DEF ServiceType
  <2> QED
    BY <2>1, <2>2, <2>3 DEF TypeOK
<1>6. Reserved' = Reserved /\ InFlight' = InFlight
  BY DEF Record, sending, Reserved, InFlight
<1>7. /\ service'.next = 0 /\ service.next # 0 /\ service'.at = "receive"
      /\ service'.taken = service.taken /\ service'.exiting = service.exiting
  BY <1>3 DEF IInv, TypeOK, ServiceType, Record
<1>8. ActiveIsExact' /\ SeenOK'
  BY <1>6 DEF IInv, Record, sending, ActiveIsExact, SeenOK
<1>9. BudgetIsExact'
  BY <1>1, <1>3, <1>6 DEF IInv, TypeOK, ChannelType, Record, BudgetIsExact, Open, Shutdown, Words
<1>10. BankOK'
  BY <1>3, <1>6, <1>7 DEF IInv, Record, sending, BankOK, Open, Shutdown
<1>11. PlaceOK'
  BY <1>3, <1>7 DEF IInv, PlaceOK, Open, Shutdown
<1>12. NothingInFlight' /\ SentIsRecorded'
  BY <1>7 DEF NothingInFlight, SentIsRecorded
<1>13. RoomOK'
  <2> SUFFICES ASSUME LastTick(poh)' PROVE RoomOK'
    BY DEF RoomOK
  <2>1. remaining_hashes_in_slot(poh') = poh'.remaining
    BY <1>4 DEF Poh, LastTick, remaining_hashes_in_slot
  <2>2. Demand' = Demand - 1 /\ Demand' \in Nat /\ Demand' <= Capacity
    BY <1>1, <1>6, <1>7, SMTT(30) DEF IInv, TypeOK, ChannelType, Words, Record, BudgetIsExact, Demand
  <2>3. Open' => poh'.remaining > TicksPerSlot + Capacity
    BY <1>2, <1>4, <2>1 DEF Record, Poh, should_shutdown, SaturatingSub, Open, Shutdown
  <2>4. poh'.remaining > Demand' \/ Demand' = 0
    <3>1. Demand \in Nat /\ Demand # 0 /\ poh.remaining \in Nat
      BY <1>1, <1>7 DEF IInv, TypeOK, PohType, Poh, Demand
    <3>2. CASE poh.remaining = 1
      BY <1>4, <2>2, <3>2
    <3>3. CASE poh.remaining # 1
      <4>1. poh.remaining > Demand
        BY <1>4, <3>1, <3>3 DEF IInv, RoomOK, LastTick
      <4> QED
        BY <1>4, <2>2, <3>1, <3>3, <4>1
    <3> QED
      BY <3>2, <3>3
  <2> QED
    BY <1>7, <2>3, <2>4 DEF RoomOK
<1> QED
  BY <1>5, <1>8, <1>9, <1>10, <1>11, <1>12, <1>13 DEF IInv

\* A record that leaves the channel still needs its hash.
LEMMA ReceivedStep ==
    ASSUME ConstantsOK, MarginOK, IInv, Received, service.next = 0,
           UNCHANGED <<active, sending, recorder, created, exit>>
    PROVE  IInv'
<1> USE DEF ConstantsOK, MarginOK
<1>1. Cardinality(Reserved) \in Nat /\ Len(channel) \in Nat \ {0}
  BY SomeSenders, EmptySeq DEF IInv, TypeOK, ChannelType, Reserved, Received
<1>2. /\ channel' \in Seq(1..Banks) /\ Len(channel') = Len(channel) - 1
      /\ Head(channel) = channel[1] /\ channel[1] \in 1..Banks
      /\ \A i \in 1..Len(channel') : channel'[i] = channel[i + 1]
  BY HeadTailProperties DEF IInv, TypeOK, ChannelType, Received
<1>3. word' = [bank |-> word.bank, allowed |-> word.allowed + 1] /\ word.allowed < Capacity
  BY <1>1, SMTT(30) DEF IInv, TypeOK, ChannelType, Words, BudgetIsExact, Received, Incremented
<1>4. /\ service'.at = "work" /\ service'.next = channel[1] /\ service'.next # 0
      /\ service'.taken = service.taken /\ service'.exiting = service.exiting
      /\ ServiceType'
  <2>1. ServiceType
    BY DEF IInv, TypeOK
  <2>2. service' = [service EXCEPT !.at = "work", !.next = channel[1]]
    BY <1>2 DEF Received
  <2>3. channel[1] \in 0..Banks /\ channel[1] # 0 /\ "work" \in Locations
    BY <1>2 DEF Locations
  <2>4. ServiceType'
    BY <2>1, <2>2, <2>3, Zenon DEF ServiceType
  <2> QED
    BY <2>1, <2>2, <2>3, <2>4 DEF ServiceType
<1>5. TypeOK'
  <2>1. ChannelType'
    BY <1>2, <1>3 DEF IInv, TypeOK, ChannelType, Words
  <2>2. SendersType' /\ LockType' /\ PohType' /\ MessageType'
    BY DEF IInv, TypeOK, sending, recorder, SendersType, LockType, PohType, MessageType
  <2> QED
    BY <1>4, <2>1, <2>2 DEF TypeOK
<1>6. Reserved' = Reserved /\ InFlight' = InFlight
  BY DEF sending, Reserved, InFlight
<1>7. ActiveIsExact' /\ SeenOK'
  BY <1>6 DEF IInv, sending, ActiveIsExact, SeenOK
<1>8. BudgetIsExact'
  <2>1. word.allowed \in Nat /\ word'.allowed = word.allowed + 1 /\ word'.bank = word.bank
    BY <1>3 DEF IInv, TypeOK, ChannelType, Words
  <2>2. Len(channel') = Len(channel) - 1
    BY <1>2
  <2>3. BudgetIsExact
    BY DEF IInv
  <2> QED
    BY <1>1, <1>6, <2>1, <2>2, <2>3 DEF BudgetIsExact, Open
<1>9. BankOK'
  <2>1. \A i \in 1..Len(channel') : channel'[i] = working_bank
    <3> TAKE i \in 1..Len(channel')
    <3>1. i + 1 \in 1..Len(channel)
      BY <1>1, <1>2
    <3> QED
      BY <1>2, <3>1 DEF IInv, BankOK
  <2>2. channel[1] = working_bank
    BY <1>1 DEF IInv, BankOK
  <2> QED
    BY <1>3, <1>4, <1>6, <2>1, <2>2 DEF IInv, sending, recorder, BankOK, Open
<1>10. PlaceOK'
  BY <1>3, <1>4 DEF IInv, PlaceOK, Open
<1>11. NothingInFlight' /\ SentIsRecorded'
  BY <1>4 DEF NothingInFlight, SentIsRecorded
<1>12. RoomOK'
  <2>1. Demand' = Demand
    BY <1>1, <1>2, <1>4, <1>6 DEF Demand
  <2> QED
    BY <1>3, <1>4, <2>1 DEF IInv, recorder, RoomOK, Open
<1> QED
  BY <1>5, <1>7, <1>8, <1>9, <1>10, <1>11, <1>12 DEF IInv

\* try_recv ends without a record: a closed channel has been emptied.
LEMMA NothingReceivedStep ==
    ASSUME ConstantsOK, MarginOK, IInv, NEW at,
           \/ service.at = "receive" /\ at = "active"
           \/ service.at = "again" /\ channel = <<>> /\ at \in {"work", "wait", "check"}
           \/ service.at = "wait" /\ at = "check",
           service' = [service EXCEPT !.at = at],
           UNCHANGED <<word, active, channel, sending, recorder, created, exit>>
    PROVE  IInv'
<1> USE DEF ConstantsOK, MarginOK
<1>1. /\ service'.at = at /\ service'.next = service.next
      /\ service'.taken = service.taken /\ service'.exiting = service.exiting
      /\ ServiceType'
  BY DEF IInv, TypeOK, ServiceType, Locations
<1>2. TypeOK'
  BY <1>1 DEF IInv, TypeOK, sending, recorder, ChannelType, SendersType, LockType, PohType, MessageType
<1>3. Reserved' = Reserved /\ InFlight' = InFlight
  BY DEF sending, Reserved, InFlight
<1>4. service.next = 0
  BY DEF IInv, PlaceOK
<1>5. ActiveIsExact' /\ SeenOK' /\ BudgetIsExact'
  BY <1>3 DEF IInv, sending, ActiveIsExact, SeenOK, BudgetIsExact, Open
<1>6. BankOK'
  BY <1>1, <1>3 DEF IInv, sending, recorder, BankOK, Open
<1>7. PlaceOK'
  BY <1>1, <1>4 DEF IInv, PlaceOK, Open
<1>8. NothingInFlight' /\ SentIsRecorded'
  BY <1>1 DEF NothingInFlight, SentIsRecorded
<1>9. RoomOK'
  <2>1. Demand' = Demand
    BY <1>1, <1>3 DEF Demand
  <2>2. service.at = "again" /\ ~Open => Demand = 0
    BY <1>4, SomeSenders DEF IInv, PlaceOK, Demand, Reserved
  <2> QED
    BY <1>1, <1>4, <2>1, <2>2 DEF IInv, recorder, RoomOK, Open
<1> QED
  BY <1>2, <1>5, <1>6, <1>7, <1>8, <1>9 DEF IInv

\* The three places where a record can be received.
LEMMA ReceiveStep ==
    ASSUME ConstantsOK, MarginOK, IInv, Receive \/ ReceiveAgain \/ Wait
    PROVE  IInv'
<1>1. service.next = 0
  BY DEF IInv, PlaceOK, Receive, ReceiveAgain, Wait
<1>2. CASE Received
  BY <1>1, <1>2, ReceivedStep DEF Receive, ReceiveAgain, Wait
<1>3. CASE Receive /\ ~Received
  BY <1>3, NothingReceivedStep DEF Receive
<1>4. CASE ReceiveAgain /\ ~Received
  <2>1. PICK at \in {"work", "wait", "check"} : service' = [service EXCEPT !.at = at]
    BY <1>4 DEF ReceiveAgain
  <2> QED
    BY <1>4, <2>1, NothingReceivedStep, SMTT(30) DEF ReceiveAgain
<1>5. CASE Wait /\ ~Received
  BY <1>5, NothingReceivedStep DEF Wait
<1> QED
  BY <1>2, <1>3, <1>4, <1>5

\* A bank is set when the last one is gone and its records are in.
LEMMA HandleSetBankStep ==
    ASSUME ConstantsOK, MarginOK, IInv, HandleSetBank
    PROVE  IInv'
<1> USE DEF ConstantsOK, MarginOK
<1>1. channel = <<>> /\ Reserved = {} /\ Cardinality(Reserved) = 0 /\ ~Open /\ working_bank = 0
  BY SomeSenders DEF IInv, HandleSetBank, NothingInFlight, Reserved, PlaceOK, BankOK
<1>2. service.next = 0
  BY DEF IInv, HandleSetBank, PlaceOK
<1> DEFINE should_restart == ~message.late /\ ~LastTick(poh)
<1>3. /\ service' = [service EXCEPT !.at = "top", !.taken = FALSE]
      /\ message' = NoMessage
      /\ working_bank' = set_bank(message)
      /\ word' = IF should_restart THEN restart(message.bank) ELSE word
      /\ indexes' \in {0, indexes} /\ count' \in {0, count}
  BY <1>1 DEF HandleSetBank
<1>4. message.bank \in 1..Banks
  BY DEF IInv, TypeOK, MessageType, HandleSetBank
<1>5. TypeOK'
  <2>1. ChannelType'
    BY <1>3, <1>4 DEF IInv, TypeOK, HandleSetBank, ChannelType, Words, DisabledBankId, restart
  <2>2. SendersType' /\ LockType' /\ MessageType'
    BY <1>3 DEF IInv, TypeOK, HandleSetBank, SendersType, LockType, MessageType, NoMessage
  <2>3. PohType'
    BY <1>3, <1>4 DEF IInv, TypeOK, HandleSetBank, PohType, set_bank
  <2>4. ServiceType'
    BY <1>3 DEF IInv, TypeOK, ServiceType, Locations
  <2> QED
    BY <2>1, <2>2, <2>3, <2>4 DEF TypeOK
<1>6. Reserved' = Reserved /\ InFlight' = InFlight /\ channel' = <<>>
  BY <1>1 DEF HandleSetBank, Reserved, InFlight
<1>7. /\ service'.at = "top" /\ service'.next = 0 /\ service'.taken = FALSE
      /\ service'.exiting = service.exiting /\ ~service.exiting
  BY <1>2, <1>3 DEF IInv, TypeOK, ServiceType, HandleSetBank
<1>8. ActiveIsExact' /\ SeenOK'
  BY <1>6 DEF IInv, HandleSetBank, ActiveIsExact, SeenOK
<1>9. Open' => /\ word' = restart(message.bank) /\ should_restart
               /\ working_bank' = message.bank
  BY <1>1, <1>3 DEF Open, set_bank
<1>10. BudgetIsExact'
  <2>1. CASE should_restart
    BY <1>1, <1>3, <1>6, <2>1 DEF BudgetIsExact, Open, restart
  <2>2. CASE ~should_restart
    BY <1>1, <1>3, <1>6, <2>2 DEF IInv, HandleSetBank, BudgetIsExact, Open
  <2> QED
    BY <2>1, <2>2
<1>11. BankOK'
  BY <1>1, <1>3, <1>4, <1>6, <1>7, <1>9 DEF BankOK, NoMessage, restart
<1>12. PlaceOK'
  BY <1>1, <1>6, <1>7 DEF PlaceOK
<1>13. NothingInFlight' /\ SentIsRecorded'
  BY <1>7 DEF NothingInFlight, SentIsRecorded
<1>14. RoomOK'
  <2>1. Demand' = 0
    BY <1>1, <1>6, <1>7 DEF Demand
  <2>2. poh' = poh
    BY DEF HandleSetBank
  <2> QED
    BY <1>9, <2>1, <2>2 DEF RoomOK
<1> QED
  BY <1>5, <1>8, <1>10, <1>11, <1>12, <1>13, <1>14 DEF IInv

----------------------------------------------------------------------------
(* Replay and exit.                                                        *)

LEMMA ReplayStep ==
    ASSUME ConstantsOK, MarginOK, IInv, Replay \/ SetExit
    PROVE  IInv'
<1> USE DEF ConstantsOK, Replay, SendSetBank, SendReset, SetExit, sending, recorder
<1>1. TypeOK'
  <2>1. ChannelType' /\ SendersType' /\ LockType' /\ ServiceType'
    BY DEF IInv, TypeOK, ChannelType, SendersType, LockType, ServiceType
  <2>2. PohType'
    BY DEF IInv, TypeOK, PohType
  <2>3. MessageType'
    <3>1. CASE message' = message
      BY <3>1 DEF IInv, TypeOK, MessageType
    <3>2. CASE SendReset
      BY <3>2 DEF MessageType
    <3>3. CASE SendSetBank
      <4>1. created' \in 0..Banks /\ created' # 0
        BY <3>3 DEF IInv, TypeOK, PohType
      <4> QED
        BY <3>3, <4>1 DEF MessageType
    <3> QED
      BY <3>1, <3>2, <3>3
  <2> QED
    BY <2>1, <2>2, <2>3 DEF TypeOK
<1>2. Reserved' = Reserved /\ InFlight' = InFlight
  BY DEF Reserved, InFlight
<1>3. UNCHANGED <<word, active, channel, senders, poh, working_bank, service>>
  OBVIOUS
<1>4. message'.kind = "set_bank" => working_bank = 0
  BY DEF IInv, BankOK
<1>5. ActiveIsExact' /\ SeenOK' /\ BudgetIsExact' /\ BankOK'
  BY <1>2, <1>3, <1>4 DEF IInv, ActiveIsExact, SeenOK, BudgetIsExact, BankOK, Open
<1>6. PlaceOK' /\ NothingInFlight' /\ SentIsRecorded' /\ RoomOK'
  BY <1>2, <1>3 DEF IInv, PlaceOK, NothingInFlight, SentIsRecorded, RoomOK, Demand, Open
<1> QED
  BY <1>1, <1>5, <1>6 DEF IInv

----------------------------------------------------------------------------
(* The senders.                                                            *)

\* Steps of a sender that neither reserve nor fill a place in the channel.
LEMMA QuietSenderStep ==
    ASSUME ConstantsOK, MarginOK, IInv, NEW s \in Senders,
           NEW at \in Places \ {"sending"}, NEW bank \in 0..Banks, NEW seen \in Words,
           senders' = [senders EXCEPT ![s] = [at |-> at, bank |-> bank, seen |-> seen]],
           senders[s].at # "sending",
           at \in {"entering", "reserving"} => bank # 0 /\ seen.bank = bank /\ seen.allowed >= 1,
           ActiveIsExact', active' \in Nat, LockType',
           UNCHANGED <<word, channel, recorder, created, exit, service>>
    PROVE  IInv'
<1> USE DEF ConstantsOK
<1>1. TypeOK'
  <2>1. SendersType'
    BY DEF IInv, TypeOK, SendersType
  <2>2. ChannelType' /\ PohType' /\ MessageType' /\ ServiceType'
    BY DEF IInv, TypeOK, ChannelType, PohType, MessageType, ServiceType, recorder
  <2> QED
    BY <2>1, <2>2 DEF TypeOK
<1>2. Reserved' = Reserved /\ \A r \in Reserved : senders'[r].bank = senders[r].bank
  BY DEF IInv, TypeOK, SendersType, Reserved
<1>3. SeenOK'
  BY DEF IInv, TypeOK, SendersType, SeenOK
<1>4. BudgetIsExact' /\ BankOK'
  BY <1>2 DEF IInv, BudgetIsExact, BankOK, Open, recorder
<1>5. PlaceOK' /\ NothingInFlight' /\ SentIsRecorded'
  BY <1>2 DEF IInv, PlaceOK, NothingInFlight, SentIsRecorded, Open, recorder
<1>6. RoomOK'
  BY <1>2 DEF IInv, RoomOK, Demand, Open, recorder
<1> QED
  BY <1>1, <1>3, <1>4, <1>5, <1>6 DEF IInv

LEMMA LoadStep ==
    ASSUME ConstantsOK, MarginOK, IInv, NEW s \in Senders, NEW b \in 1..Banks, Load(s, b)
    PROVE  IInv'
<1> USE DEF ConstantsOK
<1>1. senders[s].at \in {"idle", "retry"}
  BY DEF Load
<1>2. LockType' /\ active' \in Nat
  BY DEF IInv, TypeOK, Load, LockType, ChannelType
<1>3. CASE word.bank = b /\ word.allowed >= 1
  <2>1. senders' = [senders EXCEPT ![s] = [at |-> "entering", bank |-> b, seen |-> word]]
    BY <1>3 DEF Load
  <2>2. InFlight' = InFlight
    BY <1>1, <2>1 DEF IInv, TypeOK, SendersType, InFlight
  <2>3. ActiveIsExact'
    BY <2>2 DEF IInv, Load, ActiveIsExact
  <2>4. word \in Words /\ b \in 0..Banks /\ "entering" \in Places \ {"sending"}
    BY DEF IInv, TypeOK, ChannelType, Places
  <2>5. b # 0 /\ UNCHANGED <<word, channel, recorder, created, exit, service>>
    BY DEF Load
  <2> HIDE DEF ConstantsOK
  <2> QED
    BY <1>1, <1>2, <1>3, <2>1, <2>3, <2>4, <2>5, QuietSenderStep
<1>4. CASE ~(word.bank = b /\ word.allowed >= 1)
  <2>1. senders' = [senders EXCEPT ![s] = [at |-> "idle", bank |-> 0, seen |-> Shutdown]]
    BY <1>4 DEF Load
  <2>2. InFlight' = InFlight
    BY <1>1, <2>1 DEF IInv, TypeOK, SendersType, InFlight
  <2>3. ActiveIsExact'
    BY <2>2 DEF IInv, Load, ActiveIsExact
  <2>4. Shutdown \in Words /\ 0 \in 0..Banks /\ "idle" \in Places \ {"sending"}
    BY DEF Shutdown, Words, DisabledBankId, Places
  <2> QED
    BY <1>1, <1>2, <2>1, <2>3, <2>4, QuietSenderStep DEF Load
<1> QED
  BY <1>3, <1>4


\* Steps that change where a sender is: its record and the rest of it stay.
LEMMA Moved ==
    ASSUME TypeOK, NEW s \in Senders, NEW at, senders' = [senders EXCEPT ![s].at = at]
    PROVE  senders' = [senders EXCEPT ![s] = [at |-> at, bank |-> senders[s].bank, seen |-> senders[s].seen]]
<1>1. senders[s] \in [at : Places, bank : 0..Banks, seen : Words]
  BY DEF TypeOK, SendersType
<1>2. [senders[s] EXCEPT !.at = at] = [at |-> at, bank |-> senders[s].bank, seen |-> senders[s].seen]
  BY <1>1
<1>3. senders' = [senders EXCEPT ![s] = [senders[s] EXCEPT !.at = at]]
  OBVIOUS
<1> QED
  BY <1>2, <1>3, Zenon

LEMMA EnterStep ==
    ASSUME ConstantsOK, MarginOK, IInv, NEW s \in Senders, Enter(s)
    PROVE  IInv'
<1>1. senders' = [senders EXCEPT ![s] = [at |-> "reserving", bank |-> senders[s].bank, seen |-> senders[s].seen]]
  BY Moved DEF IInv, Enter
<1>2. senders[s].bank \in 0..Banks /\ senders[s].seen \in Words /\ "reserving" \in Places \ {"sending"}
  BY DEF IInv, TypeOK, SendersType, Places
<1>3. senders[s].bank # 0 /\ senders[s].seen.bank = senders[s].bank /\ senders[s].seen.allowed >= 1
  BY DEF IInv, SeenOK, Enter
<1>4. LockType' /\ active' \in Nat
  BY DEF IInv, TypeOK, Enter, LockType, ChannelType
<1>5. s \notin InFlight /\ InFlight' = InFlight \union {s} /\ InFlight \in SUBSET Senders
  BY DEF IInv, TypeOK, SendersType, Enter, InFlight
<1>6. ActiveIsExact'
  BY <1>5, OneMore DEF IInv, Enter, ActiveIsExact
<1>7. UNCHANGED <<word, channel, recorder, created, exit, service>> /\ senders[s].at # "sending"
  BY DEF Enter
<1> QED
  BY <1>1, <1>2, <1>3, <1>4, <1>6, <1>7, QuietSenderStep

LEMMA RetryStep ==
    ASSUME ConstantsOK, MarginOK, IInv, NEW s \in Senders, Retry(s)
    PROVE  IInv'
<1>1. senders' = [senders EXCEPT ![s] = [at |-> "retry", bank |-> senders[s].bank, seen |-> senders[s].seen]]
  BY Moved DEF IInv, Retry
<1>2. senders[s].bank \in 0..Banks /\ senders[s].seen \in Words /\ "retry" \in Places \ {"sending"}
  BY DEF IInv, TypeOK, SendersType, Places
<1>3. s \in InFlight /\ InFlight' = InFlight \ {s} /\ InFlight \in SUBSET Senders /\ InFlight' \in SUBSET Senders
  BY DEF IInv, TypeOK, SendersType, Retry, InFlight
<1>4. ActiveIsExact'
  BY <1>3, OneMore DEF IInv, Retry, ActiveIsExact
<1>5. LockType' /\ active' \in Nat
  BY <1>3, <1>4, SomeSenders DEF IInv, TypeOK, Retry, LockType, ActiveIsExact
<1>6. UNCHANGED <<word, channel, recorder, created, exit, service>> /\ senders[s].at # "sending"
  BY DEF Retry
<1> QED
  BY <1>1, <1>2, <1>4, <1>5, <1>6, QuietSenderStep

LEMMA ReturnIndexStep ==
    ASSUME ConstantsOK, MarginOK, IInv, NEW s \in Senders, ReturnIndex(s)
    PROVE  IInv'
<1>1. senders' = [senders EXCEPT ![s] = [at |-> "idle", bank |-> 0, seen |-> Shutdown]]
  BY DEF ReturnIndex
<1>2. 0 \in 0..Banks /\ Shutdown \in Words /\ "idle" \in Places \ {"sending"}
  BY DEF Shutdown, Words, DisabledBankId, Places, ConstantsOK
<1>3. s \in InFlight /\ InFlight' = InFlight \ {s} /\ InFlight \in SUBSET Senders /\ InFlight' \in SUBSET Senders
  BY DEF IInv, TypeOK, SendersType, ReturnIndex, InFlight
<1>4. ActiveIsExact'
  BY <1>3, OneMore DEF IInv, ReturnIndex, ActiveIsExact
<1>5. LockType' /\ active' \in Nat
  BY <1>3, <1>4, SomeSenders DEF IInv, TypeOK, ReturnIndex, LockType, ActiveIsExact
<1>6. UNCHANGED <<word, channel, recorder, created, exit, service>> /\ senders[s].at # "sending"
  BY DEF ReturnIndex
<1> QED
  BY <1>1, <1>2, <1>4, <1>5, <1>6, QuietSenderStep

LEMMA ReserveStep ==
    ASSUME ConstantsOK, MarginOK, IInv, NEW s \in Senders, Reserve(s)
    PROVE  IInv'
<1>1. senders[s] \in [at : Places, bank : 0..Banks, seen : Words] /\ senders[s].at = "reserving"
  BY DEF IInv, TypeOK, SendersType, Reserve
<1>2. senders[s].bank \in 0..Banks /\ Shutdown \in Words /\ {"sending", "failed"} \subseteq Places
  BY <1>1 DEF Shutdown, Words, DisabledBankId, Places, ConstantsOK
<1>3. CASE word = senders[s].seen
  <2>1. /\ word' = [word EXCEPT !.allowed = @ - 1]
        /\ senders' = [senders EXCEPT ![s] = [at |-> "sending", bank |-> senders[s].bank, seen |-> Shutdown]]
        /\ UNCHANGED <<active, channel, tracked, lock, indexes, count, recorder, created, exit, service>>
    BY <1>3 DEF Reserve
  <2>2. word.bank = senders[s].bank /\ word.allowed >= 1 /\ senders[s].bank # 0 /\ word \in Words
    BY <1>1, <1>3 DEF IInv, SeenOK, TypeOK, ChannelType
  <2>3. word'.bank = word.bank /\ word'.allowed = word.allowed - 1 /\ word' \in Words
    BY <2>1, <2>2 DEF Words, ConstantsOK
  <2>4. Open /\ Open'
    BY <1>2, <2>2, <2>3 DEF Open, DisabledBankId, ConstantsOK
  <2>5. TypeOK'
    <3>1. SendersType'
      BY <1>2, <2>1 DEF IInv, TypeOK, SendersType
    <3>2. ChannelType' /\ LockType' /\ PohType' /\ MessageType' /\ ServiceType'
      BY <2>1, <2>3 DEF IInv, TypeOK, ChannelType, LockType, PohType, MessageType, ServiceType, recorder
    <3> QED
      BY <3>1, <3>2 DEF TypeOK
  <2>6. s \notin Reserved /\ Reserved' = Reserved \union {s} /\ InFlight' = InFlight
    BY <1>1, <2>1 DEF IInv, TypeOK, SendersType, Reserved, InFlight
  <2>7. /\ Cardinality(Reserved) \in Nat /\ Cardinality(Reserved') = Cardinality(Reserved) + 1
        /\ Len(channel) \in Nat
    BY <2>6, SomeSenders, OneMore DEF Reserved, IInv, TypeOK, ChannelType
  <2>8. ActiveIsExact' /\ SeenOK'
    BY <2>1, <2>2, <2>6 DEF IInv, TypeOK, SendersType, ActiveIsExact, SeenOK
  <2>9. BudgetIsExact'
    <3>1. word.allowed \in Int /\ word.allowed + Len(channel) + Cardinality(Reserved) = Capacity
      BY <2>2, <2>4 DEF IInv, BudgetIsExact, Words
    <3>2. word'.allowed + Len(channel') + Cardinality(Reserved') = Capacity
      BY <2>1, <2>3, <2>7, <3>1, SMTT(30)
    <3> QED
      BY <3>2 DEF BudgetIsExact, ConstantsOK
  <2>10. BankOK'
    BY <2>1, <2>2, <2>3, <2>4, <2>6 DEF IInv, TypeOK, SendersType, BankOK, Reserved, recorder
  <2>11. PlaceOK' /\ NothingInFlight' /\ SentIsRecorded'
    BY <2>1, <2>4 DEF IInv, PlaceOK, NothingInFlight, SentIsRecorded, recorder
  <2>12. RoomOK'
    <3>1. word.allowed + Len(channel) + Cardinality(Reserved) = Capacity /\ Capacity \in Nat
      BY <2>4 DEF IInv, BudgetIsExact, ConstantsOK
    <3>2. Demand' <= Capacity + 1 /\ Demand' \in Nat
      BY <2>1, <2>2, <2>7, <3>1 DEF Demand, Words, ConstantsOK
    <3>3. poh' = poh /\ service' = service /\ poh.remaining \in Int
      BY <2>1 DEF recorder, IInv, TypeOK, PohType, Poh
    <3> QED
      BY <2>4, <3>2, <3>3 DEF IInv, RoomOK, LastTick, ConstantsOK
  <2> QED
    BY <2>5, <2>8, <2>9, <2>10, <2>11, <2>12 DEF IInv
<1>4. CASE word # senders[s].seen
  <2>1. /\ senders' = [senders EXCEPT ![s] = [at |-> "failed", bank |-> senders[s].bank, seen |-> Shutdown]]
        /\ UNCHANGED <<word, channel, recorder, created, exit, service>>
    BY <1>4 DEF Reserve
  <2>2. InFlight' = InFlight
    BY <1>1, <2>1 DEF IInv, TypeOK, SendersType, InFlight
  <2>3. ActiveIsExact' /\ LockType' /\ active' \in Nat
    BY <2>2 DEF IInv, TypeOK, ChannelType, LockType, Reserve, ActiveIsExact
  <2>4. "failed" \in Places \ {"sending"}
    BY <1>2
  <2> QED
    BY <1>1, <1>2, <2>1, <2>3, <2>4, QuietSenderStep
<1> QED
  BY <1>3, <1>4

LEMMA SendStep ==
    ASSUME ConstantsOK, MarginOK, IInv, NEW s \in Senders, Send(s)
    PROVE  IInv'
<1> USE DEF ConstantsOK
<1>1. /\ senders[s].at = "sending" /\ senders[s] \in [at : Places, bank : 0..Banks, seen : Words]
      /\ senders' = [senders EXCEPT ![s].at = "sent"]
      /\ UNCHANGED <<word, active, tracked, lock, indexes, recorder, created, exit, service>>
  BY DEF IInv, TypeOK, SendersType, Send
<1>2. senders[s].bank = working_bank /\ senders[s].bank \in 1..Banks
  BY <1>1 DEF IInv, BankOK, SeenOK, Reserved
<1>3. s \in Reserved /\ Reserved' = Reserved \ {s} /\ InFlight' = InFlight
  BY <1>1 DEF IInv, TypeOK, SendersType, Reserved, InFlight
<1>4. /\ Cardinality(Reserved) \in Nat /\ Cardinality(Reserved') \in Nat
      /\ Cardinality(Reserved') = Cardinality(Reserved) - 1
  BY <1>3, SomeSenders, OneMore DEF Reserved
<1>5. /\ channel \in Seq(1..Banks) /\ channel' \in Seq(1..Banks)
      /\ \A i \in 1..Len(channel') : channel'[i] = working_bank
      /\ Len(channel') \in {Len(channel), Len(channel) + 1} /\ Len(channel) \in Nat
      /\ Alive => Len(channel') = Len(channel) + 1
  <2>1. channel \in Seq(1..Banks) /\ Len(channel) \in Nat /\ \A i \in 1..Len(channel) : channel[i] = working_bank
    BY DEF IInv, TypeOK, ChannelType, BankOK
  <2>2. CASE Alive
    <3>1. channel' = Append(channel, working_bank)
      BY <1>2, <2>2 DEF Send
    <3> QED
      BY <1>2, <2>1, <3>1
  <2>3. CASE ~Alive
    BY <2>1, <2>3 DEF Send
  <2> QED
    BY <2>2, <2>3
<1>6. Open => Alive
  BY DEF IInv, PlaceOK, SentIsRecorded, Alive
<1>7. TypeOK'
  <2>1. SendersType'
    BY <1>1 DEF IInv, TypeOK, SendersType, Places
  <2>2. ChannelType' /\ PohType' /\ MessageType' /\ ServiceType'
    BY <1>1, <1>5 DEF IInv, TypeOK, ChannelType, PohType, MessageType, ServiceType, recorder
  <2>3. LockType'
    BY <1>1 DEF IInv, TypeOK, LockType, Send
  <2> QED
    BY <2>1, <2>2, <2>3 DEF TypeOK
<1>8. ActiveIsExact' /\ SeenOK'
  BY <1>1, <1>3 DEF IInv, TypeOK, SendersType, ActiveIsExact, SeenOK
<1>9. BudgetIsExact'
  <2>1. word.allowed \in Nat /\ word' = word /\ Open' = Open
    BY <1>1 DEF IInv, TypeOK, ChannelType, Words, Open
  <2> QED
    BY <1>4, <1>5, <1>6, <2>1, SMTT(30) DEF IInv, BudgetIsExact
<1>10. BankOK'
  BY <1>1, <1>3, <1>5 DEF IInv, TypeOK, SendersType, BankOK, Reserved, Open, recorder
<1>11. PlaceOK' /\ NothingInFlight' /\ SentIsRecorded'
  BY <1>1, <1>3 DEF IInv, PlaceOK, NothingInFlight, SentIsRecorded, Open, recorder
<1>12. RoomOK'
  <2>1. poh' = poh /\ service' = service /\ Open' = Open /\ poh.remaining \in Int
    BY <1>1 DEF recorder, Open, IInv, TypeOK, PohType, Poh
  <2>2. Demand' <= Demand /\ Demand' \in Nat /\ Demand \in Nat
    BY <1>4, <1>5, <2>1, SMTT(30) DEF Demand
  <2> QED
    BY <2>1, <2>2 DEF IInv, RoomOK, LastTick
<1> QED
  BY <1>7, <1>8, <1>9, <1>10, <1>11, <1>12 DEF IInv

----------------------------------------------------------------------------
(* The invariant and what follows from it.                                 *)

LEMMA StepKeepsInvariant ==
    ASSUME ConstantsOK, MarginOK, IInv, [Next]_vars
    PROVE  IInv'
<1>1. CASE \E s \in Senders : Try(s)
  <2>1. PICK s \in Senders : Try(s)
    BY <1>1
  <2> QED
    BY <2>1, LoadStep, EnterStep, ReserveStep, RetryStep, SendStep, ReturnIndexStep DEF Try
<1>2. CASE Replay \/ SetExit
  BY <1>2, ReplayStep
<1>3. CASE Serve
  <2>1. CASE CheckMessage \/ Record \/ Hash \/ Tick
    BY <2>1, CheckMessageStep, RecordStep, HashStep, TickStep
  <2>2. CASE Receive \/ ReceiveActive \/ ReceiveAgain \/ Wait
    BY <2>2, ReceiveStep, ReceiveActiveStep
  <2>3. CASE CheckActive \/ CheckEmpty \/ SkipMessage \/ HandleReset \/ HandleSetBank
    BY <2>3, CheckActiveStep, CheckEmptyStep, SkipMessageStep, HandleResetStep, HandleSetBankStep
  <2> QED
    BY <1>3, <2>1, <2>2, <2>3 DEF Serve
<1>4. CASE UNCHANGED vars
  <2> USE <1>4 DEF vars, sending, recorder
  <2>1. TypeOK'
    BY DEF IInv, TypeOK, ChannelType, SendersType, LockType, PohType, MessageType, ServiceType
  <2>2. Reserved' = Reserved /\ InFlight' = InFlight
    BY DEF Reserved, InFlight
  <2>3. ActiveIsExact' /\ SeenOK' /\ BudgetIsExact'
    BY <2>2 DEF IInv, ActiveIsExact, SeenOK, BudgetIsExact, Open
  <2>4. BankOK' /\ PlaceOK' /\ NothingInFlight' /\ SentIsRecorded'
    BY <2>2 DEF IInv, BankOK, PlaceOK, NothingInFlight, SentIsRecorded, Open
  <2>5. RoomOK'
    BY <2>2 DEF IInv, RoomOK, Demand, Open, LastTick
  <2> QED
    BY <2>1, <2>3, <2>4, <2>5 DEF IInv
<1> QED
  BY <1>1, <1>2, <1>3, <1>4 DEF Next

\* The inductive invariant of the record channel and its service, for any
\* number of senders, banks, ticks and hashes that leave the margin.
THEOREM Invariance ==
    ASSUME ConstantsOK, MarginOK
    PROVE  Spec => []IInv
<1>1. Init => IInv
  BY Initial
<1>2. IInv /\ [Next]_vars => IInv'
  BY StepKeepsInvariant
<1> QED
  BY <1>1, <1>2, PTL DEF Spec

\* Every record that try_send accepts is recorded in its bank: neither
\* "PohRecorder::record failed" nor an assertion of restart or set_bank fires.
THEOREM AcceptedIsRecorded ==
    ASSUME ConstantsOK, MarginOK
    PROVE  Spec => []SentIsRecorded
<1>1. IInv => SentIsRecorded
  BY DEF IInv
<1> QED
  BY <1>1, Invariance, PTL

\* bank_id_allowed_insertions never admits more records than the channel holds.
THEOREM BudgetKept ==
    ASSUME ConstantsOK, MarginOK
    PROVE  Spec => []BudgetIsExact
<1>1. IInv => BudgetIsExact
  BY DEF IInv
<1> QED
  BY <1>1, Invariance, PTL

\* is_safe_to_restart is right: a message is handled, and the service ends,
\* only when no record is in the channel or on its way there.
THEOREM RestartIsSafe ==
    ASSUME ConstantsOK, MarginOK
    PROVE  Spec => []NothingInFlight
<1>1. IInv => NothingInFlight
  BY DEF IInv
<1> QED
  BY <1>1, Invariance, PTL

----------------------------------------------------------------------------
(* Indexes.                                                                *)

\* A sender's step under the mutex.
LEMMA SenderKeepsIndexes ==
    ASSUME ConstantsOK, IInv, IndexInv, NEW s \in Senders, Try(s)
    PROVE  IndexInv'
<1> USE DEF IndexInv, Holding
<1>1. SendersType /\ LockType /\ Nobody \notin Senders
  BY DEF IInv, TypeOK, ConstantsOK
<1>2. ASSUME NEW b \in 1..Banks, Load(s, b) PROVE IndexInv'
  <2>1. /\ \A t \in Senders \ {s} : senders'[t] = senders[t]
        /\ tracked => lock = Nobody
        /\ UNCHANGED <<tracked, indexes, count>>
    BY <1>1, <1>2 DEF SendersType, Load
  <2>2. \/ senders'[s].at = "entering" /\ lock' = (IF tracked THEN s ELSE lock)
        \/ senders'[s].at = "idle" /\ lock' = lock
    BY <1>1, <1>2 DEF SendersType, Load
  <2> QED
    BY <1>1, <2>1, <2>2 DEF LockType
<1>3. CASE Enter(s)
  BY <1>1, <1>3 DEF SendersType, LockType, Enter
<1>4. CASE Reserve(s)
  BY <1>1, <1>4 DEF SendersType, LockType, Reserve
<1>5. CASE Retry(s)
  BY <1>1, <1>5 DEF SendersType, LockType, Retry
<1>6. CASE Send(s)
  BY <1>1, <1>6, SMTT(30) DEF SendersType, LockType, Send
<1>7. CASE ReturnIndex(s)
  <2>1. /\ \A t \in Senders \ {s} : senders'[t] = senders[t]
        /\ senders'[s].at = "idle" /\ lock' = Nobody
        /\ UNCHANGED <<tracked, count>>
    BY <1>1, <1>7 DEF SendersType, ReturnIndex
  <2>2. senders[s].at = "sent" /\ (tracked => indexes' = indexes + 1)
    BY <1>7 DEF ReturnIndex
  <2> QED
    BY <1>1, <2>1, <2>2 DEF LockType
<1> QED
  BY <1>2, <1>3, <1>4, <1>5, <1>6, <1>7 DEF Try

\* With tracking on, the index each caller gets is the place of its record.
THEOREM IndexesAreInOrder ==
    ASSUME ConstantsOK, MarginOK
    PROVE  Spec => []IndexesFollowOrder
<1>1. Init => IndexInv
  BY Initial
<1>2. IInv /\ IndexInv /\ [Next]_vars => IndexInv'
  <2> SUFFICES ASSUME IInv, IndexInv, [Next]_vars
               PROVE  IndexInv'
    OBVIOUS
  <2>1. CASE \E s \in Senders : Try(s)
    BY <2>1, SenderKeepsIndexes
  <2>2. CASE HandleSetBank
    <3>1. \/ UNCHANGED sending
          \/ lock = Nobody /\ UNCHANGED <<senders, tracked, lock>> /\ indexes' = 0 /\ count' = 0
          \/ ~tracked /\ ~tracked'
      BY <2>2 DEF HandleSetBank, sending, IInv, TypeOK, LockType
    <3> QED
      BY <3>1 DEF IndexInv, sending
  <2>3. CASE UNCHANGED sending
    BY <2>3 DEF IndexInv, sending
  <2>4. CASE Serve /\ ~HandleSetBank
    <3>1. UNCHANGED sending
      BY <2>4 DEF Serve, CheckMessage, Record, Hash, Tick, Receive, ReceiveActive, ReceiveAgain, Wait,
         CheckActive, CheckEmpty, SkipMessage, HandleReset
    <3> QED
      BY <2>3, <3>1
  <2>5. CASE Replay \/ SetExit \/ UNCHANGED vars
    <3>1. UNCHANGED sending
      BY <2>5 DEF Replay, SendSetBank, SendReset, SetExit, vars
    <3> QED
      BY <2>3, <3>1
  <2> QED
    BY <2>1, <2>2, <2>4, <2>5 DEF Next
<1>3. IInv /\ IndexInv => IndexesFollowOrder
  BY DEF IInv, TypeOK, LockType, IndexInv, Holding, IndexesFollowOrder, ConstantsOK
<1> QED
  BY <1>1, <1>2, <1>3, Invariance, PTL DEF Spec
=============================================================================
