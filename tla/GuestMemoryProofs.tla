------------------------- MODULE GuestMemoryProofs -------------------------
(***************************************************************************)
(* The inductive invariant of GuestMemory, that the accesses of the         *)
(* program, its calls and its end keep it, and the properties that follow,  *)
(* for every layout, cache size and limit that the assumptions of the       *)
(* modules admit.                                                           *)
(*                                                                         *)
(* IInv relates the region table to the accounts at every phase of a call   *)
(* (Mirrors, Fits), the cache to the region table (CacheCoherent), what is  *)
(* held to what the rest of the script will do (ScriptOK, HeldOK), and the  *)
(* tracker to what was delivered.                                           *)
(***************************************************************************)
EXTENDS GuestMemory, TLAPS

\* The program's memory is mapped, and it is watched.
Started == status \notin {"pushing", "serializing"}
Watching == Started /\ status # "watching"

(* ------------------------------- types --------------------------------- *)

Statuses == {"pushing", "serializing", "watching", "running", "deserializing"} \cup Ended
RegionType ==
    [vm_addr : Nat, len : Nat, vm_gap : Nat, writable : BOOLEAN, payload : BOOLEAN,
     account : Accounts \cup {NoAccount}, fresh : BOOLEAN]
EntryType == [start : Nat, end : Nat, index : Nat]
RangeType == [start : Nat, end : Nat]
AccessType == [addr : Nat, len : Nat]
TrackerType ==
    [watched : SUBSET RangeType, accesses : Seq(AccessType), enabled : BOOLEAN]
Ops == {"load", "map", "touch", "store", "use", "disjoint", "cpi"}
Accessing == {"load", "map", "touch", "store"}
StepType == [op : Ops, addr : Nat, len : Nat]
PointerType ==
    [type : AccessTypes, addr : Nat, len : Nat, region : Nat,
     account : Accounts \cup {NoAccount}, dangling : BOOLEAN]
Phases == {"none", "translate", "sync", "callee", "check", "remap"}
CallType ==
    [phase : Phases, passed : SUBSET Accounts, writable : SUBSET Accounts,
     lens : [Accounts -> Nat], update : SUBSET Accounts]
FaultType == [type : {"none"} \cup AccessTypes, addr : Nat, len : Nat]

RegionsType == Started => regions \in [Regions -> RegionType]
CacheType == cache \in [entries : [Slots -> EntryType], head : Slots]
AccountsType ==
    /\ data_len \in [Accounts -> Nat]
    /\ shared \in [Accounts -> BOOLEAN]
    /\ owned \in [Accounts -> BOOLEAN]
    /\ touched \in [Accounts -> BOOLEAN]
    /\ resize_delta \in Int
OperationType ==
    /\ script \in Seq(StepType)
    /\ held \in SUBSET PointerType
    /\ cpi \in CallType
    /\ todo \in SUBSET Accounts
HistoryType == delivered \in SUBSET Nat /\ dirty \in SUBSET Accounts

TypeOK ==
    /\ status \in Statuses
    /\ RegionsType
    /\ CacheType
    /\ tracker \in TrackerType
    /\ AccountsType
    /\ OperationType
    /\ fault \in FaultType
    /\ HistoryType

(* ------------------------- the inductive invariant ---------------------- *)

\* The table keeps the layout; an account grows within its reserved space.
RegionsOK == Started => \A i \in Regions :
    /\ regions[i].vm_addr = Layout[i].vm_addr
    /\ regions[i].account = Layout[i].account
    /\ regions[i].vm_gap = Layout[i].vm_gap
    /\ regions[i].account = NoAccount => regions[i].len = Layout[i].len /\ ~regions[i].payload
    /\ regions[i].account # NoAccount => regions[i].len <= Reserved(i)

\* Before the program runs nothing has happened; then the tracker watches the
\* forbidden bytes.
WatchOK ==
    /\ ~Watching => tracker = NewTracker /\ cache = EmptyCache /\ script = << >> /\ held = {}
    /\ Watching =>
        /\ tracker.watched = {r \in WatchedRanges : ~IsEmpty(r)}
        /\ tracker.enabled = (tracker.watched # {})

\* The call's bookkeeping: which accounts are still to be looked at, which must
\* be mapped anew.
CallOK ==
    /\ cpi.writable \subseteq cpi.passed
    /\ cpi.phase # "none" /\ status = "running" => script = << >>
    /\ cpi.phase \in {"translate", "sync"} => todo \subseteq cpi.passed
    /\ cpi.phase = "translate" => cpi.update = {}
    /\ cpi.phase = "sync" =>
          cpi.update \cap todo = {} /\ cpi.writable \ todo \subseteq cpi.update
    /\ cpi.phase \in {"callee", "check", "remap"} => cpi.writable \subseteq cpi.update
    /\ cpi.phase = "check" => todo \subseteq cpi.writable
    /\ cpi.phase = "remap" => todo \subseteq cpi.update

\* The accounts whose region may be out of date.
Unsettled ==
    IF cpi.phase \in {"none", "translate"} THEN {}
    ELSE IF cpi.phase = "remap" THEN todo ELSE cpi.update

\* Region i shows its account as it is.
Mirrored(i) ==
    LET a == regions[i].account IN
    /\ regions[i].fresh
    /\ regions[i].len = data_len[a]
    /\ regions[i].writable => CanChange(a) /\ ~shared[a]
    /\ regions[i].payload <=> CanChange(a)

Mirrors == status \in {"watching", "running"} => \A i \in Regions :
    regions[i].account # NoAccount /\ regions[i].account \notin Unsettled => Mirrored(i)

\* The accounts that a callee may have grown past the space of the caller.
Loose ==
    IF cpi.phase = "callee" THEN cpi.writable ELSE IF cpi.phase = "check" THEN todo ELSE {}

Fits == status \in {"pushing", "serializing", "watching", "running"} =>
    /\ \A a \in Accounts \ Loose : data_len[a] <= Reserved(TheRegion(a))
    /\ cpi.phase = "translate" =>
          \A a \in cpi.passed \ todo : cpi.lens[a] <= Reserved(TheRegion(a))
    /\ cpi.phase = "sync" => \A a \in cpi.passed : cpi.lens[a] <= Reserved(TheRegion(a))

\* push has made the sysvar's buffer the instruction's own.
SysvarIsPrivate == status # "pushing" /\ Sysvar \in Accounts => ~shared[Sysvar]

\* A store to this place is allowed as it is.
Mapped(regs, vm_addr, len) ==
    \E i \in Searched(vm_addr) : VmToHost(regs[i], "Store", vm_addr, len)

\* The steps that may move a buffer, and those that leave something held.
Moving == {"touch", "store", "cpi"}
Holding == {"load", "map", "store"}

\* What moves buffers comes when nothing is held; what is held is used before
\* the script ends or anything moves; what is mapped has been touched.
LensArePositive == \A k \in DOMAIN script : script[k].op \in Accessing => script[k].len > 0
MovesAreFree ==
    \A k \in DOMAIN script : script[k].op \in Moving =>
        held = {} \/ \E j \in 1 .. k - 1 : script[j].op = "use"
HoldsEndBeforeMoves ==
    \A j, k \in DOMAIN script :
        j < k /\ script[j].op \in Holding /\ script[k].op \in Moving =>
            \E i \in j + 1 .. k - 1 : script[i].op = "use"
HoldsAreUsed ==
    \A j \in DOMAIN script : script[j].op \in Holding =>
        \E k \in DOMAIN script : j < k /\ script[k].op = "use"
HeldIsUsed ==
    held # {} /\ cpi.phase = "none" => \E k \in DOMAIN script : script[k].op = "use"
CallIsLast == \A k \in DOMAIN script : script[k].op = "cpi" => k = Len(script)
MapsAreTouched ==
    \A k \in DOMAIN script : script[k].op = "map" =>
        \/ Mapped(regions, script[k].addr, script[k].len)
        \/ \E j \in 1 .. k - 1 : /\ script[j].op = "touch"
                                 /\ script[j].addr = script[k].addr
                                 /\ script[j].len = script[k].len

ScriptOK == status = "running" =>
    /\ LensArePositive
    /\ MovesAreFree
    /\ HoldsEndBeforeMoves
    /\ HoldsAreUsed
    /\ HeldIsUsed
    /\ CallIsLast
    /\ MapsAreTouched

\* The tracker has byte b.
Recorded(b) == \E k \in DOMAIN tracker.accesses : b \in Bytes(tracker.accesses[k])

\* What is held is alive, was recorded if it is forbidden, and was touched if it
\* is to be written.
HeldOK ==
    /\ HeldPointersLive
    /\ \A p \in held : p.type = "Load" => \A b \in Bytes(p) : Forbidden(b) => Recorded(b)
    /\ \A p \in held : p.type = "Store" /\ p.account # NoAccount => touched[p.account]
    /\ status = "running" /\ cpi.phase # "none" => \A p \in held : p.account = NoAccount
    /\ status = "deserializing" => held = {}

\* What the program can write was touched when it was mapped.
WritableIsTouched == Started => \A i \in Regions :
    regions[i].writable /\ regions[i].account # NoAccount => touched[regions[i].account]

\* Only a running program, or one that failed, can be in a call.
PhaseOK ==
    status \in {"pushing", "serializing", "watching", "deserializing", "finished"} =>
        cpi.phase = "none"

IInv ==
    /\ TypeOK
    /\ RegionsOK
    /\ CacheCoherent
    /\ WatchOK
    /\ CallOK
    /\ Mirrors
    /\ Fits
    /\ SysvarIsPrivate
    /\ ScriptOK
    /\ HeldOK
    /\ WritableIsTouched
    /\ ModifiedIsTouched
    /\ DetectionIsExact
    /\ GrowthBounded
    /\ FaultsAreOutsideData
    /\ NoRejectedRegion
    /\ PhaseOK


(* ------------------------------ the layout ------------------------------ *)

\* A sequence without elements is the empty one.
LEMMA EmptySequence == ASSUME NEW S, NEW s \in Seq(S), Len(s) = 0 PROVE s = << >>
OBVIOUS

\* What the assumptions say of one region.
LEMMA LayoutFacts ==
    /\ Len(Layout) \in Nat /\ Regions = 1 .. Len(Layout) /\ U64Max \in Nat
    /\ \A i \in Regions :
          /\ Layout[i].vm_addr \in Nat /\ Layout[i].len \in Nat /\ Layout[i].vm_gap \in Nat
          /\ Layout[i].writable \in BOOLEAN
          /\ Layout[i].account \in Accounts \cup {NoAccount}
          /\ Reserved(i) \in Nat
    /\ MaxIncrease \in Nat /\ MaxDataLen \in Nat /\ MaxGrowth \in Nat /\ InputStart \in Nat
<1> DEFINE R == [vm_addr : 0 .. U64Max, len : Nat, vm_gap : Nat, writable : BOOLEAN,
                 account : Accounts \cup {NoAccount}]
<1>1. Layout \in Seq(R)
  BY LayoutAssumption
<1> HIDE DEF R
<1>2. Len(Layout) \in Nat /\ Regions = 1 .. Len(Layout)
  BY <1>1 DEF Regions
<1>3. ASSUME NEW i \in Regions
      PROVE  Layout[i] \in R
  BY <1>1, <1>2, <1>3
<1>4. MaxIncrease \in Nat /\ MaxDataLen \in Nat /\ MaxGrowth \in Nat /\ InputStart \in Nat
  BY ConstantsAssumption
<1> QED
  BY <1>2, <1>3, <1>4, U64Assumption DEF Reserved, R

\* The addresses of a span are natural numbers.
LEMMA SpansAreNat == \A m, n \in Nat : m .. m + n - 1 \subseteq Nat
OBVIOUS

\* An address below the input region is below every region that starts there
\* or later.
LEMMA BelowIsOutside ==
    \A x, y, z \in Nat : x < y /\ z >= y => ~(x >= z)
OBVIOUS

\* The sizes of account data are natural numbers.
LEMMA SizesAreNat == \A n \in 0 .. MaxDataLen : n \in Nat
BY LayoutFacts

\* The address space of a region, gaps included, does not wrap.
LEMMA LayoutEnds ==
    ASSUME NEW i \in Regions
    PROVE  /\ VmEnd(Layout[i]) < U64Max
           /\ VmEnd(Layout[i]) \in Nat /\ Layout[i].vm_addr <= VmEnd(Layout[i])
<1>1. VmEnd(Layout[i]) < U64Max
  BY LayoutAssumption
<1>2. /\ Layout[i].vm_addr \in Nat /\ Layout[i].len \in Nat /\ Layout[i].vm_gap \in Nat
      /\ U64Max \in Nat
  BY LayoutFacts
<1> QED
  BY <1>1, <1>2 DEF VmEnd, SaturatingAdd

\* Regions lie one after the other.
LEMMA LayoutSorted ==
    ASSUME NEW i \in Regions, NEW j \in Regions, i < j
    PROVE  Layout[i].vm_addr < Layout[j].vm_addr /\ VmEnd(Layout[i]) <= Layout[j].vm_addr
BY LayoutAssumption

\* The region of an account, its space up to the next one.
LEMMA AccountSpace ==
    ASSUME NEW i \in Regions, Layout[i].account # NoAccount
    PROVE  /\ Layout[i].vm_gap = 0
           /\ Layout[i].vm_addr >= InputStart
           /\ Layout[i].len <= MaxDataLen
           /\ i + 1 \in Regions
           /\ Layout[i + 1].vm_addr = Layout[i].vm_addr + Reserved(i)
           /\ Layout[i].account \in Accounts
<1>1. /\ Layout[i].vm_gap = 0
      /\ Layout[i].vm_addr >= InputStart
      /\ Layout[i].len <= MaxDataLen
      /\ i < Len(Layout)
      /\ Layout[i + 1].vm_addr = Layout[i].vm_addr + Reserved(i)
  BY LayoutAssumption
<1> QED
  BY <1>1, LayoutFacts

\* An account is mapped by one region, the one TheRegion names.
LEMMA RegionOfAccount ==
    ASSUME NEW a \in Accounts
    PROVE  /\ TheRegion(a) \in Regions
           /\ Layout[TheRegion(a)].account = a
           /\ a # NoAccount
           /\ \A i \in Regions : Layout[i].account = a => i = TheRegion(a)
<1>1. \E i \in RegionOf(a) : TRUE
  BY ConstantsAssumption
<1>2. TheRegion(a) \in RegionOf(a)
  BY <1>1 DEF TheRegion
<1>3. a # NoAccount
  BY ConstantsAssumption
<1> QED
  BY <1>2, <1>3, LayoutAssumption, Zenon DEF RegionOf

\* At most one region is found.
LEMMA SearchedOnce ==
    ASSUME NEW vm_addr \in Nat, NEW i \in Searched(vm_addr), NEW j \in Searched(vm_addr)
    PROVE  i = j
BY LayoutFacts DEF Searched

\* Inside the space of an account it is the account's.
LEMMA SearchedAccount ==
    ASSUME NEW vm_addr \in Nat, NEW i \in Regions, Layout[i].account # NoAccount,
           Layout[i].vm_addr <= vm_addr, vm_addr < Layout[i].vm_addr + Reserved(i)
    PROVE  Searched(vm_addr) = {i}
<1>1. i + 1 \in Regions /\ vm_addr < Layout[i + 1].vm_addr
  BY AccountSpace
<1>2. ASSUME NEW j \in Regions, j > i PROVE vm_addr < Layout[j].vm_addr
  <2>1. CASE j = i + 1
    BY <1>1, <2>1
  <2>2. CASE i + 1 < j
    BY <1>1, <2>2, LayoutSorted, LayoutFacts
  <2> QED
    BY <1>2, <2>1, <2>2, LayoutFacts
<1>3. i \in Searched(vm_addr)
  BY <1>2 DEF Searched
<1> QED
  BY <1>3, SearchedOnce

(* ----------------------- the table and the cache ------------------------ *)

\* The types of one region of the table.
LEMMA RegionTypes ==
    ASSUME TypeOK, Started, NEW i \in Regions
    PROVE  /\ regions[i] \in RegionType
           /\ regions[i].vm_addr \in Nat /\ regions[i].len \in Nat /\ regions[i].vm_gap \in Nat
           /\ regions[i].writable \in BOOLEAN /\ regions[i].payload \in BOOLEAN
           /\ regions[i].account \in Accounts \cup {NoAccount}
           /\ DOMAIN regions = Regions
<1>1. regions \in [Regions -> RegionType]
  BY DEF TypeOK, RegionsType
<1> QED
  BY <1>1 DEF RegionType

\* However it has grown, a region ends before the next one begins.
LEMMA RegionEnds ==
    ASSUME TypeOK, RegionsOK, Started, NEW i \in Regions
    PROVE  /\ VmEnd(regions[i]) \in Nat
           /\ \A j \in Regions : j > i => VmEnd(regions[i]) <= Layout[j].vm_addr
           /\ regions[i].account # NoAccount =>
                 VmEnd(regions[i]) = regions[i].vm_addr + regions[i].len
<1>1. CASE regions[i].account = NoAccount
  <2>1. VmEnd(regions[i]) = VmEnd(Layout[i])
    BY <1>1 DEF RegionsOK, VmEnd
  <2> QED
    BY <1>1, <2>1, LayoutSorted, LayoutEnds, LayoutFacts
<1>2. CASE regions[i].account # NoAccount
  <2>1. /\ regions[i].vm_addr = Layout[i].vm_addr /\ regions[i].vm_gap = 0
        /\ regions[i].len <= Reserved(i)
        /\ i + 1 \in Regions /\ Layout[i + 1].vm_addr = Layout[i].vm_addr + Reserved(i)
    BY <1>2, AccountSpace DEF RegionsOK
  <2>2. Layout[i + 1].vm_addr < U64Max
    BY <2>1, LayoutEnds, LayoutFacts
  <2>3. VmEnd(regions[i]) = regions[i].vm_addr + regions[i].len
    BY <2>1, <2>2, RegionTypes, LayoutFacts DEF VmEnd, SaturatingAdd
  <2>4. VmEnd(regions[i]) <= Layout[i + 1].vm_addr
    BY <2>1, <2>3, RegionTypes, LayoutFacts
  <2>5. ASSUME NEW j \in Regions, j > i PROVE VmEnd(regions[i]) <= Layout[j].vm_addr
    <3>1. CASE j = i + 1
      BY <2>4, <3>1
    <3>2. CASE j > i + 1
      BY <2>1, <2>3, <2>4, <3>2, LayoutSorted, RegionTypes, LayoutFacts, SMTT(30)
    <3> QED
      BY <2>5, <3>1, <3>2, LayoutFacts
  <2> QED
    BY <2>1, <2>3, <2>5, RegionTypes, LayoutFacts
<1> QED
  BY <1>1, <1>2

\* Indexes into the cache stay inside it.
LEMMA SlotOf ==
    ASSUME NEW n \in Int
    PROVE  n % CacheSize \in Slots
BY CacheAssumption DEF Slots

\* The slot that map looks at after one is a slot.
LEMMA BeforeIsSlot ==
    ASSUME NEW head \in Slots
    PROVE  Before(head) \in Slots
BY SlotOf, CacheAssumption DEF Before, Slots

\* What the cache answers, the search would have found.
LEMMA CacheAnswers ==
    ASSUME TypeOK, RegionsOK, Started, CacheCoherent, NEW vm_addr \in Nat
    PROVE  CacheFind(cache, vm_addr) \subseteq Searched(vm_addr)
<1> SUFFICES ASSUME NEW i \in CacheFind(cache, vm_addr) PROVE i \in Searched(vm_addr)
  OBVIOUS
<1>1. PICK k \in Slots : Contains(Scanned(cache, k), vm_addr) /\ i = Scanned(cache, k).index
  BY DEF CacheFind
<1>2. PICK slot \in Slots : Scanned(cache, k) = cache.entries[slot]
  <2>1. cache.head \in Int /\ k \in Int
    BY CacheAssumption DEF TypeOK, CacheType, Slots
  <2>2. (cache.head + k) % CacheSize \in Slots
    BY <2>1, SlotOf
  <2> QED
    BY <2>2 DEF Scanned
<1>3. cache.entries[slot] \in EntryType
  BY DEF TypeOK, CacheType
<1>4. /\ cache.entries[slot].start <= vm_addr /\ vm_addr < cache.entries[slot].end
      /\ cache.entries[slot].index = i
  BY <1>1, <1>2 DEF Contains
<1>5. i \in Regions /\ cache.entries[slot] = EntryOf(i)
  BY <1>3, <1>4 DEF CacheCoherent, EntryType
<1>6. Layout[i].vm_addr <= vm_addr /\ vm_addr < VmEnd(regions[i])
  BY <1>4, <1>5 DEF EntryOf, RegionsOK
<1>7. \A j \in Regions : j > i => vm_addr < Layout[j].vm_addr
  BY <1>5, <1>6, RegionEnds, LayoutFacts
<1> QED
  BY <1>5, <1>6, <1>7 DEF Searched

\* So find_region and the search agree.
LEMMA FoundIsSearched ==
    ASSUME TypeOK, RegionsOK, Started, CacheCoherent, NEW vm_addr \in Nat
    PROVE  Found(vm_addr) = Searched(vm_addr)
BY CacheAnswers, SearchedOnce DEF Found

\* A lookup leaves the cache coherent, if the table's ranges stay as they are.
LEMMA CacheKept ==
    ASSUME TypeOK, RegionsOK, Started, CacheCoherent, NEW vm_addr \in Nat,
           cache' \in {cache, CacheAfter(vm_addr)},
           \A i \in Regions : EntryOf(i)' = EntryOf(i)
    PROVE  CacheType' /\ CacheCoherent'
<1>1. CASE cache' = cache
  BY <1>1 DEF TypeOK, CacheType, CacheCoherent
<1>2. CASE cache' # cache
  <2>1. PICK i \in Searched(vm_addr) : cache' = CacheInsert(cache, EntryOf(i))
    BY <1>2 DEF CacheAfter
  <2>2. i \in Regions /\ EntryOf(i) \in EntryType /\ EntryOf(i).index = i
    BY <2>1, RegionTypes, RegionEnds, LayoutFacts DEF Searched, EntryOf, EntryType
  <2>3. Before(cache.head) \in Slots
    BY BeforeIsSlot DEF TypeOK, CacheType
  <2>4. /\ cache.entries \in [Slots -> EntryType]
        /\ cache'.entries = [cache.entries EXCEPT ![Before(cache.head)] = EntryOf(i)]
        /\ cache'.head = Before(cache.head)
        /\ cache' = [entries |-> cache'.entries, head |-> cache'.head]
    BY <2>1 DEF CacheInsert, TypeOK, CacheType
  <2>5. CacheType'
    BY <2>2, <2>3, <2>4 DEF CacheType
  <2>6. ASSUME NEW slot \in Slots, cache'.entries[slot].start < cache'.entries[slot].end
        PROVE  \E n \in Regions : /\ cache'.entries[slot] = EntryOf(n)'
                                 /\ cache'.entries[slot].index = n
    <3>1. CASE slot = Before(cache.head)
      BY <2>2, <2>4, <3>1
    <3>2. CASE slot # Before(cache.head)
      BY <2>4, <2>6, <3>2 DEF CacheCoherent
    <3> QED
      BY <3>1, <3>2
  <2> QED
    BY <2>5, <2>6, Zenon DEF CacheCoherent, EntryOf
<1> QED
  BY <1>1, <1>2

\* The flush of replace_region.
LEMMA FlushedCache ==
    ASSUME cache' = EmptyCache
    PROVE  CacheType' /\ CacheCoherent'
<1>1. 0 \in Slots
  BY CacheAssumption DEF Slots
<1> QED
  BY <1>1 DEF EmptyCache, CacheType, CacheCoherent, EntryType

(* ----------------------------- the tracker ------------------------------ *)

\* A read that overlaps a watched range reads a forbidden byte, and one that
\* reads a forbidden byte overlaps a watched range.
LEMMA OverlapsAreForbidden ==
    ASSUME NEW vm_addr \in Nat, NEW len \in Nat \ {0}, NEW r \in WatchedRanges,
           ~IsEmpty(r), Overlaps(r, vm_addr, len)
    PROVE  \E b \in vm_addr .. vm_addr + len - 1 : Forbidden(b)
<1>1. PICK i \in RegionOf(Sysvar), f \in ForbiddenOffsets :
         r = [start |-> Layout[i].vm_addr + f.start, end |-> Layout[i].vm_addr + f.end]
  BY DEF WatchedRanges
<1>2. Layout[i].vm_addr \in Nat /\ f.start \in Nat /\ f.end \in Nat
  BY LayoutFacts, ConstantsAssumption DEF RegionOf
<1>3. /\ r.start = Layout[i].vm_addr + f.start /\ r.end = Layout[i].vm_addr + f.end
      /\ r.start < r.end
  BY <1>1, <1>2 DEF IsEmpty
<1>4. vm_addr < r.end /\ r.start < vm_addr + len
  BY <1>2, <1>3, LayoutFacts DEF Overlaps, SaturatingAdd
<1> DEFINE b == IF vm_addr > r.start THEN vm_addr ELSE r.start
<1>5. b \in vm_addr .. vm_addr + len - 1 /\ b >= r.start /\ b < r.end
  BY <1>2, <1>3, <1>4
<1> QED
  BY <1>3, <1>5 DEF Forbidden

\* A span with a forbidden byte overlaps a range that Watch adds.
LEMMA ForbiddenOverlaps ==
    ASSUME NEW vm_addr \in Nat, NEW len \in Nat, NEW b \in vm_addr .. vm_addr + len - 1,
           Forbidden(b)
    PROVE  \E r \in WatchedRanges : ~IsEmpty(r) /\ Overlaps(r, vm_addr, len)
<1>1. PICK i \in RegionOf(Sysvar), f \in ForbiddenOffsets :
         b >= Layout[i].vm_addr + f.start /\ b < Layout[i].vm_addr + f.end
  BY DEF Forbidden
<1>2. Layout[i].vm_addr \in Nat /\ f.start \in Nat /\ f.end \in Nat
  BY LayoutFacts, ConstantsAssumption DEF RegionOf
<1>3. Layout[i].vm_addr + f.end <= U64Max
  BY ConstantsAssumption
<1> DEFINE r == [start |-> Layout[i].vm_addr + f.start, end |-> Layout[i].vm_addr + f.end]
<1>4. r \in WatchedRanges
  BY DEF WatchedRanges
<1>5. ~IsEmpty(r)
  BY <1>1, <1>2 DEF IsEmpty
<1>6. Overlaps(r, vm_addr, len)
  <2>1. U64Max \in Nat
    BY LayoutFacts, Zenon
  <2>2. SaturatingAdd(vm_addr, len) \in {U64Max, vm_addr + len}
    BY Zenon DEF SaturatingAdd
  <2>3. vm_addr < r.end /\ vm_addr + len > r.start /\ U64Max > r.start
    BY <1>1, <1>2, <1>3, <2>1
  <2> QED
    BY <2>2, <2>3, Zenon DEF Overlaps
<1> QED
  BY <1>4, <1>5, <1>6, Zenon

\* check_access records a read that obtains forbidden bytes, and no other, and
\* forgets nothing.
LEMMA CheckAccessFacts ==
    ASSUME TypeOK, WatchOK, Watching, NEW vm_addr \in Nat, NEW len \in Nat \ {0},
           tracker' = CheckAccess(tracker, vm_addr, len)
    PROVE  /\ tracker' \in TrackerType
           /\ tracker'.watched = tracker.watched /\ tracker'.enabled = tracker.enabled
           /\ \A b : Recorded(b) => Recorded(b)'
           /\ \A b \in vm_addr .. vm_addr + len - 1 : Forbidden(b) => Recorded(b)'
           /\ DetectionIsExact =>
                 \A k \in DOMAIN tracker'.accesses :
                    \E b \in Bytes(tracker'.accesses[k]) : Forbidden(b)
<1> DEFINE access == [addr |-> vm_addr, len |-> len]
           hit == tracker.enabled /\ \E r \in tracker.watched : Overlaps(r, vm_addr, len)
<1>1. /\ tracker \in TrackerType /\ tracker.accesses \in Seq(AccessType)
      /\ access \in AccessType
  BY DEF TypeOK, TrackerType, AccessType
<1>2. /\ tracker.watched = {r \in WatchedRanges : ~IsEmpty(r)}
      /\ tracker.enabled = (tracker.watched # {})
  BY DEF WatchOK
<1>3. CASE hit
  <2>1. tracker' = [tracker EXCEPT !.accesses = Append(@, access)]
    BY <1>3 DEF CheckAccess
  <2> HIDE DEF access
  <2>a. Append(tracker.accesses, access) \in Seq(AccessType)
    BY <1>1
  <2>2. /\ tracker'.accesses = Append(tracker.accesses, access)
        /\ tracker'.watched = tracker.watched /\ tracker'.enabled = tracker.enabled
        /\ tracker' \in TrackerType
    BY <1>1, <2>1, <2>a, Zenon DEF TrackerType
  <2> DEFINE n == Len(tracker.accesses)
  <2>3. /\ n \in Nat
        /\ DOMAIN tracker.accesses = 1 .. n /\ DOMAIN tracker'.accesses = 1 .. n + 1
        /\ tracker'.accesses[n + 1] = access
        /\ \A k \in 1 .. n : tracker'.accesses[k] = tracker.accesses[k]
    BY <1>1, <2>2
  <2>4. \E b \in vm_addr .. vm_addr + len - 1 : Forbidden(b)
    BY <1>2, <1>3, OverlapsAreForbidden
  <2>5. Bytes(access) = vm_addr .. vm_addr + len - 1
    BY DEF Bytes, access
  <2>6. \A b : Recorded(b) => Recorded(b)'
    BY <2>3 DEF Recorded
  <2>7. \A b \in vm_addr .. vm_addr + len - 1 : Recorded(b)'
    BY <2>3, <2>5 DEF Recorded
  <2>8. ASSUME DetectionIsExact, NEW k \in DOMAIN tracker'.accesses
        PROVE  \E b \in Bytes(tracker'.accesses[k]) : Forbidden(b)
    <3>1. CASE k = n + 1
      BY <2>3, <2>4, <2>5, <3>1
    <3>2. CASE k \in 1 .. n
      BY <2>3, <2>8, <3>2 DEF DetectionIsExact
    <3> QED
      BY <2>3, <3>1, <3>2
  <2> QED
    BY <2>2, <2>6, <2>7, <2>8
<1>4. CASE ~hit
  <2>1. tracker' = tracker
    BY <1>4 DEF CheckAccess
  <2>2. ASSUME NEW b \in vm_addr .. vm_addr + len - 1 PROVE ~Forbidden(b)
    BY <1>2, <1>4, ForbiddenOverlaps, Zenon
  <2> QED
    BY <1>1, <2>1, <2>2 DEF Recorded, DetectionIsExact
<1> QED
  BY <1>3, <1>4

(* ----------------------------- the scripts ------------------------------ *)

\* The rest of a script is a script: what the step holds is used before
\* anything can move, and a place that was touched stays mapped.
LEMMA TailScript ==
    ASSUME ScriptOK, status = "running", script \in Seq(StepType), Executing(Step.op),
           script' = Tail(script),
           \/ held' = {}
           \/ Step.op \in Holding
           \/ held' = held /\ Step.op # "use",
           \A s \in StepType : Mapped(regions, s.addr, s.len) => Mapped(regions', s.addr, s.len),
           Step.op = "touch" => Mapped(regions', Step.addr, Step.len)
    PROVE  ScriptOK'
<1> DEFINE n == Len(script)
<1>1. /\ n \in Nat \ {0} /\ DOMAIN script = 1 .. n /\ Step = script[1]
      /\ DOMAIN script' = 1 .. n - 1 /\ Len(script') = n - 1
      /\ \A k \in 1 .. n - 1 : script'[k] = script[k + 1]
  BY DEF Executing, Step
<1> HIDE DEF n
<1>2. LensArePositive'
  BY <1>1 DEF ScriptOK, LensArePositive
<1>3. MovesAreFree'
  <2>1. ASSUME NEW k \in DOMAIN script', script'[k].op \in Moving
        PROVE  held' = {} \/ \E j \in 1 .. k - 1 : script'[j].op = "use"
    <3>1. k \in 1 .. n - 1 /\ k + 1 \in DOMAIN script /\ script[k + 1].op \in Moving
      BY <1>1, <2>1
    <3>2. CASE Step.op \in Holding
      <4>1. 1 \in DOMAIN script /\ 1 < k + 1 /\ script[1].op \in Holding
        BY <1>1, <3>1, <3>2
      <4>2. PICK i \in 1 + 1 .. (k + 1) - 1 : script[i].op = "use"
        BY <3>1, <4>1 DEF ScriptOK, HoldsEndBeforeMoves, MovesAreFree
      <4>3. i - 1 \in 1 .. k - 1 /\ script'[i - 1].op = "use"
        BY <1>1, <3>1, <4>2
      <4> QED
        BY <4>3
    <3>3. CASE held' = held /\ Step.op # "use"
      <4>1. CASE held # {}
        <5>1. PICK i \in 1 .. k : script[i].op = "use"
          BY <1>1, <3>1, <4>1 DEF ScriptOK, HoldsEndBeforeMoves, MovesAreFree
        <5>2. i - 1 \in 1 .. k - 1 /\ script'[i - 1].op = "use"
          BY <1>1, <3>1, <3>3, <5>1
        <5> QED
          BY <5>2
      <4> QED
        BY <3>3, <4>1
    <3> QED
      BY <3>2, <3>3
  <2> QED
    BY <2>1 DEF MovesAreFree
<1>4. HoldsEndBeforeMoves'
  <2>1. ASSUME NEW j \in DOMAIN script', NEW k \in DOMAIN script',
               j < k, script'[j].op \in Holding, script'[k].op \in Moving
        PROVE  \E i \in j + 1 .. k - 1 : script'[i].op = "use"
    <3>1. /\ j + 1 \in DOMAIN script /\ k + 1 \in DOMAIN script /\ j + 1 < k + 1
          /\ script[j + 1].op \in Holding /\ script[k + 1].op \in Moving
      BY <1>1, <2>1
    <3>2. PICK i \in (j + 1) + 1 .. (k + 1) - 1 : script[i].op = "use"
      BY <3>1 DEF ScriptOK, HoldsEndBeforeMoves
    <3>3. i - 1 \in j + 1 .. k - 1 /\ script'[i - 1].op = "use"
      BY <1>1, <3>2
    <3> QED
      BY <3>3
  <2> QED
    BY <2>1 DEF HoldsEndBeforeMoves
<1>5. HoldsAreUsed'
  <2>1. ASSUME NEW j \in DOMAIN script', script'[j].op \in Holding
        PROVE  \E k \in DOMAIN script' : j < k /\ script'[k].op = "use"
    <3>1. PICK k \in DOMAIN script : j + 1 < k /\ script[k].op = "use"
      BY <1>1, <2>1 DEF ScriptOK, HoldsAreUsed
    <3>2. k - 1 \in DOMAIN script' /\ j < k - 1 /\ script'[k - 1].op = "use"
      BY <1>1, <3>1
    <3> QED
      BY <3>2
  <2> QED
    BY <2>1 DEF HoldsAreUsed
<1>6. HeldIsUsed'
  <2>1. ASSUME held' # {} PROVE \E k \in DOMAIN script' : script'[k].op = "use"
    <3>1. PICK k \in DOMAIN script : 1 < k /\ script[k].op = "use"
      <4>1. CASE Step.op \in Holding
        BY <1>1, <4>1 DEF ScriptOK, HoldsAreUsed, HeldIsUsed
      <4>2. CASE held' = held /\ Step.op # "use"
        <5>1. PICK k \in DOMAIN script : script[k].op = "use"
          BY <2>1, <4>2 DEF ScriptOK, HoldsAreUsed, HeldIsUsed, Executing
        <5> QED
          BY <1>1, <4>2, <5>1
      <4> QED
        BY <2>1, <4>1, <4>2
    <3>2. k - 1 \in DOMAIN script' /\ script'[k - 1].op = "use"
      BY <1>1, <3>1
    <3> QED
      BY <3>2
  <2> QED
    BY <2>1 DEF HeldIsUsed
<1>7. CallIsLast'
  BY <1>1 DEF ScriptOK, CallIsLast, n
<1>8. MapsAreTouched'
  <2>1. ASSUME NEW k \in DOMAIN script', script'[k].op = "map"
        PROVE  \/ Mapped(regions', script'[k].addr, script'[k].len)
               \/ \E j \in 1 .. k - 1 : /\ script'[j].op = "touch"
                                        /\ script'[j].addr = script'[k].addr
                                        /\ script'[j].len = script'[k].len
    <3>1. /\ k \in 1 .. n - 1 /\ k + 1 \in DOMAIN script /\ script[k + 1] = script'[k]
          /\ script[k + 1] \in StepType
      BY <1>1
    <3>2. CASE Mapped(regions, script[k + 1].addr, script[k + 1].len)
      BY <3>1, <3>2
    <3>3. ASSUME NEW j \in 1 .. k, script[j].op = "touch",
                 script[j].addr = script[k + 1].addr, script[j].len = script[k + 1].len
          PROVE  \/ Mapped(regions', script'[k].addr, script'[k].len)
                 \/ \E i \in 1 .. k - 1 : /\ script'[i].op = "touch"
                                          /\ script'[i].addr = script'[k].addr
                                          /\ script'[i].len = script'[k].len
      <4>1. CASE j = 1
        BY <1>1, <3>1, <3>3, <4>1
      <4>2. CASE j # 1
        <5>1. j - 1 \in 1 .. k - 1 /\ script'[j - 1] = script[j]
          BY <1>1, <3>1, <4>2
        <5> QED
          BY <3>1, <3>3, <5>1, Zenon
      <4> QED
        BY <4>1, <4>2
    <3>4. \/ Mapped(regions, script[k + 1].addr, script[k + 1].len)
          \/ \E j \in 1 .. (k + 1) - 1 :
                /\ script[j].op = "touch"
                /\ script[j].addr = script[k + 1].addr /\ script[j].len = script[k + 1].len
      BY <2>1, <3>1 DEF ScriptOK, MapsAreTouched
    <3> QED
      BY <3>1, <3>2, <3>3, <3>4, SMTT(30)
  <2> QED
    BY <2>1, Zenon DEF MapsAreTouched
<1> QED
  BY <1>2, <1>3, <1>4, <1>5, <1>6, <1>7, <1>8 DEF ScriptOK

\* The scripts that the operations begin with, nothing being held.
LEMMA NewScript ==
    ASSUME held' = {}, NEW p \in Nat, NEW q \in Nat, NEW r \in Nat, NEW n \in Nat \ {0},
           \/ script' = <<Op("load", p, n), Bare("use")>>
           \/ script' = <<Op("store", p, n), Bare("use")>>
           \/ script' = MoveScript(p, q, n)
           \/ script' = <<Op("load", p, n), Op("load", q, n), Bare("use"),
                          Op("touch", r, 1), Op("map", r, 1), Bare("use")>>
           \/ script' = <<Op("touch", p, n), Op("map", p, n), Bare("use")>>
           \/ script' = <<Op("touch", p, n), Op("touch", q, 1), Op("map", p, n),
                          Op("map", q, 1), Bare("disjoint"), Bare("use")>>
           \/ script' = <<Op("load", p, n), Bare("use"), Bare("cpi")>>
    PROVE  ScriptOK' /\ script' \in Seq(StepType)
<1> USE DEF Op, Bare
<1>1. script' \in Seq(StepType) /\ CallIsLast'
  <2>1. CASE script' = <<Op("load", p, n), Bare("use")>>
    BY <2>1 DEF StepType, Ops, CallIsLast
  <2>2. CASE script' = <<Op("store", p, n), Bare("use")>>
    BY <2>2 DEF StepType, Ops, CallIsLast
  <2>3. CASE script' = MoveScript(p, q, n)
    BY <2>3 DEF StepType, Ops, CallIsLast, MoveScript
  <2>4. CASE script' = <<Op("load", p, n), Op("load", q, n), Bare("use"),
                        Op("touch", r, 1), Op("map", r, 1), Bare("use")>>
    BY <2>4 DEF StepType, Ops, CallIsLast
  <2>5. CASE script' = <<Op("touch", p, n), Op("map", p, n), Bare("use")>>
    BY <2>5 DEF StepType, Ops, CallIsLast
  <2>6. CASE script' = <<Op("touch", p, n), Op("touch", q, 1), Op("map", p, n),
                        Op("map", q, 1), Bare("disjoint"), Bare("use")>>
    BY <2>6 DEF StepType, Ops, CallIsLast
  <2>7. CASE script' = <<Op("load", p, n), Bare("use"), Bare("cpi")>>
    BY <2>7 DEF StepType, Ops, CallIsLast
  <2> QED
    BY <2>1, <2>2, <2>3, <2>4, <2>5, <2>6, <2>7
<1>2. LensArePositive'
  BY DEF LensArePositive, Accessing, MoveScript
<1>3. HoldsEndBeforeMoves'
  BY DEF HoldsEndBeforeMoves, Holding, Moving, MoveScript
<1>4. HoldsAreUsed'
  BY DEF HoldsAreUsed, Holding, MoveScript
<1>5. MapsAreTouched'
  BY DEF MapsAreTouched, MoveScript
<1> QED
  BY <1>1, <1>2, <1>3, <1>4, <1>5 DEF ScriptOK, MovesAreFree, HeldIsUsed

\* A script that is empty asks for nothing, unless something is held for it.
LEMMA EmptyScript ==
    ASSUME script' = << >>, cpi'.phase = "none" => held' = {}
    PROVE  ScriptOK'
<1>1. DOMAIN script' = {}
  OBVIOUS
<1> QED
  BY <1>1, Zenon DEF ScriptOK, LensArePositive, MovesAreFree, HoldsEndBeforeMoves,
     HoldsAreUsed, HeldIsUsed, CallIsLast, MapsAreTouched

(* ------------------------------- frames --------------------------------- *)

\* An account that gets a new buffer leaves a stale region behind, in its place.
LEMMA MovedTable ==
    ASSUME TypeOK, Started, NEW a, regions' \in {regions, Moved(regions, a)}
    PROVE  /\ regions' \in [Regions -> RegionType]
           /\ \A i \in Regions :
                 /\ regions'[i].vm_addr = regions[i].vm_addr
                 /\ regions'[i].len = regions[i].len
                 /\ regions'[i].vm_gap = regions[i].vm_gap
                 /\ regions'[i].writable = regions[i].writable
                 /\ regions'[i].payload = regions[i].payload
                 /\ regions'[i].account = regions[i].account
                 /\ regions[i].account # a => regions'[i] = regions[i]
           /\ \A i \in Regions : EntryOf(i)' = EntryOf(i)
<1>1. regions \in [Regions -> RegionType]
  BY DEF TypeOK, RegionsType
<1>2. /\ regions' \in [Regions -> RegionType]
      /\ \A i \in Regions :
            /\ regions'[i].vm_addr = regions[i].vm_addr
            /\ regions'[i].len = regions[i].len
            /\ regions'[i].vm_gap = regions[i].vm_gap
            /\ regions'[i].writable = regions[i].writable
            /\ regions'[i].payload = regions[i].payload
            /\ regions'[i].account = regions[i].account
            /\ regions[i].account # a => regions'[i] = regions[i]
  BY <1>1, Zenon DEF Moved, RegionType
<1> QED
  BY <1>2 DEF EntryOf, VmEnd

\* What only memory and accounts determine stays as it is with them.
LEMMA StillMemory ==
    ASSUME IInv, Started, Started', UNCHANGED <<mapping, tracker, accounts, history>>
    PROVE  /\ RegionsType' /\ CacheType' /\ tracker' \in TrackerType /\ AccountsType'
           /\ HistoryType'
           /\ RegionsOK' /\ CacheCoherent' /\ WritableIsTouched' /\ ModifiedIsTouched'
           /\ DetectionIsExact' /\ GrowthBounded'
<1> USE DEF IInv, mapping, accounts, history
<1>1. RegionsType' /\ CacheType' /\ tracker' \in TrackerType /\ AccountsType' /\ HistoryType'
  BY DEF TypeOK, RegionsType, CacheType, AccountsType, HistoryType
<1>2. RegionsOK'
  BY DEF RegionsOK
<1>3. CacheCoherent'
  BY DEF CacheCoherent, EntryOf
<1>4. WritableIsTouched'
  BY DEF WritableIsTouched
<1>5. ModifiedIsTouched' /\ GrowthBounded'
  BY DEF ModifiedIsTouched, GrowthBounded
<1>6. DetectionIsExact'
  BY DEF DetectionIsExact
<1> QED
  BY <1>1, <1>2, <1>3, <1>4, <1>5, <1>6

\* A program that fails leaves everything but the cache and the tracker alone.
LEMMA Failing ==
    ASSUME IInv, Watching, status' \in {"error", "fault"},
           NEW vm_addr \in Nat, cache' \in {cache, CacheAfter(vm_addr)},
           fault' \in FaultType, FaultsAreOutsideData',
           tracker' \in TrackerType,
           tracker'.watched = tracker.watched, tracker'.enabled = tracker.enabled,
           \A b : Recorded(b) => Recorded(b)',
           \A k \in DOMAIN tracker'.accesses :
              \E b \in Bytes(tracker'.accesses[k]) : Forbidden(b),
           UNCHANGED <<regions, accounts, progress, history>>
    PROVE  IInv'
<1> USE DEF IInv, accounts, progress, history
<1>1. Started /\ Started' /\ Watching' /\ status' \in Statuses
  BY DEF Watching, Started, Statuses, Ended
<1>2. RegionsType' /\ AccountsType' /\ HistoryType' /\ OperationType'
  BY <1>1, Zenon DEF TypeOK, RegionsType, AccountsType, HistoryType, OperationType
<1>3. CacheType' /\ CacheCoherent'
  <2>1. \A i \in Regions : EntryOf(i)' = EntryOf(i)
    BY DEF EntryOf
  <2> QED
    BY <1>1, <2>1, CacheKept, Zenon
<1>4. TypeOK'
  BY <1>1, <1>2, <1>3, Zenon DEF TypeOK
<1>5. RegionsOK'
  BY <1>1, Zenon DEF RegionsOK
<1>6. WatchOK'
  BY <1>1, Zenon DEF WatchOK
<1>7. CallOK'
  BY Zenon DEF CallOK
<1>8. Mirrors' /\ Fits' /\ ScriptOK' /\ NoRejectedRegion' /\ PhaseOK'
  BY Zenon DEF Mirrors, Fits, ScriptOK, NoRejectedRegion, PhaseOK
<1>9. SysvarIsPrivate'
  BY <1>1, Zenon DEF SysvarIsPrivate, Started
<1>10. HeldOK'
  BY <1>1, Zenon DEF HeldOK, HeldPointersLive
<1>11. WritableIsTouched'
  BY <1>1, Zenon DEF WritableIsTouched
<1>12. ModifiedIsTouched' /\ GrowthBounded'
  BY Zenon DEF ModifiedIsTouched, GrowthBounded
<1>13. DetectionIsExact'
  BY DEF DetectionIsExact, Recorded
<1> QED
  BY <1>4, <1>3, <1>5, <1>6, <1>7, <1>8, <1>9, <1>10, <1>11, <1>12, <1>13, Zenon

\* The same for an error, which is recorded nowhere.
LEMMA Erring ==
    ASSUME IInv, Watching, status' = "error",
           NEW vm_addr \in Nat, cache' \in {cache, CacheAfter(vm_addr)},
           UNCHANGED <<regions, tracker, accounts, progress, fault, history>>
    PROVE  IInv'
<1>1. fault' \in FaultType /\ FaultsAreOutsideData'
  BY DEF IInv, TypeOK, FaultsAreOutsideData
<1>2. /\ tracker' \in TrackerType
      /\ tracker'.watched = tracker.watched /\ tracker'.enabled = tracker.enabled
      /\ \A b : Recorded(b) => Recorded(b)'
      /\ \A k \in DOMAIN tracker'.accesses :
              \E b \in Bytes(tracker'.accesses[k]) : Forbidden(b)
  BY DEF IInv, TypeOK, DetectionIsExact, Recorded
<1> QED
  BY <1>1, <1>2, Failing, Zenon

(* ---------------------------- initial states ---------------------------- *)

\* The invariant holds before the first push.
LEMMA InitIInv == Init => IInv
<1> SUFFICES ASSUME Init PROVE IInv
  OBVIOUS
<1> USE DEF Init
<1>1. ~Started /\ ~Watching
  BY DEF Started, Watching
<1>2. CacheType
  BY CacheAssumption DEF EmptyCache, CacheType, EntryType, Slots
<1>3. tracker \in TrackerType
  BY DEF NewTracker, TrackerType
<1>4. ASSUME NEW a \in Accounts
      PROVE  /\ data_len[a] = Layout[TheRegion(a)].len /\ data_len[a] \in Nat
             /\ data_len[a] <= Reserved(TheRegion(a)) /\ data_len[a] <= MaxDataLen
  <2>1. data_len[a] = Layout[TheRegion(a)].len
    BY DEF TheRegion
  <2>2. TheRegion(a) \in Regions /\ Layout[TheRegion(a)].account # NoAccount
    BY RegionOfAccount, Zenon
  <2> QED
    BY <2>1, <2>2, LayoutFacts, AccountSpace DEF Reserved
<1>5. AccountsType
  BY <1>4, ConstantsAssumption, Zenon DEF AccountsType
<1>6. OperationType /\ HistoryType /\ fault \in FaultType
  BY DEF OperationType, HistoryType, FaultType, CallType, Phases, NoCall, NoLens, NoFault
<1>7. TypeOK
  BY <1>1, <1>2, <1>3, <1>5, <1>6, Zenon DEF TypeOK, RegionsType, Statuses
<1>8. RegionsOK /\ WatchOK /\ WritableIsTouched
  BY <1>1 DEF RegionsOK, WatchOK, WritableIsTouched
<1>9. CacheCoherent
  BY DEF CacheCoherent, EmptyCache
<1>10. CallOK /\ PhaseOK
  BY Zenon DEF CallOK, PhaseOK, NoCall
<1>11. Mirrors /\ ScriptOK /\ SysvarIsPrivate /\ NoRejectedRegion /\ FaultsAreOutsideData
  BY Zenon DEF Mirrors, ScriptOK, SysvarIsPrivate, NoRejectedRegion, FaultsAreOutsideData
<1>12. Fits
  BY <1>4, Zenon DEF Fits, NoCall
<1>13. HeldOK /\ ModifiedIsTouched /\ DetectionIsExact
  BY DEF HeldOK, HeldPointersLive, ModifiedIsTouched, DetectionIsExact, NewTracker
<1>14. GrowthBounded
  BY <1>4, ConstantsAssumption DEF GrowthBounded
<1> QED
  BY <1>7, <1>8, <1>9, <1>10, <1>11, <1>12, <1>13, <1>14 DEF IInv

(* ------------------------------- starting ------------------------------- *)

\* TransactionContext::push copies the sysvar, and nothing is mapped yet.
LEMMA PushKeeps ==
    ASSUME IInv, Push
    PROVE  IInv'
<1> USE DEF IInv, Push, mapping, progress, history
<1>1. ~Started /\ ~Watching /\ ~Started' /\ ~Watching'
  BY DEF Started, Watching
<1>2. shared' \in [Accounts -> BOOLEAN] /\ (Sysvar \in Accounts => ~shared'[Sysvar])
  BY Zenon DEF UnshareSysvar, TypeOK, AccountsType
<1>3. TypeOK'
  BY <1>1, <1>2, Zenon DEF TypeOK, RegionsType, CacheType, AccountsType, OperationType,
     HistoryType, Statuses
<1>4. RegionsOK' /\ WatchOK' /\ WritableIsTouched'
  BY <1>1 DEF RegionsOK, WatchOK, WritableIsTouched
<1>5. CacheCoherent'
  BY Zenon DEF CacheCoherent, EntryOf
<1>6. CallOK' /\ PhaseOK'
  BY Zenon DEF CallOK, PhaseOK
<1>7. Mirrors' /\ ScriptOK' /\ SysvarIsPrivate' /\ NoRejectedRegion' /\ FaultsAreOutsideData'
  BY <1>2, Zenon DEF Mirrors, ScriptOK, SysvarIsPrivate, NoRejectedRegion,
     FaultsAreOutsideData
<1>8. Fits'
  BY Zenon DEF Fits, Loose
<1>9. HeldOK'
  BY DEF HeldOK, HeldPointersLive, Recorded
<1>10. ModifiedIsTouched' /\ DetectionIsExact' /\ GrowthBounded'
  BY Zenon DEF ModifiedIsTouched, DetectionIsExact, GrowthBounded
<1> QED
  BY <1>3, <1>4, <1>5, <1>6, <1>7, <1>8, <1>9, <1>10

\* serialize_parameters_aligned builds the table from the accounts.
LEMMA SerializeKeeps ==
    ASSUME IInv, Serialize
    PROVE  IInv'
<1> USE DEF IInv, Serialize, progress, history
<1>1. ~Watching /\ ~Watching' /\ Started' /\ cache' = EmptyCache /\ cpi.phase = "none"
  BY DEF Started, Watching, WatchOK, PhaseOK
<1>2. AccountsType'
  BY DEF TypeOK, AccountsType
<1>3. ASSUME NEW i \in Regions, Layout[i].account = NoAccount
      PROVE  regions'[i] = VmRegion(i)
  BY <1>3, Zenon
<1>4. ASSUME NEW i \in Regions, Layout[i].account # NoAccount
      PROVE  /\ regions'[i] = AccountRegion(Layout[i].account, Layout[i].vm_addr)
             /\ Layout[i].account \in Accounts
             /\ data_len[Layout[i].account] \in Nat
             /\ data_len[Layout[i].account] <= Reserved(i)
             /\ CanChange(Layout[i].account) \in BOOLEAN
             /\ shared[Layout[i].account] \in BOOLEAN
             /\ Layout[i].vm_gap = 0
  <2>1. Layout[i].account \in Accounts /\ i = TheRegion(Layout[i].account) /\ Layout[i].vm_gap = 0
    BY <1>4, AccountSpace, RegionOfAccount, Zenon
  <2>2. data_len[Layout[i].account] <= Reserved(i)
    BY <1>1, <2>1 DEF Fits, Loose
  <2> QED
    BY <1>4, <2>1, <2>2, Zenon DEF TypeOK, AccountsType, CanChange
<1>5. RegionsType'
  <2>1. ASSUME NEW i \in Regions PROVE regions'[i] \in RegionType
    BY <1>3, <1>4, LayoutFacts, Zenon DEF VmRegion, AccountRegion, RegionType
  <2> QED
    BY <2>1, Zenon DEF RegionsType
<1>6. TypeOK'
  BY <1>2, <1>5, Zenon DEF TypeOK, CacheType, OperationType, HistoryType, Statuses
<1>7. RegionsOK'
  BY <1>3, <1>4, LayoutFacts, Zenon DEF RegionsOK, VmRegion, AccountRegion
<1>8. CacheCoherent'
  BY <1>1, FlushedCache, Zenon
<1>9. WatchOK' /\ CallOK' /\ PhaseOK'
  BY <1>1, Zenon DEF WatchOK, CallOK, PhaseOK
<1>10. Mirrors'
  BY <1>1, <1>3, <1>4, Zenon DEF Mirrors, Mirrored, VmRegion, AccountRegion, CanChange
<1>11. ScriptOK' /\ SysvarIsPrivate' /\ NoRejectedRegion' /\ FaultsAreOutsideData'
  BY Zenon DEF ScriptOK, SysvarIsPrivate, NoRejectedRegion, FaultsAreOutsideData
<1>12. Fits'
  BY Zenon DEF Fits, Loose
<1>13. HeldOK'
  BY <1>1, Zenon DEF WatchOK, HeldOK, HeldPointersLive
<1>14. WritableIsTouched'
  BY <1>3, <1>4, Zenon DEF WritableIsTouched, VmRegion, AccountRegion
<1>15. ModifiedIsTouched'
  BY Zenon DEF ModifiedIsTouched, TypeOK, HistoryType
<1>16. DetectionIsExact' /\ GrowthBounded'
  BY Zenon DEF DetectionIsExact, GrowthBounded
<1> QED
  BY <1>6, <1>7, <1>8, <1>9, <1>10, <1>11, <1>12, <1>13, <1>14, <1>15, <1>16, Zenon

\* execute hands the forbidden ranges to the tracker.
LEMMA WatchKeeps ==
    ASSUME IInv, Watch
    PROVE  IInv'
<1> USE DEF IInv, Watch, mapping, accounts, progress, history
<1>1. ~Watching /\ Started /\ Started' /\ Watching' /\ cpi.phase = "none"
  BY Zenon DEF Started, Watching, PhaseOK
<1>2. tracker = NewTracker /\ script = << >> /\ held = {}
  BY <1>1 DEF WatchOK
<1>3. /\ tracker'.watched = {r \in WatchedRanges : ~IsEmpty(r)}
      /\ tracker'.accesses = << >>
      /\ tracker'.enabled = (tracker'.watched # {})
      /\ tracker' = [watched |-> tracker'.watched, accesses |-> << >>, enabled |-> tracker'.enabled]
  BY <1>2, Zenon DEF NewTracker, AddWatchedRanges
<1>4. WatchedRanges \subseteq RangeType
  BY LayoutFacts, ConstantsAssumption DEF WatchedRanges, RangeType, RegionOf
<1>5. tracker' \in TrackerType
  <2>1. << >> \in Seq(AccessType) /\ tracker'.watched \in SUBSET RangeType
    BY <1>3, <1>4
  <2> QED
    BY <1>3, <2>1, Zenon DEF TrackerType
<1>6. TypeOK'
  BY <1>1, <1>5 DEF TypeOK, RegionsType, CacheType, AccountsType, OperationType,
     HistoryType, Statuses
<1>7. RegionsOK' /\ WritableIsTouched'
  BY <1>1, Zenon DEF RegionsOK, WritableIsTouched
<1>8. CacheCoherent'
  BY Zenon DEF CacheCoherent, EntryOf
<1>9. WatchOK' /\ CallOK' /\ PhaseOK'
  BY <1>1, <1>2, <1>3 DEF WatchOK, CallOK, PhaseOK
<1>10. Mirrors'
  BY <1>1, Zenon DEF Mirrors, Mirrored, Unsettled, CanChange
<1>11. SysvarIsPrivate' /\ NoRejectedRegion' /\ FaultsAreOutsideData'
  BY DEF SysvarIsPrivate, NoRejectedRegion, FaultsAreOutsideData
<1>12. ScriptOK'
  BY <1>2, EmptyScript
<1>13. Fits'
  BY Zenon DEF Fits, Loose
<1>14. HeldOK'
  BY <1>2 DEF HeldOK, HeldPointersLive
<1>15. ModifiedIsTouched' /\ GrowthBounded'
  BY DEF ModifiedIsTouched, GrowthBounded
<1>16. DetectionIsExact'
  BY <1>2, <1>3, Zenon DEF DetectionIsExact, NewTracker
<1> QED
  BY <1>6, <1>7, <1>8, <1>9, <1>10, <1>11, <1>12, <1>13, <1>14, <1>15, <1>16, Zenon

(* ------------------------------- stepping ------------------------------- *)

\* The step at hand.
LEMMA ExecutingFacts ==
    ASSUME IInv, NEW op, Executing(op)
    PROVE  /\ script \in Seq(StepType) /\ Len(script) \in Nat \ {0}
           /\ Tail(script) \in Seq(StepType)
           /\ Step = script[1] /\ Step \in StepType /\ Step.op = op
           /\ Step.addr \in Nat /\ Step.len \in Nat
           /\ op \in Accessing => Step.len \in Nat \ {0}
           /\ op \in Moving => held = {}
           /\ Started /\ Watching /\ status = "running" /\ cpi.phase = "none"
<1>1. script \in Seq(StepType) /\ script # << >> /\ status = "running" /\ cpi.phase = "none"
  BY DEF Executing, IInv, TypeOK, OperationType
<1>2. /\ Len(script) \in Nat \ {0} /\ Tail(script) \in Seq(StepType)
      /\ Step = script[1] /\ Step \in StepType /\ 1 \in DOMAIN script
  BY <1>1 DEF Step
<1>3. Step.op = op /\ Step.addr \in Nat /\ Step.len \in Nat
  BY <1>2 DEF StepType, Executing
<1>4. Started /\ Watching
  BY <1>1 DEF Started, Watching
<1>5. LensArePositive /\ MovesAreFree
  BY <1>1 DEF IInv, ScriptOK
<1>6. op \in Accessing => Step.len \in Nat \ {0}
  BY <1>2, <1>3, <1>5 DEF LensArePositive
<1>7. op \in Moving => held = {}
  BY <1>2, <1>3, <1>5 DEF MovesAreFree
<1> QED
  BY <1>1, <1>2, <1>3, <1>4, <1>6, <1>7

\* A translation that succeeds, and the pointer it gives.
LEMMA TranslatedFacts ==
    ASSUME IInv, Started, NEW type \in AccessTypes, NEW vm_addr \in Nat, NEW len \in Nat,
           NEW i \in Translated(type, vm_addr, len)
    PROVE  /\ i \in Regions /\ i \in Searched(vm_addr)
           /\ VmToHost(regions[i], type, vm_addr, len)
           /\ Pointer(i, type, vm_addr, len) \in PointerType
<1>1. i \in Searched(vm_addr) /\ VmToHost(regions[i], type, vm_addr, len)
  BY FoundIsSearched DEF IInv, Translated
<1>2. i \in Regions /\ i \in Nat
  BY <1>1, LayoutFacts DEF Searched
<1>3. regions[i].account \in Accounts \cup {NoAccount}
  BY <1>2, RegionTypes, Zenon DEF IInv
<1> QED
  BY <1>1, <1>2, <1>3 DEF Pointer, PointerType

\* In the space of an account an access translates exactly if it is within the
\* region's present length, and for stores if the region is writable.
LEMMA AccountAccess ==
    ASSUME IInv, Started, NEW type \in AccessTypes, NEW vm_addr \in Nat, NEW len \in Nat,
           NEW i \in Regions, Layout[i].account # NoAccount, vm_addr >= Layout[i].vm_addr
    PROVE  VmToHost(regions[i], type, vm_addr, len)
             <=> /\ type = "Store" => regions[i].writable
                 /\ vm_addr + len - Layout[i].vm_addr <= regions[i].len
<1>1. regions[i].vm_addr = Layout[i].vm_addr /\ regions[i].vm_gap = 0
  BY AccountSpace, Zenon DEF IInv, RegionsOK
<1>2. regions[i].len \in Nat /\ Layout[i].vm_addr \in Nat
  BY RegionTypes, LayoutFacts, Zenon DEF IInv
<1> QED
  BY <1>1, <1>2 DEF VmToHost, InGap, HostOffset

\* While the program runs, an account's region mirrors the account.
LEMMA RunningMirrors ==
    ASSUME IInv, status = "running", cpi.phase = "none",
           NEW i \in Regions, Layout[i].account # NoAccount
    PROVE  /\ regions[i].account = Layout[i].account /\ Layout[i].account \in Accounts
           /\ i = TheRegion(Layout[i].account)
           /\ regions[i].fresh /\ regions[i].len = data_len[Layout[i].account]
           /\ regions[i].writable => CanChange(Layout[i].account) /\ ~shared[Layout[i].account]
           /\ regions[i].payload <=> CanChange(Layout[i].account)
           /\ data_len[Layout[i].account] \in Nat
<1>1. regions[i].account = Layout[i].account
  BY DEF IInv, RegionsOK, Started
<1>2. Layout[i].account \in Accounts /\ i = TheRegion(Layout[i].account)
  BY AccountSpace, RegionOfAccount, Zenon
<1>3. Mirrored(i)
  BY <1>1, Zenon DEF IInv, Mirrors, Unsettled
<1> QED
  BY <1>1, <1>2, <1>3, Zenon DEF Mirrored, IInv, TypeOK, AccountsType

\* What does not depend on the script, the pointers and the tracker.
LEMMA StillRunning ==
    ASSUME IInv, status = "running", cpi.phase = "none",
           UNCHANGED <<status, regions, accounts, cpi, todo, fault>>
    PROVE  /\ Started /\ Started' /\ Watching /\ Watching' /\ status' \in Statuses
           /\ RegionsType' /\ AccountsType' /\ RegionsOK' /\ CallOK' /\ Mirrors' /\ Fits'
           /\ SysvarIsPrivate' /\ WritableIsTouched' /\ GrowthBounded'
           /\ FaultsAreOutsideData' /\ NoRejectedRegion' /\ PhaseOK'
           /\ cpi' \in CallType /\ todo' \in SUBSET Accounts /\ fault' \in FaultType
<1> USE DEF IInv, accounts
<1>1. Started /\ Started' /\ Watching /\ Watching' /\ status' \in Statuses
  BY Zenon DEF Started, Watching, Statuses
<1>2. RegionsType' /\ AccountsType' /\ RegionsOK' /\ WritableIsTouched' /\ GrowthBounded'
  BY <1>1 DEF TypeOK, RegionsType, AccountsType, RegionsOK, WritableIsTouched, GrowthBounded
<1>3. CallOK' /\ SysvarIsPrivate' /\ FaultsAreOutsideData' /\ NoRejectedRegion' /\ PhaseOK'
  BY Zenon DEF CallOK, SysvarIsPrivate, FaultsAreOutsideData, NoRejectedRegion, PhaseOK
<1>4. Mirrors'
  BY Zenon DEF Mirrors, Mirrored, Unsettled, CanChange
<1>5. Fits'
  BY Zenon DEF Fits, Loose
<1>6. cpi' \in CallType /\ todo' \in SUBSET Accounts /\ fault' \in FaultType
  BY Zenon DEF TypeOK, OperationType
<1> QED
  BY <1>1, <1>2, <1>3, <1>4, <1>5, <1>6

\* A load that fails in the space of an account reads past its data.
LEMMA FailedLoad ==
    ASSUME IInv, status = "running", cpi.phase = "none",
           NEW vm_addr \in Nat, NEW len \in Nat \ {0}, Translated("Load", vm_addr, len) = {},
           Violation("Load", vm_addr, len), UNCHANGED accounts
    PROVE  FaultsAreOutsideData'
<1> SUFFICES ASSUME NEW i \in Regions, Layout[i].account # NoAccount,
                    vm_addr >= Layout[i].vm_addr,
                    vm_addr + len <= Layout[i].vm_addr + Reserved(i)
             PROVE  vm_addr + len - Layout[i].vm_addr > data_len[Layout[i].account]
  BY Zenon DEF FaultsAreOutsideData, Violation, accounts
<1>1. Started
  BY DEF Started
<1>2. Found(vm_addr) = {i}
  <2>1. Layout[i].vm_addr \in Nat /\ Reserved(i) \in Nat
    BY LayoutFacts, Zenon
  <2>2. Layout[i].vm_addr <= vm_addr /\ vm_addr < Layout[i].vm_addr + Reserved(i)
    BY <2>1
  <2>3. Searched(vm_addr) = {i}
    BY <2>2, SearchedAccount
  <2>4. Found(vm_addr) = Searched(vm_addr)
    BY <1>1, FoundIsSearched, Zenon DEF IInv
  <2> QED
    BY <2>3, <2>4, Zenon
<1>3. ~VmToHost(regions[i], "Load", vm_addr, len)
  BY <1>2, Zenon DEF Translated
<1>4. ~(vm_addr + len - Layout[i].vm_addr <= regions[i].len)
  BY <1>1, <1>3, AccountAccess, Zenon DEF AccessTypes
<1>5. Layout[i].vm_addr \in Nat
  BY LayoutFacts, Zenon
<1>6. regions[i].len = data_len[Layout[i].account] /\ data_len[Layout[i].account] \in Nat
  BY RunningMirrors, Zenon
<1> QED
  BY <1>4, <1>5, <1>6

\* A load: what it delivers is recorded.
LEMMA MapLoadKeeps ==
    ASSUME IInv, MapLoad
    PROVE  IInv'
<1> USE DEF IInv
<1> DEFINE addr == Step.addr
           len == Step.len
<1>1. /\ Executing("load") /\ tracker' = CheckAccess(tracker, addr, len)
      /\ cache' = CacheAfter(addr)
      /\ UNCHANGED <<regions, accounts, cpi, todo, history>>
  BY Zenon DEF MapLoad
<1>2. /\ script \in Seq(StepType) /\ Step.op = "load"
      /\ addr \in Nat /\ len \in Nat \ {0} /\ Tail(script) \in Seq(StepType)
      /\ Started /\ Watching /\ status = "running" /\ cpi.phase = "none"
  BY <1>1, ExecutingFacts DEF Accessing
<1>3. /\ tracker' \in TrackerType
      /\ tracker'.watched = tracker.watched /\ tracker'.enabled = tracker.enabled
      /\ \A b : Recorded(b) => Recorded(b)'
      /\ \A b \in addr .. addr + len - 1 : Forbidden(b) => Recorded(b)'
      /\ \A k \in DOMAIN tracker'.accesses :
            \E b \in Bytes(tracker'.accesses[k]) : Forbidden(b)
  BY <1>1, <1>2, CheckAccessFacts, Zenon
<1>4. ASSUME NEW i \in Translated("Load", addr, len),
             held' = held \cup {Pointer(i, "Load", addr, len)},
             script' = Tail(script), UNCHANGED <<status, fault>>
      PROVE  IInv'
  <2>1. /\ Started' /\ Watching' /\ status' \in Statuses
        /\ RegionsType' /\ AccountsType' /\ RegionsOK' /\ CallOK' /\ Mirrors' /\ Fits'
        /\ SysvarIsPrivate' /\ WritableIsTouched' /\ GrowthBounded'
        /\ FaultsAreOutsideData' /\ NoRejectedRegion' /\ PhaseOK'
        /\ cpi' \in CallType /\ todo' \in SUBSET Accounts /\ fault' \in FaultType
    BY <1>1, <1>2, <1>4, StillRunning, Zenon
  <2>2. CacheType' /\ CacheCoherent'
    <3>1. \A j \in Regions : EntryOf(j)' = EntryOf(j)
      BY <1>1 DEF EntryOf
    <3> QED
      BY <1>1, <1>2, <3>1, CacheKept, Zenon
  <2>3. Pointer(i, "Load", addr, len) \in PointerType
    BY <1>2, <1>4, TranslatedFacts DEF AccessTypes
  <2>4. TypeOK'
    BY <1>1, <1>2, <1>3, <1>4, <2>1, <2>2, <2>3, Zenon
       DEF TypeOK, OperationType, HistoryType, history
  <2>5. WatchOK'
    BY <1>2, <1>3, <2>1, Zenon DEF WatchOK
  <2>6. ScriptOK'
    BY <1>1, <1>2, <1>4, TailScript DEF Holding
  <2>7. HeldOK'
    <3> DEFINE p == Pointer(i, "Load", addr, len)
    <3>1. ~p.dangling /\ p.type = "Load" /\ Bytes(p) = addr .. addr + len - 1
      BY DEF Pointer, Bytes
    <3> HIDE DEF p
    <3>2. \A q \in held' : q = p \/ q \in held
      BY <1>4, Zenon DEF p
    <3>3. HeldPointersLive'
      BY <3>1, <3>2 DEF HeldPointersLive, HeldOK
    <3>4. ASSUME NEW q \in held', q.type = "Load", NEW b \in Bytes(q), Forbidden(b)
          PROVE  Recorded(b)'
      BY <1>3, <3>1, <3>2, <3>4, Zenon DEF HeldOK
    <3>5. \A q \in held' : q.type = "Store" /\ q.account # NoAccount => touched'[q.account]
      BY <1>1, <3>1, <3>2, Zenon DEF HeldOK, accounts
    <3> QED
      BY <1>1, <1>2, <1>4, <3>3, <3>4, <3>5, Zenon DEF HeldOK
  <2>8. ModifiedIsTouched'
    BY <1>1 DEF ModifiedIsTouched, accounts, history
  <2>9. DetectionIsExact'
    BY <1>1, <1>3, Zenon DEF DetectionIsExact, Recorded, history
  <2> QED
    BY <2>1, <2>2, <2>4, <2>5, <2>6, <2>7, <2>8, <2>9, Zenon
<1>5. ASSUME Translated("Load", addr, len) = {}, Violation("Load", addr, len),
             UNCHANGED <<script, held>>
      PROVE  IInv'
  <2>1. FaultsAreOutsideData'
    BY <1>1, <1>2, <1>5, FailedLoad, Zenon
  <2>2. fault' \in FaultType /\ status' = "fault"
    BY <1>2, <1>5 DEF Violation, FaultType, AccessTypes
  <2>3. UNCHANGED progress
    BY <1>1, <1>5 DEF progress
  <2> QED
    BY <1>1, <1>2, <1>3, <2>1, <2>2, <2>3, Failing, Zenon
<1> QED
  BY <1>4, <1>5, Zenon DEF MapLoad

\* A store that the region allows as it is: its pointer is kept or dropped.
LEMMA StoreMapped ==
    ASSUME IInv, NEW op \in {"map", "touch", "store"}, Executing(op),
           NEW i \in Translated("Store", Step.addr, Step.len),
           \/ op = "touch" /\ held' = held
           \/ op # "touch" /\ held' = held \cup {Pointer(i, "Store", Step.addr, Step.len)},
           cache' = CacheAfter(Step.addr), script' = Tail(script),
           UNCHANGED <<status, regions, tracker, accounts, cpi, todo, fault, history>>
    PROVE  IInv'
<1> USE DEF IInv
<1> DEFINE addr == Step.addr
           len == Step.len
           p == Pointer(i, "Store", addr, len)
<1>1. /\ script \in Seq(StepType) /\ Step.op = op
      /\ addr \in Nat /\ len \in Nat \ {0} /\ Tail(script) \in Seq(StepType)
      /\ Started /\ Watching /\ status = "running" /\ cpi.phase = "none"
  BY ExecutingFacts, Zenon DEF Accessing
<1>2. /\ i \in Regions /\ i \in Searched(addr) /\ VmToHost(regions[i], "Store", addr, len)
      /\ p \in PointerType
  BY <1>1, TranslatedFacts, Zenon DEF AccessTypes
<1>3. ~p.dangling /\ p.type = "Store" /\ p.account = regions[i].account
  BY DEF Pointer
<1>4. p.account # NoAccount => touched[p.account]
  BY <1>1, <1>2, <1>3, Zenon DEF VmToHost, WritableIsTouched
<1> HIDE DEF p
<1>5. held' \subseteq held \cup {p}
  BY Zenon DEF p
<1>6. /\ Started' /\ Watching' /\ status' \in Statuses
      /\ RegionsType' /\ AccountsType' /\ RegionsOK' /\ CallOK' /\ Mirrors' /\ Fits'
      /\ SysvarIsPrivate' /\ WritableIsTouched' /\ GrowthBounded'
      /\ FaultsAreOutsideData' /\ NoRejectedRegion' /\ PhaseOK'
      /\ cpi' \in CallType /\ todo' \in SUBSET Accounts /\ fault' \in FaultType
  BY <1>1, StillRunning, Zenon
<1>7. CacheType' /\ CacheCoherent'
  <2>1. \A j \in Regions : EntryOf(j)' = EntryOf(j)
    BY Zenon DEF EntryOf
  <2> QED
    BY <1>1, <2>1, CacheKept, Zenon
<1>8. TypeOK'
  BY <1>1, <1>2, <1>5, <1>6, <1>7 DEF TypeOK, OperationType, HistoryType, history
<1>9. WatchOK'
  BY <1>1, <1>6, Zenon DEF WatchOK
<1>10. ScriptOK'
  <2>1. Step.op = "touch" => Mapped(regions', Step.addr, Step.len)
    BY <1>2 DEF Mapped
  <2>2. (held' = held /\ Step.op # "use") \/ Step.op \in Holding
    BY <1>1 DEF Holding
  <2> QED
    BY <1>1, <2>1, <2>2, TailScript, Zenon
<1>11. HeldOK'
  <2>1. \A q \in held' : q = p \/ q \in held
    BY <1>5
  <2>2. HeldPointersLive'
    BY <1>3, <2>1, Zenon DEF HeldPointersLive, HeldOK
  <2>3. ASSUME NEW q \in held', q.type = "Load", NEW b \in Bytes(q), Forbidden(b)
        PROVE  Recorded(b)'
    BY <1>3, <2>1, <2>3, Zenon DEF HeldOK, Recorded
  <2>4. \A q \in held' : q.type = "Store" /\ q.account # NoAccount => touched'[q.account]
    BY <1>4, <2>1, Zenon DEF HeldOK, accounts
  <2> QED
    BY <1>1, <2>2, <2>3, <2>4, Zenon DEF HeldOK
<1>12. ModifiedIsTouched' /\ DetectionIsExact'
  BY DEF ModifiedIsTouched, DetectionIsExact, accounts, history
<1> QED
  BY <1>6, <1>7, <1>8, <1>9, <1>10, <1>11, <1>12, Zenon

\* map(Store) always succeeds: the place has been touched.
LEMMA MapStoreKeeps ==
    ASSUME IInv, MapStore
    PROVE  IInv'
<1>1. Executing("map") /\ cache' = CacheAfter(Step.addr)
      /\ UNCHANGED <<regions, tracker, accounts, cpi, todo, history>>
  BY DEF MapStore
<1>2. /\ script \in Seq(StepType) /\ Len(script) \in Nat \ {0} /\ Step = script[1]
      /\ Step.op = "map" /\ Step.addr \in Nat /\ Step.len \in Nat
      /\ Started /\ status = "running"
  BY <1>1, ExecutingFacts, Zenon
<1>3. Translated("Store", Step.addr, Step.len) # {}
  <2>1. MapsAreTouched /\ 1 \in DOMAIN script
    BY <1>2 DEF IInv, ScriptOK
  <2>2. Mapped(regions, Step.addr, Step.len)
    BY <1>2, <2>1 DEF MapsAreTouched
  <2> QED
    BY <1>2, <2>2, FoundIsSearched DEF IInv, Mapped, Translated
<1>4. PICK i \in Translated("Store", Step.addr, Step.len) :
         held' = held \cup {Pointer(i, "Store", Step.addr, Step.len)}
  BY <1>3, Zenon DEF MapStore
<1>5. script' = Tail(script) /\ UNCHANGED <<status, fault>>
  BY <1>3, Zenon DEF MapStore
<1> QED
  BY <1>1, <1>4, <1>5, StoreMapped, Zenon

\* A store to a place that can be written.
LEMMA TouchMappedKeeps ==
    ASSUME IInv, TouchMapped
    PROVE  IInv'
<1>1. PICK op \in {"touch", "store"} : Executing(op)
  BY DEF TouchMapped, Touching
<1>2. PICK i \in Translated("Store", Step.addr, Step.len) : held' = held \cup Kept(i)
  BY DEF TouchMapped
<1>3. Step.op = op
  BY <1>1 DEF Executing
<1>4. \/ op = "touch" /\ held' = held
      \/ op # "touch" /\ held' = held \cup {Pointer(i, "Store", Step.addr, Step.len)}
  BY <1>2, <1>3, Zenon DEF Kept
<1> QED
  BY <1>1, <1>2, <1>4, StoreMapped DEF TouchMapped

\* A store that the handler does not serve leaves the space of the account, or
\* the account may not be changed.
LEMMA TouchUnmappedKeeps ==
    ASSUME IInv, TouchUnmapped
    PROVE  IInv'
<1> DEFINE addr == Step.addr
           len == Step.len
<1>1. PICK op \in {"touch", "store"} : Executing(op)
  BY Zenon DEF TouchUnmapped, Touching
<1>2. /\ addr \in Nat /\ len \in Nat \ {0}
      /\ Started /\ Watching /\ status = "running" /\ cpi.phase = "none"
  BY <1>1, ExecutingFacts DEF Accessing
<1>3. /\ cache' = CacheAfter(addr) /\ Violation("Store", addr, len)
      /\ UNCHANGED <<regions, tracker, accounts, progress, history>>
      /\ \A i \in Found(addr) : ~Handles(i)
  BY DEF TouchUnmapped
<1>4. FaultsAreOutsideData'
  <2> SUFFICES ASSUME NEW i \in Regions, Layout[i].account # NoAccount,
                      addr >= Layout[i].vm_addr,
                      addr + len <= Layout[i].vm_addr + Reserved(i),
                      CanChange(Layout[i].account)
               PROVE  FALSE
    BY <1>3, Zenon DEF FaultsAreOutsideData, Violation, accounts, CanChange
  <2>1. Found(addr) = {i}
    <3>1. addr < Layout[i].vm_addr + Reserved(i)
      BY <1>2, LayoutFacts
    <3> QED
      BY <1>2, <3>1, SearchedAccount, FoundIsSearched, Zenon DEF IInv
  <2>2. regions[i].payload
    BY <1>2, RunningMirrors, Zenon
  <2>3. MaxLen(i) = Reserved(i) /\ regions[i].vm_addr = Layout[i].vm_addr
    BY <1>2, AccountSpace, LayoutFacts DEF MaxLen, IInv, RegionsOK
  <2>4. Requested(i) <= Reserved(i)
    BY <1>2, <2>3, LayoutFacts DEF Requested, SaturatingAdd, SaturatingSub
  <2> QED
    BY <1>3, <2>1, <2>2, <2>3, <2>4, Zenon DEF Handles
<1>5. fault' \in FaultType /\ status' = "fault"
  BY <1>2, <1>3, Zenon DEF Violation, FaultType, AccessTypes
<1>6. /\ tracker' \in TrackerType
      /\ tracker'.watched = tracker.watched /\ tracker'.enabled = tracker.enabled
      /\ \A b : Recorded(b) => Recorded(b)'
      /\ \A k \in DOMAIN tracker'.accesses :
            \E b \in Bytes(tracker'.accesses[k]) : Forbidden(b)
  BY <1>3 DEF IInv, TypeOK, DetectionIsExact, Recorded
<1> QED
  BY <1>2, <1>3, <1>4, <1>5, <1>6, Failing, Zenon

\* The program uses what it holds, and lets it go.
LEMMA UseKeeps ==
    ASSUME IInv, Use
    PROVE  IInv'
<1> USE DEF IInv, Use, mapping, history
<1>1. /\ script \in Seq(StepType) /\ Tail(script) \in Seq(StepType) /\ Step.op = "use"
      /\ Started /\ Watching /\ status = "running" /\ cpi.phase = "none"
  BY ExecutingFacts, Zenon
<1>2. /\ Started' /\ Watching' /\ status' \in Statuses
      /\ RegionsType' /\ AccountsType' /\ RegionsOK' /\ CallOK' /\ Mirrors' /\ Fits'
      /\ SysvarIsPrivate' /\ WritableIsTouched' /\ GrowthBounded'
      /\ FaultsAreOutsideData' /\ NoRejectedRegion' /\ PhaseOK'
      /\ cpi' \in CallType /\ todo' \in SUBSET Accounts /\ fault' \in FaultType
  BY <1>1, StillRunning, Zenon
<1>3. CacheCoherent' /\ CacheType'
  BY Zenon DEF CacheCoherent, EntryOf, TypeOK, CacheType
<1>4. held \in SUBSET PointerType
  BY Zenon DEF TypeOK, OperationType
<1>5. HistoryType'
  <2>1. \A p \in held : Bytes(p) \subseteq Nat
    <3> SUFFICES ASSUME NEW p \in held PROVE Bytes(p) \subseteq Nat
      BY Zenon
    <3>1. p.addr \in Nat /\ p.len \in Nat
      BY <1>4, Zenon DEF PointerType
    <3> QED
      BY <3>1, SpansAreNat, Zenon DEF Bytes
  <2>2. \A p \in held : p.account \in Accounts \cup {NoAccount}
    BY <1>4, Zenon DEF PointerType
  <2> QED
    BY <2>1, <2>2, Zenon DEF TypeOK, HistoryType
<1>6. TypeOK'
  BY <1>1, <1>2, <1>3, <1>5, Zenon DEF TypeOK, OperationType
<1>7. WatchOK'
  BY <1>1, <1>2, Zenon DEF WatchOK
<1>8. ScriptOK'
  BY <1>1, TailScript, Zenon
<1>9. HeldOK'
  BY Zenon DEF HeldOK, HeldPointersLive
<1>10. ModifiedIsTouched'
  BY Zenon DEF ModifiedIsTouched, HeldOK, accounts
<1>11. DetectionIsExact'
  BY DEF DetectionIsExact, HeldOK, Recorded
<1> QED
  BY <1>2, <1>3, <1>6, <1>7, <1>8, <1>9, <1>10, <1>11, Zenon

\* translate_mut compares the places that a system call holds.
LEMMA CheckDisjointKeeps ==
    ASSUME IInv, CheckDisjoint
    PROVE  IInv'
<1>1. /\ script \in Seq(StepType) /\ Tail(script) \in Seq(StepType) /\ Step.op = "disjoint"
      /\ Executing("disjoint")
      /\ Started /\ Watching /\ status = "running" /\ cpi.phase = "none"
  BY ExecutingFacts DEF CheckDisjoint
<1>2. UNCHANGED <<mapping, tracker, accounts, held, cpi, todo, fault, history>>
  BY DEF CheckDisjoint
<1>3. CASE status' = "error" /\ UNCHANGED script
  <2>1. UNCHANGED <<regions, progress>> /\ cache' = cache /\ 0 \in Nat
    BY <1>2, <1>3 DEF mapping, progress
  <2> QED
    BY <1>1, <1>2, <1>3, <2>1, Erring
<1>4. CASE script' = Tail(script) /\ UNCHANGED status
  <2> USE DEF IInv
  <2>1. /\ Started' /\ Watching' /\ status' \in Statuses
        /\ RegionsType' /\ AccountsType' /\ RegionsOK' /\ CallOK' /\ Mirrors' /\ Fits'
        /\ SysvarIsPrivate' /\ WritableIsTouched' /\ GrowthBounded'
        /\ FaultsAreOutsideData' /\ NoRejectedRegion' /\ PhaseOK'
        /\ cpi' \in CallType /\ todo' \in SUBSET Accounts /\ fault' \in FaultType
    BY <1>1, <1>2, <1>4, StillRunning, Zenon DEF mapping
  <2>2. /\ CacheType' /\ tracker' \in TrackerType /\ HistoryType'
        /\ CacheCoherent' /\ ModifiedIsTouched' /\ DetectionIsExact'
    BY <1>1, <1>2, <2>1, StillMemory, Zenon
  <2>3. TypeOK'
    BY <1>1, <1>2, <1>4, <2>1, <2>2 DEF TypeOK, OperationType
  <2>4. WatchOK'
    BY <1>1, <1>2, <2>1, Zenon DEF WatchOK
  <2>5. ScriptOK'
    BY <1>1, <1>2, <1>4, TailScript, Zenon DEF mapping
  <2>6. HeldOK'
    BY <1>2, <1>4, Zenon DEF HeldOK, HeldPointersLive, Recorded, accounts
  <2> QED
    BY <2>1, <2>2, <2>3, <2>4, <2>5, <2>6, Zenon
<1> QED
  BY <1>3, <1>4 DEF CheckDisjoint

\* The handler grows an account within its space, its limit and the limit of the
\* transaction, never shrinks it, and accounts for what it does.
LEMMA GrownLenFacts ==
    ASSUME IInv, status = "running", cpi.phase = "none", Step.addr \in Nat, Step.len \in Nat,
           NEW i \in Regions, regions[i].payload
    PROVE  /\ Layout[i].account # NoAccount
           /\ GrownLen(i) \in Nat /\ regions[i].len <= GrownLen(i)
           /\ GrownLen(i) <= Reserved(i) /\ GrownLen(i) <= MaxDataLen
           /\ Growth(i) = GrownLen(i) - data_len[Layout[i].account]
           /\ resize_delta + Growth(i) <= MaxGrowth
           /\ ~(Requested(i) > regions[i].len) => GrownLen(i) = data_len[Layout[i].account]
<1> DEFINE a == Layout[i].account
<1>1. Started /\ Layout[i].account # NoAccount
  BY Zenon DEF Started, IInv, RegionsOK
<1>2. /\ regions[i].account = a /\ a \in Accounts /\ regions[i].len = data_len[a]
      /\ data_len[a] \in Nat
  BY <1>1, RunningMirrors, Zenon
<1>3. MaxLen(i) = Reserved(i) /\ regions[i].len <= Reserved(i)
  <2>1. i + 1 \in Regions /\ Layout[i + 1].vm_addr = Layout[i].vm_addr + Reserved(i)
    BY <1>1, AccountSpace, Zenon
  <2>2. Layout[i].vm_addr \in Nat /\ Reserved(i) \in Nat
    BY LayoutFacts, Zenon
  <2>3. MaxLen(i) = Reserved(i)
    BY <2>1, <2>2 DEF MaxLen
  <2>4. regions[i].len <= Reserved(i)
    BY <1>1, <1>2, Zenon DEF IInv, RegionsOK
  <2> QED
    BY <2>3, <2>4, Zenon
<1>4. resize_delta \in Int /\ resize_delta <= MaxGrowth /\ data_len[a] <= MaxDataLen
  BY <1>2, Zenon DEF IInv, TypeOK, AccountsType, GrowthBounded
<1>5. /\ MaxGrowth \in Nat /\ MaxDataLen \in Nat /\ Reserved(i) \in Nat
  BY LayoutFacts, Zenon
<1> HIDE DEF a
<1>6. CASE Requested(i) > regions[i].len
  <2>1. GrownLen(i) = Smallest(Reserved(i), MaxDataLen, data_len[a] + (MaxGrowth - resize_delta))
    BY <1>2, <1>3, <1>4, <1>5, <1>6 DEF GrownLen, SaturatingSub
  <2>2. Growth(i) = GrownLen(i) - data_len[a]
    BY <1>2, <1>6, Zenon DEF Growth
  <2> QED
    BY <1>1, <1>2, <1>3, <1>4, <1>5, <1>6, <2>1, <2>2 DEF Smallest, a
<1>7. CASE ~(Requested(i) > regions[i].len)
  <2>1. GrownLen(i) = regions[i].len /\ Growth(i) = 0
    BY <1>7, Zenon DEF GrownLen, Growth
  <2>2. GrownLen(i) = data_len[a] /\ data_len[a] <= Reserved(i)
    BY <1>2, <1>3, <2>1, Zenon
  <2>3. 0 = data_len[a] - data_len[a] /\ data_len[a] <= data_len[a]
    BY <1>2
  <2>4. resize_delta + 0 <= MaxGrowth
    BY <1>4, <1>5
  <2>5. /\ GrownLen(i) \in Nat /\ regions[i].len <= GrownLen(i)
        /\ GrownLen(i) <= Reserved(i) /\ GrownLen(i) <= MaxDataLen
        /\ Growth(i) = GrownLen(i) - data_len[a]
        /\ resize_delta + Growth(i) <= MaxGrowth
    BY <1>2, <1>4, <2>1, <2>2, <2>3, <2>4, Zenon
  <2> QED
    BY <1>1, <2>2, <2>5, Zenon DEF a
<1> QED
  BY <1>6, <1>7, Zenon

\* What TouchHandled does, in closed form: a is the account, i its region.
LEMMA TouchHandledFacts ==
    ASSUME IInv, TouchHandled
    PROVE  \E i \in Regions, a \in Accounts, moves \in BOOLEAN :
             /\ a = Layout[i].account /\ regions[i].account = a /\ i = TheRegion(a)
             /\ a # NoAccount /\ CanChange(a) /\ i \in Searched(Step.addr)
             /\ Started /\ Watching /\ status = "running" /\ cpi.phase = "none"
             /\ Step.op \in {"touch", "store"} /\ Executing(Step.op) /\ held = {}
             /\ Step.addr \in Nat /\ Step.len \in Nat \ {0}
             /\ regions[i].payload
             /\ touched' = [touched EXCEPT ![a] = TRUE]
             /\ shared' = [shared EXCEPT ![a] = FALSE]
             /\ data_len' = [data_len EXCEPT ![a] = GrownLen(i)]
             /\ resize_delta' = resize_delta + Growth(i)
             /\ dirty' \in {dirty, dirty \cup {a}}
             /\ UNCHANGED <<tracker, owned, cpi, todo, delivered>>
             /\ \/ /\ VmToHost(HandledRegion(i), "Store", Step.addr, Step.len)
                   /\ held' = Kept(i)
                   /\ Replace(i, HandledRegion(i), Step.addr)
                   /\ script' = Tail(script) /\ UNCHANGED fault
                \/ /\ ~VmToHost(HandledRegion(i), "Store", Step.addr, Step.len)
                   /\ held' = {}
                   /\ regions' \in {regions, Moved(regions, a)}
                   /\ cache' = CacheAfter(Step.addr)
                   /\ Violation("Store", Step.addr, Step.len) /\ UNCHANGED script
<1>1. PICK op \in {"touch", "store"} : Executing(op)
  BY Zenon DEF TouchHandled, Touching
<1>2. /\ Step.addr \in Nat /\ Step.len \in Nat \ {0} /\ held = {} /\ Step.op = op
      /\ Started /\ Watching /\ status = "running" /\ cpi.phase = "none"
  BY <1>1, ExecutingFacts DEF Accessing, Moving
<1>3. PICK i \in Found(Step.addr), moves \in BOOLEAN :
        /\ Handles(i)
        /\ touched' = [touched EXCEPT ![regions[i].account] = TRUE]
        /\ shared' = [shared EXCEPT ![regions[i].account] = FALSE]
        /\ data_len' = [data_len EXCEPT ![regions[i].account] =
                           IF Requested(i) > regions[i].len THEN HandledRegion(i).len ELSE @]
        /\ resize_delta' = resize_delta + Growth(i)
        /\ held' = (IF moves THEN Dangle(held, regions[i].account) ELSE held)
                      \cup {p \in Kept(i) : VmToHost(HandledRegion(i), "Store", p.addr, p.len)}
        /\ dirty' = IF Requested(i) > regions[i].len THEN dirty \cup {regions[i].account}
                                                     ELSE dirty
        /\ IF VmToHost(HandledRegion(i), "Store", Step.addr, Step.len)
           THEN /\ Replace(i, HandledRegion(i), Step.addr)
                /\ script' = Tail(script)
                /\ UNCHANGED fault
           ELSE /\ regions' = IF moves THEN Moved(regions, regions[i].account) ELSE regions
                /\ cache' = CacheAfter(Step.addr)
                /\ Violation("Store", Step.addr, Step.len)
                /\ UNCHANGED script
  BY Zenon DEF TouchHandled
<1>4. i \in Searched(Step.addr) /\ i \in Regions /\ regions[i].payload
  BY <1>2, <1>3, FoundIsSearched, Zenon DEF IInv, Searched, Handles
<1> DEFINE a == Layout[i].account
<1>5. a # NoAccount
  BY <1>2, <1>4, GrownLenFacts, Zenon
<1>6. /\ a \in Accounts /\ regions[i].account = a /\ i = TheRegion(a) /\ CanChange(a)
  BY <1>2, <1>4, <1>5, RunningMirrors, Zenon
<1>7. HandledRegion(i).len = GrownLen(i)
  <2>1. regions[i] \in RegionType
    BY <1>2, <1>4, RegionTypes DEF IInv
  <2> QED
    BY <2>1, Zenon DEF HandledRegion, RegionType
<1>8. data_len' = [data_len EXCEPT ![a] = GrownLen(i)]
  <2>1. data_len \in [Accounts -> Nat]
    BY Zenon DEF IInv, TypeOK, AccountsType
  <2>2. ~(Requested(i) > regions[i].len) => GrownLen(i) = data_len[a]
    BY <1>2, <1>4, GrownLenFacts, Zenon
  <2> QED
    BY <1>3, <1>6, <1>7, <2>1, <2>2, Zenon
<1>9. \A p \in Kept(i) : p.addr = Step.addr /\ p.len = Step.len
  BY DEF Kept, Pointer
<1>10. Dangle(held, regions[i].account) = {}
  BY <1>2 DEF Dangle
<1>11. /\ VmToHost(HandledRegion(i), "Store", Step.addr, Step.len) => held' = Kept(i)
       /\ ~VmToHost(HandledRegion(i), "Store", Step.addr, Step.len) => held' = {}
  BY <1>2, <1>3, <1>9, <1>10, Zenon
<1>12. UNCHANGED <<tracker, owned, cpi, todo, delivered>>
  BY Zenon DEF TouchHandled
<1> HIDE DEF a
<1> QED
  BY <1>1, <1>2, <1>3, <1>4, <1>5, <1>6, <1>8, <1>11, <1>12, Zenon DEF a

\* The region the handler builds is accepted by replace_region: the account
\* mirrors it, and it ends before the next one.
LEMMA TouchHandledKeeps ==
    ASSUME IInv, TouchHandled
    PROVE  IInv'
<1> USE DEF IInv
<1>1. PICK i \in Regions, a \in Accounts, moves \in BOOLEAN :
             /\ a = Layout[i].account /\ regions[i].account = a /\ i = TheRegion(a)
             /\ a # NoAccount /\ CanChange(a) /\ i \in Searched(Step.addr)
             /\ Started /\ Watching /\ status = "running" /\ cpi.phase = "none"
             /\ Step.op \in {"touch", "store"} /\ Executing(Step.op) /\ held = {}
             /\ Step.addr \in Nat /\ Step.len \in Nat \ {0}
             /\ regions[i].payload
             /\ touched' = [touched EXCEPT ![a] = TRUE]
             /\ shared' = [shared EXCEPT ![a] = FALSE]
             /\ data_len' = [data_len EXCEPT ![a] = GrownLen(i)]
             /\ resize_delta' = resize_delta + Growth(i)
             /\ dirty' \in {dirty, dirty \cup {a}}
             /\ UNCHANGED <<tracker, owned, cpi, todo, delivered>>
             /\ \/ /\ VmToHost(HandledRegion(i), "Store", Step.addr, Step.len)
                   /\ held' = Kept(i)
                   /\ Replace(i, HandledRegion(i), Step.addr)
                   /\ script' = Tail(script) /\ UNCHANGED fault
                \/ /\ ~VmToHost(HandledRegion(i), "Store", Step.addr, Step.len)
                   /\ held' = {}
                   /\ regions' \in {regions, Moved(regions, a)}
                   /\ cache' = CacheAfter(Step.addr)
                   /\ Violation("Store", Step.addr, Step.len) /\ UNCHANGED script
  BY TouchHandledFacts, Zenon
<1>13. /\ a = Layout[i].account /\ regions[i].account = a /\ i = TheRegion(a)
       /\ a # NoAccount /\ CanChange(a) /\ i \in Searched(Step.addr)
       /\ Started /\ Watching /\ status = "running" /\ cpi.phase = "none" /\ held = {}
       /\ Step.addr \in Nat /\ Step.len \in Nat \ {0} /\ regions[i].payload
  BY <1>1, Zenon
<1>14. /\ touched' = [touched EXCEPT ![a] = TRUE] /\ shared' = [shared EXCEPT ![a] = FALSE]
       /\ data_len' = [data_len EXCEPT ![a] = GrownLen(i)]
       /\ resize_delta' = resize_delta + Growth(i)
  BY <1>1, Zenon
<1>15. /\ dirty' \in {dirty, dirty \cup {a}}
       /\ UNCHANGED <<tracker, owned, cpi, todo, delivered>>
  BY <1>1, Zenon
<1>16. Step.op \in {"touch", "store"} /\ Executing(Step.op)
  BY <1>1, Zenon
<1> DEFINE L == GrownLen(i)
           now == HandledRegion(i)
<1>2. /\ L \in Nat /\ regions[i].len <= L /\ L <= Reserved(i) /\ L <= MaxDataLen
      /\ Growth(i) = L - data_len[a] /\ resize_delta + Growth(i) <= MaxGrowth
      /\ ~(Requested(i) > regions[i].len) => L = data_len[a]
  BY <1>13, GrownLenFacts, Zenon
<1>3. /\ regions \in [Regions -> RegionType] /\ regions[i] \in RegionType
      /\ cache \in [entries : [Slots -> EntryType], head : Slots]
      /\ data_len \in [Accounts -> Nat] /\ shared \in [Accounts -> BOOLEAN]
      /\ touched \in [Accounts -> BOOLEAN] /\ resize_delta \in Int
  BY <1>1, Zenon DEF TypeOK, RegionsType, CacheType, AccountsType
<1>4. /\ regions[i].vm_addr = Layout[i].vm_addr /\ regions[i].vm_gap = 0
      /\ i + 1 \in Regions /\ Layout[i + 1].vm_addr = Layout[i].vm_addr + Reserved(i)
      /\ regions[i + 1].vm_addr = Layout[i + 1].vm_addr
      /\ Layout[i].vm_addr \in Nat /\ Reserved(i) \in Nat
  BY <1>13, AccountSpace, LayoutFacts, Zenon DEF RegionsOK
<1>5. /\ regions[i].len = data_len[a] /\ regions[i].fresh
      /\ \A j \in Regions : Layout[j].account = a => j = i
  BY <1>13, RunningMirrors, RegionOfAccount, Zenon
<1>6. AccountsType' /\ GrowthBounded'
  <2>1. /\ data_len' = [data_len EXCEPT ![a] = L] /\ resize_delta' = resize_delta + (L - data_len[a])
        /\ touched' = [touched EXCEPT ![a] = TRUE] /\ shared' = [shared EXCEPT ![a] = FALSE]
        /\ owned' = owned
    BY <1>14, <1>15, <1>2, Zenon
  <2> HIDE DEF L
  <2>2. /\ data_len' \in [Accounts -> Nat] /\ shared' \in [Accounts -> BOOLEAN]
        /\ touched' \in [Accounts -> BOOLEAN] /\ resize_delta' \in Int
    BY <1>2, <1>3, <2>1
  <2>3. resize_delta' <= MaxGrowth
    BY <1>2, <2>1, Zenon
  <2>4. \A b \in Accounts : data_len'[b] <= MaxDataLen
    BY <1>2, <1>3, <2>1 DEF GrowthBounded
  <2> QED
    BY <2>1, <2>2, <2>3, <2>4, Zenon DEF TypeOK, AccountsType, GrowthBounded
<1>7. HistoryType' /\ ModifiedIsTouched' /\ DetectionIsExact'
  BY <1>13, <1>14, <1>15, <1>3, Zenon DEF TypeOK, HistoryType, ModifiedIsTouched,
     DetectionIsExact
<1>8. Fits'
  <2>1. ASSUME NEW b \in Accounts PROVE data_len'[b] <= Reserved(TheRegion(b))
    <3>1. data_len[b] <= Reserved(TheRegion(b))
      BY <1>1, Zenon DEF Fits, Loose
    <3> QED
      BY <1>13, <1>14, <1>2, <1>3, <3>1, Zenon
  <2> QED
    BY <1>13, <1>15, <2>1, Zenon DEF Fits, Loose
<1>9. SysvarIsPrivate'
  BY <1>13, <1>14, <1>3, Zenon DEF SysvarIsPrivate, Started
<1>10. /\ now.vm_addr = Layout[i].vm_addr /\ now.len = L /\ now.vm_gap = 0 /\ now.writable
       /\ now.payload /\ now.account = a /\ now.fresh /\ now \in RegionType
  BY <1>13, <1>2, <1>3, <1>4, Zenon DEF HandledRegion, RegionType
<1> HIDE DEF L, now
<1>11. CASE /\ VmToHost(now, "Store", Step.addr, Step.len)
            /\ held' = Kept(i)
            /\ Replace(i, now, Step.addr)
            /\ script' = Tail(script) /\ UNCHANGED fault
  <2>1. VmEnd(now) <= regions[i + 1].vm_addr
    BY <1>2, <1>4, <1>10, LayoutFacts DEF VmEnd, SaturatingAdd
  <2>2. regions' = [regions EXCEPT ![i] = now] /\ cache' = EmptyCache /\ status' = "running"
    BY <1>13, <1>4, <1>10, <1>11, <2>1, Zenon DEF Replace
  <2>3. Started' /\ Watching' /\ status' \in Statuses
    BY <2>2, Zenon DEF Started, Watching, Statuses
  <2>4. /\ regions' \in [Regions -> RegionType] /\ regions'[i] = now
        /\ \A j \in Regions : j # i => regions'[j] = regions[j]
    BY <1>3, <1>10, <2>2
  <2>5. RegionsOK'
    <3> SUFFICES ASSUME NEW j \in Regions
                 PROVE  /\ regions'[j].vm_addr = Layout[j].vm_addr
                        /\ regions'[j].account = Layout[j].account
                        /\ regions'[j].vm_gap = Layout[j].vm_gap
                        /\ regions'[j].account = NoAccount =>
                              regions'[j].len = Layout[j].len /\ ~regions'[j].payload
                        /\ regions'[j].account # NoAccount => regions'[j].len <= Reserved(j)
      BY Zenon DEF RegionsOK
    <3>1. CASE j = i
      <4>1. regions'[i] = now /\ Layout[i].vm_gap = 0
        BY <1>13, <2>4, AccountSpace, Zenon
      <4>2. now.account = Layout[i].account /\ now.account # NoAccount
        BY <1>13, <1>10, Zenon
      <4> QED
        BY <1>2, <1>10, <3>1, <4>1, <4>2, Zenon
    <3>2. CASE j # i
      BY <1>13, <2>4, <3>2, Zenon DEF RegionsOK
    <3> QED
      BY <3>1, <3>2, Zenon
  <2>6. CacheType' /\ CacheCoherent'
    BY <2>2, FlushedCache
  <2>7. held' \subseteq {Pointer(i, "Store", Step.addr, Step.len)} /\ held' \subseteq PointerType
    <3>1. i \in Nat
      BY LayoutFacts
    <3>2. Pointer(i, "Store", Step.addr, Step.len) \in PointerType
      BY <1>13, <3>1, Zenon DEF Pointer, PointerType, AccessTypes
    <3> QED
      BY <1>11, <3>2 DEF Kept
  <2>8. script \in Seq(StepType) /\ script' \in Seq(StepType)
    BY <1>16, <1>11, ExecutingFacts, Zenon
  <2>9. TypeOK'
    BY <1>13, <1>15, <1>6, <1>7, <1>11, <2>3, <2>4, <2>6, <2>7, <2>8, Zenon
       DEF TypeOK, OperationType, RegionsType
  <2>10. WatchOK'
    BY <1>13, <1>15, <2>3, Zenon DEF WatchOK
  <2>11. CallOK' /\ PhaseOK' /\ NoRejectedRegion' /\ FaultsAreOutsideData'
    BY <1>13, <1>15, <1>11, <2>2, Zenon DEF CallOK, PhaseOK, NoRejectedRegion,
       FaultsAreOutsideData
  <2>12. Mirrors'
    <3>1. ASSUME NEW j \in Regions, regions'[j].account # NoAccount PROVE Mirrored(j)'
      <4>1. CASE j = i
        BY <1>13, <1>14, <1>15, <1>3, <1>10, <2>4, <4>1, Zenon DEF Mirrored, CanChange, L
      <4>2. CASE j # i
        <5>1. regions'[j] = regions[j] /\ Layout[j].account # a /\ regions[j].account # a
          BY <1>13, <1>5, <2>4, <4>2, Zenon DEF RegionsOK
        <5>2. Mirrored(j) /\ regions[j].account \in Accounts
          BY <1>13, <3>1, <5>1, <1>3, Zenon DEF Mirrors, Unsettled, RegionType
        <5> QED
          BY <1>13, <1>14, <1>15, <1>3, <5>1, <5>2, Zenon DEF Mirrored, CanChange
      <4> QED
        BY <4>1, <4>2
    <3> QED
      BY <3>1 DEF Mirrors
  <2>13. ScriptOK'
    <3>1. Mapped(regions', Step.addr, Step.len)
      BY <1>13, <1>11, <2>4, Zenon DEF Mapped
    <3>2. ASSUME NEW s \in StepType, Mapped(regions, s.addr, s.len)
          PROVE  Mapped(regions', s.addr, s.len)
      <4>1. PICK j \in Searched(s.addr) : VmToHost(regions[j], "Store", s.addr, s.len)
        BY <3>2, Zenon DEF Mapped
      <4>2. j \in Regions /\ s.addr \in Nat /\ s.len \in Nat
        BY <4>1, Zenon DEF Searched, StepType
      <4>3. CASE j = i
        <5>1. VmToHost(now, "Store", s.addr, s.len)
          BY <1>2, <1>3, <1>4, <1>10, <4>1, <4>2, <4>3
             DEF VmToHost, InGap, HostOffset, RegionType
        <5> QED
          BY <2>4, <4>1, <4>3, <5>1, Zenon DEF Mapped
      <4>4. CASE j # i
        BY <2>4, <4>1, <4>2, <4>4 DEF Mapped
      <4> QED
        BY <4>3, <4>4
    <3>3. held' = {} \/ Step.op \in Holding
      BY <1>13, <1>16, <1>11, Zenon DEF Kept, Holding
    <3> QED
      BY <1>13, <1>15, <1>16, <1>11, <2>2, <2>8, <3>1, <3>2, <3>3, TailScript, Zenon
  <2>14. HeldOK'
    <3>0. PICK q : q = Pointer(i, "Store", Step.addr, Step.len)
      OBVIOUS
    <3>1. \A p \in held' : ~p.dangling /\ p.type = "Store" /\ p.account = a
      <4>1. ~q.dangling /\ q.type = "Store" /\ q.account = regions[i].account
        BY <3>0, Zenon DEF Pointer
      <4>2. q.account = a /\ \A p \in held' : p = q
        BY <1>13, <2>7, <3>0, <4>1, Zenon
      <4> QED
        BY <4>1, <4>2, Zenon
    <3> QED
      BY <1>13, <1>14, <1>15, <1>3, <2>2, <3>1, Zenon DEF HeldOK, HeldPointersLive
  <2>15. WritableIsTouched'
    <3>1. ASSUME NEW j \in Regions, regions'[j].writable, regions'[j].account # NoAccount
          PROVE  touched'[regions'[j].account]
      <4>1. CASE j = i
        BY <1>13, <1>14, <1>3, <1>10, <2>4, <4>1, Zenon
      <4>2. CASE j # i
        <5>1. regions'[j] = regions[j] /\ regions[j].account \in Accounts
          BY <1>3, <2>4, <3>1, <4>2 DEF RegionType
        <5>2. touched[regions[j].account]
          BY <1>13, <3>1, <5>1, Zenon DEF WritableIsTouched
        <5> QED
          BY <1>13, <1>14, <1>3, <5>1, <5>2, Zenon
      <4> QED
        BY <4>1, <4>2
    <3> QED
      BY <3>1, Zenon DEF WritableIsTouched
  <2> QED
    BY <1>6, <1>7, <1>8, <1>9, <2>5, <2>6, <2>9, <2>10, <2>11, <2>12, <2>13, <2>14, <2>15,
       Zenon
<1>12. CASE /\ ~VmToHost(now, "Store", Step.addr, Step.len)
            /\ held' = {}
            /\ regions' \in {regions, Moved(regions, a)}
            /\ cache' = CacheAfter(Step.addr)
            /\ Violation("Store", Step.addr, Step.len) /\ UNCHANGED script
  <2>1. status' = "fault" /\ Started' /\ Watching' /\ status' \in Statuses
    BY <1>12, Zenon DEF Violation, Started, Watching, Statuses, Ended
  <2>2. /\ regions' \in [Regions -> RegionType]
        /\ \A j \in Regions :
                 /\ regions'[j].vm_addr = regions[j].vm_addr
                 /\ regions'[j].len = regions[j].len
                 /\ regions'[j].vm_gap = regions[j].vm_gap
                 /\ regions'[j].writable = regions[j].writable
                 /\ regions'[j].payload = regions[j].payload
                 /\ regions'[j].account = regions[j].account
        /\ \A j \in Regions : EntryOf(j)' = EntryOf(j)
    BY <1>13, <1>12, MovedTable
  <2>3. CacheType' /\ CacheCoherent'
    BY <1>13, <1>12, <2>2, CacheKept, Zenon
  <2>4. fault' \in FaultType
    BY <1>13, <1>12, Zenon DEF Violation, FaultType, AccessTypes
  <2>5. TypeOK'
    BY <1>13, <1>15, <1>6, <1>7, <1>12, <2>1, <2>2, <2>3, <2>4, Zenon
       DEF TypeOK, OperationType, RegionsType
  <2>6. RegionsOK'
    <3> SUFFICES ASSUME NEW j \in Regions
                 PROVE  /\ regions'[j].vm_addr = Layout[j].vm_addr
                        /\ regions'[j].account = Layout[j].account
                        /\ regions'[j].vm_gap = Layout[j].vm_gap
                        /\ regions'[j].account = NoAccount =>
                              regions'[j].len = Layout[j].len /\ ~regions'[j].payload
                        /\ regions'[j].account # NoAccount => regions'[j].len <= Reserved(j)
      BY Zenon DEF RegionsOK
    <3>1. /\ regions'[j].vm_addr = regions[j].vm_addr /\ regions'[j].len = regions[j].len
          /\ regions'[j].vm_gap = regions[j].vm_gap /\ regions'[j].payload = regions[j].payload
          /\ regions'[j].account = regions[j].account
      BY <2>2, Zenon
    <3> QED
      BY <1>13, <3>1, Zenon DEF RegionsOK
  <2>7. WatchOK'
    BY <1>13, <1>15, <2>1, Zenon DEF WatchOK
  <2>8. CallOK' /\ PhaseOK' /\ NoRejectedRegion' /\ Mirrors' /\ ScriptOK'
    BY <1>13, <1>15, <2>1, Zenon DEF CallOK, PhaseOK, NoRejectedRegion, Mirrors, ScriptOK
  <2>9. HeldOK'
    BY <1>12, Zenon DEF HeldOK, HeldPointersLive
  <2>10. WritableIsTouched'
    BY <1>13, <1>14, <1>3, <2>2, Zenon DEF WritableIsTouched, RegionType
  <2>11. FaultsAreOutsideData'
    <3> SUFFICES ASSUME NEW j \in Regions, Layout[j].account # NoAccount,
                        Step.addr >= Layout[j].vm_addr,
                        Step.addr + Step.len <= Layout[j].vm_addr + Reserved(j)
                 PROVE  Step.addr + Step.len - Layout[j].vm_addr > data_len'[Layout[j].account]
      BY <1>12, Zenon DEF FaultsAreOutsideData, Violation
    <3>1. Searched(Step.addr) = {j}
      <4>1. /\ Step.addr \in Nat /\ Step.len \in Nat \ {0}
            /\ Layout[j].vm_addr \in Nat /\ Reserved(j) \in Nat
        BY <1>13, LayoutFacts, Zenon
      <4>2. Step.addr < Layout[j].vm_addr + Reserved(j)
        BY <4>1
      <4> QED
        BY <4>1, <4>2, SearchedAccount
    <3>2. j = i
      BY <1>13, <3>1, Zenon
    <3>3. Step.addr + Step.len - Layout[i].vm_addr > L
      <4>1. Step.addr \in Nat /\ Step.len \in Nat /\ Step.addr >= now.vm_addr
        BY <1>13, <1>10, <3>2, Zenon
      <4>2. ~(Step.addr - now.vm_addr + Step.len <= now.len)
        BY <1>10, <1>12, <4>1, Zenon DEF VmToHost, InGap, HostOffset
      <4> QED
        BY <1>2, <1>4, <1>10, <4>1, <4>2
    <3> QED
      BY <1>13, <1>14, <1>3, <3>2, <3>3, Zenon DEF L
  <2> QED
    BY <1>6, <1>7, <1>8, <1>9, <2>3, <2>5, <2>6, <2>7, <2>8, <2>9, <2>10, <2>11, Zenon
<1> QED
  BY <1>1, <1>11, <1>12, Zenon DEF now

(* ------------------------------ operating ------------------------------- *)

\* Between operations nothing is held.
LEMMA IdleFacts ==
    ASSUME IInv, Idle
    PROVE  /\ status = "running" /\ script = << >> /\ cpi.phase = "none" /\ held = {}
           /\ Started /\ Watching
BY DEF IInv, Idle, ScriptOK, HeldIsUsed, Started, Watching

\* An operation that fulfils the rules of ScriptOK starts.
LEMMA BeginKeeps ==
    ASSUME IInv, Idle, NEW steps, Begin(steps), ScriptOK', script' \in Seq(StepType)
    PROVE  IInv'
<1> USE DEF IInv
<1>1. status = "running" /\ cpi.phase = "none" /\ held = {} /\ Watching
  BY IdleFacts
<1>2. UNCHANGED <<status, mapping, tracker, accounts, held, cpi, todo, fault, history>>
  BY Zenon DEF Begin
<1>3. /\ Started /\ Started' /\ Watching' /\ status' \in Statuses
      /\ RegionsType' /\ AccountsType' /\ RegionsOK' /\ CallOK' /\ Mirrors' /\ Fits'
      /\ SysvarIsPrivate' /\ WritableIsTouched' /\ GrowthBounded'
      /\ FaultsAreOutsideData' /\ NoRejectedRegion' /\ PhaseOK'
      /\ cpi' \in CallType /\ todo' \in SUBSET Accounts /\ fault' \in FaultType
  BY <1>1, <1>2, StillRunning, Zenon DEF mapping
<1>4. /\ CacheType' /\ tracker' \in TrackerType /\ HistoryType'
      /\ CacheCoherent' /\ ModifiedIsTouched' /\ DetectionIsExact'
  BY <1>2, <1>3, StillMemory, Zenon
<1>5. TypeOK'
  BY <1>1, <1>2, <1>3, <1>4 DEF TypeOK, OperationType
<1>6. WatchOK'
  BY <1>1, <1>2, <1>3, Zenon DEF WatchOK
<1>7. HeldOK'
  BY <1>1, <1>2, Zenon DEF HeldOK, HeldPointersLive
<1> QED
  BY <1>3, <1>4, <1>5, <1>6, <1>7

\* The operations and system calls of a program fulfil the rules of ScriptOK.
LEMMA OperatingKeeps ==
    ASSUME IInv, Operating
    PROVE  IInv'
<1>1. ASSUME NEW addr \in Addresses, NEW n \in AccessLens, LoadOp(addr, n) \/ StoreOp(addr, n)
      PROVE  IInv'
  <2>1. addr \in Nat /\ n \in Nat \ {0}
    BY ConstantsAssumption, U64Assumption
  <2>2. Idle /\ held' = {}
    BY <1>1, IdleFacts DEF LoadOp, StoreOp, Begin
  <2>3. PICK steps \in {<<Op("load", addr, n), Bare("use")>>, <<Op("store", addr, n), Bare("use")>>} :
           Begin(steps)
    BY <1>1, Zenon DEF LoadOp, StoreOp
  <2>4. ScriptOK' /\ script' \in Seq(StepType)
    BY <2>1, <2>2, <2>3, NewScript, Zenon DEF Begin
  <2> QED
    BY <2>2, <2>3, <2>4, BeginKeeps, Zenon
<1>2. ASSUME NEW p \in SyscallAddresses, NEW q \in SyscallAddresses, NEW n \in AccessLens,
             \/ Memmove(p, q, n)
             \/ Memcpy(p, q, n)
             \/ Memset(p, n)
             \/ GetReturnData(p, n, q)
             \/ \E r \in SyscallAddresses : Memcmp(p, q, n, r)
      PROVE  IInv'
  <2>1. p \in Nat /\ q \in Nat /\ n \in Nat \ {0}
    BY ConstantsAssumption, U64Assumption
  <2>2. Idle
    BY <1>2, Zenon DEF Memmove, Memcpy, Memset, GetReturnData, Memcmp
  <2>3. ASSUME Begin(MoveScript(p, q, n)) PROVE IInv'
    <3>1. held' = {} /\ script' = MoveScript(p, q, n)
      BY <2>2, <2>3, IdleFacts, Zenon DEF Begin
    <3>2. ScriptOK' /\ script' \in Seq(StepType)
      BY <2>1, <3>1, NewScript
    <3> QED
      BY <2>2, <2>3, <3>2, BeginKeeps, Zenon
  <2>4. CASE Memmove(p, q, n)
    BY <2>3, <2>4, Zenon DEF Memmove
  <2>5. CASE Memcpy(p, q, n)
    <3>1. CASE /\ status' = "error"
               /\ UNCHANGED <<mapping, tracker, accounts, progress, fault, history>>
      <4>1. UNCHANGED regions /\ cache' = cache /\ 0 \in Nat
        BY <3>1 DEF mapping
      <4> QED
        BY <2>2, <3>1, <4>1, IdleFacts, Erring
    <3> QED
      BY <2>3, <2>5, <3>1, Zenon DEF Memcpy
  <2>6. CASE Memset(p, n)
    <3>1. Begin(<<Op("touch", p, n), Op("map", p, n), Bare("use")>>)
      BY <2>6, Zenon DEF Memset
    <3>2. held' = {} /\ script' = <<Op("touch", p, n), Op("map", p, n), Bare("use")>>
      BY <2>2, <3>1, IdleFacts, Zenon DEF Begin
    <3>3. ScriptOK' /\ script' \in Seq(StepType)
      BY <2>1, <3>2, NewScript
    <3> QED
      BY <2>2, <3>1, <3>3, BeginKeeps, Zenon
  <2>7. CASE GetReturnData(p, n, q)
    <3> DEFINE steps == <<Op("touch", p, n), Op("touch", q, 1), Op("map", p, n),
                          Op("map", q, 1), Bare("disjoint"), Bare("use")>>
    <3>1. Begin(steps)
      BY <2>7, Zenon DEF GetReturnData
    <3>2. held' = {} /\ script' = steps
      BY <2>2, <3>1, IdleFacts, Zenon DEF Begin
    <3>3. ScriptOK' /\ script' \in Seq(StepType)
      BY <2>1, <3>2, NewScript
    <3> HIDE DEF steps
    <3> QED
      BY <2>2, <3>1, <3>3, BeginKeeps, Zenon
  <2>8. ASSUME NEW r \in SyscallAddresses, Memcmp(p, q, n, r) PROVE IInv'
    <3> DEFINE steps == <<Op("load", p, n), Op("load", q, n), Bare("use"),
                          Op("touch", r, 1), Op("map", r, 1), Bare("use")>>
    <3>1. Begin(steps) /\ r \in Nat
      BY <2>8, ConstantsAssumption, U64Assumption DEF Memcmp
    <3>2. held' = {} /\ script' = steps
      BY <2>2, <3>1, IdleFacts DEF Begin
    <3>3. ScriptOK' /\ script' \in Seq(StepType)
      BY <2>1, <3>1, <3>2, NewScript, Zenon
    <3> HIDE DEF steps
    <3> QED
      BY <2>2, <3>1, <3>3, BeginKeeps, Zenon
  <2> QED
    BY <1>2, <2>4, <2>5, <2>6, <2>7, <2>8, Zenon
<1> QED
  BY <1>1, <1>2 DEF Operating

(* ------------------------------- calling -------------------------------- *)

\* A call starts with the loads that translate the instruction.
LEMMA InvokeKeeps ==
    ASSUME IInv, NEW addr \in SyscallAddresses, Invoke(addr)
    PROVE  IInv'
<1> DEFINE steps == <<Op("load", addr, 1), Bare("use"), Bare("cpi")>>
<1>1. Idle /\ Begin(steps) /\ addr \in Nat
  BY ConstantsAssumption, U64Assumption DEF Invoke
<1>2. held' = {} /\ script' = steps
  BY <1>1, IdleFacts, Zenon DEF Begin
<1>3. ScriptOK' /\ script' \in Seq(StepType)
  BY <1>1, <1>2, NewScript
<1> HIDE DEF steps
<1> QED
  BY <1>1, <1>3, BeginKeeps, Zenon

\* A step of a call that leaves memory and accounts alone: only what the phase
\* and the accounts left to look at say has to be shown.
LEMMA CallStep ==
    ASSUME IInv, status = "running", status' = "running",
           UNCHANGED <<mapping, tracker, accounts, fault, history>>,
           held' = held \/ held' = {},
           script' = << >>, cpi' \in CallType, todo' \in SUBSET Accounts,
           \A p \in held : p.account = NoAccount,
           CallOK', Unsettled \subseteq Unsettled', Fits',
           cpi'.phase = "none" => held' = {}
    PROVE  IInv'
<1> USE DEF IInv
<1>1. Started /\ Started' /\ Watching /\ Watching' /\ status' \in Statuses
  BY Zenon DEF Started, Watching, Statuses
<1>2. /\ RegionsType' /\ CacheType' /\ tracker' \in TrackerType /\ AccountsType'
      /\ HistoryType'
      /\ RegionsOK' /\ CacheCoherent' /\ WritableIsTouched' /\ ModifiedIsTouched'
      /\ DetectionIsExact' /\ GrowthBounded'
  BY <1>1, StillMemory
<1>3. TypeOK'
  <2>1. script' \in Seq(StepType) /\ held' \in SUBSET PointerType /\ fault' \in FaultType
    BY DEF TypeOK, OperationType
  <2> QED
    BY <1>1, <1>2, <2>1, Zenon DEF TypeOK, OperationType
<1>4. WatchOK'
  BY <1>1, Zenon DEF WatchOK
<1>5. Mirrors'
  BY Zenon DEF Mirrors, Mirrored, CanChange, mapping, accounts
<1>6. SysvarIsPrivate' /\ FaultsAreOutsideData' /\ NoRejectedRegion' /\ PhaseOK'
  BY Zenon DEF SysvarIsPrivate, FaultsAreOutsideData, NoRejectedRegion, PhaseOK, accounts
<1>7. ScriptOK'
  BY EmptyScript
<1>8. HeldOK'
  BY Zenon DEF HeldOK, HeldPointersLive, Recorded, accounts
<1> QED
  BY <1>2, <1>3, <1>4, <1>5, <1>6, <1>7, <1>8, Zenon

\* What holds inside a call.
LEMMA InCallFacts ==
    ASSUME IInv, status = "running", cpi.phase # "none"
    PROVE  /\ script = << >> /\ Started /\ Watching
           /\ \A p \in held : p.account = NoAccount
           /\ cpi \in CallType /\ todo \in SUBSET Accounts
           /\ cpi.passed \subseteq Accounts /\ cpi.writable \subseteq cpi.passed
           /\ cpi.update \subseteq Accounts /\ cpi.lens \in [Accounts -> Nat]
<1>1. cpi \in CallType /\ todo \in SUBSET Accounts
  BY DEF IInv, TypeOK, OperationType
<1> QED
  BY <1>1, Zenon DEF IInv, CallOK, HeldOK, CallType, Started, Watching

\* The callee's instruction is prepared; the call has its accounts.
LEMMA PrepareKeeps ==
    ASSUME IInv, Prepare
    PROVE  IInv'
<1>1. /\ script \in Seq(StepType) /\ Len(script) \in Nat \ {0} /\ Step = script[1]
      /\ Step.op = "cpi" /\ held = {}
      /\ Started /\ Watching /\ status = "running" /\ cpi.phase = "none"
  BY ExecutingFacts, Zenon DEF Prepare, Moving
<1>2. Tail(script) = << >>
  <2>1. CallIsLast /\ 1 \in DOMAIN script
    BY <1>1 DEF IInv, ScriptOK
  <2>2. Len(script) = 1
    BY <1>1, <2>1, Zenon DEF CallIsLast
  <2>3. Tail(script) \in Seq(StepType) /\ Len(Tail(script)) = 0
    BY <1>1, <2>2
  <2> QED
    BY <2>3, EmptySequence, Zenon
<1>3. UNCHANGED <<mapping, tracker, accounts, held, fault, history>>
  BY Zenon DEF Prepare
<1>4. ASSUME NEW call \in Calls,
             cpi' = [phase |-> "translate", passed |-> call.passed,
                     writable |-> call.writable, lens |-> NoLens, update |-> {}],
             todo' = call.passed, script' = Tail(script), UNCHANGED status
      PROVE  IInv'
  <2>1. call.writable \subseteq call.passed /\ call.passed \subseteq Accounts
    BY ConstantsAssumption, Zenon
  <2>2. cpi' \in CallType /\ todo' \in SUBSET Accounts
    BY <1>4, <2>1, Zenon DEF CallType, Phases, NoLens
  <2>3. CallOK'
    BY <1>2, <1>4, <2>1, Zenon DEF CallOK
  <2>4. Unsettled \subseteq Unsettled'
    BY <1>1 DEF Unsettled
  <2>5. Fits'
    BY <1>1, <1>3, <1>4, Zenon DEF IInv, Fits, Loose, accounts
  <2> QED
    BY <1>1, <1>2, <1>3, <1>4, <2>2, <2>3, <2>4, <2>5, CallStep, Zenon
<1>5. ASSUME status' = "error", UNCHANGED <<cpi, todo, script>> PROVE IInv'
  <2>1. UNCHANGED <<regions, progress>> /\ cache' = cache /\ 0 \in Nat
    BY <1>3, <1>5 DEF mapping, progress
  <2> QED
    BY <1>1, <1>3, <1>5, <2>1, Erring, Zenon
<1> QED
  BY <1>4, <1>5, Zenon DEF Prepare

\* The pointers kept over a call are not into account data, so that they do not
\* dangle whatever happens to account a.
LEMMA DangleNothing ==
    ASSUME NEW a, a # NoAccount, held \in SUBSET PointerType,
           \A p \in held : p.account = NoAccount
    PROVE  Dangle(held, a) = held
<1>1. \A p \in held : [p EXCEPT !.dangling = @ \/ p.account = a] = p
  BY Zenon DEF PointerType
<1> QED
  BY <1>1 DEF Dangle

\* A step changes account a, and nothing of another account.
Changes(a) ==
    /\ AccountsType' /\ GrowthBounded'
    /\ \A b \in Accounts \ {a} :
          data_len'[b] = data_len[b] /\ shared'[b] = shared[b] /\ owned'[b] = owned[b]
    /\ \A b \in Accounts : (touched[b] => touched'[b]) /\ (shared'[b] => shared[b])
    /\ regions' \in {regions, Moved(regions, a)}
    /\ held' = held
    /\ dirty' = dirty \/ (dirty' = dirty \cup {a} /\ touched'[a])

\* set_data_length and the limits it checks.
LEMMA ResizeFacts ==
    ASSUME IInv, \A p \in held : p.account = NoAccount,
           NEW a \in Accounts, NEW n \in Nat, WithinLimits(a, n), Resize(a, n)
    PROVE  /\ data_len' = [data_len EXCEPT ![a] = n]
           /\ resize_delta' = resize_delta + n - data_len[a]
           /\ owned' \in [Accounts -> BOOLEAN]
              /\ (\A b \in Accounts \ {a} : owned'[b] = owned[b]) => Changes(a)
<1>1. /\ data_len \in [Accounts -> Nat] /\ shared \in [Accounts -> BOOLEAN]
      /\ touched \in [Accounts -> BOOLEAN] /\ resize_delta \in Int
      /\ held \in SUBSET PointerType
  BY DEF IInv, TypeOK, AccountsType, OperationType
<1>2. /\ data_len' = [data_len EXCEPT ![a] = n]
      /\ resize_delta' = resize_delta + n - data_len[a]
      /\ touched' = [touched EXCEPT ![a] = TRUE]
      /\ shared' = [shared EXCEPT ![a] = FALSE]
      /\ regions' \in {regions, Moved(regions, a)}
      /\ held' \in {held, Dangle(held, a)}
      /\ dirty' = dirty \cup {a}
  BY Zenon DEF Resize
<1>3. held' = held
  BY <1>1, <1>2, DangleNothing, RegionOfAccount, Zenon
<1>4. /\ data_len' \in [Accounts -> Nat] /\ shared' \in [Accounts -> BOOLEAN]
      /\ touched' \in [Accounts -> BOOLEAN] /\ resize_delta' \in Int
  BY <1>1, <1>2
<1>5. GrowthBounded'
  BY <1>1, <1>2 DEF IInv, GrowthBounded, WithinLimits
<1>6. ASSUME owned' \in [Accounts -> BOOLEAN], \A b \in Accounts \ {a} : owned'[b] = owned[b]
      PROVE  Changes(a)
  <2>1. AccountsType'
    BY <1>4, <1>6, Zenon DEF AccountsType
  <2>2. /\ \A b \in Accounts \ {a} : data_len'[b] = data_len[b] /\ shared'[b] = shared[b]
        /\ \A b \in Accounts : (touched[b] => touched'[b]) /\ (shared'[b] => shared[b])
        /\ touched'[a]
    BY <1>1, <1>2
  <2> QED
    BY <1>2, <1>3, <1>5, <1>6, <2>1, <2>2, Zenon DEF Changes
<1> QED
  BY <1>2, <1>6, Zenon

\* update_callee_account and deserialization change one account, within the
\* limits, and leave one alone that already is as the program sees it.
LEMMA AdoptFacts ==
    ASSUME IInv, \A p \in held : p.account = NoAccount,
           NEW a \in Accounts, NEW n \in Nat, NEW gives \in BOOLEAN, NEW ok \in BOOLEAN,
           Adopt(a, n, gives, ok)
    PROVE  /\ Changes(a)
           /\ \/ UNCHANGED <<data_len, resize_delta>>
              \/ /\ data_len' = [data_len EXCEPT ![a] = n]
                 /\ resize_delta' = resize_delta + n - data_len[a]
           /\ n = data_len[a] /\ ~gives => UNCHANGED <<regions, data_len, shared, owned>>
<1>1. /\ data_len \in [Accounts -> Nat] /\ shared \in [Accounts -> BOOLEAN]
      /\ owned \in [Accounts -> BOOLEAN]
      /\ touched \in [Accounts -> BOOLEAN] /\ resize_delta \in Int
  BY Zenon DEF IInv, TypeOK, AccountsType
<1>2. /\ owned' \in [Accounts -> BOOLEAN] /\ \A b \in Accounts \ {a} : owned'[b] = owned[b]
      /\ ~gives => owned' = owned
  BY <1>1, Zenon DEF Adopt
<1>3. CASE n # data_len[a] /\ WithinLimits(a, n) /\ Resize(a, n)
  BY <1>2, <1>3, ResizeFacts, Zenon
<1>4. CASE /\ touched' = IF ok /\ gives THEN [touched EXCEPT ![a] = TRUE] ELSE touched
           /\ UNCHANGED <<regions, data_len, shared, resize_delta, held, dirty>>
  <2>1. touched' \in [Accounts -> BOOLEAN] /\ \A b \in Accounts : touched[b] => touched'[b]
    BY <1>1, <1>4, Zenon
  <2>2. AccountsType' /\ GrowthBounded'
    BY <1>1, <1>2, <1>4, <2>1, Zenon DEF AccountsType, IInv, GrowthBounded
  <2>3. /\ \A b \in Accounts \ {a} :
              data_len'[b] = data_len[b] /\ shared'[b] = shared[b] /\ owned'[b] = owned[b]
        /\ \A b \in Accounts : (touched[b] => touched'[b]) /\ (shared'[b] => shared[b])
    BY <1>2, <1>4, <2>1, Zenon
  <2>4. regions' = regions /\ held' = held /\ dirty' = dirty
    BY <1>4
  <2>5. Changes(a)
    BY <2>2, <2>3, <2>4, Zenon DEF Changes
  <2> QED
    BY <1>2, <1>4, <2>5, Zenon
<1> QED
  BY <1>3, <1>4, Zenon DEF Adopt

\* What such a step keeps.
LEMMA ChangesKeep ==
    ASSUME IInv, Watching, Watching', NEW a \in Accounts, Changes(a),
           UNCHANGED <<cache, tracker, script, fault, delivered>>
    PROVE  /\ RegionsType' /\ CacheType' /\ tracker' \in TrackerType /\ AccountsType'
           /\ HistoryType' /\ script' \in Seq(StepType) /\ held' \in SUBSET PointerType
           /\ fault' \in FaultType
           /\ RegionsOK' /\ CacheCoherent' /\ WatchOK' /\ SysvarIsPrivate'
           /\ WritableIsTouched' /\ ModifiedIsTouched' /\ DetectionIsExact' /\ GrowthBounded'
           /\ HeldPointersLive'
           /\ \A p \in held : p.type = "Load" => \A b \in Bytes(p) : Forbidden(b) => Recorded(b)'
           /\ \A p \in held : p.type = "Store" /\ p.account # NoAccount => touched'[p.account]
           /\ \A j \in Regions : /\ regions'[j].account = regions[j].account
                                 /\ /\ regions[j].account \notin {a, NoAccount}
                                    /\ Mirrored(j)
                                    => Mirrored(j)'
<1> USE DEF IInv
<1>1. Started /\ Started'
  BY Zenon DEF Watching
<1>2. /\ regions' \in [Regions -> RegionType]
      /\ \A i \in Regions :
                 /\ regions'[i].vm_addr = regions[i].vm_addr
                 /\ regions'[i].len = regions[i].len
                 /\ regions'[i].vm_gap = regions[i].vm_gap
                 /\ regions'[i].writable = regions[i].writable
                 /\ regions'[i].payload = regions[i].payload
                 /\ regions'[i].account = regions[i].account
                 /\ regions[i].account # a => regions'[i] = regions[i]
      /\ \A i \in Regions : EntryOf(i)' = EntryOf(i)
  BY <1>1, MovedTable DEF Changes
<1>3. \A i \in Regions : regions[i].account \in Accounts \cup {NoAccount}
  BY <1>1, RegionTypes, Zenon
<1>4. CacheType' /\ CacheCoherent'
  <2>1. 0 \in Nat /\ cache' = cache
    OBVIOUS
  <2> QED
    BY <1>1, <1>2, <2>1, CacheKept, Zenon
<1>5. /\ RegionsType' /\ tracker' \in TrackerType /\ AccountsType' /\ HistoryType'
      /\ script' \in Seq(StepType) /\ held' \in SUBSET PointerType /\ fault' \in FaultType
  BY <1>2, Zenon DEF TypeOK, RegionsType, HistoryType, OperationType, Changes
<1>6. RegionsOK'
  BY <1>1, <1>2, Zenon DEF RegionsOK
<1>7. WatchOK' /\ GrowthBounded' /\ DetectionIsExact'
  BY Zenon DEF WatchOK, DetectionIsExact, Changes
<1>8. SysvarIsPrivate'
  BY <1>1, Zenon DEF SysvarIsPrivate, Changes, Started
<1>9. WritableIsTouched'
  BY <1>1, <1>2, <1>3, Zenon DEF WritableIsTouched, Changes
<1>10. ModifiedIsTouched'
  BY Zenon DEF ModifiedIsTouched, Changes, TypeOK, HistoryType
<1>11. /\ HeldPointersLive'
       /\ \A p \in held : p.type = "Load" => \A b \in Bytes(p) : Forbidden(b) => Recorded(b)'
  BY Zenon DEF HeldOK, HeldPointersLive, Recorded, Changes
<1>12. \A p \in held : p.type = "Store" /\ p.account # NoAccount => touched'[p.account]
  <2>1. \A p \in held : p.account \in Accounts \cup {NoAccount}
    BY DEF TypeOK, OperationType, PointerType
  <2> QED
    BY <2>1, Zenon DEF HeldOK, Changes
<1>13. ASSUME NEW j \in Regions, regions[j].account \notin {a, NoAccount}, Mirrored(j)
       PROVE  Mirrored(j)'
  <2>1. regions[j].account \in Accounts \ {a} /\ regions'[j] = regions[j]
    BY <1>2, <1>3, <1>13
  <2> QED
    BY <1>13, <2>1, Zenon DEF Mirrored, Changes, CanChange
<1> QED
  BY <1>2, <1>4, <1>5, <1>6, <1>7, <1>8, <1>9, <1>10, <1>11, <1>12, <1>13, Zenon

\* A step of a call that changes one account, if any other that was settled
\* stays settled.
LEMMA CallChange ==
    ASSUME IInv, status = "running", cpi.phase # "none", cpi'.phase # "none",
           NEW a \in Accounts, Changes(a),
           UNCHANGED <<cache, tracker, script, fault, delivered>>,
           status' \in {"running", "error"}, cpi' \in CallType, todo' \in SUBSET Accounts,
           CallOK', Fits',
           status' = "running" =>
             /\ Unsettled \subseteq Unsettled'
             /\ a \in Unsettled' \/ UNCHANGED <<regions, data_len, shared, owned>>
    PROVE  IInv'
<1> USE DEF IInv
<1>1. /\ script = << >> /\ Started /\ Watching /\ \A p \in held : p.account = NoAccount
  BY InCallFacts, Zenon
<1>2. Watching' /\ Started' /\ status' \in Statuses
  BY DEF Watching, Started, Statuses, Ended
<1>3. /\ RegionsType' /\ CacheType' /\ tracker' \in TrackerType /\ AccountsType'
      /\ HistoryType' /\ script' \in Seq(StepType) /\ held' \in SUBSET PointerType
      /\ fault' \in FaultType
      /\ RegionsOK' /\ CacheCoherent' /\ WatchOK' /\ SysvarIsPrivate'
      /\ WritableIsTouched' /\ ModifiedIsTouched' /\ DetectionIsExact' /\ GrowthBounded'
      /\ HeldPointersLive'
      /\ \A p \in held : p.type = "Load" => \A b \in Bytes(p) : Forbidden(b) => Recorded(b)'
      /\ \A p \in held : p.type = "Store" /\ p.account # NoAccount => touched'[p.account]
      /\ \A j \in Regions : /\ regions'[j].account = regions[j].account
                            /\ /\ regions[j].account \notin {a, NoAccount}
                               /\ Mirrored(j)
                               => Mirrored(j)'
  BY <1>1, <1>2, ChangesKeep, Zenon
<1>4. TypeOK'
  BY <1>2, <1>3, Zenon DEF TypeOK, OperationType
<1>5. Mirrors'
  <2> SUFFICES ASSUME status' = "running", NEW j \in Regions,
                      regions'[j].account # NoAccount, regions'[j].account \notin Unsettled'
               PROVE  Mirrored(j)'
    BY Zenon DEF Mirrors
  <2>1. regions[j].account # NoAccount /\ regions[j].account \notin Unsettled /\ Mirrored(j)
    BY <1>3, Zenon DEF Mirrors
  <2>2. CASE a \in Unsettled'
    BY <1>3, <2>1, <2>2, Zenon
  <2>3. CASE UNCHANGED <<regions, data_len, shared, owned>>
    BY <2>1, <2>3, Zenon DEF Mirrored, CanChange
  <2> QED
    BY <2>2, <2>3
<1>6. ScriptOK'
  BY <1>1, EmptyScript
<1>7. HeldOK'
  <2>1. held' = held
    BY Zenon DEF Changes
  <2> QED
    BY <1>1, <1>3, <2>1, Zenon DEF HeldOK
<1>8. FaultsAreOutsideData' /\ NoRejectedRegion' /\ PhaseOK'
  BY Zenon DEF FaultsAreOutsideData, NoRejectedRegion, PhaseOK
<1> QED
  BY <1>3, <1>4, <1>5, <1>6, <1>7, <1>8, Zenon

\* from_account_info reads a length that the caller wrote and checks it.
LEMMA TranslateAccountKeeps ==
    ASSUME IInv, NEW a \in Accounts, NEW len_addr \in SyscallAddresses,
           NEW n \in 0 .. MaxDataLen, TranslateAccount(a, len_addr, n)
    PROVE  IInv'
<1> USE DEF IInv
<1>1. /\ status = "running" /\ cpi.phase = "translate" /\ a \in todo
      /\ UNCHANGED <<regions, tracker, accounts, script, history>>
  BY DEF TranslateAccount, InCall
<1>2. /\ script = << >> /\ Started /\ Watching /\ \A p \in held : p.account = NoAccount
      /\ cpi \in CallType /\ todo \in SUBSET Accounts /\ cpi.lens \in [Accounts -> Nat]
  BY <1>1, InCallFacts, Zenon
<1>3. len_addr \in Nat /\ n \in Nat
  <2>1. MaxDataLen \in Nat /\ U64Max \in Nat
    BY LayoutFacts, Zenon
  <2>2. len_addr \in 0 .. U64Max
    BY ConstantsAssumption, Zenon
  <2> QED
    BY <2>1, <2>2
<1>4. CASE /\ status' = "error" /\ cache' \in {cache, CacheAfter(len_addr)}
           /\ UNCHANGED <<held, cpi, todo, fault>>
  BY <1>1, <1>2, <1>3, <1>4, Erring, Zenon DEF progress
<1>5. CASE /\ len_addr < InputStart /\ cache' = CacheAfter(len_addr)
           /\ Violation("Store", len_addr, 1) /\ UNCHANGED <<held, cpi, todo>>
  <2>1. FaultsAreOutsideData'
    <3>1. fault'.addr = len_addr /\ len_addr < InputStart
      BY <1>5 DEF Violation
    <3>2. \A i \in Regions : Layout[i].account # NoAccount =>
             Layout[i].vm_addr >= InputStart /\ Layout[i].vm_addr \in Nat /\ InputStart \in Nat
      BY AccountSpace, LayoutFacts, Zenon
    <3>3. \A i \in Regions : Layout[i].account # NoAccount => ~(fault'.addr >= Layout[i].vm_addr)
      BY <1>3, <3>1, <3>2, BelowIsOutside, Zenon
    <3> QED
      BY <3>3, Zenon DEF FaultsAreOutsideData
  <2>2. fault' \in FaultType /\ status' = "fault"
    BY <1>3, <1>5, Zenon DEF Violation, FaultType, AccessTypes
  <2>3. /\ tracker' \in TrackerType
        /\ tracker'.watched = tracker.watched /\ tracker'.enabled = tracker.enabled
        /\ \A b : Recorded(b) => Recorded(b)'
        /\ \A k \in DOMAIN tracker'.accesses :
              \E b \in Bytes(tracker'.accesses[k]) : Forbidden(b)
    BY <1>1, Zenon DEF TypeOK, DetectionIsExact, Recorded
  <2> QED
    BY <1>1, <1>2, <1>3, <1>5, <2>1, <2>2, <2>3, Failing, Zenon DEF progress
<1>6. ASSUME len_addr < InputStart, n <= Reserved(TheRegion(a)),
             NEW i \in Translated("Store", len_addr, 1),
             held' = held \cup {Pointer(i, "Store", len_addr, 1)},
             cache' = CacheAfter(len_addr), cpi' = [cpi EXCEPT !.lens[a] = n],
             todo' = todo \ {a}, UNCHANGED <<status, fault>>
      PROVE  IInv'
  <2> DEFINE p == Pointer(i, "Store", len_addr, 1)
  <2>1. i \in Regions /\ VmToHost(regions[i], "Store", len_addr, 1) /\ p \in PointerType
    BY <1>2, <1>3, <1>6, TranslatedFacts DEF AccessTypes
  <2>2. regions[i].account = NoAccount
    <3>1. regions[i].vm_addr <= len_addr /\ regions[i].vm_addr = Layout[i].vm_addr
          /\ regions[i].account = Layout[i].account
      BY <1>2, <2>1, Zenon DEF VmToHost, RegionsOK
    <3> QED
      BY <1>3, <1>6, <2>1, <3>1, AccountSpace, LayoutFacts
  <2>3. ~p.dangling /\ p.type = "Store" /\ p.account = NoAccount
    BY <2>2, Zenon DEF Pointer
  <2> HIDE DEF p
  <2>4. \A q \in held' : q = p \/ q \in held
    BY <1>6 DEF p
  <2>5. /\ cpi' \in CallType /\ cpi'.phase = "translate" /\ cpi'.passed = cpi.passed
        /\ cpi'.writable = cpi.writable /\ cpi'.update = cpi.update
        /\ cpi'.lens = [cpi.lens EXCEPT ![a] = n]
    BY <1>1, <1>2, <1>3, <1>6, Zenon DEF CallType
  <2>6. Started' /\ Watching' /\ status' \in Statuses
    BY <1>1, <1>6 DEF Started, Watching, Statuses
  <2>7. CacheType' /\ CacheCoherent'
    <3>1. \A j \in Regions : EntryOf(j)' = EntryOf(j)
      BY <1>1, Zenon DEF EntryOf
    <3> QED
      BY <1>2, <1>3, <1>6, <3>1, CacheKept, Zenon
  <2>8. TypeOK'
    <3>1. held' \in SUBSET PointerType /\ script' \in Seq(StepType)
      BY <1>1, <1>6, <2>1, Zenon DEF TypeOK, OperationType, p
    <3>2. RegionsType' /\ AccountsType' /\ HistoryType' /\ fault' \in FaultType
      BY <1>1, <1>2, <1>6, Zenon DEF TypeOK, RegionsType, AccountsType, HistoryType,
         accounts, history
    <3> QED
      BY <1>1, <1>2, <1>6, <2>5, <2>6, <2>7, <3>1, <3>2, Zenon DEF TypeOK, OperationType
  <2>9. RegionsOK' /\ WritableIsTouched'
    BY <1>1, <1>2, Zenon DEF RegionsOK, WritableIsTouched, accounts
  <2>10. WatchOK'
    BY <1>1, <1>2, <2>6, Zenon DEF WatchOK
  <2>11. CallOK'
    BY <1>1, <1>2, <1>6, <2>5, Zenon DEF CallOK
  <2>12. Mirrors'
    BY <1>1, <1>6, <2>5 DEF Mirrors, Mirrored, Unsettled, CanChange, accounts
  <2>13. Fits'
    <3>1. \A b \in Accounts : data_len[b] <= Reserved(TheRegion(b))
      BY <1>1, Zenon DEF Fits, Loose
    <3>2. \A b \in cpi.passed \ todo' : cpi'.lens[b] <= Reserved(TheRegion(b))
      BY <1>1, <1>2, <1>6, <2>5, Zenon DEF Fits, CallType
    <3> QED
      BY <1>1, <2>5, <3>1, <3>2, Zenon DEF Fits, accounts
  <2>14. /\ SysvarIsPrivate' /\ ModifiedIsTouched' /\ DetectionIsExact' /\ GrowthBounded'
         /\ FaultsAreOutsideData' /\ NoRejectedRegion' /\ PhaseOK'
    BY <1>1, <1>6 DEF SysvarIsPrivate, ModifiedIsTouched, DetectionIsExact, GrowthBounded,
       FaultsAreOutsideData, NoRejectedRegion, PhaseOK, accounts, history
  <2>15. ScriptOK'
    BY <1>1, <1>2, <2>5, EmptyScript, Zenon
  <2>16. HeldOK'
    BY <1>1, <1>2, <1>6, <2>3, <2>4, Zenon DEF HeldOK, HeldPointersLive, Recorded, accounts
  <2> QED
    BY <2>7, <2>8, <2>9, <2>10, <2>11, <2>12, <2>13, <2>14, <2>15, <2>16, Zenon
<1> QED
  BY <1>4, <1>5, <1>6 DEF TranslateAccount

\* All accounts are translated; the callee's accounts are updated next.
LEMMA StartSyncKeeps ==
    ASSUME IInv, StartSync
    PROVE  IInv'
<1>1. /\ status = "running" /\ cpi.phase = "translate" /\ todo = {}
      /\ cpi' = [cpi EXCEPT !.phase = "sync"] /\ todo' = cpi.passed
      /\ UNCHANGED <<status, mapping, tracker, accounts, script, held, fault, history>>
  BY DEF StartSync, NextPhase, InCall
<1>2. /\ script = << >> /\ \A p \in held : p.account = NoAccount
      /\ cpi \in CallType /\ cpi.passed \subseteq Accounts /\ cpi.writable \subseteq cpi.passed
  BY <1>1, InCallFacts
<1>3. /\ cpi' \in CallType /\ cpi'.phase = "sync" /\ cpi'.passed = cpi.passed
      /\ cpi'.writable = cpi.writable /\ cpi'.update = cpi.update /\ cpi'.lens = cpi.lens
  BY <1>1, <1>2 DEF CallType, Phases
<1>4. CallOK'
  BY <1>1, <1>2, <1>3 DEF IInv, CallOK
<1>5. Unsettled \subseteq Unsettled'
  BY <1>1 DEF Unsettled
<1>6. Fits'
  BY <1>1, <1>3 DEF IInv, Fits, Loose, accounts
<1> QED
  BY <1>1, <1>2, <1>3, <1>4, <1>5, <1>6, CallStep, Zenon

\* update_callee_account: the length of the caller becomes the account's.
LEMMA SyncAccountKeeps ==
    ASSUME IInv, NEW a \in Accounts, NEW gives \in BOOLEAN, SyncAccount(a, gives)
    PROVE  IInv'
<1>1. PICK ok \in BOOLEAN : /\ Adopt(a, cpi.lens[a], gives, ok)
                            /\ status' = IF ok THEN status ELSE "error"
  BY DEF SyncAccount
<1>2. /\ status = "running" /\ cpi.phase = "sync" /\ a \in todo
      /\ cpi' = [cpi EXCEPT !.update = IF MustUpdate(a, gives) THEN @ \cup {a} ELSE @]
      /\ todo' = todo \ {a}
      /\ UNCHANGED <<cache, tracker, script, fault, delivered>>
  BY DEF SyncAccount, InCall
<1>3. /\ script = << >> /\ \A p \in held : p.account = NoAccount
      /\ cpi \in CallType /\ todo \in SUBSET Accounts
      /\ cpi.passed \subseteq Accounts /\ cpi.writable \subseteq cpi.passed
      /\ cpi.update \subseteq Accounts /\ cpi.lens \in [Accounts -> Nat]
  BY <1>2, InCallFacts
<1> DEFINE n == cpi.lens[a]
<1>4. /\ Changes(a)
      /\ \/ UNCHANGED <<data_len, resize_delta>>
         \/ /\ data_len' = [data_len EXCEPT ![a] = n]
            /\ resize_delta' = resize_delta + n - data_len[a]
      /\ n = data_len[a] /\ ~gives => UNCHANGED <<regions, data_len, shared, owned>>
  BY <1>1, <1>3, AdoptFacts, Zenon
<1>5. /\ cpi' \in CallType /\ cpi'.phase = "sync" /\ cpi'.passed = cpi.passed
      /\ cpi'.writable = cpi.writable /\ cpi'.lens = cpi.lens
      /\ cpi'.update = IF MustUpdate(a, gives) THEN cpi.update \cup {a} ELSE cpi.update
  BY <1>2, <1>3 DEF CallType
<1>6. CallOK'
  BY <1>2, <1>3, <1>5 DEF IInv, CallOK, MustUpdate
<1>7. Fits'
  <2>1. /\ \A b \in Accounts : data_len[b] <= Reserved(TheRegion(b))
        /\ \A b \in cpi.passed : cpi.lens[b] <= Reserved(TheRegion(b))
        /\ a \in cpi.passed
    BY <1>2 DEF IInv, Fits, Loose, CallOK
  <2>2. data_len \in [Accounts -> Nat]
    BY Zenon DEF IInv, TypeOK, AccountsType
  <2>3. \A b \in Accounts : data_len'[b] <= Reserved(TheRegion(b))
    BY <1>4, <2>1, <2>2, Zenon
  <2> QED
    BY <1>5, <2>1, <2>3, Zenon DEF Fits
<1>8. /\ Unsettled \subseteq Unsettled'
      /\ a \in Unsettled' \/ UNCHANGED <<regions, data_len, shared, owned>>
  BY <1>2, <1>4, <1>5 DEF Unsettled, MustUpdate
<1>9. status' \in {"running", "error"}
  BY <1>1, <1>2
<1> QED
  BY <1>2, <1>3, <1>4, <1>5, <1>6, <1>7, <1>8, <1>9, CallChange, Zenon

\* The sysvar's buffer is private since this program was pushed: pushing the
\* callee moves nothing.
LEMMA CallCalleeKeeps ==
    ASSUME IInv, CallCallee
    PROVE  IInv'
<1>1. /\ status = "running" /\ cpi.phase = "sync" /\ todo = {}
      /\ cpi' = [cpi EXCEPT !.phase = "callee"] /\ todo' = {}
      /\ UNCHANGED <<status, cache, tracker, data_len, owned, touched, resize_delta,
                     script, fault, history>>
  BY DEF CallCallee, NextPhase, InCall
<1>2. /\ script = << >> /\ \A p \in held : p.account = NoAccount
      /\ cpi \in CallType /\ cpi.passed \subseteq Accounts /\ cpi.writable \subseteq cpi.passed
  BY <1>1, InCallFacts
<1>3. Sysvar \in Accounts => ~shared[Sysvar]
  BY <1>1, Zenon DEF IInv, SysvarIsPrivate
<1>4. shared' = shared /\ UNCHANGED <<regions, held>>
  BY <1>3 DEF IInv, TypeOK, AccountsType, CallCallee, UnshareSysvar
<1>5. UNCHANGED <<mapping, accounts>>
  BY <1>1, <1>4 DEF mapping, accounts
<1>6. /\ cpi' \in CallType /\ cpi'.phase = "callee" /\ cpi'.passed = cpi.passed
      /\ cpi'.writable = cpi.writable /\ cpi'.update = cpi.update /\ cpi'.lens = cpi.lens
  BY <1>1, <1>2 DEF CallType, Phases
<1>7. CallOK'
  BY <1>1, <1>2, <1>6 DEF IInv, CallOK
<1>8. Unsettled \subseteq Unsettled'
  BY <1>1, <1>6 DEF Unsettled
<1>9. Fits'
  BY <1>1, <1>6 DEF IInv, Fits, Loose
<1> QED
  BY <1>1, <1>2, <1>4, <1>5, <1>6, <1>7, <1>8, <1>9, CallStep, Zenon

\* The callee resizes an account that it may write.
LEMMA CalleeChangesKeeps ==
    ASSUME IInv, NEW a \in Accounts, NEW n \in 0 .. MaxDataLen, CalleeChanges(a, n)
    PROVE  IInv'
<1>1. /\ status = "running" /\ cpi.phase = "callee" /\ a \in cpi.writable
      /\ WithinLimits(a, n) /\ Resize(a, n) /\ n \in Nat
      /\ UNCHANGED <<status, cache, tracker, owned, script, cpi, todo, fault, delivered>>
  <2>1. n \in Nat
    BY LayoutFacts
  <2> QED
    BY <2>1, Zenon DEF CalleeChanges, InCall
<1>2. /\ \A p \in held : p.account = NoAccount
      /\ cpi \in CallType /\ todo \in SUBSET Accounts
  BY <1>1, InCallFacts, Zenon
<1>3. owned' \in [Accounts -> BOOLEAN] /\ \A b \in Accounts \ {a} : owned'[b] = owned[b]
  BY <1>1, Zenon DEF IInv, TypeOK, AccountsType
<1>4. Changes(a) /\ data_len' = [data_len EXCEPT ![a] = n]
  BY <1>1, <1>2, <1>3, ResizeFacts, Zenon
<1>5. CallOK'
  BY <1>1, Zenon DEF IInv, CallOK
<1>6. Fits'
  BY <1>1, <1>4, Zenon DEF IInv, Fits, Loose, TypeOK, AccountsType
<1>7. Unsettled \subseteq Unsettled' /\ a \in Unsettled'
  BY <1>1, Zenon DEF IInv, Unsettled, CallOK
<1> QED
  BY <1>1, <1>2, <1>4, <1>5, <1>6, <1>7, CallChange, Zenon

\* The callee gives an account to the caller's program, or takes it.
LEMMA CalleeAssignsKeeps ==
    ASSUME IInv, NEW a \in Accounts, CalleeAssigns(a)
    PROVE  IInv'
<1>1. /\ status = "running" /\ cpi.phase = "callee" /\ a \in cpi.writable
      /\ owned' = [owned EXCEPT ![a] = ~@] /\ touched' = [touched EXCEPT ![a] = TRUE]
      /\ UNCHANGED <<status, mapping, tracker, data_len, shared, resize_delta,
                     progress, fault, history>>
  BY Zenon DEF CalleeAssigns, InCall
<1>2. cpi \in CallType /\ todo \in SUBSET Accounts
  BY <1>1, InCallFacts, Zenon
<1>3. AccountsType'
  BY <1>1, Zenon DEF IInv, TypeOK, AccountsType
<1>4. Changes(a)
  <2>1. GrowthBounded'
    BY <1>1, Zenon DEF IInv, GrowthBounded
  <2>2. \A b \in Accounts : touched[b] => touched'[b]
    BY <1>1, Zenon DEF IInv, TypeOK, AccountsType
  <2>3. \A b \in Accounts \ {a} : owned'[b] = owned[b]
    BY <1>1, Zenon DEF IInv, TypeOK, AccountsType
  <2>4. regions' = regions /\ held' = held /\ dirty' = dirty
        /\ data_len' = data_len /\ shared' = shared
    BY <1>1, Zenon DEF mapping, progress, history
  <2> QED
    BY <1>3, <2>1, <2>2, <2>3, <2>4, Zenon DEF Changes
<1>5. CallOK'
  BY <1>1, Zenon DEF IInv, CallOK, progress
<1>6. Fits'
  BY <1>1, Zenon DEF IInv, Fits, Loose, progress
<1>7. Unsettled \subseteq Unsettled' /\ a \in Unsettled'
  BY <1>1, Zenon DEF IInv, Unsettled, CallOK, progress
<1>8. UNCHANGED <<cache, tracker, script, fault, delivered>> /\ UNCHANGED <<cpi, todo>>
  BY <1>1, Zenon DEF mapping, progress, history
<1> QED
  BY <1>1, <1>2, <1>4, <1>5, <1>6, <1>7, <1>8, CallChange, Zenon

\* An error of the callee is the caller's.
LEMMA CalleeFailsKeeps ==
    ASSUME IInv, CalleeFails
    PROVE  IInv'
<1>1. /\ status = "running" /\ cpi.phase = "callee" /\ status' = "error"
      /\ UNCHANGED <<mapping, tracker, accounts, progress, fault, history>>
  BY Zenon DEF CalleeFails, InCall
<1>2. Watching
  BY <1>1, InCallFacts, Zenon
<1>3. regions' = regions /\ cache' = cache /\ 0 \in Nat
  BY <1>1 DEF mapping
<1> QED
  BY <1>1, <1>2, <1>3, Erring, Zenon

\* The callee returns; the caller's view is updated next.
LEMMA CalleeReturnsKeeps ==
    ASSUME IInv, CalleeReturns
    PROVE  IInv'
<1>1. /\ status = "running" /\ cpi.phase = "callee" /\ todo = {}
      /\ cpi' = [cpi EXCEPT !.phase = "check"] /\ todo' = cpi.writable
      /\ UNCHANGED <<status, mapping, tracker, accounts, script, held, fault, history>>
  BY DEF CalleeReturns, NextPhase, InCall
<1>2. /\ script = << >> /\ \A p \in held : p.account = NoAccount
      /\ cpi \in CallType /\ cpi.passed \subseteq Accounts /\ cpi.writable \subseteq cpi.passed
  BY <1>1, InCallFacts
<1>3. /\ cpi' \in CallType /\ cpi'.phase = "check" /\ cpi'.passed = cpi.passed
      /\ cpi'.writable = cpi.writable /\ cpi'.update = cpi.update /\ cpi'.lens = cpi.lens
  BY <1>1, <1>2 DEF CallType, Phases
<1>4. CallOK'
  BY <1>1, <1>2, <1>3 DEF IInv, CallOK
<1>5. Unsettled \subseteq Unsettled'
  BY <1>1, <1>3 DEF Unsettled
<1>6. Fits'
  BY <1>1, <1>3 DEF IInv, Fits, Loose, accounts
<1> QED
  BY <1>1, <1>2, <1>3, <1>4, <1>5, <1>6, CallStep, Zenon

\* update_caller_account refuses a length that does not fit the caller's space.
LEMMA CheckAccountKeeps ==
    ASSUME IInv, NEW a \in Accounts, CheckAccount(a)
    PROVE  IInv'
<1>1. /\ status = "running" /\ cpi.phase = "check" /\ a \in todo
      /\ UNCHANGED <<mapping, tracker, accounts, script, held, fault, history>>
  BY Zenon DEF CheckAccount, InCall
<1>2. /\ script = << >> /\ \A p \in held : p.account = NoAccount
      /\ cpi \in CallType /\ cpi.passed \subseteq Accounts /\ cpi.writable \subseteq cpi.passed
      /\ todo \in SUBSET Accounts /\ cpi.lens \in [Accounts -> Nat]
  BY <1>1, InCallFacts, Zenon
<1>3. CASE status' = "error" /\ UNCHANGED <<cpi, todo>>
  <2>1. UNCHANGED <<regions, progress>> /\ cache' = cache /\ 0 \in Nat /\ Watching
    BY <1>1, <1>3, InCallFacts, Zenon DEF mapping, progress
  <2> QED
    BY <1>1, <1>3, <2>1, Erring
<1>4. CASE /\ ~(data_len[a] > Reserved(TheRegion(a)))
           /\ cpi' = [cpi EXCEPT !.lens[a] = data_len[a]]
           /\ todo' = todo \ {a} /\ UNCHANGED status
  <2>1. data_len[a] \in Nat /\ Reserved(TheRegion(a)) \in Nat
    BY RegionOfAccount, LayoutFacts, Zenon DEF IInv, TypeOK, AccountsType
  <2>2. /\ cpi' \in CallType /\ cpi'.phase = "check" /\ cpi'.passed = cpi.passed
        /\ cpi'.writable = cpi.writable /\ cpi'.update = cpi.update
    BY <1>1, <1>2, <1>4, <2>1, Zenon DEF CallType
  <2>3. CallOK'
    BY <1>1, <1>2, <1>4, <2>2, Zenon DEF IInv, CallOK
  <2>4. Unsettled \subseteq Unsettled'
    BY <1>1, <2>2, Zenon DEF Unsettled
  <2>5. Fits'
    BY <1>1, <1>4, <2>1, <2>2 DEF IInv, Fits, Loose, accounts
  <2> QED
    BY <1>1, <1>2, <1>4, <2>2, <2>3, <2>4, <2>5, CallStep, Zenon
<1> QED
  BY <1>3, <1>4 DEF CheckAccount

\* All lengths fit; the regions are updated next.
LEMMA StartRemapKeeps ==
    ASSUME IInv, StartRemap
    PROVE  IInv'
<1>1. /\ status = "running" /\ cpi.phase = "check" /\ todo = {}
      /\ cpi' = [cpi EXCEPT !.phase = "remap"] /\ todo' = cpi.update
      /\ UNCHANGED <<status, mapping, tracker, accounts, script, held, fault, history>>
  BY DEF StartRemap, NextPhase, InCall
<1>2. /\ script = << >> /\ \A p \in held : p.account = NoAccount
      /\ cpi \in CallType /\ cpi.passed \subseteq Accounts /\ cpi.writable \subseteq cpi.passed
      /\ cpi.update \subseteq Accounts
  BY <1>1, InCallFacts
<1>3. /\ cpi' \in CallType /\ cpi'.phase = "remap" /\ cpi'.passed = cpi.passed
      /\ cpi'.writable = cpi.writable /\ cpi'.update = cpi.update /\ cpi'.lens = cpi.lens
  BY <1>1, <1>2 DEF CallType, Phases
<1>4. CallOK'
  BY <1>1, <1>2, <1>3 DEF IInv, CallOK
<1>5. Unsettled \subseteq Unsettled'
  BY <1>1, <1>3 DEF Unsettled
<1>6. Fits'
  BY <1>1, <1>3 DEF IInv, Fits, Loose, accounts
<1> QED
  BY <1>1, <1>2, <1>3, <1>4, <1>5, <1>6, CallStep, Zenon

\* All regions are updated and the caller goes on.
LEMMA EndCallKeeps ==
    ASSUME IInv, EndCall
    PROVE  IInv'
<1>1. /\ status = "running" /\ cpi.phase = "remap" /\ todo = {}
      /\ cpi' = NoCall /\ held' = {}
      /\ UNCHANGED <<status, mapping, tracker, accounts, script, todo, fault, history>>
  BY DEF EndCall, InCall
<1>2. script = << >> /\ \A p \in held : p.account = NoAccount
  BY <1>1, InCallFacts, Zenon
<1>3. cpi' \in CallType /\ cpi'.phase = "none"
  BY <1>1, Zenon DEF CallType, Phases, NoCall, NoLens
<1>4. CallOK'
  BY <1>1, Zenon DEF CallOK, NoCall
<1>5. Unsettled \subseteq Unsettled'
  BY <1>1, <1>3, Zenon DEF Unsettled
<1>6. Fits'
  BY <1>1, <1>3, Zenon DEF IInv, Fits, Loose, accounts
<1> QED
  BY <1>1, <1>2, <1>3, <1>4, <1>5, <1>6, CallStep, Zenon

\* The region is found at its address and the new one fits.
LEMMA RemapAccountKeeps ==
    ASSUME IInv, NEW a \in Accounts, RemapAccount(a)
    PROVE  IInv'
<1> USE DEF IInv
<1> DEFINE i == TheRegion(a)
           now == AccountRegion(a, Layout[i].vm_addr)
<1>1. /\ status = "running" /\ cpi.phase = "remap" /\ a \in todo
      /\ todo' = todo \ {a}
      /\ touched' = [touched EXCEPT ![a] = @ \/ (CanChange(a) /\ ~shared[a])]
      /\ UNCHANGED <<tracker, data_len, shared, owned, resize_delta, script, held,
                     cpi, fault, history>>
  BY Zenon DEF RemapAccount, InCall
<1>2. /\ script = << >> /\ Started /\ Watching /\ \A p \in held : p.account = NoAccount
      /\ cpi \in CallType /\ todo \in SUBSET Accounts
  BY <1>1, InCallFacts, Zenon
<1>3. /\ i \in Regions /\ Layout[i].account = a /\ a # NoAccount
      /\ \A j \in Regions : Layout[j].account = a => j = i
  BY RegionOfAccount
<1>4. /\ i + 1 \in Regions /\ Layout[i + 1].vm_addr = Layout[i].vm_addr + Reserved(i)
      /\ Layout[i].vm_addr \in Nat /\ Reserved(i) \in Nat
      /\ regions[i].vm_addr = Layout[i].vm_addr /\ regions[i + 1].vm_addr = Layout[i + 1].vm_addr
      /\ regions[i].account = a
  BY <1>2, <1>3, AccountSpace, LayoutFacts, Zenon DEF RegionsOK
<1> HIDE DEF i
<1>5. Layout[i].vm_addr < Layout[i].vm_addr + Reserved(i)
  BY <1>3, <1>4, LayoutSorted, LayoutFacts
<1>6. Found(Layout[i].vm_addr) = {i}
  BY <1>2, <1>3, <1>4, <1>5, SearchedAccount, FoundIsSearched
<1>7. Replace(i, now, Layout[i].vm_addr)
  BY <1>4, <1>6, Zenon DEF RemapAccount, i
<1>8. /\ data_len \in [Accounts -> Nat] /\ shared \in [Accounts -> BOOLEAN]
      /\ owned \in [Accounts -> BOOLEAN] /\ touched \in [Accounts -> BOOLEAN]
      /\ regions \in [Regions -> RegionType]
  BY <1>2 DEF TypeOK, AccountsType, RegionsType
<1>9. data_len[a] <= Reserved(i)
  BY <1>1, Zenon DEF Fits, Loose, i
<1>10. /\ now.vm_addr = Layout[i].vm_addr /\ now.len = data_len[a] /\ now.vm_gap = 0
       /\ now.writable = (CanChange(a) /\ ~shared[a]) /\ now.payload = CanChange(a)
       /\ now.account = a /\ now.fresh /\ now \in RegionType
  BY <1>3, <1>4, <1>8, Zenon DEF AccountRegion, RegionType, CanChange
<1> HIDE DEF now
<1>11. VmEnd(now) <= regions[i + 1].vm_addr
  BY <1>4, <1>8, <1>9, <1>10, LayoutFacts DEF VmEnd, SaturatingAdd
<1>12. regions' = [regions EXCEPT ![i] = now] /\ cache' = EmptyCache /\ status' = "running"
  BY <1>1, <1>4, <1>7, <1>10, <1>11, Zenon DEF Replace
<1>13. Started' /\ Watching' /\ status' \in Statuses
  BY <1>12 DEF Started, Watching, Statuses
<1>14. /\ regions' \in [Regions -> RegionType] /\ regions'[i] = now
       /\ \A j \in Regions : j # i => regions'[j] = regions[j]
  BY <1>3, <1>8, <1>10, <1>12, Zenon
<1>15. RegionsOK'
  <2>1. /\ regions'[i].vm_addr = Layout[i].vm_addr /\ regions'[i].account = Layout[i].account
        /\ regions'[i].vm_gap = Layout[i].vm_gap /\ regions'[i].account # NoAccount
        /\ regions'[i].len <= Reserved(i)
    BY <1>3, <1>9, <1>10, <1>14, AccountSpace, Zenon
  <2> QED
    BY <1>2, <1>14, <2>1, Zenon DEF RegionsOK
<1>16. CacheType' /\ CacheCoherent'
  BY <1>12, FlushedCache
<1>17. /\ touched' \in [Accounts -> BOOLEAN]
       /\ \A b \in Accounts : touched[b] => touched'[b]
       /\ CanChange(a) /\ ~shared[a] => touched'[a]
  BY <1>1, <1>8, Zenon
<1>18. TypeOK'
  BY <1>1, <1>2, <1>13, <1>14, <1>16, <1>17, Zenon
     DEF TypeOK, AccountsType, RegionsType, OperationType, HistoryType, history
<1>19. WatchOK' /\ SysvarIsPrivate' /\ NoRejectedRegion' /\ PhaseOK' /\ FaultsAreOutsideData'
  BY <1>1, <1>2, <1>12, <1>13, Zenon
     DEF WatchOK, SysvarIsPrivate, NoRejectedRegion, PhaseOK, FaultsAreOutsideData
<1>20. CallOK'
  BY <1>1, <1>2, Zenon DEF CallOK
<1>21. Mirrors'
  <2>1. ASSUME NEW j \in Regions, regions'[j].account # NoAccount,
               regions'[j].account \notin Unsettled'
        PROVE  Mirrored(j)'
    <3>1. CASE j = i
      BY <1>1, <1>10, <1>14, <3>1, Zenon DEF Mirrored, CanChange
    <3>2. CASE j # i
      <4>1. regions'[j] = regions[j] /\ regions[j].account # a
        BY <1>2, <1>3, <1>14, <3>2, Zenon DEF RegionsOK
      <4>2. regions[j].account \notin Unsettled
        BY <1>1, <2>1, <4>1, Zenon DEF Unsettled
      <4> QED
        BY <1>1, <2>1, <4>1, <4>2, Zenon DEF Mirrors, Mirrored, CanChange
    <3> QED
      BY <3>1, <3>2
  <2> QED
    BY <2>1, Zenon DEF Mirrors
<1>22. Fits'
  BY <1>1, <1>12, Zenon DEF Fits, Loose
<1>23. ScriptOK'
  BY <1>1, <1>2, EmptyScript
<1>24. HeldOK'
  BY <1>1, <1>2, <1>12, Zenon DEF HeldOK, HeldPointersLive, Recorded
<1>25. WritableIsTouched'
  <2>1. ASSUME NEW j \in Regions, regions'[j].writable, regions'[j].account # NoAccount
        PROVE  touched'[regions'[j].account]
    <3>1. CASE j = i
      BY <1>10, <1>14, <1>17, <2>1, <3>1, Zenon
    <3>2. CASE j # i
      <4>1. regions'[j] = regions[j] /\ regions[j].account \in Accounts
        BY <1>8, <1>14, <2>1, <3>2, Zenon DEF RegionType
      <4> QED
        BY <1>2, <1>17, <2>1, <4>1, Zenon DEF WritableIsTouched
    <3> QED
      BY <3>1, <3>2, Zenon
  <2> QED
    BY <2>1, Zenon DEF WritableIsTouched
<1>26. ModifiedIsTouched' /\ DetectionIsExact' /\ GrowthBounded'
  BY <1>1, <1>17, Zenon DEF ModifiedIsTouched, DetectionIsExact, GrowthBounded, history,
     TypeOK, HistoryType
<1> QED
  BY <1>15, <1>16, <1>18, <1>19, <1>20, <1>21, <1>22, <1>23, <1>24, <1>25, <1>26, Zenon

(* -------------------------------- ending -------------------------------- *)

\* The program ends; what it mapped is read back.
LEMMA ExitKeeps ==
    ASSUME IInv, Exit
    PROVE  IInv'
<1> USE DEF IInv, Exit
<1>1. /\ status = "running" /\ cpi.phase = "none" /\ held = {} /\ script = << >>
      /\ Started /\ Watching
  BY IdleFacts
<1>2. Started' /\ Watching' /\ status' \in Statuses
  BY DEF Started, Watching, Statuses
<1>3. /\ RegionsType' /\ CacheType' /\ tracker' \in TrackerType /\ AccountsType'
      /\ HistoryType'
      /\ RegionsOK' /\ CacheCoherent' /\ WritableIsTouched' /\ ModifiedIsTouched'
      /\ DetectionIsExact' /\ GrowthBounded'
  BY <1>1, <1>2, StillMemory, Zenon
<1>4. TypeOK'
  BY <1>2, <1>3, Zenon DEF TypeOK, OperationType
<1>5. WatchOK'
  BY <1>1, <1>2, Zenon DEF WatchOK
<1>6. CallOK' /\ PhaseOK' /\ NoRejectedRegion' /\ FaultsAreOutsideData' /\ SysvarIsPrivate'
  BY <1>1, Zenon DEF CallOK, PhaseOK, NoRejectedRegion, FaultsAreOutsideData,
     SysvarIsPrivate, accounts
<1>7. Mirrors' /\ Fits' /\ ScriptOK'
  BY Zenon DEF Mirrors, Fits, ScriptOK
<1>8. HeldOK'
  BY <1>1, Zenon DEF HeldOK, HeldPointersLive
<1> QED
  BY <1>3, <1>4, <1>5, <1>6, <1>7, <1>8, Zenon

\* deserialize_parameters_aligned takes over a length that the program wrote.
LEMMA DeserializeAccountKeeps ==
    ASSUME IInv, NEW a \in Accounts, NEW n \in 0 .. MaxDataLen + 1, NEW gives \in BOOLEAN,
           DeserializeAccount(a, n, gives)
    PROVE  IInv'
<1> USE DEF IInv
<1>1. /\ status = "deserializing" /\ a \in todo /\ n \in Nat /\ held = {} /\ Watching
      /\ cpi.phase = "none"
      /\ UNCHANGED <<cache, tracker, script, cpi, fault, delivered>>
  <2>1. /\ status = "deserializing" /\ a \in todo
        /\ UNCHANGED <<cache, tracker, script, cpi, fault, delivered>>
    BY Zenon DEF DeserializeAccount
  <2>2. held = {} /\ cpi.phase = "none"
    BY <2>1, Zenon DEF HeldOK, PhaseOK
  <2>3. MaxDataLen \in Nat
    BY LayoutFacts, Zenon
  <2>4. n \in Nat
    BY <2>3
  <2>5. Watching
    BY <2>1, Zenon DEF Watching, Started
  <2> QED
    BY <2>1, <2>2, <2>4, <2>5, Zenon
<1>2. CASE status' = "error" /\ UNCHANGED <<accounts, regions, held, dirty, todo>>
  <2>1. UNCHANGED <<progress, history>> /\ 0 \in Nat /\ cache' = cache
    BY <1>1, <1>2 DEF progress, history
  <2> QED
    BY <1>1, <1>2, <2>1, Erring, Zenon
<1>3. ASSUME NEW ok \in BOOLEAN, Adopt(a, n, gives, ok),
             status' = IF ok THEN status ELSE "error", todo' = todo \ {a}
      PROVE  IInv'
  <2>1. Changes(a) /\ held' = {}
    BY <1>1, <1>3, AdoptFacts, Zenon DEF Changes
  <2>2. status' \in {"deserializing", "error"} /\ Watching' /\ status' \in Statuses
    BY <1>1, <1>3 DEF Watching, Started, Statuses, Ended
  <2>3. /\ RegionsType' /\ CacheType' /\ tracker' \in TrackerType /\ AccountsType'
        /\ HistoryType' /\ script' \in Seq(StepType) /\ held' \in SUBSET PointerType
        /\ fault' \in FaultType
        /\ RegionsOK' /\ CacheCoherent' /\ WatchOK' /\ SysvarIsPrivate'
        /\ WritableIsTouched' /\ ModifiedIsTouched' /\ DetectionIsExact' /\ GrowthBounded'
    BY <1>1, <2>1, <2>2, ChangesKeep, Zenon
  <2>4. TypeOK'
    BY <1>1, <1>3, <2>2, <2>3, Zenon DEF TypeOK, OperationType
  <2>5. CallOK' /\ PhaseOK' /\ NoRejectedRegion' /\ FaultsAreOutsideData'
    BY <1>1, <2>2, Zenon DEF CallOK, PhaseOK, NoRejectedRegion, FaultsAreOutsideData
  <2>6. Mirrors' /\ Fits' /\ ScriptOK'
    BY <2>2, Zenon DEF Mirrors, Fits, ScriptOK
  <2>7. HeldOK'
    BY <2>1, Zenon DEF HeldOK, HeldPointersLive
  <2> QED
    BY <2>3, <2>4, <2>5, <2>6, <2>7, Zenon
<1> QED
  BY <1>2, <1>3, Zenon DEF DeserializeAccount

\* The execution is over.
LEMMA FinishKeeps ==
    ASSUME IInv, Finish
    PROVE  IInv'
<1> USE DEF IInv, Finish
<1>1. Started /\ Watching /\ Started' /\ Watching' /\ status' \in Statuses
  BY Zenon DEF Started, Watching, Statuses, Ended
<1>2. /\ RegionsType' /\ CacheType' /\ tracker' \in TrackerType /\ AccountsType'
      /\ HistoryType'
      /\ RegionsOK' /\ CacheCoherent' /\ WritableIsTouched' /\ ModifiedIsTouched'
      /\ DetectionIsExact' /\ GrowthBounded'
  BY <1>1, StillMemory, Zenon
<1>3. TypeOK'
  BY <1>1, <1>2 DEF TypeOK, OperationType, progress
<1>4. WatchOK'
  BY <1>1, Zenon DEF WatchOK
<1>5. CallOK' /\ PhaseOK' /\ NoRejectedRegion' /\ FaultsAreOutsideData' /\ SysvarIsPrivate'
  BY Zenon DEF CallOK, PhaseOK, NoRejectedRegion, FaultsAreOutsideData, SysvarIsPrivate,
     accounts, progress
<1>6. Mirrors' /\ Fits' /\ ScriptOK'
  BY Zenon DEF Mirrors, Fits, ScriptOK
<1>7. HeldOK'
  BY Zenon DEF HeldOK, HeldPointersLive, Recorded, progress, accounts
<1> QED
  BY <1>2, <1>3, <1>4, <1>5, <1>6, <1>7, Zenon

\* Nothing changes.
LEMMA StutterKeeps ==
    ASSUME IInv, UNCHANGED vars
    PROVE  IInv'
<1> USE DEF IInv, vars, mapping, accounts, history, progress
<1>1. TypeOK'
  BY Zenon DEF TypeOK, RegionsType, CacheType, AccountsType, OperationType, HistoryType,
     Started
<1>2. RegionsOK' /\ CacheCoherent' /\ WritableIsTouched' /\ ModifiedIsTouched'
  BY Zenon DEF RegionsOK, CacheCoherent, EntryOf, WritableIsTouched, ModifiedIsTouched,
     Started
<1>3. WatchOK' /\ CallOK' /\ PhaseOK' /\ SysvarIsPrivate'
  BY Zenon DEF WatchOK, Watching, Started, CallOK, PhaseOK, SysvarIsPrivate
<1>4. Mirrors'
  BY Zenon DEF Mirrors, Mirrored, Unsettled, CanChange
<1>5. Fits'
  BY Zenon DEF Fits, Loose
<1>6. ScriptOK'
  <2>1. LensArePositive => LensArePositive'
    BY Zenon DEF LensArePositive
  <2>2. MovesAreFree => MovesAreFree'
    BY Zenon DEF MovesAreFree
  <2>3. HoldsEndBeforeMoves => HoldsEndBeforeMoves'
    BY Zenon DEF HoldsEndBeforeMoves
  <2>4. (HoldsAreUsed => HoldsAreUsed') /\ (HeldIsUsed => HeldIsUsed')
    BY Zenon DEF HoldsAreUsed, HeldIsUsed
  <2>5. (CallIsLast => CallIsLast') /\ (MapsAreTouched => MapsAreTouched')
    BY Zenon DEF CallIsLast, MapsAreTouched
  <2> QED
    BY <2>1, <2>2, <2>3, <2>4, <2>5, Zenon DEF ScriptOK
<1>7. HeldOK'
  BY Zenon DEF HeldOK, HeldPointersLive, Recorded
<1>8. DetectionIsExact' /\ GrowthBounded' /\ NoRejectedRegion' /\ FaultsAreOutsideData'
  BY Zenon DEF DetectionIsExact, GrowthBounded, NoRejectedRegion, FaultsAreOutsideData,
     CanChange
<1> QED
  BY <1>1, <1>2, <1>3, <1>4, <1>5, <1>6, <1>7, <1>8, Zenon

(* ------------------------------ the theorems ---------------------------- *)

\* Every step keeps the invariant.
LEMMA NextKeeps ==
    ASSUME IInv, Next
    PROVE  IInv'
<1>1. CASE Starting
  BY <1>1, PushKeeps, SerializeKeeps, WatchKeeps, Zenon DEF Starting
<1>2. CASE Stepping
  BY <1>2, MapLoadKeeps, MapStoreKeeps, TouchMappedKeeps, TouchUnmappedKeeps,
     TouchHandledKeeps, UseKeeps, CheckDisjointKeeps, Zenon DEF Stepping
<1>3. CASE Operating
  BY <1>3, OperatingKeeps, Zenon
<1>4. CASE Calling
  <2>1. ASSUME NEW a \in Accounts, NEW addr \in SyscallAddresses, NEW n \in 0 .. MaxDataLen,
               TranslateAccount(a, addr, n)
        PROVE  IInv'
    BY <2>1, TranslateAccountKeeps
  <2>2. ASSUME NEW a \in Accounts, NEW gives \in BOOLEAN, SyncAccount(a, gives)
        PROVE  IInv'
    BY <2>2, SyncAccountKeeps
  <2>3. ASSUME NEW a \in Accounts, NEW n \in 0 .. MaxDataLen, CalleeChanges(a, n)
        PROVE  IInv'
    BY <2>3, CalleeChangesKeeps
  <2>4. ASSUME NEW a \in Accounts, CalleeAssigns(a) \/ CheckAccount(a) \/ RemapAccount(a)
        PROVE  IInv'
    BY <2>4, CalleeAssignsKeeps, CheckAccountKeeps, RemapAccountKeeps, Zenon
  <2>5. ASSUME NEW addr \in SyscallAddresses, Invoke(addr) PROVE IInv'
    BY <2>5, InvokeKeeps, Zenon
  <2>6. CASE Prepare \/ StartSync \/ CallCallee \/ StartRemap \/ EndCall
               \/ CalleeFails \/ CalleeReturns
    BY <2>6, PrepareKeeps, StartSyncKeeps, CallCalleeKeeps, StartRemapKeeps, EndCallKeeps,
       CalleeFailsKeeps, CalleeReturnsKeeps, Zenon
  <2> QED
    BY <1>4, <2>1, <2>2, <2>3, <2>4, <2>5, <2>6, Zenon DEF Calling
<1>5. CASE Ending
  <2>1. ASSUME NEW a \in Accounts, NEW n \in 0 .. MaxDataLen + 1, NEW gives \in BOOLEAN,
               DeserializeAccount(a, n, gives)
        PROVE  IInv'
    BY <2>1, DeserializeAccountKeeps
  <2> QED
    BY <1>5, <2>1, ExitKeeps, FinishKeeps, Zenon DEF Ending
<1>6. CASE Terminated
  BY <1>6, StutterKeeps DEF Terminated
<1> QED
  BY <1>1, <1>2, <1>3, <1>4, <1>5, <1>6, Zenon DEF Next

\* The inductive invariant.
THEOREM Invariance == Spec => []IInv
<1>1. Init => IInv
  BY InitIInv
<1>2. IInv /\ [Next]_vars => IInv'
  BY NextKeeps, StutterKeeps
<1> QED
  BY <1>1, <1>2, PTL DEF Spec

\* Whenever the program can run its regions show its accounts as they are:
\* what copy on write, the access violation handler and callees did to account
\* buffers has reached the region table (update_caller_account_region,
\* handler, serialize_parameters).
THEOREM MirrorsAccountsHolds == Spec => []MirrorsAccounts
<1>1. IInv => MirrorsAccounts
  <2> SUFFICES ASSUME IInv, ProgramRuns, NEW i \in Regions, regions[i].account # NoAccount
               PROVE  /\ regions[i].fresh
                      /\ regions[i].len = data_len[regions[i].account]
                      /\ regions[i].writable =>
                            CanChange(regions[i].account) /\ ~shared[regions[i].account]
                      /\ regions[i].payload <=> CanChange(regions[i].account)
    BY Zenon DEF MirrorsAccounts
  <2>1. Layout[i].account = regions[i].account /\ status = "running" /\ cpi.phase = "none"
    BY DEF ProgramRuns, IInv, RegionsOK, Started
  <2> QED
    BY <2>1, RunningMirrors, Zenon
<1> QED
  BY <1>1, Invariance, PTL

\* MappingCache never answers otherwise than the search: replace_region's flush
\* comes with every change of a region's range.
THEOREM CacheCoherentHolds == Spec => []CacheCoherent
<1>1. IInv => CacheCoherent
  BY DEF IInv
<1> QED
  BY <1>1, Invariance, PTL

\* check_access records the reads of forbidden bytes and no others.
THEOREM DetectionIsExactHolds == Spec => []DetectionIsExact
<1>1. IInv => DetectionIsExact
  BY Zenon DEF IInv
<1> QED
  BY <1>1, Invariance, PTL

\* No syscall and no call uses a pointer into a buffer that has moved: the
\* touch-then-map order of translate_mut, and the pointers kept over a call.
THEOREM HeldPointersLiveHolds == Spec => []HeldPointersLive
<1>1. IInv => HeldPointersLive
  BY DEF IInv, HeldOK
<1> QED
  BY <1>1, Invariance, PTL

\* Account data that was changed is marked in touched_flags.
THEOREM ModifiedIsTouchedHolds == Spec => []ModifiedIsTouched
<1>1. IInv => ModifiedIsTouched
  BY DEF IInv
<1> QED
  BY <1>1, Invariance, PTL

\* The access violation handler stays within MAX_ACCOUNT_DATA_LEN and
\* MAX_ACCOUNT_DATA_GROWTH_PER_TRANSACTION, and so does everything else.
THEOREM GrowthBoundedHolds == Spec => []GrowthBounded
<1>1. IInv => GrowthBounded
  BY DEF IInv
<1> QED
  BY <1>1, Invariance, PTL

\* replace_region accepts every region that the handler and
\* update_caller_account_region build.
THEOREM NoRejectedRegionHolds == Spec => []NoRejectedRegion
<1>1. IInv => NoRejectedRegion
  BY DEF IInv
<1> QED
  BY <1>1, Invariance, PTL

\* The debug assertions of execute about a fault in an account's address space.
THEOREM FaultsAreOutsideDataHolds == Spec => []FaultsAreOutsideData
<1>1. IInv => FaultsAreOutsideData
  BY Zenon DEF IInv
<1> QED
  BY <1>1, Invariance, PTL

\* A step that resizes nothing, or resizes one account and accounts for it.
LEMMA DeltaStep ==
    ASSUME IInv, Next
    PROVE  \/ UNCHANGED <<data_len, resize_delta>>
           \/ \E a \in Accounts :
                 /\ \A b \in Accounts \ {a} : data_len'[b] = data_len[b]
                 /\ resize_delta' - resize_delta = data_len'[a] - data_len[a]
<1>1. data_len \in [Accounts -> Nat] /\ resize_delta \in Int
  BY DEF IInv, TypeOK, AccountsType
<1>2. ASSUME NEW a \in Accounts, NEW n \in Nat, data_len' = [data_len EXCEPT ![a] = n],
             resize_delta' = resize_delta + n - data_len[a]
      PROVE  /\ \A b \in Accounts \ {a} : data_len'[b] = data_len[b]
             /\ resize_delta' - resize_delta = data_len'[a] - data_len[a]
  BY <1>1, <1>2
<1>3. CASE Starting \/ Operating \/ Terminated
  <2>1. CASE Starting
    BY <2>1, Zenon DEF Starting, Push, Serialize, Watch, accounts
  <2>2. CASE Operating
    <3>1. ASSUME NEW steps, Begin(steps) PROVE UNCHANGED <<data_len, resize_delta>>
      BY <3>1, Zenon DEF Begin, accounts
    <3>2. ASSUME NEW p, NEW q, NEW n, Memcpy(p, q, n) PROVE UNCHANGED <<data_len, resize_delta>>
      BY <3>1, <3>2, Zenon DEF Memcpy, accounts
    <3> QED
      BY <2>2, <3>1, <3>2, Zenon DEF Operating, LoadOp, StoreOp, Memmove, Memset,
         GetReturnData, Memcmp
  <2>3. CASE Terminated
    BY <2>3, Zenon DEF Terminated, vars, accounts
  <2> QED
    BY <1>3, <2>1, <2>2, <2>3
<1>4. CASE Stepping
  <2>1. CASE TouchHandled
    <3>1. PICK i \in Regions, a \in Accounts :
             /\ a = Layout[i].account /\ status = "running" /\ cpi.phase = "none"
             /\ Step.addr \in Nat /\ Step.len \in Nat /\ regions[i].payload
             /\ data_len' = [data_len EXCEPT ![a] = GrownLen(i)]
             /\ resize_delta' = resize_delta + Growth(i)
      BY <2>1, TouchHandledFacts, Zenon
    <3>2. GrownLen(i) \in Nat /\ Growth(i) = GrownLen(i) - data_len[a]
      BY <3>1, GrownLenFacts, Zenon
    <3>3. resize_delta' = resize_delta + GrownLen(i) - data_len[a]
      BY <1>1, <3>1, <3>2, Zenon
    <3> QED
      BY <1>2, <3>1, <3>2, <3>3, Zenon
  <2>2. CASE MapLoad \/ MapStore \/ TouchMapped \/ TouchUnmapped \/ Use \/ CheckDisjoint
    BY <2>2, Zenon DEF MapLoad, MapStore, TouchMapped, TouchUnmapped, Use, CheckDisjoint,
       accounts
  <2> QED
    BY <1>4, <2>1, <2>2 DEF Stepping
<1>5. CASE Calling
  <2>1. ASSUME NEW a \in Accounts, NEW gives \in BOOLEAN, SyncAccount(a, gives)
        PROVE  \/ UNCHANGED <<data_len, resize_delta>>
               \/ /\ \A b \in Accounts \ {a} : data_len'[b] = data_len[b]
                  /\ resize_delta' - resize_delta = data_len'[a] - data_len[a]
    <3>1. status = "running" /\ cpi.phase = "sync"
      BY <2>1, Zenon DEF SyncAccount, InCall
    <3>2. (\A p \in held : p.account = NoAccount) /\ cpi.lens[a] \in Nat
      BY <3>1, InCallFacts
    <3>3. PICK ok \in BOOLEAN : Adopt(a, cpi.lens[a], gives, ok)
      BY <2>1, Zenon DEF SyncAccount
    <3>4. \/ UNCHANGED <<data_len, resize_delta>>
          \/ /\ data_len' = [data_len EXCEPT ![a] = cpi.lens[a]]
             /\ resize_delta' = resize_delta + cpi.lens[a] - data_len[a]
      BY <3>2, <3>3, AdoptFacts, Zenon
    <3> QED
      BY <1>2, <3>2, <3>4, Zenon
  <2>2. ASSUME NEW a \in Accounts, NEW n \in 0 .. MaxDataLen, CalleeChanges(a, n)
        PROVE  /\ \A b \in Accounts \ {a} : data_len'[b] = data_len[b]
               /\ resize_delta' - resize_delta = data_len'[a] - data_len[a]
    <3>1. status = "running" /\ cpi.phase = "callee" /\ WithinLimits(a, n) /\ Resize(a, n)
      BY <2>2, Zenon DEF CalleeChanges, InCall
    <3>2. (\A p \in held : p.account = NoAccount) /\ n \in Nat
      BY <3>1, InCallFacts, SizesAreNat, Zenon
    <3>3. /\ data_len' = [data_len EXCEPT ![a] = n]
          /\ resize_delta' = resize_delta + n - data_len[a]
      BY <3>1, <3>2, ResizeFacts, Zenon
    <3> QED
      BY <1>2, <3>2, <3>3, Zenon
  <2>3. ASSUME NEW a \in Accounts, NEW addr \in SyscallAddresses, NEW n \in 0 .. MaxDataLen,
               TranslateAccount(a, addr, n)
        PROVE  UNCHANGED <<data_len, resize_delta>>
    BY <2>3 DEF TranslateAccount, accounts
  <2>4. ASSUME NEW a \in Accounts, CalleeAssigns(a) \/ CheckAccount(a) \/ RemapAccount(a)
        PROVE  UNCHANGED <<data_len, resize_delta>>
    BY <2>4 DEF CalleeAssigns, CheckAccount, RemapAccount, accounts
  <2>5. ASSUME NEW addr \in SyscallAddresses, Invoke(addr)
        PROVE  UNCHANGED <<data_len, resize_delta>>
    BY <2>5 DEF Invoke, Begin, accounts
  <2>6. CASE Prepare \/ StartSync \/ CallCallee \/ StartRemap \/ EndCall
               \/ CalleeFails \/ CalleeReturns
    BY <2>6, Zenon DEF Prepare, StartSync, CallCallee, StartRemap, EndCall, CalleeFails,
       CalleeReturns, accounts
  <2> QED
    BY <1>5, <2>1, <2>2, <2>3, <2>4, <2>5, <2>6, Zenon DEF Calling
<1>6. CASE Ending
  <2>1. ASSUME NEW a \in Accounts, NEW n \in 0 .. MaxDataLen + 1, NEW gives \in BOOLEAN,
               DeserializeAccount(a, n, gives)
        PROVE  \/ UNCHANGED <<data_len, resize_delta>>
               \/ /\ \A b \in Accounts \ {a} : data_len'[b] = data_len[b]
                  /\ resize_delta' - resize_delta = data_len'[a] - data_len[a]
    <3>1. held = {} /\ n \in Nat
      <4>1. held = {}
        BY <2>1, Zenon DEF DeserializeAccount, IInv, HeldOK
      <4>2. MaxDataLen \in Nat
        BY LayoutFacts, Zenon
      <4> QED
        BY <4>1, <4>2
    <3>2. CASE UNCHANGED accounts
      BY <3>2, Zenon DEF accounts
    <3>3. ASSUME NEW ok \in BOOLEAN, Adopt(a, n, gives, ok)
          PROVE  \/ UNCHANGED <<data_len, resize_delta>>
                 \/ /\ \A b \in Accounts \ {a} : data_len'[b] = data_len[b]
                    /\ resize_delta' - resize_delta = data_len'[a] - data_len[a]
      BY <1>2, <3>1, <3>3, AdoptFacts
    <3> QED
      BY <2>1, <3>2, <3>3 DEF DeserializeAccount
  <2> QED
    BY <1>6, <2>1 DEF Ending, Exit, Finish, accounts
<1> QED
  BY <1>3, <1>4, <1>5, <1>6, Zenon DEF Next

\* resize_delta accounts for every byte by which an account grows or shrinks,
\* in the handler, in set_data_length and in a step that fails after it.
THEOREM DeltaFollowsLengthsHolds == Spec => DeltaFollowsLengths
<1>1. IInv /\ [Next]_vars =>
        [\E a \in Accounts :
            /\ \A b \in Accounts \ {a} : data_len'[b] = data_len[b]
            /\ resize_delta' - resize_delta = data_len'[a] - data_len[a]]_<<data_len, resize_delta>>
  BY DeltaStep DEF vars, accounts
<1> QED
  BY <1>1, Invariance, PTL DEF Spec, DeltaFollowsLengths
=============================================================================
