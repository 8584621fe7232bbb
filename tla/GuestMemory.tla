---------------------------- MODULE GuestMemory ----------------------------
(***************************************************************************)
(* The memory of one running program.                                      *)
(*                                                                         *)
(* An invocation (execute, agave/program-runtime/src/vm.rs) maps the data  *)
(* of its accounts straight into guest memory, watches the forbidden bytes *)
(* of the instructions sysvar, and runs the program.  The program loads,   *)
(* stores, makes memory syscalls (agave/syscalls/src/mem_ops.rs) and calls *)
(* other programs (cpi_common, agave/program-runtime/src/cpi.rs).  Behind  *)
(* its back account buffers are copied on write, grown by the access       *)
(* violation handler (agave/transaction-context/src/transaction.rs) and    *)
(* changed by callees, and the region table must follow every time.        *)
(*                                                                         *)
(* Configuration: stricter ABI and account data direct mapping, which      *)
(* SVMFeatureSet::all_enabled gives the CLI, hence UnalignedMemoryMapping. *)
(* An operation of the program is a short script of primitive steps, each  *)
(* of which is one translation or one use of the translated pointers.      *)
(***************************************************************************)
EXTENDS MappingCache, AccessTracker, FiniteSets

CONSTANTS
    Accounts,           \* the accounts of the instruction
    Sysvar,             \* the instructions sysvar, one of them or not
    Writable,           \* the accounts the instruction may write
    Layout,             \* the regions: vm_addr, len, vm_gap, writable, account
    MaxIncrease,        \* MAX_PERMITTED_DATA_INCREASE
    MaxDataLen,         \* MAX_ACCOUNT_DATA_LEN
    MaxGrowth,          \* MAX_ACCOUNT_DATA_GROWTH_PER_TRANSACTION
    InputStart,         \* MM_INPUT_START
    ForbiddenOffsets,   \* forbidden_sysvar_data_ranges
    Calls,              \* the calls: the accounts passed, those writable
    Addresses,          \* the addresses the program uses
    SyscallAddresses,   \* those it gives to syscalls
    AccessLens,         \* the lengths it uses
    InitialDeltas,      \* what earlier instructions made of resize_delta
    MaxAccesses         \* bounds the tracker's list in the model

Regions == DOMAIN Layout
RegionOf(a) == {i \in Regions : Layout[i].account = a}

\* address_space_reserved_for_account
Reserved(i) == Layout[i].len + MaxIncrease

\* What the serializer guarantees: regions in order, each account once, with
\* room to grow up to the next region.
ASSUME LayoutAssumption ==
    /\ Layout \in Seq([vm_addr : 0 .. U64Max, len : Nat, vm_gap : Nat, writable : BOOLEAN,
                       account : Accounts \cup {NoAccount}])
    /\ \A i \in Regions : VmEnd(Layout[i]) < U64Max
    /\ \A i, j \in Regions : i < j =>
          /\ VmEnd(Layout[i]) <= Layout[j].vm_addr
          /\ Layout[i].vm_addr < Layout[j].vm_addr
    /\ \A i \in Regions : Layout[i].account # NoAccount =>
          /\ Layout[i].vm_gap = 0
          /\ Layout[i].vm_addr >= InputStart
          /\ Layout[i].len <= MaxDataLen
          /\ i < Len(Layout)
          /\ Layout[i + 1].vm_addr = Layout[i].vm_addr + Reserved(i)
          /\ \A j \in Regions : Layout[j].account = Layout[i].account => i = j

ASSUME ConstantsAssumption ==
    /\ Writable \subseteq Accounts
    /\ NoAccount \notin Accounts \cup {Sysvar}
    /\ \A a \in Accounts : RegionOf(a) # {}
    /\ MaxIncrease \in Nat /\ MaxDataLen \in Nat /\ MaxGrowth \in Nat
    /\ InputStart \in Nat /\ MaxAccesses \in Nat
    /\ \A n \in AccessLens : n \in Nat \ {0}
    /\ \A addr \in Addresses \cup SyscallAddresses : addr \in 0 .. U64Max
    /\ \A call \in Calls : /\ call.writable \subseteq call.passed
                          /\ call.passed \subseteq Accounts
    /\ \A d \in InitialDeltas : d \in Int /\ d <= MaxGrowth
    /\ ForbiddenOffsets \subseteq [start : Nat, end : Nat]
    /\ \A i \in RegionOf(Sysvar), f \in ForbiddenOffsets : Layout[i].vm_addr + f.end <= U64Max

VARIABLES
    status,         \* where the invocation is
    regions,        \* UnalignedMemoryMapping.common.regions
    cache,          \* UnalignedMemoryMapping.cache
    tracker,        \* CommonMemoryMapping.access_tracker
    data_len,       \* the length of each account's data
    shared,         \* whether its buffer is shared, and copied when written
    owned,          \* whether the program of this invocation owns it
    touched,        \* TransactionAccounts.touched_flags
    resize_delta,   \* TransactionAccounts.resize_delta
    script,         \* the primitive steps the current operation has left
    held,           \* the host pointers it has translated and not dropped
    cpi,            \* the call in progress
    todo,           \* the accounts the current loop over accounts has left
    fault,          \* the access that ended the program, if one did
    delivered,      \* history: the forbidden bytes the program has obtained
    dirty           \* history: the accounts whose data was changed

mapping == <<regions, cache>>
accounts == <<data_len, shared, owned, touched, resize_delta>>
history == <<delivered, dirty>>
progress == <<script, held, cpi, todo>>
vars == <<status, mapping, tracker, accounts, progress, fault, history>>

NoLens == [a \in Accounts |-> 0]
NoCall == [phase |-> "none", passed |-> {}, writable |-> {}, lens |-> NoLens,
           update |-> {}]
NoFault == [type |-> "none", addr |-> 0, len |-> 0]

\* can_data_be_changed, for the program of this invocation.
CanChange(a) == a \in Writable /\ owned[a]

\* The account at the other end of a region's host pointer gets a new buffer.
Moved(regs, a) ==
    [i \in DOMAIN regs |-> IF regs[i].account = a
                           THEN [regs[i] EXCEPT !.fresh = FALSE]
                           ELSE regs[i]]

\* Host pointers into that buffer now dangle.
Dangle(pointers, a) ==
    {[p EXCEPT !.dangling = @ \/ p.account = a] : p \in pointers}

\* Whether writing or growing an account's data gives it a new buffer: a shared
\* one is copied, a private one may be reallocated when it grows.
MayMove(a, grows) == IF shared[a] THEN {TRUE} ELSE IF grows THEN BOOLEAN ELSE {FALSE}

\* create_memory_region_of_account
AccountRegion(a, vm_addr) ==
    [vm_addr |-> vm_addr, len |-> data_len[a], vm_gap |-> 0,
     writable |-> CanChange(a) /\ ~shared[a], payload |-> CanChange(a),
     account |-> a, fresh |-> TRUE]

VmRegion(i) ==
    [vm_addr |-> Layout[i].vm_addr, len |-> Layout[i].len,
     vm_gap |-> Layout[i].vm_gap, writable |-> Layout[i].writable,
     payload |-> FALSE,
     account |-> NoAccount, fresh |-> TRUE]

-----------------------------------------------------------------------------
(***************************************************************************)
(* Starting the program: TransactionContext::push, serialize_parameters,   *)
(* create_vm and add_watched_memory_ranges.                                *)
(***************************************************************************)
Init ==
    /\ status = "pushing"
    /\ regions = << >>
    /\ cache = EmptyCache
    /\ tracker = NewTracker
    /\ data_len = [a \in Accounts |-> Layout[CHOOSE i \in RegionOf(a) : TRUE].len]
    /\ shared \in [Accounts -> BOOLEAN]
    /\ owned \in {o \in [Accounts -> BOOLEAN] : Sysvar \in Accounts => ~o[Sysvar]}
    /\ touched = [a \in Accounts |-> FALSE]
    /\ resize_delta \in InitialDeltas
    /\ script = << >>
    /\ held = {}
    /\ cpi = NoCall
    /\ todo = {}
    /\ fault = NoFault
    /\ delivered = {}
    /\ dirty = {}

\* push stores the current index into the sysvar, which unshares its buffer.
UnshareSysvar ==
    shared' = [a \in Accounts |-> shared[a] /\ a # Sysvar]

Push ==
    /\ status = "pushing"
    /\ UnshareSysvar
    /\ status' = "serializing"
    /\ UNCHANGED <<mapping, tracker, data_len, owned, touched, resize_delta,
                   progress, fault, history>>

\* Mutant: mapping an account writable does not touch it.
MutantSerialize ==
    /\ status = "serializing"
    /\ regions' = [i \in Regions |->
                      IF Layout[i].account = NoAccount
                      THEN VmRegion(i)
                      ELSE AccountRegion(Layout[i].account, Layout[i].vm_addr)]
    /\ status' = "watching"
    /\ UNCHANGED <<cache, tracker, accounts, progress, fault, history>>

\* Account data that may be changed and is not shared is mapped writable, and
\* get_data_mut touches it; other account data is mapped read-only.
Serialize ==
    /\ status = "serializing"
    /\ regions' = [i \in Regions |->
                      IF Layout[i].account = NoAccount
                      THEN VmRegion(i)
                      ELSE AccountRegion(Layout[i].account, Layout[i].vm_addr)]
    /\ touched' = [a \in Accounts |-> touched[a] \/ (CanChange(a) /\ ~shared[a])]
    /\ status' = "watching"
    /\ UNCHANGED <<cache, tracker, data_len, shared, owned, resize_delta,
                   progress, fault, history>>

\* The forbidden offsets are relative to the data of the sysvar account.
WatchedRanges ==
    {[start |-> Layout[i].vm_addr + f.start, end |-> Layout[i].vm_addr + f.end] :
        i \in RegionOf(Sysvar), f \in ForbiddenOffsets}

Watch ==
    /\ status = "watching"
    /\ tracker' = AddWatchedRanges(tracker, WatchedRanges)
    /\ status' = "running"
    /\ UNCHANGED <<mapping, accounts, progress, fault, history>>

-----------------------------------------------------------------------------
(***************************************************************************)
(* find_region: the cache first, then the search, whose Eytzinger order is *)
(* the subject of module RegionSearch; both as sets of at most one index.  *)
(***************************************************************************)
Searched(vm_addr) ==
    {i \in Regions : /\ Layout[i].vm_addr <= vm_addr
                     /\ \A j \in Regions : j > i => vm_addr < Layout[j].vm_addr}

Found(vm_addr) ==
    IF CacheFind(cache, vm_addr) # {} THEN CacheFind(cache, vm_addr)
                                      ELSE Searched(vm_addr)

EntryOf(i) == [start |-> regions[i].vm_addr, end |-> VmEnd(regions[i]), index |-> i]

\* The cache after find_region(vm_addr).
CacheAfter(vm_addr) ==
    IF CacheFind(cache, vm_addr) # {} \/ Searched(vm_addr) = {}
    THEN cache
    ELSE CacheInsert(cache, EntryOf(CHOOSE i \in Searched(vm_addr) : TRUE))

\* The region an access translates in, if it does.
Translated(access_type, vm_addr, len) ==
    {i \in Found(vm_addr) : VmToHost(regions[i], access_type, vm_addr, len)}

Pointer(i, access_type, vm_addr, len) ==
    [type |-> access_type, addr |-> vm_addr, len |-> len,
     region |-> i, account |-> regions[i].account, dangling |-> FALSE]

\* generate_access_violation: the program ends.
Violation(access_type, vm_addr, len) ==
    /\ status' = "fault"
    /\ fault' = [type |-> access_type, addr |-> vm_addr, len |-> len]

-----------------------------------------------------------------------------
(***************************************************************************)
(* The primitive steps.                                                    *)
(***************************************************************************)
Step == Head(script)

Executing(op) ==
    /\ status = "running"
    /\ cpi.phase = "none"
    /\ script # << >>
    /\ Step.op = op

\* map(Load), and load, which tracks and maps just the same since the handler
\* ignores loads.  The read is tracked before it is known to succeed.
MapLoad ==
    /\ Executing("load")
    /\ tracker' = CheckAccess(tracker, Step.addr, Step.len)
    /\ cache' = CacheAfter(Step.addr)
    /\ \/ \E i \in Translated("Load", Step.addr, Step.len) :
             /\ held' = held \cup {Pointer(i, "Load", Step.addr, Step.len)}
             /\ script' = Tail(script)
             /\ UNCHANGED <<status, fault>>
       \/ /\ Translated("Load", Step.addr, Step.len) = {}
          /\ Violation("Load", Step.addr, Step.len)
          /\ UNCHANGED <<script, held>>
    /\ UNCHANGED <<regions, accounts, cpi, todo, history>>

\* map(Store): no tracking and no handler.
MapStore ==
    /\ Executing("map")
    /\ cache' = CacheAfter(Step.addr)
    /\ IF Translated("Store", Step.addr, Step.len) # {}
       THEN /\ \E i \in Translated("Store", Step.addr, Step.len) :
                  held' = held \cup {Pointer(i, "Store", Step.addr, Step.len)}
            /\ script' = Tail(script)
            /\ UNCHANGED <<status, fault>>
       ELSE /\ Violation("Store", Step.addr, Step.len)
            /\ UNCHANGED <<script, held>>
    /\ UNCHANGED <<regions, tracker, accounts, cpi, todo, history>>

\* map_with_access_violation_handler(Store), for touch_type_mut and
\* touch_slice_mut, which drop the pointer, and for store, which uses it.
Touching == Executing("touch") \/ Executing("store")

Kept(i) ==
    IF Step.op = "store" THEN {Pointer(i, "Store", Step.addr, Step.len)} ELSE {}

\* The region allows the store as it is.
TouchMapped ==
    /\ Touching
    /\ cache' = CacheAfter(Step.addr)
    /\ \E i \in Translated("Store", Step.addr, Step.len) : held' = held \cup Kept(i)
    /\ script' = Tail(script)
    /\ UNCHANGED <<status, regions, tracker, accounts, cpi, todo, fault, history>>

\* region_max_len: the address space up to the next region.
MaxLen(i) ==
    (IF i + 1 \in Regions THEN Layout[i + 1].vm_addr ELSE U64Max) - Layout[i].vm_addr

Requested(i) ==
    SaturatingSub(SaturatingAdd(Step.addr, Step.len), regions[i].vm_addr)

\* access_violation_handler acts: a store to account data within its space.
Handles(i) == regions[i].payload /\ Requested(i) <= MaxLen(i)

\* ... or there is nothing it can do, and the violation stands.
TouchUnmapped ==
    /\ Touching
    /\ \A i \in Found(Step.addr) :
          ~VmToHost(regions[i], "Store", Step.addr, Step.len) /\ ~Handles(i)
    /\ cache' = CacheAfter(Step.addr)
    /\ Violation("Store", Step.addr, Step.len)
    /\ UNCHANGED <<regions, tracker, accounts, progress, history>>

Smallest(a, b, c) == IF a <= b /\ a <= c THEN a ELSE IF b <= c THEN b ELSE c

\* Mutant: the growth already used up in the transaction is forgotten.
MutantGrownLenDelta(i) ==
    LET a == regions[i].account
    IN  IF Requested(i) > regions[i].len
        THEN Smallest(MaxLen(i), MaxDataLen, data_len[a] + MaxGrowth)
        ELSE regions[i].len

\* The length the handler gives the account: all of the reserved space, as far
\* as the limits on one account and on the transaction's growth allow.
GrownLen(i) ==
    LET a == regions[i].account
        remaining == SaturatingSub(MaxGrowth, resize_delta)
    IN  IF Requested(i) > regions[i].len
        THEN Smallest(MaxLen(i), MaxDataLen, data_len[a] + remaining)
        ELSE regions[i].len

HandledRegion(i) ==
    [regions[i] EXCEPT !.len = GrownLen(i), !.writable = TRUE, !.fresh = TRUE]

\* Mutant: the cache is not flushed.
MutantReplace(i, region, vm_addr) ==
    IF /\ region.vm_addr = regions[i].vm_addr
       /\ i + 1 \in Regions => VmEnd(region) <= regions[i + 1].vm_addr
    THEN /\ regions' = [regions EXCEPT ![i] = region]
         /\ cache' = CacheAfter(vm_addr)
         /\ UNCHANGED status
    ELSE /\ status' = "invalid_region"
         /\ cache' = CacheAfter(vm_addr)
         /\ UNCHANGED regions

\* MemoryMapping::replace_region, for the region found at vm_addr: the new one
\* must stay in its place, and the cache is flushed.
Replace(i, region, vm_addr) ==
    IF /\ region.vm_addr = regions[i].vm_addr
       /\ i + 1 \in Regions => VmEnd(region) <= regions[i + 1].vm_addr
    THEN /\ regions' = [regions EXCEPT ![i] = region]
         /\ cache' = EmptyCache
         /\ UNCHANGED status
    ELSE /\ status' = "invalid_region"
         /\ cache' = CacheAfter(vm_addr)
         /\ UNCHANGED regions

\* Mutant: the space asked for is accounted for, not the space given.
MutantGrowth(i) ==
    IF Requested(i) > regions[i].len THEN Requested(i) - data_len[regions[i].account]
                                     ELSE 0

\* update_accounts_resize_delta in the handler
Growth(i) ==
    IF Requested(i) > regions[i].len THEN GrownLen(i) - data_len[regions[i].account]
                                     ELSE 0

\* The handler touches the account, grows it if the store is past its end, and
\* makes its buffer private; then the access is tried again with the new
\* region, which replaces the old one only if it now allows the store.
TouchHandled ==
    /\ Touching
    /\ \E i \in Found(Step.addr), moves \in BOOLEAN :
          LET a == regions[i].account
              grows == Requested(i) > regions[i].len
              now == HandledRegion(i)
          IN  /\ ~VmToHost(regions[i], "Store", Step.addr, Step.len)
              /\ Handles(i)
              /\ moves \in MayMove(a, grows)
              /\ touched' = [touched EXCEPT ![a] = TRUE]
              /\ shared' = [shared EXCEPT ![a] = FALSE]
              /\ data_len' = [data_len EXCEPT ![a] = IF grows THEN now.len ELSE @]
              /\ resize_delta' = resize_delta + Growth(i)
              /\ held' = (IF moves THEN Dangle(held, a) ELSE held)
                            \cup {p \in Kept(i) : VmToHost(now, "Store", p.addr, p.len)}
              /\ dirty' = IF grows THEN dirty \cup {a} ELSE dirty
              /\ IF VmToHost(now, "Store", Step.addr, Step.len)
                 THEN /\ Replace(i, now, Step.addr)
                      /\ script' = Tail(script)
                      /\ UNCHANGED fault
                 ELSE /\ regions' = IF moves THEN Moved(regions, a) ELSE regions
                      /\ cache' = CacheAfter(Step.addr)
                      /\ Violation("Store", Step.addr, Step.len)
                      /\ UNCHANGED script
    /\ UNCHANGED <<tracker, owned, cpi, todo, delivered>>

\* The bytes of guest memory a pointer covers.
Bytes(p) == p.addr .. p.addr + p.len - 1

\* A byte of the sysvar's data that a forbidden range names.
Forbidden(b) ==
    \E i \in RegionOf(Sysvar), f \in ForbiddenOffsets :
        b >= Layout[i].vm_addr + f.start /\ b < Layout[i].vm_addr + f.end

\* The syscall, or the instruction, reads and writes through what it holds.
Use ==
    /\ Executing("use")
    /\ delivered' = delivered \cup
          {b \in UNION {Bytes(p) : p \in {q \in held : q.type = "Load"}} : Forbidden(b)}
    /\ dirty' = dirty \cup
          ({p.account : p \in {q \in held : q.type = "Store"}} \ {NoAccount})
    /\ held' = {}
    /\ script' = Tail(script)
    /\ UNCHANGED <<status, mapping, tracker, accounts, cpi, todo, fault>>

\* translate_mut rejects results that overlap on the host.
Overlapping(p, q) ==
    /\ p # q
    /\ p.region = q.region
    /\ LET s == HostOffset(regions[p.region], p.addr)
           t == HostOffset(regions[q.region], q.addr)
       IN  s < t + q.len /\ t < s + p.len

CheckDisjoint ==
    /\ Executing("disjoint")
    /\ IF \E p, q \in held : Overlapping(p, q)
       THEN status' = "error" /\ UNCHANGED script
       ELSE script' = Tail(script) /\ UNCHANGED status
    /\ UNCHANGED <<mapping, tracker, accounts, held, cpi, todo, fault, history>>

-----------------------------------------------------------------------------
(***************************************************************************)
(* The operations of the program.                                          *)
(***************************************************************************)
Idle == status = "running" /\ script = << >> /\ cpi.phase = "none"

Op(op, addr, len) == [op |-> op, addr |-> addr, len |-> len]
Bare(op) == Op(op, 0, 0)

Begin(steps) ==
    /\ Len(tracker.accesses) < MaxAccesses
    /\ script' = steps
    /\ UNCHANGED <<status, mapping, tracker, accounts, held, cpi, todo, fault, history>>

\* MemoryMapping::load
LoadOp(addr, len) == Idle /\ Begin(<<Op("load", addr, len), Bare("use")>>)

\* MemoryMapping::store
StoreOp(addr, len) == Idle /\ Begin(<<Op("store", addr, len), Bare("use")>>)

\* fn memmove: the destination is touched and mapped before the source.
MoveScript(dst, src, n) ==
    <<Op("touch", dst, n), Op("map", dst, n), Op("load", src, n), Bare("use")>>

Memmove(dst, src, n) == Idle /\ Begin(MoveScript(dst, src, n))

\* is_nonoverlapping
Apart(src, src_len, dst, dst_len) ==
    IF src > dst THEN SaturatingSub(src, dst) >= dst_len
                 ELSE SaturatingSub(dst, src) >= src_len

Memcpy(dst, src, n) ==
    \/ Idle /\ Apart(src, n, dst, n) /\ Begin(MoveScript(dst, src, n))
    \/ /\ Idle
       /\ ~Apart(src, n, dst, n)
       /\ status' = "error"
       /\ UNCHANGED <<mapping, tracker, accounts, progress, fault, history>>

\* The comparison is over before its result is translated.
Memcmp(s1, s2, n, result) ==
    /\ Idle
    /\ Begin(<<Op("load", s1, n), Op("load", s2, n), Bare("use"),
               Op("touch", result, 1), Op("map", result, 1), Bare("use")>>)

\* Mutant: the destination is mapped without giving the handler a chance.
MutantMemset(dst, n) == Idle /\ Begin(<<Op("map", dst, n), Bare("use")>>)

Memset(dst, n) ==
    Idle /\ Begin(<<Op("touch", dst, n), Op("map", dst, n), Bare("use")>>)

\* Mutant: one result is translated after the other.
MutantGetReturnData(data, n, program_id) ==
    /\ Idle
    /\ Begin(<<Op("touch", data, n), Op("map", data, n),
               Op("touch", program_id, 1), Op("map", program_id, 1),
               Bare("disjoint"), Bare("use")>>)

\* Two results in one translate_mut: both are touched, then both are mapped.
GetReturnData(data, n, program_id) ==
    /\ Idle
    /\ Begin(<<Op("touch", data, n), Op("touch", program_id, 1),
               Op("map", data, n), Op("map", program_id, 1),
               Bare("disjoint"), Bare("use")>>)

-----------------------------------------------------------------------------
(***************************************************************************)
(* cpi_common, one account of one loop per step.                           *)
(***************************************************************************)
\* The instruction is read from guest memory and copied, then the call starts.
Invoke(ix) == Idle /\ Begin(<<Op("load", ix, 1), Bare("use"), Bare("cpi")>>)

\* prepare_next_instruction rejects what the caller may not write itself.
Prepare ==
    /\ Executing("cpi")
    /\ \E call \in Calls :
          \/ /\ call.writable \subseteq Writable
             /\ cpi' = [phase |-> "translate", passed |-> call.passed,
                        writable |-> call.writable, lens |-> NoLens,
                        update |-> {}]
             /\ todo' = call.passed
             /\ script' = Tail(script)
             /\ UNCHANGED status
          \/ /\ ~(call.writable \subseteq Writable)
             /\ status' = "error"
             /\ UNCHANGED <<cpi, todo, script>>
    /\ UNCHANGED <<mapping, tracker, accounts, held, fault, history>>

InCall(phase) == status = "running" /\ cpi.phase = phase

NextPhase(from, to, left) ==
    /\ InCall(from)
    /\ todo = {}
    /\ cpi' = [cpi EXCEPT !.phase = to]
    /\ todo' = left

TheRegion(a) == CHOOSE i \in RegionOf(a) : TRUE

\* from_account_info: the pointer to the length field must stay out of the
\* input, the length within the reserved space.  The pointer is kept.
TranslateAccount(a, len_addr, n) ==
    /\ InCall("translate")
    /\ a \in todo
    /\ \/ /\ len_addr >= InputStart
          /\ status' = "error"
          /\ UNCHANGED <<cache, held, cpi, todo, fault>>
       \/ /\ len_addr < InputStart
          /\ Translated("Store", len_addr, 1) = {}
          /\ cache' = CacheAfter(len_addr)
          /\ Violation("Store", len_addr, 1)
          /\ UNCHANGED <<held, cpi, todo>>
       \/ /\ len_addr < InputStart
          /\ Translated("Store", len_addr, 1) # {}
          /\ n > Reserved(TheRegion(a))
          /\ cache' = CacheAfter(len_addr)
          /\ status' = "error"
          /\ UNCHANGED <<held, cpi, todo, fault>>
       \/ /\ len_addr < InputStart
          /\ n <= Reserved(TheRegion(a))
          /\ \E i \in Translated("Store", len_addr, 1) :
                held' = held \cup {Pointer(i, "Store", len_addr, 1)}
          /\ cache' = CacheAfter(len_addr)
          /\ cpi' = [cpi EXCEPT !.lens[a] = n]
          /\ todo' = todo \ {a}
          /\ UNCHANGED <<status, fault>>
    /\ UNCHANGED <<regions, tracker, accounts, script, history>>

StartSync ==
    /\ NextPhase("translate", "sync", cpi.passed)
    /\ UNCHANGED <<status, mapping, tracker, accounts, script, held, fault, history>>

\* set_data_length, and get_data_mut when the length stays the same.
Resize(a, n) ==
    \E moves \in MayMove(a, n > data_len[a]) :
        /\ data_len' = [data_len EXCEPT ![a] = n]
        /\ resize_delta' = resize_delta + n - data_len[a]
        /\ touched' = [touched EXCEPT ![a] = TRUE]
        /\ shared' = [shared EXCEPT ![a] = FALSE]
        /\ regions' = IF moves THEN Moved(regions, a) ELSE regions
        /\ held' = IF moves THEN Dangle(held, a) ELSE held
        /\ dirty' = dirty \cup {a}

\* TransactionAccounts::can_data_be_resized
WithinLimits(a, n) ==
    n <= MaxDataLen /\ resize_delta + n - data_len[a] <= MaxGrowth

\* The program's view of an account becomes the account's: the length it has
\* written and, last, the owner.  `ok` says whether both are accepted; a new
\* owner is not if the data is not all zeros.
Adopt(a, n, gives, ok) ==
    LET resizes == n # data_len[a]
        allowed == resizes => CanChange(a) /\ WithinLimits(a, n)
    IN  /\ ok => allowed /\ (gives => CanChange(a))
        /\ ~ok => ~allowed \/ gives
        /\ \/ resizes /\ allowed /\ Resize(a, n)
           \/ /\ ~(resizes /\ allowed)
              /\ touched' = IF ok /\ gives THEN [touched EXCEPT ![a] = TRUE] ELSE touched
              /\ UNCHANGED <<regions, data_len, shared, resize_delta, held, dirty>>
        /\ owned' = IF ok /\ gives THEN [owned EXCEPT ![a] = FALSE] ELSE owned

\* Mutant: accounts the callee may not write are never renewed.
MutantMustUpdate(a, gives) == a \in cpi.writable

\* update_caller_account_region of TranslatedAccount
MustUpdate(a, gives) ==
    a \in cpi.writable \/ gives \/ cpi.lens[a] # data_len[a]

\* update_callee_account; its result decides, with the callee's privilege,
\* whether the caller's region is renewed after the call.
SyncAccount(a, gives) ==
    /\ InCall("sync")
    /\ a \in todo
    /\ \E ok \in BOOLEAN :
          /\ Adopt(a, cpi.lens[a], gives, ok)
          /\ status' = IF ok THEN status ELSE "error"
    /\ cpi' = [cpi EXCEPT !.update = IF MustUpdate(a, gives) THEN @ \cup {a} ELSE @]
    /\ todo' = todo \ {a}
    /\ UNCHANGED <<cache, tracker, script, fault, delivered>>

\* process_instruction pushes the callee, and with it the sysvar's index.
CallCallee ==
    /\ NextPhase("sync", "callee", {})
    /\ UnshareSysvar
    /\ IF Sysvar \in Accounts /\ shared[Sysvar]
       THEN regions' = Moved(regions, Sysvar) /\ held' = Dangle(held, Sysvar)
       ELSE UNCHANGED <<regions, held>>
    /\ UNCHANGED <<status, cache, tracker, data_len, owned, touched, resize_delta,
                   script, fault, history>>

\* External to this invocation: what a callee may do to an account it may
\* write, if it is or becomes its owner.
CalleeChanges(a, n) ==
    /\ InCall("callee")
    /\ a \in cpi.writable
    /\ WithinLimits(a, n)
    /\ Resize(a, n)
    /\ UNCHANGED <<status, cache, tracker, owned, script, cpi, todo, fault, delivered>>

CalleeAssigns(a) ==
    /\ InCall("callee")
    /\ a \in cpi.writable
    /\ owned' = [owned EXCEPT ![a] = ~@]
    /\ touched' = [touched EXCEPT ![a] = TRUE]
    /\ UNCHANGED <<status, mapping, tracker, data_len, shared, resize_delta,
                   progress, fault, history>>

CalleeFails ==
    /\ InCall("callee")
    /\ status' = "error"
    /\ UNCHANGED <<mapping, tracker, accounts, progress, fault, history>>

CalleeReturns ==
    /\ NextPhase("callee", "check", cpi.writable)
    /\ UNCHANGED <<status, mapping, tracker, accounts, script, held, fault, history>>

\* Mutant: a callee may grow an account past the caller's reserved space.
MutantCheckAccount(a) ==
    /\ InCall("check")
    /\ a \in todo
    /\ cpi' = [cpi EXCEPT !.lens[a] = data_len[a]]
    /\ todo' = todo \ {a}
    /\ UNCHANGED <<status, mapping, tracker, accounts, script, held, fault, history>>

\* update_caller_account: writes through the pointers kept over the call.
CheckAccount(a) ==
    /\ InCall("check")
    /\ a \in todo
    /\ IF data_len[a] > Reserved(TheRegion(a))
       THEN status' = "error" /\ UNCHANGED <<cpi, todo>>
       ELSE /\ cpi' = [cpi EXCEPT !.lens[a] = data_len[a]]
            /\ todo' = todo \ {a}
            /\ UNCHANGED status
    /\ UNCHANGED <<mapping, tracker, accounts, script, held, fault, history>>

StartRemap ==
    /\ NextPhase("check", "remap", cpi.update)
    /\ UNCHANGED <<status, mapping, tracker, accounts, script, held, fault, history>>

\* update_caller_account_region
RemapAccount(a) ==
    /\ InCall("remap")
    /\ a \in todo
    /\ \E i \in Found(Layout[TheRegion(a)].vm_addr) :
          Replace(i, AccountRegion(a, regions[i].vm_addr), Layout[TheRegion(a)].vm_addr)
    /\ todo' = todo \ {a}
    /\ touched' = [touched EXCEPT ![a] = @ \/ (CanChange(a) /\ ~shared[a])]
    /\ UNCHANGED <<tracker, data_len, shared, owned, resize_delta, script, held,
                   cpi, fault, history>>

EndCall ==
    /\ InCall("remap")
    /\ todo = {}
    /\ cpi' = NoCall
    /\ held' = {}
    /\ UNCHANGED <<status, mapping, tracker, accounts, script, todo, fault, history>>

-----------------------------------------------------------------------------
(***************************************************************************)
(* The end of the invocation: deserialize_parameters_aligned.              *)
(***************************************************************************)
Exit ==
    /\ Idle
    /\ status' = "deserializing"
    /\ todo' = Accounts
    /\ UNCHANGED <<mapping, tracker, accounts, script, held, cpi, fault, history>>

\* n is the length the program left in its input.
DeserializeAccount(a, n, gives) ==
    /\ status = "deserializing"
    /\ a \in todo
    /\ IF SaturatingSub(n, Layout[TheRegion(a)].len) > MaxIncrease \/ n > MaxDataLen
       THEN status' = "error" /\ UNCHANGED <<accounts, regions, held, dirty, todo>>
       ELSE /\ \E ok \in BOOLEAN :
                  /\ Adopt(a, n, gives, ok)
                  /\ status' = IF ok THEN status ELSE "error"
            /\ todo' = todo \ {a}
    /\ UNCHANGED <<cache, tracker, script, cpi, fault, delivered>>

Finish ==
    /\ status = "deserializing"
    /\ todo = {}
    /\ status' = "finished"
    /\ UNCHANGED <<mapping, tracker, accounts, progress, fault, history>>

-----------------------------------------------------------------------------
Ended == {"finished", "fault", "error", "invalid_region"}

Terminated == status \in Ended /\ UNCHANGED vars

Starting == Push \/ Serialize \/ Watch

Stepping == MapLoad \/ MapStore \/ TouchMapped \/ TouchUnmapped \/ TouchHandled
              \/ Use \/ CheckDisjoint

Operating ==
    \/ \E addr \in Addresses, n \in AccessLens : LoadOp(addr, n) \/ StoreOp(addr, n)
    \/ \E p, q \in SyscallAddresses, n \in AccessLens :
          \/ Memmove(p, q, n)
          \/ Memcpy(p, q, n)
          \/ Memset(p, n)
          \/ GetReturnData(p, n, q)
          \/ \E r \in SyscallAddresses : Memcmp(p, q, n, r)

Calling ==
    \/ Calls # {} /\ \E addr \in SyscallAddresses : Invoke(addr)
    \/ Prepare \/ StartSync \/ CallCallee \/ StartRemap \/ EndCall
    \/ CalleeFails \/ CalleeReturns
    \/ \E a \in Accounts :
          \/ \E addr \in SyscallAddresses, n \in 0 .. MaxDataLen :
                TranslateAccount(a, addr, n)
          \/ \E gives \in BOOLEAN : SyncAccount(a, gives)
          \/ \E n \in 0 .. MaxDataLen : CalleeChanges(a, n)
          \/ CalleeAssigns(a)
          \/ CheckAccount(a)
          \/ RemapAccount(a)

Ending ==
    \/ Exit \/ Finish
    \/ \E a \in Accounts, n \in 0 .. MaxDataLen + 1, gives \in BOOLEAN :
          DeserializeAccount(a, n, gives)

Next == Starting \/ Stepping \/ Operating \/ Calling \/ Ending \/ Terminated

Spec == Init /\ [][Next]_vars

-----------------------------------------------------------------------------
(***************************************************************************)
(* Properties.                                                             *)
(***************************************************************************)
\* Whenever guest code or a syscall of this program can run.
ProgramRuns == status = "running" /\ cpi.phase = "none"

\* A program that runs sees its accounts as they are, whatever copy on write,
\* growth or a callee did to them: each region points at the buffer its account
\* uses now and is exactly as long as its data, guest code can write through it
\* only where can_data_be_changed allows it and the buffer is private to the
\* transaction, and the handler serves exactly the accounts that may be changed.
MirrorsAccounts ==
    ProgramRuns => \A i \in Regions : LET a == regions[i].account IN a # NoAccount =>
        /\ regions[i].fresh
        /\ regions[i].len = data_len[a]
        /\ regions[i].writable => CanChange(a) /\ ~shared[a]
        /\ regions[i].payload <=> CanChange(a)

\* A cached translation answers as the search would, with the region's present
\* range: replace_region's flush may not be forgotten.
CacheCoherent ==
    \A slot \in Slots : LET e == cache.entries[slot] IN
        e.start < e.end => e.index \in Regions /\ e = EntryOf(e.index)

\* The recorded accesses are the forbidden reads: no forbidden byte reaches the
\* program without a recorded access to it, and every recorded access covers a
\* forbidden byte of the sysvar's data, so that no program is reported for
\* reading next to it.
DetectionIsExact ==
    /\ \A b \in delivered : \E k \in DOMAIN tracker.accesses :
          b \in Bytes(tracker.accesses[k])
    /\ \A k \in DOMAIN tracker.accesses :
          \E b \in Bytes(tracker.accesses[k]) : Forbidden(b)

\* "No other translated references can be live": whatever moves a buffer, no
\* syscall or call still holds a pointer into the old one.
HeldPointersLive == \A p \in held : ~p.dangling

\* An account whose data was changed is marked as touched, by the path that
\* first made it writable.
ModifiedIsTouched == \A a \in dirty : touched[a]

\* resize_delta follows the lengths: a step that resizes an account accounts
\* for it in full, failing steps included.
DeltaFollowsLengths ==
    [][\E a \in Accounts :
          /\ \A b \in Accounts \ {a} : data_len'[b] = data_len[b]
          /\ resize_delta' - resize_delta = data_len'[a] - data_len[a]]_<<data_len, resize_delta>>

\* The handler, which grows without asking can_data_be_resized, and everything
\* else stay within the length an account and the growth a transaction may have.
GrowthBounded ==
    /\ resize_delta <= MaxGrowth
    /\ \A a \in Accounts : data_len[a] <= MaxDataLen

\* replace_region never rejects a region the runtime built.
NoRejectedRegion == status # "invalid_region"

\* What execute's debug assertions claim of a fault inside an account's address
\* space: an allowed store, or a load, only fails outside of the data.
FaultsAreOutsideData ==
    status = "fault" => \A i \in Regions :
        LET a == Layout[i].account
        IN  /\ a # NoAccount
            /\ fault.addr >= Layout[i].vm_addr
            /\ fault.addr + fault.len <= Layout[i].vm_addr + Reserved(i)
            /\ fault.type = "Store" => CanChange(a)
            => fault.addr + fault.len - Layout[i].vm_addr > data_len[a]
=============================================================================
