---------------------------- MODULE MemoryRegion ----------------------------
(***************************************************************************)
(* MemoryRegion of sbpf/src/memory_region.rs: a piece of guest memory.     *)
(*                                                                         *)
(* host_addr is abstracted to what it points at: the region belongs to the *)
(* VM (account = NoAccount), or maps the data of a transaction account, in *)
(* which case `fresh` says whether host_addr is the address of the buffer  *)
(* the account uses now.  vm_gap_shift is abstracted to the size of a gap, *)
(* 0 for a continuous region.                                              *)
(***************************************************************************)
EXTENDS Integers

CONSTANTS
    U64Max,         \* the largest u64
    NoAccount       \* marks a region that is not account data

ASSUME U64Assumption == U64Max \in Nat

AccessTypes == {"Load", "Store"}

\* u64::saturating_add and u64::saturating_sub.
SaturatingAdd(a, b) == IF a + b > U64Max THEN U64Max ELSE a + b
SaturatingSub(a, b) == IF a < b THEN 0 ELSE a - b

\* vm_addr_range: gaps double the address space a region takes.
VmEnd(region) ==
    SaturatingAdd(region.vm_addr,
                  IF region.vm_gap = 0 THEN region.len
                                       ELSE SaturatingAdd(region.len, region.len))

\* The offset into the host buffer of a vm offset that is not in a gap.
GappedOffset(offset, gap) == ((offset \div gap) \div 2) * gap + (offset % gap)

HostOffset(region, vm_addr) ==
    IF region.vm_gap = 0
    THEN vm_addr - region.vm_addr
    ELSE GappedOffset(vm_addr - region.vm_addr, region.vm_gap)

InGap(region, vm_addr) ==
    /\ region.vm_gap # 0
    /\ ((vm_addr - region.vm_addr) \div region.vm_gap) % 2 = 1

\* vm_to_host returns Some: the whole access lies in the host buffer.  (Where
\* checked_add would overflow, the sum is above the length, itself a u64.)
VmToHost(region, access_type, vm_addr, len) ==
    /\ access_type = "Store" => region.writable
    /\ vm_addr >= region.vm_addr
    /\ ~InGap(region, vm_addr)
    /\ HostOffset(region, vm_addr) + len <= region.len
=============================================================================
