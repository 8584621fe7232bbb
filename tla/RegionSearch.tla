---------------------------- MODULE RegionSearch ----------------------------
(***************************************************************************)
(* How UnalignedMemoryMapping (sbpf/src/memory_region.rs) looks up regions: *)
(* new_with_access_violation_handler lays the start addresses of the sorted *)
(* regions out in Eytzinger order, the breadth-first order of a search tree *)
(* stored in an array, and find_region descends that tree without bounds   *)
(* checks.  GuestMemory uses the result of the search, `Searched`.         *)
(***************************************************************************)
EXTENDS Integers, Sequences, FiniteSets

CONSTANTS
    MaxRegions,     \* bounds the number of regions
    MaxAddress      \* bounds the addresses

ASSUME RegionSearchAssumption == MaxRegions \in Nat /\ MaxAddress \in Nat

VARIABLES
    phase,                  \* "build", "idle", "descend" or "answered"
    regions,                \* vm_addr of the sorted regions
    region_addresses,       \* region_addresses[i] of the code is at i + 1
    region_index_lookup,    \* likewise; an index into regions, from 0
    in_index,               \* the next region to place
    out_index,              \* the subtree being built
    pending,                \* the calls waiting for their left subtree
    vm_addr,                \* the address looked up
    index,                  \* the position in the tree, from 1
    answer                  \* the region found, from 0, or None

vars == <<phase, regions, region_addresses, region_index_lookup, in_index,
          out_index, pending, vm_addr, index, answer>>

table == <<regions, region_addresses, region_index_lookup>>
building == <<in_index, out_index, pending>>

None == -1
Addresses == 0 .. MaxAddress
Size == Len(regions)

\* sort() orders by vm_addr; empty regions may share one.
SortedLists ==
    {list \in UNION {[1 .. n -> Addresses] : n \in 0 .. MaxRegions} :
        \A i, j \in DOMAIN list : i < j => list[i] <= list[j]}

Init ==
    /\ phase = "build"
    /\ regions \in SortedLists
    /\ region_addresses = [i \in 1 .. Size |-> 0]
    /\ region_index_lookup = [i \in 1 .. Size |-> 0]
    /\ in_index = 0 /\ out_index = 0 /\ pending = << >>
    /\ vm_addr = 0 /\ index = 0 /\ answer = None

\* construct_eytzinger_order calls itself on the left subtree.
GoLeft ==
    /\ phase = "build"
    /\ out_index < Size
    /\ pending' = Append(pending, out_index)
    /\ out_index' = 2 * out_index + 1
    /\ UNCHANGED <<phase, table, in_index, vm_addr, index, answer>>

\* The left subtree is done: place the next region, then call itself on the
\* right subtree, whose result is this call's result.
Place ==
    /\ phase = "build"
    /\ out_index >= Size
    /\ pending # << >>
    /\ LET o == pending[Len(pending)]
       IN  /\ region_addresses' = [region_addresses EXCEPT
                                      ![o + 1] = regions[in_index + 1]]
           /\ region_index_lookup' = [region_index_lookup EXCEPT
                                         ![o + 1] = in_index]
           /\ in_index' = in_index + 1
           /\ pending' = SubSeq(pending, 1, Len(pending) - 1)
           /\ out_index' = 2 * o + 2
    /\ UNCHANGED <<phase, regions, vm_addr, index, answer>>

Built ==
    /\ phase = "build"
    /\ out_index >= Size
    /\ pending = << >>
    /\ phase' = "idle"
    /\ UNCHANGED <<table, building, vm_addr, index, answer>>

\* find_region misses the cache and starts at the root.
FindRegion(addr) ==
    /\ phase = "idle"
    /\ phase' = "descend"
    /\ vm_addr' = addr
    /\ index' = 1
    /\ UNCHANGED <<table, building, answer>>

\* Mutant: an address equal to the start of a region goes left.
MutantDescend ==
    /\ phase = "descend"
    /\ index <= Size
    /\ index' = 2 * index + (IF region_addresses[index] < vm_addr THEN 1 ELSE 0)
    /\ UNCHANGED <<phase, table, building, vm_addr, answer>>

Descend ==
    /\ phase = "descend"
    /\ index <= Size
    /\ index' = 2 * index + (IF region_addresses[index] <= vm_addr THEN 1 ELSE 0)
    /\ UNCHANGED <<phase, table, building, vm_addr, answer>>

TrailingZeros(n) == CHOOSE k \in 0 .. n : n % 2^k = 0 /\ n % 2^(k + 1) # 0

\* Mutant: the last right turn is not undone.
MutantAncestor(i) == i \div 2^TrailingZeros(i)

\* index >>= index.trailing_zeros() + 1: the last node the search left to the
\* right, 0 when there is none.
Ancestor(i) == i \div 2^(TrailingZeros(i) + 1)

\* get_unchecked on region_index_lookup: out of bounds, any word of memory.
Unchecked(i) == IF i \in 1 .. Size THEN {region_index_lookup[i]} ELSE 0 .. Size

Answer ==
    /\ phase = "descend"
    /\ index > Size
    /\ phase' = "answered"
    /\ index' = Ancestor(index)
    /\ answer' \in IF Ancestor(index) = 0 THEN {None}
                   ELSE Unchecked(Ancestor(index))
    /\ UNCHANGED <<table, building, vm_addr>>

\* The next lookup.
Again == phase = "answered" /\ phase' = "idle"
         /\ UNCHANGED <<table, building, vm_addr, index, answer>>

Next ==
    \/ GoLeft \/ Place \/ Built
    \/ \E addr \in Addresses : FindRegion(addr)
    \/ Descend \/ Answer \/ Again

Spec == Init /\ [][Next]_vars

-----------------------------------------------------------------------------
\* The answer of find_region is the last region that starts at or below the
\* address, however the regions are laid out and whichever share a start.
FindsLastRegionBelow ==
    phase = "answered" =>
        LET below == {i \in 1 .. Size : regions[i] <= vm_addr}
        IN  answer = Cardinality(below) - 1

\* What the SAFETY comments of find_region claim for get_unchecked: "by
\* construction if we get here index must be contained in region".
UncheckedReadsInBounds ==
    /\ phase = "descend" => index >= 1
    /\ phase = "answered" /\ index # 0 => index <= Size /\ answer < Size

=============================================================================
