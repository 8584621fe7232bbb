---------------------------- MODULE MappingCache ----------------------------
(***************************************************************************)
(* MappingCache of sbpf/src/memory_region.rs: the last few translations    *)
(* from an address range to the index of a region, newest first from head. *)
(***************************************************************************)
EXTENDS Integers

CONSTANTS
    CacheSize,      \* MappingCache::SIZE
    Usize           \* 2^64: usize arithmetic wraps at this value

\* SIZE "must be a power of two": then wrapping below 0 keeps the remainder.
ASSUME CacheAssumption ==
    /\ CacheSize \in Nat \ {0}
    /\ Usize \in Nat \ {0}
    /\ Usize % CacheSize = 0

Slots == 0 .. CacheSize - 1

\* MappingCache::new, and what flush resets the cache to.
EmptyCache ==
    [entries |-> [slot \in Slots |-> [start |-> 0, end |-> 0, index |-> 0]],
     head    |-> 0]

Contains(entry, vm_addr) == entry.start <= vm_addr /\ vm_addr < entry.end

\* The entry find() looks at in its i-th iteration.
Scanned(cache, i) == cache.entries[(cache.head + i) % CacheSize]

\* find: the index in the first entry, from head on, that contains the address,
\* as a set of at most one element.
CacheFind(cache, vm_addr) ==
    {Scanned(cache, i).index :
        i \in {k \in Slots : /\ Contains(Scanned(cache, k), vm_addr)
                             /\ \A j \in 0 .. k - 1 :
                                    ~Contains(Scanned(cache, j), vm_addr)}}

\* wrapping_sub(1) % SIZE
Before(head) == ((head - 1) % Usize) % CacheSize

\* insert: entries are written backwards from head.
CacheInsert(cache, entry) ==
    [entries |-> [cache.entries EXCEPT ![Before(cache.head)] = entry],
     head    |-> Before(cache.head)]
=============================================================================
