---------------------------- MODULE AccessTracker ----------------------------
(***************************************************************************)
(* MemoryAccessTracker of sbpf/src/memory_region.rs: remembers the reads   *)
(* of one VM that overlap a watched range of addresses.                    *)
(***************************************************************************)
EXTENDS MemoryRegion, Sequences

\* The order of the watched ranges does not matter; they are a set.
NewTracker == [watched |-> {}, accesses |-> << >>, enabled |-> FALSE]

IsEmpty(range) == range.start >= range.end

\* add_watched_ranges: empty ranges are dropped; watching anything enables.
AddWatchedRanges(tracker, ranges) ==
    LET watched == tracker.watched \cup {r \in ranges : ~IsEmpty(r)}
    IN  [tracker EXCEPT !.watched = watched, !.enabled = @ \/ watched # {}]

Overlaps(range, vm_addr, len) ==
    vm_addr < range.end /\ SaturatingAdd(vm_addr, len) > range.start

\* Mutant: the end of the read is compared as if it were its last byte.
MutantCheckAccess(tracker, vm_addr, len) ==
    IF /\ tracker.enabled
       /\ \E r \in tracker.watched :
             vm_addr < r.end /\ SaturatingAdd(vm_addr, len) > r.start + 1
    THEN [tracker EXCEPT !.accesses = Append(@, [addr |-> vm_addr, len |-> len])]
    ELSE tracker

\* check_access: one entry per read, however many ranges it overlaps.
CheckAccess(tracker, vm_addr, len) ==
    IF tracker.enabled /\ \E r \in tracker.watched : Overlaps(r, vm_addr, len)
    THEN [tracker EXCEPT !.accesses = Append(@, [addr |-> vm_addr, len |-> len])]
    ELSE tracker
=============================================================================
