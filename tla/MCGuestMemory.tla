--------------------------- MODULE MCGuestMemory ---------------------------
(***************************************************************************)
(* A guest memory of seven regions: a stack with gaps, program data, and   *)
(* the input: metadata, an account with room to grow, metadata, the        *)
(* sysvar, metadata.                                                       *)
(***************************************************************************)
EXTENDS GuestMemory

CONSTANTS A, S

Region(vm_addr, len, gap, writable, account) ==
    [vm_addr |-> vm_addr, len |-> len, vm_gap |-> gap, writable |-> writable,
     account |-> account]

MCLayout == << Region(1, 2, 1, TRUE, NoAccount),
               Region(6, 1, 0, FALSE, NoAccount),
               Region(8, 1, 0, TRUE, NoAccount),
               Region(9, 1, 0, TRUE, A),
               Region(12, 1, 0, TRUE, NoAccount),
               Region(13, 2, 0, FALSE, S),
               Region(17, 1, 0, TRUE, NoAccount) >>

MCForbiddenOffsets == { [start |-> 1, end |-> 2], [start |-> 2, end |-> 1] }

MCCalls == { [passed |-> {A}, writable |-> {A}],
             [passed |-> {A, S}, writable |-> {}],
             [passed |-> {S}, writable |-> {S}] }
=============================================================================
