---------------------------- MODULE SysvarOffsets ----------------------------
(***************************************************************************)
(* Where the bytes of an instruction live in the instructions sysvar.      *)
(*                                                                         *)
(* The CLI writes the account data of the instructions sysvar from the     *)
(* message (construct_instructions_account, gobble/src/main.rs) and, later *)
(* and independently, computes from a summary of the same message the byte *)
(* offsets that are forbidden to read (calculate_forbidden_sysvar_offsets, *)
(* gobble-lib/src/lib.rs).  Nothing ties the two walks together but the    *)
(* layout both of them know.  This module runs one after the other, a loop *)
(* iteration per step, and compares what they find.                        *)
(*                                                                         *)
(* Indices of the program count from 0 and sequences count from 1:         *)
(* instructions[i] of the code is instructions[i + 1] here.                *)
(***************************************************************************)
EXTENDS Integers, Sequences

CONSTANTS
    InstructionLists,   \* the instruction summaries a message may have
    RangeLists,         \* the --forbidden-ranges a user may give
    IndexChoices,       \* the --instruction-index a user may give
    U16                 \* 2^16: an entry of the offset table is a u16

\* InstructionInfo (gobble-lib): all that the layout depends on.
InstructionInfo == [num_accounts : Nat, data_len : Nat]

\* Range<usize>; parse_ranges does not require start <= end.
ByteRange == [start : Nat, end : Nat]

ASSUME InputAssumption ==
    /\ \A list \in InstructionLists : list \in Seq(InstructionInfo)
    /\ \A list \in RangeLists : list \in Seq(ByteRange)
    /\ \A index \in IndexChoices : index \in Nat
    /\ U16 \in Nat \ {0}

VARIABLES
    instructions,       \* the message's instructions
    instruction_index,  \* DetectionConfig.instruction_index
    forbidden_ranges,   \* DetectionConfig.forbidden_ranges
    starts,             \* where each instruction was appended to the sysvar
    table,              \* the offset table of the sysvar, as stored
    sysvar_len,         \* the length of the sysvar data so far
    pc,                 \* the stage the program is in
    idx,                \* the loop index of the detector's walk
    offset,             \* the detector's running offset
    sysvar_offsets      \* the detector's result

input == <<instructions, instruction_index, forbidden_ranges>>
sysvar == <<starts, table, sysvar_len>>
detector == <<idx, offset, sysvar_offsets>>
vars == <<input, sysvar, pc, detector>>

Stages == {"serialize", "check", "earlier", "ranges", "done", "bail"}

\* num_accounts (u16), a meta byte and a key per account, the program id and
\* data_len (u16): what precedes the data of an instruction.
HeaderSize(info) == 2 + info.num_accounts * 33 + 32 + 2

Target == instructions[instruction_index + 1]

Init ==
    /\ instructions \in InstructionLists
    /\ instruction_index \in IndexChoices
    /\ forbidden_ranges \in RangeLists
    /\ starts = << >>
    /\ table = << >>
    /\ sysvar_len = 2 + 2 * Len(instructions)
    /\ pc = "serialize"
    /\ idx = 0
    /\ offset = 0
    /\ sysvar_offsets = << >>

-----------------------------------------------------------------------------
(***************************************************************************)
(* construct_instructions_data, called from construct_instructions_account: *)
(* the count and a zeroed table are written first (Init), then each        *)
(* instruction is appended and its table entry, a u16, is set.             *)
(***************************************************************************)
SerializeInstruction ==
    /\ pc = "serialize"
    /\ Len(starts) < Len(instructions)
    /\ LET info == instructions[Len(starts) + 1]
       IN  /\ starts' = Append(starts, sysvar_len)
           /\ table' = Append(table, sysvar_len % U16)
           /\ sysvar_len' = sysvar_len + HeaderSize(info) + info.data_len
    /\ UNCHANGED <<input, pc, detector>>

\* The trailing u16 of the current instruction's index is added last.
SerializeTrailer ==
    /\ pc = "serialize"
    /\ Len(starts) = Len(instructions)
    /\ sysvar_len' = sysvar_len + 2
    /\ pc' = "check"
    /\ UNCHANGED <<input, starts, table, detector>>

-----------------------------------------------------------------------------
(***************************************************************************)
(* calculate_forbidden_sysvar_offsets.                                     *)
(***************************************************************************)
RejectIndex ==
    /\ pc = "check"
    /\ instruction_index >= Len(instructions)
    /\ pc' = "bail"
    /\ UNCHANGED <<input, sysvar, detector>>

SkipHeader ==
    /\ pc = "check"
    /\ instruction_index < Len(instructions)
    /\ offset' = 2 + 2 * Len(instructions)
    /\ pc' = "earlier"
    /\ UNCHANGED <<input, sysvar, idx, sysvar_offsets>>

\* One iteration of the loop over the instructions before the target.
SkipEarlierInstruction ==
    /\ pc = "earlier"
    /\ idx < instruction_index
    /\ offset' = offset + HeaderSize(instructions[idx + 1])
                        + instructions[idx + 1].data_len
    /\ idx' = idx + 1
    /\ UNCHANGED <<input, sysvar, pc, sysvar_offsets>>

\* Mutant: the loop has no break, so the target's own size is added.
MutantSkipTargetHeader ==
    /\ pc = "earlier"
    /\ idx = instruction_index
    /\ offset' = offset + 2 * HeaderSize(Target) + Target.data_len
    /\ pc' = "ranges"
    /\ UNCHANGED <<input, sysvar, idx, sysvar_offsets>>

\* The loop breaks at the target, whose header is skipped too.
SkipTargetHeader ==
    /\ pc = "earlier"
    /\ idx = instruction_index
    /\ offset' = offset + HeaderSize(Target)
    /\ pc' = "ranges"
    /\ UNCHANGED <<input, sysvar, idx, sysvar_offsets>>

NextRange == forbidden_ranges[Len(sysvar_offsets) + 1]

\* Mutant: the wrong end of the range is compared.
MutantFits(range) == range.start <= Target.data_len

Fits(range) == range.end <= Target.data_len

RejectRange ==
    /\ pc = "ranges"
    /\ Len(sysvar_offsets) < Len(forbidden_ranges)
    /\ ~Fits(NextRange)
    /\ pc' = "bail"
    /\ UNCHANGED <<input, sysvar, detector>>

TranslateRange ==
    /\ pc = "ranges"
    /\ Len(sysvar_offsets) < Len(forbidden_ranges)
    /\ Fits(NextRange)
    /\ sysvar_offsets' = Append(sysvar_offsets,
                                [start |-> offset + NextRange.start,
                                 end   |-> offset + NextRange.end])
    /\ UNCHANGED <<input, sysvar, pc, idx, offset>>

ReturnOffsets ==
    /\ pc = "ranges"
    /\ Len(sysvar_offsets) = Len(forbidden_ranges)
    /\ pc' = "done"
    /\ UNCHANGED <<input, sysvar, detector>>

Next ==
    \/ SerializeInstruction
    \/ SerializeTrailer
    \/ RejectIndex
    \/ SkipHeader
    \/ SkipEarlierInstruction
    \/ SkipTargetHeader
    \/ RejectRange
    \/ TranslateRange
    \/ ReturnOffsets

Spec == Init /\ [][Next]_vars

-----------------------------------------------------------------------------
(***************************************************************************)
(* Properties.                                                             *)
(***************************************************************************)

\* The variables have their types.
TypeOK ==
    /\ instructions \in Seq(InstructionInfo)
    /\ instruction_index \in Nat
    /\ forbidden_ranges \in Seq(ByteRange)
    /\ starts \in Seq(Nat)
    /\ table \in Seq(Nat)
    /\ sysvar_len \in Nat
    /\ pc \in Stages
    /\ idx \in Nat
    /\ offset \in Nat
    /\ sysvar_offsets \in Seq(ByteRange)

\* Where the data of instruction i (from 0) begins and ends in the sysvar.
DataStart(i) == starts[i + 1] + HeaderSize(instructions[i + 1])
DataEnd(i) == DataStart(i) + instructions[i + 1].data_len

\* The detector's result selects exactly the forbidden bytes: a byte of the
\* sysvar lies in the k-th returned range if and only if its place in the
\* target instruction's data lies in the k-th range the user gave.  The two
\* walks over the message, by construct_instructions_data and by
\* calculate_forbidden_sysvar_offsets, therefore agree on the layout.
OffsetsSelectForbiddenBytes ==
    pc = "done" =>
        /\ Len(sysvar_offsets) = Len(forbidden_ranges)
        /\ \A k \in 1 .. Len(sysvar_offsets) :
              /\ sysvar_offsets[k].start
                    = DataStart(instruction_index) + forbidden_ranges[k].start
              /\ sysvar_offsets[k].end
                    = DataStart(instruction_index) + forbidden_ranges[k].end

\* Watching the result flags nobody who reads another instruction: no byte of
\* a returned range belongs to the header or the data of an instruction other
\* than the one the user chose, to the table, or to the trailing index.
OffsetsSpareOtherInstructions ==
    pc = "done" =>
        \A k \in 1 .. Len(sysvar_offsets) :
            LET r == sysvar_offsets[k]
            IN  r.start < r.end =>
                  /\ r.start >= 2 + 2 * Len(instructions)
                  /\ r.end <= sysvar_len - 2
                  /\ \A i \in 0 .. Len(instructions) - 1 :
                        i # instruction_index =>
                            r.end <= starts[i + 1] \/ DataEnd(i) <= r.start

\* A program finds an instruction through the table (load_instruction_at), the
\* detector by walking.  While the sysvar is shorter than what a u16 can index,
\* the table leads the program to the very bytes the detector watches.
TableLeadsToInstruction ==
    (pc \in {"done", "bail"} /\ sysvar_len <= U16) =>
        \A i \in 0 .. Len(instructions) - 1 : table[i + 1] = starts[i + 1]
=============================================================================
