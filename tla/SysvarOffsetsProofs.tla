------------------------- MODULE SysvarOffsetsProofs -------------------------
(***************************************************************************)
(* Proofs about SysvarOffsets, for every set of instruction lists, ranges  *)
(* and indices.  The inductive invariant says how far each of the two      *)
(* walks has come: the serializer's instructions lie end to end from the   *)
(* table on, and the detector's offset is where the serializer put the     *)
(* instruction the detector has reached.                                   *)
(***************************************************************************)
EXTENDS SysvarOffsets, TLAPS

EndOf(i) == starts[i] + HeaderSize(instructions[i]) + instructions[i].data_len

TableSize == 2 + 2 * Len(instructions)

\* The length of the sysvar up to the last instruction appended.
BodyEnd == IF pc = "serialize" THEN sysvar_len ELSE sysvar_len - 2

\* The instructions appended so far lie end to end.
EndToEnd ==
    /\ Len(table) = Len(starts)
    /\ Len(starts) <= Len(instructions)
    /\ pc # "serialize" => Len(starts) = Len(instructions)
    /\ BodyEnd = IF starts = << >> THEN TableSize ELSE EndOf(Len(starts))
    /\ starts # << >> => starts[1] = TableSize
    /\ \A i \in 1 .. Len(starts) - 1 : starts[i + 1] = EndOf(i)
    /\ \A i \in 1 .. Len(starts) : table[i] = starts[i] % U16

\* None of them reaches into a later one, into the table or past the end.
Separate ==
    /\ BodyEnd >= TableSize
    /\ \A i \in 1 .. Len(starts) : TableSize <= starts[i] /\ EndOf(i) <= BodyEnd
    /\ \A i, j \in 1 .. Len(starts) : i < j => EndOf(i) <= starts[j]

\* The detector stands where the serializer stood.
InStep ==
    /\ pc \in {"earlier", "ranges", "done"} =>
          instruction_index < Len(instructions) /\ idx <= instruction_index
    /\ pc \in {"serialize", "check"} => idx = 0
    /\ pc = "earlier" => offset = starts[idx + 1]
    /\ pc \in {"ranges", "done"} => offset = DataStart(instruction_index)

\* Each range translated so far was within the data and is shifted by offset.
Translated ==
    /\ sysvar_offsets # << >> => pc \in {"ranges", "done", "bail"}
    /\ Len(sysvar_offsets) <= Len(forbidden_ranges)
    /\ pc = "done" => Len(sysvar_offsets) = Len(forbidden_ranges)
    /\ pc \in {"ranges", "done"} =>
          \A k \in 1 .. Len(sysvar_offsets) :
              /\ sysvar_offsets[k].start = offset + forbidden_ranges[k].start
              /\ sysvar_offsets[k].end = offset + forbidden_ranges[k].end
              /\ forbidden_ranges[k].end <= Target.data_len

IInv == TypeOK /\ EndToEnd /\ Separate /\ InStep /\ Translated

-----------------------------------------------------------------------------
\* Initially nothing is serialized and the sysvar is its count and its table.
LEMMA InitEstablishes == Init => IInv
<1> SUFFICES ASSUME Init PROVE IInv
  OBVIOUS
<1>1. TypeOK
  BY InputAssumption DEF Init, TypeOK, Stages
<1>2. EndToEnd /\ Separate /\ InStep /\ Translated
  BY <1>1 DEF Init, TypeOK, EndToEnd, Separate, InStep, Translated, BodyEnd,
              TableSize, EndOf
<1> QED  BY <1>1, <1>2 DEF IInv

\* The size of an instruction's header is a number of bytes.
LEMMA HeaderSizeType ==
  ASSUME NEW info \in InstructionInfo
  PROVE  HeaderSize(info) \in Nat /\ info.data_len \in Nat
BY DEF InstructionInfo, HeaderSize

\* Appending an instruction extends the chain by one link.
LEMMA SerializePreserves ==
  ASSUME IInv, SerializeInstruction
  PROVE  IInv'
<1>0. PICK n \in Nat : n = Len(starts)
  BY DEF IInv, TypeOK
<1> DEFINE info == instructions[n + 1]
<1>1. /\ TypeOK /\ EndToEnd /\ Separate /\ InStep /\ Translated
      /\ n \in Nat /\ n < Len(instructions) /\ pc = "serialize"
      /\ info \in InstructionInfo /\ HeaderSize(info) \in Nat
  <2>1. TypeOK /\ EndToEnd /\ Separate /\ InStep /\ Translated
    BY DEF IInv
  <2>2. n \in Nat /\ n < Len(instructions) /\ pc = "serialize"
    BY <1>0 DEF SerializeInstruction
  <2>3. info \in InstructionInfo
    BY <2>1, <2>2 DEF TypeOK
  <2> QED  BY <2>1, <2>2, <2>3, HeaderSizeType
<1>2. /\ starts' = Append(starts, sysvar_len)
      /\ table' = Append(table, sysvar_len % U16)
      /\ sysvar_len' = sysvar_len + HeaderSize(info) + info.data_len
      /\ UNCHANGED <<instructions, instruction_index, forbidden_ranges, pc,
                     idx, offset, sysvar_offsets>>
  BY <1>0 DEF SerializeInstruction, input, detector
<1>3. /\ sysvar_len \in Nat /\ sysvar_len' \in Nat /\ sysvar_len <= sysvar_len'
      /\ sysvar_len % U16 \in Nat
      /\ starts \in Seq(Nat) /\ table \in Seq(Nat)
  <2>1. info.data_len \in Nat
    BY <1>1, HeaderSizeType
  <2>2. sysvar_len \in Nat /\ starts \in Seq(Nat) /\ table \in Seq(Nat)
    BY <1>1 DEF TypeOK
  <2>3. sysvar_len % U16 \in Nat
    BY <2>2, InputAssumption
  <2> HIDE DEF info
  <2> QED  BY <1>1, <1>2, <2>1, <2>2, <2>3
<1>4. starts' \in Seq(Nat) /\ table' \in Seq(Nat)
  BY <1>2, <1>3
<1>5. /\ Len(starts') = n + 1 /\ Len(table') = n + 1 /\ Len(table) = n
      /\ starts'[n + 1] = sysvar_len /\ table'[n + 1] = sysvar_len % U16
      /\ \A i \in 1 .. n : starts'[i] = starts[i] /\ table'[i] = table[i]
  BY <1>0, <1>1, <1>2, <1>3 DEF EndToEnd
<1> HIDE DEF info
<1>6. TypeOK'
  BY <1>1, <1>2, <1>3, <1>4 DEF TypeOK
<1>7. /\ \A i \in 1 .. n : EndOf(i)' = EndOf(i) /\ EndOf(i) \in Nat
      /\ \A i \in 1 .. n + 1 : starts'[i] \in Nat
      /\ EndOf(n + 1)' = sysvar_len'
  <2>1. ASSUME NEW i \in 1 .. n  PROVE EndOf(i)' = EndOf(i) /\ EndOf(i) \in Nat
    <3>1. i \in 1 .. Len(instructions) /\ i \in 1 .. Len(starts)
      BY <1>0, <1>1
    <3>2. instructions[i] \in InstructionInfo /\ starts[i] \in Nat
      BY <3>1, <1>1, <1>3 DEF TypeOK
    <3>3. HeaderSize(instructions[i]) \in Nat /\ instructions[i].data_len \in Nat
      BY <3>2, HeaderSizeType
    <3> QED  BY <3>2, <3>3, <1>2, <1>5 DEF EndOf
  <2>2. \A i \in 1 .. n + 1 : starts'[i] \in Nat
    BY <1>4, <1>5, <1>1
  <2>3. EndOf(n + 1)' = sysvar_len'
    BY <1>2, <1>3, <1>5 DEF EndOf, info
  <2> QED  BY <2>1, <2>2, <2>3
<1>8. /\ BodyEnd = sysvar_len /\ BodyEnd' = sysvar_len'
      /\ TableSize' = TableSize /\ TableSize \in Nat
  BY <1>1, <1>2 DEF BodyEnd, TableSize, TypeOK
<1>9. EndToEnd'
  <2>1. /\ Len(table') = Len(starts') /\ Len(starts') <= Len(instructions')
        /\ starts' # << >> /\ pc' = "serialize"
    <3>1. Len(instructions) \in Nat
      BY <1>1 DEF TypeOK
    <3>2. starts' # << >>
      BY <1>4, <1>5
    <3> QED  BY <3>1, <3>2, <1>1, <1>2, <1>5
  <2>2. BodyEnd' = EndOf(Len(starts))'
    <3>1. Len(starts)' = n + 1
      BY <1>5
    <3>2. EndOf(Len(starts))' = sysvar_len'
      BY <3>1, <1>7 DEF EndOf
    <3> QED  BY <3>2, <1>8
  <2>3. starts'[1] = TableSize'
    <3>1. CASE n = 0
      <4>1. starts = << >>
        BY <3>1, <1>0, <1>3
      <4>2. BodyEnd = TableSize
        BY <4>1, <1>1 DEF EndToEnd
      <4>3. n + 1 = 1
        BY <3>1
      <4>4. starts'[1] = sysvar_len
        BY <4>3, <1>5
      <4> QED  BY <4>2, <4>4, <1>8
    <3>2. CASE n # 0
      <4>1. starts # << >>
        BY <3>2, <1>0, <1>3
      <4>2. starts[1] = TableSize
        BY <4>1, <1>1 DEF EndToEnd
      <4>3. 1 \in 1 .. n
        BY <3>2, <1>0
      <4> QED  BY <4>2, <4>3, <1>5, <1>8
    <3> QED  BY <3>1, <3>2
  <2>4. ASSUME NEW i \in 1 .. n  PROVE starts'[i + 1] = EndOf(i)'
    <3>1. CASE i = n
      <4>1. starts # << >> /\ BodyEnd = EndOf(n)
        BY <3>1, <1>1, <1>3, <1>0 DEF EndToEnd
      <4> QED  BY <4>1, <3>1, <1>5, <1>7, <1>8
    <3>2. CASE i < n
      <4>1. i + 1 \in 1 .. n /\ i \in 1 .. n - 1
        BY <3>2, <1>1
      <4>2. starts[i + 1] = EndOf(i)
        BY <4>1, <1>1, <1>0 DEF EndToEnd
      <4> QED  BY <4>1, <4>2, <1>5, <1>7
    <3> QED  BY <3>1, <3>2, <1>1
  <2>5. \A i \in 1 .. n + 1 : table'[i] = starts'[i] % U16
    <3>1. \A i \in 1 .. n : table[i] = starts[i] % U16
      BY <1>1, <1>0 DEF EndToEnd
    <3> QED  BY <3>1, <1>1, <1>5
  <2>6. \A i \in 1 .. Len(starts)' - 1 : starts'[i + 1] = EndOf(i)'
    BY <2>4, <1>5, <1>1
  <2> QED  BY <2>1, <2>2, <2>3, <2>5, <2>6, <1>5 DEF EndToEnd
<1>10. Separate'
  <2>1. /\ BodyEnd >= TableSize
        /\ \A i \in 1 .. n : TableSize <= starts[i] /\ EndOf(i) <= BodyEnd
        /\ \A i, j \in 1 .. n : i < j => EndOf(i) <= starts[j]
    BY <1>1, <1>0 DEF Separate
  <2>2. BodyEnd' >= TableSize'
    BY <2>1, <1>3, <1>8
  <2>3. ASSUME NEW i \in 1 .. n + 1
        PROVE  TableSize' <= starts'[i] /\ EndOf(i)' <= BodyEnd'
    <3>1. CASE i = n + 1
      BY <3>1, <2>1, <1>3, <1>5, <1>7, <1>8
    <3>2. CASE i \in 1 .. n
      <4>1. TableSize <= starts[i] /\ EndOf(i) <= BodyEnd
        BY <3>2, <2>1
      <4>2. TableSize' <= starts'[i]
        BY <3>2, <4>1, <1>5, <1>8
      <4>3. EndOf(i)' <= BodyEnd'
        BY <3>2, <4>1, <1>3, <1>7, <1>8
      <4> QED  BY <4>2, <4>3
    <3> QED  BY <3>1, <3>2, <1>1
  <2>4. ASSUME NEW i \in 1 .. n + 1, NEW j \in 1 .. n + 1, i < j
        PROVE  EndOf(i)' <= starts'[j]
    <3>1. i \in 1 .. n
      BY <2>4, <1>1
    <3>2. CASE j = n + 1
      BY <3>1, <3>2, <2>1, <1>5, <1>7, <1>8
    <3>3. CASE j \in 1 .. n
      BY <3>1, <3>3, <2>1, <2>4, <1>5, <1>7
    <3> QED  BY <3>2, <3>3, <1>1
  <2> QED  BY <2>2, <2>3, <2>4, <1>5 DEF Separate
<1>11. InStep' /\ Translated'
  BY <1>1, <1>2 DEF InStep, Translated, Target
<1> QED  BY <1>6, <1>9, <1>10, <1>11 DEF IInv

\* The trailing index is the last thing written, after the last instruction.
LEMMA TrailerPreserves ==
  ASSUME IInv, SerializeTrailer
  PROVE  IInv'
<1>1. /\ TypeOK /\ EndToEnd /\ Separate /\ InStep /\ Translated
      /\ pc = "serialize" /\ pc' = "check" /\ sysvar_len' = sysvar_len + 2
      /\ Len(starts) = Len(instructions)
      /\ UNCHANGED <<instructions, instruction_index, forbidden_ranges, starts,
                     table, idx, offset, sysvar_offsets>>
  BY DEF IInv, SerializeTrailer, input, detector
<1>2. TypeOK'
  BY <1>1 DEF TypeOK, Stages
<1>3. BodyEnd' = BodyEnd /\ TableSize' = TableSize /\ \A i : EndOf(i)' = EndOf(i)
  BY <1>1 DEF BodyEnd, TableSize, EndOf, TypeOK
<1>4. EndOf(Len(starts))' = EndOf(Len(starts))
  BY <1>1 DEF EndOf
<1>5. EndToEnd' /\ Separate'
  BY <1>1, <1>3, <1>4 DEF EndToEnd, Separate
<1>6. InStep' /\ Translated'
  BY <1>1 DEF InStep, Translated, Target
<1> QED  BY <1>2, <1>5, <1>6 DEF IInv

\* A step of the detector leaves the sysvar as it is.
LEMMA DetectorKeepsSysvar ==
  ASSUME EndToEnd, Separate, TypeOK, pc # "serialize", pc' # "serialize",
         UNCHANGED <<input, sysvar>>
  PROVE  EndToEnd' /\ Separate'
<1>1. UNCHANGED <<instructions, starts, table, sysvar_len>>
  BY DEF input, sysvar
<1>2. BodyEnd' = BodyEnd /\ TableSize' = TableSize /\ \A i : EndOf(i)' = EndOf(i)
  BY <1>1 DEF BodyEnd, TableSize, EndOf
<1>3. EndOf(Len(starts))' = EndOf(Len(starts))
  BY <1>1 DEF EndOf
<1> QED  BY <1>1, <1>2, <1>3 DEF EndToEnd, Separate

\* Every step of the detector keeps it in step with the serializer.
LEMMA DetectorPreserves ==
  ASSUME IInv,
         \/ RejectIndex \/ SkipHeader \/ SkipEarlierInstruction
         \/ SkipTargetHeader \/ RejectRange \/ TranslateRange \/ ReturnOffsets
  PROVE  IInv'
<1>1. /\ TypeOK /\ EndToEnd /\ Separate /\ InStep /\ Translated
      /\ instructions \in Seq(InstructionInfo) /\ Len(instructions) \in Nat
      /\ forbidden_ranges \in Seq(ByteRange) /\ instruction_index \in Nat
      /\ idx \in Nat /\ offset \in Nat /\ sysvar_offsets \in Seq(ByteRange)
  BY DEF IInv, TypeOK
<1>2. /\ pc # "serialize" /\ pc' # "serialize"
      /\ UNCHANGED <<instructions, instruction_index, forbidden_ranges,
                     starts, table, sysvar_len>>
      /\ Len(starts) = Len(instructions)
  BY <1>1 DEF RejectIndex, SkipHeader, SkipEarlierInstruction, SkipTargetHeader,
              RejectRange, TranslateRange, ReturnOffsets, input, sysvar, EndToEnd
<1>3. EndToEnd' /\ Separate'
  BY <1>1, <1>2, DetectorKeepsSysvar DEF input, sysvar
<1>4. CASE RejectIndex
  <2>1. pc = "check" /\ pc' = "bail" /\ UNCHANGED <<idx, offset, sysvar_offsets>>
    BY <1>4 DEF RejectIndex, detector
  <2>2. TypeOK' /\ InStep' /\ Translated'
    BY <1>1, <1>2, <2>1 DEF TypeOK, Stages, InStep, Translated
  <2> QED  BY <2>2, <1>3 DEF IInv
<1>5. CASE SkipHeader
  <2>1. /\ pc = "check" /\ pc' = "earlier" /\ UNCHANGED <<idx, sysvar_offsets>>
        /\ instruction_index < Len(instructions)
        /\ offset' = 2 + 2 * Len(instructions)
    BY <1>5 DEF SkipHeader
  <2>2. TypeOK'
    BY <1>1, <1>2, <2>1 DEF TypeOK, Stages
  <2>3. starts # << >>
    BY <1>1, <1>2, <2>1
  <2>4. InStep'
    BY <1>1, <1>2, <2>1, <2>3 DEF InStep, EndToEnd, TableSize
  <2>5. Translated'
    BY <1>1, <1>2, <2>1 DEF Translated
  <2> QED  BY <2>2, <2>4, <2>5, <1>3 DEF IInv
<1>6. CASE SkipEarlierInstruction
  <2>1. /\ pc = "earlier" /\ pc' = "earlier" /\ UNCHANGED sysvar_offsets
        /\ idx < instruction_index /\ idx' = idx + 1
        /\ offset' = offset + HeaderSize(instructions[idx + 1])
                            + instructions[idx + 1].data_len
    BY <1>6 DEF SkipEarlierInstruction
  <2>2. /\ instruction_index < Len(instructions) /\ offset = starts[idx + 1]
        /\ idx + 1 \in 1 .. Len(starts) - 1 /\ idx + 1 \in 1 .. Len(instructions)
    BY <1>1, <1>2, <2>1 DEF InStep
  <2>3. starts[idx + 1 + 1] = offset'
    BY <1>1, <2>1, <2>2 DEF EndToEnd, EndOf
  <2>4. /\ HeaderSize(instructions[idx + 1]) \in Nat
        /\ instructions[idx + 1].data_len \in Nat
    BY <1>1, <2>2, HeaderSizeType
  <2>5. TypeOK'
    <3>1. idx' \in Nat /\ offset' \in Nat
      BY <1>1, <2>1, <2>4
    <3> QED  BY <3>1, <1>1, <1>2, <2>1 DEF TypeOK
  <2>6. InStep'
    BY <1>1, <1>2, <2>1, <2>2, <2>3 DEF InStep
  <2>7. Translated'
    BY <1>1, <1>2, <2>1 DEF Translated
  <2> QED  BY <2>5, <2>6, <2>7, <1>3 DEF IInv
<1>7. CASE SkipTargetHeader
  <2>1. /\ pc = "earlier" /\ pc' = "ranges" /\ UNCHANGED <<idx, sysvar_offsets>>
        /\ idx = instruction_index
        /\ offset' = offset + HeaderSize(instructions[instruction_index + 1])
    BY <1>7 DEF SkipTargetHeader, Target
  <2>2. /\ instruction_index < Len(instructions) /\ offset = starts[idx + 1]
        /\ instruction_index + 1 \in 1 .. Len(instructions)
        /\ sysvar_offsets = << >>
    BY <1>1, <2>1 DEF InStep, Translated
  <2>3. HeaderSize(instructions[instruction_index + 1]) \in Nat
    BY <1>1, <2>2, HeaderSizeType
  <2>4. TypeOK'
    BY <1>1, <1>2, <2>1, <2>3 DEF TypeOK, Stages
  <2>5. InStep'
    BY <1>1, <1>2, <2>1, <2>2 DEF InStep, DataStart
  <2>6. Translated'
    BY <1>1, <1>2, <2>1, <2>2 DEF Translated
  <2> QED  BY <2>4, <2>5, <2>6, <1>3 DEF IInv
<1>8. CASE RejectRange
  <2>1. pc = "ranges" /\ pc' = "bail" /\ UNCHANGED <<idx, offset, sysvar_offsets>>
    BY <1>8 DEF RejectRange, detector
  <2>2. TypeOK' /\ InStep' /\ Translated'
    BY <1>1, <1>2, <2>1 DEF TypeOK, Stages, InStep, Translated
  <2> QED  BY <2>2, <1>3 DEF IInv
<1>9. CASE TranslateRange
  <2>0. PICK m \in Nat : m = Len(sysvar_offsets)
    BY <1>1
  <2>1. /\ pc = "ranges" /\ pc' = "ranges" /\ UNCHANGED <<idx, offset>>
        /\ m < Len(forbidden_ranges)
        /\ forbidden_ranges[m + 1].end <= Target.data_len
        /\ sysvar_offsets' = Append(sysvar_offsets,
                                    [start |-> offset + forbidden_ranges[m + 1].start,
                                     end |-> offset + forbidden_ranges[m + 1].end])
    BY <1>9, <2>0 DEF TranslateRange, Fits, NextRange
  <2>2. forbidden_ranges[m + 1] \in ByteRange
    BY <1>1, <2>0, <2>1
  <2>3. [start |-> offset + forbidden_ranges[m + 1].start,
         end |-> offset + forbidden_ranges[m + 1].end] \in ByteRange
    BY <1>1, <2>2 DEF ByteRange
  <2>4. sysvar_offsets' \in Seq(ByteRange)
    BY <1>1, <2>1, <2>3
  <2>5. TypeOK'
    BY <1>1, <1>2, <2>1, <2>4 DEF TypeOK
  <2>6. InStep'
    BY <1>1, <1>2, <2>1 DEF InStep, DataStart
  <2>7. /\ Len(sysvar_offsets') = m + 1
        /\ \A k \in 1 .. m : sysvar_offsets'[k] = sysvar_offsets[k]
        /\ sysvar_offsets'[m + 1].start = offset + forbidden_ranges[m + 1].start
        /\ sysvar_offsets'[m + 1].end = offset + forbidden_ranges[m + 1].end
    BY <1>1, <2>0, <2>1, <2>3
  <2>8. Target' = Target
    BY <1>2 DEF Target
  <2>9. Translated'
    BY <1>1, <1>2, <2>0, <2>1, <2>7, <2>8 DEF Translated
  <2> QED  BY <2>5, <2>6, <2>9, <1>3 DEF IInv
<1>10. CASE ReturnOffsets
  <2>1. /\ pc = "ranges" /\ pc' = "done" /\ UNCHANGED <<idx, offset, sysvar_offsets>>
        /\ Len(sysvar_offsets) = Len(forbidden_ranges)
    BY <1>10 DEF ReturnOffsets, detector
  <2>2. TypeOK' /\ InStep'
    BY <1>1, <1>2, <2>1 DEF TypeOK, Stages, InStep, DataStart
  <2>3. Translated'
    BY <1>1, <1>2, <2>1 DEF Translated, Target
  <2> QED  BY <2>2, <2>3, <1>3 DEF IInv
<1> QED  BY <1>4, <1>5, <1>6, <1>7, <1>8, <1>9, <1>10

\* The two walks stay in step, whatever the message and the configuration.
THEOREM WalksInStep == Spec => []IInv
<1>1. Init => IInv
  BY InitEstablishes
<1>2. IInv /\ [Next]_vars => IInv'
  <2> SUFFICES ASSUME IInv, [Next]_vars PROVE IInv'
    OBVIOUS
  <2>1. CASE Next
    BY <2>1, SerializePreserves, TrailerPreserves, DetectorPreserves DEF Next
  <2>2. CASE UNCHANGED vars
    BY <2>2 DEF vars, input, sysvar, detector, IInv, TypeOK, EndToEnd, Separate,
                InStep, Translated, BodyEnd, TableSize, EndOf, DataStart, Target
  <2> QED  BY <2>1, <2>2
<1> QED  BY <1>1, <1>2, PTL DEF Spec

\* The variables keep their types.
THEOREM TypeCorrect == Spec => []TypeOK
<1>1. IInv => TypeOK
  BY DEF IInv
<1> QED  BY <1>1, WalksInStep, PTL

\* calculate_forbidden_sysvar_offsets returns the offsets of exactly the bytes
\* the user forbade, for every message, index and list of ranges.
THEOREM OffsetsCorrect == Spec => []OffsetsSelectForbiddenBytes
<1>1. IInv => OffsetsSelectForbiddenBytes
  BY DEF IInv, OffsetsSelectForbiddenBytes, InStep, Translated
<1> QED  BY <1>1, WalksInStep, PTL

\* No byte the detector watches belongs to another instruction, to the table or
\* to the trailing index.
THEOREM OffsetsLocal == Spec => []OffsetsSpareOtherInstructions
<1>1. ASSUME IInv, pc = "done", NEW k \in 1 .. Len(sysvar_offsets),
             sysvar_offsets[k].start < sysvar_offsets[k].end
      PROVE  /\ sysvar_offsets[k].start >= 2 + 2 * Len(instructions)
             /\ sysvar_offsets[k].end <= sysvar_len - 2
             /\ \A i \in 0 .. Len(instructions) - 1 :
                   i # instruction_index =>
                      \/ sysvar_offsets[k].end <= starts[i + 1]
                      \/ DataEnd(i) <= sysvar_offsets[k].start
  <2> DEFINE t == instruction_index + 1
             r == sysvar_offsets[k]
             f == forbidden_ranges[k]
  <2>1. /\ TypeOK /\ EndToEnd /\ Separate /\ InStep /\ Translated
        /\ Len(instructions) \in Nat /\ Len(starts) = Len(instructions)
        /\ instruction_index \in Nat /\ instruction_index < Len(instructions)
        /\ BodyEnd = sysvar_len - 2
    BY <1>1 DEF IInv, TypeOK, EndToEnd, InStep, BodyEnd
  <2>2. /\ t \in 1 .. Len(starts)
        /\ instructions[t] \in InstructionInfo /\ starts[t] \in Nat
        /\ sysvar_len \in Nat
    BY <2>1 DEF TypeOK
  <2>3. HeaderSize(instructions[t]) \in Nat /\ instructions[t].data_len \in Nat
    BY <2>2, HeaderSizeType
  <2>4. f \in ByteRange
    BY <2>1, <1>1 DEF Translated, TypeOK
  <2>5. /\ f.start \in Nat /\ f.end \in Nat /\ f.end <= instructions[t].data_len
        /\ r.start = starts[t] + HeaderSize(instructions[t]) + f.start
        /\ r.end = starts[t] + HeaderSize(instructions[t]) + f.end
    BY <2>1, <2>4, <1>1 DEF Translated, InStep, DataStart, Target, ByteRange
  <2> HIDE DEF t, r, f
  <2>6. EndOf(t) = starts[t] + HeaderSize(instructions[t]) + instructions[t].data_len
    BY DEF EndOf
  <2>7. /\ starts[t] <= r.start /\ r.end <= EndOf(t)
        /\ r.start \in Nat /\ r.end \in Nat
    BY <2>2, <2>3, <2>5, <2>6
  <2>8. /\ TableSize <= starts[t] /\ EndOf(t) <= BodyEnd /\ EndOf(t) \in Nat
    BY <2>1, <2>2, <2>3, <2>6 DEF Separate
  <2>9. ASSUME NEW i \in 0 .. Len(instructions) - 1, i # instruction_index
        PROVE  r.end <= starts[i + 1] \/ DataEnd(i) <= r.start
    <3>1. /\ i + 1 \in 1 .. Len(starts) /\ i + 1 # t
          /\ instructions[i + 1] \in InstructionInfo /\ starts[i + 1] \in Nat
      BY <2>1, <2>9 DEF TypeOK, t
    <3>2. /\ HeaderSize(instructions[i + 1]) \in Nat
          /\ instructions[i + 1].data_len \in Nat
      BY <3>1, HeaderSizeType
    <3>3. DataEnd(i) = EndOf(i + 1) /\ EndOf(i + 1) \in Nat
      BY <3>1, <3>2 DEF DataEnd, DataStart, EndOf
    <3>4. CASE i + 1 < t
      <4>1. EndOf(i + 1) <= starts[t]
        BY <3>1, <3>4, <2>1, <2>2 DEF Separate
      <4> QED  BY <4>1, <3>3, <2>2, <2>7
    <3>5. CASE t < i + 1
      <4>1. EndOf(t) <= starts[i + 1]
        BY <3>1, <3>5, <2>1, <2>2 DEF Separate
      <4> QED  BY <4>1, <3>1, <2>7, <2>8
    <3> QED  BY <3>1, <3>4, <3>5, <2>2
  <2> QED  BY <2>1, <2>2, <2>7, <2>8, <2>9 DEF TableSize, r
<1>2. IInv => OffsetsSpareOtherInstructions
  BY <1>1 DEF OffsetsSpareOtherInstructions
<1> QED  BY <1>2, WalksInStep, PTL

\* The u16 table of the sysvar leads to the bytes the detector watches as long
\* as the sysvar is no longer than a u16 can index.
THEOREM TableAgrees == Spec => []TableLeadsToInstruction
<1>1. ASSUME IInv, pc \in {"done", "bail"}, sysvar_len <= U16,
             NEW i \in 0 .. Len(instructions) - 1
      PROVE  table[i + 1] = starts[i + 1]
  <2>1. /\ Len(starts) = Len(instructions) /\ Len(instructions) \in Nat
        /\ BodyEnd = sysvar_len - 2 /\ EndToEnd /\ Separate /\ TypeOK
    BY <1>1 DEF IInv, EndToEnd, TypeOK, BodyEnd
  <2>2. i + 1 \in 1 .. Len(starts)
    BY <2>1
  <2>3. /\ instructions[i + 1] \in InstructionInfo /\ starts[i + 1] \in Nat
        /\ sysvar_len \in Nat
    BY <2>1, <2>2 DEF TypeOK
  <2>4. /\ HeaderSize(instructions[i + 1]) \in Nat
        /\ instructions[i + 1].data_len \in Nat
    BY <2>3, HeaderSizeType
  <2>5. EndOf(i + 1) <= sysvar_len - 2
    BY <2>1, <2>2 DEF Separate
  <2>6. starts[i + 1] < U16 /\ U16 \in Nat
    BY <2>3, <2>4, <2>5, <1>1, InputAssumption DEF EndOf
  <2>7. starts[i + 1] % U16 = starts[i + 1]
    BY <2>3, <2>6
  <2> QED  BY <2>1, <2>2, <2>7 DEF EndToEnd
<1>2. IInv => TableLeadsToInstruction
  BY <1>1 DEF TableLeadsToInstruction
<1> QED  BY <1>2, WalksInStep, PTL
=============================================================================
