--------------------------- MODULE MCSysvarOffsets ---------------------------
(***************************************************************************)
(* Up to three instructions, with and without accounts and data, every     *)
(* target index including one past the end, and up to two ranges: empty,   *)
(* reversed, overlapping, ending at the data's last byte or one past it.   *)
(***************************************************************************)
EXTENDS SysvarOffsets, SequencesExt

MCInstructionLists ==
    SeqOf([num_accounts : {0, 2}, data_len : {0, 3}], 3)

MCRangeLists ==
    SeqOf([start : {0, 2}, end : {1, 3, 4}], 2)

MCIndexChoices == 0 .. 3

MCU16 == 128
=============================================================================
