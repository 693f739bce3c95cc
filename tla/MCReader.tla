----------------------------- MODULE MCReader -----------------------------
(***************************************************************************)
(* size_t has 4 bits and int 3, so requests of 4 to 15 bytes are the ones  *)
(* past INT_MAX, and 8 to 15 the ones an unsigned int truncates: the same  *)
(* conversions as 64 and 32 bits.  Inputs are either shorter than INT_MAX *)
(* (MCLengths) or of any length below UINT_MAX (MCLengthsWide), where the  *)
(* int counts of readFromFile and read_ptr can no longer hold what is left.*)
(***************************************************************************)
EXTENDS Reader

MCLengths == 0..3
MCLengthsWide == 0..7
MCRequests == 0..15
=============================================================================
