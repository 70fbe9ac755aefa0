------------------------------- MODULE TlvBytes -------------------------------
(***************************************************************************)
(* What TLVs are made of (src/src/tlv.h): types, and the sizes of headers. *)
(*                                                                         *)
(* Field widths are scaled down so that small files show every case: one   *)
(* byte of length where the code has three, one byte of date where it has  *)
(* four, and the largest value is MaxValue bytes, not 2^24 - 1.  As in the *)
(* code, the file header is exactly as long as a TLV header.               *)
(***************************************************************************)
EXTENDS Integers, Sequences

CONSTANT MaxValue      \* TLV_MAX_VALUE_SIZE

ASSUME MaxValueAssumption == MaxValue \in Nat /\ MaxValue >= 4

\* The TLV types of tlv.h that the file functions tell apart.
PAD1     == 0
PADN     == 1
TEXT     == 2
COMPOUND == 5
DATED    == 6
LONGC    == 253
LONGH    == 254

MAGIC_NUMBER == 53

SIZEOF_TYPE   == 1
SIZEOF_LENGTH == 1
SIZEOF_HEADER == SIZEOF_TYPE + SIZEOF_LENGTH
SIZEOF_DATE   == 1
SIZEOF_LONGH  == SIZEOF_HEADER + SIZEOF_TYPE + SIZEOF_LENGTH
DZ_HEADER     == SIZEOF_HEADER
MAX_SIZE      == SIZEOF_HEADER + MaxValue

-----------------------------------------------------------------------------
(* Bytes; offsets count from 0. *)

At(m, o) == m[o + 1]

Write(m, o, bytes) ==
  SubSeq(m, 1, o) \o bytes \o SubSeq(m, o + Len(bytes) + 1, Len(m))

\* How many bytes a value takes once it is cut in chunks behind a long TLV's header.
NbChunks(size) == size \div MaxValue + (IF size % MaxValue = 0 THEN 0 ELSE 1)

=============================================================================
