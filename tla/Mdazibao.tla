------------------------------- MODULE Mdazibao -------------------------------
(***************************************************************************)
(* The file operations of src/src/mdazibao.c, one process at a time (the   *)
(* lock that makes this so is DzLock's subject): a dazibao is opened and   *)
(* mapped, TLVs are added and removed at offsets the caller names, the     *)
(* file is compacted, and it is closed, or the process dies and leaves the *)
(* mapped pages behind as they are.                                        *)
(***************************************************************************)
EXTENDS TlvLayout, TLC

CONSTANTS
  Page,      \* the size mappings are rounded to
  Inputs,    \* the TLVs callers add, as bytes
  RmParts,   \* do callers also name the offsets of a long TLV's parts?
  ShortRests, \* may the bytes a removal empties end in a rest too short for a padN?
  MaxLen,    \* bound: no TLV is added past this length
  MaxOps     \* bound: changes made to the file

ASSUME DazibaoAssumption ==
  /\ Page \in Nat \ {0}
  /\ RmParts \in BOOLEAN
  /\ ShortRests \in BOOLEAN
  /\ MaxLen \in Nat
  /\ MaxOps \in Nat

VARIABLES
  session, \* what the program that has the dazibao open has done with it
  mem,     \* the mapped region when open, the file when not
  len,     \* dz_t.len: how much of mem is the dazibao
  torn,    \* a process died between dz_compact and dz_close
  ret,     \* what the last operation returned
  ops      \* changes so far (bounded by MaxOps)

vars == <<session, mem, len, torn, ret, ops>>

\* A program opens the dazibao and then adds TLVs, or removes some until one removal fails, or
\* compacts it once, and closes it: no program mixes these between an open and a close.
Sessions == {"none", "open", "adding", "removing", "failed", "compacted"}

\* dz_mmap_data: the file grows to whole pages, filled with zeros.
MmapData(m, size) ==
  LET real == Page * ((size + Page - 1) \div Page)
  IN  m \o Zeros(real - Len(m))

\* The file dz_create leaves.
Init ==
  /\ session = "none"
  /\ torn = FALSE
  /\ mem = <<MAGIC_NUMBER>> \o Zeros(DZ_HEADER - 1)
  /\ len = DZ_HEADER
  /\ ret = 0
  /\ ops = 0

-----------------------------------------------------------------------------
(* dz_open(O_RDWR), dz_close, and a process that dies between the two. *)

Open ==
  /\ session = "none" /\ ~torn
  /\ session' = "open"
  /\ mem' = MmapData(mem, Len(mem))
  /\ len' = Len(mem)
  /\ UNCHANGED <<torn, ret, ops>>

Close ==
  /\ session # "none"
  /\ session' = "none"
  /\ mem' = SubSeq(mem, 1, len)
  /\ ret' = 0
  /\ UNCHANGED <<len, torn, ops>>

\* The mapping is shared with the file: what was written stays, and so does the padding.
\* After dz_compact the bytes past len are left over from the move, no chain of TLVs: torn.
Crash ==
  /\ session # "none"
  /\ session' = "none"
  /\ torn' = (session = "compacted")
  /\ len' = IF session = "compacted" THEN len ELSE Len(mem)
  /\ ret' = 0
  /\ UNCHANGED <<mem, ops>>

-----------------------------------------------------------------------------
(* dz_add_tlv: over the pads that end the file, growing the mapping when it is too short. *)

\* Mutant: the mapping is not grown.
AddAt_NoRemap(padOff, tlv) ==
  /\ mem' = Write(mem, padOff, tlv)
  /\ len' = padOff + Len(tlv)

AddAt(padOff, tlv) ==
  LET available == Len(mem) - padOff
      region    == IF available < Len(tlv)
                   THEN MmapData(SubSeq(mem, 1, len), Len(mem) + Len(tlv) - available)
                   ELSE mem
  IN  /\ mem' = Write(region, padOff, tlv)
      /\ len' = padOff + Len(tlv)

AddTlv(tlv) ==
  /\ session \in {"open", "adding"} /\ ops < MaxOps
  /\ PadSerieStart(mem, len, len, 0) + Len(tlv) <= MaxLen
  /\ AddAt(PadSerieStart(mem, len, len, 0), tlv)
  /\ ret' = 0
  /\ session' = "adding"
  /\ ops' = ops + 1
  /\ UNCHANGED torn

-----------------------------------------------------------------------------
(* dz_rm_tlv: empty the TLV at this offset together with the pads around it. *)

\* Where the value of the container at offset p begins.
ValueStart(p) ==
  p + SIZEOF_HEADER + (IF At(mem, p) = DATED THEN SIZEOF_DATE ELSE 0)

RmStart(offset, parent) ==
  PadSerieStart(mem, len, offset, IF parent = 0 THEN 0 ELSE ValueStart(parent))

\* Mutant: a long TLV ends where its header does.
RmEnd_HeaderOnly(offset, parent) ==
  PadSerieEnd(mem, len, offset, IF parent = 0 THEN 0 ELSE parent + TlvSize(mem, parent), TRUE)

RmEnd(offset, parent) ==
  LET max == IF parent = 0 THEN 0 ELSE parent + TlvSize(mem, parent)
  IN  IF At(mem, offset) = LONGH
      THEN PadSerieEnd(mem, len, offset + LongTotal(mem, offset), max, FALSE)
      ELSE PadSerieEnd(mem, len, offset, max, TRUE)

\* Mutant: no pads where the file is truncated anyway.
Emptied_Truncated(start, end) == IF end = len THEN mem ELSE DoEmpty(mem, start, end - start)

\* The removed bytes are emptied in the mapping even when the file is truncated before them.
Emptied(start, end) == DoEmpty(mem, start, end - start)

\* More than one padN is needed and what is left after the last full one is shorter than a padN.
ShortRest(length) == length > MAX_SIZE /\ length % MAX_SIZE \in 1 .. SIZEOF_HEADER + 2

RmTlv(offset) ==
  LET found == CheckTlvAt(mem, len, offset)
      end   == RmEnd(offset, found.parent)
      start == RmStart(offset, found.parent)
  IN  /\ session \in {"open", "removing"} /\ ops < MaxOps
      /\ UNCHANGED torn
      /\ found.st = 1 => ShortRests \/ ~ShortRest(end - start)
      /\ IF found.st <= 0
         THEN ret' = OFFSET_ERROR /\ session' = "failed" /\ UNCHANGED <<mem, len, ops>>
         ELSE IF end < 0
         THEN ret' = FAIL /\ session' = "failed" /\ UNCHANGED <<mem, len, ops>>
         ELSE /\ len' = IF end = len /\ found.parent = 0 THEN start ELSE len
              /\ mem' = Emptied(start, end)
              /\ ret' = 0
              /\ session' = "removing"
              /\ ops' = ops + 1

-----------------------------------------------------------------------------
(* dz_compact: one pass that reads at r and writes at w <= r. *)

\* dz_memmove
Move(s, count) ==
  [s EXCEPT !.m = Write(s.m, s.w, SubSeq(s.m, s.r + 1, s.r + count)),
            !.r = @ + count, !.w = @ + count]

SkipLength(s) == [s EXCEPT !.r = @ + SIZEOF_LENGTH, !.w = @ + SIZEOF_LENGTH]

Drop(s, count) == [s EXCEPT !.r = @ + count, !.saved = @ + count]

\* Mutant: the bytes of a container that is taken back are not counted.
EndContainer_Uncounted(s, off, length, overhead) ==
  [s EXCEPT !.m = Write(@, off + SIZEOF_TYPE, <<length>>),
            !.w = IF length = overhead - SIZEOF_HEADER THEN off ELSE @]

\* Write the length a container ends with, at the offset it was written at; a container left with
\* no more than its own overhead is taken back.
EndContainer(s, off, length, overhead) ==
  LET empty == length = overhead - SIZEOF_HEADER
  IN  [s EXCEPT !.m = Write(@, off + SIZEOF_TYPE, <<length>>),
                !.w = IF empty THEN off ELSE @,
                !.saved = @ + (IF empty THEN overhead ELSE 0)]

\* Where the loop over a compound's TLVs stops reading, counted from where the compound is written.
CompoundEnd(s, length) == s.w + SIZEOF_HEADER + length

RECURSIVE CompactTlvs(_, _)
RECURSIVE CompactHelper(_, _)
CompactHelper(s, max) ==
  LET type    == At(s.m, s.r)
      length  == At(s.m, s.r + SIZEOF_TYPE)
      header  == SkipLength(Move(s, SIZEOF_TYPE))
      dated   == Move(header, SIZEOF_DATE)
      inner   == CompactHelper(dated, dated.r + length - SIZEOF_DATE)
      kids    == CompactTlvs(header, CompoundEnd(s, length))
  IN  CASE s.r >= max         -> s
        [] s.r < max /\ type = PAD1 -> Drop(s, SIZEOF_TYPE)
        [] s.r < max /\ type = PADN -> Drop(s, SIZEOF_HEADER + length)
        [] s.r < max /\ type = DATED ->
             EndContainer(inner, s.w, inner.w - (s.w + SIZEOF_HEADER), SIZEOF_HEADER + SIZEOF_DATE)
        [] s.r < max /\ type = COMPOUND ->
             EndContainer(kids, s.w, kids.w - (s.w + SIZEOF_HEADER), SIZEOF_HEADER)
        [] OTHER -> IF length = 0 THEN Drop(s, SIZEOF_HEADER)
                                  ELSE Move(s, SIZEOF_HEADER + length)

CompactTlvs(s, max) ==
  IF s.r >= max THEN s ELSE CompactTlvs(CompactHelper(s, max), max)

Compacted ==
  CompactTlvs([m |-> mem, r |-> DZ_HEADER, w |-> DZ_HEADER, saved |-> 0], len)

Compact ==
  /\ session = "open" /\ ops < MaxOps
  /\ session' = "compacted"
  /\ mem' = Compacted.m
  /\ len' = Compacted.w
  /\ ret' = Compacted.saved
  /\ ops' = ops + 1
  /\ UNCHANGED torn

-----------------------------------------------------------------------------

\* The offsets a caller names: any of the file, save a long TLV's parts unless RmParts.
Offsets ==
  {o \in 0 .. len : RmParts \/ o = len \/ At(mem, o) # LONGC}

Next ==
  \/ Open
  \/ Close
  \/ Crash
  \/ \E tlv \in Inputs : AddTlv(tlv)
  \/ \E offset \in Offsets : RmTlv(offset)
  \/ Compact

Spec == Init /\ [][Next]_vars

=============================================================================
