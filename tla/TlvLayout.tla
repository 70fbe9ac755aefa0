------------------------------ MODULE TlvLayout ------------------------------
(***************************************************************************)
(* The byte layout of a dazibao and the functions of src/src/mdazibao.c    *)
(* that walk it: a file header, then a chain of TLVs, some of which hold   *)
(* TLVs of their own.  m is the mapped region (a sequence of bytes), n the *)
(* length of the dazibao in it, and offsets count from 0 as in the code.   *)
(***************************************************************************)
EXTENDS TlvBytes, SequencesExt

\* What the functions return instead of an offset.
FAIL         == -1
EOD          == -2
OFFSET_ERROR == -64

IsPad(type)       == type \in {PAD1, PADN}
IsContainer(type) == type \in {COMPOUND, DATED}

-----------------------------------------------------------------------------
(* Reading one TLV. *)

Zeros(k) == [i \in 1 .. k |-> 0]

TlvSize(m, o) ==
  IF At(m, o) = PAD1 THEN SIZEOF_TYPE ELSE SIZEOF_HEADER + At(m, o + SIZEOF_TYPE)

\* Read the header at o: did it succeed, and where does the TLV after it start.
NextTlv(m, n, o) ==
  CASE o = n                                            -> [st |-> EOD,  next |-> o]
    [] o # n /\ n < o + SIZEOF_TYPE                     -> [st |-> FAIL, next |-> o]
    [] n >= o + SIZEOF_TYPE /\ (At(m, o) = PAD1 \/ n >= o + SIZEOF_HEADER)
                                                        -> [st |-> o, next |-> o + TlvSize(m, o)]
    [] OTHER                                            -> [st |-> FAIL, next |-> o + SIZEOF_TYPE]

\* The TLVs met from o on, stopping past upto: their offsets, the offset the walk stopped at,
\* and the error that stopped it, if one did.
Walk(m, n, from, upto) ==
  LET walk[o \in Nat] ==
        IF o > upto THEN [offs |-> <<>>, next |-> o, st |-> 0]
        ELSE IF NextTlv(m, n, o).st < 0
        THEN [offs |-> <<>>, next |-> o, st |-> NextTlv(m, n, o).st]
        ELSE [walk[NextTlv(m, n, o).next] EXCEPT !.offs = <<o>> \o @]
  IN  walk[from]

LongTotal(m, o) ==
  LET data == At(m, o + SIZEOF_HEADER + SIZEOF_TYPE)
  IN  data + NbChunks(data) * SIZEOF_HEADER + SIZEOF_LONGH

-----------------------------------------------------------------------------
(* Looking for the pads around a TLV. *)

\* The walk remembers a pad only when it was not remembering one, and forgets it at the next TLV,
\* be that TLV a pad too.
PadSerieStart(m, n, offset, min) ==
  LET walk  == Walk(m, n, min, offset - 1)
      start == FoldLeft(LAMBDA s, o: IF IsPad(At(m, o)) /\ s = FAIL THEN o ELSE FAIL,
                        FAIL, walk.offs)
      error == walk.st = FAIL \/ NextTlv(m, n, walk.next).st = FAIL
  IN  IF error \/ start = FAIL THEN offset ELSE start

\* First TLV from o on that is no pad; with no maximum (max = 0) the loop stops at once.
SkipPads(m, n, from, max) ==
  LET skip[o \in Nat] ==
        IF NextTlv(m, n, o).st >= 0 /\ max > 0 /\ o < max /\ IsPad(At(m, o))
        THEN skip[NextTlv(m, n, o).next]
        ELSE NextTlv(m, n, o).st
  IN  skip[from]

PadSerieEnd(m, n, offset, max, skip) ==
  LET stop == SkipPads(m, n, IF skip THEN NextTlv(m, n, offset).next ELSE offset, max)
  IN  IF max > 0 /\ (max < offset \/ stop > max) THEN OFFSET_ERROR
      ELSE IF stop = EOD THEN n ELSE stop

-----------------------------------------------------------------------------
(* Writing pads over a part of the file. *)

\* Mutant: the whole size as the length of the value.
PadOf_WholeSize(size) == <<PADN, size>> \o Zeros(size - SIZEOF_HEADER)

PadOf(size) == <<PADN, size - SIZEOF_HEADER>> \o Zeros(size - SIZEOF_HEADER)

\* Chunks go forward from pos; what is too short for a padN is written as pad1s at start.
RECURSIVE EmptyFrom(_, _, _, _)
EmptyFrom(m, pos, length, start) ==
  LET chunk == IF length > MAX_SIZE THEN MAX_SIZE ELSE length
  IN  IF length > SIZEOF_HEADER + 2
      THEN EmptyFrom(Write(m, pos, PadOf(chunk)), pos + chunk, length - chunk, start)
      ELSE Write(m, start, Zeros(length))

DoEmpty(m, start, length) ==
  IF start < DZ_HEADER \/ length <= 0 THEN m ELSE EmptyFrom(m, start, length, start)

-----------------------------------------------------------------------------
(* Is there a TLV at this offset, and in which container? *)

RECURSIVE LimitedCheckTlvAt(_, _, _, _, _, _)
LimitedCheckTlvAt(m, n, offset, start, end, parent) ==
  LET walk == Walk(m, n, start, offset)
      last == walk.offs[Len(walk.offs)]
      type == At(m, last)
      head == SIZEOF_HEADER + (IF type = DATED THEN SIZEOF_DATE ELSE 0)
  IN  IF offset \notin start .. end THEN [st |-> 0, parent |-> 0]
      ELSE IF walk.st < 0           THEN [st |-> walk.st, parent |-> 0]
      ELSE IF walk.next > end       THEN [st |-> OFFSET_ERROR, parent |-> 0]
      ELSE IF last = offset         THEN [st |-> 1, parent |-> parent]
      ELSE IF IsContainer(type)
           THEN LimitedCheckTlvAt(m, n, offset, last + head, walk.next, last)
      ELSE [st |-> 0, parent |-> 0]

CheckTlvAt(m, n, offset) ==
  IF offset < DZ_HEADER THEN [st |-> OFFSET_ERROR, parent |-> 0]
  ELSE LimitedCheckTlvAt(m, n, offset, DZ_HEADER, n, 0)

=============================================================================
