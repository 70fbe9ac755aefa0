------------------------------- MODULE TlvInputs -------------------------------
(***************************************************************************)
(* Making TLVs in memory (src/src/tlv.c): tlv_from_inputs, which puts      *)
(* several inputs in a compound, a dated one in a dated TLV, and cuts what *)
(* is too long in parts, computing first how much room that takes; and the *)
(* older tlv_create functions of the alternate commands.                   *)
(*                                                                         *)
(* An input is [type, data], data being bytes.  A date is one byte, and    *)
(* Swap stands for htonl and ntohl on a little-endian machine.             *)
(***************************************************************************)
EXTENDS TlvBytes, TlvGuess, SequencesExt

Swap(date) == 255 - date

NoDate == 0

IsLarge(data) == Len(data) > MaxValue

-----------------------------------------------------------------------------
(* Long TLVs. *)

\* mk_longh
LonghHead(type, length) == <<LONGH, SIZEOF_TYPE + SIZEOF_LENGTH, type, length>>

\* Mutant: the last part's length is that of a full one.
SplitValue_FullParts(data) ==
  FlattenSeq([i \in 1 .. NbChunks(Len(data)) |->
                <<LONGC, MaxValue>> \o SubSeq(data, (i - 1) * MaxValue + 1, Min({i * MaxValue, Len(data)}))])

\* ltlv_split_value: the same bytes, a header before every MaxValue of them.
SplitValue(data) ==
  FlattenSeq([i \in 1 .. NbChunks(Len(data)) |->
                LET part == SubSeq(data, (i - 1) * MaxValue + 1, Min({i * MaxValue, Len(data)}))
                IN  <<LONGC, Len(part)>> \o part])

\* ltlv_mk_tlv
LongTlv(type, data) == LonghHead(type, Len(data)) \o SplitValue(data)

-----------------------------------------------------------------------------
(* tlv_from_inputs *)

\* What a TLV of length bytes takes once its value is moved into a long one.
Lengthened(length) ==
  LET value == length - SIZEOF_HEADER
  IN  value + NbChunks(value) * SIZEOF_HEADER + SIZEOF_LONGH

\* Mutant: the headers of a long TLV's parts are not counted.
InputSize_NoParts(input) ==
  Len(input.data) + (IF IsLarge(input.data) THEN SIZEOF_LONGH ELSE SIZEOF_HEADER)

InputSize(input) ==
  LET length == Len(input.data)
  IN  IF IsLarge(input.data) THEN Lengthened(length + SIZEOF_HEADER) ELSE length + SIZEOF_HEADER

DateRoom(dated) == IF dated THEN SIZEOF_HEADER + SIZEOF_DATE ELSE 0

HeaderRoom(several) == IF several THEN SIZEOF_HEADER ELSE 0

\* The room for the inputs themselves.
InputsSize(inputs) ==
  LET size[i \in 0 .. Len(inputs)] == IF i = 0 THEN 0 ELSE size[i - 1] + InputSize(inputs[i])
  IN  size[Len(inputs)]

\* The room for the inputs, before a compound or a dated TLV turns out to be long.
PlainRoom(inputs, dated) ==
  InputsSize(inputs) + HeaderRoom(Len(inputs) > 1) + DateRoom(dated)

\* By how many bytes a header that is long moves what is behind it.
Grown(long) == IF long THEN SIZEOF_LONGH - SIZEOF_HEADER ELSE 0

RoomFor(length, cmpnd, content) == [len |-> length, cmpnd |-> cmpnd, content |-> content]

RoomOfDated(length, several, longC, dated) ==
  LET longD == dated /\ length > MAX_SIZE
      cmpnd == DateRoom(dated) + Grown(longD)
  IN  RoomFor(IF longD THEN Lengthened(length) ELSE length,
              cmpnd, cmpnd + HeaderRoom(several) + Grown(longC))

RoomOfCompound(length, several, dated) ==
  IF several /\ length > MAX_SIZE
  THEN RoomOfDated(Lengthened(length), several, TRUE, dated)
  ELSE RoomOfDated(length, several, FALSE, dated)

\* How long the TLV will be, where the compound's header goes, and where the inputs do.
Room(inputs, date) ==
  RoomOfCompound(PlainRoom(inputs, date # NoDate), Len(inputs) > 1, date # NoDate)

\* An input as a TLV of its own.
InputTlv(input) ==
  IF IsLarge(input.data) THEN LongTlv(input.type, input.data)
  ELSE <<input.type, Len(input.data)>> \o input.data

\* Cut the length bytes at from in parts, where they are.
SplitAt(s, from, length) ==
  LET parts == SplitValue(SubSeq(s.m, from + 1, from + length))
  IN  [m |-> Write(s.m, from, parts), w |-> from + Len(parts)]

\* What the buffer holds before it is written.
UNSET == 170

\* s.m is the buffer, s.w where writing has stopped.
Filled(body, room) ==
  [m |-> Write([i \in 1 .. room.len |-> UNSET], room.content, body), w |-> room.content + Len(body)]

\* The compound's header, and its value in parts if it is long.
EndCompound(s, room, length) ==
  IF length > MaxValue
  THEN [SplitAt([s EXCEPT !.m = Write(@, room.cmpnd, LonghHead(COMPOUND, length))],
                room.cmpnd + SIZEOF_LONGH, length)
        EXCEPT !.w = room.content + length + NbChunks(length) * SIZEOF_HEADER]
  ELSE [s EXCEPT !.m = Write(@, room.cmpnd, <<COMPOUND, length>>)]

\* The dated TLV's header and date: tlv_set_date swaps the date that is copied as it is into a long one.
EndDated(s, date, length) ==
  IF length > MaxValue
  THEN SplitAt([s EXCEPT !.m = Write(@, 0, LonghHead(DATED, length) \o <<date>>)],
               SIZEOF_LONGH, length)
  ELSE [s EXCEPT !.m = Write(@, 0, <<DATED, length, Swap(date)>>)]

\* The TLV, and -1 when the bytes written are not the bytes there was room for; high is how far the
\* function writes in a buffer of room bytes.
Outcome(s, room) ==
  [status |-> IF s.w = room.len THEN 0 ELSE -1, tlv |-> SubSeq(s.m, 1, room.len),
   high |-> Max({s.w, Len(s.m)}), room |-> room.len]

EndInputs(s, inputs, date, room) ==
  LET inner == IF Len(inputs) > 1 THEN EndCompound(s, room, s.w - room.content) ELSE s
  IN  IF date = NoDate THEN Outcome(inner, room)
      ELSE Outcome(EndDated(inner, date, inner.w - (room.cmpnd - SIZEOF_DATE)), room)

FromInputsIn(inputs, date, room) ==
  EndInputs(Filled(FlattenSeq([i \in DOMAIN inputs |-> InputTlv(inputs[i])]), room),
            inputs, date, room)

\* tlv_from_inputs
FromInputs(inputs, date) == FromInputsIn(inputs, date, Room(inputs, date))

-----------------------------------------------------------------------------
(* The older functions: lengths are written by htod, which keeps three bytes (one, here), and only as many    *)
(* bytes as that length says are copied.                                                                      *)

Htod(length) == length % (MaxValue + 1)

\* tlv_create_path and tlv_create_input
CreateTlv(type, data) == <<type, Htod(Len(data))>> \o SubSeq(data, 1, Htod(Len(data)))

CreateCompound(tlvs) == CreateTlv(COMPOUND, tlvs)

\* Mutant: the date is not turned to network order.
CreateDate_HostOrder(tlv, now) == CreateTlv(DATED, <<now>> \o tlv)

CreateDate(tlv, now) == CreateTlv(DATED, <<Swap(now)>> \o tlv)

\* dz2tlv: a whole dazibao as a compound.
Dz2Tlv(file) == CreateTlv(COMPOUND, SubSeq(file, DZ_HEADER + 1, Len(file)))

=============================================================================
