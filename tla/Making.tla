-------------------------------- MODULE Making --------------------------------
(***************************************************************************)
(* What a TLV is made of: the inputs that the callers of tlv_guess_type    *)
(* and tlv_from_inputs (src/src/tlv.c) give them, files and texts of any   *)
(* bytes, one or several, with a date or without.                          *)
(***************************************************************************)
EXTENDS TlvInputs

CONSTANTS
  Given,      \* lists of inputs
  Now         \* time(NULL)

ASSUME MakingAssumption == \A inputs \in Given : inputs \in Seq(Seq(0 .. 255))

VARIABLES
  srcs,       \* the inputs
  timestamp   \* the date that is asked for, in network order, or NoDate

making == <<srcs, timestamp>>

MakingInit == srcs = <<>> /\ timestamp = NoDate

Give ==
  /\ srcs = <<>> /\ timestamp = NoDate
  /\ srcs' \in Given
  /\ timestamp' \in {NoDate, Swap(Now)}

MakingSpec == MakingInit /\ [][Give]_making

-----------------------------------------------------------------------------
(* Guessing. *)

\* Control characters that texts have, and NUL, which strchr finds too.
Layout == {9, 10, 11, 13}
NUL    == 0

\* Whether the guess is up to what the bytes look like.
Unsigned(src) == Len(src) > 3 /\ \A i \in DOMAIN Signatures : ~Signed(src, Signatures[i])

\* A character that begins with 237 and goes on below 144, U+D000 to U+D3FF: the table (tlv.c:128) says
\* "ED 80..9F 80..BF", and the code (tlv.c:179) begins at 90.
HasHangul(src) == \E i \in 1 .. Len(src) - 1 : src[i] = 237 /\ src[i + 1] \in 128 .. 143

\* tlv.c:120, of inputs of more than three bytes that begin as no signature does (Unsigned: up to three
\* bytes have no type, and a signature decides whatever follows): text in UTF-8, without control characters,
\* is guessed to be text, but for the Hangul that the code takes for surrogates.  What else is: text with
\* NULs, with bytes that continue no character, or with code points past 10FFFF, and nothing more.
GuessedText ==
  \A i \in DOMAIN srcs :
    LET src  == srcs[i]
        text == GuessType(src) = TEXT
    IN  Unsigned(src) =>
          /\ IsUtf8(src, FALSE) /\ ~HasControl(src, Layout) /\ ~HasHangul(src) => text
          /\ text => IsUtf8(src, TRUE) /\ ~HasControl(src, Layout \cup {NUL})

-----------------------------------------------------------------------------
(* Room. *)

\* What add gives tlv_from_inputs when no types are named.
InputsOf == [i \in DOMAIN srcs |-> [data |-> srcs[i], type |-> GuessType(srcs[i])]]

\* The room tlv_from_inputs computes is never too small, and is what it needs (tlv.c:736) except for a
\* dated compound that the date's own header takes over a limit of MaxValue bytes.
RoomIsEnough ==
  srcs # <<>> =>
    LET inputs  == InputsOf
        made    == FromInputs(inputs, timestamp)
        content == InputsSize(inputs)
    IN  /\ made.high <= made.room
        /\ made.status = -1 <=>
             /\ Len(inputs) > 1 /\ timestamp # NoDate
             /\ NbChunks(content) # NbChunks(content + SIZEOF_HEADER + SIZEOF_DATE)

=============================================================================
