------------------------------- MODULE TlvGuess -------------------------------
(***************************************************************************)
(* tlv_guess_type of src/src/tlv.c: what type of TLV do these bytes make?  *)
(* A known signature decides; otherwise bytes that look like UTF-8 are     *)
(* text, and anything else has no type.                                    *)
(***************************************************************************)
EXTENDS Integers, Sequences, FiniteSetsExt

UNKNOWN == 255              \* (unsigned char)-1

\* type_signature: a type and how its files begin.
Signatures == <<
  [type |-> 131, bytes |-> <<66, 77>>],                           \* BM
  [type |-> 140, bytes |-> <<71, 73, 70, 56, 55, 97>>],           \* GIF87a
  [type |-> 140, bytes |-> <<71, 73, 70, 56, 57, 97>>],           \* GIF89a
  [type |->   4, bytes |-> <<255, 216, 255>>],                    \* JPEG
  [type |-> 133, bytes |-> <<77, 84, 104, 100>>],                 \* MThd
  [type |-> 129, bytes |-> <<73, 68, 51>>],                       \* ID3
  [type |-> 129, bytes |-> <<173, 169>>],                         \* MP3, "\255\251" in octal
  [type |-> 130, bytes |-> <<0, 0, 0, 20, 102, 116, 121, 112>>],  \* MP4
  [type |-> 130, bytes |-> <<0, 0, 0, 32, 102, 116, 121, 112>>],
  [type |-> 130, bytes |-> <<51, 103, 112, 53>>],
  [type |-> 132, bytes |-> <<79, 103, 103, 83>>],                 \* OggS
  [type |-> 134, bytes |-> <<37, 80, 68, 70>>],                   \* %PDF
  [type |->   3, bytes |-> <<137, 80, 78, 71, 13, 10, 26, 10>>],  \* PNG
  [type |->   2, bytes |-> <<239, 187, 191>>],                    \* byte order mark
  [type |-> 128, bytes |-> <<73, 73, 42, 0>>],                    \* TIFF
  [type |-> 128, bytes |-> <<77, 77, 0, 42>>] >>

\* As much of the signature as src is long.
Signed(src, sig) ==
  \A i \in DOMAIN sig.bytes : i <= Len(src) => src[i] = sig.bytes[i]

\* A byte the character at the end of src leaves out is not looked at.
InRange(src, i, low, high) == i <= Len(src) => src[i] \in low .. high

\* The NUL that ends ctrl_chars is found in it too.
CtrlChars == {9, 10, 11, 13, 0}

\* Mutant: the surrogates are not left out.
Second_Surrogates(c) == CASE c = 224 -> 160 .. 191 [] c = 240 -> 144 .. 191 [] OTHER -> 128 .. 191

\* What the second byte may be, by the first.  Behind 237 the code begins at 144, not at 128.
Second(c) ==
  CASE c = 224 -> 160 .. 191
    [] c = 237 -> 144 .. 159
    [] c = 240 -> 144 .. 191
    [] OTHER   -> 128 .. 191

\* How many bytes the character at i takes; 0 when it is none.  A byte 128 .. 191 that no first byte
\* announced falls through every test and counts as a character.
CharSize(src, i) ==
  LET c     == src[i]
      after == i + 1 <= Len(src) => src[i + 1] \in Second(c)
  IN  CASE c < 32             -> IF c \in CtrlChars THEN 1 ELSE 0
        [] c \in 32 .. 127    -> 1
        [] c \in {192, 193} \cup (245 .. 255) -> 0
        [] c \in 194 .. 223   -> IF InRange(src, i + 1, 128, 191) THEN 2 ELSE 0
        [] c \in 224 .. 239   -> IF InRange(src, i + 2, 128, 191) /\ after THEN 3 ELSE 0
        [] c \in 240 .. 244   -> IF /\ InRange(src, i + 2, 128, 191)
                                    /\ InRange(src, i + 3, 128, 191)
                                    /\ after
                                 THEN 4 ELSE 0
        [] OTHER              -> 1

LooksLikeText(src) ==
  LET from[i \in 1 .. Len(src) + 4] ==
        i > Len(src) \/ (CharSize(src, i) > 0 /\ from[i + CharSize(src, i)])
  IN  from[1]

GuessType(src) ==
  LET signed == {i \in DOMAIN Signatures : Signed(src, Signatures[i])}
  IN  IF Len(src) <= 3       THEN UNKNOWN
      ELSE IF signed # {}    THEN Signatures[Min(signed)].type
      ELSE IF LooksLikeText(src) THEN 2
      ELSE UNKNOWN

-----------------------------------------------------------------------------
(* The reference: Unicode 6.2, table 3-7, which the code quotes. *)

\* The first bytes of characters of one to four bytes, and what the second may be.
First == <<0 .. 127, 194 .. 223, 224 .. 239, 240 .. 244>>

SecondOf(c) ==
  CASE c = 224 -> 160 .. 191
    [] c = 237 -> 128 .. 159
    [] c = 240 -> 144 .. 191
    [] c = 244 -> 128 .. 143
    [] OTHER   -> 128 .. 191

\* Is src made of whole characters, the last of which may be cut short?  Loosely, bytes that continue
\* nothing and code points past the last one are characters too.
IsUtf8(src, loosely) ==
  LET second(c) == IF loosely /\ c = 244 THEN 128 .. 191 ELSE SecondOf(c)
      char(i, n) == /\ src[i] \in First[n] \cup (IF loosely /\ n = 1 THEN 128 .. 191 ELSE {})
                    /\ \A k \in 2 .. n : InRange(src, i + k - 1, 128, 191)
                    /\ n > 1 /\ i < Len(src) => src[i + 1] \in second(src[i])
      from[i \in 1 .. Len(src) + 4] == i > Len(src) \/ \E n \in 1 .. 4 : char(i, n) /\ from[i + n]
  IN  from[1]

HasControl(src, allowed) == \E i \in DOMAIN src : src[i] < 32 /\ src[i] \notin allowed

=============================================================================
