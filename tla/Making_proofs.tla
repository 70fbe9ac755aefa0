----------------------------- MODULE Making_proofs -----------------------------
(***************************************************************************)
(* For inputs of any bytes, length and number: what tlv_guess_type takes   *)
(* for text, and that tlv_from_inputs has room for what it makes of them.  *)
(***************************************************************************)
EXTENDS Making, SequenceTheorems, NaturalsInduction, WellFoundedInduction, TLAPS

IsBytes(s) == s \in Seq(0 .. 255)

-----------------------------------------------------------------------------
(* Cutting n bytes in pieces: chars[i] are the sizes a piece at i may have, and cuts the places from *)
(* which all that follows can be cut.  The last piece may be cut short, by up to 3 bytes.              *)

Cuts(n, chars, cuts) ==
  /\ cuts \subseteq 1 .. n + 4
  /\ \A i \in 1 .. n + 4 :
       i \in cuts <=> (i > n \/ \E k \in 1 .. 4 : k \in chars[i] /\ i + k \in cuts)

\* A set of naturals has a least element.
LEMMA LeastNatural ==
  ASSUME NEW T, T \subseteq Nat, T # {}
  PROVE  \E n \in T : \A k \in T : n <= k
  <1> DEFINE Less == {pair \in Nat \X Nat : pair[1] < pair[2]}
  <1>1. IsWellFoundedOn(Less, Nat)
    <2>1. Less = OpToRel(<, Nat)
      BY DEF OpToRel
    <2>2. QED
      BY <2>1, NatLessThanWellFounded, Zenon
  <1>2. PICK n \in T : \A k \in T : <<k, n>> \notin Less
    <2> HIDE DEF Less
    <2>1. QED
      BY <1>1, WFMin
  <1>3. \A k \in T : ~(k < n)
    <2> SUFFICES ASSUME NEW k \in T PROVE ~(k < n)
      OBVIOUS
    <2>1. <<k, n>> \notin Less /\ <<k, n>> \in Nat \X Nat
      BY <1>2
    <2>2. k < n => <<k, n>> \in Less
      BY <2>1
    <2>3. QED
      BY <2>1, <2>2
  <1>4. \A k \in T : k \in Nat
    OBVIOUS
  <1>5. QED
    BY <1>3, <1>4

\* A set of places has a last one.
LEMMA LastPlace ==
  ASSUME NEW n \in Nat, NEW T, T \subseteq 1 .. n, T # {}
  PROVE  \E i \in T : \A j \in T : j <= i
  <1> DEFINE U == {m \in 0 .. n : n - m \in T}
  <1>1. PICK t \in T : TRUE
    OBVIOUS
  <1>2. n - t \in U
    BY <1>1
  <1>3. PICK u \in U : \A m \in U : u <= m
    <2>1. U \subseteq Nat
      OBVIOUS
    <2> HIDE DEF U
    <2>2. U # {}
      BY <1>2
    <2>3. QED
      BY <2>1, <2>2, LeastNatural
  <1>4. n - u \in T
    BY <1>3
  <1>5. ASSUME NEW j \in T PROVE j <= n - u
    <2>1. n - j \in U
      BY <1>5
    <2>2. u <= n - j /\ u \in 0 .. n /\ j \in 1 .. n
      BY <2>1, <1>3, <1>5
    <2>3. QED
      BY <2>2
  <1>6. QED
    BY <1>4, <1>5

\* The places from which the last m bytes, or fewer, can be cut.
CutsBehind(n, chars, cuts, m) ==
  /\ cuts \subseteq 1 .. n + 4
  /\ \A i \in 1 .. n + 4 : i > n - m =>
       (i \in cuts <=> (i > n \/ \E k \in 1 .. 4 : k \in chars[i] /\ i + k \in cuts))

\* There are such places, whatever the sizes of pieces.
LEMMA CutsExist ==
  ASSUME NEW n \in Nat, NEW chars
  PROVE  \E cuts : Cuts(n, chars, cuts)
  <1> DEFINE Bad == {m \in Nat : ~\E cuts : CutsBehind(n, chars, cuts, m)}
  <1>1. Bad = {}
    <2> SUFFICES ASSUME Bad # {} PROVE FALSE
      OBVIOUS
    <2>1. PICK b \in Bad : \A m \in Bad : b <= m
      <3>1. Bad \subseteq Nat
        OBVIOUS
      <3> HIDE DEF Bad
      <3>2. QED
        BY <3>1, LeastNatural
    <2>2. b \in Nat /\ ~\E cuts : CutsBehind(n, chars, cuts, b)
      BY <2>1
    <2>3. CutsBehind(n, chars, n + 1 .. n + 4, 0)
      BY DEF CutsBehind
    <2>4. b # 0
      BY <2>2, <2>3
    <2>5. b - 1 \in Nat /\ b - 1 \notin Bad
      BY <2>1, <2>2, <2>4
    <2>6. PICK cuts : CutsBehind(n, chars, cuts, b - 1)
      BY <2>5
    <2>7. PICK p : p = n - b + 1
      OBVIOUS
    <2>8. p \in Int /\ p <= n
      BY <2>7, <2>4, <2>2
    <2> HIDE DEF Bad
    <2> DEFINE fits == \E k \in 1 .. 4 : k \in chars[p] /\ p + k \in cuts
    <2>9. PICK more : more = (cuts \ {p}) \cup (IF p >= 1 /\ fits THEN {p} ELSE {})
      OBVIOUS
    <2>10. \A i \in 1 .. n + 4 : i # p => (i \in more <=> i \in cuts)
      BY <2>9
    <2>11. more \subseteq 1 .. n + 4
      BY <2>6, <2>8, <2>9 DEF CutsBehind
    <2>12. ASSUME NEW i \in 1 .. n + 4, i >= p
           PROVE  (\E k \in 1 .. 4 : k \in chars[i] /\ i + k \in more)
                    <=> (\E k \in 1 .. 4 : k \in chars[i] /\ i + k \in cuts)
      <3>1. ASSUME NEW k \in 1 .. 4 PROVE i + k \in more <=> i + k \in cuts
        <4>1. i + k # p
          BY <2>12, <2>8
        <4>2. QED
          BY <2>9, <4>1
      <3>2. QED
        BY <3>1
    <2>13. p \in more <=> p >= 1 /\ fits
      BY <2>9
    <2> HIDE DEF fits
    <2>14. ASSUME NEW i \in 1 .. n + 4, i > n - b
           PROVE  i \in more <=> (i > n \/ \E k \in 1 .. 4 : k \in chars[i] /\ i + k \in more)
      <3>1. i >= p
        BY <2>7, <2>14, <2>2
      <3>2. CASE i = p
        BY <2>8, <2>12, <2>13, <3>1, <3>2 DEF fits
      <3>3. CASE i # p
        <4>1. i > n - (b - 1)
          BY <2>7, <3>1, <3>3, <2>2
        <4>2. i \in cuts <=> (i > n \/ \E k \in 1 .. 4 : k \in chars[i] /\ i + k \in cuts)
          BY <4>1, <2>6 DEF CutsBehind
        <4>3. QED
          BY <4>2, <2>10, <2>12, <3>1, <3>3
      <3>4. QED
        BY <3>2, <3>3
    <2>15. CutsBehind(n, chars, more, b)
      BY <2>11, <2>14 DEF CutsBehind
    <2>16. QED
      BY <2>2, <2>15
  <1>2. PICK cuts : CutsBehind(n, chars, cuts, n)
    BY <1>1
  <1>3. Cuts(n, chars, cuts)
    BY <1>2 DEF CutsBehind, Cuts
  <1>4. QED
    BY <1>3

\* With more pieces to take, there are more places.
LEMMA CutsMore ==
  ASSUME NEW n \in Nat, NEW chars, NEW more, NEW cuts, NEW others,
         Cuts(n, chars, cuts), Cuts(n, more, others),
         \A i \in 1 .. n : \A k \in 1 .. 4 : i \in cuts /\ k \in chars[i] => k \in more[i]
  PROVE  cuts \subseteq others
  <1> DEFINE Bad == cuts \ others
  <1> SUFFICES ASSUME Bad # {} PROVE FALSE
    OBVIOUS
  <1>1. PICK i \in Bad : \A j \in Bad : j <= i
    <2>1. Bad \subseteq 1 .. n + 4 /\ n + 4 \in Nat
      BY DEF Cuts
    <2> HIDE DEF Bad
    <2>2. QED
      BY <2>1, LastPlace
  <1>2. i \in cuts /\ i \notin others /\ i \in 1 .. n + 4
    BY <1>1 DEF Cuts
  <1>3. i <= n
    BY <1>2 DEF Cuts
  <1>4. PICK k \in 1 .. 4 : k \in chars[i] /\ i + k \in cuts
    BY <1>2, <1>3 DEF Cuts
  <1>5. i + k \in others
    BY <1>1, <1>2, <1>4
  <1>6. k \in more[i]
    BY <1>2, <1>3, <1>4
  <1>7. QED
    BY <1>2, <1>4, <1>5, <1>6 DEF Cuts

-----------------------------------------------------------------------------
(* The code and the reference as such cuts. *)

\* The sizes of a character at i: the one the code takes, and those of the reference.
Sizes(s) == [i \in 1 .. Len(s) |-> {k \in 1 .. 4 : CharSize(s, i) = k}]

Char(s, loosely, i, k) ==
  /\ s[i] \in First[k] \cup (IF loosely /\ k = 1 THEN 128 .. 191 ELSE {})
  /\ \A j \in 2 .. k : InRange(s, i + j - 1, 128, 191)
  /\ k > 1 /\ i < Len(s) =>
       s[i + 1] \in IF loosely /\ s[i] = 244 THEN 128 .. 191 ELSE SecondOf(s[i])

Chars(s, loosely) == [i \in 1 .. Len(s) |-> {k \in 1 .. 4 : Char(s, loosely, i, k)}]

\* The recursive functions they are written as, with what they are made of given.
TextStep(s, f, i) == i > Len(s) \/ (CharSize(s, i) > 0 /\ f[i + CharSize(s, i)])
Utf8Step(s, l, f, i) == i > Len(s) \/ \E k \in 1 .. 4 : Char(s, l, i, k) /\ f[i + k]

IsText(s, f) == f = [i \in 1 .. Len(s) + 4 |-> TextStep(s, f, i)]
IsUtf8By(s, l, f) == f = [i \in 1 .. Len(s) + 4 |-> Utf8Step(s, l, f, i)]

\* The size by the first byte, with what is asked of the others given.
SizeOf(c, in1, in2, in3, after) ==
  CASE c < 32             -> IF c \in CtrlChars THEN 1 ELSE 0
    [] c \in 32 .. 127    -> 1
    [] c \in {192, 193} \cup (245 .. 255) -> 0
    [] c \in 194 .. 223   -> IF in1 THEN 2 ELSE 0
    [] c \in 224 .. 239   -> IF in2 /\ after THEN 3 ELSE 0
    [] c \in 240 .. 244   -> IF in2 /\ in3 /\ after THEN 4 ELSE 0
    [] OTHER              -> 1

SizeTable(c, in1, in2, in3, after, size) ==
  /\ size \in 0 .. 4
  /\ c < 32 => size = IF c \in CtrlChars THEN 1 ELSE 0
  /\ c >= 32 /\ c <= 191 => size = 1
  /\ c = 192 \/ c = 193 \/ c >= 245 => size = 0
  /\ c >= 194 /\ c <= 223 => size = IF in1 THEN 2 ELSE 0
  /\ c >= 224 /\ c <= 239 => size = IF in2 /\ after THEN 3 ELSE 0
  /\ c >= 240 /\ c <= 244 => size = IF in2 /\ in3 /\ after THEN 4 ELSE 0

\* CharSize, written as the cases of the code's tests.
LEMMA SizeCases ==
  ASSUME NEW c \in 0 .. 255, NEW in1 \in BOOLEAN, NEW in2 \in BOOLEAN, NEW in3 \in BOOLEAN,
         NEW after \in BOOLEAN
  PROVE  SizeTable(c, in1, in2, in3, after, SizeOf(c, in1, in2, in3, after))
  BY DEF SizeOf, SizeTable

After(s, i) == i + 1 <= Len(s) => s[i + 1] \in Second(s[i])

\* A character takes up to four bytes, as many as its first byte says.
LEMMA SizeIs ==
  ASSUME NEW s, IsBytes(s), NEW i \in 1 .. Len(s)
  PROVE  /\ s[i] \in 0 .. 255 /\ Len(s) \in Nat
         /\ CharSize(s, i) \in 0 .. 4
         /\ s[i] < 32 => CharSize(s, i) = IF s[i] \in CtrlChars THEN 1 ELSE 0
         /\ s[i] >= 32 /\ s[i] <= 191 => CharSize(s, i) = 1
         /\ s[i] = 192 \/ s[i] = 193 \/ s[i] >= 245 => CharSize(s, i) = 0
         /\ s[i] >= 194 /\ s[i] <= 223 =>
              CharSize(s, i) = IF InRange(s, i + 1, 128, 191) THEN 2 ELSE 0
         /\ s[i] >= 224 /\ s[i] <= 239 =>
              CharSize(s, i) = IF InRange(s, i + 2, 128, 191) /\ After(s, i) THEN 3 ELSE 0
         /\ s[i] >= 240 /\ s[i] <= 244 =>
              CharSize(s, i) = IF /\ InRange(s, i + 2, 128, 191)
                                  /\ InRange(s, i + 3, 128, 191)
                                  /\ After(s, i)
                               THEN 4 ELSE 0
  <1>1. s[i] \in 0 .. 255 /\ Len(s) \in Nat
    BY ElementOfSeq, LenProperties DEF IsBytes
  <1>2. CharSize(s, i) = SizeOf(s[i], InRange(s, i + 1, 128, 191), InRange(s, i + 2, 128, 191),
                                InRange(s, i + 3, 128, 191), After(s, i))
    BY Zenon DEF CharSize, SizeOf, After
  <1>3. PICK c \in 0 .. 255 : c = s[i]
    BY <1>1
  <1>4. PICK in1 \in BOOLEAN : in1 = InRange(s, i + 1, 128, 191)
    BY Zenon DEF InRange
  <1>5. PICK in2 \in BOOLEAN : in2 = InRange(s, i + 2, 128, 191)
    BY Zenon DEF InRange
  <1>6. PICK in3 \in BOOLEAN : in3 = InRange(s, i + 3, 128, 191)
    BY Zenon DEF InRange
  <1>7. PICK after \in BOOLEAN : after = After(s, i)
    BY Zenon DEF After
  <1>8. SizeTable(c, in1, in2, in3, after, SizeOf(c, in1, in2, in3, after))
    BY SizeCases
  <1>9. SizeTable(c, in1, in2, in3, after, CharSize(s, i))
    BY <1>2, <1>3, <1>4, <1>5, <1>6, <1>7, <1>8, Zenon
  <1>10. QED
    BY <1>1, <1>3, <1>4, <1>5, <1>6, <1>7, <1>9 DEF SizeTable

\* LooksLikeText asks whether the input can be cut in characters of the code.
LEMMA TextIsCut ==
  ASSUME NEW s, IsBytes(s)
  PROVE  \E cuts : Cuts(Len(s), Sizes(s), cuts) /\ (LooksLikeText(s) <=> 1 \in cuts)
  <1> DEFINE f == CHOOSE f : IsText(s, f)
  <1>1. LooksLikeText(s) = f[1]
    BY Zenon DEF LooksLikeText, IsText, TextStep
  <1>2. Len(s) \in Nat
    BY DEF IsBytes
  <1>3. PICK cuts : Cuts(Len(s), Sizes(s), cuts)
    BY <1>2, CutsExist
  <1> DEFINE g == [i \in 1 .. Len(s) + 4 |-> i \in cuts]
  <1>4. IsText(s, g)
    <2> SUFFICES ASSUME NEW i \in 1 .. Len(s) + 4 PROVE (i \in cuts) = TextStep(s, g, i)
      BY Zenon DEF IsText
    <2>1. CASE i > Len(s)
      BY <2>1, <1>3 DEF TextStep, Cuts
    <2>2. CASE i <= Len(s)
      <3>1. CharSize(s, i) \in 0 .. 4 /\ i \in 1 .. Len(s)
        BY <1>2, <2>2, SizeIs
      <3>2. Sizes(s)[i] = {k \in 1 .. 4 : CharSize(s, i) = k}
        BY <3>1 DEF Sizes
      <3>3. PICK k \in 0 .. 4 : k = CharSize(s, i)
        BY <3>1
      <3>4. i \in cuts <=> k > 0 /\ i + k \in cuts
        BY <3>1, <3>2, <3>3, <2>2, <1>3 DEF Cuts
      <3>5. i + k \in 1 .. Len(s) + 4
        BY <3>1, <3>3, <1>2
      <3>6. g[i + k] <=> i + k \in cuts
        BY <3>5
      <3> HIDE DEF g
      <3>7. QED
        BY <3>3, <3>4, <3>6, <2>2, <3>1 DEF TextStep
    <2>3. QED
      BY <2>1, <2>2, <1>2
  <1>5. IsText(s, f)
    BY <1>4, Zenon
  <1> HIDE DEF f, g
  <1>6. PICK cut : cut = {i \in 1 .. Len(s) + 4 : f[i]}
    OBVIOUS
  <1>7. Cuts(Len(s), Sizes(s), cut)
    <2>1. ASSUME NEW i \in 1 .. Len(s) + 4
          PROVE  i \in cut <=> (i > Len(s) \/ \E k \in 1 .. 4 : k \in Sizes(s)[i] /\ i + k \in cut)
      <3>1. i \in cut <=> TextStep(s, f, i)
        <4>1. f[i] = TextStep(s, f, i)
          BY <1>5, Zenon DEF IsText
        <4>2. QED
          BY <4>1, <1>6
      <3>2. CASE i > Len(s)
        BY <3>1, <3>2 DEF TextStep
      <3>3. CASE i <= Len(s)
        <4>1. CharSize(s, i) \in 0 .. 4 /\ i \in 1 .. Len(s)
          BY <1>2, <3>3, SizeIs
        <4>2. Sizes(s)[i] = {k \in 1 .. 4 : CharSize(s, i) = k}
          BY <4>1 DEF Sizes
        <4>3. PICK k \in 0 .. 4 : k = CharSize(s, i)
          BY <4>1
        <4>4. i + k \in 1 .. Len(s) + 4
          BY <4>1, <4>3, <1>2
        <4>5. i \in cut <=> k > 0 /\ i + k \in cut
          BY <4>3, <4>4, <3>1, <3>3, <1>2, <1>6 DEF TextStep
        <4>6. QED
          BY <4>1, <4>2, <4>3, <4>5, <3>3
      <3>4. QED
        BY <3>2, <3>3, <1>2
    <2>2. QED
      BY <2>1, <1>6 DEF Cuts
  <1>8. LooksLikeText(s) <=> 1 \in cut
    BY <1>1, <1>2, <1>6
  <1>9. QED
    BY <1>7, <1>8

\* IsUtf8 asks whether it can be cut in characters of Unicode's table.
LEMMA Utf8IsCut ==
  ASSUME NEW s, IsBytes(s), NEW l \in BOOLEAN
  PROVE  \E cuts : Cuts(Len(s), Chars(s, l), cuts) /\ (IsUtf8(s, l) <=> 1 \in cuts)
  <1> DEFINE f == CHOOSE f : IsUtf8By(s, l, f)
  <1>1. IsUtf8(s, l) = f[1]
    BY Zenon DEF IsUtf8, IsUtf8By, Utf8Step, Char
  <1>2. Len(s) \in Nat
    BY DEF IsBytes
  <1>3. PICK cuts : Cuts(Len(s), Chars(s, l), cuts)
    BY <1>2, CutsExist
  <1> DEFINE g == [i \in 1 .. Len(s) + 4 |-> i \in cuts]
  <1>4. IsUtf8By(s, l, g)
    <2> SUFFICES ASSUME NEW i \in 1 .. Len(s) + 4 PROVE i \in cuts <=> Utf8Step(s, l, g, i)
      BY DEF IsUtf8By, Utf8Step
    <2>1. CASE i > Len(s)
      BY <2>1, <1>3 DEF Utf8Step, Cuts
    <2>2. CASE i <= Len(s)
      <3>1. Chars(s, l)[i] = {k \in 1 .. 4 : Char(s, l, i, k)} /\ i \in 1 .. Len(s)
        BY <2>2, <1>2 DEF Chars
      <3>2. ASSUME NEW k \in 1 .. 4 PROVE g[i + k] <=> i + k \in cuts
        <4>1. i + k \in 1 .. Len(s) + 4
          BY <3>1, <1>2
        <4>2. QED
          BY <4>1
      <3> HIDE DEF g
      <3>3. QED
        BY <3>1, <3>2, <2>2, <1>2, <1>3 DEF Utf8Step, Cuts
    <2>3. QED
      BY <2>1, <2>2, <1>2
  <1>5. IsUtf8By(s, l, f)
    BY <1>4, Zenon
  <1> HIDE DEF f, g
  <1>6. PICK cut : cut = {i \in 1 .. Len(s) + 4 : f[i]}
    OBVIOUS
  <1>7. Cuts(Len(s), Chars(s, l), cut)
    <2>1. ASSUME NEW i \in 1 .. Len(s) + 4
          PROVE  i \in cut <=>
                   (i > Len(s) \/ \E k \in 1 .. 4 : k \in Chars(s, l)[i] /\ i + k \in cut)
      <3>1. i \in cut <=> Utf8Step(s, l, f, i)
        <4>1. f[i] = Utf8Step(s, l, f, i)
          BY <1>5, Zenon DEF IsUtf8By
        <4>2. QED
          BY <4>1, <1>6
      <3>2. CASE i > Len(s)
        BY <3>1, <3>2 DEF Utf8Step
      <3>3. CASE i <= Len(s)
        <4>1. Chars(s, l)[i] = {k \in 1 .. 4 : Char(s, l, i, k)} /\ i \in 1 .. Len(s)
          BY <3>3, <1>2 DEF Chars
        <4>2. \A k \in 1 .. 4 : f[i + k] <=> i + k \in cut
          BY <4>1, <1>2, <1>6
        <4>3. QED
          BY <4>1, <4>2, <3>1, <3>3 DEF Utf8Step
      <3>4. QED
        BY <3>2, <3>3, <1>2
    <2>2. QED
      BY <2>1, <1>6 DEF Cuts
  <1>8. IsUtf8(s, l) <=> 1 \in cut
    BY <1>1, <1>2, <1>6
  <1>9. QED
    BY <1>7, <1>8

-----------------------------------------------------------------------------
(* Characters. *)

\* What Unicode's table calls a character the code does too, but for control characters and Hangul.
LEMMA TableIsTaken ==
  ASSUME NEW s, IsBytes(s), NEW i \in 1 .. Len(s), NEW k \in 1 .. 4, Char(s, FALSE, i, k),
         s[i] < 32 => s[i] \in Layout,
         ~(i < Len(s) /\ s[i] = 237 /\ s[i + 1] \in 128 .. 143)
  PROVE  CharSize(s, i) = k
  <1>1. s[i] \in 0 .. 255 /\ Len(s) \in Nat
    BY SizeIs
  <1>2. PICK c \in 0 .. 255 : c = s[i]
    BY <1>1
  <1> HIDE DEF First
  <1>7. c \in First[k]
    <2>1. c \in First[k] \cup (IF FALSE /\ k = 1 THEN 128 .. 191 ELSE {})
      BY <1>2, Zenon DEF Char
    <2>2. QED
      BY <2>1
  <1>8. First[1] = 0 .. 127 /\ First[2] = 194 .. 223 /\ First[3] = 224 .. 239 /\ First[4] = 240 .. 244
    BY DEF First
  <1>3. CASE k = 1
    <2>1. c <= 127
      BY <1>3, <1>7, <1>8
    <2>2. c < 32 => c \in CtrlChars
      BY <1>2 DEF Layout, CtrlChars
    <2>3. QED
      BY <2>1, <2>2, <1>2, <1>3, SizeIs
  <1>4. CASE k = 2
    <2>1. c >= 194 /\ c <= 223
      BY <1>4, <1>7, <1>8
    <2>2. InRange(s, i + 1, 128, 191)
      <3>1. InRange(s, i + 2 - 1, 128, 191)
        BY <1>4 DEF Char
      <3>2. i + 2 - 1 = i + 1
        OBVIOUS
      <3>3. QED
        BY <3>1, <3>2
    <2>3. QED
      BY <2>1, <2>2, <1>2, <1>4, SizeIs
  <1>5. CASE k \in 3 .. 4
    <2>1. c >= 224 /\ c <= 244 /\ (k = 3 <=> c <= 239)
      <3>2. k = 3 => c \in First[3]
        BY <1>7, Zenon
      <3>3. k = 4 => c \in First[4]
        BY <1>7, Zenon
      <3>4. First[3] = 224 .. 239 /\ First[4] = 240 .. 244
        BY <1>8
      <3>5. k = 3 => c \in 224 .. 239
        BY <3>2, <3>4
      <3>6. k = 4 => c \in 240 .. 244
        BY <3>3, <3>4
      <3>7. (c \in 224 .. 239 => c >= 224 /\ c <= 239) /\ (c \in 240 .. 244 => c >= 240 /\ c <= 244)
        OBVIOUS
      <3>8. k = 3 \/ k = 4
        BY <1>5
      <3>9. QED
        BY <3>5, <3>6, <3>7, <3>8
    <2>2. \A j \in 2 .. k : InRange(s, i + j - 1, 128, 191)
      BY DEF Char
    <2>3. i + 3 - 1 = i + 2 /\ i + 4 - 1 = i + 3 /\ 3 \in 2 .. k /\ (k = 4 => 4 \in 2 .. k)
      BY <1>5
    <2>4. InRange(s, i + 2, 128, 191) /\ (k = 4 => InRange(s, i + 3, 128, 191))
      BY <2>2, <2>3
    <2>5. After(s, i)
      <3>1. SUFFICES ASSUME i < Len(s) PROVE s[i + 1] \in Second(s[i])
        BY <1>1 DEF After
      <3>2. PICK d : d = s[i + 1]
        OBVIOUS
      <3>3. d \in SecondOf(c)
        BY <1>2, <1>5, <3>1, <3>2 DEF Char
      <3>4. d \in 0 .. 255
        BY <1>1, <3>1, <3>2, SizeIs
      <3>5. ~(c = 237 /\ d \in 128 .. 143)
        BY <1>2, <3>1, <3>2
      <3>6. c = 237 => d \in Second(c)
        <4>1. c = 237 => d \in 128 .. 159
          BY <3>3 DEF SecondOf
        <4>2. c = 237 => d \in 144 .. 159
          BY <4>1, <3>5
        <4>3. QED
          BY <4>2 DEF Second
      <3>7. c # 237 => d \in Second(c)
        BY <3>3, <3>4 DEF Second, SecondOf
      <3>8. QED
        BY <3>6, <3>7, <3>2, <1>2
    <2>6. QED
      BY <2>1, <2>4, <2>5, <1>2, <1>5, SizeIs
  <1>6. QED
    BY <1>3, <1>4, <1>5

\* What the code calls a character is one of the table, loosely.
LEMMA TakenIsLoose ==
  ASSUME NEW s, IsBytes(s), NEW i \in 1 .. Len(s), NEW k \in 1 .. 4, CharSize(s, i) = k
  PROVE  Char(s, TRUE, i, k)
  <1>1. s[i] \in 0 .. 255 /\ Len(s) \in Nat
    BY SizeIs
  <1>2. PICK c \in 0 .. 255 : c = s[i]
    BY <1>1
  <1>3. CASE c <= 191
    <2>1. k = 1
      BY <1>2, <1>3, SizeIs
    <2>2. c \in First[1] \cup 128 .. 191
      BY <1>3 DEF First
    <2>3. QED
      BY <2>1, <2>2, <1>2 DEF Char
  <1>4. CASE c >= 194 /\ c <= 223
    <2>1. k = 2 /\ InRange(s, i + 1, 128, 191)
      BY <1>2, <1>4, SizeIs
    <2>2. \A j \in 2 .. k : InRange(s, i + j - 1, 128, 191)
      <3>1. \A j \in 2 .. k : i + j - 1 = i + 1
        BY <2>1
      <3>2. QED
        BY <2>1, <3>1
    <2>3. i < Len(s) => s[i + 1] \in 128 .. 191
      BY <2>1, <1>1 DEF InRange
    <2>4. SecondOf(c) = 128 .. 191 /\ c # 244
      BY <1>4 DEF SecondOf
    <2>5. c \in First[2]
      BY <1>4 DEF First
    <2>6. QED
      BY <2>1, <2>2, <2>3, <2>4, <2>5, <1>2 DEF Char
  <1>5. CASE c >= 224 /\ c <= 244
    <2>1. /\ k = IF c <= 239 THEN 3 ELSE 4
          /\ InRange(s, i + 2, 128, 191) /\ (k = 4 => InRange(s, i + 3, 128, 191))
          /\ After(s, i)
      BY <1>2, <1>5, SizeIs
    <2>2. PICK d : d = s[i + 1]
      OBVIOUS
    <2>3. i < Len(s) => d \in Second(c) /\ d \in 0 .. 255
      BY <2>1, <2>2, <1>1, <1>2, SizeIs DEF After
    <2>4. i < Len(s) => d \in 128 .. 191 /\ (c # 244 => d \in SecondOf(c))
      BY <2>3, <1>5 DEF Second, SecondOf
    <2>5. InRange(s, i + 1, 128, 191)
      BY <2>2, <2>4, <1>1 DEF InRange
    <2>6. ASSUME NEW j \in 2 .. k PROVE InRange(s, i + j - 1, 128, 191)
      <3>1. \/ i + j - 1 = i + 1
            \/ i + j - 1 = i + 2
            \/ i + j - 1 = i + 3 /\ k = 4
        BY <2>1
      <3>2. QED
        BY <3>1, <2>1, <2>5
    <2>7. c \in First[k] /\ k > 1
      BY <2>1, <1>5 DEF First
    <2>8. QED
      BY <2>2, <2>4, <2>6, <2>7, <1>2 DEF Char
  <1>6. c # 192 /\ c # 193 /\ c <= 244
    <2>1. c = 192 \/ c = 193 \/ c >= 245 => k = 0
      BY <1>2, SizeIs
    <2>2. QED
      BY <2>1
  <1>7. c <= 191 \/ (c >= 194 /\ c <= 223) \/ (c >= 224 /\ c <= 244)
    BY <1>6
  <1>8. QED
    BY <1>3, <1>4, <1>5, <1>7

Clean(c) == c < 32 => c \in Layout \cup {NUL}

\* A character of the code has no control character in it but those it lets through.
LEMMA TakenIsClean ==
  ASSUME NEW s, IsBytes(s), NEW i \in 1 .. Len(s), CharSize(s, i) > 0,
         NEW j \in i .. i + CharSize(s, i) - 1, j <= Len(s)
  PROVE  Clean(s[j])
  <1>1. s[i] \in 0 .. 255 /\ Len(s) \in Nat /\ CharSize(s, i) \in 0 .. 4
    BY SizeIs
  <1>2. PICK k \in 1 .. 4 : k = CharSize(s, i)
    BY <1>1
  <1>3. CASE j = i
    <2>1. s[i] < 32 => s[i] \in CtrlChars
      BY SizeIs
    <2>2. QED
      BY <2>1, <1>3 DEF Clean, Layout, NUL, CtrlChars
  <1>4. CASE j > i
    <2>1. Char(s, TRUE, i, k)
      BY <1>2, TakenIsLoose
    <2>2. PICK m \in 2 .. 4 : m = j - i + 1
      BY <1>2, <1>4
    <2>3. m \in 2 .. k /\ j = i + m - 1
      BY <1>2, <2>2
    <2>4. InRange(s, j, 128, 191)
      BY <2>1, <2>3 DEF Char
    <2>5. PICK c : c = s[j]
      OBVIOUS
    <2>6. c \in 128 .. 191
      BY <2>4, <2>5 DEF InRange
    <2>7. ~(c < 32)
      BY <2>6
    <2>8. QED
      BY <2>7, <2>5 DEF Clean
  <1>5. QED
    BY <1>3, <1>4, <1>1, <1>2

\* So what can be cut in such characters has none.
LEMMA CutIsClean ==
  ASSUME NEW s, IsBytes(s), NEW cuts, Cuts(Len(s), Sizes(s), cuts), 1 \in cuts
  PROVE  \A j \in 1 .. Len(s) : Clean(s[j])
  <1> DEFINE Bad == {p \in cuts : \E j \in 1 .. Len(s) : j >= p /\ ~Clean(s[j])}
  <1>1. Len(s) \in Nat
    BY LenProperties DEF IsBytes
  <1> SUFFICES ASSUME Bad # {} PROVE FALSE
    <2>1. 1 \notin Bad
      OBVIOUS
    <2>2. QED
      BY <2>1
  <1>2. PICK p \in Bad : \A q \in Bad : q <= p
    <2>1. cuts \subseteq 1 .. Len(s) + 4
      BY Zenon DEF Cuts
    <2>2. Bad \subseteq 1 .. Len(s) + 4
      BY <2>1
    <2> HIDE DEF Bad
    <2>3. QED
      <3>1. PICK n \in Nat : n = Len(s) + 4
        BY <1>1
      <3>2. QED
        BY <2>2, <3>1, LastPlace
  <1>3. PICK j \in 1 .. Len(s) : j >= p /\ ~Clean(s[j])
    BY <1>2
  <1>4. p \in cuts /\ p \in 1 .. Len(s)
    BY <1>1, <1>2, <1>3 DEF Cuts
  <1>5. PICK k \in 1 .. 4 : k \in Sizes(s)[p] /\ p + k \in cuts
    BY <1>1, <1>4 DEF Cuts
  <1>6. CharSize(s, p) = k
    BY <1>4, <1>5 DEF Sizes
  <1>7. CASE j < p + k
    <2>1. j \in p .. p + CharSize(s, p) - 1
      BY <1>6, <1>7, <1>3, <1>4
    <2>2. QED
      BY <2>1, <1>3, <1>4, <1>6, TakenIsClean
  <1>8. CASE j >= p + k
    <2>1. p + k \in Bad
      BY <1>5, <1>8, <1>3
    <2>2. p + k <= p
      BY <2>1, <1>2
    <2>3. QED
      BY <2>2, <1>4
  <1>9. QED
    BY <1>7, <1>8, <1>3, <1>4

-----------------------------------------------------------------------------
(* Texts. *)

\* Text without control characters and without the Hangul looks like text.
LEMMA TextIsTaken ==
  ASSUME NEW s, IsBytes(s), IsUtf8(s, FALSE), ~HasControl(s, Layout),
         ~\E i \in 1 .. Len(s) - 1 : s[i] = 237 /\ s[i + 1] \in 128 .. 143
  PROVE  LooksLikeText(s)
  <1>1. Len(s) \in Nat /\ DOMAIN s = 1 .. Len(s)
    BY LenProperties DEF IsBytes
  <1>2. PICK cuts : Cuts(Len(s), Chars(s, FALSE), cuts) /\ 1 \in cuts
    BY Utf8IsCut
  <1>3. PICK others : Cuts(Len(s), Sizes(s), others) /\ (LooksLikeText(s) <=> 1 \in others)
    BY TextIsCut
  <1>4. ASSUME NEW i \in 1 .. Len(s), NEW k \in 1 .. 4, k \in Chars(s, FALSE)[i]
        PROVE  k \in Sizes(s)[i]
    <2>1. Char(s, FALSE, i, k)
      BY <1>4 DEF Chars
    <2>2. s[i] < 32 => s[i] \in Layout
      BY <1>1 DEF HasControl
    <2>3. ~(i < Len(s) /\ s[i] = 237 /\ s[i + 1] \in 128 .. 143)
      BY <1>1
    <2>4. CharSize(s, i) = k
      BY <2>1, <2>2, <2>3, TableIsTaken
    <2>5. QED
      BY <2>4 DEF Sizes
  <1>5. cuts \subseteq others
    BY <1>1, <1>2, <1>3, <1>4, CutsMore
  <1>6. QED
    BY <1>2, <1>3, <1>5

\* What looks like text is text, loosely, with no control characters but those let through.
LEMMA TakenIsText ==
  ASSUME NEW s, IsBytes(s), LooksLikeText(s)
  PROVE  IsUtf8(s, TRUE) /\ ~HasControl(s, Layout \cup {NUL})
  <1>1. Len(s) \in Nat /\ DOMAIN s = 1 .. Len(s)
    BY LenProperties DEF IsBytes
  <1>2. PICK cuts : Cuts(Len(s), Sizes(s), cuts) /\ 1 \in cuts
    BY TextIsCut
  <1>3. PICK others : Cuts(Len(s), Chars(s, TRUE), others) /\ (IsUtf8(s, TRUE) <=> 1 \in others)
    BY Utf8IsCut
  <1>4. ASSUME NEW i \in 1 .. Len(s), NEW k \in 1 .. 4, k \in Sizes(s)[i]
        PROVE  k \in Chars(s, TRUE)[i]
    <2>1. CharSize(s, i) = k
      BY <1>4 DEF Sizes
    <2>2. Char(s, TRUE, i, k)
      BY <2>1, TakenIsLoose
    <2>3. QED
      BY <2>2 DEF Chars
  <1>5. cuts \subseteq others
    BY <1>1, <1>2, <1>3, <1>4, CutsMore
  <1>6. \A j \in 1 .. Len(s) : Clean(s[j])
    BY <1>2, CutIsClean
  <1>7. QED
    BY <1>1, <1>2, <1>3, <1>5, <1>6 DEF HasControl, Clean

Taken == srcs \in Seq(Seq(0 .. 255))

\* The inputs are sequences of bytes.
LEMMA TakenAlways == MakingSpec => []Taken
  <1>1. MakingInit => Taken
    BY EmptySeq DEF MakingInit, Taken
  <1>2. Taken /\ [Give]_making => Taken'
    BY MakingAssumption DEF Give, Taken, making
  <1>3. QED
    BY <1>1, <1>2, PTL DEF MakingSpec

\* What GuessedText says of one input.
LEMMA TextGuessed ==
  ASSUME NEW s \in Seq(0 .. 255), Unsigned(s)
  PROVE  /\ IsUtf8(s, FALSE) /\ ~HasControl(s, Layout) /\ ~HasHangul(s) => GuessType(s) = TEXT
         /\ GuessType(s) = TEXT => IsUtf8(s, TRUE) /\ ~HasControl(s, Layout \cup {NUL})
  <1>1. IsBytes(s)
    BY DEF IsBytes
  <1>2. GuessType(s) = IF LooksLikeText(s) THEN TEXT ELSE UNKNOWN
    <2>1. Len(s) \in Nat /\ Len(s) > 3
      BY LenProperties DEF Unsigned
    <2>2. {i \in DOMAIN Signatures : Signed(s, Signatures[i])} = {}
      BY DEF Unsigned
    <2>3. QED
      BY <2>1, <2>2 DEF GuessType, TEXT
  <1>3. GuessType(s) = TEXT <=> LooksLikeText(s)
    BY <1>2 DEF TEXT, UNKNOWN
  <1>4. IsUtf8(s, FALSE) /\ ~HasControl(s, Layout) /\ ~HasHangul(s) => LooksLikeText(s)
    BY <1>1, TextIsTaken DEF HasHangul
  <1>5. LooksLikeText(s) => IsUtf8(s, TRUE) /\ ~HasControl(s, Layout \cup {NUL})
    BY <1>1, TakenIsText
  <1>6. QED
    BY <1>3, <1>4, <1>5

\* Of all inputs, of any length, the guess takes for text what it should.
THEOREM GuessesText == MakingSpec => []GuessedText
  <1>1. Taken => GuessedText
    <2> SUFFICES ASSUME Taken, NEW i \in DOMAIN srcs, Unsigned(srcs[i])
                 PROVE  /\ /\ IsUtf8(srcs[i], FALSE)
                           /\ ~HasControl(srcs[i], Layout)
                           /\ ~HasHangul(srcs[i])
                           => GuessType(srcs[i]) = TEXT
                        /\ GuessType(srcs[i]) = TEXT =>
                             IsUtf8(srcs[i], TRUE) /\ ~HasControl(srcs[i], Layout \cup {NUL})
      BY DEF GuessedText
    <2>1. srcs[i] \in Seq(0 .. 255)
      BY ElementOfSeq, LenProperties DEF Taken
    <2>2. QED
      BY <2>1, TextGuessed
  <1>2. QED
    BY <1>1, TakenAlways, PTL

-----------------------------------------------------------------------------
(* Functions that are defined by recursion on 0 .. n. *)

\* What holds at 0 and goes from one to the next holds up to n.
LEMMA UpTo ==
  ASSUME NEW n \in Nat, NEW holds, 0 \in holds,
         \A i \in 1 .. n : i - 1 \in holds => i \in holds
  PROVE  \A i \in 0 .. n : i \in holds
  <1> DEFINE Bad == {i \in 0 .. n : i \notin holds}
  <1>1. SUFFICES ASSUME Bad # {} PROVE FALSE
    OBVIOUS
  <1>2. Bad \subseteq Nat
    OBVIOUS
  <1>3. PICK i \in Bad : \A k \in Bad : i <= k
    <2> HIDE DEF Bad
    <2>1. QED
      BY <1>1, <1>2, LeastNatural
  <1>4. i \in 1 .. n
    BY <1>3
  <1>5. i - 1 \in holds
    BY <1>3, <1>4
  <1>6. QED
    BY <1>3, <1>4, <1>5

Steps(step, n, V) == step \in [1 .. n -> [V -> V]]

Recurs(f, n, V, first, step) ==
  f \in [0 .. n -> V] /\ f[0] = first /\ \A i \in 1 .. n : f[i] = step[i][f[i - 1]]

\* A function is defined by its first value and by how each value follows from the one before.
LEMMA Recursion ==
  ASSUME NEW n \in Nat, NEW V, NEW first \in V, NEW step, Steps(step, n, V)
  PROVE  \E f : Recurs(f, n, V, first, step)
  <1> DEFINE Begun(k, f) ==
        f \in [0 .. k -> V] /\ f[0] = first /\ \A i \in 1 .. k : f[i] = step[i][f[i - 1]]
  <1> DEFINE Holds == {k \in 0 .. n : \E f : Begun(k, f)}
  <1>1. 0 \in Holds
    <2>1. Begun(0, [i \in 0 .. 0 |-> first])
      OBVIOUS
    <2> HIDE DEF Begun
    <2>2. \E f : Begun(0, f)
      BY <2>1
    <2>3. QED
      BY <2>2
  <1>2. ASSUME NEW k \in 1 .. n, k - 1 \in Holds PROVE k \in Holds
    <2>1. PICK f : Begun(k - 1, f)
      BY <1>2
    <2>2. k - 1 \in 0 .. k - 1 /\ f[k - 1] \in V
      BY <2>1
    <2>3. PICK v \in V : v = step[k][f[k - 1]]
      BY <2>2 DEF Steps
    <2>4. PICK g : g = [i \in 0 .. k |-> IF i = k THEN v ELSE f[i]]
      OBVIOUS
    <2>5. \A i \in 0 .. k - 1 : g[i] = f[i]
      BY <2>4
    <2>6. g \in [0 .. k -> V]
      BY <2>1, <2>3, <2>4
    <2>7. g[0] = first
      BY <2>1, <2>5
    <2>8. ASSUME NEW i \in 1 .. k PROVE g[i] = step[i][g[i - 1]]
      <3>1. g[i - 1] = f[i - 1]
        BY <2>5
      <3>2. CASE i = k
        <4>1. g[k] = v
          BY <2>4
        <4>2. v = step[k][g[k - 1]]
          BY <2>3, <3>1, <3>2, Zenon
        <4>3. QED
          BY <3>2, <4>1, <4>2, Zenon
      <3>3. CASE i # k
        <4>1. i \in 1 .. k - 1 /\ i \in 0 .. k - 1
          BY <3>3
        <4>2. g[i] = f[i] /\ f[i] = step[i][f[i - 1]]
          BY <2>1, <2>5, <4>1
        <4>3. QED
          BY <3>1, <4>2
      <3>4. QED
        BY <3>2, <3>3
    <2>9. Begun(k, g)
      BY <2>6, <2>7, <2>8
    <2> HIDE DEF Begun
    <2>10. \E h : Begun(k, h)
      BY <2>9
    <2>11. QED
      BY <2>10
  <1>3. n \in Holds
    <2> HIDE DEF Holds
    <2>1. \A i \in 0 .. n : i \in Holds
      BY <1>1, <1>2, UpTo
    <2>2. QED
      BY <2>1
  <1>4. QED
    BY <1>3 DEF Recurs

Pieces(ss, n, T) == ss = [i \in 1 .. n |-> ss[i]] /\ \A i \in 1 .. n : ss[i] \in Seq(T)

Lengths(size, n, ss) ==
  size \in [0 .. n -> Nat] /\ size[0] = 0 /\ \A i \in 1 .. n : size[i] = size[i - 1] + Len(ss[i])

\* What is put together is as long as its pieces.
LEMMA FlatLength ==
  ASSUME NEW T, NEW n \in Nat, NEW ss, Pieces(ss, n, T), NEW size, Lengths(size, n, ss)
  PROVE  FlattenSeq(ss) \in Seq(T) /\ Len(FlattenSeq(ss)) = size[n]
  <1> USE DEF Pieces, Lengths
  <1>1. ss \in Seq(Seq(T)) /\ Len(ss) = n
    <2>1. ss \in [1 .. n -> Seq(T)]
      OBVIOUS
    <2>2. QED
      BY <2>1, SeqDef, LenProperties
  <1>2. CASE n = 0
    <2>1. FlattenSeq(ss) = ss
      BY <1>1, <1>2 DEF FlattenSeq
    <2>2. ss = <<>>
      BY <1>1, <1>2, EmptySeq
    <2>3. QED
      BY <1>2, <2>1, <2>2, EmptySeq
  <1>3. CASE n # 0
    <2> DEFINE Flat(g) == g = [i \in 1 .. Len(ss) |-> IF i = 1 THEN ss[i] ELSE g[i - 1] \o ss[i]]
    <2>1. FlattenSeq(ss) = (CHOOSE g : Flat(g))[Len(ss)]
      <3>1. Len(ss) # 0
        BY <1>1, <1>3
      <3>2. QED
        BY <3>1, Zenon DEF FlattenSeq
    <2>2. \E g : Flat(g)
      <3> DEFINE step == [i \in 1 .. n |-> [v \in Seq(T) |-> IF i = 1 THEN ss[1] ELSE v \o ss[i]]]
      <3>1. step \in [1 .. n -> [Seq(T) -> Seq(T)]]
        <4> SUFFICES ASSUME NEW i \in 1 .. n, NEW v \in Seq(T)
                     PROVE  (IF i = 1 THEN ss[1] ELSE v \o ss[i]) \in Seq(T)
          OBVIOUS
        <4>1. ss[i] \in Seq(T) /\ ss[1] \in Seq(T)
          OBVIOUS
        <4>2. QED
          BY <4>1, ConcatProperties
      <3>2. <<>> \in Seq(T)
        BY EmptySeq
      <3>3. \A i \in 1 .. n : \A v \in Seq(T) : step[i][v] = IF i = 1 THEN ss[1] ELSE v \o ss[i]
        OBVIOUS
      <3> HIDE DEF step
      <3>4. PICK f \in [0 .. n -> Seq(T)] : \A i \in 1 .. n : f[i] = step[i][f[i - 1]]
        <4>1. \E f : Recurs(f, n, Seq(T), <<>>, step)
          <5>1. Steps(step, n, Seq(T))
            BY <3>1 DEF Steps
          <5>2. QED
            BY <3>2, <5>1, Recursion
        <4>2. QED
          BY <4>1 DEF Recurs
      <3>5. PICK g : g = [i \in 1 .. n |-> f[i]]
        OBVIOUS
      <3>6. ASSUME NEW i \in 1 .. n PROVE g[i] = IF i = 1 THEN ss[i] ELSE g[i - 1] \o ss[i]
        <4>1. i - 1 \in 0 .. n /\ f[i - 1] \in Seq(T)
          BY <3>4
        <4>2. g[i] = IF i = 1 THEN ss[1] ELSE f[i - 1] \o ss[i]
          BY <3>3, <3>4, <3>5, <4>1
        <4>3. i # 1 => g[i - 1] = f[i - 1]
          BY <3>5
        <4>4. QED
          BY <4>2, <4>3
      <3>7. Flat(g)
        <4>1. g = [i \in 1 .. n |-> g[i]]
          BY <3>5
        <4>2. g = [i \in 1 .. n |-> IF i = 1 THEN ss[i] ELSE g[i - 1] \o ss[i]]
          BY <3>6, <4>1
        <4>3. QED
          BY <1>1, <4>2
      <3>8. QED
        BY <3>7, Zenon
    <2>3. PICK g : g = (CHOOSE h : Flat(h)) /\ Flat(g)
      BY <2>2, Zenon
    <2>4. \A i \in 1 .. n : g[i] = IF i = 1 THEN ss[i] ELSE g[i - 1] \o ss[i]
      BY <1>1, <2>3
    <2> DEFINE Holds == {i \in 0 .. n : i # 0 => g[i] \in Seq(T) /\ Len(g[i]) = size[i]}
    <2>5. 0 \in Holds
      OBVIOUS
    <2>6. ASSUME NEW i \in 1 .. n, i - 1 \in Holds PROVE i \in Holds
      <3>1. ss[i] \in Seq(T) /\ Len(ss[i]) \in Nat /\ size[i] = size[i - 1] + Len(ss[i])
        BY LenProperties
      <3>2. CASE i = 1
        BY <2>4, <3>1, <3>2
      <3>3. CASE i # 1
        <4>1. g[i - 1] \in Seq(T) /\ Len(g[i - 1]) = size[i - 1]
          BY <2>6, <3>3
        <4>2. g[i] = g[i - 1] \o ss[i]
          BY <2>4, <3>3
        <4>3. g[i] \in Seq(T) /\ Len(g[i]) = Len(g[i - 1]) + Len(ss[i])
          BY <3>1, <4>1, <4>2, ConcatProperties
        <4>4. Len(g[i]) = size[i]
          BY <3>1, <4>1, <4>3
        <4>5. QED
          BY <4>3, <4>4
      <3>4. QED
        BY <3>2, <3>3
    <2>7. n \in Holds
      <3> HIDE DEF Holds
      <3>1. \A i \in 0 .. n : i \in Holds
        BY <2>5, <2>6, UpTo
      <3>2. QED
        BY <3>1
    <2>8. QED
      BY <1>1, <1>3, <2>1, <2>3, <2>7
  <1>4. QED
    BY <1>2, <1>3

-----------------------------------------------------------------------------
(* Parts: what is behind a long TLV's header is cut every MaxValue bytes. *)

\* A value may be four bytes long, or more.
LEMMA MaxValueIs == MaxValue \in Nat /\ MaxValue >= 4
  BY MaxValueAssumption

\* Dividing, with its rest.
LEMMA Divided ==
  ASSUME NEW x \in Nat, NEW m \in Nat, m > 0
  PROVE  x \div m \in Nat /\ x % m \in 0 .. m - 1 /\ x = m * (x \div m) + (x % m)
  OBVIOUS

\* The parts of x bytes are all full but perhaps the last, which is not empty.
LEMMA ChunksAre ==
  ASSUME NEW x \in Nat
  PROVE  /\ NbChunks(x) \in Nat
         /\ x <= NbChunks(x) * MaxValue
         /\ x > 0 => NbChunks(x) >= 1 /\ (NbChunks(x) - 1) * MaxValue < x
         /\ x = 0 => NbChunks(x) = 0
  <1>1. PICK m \in Nat : m = MaxValue /\ m > 0
    BY MaxValueIs
  <1>2. PICK q \in Nat : q = x \div m
    BY <1>1, Divided
  <1>3. PICK r \in 0 .. m - 1 : r = x % m
    BY <1>1, Divided
  <1>4. x = m * q + r
    BY <1>1, <1>2, <1>3, Divided
  <1>5. NbChunks(x) = q + (IF r = 0 THEN 0 ELSE 1)
    BY <1>1, <1>2, <1>3 DEF NbChunks
  <1>6. (q + 1) * m = m * q + m /\ (q - 1) * m = m * q - m /\ q * m = m * q /\ m * q \in Nat
    BY <1>1
  <1>7. CASE r = 0
    <2>1. NbChunks(x) = q
      BY <1>5, <1>7
    <2>2. x > 0 => q >= 1
      BY <1>1, <1>4, <1>7
    <2>3. x = 0 => q = 0
      BY <1>1, <1>4, <1>7
    <2>4. QED
      BY <1>1, <1>4, <1>6, <1>7, <2>1, <2>2, <2>3
  <1>8. CASE r # 0
    <2>1. NbChunks(x) = q + 1 /\ NbChunks(x) - 1 = q
      BY <1>5, <1>8
    <2>2. QED
      BY <1>1, <1>4, <1>6, <1>8, <2>1
  <1>9. QED
    BY <1>7, <1>8

\* More than a multiple of m is more than a smaller multiple.
LEMMA Multiples ==
  ASSUME NEW a \in Int, NEW b \in Int, NEW m \in Nat, a <= b
  PROVE  a * m \in Int /\ b * m \in Int /\ a * m <= b * m
  <1>1. PICK d \in Nat : d = b - a
    OBVIOUS
  <1>2. b = a + d
    BY <1>1
  <1>3. d * m >= 0 /\ d * m \in Int
    OBVIOUS
  <1>4. (a + d) * m = a * m + d * m
    OBVIOUS
  <1>5. a * m \in Int
    OBVIOUS
  <1>6. QED
    BY <1>2, <1>3, <1>4, <1>5

\* More bytes take as many parts, or more.
LEMMA ChunksGrow ==
  ASSUME NEW x \in Nat, NEW y \in Nat, x <= y
  PROVE  NbChunks(x) <= NbChunks(y)
  <1>1. PICK a \in Nat : a = NbChunks(x)
    BY ChunksAre
  <1>2. PICK b \in Nat : b = NbChunks(y)
    BY ChunksAre
  <1>3. PICK m \in Nat : m = MaxValue
    BY MaxValueIs
  <1>4. SUFFICES ASSUME b <= a - 1 PROVE FALSE
    BY <1>1, <1>2
  <1>5. x > 0 => (a - 1) * m < x
    BY <1>1, <1>3, ChunksAre
  <1>6. y <= b * m
    BY <1>2, <1>3, ChunksAre
  <1>7. b * m <= (a - 1) * m /\ b * m \in Int /\ (a - 1) * m \in Int
    BY <1>4, Multiples
  <1>8. x = 0 => a = 0
    BY <1>1, ChunksAre
  <1>9. QED
    BY <1>4, <1>5, <1>6, <1>7, <1>8

\* What does not fit in one value takes two parts or more.
LEMMA ChunksTwo ==
  ASSUME NEW x \in Nat
  PROVE  x > MaxValue <=> NbChunks(x) >= 2
  <1>1. PICK m \in Nat : m = MaxValue /\ m >= 4
    BY MaxValueIs
  <1>2. PICK a \in Nat : a = NbChunks(x)
    BY ChunksAre
  <1>3. x <= a * m /\ (x > 0 => a >= 1 /\ (a - 1) * m < x) /\ (x = 0 => a = 0)
    BY <1>1, <1>2, ChunksAre
  <1>4. a >= 2 => 1 * m <= (a - 1) * m /\ (a - 1) * m \in Int
    BY Multiples
  <1>5. a <= 1 => a * m <= 1 * m /\ a * m \in Int
    BY Multiples
  <1>6. 1 * m = m
    OBVIOUS
  <1>7. QED
    BY <1>1, <1>2, <1>3, <1>4, <1>5, <1>6

\* The lesser of two numbers.
LEMMA MinOfTwo ==
  ASSUME NEW a \in Int, NEW b \in Int
  PROVE  Min({a, b}) = IF a <= b THEN a ELSE b
  <1>1. PICK x \in {a, b} : \A y \in {a, b} : x <= y
    OBVIOUS
  <1>2. Min({a, b}) \in {a, b} /\ \A y \in {a, b} : Min({a, b}) <= y
    BY <1>1, Zenon DEF Min
  <1>3. QED
    BY <1>2

\* The greater of two numbers.
LEMMA MaxOfTwo ==
  ASSUME NEW a \in Int, NEW b \in Int
  PROVE  Max({a, b}) = IF a <= b THEN b ELSE a
  <1>1. PICK x \in {a, b} : \A y \in {a, b} : x >= y
    OBVIOUS
  <1>2. Max({a, b}) \in {a, b} /\ \A y \in {a, b} : Max({a, b}) >= y
    BY <1>1, Zenon DEF Max
  <1>3. QED
    BY <1>2

\* A value cut in parts is longer by a header for each.
LEMMA SplitLength ==
  ASSUME NEW T, Int \subseteq T, NEW data \in Seq(T)
  PROVE  /\ SplitValue(data) \in Seq(T)
         /\ Len(SplitValue(data)) = Len(data) + NbChunks(Len(data)) * SIZEOF_HEADER
  <1>1. PICK m \in Nat : m = MaxValue /\ m >= 4
    BY MaxValueIs
  <1>2. PICK len \in Nat : len = Len(data)
    BY LenProperties
  <1>3. PICK n \in Nat : n = NbChunks(Len(data))
    BY <1>2, ChunksAre
  <1>4. len <= n * m /\ (len > 0 => (n - 1) * m < len) /\ (len = 0 => n = 0)
    BY <1>1, <1>2, <1>3, ChunksAre
  <1> DEFINE upto(i) == IF i * m <= len THEN i * m ELSE len
  <1>5. ASSUME NEW i \in 1 .. n
        PROVE  /\ i * m \in Int /\ (i - 1) * m \in Nat /\ i * m = (i - 1) * m + m
               /\ (i - 1) * m < len
               /\ upto(i - 1) = (i - 1) * m
               /\ Min({i * MaxValue, Len(data)}) = upto(i)
    <2>1. (i - 1) * m <= (n - 1) * m /\ (i - 1) * m \in Int /\ (n - 1) * m \in Int
      BY Multiples
    <2>2. 0 * m <= (i - 1) * m
      BY Multiples
    <2>3. 0 * m = 0 /\ i * m = (i - 1) * m + m /\ i * m \in Int
      OBVIOUS
    <2>4. len > 0
      BY <1>4
    <2>5. Min({i * m, len}) = upto(i)
      BY <2>3, MinOfTwo
    <2>6. Min({i * MaxValue, Len(data)}) = Min({i * m, len})
      BY <1>1, <1>2, Zenon
    <2>7. QED
      BY <1>4, <2>1, <2>2, <2>3, <2>4, <2>5, <2>6
  <1>6. PICK ss : ss = [i \in 1 .. NbChunks(Len(data)) |->
                  LET part == SubSeq(data, (i - 1) * MaxValue + 1, Min({i * MaxValue, Len(data)}))
                  IN  <<LONGC, Len(part)>> \o part]
    OBVIOUS
  <1>7. PICK size : size = [i \in 0 .. n |-> upto(i) + 2 * i]
    OBVIOUS
  <1>8. size \in [0 .. n -> Nat]
    <2> SUFFICES ASSUME NEW i \in 0 .. n PROVE upto(i) + 2 * i \in Nat
      BY <1>7
    <2>1. i * m \in Nat
      OBVIOUS
    <2>2. QED
      BY <2>1
  <1>9. size[0] = 0 /\ size[n] = len + 2 * n
    <2>1. size[0] = upto(0) + 2 * 0 /\ size[n] = upto(n) + 2 * n
      BY <1>7
    <2>2. 0 * m = 0 /\ n * m \in Nat
      OBVIOUS
    <2>3. upto(0) = 0 /\ upto(n) = len
      BY <1>4, <2>2
    <2>4. QED
      BY <2>1, <2>3
  <1>10. ASSUME NEW i \in 1 .. n
         PROVE  ss[i] \in Seq(T) /\ size[i] = size[i - 1] + Len(ss[i])
    <2>1. PICK from \in Nat : /\ from = (i - 1) * m /\ i * m = from + m /\ i * m \in Int
                             /\ from < len /\ from = upto(i - 1)
      BY <1>5
    <2>2. PICK to \in Nat : to = upto(i) /\ to = IF from + m <= len THEN from + m ELSE len
      BY <2>1
    <2>3. from < to /\ to <= len
      BY <1>1, <2>1, <2>2
    <2>4. PICK part : part = SubSeq(data, from + 1, to)
      OBVIOUS
    <2>5. part \in Seq(T) /\ Len(part) = to - from
      <3>1. from + 1 \in 1 .. Len(data) + 1 /\ to \in from + 1 - 1 .. Len(data)
        BY <1>2, <2>3
      <3>2. PICK a \in Nat : a = from + 1
        OBVIOUS
      <3>3. SubSeq(data, a, to) \in Seq(T) /\ Len(SubSeq(data, a, to)) = IF a <= to THEN to - a + 1 ELSE 0
        BY <1>2, <2>3, <3>1, <3>2, SubSeqProperties
      <3>4. QED
        BY <2>3, <2>4, <3>2, <3>3
    <2>6. ss[i] = <<LONGC, Len(part)>> \o part
      <3>1. ss[i] = <<LONGC, Len(SubSeq(data, (i - 1) * MaxValue + 1, Min({i * MaxValue, Len(data)})))>>
                      \o SubSeq(data, (i - 1) * MaxValue + 1, Min({i * MaxValue, Len(data)}))
        BY <1>3, <1>6
      <3>2. Min({i * MaxValue, Len(data)}) = to
        BY <1>5, <2>2
      <3>3. QED
        BY <3>1, <3>2, <1>1, <2>1, <2>4, Zenon
    <2>7. <<LONGC, Len(part)>> \in Seq(T) /\ Len(<<LONGC, Len(part)>>) = 2
      BY <2>3, <2>5 DEF LONGC
    <2>8. ss[i] \in Seq(T) /\ Len(ss[i]) = 2 + (to - from)
      <3>1. PICK head \in Seq(T) : head = <<LONGC, Len(part)>> /\ Len(head) = 2
        BY <2>7
      <3>2. head \o part \in Seq(T) /\ Len(head \o part) = Len(head) + Len(part)
        BY <2>5, <3>1, ConcatProperties
      <3>3. QED
        BY <2>5, <2>6, <3>1, <3>2
    <2>9. size[i] = to + 2 * i /\ size[i - 1] = from + 2 * (i - 1)
      BY <1>7, <2>1, <2>2
    <2>10. QED
      BY <2>3, <2>8, <2>9
  <1>11. ss = [i \in 1 .. n |-> ss[i]]
    BY <1>3, <1>6
  <1>12. FlattenSeq(ss) \in Seq(T) /\ Len(FlattenSeq(ss)) = size[n]
    <2>1. Pieces(ss, n, T)
      BY <1>10, <1>11 DEF Pieces
    <2>2. Lengths(size, n, ss)
      BY <1>8, <1>9, <1>10 DEF Lengths
    <2>3. QED
      BY <2>1, <2>2, FlatLength
  <1>13. SplitValue(data) = FlattenSeq(ss)
    BY <1>6, Zenon DEF SplitValue
  <1>14. QED
    BY <1>2, <1>3, <1>9, <1>12, <1>13 DEF SIZEOF_HEADER, SIZEOF_TYPE, SIZEOF_LENGTH

\* A part of a sequence.
LEMMA PartOf ==
  ASSUME NEW T, NEW s \in Seq(T), NEW a \in Nat, NEW b \in Nat, a >= 1, a <= b + 1, b <= Len(s)
  PROVE  SubSeq(s, a, b) \in Seq(T) /\ Len(SubSeq(s, a, b)) = b - a + 1
  <1>1. \A i \in a .. b : s[i] \in T
    <2> SUFFICES ASSUME NEW i \in a .. b PROVE s[i] \in T
      OBVIOUS
    <2>1. i \in 1 .. Len(s)
      BY LenProperties
    <2>2. QED
      BY <2>1, ElementOfSeq
  <1>2. SubSeq(s, a, b) \in Seq(T) /\ Len(SubSeq(s, a, b)) = IF a <= b THEN b - a + 1 ELSE 0
    BY <1>1, SubSeqProperties
  <1>3. QED
    BY <1>2

\* The length of two sequences put together.
LEMMA Concat ==
  ASSUME NEW T, NEW a, NEW b, a \in Seq(T), b \in Seq(T)
  PROVE  a \o b \in Seq(T) /\ Len(a \o b) = Len(a) + Len(b)
  BY ConcatProperties, Zenon

\* Writing where there is room for what is written.
LEMMA WriteLength ==
  ASSUME NEW T, NEW m \in Seq(T), NEW bytes \in Seq(T), NEW o \in Nat, o + Len(bytes) <= Len(m)
  PROVE  Write(m, o, bytes) \in Seq(T) /\ Len(Write(m, o, bytes)) = Len(m)
  <1>1. PICK n \in Nat : n = Len(m)
    BY LenProperties
  <1>2. PICK k \in Nat : k = Len(bytes)
    BY LenProperties
  <1>3. o + k <= n
    BY <1>1, <1>2
  <1>4. SubSeq(m, 1, o) \in Seq(T) /\ Len(SubSeq(m, 1, o)) = o
    <2>1. SubSeq(m, 1, o) \in Seq(T) /\ Len(SubSeq(m, 1, o)) = o - 1 + 1
      BY <1>1, <1>3, PartOf
    <2>2. QED
      BY <2>1
  <1>5. SubSeq(m, o + k + 1, n) \in Seq(T) /\ Len(SubSeq(m, o + k + 1, n)) = n - (o + k)
    <2>1. PICK a \in Nat : a = o + k + 1
      OBVIOUS
    <2>2. SubSeq(m, a, n) \in Seq(T) /\ Len(SubSeq(m, a, n)) = n - a + 1
      BY <1>1, <1>3, <2>1, PartOf
    <2>3. n - a + 1 = n - (o + k)
      BY <2>1
    <2>4. QED
      BY <2>1, <2>2, <2>3, Zenon
  <1>6. PICK x : x = SubSeq(m, 1, o)
    OBVIOUS
  <1>7. PICK y : y = SubSeq(m, o + k + 1, n)
    OBVIOUS
  <1>8. x \in Seq(T) /\ Len(x) = o /\ y \in Seq(T) /\ Len(y) = n - (o + k)
    BY <1>4, <1>5, <1>6, <1>7, Zenon
  <1>9. PICK z : z = x \o bytes
    OBVIOUS
  <1>10. z \in Seq(T) /\ Len(z) = o + k
    <2>1. x \o bytes \in Seq(T) /\ Len(x \o bytes) = Len(x) + Len(bytes)
      BY <1>8, Concat
    <2>2. QED
      BY <1>2, <1>8, <1>9, <2>1, Zenon
  <1>11. z \o y \in Seq(T) /\ Len(z \o y) = Len(z) + Len(y)
    BY <1>8, <1>10, Concat
  <1>12. Len(z) + Len(y) = n
    BY <1>8, <1>10
  <1>13. Write(m, o, bytes) = z \o y
    BY <1>1, <1>2, <1>6, <1>7, <1>9, Zenon DEF Write
  <1>14. QED
    BY <1>1, <1>11, <1>12, <1>13, Zenon

\* The states of tlv_from_inputs: a buffer of len bytes, and where writing has stopped.
Buffer(T, len) == [m : {m \in Seq(T) : Len(m) = len}, w : Nat]

\* A buffer by its fields.
LEMMA BufferIs ==
  ASSUME NEW T, NEW len, NEW s
  PROVE  s \in Buffer(T, len) <=> /\ s = [m |-> s.m, w |-> s.w]
                                  /\ s.m \in Seq(T) /\ Len(s.m) = len /\ s.w \in Nat
  BY DEF Buffer

\* The inputs are written where they go, in a buffer as long as the room.
LEMMA FilledIs ==
  ASSUME NEW T, Int \subseteq T, NEW body \in Seq(T), NEW room, room.len \in Nat, room.content \in Nat,
         room.content + Len(body) <= room.len
  PROVE  /\ Filled(body, room) \in Buffer(T, room.len)
         /\ Filled(body, room).w = room.content + Len(body)
  <1>1. PICK m : m = [i \in 1 .. room.len |-> UNSET]
    OBVIOUS
  <1>2. m \in Seq(T) /\ Len(m) = room.len
    <2>1. UNSET \in T
      BY DEF UNSET
    <2>2. m \in [1 .. room.len -> T]
      BY <1>1, <2>1
    <2>3. QED
      BY <2>2, SeqDef, LenProperties
  <1>3. Write(m, room.content, body) \in Seq(T) /\ Len(Write(m, room.content, body)) = room.len
    BY <1>2, WriteLength
  <1>4. Filled(body, room) = [m |-> Write(m, room.content, body), w |-> room.content + Len(body)]
    BY <1>1 DEF Filled
  <1>5. Len(body) \in Nat
    BY LenProperties
  <1>6. QED
    BY <1>3, <1>4, <1>5, BufferIs

\* Cutting a value in parts where it is, in a buffer that has room for their headers.
LEMMA SplitAtIs ==
  ASSUME NEW T, Int \subseteq T, NEW len \in Nat, NEW s \in Buffer(T, len),
         NEW from \in Nat, NEW length \in Nat, from + length + NbChunks(length) * 2 <= len
  PROVE  /\ SplitAt(s, from, length) \in Buffer(T, len)
         /\ SplitAt(s, from, length).w = from + length + NbChunks(length) * 2
  <1>1. PICK n \in Nat : n = NbChunks(length)
    BY ChunksAre
  <1>2. s.m \in Seq(T) /\ Len(s.m) = len
    BY BufferIs
  <1>3. PICK data : data = SubSeq(s.m, from + 1, from + length)
    OBVIOUS
  <1>9. data \in Seq(T) /\ Len(data) = length
    <2>1. PICK a \in Nat : a = from + 1
      OBVIOUS
    <2>2. PICK b \in Nat : b = from + length
      OBVIOUS
    <2>3. SubSeq(s.m, a, b) \in Seq(T) /\ Len(SubSeq(s.m, a, b)) = b - a + 1
      BY <1>1, <1>2, <2>1, <2>2, PartOf
    <2>4. b - a + 1 = length
      BY <2>1, <2>2
    <2>5. QED
      BY <1>3, <2>1, <2>2, <2>3, <2>4, Zenon
  <1>4. PICK parts : parts = SplitValue(data)
    OBVIOUS
  <1>10. parts \in Seq(T) /\ Len(parts) = length + n * 2
    <2>1. SplitValue(data) \in Seq(T) /\ Len(SplitValue(data)) = Len(data) + NbChunks(Len(data)) * SIZEOF_HEADER
      BY <1>9, SplitLength
    <2>2. QED
      BY <1>1, <1>4, <1>9, <2>1 DEF SIZEOF_HEADER, SIZEOF_TYPE, SIZEOF_LENGTH
  <1>5. from + Len(parts) <= Len(s.m) /\ from + Len(parts) = from + length + n * 2
    BY <1>1, <1>2, <1>10
  <1>6. Write(s.m, from, parts) \in Seq(T) /\ Len(Write(s.m, from, parts)) = len
    BY <1>2, <1>5, <1>10, WriteLength
  <1>7. SplitAt(s, from, length) = [m |-> Write(s.m, from, parts), w |-> from + Len(parts)]
    BY <1>3, <1>4 DEF SplitAt
  <1>8. QED
    BY <1>1, <1>5, <1>6, <1>7, BufferIs

\* A buffer written again, or another place to write.
LEMMA BufferExcept ==
  ASSUME NEW T, NEW len \in Nat, NEW s \in Buffer(T, len)
  PROVE  /\ \A m : m \in Seq(T) /\ Len(m) = len =>
              [s EXCEPT !.m = m] \in Buffer(T, len) /\ [s EXCEPT !.m = m].w = s.w
         /\ \A w \in Nat : [s EXCEPT !.w = w] \in Buffer(T, len) /\ [s EXCEPT !.w = w].w = w
  BY DEF Buffer

\* The headers that are written.
LEMMA HeadsAre ==
  ASSUME NEW T, Int \subseteq T, NEW a \in T, NEW b \in T
  PROVE  /\ LonghHead(a, b) \in Seq(T) /\ Len(LonghHead(a, b)) = 4
         /\ <<a, b>> \in Seq(T) /\ Len(<<a, b>>) = 2
         /\ <<a>> \in Seq(T) /\ Len(<<a>>) = 1
  BY DEF LonghHead, LONGH, SIZEOF_TYPE, SIZEOF_LENGTH

\* The compound's header is written in the buffer, and its value is cut if it is too long.
LEMMA EndCompoundIs ==
  ASSUME NEW T, Int \subseteq T, NEW len \in Nat, NEW s \in Buffer(T, len), NEW room,
         room.cmpnd \in Nat, room.content \in Nat, NEW length \in Nat,
         room.cmpnd + 2 <= len,
         length > MaxValue => room.cmpnd + 4 + length + NbChunks(length) * 2 <= len
  PROVE  /\ EndCompound(s, room, length) \in Buffer(T, len)
         /\ EndCompound(s, room, length).w =
              IF length > MaxValue THEN room.content + length + NbChunks(length) * 2 ELSE s.w
  <1>1. PICK c \in Nat : c = room.cmpnd
    OBVIOUS
  <1>2. PICK n \in Nat : n = NbChunks(length)
    BY ChunksAre
  <1>3. s.m \in Seq(T) /\ Len(s.m) = len
    BY BufferIs
  <1>4. length \in T /\ COMPOUND \in T
    BY DEF COMPOUND
  <1>5. CASE length > MaxValue
    <2>1. PICK head : head = LonghHead(COMPOUND, length)
      OBVIOUS
    <2>2. head \in Seq(T) /\ Len(head) = 4
      BY <1>4, <2>1, HeadsAre
    <2>3. c + 4 + length + n * 2 <= len
      BY <1>1, <1>2, <1>5
    <2>4. Write(s.m, c, head) \in Seq(T) /\ Len(Write(s.m, c, head)) = len
      <3>1. c + Len(head) <= Len(s.m)
        BY <1>2, <1>3, <2>2, <2>3
      <3>2. QED
        BY <1>3, <2>2, <3>1, WriteLength
    <2>5. PICK b : b = [s EXCEPT !.m = Write(s.m, c, head)]
      OBVIOUS
    <2>6. b \in Buffer(T, len)
      BY <2>4, <2>5, BufferExcept
    <2>7. PICK from \in Nat : from = c + 4
      OBVIOUS
    <2>8. PICK d : d = SplitAt(b, from, length)
      OBVIOUS
    <2>9. d \in Buffer(T, len)
      <3>1. from + length + NbChunks(length) * 2 <= len
        BY <1>2, <2>3, <2>7
      <3>2. QED
        BY <2>6, <2>8, <3>1, SplitAtIs
    <2>10. PICK w \in Nat : w = room.content + length + n * 2
      OBVIOUS
    <2>11. EndCompound(s, room, length) = [d EXCEPT !.w = w]
      <3>1. SIZEOF_HEADER = 2 /\ room.cmpnd + SIZEOF_LONGH = from
        BY <1>1, <2>7 DEF SIZEOF_LONGH, SIZEOF_HEADER, SIZEOF_TYPE, SIZEOF_LENGTH
      <3>2. EndCompound(s, room, length) =
              [SplitAt([s EXCEPT !.m = Write(s.m, room.cmpnd, LonghHead(COMPOUND, length))],
                       room.cmpnd + SIZEOF_LONGH, length)
               EXCEPT !.w = room.content + length + NbChunks(length) * SIZEOF_HEADER]
        BY <1>5 DEF EndCompound
      <3>3. QED
        BY <1>1, <1>2, <2>1, <2>5, <2>8, <2>10, <3>1, <3>2
    <2>12. [d EXCEPT !.w = w] \in Buffer(T, len) /\ [d EXCEPT !.w = w].w = w
      BY <2>9, BufferExcept
    <2>13. QED
      BY <1>2, <1>5, <2>10, <2>11, <2>12
  <1>6. CASE ~(length > MaxValue)
    <2>1. PICK head : head = <<COMPOUND, length>>
      OBVIOUS
    <2>2. head \in Seq(T) /\ Len(head) = 2
      BY <1>4, <2>1, HeadsAre
    <2>3. Write(s.m, c, head) \in Seq(T) /\ Len(Write(s.m, c, head)) = len
      <3>1. c + Len(head) <= Len(s.m)
        BY <1>1, <1>3, <2>2
      <3>2. QED
        BY <1>3, <2>2, <3>1, WriteLength
    <2>4. EndCompound(s, room, length) = [s EXCEPT !.m = Write(s.m, c, head)]
      BY <1>1, <1>6, <2>1 DEF EndCompound
    <2>5. QED
      BY <1>6, <2>3, <2>4, BufferExcept
  <1>7. QED
    BY <1>5, <1>6

\* The dated TLV's header and date are written in the buffer, and its value is cut if it is too long.
LEMMA EndDatedIs ==
  ASSUME NEW T, Int \subseteq T, NEW len \in Nat, NEW s \in Buffer(T, len),
         NEW date \in T, Swap(date) \in T, NEW length \in Nat,
         3 <= len, length > MaxValue => 4 + length + NbChunks(length) * 2 <= len
  PROVE  /\ EndDated(s, date, length) \in Buffer(T, len)
         /\ EndDated(s, date, length).w =
              IF length > MaxValue THEN 4 + length + NbChunks(length) * 2 ELSE s.w
  <1>1. PICK n \in Nat : n = NbChunks(length)
    BY ChunksAre
  <1>2. s.m \in Seq(T) /\ Len(s.m) = len
    BY BufferIs
  <1>3. length \in T /\ DATED \in T
    BY DEF DATED
  <1>4. CASE length > MaxValue
    <2>1. 4 + length + n * 2 <= len /\ length >= 1
      BY <1>1, <1>4, MaxValueIs
    <2>2. PICK head : head = LonghHead(DATED, length)
      OBVIOUS
    <2>3. head \in Seq(T) /\ Len(head) = 4 /\ <<date>> \in Seq(T) /\ Len(<<date>>) = 1
      <3>1. <<date>> \in Seq(T) /\ Len(<<date>>) = 1
        OBVIOUS
      <3>2. QED
        BY <1>3, <2>2, <3>1, HeadsAre
    <2>4. PICK bytes : bytes = head \o <<date>>
      OBVIOUS
    <2>5. bytes \in Seq(T) /\ Len(bytes) = 5
      <3>1. head \o <<date>> \in Seq(T) /\ Len(head \o <<date>>) = Len(head) + Len(<<date>>)
        BY <2>3, Concat
      <3>2. QED
        BY <2>3, <2>4, <3>1
    <2>6. Write(s.m, 0, bytes) \in Seq(T) /\ Len(Write(s.m, 0, bytes)) = len
      BY <1>1, <1>2, <2>1, <2>5, WriteLength
    <2>7. PICK b : b = [s EXCEPT !.m = Write(s.m, 0, bytes)]
      OBVIOUS
    <2>8. b \in Buffer(T, len)
      BY <2>6, <2>7, BufferExcept
    <2>9. 4 + length + NbChunks(length) * 2 <= len
      BY <1>1, <2>1
    <2>10. /\ SplitAt(b, 4, length) \in Buffer(T, len)
           /\ SplitAt(b, 4, length).w = 4 + length + NbChunks(length) * 2
      BY <2>8, <2>9, SplitAtIs
    <2>11. SIZEOF_LONGH = 4
      BY DEF SIZEOF_LONGH, SIZEOF_HEADER, SIZEOF_TYPE, SIZEOF_LENGTH
    <2>12. EndDated(s, date, length) = SplitAt(b, 4, length)
      BY <1>4, <2>2, <2>4, <2>7, <2>11 DEF EndDated
    <2>13. QED
      BY <1>4, <2>10, <2>12
  <1>5. CASE ~(length > MaxValue)
    <2>1. PICK head : head = <<DATED, length, Swap(date)>>
      OBVIOUS
    <2>2. head \in Seq(T) /\ Len(head) = 3
      BY <1>3, <2>1
    <2>3. Write(s.m, 0, head) \in Seq(T) /\ Len(Write(s.m, 0, head)) = len
      <3>1. 0 + Len(head) <= Len(s.m)
        BY <1>2, <2>2
      <3>2. QED
        BY <1>2, <2>2, <3>1, WriteLength
    <2>4. EndDated(s, date, length) = [s EXCEPT !.m = Write(s.m, 0, head)]
      BY <1>5, <2>1 DEF EndDated
    <2>5. QED
      BY <1>5, <2>3, <2>4, BufferExcept
  <1>6. QED
    BY <1>4, <1>5

\* tlv_from_inputs stays in the room that it has if it stops in it, and succeeds if it stops at its end.
LEMMA OutcomeIs ==
  ASSUME NEW T, NEW room, room.len \in Nat, NEW s \in Buffer(T, room.len)
  PROVE  /\ Outcome(s, room).room = room.len
         /\ Outcome(s, room).high <= room.len <=> s.w <= room.len
         /\ Outcome(s, room).status = -1 <=> s.w # room.len
  <1>1. s.w \in Nat /\ Len(s.m) = room.len
    BY BufferIs
  <1>2. Max({s.w, Len(s.m)}) = IF s.w <= room.len THEN room.len ELSE s.w
    BY <1>1, MaxOfTwo
  <1>3. Outcome(s, room).high = Max({s.w, Len(s.m)})
    BY DEF Outcome
  <1>4. Outcome(s, room).room = room.len /\ (Outcome(s, room).status = -1 <=> s.w # room.len)
    BY DEF Outcome
  <1>5. QED
    BY <1>1, <1>2, <1>3, <1>4

-----------------------------------------------------------------------------
(* The room for inputs that take size bytes by themselves. *)

\* The sizes of the headers.
LEMMA SizesAre == SIZEOF_HEADER = 2 /\ SIZEOF_DATE = 1 /\ SIZEOF_LONGH = 4 /\ MAX_SIZE = MaxValue + 2
  BY MaxValueIs DEF SIZEOF_HEADER, SIZEOF_DATE, SIZEOF_LONGH, SIZEOF_TYPE, SIZEOF_LENGTH, MAX_SIZE

\* A long TLV is its value, a header for each part, and its own.
LEMMA LengthenedIs ==
  ASSUME NEW x \in Nat, NEW y, y = x + 2
  PROVE  Lengthened(y) = x + NbChunks(x) * 2 + 4
  <1>1. y - 2 = x
    OBVIOUS
  <1>2. QED
    BY <1>1, SizesAre DEF Lengthened

\* One input: the room that it takes.
LEMMA RoomOfOne ==
  ASSUME NEW inputs, NEW size \in Nat, size = InputsSize(inputs), ~(Len(inputs) > 1)
  PROVE  Room(inputs, NoDate) = [len |-> size, cmpnd |-> 0, content |-> 0]
  <1>1. PlainRoom(inputs, FALSE) = size
    BY SizesAre DEF PlainRoom, HeaderRoom, DateRoom
  <1>2. Room(inputs, NoDate) = RoomOfDated(size, FALSE, FALSE, FALSE)
    <2>1. (Len(inputs) > 1) = FALSE
      OBVIOUS
    <2>2. (NoDate # NoDate) = FALSE
      OBVIOUS
    <2>3. Room(inputs, NoDate) = RoomOfCompound(size, FALSE, FALSE)
      BY <1>1, <2>1, <2>2, Zenon DEF Room
    <2>4. QED
      BY <2>3, Zenon DEF RoomOfCompound
  <1>3. QED
    BY <1>2 DEF RoomOfDated, RoomFor, DateRoom, HeaderRoom, Grown

\* One input with a date: a dated TLV, long if the input and its date are.
LEMMA RoomOfOneDated ==
  ASSUME NEW inputs, NEW size \in Nat, size = InputsSize(inputs), ~(Len(inputs) > 1),
         NEW date, date # NoDate
  PROVE  Room(inputs, date) =
           IF size + 1 > MaxValue
           THEN [len |-> size + 1 + NbChunks(size + 1) * 2 + 4, cmpnd |-> 5, content |-> 5]
           ELSE [len |-> size + 3, cmpnd |-> 3, content |-> 3]
  <1>1. PlainRoom(inputs, TRUE) = size + 3
    BY SizesAre DEF PlainRoom, HeaderRoom, DateRoom
  <1>2. Room(inputs, date) = RoomOfDated(size + 3, FALSE, FALSE, TRUE)
    <2>1. (Len(inputs) > 1) = FALSE
      OBVIOUS
    <2>2. (date # NoDate) = TRUE
      OBVIOUS
    <2>3. Room(inputs, date) = RoomOfCompound(size + 3, FALSE, TRUE)
      BY <1>1, <2>1, <2>2, Zenon DEF Room
    <2>4. QED
      BY <2>3, Zenon DEF RoomOfCompound
  <1>3. Lengthened(size + 3) = size + 1 + NbChunks(size + 1) * 2 + 4
    BY LengthenedIs
  <1>4. size + 3 > MAX_SIZE <=> size + 1 > MaxValue
    BY SizesAre, MaxValueIs
  <1>5. CASE size + 1 > MaxValue
    BY <1>2, <1>3, <1>4, <1>5, SizesAre DEF RoomOfDated, RoomFor, DateRoom, HeaderRoom, Grown
  <1>6. CASE ~(size + 1 > MaxValue)
    BY <1>2, <1>4, <1>6, SizesAre DEF RoomOfDated, RoomFor, DateRoom, HeaderRoom, Grown
  <1>7. QED
    BY <1>5, <1>6

\* Several inputs: a compound, long if they are.
LEMMA RoomOfSeveral ==
  ASSUME NEW inputs, NEW size \in Nat, size = InputsSize(inputs), Len(inputs) > 1
  PROVE  Room(inputs, NoDate) =
           IF size > MaxValue
           THEN [len |-> size + NbChunks(size) * 2 + 4, cmpnd |-> 0, content |-> 4]
           ELSE [len |-> size + 2, cmpnd |-> 0, content |-> 2]
  <1>1. PlainRoom(inputs, FALSE) = size + 2
    BY SizesAre DEF PlainRoom, HeaderRoom, DateRoom
  <1>2. Room(inputs, NoDate) = RoomOfCompound(size + 2, TRUE, FALSE)
    BY <1>1 DEF Room
  <1>3. Lengthened(size + 2) = size + NbChunks(size) * 2 + 4
    BY LengthenedIs
  <1>4. size + 2 > MAX_SIZE <=> size > MaxValue
    BY SizesAre, MaxValueIs
  <1>5. CASE size > MaxValue
    <2>1. Room(inputs, NoDate) = RoomOfDated(Lengthened(size + 2), TRUE, TRUE, FALSE)
      BY <1>2, <1>4, <1>5 DEF RoomOfCompound
    <2>2. QED
      BY <1>3, <1>5, <2>1, SizesAre DEF RoomOfDated, RoomFor, DateRoom, HeaderRoom, Grown
  <1>6. CASE ~(size > MaxValue)
    <2>1. Room(inputs, NoDate) = RoomOfDated(size + 2, TRUE, FALSE, FALSE)
      BY <1>2, <1>4, <1>6 DEF RoomOfCompound
    <2>2. QED
      BY <1>6, <2>1, SizesAre DEF RoomOfDated, RoomFor, DateRoom, HeaderRoom, Grown
  <1>7. QED
    BY <1>5, <1>6

\* Several inputs with a date: the compound is counted as if it held the date's header too.
LEMMA RoomOfSeveralDated ==
  ASSUME NEW inputs, NEW size \in Nat, size = InputsSize(inputs), Len(inputs) > 1,
         NEW date, date # NoDate,
         NEW length \in Nat, length = size + 5 + NbChunks(size + 3) * 2
  PROVE  Room(inputs, date) =
           IF size + 3 > MaxValue
           THEN [len |-> length + NbChunks(length) * 2 + 4, cmpnd |-> 5, content |-> 9]
           ELSE [len |-> size + 5, cmpnd |-> 3, content |-> 5]
  <1>1. PlainRoom(inputs, TRUE) = size + 5
    BY SizesAre DEF PlainRoom, HeaderRoom, DateRoom
  <1>2. Room(inputs, date) = RoomOfCompound(size + 5, TRUE, TRUE)
    BY <1>1 DEF Room
  <1>3. PICK k \in Nat : k = NbChunks(size + 3)
    BY ChunksAre
  <1>4. size + 5 > MAX_SIZE <=> size + 3 > MaxValue
    BY SizesAre, MaxValueIs
  <1>5. CASE size + 3 > MaxValue
    <2>1. Lengthened(size + 5) = length + 2
      <3>1. Lengthened(size + 5) = size + 3 + NbChunks(size + 3) * 2 + 4
        BY LengthenedIs
      <3>2. QED
        BY <1>3, <3>1
    <2>2. Room(inputs, date) = RoomOfDated(length + 2, TRUE, TRUE, TRUE)
      BY <1>2, <1>4, <1>5, <2>1 DEF RoomOfCompound
    <2>3. length + 2 > MAX_SIZE
      BY <1>3, <1>5, SizesAre, MaxValueIs
    <2>4. Lengthened(length + 2) = length + NbChunks(length) * 2 + 4
      BY LengthenedIs
    <2>5. QED
      BY <1>5, <2>2, <2>3, <2>4, SizesAre DEF RoomOfDated, RoomFor, DateRoom, HeaderRoom, Grown
  <1>6. CASE ~(size + 3 > MaxValue)
    <2>1. Room(inputs, date) = RoomOfDated(size + 5, TRUE, FALSE, TRUE)
      BY <1>2, <1>4, <1>6 DEF RoomOfCompound
    <2>2. QED
      BY <1>4, <1>6, <2>1, SizesAre DEF RoomOfDated, RoomFor, DateRoom, HeaderRoom, Grown
  <1>7. QED
    BY <1>5, <1>6

-----------------------------------------------------------------------------
(* What tlv_from_inputs makes of inputs that take size bytes by themselves, in that room. *)

MadeOf(body, inputs, date) == EndInputs(Filled(body, Room(inputs, date)), inputs, date, Room(inputs, date))

\* One input is made in the room it has.
LEMMA MadeOfOne ==
  ASSUME NEW T, Int \subseteq T, NEW size \in Nat, NEW body \in Seq(T), Len(body) = size,
         NEW inputs, size = InputsSize(inputs), ~(Len(inputs) > 1)
  PROVE  MadeOf(body, inputs, NoDate).high <= MadeOf(body, inputs, NoDate).room
         /\ MadeOf(body, inputs, NoDate).status # -1
  <1>1. PICK room : room = Room(inputs, NoDate)
    OBVIOUS
  <1>2. room.len = size /\ room.cmpnd = 0 /\ room.content = 0
    BY <1>1, RoomOfOne
  <1>3. PICK s : s = Filled(body, room)
    OBVIOUS
  <1>4. s \in Buffer(T, room.len) /\ s.w = size
    BY <1>2, <1>3, FilledIs
  <1>5. MadeOf(body, inputs, NoDate) = Outcome(s, room)
    BY <1>1, <1>3 DEF MadeOf, EndInputs
  <1>6. QED
    BY <1>2, <1>4, <1>5, OutcomeIs

\* One input with a date is made in the room it has.
LEMMA MadeOfOneDated ==
  ASSUME NEW T, Int \subseteq T, NEW size \in Nat, NEW body \in Seq(T), Len(body) = size,
         NEW inputs, size = InputsSize(inputs), ~(Len(inputs) > 1),
         NEW date \in T, Swap(date) \in T, date # NoDate
  PROVE  MadeOf(body, inputs, date).high <= MadeOf(body, inputs, date).room
         /\ MadeOf(body, inputs, date).status # -1
  <1>1. PICK room : room = Room(inputs, date)
    OBVIOUS
  <1>2. PICK n \in Nat : n = NbChunks(size + 1)
    BY ChunksAre
  <1>3. IF size + 1 > MaxValue
        THEN room.len = size + 1 + n * 2 + 4 /\ room.cmpnd = 5 /\ room.content = 5
        ELSE room.len = size + 3 /\ room.cmpnd = 3 /\ room.content = 3
    <2>1. CASE size + 1 > MaxValue
      <3>1. room = [len |-> size + 1 + n * 2 + 4, cmpnd |-> 5, content |-> 5]
        BY <1>1, <1>2, <2>1, RoomOfOneDated
      <3>2. QED
        BY <2>1, <3>1
    <2>2. CASE ~(size + 1 > MaxValue)
      <3>1. room = [len |-> size + 3, cmpnd |-> 3, content |-> 3]
        BY <1>1, <2>2, RoomOfOneDated
      <3>2. QED
        BY <2>2, <3>1
    <2>3. QED
      BY <2>1, <2>2
  <1>4. size + 1 > MaxValue => n >= 2
    BY <1>2, ChunksTwo
  <1>5. PICK len \in Nat : len = room.len
    BY <1>2, <1>3
  <1>6. PICK content \in Nat : content = room.content
    BY <1>3
  <1>7. PICK s : s = Filled(body, room)
    OBVIOUS
  <1>8. s \in Buffer(T, len) /\ s.w = content + size
    <2>1. content + size <= len
      BY <1>2, <1>3, <1>4, <1>5, <1>6
    <2>2. QED
      BY <1>5, <1>6, <1>7, <2>1, FilledIs
  <1>9. s.w - (room.cmpnd - SIZEOF_DATE) = size + 1
    BY <1>3, <1>6, <1>8, SizesAre
  <1>10. PICK d : d = EndDated(s, date, size + 1)
    OBVIOUS
  <1>11. d \in Buffer(T, len) /\ d.w = IF size + 1 > MaxValue THEN 4 + (size + 1) + n * 2 ELSE s.w
    <2>1. 3 <= len /\ (size + 1 > MaxValue => 4 + (size + 1) + n * 2 <= len)
      BY <1>2, <1>3, <1>5
    <2>2. QED
      BY <1>2, <1>8, <1>10, <2>1, EndDatedIs
  <1>12. d.w = len
    BY <1>3, <1>5, <1>6, <1>8, <1>11
  <1>13. MadeOf(body, inputs, date) = Outcome(d, room)
    BY <1>1, <1>7, <1>9, <1>10 DEF MadeOf, EndInputs
  <1>14. QED
    <2>1. room.len \in Nat /\ d \in Buffer(T, room.len)
      BY <1>5, <1>11
    <2>2. /\ Outcome(d, room).room = room.len
          /\ Outcome(d, room).high <= room.len <=> d.w <= room.len
          /\ Outcome(d, room).status = -1 <=> d.w # room.len
      BY <2>1, OutcomeIs
    <2>3. d.w = room.len
      BY <1>5, <1>12
    <2>4. QED
      BY <1>13, <2>1, <2>2, <2>3

\* Several inputs are made in the room they have.
LEMMA MadeOfSeveral ==
  ASSUME NEW T, Int \subseteq T, NEW size \in Nat, NEW body \in Seq(T), Len(body) = size,
         NEW inputs, size = InputsSize(inputs), Len(inputs) > 1
  PROVE  MadeOf(body, inputs, NoDate).high <= MadeOf(body, inputs, NoDate).room
         /\ MadeOf(body, inputs, NoDate).status # -1
  <1>1. PICK room : room = Room(inputs, NoDate)
    OBVIOUS
  <1>2. PICK n \in Nat : n = NbChunks(size)
    BY ChunksAre
  <1>3. IF size > MaxValue
        THEN room.len = size + n * 2 + 4 /\ room.cmpnd = 0 /\ room.content = 4
        ELSE room.len = size + 2 /\ room.cmpnd = 0 /\ room.content = 2
    <2>1. CASE size > MaxValue
      <3>1. room = [len |-> size + n * 2 + 4, cmpnd |-> 0, content |-> 4]
        BY <1>1, <1>2, <2>1, RoomOfSeveral
      <3>2. QED
        BY <2>1, <3>1
    <2>2. CASE ~(size > MaxValue)
      <3>1. room = [len |-> size + 2, cmpnd |-> 0, content |-> 2]
        BY <1>1, <2>2, RoomOfSeveral
      <3>2. QED
        BY <2>2, <3>1
    <2>3. QED
      BY <2>1, <2>2
  <1>5. PICK len \in Nat : len = room.len
    BY <1>2, <1>3
  <1>6. PICK content \in Nat : content = room.content
    BY <1>3
  <1>7. PICK s : s = Filled(body, room)
    OBVIOUS
  <1>8. s \in Buffer(T, len) /\ s.w = content + size
    <2>1. content + size <= len
      BY <1>2, <1>3, <1>5, <1>6
    <2>2. QED
      BY <1>5, <1>6, <1>7, <2>1, FilledIs
  <1>9. s.w - room.content = size
    BY <1>6, <1>8
  <1>10. PICK d : d = EndCompound(s, room, size)
    OBVIOUS
  <1>11. d \in Buffer(T, len) /\ d.w = IF size > MaxValue THEN content + size + n * 2 ELSE s.w
    <2>1. /\ room.cmpnd \in Nat /\ room.content \in Nat /\ room.cmpnd + 2 <= len
          /\ size > MaxValue => room.cmpnd + 4 + size + n * 2 <= len
      BY <1>2, <1>3, <1>5
    <2>2. QED
      BY <1>2, <1>6, <1>8, <1>10, <2>1, EndCompoundIs
  <1>12. d.w = len
    BY <1>3, <1>5, <1>6, <1>8, <1>11
  <1>13. MadeOf(body, inputs, NoDate) = Outcome(d, room)
    BY <1>1, <1>7, <1>9, <1>10 DEF MadeOf, EndInputs
  <1>14. QED
    <2>1. room.len \in Nat /\ d \in Buffer(T, room.len)
      BY <1>5, <1>11
    <2>2. /\ Outcome(d, room).room = room.len
          /\ Outcome(d, room).high <= room.len <=> d.w <= room.len
          /\ Outcome(d, room).status = -1 <=> d.w # room.len
      BY <2>1, OutcomeIs
    <2>3. d.w = room.len
      BY <1>5, <1>12
    <2>4. QED
      BY <1>13, <2>1, <2>2, <2>3

\* A compound that the date takes over a limit has room for a part that it does not have: the room is
\* too long then, and never too short.
LEMMA MadeOfSeveralDated ==
  ASSUME NEW T, Int \subseteq T, NEW size \in Nat, size >= 1, NEW body \in Seq(T), Len(body) = size,
         NEW inputs, size = InputsSize(inputs), Len(inputs) > 1,
         NEW date \in T, Swap(date) \in T, date # NoDate
  PROVE  MadeOf(body, inputs, date).high <= MadeOf(body, inputs, date).room
         /\ (MadeOf(body, inputs, date).status = -1 <=> NbChunks(size) # NbChunks(size + 3))
  <1>1. PICK room : room = Room(inputs, date)
    OBVIOUS
  <1>2. PICK n \in Nat : n = NbChunks(size)
    BY ChunksAre
  <1>3. PICK k \in Nat : k = NbChunks(size + 3)
    BY ChunksAre
  <1>4. PICK length \in Nat : length = size + 5 + k * 2
    OBVIOUS
  <1>5. PICK q \in Nat : q = NbChunks(length)
    BY ChunksAre
  <1>6. n >= 1 /\ n <= k
    BY <1>2, <1>3, ChunksAre, ChunksGrow
  <1>7. (size > MaxValue <=> n >= 2) /\ (size + 3 > MaxValue <=> k >= 2)
    BY <1>2, <1>3, ChunksTwo
  <1>8. IF k >= 2
        THEN room.len = length + q * 2 + 4 /\ room.cmpnd = 5 /\ room.content = 9
        ELSE room.len = size + 5 /\ room.cmpnd = 3 /\ room.content = 5
    <2>0. length = size + 5 + NbChunks(size + 3) * 2
      BY <1>3, <1>4
    <2>1. CASE k >= 2
      <3>1. room = [len |-> length + q * 2 + 4, cmpnd |-> 5, content |-> 9]
        BY <1>1, <1>5, <1>7, <2>0, <2>1, RoomOfSeveralDated
      <3>2. QED
        BY <2>1, <3>1
    <2>2. CASE ~(k >= 2)
      <3>1. room = [len |-> size + 5, cmpnd |-> 3, content |-> 5]
        BY <1>1, <1>7, <2>0, <2>2, RoomOfSeveralDated
      <3>2. QED
        BY <2>2, <3>1
    <2>3. QED
      BY <2>1, <2>2
  <1>9. PICK len \in Nat : len = room.len
    BY <1>8
  <1>10. PICK content \in Nat : content = room.content
    BY <1>8
  <1>11. PICK s : s = Filled(body, room)
    OBVIOUS
  <1>12. s \in Buffer(T, len) /\ s.w = content + size
    <2>1. content + size <= len
      BY <1>4, <1>8, <1>9, <1>10
    <2>2. QED
      BY <1>9, <1>10, <1>11, <2>1, FilledIs
  <1>13. s.w - room.content = size
    BY <1>10, <1>12
  <1>14. PICK c : c = EndCompound(s, room, size)
    OBVIOUS
  <1>15. c \in Buffer(T, len) /\ c.w = IF n >= 2 THEN content + size + n * 2 ELSE content + size
    <2>1. /\ room.cmpnd \in Nat /\ room.content \in Nat /\ room.cmpnd + 2 <= len
          /\ size > MaxValue => room.cmpnd + 4 + size + n * 2 <= len
      <3>1. CASE k >= 2
        <4>1. room.cmpnd = 5 /\ room.content = 9 /\ len = length + q * 2 + 4
          BY <1>8, <1>9, <3>1
        <4>2. 5 + 4 + size + n * 2 <= length + q * 2 + 4
          BY <1>4, <1>6
        <4>3. QED
          BY <4>1, <4>2
      <3>2. CASE ~(k >= 2)
        <4>1. ~(size > MaxValue)
          BY <1>6, <1>7, <3>2
        <4>2. QED
          BY <1>8, <1>9, <3>2, <4>1
      <3>3. QED
        BY <3>1, <3>2
    <2>2. /\ c \in Buffer(T, len)
          /\ c.w = IF size > MaxValue THEN room.content + size + n * 2 ELSE s.w
      BY <1>2, <1>12, <1>14, <2>1, EndCompoundIs
    <2>3. QED
      BY <1>7, <1>10, <1>12, <2>2
  <1>16. PICK value \in Nat : value = c.w - (room.cmpnd - 1)
    BY <1>8, <1>10, <1>15
  <1>17. PICK e \in Nat : e = NbChunks(value)
    BY ChunksAre
  <1>18. value = IF k >= 2 THEN IF n >= 2 THEN size + 5 + n * 2 ELSE size + 5 ELSE size + 3
    BY <1>6, <1>8, <1>10, <1>15, <1>16
  <1>19. value > MaxValue <=> k >= 2
    BY <1>7, <1>18, MaxValueIs
  <1>20. k >= 2 => value <= length /\ e <= q /\ (value = length => e = q)
    <2>1. k >= 2 => value <= length
      BY <1>4, <1>6, <1>18
    <2>2. QED
      BY <1>5, <1>17, <2>1, ChunksGrow
  <1>21. PICK d : d = EndDated(c, date, value)
    OBVIOUS
  <1>22. d \in Buffer(T, len) /\ d.w = IF k >= 2 THEN 4 + value + e * 2 ELSE c.w
    <2>1. 3 <= len /\ (value > MaxValue => 4 + value + e * 2 <= len)
      BY <1>8, <1>9, <1>19, <1>20
    <2>2. d \in Buffer(T, len) /\ d.w = IF value > MaxValue THEN 4 + value + e * 2 ELSE c.w
      BY <1>15, <1>17, <1>21, <2>1, EndDatedIs
    <2>3. QED
      BY <1>19, <2>2
  <1>23. d.w <= len /\ (d.w # len <=> n # k)
    <2>1. CASE ~(k >= 2)
      BY <1>6, <1>8, <1>9, <1>10, <1>15, <1>22, <2>1
    <2>2. CASE k >= 2 /\ n = k
      <3>1. value = length
        BY <1>4, <1>18, <2>2
      <3>2. QED
        BY <1>8, <1>9, <1>20, <1>22, <2>2, <3>1
    <2>3. CASE k >= 2 /\ n # k
      <3>1. value < length
        BY <1>4, <1>6, <1>18, <2>3
      <3>2. QED
        BY <1>8, <1>9, <1>20, <1>22, <2>3, <3>1
    <2>4. QED
      BY <2>1, <2>2, <2>3
  <1>24. MadeOf(body, inputs, date) = Outcome(d, room)
    <2>1. c.w - (room.cmpnd - SIZEOF_DATE) = value
      BY <1>16, SizesAre
    <2>2. QED
      BY <1>1, <1>11, <1>13, <1>14, <1>21, <2>1 DEF MadeOf, EndInputs
  <1>25. QED
    <2>1. room.len \in Nat /\ d \in Buffer(T, room.len)
      BY <1>9, <1>22
    <2>2. /\ Outcome(d, room).room = room.len
          /\ Outcome(d, room).high <= room.len <=> d.w <= room.len
          /\ Outcome(d, room).status = -1 <=> d.w # room.len
      BY <2>1, OutcomeIs
    <2>3. d.w <= room.len /\ (d.w # room.len <=> n # k)
      BY <1>9, <1>23
    <2>4. QED
      BY <1>2, <1>3, <1>24, <2>1, <2>2, <2>3

-----------------------------------------------------------------------------
(* The inputs by themselves. *)

\* An input makes a TLV that takes the bytes that are counted for it.
LEMMA InputIs ==
  ASSUME NEW T, Int \subseteq T, NEW input, input.data \in Seq(T), input.type \in T
  PROVE  /\ InputTlv(input) \in Seq(T)
         /\ Len(InputTlv(input)) = InputSize(input)
         /\ InputSize(input) \in Nat /\ InputSize(input) >= 2
  <1>1. PICK data \in Seq(T) : data = input.data
    OBVIOUS
  <1>2. PICK type \in T : type = input.type
    OBVIOUS
  <1>3. PICK len \in Nat : len = Len(data)
    BY LenProperties
  <1>4. PICK n \in Nat : n = NbChunks(len)
    BY ChunksAre
  <1>5. len \in T
    OBVIOUS
  <1>6. CASE len > MaxValue
    <2>1. InputTlv(input) = LonghHead(type, len) \o SplitValue(data)
      BY <1>1, <1>2, <1>3, <1>6 DEF InputTlv, IsLarge, LongTlv
    <2>2. InputSize(input) = len + n * 2 + 4
      <3>1. Lengthened(len + 2) = len + n * 2 + 4
        BY <1>4, LengthenedIs
      <3>2. QED
        BY <1>1, <1>3, <1>6, <3>1, SizesAre DEF InputSize, IsLarge
    <2>3. LonghHead(type, len) \in Seq(T) /\ Len(LonghHead(type, len)) = 4
      BY <1>5, HeadsAre
    <2>4. SplitValue(data) \in Seq(T) /\ Len(SplitValue(data)) = len + n * 2
      <3>1. SplitValue(data) \in Seq(T) /\ Len(SplitValue(data)) = Len(data) + NbChunks(Len(data)) * SIZEOF_HEADER
        BY SplitLength
      <3>2. QED
        BY <1>3, <1>4, <3>1, SizesAre
    <2>5. /\ LonghHead(type, len) \o SplitValue(data) \in Seq(T)
          /\ Len(LonghHead(type, len) \o SplitValue(data)) = Len(LonghHead(type, len)) + Len(SplitValue(data))
      BY <2>3, <2>4, Concat
    <2>6. QED
      BY <2>1, <2>2, <2>3, <2>4, <2>5
  <1>7. CASE ~(len > MaxValue)
    <2>1. InputTlv(input) = <<type, len>> \o data
      BY <1>1, <1>2, <1>3, <1>7 DEF InputTlv, IsLarge
    <2>2. InputSize(input) = len + 2
      BY <1>1, <1>3, <1>7, SizesAre DEF InputSize, IsLarge
    <2>3. <<type, len>> \in Seq(T) /\ Len(<<type, len>>) = 2
      BY <1>5, HeadsAre
    <2>4. <<type, len>> \o data \in Seq(T) /\ Len(<<type, len>> \o data) = Len(<<type, len>>) + Len(data)
      BY <2>3, Concat
    <2>5. QED
      BY <1>3, <2>1, <2>2, <2>3, <2>4
  <1>8. QED
    BY <1>6, <1>7

Inputs(inputs, n, T) ==
  /\ Len(inputs) = n /\ DOMAIN inputs = 1 .. n
  /\ \A i \in 1 .. n : inputs[i].data \in Seq(T) /\ inputs[i].type \in T

\* Inputs are as long, one after another, as InputsSize says.
LEMMA InputsAre ==
  ASSUME NEW T, Int \subseteq T, NEW n \in Nat, NEW inputs, Inputs(inputs, n, T),
         NEW body, body = FlattenSeq([i \in DOMAIN inputs |-> InputTlv(inputs[i])])
  PROVE  /\ InputsSize(inputs) \in Nat
         /\ n >= 1 => InputsSize(inputs) >= 1
         /\ body \in Seq(T) /\ Len(body) = InputsSize(inputs)
  <1> USE DEF Inputs
  <1>1. ASSUME NEW i \in 1 .. n
        PROVE  /\ InputTlv(inputs[i]) \in Seq(T)
               /\ Len(InputTlv(inputs[i])) = InputSize(inputs[i])
               /\ InputSize(inputs[i]) \in Nat /\ InputSize(inputs[i]) >= 2
    BY InputIs
  <1> DEFINE Sums(g) == g = [i \in 0 .. Len(inputs) |-> IF i = 0 THEN 0 ELSE g[i - 1] + InputSize(inputs[i])]
  <1>2. InputsSize(inputs) = (CHOOSE g : Sums(g))[Len(inputs)]
    BY Zenon DEF InputsSize
  <1>3. PICK f : Recurs(f, n, Nat, 0, [i \in 1 .. n |-> [v \in Nat |-> v + InputSize(inputs[i])]])
    <2> DEFINE step == [i \in 1 .. n |-> [v \in Nat |-> v + InputSize(inputs[i])]]
    <2>1. step \in [1 .. n -> [Nat -> Nat]]
      BY <1>1
    <2>2. Steps(step, n, Nat)
      BY <2>1 DEF Steps
    <2> HIDE DEF step
    <2>3. \E f : Recurs(f, n, Nat, 0, step)
      BY <2>2, Recursion
    <2>4. QED
      BY <2>3 DEF step
  <1>4. f \in [0 .. n -> Nat] /\ f[0] = 0 /\ \A i \in 1 .. n : f[i] = f[i - 1] + InputSize(inputs[i])
    <2>1. /\ f \in [0 .. n -> Nat] /\ f[0] = 0
          /\ \A i \in 1 .. n : f[i] = [j \in 1 .. n |-> [v \in Nat |-> v + InputSize(inputs[j])]][i][f[i - 1]]
      BY <1>3 DEF Recurs
    <2>2. ASSUME NEW i \in 1 .. n PROVE f[i] = f[i - 1] + InputSize(inputs[i])
      <3>1. f[i - 1] \in Nat
        BY <2>1
      <3>2. QED
        BY <2>1, <3>1
    <2>3. QED
      BY <2>1, <2>2
  <1>5. Sums(f)
    <2>1. f = [i \in 0 .. n |-> f[i]]
      BY <1>4
    <2>2. \A i \in 0 .. n : f[i] = IF i = 0 THEN 0 ELSE f[i - 1] + InputSize(inputs[i])
      BY <1>4
    <2>3. f = [i \in 0 .. n |-> IF i = 0 THEN 0 ELSE f[i - 1] + InputSize(inputs[i])]
      BY <2>1, <2>2
    <2>4. QED
      BY <2>3
  <1>6. PICK g : g = (CHOOSE h : Sums(h)) /\ Sums(g)
    <2>1. \E h : Sums(h)
      BY <1>5, Zenon
    <2>2. QED
      BY <2>1, Zenon
  <1>7. \A i \in 0 .. n : g[i] = IF i = 0 THEN 0 ELSE g[i - 1] + InputSize(inputs[i])
    BY <1>6
  <1>8. \A i \in 0 .. n : g[i] \in Nat
    <2> DEFINE Holds == {i \in 0 .. n : g[i] \in Nat}
    <2>1. 0 \in Holds
      BY <1>7
    <2>2. ASSUME NEW i \in 1 .. n, i - 1 \in Holds PROVE i \in Holds
      <3>1. g[i - 1] \in Nat
        BY <2>2
      <3>2. InputSize(inputs[i]) \in Nat /\ g[i] = g[i - 1] + InputSize(inputs[i])
        BY <1>1, <1>7
      <3>3. QED
        BY <3>1, <3>2
    <2> HIDE DEF Holds
    <2>3. \A i \in 0 .. n : i \in Holds
      BY <2>1, <2>2, UpTo
    <2>4. QED
      BY <2>3 DEF Holds
  <1>9. g \in [0 .. n -> Nat] /\ g[0] = 0 /\ \A i \in 1 .. n : g[i] = g[i - 1] + InputSize(inputs[i])
    <2>1. g = [i \in 0 .. n |-> IF i = 0 THEN 0 ELSE g[i - 1] + InputSize(inputs[i])]
      BY <1>6
    <2>2. g \in [0 .. n -> Nat]
      BY <1>7, <1>8, <2>1
    <2>3. QED
      BY <1>7, <2>2
  <1>10. PICK ss : ss = [i \in 1 .. n |-> InputTlv(inputs[i])]
    OBVIOUS
  <1>11. \A i \in 1 .. n : ss[i] = InputTlv(inputs[i])
    BY <1>10
  <1>12. ss = [i \in 1 .. n |-> ss[i]]
    BY <1>10
  <1>13. \A i \in 1 .. n : ss[i] \in Seq(T) /\ g[i] = g[i - 1] + Len(ss[i])
    BY <1>1, <1>9, <1>11
  <1>14. FlattenSeq(ss) \in Seq(T) /\ Len(FlattenSeq(ss)) = g[n]
    <2>1. Pieces(ss, n, T)
      BY <1>12, <1>13 DEF Pieces
    <2>2. Lengths(g, n, ss)
      BY <1>9, <1>13 DEF Lengths
    <2>3. QED
      BY <2>1, <2>2, FlatLength
  <1>15. n >= 1 => g[n] >= 1
    <2>1. n >= 1 => g[n] = g[n - 1] + InputSize(inputs[n]) /\ g[n - 1] \in Nat /\ InputSize(inputs[n]) >= 2
                    /\ InputSize(inputs[n]) \in Nat
      BY <1>1, <1>8, <1>9
    <2>2. QED
      BY <2>1
  <1>16. InputsSize(inputs) = g[n]
    BY <1>2, <1>6, Zenon
  <1>17. body = FlattenSeq(ss)
    BY <1>10, Zenon
  <1>18. QED
    BY <1>8, <1>14, <1>15, <1>16, <1>17

\* Of all inputs, of any number and length and with a date or without: the room that is computed is never
\* too small, and too long only for compounds that their date takes over a limit.
THEOREM RoomEnough == MakingSpec => []RoomIsEnough
  <1>1. Taken => RoomIsEnough
    <2> SUFFICES ASSUME Taken, srcs # <<>>
                 PROVE  /\ FromInputs(InputsOf, timestamp).high <= FromInputs(InputsOf, timestamp).room
                        /\ FromInputs(InputsOf, timestamp).status = -1 <=>
                             /\ Len(InputsOf) > 1 /\ timestamp # NoDate
                             /\ NbChunks(InputsSize(InputsOf))
                                  # NbChunks(InputsSize(InputsOf) + SIZEOF_HEADER + SIZEOF_DATE)
      BY DEF RoomIsEnough
    <2>1. PICK n \in Nat : n = Len(srcs) /\ DOMAIN srcs = 1 .. n /\ n >= 1
      BY LenProperties, EmptySeq DEF Taken
    <2>2. PICK T : T = Int \cup {timestamp, Swap(timestamp)} \cup {GuessType(srcs[i]) : i \in 1 .. n}
      OBVIOUS
    <2>3. Int \subseteq T /\ timestamp \in T /\ Swap(timestamp) \in T
      BY <2>2
    <2>4. PICK inputs : inputs = InputsOf
      OBVIOUS
    <2>5. inputs = [i \in 1 .. n |-> [data |-> srcs[i], type |-> GuessType(srcs[i])]]
      BY <2>1, <2>4 DEF InputsOf
    <2>6. Len(inputs) = n /\ DOMAIN inputs = 1 .. n
      BY <2>5
    <2>7. ASSUME NEW i \in 1 .. n PROVE inputs[i].data \in Seq(T) /\ inputs[i].type \in T
      <3>1. inputs[i] = [data |-> srcs[i], type |-> GuessType(srcs[i])]
        BY <2>5
      <3>2. srcs[i] \in Seq(0 .. 255)
        BY <2>1, ElementOfSeq DEF Taken
      <3>3. srcs[i] \in Seq(T)
        <4>1. 0 .. 255 \subseteq T
          <5>1. \A x \in 0 .. 255 : x \in Int
            OBVIOUS
          <5>2. QED
            BY <2>3, <5>1, Zenon
        <4>2. QED
          BY <3>2, <4>1, SeqMonotonic
      <3>4. GuessType(srcs[i]) \in T
        BY <2>2
      <3>5. QED
        BY <3>1, <3>3, <3>4
    <2>8. PICK body : body = FlattenSeq([i \in DOMAIN inputs |-> InputTlv(inputs[i])])
      OBVIOUS
    <2>9. PICK size : size = InputsSize(inputs)
      OBVIOUS
    <2>10. size \in Nat /\ size >= 1 /\ body \in Seq(T) /\ Len(body) = size
      <3>1. Inputs(inputs, n, T)
        BY <2>6, <2>7 DEF Inputs
      <3>2. /\ InputsSize(inputs) \in Nat
            /\ n >= 1 => InputsSize(inputs) >= 1
            /\ body \in Seq(T) /\ Len(body) = InputsSize(inputs)
        BY <2>3, <2>8, <3>1, InputsAre
      <3>3. QED
        BY <2>1, <2>9, <3>2
    <2>11. PICK made : made = FromInputs(inputs, timestamp)
      OBVIOUS
    <2>12. made = MadeOf(body, inputs, timestamp)
      BY <2>8, <2>11 DEF FromInputs, FromInputsIn, MadeOf
    <2>13. /\ made.high <= made.room
           /\ made.status = -1 <=> Len(inputs) > 1 /\ timestamp # NoDate /\ NbChunks(size) # NbChunks(size + 3)
      <3>1. CASE timestamp = NoDate
        <4>1. CASE Len(inputs) > 1
          BY <2>3, <2>9, <2>10, <2>12, <3>1, <4>1, MadeOfSeveral
        <4>2. CASE ~(Len(inputs) > 1)
          BY <2>3, <2>9, <2>10, <2>12, <3>1, <4>2, MadeOfOne
        <4>3. QED
          BY <4>1, <4>2
      <3>2. CASE timestamp # NoDate
        <4>1. CASE Len(inputs) > 1
          BY <2>3, <2>9, <2>10, <2>12, <3>2, <4>1, MadeOfSeveralDated
        <4>2. CASE ~(Len(inputs) > 1)
          BY <2>3, <2>9, <2>10, <2>12, <3>2, <4>2, MadeOfOneDated
        <4>3. QED
          BY <4>1, <4>2
      <3>3. QED
        BY <3>1, <3>2
    <2>14. size + SIZEOF_HEADER + SIZEOF_DATE = size + 3
      BY <2>10, SizesAre
    <2>15. QED
      BY <2>4, <2>9, <2>11, <2>13, <2>14
  <1>2. QED
    BY <1>1, TakenAlways, PTL

=============================================================================
