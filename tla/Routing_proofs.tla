---------------------------- MODULE Routing_proofs ----------------------------
(***************************************************************************)
(* What the operators of Routing do to a dazibao, for any slots, and which *)
(* handler a request goes to.                                              *)
(***************************************************************************)
EXTENDS Routing, SequenceTheorems, FiniteSetTheorems, WellFoundedInduction, TLAPS

\* s is a sequence, of whatever.
IsSeq(s) == s \in Seq(Range(s))

-----------------------------------------------------------------------------
(* Sequences. *)

\* What the prover has to know of one.
LEMMA SeqIs ==
  ASSUME NEW s, IsSeq(s)
  PROVE  /\ Len(s) \in Nat /\ DOMAIN s = 1 .. Len(s)
         /\ \A i \in 1 .. Len(s) : s[i] \in Range(s)
         /\ Len(s) = 0 <=> s = <<>>
  <1>1. Len(s) \in Nat /\ DOMAIN s = 1 .. Len(s)
    BY LenProperties DEF IsSeq
  <1>2. Len(s) = 0 <=> s = <<>>
    BY EmptySeq DEF IsSeq
  <1>3. QED
    BY <1>1, <1>2 DEF Range

\* A sequence over any set.
LEMMA SeqOver ==
  ASSUME NEW S, NEW s \in Seq(S)
  PROVE  IsSeq(s)
  <1>1. /\ Len(s) \in Nat /\ DOMAIN s = 1 .. Len(s) /\ s = [i \in 1 .. Len(s) |-> s[i]]
    BY LenProperties
  <1>2. \A i \in 1 .. Len(s) : s[i] \in Range(s)
    BY <1>1 DEF Range
  <1>3. s \in [1 .. Len(s) -> Range(s)]
    BY <1>1, <1>2
  <1>4. QED
    BY <1>1, <1>3, SeqDef DEF IsSeq

\* A part of anything is a sequence.
LEMMA PartIs ==
  ASSUME NEW s, NEW m \in Int, NEW n \in Int
  PROVE  /\ IsSeq(SubSeq(s, m, n))
         /\ Len(SubSeq(s, m, n)) = IF m <= n THEN n - m + 1 ELSE 0
         /\ \A i \in 1 .. n - m + 1 : SubSeq(s, m, n)[i] = s[m + i - 1]
  <1> DEFINE S == {s[i] : i \in m .. n}
  <1>1. \A i \in m .. n : s[i] \in S
    OBVIOUS
  <1> HIDE DEF S
  <1>2. /\ SubSeq(s, m, n) \in Seq(S)
        /\ Len(SubSeq(s, m, n)) = IF m <= n THEN n - m + 1 ELSE 0
        /\ \A i \in 1 .. n - m + 1 : SubSeq(s, m, n)[i] = s[m + i - 1]
    BY <1>1, SubSeqProperties
  <1>3. QED
    BY <1>2, SeqOver

\* Concatenation, element by element.
LEMMA ConcatIs ==
  ASSUME NEW s, NEW t, IsSeq(s), IsSeq(t)
  PROVE  /\ IsSeq(s \o t) /\ Len(s \o t) = Len(s) + Len(t)
         /\ \A i \in 1 .. Len(s) : (s \o t)[i] = s[i]
         /\ \A i \in 1 .. Len(t) : (s \o t)[Len(s) + i] = t[i]
  <1> DEFINE S == Range(s) \cup Range(t)
  <1>1. s \in Seq(S) /\ t \in Seq(S)
    BY SeqMonotonic DEF IsSeq
  <1> HIDE DEF S
  <1>2. Len(s) \in Nat /\ Len(t) \in Nat
    BY SeqIs
  <1>3. /\ s \o t \in Seq(S)
        /\ Len(s \o t) = Len(s) + Len(t)
        /\ \A i \in 1 .. Len(s) + Len(t) : (s \o t)[i] = IF i <= Len(s) THEN s[i] ELSE t[i - Len(s)]
    BY <1>1, ConcatProperties
  <1>4. \A i \in 1 .. Len(t) : (s \o t)[Len(s) + i] = t[i]
    <2> SUFFICES ASSUME NEW i \in 1 .. Len(t) PROVE (s \o t)[Len(s) + i] = t[i]
      OBVIOUS
    <2>1. /\ Len(s) + i \in 1 .. Len(s) + Len(t) /\ ~(Len(s) + i <= Len(s))
          /\ Len(s) + i - Len(s) = i
      BY <1>2
    <2>2. QED
      BY <1>3, <2>1
  <1>5. \A i \in 1 .. Len(s) : (s \o t)[i] = s[i]
    BY <1>2, <1>3
  <1>6. IsSeq(s \o t)
    BY <1>3, SeqOver
  <1>7. QED
    BY <1>3, <1>4, <1>5, <1>6

\* An addition at the end, element by element.
LEMMA AppendIs ==
  ASSUME NEW s, NEW e, IsSeq(s)
  PROVE  /\ IsSeq(Append(s, e)) /\ Len(Append(s, e)) = Len(s) + 1
         /\ \A i \in 1 .. Len(s) : Append(s, e)[i] = s[i]
         /\ Append(s, e)[Len(s) + 1] = e
  <1> DEFINE S == Range(s) \cup {e}
  <1>1. s \in Seq(S) /\ e \in S
    BY SeqMonotonic DEF IsSeq
  <1> HIDE DEF S
  <1>2. /\ Append(s, e) \in Seq(S) /\ Len(Append(s, e)) = Len(s) + 1
        /\ \A i \in 1 .. Len(s) : Append(s, e)[i] = s[i]
        /\ Append(s, e)[Len(s) + 1] = e
    BY <1>1, AppendProperties
  <1>3. IsSeq(Append(s, e))
    BY <1>2, SeqOver
  <1>4. QED
    BY <1>2, <1>3

\* Two sequences are the same when their elements are.
LEMMA SameSeq ==
  ASSUME NEW s, NEW t, IsSeq(s), IsSeq(t), Len(s) = Len(t), \A i \in 1 .. Len(s) : s[i] = t[i]
  PROVE  s = t
  <1> DEFINE S == Range(s) \cup Range(t)
  <1>1. s \in Seq(S) /\ t \in Seq(S)
    BY SeqMonotonic DEF IsSeq
  <1> HIDE DEF S
  <1>2. QED
    BY <1>1, SeqEqual

\* Tuples are sequences of their lengths.
LEMMA TuplesAre ==
  ASSUME NEW a, NEW b, NEW c
  PROVE  /\ IsSeq(<<a>>) /\ Len(<<a>>) = 1
         /\ IsSeq(<<a, b>>) /\ Len(<<a, b>>) = 2
         /\ IsSeq(<<a, b, c>>) /\ Len(<<a, b, c>>) = 3
  <1> DEFINE S == {a, b, c}
  <1>1. a \in S /\ b \in S /\ c \in S
    OBVIOUS
  <1> HIDE DEF S
  <1>2. <<a>> \in Seq(S) /\ <<a, b>> \in Seq(S) /\ <<a, b, c>> \in Seq(S)
    BY <1>1
  <1>3. Len(<<a>>) = 1 /\ Len(<<a, b>>) = 2 /\ Len(<<a, b, c>>) = 3
    OBVIOUS
  <1>4. QED
    BY <1>2, <1>3, SeqOver

\* So is the empty one.
LEMMA EmptyIs == IsSeq(<<>>) /\ Len(<<>>) = 0
  BY EmptySeq, SeqOver

\* A function on 1 .. n is one.
LEMMA FcnIs ==
  ASSUME NEW n \in Nat, NEW f, f = [i \in 1 .. n |-> f[i]]
  PROVE  IsSeq(f) /\ Len(f) = n
  <1>1. DOMAIN f = 1 .. n /\ \A i \in 1 .. n : f[i] \in Range(f)
    BY DEF Range
  <1>2. f \in [1 .. n -> Range(f)]
    BY <1>1
  <1>3. f \in Seq(Range(f))
    BY <1>2, SeqDef
  <1>4. Len(f) = n
    BY <1>1, <1>3, LenProperties
  <1>5. QED
    BY <1>3, <1>4 DEF IsSeq

-----------------------------------------------------------------------------
(* Least elements, and what stays when pads go. *)

\* A set of naturals has a least element.
LEMMA LeastNatural ==
  ASSUME NEW T, T \subseteq Nat, T # {}
  PROVE  \E n \in T : \A k \in T : n <= k
  <1> DEFINE Less == {pair \in Nat \X Nat : pair[1] < pair[2]}
  <1>1. IsWellFoundedOn(Less, Nat)
    <2>1. Less = OpToRel(<, Nat)
      BY DEF OpToRel
    <2>2. QED
      BY <2>1, NatLessThanWellFounded, Zenon
  <1>2. PICK n \in T : \A k \in T : <<k, n>> \notin Less
    <2> HIDE DEF Less
    <2>1. QED
      BY <1>1, WFMin
  <1>3. \A k \in T : ~(k < n)
    <2> SUFFICES ASSUME NEW k \in T PROVE ~(k < n)
      OBVIOUS
    <2>1. <<k, n>> \notin Less /\ <<k, n>> \in Nat \X Nat
      BY <1>2
    <2>2. k < n => <<k, n>> \in Less
      BY <2>1
    <2>3. QED
      BY <2>1, <2>2
  <1>4. \A k \in T : k \in Nat
    OBVIOUS
  <1>5. QED
    BY <1>3, <1>4

\* What Compacted has of the first slots: g[n] of the first n.
NextKept(f, g, n) ==
  IF n = 0 THEN <<>> ELSE IF f[n] \in Void THEN g[n - 1] ELSE Append(g[n - 1], f[n])

Keeps(f, g, n) == g = [i \in 0 .. n |-> NextKept(f, g, i)]

\* There is such a g for any number of slots.
LEMMA KeepsExists ==
  ASSUME NEW f, NEW n \in Nat
  PROVE  \E g : Keeps(f, g, n)
  <1> DEFINE Bad == {i \in Nat : ~\E g : Keeps(f, g, i)}
  <1> SUFFICES ASSUME Bad # {} PROVE FALSE
    OBVIOUS
  <1>1. PICK b \in Bad : \A i \in Bad : b <= i
    <2> HIDE DEF Bad
    <2>1. Bad \subseteq Nat
      BY DEF Bad
    <2>2. QED
      BY <2>1, LeastNatural
  <1>2. CASE b = 0
    <2> DEFINE g == [i \in 0 .. 0 |-> <<>>]
    <2>1. Keeps(f, g, 0)
      BY DEF Keeps, NextKept
    <2> HIDE DEF g
    <2>2. QED
      BY <2>1, <1>2
  <1>3. CASE b # 0
    <2>1. b - 1 \in Nat /\ b - 1 \notin Bad
      BY <1>1, <1>3
    <2>2. PICK h : Keeps(f, h, b - 1)
      BY <2>1
    <2> DEFINE g == [i \in 0 .. b |-> NextKept(f, h, i)]
    <2>3. \A i \in 0 .. b - 1 : g[i] = h[i]
      BY <2>1, <2>2 DEF Keeps
    <2>4. g = [i \in 0 .. b |-> NextKept(f, h, i)]
      OBVIOUS
    <2> HIDE DEF g
    <2>5. ASSUME NEW i \in 0 .. b PROVE NextKept(f, h, i) = NextKept(f, g, i)
      <3>1. i = 0 \/ i - 1 \in 0 .. b - 1
        BY <2>1
      <3>2. i = 0 \/ g[i - 1] = h[i - 1]
        BY <3>1, <2>3
      <3>3. QED
        BY <3>2 DEF NextKept
    <2>6. Keeps(f, g, b)
      BY <2>4, <2>5 DEF Keeps
    <2>7. QED
      BY <2>6
  <1>4. QED
    BY <1>2, <1>3

\* Compacted(f) is the last of them.
LEMMA CompactedIs ==
  ASSUME NEW f, IsSeq(f)
  PROVE  \E g : /\ Compacted(f) = g[Len(f)]
                /\ \A i \in 0 .. Len(f) : g[i] = NextKept(f, g, i)
  <1> DEFINE h == CHOOSE g : Keeps(f, g, Len(f))
  <1>1. Compacted(f) = h[Len(f)]
    BY Zenon DEF Compacted, Keeps, NextKept
  <1>2. Len(f) \in Nat
    BY SeqIs
  <1>3. Keeps(f, h, Len(f))
    BY <1>2, KeepsExists, Zenon
  <1> HIDE DEF h
  <1>4. \A i \in 0 .. Len(f) : h[i] = NextKept(f, h, i)
    BY <1>3, Zenon DEF Keeps
  <1>5. QED
    BY <1>1, <1>4

\* Sequences, none longer than its number, that go on from one another.
Grows(g, n) ==
  /\ \A i \in 0 .. n : IsSeq(g[i]) /\ Len(g[i]) \in 0 .. i
  /\ \A i \in 0 .. n : \A j \in 0 .. i :
       Len(g[j]) <= Len(g[i]) /\ \A k \in 1 .. Len(g[j]) : g[i][k] = g[j][k]

\* The slots kept of the first i are such sequences.
LEMMA KeptGrow ==
  ASSUME NEW f, NEW n \in Nat, NEW g, \A i \in 0 .. n : g[i] = NextKept(f, g, i)
  PROVE  Grows(g, n)
  <1> DEFINE Fits(i) ==
               /\ IsSeq(g[i]) /\ Len(g[i]) \in 0 .. i
               /\ \A j \in 0 .. i :
                    Len(g[j]) <= Len(g[i]) /\ \A k \in 1 .. Len(g[j]) : g[i][k] = g[j][k]
  <1> DEFINE Bad == {i \in 0 .. n : ~Fits(i)}
  <1> SUFFICES ASSUME Bad # {} PROVE FALSE
    BY DEF Grows
  <1>1. PICK b \in Bad : \A i \in Bad : b <= i
    <2>1. Bad \subseteq Nat
      OBVIOUS
    <2> HIDE DEF Bad
    <2>2. QED
      BY <2>1, LeastNatural
  <1>2. b \in 0 .. n /\ ~Fits(b)
    BY <1>1
  <1>3. g[b] = NextKept(f, g, b)
    BY <1>2
  <1>4. b # 0
    <2> SUFFICES ASSUME b = 0 PROVE FALSE
      OBVIOUS
    <2>1. g[b] = <<>>
      BY <1>3 DEF NextKept
    <2>2. IsSeq(g[b]) /\ Len(g[b]) = 0
      BY <2>1, EmptyIs
    <2>3. Fits(b)
      BY <2>2
    <2>4. QED
      BY <1>2, <2>3
  <1>5. b - 1 \in 0 .. n /\ b \in Nat /\ Fits(b - 1)
    BY <1>1, <1>2, <1>4
  <1>6. PICK a : a = b - 1
    OBVIOUS
  <1>7. a \in Nat /\ b = a + 1 /\ 0 .. b = 0 .. a \cup {b}
    BY <1>5, <1>6
  <1>8. IsSeq(g[a]) /\ Len(g[a]) \in 0 .. a
    BY <1>5, <1>6
  <1>9. \A j \in 0 .. a : Len(g[j]) <= Len(g[a]) /\ \A k \in 1 .. Len(g[j]) : g[a][k] = g[j][k]
    BY <1>5, <1>6
  <1>10. /\ IsSeq(g[b]) /\ Len(g[b]) \in {Len(g[a]), Len(g[a]) + 1}
         /\ \A k \in 1 .. Len(g[a]) : g[b][k] = g[a][k]
    BY <1>3, <1>4, <1>6, <1>8, AppendIs DEF NextKept
  <1> HIDE DEF Fits, Bad
  <1>11. \A j \in 0 .. a : Len(g[j]) \in Nat
    <2> SUFFICES ASSUME NEW j \in 0 .. a PROVE Len(g[j]) \in Nat
      OBVIOUS
    <2>1. j \in 0 .. n /\ j \notin Bad
      BY <1>1, <1>2, <1>7
    <2>2. Fits(j)
      BY <2>1 DEF Bad
    <2>3. QED
      BY <2>1, <2>2 DEF Fits
  <1>12. \A j \in 0 .. b : Len(g[j]) <= Len(g[b]) /\ \A k \in 1 .. Len(g[j]) : g[b][k] = g[j][k]
    <2>1. ASSUME NEW j \in 0 .. a
          PROVE  Len(g[j]) <= Len(g[b]) /\ \A k \in 1 .. Len(g[j]) : g[b][k] = g[j][k]
      BY <1>8, <1>9, <1>10, <1>11
    <2>2. Len(g[b]) \in Nat
      BY <1>8, <1>10
    <2>3. QED
      BY <1>7, <2>1, <2>2
  <1>13. Fits(b)
    BY <1>7, <1>8, <1>10, <1>12 DEF Fits
  <1>14. QED
    BY <1>2, <1>13

-----------------------------------------------------------------------------
(* The operations on slots. *)

\* dz_compact makes a dazibao no longer.
LEMMA CompactedSeq ==
  ASSUME NEW f, IsSeq(f)
  PROVE  IsSeq(Compacted(f)) /\ Len(Compacted(f)) \in 0 .. Len(f)
  <1>1. Len(f) \in Nat /\ Len(f) \in 0 .. Len(f)
    BY SeqIs
  <1>2. PICK g : Compacted(f) = g[Len(f)] /\ \A i \in 0 .. Len(f) : g[i] = NextKept(f, g, i)
    BY CompactedIs
  <1>3. \A i \in 0 .. Len(f) : IsSeq(g[i]) /\ Len(g[i]) \in 0 .. i
    BY <1>1, <1>2, KeptGrow DEF Grows
  <1>4. QED
    BY <1>1, <1>2, <1>3

\* A new value takes the place of pads at the end, from s on.
LEMMA AddedIs ==
  ASSUME NEW f, IsSeq(f), NEW v, NEW g \in Added(f, v)
  PROVE  /\ IsSeq(g)
         /\ \E s \in 1 .. Len(f) + 1 :
              /\ Len(g) = s /\ g[s] = v
              /\ \A i \in 1 .. s - 1 : g[i] = f[i]
              /\ \A i \in s .. Len(f) : f[i] = PAD
  <1>1. PICK n \in Nat : n = Len(f)
    BY SeqIs
  <1>2. PICK s \in 1 .. n + 1 : /\ \A i \in s .. n : f[i] = PAD
                                /\ g = Append(SubSeq(f, 1, s - 1), v)
    BY <1>1 DEF Added, PadStarts
  <1>3. PICK front : front = SubSeq(f, 1, s - 1)
    OBVIOUS
  <1>4. IsSeq(front) /\ Len(front) = s - 1 /\ \A i \in 1 .. s - 1 : front[i] = f[i]
    BY <1>2, <1>3, PartIs
  <1>5. /\ IsSeq(g) /\ Len(g) = Len(front) + 1 /\ g[Len(front) + 1] = v
        /\ \A i \in 1 .. Len(front) : g[i] = front[i]
    BY <1>2, <1>3, <1>4, AppendIs
  <1>6. QED
    BY <1>1, <1>2, <1>4, <1>5

\* The last slot goes with the pads in front of it, from s on; any other becomes a pad.
LEMMA RemovedIs ==
  ASSUME NEW f, IsSeq(f), NEW o \in 1 .. Len(f), NEW g \in Removed(f, o)
  PROVE  /\ IsSeq(g)
         /\ \/ /\ o = Len(f)
               /\ \E s \in 1 .. o : /\ Len(g) = s - 1
                                    /\ \A i \in 1 .. s - 1 : g[i] = f[i]
                                    /\ \A i \in s .. o - 1 : f[i] = PAD
            \/ /\ o # Len(f) /\ Len(g) = Len(f) /\ g[o] = PAD
               /\ \A i \in 1 .. Len(f) : i # o => g[i] = f[i]
  <1>1. PICK n \in Nat : n = Len(f)
    BY SeqIs
  <1>2. CASE o = n
    <2>1. PICK s \in 1 .. o : (\A i \in s .. o - 1 : f[i] = PAD) /\ g = SubSeq(f, 1, s - 1)
      BY <1>1, <1>2 DEF Removed, PadStarts
    <2>2. IsSeq(g) /\ Len(g) = s - 1 /\ \A i \in 1 .. s - 1 : g[i] = f[i]
      BY <2>1, PartIs
    <2>3. QED
      BY <1>1, <1>2, <2>1, <2>2
  <1>3. CASE o # n
    <2>1. g = [f EXCEPT ![o] = PAD] /\ DOMAIN f = 1 .. n
      BY <1>1, <1>3, SeqIs DEF Removed
    <2>2. g = [i \in 1 .. n |-> g[i]]
      BY <2>1
    <2>3. IsSeq(g) /\ Len(g) = n
      BY <1>1, <2>2, FcnIs
    <2>4. g[o] = PAD /\ \A i \in 1 .. n : i # o => g[i] = f[i]
      BY <1>1, <2>1
    <2>5. QED
      BY <1>1, <1>3, <2>3, <2>4
  <1>4. QED
    BY <1>2, <1>3

-----------------------------------------------------------------------------
(* What the operations spare. *)

\* h takes each TLV of f that has a value, but those at the slots in but, to a place of its own in g.
Moves(h, f, g, but) ==
  \A i \in DOMAIN f \ but : f[i] \notin Void =>
    /\ h[i] \in DOMAIN g /\ g[h[i]] = f[i]
    /\ \A j \in DOMAIN f \ but : f[j] \notin Void /\ h[j] = h[i] => j = i

Spared(f, g, but) == \E h : Moves(h, f, g, but)

\* A TLV may stay where it is.
LEMMA SparedInPlace ==
  ASSUME NEW f, NEW g, NEW but,
         \A i \in DOMAIN f \ but : f[i] \notin Void => i \in DOMAIN g /\ g[i] = f[i]
  PROVE  Spared(f, g, but)
  <1> DEFINE h == [i \in DOMAIN f |-> i]
  <1>1. \A i \in DOMAIN f : h[i] = i
    OBVIOUS
  <1> HIDE DEF h
  <1>2. Moves(h, f, g, but)
    BY <1>1 DEF Moves
  <1>3. QED
    BY <1>2 DEF Spared

\* An addition takes the place of pads.
LEMMA AddedSpares ==
  ASSUME NEW f, IsSeq(f), NEW v, NEW g \in Added(f, v)
  PROVE  Spared(f, g, {})
  <1>1. PICK n \in Nat : n = Len(f) /\ DOMAIN f = 1 .. n
    BY SeqIs
  <1>2. IsSeq(g) /\ \E s \in 1 .. n + 1 :
          /\ Len(g) = s
          /\ \A i \in 1 .. s - 1 : g[i] = f[i]
          /\ \A i \in s .. n : f[i] = PAD
    BY <1>1, AddedIs
  <1>3. PICK s \in 1 .. n + 1 : /\ Len(g) = s
                                /\ \A i \in 1 .. s - 1 : g[i] = f[i]
                                /\ \A i \in s .. n : f[i] = PAD
    BY <1>2
  <1>4. DOMAIN g = 1 .. s
    BY <1>2, <1>3, SeqIs
  <1>5. \A i \in DOMAIN f : f[i] \notin Void => i \in DOMAIN g /\ g[i] = f[i]
    BY <1>1, <1>3, <1>4 DEF Void
  <1>6. QED
    BY <1>5, SparedInPlace

\* A deletion spares all but its slot.
LEMMA RemovedSpares ==
  ASSUME NEW f, IsSeq(f), NEW o \in DOMAIN f, NEW g \in Removed(f, o)
  PROVE  Spared(f, g, {o})
  <1>1. PICK n \in Nat : n = Len(f) /\ DOMAIN f = 1 .. n
    BY SeqIs
  <1>2. o \in 1 .. Len(f)
    BY <1>1
  <1>3. /\ IsSeq(g)
        /\ \/ o = n /\ \E s \in 1 .. o : /\ Len(g) = s - 1
                                         /\ \A i \in 1 .. s - 1 : g[i] = f[i]
                                         /\ \A i \in s .. o - 1 : f[i] = PAD
           \/ o # n /\ Len(g) = n /\ \A i \in 1 .. n : i # o => g[i] = f[i]
    BY <1>1, <1>2, RemovedIs
  <1>4. PICK m \in Nat : m = Len(g) /\ DOMAIN g = 1 .. m
    BY <1>3, SeqIs
  <1>5. \A i \in DOMAIN f \ {o} : f[i] \notin Void => i \in DOMAIN g /\ g[i] = f[i]
    <2>1. CASE o = n /\ \E s \in 1 .. o : /\ Len(g) = s - 1
                                          /\ \A i \in 1 .. s - 1 : g[i] = f[i]
                                          /\ \A i \in s .. o - 1 : f[i] = PAD
      <3>1. PICK s \in 1 .. o : /\ m = s - 1
                                /\ \A i \in 1 .. s - 1 : g[i] = f[i]
                                /\ \A i \in s .. o - 1 : f[i] = PAD
        BY <1>4, <2>1
      <3>2. QED
        BY <1>1, <1>2, <1>4, <2>1, <3>1 DEF Void
    <2>2. CASE o # n /\ Len(g) = n /\ \A i \in 1 .. n : i # o => g[i] = f[i]
      BY <1>1, <1>4, <2>2
    <2>3. QED
      BY <1>3, <2>1, <2>2
  <1>6. QED
    BY <1>5, SparedInPlace

\* Where dz_compact moves each TLV: nowhere behind where it was, and no two to the same place.
LEMMA CompactedMoves ==
  ASSUME NEW f, IsSeq(f)
  PROVE  \E h : /\ Moves(h, f, Compacted(f), {})
                /\ \A i \in DOMAIN f : f[i] \notin Void => h[i] \in 1 .. i
  <1>1. PICK n \in Nat : n = Len(f) /\ DOMAIN f = 1 .. n
    BY SeqIs
  <1>2. PICK g : Compacted(f) = g[n] /\ \A i \in 0 .. n : g[i] = NextKept(f, g, i)
    BY <1>1, CompactedIs
  <1>3. /\ \A i \in 0 .. n : IsSeq(g[i]) /\ Len(g[i]) \in 0 .. i
        /\ \A i \in 0 .. n : \A j \in 0 .. i :
             Len(g[j]) <= Len(g[i]) /\ \A k \in 1 .. Len(g[j]) : g[i][k] = g[j][k]
    <2>1. Grows(g, n)
      BY <1>1, <1>2, KeptGrow
    <2>2. QED
      BY <2>1 DEF Grows
  <1> DEFINE h == [i \in 0 .. n |-> Len(g[i])]
  <1>4. \A i \in 0 .. n : h[i] = Len(g[i]) /\ h[i] \in 0 .. i
    BY <1>3
  <1> HIDE DEF h
  <1>5. ASSUME NEW i \in 1 .. n, f[i] \notin Void
        PROVE  /\ h[i] = h[i - 1] + 1 /\ g[i][h[i]] = f[i]
               /\ h[i] \in 1 .. i
    <2>1. i - 1 \in 0 .. n /\ i \in 0 .. n /\ i # 0
      OBVIOUS
    <2>2. g[i] = Append(g[i - 1], f[i])
      BY <1>2, <1>5, <2>1 DEF NextKept
    <2>3. IsSeq(g[i - 1])
      BY <1>3, <2>1
    <2>4. Len(g[i]) = Len(g[i - 1]) + 1 /\ g[i][Len(g[i - 1]) + 1] = f[i]
      BY <2>2, <2>3, AppendIs
    <2>5. h[i] = h[i - 1] + 1 /\ h[i] \in 0 .. i /\ h[i - 1] \in 0 .. i - 1
      BY <1>4, <2>1, <2>4
    <2>6. QED
      BY <1>4, <2>1, <2>4, <2>5
  <1>6. ASSUME NEW i \in 1 .. n, NEW j \in 1 .. n, f[i] \notin Void, f[j] \notin Void, j < i
        PROVE  h[j] < h[i]
    <2>1. j \in 0 .. i - 1 /\ i - 1 \in 0 .. n /\ i \in 0 .. n /\ j \in 0 .. n
      BY <1>6
    <2>2. h[j] <= h[i - 1]
      BY <1>3, <1>4, <2>1
    <2>3. h[i] = h[i - 1] + 1 /\ h[j] \in Int /\ h[i - 1] \in Int
      BY <1>4, <1>5, <1>6, <2>1
    <2>4. QED
      BY <2>2, <2>3
  <1>7. ASSUME NEW i \in 1 .. n, f[i] \notin Void
        PROVE  h[i] \in DOMAIN g[n] /\ g[n][h[i]] = f[i]
    <2>1. i \in 0 .. n /\ n \in 0 .. n
      OBVIOUS
    <2>2. h[i] \in 1 .. Len(g[i]) /\ g[i][h[i]] = f[i]
      BY <1>4, <1>5, <1>7, <2>1
    <2>3. Len(g[i]) <= Len(g[n]) /\ \A k \in 1 .. Len(g[i]) : g[n][k] = g[i][k]
      BY <1>3, <2>1
    <2>4. DOMAIN g[n] = 1 .. Len(g[n]) /\ Len(g[n]) \in Nat /\ Len(g[i]) \in Nat
      BY <1>3, <2>1, SeqIs
    <2>5. QED
      BY <2>2, <2>3, <2>4
  <1>8. \A i \in 1 .. n : f[i] \notin Void => \A j \in 1 .. n : f[j] \notin Void /\ h[j] = h[i] => j = i
    <2> SUFFICES ASSUME NEW i \in 1 .. n, f[i] \notin Void, NEW j \in 1 .. n, f[j] \notin Void, h[j] = h[i]
                 PROVE  j = i
      OBVIOUS
    <2>1. h[i] \in Int /\ h[j] \in Int
      BY <1>4
    <2>2. ~(j < i) /\ ~(i < j)
      BY <1>6, <2>1
    <2>3. QED
      BY <2>2
  <1>9. Moves(h, f, Compacted(f), {})
    BY <1>1, <1>2, <1>7, <1>8 DEF Moves
  <1>10. QED
    BY <1>1, <1>5, <1>9

LEMMA CompactedSpares ==
  ASSUME NEW f, IsSeq(f)
  PROVE  Spared(f, Compacted(f), {})
  BY CompactedMoves DEF Spared

-----------------------------------------------------------------------------
(* Routes. *)

\* A path that starts with a directory has all its parts.
LEMMA PrefixIs ==
  ASSUME NEW s, IsSeq(s), NEW t, IsPrefix(s, t)
  PROVE  Len(s) <= Len(t) /\ \A i \in 1 .. Len(s) : s[i] = t[i]
  <1>1. Len(s) \in Nat
    BY SeqIs
  <1>2. Len(s) <= Len(t) /\ SubSeq(s, 1, Len(s)) = SubSeq(t, 1, Len(s))
    BY DEF IsPrefix
  <1>3. \A i \in 1 .. Len(s) : SubSeq(s, 1, Len(s))[i] = s[i] /\ SubSeq(t, 1, Len(s))[i] = t[i]
    BY <1>1, PartIs
  <1>4. QED
    BY <1>2, <1>3

\* A handler is that of a route that fits.
LEMMA HandlerIs ==
  ASSUME NEW routes, DOMAIN routes \subseteq Nat, NEW method, NEW path
  PROVE  LET dir == IF path = NoPath THEN <<"index.html">> ELSE path.dir
         IN  \/ HandlerOf(routes, method, path) = "none"
             \/ \E i \in Matching(routes, method, dir) :
                   HandlerOf(routes, method, path) = routes[i].handler
  <1>1. PICK dir : dir = IF path = NoPath THEN <<"index.html">> ELSE path.dir
    OBVIOUS
  <1>2. PICK fits : fits = Matching(routes, method, dir)
    OBVIOUS
  <1>3. HandlerOf(routes, method, path) = IF fits = {} THEN "none" ELSE routes[Min(fits)].handler
    BY <1>1, <1>2 DEF HandlerOf
  <1>4. fits \subseteq Nat
    BY <1>2 DEF Matching
  <1>5. fits # {} => Min(fits) \in fits
    BY <1>4, LeastNatural DEF Min
  <1>6. QED
    BY <1>1, <1>2, <1>3, <1>5

\* The routes, by their methods and the first names of their directories.
LEMMA RoutesAre ==
  /\ DOMAIN Routes = 1 .. 7
  /\ \A i \in DOMAIN Routes :
       /\ IsSeq(Routes[i].dir) /\ Len(Routes[i].dir) > 0
       /\ Routes[i].handler = "index" =>
            Routes[i].method = "GET" /\ Routes[i].dir = <<"index.html">>
       /\ Routes[i].handler = "rm_tlv" =>
            Routes[i].method = "POST" /\ Routes[i].dir = <<"tlv", "delete">>
       /\ Routes[i].handler = "media_tlv" =>
            Routes[i].method = "GET" /\ Routes[i].dir = <<"tlv">>
       /\ Routes[i].handler = "compact_dz" =>
            Routes[i].method = "POST" /\ Routes[i].dir = <<"compact">>
       /\ Routes[i].handler = "hash" =>
            Routes[i].method = "GET" /\ Routes[i].dir = <<"hash">>
       /\ Routes[i].handler = "new_tlv_text" =>
            Routes[i].method = "POST" /\ Routes[i].dir = <<"tlv", "add", "text">>
       /\ Routes[i].handler = "form_tlv" =>
            Routes[i].method = "POST" /\ Routes[i].dir = <<"tlv", "add", "form">>
       /\ Routes[i].handler \in
            {"index", "rm_tlv", "media_tlv", "compact_dz", "hash", "new_tlv_text", "form_tlv"}
  <1>1. /\ IsSeq(<<"index.html">>) /\ IsSeq(<<"tlv", "delete">>) /\ IsSeq(<<"tlv", "add", "text">>)
        /\ IsSeq(<<"tlv", "add", "form">>) /\ IsSeq(<<"tlv">>)
        /\ IsSeq(<<"compact">>) /\ IsSeq(<<"hash">>)
    BY TuplesAre, Zenon
  <1>2. /\ Len(<<"index.html">>) = 1 /\ Len(<<"tlv", "delete">>) = 2
        /\ Len(<<"tlv", "add", "text">>) = 3 /\ Len(<<"tlv", "add", "form">>) = 3
        /\ Len(<<"tlv">>) = 1 /\ Len(<<"compact">>) = 1 /\ Len(<<"hash">>) = 1
    BY TuplesAre
  <1>3. DOMAIN Routes = 1 .. 7
    BY DEF Routes
  <1>4. /\ Routes[1].method = "GET" /\ Routes[1].dir = <<"index.html">>
           /\ Routes[1].handler = "index"
        /\ Routes[2].method = "POST" /\ Routes[2].dir = <<"tlv", "delete">>
           /\ Routes[2].handler = "rm_tlv"
        /\ Routes[3].method = "POST" /\ Routes[3].dir = <<"tlv", "add", "text">>
           /\ Routes[3].handler = "new_tlv_text"
        /\ Routes[4].method = "POST" /\ Routes[4].dir = <<"tlv", "add", "form">>
           /\ Routes[4].handler = "form_tlv"
        /\ Routes[5].method = "GET" /\ Routes[5].dir = <<"tlv">>
           /\ Routes[5].handler = "media_tlv"
        /\ Routes[6].method = "POST" /\ Routes[6].dir = <<"compact">>
           /\ Routes[6].handler = "compact_dz"
        /\ Routes[7].method = "GET" /\ Routes[7].dir = <<"hash">>
           /\ Routes[7].handler = "hash"
    BY DEF Routes, Route
  <1>5. \A i \in DOMAIN Routes : i \in {1, 2, 3, 4, 5, 6, 7}
    BY <1>3
  <1>6. \A i \in DOMAIN Routes : IsSeq(Routes[i].dir) /\ Len(Routes[i].dir) > 0
    BY <1>1, <1>2, <1>4, <1>5
  <1>7. QED
    BY <1>3, <1>4, <1>5, <1>6

\* The route a handler was found by.
LEMMA RouteOf ==
  ASSUME NEW routes \in {Routes, <<>>}, NEW method, NEW path,
         HandlerOf(routes, method, path) # "none"
  PROVE  \E i \in DOMAIN Routes :
           /\ HandlerOf(routes, method, path) = Routes[i].handler
           /\ IsPrefix(Routes[i].dir, IF path = NoPath THEN <<"index.html">> ELSE path.dir)
           /\ Routes[i].method = IF method = "HEAD" THEN "GET" ELSE method
  <1>1. PICK dir : dir = IF path = NoPath THEN <<"index.html">> ELSE path.dir
    OBVIOUS
  <1>2. DOMAIN <<>> = {} /\ DOMAIN routes \subseteq Nat
    BY RoutesAre, EmptyIs, SeqIs
  <1>3. PICK i \in Matching(routes, method, dir) :
               HandlerOf(routes, method, path) = routes[i].handler
    BY <1>1, <1>2, HandlerIs
  <1>4. i \in DOMAIN routes
    BY <1>3 DEF Matching
  <1>5. routes = Routes
    BY <1>2, <1>4
  <1>6. QED
    BY <1>1, <1>3, <1>4, <1>5 DEF Matching

\* The statuses of an answer.
LEMMA StatusIs ==
  /\ Status.OK \in Range(Status) /\ Status.CREATED \in Range(Status)
  /\ Status.NO_CT \in Range(Status) /\ Status.BADREQ \in Range(Status)
  /\ Status.NOTFOUND \in Range(Status) /\ Status.LENGTHREQD \in Range(Status)
  /\ Status.TOO_LARGE \in Range(Status) /\ Status.UNSUPP_MEDIA \in Range(Status)
  /\ Status.ERR \in Range(Status) /\ Status.NOTIMPL \in Range(Status)
  /\ Status.OK \notin {Status.ERR, Status.NOTFOUND, Status.BADREQ, Status.UNSUPP_MEDIA,
                      Status.TOO_LARGE, Status.LENGTHREQD, Status.NOTIMPL}
  /\ 0 \notin Range(Status)
  BY DEF Status, Range

\* What any answer does to the dazibao.
LEMMA RoutedIs ==
  ASSUME NEW routes, NEW r, NEW f, IsSeq(f), NEW open \in BOOLEAN,
         NEW res \in Routed(routes, r, f, open)
  PROVE  LET handler == HandlerOf(routes, r.method, r.path)
         IN  /\ IsSeq(res.kept) /\ res.status \in Range(Status)
             /\ res.direct = TRUE \/ (res.direct = FALSE /\ res.status # Status.OK)
             /\ \/ res.kept = f
                \/ /\ handler = "rm_tlv"
                   /\ r.path.off \in DOMAIN f /\ res.kept \in Removed(f, r.path.off)
                \/ handler = "compact_dz" /\ res.kept = Compacted(f)
                \/ handler \in {"new_tlv_text", "form_tlv"} /\ \E v : res.kept \in Added(f, v)
  <1> DEFINE handler == HandlerOf(routes, r.method, r.path)
  <1> DEFINE Good(a) ==
               /\ a.status \in Range(Status)
               /\ a.direct = TRUE \/ (a.direct = FALSE /\ a.status # Status.OK)
               /\ \/ a.kept = f
                  \/ /\ handler = "rm_tlv"
                     /\ r.path.off \in DOMAIN f /\ a.kept \in Removed(f, r.path.off)
                  \/ handler = "compact_dz" /\ a.kept = Compacted(f)
                  \/ handler \in {"new_tlv_text", "form_tlv"} /\ \E v : a.kept \in Added(f, v)
  <1>1. CASE handler = "index"
    <2>1. res \in GetIndex(r, f, open)
      BY <1>1 DEF Routed
    <2>2. Good(res)
      BY <2>1, StatusIs DEF GetIndex, Fails, Says
    <2>3. QED
      BY <2>2, <1>1
  <1>2. CASE handler = "media_tlv"
    <2>1. res \in GetMediaTlv(r, f)
      BY <1>2 DEF Routed
    <2>2. Good(res)
      BY <2>1, StatusIs DEF GetMediaTlv, Fails, Says
    <2>3. QED
      BY <2>2, <1>2
  <1>3. CASE handler = "hash"
    <2>1. res \in GetHash(r, f)
      BY <1>3 DEF Routed
    <2>2. res = Says(f, Status.OK, Shown(r, <<Hash(f)>>))
      BY <2>1 DEF GetHash
    <2>3. res.kept = f /\ res.status = Status.OK /\ res.direct = TRUE
      BY <2>2 DEF Says
    <2>4. QED
      BY <2>3, StatusIs
  <1>4. CASE handler = "rm_tlv"
    <2>1. res \in PostRmTlv(r, f)
      BY <1>4 DEF Routed
    <2>2. \/ res = Fails(f, Status.NOTFOUND)
          \/ /\ r.path.off \in DOMAIN f
             /\ \E g \in Removed(f, r.path.off) : res = Says(g, Status.NO_CT, <<>>)
      BY <2>1, Zenon DEF PostRmTlv
    <2>3. Good(res)
      BY <1>4, <2>2, StatusIs DEF Fails, Says
    <2>4. res.kept = f \/ IsSeq(res.kept)
      BY <2>3, <1>4, SeqIs, RemovedIs
    <2>5. QED
      BY <2>3, <2>4
  <1>5. CASE handler = "compact_dz"
    <2>1. res \in PostCompactDz(f)
      BY <1>5 DEF Routed
    <2>2. PICK body : res = Says(Compacted(f), Status.OK, body)
      BY <2>1 DEF PostCompactDz
    <2>3. res.kept = Compacted(f) /\ res.status = Status.OK /\ res.direct = TRUE
      BY <2>2 DEF Says
    <2>4. QED
      BY <2>3, <1>5, CompactedSeq, StatusIs
  <1>6. ASSUME NEW v, NEW st \in Range(Status), res \in Adds(f, v, open, st),
               handler \in {"new_tlv_text", "form_tlv"}
        PROVE  Good(res) /\ IsSeq(res.kept)
    <2>1. CASE \E g \in Added(f, v) : res = Says(g, st, <<>>)
      <3>1. PICK g \in Added(f, v) : res = Says(g, st, <<>>)
        BY <2>1
      <3>2. IsSeq(g)
        BY AddedIs
      <3>3. QED
        BY <3>1, <3>2, <1>6 DEF Says
    <2>2. CASE res = Says(f, Status.ERR, <<>>)
      BY <2>2, StatusIs DEF Says
    <2>3. QED
      BY <2>1, <2>2, <1>6 DEF Adds
  <1>7. CASE handler = "new_tlv_text"
    <2>1. res \in PostNewTlvText(r, f, open)
      BY <1>7 DEF Routed
    <2>2. QED
      BY <2>1, <1>6, <1>7, StatusIs DEF PostNewTlvText
  <1>8. CASE handler = "form_tlv"
    <2>1. res \in PostFormTlv(r, f, open)
      BY <1>8 DEF Routed
    <2>2. PICK values : values = FormValues(r, BodyOf(r))
      OBVIOUS
    <2>3. \/ res \in Adds(f, values[1], open, Status.CREATED)
          \/ \E st \in {Status.BADREQ, Status.TOO_LARGE, Status.UNSUPP_MEDIA} :
               res = Fails(f, st) \/ res = Says(f, st, <<>>)
      BY <2>1, <2>2, Zenon DEF PostFormTlv
    <2>4. CASE res \in Adds(f, values[1], open, Status.CREATED)
      BY <2>4, <1>6, <1>8, StatusIs
    <2>5. CASE \E st \in {Status.BADREQ, Status.TOO_LARGE, Status.UNSUPP_MEDIA} :
                 res = Fails(f, st) \/ res = Says(f, st, <<>>)
      <3>1. PICK st \in Range(Status) :
              st # Status.OK /\ (res = Fails(f, st) \/ res = Says(f, st, <<>>))
        BY <2>5, StatusIs
      <3>2. res.kept = f /\ res.status = st /\ (res.direct = TRUE \/ res.direct = FALSE)
        BY <3>1 DEF Fails, Says
      <3>3. QED
        BY <3>1, <3>2
    <2>6. QED
      BY <2>3, <2>4, <2>5
  <1>9. CASE handler \notin {"index", "media_tlv", "hash", "rm_tlv", "compact_dz",
                              "new_tlv_text", "form_tlv"}
    <2>1. res \in NoHandler(r, f)
      BY <1>9 DEF Routed
    <2>2. PICK st \in Range(Status) : res = Says(f, st, <<>>)
      BY <2>1, StatusIs DEF NoHandler
    <2>3. res.kept = f /\ res.status = st /\ res.direct = TRUE
      BY <2>2 DEF Says
    <2>4. QED
      BY <2>3
  <1>10. QED
    BY <1>1, <1>2, <1>3, <1>4, <1>5, <1>7, <1>8, <1>9

\* The hash is that of the dazibao, or there is no such page.
LEMMA HashRouted ==
  ASSUME NEW routes \in {Routes, <<>>}, NEW r, r.method = "GET", r.path = Path(<<"hash">>, -1),
         NEW f, NEW open, NEW res \in Routed(routes, r, f, open)
  PROVE  /\ res.kept = f /\ res.direct
         /\ \/ res.status = Status.OK /\ res.says = <<Hash(f)>>
            \/ res.status = Status.NOTFOUND
  <1>1. r.path # NoPath /\ r.path.dir = <<"hash">>
    BY DEF Path, NoPath
  <1>2. \A i \in DOMAIN Routes : IsPrefix(Routes[i].dir, <<"hash">>) => Routes[i].handler = "hash"
    <2> SUFFICES ASSUME NEW i \in DOMAIN Routes, IsPrefix(Routes[i].dir, <<"hash">>)
                 PROVE  Routes[i].handler = "hash"
      OBVIOUS
    <2>1. IsSeq(Routes[i].dir) /\ Len(Routes[i].dir) > 0 /\ Len(Routes[i].dir) \in Nat
      BY RoutesAre, SeqIs
    <2>2. Routes[i].dir[1] = "hash"
      BY <2>1, PrefixIs
    <2>3. QED
      BY <2>2, RoutesAre, SMTT(30)
  <1>3. HandlerOf(routes, r.method, r.path) \in {"none", "hash"}
    BY <1>1, <1>2, RouteOf
  <1>4. CASE HandlerOf(routes, r.method, r.path) = "hash"
    <2>1. res \in GetHash(r, f)
      BY <1>4 DEF Routed
    <2>2. QED
      BY <2>1 DEF GetHash, Says, Shown
  <1>5. CASE HandlerOf(routes, r.method, r.path) = "none"
    <2>1. res \in NoHandler(r, f)
      BY <1>5 DEF Routed
    <2>2. <<"hash">> \notin PublicFiles
      <3>1. Routes[7].dir = <<"hash">> /\ 7 \in DOMAIN Routes
        BY RoutesAre DEF Routes, Route
      <3>2. IsPrefix(<<"hash">>, <<"hash">>)
        BY TuplesAre DEF IsPrefix
      <3>3. QED
        BY <3>1, <3>2, PublicFilesAssumption
    <2>3. QED
      BY <2>1, <2>2, <1>1 DEF NoHandler, Says
  <1>6. QED
    BY <1>3, <1>4, <1>5

\* The page shows the dazibao, or nothing.
LEMMA LoadRouted ==
  ASSUME NEW routes \in {Routes, <<>>}, NEW r, r.method = "GET", r.path.dir = <<>>,
         NEW f, NEW open, NEW res \in Routed(routes, r, f, open)
  PROVE  res.kept = f /\ (res.status = Status.OK => res.says = f \/ res.says = <<>>)
  <1>1. PICK dir : dir = IF r.path = NoPath THEN <<"index.html">> ELSE r.path.dir
    OBVIOUS
  <1>2. ASSUME NEW i \in DOMAIN Routes, IsPrefix(Routes[i].dir, dir)
        PROVE  Routes[i].handler = "index"
    <2>1. IsSeq(Routes[i].dir) /\ Len(Routes[i].dir) > 0 /\ Len(Routes[i].dir) \in Nat
      BY RoutesAre, SeqIs
    <2>2. Len(Routes[i].dir) <= Len(dir) /\ Routes[i].dir[1] = dir[1]
      BY <1>2, <2>1, PrefixIs
    <2>3. dir # <<>>
      BY <2>1, <2>2, EmptyIs
    <2>4. dir = <<"index.html">>
      BY <1>1, <2>3
    <2>5. Routes[i].dir[1] = "index.html"
      BY <2>2, <2>4
    <2>6. QED
      BY <2>5, RoutesAre
  <1>3. HandlerOf(routes, r.method, r.path) \in {"none", "index"}
    BY <1>1, <1>2, RouteOf
  <1>4. CASE HandlerOf(routes, r.method, r.path) = "index"
    <2>1. res \in GetIndex(r, f, open)
      BY <1>4 DEF Routed
    <2>2. QED
      BY <2>1, StatusIs DEF GetIndex, Says, Fails, Shown
  <1>5. CASE HandlerOf(routes, r.method, r.path) = "none"
    <2>1. res \in NoHandler(r, f)
      BY <1>5 DEF Routed
    <2>2. QED
      BY <2>1 DEF NoHandler, Says
  <1>6. QED
    BY <1>3, <1>4, <1>5

\* No other route is behind that of a deletion or of the compaction.
LEMMA RoutesApart ==
  ASSUME NEW i \in DOMAIN Routes, Routes[i].handler \in {"rm_tlv", "compact_dz"},
         NEW j \in DOMAIN Routes, IsPrefix(Routes[i].dir, Routes[j].dir)
  PROVE  Routes[j].dir = Routes[i].dir
  <1>1. PICK d : d = Routes[i].dir
    OBVIOUS
  <1>2. PICK e : e = Routes[j].dir
    OBVIOUS
  <1>3. IsSeq(d) /\ Len(d) \in Nat
    BY <1>1, RoutesAre, SeqIs
  <1>4. Len(d) <= Len(e) /\ \A k \in 1 .. Len(d) : d[k] = e[k]
    BY <1>1, <1>2, <1>3, PrefixIs
  <1>5. e \in {<<"index.html">>, <<"tlv", "delete">>, <<"tlv">>, <<"compact">>, <<"hash">>,
               <<"tlv", "add", "text">>, <<"tlv", "add", "form">>}
    BY <1>2, RoutesAre
  <1>6. CASE d = <<"compact">>
    <2>1. Len(d) = 1 /\ d[1] = "compact"
      BY <1>6, TuplesAre
    <2>2. e[1] = "compact"
      BY <1>4, <2>1
    <2>3. QED
      BY <1>1, <1>2, <1>5, <1>6, <2>2
  <1>7. CASE d = <<"tlv", "delete">>
    <2>1. Len(d) = 2 /\ d[1] = "tlv" /\ d[2] = "delete"
      BY <1>7, TuplesAre
    <2>2. Len(e) >= 2 /\ e[1] = "tlv" /\ e[2] = "delete"
      BY <1>4, <2>1
    <2>3. Len(<<"tlv">>) = 1
      BY TuplesAre
    <2>4. QED
      BY <1>1, <1>2, <1>5, <1>7, <2>2, <2>3
  <1>8. QED
    BY <1>1, <1>6, <1>7, RoutesAre

=============================================================================
