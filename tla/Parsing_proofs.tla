---------------------------- MODULE Parsing_proofs ----------------------------
(***************************************************************************)
(* Proofs about what parse_request understands, for any calls, any reads   *)
(* and any place where they end.                                           *)
(***************************************************************************)
EXTENDS Daziweb_proofs

\* w is k symbols, and then t.
Follows(w, k, t) == IsSeq(w) /\ Len(w) = k + Len(t) /\ \A i \in 1 .. Len(t) : w[k + i] = t[i]

\* w is an end of a line, or a line of one symbol, and then t.
Ending(w, t)    == Follows(w, 2, t) /\ w[1] = CR /\ w[2] = LF
Before(w, x, t) == Follows(w, 3, t) /\ w[1] = x /\ w[2] = CR /\ w[3] = LF

\* What the lines of a request are, and what is sent from the second, the length and the blank line on.
TYPE        == <<"type", "b">>
LengthOf(c) == <<"length", Len(BodySent(c))>>

Bare(c)       == CRLF \o BodySent(c)
Sized(c)      == <<LengthOf(c)>> \o (CRLF \o Bare(c))
Typed(c)      == IF Is(c, AddTLV(<<>>)) THEN <<TYPE>> \o (CRLF \o Sized(c)) ELSE Sized(c)
AfterFirst(c) == IF c.method = "POST" THEN Typed(c) ELSE CRLF

\* What is still to be taken.
Come == rest \o wire

\* The line l has come, and its end, before t, has not: a read that ended with the CR will be followed by
\* one that begins with the LF.
EndAt(l, t) ==
  /\ line = l
  /\ \/ cr = FALSE /\ Ending(Come, t)
     \/ cr = TRUE /\ rest = <<>> /\ wire # <<>> /\ wire[1] = LF

\* The line x is next, and then t.
LineAt(x, t) == (line = <<>> /\ cr = FALSE /\ Before(Come, x, t)) \/ EndAt(<<x>>, t)

\* Where a request is among its headers, and that its length is known when they end.
HeadersAt ==
  \/ call.method # "POST" /\ EndAt(<<>>, <<>>)
  \/ call.method = "POST" /\ Is(call, AddTLV(<<>>)) /\ LineAt(TYPE, Sized(call))
  \/ call.method = "POST" /\ LineAt(LengthOf(call), Bare(call))
  \/ /\ call.method = "POST" /\ EndAt(<<>>, BodySent(call))
     /\ req.len = Len(BodySent(call))

\* What has come of the body and what is still to come are the body, or more when the blank line's end is
\* in front of it.
BodyAt ==
  /\ call.method = "POST"
  /\ req.len = Len(BodySent(call)) /\ IsSeq(req.body) /\ Len(req.body) < req.len
  /\ Len(req.body) + Len(wire) >= req.len
  /\ late = FALSE => Follows(req.body \o wire, 0, BodySent(call))

\* What is understood in the end.
Understanding ==
  /\ status = 0 /\ call.method = "POST" =>
       /\ req.len = Len(BodySent(call))
       /\ late = FALSE => BodyOf(req) = BodySent(call)
  /\ status # 0 => call.method \notin Methods

SentInv ==
  gone = FALSE /\ split = FALSE =>
    /\ place = "first" => LineAt(StartOf(call), AfterFirst(call))
    /\ place = "headers" => HeadersAt
    /\ place = "body" => BodyAt
    /\ place = "parsed" => Understanding

-----------------------------------------------------------------------------
(* What follows what. *)

\* w is s, and then t.
Joins(w, s, t) ==
  /\ IsSeq(w) /\ Len(w) = Len(s) + Len(t) /\ Len(s) \in Nat /\ Len(t) \in Nat
  /\ \A i \in 1 .. Len(s) : w[i] = s[i]
  /\ \A i \in 1 .. Len(t) : w[Len(s) + i] = t[i]

\* ConcatIs, by a name.
LEMMA Joined ==
  ASSUME NEW s, NEW t, IsSeq(s), IsSeq(t)
  PROVE  Joins(s \o t, s, t)
  BY ConcatIs, SeqIs DEF Joins

\* Symbols in front of a sequence.
LEMMA Fronts ==
  ASSUME NEW t, IsSeq(t), NEW x
  PROVE  Ending(CRLF \o t, t) /\ Before(<<x>> \o (CRLF \o t), x, t)
  <1>1. IsSeq(CRLF) /\ Len(CRLF) = 2 /\ CRLF[1] = CR /\ CRLF[2] = LF
    BY TuplesAre DEF CRLF
  <1>2. PICK u : u = CRLF \o t
    OBVIOUS
  <1>3. Len(t) \in Nat
    BY SeqIs
  <1>4. /\ IsSeq(u) /\ Len(u) = 2 + Len(t) /\ u[1] = CR /\ u[2] = LF
        /\ \A i \in 1 .. Len(t) : u[2 + i] = t[i]
    <2>1. Joins(u, CRLF, t)
      BY <1>1, <1>2, Joined
    <2>2. QED
      BY <1>1, <2>1 DEF Joins
  <1>5. PICK one : one = <<x>>
    OBVIOUS
  <1>6. IsSeq(one) /\ Len(one) = 1 /\ one[1] = x
    BY <1>5, TuplesAre
  <1>7. PICK w : w = one \o u
    OBVIOUS
  <1>8. /\ IsSeq(w) /\ Len(w) = 1 + Len(u) /\ w[1] = x
        /\ \A i \in 1 .. Len(u) : w[1 + i] = u[i]
    <2>1. Joins(w, one, u)
      BY <1>4, <1>6, <1>7, Joined
    <2>2. QED
      BY <1>6, <2>1 DEF Joins
  <1>9. w[2] = CR /\ w[3] = LF
    <2>1. w[1 + 1] = u[1] /\ w[1 + 2] = u[2]
      BY <1>3, <1>4, <1>8
    <2>2. QED
      BY <1>4, <2>1
  <1>10. \A i \in 1 .. Len(t) : w[3 + i] = t[i]
    <2> SUFFICES ASSUME NEW i \in 1 .. Len(t) PROVE w[3 + i] = t[i]
      OBVIOUS
    <2>1. 2 + i \in 1 .. Len(u) /\ 1 + (2 + i) = 3 + i
      BY <1>3, <1>4
    <2>2. w[1 + (2 + i)] = u[2 + i]
      BY <1>8, <2>1
    <2>3. QED
      BY <1>4, <2>1, <2>2
  <1>11. Ending(u, t)
    BY <1>4 DEF Ending, Follows
  <1>12. Before(w, x, t)
    BY <1>3, <1>4, <1>8, <1>9, <1>10 DEF Before, Follows
  <1>13. QED
    BY <1>2, <1>5, <1>7, <1>11, <1>12

\* What follows nothing is the sequence.
LEMMA FollowsNone ==
  ASSUME NEW w, NEW t, IsSeq(t)
  PROVE  Follows(w, 0, t) <=> w = t
  <1>1. ASSUME Follows(w, 0, t) PROVE w = t
    <2>1. Len(t) \in Nat
      BY SeqIs
    <2>2. IsSeq(w) /\ Len(w) = Len(t) /\ \A i \in 1 .. Len(w) : w[i] = t[i]
      BY <1>1, <2>1 DEF Follows
    <2>3. QED
      BY <2>2, SameSeq
  <1>2. ASSUME w = t PROVE Follows(w, 0, t)
    BY <1>2, SeqIs DEF Follows
  <1>3. QED
    BY <1>1, <1>2

\* A buffer is taken from the front: what is kept of it goes before what is still to come.
LEMMA TakenFrom ==
  ASSUME NEW buff, IsSeq(buff), NEW more, IsSeq(more), NEW k \in Nat, NEW t, IsSeq(t),
         Follows(buff \o more, k, t), Len(buff) >= k,
         NEW kept, IsSeq(kept), Len(kept) = Len(buff) - k, \A i \in 1 .. Len(kept) : kept[i] = buff[k + i]
  PROVE  kept \o more = t
  <1>1. PICK w : w = buff \o more
    OBVIOUS
  <1>2. PICK n \in Nat, m \in Nat, l \in Nat : n = Len(buff) /\ m = Len(more) /\ l = Len(t) /\ n >= k
    BY SeqIs
  <1>3. /\ Len(w) = n + m /\ \A i \in 1 .. n : w[i] = buff[i]
        /\ \A i \in 1 .. m : w[n + i] = more[i]
    BY <1>1, <1>2, ConcatIs
  <1>4. n + m = k + l /\ \A i \in 1 .. l : w[k + i] = t[i]
    BY <1>1, <1>2, <1>3 DEF Follows
  <1>5. PICK g : g = kept \o more
    OBVIOUS
  <1>6. /\ IsSeq(g) /\ Len(g) = n - k + m
        /\ \A i \in 1 .. n - k : g[i] = kept[i]
        /\ \A i \in 1 .. m : g[n - k + i] = more[i]
    <2>1. Joins(g, kept, more)
      BY <1>5, Joined
    <2>2. QED
      BY <1>2, <2>1 DEF Joins
  <1>7. ASSUME NEW i \in 1 .. l PROVE g[i] = t[i]
    <2>1. CASE i <= n - k
      <3>1. i \in 1 .. n - k /\ k + i \in 1 .. n
        BY <1>2, <2>1
      <3>2. g[i] = buff[k + i]
        BY <1>2, <1>6, <3>1
      <3>3. QED
        BY <1>3, <1>4, <3>1, <3>2
    <2>2. CASE ~(i <= n - k)
      <3>1. i - (n - k) \in 1 .. m /\ n - k + (i - (n - k)) = i /\ n + (i - (n - k)) = k + i
        BY <1>2, <1>4, <2>2
      <3>2. g[i] = more[i - (n - k)]
        BY <1>6, <3>1
      <3>3. w[k + i] = more[i - (n - k)]
        BY <1>3, <3>1
      <3>4. QED
        BY <1>4, <3>2, <3>3
    <2>3. QED
      BY <2>1, <2>2
  <1>8. Len(g) = l
    BY <1>2, <1>4, <1>6
  <1>9. g = t
    BY <1>2, <1>6, <1>7, <1>8, SameSeq
  <1>10. QED
    BY <1>5, <1>9

-----------------------------------------------------------------------------
(* One call of next_header. *)

\* What a call of next_header makes of the line l that has come, with t behind its end: a read ended
\* between CR and LF, or the line has ended, or it will.
Scanned(s, buff, more, l, t) ==
  \/ s.ended = TRUE /\ cr = TRUE /\ buff[1] = LF
  \/ s.ended = TRUE /\ s.line = l /\ s.cr = FALSE /\ IsSeq(s.rest) /\ s.rest \o more = t
  \/ /\ s.ended = FALSE /\ s.line = l /\ s.rest = <<>>
     /\ \/ s.cr = FALSE /\ Ending(more, t)
        \/ s.cr = TRUE /\ more # <<>> /\ more[1] = LF

\* The buffer is the end of a line and what is kept of it.
Behind(s, buff) ==
  Len(buff) = 2 + Len(s.rest) /\ buff[1] = CR /\ buff[2] = LF /\ SubSeq(buff, 3, Len(buff)) = s.rest

\* A line of one symbol, with nothing behind it.
LEMMA OneSymbol ==
  ASSUME NEW t, IsSeq(t), Len(t) = 1
  PROVE  <<>> \o t = t /\ t = <<t[1]>>
  <1>1. <<>> \o t = t
    BY ConcatEmptySeq DEF IsSeq
  <1>2. PICK u : u = <<t[1]>>
    OBVIOUS
  <1>3. IsSeq(u) /\ Len(u) = 1 /\ u[1] = t[1]
    BY <1>2, TuplesAre
  <1>4. t = u
    BY <1>3, SameSeq
  <1>5. QED
    BY <1>1, <1>2, <1>4

\* The first end of a line in a buffer is where all others come after it.
LEMMA FirstCrlf ==
  ASSUME NEW buff, Len(buff) \in Nat, NEW m \in 1 .. Len(buff) - 1, buff[m] = CR, buff[m + 1] = LF,
         \A i \in 1 .. m - 1 : buff[i] # CR
  PROVE  Crlfs(buff) # {} /\ Min(Crlfs(buff)) = m
  <1>1. PICK T : T = Crlfs(buff)
    OBVIOUS
  <1>2. m \in T /\ T \subseteq Nat /\ \A i \in T : m <= i
    BY <1>1 DEF Crlfs
  <1>3. \A i \in T : (\A k \in T : i <= k) => i = m
    BY <1>2
  <1>4. Min(T) = m
    BY <1>2, <1>3 DEF Min
  <1>5. QED
    BY <1>1, <1>2, <1>4

\* The end of the line is next.
LEMMA ScanEnd ==
  ASSUME IsSeq(line), cr = FALSE, NEW buff, IsSeq(buff), Len(buff) > 0, NEW more, IsSeq(more),
         NEW t, IsSeq(t), Ending(buff \o more, t), NEW s, s = Scan(buff)
  PROVE  Scanned(s, buff, more, line, t) /\ (s.ended = TRUE => Behind(s, buff))
  <1>1. PICK w : w = buff \o more
    OBVIOUS
  <1>2. PICK n \in Nat, l \in Nat : n = Len(buff) /\ l = Len(more) /\ n > 0
    BY SeqIs
  <1>3. /\ Len(w) = n + l /\ \A i \in 1 .. n : w[i] = buff[i]
        /\ \A i \in 1 .. l : w[n + i] = more[i]
    BY <1>1, <1>2, Joined DEF Joins
  <1>4. w[1] = CR /\ w[2] = LF /\ n + l >= 2 /\ Follows(w, 2, t)
    <2>1. Len(t) \in Nat
      BY SeqIs
    <2>2. QED
      BY <1>1, <1>3, <2>1 DEF Ending, Follows
  <1>5. CR # LF
    <2>1. CR[1] # LF[1]
      BY DEF CR, LF
    <2>2. QED
      BY <2>1
  <1>6. CASE n = 1
    <2>1. buff[1] = CR /\ more # <<>> /\ more[1] = LF
      <3>1. l > 0 /\ more[1] = w[2] /\ buff[1] = w[1]
        BY <1>2, <1>3, <1>4, <1>6
      <3>2. QED
        BY <1>2, <1>4, <3>1, EmptyIs
    <2>2. Crlfs(buff) = {}
      BY <1>2, <1>6 DEF Crlfs
    <2>3. Last(buff) = CR
      BY <1>2, <1>6, <2>1 DEF Last
    <2>4. s = [ended |-> FALSE, line |-> line \o Front(buff), cr |-> TRUE, rest |-> <<>>]
      BY <2>2, <2>3, Zenon DEF Scan
    <2>5. Front(buff) = <<>>
      <3>1. Front(buff) = SubSeq(buff, 1, 0)
        BY <1>2, <1>6 DEF Front
      <3>2. IsSeq(SubSeq(buff, 1, 0)) /\ Len(SubSeq(buff, 1, 0)) = 0
        BY PartIs
      <3>3. QED
        BY <3>1, <3>2, SeqIs
    <2>6. line \o <<>> = line
      BY ConcatEmptySeq DEF IsSeq
    <2>7. QED
      BY <2>1, <2>4, <2>5, <2>6 DEF Scanned
  <1>7. CASE n > 1
    <2>1. buff[1] = CR /\ buff[2] = LF
      BY <1>2, <1>3, <1>4, <1>7
    <2>2. Crlfs(buff) # {} /\ Min(Crlfs(buff)) = 1
      <3>1. 1 \in 1 .. Len(buff) - 1 /\ 1 + 1 = 2
        BY <1>2, <1>7
      <3>2. QED
        BY <1>2, <2>1, <3>1, FirstCrlf
    <2>3. PICK u : u = SubSeq(buff, 3, Len(buff))
      OBVIOUS
    <2>4. s = [ended |-> TRUE, line |-> line \o SubSeq(buff, 1, 0), cr |-> FALSE, rest |-> u]
      <3>1. 1 - 1 = 0 /\ 1 + 2 = 3
        OBVIOUS
      <3>2. s = [ended |-> TRUE, line |-> line \o SubSeq(buff, 1, 1 - 1), cr |-> FALSE,
                 rest |-> SubSeq(buff, 1 + 2, Len(buff))]
        BY <2>2, Zenon DEF Scan
      <3>3. QED
        BY <2>3, <3>1, <3>2
    <2>5. line \o SubSeq(buff, 1, 0) = line
      <3>1. IsSeq(SubSeq(buff, 1, 0)) /\ Len(SubSeq(buff, 1, 0)) = 0
        BY PartIs
      <3>2. SubSeq(buff, 1, 0) = <<>>
        BY <3>1, SeqIs
      <3>3. QED
        BY <3>2, ConcatEmptySeq DEF IsSeq
    <2>6. IsSeq(u) /\ Len(u) = n - 2 /\ \A i \in 1 .. Len(u) : u[i] = buff[2 + i]
      <3>1. /\ IsSeq(u) /\ Len(u) = IF 3 <= n THEN n - 3 + 1 ELSE 0
            /\ \A i \in 1 .. n - 3 + 1 : u[i] = buff[3 + i - 1]
        BY <1>2, <2>3, PartIs
      <3>2. QED
        BY <1>2, <1>7, <3>1
    <2>7. u \o more = t
      <3>1. Follows(buff \o more, 2, t) /\ Len(buff) >= 2 /\ Len(u) = Len(buff) - 2
        BY <1>1, <1>2, <1>4, <1>7, <2>6
      <3>2. QED
        BY <2>6, <3>1, TakenFrom
    <2>8. s.ended = TRUE /\ s.line = line /\ s.cr = FALSE /\ s.rest = u
      BY <2>4, <2>5
    <2>9. Len(buff) = 2 + Len(u)
      BY <1>2, <2>6
    <2>10. QED
      BY <2>1, <2>3, <2>6, <2>7, <2>8, <2>9 DEF Scanned, Behind
  <1>8. n = 1 \/ n > 1
    BY <1>2
  <1>9. QED
    BY <1>6, <1>7, <1>8, Zenon

\* A line of one symbol is next.
LEMMA ScanSymbol ==
  ASSUME line = <<>>, cr = FALSE, NEW buff, IsSeq(buff), Len(buff) > 0, NEW more, IsSeq(more),
         NEW x, x # CR, NEW t, IsSeq(t), Before(buff \o more, x, t), NEW s, s = Scan(buff)
  PROVE  Scanned(s, buff, more, <<x>>, t)
  <1>1. PICK w : w = buff \o more
    OBVIOUS
  <1>2. PICK n \in Nat, l \in Nat : n = Len(buff) /\ l = Len(more) /\ n > 0
    BY SeqIs
  <1>3. /\ Len(w) = n + l /\ \A i \in 1 .. n : w[i] = buff[i]
        /\ \A i \in 1 .. l : w[n + i] = more[i]
    BY <1>1, <1>2, Joined DEF Joins
  <1>4. PICK k \in Nat : k = Len(t)
    BY SeqIs
  <1>5. /\ w[1] = x /\ w[2] = CR /\ w[3] = LF /\ n + l = 3 + k /\ Follows(w, 3, t)
        /\ \A i \in 1 .. k : w[3 + i] = t[i]
    BY <1>1, <1>3, <1>4 DEF Before, Follows
  <1>6. buff[1] = x
    BY <1>2, <1>3, <1>5
  <1>7. CASE n = 1
    <2>1. Crlfs(buff) = {}
      BY <1>2, <1>7 DEF Crlfs
    <2>2. Last(buff) # CR
      BY <1>2, <1>6, <1>7 DEF Last
    <2>3. s = [ended |-> FALSE, line |-> <<>> \o buff, cr |-> FALSE, rest |-> <<>>]
      BY <2>1, <2>2, Zenon DEF Scan
    <2>4. <<>> \o buff = <<x>>
      BY <1>2, <1>6, <1>7, OneSymbol
    <2>5. Ending(more, t)
      <3>1. more[1] = w[2] /\ more[2] = w[3] /\ l = 2 + k
        BY <1>3, <1>4, <1>5, <1>7
      <3>2. ASSUME NEW i \in 1 .. k PROVE more[2 + i] = t[i]
        <4>1. 2 + i \in 1 .. l /\ 1 + (2 + i) = 3 + i
          BY <1>4, <3>1
        <4>2. QED
          BY <1>3, <1>5, <1>7, <4>1
      <3>3. QED
        BY <1>2, <1>4, <1>5, <3>1, <3>2 DEF Ending, Follows
    <2>6. QED
      BY <2>3, <2>4, <2>5 DEF Scanned
  <1>8. CASE n = 2
    <2>1. buff[2] = CR /\ more # <<>> /\ more[1] = LF
      <3>1. l > 0 /\ more[1] = w[3] /\ buff[2] = w[2]
        BY <1>2, <1>3, <1>4, <1>5, <1>8
      <3>2. QED
        BY <1>2, <1>5, <3>1, EmptyIs
    <2>2. Crlfs(buff) = {}
      BY <1>2, <1>6, <1>8 DEF Crlfs
    <2>3. Last(buff) = CR
      BY <1>2, <1>8, <2>1 DEF Last
    <2>4. s = [ended |-> FALSE, line |-> <<>> \o Front(buff), cr |-> TRUE, rest |-> <<>>]
      BY <2>2, <2>3, Zenon DEF Scan
    <2>5. <<>> \o Front(buff) = <<x>>
      <3>1. PICK f : f = SubSeq(buff, 1, 1)
        OBVIOUS
      <3>2. Front(buff) = f
        BY <1>2, <1>8, <3>1 DEF Front
      <3>3. IsSeq(f) /\ Len(f) = 1 /\ f[1] = x
        <4>1. /\ IsSeq(f) /\ Len(f) = 1 - 1 + 1
              /\ \A i \in 1 .. 1 - 1 + 1 : f[i] = buff[1 + i - 1]
          BY <3>1, PartIs
        <4>2. QED
          BY <1>6, <4>1
      <3>4. QED
        BY <3>2, <3>3, OneSymbol
    <2>6. QED
      BY <2>1, <2>4, <2>5 DEF Scanned
  <1>9. CASE n > 2
    <2>1. buff[2] = CR /\ buff[3] = LF
      <3>1. 2 \in 1 .. n /\ 3 \in 1 .. n
        BY <1>2, <1>9
      <3>2. QED
        BY <1>3, <1>5, <3>1
    <2>2. Crlfs(buff) # {} /\ Min(Crlfs(buff)) = 2
      <3>1. 2 \in 1 .. Len(buff) - 1 /\ 2 + 1 = 3 /\ \A i \in 1 .. 2 - 1 : buff[i] # CR
        BY <1>2, <1>6, <1>9
      <3>2. QED
        BY <1>2, <2>1, <3>1, FirstCrlf
    <2>3. PICK u : u = SubSeq(buff, 4, Len(buff))
      OBVIOUS
    <2>4. PICK f : f = SubSeq(buff, 1, 1)
      OBVIOUS
    <2>5. s = [ended |-> TRUE, line |-> <<>> \o f, cr |-> FALSE, rest |-> u]
      <3>1. 2 - 1 = 1 /\ 2 + 2 = 4
        OBVIOUS
      <3>2. s = [ended |-> TRUE, line |-> <<>> \o SubSeq(buff, 1, 2 - 1), cr |-> FALSE,
                 rest |-> SubSeq(buff, 2 + 2, Len(buff))]
        BY <2>2, Zenon DEF Scan
      <3>3. QED
        BY <2>3, <2>4, <3>1, <3>2
    <2>6. <<>> \o f = <<x>>
      <3>1. /\ IsSeq(f) /\ Len(f) = 1 - 1 + 1
            /\ \A i \in 1 .. 1 - 1 + 1 : f[i] = buff[1 + i - 1]
        BY <2>4, PartIs
      <3>2. IsSeq(f) /\ Len(f) = 1 /\ f[1] = x
        BY <1>6, <3>1
      <3>3. QED
        BY <3>2, OneSymbol
    <2>7. IsSeq(u) /\ Len(u) = n - 3 /\ \A i \in 1 .. Len(u) : u[i] = buff[3 + i]
      <3>1. /\ IsSeq(u) /\ Len(u) = IF 4 <= n THEN n - 4 + 1 ELSE 0
            /\ \A i \in 1 .. n - 4 + 1 : u[i] = buff[4 + i - 1]
        BY <1>2, <2>3, PartIs
      <3>2. QED
        BY <1>2, <1>9, <3>1
    <2>8. u \o more = t
      <3>1. Follows(buff \o more, 3, t) /\ Len(buff) >= 3 /\ Len(u) = Len(buff) - 3
        BY <1>1, <1>2, <1>5, <1>9, <2>7
      <3>2. QED
        BY <2>7, <3>1, TakenFrom
    <2>9. s.ended = TRUE /\ s.line = <<x>> /\ s.cr = FALSE /\ s.rest = u
      BY <2>5, <2>6
    <2>10. QED
      BY <2>7, <2>8, <2>9 DEF Scanned
  <1>10. n = 1 \/ n = 2 \/ n > 2
    BY <1>2
  <1>11. QED
    BY <1>7, <1>8, <1>9, <1>10, Zenon

\* A buffer, and what comes after it.
Splits(buff, more) ==
  /\ IsSeq(buff) /\ Len(buff) > 0 /\ IsSeq(more)
  /\ Come = buff \o more
  /\ rest = <<>> => buff[1] = wire[1]

\* The first symbol of this buffer ends the line of the last one: the CR and its LF were split.
LEMMA ScanSplit ==
  ASSUME cr = TRUE, NEW buff, buff[1] = LF, NEW s, s = Scan(buff)
  PROVE  s.ended = TRUE
  <1>1. s = [ended |-> TRUE, line |-> line, cr |-> FALSE, rest |-> Front(buff)]
    BY DEF Scan
  <1>2. QED
    BY <1>1

\* The end of the line is next, or half of it was taken.
LEMMA ScanAtEnd ==
  ASSUME IsSeq(line), NEW l, NEW t, IsSeq(t), EndAt(l, t), NEW buff, NEW more, Splits(buff, more),
         NEW s, s = Scan(buff)
  PROVE  /\ Scanned(s, buff, more, l, t)
         /\ s.ended = TRUE /\ ~(cr = TRUE /\ buff[1] = LF) => Behind(s, buff)
  <1>1. CASE cr = FALSE
    <2>1. line = l /\ Ending(buff \o more, t) /\ IsSeq(buff) /\ Len(buff) > 0 /\ IsSeq(more)
      BY <1>1 DEF EndAt, Splits
    <2>2. Scanned(s, buff, more, line, t) /\ (s.ended = TRUE => Behind(s, buff))
      BY <1>1, <2>1, ScanEnd
    <2>3. QED
      BY <2>1, <2>2
  <1>2. CASE cr = TRUE
    <2>1. buff[1] = LF
      BY <1>2 DEF EndAt, Splits
    <2>2. s.ended = TRUE
      BY <1>2, <2>1, ScanSplit
    <2>3. QED
      BY <1>2, <2>1, <2>2 DEF Scanned
  <1>3. QED
    BY <1>1, <1>2 DEF EndAt

\* The line is next, or its end is, or half of that was taken.
LEMMA ScanAtLine ==
  ASSUME IsSeq(line), NEW x, x # CR, NEW t, IsSeq(t), LineAt(x, t), NEW buff, NEW more,
         Splits(buff, more), NEW s, s = Scan(buff)
  PROVE  Scanned(s, buff, more, <<x>>, t)
  <1>1. CASE EndAt(<<x>>, t)
    BY <1>1, ScanAtEnd
  <1>2. CASE line = <<>> /\ cr = FALSE /\ Before(Come, x, t)
    <2>1. Before(buff \o more, x, t) /\ IsSeq(buff) /\ Len(buff) > 0 /\ IsSeq(more)
      BY <1>2 DEF Splits
    <2>2. QED
      BY <1>2, <2>1, ScanSymbol
  <1>3. QED
    BY <1>1, <1>2 DEF LineAt

\* The line goes on.
LEMMA GoesOn ==
  ASSUME NEW buff, NEW more, IsSeq(more), NEW l, NEW t, NEW s, Scanned(s, buff, more, l, t),
         s.ended = FALSE, line' = s.line, cr' = s.cr, rest' = <<>>, wire' = more
  PROVE  EndAt(l, t)'
  <1>1. Come' = more
    <2>1. <<>> \o more = more
      BY ConcatEmptySeq DEF IsSeq
    <2>2. QED
      BY <2>1 DEF Come
  <1>2. QED
    BY <1>1 DEF Scanned, EndAt

-----------------------------------------------------------------------------
(* What is sent. *)

\* The symbols of the headers.
LEMMA HeaderSymbols ==
  ASSUME NEW c
  PROVE  /\ TYPE # CR /\ LengthOf(c) # CR
         /\ TYPE[1] = "type" /\ LengthOf(c)[1] = "length" /\ LengthOf(c)[2] = Len(BodySent(c))
  <1>1. Len(TYPE) = 2 /\ Len(LengthOf(c)) = 2 /\ Len(CR) = 1
    BY TuplesAre DEF TYPE, LengthOf, CR
  <1>2. TYPE # CR /\ LengthOf(c) # CR
    BY <1>1
  <1>3. QED
    BY <1>2 DEF TYPE, LengthOf

\* Each line of a request, and what is behind it.
LEMMA Lines ==
  ASSUME NEW c, IsSeq(c.data)
  PROVE  /\ IsSeq(BodySent(c)) /\ IsSeq(Bare(c)) /\ IsSeq(Sized(c)) /\ IsSeq(Typed(c))
         /\ IsSeq(AfterFirst(c))
         /\ Ending(CRLF, <<>>) /\ Ending(Bare(c), BodySent(c)) /\ Before(Sized(c), LengthOf(c), Bare(c))
         /\ Is(c, AddTLV(<<>>)) => Before(Typed(c), TYPE, Sized(c))
         /\ ~Is(c, AddTLV(<<>>)) => Typed(c) = Sized(c)
  <1>1. IsSeq(CRLF) /\ IsSeq(<<>>)
    BY TuplesAre, EmptyIs DEF CRLF
  <1>2. Ending(CRLF, <<>>)
    <2>1. Ending(CRLF \o <<>>, <<>>)
      BY <1>1, Fronts
    <2>2. CRLF \o <<>> = CRLF
      BY <1>1, ConcatEmptySeq DEF IsSeq
    <2>3. QED
      BY <2>1, <2>2
  <1>3. IsSeq(BodySent(c))
    BY BodyIs
  <1>4. IsSeq(Bare(c)) /\ Ending(Bare(c), BodySent(c))
    <2>1. Ending(CRLF \o BodySent(c), BodySent(c))
      BY <1>3, Fronts
    <2>2. QED
      BY <2>1 DEF Bare, Ending, Follows
  <1>5. IsSeq(Sized(c)) /\ Before(Sized(c), LengthOf(c), Bare(c))
    <2>1. Before(<<LengthOf(c)>> \o (CRLF \o Bare(c)), LengthOf(c), Bare(c))
      BY <1>4, Fronts
    <2>2. QED
      BY <2>1 DEF Sized, Before, Follows
  <1>6. Is(c, AddTLV(<<>>)) => IsSeq(Typed(c)) /\ Before(Typed(c), TYPE, Sized(c))
    <2>1. Before(<<TYPE>> \o (CRLF \o Sized(c)), TYPE, Sized(c))
      BY <1>5, Fronts
    <2>2. QED
      BY <2>1 DEF Typed, Before, Follows
  <1>7. ~Is(c, AddTLV(<<>>)) => Typed(c) = Sized(c)
    BY DEF Typed
  <1>8. IsSeq(Typed(c))
    BY <1>5, <1>6, <1>7
  <1>9. IsSeq(AfterFirst(c))
    BY <1>1, <1>8 DEF AfterFirst
  <1>10. QED
    BY <1>2, <1>3, <1>4, <1>5, <1>6, <1>7, <1>8, <1>9

\* Concatenations, one within the other.
LEMMA Regroup ==
  ASSUME NEW a, NEW b, NEW c, IsSeq(a), IsSeq(b), IsSeq(c)
  PROVE  /\ IsSeq(a \o b) /\ IsSeq(b \o c)
         /\ (a \o b) \o c = a \o (b \o c)
  <1> DEFINE S == Range(a) \cup Range(b) \cup Range(c)
  <1>1. a \in Seq(S) /\ b \in Seq(S) /\ c \in Seq(S)
    BY SeqMonotonic DEF IsSeq
  <1> HIDE DEF S
  <1>2. (a \o b) \o c = a \o (b \o c)
    BY <1>1, ConcatAssociative
  <1>3. QED
    BY <1>2, ConcatIs

\* A request is its first line, and what comes after.
LEMMA WireLines ==
  ASSUME NEW c, IsSeq(c.data)
  PROVE  Before(Wire(c), StartOf(c), AfterFirst(c))
  <1>1. PICK one : one = <<StartOf(c)>>
    OBVIOUS
  <1>2. PICK nl : nl = CRLF
    OBVIOUS
  <1>3. PICK b : b = BodySent(c)
    OBVIOUS
  <1>4. PICK n : n = <<LengthOf(c)>>
    OBVIOUS
  <1>5. IsSeq(one) /\ IsSeq(nl) /\ IsSeq(b) /\ IsSeq(n)
    BY <1>1, <1>2, <1>3, <1>4, TuplesAre, BodyIs DEF CRLF
  <1>6. Before(one \o (nl \o AfterFirst(c)), StartOf(c), AfterFirst(c))
    BY <1>1, <1>2, Lines, Fronts
  <1>7. RequestLine(c) = one \o nl
    BY <1>1, <1>2 DEF RequestLine, StartOf
  <1>8. CASE c.method # "POST"
    <2>1. Wire(c) = (one \o nl) \o nl /\ AfterFirst(c) = nl
      BY <1>2, <1>7, <1>8 DEF Wire, AfterFirst
    <2>2. (one \o nl) \o nl = one \o (nl \o nl)
      BY <1>5, Regroup
    <2>3. QED
      BY <1>6, <2>1, <2>2
  <1>9. CASE c.method = "POST"
    <2>1. PICK h : h = IF Is(c, AddTLV(<<>>)) THEN <<<<"type", "b">>>> \o CRLF ELSE <<>>
      OBVIOUS
    <2>2. PICK k : k = <<TYPE>>
      OBVIOUS
    <2>3. IsSeq(k) /\ h = IF Is(c, AddTLV(<<>>)) THEN k \o nl ELSE <<>>
      BY <1>2, <2>1, <2>2, TuplesAre DEF TYPE
    <2>4. IsSeq(h)
      BY <1>5, <2>3, Regroup, EmptyIs
    <2>5. PICK e : e = nl \o b
      OBVIOUS
    <2>6. PICK f : f = nl \o e
      OBVIOUS
    <2>7. PICK z : z = n \o f
      OBVIOUS
    <2>8. IsSeq(e) /\ IsSeq(f) /\ IsSeq(z)
      <3>1. IsSeq(e)
        BY <1>5, <2>5, Regroup
      <3>2. IsSeq(f)
        BY <1>5, <2>6, <3>1, Regroup
      <3>3. QED
        BY <1>5, <2>7, <3>1, <3>2, Regroup
    <2>9. PICK p : p = (one \o nl) \o h
      OBVIOUS
    <2>10. Wire(c) = ((((p \o n) \o nl) \o nl) \o b)
      BY <1>2, <1>3, <1>4, <1>7, <1>9, <2>1, <2>9 DEF Wire, Posted, LengthOf
    <2>11. PICK g : g = p \o n
      OBVIOUS
    <2>12. PICK i : i = g \o nl
      OBVIOUS
    <2>13. IsSeq(one \o nl) /\ IsSeq(p) /\ IsSeq(g) /\ IsSeq(i)
      <3>1. IsSeq(one \o nl)
        BY <1>5, Regroup
      <3>2. IsSeq(p)
        BY <2>4, <2>9, <3>1, Regroup
      <3>3. IsSeq(g)
        BY <1>5, <2>11, <3>2, Regroup
      <3>4. QED
        BY <1>5, <2>12, <3>1, <3>2, <3>3, Regroup
    <2>14. (i \o nl) \o b = i \o e
      BY <1>5, <2>5, <2>13, Regroup
    <2>15. i \o e = g \o f
      BY <1>5, <2>6, <2>8, <2>12, <2>13, Regroup
    <2>16. g \o f = p \o z
      BY <1>5, <2>7, <2>8, <2>11, <2>13, Regroup
    <2>17. p \o z = (one \o nl) \o (h \o z)
      BY <2>4, <2>8, <2>9, <2>13, Regroup
    <2>18. (one \o nl) \o (h \o z) = one \o (nl \o (h \o z))
      <3>1. IsSeq(h \o z)
        BY <2>4, <2>8, Regroup
      <3>2. QED
        BY <1>5, <3>1, Regroup
    <2>19. z = Sized(c)
      BY <1>2, <1>3, <1>4, <2>5, <2>6, <2>7 DEF Sized, Bare
    <2>20. h \o z = AfterFirst(c)
      <3>1. CASE Is(c, AddTLV(<<>>))
        <4>1. (k \o nl) \o z = k \o (nl \o z)
          BY <1>5, <2>3, <2>8, Regroup
        <4>2. Typed(c) = k \o (nl \o z)
          BY <1>2, <2>2, <2>19, <3>1 DEF Typed
        <4>3. QED
          BY <1>9, <2>3, <3>1, <4>1, <4>2 DEF AfterFirst
      <3>2. CASE ~Is(c, AddTLV(<<>>))
        <4>1. h = <<>> /\ <<>> \o z = z
          BY <2>3, <2>8, <3>2, ConcatEmptySeq DEF IsSeq
        <4>2. QED
          BY <1>9, <2>19, <3>2, <4>1 DEF AfterFirst, Typed
      <3>3. QED
        BY <3>1, <3>2
    <2>21. Wire(c) = one \o (nl \o AfterFirst(c))
      BY <2>10, <2>11, <2>12, <2>14, <2>15, <2>16, <2>17, <2>18, <2>20
    <2>22. QED
      BY <1>6, <2>21
  <1>10. QED
    BY <1>8, <1>9

-----------------------------------------------------------------------------
(* What has come, step by step. *)

\* Behind the first line.
LEMMA AtTail ==
  ASSUME NEW c, IsSeq(c.data), call' = c, line' = <<>>, cr' = FALSE, Come' = AfterFirst(c)
  PROVE  HeadersAt'
  <1>1. CASE c.method # "POST"
    <2>1. Ending(Come', <<>>)
      BY <1>1, Lines DEF AfterFirst
    <2>2. EndAt(<<>>, <<>>)'
      BY <2>1 DEF EndAt
    <2>3. QED
      BY <1>1, <2>2 DEF HeadersAt
  <1>2. CASE c.method = "POST" /\ Is(c, AddTLV(<<>>))
    <2>1. Before(Come', TYPE, Sized(c))
      BY <1>2, Lines DEF AfterFirst
    <2>2. LineAt(TYPE, Sized(c))'
      BY <2>1 DEF LineAt
    <2>3. QED
      BY <1>2, <2>2 DEF HeadersAt
  <1>3. CASE c.method = "POST" /\ ~Is(c, AddTLV(<<>>))
    <2>1. Before(Come', LengthOf(c), Bare(c))
      BY <1>3, Lines DEF AfterFirst
    <2>2. LineAt(LengthOf(c), Bare(c))'
      BY <2>1 DEF LineAt
    <2>3. QED
      BY <1>3, <2>2 DEF HeadersAt
  <1>4. QED
    BY <1>1, <1>2, <1>3

\* A step that takes a buffer, but not the end of the line l, before t.
NotEnded(l, t) == place' = place /\ req' = req /\ status' = status /\ EndAt(l, t)'

\* A step that takes the end of the line l, before t.
Ended(s, buff, more, l, t) ==
  /\ IF l = <<>> THEN HeadersEnd(BlankLine(buff)) ELSE FirstLine(l) \/ HeaderLine(l)
  /\ line' = <<>> /\ cr' = FALSE /\ wire' = more
  /\ IsSeq(s.rest) /\ s.rest \o more = t
  /\ place' # "parsed" => Come' = t
  /\ l = <<>> /\ Len(buff) = 2 => late' = TRUE

\* Either, unless a CR and its LF were split.
LEMMA Taken ==
  ASSUME NEW buff, NEW more, Splits(buff, more), NEW s, s = Scan(buff), Line(buff, s),
         wire' = more, split' = FALSE, NEW l, NEW t, Scanned(s, buff, more, l, t)
  PROVE  \/ s.ended = FALSE /\ NotEnded(l, t)
         \/ s.ended = TRUE /\ ~(cr = TRUE /\ buff[1] = LF) /\ Ended(s, buff, more, l, t)
  <1>1. /\ IF ~s.ended THEN UNCHANGED <<place, req, status>>
           ELSE IF s.line = <<>> THEN HeadersEnd(BlankLine(buff))
           ELSE FirstLine(s.line) \/ HeaderLine(s.line)
        /\ line' = IF s.ended THEN <<>> ELSE s.line
        /\ cr' = s.cr
        /\ rest' = IF place' = "parsed" THEN <<>> ELSE s.rest
        /\ split' = (split \/ (cr /\ s.ended /\ buff[1] = LF))
        /\ late' = (late \/ (s.ended /\ s.line = <<>> /\ Len(buff) = 2))
    BY DEF Line
  <1>2. CASE s.ended = FALSE
    <2>1. place' = place /\ req' = req /\ status' = status /\ line' = s.line
      BY <1>1, <1>2
    <2>2. s.rest = <<>>
      BY <1>2 DEF Scanned
    <2>3. rest' = <<>>
      BY <1>1, <2>2
    <2>4. IsSeq(more)
      BY DEF Splits
    <2>5. EndAt(l, t)'
      BY <1>1, <1>2, <2>1, <2>3, <2>4, GoesOn
    <2>6. QED
      BY <1>2, <2>1, <2>5 DEF NotEnded
  <1>3. CASE s.ended = TRUE
    <2>1. ~(cr = TRUE /\ buff[1] = LF)
      BY <1>1, <1>3
    <2>2. s.line = l /\ s.cr = FALSE /\ IsSeq(s.rest) /\ s.rest \o more = t
      BY <1>3, <2>1 DEF Scanned
    <2>3. line' = <<>> /\ cr' = FALSE
      BY <1>1, <1>3, <2>2
    <2>4. IF l = <<>> THEN HeadersEnd(BlankLine(buff)) ELSE FirstLine(l) \/ HeaderLine(l)
      BY <1>1, <1>3, <2>2
    <2>5. place' # "parsed" => Come' = t
      BY <1>1, <2>2 DEF Come
    <2>6. l = <<>> /\ Len(buff) = 2 => late' = TRUE
      BY <1>1, <1>3, <2>2
    <2>7. QED
      BY <1>3, <2>1, <2>2, <2>3, <2>4, <2>5, <2>6 DEF Ended
  <1>4. s.ended = TRUE \/ s.ended = FALSE
    BY DEF Scanned
  <1>5. QED
    BY <1>2, <1>3, <1>4

\* A buffer of the first line.
LEMMA FirstSent ==
  ASSUME IsSeq(line), NEW c, IsSeq(c.data), c = call, call' = call, place = "first",
         LineAt(StartOf(c), AfterFirst(c)),
         NEW buff, NEW more, Splits(buff, more), NEW s, s = Scan(buff), Line(buff, s), wire' = more,
         split' = FALSE
  PROVE  SentInv'
  <1>1. PICK x : x = StartOf(c)
    OBVIOUS
  <1>2. PICK t : t = AfterFirst(c)
    OBVIOUS
  <1>3. x # CR /\ x[1] = "start" /\ x[2] = c.method /\ x[3] = c.path
    BY <1>1, SymbolsDiffer
  <1>4. Scanned(s, buff, more, <<x>>, t)
    BY <1>1, <1>2, <1>3, Lines, ScanAtLine
  <1>5. CASE NotEnded(<<x>>, t)
    <2>1. place' = "first" /\ LineAt(x, t)'
      BY <1>5 DEF NotEnded, LineAt
    <2>2. QED
      BY <1>1, <1>2, <2>1 DEF SentInv
  <1>6. CASE Ended(s, buff, more, <<x>>, t)
    <2>1. PICK l : l = <<x>>
      OBVIOUS
    <2>2. l[1] = x /\ l # <<>>
      BY <2>1
    <2>3. FirstLine(l) \/ HeaderLine(l)
      BY <1>6, <2>1, <2>2 DEF Ended
    <2>4. FirstLine(l)
      BY <2>3 DEF HeaderLine
    <2>5. /\ req' = [req EXCEPT !.method = c.method, !.path = c.path]
          /\ IF c.method \in Methods THEN place' = "headers" /\ UNCHANGED status
             ELSE place' = "parsed" /\ status' = Status.NOTIMPL
      BY <1>3, <2>2, <2>4 DEF FirstLine, Parsed
    <2>6. CASE c.method \in Methods
      <3>1. place' = "headers" /\ line' = <<>> /\ cr' = FALSE /\ Come' = t
        BY <1>6, <2>5, <2>6 DEF Ended
      <3>2. HeadersAt'
        BY <1>2, <3>1, AtTail
      <3>3. QED
        BY <3>1, <3>2 DEF SentInv
    <2>7. CASE c.method \notin Methods
      <3>1. place' = "parsed" /\ status' # 0
        BY <2>5, <2>7, StatusIs
      <3>2. Understanding'
        BY <2>7, <3>1 DEF Understanding
      <3>3. QED
        BY <3>1, <3>2 DEF SentInv
    <2>8. QED
      BY <2>6, <2>7
  <1>7. QED
    BY <1>4, <1>5, <1>6, Taken

\* A header of a POST, of what WithHeader makes of it.
LEMMA HeaderTaken ==
  ASSUME StreamTypes, place = "headers", NEW x, NEW l, l = <<x>>, FirstLine(l) \/ HeaderLine(l)
  PROVE  /\ place' = "headers"
         /\ x[1] = "length" => req'.len = x[2]
  <1>1. l[1] = x /\ Len(l) = 1
    BY TuplesAre
  <1>2. place' = "headers" /\ req' = WithHeader(l)
    BY DEF FirstLine, HeaderLine
  <1>3. ASSUME x[1] = "length" PROVE req'.len = x[2]
    <2>1. req' = [req EXCEPT !.len = x[2]]
      BY <1>1, <1>2, <1>3 DEF WithHeader
    <2>2. DOMAIN req = ReqFields
      BY DEF StreamTypes
    <2>3. QED
      BY <2>1, <2>2 DEF ReqFields
  <1>4. QED
    BY <1>2, <1>3

\* A sequence that begins a sequence, and is as long, is the whole of it.
LEMMA PrefixIsAll ==
  ASSUME NEW b, NEW m, IsSeq(b), IsSeq(m), NEW t, IsSeq(t), b \o m = t, Len(b) >= Len(t)
  PROVE  SubSeq(b, 1, Len(t)) = t
  <1>1. Len(b) \in Nat /\ Len(m) \in Nat /\ Len(t) \in Nat
    BY SeqIs
  <1>2. Len(t) = Len(b) + Len(m) /\ \A i \in 1 .. Len(b) : t[i] = b[i]
    BY ConcatIs
  <1>3. Len(b) = Len(t)
    BY <1>1, <1>2
  <1>4. PICK u : u = SubSeq(b, 1, Len(t))
    OBVIOUS
  <1>5. IsSeq(u) /\ Len(u) = Len(t) /\ \A i \in 1 .. Len(t) : u[i] = b[i]
    <2>1. /\ IsSeq(u) /\ Len(u) = IF 1 <= Len(t) THEN Len(t) - 1 + 1 ELSE 0
          /\ \A i \in 1 .. Len(t) - 1 + 1 : u[i] = b[1 + i - 1]
      BY <1>1, <1>4, PartIs
    <2>2. QED
      BY <1>1, <2>1
  <1>6. \A i \in 1 .. Len(u) : u[i] = t[i]
    BY <1>2, <1>3, <1>5
  <1>7. u = t
    BY <1>5, <1>6, SameSeq
  <1>8. QED
    BY <1>4, <1>7

\* The blank line, and what comes with it.
LEMMA BlankLineSent ==
  ASSUME StreamTypes, NEW c, IsSeq(c.data), call' = c, c.method = "POST", place = "headers",
         req.method = "POST", req.len = Len(BodySent(c)),
         NEW buff, NEW more, IsSeq(more), NEW s, Behind(s, buff), IsSeq(buff),
         Ended(s, buff, more, <<>>, BodySent(c))
  PROVE  \/ place' = "body" /\ BodyAt'
         \/ place' = "parsed" /\ Understanding'
  <1>1. PICK t : t = BodySent(c)
    OBVIOUS
  <1>2. PICK u : u = s.rest
    OBVIOUS
  <1>3. IsSeq(t) /\ IsSeq(u) /\ u \o more = t /\ wire' = more
    BY <1>1, <1>2, Lines DEF Ended
  <1>4. Len(t) \in Nat /\ Len(u) \in Nat /\ Len(more) \in Nat /\ Len(t) = Len(u) + Len(more)
    BY <1>3, SeqIs, ConcatIs
  <1>5. PICK b : b = BlankLine(buff)
    OBVIOUS
  <1>6. /\ req' = [req EXCEPT !.body = b]
        /\ IF Len(b) < Len(t) THEN place' = "body" /\ status' = status
           ELSE place' = "parsed" /\ status' = 0
    <2>1. HeadersEnd(b)
      BY <1>5 DEF Ended
    <2>2. ~(req.len < 0)
      BY <1>1, <1>4
    <2>3. QED
      BY <1>1, <2>1, <2>2 DEF HeadersEnd, Parsed
  <1>7. req'.body = b /\ req'.len = Len(t)
    <2>1. DOMAIN req = ReqFields
      BY DEF StreamTypes
    <2>2. QED
      BY <1>1, <1>6, <2>1 DEF ReqFields
  <1>8. \/ b = u
        \/ late' = TRUE /\ IsSeq(b) /\ Len(b) = 2 /\ Len(u) = 0
    <2>1. Len(buff) = 2 + Len(u) /\ buff[1] = CR /\ buff[2] = LF /\ SubSeq(buff, 3, Len(buff)) = u
      BY <1>2 DEF Behind
    <2>2. CASE Len(u) = 0
      <3>1. Len(buff) = 2
        BY <2>1, <2>2
      <3>2. b = buff /\ late' = TRUE
        BY <1>5, <3>1 DEF BlankLine, Ended
      <3>3. QED
        BY <2>2, <3>1, <3>2
    <2>3. CASE Len(u) # 0
      <3>1. Len(buff) > 2
        BY <1>4, <2>1, <2>3
      <3>2. b = u
        BY <1>5, <2>1, <3>1 DEF BlankLine
      <3>3. QED
        BY <3>2
    <2>4. QED
      BY <2>2, <2>3
  <1>9. IsSeq(b) /\ Len(b) \in Nat /\ Len(b) + Len(more) >= Len(t)
    BY <1>3, <1>4, <1>8
  <1>10. late' = FALSE => b = u
    BY <1>8
  <1>11. CASE Len(b) < Len(t)
    <2>1. late' = FALSE => Follows(b \o more, 0, t)
      BY <1>3, <1>10, FollowsNone
    <2>2. place' = "body"
      BY <1>6, <1>11
    <2>3. BodyAt'
      BY <1>1, <1>3, <1>7, <1>9, <1>11, <2>1 DEF BodyAt
    <2>4. QED
      BY <2>2, <2>3
  <1>12. CASE ~(Len(b) < Len(t))
    <2>1. place' = "parsed" /\ status' = 0
      BY <1>6, <1>12
    <2>2. late' = FALSE => SubSeq(b, 1, Len(t)) = t
      <3>1. Len(b) >= Len(t)
        BY <1>4, <1>9, <1>12
      <3>2. QED
        BY <1>3, <1>10, <3>1, PrefixIsAll
    <2>3. Understanding'
      BY <1>1, <1>7, <2>1, <2>2 DEF Understanding, BodyOf
    <2>4. QED
      BY <2>1, <2>3
  <1>13. QED
    BY <1>11, <1>12

\* A buffer of the headers.
LEMMA HeadersSent ==
  ASSUME StreamTypes, NEW c, IsSeq(c.data), c = call, call' = c, place = "headers",
         req.method = c.method, HeadersAt,
         NEW buff, NEW more, Splits(buff, more), NEW s, s = Scan(buff), Line(buff, s), wire' = more,
         split' = FALSE
  PROVE  SentInv'
  <1>1. IsSeq(line) /\ IsSeq(buff) /\ IsSeq(more) /\ IsSeq(<<>>)
    BY EmptyIs DEF StreamTypes, Splits
  <1>2. ASSUME place' = "headers", HeadersAt' PROVE SentInv'
    BY <1>2 DEF SentInv
  <1>3. CASE c.method # "POST" /\ EndAt(<<>>, <<>>)
    <2>1. Scanned(s, buff, more, <<>>, <<>>)
      BY <1>1, <1>3, ScanAtEnd
    <2>2. CASE NotEnded(<<>>, <<>>)
      <3>1. place' = "headers" /\ HeadersAt'
        BY <1>3, <2>2 DEF NotEnded, HeadersAt
      <3>2. QED
        BY <1>2, <3>1
    <2>3. CASE Ended(s, buff, more, <<>>, <<>>)
      <3>1. place' = "parsed" /\ status' = 0
        BY <1>3, <2>3 DEF Ended, HeadersEnd, Parsed
      <3>2. Understanding'
        BY <1>3, <3>1 DEF Understanding
      <3>3. QED
        BY <3>1, <3>2 DEF SentInv
    <2>4. QED
      BY <2>1, <2>2, <2>3, Taken
  <1>4. CASE c.method = "POST" /\ Is(c, AddTLV(<<>>)) /\ LineAt(TYPE, Sized(c))
    <2>1. PICK t : t = Sized(c)
      OBVIOUS
    <2>2. PICK l : l = <<TYPE>>
      OBVIOUS
    <2>3. l # <<>>
      BY <2>2
    <2>4. Scanned(s, buff, more, l, t)
      BY <1>1, <1>4, <2>1, <2>2, HeaderSymbols, Lines, ScanAtLine
    <2>5. CASE NotEnded(l, t)
      <3>1. place' = "headers" /\ LineAt(TYPE, t)'
        BY <2>2, <2>5 DEF NotEnded, LineAt
      <3>2. HeadersAt'
        BY <1>4, <2>1, <3>1 DEF HeadersAt
      <3>3. QED
        BY <1>2, <3>1, <3>2
    <2>6. CASE Ended(s, buff, more, l, t)
      <3>1. FirstLine(l) \/ HeaderLine(l)
        BY <2>3, <2>6 DEF Ended
      <3>2. place' = "headers"
        BY <2>2, <3>1, HeaderTaken
      <3>3. line' = <<>> /\ cr' = FALSE /\ Before(Come', LengthOf(c), Bare(c))
        BY <2>1, <2>6, <3>2, Lines DEF Ended
      <3>4. LineAt(LengthOf(c), Bare(c))'
        BY <3>3 DEF LineAt
      <3>5. HeadersAt'
        BY <1>4, <3>4 DEF HeadersAt
      <3>6. QED
        BY <1>2, <3>2, <3>5
    <2>7. QED
      BY <2>4, <2>5, <2>6, Taken
  <1>5. CASE c.method = "POST" /\ LineAt(LengthOf(c), Bare(c))
    <2>1. PICK t : t = Bare(c)
      OBVIOUS
    <2>2. PICK x : x = LengthOf(c)
      OBVIOUS
    <2>3. PICK l : l = <<x>> /\ l # <<>>
      <3>1. <<x>> # <<>>
        OBVIOUS
      <3>2. QED
        BY <3>1
    <2>4. x # CR /\ x[1] = "length" /\ x[2] = Len(BodySent(c))
      BY <2>2, HeaderSymbols
    <2>5. Scanned(s, buff, more, l, t)
      BY <1>1, <1>5, <2>1, <2>2, <2>3, <2>4, Lines, ScanAtLine
    <2>6. CASE NotEnded(l, t)
      <3>1. place' = "headers" /\ LineAt(x, t)'
        BY <2>3, <2>6 DEF NotEnded, LineAt
      <3>2. HeadersAt'
        BY <1>5, <2>1, <2>2, <3>1 DEF HeadersAt
      <3>3. QED
        BY <1>2, <3>1, <3>2
    <2>7. CASE Ended(s, buff, more, l, t)
      <3>1. FirstLine(l) \/ HeaderLine(l)
        BY <2>3, <2>7 DEF Ended
      <3>2. place' = "headers" /\ req'.len = Len(BodySent(c))
        BY <2>3, <2>4, <3>1, HeaderTaken
      <3>3. line' = <<>> /\ cr' = FALSE /\ Ending(Come', BodySent(c))
        BY <2>1, <2>7, <3>2, Lines DEF Ended
      <3>4. EndAt(<<>>, BodySent(c))'
        BY <3>3 DEF EndAt
      <3>5. HeadersAt'
        BY <1>5, <3>2, <3>4 DEF HeadersAt
      <3>6. QED
        BY <1>2, <3>2, <3>5
    <2>8. QED
      BY <2>5, <2>6, <2>7, Taken
  <1>6. CASE c.method = "POST" /\ EndAt(<<>>, BodySent(c)) /\ req.len = Len(BodySent(c))
    <2>1. PICK t : t = BodySent(c)
      OBVIOUS
    <2>2. /\ Scanned(s, buff, more, <<>>, t)
          /\ s.ended = TRUE /\ ~(cr = TRUE /\ buff[1] = LF) => Behind(s, buff)
      BY <1>1, <1>6, <2>1, Lines, ScanAtEnd
    <2>3. CASE NotEnded(<<>>, t)
      <3>1. place' = "headers" /\ EndAt(<<>>, t)' /\ req' = req
        BY <2>3 DEF NotEnded
      <3>2. HeadersAt'
        BY <1>6, <2>1, <3>1 DEF HeadersAt
      <3>3. QED
        BY <1>2, <3>1, <3>2
    <2>4. CASE Ended(s, buff, more, <<>>, t) /\ Behind(s, buff)
      <3>1. \/ place' = "body" /\ BodyAt'
            \/ place' = "parsed" /\ Understanding'
        BY <1>1, <1>6, <2>1, <2>4, BlankLineSent
      <3>2. QED
        BY <3>1 DEF SentInv
    <2>5. QED
      BY <2>2, <2>3, <2>4, Taken
  <1>7. QED
    BY <1>3, <1>4, <1>5, <1>6 DEF HeadersAt

\* A sequence, taken apart.
LEMMA Halves ==
  ASSUME NEW w, IsSeq(w), NEW n \in 1 .. Len(w)
  PROVE  LET buff == SubSeq(w, 1, n)
             more == SubSeq(w, n + 1, Len(w))
         IN  /\ IsSeq(buff) /\ Len(buff) = n /\ buff[1] = w[1]
             /\ IsSeq(more) /\ Len(more) = Len(w) - n
             /\ buff \o more = w
  <1>1. PICK l \in Nat : l = Len(w)
    BY SeqIs
  <1>2. PICK b : b = SubSeq(w, 1, n)
    OBVIOUS
  <1>3. PICK m : m = SubSeq(w, n + 1, l)
    OBVIOUS
  <1>4. n \in Int /\ n + 1 \in Int /\ l \in Int /\ 1 <= n /\ n <= l
    BY <1>1
  <1>5. IsSeq(b) /\ Len(b) = n /\ \A i \in 1 .. n : b[i] = w[i]
    <2>1. /\ IsSeq(b) /\ Len(b) = IF 1 <= n THEN n - 1 + 1 ELSE 0
          /\ \A i \in 1 .. n - 1 + 1 : b[i] = w[1 + i - 1]
      BY <1>2, <1>4, PartIs
    <2>2. QED
      BY <1>4, <2>1
  <1>6. IsSeq(m) /\ Len(m) = l - n /\ \A i \in 1 .. l - n : m[i] = w[n + i]
    <2>1. /\ IsSeq(m) /\ Len(m) = IF n + 1 <= l THEN l - (n + 1) + 1 ELSE 0
          /\ \A i \in 1 .. l - (n + 1) + 1 : m[i] = w[n + 1 + i - 1]
      BY <1>3, <1>4, PartIs
    <2>2. QED
      BY <1>4, <2>1
  <1>7. PICK u : u = b \o m
    OBVIOUS
  <1>8. /\ IsSeq(u) /\ Len(u) = l /\ \A i \in 1 .. n : u[i] = b[i]
        /\ \A i \in 1 .. l - n : u[n + i] = m[i]
    <2>1. Joins(u, b, m)
      BY <1>5, <1>6, <1>7, Joined
    <2>2. QED
      BY <1>4, <1>5, <1>6, <2>1 DEF Joins
  <1>9. ASSUME NEW i \in 1 .. l PROVE u[i] = w[i]
    <2>1. CASE i <= n
      BY <1>4, <1>5, <1>8, <2>1
    <2>2. CASE ~(i <= n)
      <3>1. i - n \in 1 .. l - n /\ n + (i - n) = i
        BY <1>4, <2>2
      <3>2. u[n + (i - n)] = w[n + (i - n)]
        BY <1>6, <1>8, <3>1
      <3>3. QED
        BY <3>1, <3>2
    <2>3. QED
      BY <2>1, <2>2
  <1>10. u = w
    BY <1>1, <1>8, <1>9, SameSeq
  <1>11. 1 \in 1 .. n
    BY <1>4
  <1>12. QED
    BY <1>1, <1>2, <1>3, <1>5, <1>6, <1>7, <1>10, <1>11

\* A buffer, of any line.
LEMMA LineSent ==
  ASSUME StreamInv, SentInv, IsSeq(call.data), call' = call, place \in {"first", "headers"},
         NEW buff, NEW more, Splits(buff, more), Line(buff, Scan(buff)), wire' = more, gone' = gone
  PROVE  SentInv'
  <1> SUFFICES ASSUME gone' = FALSE, split' = FALSE PROVE SentInv'
    BY DEF SentInv
  <1>1. PICK s : s = Scan(buff)
    OBVIOUS
  <1>2. PICK c : c = call
    OBVIOUS
  <1>3. split = FALSE /\ gone = FALSE /\ Line(buff, s)
    BY <1>1 DEF Line, StreamInv, StreamTypes
  <1>4. IsSeq(line) /\ StreamTypes
    BY DEF StreamInv, StreamTypes
  <1>5. CASE place = "first"
    <2>1. LineAt(StartOf(c), AfterFirst(c))
      BY <1>2, <1>3, <1>5 DEF SentInv
    <2>2. QED
      BY <1>1, <1>2, <1>3, <1>4, <1>5, <2>1, FirstSent
  <1>6. CASE place = "headers"
    <2>1. HeadersAt /\ req.method = c.method
      BY <1>2, <1>3, <1>6 DEF SentInv, StreamInv, Understood
    <2>2. QED
      BY <1>1, <1>2, <1>3, <1>4, <1>6, <2>1, HeadersSent
  <1>7. QED
    BY <1>5, <1>6

\* What the last line left in the buffer.
LEMMA TakeRestSent ==
  ASSUME StreamInv, SentInv, IsSeq(call.data), call' = call, TakeRest
  PROVE  SentInv'
  <1>1. /\ place \in {"first", "headers"} /\ rest # <<>> /\ Line(rest, Scan(rest))
        /\ wire' = wire /\ gone' = gone
    BY DEF TakeRest
  <1>2. PICK buff : buff = rest
    OBVIOUS
  <1>3. PICK more : more = wire
    OBVIOUS
  <1>4. IsSeq(buff) /\ IsSeq(more) /\ Len(buff) \in Nat /\ (Len(buff) = 0 <=> buff = <<>>)
    BY <1>2, <1>3, SeqIs DEF StreamInv, StreamTypes
  <1>5. Splits(buff, more)
    BY <1>1, <1>2, <1>3, <1>4 DEF Splits, Come
  <1>6. QED
    BY <1>1, <1>2, <1>3, <1>5, LineSent

\* A read of the first line or of the headers.
LEMMA ReadHeaderSent ==
  ASSUME StreamInv, SentInv, IsSeq(call.data), call' = call, NEW n \in 1 .. Buff, ReadHeader(n)
  PROVE  SentInv'
  <1>1. PICK buff : buff = SubSeq(wire, 1, n)
    OBVIOUS
  <1>2. PICK more : more = SubSeq(wire, n + 1, Len(wire))
    OBVIOUS
  <1>3. /\ place \in {"first", "headers"} /\ rest = <<>> /\ Reads(n, Buff)
        /\ Line(buff, Scan(buff))
    BY <1>1 DEF ReadHeader
  <1>4. wire' = more /\ gone' = gone
    BY <1>2, <1>3 DEF Reads
  <1>5. n \in Nat /\ Buff \in Int /\ IsSeq(wire) /\ shorts \in 0 .. MaxShort
    BY HttpStreamAssumption DEF StreamInv, StreamTypes
  <1>6. n \in 1 .. Len(wire)
    BY <1>3, <1>5, ReadsSome
  <1>7. /\ IsSeq(buff) /\ Len(buff) = n /\ buff[1] = wire[1] /\ IsSeq(more)
        /\ buff \o more = wire
    BY <1>1, <1>2, <1>5, <1>6, Halves
  <1>8. Come = wire
    BY <1>3, <1>5, ConcatEmptySeq DEF Come, IsSeq
  <1>9. Len(buff) > 0
    BY <1>7
  <1>10. Splits(buff, more)
    BY <1>7, <1>8, <1>9 DEF Splits
  <1>11. QED
    BY <1>3, <1>4, <1>10, LineSent

\* A read of the body.
LEMMA ReadBodySent ==
  ASSUME StreamInv, SentInv, IsSeq(call.data), call' = call, NEW n \in Nat, ReadBody(n)
  PROVE  SentInv'
  <1> SUFFICES ASSUME gone' = FALSE, split' = FALSE PROVE SentInv'
    BY DEF SentInv
  <1>1. /\ place = "body" /\ Reads(n, req.len - Len(req.body))
        /\ req' = [req EXCEPT !.body = req.body \o SubSeq(wire, 1, n)]
        /\ IF Len(req'.body) = req.len THEN Parsed(0) ELSE UNCHANGED <<place, status>>
        /\ split' = split /\ late' = late
    BY DEF ReadBody
  <1>2. PICK c : c = call
    OBVIOUS
  <1>3. PICK t : t = BodySent(c)
    OBVIOUS
  <1>4. IsSeq(t) /\ Len(t) \in Nat
    BY <1>2, <1>3, Lines, SeqIs
  <1>5. wire' = SubSeq(wire, n + 1, Len(wire)) /\ gone' = gone
    BY <1>1 DEF Reads
  <1>6. BodyAt
    BY <1>1, <1>5 DEF SentInv
  <1>7. PICK b : b = req.body
    OBVIOUS
  <1>8. PICK w : w = wire
    OBVIOUS
  <1>9. /\ c.method = "POST" /\ req.len = Len(t) /\ IsSeq(b) /\ Len(b) < Len(t)
        /\ Len(b) + Len(w) >= Len(t) /\ (late = FALSE => Follows(b \o w, 0, t))
    BY <1>2, <1>3, <1>6, <1>7, <1>8 DEF BodyAt
  <1>10. IsSeq(w) /\ Len(w) \in Nat /\ Len(b) \in Nat /\ shorts \in 0 .. MaxShort
    BY <1>8, <1>9, SeqIs DEF StreamInv, StreamTypes
  <1>11. n \in 1 .. Len(w) /\ n <= Len(t) - Len(b)
    <2>1. PICK most \in Int : most = Len(t) - Len(b)
      <3>1. Len(t) - Len(b) \in Int
        BY <1>4, <1>10
      <3>2. QED
        BY <3>1
    <2>2. Reads(n, most)
      BY <1>1, <1>7, <1>9, <2>1
    <2>3. n \in 1 .. Len(w)
      BY <1>8, <1>10, <2>2, ReadsSome
    <2>4. PICK all : all = Min({most, Len(w)})
      OBVIOUS
    <2>5. n \in 1 .. all
      BY <1>8, <2>2, <2>4 DEF Reads
    <2>6. all \in Int /\ all <= most
      BY <1>10, <2>4 DEF Min
    <2>7. QED
      BY <2>1, <2>3, <2>5, <2>6
  <1>12. PICK u : u = SubSeq(w, 1, n)
    OBVIOUS
  <1>13. PICK m : m = SubSeq(w, n + 1, Len(w))
    OBVIOUS
  <1>14. IsSeq(u) /\ Len(u) = n /\ IsSeq(m) /\ Len(m) = Len(w) - n /\ u \o m = w /\ wire' = m
    BY <1>5, <1>8, <1>10, <1>11, <1>12, <1>13, Halves
  <1>15. PICK g : g = b \o u
    OBVIOUS
  <1>16. IsSeq(g) /\ Len(g) = Len(b) + n /\ g \o m = b \o w
    <2>1. (b \o u) \o m = b \o (u \o m)
      <3>1. IsSeq(b) /\ IsSeq(u) /\ IsSeq(m)
        BY <1>9, <1>14
      <3>2. QED
        BY <3>1, Regroup
    <2>2. IsSeq(g) /\ Len(g) = Len(b) + Len(u)
      BY <1>9, <1>14, <1>15, ConcatIs
    <2>3. QED
      BY <1>14, <1>15, <2>1, <2>2
  <1>17. req'.body = g /\ req'.len = Len(t)
    <2>1. DOMAIN req = ReqFields
      BY DEF StreamInv, StreamTypes
    <2>2. req' = [req EXCEPT !.body = g]
      BY <1>1, <1>7, <1>8, <1>12, <1>15
    <2>3. QED
      BY <1>9, <2>1, <2>2 DEF ReqFields
  <1>18. late' = FALSE => Follows(g \o m, 0, t) /\ g \o m = t
    BY <1>1, <1>4, <1>9, <1>16, FollowsNone
  <1>19. CASE Len(g) = Len(t)
    <2>1. place' = "parsed" /\ status' = 0
      BY <1>1, <1>9, <1>17, <1>19 DEF Parsed
    <2>2. late' = FALSE => SubSeq(g, 1, Len(t)) = t
      <3>1. Len(g) >= Len(t)
        BY <1>4, <1>19
      <3>2. QED
        BY <1>4, <1>14, <1>16, <1>18, <3>1, PrefixIsAll
    <2>3. Understanding'
      BY <1>2, <1>3, <1>17, <2>1, <2>2 DEF Understanding, BodyOf
    <2>4. QED
      BY <2>1, <2>3 DEF SentInv
  <1>20. CASE Len(g) # Len(t)
    <2>1. place' = "body"
      BY <1>1, <1>9, <1>17, <1>20
    <2>2. Len(g) < Len(t) /\ Len(g) + Len(m) >= Len(t)
      BY <1>4, <1>9, <1>10, <1>11, <1>14, <1>16, <1>20
    <2>3. BodyAt'
      BY <1>2, <1>3, <1>9, <1>14, <1>16, <1>17, <1>18, <2>2 DEF BodyAt
    <2>4. QED
      BY <2>1, <2>3 DEF SentInv
  <1>21. QED
    BY <1>19, <1>20

\* Whatever happens on the stream.
LEMMA StreamStepSent ==
  ASSUME StreamInv, SentInv, IsSeq(call.data), call' = call, StreamStep
  PROVE  SentInv'
  <1>1. CASE TakeRest
    BY <1>1, TakeRestSent
  <1>2. ASSUME NEW n \in 1 .. Buff, ReadHeader(n) PROVE SentInv'
    BY <1>2, ReadHeaderSent
  <1>3. ASSUME NEW n \in 1 .. Len(wire), ReadBody(n) PROVE SentInv'
    <2>1. n \in Nat
      BY SeqIs DEF StreamInv, StreamTypes
    <2>2. QED
      BY <1>3, <2>1, ReadBodySent
  <1>4. CASE ReadEnd
    <2>1. gone /\ gone' = gone
      BY <1>4 DEF ReadEnd
    <2>2. QED
      BY <2>1 DEF SentInv
  <1>5. QED
    BY <1>1, <1>2, <1>3, <1>4 DEF StreamStep, ReadSome

-----------------------------------------------------------------------------
(* The server. *)

\* What a call brings is a sequence.
LEMMA DataIs ==
  ASSUME NEW c \in Calls \cup {NoCall, HashCall}
  PROVE  IsSeq(c.data)
  <1>1. CASE c \in Calls
    BY <1>1, CallsAssumption DEF IsSeq
  <1>2. CASE c \in {NoCall, HashCall}
    <2>1. c.data = <<>>
      BY <1>2 DEF NoCall, HashCall, Call
    <2>2. QED
      BY <2>1, EmptyIs
  <1>3. QED
    BY <1>1, <1>2

\* A connection that is accepted.
LEMMA AcceptSent ==
  ASSUME StateInv, Accept
  PROVE  SentInv'
  <1>1. PICK c : c = call'
    OBVIOUS
  <1>2. c \in Calls \cup {NoCall, HashCall}
    BY <1>1 DEF Accept, StateInv, StateTypes
  <1>3. IsSeq(c.data)
    BY <1>2, DataIs
  <1>4. /\ place' = "first" /\ wire' = Wire(c) /\ rest' = <<>> /\ line' = <<>> /\ cr' = FALSE
    BY <1>1 DEF Accept, Connect
  <1>5. Come' = Wire(c)
    <2>1. <<>> \o Wire(c) = Wire(c)
      BY <1>3, WireIs, ConcatEmptySeq DEF IsSeq
    <2>2. QED
      BY <1>4, <2>1 DEF Come
  <1>6. PICK x : x = StartOf(c)
    OBVIOUS
  <1>7. PICK t : t = AfterFirst(c)
    OBVIOUS
  <1>8. Before(Come', x, t)
    BY <1>3, <1>5, <1>6, <1>7, WireLines
  <1>9. LineAt(x, t)'
    BY <1>4, <1>8 DEF LineAt
  <1>10. QED
    BY <1>1, <1>4, <1>6, <1>7, <1>9 DEF SentInv

\* Steps that leave the stream and the call alone.
LEMMA SentStays ==
  ASSUME SentInv, UNCHANGED streamVars, call' = call
  PROVE  SentInv'
  BY DEF SentInv, HeadersAt, LineAt, EndAt, BodyAt, Understanding, Come, streamVars

\* The end of a connection.
LEMMA HangupSent ==
  ASSUME Hangup
  PROVE  SentInv'
  BY DEF Hangup, SentInv

\* SentInv step by step.
LEMMA SentStep ==
  ASSUME StateInv, SentInv, [Next]_vars
  PROVE  SentInv'
  <1>1. CASE Accept
    BY <1>1, AcceptSent
  <1>2. CASE Receive
    <2>1. StreamInv /\ StreamStep /\ call' = call
      BY <1>2 DEF Receive, StateInv, serverVars
    <2>2. call \in Calls \cup {NoCall, HashCall}
      BY <1>2 DEF Receive, StateInv, ServerInv
    <2>3. IsSeq(call.data)
      BY <2>2, DataIs
    <2>4. QED
      BY <2>1, <2>3, StreamStepSent
  <1>3. CASE LeaveEarly
    <2>1. gone' = TRUE
      BY <1>3 DEF LeaveEarly, Leave
    <2>2. QED
      BY <2>1 DEF SentInv
  <1>4. CASE Tell \/ PageAborts \/ RequestDies \/ TellDies \/ SigInt
    <2>1. Hangup
      BY <1>4 DEF Tell, PageAborts, RequestDies, TellDies, SigInt, Breaks, Dies, Ends, Done
    <2>2. QED
      BY <2>1, HangupSent
  <1>5. CASE CloseDz
    <2>1. Hangup \/ (UNCHANGED streamVars /\ call' = call)
      BY <1>5 DEF CloseDz, Done
    <2>2. QED
      BY <2>1, HangupSent, SentStays
  <1>6. CASE (\E c \in Calls : Ask(c)) \/ CheckHash \/ HashCallback
    <2>1. UNCHANGED streamVars /\ call' = call
      BY <1>6 DEF Ask, CheckHash, HashCallback, serverVars
    <2>2. QED
      BY <2>1, SentStays
  <1>7. CASE Understand \/ OpenDz \/ Flock \/ RouteRequest \/ Start \/ Refuse
    <2>1. UNCHANGED streamVars /\ call' = call
      BY <1>7 DEF Understand, OpenDz, Flock, RouteRequest, Start, Refuse, serverVars
    <2>2. QED
      BY <2>1, SentStays
  <1>8. CASE OtherOpen \/ OtherAdds \/ OtherRemoves \/ OtherCompacts \/ OtherClose
    <2>1. UNCHANGED streamVars /\ call' = call
      BY <1>8 DEF OtherOpen, OtherAdds, OtherRemoves, OtherCompacts, OtherWrite, OtherClose, serverVars
    <2>2. QED
      BY <2>1, SentStays
  <1>9. CASE RemoveDz \/ CreateDz
    <2>1. UNCHANGED streamVars /\ call' = call
      BY <1>9 DEF RemoveDz, CreateDz, serverVars
    <2>2. QED
      BY <2>1, SentStays
  <1>10. CASE UNCHANGED vars
    <2>1. UNCHANGED streamVars /\ call' = call
      BY <1>10 DEF vars, serverVars
    <2>2. QED
      BY <2>1, SentStays
  <1>11. QED
    BY <1>1, <1>2, <1>3, <1>4, <1>5, <1>6, <1>7, <1>8, <1>9, <1>10 DEF Next, Server

\* What has come of a request and what is still to come are what the page's call says, in every state.
THEOREM SentInvariance == Spec => []SentInv
  <1>1. Init => SentInv
    BY DEF Init, StreamInit, SentInv
  <1>2. QED
    BY <1>1, StateInvariance, SentStep, PTL DEF Spec

\* src/src/web/request.c:248, 302: ParsedAsSent, however the reads fall and whatever is asked.
THEOREM UnderstoodAsSent == Spec => []ParsedAsSent
  <1>1. ASSUME StateInv, SentInv PROVE ParsedAsSent
    <2> SUFFICES ASSUME at = "parse", gone = FALSE
                 PROVE  /\ place = "parsed" /\ status = 0 =>
                             /\ req.method = call.method /\ req.path = call.path
                             /\ Whole /\ call.method = "POST" =>
                                  req.len = Len(BodySent(call)) /\ BodyOf(req) = BodySent(call)
                        /\ place = "parsed" /\ status # 0 => split \/ call.method \notin Methods
                        /\ place # "parsed" /\ wire = <<>> /\ rest = <<>> => split
      BY <1>1 DEF ParsedAsSent, StateInv, StreamInv, StreamTypes
    <2>1. /\ place \in Places /\ place # "idle" /\ (split = TRUE \/ split = FALSE)
          /\ late = TRUE \/ late = FALSE
      BY <1>1 DEF StateInv, ServerInv, StreamInv, StreamTypes
    <2>2. place = "parsed" /\ status = 0 => req.method = call.method /\ req.path = call.path
      BY <1>1 DEF StateInv, StreamInv, Understood
    <2>3. CASE split = FALSE /\ place = "parsed"
      <3>1. Understanding
        BY <1>1, <2>3 DEF SentInv
      <3>2. QED
        BY <2>1, <2>2, <2>3, <3>1 DEF Understanding, Whole
    <2>4. ASSUME split = FALSE, place # "parsed", wire = <<>>, rest = <<>> PROVE FALSE
      <3>1. Len(wire) = 0 /\ Come = <<>>
        BY <2>4, EmptyIs, ConcatEmptySeq DEF Come, IsSeq
      <3>2. ASSUME NEW l, NEW t, IsSeq(t), EndAt(l, t) PROVE FALSE
        <4>1. Ending(<<>>, t)
          BY <2>4, <3>1, <3>2 DEF EndAt
        <4>2. QED
          BY <4>1, <3>2, SeqIs, EmptyIs DEF Ending, Follows
      <3>3. ASSUME NEW x, NEW t, IsSeq(t), LineAt(x, t) PROVE FALSE
        <4>1. Before(<<>>, x, t)
          BY <3>1, <3>2, <3>3 DEF LineAt
        <4>2. QED
          BY <4>1, <3>3, SeqIs, EmptyIs DEF Before, Follows
      <3>4. PICK c : c = call
        OBVIOUS
      <3>5. IsSeq(c.data)
        <4>1. c \in Calls \cup {NoCall, HashCall}
          BY <1>1, <3>4 DEF StateInv, ServerInv
        <4>2. QED
          BY <4>1, DataIs
      <3>6. /\ IsSeq(AfterFirst(c)) /\ IsSeq(Sized(c)) /\ IsSeq(Bare(c)) /\ IsSeq(BodySent(c))
            /\ IsSeq(<<>>)
        BY <3>5, Lines, EmptyIs
      <3>7. CASE place = "first"
        BY <1>1, <2>4, <3>3, <3>4, <3>6, <3>7 DEF SentInv
      <3>8. CASE place = "headers"
        <4>1. HeadersAt
          BY <1>1, <2>4, <3>8 DEF SentInv
        <4>2. QED
          BY <3>2, <3>3, <3>4, <3>6, <4>1 DEF HeadersAt
      <3>9. CASE place = "body"
        <4>1. BodyAt
          BY <1>1, <2>4, <3>9 DEF SentInv
        <4>2. Len(req.body) \in Nat
          BY <4>1, SeqIs DEF BodyAt
        <4>3. Len(BodySent(c)) \in Nat
          BY <3>6, SeqIs
        <4>4. QED
          BY <3>1, <3>4, <4>1, <4>2, <4>3 DEF BodyAt
      <3>10. QED
        BY <2>1, <2>4, <3>7, <3>8, <3>9 DEF Places
    <2>5. QED
      BY <2>1, <2>2, <2>3, <2>4 DEF Whole
  <1>2. QED
    BY <1>1, StateInvariance, SentInvariance, PTL

=============================================================================
