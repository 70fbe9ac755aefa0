-------------------------- MODULE NotifClient_proofs --------------------------
(***************************************************************************)
(* Proofs about NotifClient, for buffers of any length and any messages:   *)
(* no byte is lost, what a client notifies is what was sent, and what it   *)
(* gives up on does not fit in its buffer.                                 *)
(***************************************************************************)
EXTENDS NotifClient, SequenceTheorems, FiniteSetTheorems, FunctionTheorems,
        WellFoundedInduction, TLAPS

\* A client that reads has room to read to.
RoomInv == pc = "read" => Len(buf) < BuffLen

IInv == TypeOK /\ RoomInv /\ StreamKept /\ EndsWhenClosed

-----------------------------------------------------------------------------

\* A sequence is its first n elements and the others: what read(2) takes from the socket, and a
\* line from the buffer.
LEMMA Cut ==
  ASSUME NEW S, NEW s \in Seq(S), NEW n \in Nat, n <= Len(s)
  PROVE  /\ SubSeq(s, 1, n) \in Seq(S)
         /\ SubSeq(s, n + 1, Len(s)) \in Seq(S)
         /\ Len(SubSeq(s, 1, n)) = n
         /\ Len(SubSeq(s, n + 1, Len(s))) = Len(s) - n
         /\ SubSeq(s, 1, n) \o SubSeq(s, n + 1, Len(s)) = s
<1>1. Len(s) \in Nat /\ \A i \in 1 .. Len(s) : s[i] \in S
  BY LenProperties, ElementOfSeq
<1>2. /\ SubSeq(s, 1, n) \in Seq(S)
      /\ Len(SubSeq(s, 1, n)) = IF 1 <= n THEN n - 1 + 1 ELSE 0
  <2>1. \A i \in 1 .. n : s[i] \in S
    BY <1>1
  <2> QED
    BY <2>1, SubSeqProperties
<1>3. /\ SubSeq(s, n + 1, Len(s)) \in Seq(S)
      /\ Len(SubSeq(s, n + 1, Len(s))) = IF n + 1 <= Len(s) THEN Len(s) - (n + 1) + 1 ELSE 0
  <2>1. \A i \in n + 1 .. Len(s) : s[i] \in S
    BY <1>1
  <2>2. n + 1 \in Int /\ Len(s) \in Int
    BY <1>1
  <2> QED
    BY <2>1, <2>2, SubSeqProperties
<1>4. SubSeq(s, 1, n) \o SubSeq(s, n + 1, Len(s)) = SubSeq(s, 1, Len(s))
  <2>1. 1 \in 1 .. Len(s) + 1 /\ n \in 1 - 1 .. Len(s) /\ Len(s) \in n .. Len(s)
    BY <1>1
  <2> QED
    BY <2>1, ConcatAdjacentSubSeq
<1>5. SubSeq(s, 1, Len(s)) = s
  BY SubSeqFull
<1>6. Len(SubSeq(s, 1, n)) = n
  BY <1>2
<1>7. Len(SubSeq(s, n + 1, Len(s))) = Len(s) - n
  BY <1>1, <1>3
<1>8. SubSeq(s, 1, n) \o SubSeq(s, n + 1, Len(s)) = s
  BY <1>4, <1>5
<1> QED
  BY <1>2, <1>3, <1>6, <1>7, <1>8, Zenon

-----------------------------------------------------------------------------
(* Each action preserves the invariant. *)

\* The server writes: the bytes are at the end of the socket and of all that was written.
LEMMA PutStep ==
  ASSUME IInv, open, NEW bytes \in Seq(Alphabet), Put(bytes),
         sent' \in Seq(Messages), open' \in BOOLEAN
  PROVE  IInv'
<1>1. TypeOK'
  BY ConcatProperties DEF IInv, TypeOK, Put
<1>2. RoomInv'
  BY DEF IInv, RoomInv, Put
<1>3. StreamKept'
  <2>1. written' = (consumed \o (buf \o wire)) \o bytes
    BY DEF IInv, StreamKept, Put
  <2>2. consumed \in Seq(Alphabet) /\ buf \in Seq(Alphabet) /\ wire \in Seq(Alphabet)
    BY DEF IInv, TypeOK
  <2>3. buf \o wire \in Seq(Alphabet)
    BY <2>2, ConcatProperties
  <2>4. (consumed \o (buf \o wire)) \o bytes = consumed \o ((buf \o wire) \o bytes)
    BY <2>2, <2>3, ConcatAssociative, SMTT(30)
  <2>5. (buf \o wire) \o bytes = buf \o (wire \o bytes)
    BY <2>2, ConcatAssociative
  <2> QED
    BY <2>1, <2>4, <2>5 DEF StreamKept, Put
<1>4. EndsWhenClosed'
  BY DEF IInv, EndsWhenClosed, Put
<1> QED
  BY <1>1, <1>2, <1>3, <1>4 DEF IInv

LEMMA ServerStep ==
  ASSUME IInv, NEW m \in Messages, Send(m) \/ \E n \in 0 .. Len(m) : Die(m, n)
  PROVE  IInv'
<1>1. m \in Seq(Bytes) /\ m \in Seq(Alphabet)
  BY NotifClientAssumption, SeqMonotonic DEF Alphabet
<1>2. CASE Send(m)
  <2>1. <<NL>> \in Seq(Alphabet)
    BY DEF Alphabet
  <2>2. m \o <<NL>> \in Seq(Alphabet)
    BY <1>1, <2>1, ConcatProperties
  <2>3. sent' \in Seq(Messages)
    BY <1>2, AppendProperties DEF Send, IInv, TypeOK
  <2> QED
    BY <1>2, <2>2, <2>3, PutStep DEF Send, IInv, TypeOK
<1>3. ASSUME NEW n \in 0 .. Len(m), Die(m, n)
      PROVE  IInv'
  <2>1. n \in Nat /\ n <= Len(m)
    BY <1>1, <1>3, LenProperties
  <2>2. SubSeq(m, 1, n) \in Seq(Alphabet)
    BY <1>1, <2>1, Cut
  <2>3. sent' \in Seq(Messages)
    BY <1>3 DEF Die, IInv, TypeOK
  <2> QED
    BY <1>3, <2>2, <2>3, PutStep DEF Die
<1> QED
  BY <1>2, <1>3

\* The bytes read leave the socket and are at the end of the buffer.
LEMMA ReadStep ==
  ASSUME IInv, NEW n \in 1 .. BuffLen, Read(n)
  PROVE  IInv'
<1> USE NotifClientAssumption
<1>1. /\ consumed \in Seq(Alphabet) /\ buf \in Seq(Alphabet) /\ wire \in Seq(Alphabet)
      /\ Len(buf) \in Nat
  BY LenProperties DEF IInv, TypeOK
<1>2. PICK got \in Seq(Alphabet), left \in Seq(Alphabet) :
        Len(got) = n /\ got \o left = wire /\ buf' = buf \o got /\ wire' = left
  <2>1. n \in Nat /\ n <= Len(wire)
    BY DEF Read
  <2>2. /\ SubSeq(wire, 1, n) \in Seq(Alphabet) /\ SubSeq(wire, n + 1, Len(wire)) \in Seq(Alphabet)
        /\ Len(SubSeq(wire, 1, n)) = n
        /\ SubSeq(wire, 1, n) \o SubSeq(wire, n + 1, Len(wire)) = wire
    BY <1>1, <2>1, Cut
  <2> QED
    BY <2>2 DEF Read
<1>3. buf' = buf \o got /\ wire' = left
  BY <1>2
<1>4. TypeOK'
  <2>1. buf' \in Seq(Alphabet) /\ Len(buf') = Len(buf) + n
    BY <1>1, <1>2, <1>3, ConcatProperties
  <2> QED
    BY <1>2, <1>3, <2>1 DEF Read, IInv, TypeOK, PCs
<1>5. RoomInv'
  BY DEF Read, RoomInv
<1>6. StreamKept'
  <2>1. buf \in Seq(Alphabet) /\ got \in Seq(Alphabet) /\ left \in Seq(Alphabet)
    BY <1>1, <1>2
  <2>2. (buf \o got) \o left = buf \o (got \o left)
    BY <2>1, ConcatAssociative
  <2> QED
    BY <1>2, <1>3, <2>2 DEF Read, IInv, StreamKept
<1>7. EndsWhenClosed'
  BY DEF Read, EndsWhenClosed
<1> QED
  BY <1>4, <1>5, <1>6, <1>7 DEF IInv

\* The bytes of a line leave the buffer and are at the end of what the client is done with.
LEMMA HandleStep ==
  ASSUME IInv, NEW p \in 1 .. Len(buf), Handle(p)
  PROVE  IInv'
<1> USE NotifClientAssumption
<1>1. /\ consumed \in Seq(Alphabet) /\ buf \in Seq(Alphabet) /\ wire \in Seq(Alphabet)
      /\ Len(buf) \in Nat /\ p \in Nat /\ p <= Len(buf) /\ p - 1 \in Nat /\ p - 1 <= Len(buf)
  BY LenProperties DEF IInv, TypeOK
<1>2. PICK line \in Seq(Alphabet), rest \in Seq(Alphabet) :
        /\ Len(rest) = Len(buf) - p /\ line \o rest = buf
        /\ consumed' = consumed \o line /\ buf' = rest
  <2>1. /\ SubSeq(buf, 1, p) \in Seq(Alphabet) /\ SubSeq(buf, p + 1, Len(buf)) \in Seq(Alphabet)
        /\ Len(SubSeq(buf, p + 1, Len(buf))) = Len(buf) - p
        /\ SubSeq(buf, 1, p) \o SubSeq(buf, p + 1, Len(buf)) = buf
    BY <1>1, Cut
  <2> QED
    BY <2>1 DEF Handle
<1>3. SubSeq(buf, 1, p - 1) \in Seq(Alphabet)
  BY <1>1, Cut
<1>4. consumed' = consumed \o line /\ buf' = rest
  BY <1>2
<1>5. Len(buf') < BuffLen
  BY <1>1, <1>2, <1>4 DEF IInv, TypeOK
<1>6. TypeOK'
  <2>1. consumed' \in Seq(Alphabet)
    BY <1>1, <1>2, <1>4, ConcatProperties
  <2>2. shown' \in Seq(Seq(Alphabet))
    BY <1>3, AppendProperties DEF Handle, IInv, TypeOK
  <2>3. pc' \in PCs
    BY DEF Handle, PCs
  <2> QED
    BY <1>1, <1>2, <1>4, <1>5, <2>1, <2>2, <2>3, SMTT(30) DEF Handle, IInv, TypeOK, server
<1>7. RoomInv'
  BY <1>5 DEF RoomInv
<1>8. StreamKept'
  <2>1. /\ consumed \in Seq(Alphabet) /\ line \in Seq(Alphabet) /\ rest \in Seq(Alphabet)
        /\ wire \in Seq(Alphabet) /\ rest \o wire \in Seq(Alphabet)
    BY <1>1, <1>2, ConcatProperties
  <2>2. (consumed \o line) \o (rest \o wire) = consumed \o (line \o (rest \o wire))
    BY <2>1, ConcatAssociative, SMTT(30)
  <2>3. (line \o rest) \o wire = line \o (rest \o wire)
    BY <2>1, ConcatAssociative
  <2> QED
    BY <1>2, <1>4, <2>2, <2>3 DEF Handle, IInv, StreamKept, server
<1>9. EndsWhenClosed'
  BY DEF Handle, EndsWhenClosed
<1> QED
  BY <1>6, <1>7, <1>8, <1>9 DEF IInv

\* Every step preserves the invariant.
LEMMA Step ==
  ASSUME IInv, [Next]_vars
  PROVE  IInv'
<1> USE NotifClientAssumption
<1>1. ASSUME NEW m \in Messages, Send(m) \/ \E n \in 0 .. Len(m) : Die(m, n)
      PROVE  IInv'
  BY <1>1, ServerStep
<1>2. ASSUME NEW n \in 1 .. BuffLen, Read(n)
      PROVE  IInv'
  BY <1>2, ReadStep
<1>3. CASE ReadNothing
  <2>1. ~open /\ wire = <<>>
    BY <1>3 DEF ReadNothing, IInv, RoomInv, TypeOK
  <2> QED
    BY <1>3, <2>1 DEF ReadNothing, server, IInv, TypeOK, PCs, RoomInv, StreamKept, EndsWhenClosed
<1>4. ASSUME NEW p \in 1 .. Len(buf), Handle(p)
      PROVE  IInv'
  BY <1>4, HandleStep
<1>5. CASE Incomplete
  <2>1. Len(buf) \in Nat
    BY LenProperties DEF IInv, TypeOK
  <2>2. RoomInv'
    BY <1>5, <2>1 DEF Incomplete, RoomInv
  <2> QED
    BY <1>5, <2>2 DEF Incomplete, server, IInv, TypeOK, PCs, StreamKept, EndsWhenClosed
<1>6. CASE ReadFails
  BY <1>6 DEF ReadFails, server, IInv, TypeOK, PCs, RoomInv, StreamKept, EndsWhenClosed
<1>7. CASE UNCHANGED vars
  BY <1>7 DEF vars, IInv, TypeOK, RoomInv, StreamKept, EndsWhenClosed
<1> QED
  BY <1>1, <1>2, <1>3, <1>4, <1>5, <1>6, <1>7 DEF Next, Client

-----------------------------------------------------------------------------

\* The invariant holds.
THEOREM Invariant == Spec => []IInv
<1>1. Init => IInv
  <2> SUFFICES ASSUME Init
               PROVE  IInv
    OBVIOUS
  <2>1. TypeOK
    BY NotifClientAssumption DEF Init, TypeOK, PCs
  <2>2. StreamKept
    BY DEF Init, StreamKept
  <2> QED
    BY <2>1, <2>2, NotifClientAssumption DEF Init, IInv, RoomInv, EndsWhenClosed
<1>2. IInv /\ [Next]_vars => IInv'
  BY Step
<1> QED
  BY <1>1, <1>2, PTL DEF Spec

\* What TypeOK says of the buffer: read(2) never puts bytes past its end.
THEOREM TypeCorrect == Spec => []TypeOK
BY Invariant, PTL DEF IInv

\* However the stream is cut, no byte is lost, shown twice or moved (notification-client.c:83-88).
THEOREM NoByteLost == Spec => []StreamKept
BY Invariant, PTL DEF IInv

\* A client always has room to read to, so that zero bytes mean the end of the stream
\* (notification-client.c:112, notification-stupide.c:45).
THEOREM EndIsEnd == Spec => []EndsWhenClosed
BY Invariant, PTL DEF IInv

-----------------------------------------------------------------------------
(* The lines of the stream. *)

\* ends[i] is where the line of the i-th message ends.
Frames(ends, messages, bytes) ==
  /\ ends[0] = 0
  /\ \A i \in 1 .. Len(messages) :
       /\ ends[i] = ends[i - 1] + Len(messages[i]) + 1
       /\ bytes[ends[i]] = NL
       /\ \A j \in 1 .. Len(messages[i]) : bytes[ends[i - 1] + j] = messages[i][j]

\* After the n bytes of whole lines there is nothing, or the beginning of a message on which the
\* server exited.
CutOff(n) ==
  n # Len(written) =>
    /\ ~open
    /\ \E m \in Messages : \A q \in n + 1 .. Len(written) :
         q - n <= Len(m) /\ written[q] = m[q - n]

\* The client is done with the lines of the first k messages, and has notified them.
DoneWith(ends, k) ==
  Len(consumed) = ends[k] /\ shown = Notified(program, SubSeq(sent, 1, k))

LinesInv ==
  \E ends \in [0 .. Len(sent) -> 0 .. Len(written)] :
    /\ Frames(ends, sent, written)
    /\ CutOff(ends[Len(sent)])
    /\ \E k \in 0 .. Len(sent) : DoneWith(ends, k)

\* There is no end of a line in the buffer.
NoLine == \A p \in 1 .. Len(buf) : buf[p] # NL

\* notification-client reads only when it is done with the lines of its buffer.
ScanInv ==
  /\ program = "client" /\ pc \in {"read", "ended"} => NoLine
  /\ pc = "failed" => Len(buf) = BuffLen /\ NoLine

LineInv == IInv /\ LinesInv /\ ScanInv

-----------------------------------------------------------------------------
(* Notified: the recursion is well-founded, and goes by the last message. *)

\* A set of naturals has a least element.
LEMMA LeastNatural ==
  ASSUME NEW T, T \subseteq Nat, T # {}
  PROVE  \E n \in T : \A k \in T : n <= k
  <1> DEFINE Less == {pair \in Nat \X Nat : pair[1] < pair[2]}
  <1>1. IsWellFoundedOn(Less, Nat)
    <2>1. Less = OpToRel(<, Nat)
      BY DEF OpToRel
    <2>2. QED
      BY <2>1, NatLessThanWellFounded, Zenon
  <1>2. PICK n \in T : \A k \in T : <<k, n>> \notin Less
    <2> HIDE DEF Less
    <2>1. QED
      BY <1>1, WFMin
  <1>3. \A k \in T : ~(k < n)
    <2> SUFFICES ASSUME NEW k \in T PROVE ~(k < n)
      OBVIOUS
    <2>1. <<k, n>> \notin Less /\ <<k, n>> \in Nat \X Nat
      BY <1>2
    <2>2. k < n => <<k, n>> \in Less
      BY <2>1
    <2>3. QED
      BY <2>1, <2>2
  <1>4. \A k \in T : k \in Nat
    OBVIOUS
  <1>5. QED
    BY <1>3, <1>4

\* What Notified makes of the first messages: g[n] of the first n.
NextOf(prog, g, s, n) ==
  IF n = 0 THEN <<>>
  ELSE IF Head(s[n]) \in Known(prog) THEN Append(g[n - 1], s[n])
  ELSE g[n - 1]

Notifies(prog, g, s, n) == g = [i \in 0 .. n |-> NextOf(prog, g, s, i)]

\* There is such a g for any number of messages.
LEMMA NotifiesExists ==
  ASSUME NEW prog, NEW s, NEW n \in Nat
  PROVE  \E g : Notifies(prog, g, s, n)
  <1> DEFINE Bad == {i \in Nat : ~\E g : Notifies(prog, g, s, i)}
  <1> SUFFICES ASSUME Bad # {} PROVE FALSE
    OBVIOUS
  <1>1. PICK b \in Bad : \A i \in Bad : b <= i
    <2> HIDE DEF Bad
    <2>1. Bad \subseteq Nat
      BY DEF Bad
    <2>2. QED
      BY <2>1, LeastNatural
  <1>2. CASE b = 0
    <2> DEFINE g == [i \in 0 .. 0 |-> <<>>]
    <2>1. Notifies(prog, g, s, 0)
      BY DEF Notifies, NextOf
    <2> HIDE DEF g
    <2>2. QED
      BY <2>1, <1>2
  <1>3. CASE b # 0
    <2>1. b - 1 \in Nat /\ b - 1 \notin Bad
      BY <1>1, <1>3
    <2>2. PICK h : Notifies(prog, h, s, b - 1)
      BY <2>1
    <2> DEFINE g == [i \in 0 .. b |-> NextOf(prog, h, s, i)]
    <2>3. \A i \in 0 .. b - 1 : g[i] = h[i]
      BY <2>1, <2>2 DEF Notifies
    <2>4. g = [i \in 0 .. b |-> NextOf(prog, h, s, i)]
      OBVIOUS
    <2> HIDE DEF g
    <2>5. ASSUME NEW i \in 0 .. b PROVE NextOf(prog, h, s, i) = NextOf(prog, g, s, i)
      <3>1. i = 0 \/ i - 1 \in 0 .. b - 1
        BY <2>1
      <3>2. i = 0 \/ g[i - 1] = h[i - 1]
        BY <3>1, <2>3
      <3>3. QED
        BY <3>2 DEF NextOf
    <2>6. Notifies(prog, g, s, b)
      BY <2>4, <2>5 DEF Notifies
    <2>7. QED
      BY <2>6
  <1>4. QED
    BY <1>2, <1>3

\* g takes the first n messages of s as Notified does.
Follows(prog, g, s, n) == \A i \in 0 .. n : g[i] = NextOf(prog, g, s, i)

\* Two that do agree.
LEMMA FollowsUnique ==
  ASSUME NEW prog, NEW s, NEW n \in Nat,
         NEW g, NEW h, Follows(prog, g, s, n), Follows(prog, h, s, n)
  PROVE  \A i \in 0 .. n : g[i] = h[i]
  <1> DEFINE Bad == {i \in 0 .. n : g[i] # h[i]}
  <1> SUFFICES ASSUME Bad # {} PROVE FALSE
    OBVIOUS
  <1>1. PICK b \in Bad : \A i \in Bad : b <= i
    <2>1. Bad \subseteq Nat
      OBVIOUS
    <2> HIDE DEF Bad
    <2>2. QED
      BY <2>1, LeastNatural
  <1>2. b \in 0 .. n /\ g[b] # h[b]
    BY <1>1
  <1>3. g[b] = NextOf(prog, g, s, b) /\ h[b] = NextOf(prog, h, s, b)
    BY <1>2 DEF Follows
  <1>4. b # 0
    BY <1>2, <1>3 DEF NextOf
  <1>5. g[b - 1] = h[b - 1]
    <2>1. b - 1 \in 0 .. n /\ b - 1 \notin Bad
      BY <1>1, <1>2, <1>4
    <2>2. QED
      BY <2>1
  <1>6. QED
    BY <1>2, <1>3, <1>5 DEF NextOf

\* Notified says what any such g says.
LEMMA NotifiedIs ==
  ASSUME NEW prog, NEW s \in Seq(Messages), NEW g, Follows(prog, g, s, Len(s))
  PROVE  Notified(prog, s) = g[Len(s)]
  <1> DEFINE h == CHOOSE f : Notifies(prog, f, s, Len(s))
  <1>1. Notified(prog, s) = h[Len(s)]
    BY Zenon DEF Notified, Notifies, NextOf
  <1>2. Len(s) \in Nat /\ Len(s) \in 0 .. Len(s)
    BY LenProperties
  <1>3. Notifies(prog, h, s, Len(s))
    BY <1>2, NotifiesExists, Zenon
  <1> HIDE DEF h
  <1>4. Follows(prog, h, s, Len(s))
    BY <1>3, Zenon DEF Notifies, Follows
  <1>5. QED
    BY <1>1, <1>2, <1>4, FollowsUnique

\* One message more is notified after the others, or not at all.
LEMMA NotifiedAppend ==
  ASSUME NEW prog, NEW s \in Seq(Messages), NEW m \in Messages
  PROVE  Notified(prog, Append(s, m)) =
           IF Head(m) \in Known(prog) THEN Append(Notified(prog, s), m) ELSE Notified(prog, s)
  <1> DEFINE t == Append(s, m)
  <1> DEFINE n == Len(s)
  <1> DEFINE k == n + 1
  <1>1. /\ n \in Nat /\ k \in Nat /\ k # 0 /\ k - 1 = n /\ 0 .. n \subseteq 0 .. k /\ k \in 0 .. k
        /\ t \in Seq(Messages) /\ Len(t) = k /\ t[k] = m
        /\ \A i \in 1 .. n : s[i] = t[i]
    BY AppendProperties, LenProperties
  <1> HIDE DEF t, n, k
  <1>2. PICK h : Notifies(prog, h, t, k)
    BY <1>1, NotifiesExists
  <1>3. Follows(prog, h, t, k)
    BY <1>2, Zenon DEF Notifies, Follows
  <1>4. Follows(prog, h, s, n)
    <2>1. \A i \in 0 .. n : i # 0 => t[i] = s[i]
      BY <1>1
    <2>2. QED
      BY <1>1, <1>3, <2>1 DEF Follows, NextOf
  <1>5. h[k] = IF Head(m) \in Known(prog) THEN Append(h[n], m) ELSE h[n]
    BY <1>1, <1>3 DEF Follows, NextOf
  <1>6. Notified(prog, s) = h[n] /\ Notified(prog, t) = h[k]
    BY <1>1, <1>3, <1>4, NotifiedIs DEF n
  <1>7. QED
    BY <1>5, <1>6 DEF t

\* No message, nothing to notify.
LEMMA NotifiedNone ==
  ASSUME NEW prog PROVE Notified(prog, <<>>) = <<>>
  <1>1. <<>> \in Seq(Messages) /\ Len(<<>>) = 0
    BY EmptySeq
  <1>2. PICK g : Notifies(prog, g, <<>>, 0)
    BY NotifiesExists
  <1>3. g[0] = <<>>
    BY <1>2 DEF Notifies, NextOf
  <1>4. Follows(prog, g, <<>>, Len(<<>>)) /\ g[Len(<<>>)] = <<>>
    BY <1>1, <1>2, <1>3 DEF Notifies, Follows
  <1>5. QED
    BY <1>1, <1>4, NotifiedIs

-----------------------------------------------------------------------------
(* The first messages. *)

\* The first n + 1 messages are the first n and the next.
LEMMA FirstMore ==
  ASSUME NEW S, NEW s \in Seq(S), NEW n \in 0 .. Len(s), n # Len(s)
  PROVE  /\ SubSeq(s, 1, n) \in Seq(S)
         /\ SubSeq(s, 1, n + 1) = Append(SubSeq(s, 1, n), s[n + 1])
         /\ s[n + 1] \in S
  <1>1. Len(s) \in Nat /\ n \in Nat /\ n + 1 \in 1 .. Len(s)
    BY LenProperties
  <1>2. QED
    BY <1>1

\* A message more does not change the first n.
LEMMA FirstOfAppend ==
  ASSUME NEW S, NEW s \in Seq(S), NEW e \in S, NEW n \in 0 .. Len(s)
  PROVE  SubSeq(Append(s, e), 1, n) = SubSeq(s, 1, n)
  <1>1. Len(s) \in Nat /\ n \in Nat
    BY LenProperties
  <1>2. QED
    BY <1>1

-----------------------------------------------------------------------------
(* The lines of the buffer. *)

\* The buffer has the bytes written after those the client is done with.
LEMMA BufferIs ==
  ASSUME IInv
  PROVE  /\ Len(consumed) \in Nat /\ Len(buf) \in Nat /\ Len(wire) \in Nat /\ Len(written) \in Nat
         /\ Len(written) = Len(consumed) + Len(buf) + Len(wire)
         /\ \A q \in 1 .. Len(buf) : written[Len(consumed) + q] = buf[q]
  <1>1. consumed \in Seq(Alphabet) /\ buf \in Seq(Alphabet) /\ wire \in Seq(Alphabet)
    BY DEF IInv, TypeOK
  <1>2. written = consumed \o (buf \o wire)
    BY DEF IInv, StreamKept
  <1>3. /\ buf \o wire \in Seq(Alphabet) /\ Len(buf \o wire) = Len(buf) + Len(wire)
        /\ \A q \in 1 .. Len(buf) : (buf \o wire)[q] = buf[q]
    BY <1>1
  <1>4. QED
    BY <1>1, <1>2, <1>3

\* The message in question, and its bytes in what was written.
LEMMA LineIs ==
  ASSUME IInv, NEW ends \in [0 .. Len(sent) -> 0 .. Len(written)], Frames(ends, sent, written),
         NEW k \in 0 .. Len(sent), DoneWith(ends, k), k # Len(sent)
  PROVE  LET m == sent[k + 1]
         IN  /\ k \in Nat /\ k + 1 \in 1 .. Len(sent) /\ m \in Messages /\ Len(m) \in Nat \ {0}
             /\ \A j \in 1 .. Len(m) : m[j] \in Bytes
             /\ ends[k + 1] = Len(consumed) + Len(m) + 1 /\ ends[k + 1] <= Len(written)
             /\ written[Len(consumed) + Len(m) + 1] = NL
             /\ \A j \in 1 .. Len(m) : written[Len(consumed) + j] = m[j]
  <1> DEFINE m == sent[k + 1]
  <1>1. Len(sent) \in Nat /\ k \in Nat /\ k + 1 \in 1 .. Len(sent) /\ k + 1 - 1 = k
        /\ k + 1 \in 0 .. Len(sent)
    BY DEF IInv, TypeOK
  <1>2. m \in Messages
    BY <1>1, ElementOfSeq DEF IInv, TypeOK
  <1>3. m \in Seq(Bytes) /\ m # <<>>
    BY <1>2, NotifClientAssumption
  <1>4. Len(m) \in Nat \ {0} /\ \A j \in 1 .. Len(m) : m[j] \in Bytes
    <2> HIDE DEF m
    <2>1. QED
      BY <1>3
  <1>5. ends[k] = Len(consumed)
    BY DEF DoneWith
  <1>6. /\ ends[k + 1] = ends[k] + Len(m) + 1 /\ written[ends[k + 1]] = NL
        /\ \A j \in 1 .. Len(m) : written[ends[k] + j] = m[j]
    <2>1. \A i \in 1 .. Len(sent) :
             /\ ends[i] = ends[i - 1] + Len(sent[i]) + 1
             /\ written[ends[i]] = NL
             /\ \A j \in 1 .. Len(sent[i]) : written[ends[i - 1] + j] = sent[i][j]
      BY DEF Frames
    <2>2. QED
      BY <1>1, <2>1
  <1>7. ends[k + 1] <= Len(written)
    BY <1>1, BufferIs
  <1> HIDE DEF m
  <1>8. QED
    BY <1>1, <1>2, <1>4, <1>5, <1>6, <1>7 DEF m

\* What follows the lines of all the messages has no end of a line.
LEMMA NoLineAfterLast ==
  ASSUME IInv, NEW ends \in [0 .. Len(sent) -> 0 .. Len(written)], CutOff(ends[Len(sent)]),
         DoneWith(ends, Len(sent))
  PROVE  /\ NoLine
         /\ Len(buf) > 0 =>
              \E m \in Messages : Len(buf) <= Len(m) /\ \A q \in 1 .. Len(buf) : buf[q] = m[q]
  <1>1. ends[Len(sent)] = Len(consumed)
    BY DEF DoneWith
  <1> SUFFICES ASSUME Len(buf) > 0
               PROVE  /\ NoLine
                      /\ \E m \in Messages : /\ Len(buf) <= Len(m)
                                             /\ \A q \in 1 .. Len(buf) : buf[q] = m[q]
    BY BufferIs DEF NoLine
  <1>2. Len(consumed) # Len(written)
    BY BufferIs
  <1>3. PICK m \in Messages : \A q \in Len(consumed) + 1 .. Len(written) :
               q - Len(consumed) <= Len(m) /\ written[q] = m[q - Len(consumed)]
    BY <1>1, <1>2 DEF CutOff
  <1>4. \A q \in 1 .. Len(buf) : q <= Len(m) /\ buf[q] = m[q]
    <2> SUFFICES ASSUME NEW q \in 1 .. Len(buf) PROVE q <= Len(m) /\ buf[q] = m[q]
      OBVIOUS
    <2>1. /\ Len(consumed) + q \in Len(consumed) + 1 .. Len(written)
          /\ Len(consumed) + q - Len(consumed) = q
      BY BufferIs
    <2>2. written[Len(consumed) + q] = buf[q]
      BY BufferIs
    <2>3. QED
      BY <1>3, <2>1, <2>2
  <1>5. m \in Seq(Bytes) /\ Len(m) \in Nat /\ \A q \in 1 .. Len(m) : m[q] \in Bytes
    BY NotifClientAssumption
  <1>6. NoLine
    BY <1>4, <1>5, NotifClientAssumption, BufferIs DEF NoLine
  <1>7. Len(buf) <= Len(m)
    BY <1>4, BufferIs
  <1>8. QED
    BY <1>4, <1>6, <1>7

\* Where the buffer has the end of its first line, that line is the next message.
LEMMA FirstLine ==
  ASSUME IInv, NEW ends \in [0 .. Len(sent) -> 0 .. Len(written)], Frames(ends, sent, written),
         CutOff(ends[Len(sent)]), NEW k \in 0 .. Len(sent), DoneWith(ends, k),
         NEW p \in 1 .. Len(buf), EndsLine(p)
  PROVE  /\ k # Len(sent)
         /\ p = Len(sent[k + 1]) + 1
         /\ SubSeq(buf, 1, p - 1) = sent[k + 1]
         /\ buf[1] = Head(sent[k + 1])
  <1>1. k # Len(sent)
    BY NoLineAfterLast DEF NoLine, EndsLine
  <1> DEFINE m == sent[k + 1]
  <1>2. /\ m \in Messages /\ Len(m) \in Nat \ {0}
        /\ \A j \in 1 .. Len(m) : m[j] \in Bytes
        /\ written[Len(consumed) + Len(m) + 1] = NL
        /\ \A j \in 1 .. Len(m) : written[Len(consumed) + j] = m[j]
    BY <1>1, LineIs
  <1> HIDE DEF m
  <1>3. \A q \in 1 .. Len(buf) : q <= Len(m) => buf[q] = m[q] /\ buf[q] # NL
    BY <1>2, BufferIs, NotifClientAssumption
  <1>4. p > Len(m)
    BY <1>2, <1>3, BufferIs DEF EndsLine
  <1>5. p <= Len(m) + 1
    <2> SUFFICES ASSUME p > Len(m) + 1 PROVE FALSE
      BY <1>2, BufferIs
    <2>1. Len(m) + 1 \in 1 .. Len(buf) /\ Len(m) + 1 \in 1 .. p - 1
      BY <1>2, BufferIs
    <2>2. written[Len(consumed) + (Len(m) + 1)] = buf[Len(m) + 1]
      BY <2>1, BufferIs
    <2>3. Len(consumed) + (Len(m) + 1) = Len(consumed) + Len(m) + 1
      BY <1>2, BufferIs
    <2>4. QED
      BY <1>2, <2>1, <2>2, <2>3 DEF EndsLine
  <1>6. p = Len(m) + 1
    BY <1>2, <1>4, <1>5, BufferIs
  <1>7. m \in Seq(Bytes)
    BY <1>2, NotifClientAssumption
  <1>8. SubSeq(buf, 1, p - 1) = m
    <2>1. buf \in Seq(Alphabet) /\ p - 1 = Len(m) /\ Len(m) <= Len(buf)
      BY <1>2, <1>6, BufferIs DEF IInv, TypeOK
    <2>2. /\ SubSeq(buf, 1, Len(m)) \in Seq(Alphabet) /\ Len(SubSeq(buf, 1, Len(m))) = Len(m)
          /\ \A j \in 1 .. Len(m) : SubSeq(buf, 1, Len(m))[j] = buf[j]
      BY <1>2, <2>1, BufferIs
    <2>3. \A j \in 1 .. Len(m) : SubSeq(buf, 1, Len(m))[j] = m[j]
      BY <1>2, <1>3, <2>1, <2>2, BufferIs
    <2>4. SubSeq(buf, 1, Len(m)) = m
      BY <1>7, <2>2, <2>3, SeqEqual
    <2>5. QED
      BY <2>1, <2>4
  <1>9. buf[1] = Head(m)
    BY <1>2, <1>3, <1>7, BufferIs
  <1>10. QED
    BY <1>1, <1>6, <1>8, <1>9 DEF m

\* A next message that is all in the buffer has the end of its line there.
LEMMA NextIsCut ==
  ASSUME IInv, NEW ends \in [0 .. Len(sent) -> 0 .. Len(written)], Frames(ends, sent, written),
         NEW k \in 0 .. Len(sent), DoneWith(ends, k), k # Len(sent), NoLine
  PROVE  /\ Len(buf) <= Len(sent[k + 1])
         /\ \A q \in 1 .. Len(buf) : buf[q] = sent[k + 1][q]
  <1>1. PICK m : m = sent[k + 1]
    OBVIOUS
  <1>2. /\ m \in Messages /\ Len(m) \in Nat
        /\ written[Len(consumed) + Len(m) + 1] = NL
        /\ \A j \in 1 .. Len(m) : written[Len(consumed) + j] = m[j]
    BY <1>1, LineIs
  <1>3. Len(buf) <= Len(m)
    <2> SUFFICES ASSUME Len(buf) > Len(m) PROVE FALSE
      BY <1>2, BufferIs
    <2>1. Len(m) + 1 \in 1 .. Len(buf)
      BY <1>2, BufferIs
    <2>2. written[Len(consumed) + (Len(m) + 1)] = buf[Len(m) + 1]
      BY <2>1, BufferIs
    <2>3. Len(consumed) + (Len(m) + 1) = Len(consumed) + Len(m) + 1
      BY <1>2, BufferIs
    <2>4. QED
      BY <1>2, <2>1, <2>2, <2>3 DEF NoLine
  <1>4. \A q \in 1 .. Len(buf) : buf[q] = m[q]
    BY <1>2, <1>3, BufferIs
  <1>5. QED
    BY <1>1, <1>3, <1>4

\* A buffer without the end of a line has the beginning of a message.
LEMMA BeginsMessage ==
  ASSUME LineInv, NoLine, Len(buf) > 0
  PROVE  \E m \in Messages : Len(buf) <= Len(m) /\ \A q \in 1 .. Len(buf) : buf[q] = m[q]
  <1>1. PICK ends \in [0 .. Len(sent) -> 0 .. Len(written)] :
          /\ Frames(ends, sent, written)
          /\ CutOff(ends[Len(sent)])
          /\ \E k \in 0 .. Len(sent) : DoneWith(ends, k)
    BY DEF LineInv, LinesInv
  <1>2. PICK k \in 0 .. Len(sent) : DoneWith(ends, k)
    BY <1>1
  <1>3. CASE k = Len(sent)
    BY <1>1, <1>2, <1>3, NoLineAfterLast DEF LineInv
  <1>4. CASE k # Len(sent)
    <2>1. /\ Len(buf) <= Len(sent[k + 1])
          /\ \A q \in 1 .. Len(buf) : buf[q] = sent[k + 1][q]
      BY <1>1, <1>2, <1>4, NextIsCut DEF LineInv
    <2>2. sent[k + 1] \in Messages
      BY <1>1, <1>2, <1>4, LineIs DEF LineInv
    <2>3. QED
      BY <2>1, <2>2
  <1>5. QED
    BY <1>3, <1>4

\* Lines end one behind the other.
LEMMA EndsGrow ==
  ASSUME IInv, NEW ends \in [0 .. Len(sent) -> 0 .. Len(written)], Frames(ends, sent, written),
         NEW i \in 0 .. Len(sent), NEW j \in 0 .. Len(sent), i < j
  PROVE  ends[i] < ends[j]
  <1> DEFINE T == {l \in 0 .. Len(sent) : i < l /\ ~(ends[i] < ends[l])}
  <1> SUFFICES ASSUME T # {} PROVE FALSE
    OBVIOUS
  <1>1. Len(sent) \in Nat /\ Len(written) \in Nat
    BY BufferIs DEF IInv, TypeOK
  <1>2. T \subseteq Nat
    BY <1>1
  <1>3. PICK l \in T : \A n \in T : l <= n
    <2> HIDE DEF T
    <2>1. QED
      BY <1>2, LeastNatural
  <1>4. l \in 1 .. Len(sent) /\ l - 1 \in 0 .. Len(sent) /\ i <= l - 1
    BY <1>1
  <1>5. ends[i] <= ends[l - 1]
    <2>1. l - 1 \notin T
      BY <1>1, <1>3, <1>4
    <2>2. QED
      BY <1>1, <1>4, <2>1
  <1>6. ends[l] = ends[l - 1] + Len(sent[l]) + 1
    BY <1>4 DEF Frames
  <1>7. Len(sent[l]) \in Nat
    <2>1. sent[l] \in Messages
      BY <1>4, ElementOfSeq DEF IInv, TypeOK
    <2>2. QED
      BY <2>1, NotifClientAssumption
  <1>8. ends[i] \in Nat /\ ends[l - 1] \in Nat /\ ends[l] \in Nat
    BY <1>1, <1>4
  <1>9. ends[i] < ends[l]
    BY <1>5, <1>6, <1>7, <1>8
  <1>10. QED
    BY <1>9

\* The ends of lines that were written are those of the messages.
LEMMA EndOfLine ==
  ASSUME IInv, NEW ends \in [0 .. Len(sent) -> 0 .. Len(written)], Frames(ends, sent, written),
         CutOff(ends[Len(sent)]), NEW p \in 1 .. Len(written), written[p] = NL
  PROVE  \E i \in 1 .. Len(sent) : ends[i] = p
  <1> DEFINE T == {l \in 0 .. Len(sent) : p <= ends[l]}
  <1>1. Len(sent) \in Nat /\ Len(written) \in Nat /\ Len(sent) \in 0 .. Len(sent)
    BY BufferIs DEF IInv, TypeOK
  <1>2. Len(sent) \in T
    <2> SUFFICES ASSUME ends[Len(sent)] < p PROVE FALSE
      BY <1>1
    <2>1. PICK m \in Messages : \A q \in ends[Len(sent)] + 1 .. Len(written) :
                 q - ends[Len(sent)] <= Len(m) /\ written[q] = m[q - ends[Len(sent)]]
      BY <1>1 DEF CutOff
    <2>2. /\ p - ends[Len(sent)] \in Nat \ {0} /\ p - ends[Len(sent)] <= Len(m)
          /\ written[p] = m[p - ends[Len(sent)]]
      BY <1>1, <2>1
    <2>3. m \in Seq(Bytes) /\ Len(m) \in Nat
      BY NotifClientAssumption
    <2>4. \A q \in 1 .. Len(m) : m[q] \in Bytes
      BY <2>3
    <2>5. QED
      BY <2>2, <2>3, <2>4, NotifClientAssumption
  <1>3. PICK l \in T : \A n \in T : l <= n
    <2>1. T \subseteq Nat
      BY <1>1
    <2> HIDE DEF T
    <2>2. QED
      BY <1>2, <2>1, LeastNatural
  <1>4. l \in 1 .. Len(sent) /\ l - 1 \in 0 .. Len(sent) /\ ends[l - 1] < p
    <2>1. l # 0
      BY <1>1, <1>3 DEF Frames
    <2>2. l \in 1 .. Len(sent) /\ l - 1 \in 0 .. Len(sent) /\ l \in Nat
      BY <1>1, <2>1
    <2>3. l - 1 \notin T
      BY <1>3, <2>2
    <2>4. QED
      BY <1>1, <2>2, <2>3
  <1>5. PICK m : m = sent[l]
    OBVIOUS
  <1>6. /\ ends[l] = ends[l - 1] + Len(m) + 1
        /\ \A j \in 1 .. Len(m) : written[ends[l - 1] + j] = m[j]
    BY <1>4, <1>5 DEF Frames
  <1>7. m \in Messages
    BY <1>4, <1>5, ElementOfSeq DEF IInv, TypeOK
  <1>8. m \in Seq(Bytes) /\ Len(m) \in Nat /\ \A j \in 1 .. Len(m) : m[j] \in Bytes
    BY <1>7, NotifClientAssumption
  <1>9. ends[l - 1] \in Nat /\ ends[l] \in Nat /\ p \in Nat /\ p <= ends[l]
    BY <1>1, <1>3, <1>4
  <1>10. ~(p < ends[l])
    <2> SUFFICES ASSUME p < ends[l] PROVE FALSE
      OBVIOUS
    <2>1. p - ends[l - 1] \in 1 .. Len(m) /\ ends[l - 1] + (p - ends[l - 1]) = p
      BY <1>4, <1>6, <1>8, <1>9
    <2>2. written[p] \in Bytes
      BY <1>6, <1>8, <2>1
    <2>3. QED
      BY <2>2, NotifClientAssumption
  <1>11. QED
    BY <1>4, <1>9, <1>10

\* Without the end of a line in the buffer, the lines that end in the socket are those of the
\* messages that the client is not done with.
LEMMA LinesLeft ==
  ASSUME IInv, NEW ends \in [0 .. Len(sent) -> 0 .. Len(written)], Frames(ends, sent, written),
         CutOff(ends[Len(sent)]), NEW k \in 0 .. Len(sent), DoneWith(ends, k), NoLine
  PROVE  Len(sent) - k = LinesOf(wire)
  <1> DEFINE had == Len(consumed) + Len(buf)
             left == k + 1 .. Len(sent)
             T == {q \in 1 .. Len(wire) : wire[q] = NL}
             f == [i \in left |-> ends[i] - had]
  <1>1. /\ Len(sent) \in Nat /\ Len(written) \in Nat /\ Len(wire) \in Nat /\ had \in Nat
        /\ Len(consumed) \in Nat /\ Len(buf) \in Nat
        /\ k \in Nat /\ k <= Len(sent) /\ Len(written) = had + Len(wire)
    BY BufferIs DEF IInv, TypeOK
  <1>2. \A q \in 1 .. Len(wire) : written[had + q] = wire[q]
    <2>1. written = consumed \o (buf \o wire)
      BY DEF IInv, StreamKept
    <2>2. consumed \in Seq(Alphabet) /\ buf \in Seq(Alphabet) /\ wire \in Seq(Alphabet)
      BY DEF IInv, TypeOK
    <2>3. QED
      BY <2>1, <2>2
  <1>3. \A i \in left : ends[i] \in Nat /\ ends[i] > had /\ ends[i] <= Len(written)
    <2> SUFFICES ASSUME NEW i \in left
                 PROVE  ends[i] \in Nat /\ ends[i] > had /\ ends[i] <= Len(written)
      OBVIOUS
    <2>1. k # Len(sent) /\ k + 1 \in 0 .. Len(sent) /\ i \in 0 .. Len(sent)
      BY <1>1
    <2>2. PICK m : m = sent[k + 1]
      OBVIOUS
    <2>3. Len(m) \in Nat /\ ends[k + 1] = Len(consumed) + Len(m) + 1
      BY <2>1, <2>2, LineIs
    <2>4. Len(buf) <= Len(m)
      BY <2>1, <2>2, NextIsCut
    <2>5. ends[k + 1] <= ends[i]
      <3>1. i = k + 1 \/ k + 1 < i
        BY <1>1
      <3>2. ends[k + 1] \in Nat /\ ends[i] \in Nat
        BY <1>1, <2>1
      <3>3. k + 1 < i => ends[k + 1] < ends[i]
        BY <2>1, EndsGrow
      <3>4. QED
        BY <3>1, <3>2, <3>3
    <2>6. ends[i] \in Nat /\ ends[i] <= Len(written)
      BY <1>1, <2>1
    <2>7. QED
      BY <1>1, <2>3, <2>4, <2>5, <2>6
  <1>4. \A i \in left : f[i] \in T
    <2> SUFFICES ASSUME NEW i \in left PROVE f[i] \in T
      OBVIOUS
    <2>1. f[i] \in 1 .. Len(wire) /\ had + f[i] = ends[i]
      BY <1>1, <1>3
    <2>2. written[ends[i]] = NL
      BY <1>1 DEF Frames
    <2>3. QED
      BY <1>2, <2>1, <2>2
  <1>5. \A i, j \in left : f[i] = f[j] => i = j
    <2> SUFFICES ASSUME NEW i \in left, NEW j \in left, i # j PROVE f[i] # f[j]
      OBVIOUS
    <2>1. i \in 0 .. Len(sent) /\ j \in 0 .. Len(sent) /\ (i < j \/ j < i)
      BY <1>1
    <2>2. ends[i] < ends[j] \/ ends[j] < ends[i]
      BY <2>1, EndsGrow
    <2>3. QED
      BY <1>1, <1>3, <2>2
  <1>6. \A q \in T : \E i \in left : f[i] = q
    <2> SUFFICES ASSUME NEW q \in T PROVE \E i \in left : f[i] = q
      OBVIOUS
    <2>1. had + q \in 1 .. Len(written) /\ written[had + q] = NL
      BY <1>1, <1>2
    <2>2. PICK i \in 1 .. Len(sent) : ends[i] = had + q
      BY <2>1, EndOfLine
    <2>3. i > k
      <3> SUFFICES ASSUME i <= k PROVE FALSE
        BY <1>1
      <3>1. ends[k] = Len(consumed)
        BY DEF DoneWith
      <3>2. i \in 0 .. Len(sent) /\ (i = k \/ i < k)
        BY <1>1
      <3>3. ends[i] <= ends[k]
        BY <1>1, <3>1, <3>2, EndsGrow
      <3>4. QED
        BY <1>1, <2>2, <3>1, <3>3
    <2>4. i \in left
      BY <1>1, <2>3
    <2>5. f[i] = q
      BY <1>1, <2>2, <2>4
    <2>6. QED
      BY <2>4, <2>5
  <1>7. ExistsBijection(left, T)
    <2> HIDE DEF left, T
    <2>1. f \in Bijection(left, T)
      BY <1>4, <1>5, <1>6, Fun_IsBij
    <2>2. QED
      BY <2>1, Fun_ExistsBij
  <1>8. IsFiniteSet(left) /\ Cardinality(left) = Len(sent) - k
    <2>1. PICK a : a = k + 1
      OBVIOUS
    <2>2. PICK b : b = Len(sent)
      OBVIOUS
    <2>3. a \in Int /\ b \in Int /\ a <= b + 1
      BY <1>1, <2>1, <2>2
    <2>4. IsFiniteSet(a .. b) /\ Cardinality(a .. b) = IF a > b THEN 0 ELSE b - a + 1
      BY <2>3, FS_Interval
    <2>5. (IF a > b THEN 0 ELSE b - a + 1) = b - a + 1
      BY <2>3
    <2>6. b - a + 1 = Len(sent) - k
      BY <1>1, <2>1, <2>2
    <2>7. left = a .. b
      BY <2>1, <2>2
    <2>8. QED
      BY <2>4, <2>5, <2>6, <2>7
  <1>9. Cardinality(T) = Cardinality(left)
    <2> HIDE DEF left, T
    <2>1. QED
      BY <1>7, <1>8, FS_Bijection
  <1>10. QED
    BY <1>8, <1>9 DEF LinesOf

-----------------------------------------------------------------------------
(* Each action preserves the lines. *)

\* What the server writes goes behind what it wrote.
LEMMA WrittenGrows ==
  ASSUME IInv, NEW bytes \in Seq(Alphabet), written' = written \o bytes
  PROVE  /\ Len(written') = Len(written) + Len(bytes) /\ Len(bytes) \in Nat
         /\ \A q \in 1 .. Len(written) : written'[q] = written[q]
         /\ \A q \in 1 .. Len(bytes) : written'[Len(written) + q] = bytes[q]
  BY DEF IInv, TypeOK

\* Lines end where they did as long as the bytes up to there are the same.
LEMMA FramesKept ==
  ASSUME NEW s \in Seq(Messages), NEW w \in Nat, NEW ends \in [0 .. Len(s) -> 0 .. w],
         NEW old, NEW bytes, Frames(ends, s, old), \A q \in 1 .. w : bytes[q] = old[q]
  PROVE  Frames(ends, s, bytes)
  <1>1. PICK n \in Nat : n = Len(s)
    BY LenProperties
  <1>2. ASSUME NEW i \in 1 .. n
        PROVE  /\ ends[i] = ends[i - 1] + Len(s[i]) + 1
               /\ bytes[ends[i]] = NL
               /\ \A j \in 1 .. Len(s[i]) : bytes[ends[i - 1] + j] = s[i][j]
    <2>1. /\ ends[i] = ends[i - 1] + Len(s[i]) + 1
          /\ old[ends[i]] = NL
          /\ \A j \in 1 .. Len(s[i]) : old[ends[i - 1] + j] = s[i][j]
      BY <1>1 DEF Frames
    <2>2. PICK a \in 0 .. w, b \in 0 .. w : a = ends[i - 1] /\ b = ends[i]
      <3>1. i - 1 \in 0 .. n /\ i \in 0 .. n
        OBVIOUS
      <3>2. ends[i - 1] \in 0 .. w /\ ends[i] \in 0 .. w
        BY <1>1, <3>1
      <3>3. QED
        BY <3>2
    <2>3. PICK len \in Nat : len = Len(s[i])
      <3>1. s[i] \in Seq(Bytes)
        BY <1>1, NotifClientAssumption
      <3>2. QED
        BY <3>1
    <2>4. b = a + len + 1
      BY <2>1, <2>2, <2>3
    <2>5. b \in 1 .. w /\ \A j \in 1 .. len : a + j \in 1 .. w
      BY <2>4
    <2>6. QED
      BY <2>1, <2>2, <2>3, <2>4, <2>5
  <1>3. QED
    BY <1>1, <1>2 DEF Frames

\* The line of a new message ends where the stream does.
LEMMA SendLines ==
  ASSUME LineInv, NEW m \in Messages, Send(m)
  PROVE  LinesInv'
  <1>1. PICK ends \in [0 .. Len(sent) -> 0 .. Len(written)] :
          /\ Frames(ends, sent, written)
          /\ CutOff(ends[Len(sent)])
          /\ \E k \in 0 .. Len(sent) : DoneWith(ends, k)
    BY DEF LineInv, LinesInv
  <1>2. PICK k \in 0 .. Len(sent) : DoneWith(ends, k)
    BY <1>1
  <1>3. PICK n \in Nat, w \in Nat : n = Len(sent) /\ w = Len(written)
    BY DEF LineInv, IInv, TypeOK
  <1>4. m \in Seq(Alphabet) /\ m \in Seq(Bytes)
    BY NotifClientAssumption, SeqMonotonic DEF Alphabet
  <1>5. PICK size \in Nat : size = Len(m)
    BY <1>4
  <1>6. /\ sent' = Append(sent, m) /\ written' = written \o (m \o <<NL>>)
        /\ UNCHANGED <<open, consumed, shown, program>> /\ open
    BY DEF Send, Put
  <1>7. /\ Len(written') = w + size + 1
        /\ \A q \in 1 .. w : written'[q] = written[q]
        /\ \A j \in 1 .. size : written'[w + j] = m[j]
        /\ written'[w + size + 1] = NL
    <2>1. PICK bytes : bytes = m \o <<NL>>
      OBVIOUS
    <2>2. /\ bytes \in Seq(Alphabet) /\ Len(bytes) = size + 1 /\ bytes[size + 1] = NL
          /\ \A j \in 1 .. size : bytes[j] = m[j]
      BY <1>4, <1>5, <2>1 DEF Alphabet
    <2>3. /\ Len(written') = w + Len(bytes)
          /\ \A q \in 1 .. w : written'[q] = written[q]
          /\ \A q \in 1 .. Len(bytes) : written'[w + q] = bytes[q]
      BY <1>3, <1>6, <2>1, <2>2, WrittenGrows DEF LineInv
    <2>4. size + 1 \in 1 .. size + 1 /\ w + (size + 1) = w + size + 1
          /\ \A j \in 1 .. size : j \in 1 .. size + 1
      OBVIOUS
    <2>5. QED
      BY <2>2, <2>3, <2>4
  <1>8. /\ Len(sent') = n + 1 /\ sent'[n + 1] = m
        /\ \A i \in 1 .. n : sent'[i] = sent[i]
    BY <1>3, <1>6, AppendProperties DEF LineInv, IInv, TypeOK
  <1>9. ends \in [0 .. n -> 0 .. w] /\ ends[n] = w
    BY <1>1, <1>3, <1>6 DEF CutOff
  <1>10. PICK longer \in [0 .. n + 1 -> 0 .. w + size + 1] :
           longer[n + 1] = w + size + 1 /\ \A i \in 0 .. n : longer[i] = ends[i]
    <2> DEFINE f == [i \in 0 .. n + 1 |-> IF i = n + 1 THEN w + size + 1 ELSE ends[i]]
    <2>1. f \in [0 .. n + 1 -> 0 .. w + size + 1]
      BY <1>9
    <2>2. f[n + 1] = w + size + 1 /\ \A i \in 0 .. n : f[i] = ends[i]
      OBVIOUS
    <2> HIDE DEF f
    <2>3. QED
      BY <2>1, <2>2
  <1>11. Frames(longer, sent', written')
    <2>1. longer[0] = 0
      BY <1>1, <1>10 DEF Frames
    <2>2. ASSUME NEW i \in 1 .. n
          PROVE  /\ longer[i] = longer[i - 1] + Len(sent'[i]) + 1
                 /\ written'[longer[i]] = NL
                 /\ \A j \in 1 .. Len(sent'[i]) : written'[longer[i - 1] + j] = sent'[i][j]
      <3>1. Frames(ends, sent, written')
        BY <1>1, <1>3, <1>7, FramesKept DEF LineInv, IInv, TypeOK
      <3>2. longer[i] = ends[i] /\ longer[i - 1] = ends[i - 1] /\ sent'[i] = sent[i]
        BY <1>8, <1>10, SMTT(30)
      <3>3. QED
        BY <1>3, <3>1, <3>2 DEF Frames
    <2>3. /\ longer[n + 1] = longer[n] + Len(m) + 1
          /\ written'[longer[n + 1]] = NL
          /\ \A j \in 1 .. Len(m) : written'[longer[n] + j] = m[j]
      <3>1. n \in 0 .. n
        OBVIOUS
      <3>2. longer[n + 1] = w + size + 1 /\ longer[n] = w
        BY <1>9, <1>10, <3>1
      <3>3. QED
        BY <1>5, <1>7, <3>2
    <2>4. ASSUME NEW i \in 1 .. Len(sent')
          PROVE  /\ longer[i] = longer[i - 1] + Len(sent'[i]) + 1
                 /\ written'[longer[i]] = NL
                 /\ \A j \in 1 .. Len(sent'[i]) : written'[longer[i - 1] + j] = sent'[i][j]
      <3>1. i \in 1 .. n \/ (i = n + 1 /\ i - 1 = n)
        BY <1>8
      <3>2. CASE i \in 1 .. n
        BY <2>2, <3>2
      <3>3. CASE i = n + 1 /\ i - 1 = n
        BY <1>8, <2>3, <3>3
      <3>4. QED
        BY <3>1, <3>2, <3>3
    <2>5. QED
      BY <2>1, <2>4 DEF Frames
  <1>12. CutOff(longer[Len(sent)])'
    BY <1>7, <1>8, <1>10 DEF CutOff
  <1>13. k \in 0 .. n + 1 /\ DoneWith(longer, k)'
    <2>1. k \in 0 .. n
      BY <1>3
    <2>2. SubSeq(sent', 1, k) = SubSeq(sent, 1, k)
      BY <1>6, FirstOfAppend DEF LineInv, IInv, TypeOK
    <2>3. longer[k] = ends[k] /\ k \in 0 .. n + 1
      BY <1>10, <2>1
    <2>4. DoneWith(longer, k)'
      BY <1>2, <1>6, <2>2, <2>3 DEF DoneWith
    <2>5. QED
      BY <2>3, <2>4
  <1>14. QED
    BY <1>7, <1>8, <1>11, <1>12, <1>13 DEF LinesInv

\* A message the server does not finish is behind the lines.
LEMMA DieLines ==
  ASSUME LineInv, NEW m \in Messages, NEW n \in 0 .. Len(m), Die(m, n)
  PROVE  LinesInv'
  <1>1. PICK ends \in [0 .. Len(sent) -> 0 .. Len(written)] :
          /\ Frames(ends, sent, written)
          /\ CutOff(ends[Len(sent)])
          /\ \E k \in 0 .. Len(sent) : DoneWith(ends, k)
    BY DEF LineInv, LinesInv
  <1>2. PICK k \in 0 .. Len(sent) : DoneWith(ends, k)
    BY <1>1
  <1>3. PICK w \in Nat : w = Len(written)
    BY DEF LineInv, IInv, TypeOK
  <1>4. m \in Seq(Alphabet) /\ n \in Nat /\ Len(m) \in Nat /\ n <= Len(m)
    BY NotifClientAssumption, SeqMonotonic DEF Alphabet
  <1>5. /\ written' = written \o SubSeq(m, 1, n) /\ open /\ ~open'
        /\ UNCHANGED <<sent, consumed, shown, program>>
    BY DEF Die, Put
  <1>6. /\ Len(written') = w + n
        /\ \A q \in 1 .. w : written'[q] = written[q]
        /\ \A j \in 1 .. n : written'[w + j] = m[j]
    <2>1. PICK bytes : bytes = SubSeq(m, 1, n)
      OBVIOUS
    <2>2. bytes \in Seq(Alphabet) /\ Len(bytes) = n /\ \A j \in 1 .. n : bytes[j] = m[j]
      BY <1>4, <2>1
    <2>3. QED
      BY <1>3, <1>5, <2>1, <2>2, WrittenGrows DEF LineInv
  <1>7. ends[Len(sent)] = w
    BY <1>1, <1>3, <1>5 DEF CutOff
  <1>8. ends \in [0 .. Len(sent') -> 0 .. Len(written')]
    <2>1. 0 .. w \subseteq 0 .. w + n
      BY <1>4
    <2>2. QED
      BY <1>3, <1>5, <1>6, <2>1
  <1>9. Frames(ends, sent', written')
    <2>1. sent \in Seq(Messages) /\ ends \in [0 .. Len(sent) -> 0 .. w]
      BY <1>1, <1>3 DEF LineInv, IInv, TypeOK
    <2>2. Frames(ends, sent, written')
      BY <1>1, <1>3, <1>6, <2>1, FramesKept
    <2>3. QED
      BY <1>5, <2>2
  <1>10. CutOff(ends[Len(sent)])'
    <2>1. ASSUME NEW q \in w + 1 .. w + n
          PROVE  q - w <= Len(m) /\ written'[q] = m[q - w]
      <3>1. q - w \in 1 .. n /\ w + (q - w) = q
        BY <1>4
      <3>2. QED
        BY <1>4, <1>6, <3>1
    <2>2. QED
      BY <1>5, <1>6, <1>7, <2>1 DEF CutOff
  <1>11. DoneWith(ends, k)'
    BY <1>2, <1>5 DEF DoneWith
  <1>12. QED
    BY <1>5, <1>8, <1>9, <1>10, <1>11 DEF LinesInv

\* A line the client takes off its buffer is the next message.
LEMMA HandleLines ==
  ASSUME LineInv, NEW p \in 1 .. Len(buf), Handle(p)
  PROVE  LinesInv'
  <1>1. PICK ends \in [0 .. Len(sent) -> 0 .. Len(written)] :
          /\ Frames(ends, sent, written)
          /\ CutOff(ends[Len(sent)])
          /\ \E k \in 0 .. Len(sent) : DoneWith(ends, k)
    BY DEF LineInv, LinesInv
  <1>2. PICK k \in 0 .. Len(sent) : DoneWith(ends, k)
    BY <1>1
  <1>3. PICK m : m = sent[k + 1]
    OBVIOUS
  <1>4. k # Len(sent) /\ p = Len(m) + 1 /\ SubSeq(buf, 1, p - 1) = m /\ buf[1] = Head(m)
    BY <1>1, <1>2, <1>3, FirstLine DEF Handle, LineInv
  <1>5. /\ ends[k + 1] = Len(consumed) + Len(m) + 1 /\ m \in Messages /\ Len(m) \in Nat
        /\ k + 1 \in 0 .. Len(sent)
    BY <1>1, <1>2, <1>3, <1>4, LineIs DEF LineInv
  <1>6. /\ UNCHANGED <<sent, written, open, program>>
        /\ shown' = IF Head(m) \in Known(program) THEN Append(shown, m) ELSE shown
        /\ consumed' = consumed \o SubSeq(buf, 1, p)
    BY <1>4 DEF Handle, server
  <1>7. Len(consumed') = ends[k + 1]
    <2>1. PICK line : line = SubSeq(buf, 1, p)
      OBVIOUS
    <2>2. line \in Seq(Alphabet) /\ Len(line) = p
      BY <2>1, Cut, BufferIs DEF LineInv, IInv, TypeOK
    <2>3. Len(consumed') = Len(consumed) + p
      BY <1>6, <2>1, <2>2 DEF LineInv, IInv, TypeOK
    <2>4. QED
      BY <1>4, <1>5, <2>3, BufferIs DEF LineInv
  <1>8. shown' = Notified(program, SubSeq(sent, 1, k + 1))
    <2>1. PICK first : first = SubSeq(sent, 1, k)
      OBVIOUS
    <2>2. first \in Seq(Messages) /\ SubSeq(sent, 1, k + 1) = Append(first, m)
      BY <1>3, <1>4, <2>1, FirstMore DEF LineInv, IInv, TypeOK
    <2>3. shown = Notified(program, first)
      BY <1>2, <2>1 DEF DoneWith
    <2>4. QED
      BY <1>5, <1>6, <2>2, <2>3, NotifiedAppend
  <1>9. DoneWith(ends, k + 1)'
    BY <1>6, <1>7, <1>8 DEF DoneWith
  <1>10. CutOff(ends[Len(sent)])'
    BY <1>1, <1>6 DEF CutOff
  <1>11. QED
    BY <1>1, <1>5, <1>6, <1>9, <1>10 DEF LinesInv

\* The other steps leave the lines alone.
LEMMA OtherLines ==
  ASSUME LineInv, UNCHANGED <<sent, written, open, program, consumed, shown>>
  PROVE  LinesInv'
  <1>1. PICK ends \in [0 .. Len(sent) -> 0 .. Len(written)] :
          /\ Frames(ends, sent, written)
          /\ CutOff(ends[Len(sent)])
          /\ \E k \in 0 .. Len(sent) : DoneWith(ends, k)
    BY DEF LineInv, LinesInv
  <1>2. PICK k \in 0 .. Len(sent) : DoneWith(ends, k)
    BY <1>1
  <1>3. CutOff(ends[Len(sent)])' /\ DoneWith(ends, k)'
    BY <1>1, <1>2 DEF CutOff, DoneWith
  <1>4. QED
    BY <1>1, <1>3 DEF LinesInv

\* So every step preserves the lines.
LEMMA LinesStep == LineInv /\ [Next]_vars => LinesInv'
  <1> SUFFICES ASSUME LineInv, [Next]_vars PROVE LinesInv'
    OBVIOUS
  <1>1. ASSUME NEW m \in Messages, Send(m) PROVE LinesInv'
    BY <1>1, SendLines
  <1>2. ASSUME NEW m \in Messages, NEW n \in 0 .. Len(m), Die(m, n) PROVE LinesInv'
    BY <1>2, DieLines
  <1>3. ASSUME NEW n \in 1 .. BuffLen, Read(n) PROVE LinesInv'
    BY <1>3, OtherLines DEF Read
  <1>4. ASSUME NEW p \in 1 .. Len(buf), Handle(p) PROVE LinesInv'
    BY <1>4, HandleLines
  <1>5. CASE ReadNothing \/ ReadFails \/ Incomplete
    BY <1>5, OtherLines DEF ReadNothing, ReadFails, Incomplete, server
  <1>6. CASE UNCHANGED vars
    BY <1>6, OtherLines DEF vars
  <1>7. QED
    BY <1>1, <1>2, <1>3, <1>4, <1>5, <1>6 DEF Next, Client

-----------------------------------------------------------------------------
(* The invariant holds. *)

\* A client reads again, or gives up, only when it has looked at the whole of its buffer.
LEMMA ScanStep == LineInv /\ [Next]_vars => ScanInv'
  <1> SUFFICES ASSUME LineInv, [Next]_vars PROVE ScanInv'
    OBVIOUS
  <1> USE DEF ScanInv, NoLine
  <1>1. ASSUME NEW m \in Messages, Send(m) PROVE ScanInv'
    BY <1>1 DEF LineInv, Send, Put
  <1>2. ASSUME NEW m \in Messages, NEW n \in 0 .. Len(m), Die(m, n) PROVE ScanInv'
    BY <1>2 DEF LineInv, Die, Put
  <1>3. ASSUME NEW n \in 1 .. BuffLen, Read(n) PROVE ScanInv'
    BY <1>3 DEF Read
  <1>4. ASSUME NEW p \in 1 .. Len(buf), Handle(p) PROVE ScanInv'
    <2>1. CASE program = "client" /\ p < Len(buf)
      BY <1>4, <2>1 DEF Handle
    <2>2. CASE program = "client" /\ ~(p < Len(buf))
      <3>1. buf \in Seq(Alphabet) /\ p \in Nat /\ Len(buf) \in Nat /\ p = Len(buf)
        BY <2>2, BufferIs DEF LineInv, IInv, TypeOK
      <3>2. Len(SubSeq(buf, p + 1, Len(buf))) = Len(buf) - p
        BY <3>1, Cut
      <3>3. Len(buf') = 0
        BY <1>4, <3>1, <3>2 DEF Handle
      <3>4. pc' = "read"
        BY <1>4, <2>2 DEF Handle
      <3>5. QED
        BY <3>3, <3>4
    <2>3. CASE program # "client"
      BY <1>4, <2>3 DEF Handle
    <2>4. QED
      BY <2>1, <2>2, <2>3
  <1>5. CASE ReadNothing
    BY <1>5 DEF LineInv, ReadNothing
  <1>6. CASE ReadFails
    BY <1>6 DEF ReadFails
  <1>7. CASE Incomplete
    <2>1. Len(buf) \in Nat /\ BuffLen \in Nat /\ Len(buf) <= BuffLen
      BY BufferIs, NotifClientAssumption DEF LineInv, IInv, TypeOK
    <2>2. QED
      BY <1>7, <2>1 DEF Incomplete
  <1>8. CASE UNCHANGED vars
    BY <1>8 DEF LineInv, vars
  <1>9. QED
    BY <1>1, <1>2, <1>3, <1>4, <1>5, <1>6, <1>7, <1>8 DEF Next, Client

\* At first nothing was sent.
LEMMA InitLines == Init => LinesInv /\ ScanInv
  <1> SUFFICES ASSUME Init PROVE LinesInv /\ ScanInv
    OBVIOUS
  <1>1. /\ sent = <<>> /\ written = <<>> /\ consumed = <<>> /\ shown = <<>> /\ buf = <<>>
        /\ pc = "read" /\ Len(<<>>) = 0
    BY DEF Init
  <1>2. PICK ends \in [0 .. 0 -> 0 .. 0] : ends[0] = 0
    <2>1. [i \in 0 .. 0 |-> 0] \in [0 .. 0 -> 0 .. 0] /\ [i \in 0 .. 0 |-> 0][0] = 0
      OBVIOUS
    <2>2. QED
      BY <2>1
  <1>3. Frames(ends, sent, written)
    BY <1>1, <1>2 DEF Frames
  <1>4. CutOff(ends[Len(sent)])
    BY <1>1, <1>2 DEF CutOff
  <1>5. DoneWith(ends, 0)
    <2>1. SubSeq(sent, 1, 0) = <<>>
      BY <1>1
    <2>2. QED
      BY <1>1, <1>2, <2>1, NotifiedNone DEF DoneWith
  <1>6. ScanInv
    BY <1>1 DEF ScanInv, NoLine
  <1>7. QED
    BY <1>1, <1>2, <1>3, <1>4, <1>5, <1>6 DEF LinesInv

\* The bytes a client has done with are the lines of the first messages sent, and those are the
\* messages it has notified (notification-client.c:64-88, notification-stupide.c:24-40).
THEOREM LinesInvariance == Spec => []LineInv
  <1> DEFINE Lines == LinesInv /\ ScanInv
  <1>1. Init => Lines
    BY InitLines
  <1>2. IInv /\ Lines /\ [Next]_vars => Lines'
    BY LinesStep, ScanStep DEF LineInv
  <1>3. Spec => []IInv
    BY Invariant
  <1>4. IInv /\ Lines => LineInv
    BY DEF LineInv
  <1> HIDE DEF Lines
  <1>5. QED
    BY <1>1, <1>2, <1>3, <1>4, PTL DEF Spec

\* However the stream is cut, what is notified is what was sent, whole and in order.
THEOREM ShownWereSent == Spec => []ShownAreSent
  <1>1. LineInv => ShownAreSent
    BY DEF LineInv, LinesInv, DoneWith, ShownAreSent
  <1>2. QED
    BY <1>1, LinesInvariance, PTL

\* A client that gives up has in its buffer the beginning of a message that does not fit
\* (notification-client.c:55-60, notification-stupide.c:19-22).
THEOREM GivesUpOnLong == Spec => []FailsOnlyOnLong
  <1>1. ASSUME LineInv, pc = "failed"
        PROVE  \E m \in Messages : Len(m) >= BuffLen /\ buf = SubSeq(m, 1, BuffLen)
    <2>1. Len(buf) = BuffLen /\ NoLine /\ BuffLen \in Nat /\ BuffLen > 0
      BY <1>1, NotifClientAssumption DEF LineInv, ScanInv
    <2>2. \E m \in Messages : Len(buf) <= Len(m) /\ \A q \in 1 .. Len(buf) : buf[q] = m[q]
      BY <1>1, <2>1, BeginsMessage
    <2>3. PICK m \in Messages : Len(buf) <= Len(m) /\ \A q \in 1 .. Len(buf) : buf[q] = m[q]
      BY <2>2
    <2>4. PICK first : first = SubSeq(m, 1, BuffLen)
      OBVIOUS
    <2>5. m \in Seq(Bytes) /\ Len(m) \in Nat /\ buf \in Seq(Alphabet)
      BY <1>1, NotifClientAssumption DEF LineInv, IInv, TypeOK
    <2>6. /\ first \in Seq(Bytes) /\ Len(first) = BuffLen
          /\ \A q \in 1 .. BuffLen : first[q] = m[q]
      BY <2>1, <2>3, <2>4, <2>5
    <2>7. buf = first
      BY <2>1, <2>3, <2>5, <2>6, SeqEqual
    <2>8. QED
      BY <2>1, <2>3, <2>4, <2>7
  <1>2. LineInv => FailsOnlyOnLong
    BY <1>1 DEF FailsOnlyOnLong
  <1>3. QED
    BY <1>2, LinesInvariance, PTL

\* When notification-client waits for more or has seen the end of the stream, it has notified every
\* message but those whose lines end in the socket (report.md:205; notification-client.c:93-117).
THEOREM HoldsNoneBack == Spec => []NothingLeft
  <1>1. ASSUME LineInv, program = "client", pc \in {"read", "ended"}
        PROVE  \E n \in 0 .. Len(sent) : /\ shown = Notified(program, SubSeq(sent, 1, n))
                                         /\ Len(sent) - n = LinesOf(wire)
    <2>1. PICK ends \in [0 .. Len(sent) -> 0 .. Len(written)] :
            /\ Frames(ends, sent, written)
            /\ CutOff(ends[Len(sent)])
            /\ \E k \in 0 .. Len(sent) : DoneWith(ends, k)
      BY <1>1 DEF LineInv, LinesInv
    <2>2. PICK k \in 0 .. Len(sent) : DoneWith(ends, k)
      BY <2>1
    <2>3. NoLine
      BY <1>1 DEF LineInv, ScanInv
    <2>4. Len(sent) - k = LinesOf(wire)
      BY <1>1, <2>1, <2>2, <2>3, LinesLeft DEF LineInv
    <2>5. shown = Notified(program, SubSeq(sent, 1, k))
      BY <2>2 DEF DoneWith
    <2>6. QED
      BY <2>4, <2>5
  <1>2. LineInv => NothingLeft
    BY <1>1 DEF NothingLeft
  <1>3. QED
    BY <1>2, LinesInvariance, PTL

=============================================================================
