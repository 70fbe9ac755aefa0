---------------------------- MODULE Daziweb_proofs ----------------------------
(***************************************************************************)
(* Proofs about Daziweb, for any dazibao, any calls and any reads.         *)
(***************************************************************************)
EXTENDS Daziweb, Routing_proofs

ReqFields == {"method", "path", "len", "boundary", "body"}

StreamTypes ==
  /\ IsSeq(wire) /\ IsSeq(rest) /\ IsSeq(line)
  /\ place \in Places /\ cr \in BOOLEAN /\ gone \in BOOLEAN
  /\ split \in BOOLEAN /\ late \in BOOLEAN /\ shorts \in 0 .. MaxShort
  /\ DOMAIN req = ReqFields
  /\ status \in {0} \cup (Range(Status) \ {Status.OK})

StartOf(c) == <<"start", c.method, c.path>>

Starts(s) == s # <<>> => s[1] = StartOf(call)

\* The request that is understood has the method and the path of the call: as long as the first line
\* is read, what has come of it starts with them.
Understood ==
  /\ place = "first" =>
       /\ line = <<>> => ~cr
       /\ IF line # <<>> THEN Starts(line) ELSE IF rest # <<>> THEN Starts(rest) ELSE Starts(wire)
  /\ place \in {"headers", "body"} \/ (place = "parsed" /\ status = 0) =>
       req.method = call.method /\ req.path = call.path

StreamInv == StreamTypes /\ Understood

-----------------------------------------------------------------------------
(* The stream. *)

\* The start of a request is no CR, and says what is asked for.
LEMMA SymbolsDiffer ==
  ASSUME NEW c
  PROVE  /\ StartOf(c) # CR
         /\ StartOf(c)[1] = "start" /\ StartOf(c)[2] = c.method /\ StartOf(c)[3] = c.path
  <1>1. Len(StartOf(c)) = 3 /\ Len(CR) = 1
    BY TuplesAre DEF StartOf, CR
  <1>2. QED
    BY <1>1 DEF StartOf

\* What next_header makes of a buffer.
LEMMA ScanIs ==
  ASSUME IsSeq(line), cr \in BOOLEAN, NEW buff, IsSeq(buff), Len(buff) > 0, NEW s, s = Scan(buff)
  PROVE  /\ IsSeq(s.line) /\ IsSeq(s.rest)
         /\ s.ended \in {TRUE, FALSE} /\ s.cr \in {TRUE, FALSE}
         /\ line # <<>> => s.line # <<>> /\ s.line[1] = line[1]
         /\ line = <<>> /\ ~cr /\ buff[1] # CR => s.line # <<>> /\ s.line[1] = buff[1]
         /\ ~s.ended => s.rest = <<>>
  <1>1. PICK n \in Nat : n = Len(buff) /\ n > 0
    BY SeqIs
  <1>2. PICK text : text = IF cr THEN Append(line, CR) ELSE line
    OBVIOUS
  <1>3. IsSeq(text) /\ Len(text) \in Nat
    BY <1>2, AppendIs, SeqIs
  <1>4. line # <<>> => Len(text) > 0 /\ text[1] = line[1] /\ Len(line) > 0
    BY <1>2, AppendIs, SeqIs
  <1>5. line = <<>> /\ ~cr => text = <<>> /\ Len(text) = 0
    BY <1>2, EmptyIs
  <1>6. PICK crlfs : crlfs = Crlfs(buff)
    OBVIOUS
  <1>7. IsSeq(Front(buff)) /\ Len(Front(buff)) = n - 1 /\ \A i \in 1 .. n - 1 : Front(buff)[i] = buff[i]
    <2>1. /\ IsSeq(SubSeq(buff, 1, n - 1)) /\ Len(SubSeq(buff, 1, n - 1)) = n - 1
          /\ \A i \in 1 .. n - 1 : SubSeq(buff, 1, n - 1)[i] = buff[i]
      BY <1>1, PartIs
    <2>2. Front(buff) = SubSeq(buff, 1, n - 1)
      BY <1>1 DEF Front
    <2>3. QED
      BY <2>1, <2>2
  <1>8. /\ \A t : IsSeq(t) =>
             /\ IsSeq(text \o t)
             /\ line # <<>> => text \o t # <<>> /\ (text \o t)[1] = line[1]
             /\ line = <<>> /\ ~cr /\ Len(t) > 0 /\ t[1] = buff[1] =>
                  text \o t # <<>> /\ (text \o t)[1] = buff[1]
    <2> SUFFICES ASSUME NEW t, IsSeq(t)
                 PROVE  /\ IsSeq(text \o t)
                        /\ line # <<>> => text \o t # <<>> /\ (text \o t)[1] = line[1]
                        /\ line = <<>> /\ ~cr /\ Len(t) > 0 /\ t[1] = buff[1] =>
                             text \o t # <<>> /\ (text \o t)[1] = buff[1]
      OBVIOUS
    <2>1. /\ IsSeq(text \o t) /\ Len(text \o t) = Len(text) + Len(t)
          /\ \A i \in 1 .. Len(text) : (text \o t)[i] = text[i]
          /\ \A i \in 1 .. Len(t) : (text \o t)[Len(text) + i] = t[i]
      BY <1>3, ConcatIs
    <2>2. Len(t) \in Nat /\ Len(<<>>) = 0
      BY SeqIs, EmptyIs
    <2>3. QED
      BY <1>3, <1>4, <1>5, <2>1, <2>2
  <1>9. CASE cr /\ buff[1] = LF
    <2>1. s = [ended |-> TRUE, line |-> line, cr |-> FALSE, rest |-> Front(buff)]
      BY <1>9 DEF Scan
    <2>2. QED
      BY <1>7, <1>9, <2>1
  <1>10. CASE ~(cr /\ buff[1] = LF) /\ crlfs # {}
    <2>1. PICK m : m = Min(crlfs)
      OBVIOUS
    <2>2. crlfs \subseteq Nat /\ \A i \in crlfs : i \in 1 .. n - 1 /\ buff[i] = CR
      BY <1>1, <1>6 DEF Crlfs
    <2>3. m \in 1 .. n - 1 /\ buff[m] = CR
      BY <1>10, <2>1, <2>2, LeastNatural DEF Min
    <2>4. PICK t : t = SubSeq(buff, 1, m - 1)
      OBVIOUS
    <2>5. PICK u : u = SubSeq(buff, m + 2, Len(buff))
      OBVIOUS
    <2>6. s = [ended |-> TRUE, line |-> text \o t, cr |-> FALSE, rest |-> u]
      BY <1>2, <1>6, <1>10, <2>1, <2>4, <2>5 DEF Scan
    <2>7. IsSeq(t) /\ IsSeq(u) /\ (m > 1 => Len(t) > 0 /\ t[1] = buff[1])
      <3>1. m \in Int /\ m - 1 \in Int /\ m + 2 \in Int /\ n \in Int /\ m >= 1
        BY <1>1, <2>3
      <3>2. IsSeq(u)
        BY <1>1, <2>5, <3>1, PartIs
      <3>3. /\ IsSeq(t) /\ Len(t) = IF 1 <= m - 1 THEN m - 1 - 1 + 1 ELSE 0
            /\ \A i \in 1 .. m - 1 - 1 + 1 : t[i] = buff[1 + i - 1]
        BY <2>4, <3>1, PartIs
      <3>4. m > 1 => Len(t) > 0 /\ t[1] = buff[1]
        BY <3>1, <3>3
      <3>5. QED
        BY <3>2, <3>3, <3>4
    <2>8. s.line = text \o t /\ s.rest = u /\ s.ended = TRUE /\ s.cr = FALSE
      BY <2>6
    <2>9. buff[1] # CR => m > 1
      BY <2>3
    <2>10. QED
      BY <1>8, <2>7, <2>8, <2>9
  <1>11. CASE ~(cr /\ buff[1] = LF) /\ crlfs = {} /\ Last(buff) = CR
    <2>1. s = [ended |-> FALSE, line |-> text \o Front(buff), cr |-> TRUE, rest |-> <<>>]
      BY <1>2, <1>6, <1>11 DEF Scan
    <2>2. buff[n] = CR
      BY <1>1, <1>11 DEF Last
    <2>3. buff[1] # CR => Len(Front(buff)) > 0 /\ Front(buff)[1] = buff[1]
      BY <1>1, <1>7, <2>2
    <2>4. s.line = text \o Front(buff) /\ s.rest = <<>> /\ s.ended = FALSE /\ s.cr = TRUE
      BY <2>1
    <2>5. PICK t : t = Front(buff)
      OBVIOUS
    <2>6. s.line = text \o t /\ IsSeq(t) /\ (buff[1] # CR => Len(t) > 0 /\ t[1] = buff[1])
      BY <1>7, <2>3, <2>4, <2>5
    <2>7. QED
      BY <1>8, <2>4, <2>6, EmptyIs
  <1>12. CASE ~(cr /\ buff[1] = LF) /\ crlfs = {} /\ Last(buff) # CR
    <2>1. s = [ended |-> FALSE, line |-> text \o buff, cr |-> FALSE, rest |-> <<>>]
      BY <1>2, <1>6, <1>12 DEF Scan
    <2>2. s.line = text \o buff /\ s.rest = <<>> /\ s.ended = FALSE /\ s.cr = FALSE
      BY <2>1
    <2>3. QED
      BY <1>1, <1>8, <2>2, EmptyIs
  <1>13. QED
    BY <1>9, <1>10, <1>11, <1>12

\* What a request line and a header make of the request.
LEMMA FirstLineIs ==
  ASSUME StreamTypes, NEW l, FirstLine(l), l[1] = StartOf(call)
  PROVE  /\ place' \in {"headers", "parsed"} /\ DOMAIN req' = ReqFields
         /\ status' \in {0} \cup (Range(Status) \ {Status.OK})
         /\ req'.method = call.method /\ req'.path = call.path
  <1>1. l[1][1] = "start" /\ l[1][2] = call.method /\ l[1][3] = call.path
    BY SymbolsDiffer
  <1>2. /\ req' = [req EXCEPT !.method = l[1][2], !.path = l[1][3]]
        /\ IF l[1][2] \in Methods THEN place' = "headers" /\ UNCHANGED status
           ELSE Parsed(Status.NOTIMPL)
    BY <1>1 DEF FirstLine
  <1>3. DOMAIN req' = ReqFields /\ req'.method = call.method /\ req'.path = call.path
    BY <1>1, <1>2 DEF StreamTypes, ReqFields
  <1>4. place' \in {"headers", "parsed"} /\ status' \in {0} \cup (Range(Status) \ {Status.OK})
    BY <1>2, StatusIs DEF StreamTypes, Parsed
  <1>5. QED
    BY <1>3, <1>4

\* A header changes the length and the boundary only.
LEMMA HeaderLineIs ==
  ASSUME StreamTypes, NEW l, HeaderLine(l)
  PROVE  /\ place' = "headers" /\ DOMAIN req' = ReqFields
         /\ status' \in {0} \cup (Range(Status) \ {Status.OK})
         /\ req'.method = req.method /\ req'.path = req.path
  <1>1. req' = WithHeader(l) /\ place' = "headers" /\ status' = status
    BY DEF HeaderLine
  <1>2. \/ req' = req
        \/ \E n : req' = [req EXCEPT !.len = n]
        \/ \E b : req' = [req EXCEPT !.boundary = b]
    BY <1>1 DEF WithHeader
  <1>3. DOMAIN req' = ReqFields /\ req'.method = req.method /\ req'.path = req.path
    BY <1>2 DEF StreamTypes, ReqFields
  <1>4. QED
    BY <1>1, <1>3 DEF StreamTypes

\* The end of the headers leaves the method and the path alone.
LEMMA HeadersEndIs ==
  ASSUME StreamTypes, place = "headers", NEW body, HeadersEnd(body)
  PROVE  /\ place' \in {"body", "parsed"} /\ DOMAIN req' = ReqFields
         /\ status' \in {0} \cup (Range(Status) \ {Status.OK})
         /\ req'.method = req.method /\ req'.path = req.path
  <1>1. /\ req' = req \/ req' = [req EXCEPT !.body = body]
        /\ \/ place' = "body" /\ status' = status
           \/ place' = "parsed" /\ status' \in {0, Status.LENGTHREQD}
    BY DEF HeadersEnd, Parsed
  <1>2. DOMAIN req' = ReqFields /\ req'.method = req.method /\ req'.path = req.path
    BY <1>1 DEF StreamTypes, ReqFields
  <1>3. QED
    BY <1>1, <1>2, StatusIs DEF StreamTypes

\* One buffer.
LEMMA LineIs ==
  ASSUME StreamInv, place \in {"first", "headers"}, NEW buff, IsSeq(buff), Len(buff) > 0,
         place = "first" /\ line = <<>> => buff[1] = StartOf(call),
         Line(buff, Scan(buff))
  PROVE  /\ IsSeq(line') /\ IsSeq(rest') /\ place' \in {"first", "headers", "body", "parsed"}
         /\ cr' \in BOOLEAN /\ split' \in BOOLEAN /\ late' \in BOOLEAN
         /\ DOMAIN req' = ReqFields /\ status' \in {0} \cup (Range(Status) \ {Status.OK})
         /\ place' = "first" => line' # <<>> /\ line'[1] = StartOf(call)
         /\ place' \in {"headers", "body"} \/ (place' = "parsed" /\ status' = 0) =>
              req'.method = call.method /\ req'.path = call.path
  <1>1. PICK s : s = Scan(buff)
    OBVIOUS
  <1>2. /\ IsSeq(s.line) /\ IsSeq(s.rest)
        /\ s.ended \in {TRUE, FALSE} /\ s.cr \in {TRUE, FALSE}
        /\ line # <<>> => s.line # <<>> /\ s.line[1] = line[1]
        /\ line = <<>> /\ ~cr /\ buff[1] # CR => s.line # <<>> /\ s.line[1] = buff[1]
    BY <1>1, ScanIs DEF StreamInv, StreamTypes
  <1>3. place = "first" => s.line # <<>> /\ s.line[1] = StartOf(call)
    BY <1>2, SymbolsDiffer DEF StreamInv, Understood, Starts
  <1>4. /\ IF ~s.ended THEN UNCHANGED <<place, req, status>>
           ELSE IF s.line = <<>> THEN HeadersEnd(BlankLine(buff))
           ELSE FirstLine(s.line) \/ HeaderLine(s.line)
        /\ line' = IF s.ended THEN <<>> ELSE s.line
        /\ cr' = s.cr
        /\ rest' = IF place' = "parsed" THEN <<>> ELSE s.rest
        /\ split' = (split \/ (cr /\ s.ended /\ buff[1] = LF))
        /\ late' = (late \/ (s.ended /\ s.line = <<>> /\ Len(buff) = 2))
    BY <1>1 DEF Line
  <1>5. IsSeq(line') /\ IsSeq(rest') /\ cr' \in BOOLEAN /\ split' \in BOOLEAN /\ late' \in BOOLEAN
    BY <1>2, <1>4, EmptyIs
  <1>6. CASE ~s.ended
    <2>1. place' = place /\ req' = req /\ status' = status /\ line' = s.line
      BY <1>4, <1>6
    <2>2. QED
      BY <1>3, <1>5, <2>1 DEF StreamInv, StreamTypes, Understood
  <1>7. CASE s.ended /\ s.line = <<>>
    <2>1. place = "headers" /\ HeadersEnd(BlankLine(buff))
      BY <1>3, <1>4, <1>7
    <2>2. req.method = call.method /\ req.path = call.path
      BY <2>1 DEF StreamInv, Understood
    <2>3. QED
      BY <1>5, <2>1, <2>2, HeadersEndIs DEF StreamInv
  <1>8. CASE s.ended /\ s.line # <<>> /\ FirstLine(s.line)
    <2>1. s.line[1] = StartOf(call)
      BY <1>3, <1>8 DEF FirstLine
    <2>2. QED
      BY <1>5, <1>8, <2>1, FirstLineIs DEF StreamInv
  <1>9. CASE s.ended /\ s.line # <<>> /\ HeaderLine(s.line)
    <2>1. place = "headers"
      BY <1>9 DEF HeaderLine
    <2>2. req.method = call.method /\ req.path = call.path
      BY <2>1 DEF StreamInv, Understood
    <2>3. QED
      BY <1>5, <1>9, <2>2, HeaderLineIs DEF StreamInv
  <1>10. QED
    BY <1>2, <1>4, <1>6, <1>7, <1>8, <1>9

\* Flattening one sequence.
LEMMA FlatOne ==
  ASSUME NEW s, IsSeq(s), Len(s) = 1
  PROVE  FlattenSeq(s) = s[1]
  <1> DEFINE Flat(g) == g = [i \in 1 .. Len(s) |-> IF i = 1 THEN s[i] ELSE g[i - 1] \o s[i]]
  <1>1. FlattenSeq(s) = (CHOOSE g : Flat(g))[Len(s)]
    <2>1. Len(s) # 0
      OBVIOUS
    <2>2. QED
      BY <2>1, Zenon DEF FlattenSeq
  <1>2. Flat([i \in 1 .. 1 |-> s[1]])
    OBVIOUS
  <1>3. PICK g : g = (CHOOSE h : Flat(h)) /\ Flat(g)
    BY <1>2
  <1>4. g[1] = s[1]
    BY <1>3
  <1>5. QED
    BY <1>1, <1>3, <1>4

\* The body of a call is a sequence.
LEMMA BodyIs ==
  ASSUME NEW c, IsSeq(c.data)
  PROVE  IsSeq(BodySent(c))
  <1>1. IsSeq(CRLF) /\ IsSeq(<<Sep("b")>>) /\ IsSeq(<<DISPO>>) /\ IsSeq(<<Sep("b"), HYPHEN, HYPHEN>>)
    BY TuplesAre DEF CRLF
  <1>2. PICK part : part = <<Sep("b")>> \o CRLF \o <<DISPO>> \o CRLF \o CRLF \o c.data \o CRLF
    OBVIOUS
  <1>3. IsSeq(<<Sep("b")>> \o CRLF \o <<DISPO>> \o CRLF)
    BY <1>1, ConcatIs
  <1>4. IsSeq(part)
    BY <1>1, <1>2, <1>3, ConcatIs
  <1>5. PICK values : values = <<c.data>>
    OBVIOUS
  <1>6. IsSeq(values) /\ Len(values) = 1 /\ DOMAIN values = 1 .. 1 /\ values[1] = c.data
    <2>1. IsSeq(values) /\ Len(values) = 1
      BY <1>5, TuplesAre
    <2>2. DOMAIN values = 1 .. 1
      BY <2>1, SeqIs
    <2>3. values[1] = c.data
      BY <1>5
    <2>4. QED
      BY <2>1, <2>2, <2>3
  <1>7. PICK parts : parts = [i \in 1 .. 1 |->
                                <<Sep("b")>> \o CRLF \o <<DISPO>> \o CRLF \o CRLF \o values[i] \o CRLF]
    OBVIOUS
  <1>8. IsSeq(parts) /\ Len(parts) = 1 /\ parts[1] = part
    <2>1. parts = [i \in 1 .. 1 |-> parts[i]]
      BY <1>7
    <2>2. 1 \in 1 .. 1
      OBVIOUS
    <2>3. parts[1] = <<Sep("b")>> \o CRLF \o <<DISPO>> \o CRLF \o CRLF \o values[1] \o CRLF
      BY <1>7, <2>2, Zenon
    <2>4. parts[1] = part
      BY <1>2, <1>6, <2>3, Zenon
    <2>5. QED
      BY <2>1, <2>4, FcnIs
  <1>9. FlattenSeq(parts) = part
    BY <1>8, FlatOne
  <1>10. Form("b", values) = part \o <<Sep("b"), HYPHEN, HYPHEN>> \o CRLF
    BY <1>6, <1>7, <1>9, Zenon DEF Form
  <1>11. IsSeq(Form("b", values))
    <2>1. PICK last : last = <<Sep("b"), HYPHEN, HYPHEN>>
      OBVIOUS
    <2>2. IsSeq(last)
      BY <1>1, <2>1
    <2>3. IsSeq(part \o last)
      BY <1>4, <2>2, ConcatIs
    <2>4. IsSeq(part \o last \o CRLF)
      BY <1>1, <2>3, ConcatIs
    <2>5. QED
      BY <1>10, <2>1, <2>4
  <1>12. QED
    BY <1>5, <1>11 DEF BodySent

\* What a call says starts with its request line.
LEMMA WireIs ==
  ASSUME NEW c, IsSeq(c.data)
  PROVE  IsSeq(Wire(c)) /\ Wire(c) # <<>> /\ Wire(c)[1] = StartOf(c)
  <1>1. IsSeq(CRLF) /\ IsSeq(<<StartOf(c)>>) /\ Len(<<StartOf(c)>>) = 1 /\ Len(CRLF) = 2
    BY TuplesAre DEF CRLF
  <1>2. IsSeq(RequestLine(c)) /\ Len(RequestLine(c)) = 3 /\ RequestLine(c)[1] = StartOf(c)
    <2>1. PICK one : one = <<StartOf(c)>>
      OBVIOUS
    <2>2. IsSeq(one) /\ Len(one) = 1 /\ one[1] = StartOf(c)
      BY <1>1, <2>1
    <2>3. RequestLine(c) = one \o CRLF
      BY <2>1 DEF RequestLine, StartOf
    <2>4. /\ IsSeq(one \o CRLF) /\ Len(one \o CRLF) = Len(one) + Len(CRLF)
          /\ \A i \in 1 .. Len(one) : (one \o CRLF)[i] = one[i]
      BY <1>1, <2>2, ConcatIs
    <2>5. QED
      BY <1>1, <2>2, <2>3, <2>4
  <1>3. ASSUME NEW t, IsSeq(t), t # <<>>, t[1] = StartOf(c), NEW u, IsSeq(u)
        PROVE  IsSeq(t \o u) /\ t \o u # <<>> /\ (t \o u)[1] = StartOf(c)
    <2>1. Len(t) \in Nat /\ Len(u) \in Nat /\ Len(t) # 0
      BY <1>3, SeqIs
    <2>2. /\ IsSeq(t \o u) /\ Len(t \o u) = Len(t) + Len(u)
          /\ \A i \in 1 .. Len(t) : (t \o u)[i] = t[i]
      BY <1>3, ConcatIs
    <2>3. QED
      BY <1>3, <2>1, <2>2, EmptyIs
  <1>4. RequestLine(c) # <<>>
    BY <1>2, EmptyIs
  <1>5. CASE c.method # "POST"
    <2>1. Wire(c) = RequestLine(c) \o CRLF
      BY <1>5 DEF Wire
    <2>2. QED
      BY <1>1, <1>2, <1>3, <1>4, <2>1
  <1>6. CASE c.method = "POST"
    <2>1. PICK b : b = BodySent(c) /\ IsSeq(b)
      BY BodyIs
    <2>2. PICK h : h = IF Is(c, AddTLV(<<>>)) THEN <<<<"type", "b">>>> \o CRLF ELSE <<>>
      OBVIOUS
    <2>3. PICK n : n = <<<<"length", Len(b)>>>>
      OBVIOUS
    <2>4. IsSeq(n) /\ IsSeq(<<<<"type", "b">>>>)
      BY <2>3, TuplesAre
    <2>5. IsSeq(<<<<"type", "b">>>> \o CRLF)
      BY <1>1, <2>4, ConcatIs
    <2>6. IsSeq(h)
      BY <2>2, <2>5, EmptyIs
    <2>7. Wire(c) = RequestLine(c) \o h \o n \o CRLF \o CRLF \o b
      BY <1>6, <2>1, <2>2, <2>3 DEF Wire, Posted
    <2>8. PICK t : t = RequestLine(c) \o h
      OBVIOUS
    <2>9. IsSeq(t) /\ t # <<>> /\ t[1] = StartOf(c)
      BY <1>2, <1>3, <1>4, <2>6, <2>8
    <2>10. PICK u : u = t \o n \o CRLF
      OBVIOUS
    <2>11. IsSeq(u) /\ u # <<>> /\ u[1] = StartOf(c)
      BY <1>1, <1>3, <2>4, <2>9, <2>10
    <2>12. PICK w : w = u \o CRLF
      OBVIOUS
    <2>13. IsSeq(w) /\ w # <<>> /\ w[1] = StartOf(c)
      BY <1>1, <1>3, <2>11, <2>12
    <2>14. Wire(c) = w \o b
      BY <2>7, <2>8, <2>10, <2>12
    <2>15. QED
      BY <1>3, <2>1, <2>13, <2>14
  <1>7. QED
    BY <1>5, <1>6

\* From the parts of StreamInv, as LineIs gives them.
LEMMA LineKeeps ==
  ASSUME IsSeq(line'), IsSeq(rest'), place' \in {"first", "headers", "body", "parsed"},
         cr' \in BOOLEAN, split' \in BOOLEAN, late' \in BOOLEAN,
         DOMAIN req' = ReqFields, status' \in {0} \cup (Range(Status) \ {Status.OK}),
         place' = "first" => line' # <<>> /\ line'[1] = StartOf(call),
         place' \in {"headers", "body"} \/ (place' = "parsed" /\ status' = 0) =>
              req'.method = call.method /\ req'.path = call.path,
         call' = call, IsSeq(wire'), gone' \in BOOLEAN, shorts' \in 0 .. MaxShort
  PROVE  StreamInv'
  <1>1. StreamTypes'
    BY DEF StreamTypes, Places
  <1>2. Understood'
    BY DEF Understood, Starts, StartOf
  <1>3. QED
    BY <1>1, <1>2 DEF StreamInv

\* A read takes something of what is there.
LEMMA ReadsSome ==
  ASSUME IsSeq(wire), shorts \in 0 .. MaxShort, NEW n \in Nat, NEW most, Reads(n, most)
  PROVE  /\ most \in Int => n \in 1 .. Len(wire)
         /\ IsSeq(wire') /\ shorts' \in 0 .. MaxShort /\ gone' = gone
  <1>1. PICK all : all = Min({most, Len(wire)})
    OBVIOUS
  <1>2. Len(wire) \in Nat /\ MaxShort \in Nat
    BY SeqIs, HttpStreamAssumption
  <1>3. most \in Int => all \in Int /\ all <= Len(wire)
    BY <1>1, <1>2 DEF Min
  <1>4. /\ n \in 1 .. all /\ (n < all => shorts < MaxShort)
        /\ shorts' = IF n < all THEN shorts + 1 ELSE shorts
        /\ wire' = SubSeq(wire, n + 1, Len(wire)) /\ gone' = gone
    BY <1>1 DEF Reads
  <1>5. most \in Int => n \in 1 .. Len(wire)
    BY <1>2, <1>3, <1>4
  <1>6. shorts' \in 0 .. MaxShort
    BY <1>2, <1>4
  <1>7. IsSeq(wire')
    BY <1>2, <1>4, PartIs
  <1>8. QED
    BY <1>4, <1>5, <1>6, <1>7

\* What next_header has left over is taken before anything is read.
LEMMA TakeRestKeeps ==
  ASSUME StreamInv, TakeRest, call' = call
  PROVE  StreamInv' /\ place' # "idle" /\ gone' = gone
  <1>1. /\ place \in {"first", "headers"} /\ rest # <<>> /\ Line(rest, Scan(rest))
        /\ wire' = wire /\ gone' = gone /\ shorts' = shorts
    BY DEF TakeRest
  <1>2. IsSeq(rest) /\ Len(rest) > 0
    <2>1. IsSeq(rest)
      BY DEF StreamInv, StreamTypes
    <2>2. QED
      BY <1>1, <2>1, SeqIs
  <1>3. place = "first" /\ line = <<>> => rest[1] = StartOf(call)
    BY <1>1 DEF StreamInv, Understood, Starts
  <1>4. IsSeq(wire') /\ gone' \in BOOLEAN /\ shorts' \in 0 .. MaxShort
    BY <1>1 DEF StreamInv, StreamTypes
  <1>5. /\ IsSeq(line') /\ IsSeq(rest') /\ place' \in {"first", "headers", "body", "parsed"}
        /\ cr' \in BOOLEAN /\ split' \in BOOLEAN /\ late' \in BOOLEAN
        /\ DOMAIN req' = ReqFields /\ status' \in {0} \cup (Range(Status) \ {Status.OK})
        /\ place' = "first" => line' # <<>> /\ line'[1] = StartOf(call)
        /\ place' \in {"headers", "body"} \/ (place' = "parsed" /\ status' = 0) =>
             req'.method = call.method /\ req'.path = call.path
    BY <1>1, <1>2, <1>3, LineIs
  <1>6. StreamInv'
    BY <1>4, <1>5, LineKeeps
  <1>7. QED
    BY <1>1, <1>5, <1>6

\* A read of the first line or of the headers.
LEMMA ReadHeaderKeeps ==
  ASSUME StreamInv, NEW n \in 1 .. Buff, ReadHeader(n), call' = call
  PROVE  StreamInv' /\ place' # "idle" /\ gone' = gone
  <1>1. PICK buff : buff = SubSeq(wire, 1, n)
    OBVIOUS
  <1>2. place \in {"first", "headers"} /\ rest = <<>> /\ Reads(n, Buff) /\ Line(buff, Scan(buff))
    BY <1>1 DEF ReadHeader
  <1>3. IsSeq(wire) /\ shorts \in 0 .. MaxShort /\ gone \in BOOLEAN /\ Buff \in Int /\ n \in Nat
    BY HttpStreamAssumption DEF StreamInv, StreamTypes
  <1>4. n \in 1 .. Len(wire) /\ IsSeq(wire') /\ shorts' \in 0 .. MaxShort /\ gone' = gone
    BY <1>2, <1>3, ReadsSome
  <1>5. IsSeq(buff) /\ Len(buff) > 0 /\ buff[1] = wire[1]
    <2>1. n \in Int /\ n >= 1
      BY <1>3
    <2>2. /\ IsSeq(buff) /\ Len(buff) = IF 1 <= n THEN n - 1 + 1 ELSE 0
          /\ \A i \in 1 .. n - 1 + 1 : buff[i] = wire[1 + i - 1]
      BY <1>1, <2>1, PartIs
    <2>3. QED
      BY <2>1, <2>2
  <1>6. wire # <<>>
    BY <1>3, <1>4, SeqIs
  <1>7. place = "first" /\ line = <<>> => buff[1] = StartOf(call)
    BY <1>2, <1>5, <1>6 DEF StreamInv, Understood, Starts
  <1>8. /\ IsSeq(line') /\ IsSeq(rest') /\ place' \in {"first", "headers", "body", "parsed"}
        /\ cr' \in BOOLEAN /\ split' \in BOOLEAN /\ late' \in BOOLEAN
        /\ DOMAIN req' = ReqFields /\ status' \in {0} \cup (Range(Status) \ {Status.OK})
        /\ place' = "first" => line' # <<>> /\ line'[1] = StartOf(call)
        /\ place' \in {"headers", "body"} \/ (place' = "parsed" /\ status' = 0) =>
             req'.method = call.method /\ req'.path = call.path
    BY <1>2, <1>5, <1>7, LineIs
  <1>9. gone' \in BOOLEAN
    BY <1>3, <1>4
  <1>10. StreamInv'
    BY <1>4, <1>8, <1>9, LineKeeps
  <1>11. QED
    BY <1>4, <1>8, <1>10

\* A read of the body.
LEMMA ReadBodyKeeps ==
  ASSUME StreamInv, NEW n \in Nat, ReadBody(n), call' = call
  PROVE  StreamInv' /\ place' # "idle" /\ gone' = gone
  <1>1. /\ place = "body" /\ Reads(n, req.len - Len(req.body))
        /\ req' = [req EXCEPT !.body = @ \o SubSeq(wire, 1, n)]
        /\ IF Len(req'.body) = req.len THEN Parsed(0) ELSE UNCHANGED <<place, status>>
        /\ UNCHANGED <<rest, line, cr, split, late>>
    BY DEF ReadBody
  <1>2. IsSeq(wire) /\ shorts \in 0 .. MaxShort /\ gone \in BOOLEAN
    BY DEF StreamInv, StreamTypes
  <1>3. IsSeq(wire') /\ shorts' \in 0 .. MaxShort /\ gone' = gone
    BY <1>1, <1>2, ReadsSome
  <1>4. place' \in {"body", "parsed"} /\ status' \in {0} \cup (Range(Status) \ {Status.OK})
    BY <1>1 DEF Parsed, StreamInv, StreamTypes
  <1>5. DOMAIN req' = ReqFields /\ req'.method = call.method /\ req'.path = call.path
    BY <1>1 DEF StreamInv, StreamTypes, Understood, ReqFields
  <1>6. StreamInv'
    BY <1>1, <1>2, <1>3, <1>4, <1>5, LineKeeps DEF StreamInv, StreamTypes
  <1>7. QED
    BY <1>3, <1>4, <1>6

\* A read that finds the client gone.
LEMMA ReadEndKeeps ==
  ASSUME StreamInv, ReadEnd, call' = call
  PROVE  StreamInv' /\ place' # "idle" /\ gone' = gone
  <1>1. /\ place \in {"first", "headers", "body"}
        /\ wire' = wire /\ gone' = gone /\ rest' = rest /\ shorts' = shorts
        /\ split' = split /\ late' = late /\ line' = <<>> /\ cr' = FALSE
        /\ IF line # <<>> THEN FirstLine(line) \/ HeaderLine(line)
           ELSE /\ Parsed(IF place = "headers" /\ req.method # "POST" THEN 0 ELSE Status.BADREQ)
                /\ UNCHANGED req
    BY DEF ReadEnd
  <1>2. /\ IsSeq(line') /\ IsSeq(rest') /\ cr' \in BOOLEAN /\ split' \in BOOLEAN /\ late' \in BOOLEAN
        /\ IsSeq(wire') /\ gone' \in BOOLEAN /\ shorts' \in 0 .. MaxShort
    BY <1>1, EmptyIs DEF StreamInv, StreamTypes
  <1>3. CASE line # <<>> /\ FirstLine(line)
    <2>1. line[1] = StartOf(call)
      BY <1>3 DEF FirstLine, StreamInv, Understood, Starts
    <2>2. /\ place' \in {"headers", "parsed"} /\ DOMAIN req' = ReqFields
          /\ status' \in {0} \cup (Range(Status) \ {Status.OK})
          /\ req'.method = call.method /\ req'.path = call.path
      BY <1>3, <2>1, FirstLineIs DEF StreamInv
    <2>3. StreamInv'
      BY <1>2, <2>2, LineKeeps
    <2>4. QED
      BY <1>1, <2>2, <2>3
  <1>4. CASE line # <<>> /\ HeaderLine(line)
    <2>1. req.method = call.method /\ req.path = call.path
      BY <1>4 DEF HeaderLine, StreamInv, Understood
    <2>2. /\ place' = "headers" /\ DOMAIN req' = ReqFields
          /\ status' \in {0} \cup (Range(Status) \ {Status.OK})
          /\ req'.method = call.method /\ req'.path = call.path
      BY <1>4, <2>1, HeaderLineIs DEF StreamInv
    <2>3. StreamInv'
      BY <1>2, <2>2, LineKeeps
    <2>4. QED
      BY <1>1, <2>2, <2>3
  <1>5. CASE line = <<>>
    <2>1. /\ place' = "parsed" /\ req' = req
          /\ \/ status' = Status.BADREQ
             \/ status' = 0 /\ place = "headers"
      BY <1>1, <1>5 DEF Parsed
    <2>2. DOMAIN req' = ReqFields
      BY <2>1 DEF StreamInv, StreamTypes
    <2>3. status' \in {0} \cup (Range(Status) \ {Status.OK}) /\ Status.BADREQ # 0
      BY <2>1, StatusIs
    <2>4. status' = 0 => req'.method = call.method /\ req'.path = call.path
      BY <2>1, <2>3 DEF StreamInv, Understood
    <2>5. StreamInv'
      BY <1>2, <2>1, <2>2, <2>3, <2>4, LineKeeps
    <2>6. QED
      BY <1>1, <2>1, <2>5
  <1>6. QED
    BY <1>1, <1>3, <1>4, <1>5

\* The stream, whatever happens on it.
LEMMA StreamStepKeeps ==
  ASSUME StreamInv, StreamStep, call' = call
  PROVE  StreamInv' /\ place' # "idle" /\ gone' = gone
  <1>1. CASE TakeRest
    BY <1>1, TakeRestKeeps
  <1>2. ASSUME NEW n \in 1 .. Buff, ReadHeader(n)
        PROVE  StreamInv' /\ place' # "idle" /\ gone' = gone
    BY <1>2, ReadHeaderKeeps
  <1>3. ASSUME NEW n \in 1 .. Len(wire), ReadBody(n)
        PROVE  StreamInv' /\ place' # "idle" /\ gone' = gone
    <2>1. n \in Nat
      BY SeqIs DEF StreamInv, StreamTypes
    <2>2. QED
      BY <1>3, <2>1, ReadBodyKeeps
  <1>4. CASE ReadEnd
    BY <1>4, ReadEndKeeps
  <1>5. QED
    BY <1>1, <1>2, <1>3, <1>4 DEF StreamStep, ReadSome

\* A connection brings what its call says on the wire.
LEMMA ConnectKeeps ==
  ASSUME StreamInv, NEW c, IsSeq(c.data), call' = c, Connect(Wire(c))
  PROVE  StreamInv' /\ place' = "first" /\ status' = 0 /\ gone' = FALSE
  <1>1. /\ place' = "first" /\ wire' = Wire(c) /\ req' = NoRequest /\ status' = 0 /\ shorts' = shorts
        /\ rest' = <<>> /\ line' = <<>>
        /\ gone' = FALSE /\ cr' = FALSE /\ split' = FALSE /\ late' = FALSE
    BY DEF Connect
  <1>2. IsSeq(wire') /\ wire' # <<>> /\ wire'[1] = StartOf(c)
    BY <1>1, WireIs
  <1>3. StreamTypes'
    BY <1>1, <1>2, EmptyIs DEF StreamInv, StreamTypes, Places, NoRequest, ReqFields
  <1>4. Understood'
    BY <1>1, <1>2 DEF Understood, Starts, StartOf
  <1>5. QED
    BY <1>1, <1>3, <1>4 DEF StreamInv

\* A client that leaves.
LEMMA LeaveKeeps ==
  ASSUME StreamInv, Leave, call' = call
  PROVE  StreamInv' /\ place # "idle" /\ place' = place /\ status' = status /\ gone' = TRUE
  <1>1. /\ place # "idle" /\ gone' = TRUE /\ wire' \in {wire, <<>>}
        /\ rest' = rest /\ line' = line /\ cr' = cr /\ place' = place /\ req' = req
        /\ status' = status /\ split' = split /\ late' = late /\ shorts' = shorts
    BY DEF Leave
  <1>2. StreamTypes'
    BY <1>1, EmptyIs DEF StreamInv, StreamTypes
  <1>3. Understood'
    BY <1>1 DEF StreamInv, Understood, Starts, StartOf
  <1>4. QED
    BY <1>1, <1>2, <1>3 DEF StreamInv

\* The end of a connection.
LEMMA HangupKeeps ==
  ASSUME StreamInv, Hangup
  PROVE  StreamInv' /\ place' = "idle" /\ status' = 0 /\ gone' = FALSE
  <1>1. /\ place' = "idle" /\ wire' = <<>> /\ req' = NoRequest /\ status' = 0 /\ shorts' = shorts
        /\ rest' = <<>> /\ line' = <<>>
        /\ gone' = FALSE /\ cr' = FALSE /\ split' = FALSE /\ late' = FALSE
    BY DEF Hangup
  <1>2. StreamTypes'
    BY <1>1, EmptyIs DEF StreamInv, StreamTypes, Places, NoRequest, ReqFields
  <1>3. Understood'
    BY <1>1 DEF Understood
  <1>4. QED
    BY <1>1, <1>2, <1>3 DEF StreamInv

\* A step that leaves the stream alone.
LEMMA StreamStays ==
  ASSUME StreamInv, UNCHANGED streamVars, call' = call
  PROVE  StreamInv' /\ place' = place /\ status' = status /\ gone' = gone /\ req' = req
  <1>1. /\ wire' = wire /\ gone' = gone /\ rest' = rest /\ line' = line /\ cr' = cr /\ place' = place
        /\ req' = req /\ status' = status /\ split' = split /\ late' = late /\ shorts' = shorts
    BY DEF streamVars
  <1>2. StreamTypes'
    BY <1>1 DEF StreamInv, StreamTypes
  <1>3. Understood'
    BY <1>1 DEF StreamInv, Understood, Starts, StartOf
  <1>4. QED
    BY <1>1, <1>2, <1>3 DEF StreamInv

-----------------------------------------------------------------------------
(* The dazibao as it is mapped. *)

\* ftruncate, element by element.
LEMMA ResizedIs ==
  ASSUME NEW f, NEW n \in Nat
  PROVE  /\ IsSeq(Resized(f, n)) /\ Len(Resized(f, n)) = n
         /\ \A i \in 1 .. n : Resized(f, n)[i] = IF i <= Len(f) THEN f[i] ELSE PAD
  <1>1. PICK g : g = Resized(f, n)
    OBVIOUS
  <1>2. g = [i \in 1 .. n |-> IF i <= Len(f) THEN f[i] ELSE PAD]
    BY <1>1 DEF Resized
  <1>3. g = [i \in 1 .. n |-> g[i]] /\ \A i \in 1 .. n : g[i] = IF i <= Len(f) THEN f[i] ELSE PAD
    BY <1>2
  <1>4. QED
    BY <1>1, <1>3, FcnIs

\* A file is stretched, never cut.
LEMMA StretchedIs ==
  ASSUME NEW f, IsSeq(f)
  PROVE  \E n \in Nat : Stretched(f) = Resized(f, n) /\ n >= Len(f)
  <1>1. PICK m \in Nat : m = Len(f)
    BY SeqIs
  <1>2. PICK p \in Nat : p = PageSlots /\ p > 0
    BY DaziwebAssumption
  <1>3. PICK k : k = (m + p - 1) \div p
    OBVIOUS
  <1>4. k \in Nat /\ p * k >= m /\ p * k \in Nat
    BY <1>2, <1>3
  <1>5. QED
    BY <1>1, <1>2, <1>3, <1>4 DEF Stretched

\* A dazibao half compacted is a sequence still.
LEMMA HalfIs ==
  ASSUME NEW f, IsSeq(f), NEW g \in HalfCompacted(f)
  PROVE  IsSeq(g)
  <1>1. PICK k \in 0 .. Len(Compacted(f)) :
          g = SubSeq(Compacted(f), 1, k) \o SubSeq(f, k + 1, Len(f))
    BY DEF HalfCompacted
  <1>2. Len(f) \in Nat /\ Len(Compacted(f)) \in Nat
    BY SeqIs, CompactedSeq
  <1>3. IsSeq(SubSeq(Compacted(f), 1, k)) /\ IsSeq(SubSeq(f, k + 1, Len(f)))
    BY <1>2, PartIs
  <1>4. QED
    BY <1>1, <1>3, ConcatIs

-----------------------------------------------------------------------------
(* The server, its lock, and the types of what it keeps. *)

StateTypes ==
  /\ lock \in {"none", "server", "other", "changed"} /\ there \in BOOLEAN /\ olen \in Nat
  /\ traced \in BOOLEAN /\ at \in Ats /\ fd \in BOOLEAN /\ len \in Nat
  /\ answer \in {0} \cup Range(Status) /\ direct \in BOOLEAN
  /\ poll \in {NONE, ASKED, TAKEN} \cup (Nat \cup {-1}) /\ prev \in Nat \cup {-1} /\ alarms \in Nat
  /\ calls \in 0 .. MaxCalls /\ changes \in 0 .. MaxChanges
  /\ ends \in 0 .. MaxEnds /\ leaves \in 0 .. MaxLeaves
  /\ IsSeq(file)
  /\ asked \in Calls \cup {NoCall}

\* A call is served from its being accepted to its answer, and the handlers see what was understood.
ServerInv ==
  /\ at \in {"accept", "exited"} =>
       place = "idle" /\ call = NoCall /\ answer = 0 /\ direct = FALSE /\ gone = FALSE
  /\ at \notin {"accept", "exited"} => call \in Calls \cup {HashCall} /\ place # "idle"
  /\ at \in {"open", "flock", "route"} => place = "parsed" /\ status = 0
  /\ at \in {"parse", "open", "flock", "route"} => direct = FALSE /\ answer = 0
  /\ at = "tell" => direct = FALSE
  /\ direct = FALSE => answer # Status.OK

\* A dazibao that is open is there and, behind flock, locked, with its length known.
LockInv ==
  /\ at \in {"flock", "route"} => fd
  /\ fd => at \in {"flock", "route", "close"} /\ there
  /\ fd /\ at # "flock" => lock = "server" /\ len = Len(file)
  /\ ~there => lock = "none"

StateInv == StreamInv /\ StateTypes /\ ServerInv /\ LockInv

\* Callback by cases.
LEMMA CallbackIs ==
  ASSUME NEW c, NEW st, NEW says, Callback(c, st, says)
  PROVE  \/ /\ Is(c, Load) /\ shown' = (IF st = Status.OK THEN says ELSE <<>>)
            /\ prev' = 0 /\ poll' = NONE /\ alarms' = alarms
         \/ /\ Is(c, HashCall) /\ poll' = (IF st = Status.OK THEN says[1] ELSE -1)
            /\ shown' = shown /\ prev' = prev /\ alarms' = alarms
         \/ /\ Is(c, Del(0)) /\ st = Status.NO_CT /\ c.path.off \in DOMAIN shown
            /\ shown' = [shown EXCEPT ![c.path.off] = PAD]
            /\ prev' = prev /\ poll' = poll /\ alarms' = alarms
         \/ /\ Is(c, AddTLV(<<>>)) /\ prev' = 0
            /\ shown' = shown /\ poll' = poll /\ alarms' = alarms
         \/ /\ ~Is(c, Load) /\ ~Is(c, HashCall) /\ ~Is(c, AddTLV(<<>>))
            /\ ~(Is(c, Del(0)) /\ st = Status.NO_CT /\ c.path.off \in DOMAIN shown)
            /\ shown' = shown /\ prev' = prev /\ poll' = poll /\ alarms' = alarms
  BY Zenon DEF Callback, Loaded

\* A callback leaves the page a poll and a hash.
LEMMA CallbackTypes ==
  ASSUME StateTypes, NEW c, NEW st, NEW says, Callback(c, st, says),
         Is(c, HashCall) /\ st = Status.OK => says[1] \in Nat
  PROVE  /\ poll' \in {NONE, ASKED, TAKEN} \cup (Nat \cup {-1})
         /\ prev' \in Nat \cup {-1} /\ alarms' \in Nat
  BY CallbackIs DEF StateTypes

\* The hash is asked for only by check_hash.
LEMMA HashAsked ==
  ASSUME NEW c \in Calls \cup {HashCall, NoCall}, Is(c, HashCall)
  PROVE  c = HashCall
  BY CallsAssumption DEF Is, NoCall, HashCall, Call

\* What a request that is served makes of the dazibao.
LEMMA OutcomeIs ==
  ASSUME StateInv, Serving, NEW res \in Outcomes
  PROVE  /\ IsSeq(res.kept) /\ res.status \in Range(Status)
         /\ res.direct = TRUE \/ (res.direct = FALSE /\ res.status # Status.OK)
  <1>1. IsSeq(Mapping)
    BY ResizedIs DEF Mapping, StateInv, StateTypes
  <1>2. res \in Routed(Registered, req, Mapping, fd) /\ fd \in BOOLEAN
    BY DEF Outcomes, StateInv, StateTypes
  <1>3. QED
    BY <1>1, <1>2, RoutedIs

\* A hash that is answered is that of the dazibao.
LEMMA HashOutcome ==
  ASSUME StateInv, Serving, NEW res \in Outcomes, Is(call, HashCall)
  PROVE  /\ res.kept = Mapping /\ res.direct = TRUE
         /\ res.status = Status.OK => res.says[1] = Hash(Mapping)
  <1>1. call = HashCall
    BY HashAsked DEF StateInv, ServerInv, Serving
  <1>2. req.method = call.method /\ req.path = call.path
    BY DEF StateInv, StreamInv, Understood, ServerInv, Serving
  <1>3. req.method = "GET" /\ req.path = Path(<<"hash">>, -1)
    BY <1>1, <1>2 DEF HashCall, Call
  <1>4. /\ res \in Routed(Registered, req, Mapping, fd) /\ Registered \in {Routes, <<>>}
    BY DEF Outcomes, Registered
  <1>5. res.kept = Mapping /\ res.direct /\ (res.status = Status.OK => res.says = <<Hash(Mapping)>>)
    BY <1>3, <1>4, StatusIs, HashRouted
  <1>6. res.direct = TRUE
    BY <1>5, OutcomeIs
  <1>7. res.status = Status.OK => res.says[1] = Hash(Mapping)
    BY <1>5
  <1>8. QED
    BY <1>5, <1>6, <1>7

\* StateInv, action by action.
LEMMA AskKeeps ==
  ASSUME StateInv, NEW c \in Calls, Ask(c)
  PROVE  StateInv'
  <1>1. StreamInv' /\ place' = place /\ status' = status /\ gone' = gone
    BY StreamStays DEF Ask, StateInv, serverVars
  <1>2. StateTypes'
    BY DaziwebAssumption DEF Ask, StateInv, StateTypes, fileVars, serverVars
  <1>3. ServerInv' /\ LockInv'
    BY <1>1 DEF Ask, StateInv, ServerInv, LockInv, fileVars, serverVars
  <1>4. QED
    BY <1>1, <1>2, <1>3 DEF StateInv

LEMMA CheckHashKeeps ==
  ASSUME StateInv, CheckHash
  PROVE  StateInv'
  <1>1. StreamInv' /\ place' = place /\ status' = status /\ gone' = gone
    BY StreamStays DEF CheckHash, StateInv, serverVars
  <1>2. StateTypes'
    BY DaziwebAssumption DEF CheckHash, StateInv, StateTypes, fileVars, serverVars
  <1>3. ServerInv' /\ LockInv'
    BY <1>1 DEF CheckHash, StateInv, ServerInv, LockInv, fileVars, serverVars
  <1>4. QED
    BY <1>1, <1>2, <1>3 DEF StateInv

LEMMA HashCallbackKeeps ==
  ASSUME StateInv, HashCallback
  PROVE  StateInv'
  <1>1. StreamInv' /\ place' = place /\ status' = status /\ gone' = gone
    BY StreamStays DEF HashCallback, StateInv, serverVars
  <1>2. StateTypes'
    <2>1. prev' \in Nat \cup {-1} /\ poll' = NONE /\ alarms' \in Nat
      BY DEF HashCallback, StateInv, StateTypes, NONE, ASKED, TAKEN
    <2>2. QED
      BY <2>1 DEF HashCallback, StateInv, StateTypes, fileVars, serverVars, bounds
  <1>3. ServerInv' /\ LockInv'
    BY <1>1 DEF HashCallback, StateInv, ServerInv, LockInv, fileVars, serverVars
  <1>4. QED
    BY <1>1, <1>2, <1>3 DEF StateInv

LEMMA AcceptKeeps ==
  ASSUME StateInv, Accept
  PROVE  StateInv'
  <1>1. /\ call' \in Calls \cup {HashCall} /\ asked' \in Calls \cup {NoCall}
        /\ poll' \in {poll, TAKEN} /\ Connect(Wire(call'))
    BY DEF Accept, StateInv, StateTypes
  <1>2. IsSeq(call'.data)
    <2>1. HashCall.data = <<>>
      BY DEF HashCall, Call
    <2>2. \A c \in Calls : IsSeq(c.data)
      BY CallsAssumption DEF IsSeq
    <2>3. QED
      BY <1>1, <2>1, <2>2, EmptyIs
  <1>3. StreamInv' /\ place' = "first" /\ status' = 0 /\ gone' = FALSE
    BY <1>1, <1>2, ConnectKeeps DEF StateInv
  <1>4. StateTypes'
    BY <1>1 DEF Accept, StateInv, StateTypes, Ats, fileVars, bounds
  <1>5. ServerInv' /\ LockInv'
    BY <1>1, <1>3 DEF Accept, StateInv, ServerInv, LockInv, fileVars, bounds
  <1>6. QED
    BY <1>3, <1>4, <1>5 DEF StateInv

LEMMA ReceiveKeeps ==
  ASSUME StateInv, Receive
  PROVE  StateInv'
  <1>1. StreamInv' /\ place' # "idle" /\ gone' = gone
    BY StreamStepKeeps DEF Receive, StateInv, serverVars
  <1>2. StateTypes'
    BY DEF Receive, StateInv, StateTypes, fileVars, serverVars, pageVars, bounds
  <1>3. ServerInv' /\ LockInv'
    BY <1>1 DEF Receive, StateInv, ServerInv, LockInv, fileVars, serverVars
  <1>4. QED
    BY <1>1, <1>2, <1>3 DEF StateInv

LEMMA UnderstandKeeps ==
  ASSUME StateInv, Understand
  PROVE  StateInv'
  <1>1. StreamInv' /\ place' = place /\ status' = status /\ gone' = gone
    BY StreamStays DEF Understand, StateInv
  <1>2. status \in {0} \cup (Range(Status) \ {Status.OK})
    BY DEF StateInv, StreamInv, StreamTypes
  <1>3. StateTypes'
    BY <1>2 DEF Understand, StateInv, StateTypes, Ats, fileVars, pageVars, bounds
  <1>4. ServerInv' /\ LockInv'
    BY <1>1, <1>2 DEF Understand, StateInv, ServerInv, LockInv, fileVars
  <1>5. QED
    BY <1>1, <1>3, <1>4 DEF StateInv

LEMMA OpenDzKeeps ==
  ASSUME StateInv, OpenDz
  PROVE  StateInv'
  <1>1. StreamInv' /\ place' = place /\ status' = status /\ gone' = gone
    BY StreamStays DEF OpenDz, StateInv
  <1>2. StateTypes'
    BY DEF OpenDz, StateInv, StateTypes, Ats, fileVars, pageVars, bounds
  <1>3. ServerInv' /\ LockInv'
    BY <1>1 DEF OpenDz, StateInv, ServerInv, LockInv, fileVars
  <1>4. QED
    BY <1>1, <1>2, <1>3 DEF StateInv

LEMMA FlockKeeps ==
  ASSUME StateInv, Flock
  PROVE  StateInv'
  <1>1. StreamInv' /\ place' = place /\ status' = status /\ gone' = gone
    BY StreamStays DEF Flock, StateInv
  <1>2. Len(file) \in Nat
    BY SeqIs DEF StateInv, StateTypes
  <1>3. StateTypes'
    BY <1>2 DEF Flock, StateInv, StateTypes, Ats, pageVars, bounds
  <1>4. ServerInv' /\ LockInv'
    BY <1>1 DEF Flock, StateInv, ServerInv, LockInv
  <1>5. QED
    BY <1>1, <1>3, <1>4 DEF StateInv

LEMMA RouteRequestKeeps ==
  ASSUME StateInv, RouteRequest
  PROVE  StateInv'
  <1>1. StreamInv' /\ place' = place /\ status' = status /\ gone' = gone
    BY StreamStays DEF RouteRequest, StateInv
  <1>2. PICK res \in Outcomes :
          LET tells == res.direct /\ ~gone
          IN  /\ file' = res.kept /\ len' = Len(res.kept)
              /\ answer' = res.status /\ direct' = res.direct
              /\ IF tells THEN Callback(call, res.status, res.says)
                          ELSE UNCHANGED <<shown, prev, poll, alarms>>
    BY DEF RouteRequest
  <1>3. /\ Serving /\ at' = "close" /\ there' = there /\ lock' = lock /\ olen' = olen
        /\ traced' = traced /\ fd' = fd /\ call' = call /\ asked' = asked /\ UNCHANGED bounds
    BY DEF RouteRequest
  <1>4. /\ IsSeq(res.kept) /\ res.status \in Range(Status)
        /\ res.direct = TRUE \/ (res.direct = FALSE /\ res.status # Status.OK)
        /\ Is(call, HashCall) /\ res.status = Status.OK => res.says[1] \in Nat
    <2>1. Len(Mapping) \in Nat
      BY ResizedIs DEF Mapping, StateInv, StateTypes
    <2>2. Hash(Mapping) \in Nat
      BY <2>1 DEF Hash
    <2>3. Is(call, HashCall) /\ res.status = Status.OK => res.says[1] = Hash(Mapping)
      BY <1>3, HashOutcome
    <2>4. /\ IsSeq(res.kept) /\ res.status \in Range(Status)
          /\ res.direct = TRUE \/ (res.direct = FALSE /\ res.status # Status.OK)
      BY <1>3, OutcomeIs
    <2>5. QED
      BY <2>2, <2>3, <2>4
  <1>5. /\ poll' \in {NONE, ASKED, TAKEN} \cup (Nat \cup {-1})
        /\ prev' \in Nat \cup {-1} /\ alarms' \in Nat
    BY <1>2, <1>4, CallbackTypes DEF StateInv, StateTypes
  <1>6. Len(file') \in Nat
    BY <1>2, <1>4, SeqIs
  <1>7. StateTypes'
    BY <1>2, <1>3, <1>4, <1>5, <1>6 DEF StateInv, StateTypes, Ats, bounds
  <1>8. ServerInv'
    BY <1>1, <1>2, <1>3, <1>4 DEF StateInv, ServerInv, Serving
  <1>9. LockInv'
    BY <1>2, <1>3 DEF StateInv, LockInv, Serving
  <1>10. QED
    BY <1>1, <1>7, <1>8, <1>9 DEF StateInv

LEMMA CloseDzKeeps ==
  ASSUME StateInv, CloseDz
  PROVE  StateInv'
  <1>1. /\ at = "close" /\ fd' = FALSE /\ lock' = IF traced /\ fd THEN "none" ELSE lock
        /\ UNCHANGED <<file, there, olen, traced, len, pageVars, bounds>>
    BY DEF CloseDz
  <1>2. CASE direct
    <2>1. Hangup /\ call' = NoCall /\ answer' = 0 /\ direct' = FALSE /\ at' = "accept"
      BY <1>2 DEF CloseDz, Done
    <2>2. StreamInv' /\ place' = "idle" /\ status' = 0 /\ gone' = FALSE
      BY <2>1, HangupKeeps DEF StateInv
    <2>3. StateTypes'
      BY <1>1, <2>1 DEF StateInv, StateTypes, Ats, pageVars, bounds
    <2>4. ServerInv' /\ LockInv'
      BY <1>1, <2>1, <2>2, StatusIs DEF StateInv, ServerInv, LockInv
    <2>5. QED
      BY <2>2, <2>3, <2>4 DEF StateInv
  <1>3. CASE ~direct
    <2>1. /\ at' = "tell" /\ UNCHANGED streamVars /\ call' = call
          /\ answer' = answer /\ direct' = direct
      BY <1>3 DEF CloseDz
    <2>2. StreamInv' /\ place' = place /\ status' = status /\ gone' = gone
      BY <2>1, StreamStays DEF StateInv
    <2>3. StateTypes'
      BY <1>1, <2>1 DEF StateInv, StateTypes, Ats, pageVars, bounds
    <2>4. direct = FALSE
      BY <1>3 DEF StateInv, StateTypes
    <2>5. ServerInv' /\ LockInv'
      BY <1>1, <2>1, <2>2, <2>4 DEF StateInv, ServerInv, LockInv
    <2>6. QED
      BY <2>2, <2>3, <2>5 DEF StateInv
  <1>4. QED
    BY <1>2, <1>3

LEMMA TellKeeps ==
  ASSUME StateInv, Tell
  PROVE  StateInv'
  <1>1. /\ at = "tell" /\ at' = "accept" /\ Hangup /\ call' = NoCall /\ answer' = 0 /\ direct' = FALSE
        /\ UNCHANGED <<fileVars, traced, fd, len, asked, bounds>>
        /\ \/ Callback(call, answer, <<>>)
           \/ poll' = poll /\ prev' = prev /\ alarms' = alarms
    BY DEF Tell, Done
  <1>2. StreamInv' /\ place' = "idle" /\ status' = 0 /\ gone' = FALSE
    BY <1>1, HangupKeeps DEF StateInv
  <1>3. answer # Status.OK
    BY <1>1 DEF StateInv, ServerInv
  <1>4. /\ poll' \in {NONE, ASKED, TAKEN} \cup (Nat \cup {-1})
        /\ prev' \in Nat \cup {-1} /\ alarms' \in Nat
    BY <1>1, <1>3, CallbackTypes DEF StateInv, StateTypes
  <1>5. StateTypes'
    BY <1>1, <1>4 DEF StateInv, StateTypes, Ats, fileVars, bounds
  <1>6. ServerInv' /\ LockInv'
    BY <1>1, <1>2, StatusIs DEF StateInv, ServerInv, LockInv, fileVars
  <1>7. QED
    BY <1>2, <1>5, <1>6 DEF StateInv

\* The server ends, whatever it leaves of the dazibao.
LEMMA EndsKeeps ==
  ASSUME StateInv, NEW g, IsSeq(g), Ends(g), ends' \in 0 .. MaxEnds,
         poll' \in {NONE, ASKED, TAKEN} \cup (Nat \cup {-1}),
         prev' \in Nat \cup {-1}, alarms' \in Nat
  PROVE  StateInv'
  <1>1. /\ at' = "exited" /\ Hangup /\ call' = NoCall /\ answer' = 0 /\ direct' = FALSE
        /\ file' = g /\ fd' = FALSE /\ lock' = IF lock = "server" THEN "none" ELSE lock
        /\ UNCHANGED <<there, olen, traced, len, asked, calls, changes, leaves>>
    BY DEF Ends, Done
  <1>2. StreamInv' /\ place' = "idle" /\ status' = 0 /\ gone' = FALSE
    BY <1>1, HangupKeeps DEF StateInv
  <1>3. StateTypes'
    BY <1>1 DEF StateInv, StateTypes, Ats
  <1>4. ServerInv' /\ LockInv'
    BY <1>1, <1>2, StatusIs DEF StateInv, ServerInv, LockInv
  <1>5. QED
    BY <1>2, <1>3, <1>4 DEF StateInv

\* A file left open is a sequence still.
LEMMA UnclosedIs ==
  ASSUME NEW g, IsSeq(g)
  PROVE  IsSeq(Unclosed(g))
  BY StretchedIs, ResizedIs DEF Unclosed

LEMMA DiesKeeps ==
  ASSUME StateInv, NEW g, IsSeq(g), Dies(g)
  PROVE  StateInv'
  <1>1. Ends(Unclosed(g)) /\ ends' = ends /\ poll' = poll /\ prev' = prev /\ alarms' = alarms
    BY DEF Dies
  <1>2. QED
    BY <1>1, UnclosedIs, EndsKeeps DEF StateInv, StateTypes

LEMMA RequestDiesKeeps ==
  ASSUME StateInv, RequestDies
  PROVE  StateInv'
  <1>1. PICK res \in Outcomes : Dies(res.kept)
    BY DEF RequestDies
  <1>2. IsSeq(res.kept)
    BY OutcomeIs DEF RequestDies
  <1>3. QED
    BY <1>1, <1>2, DiesKeeps

LEMMA TellDiesKeeps ==
  ASSUME StateInv, TellDies
  PROVE  StateInv'
  BY DiesKeeps DEF TellDies, StateInv, StateTypes

\* What the SIGINT handler leaves.
LEMMA LeftIs ==
  ASSUME StateInv, NEW g \in LeftBySigInt
  PROVE  IsSeq(g)
  <1>1. IsSeq(file) /\ len \in Nat
    BY DEF StateInv, StateTypes
  <1>2. CASE g \in {Resized(file, len)}
    BY <1>1, <1>2, ResizedIs
  <1>3. CASE at = "route" /\ g \in MidRoute
    <2>1. \/ g = file
          \/ \E res \in Outcomes : g = res.kept
          \/ g \in HalfCompacted(file)
      BY <1>3, Zenon DEF MidRoute
    <2>2. Serving
      BY <1>3 DEF Serving
    <2>3. QED
      BY <1>1, <2>1, <2>2, OutcomeIs, HalfIs
  <1>4. CASE g \in {file}
    BY <1>1, <1>4
  <1>5. CASE g \in {Unclosed(file)}
    BY <1>1, <1>5, UnclosedIs
  <1>6. QED
    BY <1>2, <1>3, <1>4, <1>5 DEF LeftBySigInt

\* The server ends with a call that has no answer.
LEMMA BreaksKeeps ==
  ASSUME StateInv, NEW g, IsSeq(g), Breaks(g), ends' \in 0 .. MaxEnds
  PROVE  StateInv'
  <1>1. /\ Ends(g)
        /\ \/ Callback(call, 0, <<>>)
           \/ poll' = poll /\ prev' = prev /\ alarms' = alarms
    BY DEF Breaks
  <1>2. /\ poll' \in {NONE, ASKED, TAKEN} \cup (Nat \cup {-1})
        /\ prev' \in Nat \cup {-1} /\ alarms' \in Nat
    <2>1. 0 # Status.OK
      BY StatusIs
    <2>2. QED
      BY <1>1, <2>1, CallbackTypes DEF StateInv, StateTypes
  <1>3. QED
    BY <1>1, <1>2, EndsKeeps

LEMMA SigIntKeeps ==
  ASSUME StateInv, SigInt
  PROVE  StateInv'
  <1>1. PICK g \in LeftBySigInt : Breaks(g)
    BY DEF SigInt
  <1>2. ends' \in 0 .. MaxEnds
    BY DaziwebAssumption DEF SigInt, StateInv, StateTypes
  <1>3. QED
    BY <1>1, <1>2, LeftIs, BreaksKeeps

LEMMA PageAbortsKeeps ==
  ASSUME StateInv, PageAborts
  PROVE  StateInv'
  <1>1. Breaks(Unclosed(file)) /\ ends' \in 0 .. MaxEnds /\ IsSeq(file)
    BY DEF PageAborts, StateInv, StateTypes
  <1>2. QED
    BY <1>1, UnclosedIs, BreaksKeeps

LEMMA StartKeeps ==
  ASSUME StateInv, Start
  PROVE  StateInv'
  <1>1. StreamInv' /\ place' = place /\ status' = status /\ gone' = gone
    BY StreamStays DEF Start, StateInv
  <1>2. Len(file) \in Nat
    BY SeqIs DEF StateInv, StateTypes
  <1>3. StateTypes'
    BY <1>2 DEF Start, StateInv, StateTypes, Ats, fileVars, pageVars, bounds
  <1>4. ServerInv' /\ LockInv'
    BY <1>1 DEF Start, StateInv, ServerInv, LockInv, fileVars
  <1>5. QED
    BY <1>1, <1>3, <1>4 DEF StateInv

LEMMA RefuseKeeps ==
  ASSUME StateInv, Refuse
  PROVE  StateInv'
  <1>1. StreamInv' /\ place' = place /\ status' = status /\ gone' = gone
    BY StreamStays DEF Refuse, StateInv, serverVars
  <1>2. /\ poll' \in {NONE, ASKED, TAKEN} \cup (Nat \cup {-1})
        /\ prev' \in Nat \cup {-1} /\ alarms' \in Nat /\ asked' \in Calls \cup {NoCall}
    <2>1. 0 # Status.OK
      BY StatusIs
    <2>2. CASE Callback(asked, 0, <<>>) /\ asked' = NoCall
      BY <2>1, <2>2, CallbackTypes DEF StateInv
    <2>3. CASE poll' = -1 /\ UNCHANGED <<asked, shown, prev, alarms, news>>
      BY <2>3 DEF StateInv, StateTypes
    <2>4. QED
      BY <2>2, <2>3 DEF Refuse
  <1>3. StateTypes'
    BY <1>2 DEF Refuse, StateInv, StateTypes, fileVars, serverVars, bounds
  <1>4. ServerInv' /\ LockInv'
    BY <1>1 DEF Refuse, StateInv, ServerInv, LockInv, fileVars, serverVars
  <1>5. QED
    BY <1>1, <1>3, <1>4 DEF StateInv

LEMMA LeaveEarlyKeeps ==
  ASSUME StateInv, LeaveEarly
  PROVE  StateInv'
  <1>1. StreamInv' /\ place # "idle" /\ place' = place /\ status' = status /\ gone' = TRUE
    BY LeaveKeeps DEF LeaveEarly, StateInv, serverVars
  <1>2. /\ poll' \in {NONE, ASKED, TAKEN} \cup (Nat \cup {-1})
        /\ prev' \in Nat \cup {-1} /\ alarms' \in Nat
    <2>1. 0 # Status.OK
      BY StatusIs
    <2>2. QED
      BY <2>1, CallbackTypes DEF LeaveEarly, StateInv
  <1>3. StateTypes'
    BY <1>2, DaziwebAssumption DEF LeaveEarly, StateInv, StateTypes, fileVars, serverVars
  <1>4. ServerInv' /\ LockInv'
    BY <1>1 DEF LeaveEarly, StateInv, ServerInv, LockInv, fileVars, serverVars
  <1>5. QED
    BY <1>1, <1>3, <1>4 DEF StateInv

LEMMA OtherOpenKeeps ==
  ASSUME StateInv, OtherOpen
  PROVE  StateInv'
  <1>1. StreamInv' /\ place' = place /\ status' = status /\ gone' = gone
    BY StreamStays DEF OtherOpen, StateInv, serverVars
  <1>2. Len(file) \in Nat
    BY SeqIs DEF StateInv, StateTypes
  <1>3. StateTypes'
    <2>1. changes' \in 0 .. MaxChanges
      BY DaziwebAssumption DEF OtherOpen, StateInv, StateTypes
    <2>2. QED
      BY <1>2, <2>1 DEF OtherOpen, StateInv, StateTypes, serverVars, pageVars
  <1>4. ServerInv' /\ LockInv'
    BY <1>1 DEF OtherOpen, StateInv, ServerInv, LockInv, serverVars
  <1>5. QED
    BY <1>1, <1>3, <1>4 DEF StateInv

LEMMA OtherWriteKeeps ==
  ASSUME StateInv, NEW g, IsSeq(g), NEW what, OtherWrite(g, what)
  PROVE  StateInv'
  <1>1. StreamInv' /\ place' = place /\ status' = status /\ gone' = gone
    BY StreamStays DEF OtherWrite, StateInv, serverVars
  <1>2. Len(g) \in Nat
    BY SeqIs
  <1>3. StateTypes'
    BY <1>2 DEF OtherWrite, StateInv, StateTypes, serverVars, pageVars, bounds
  <1>4. ServerInv' /\ LockInv'
    BY <1>1 DEF OtherWrite, StateInv, ServerInv, LockInv, serverVars
  <1>5. QED
    BY <1>1, <1>3, <1>4 DEF StateInv

\* What another program has mapped, element by element.
LEMMA TheirsIs ==
  ASSUME StateInv
  PROVE  /\ IsSeq(Theirs) /\ Len(Theirs) = olen /\ olen \in Nat
         /\ \A i \in 1 .. olen : Theirs[i] = IF i <= Len(file) THEN file[i] ELSE PAD
  <1>1. olen \in Nat
    BY DEF StateInv, StateTypes
  <1>2. QED
    BY <1>1, ResizedIs DEF Theirs

LEMMA OtherAddsKeeps ==
  ASSUME StateInv, OtherAdds
  PROVE  StateInv'
  <1>1. PICK v \in Others : \E g \in Added(Theirs, v) : OtherWrite(g, {})
    BY DEF OtherAdds
  <1>2. PICK g \in Added(Theirs, v) : OtherWrite(g, {})
    BY <1>1
  <1>3. IsSeq(g)
    BY TheirsIs, AddedIs
  <1>4. QED
    BY <1>2, <1>3, OtherWriteKeeps

LEMMA OtherRemovesKeeps ==
  ASSUME StateInv, OtherRemoves
  PROVE  StateInv'
  <1>1. PICK o \in 1 .. olen : \E g \in Removed(Theirs, o) : OtherWrite(g, {})
    BY DEF OtherRemoves
  <1>2. PICK g \in Removed(Theirs, o) : OtherWrite(g, {})
    BY <1>1
  <1>3. IsSeq(g)
    BY TheirsIs, RemovedIs
  <1>4. QED
    BY <1>2, <1>3, OtherWriteKeeps

LEMMA OtherCompactsKeeps ==
  ASSUME StateInv, OtherCompacts
  PROVE  StateInv'
  BY TheirsIs, CompactedSeq, OtherWriteKeeps DEF OtherCompacts

LEMMA OtherCloseKeeps ==
  ASSUME StateInv, OtherClose
  PROVE  StateInv'
  <1>1. StreamInv' /\ place' = place /\ status' = status /\ gone' = gone
    BY StreamStays DEF OtherClose, StateInv, serverVars
  <1>2. StateTypes'
    <2>1. IsSeq(file')
      BY TheirsIs DEF OtherClose
    <2>2. QED
      BY <2>1 DEF OtherClose, StateInv, StateTypes, serverVars, pageVars, bounds
  <1>3. ServerInv' /\ LockInv'
    BY <1>1 DEF OtherClose, StateInv, ServerInv, LockInv, serverVars
  <1>4. QED
    BY <1>1, <1>2, <1>3 DEF StateInv

LEMMA RemoveDzKeeps ==
  ASSUME StateInv, RemoveDz
  PROVE  StateInv'
  <1>1. StreamInv' /\ place' = place /\ status' = status /\ gone' = gone
    BY StreamStays DEF RemoveDz, StateInv, serverVars
  <1>2. StateTypes'
    <2>1. changes' \in 0 .. MaxChanges
      BY DaziwebAssumption DEF RemoveDz, StateInv, StateTypes
    <2>2. QED
      BY <2>1 DEF RemoveDz, StateInv, StateTypes, serverVars, pageVars
  <1>3. ServerInv' /\ LockInv'
    BY <1>1 DEF RemoveDz, StateInv, ServerInv, LockInv, serverVars
  <1>4. QED
    BY <1>1, <1>2, <1>3 DEF StateInv

LEMMA CreateDzKeeps ==
  ASSUME StateInv, CreateDz
  PROVE  StateInv'
  <1>1. StreamInv' /\ place' = place /\ status' = status /\ gone' = gone
    BY StreamStays DEF CreateDz, StateInv, serverVars
  <1>2. StateTypes'
    <2>1. IsSeq(file')
      BY EmptyIs DEF CreateDz
    <2>2. QED
      BY <2>1 DEF CreateDz, StateInv, StateTypes, serverVars, pageVars, bounds
  <1>3. ServerInv' /\ LockInv'
    BY <1>1 DEF CreateDz, StateInv, ServerInv, LockInv, serverVars
  <1>4. QED
    BY <1>1, <1>2, <1>3 DEF StateInv

LEMMA StutterKeeps ==
  ASSUME StateInv, UNCHANGED vars
  PROVE  StateInv'
  <1>1. StreamInv' /\ place' = place /\ status' = status /\ gone' = gone
    BY StreamStays DEF vars, StateInv, serverVars
  <1>2. StateTypes'
    BY DEF vars, StateInv, StateTypes, fileVars, serverVars, pageVars, bounds
  <1>3. ServerInv' /\ LockInv'
    BY <1>1 DEF vars, StateInv, ServerInv, LockInv, fileVars, serverVars
  <1>4. QED
    BY <1>1, <1>2, <1>3 DEF StateInv

\* StateInv at first.
LEMMA StateInit ==
  ASSUME Init
  PROVE  StateInv
  <1>1. StreamInit /\ IsSeq(file) /\ Len(file) \in Nat
    BY SeqIs, CallsAssumption DEF Init, IsSeq
  <1>2. StreamTypes
    <2>1. 0 \in 0 .. MaxShort
      BY HttpStreamAssumption
    <2>2. IsSeq(wire) /\ IsSeq(rest) /\ IsSeq(line) /\ shorts \in 0 .. MaxShort
      BY <1>1, <2>1, EmptyIs DEF StreamInit
    <2>3. DOMAIN req = ReqFields
      BY <1>1 DEF StreamInit, NoRequest, ReqFields
    <2>4. QED
      BY <1>1, <2>2, <2>3 DEF StreamInit, StreamTypes, Places
  <1>3. Understood
    BY <1>1 DEF StreamInit, Understood
  <1>4. StateTypes
    <2>1. 0 \in 0 .. MaxCalls /\ 0 \in 0 .. MaxChanges /\ 0 \in 0 .. MaxEnds /\ 0 \in 0 .. MaxLeaves
      BY DaziwebAssumption
    <2>2. QED
      BY <1>1, <2>1 DEF Init, StateTypes, Ats
  <1>5. ServerInv /\ LockInv
    BY <1>1, StatusIs DEF Init, StreamInit, ServerInv, LockInv
  <1>6. StreamInv
    BY <1>2, <1>3 DEF StreamInv
  <1>7. QED
    BY <1>4, <1>5, <1>6 DEF StateInv

\* StateInv step by step.
LEMMA StateStep ==
  ASSUME StateInv, [Next]_vars
  PROVE  StateInv'
  <1>1. CASE (\E c \in Calls : Ask(c)) \/ CheckHash \/ HashCallback \/ LeaveEarly
    BY <1>1, AskKeeps, CheckHashKeeps, HashCallbackKeeps, LeaveEarlyKeeps
  <1>2. CASE Server
    BY <1>2, AcceptKeeps, ReceiveKeeps, UnderstandKeeps, OpenDzKeeps, FlockKeeps, RouteRequestKeeps,
       CloseDzKeeps, TellKeeps DEF Server
  <1>3. CASE PageAborts \/ RequestDies \/ TellDies \/ SigInt \/ Start \/ Refuse
    BY <1>3, PageAbortsKeeps, RequestDiesKeeps, TellDiesKeeps, SigIntKeeps, StartKeeps, RefuseKeeps
  <1>4. CASE OtherOpen \/ OtherAdds \/ OtherRemoves \/ OtherCompacts \/ OtherClose
    BY <1>4, OtherOpenKeeps, OtherAddsKeeps, OtherRemovesKeeps, OtherCompactsKeeps, OtherCloseKeeps
  <1>5. CASE RemoveDz \/ CreateDz
    BY <1>5, RemoveDzKeeps, CreateDzKeeps
  <1>6. CASE UNCHANGED vars
    BY <1>6, StutterKeeps
  <1>7. QED
    BY <1>1, <1>2, <1>3, <1>4, <1>5, <1>6 DEF Next

\* Where a request is in the server, who has the lock, and that what is understood of a request is what
\* was asked, hold in every state.
THEOREM StateInvariance == Spec => []StateInv
  BY StateInit, StateStep, PTL DEF Spec

\* src/src/web/daziweb.c: the types of the server, the page and the dazibao.
THEOREM TypeCorrect == Spec => []TypeOK
  <1>1. StateInv => TypeOK
    BY DEF StateInv, StreamInv, StreamTypes, StateTypes, TypeOK
  <1>2. QED
    BY <1>1, StateInvariance, PTL

=============================================================================
