------------------------------ MODULE HttpStream ------------------------------
(***************************************************************************)
(* How the web server reads a request: parse_request and next_header of    *)
(* src/src/web/request.c, over a socket whose reads end anywhere.          *)
(*                                                                         *)
(* A symbol stands for bytes no property tells apart: CR; LF; <<"start",     *)
(* method, path>> for a request line; <<"length", n>> and <<"type", b>> for  *)
(* Content-Length and Content-Type (with its boundary); any other, in a    *)
(* header, for a header the server has no use for, and in a body for a     *)
(* piece of it.  Lengths count symbols.                                    *)
(***************************************************************************)
EXTENDS Integers, Sequences, SequencesExt

CONSTANTS
  Buff,      \* BUFFLEN: the most one read takes
  MaxShort   \* bound: reads that take less than they could

ASSUME HttpStreamAssumption == Buff \in Nat \ {0} /\ MaxShort \in Nat

VARIABLES
  wire,    \* what the client has still to say
  gone,    \* the client has left
  rest,    \* next_header's static buffer: read, and behind the last end of a line
  line,    \* the line being put together
  cr,      \* the last read ended with a CR: in_crlf
  place,   \* what is being read
  req,     \* struct http_request
  status,  \* what parse_request returns
  split,   \* history: a CR and its LF came in two reads
  late,    \* history: the blank line's CR LF were all there was in the buffer
  shorts   \* reads that took less than they could

streamVars == <<wire, gone, rest, line, cr, place, req, status, split, late, shorts>>

Places == {"idle", "first", "headers", "body", "parsed"}

CR == <<"CR">>
LF == <<"LF">>
CRLF == <<CR, LF>>

\* http.h: what the server takes; anything else is HTTP_M_UNSUPPORTED.
Methods == {"GET", "POST", "HEAD"}

Status == [OK |-> 200, CREATED |-> 201, NO_CT |-> 204, BADREQ |-> 400, NOTFOUND |-> 404,
           LENGTHREQD |-> 411, TOO_LARGE |-> 413, UNSUPP_MEDIA |-> 415, ERR |-> 500, NOTIMPL |-> 501]

NoPath == [dir |-> <<>>, off |-> -1]

\* create_http_request, reset_http_request: -1 for a header that did not come.
NoRequest == [method |-> "none", path |-> NoPath, len |-> -1, boundary |-> "none", body |-> <<>>]

StreamInit ==
  /\ wire = <<>> /\ rest = <<>> /\ line = <<>>
  /\ gone = FALSE /\ cr = FALSE /\ split = FALSE /\ late = FALSE
  /\ place = "idle"
  /\ req = NoRequest
  /\ status = 0
  /\ shorts = 0

-----------------------------------------------------------------------------
(* next_header *)

Crlfs(buff) == {i \in 1 .. Len(buff) - 1 : buff[i] = CR /\ buff[i + 1] = LF}

\* One buffer: the line so far, whether it ended, and what is kept for the next call.  After a CR that
\* ended a read, what is kept starts at its LF, and is a symbol short.
Scan(buff) ==
  LET text == IF cr THEN Append(line, CR) ELSE line
      ends == Crlfs(buff)
  IN  IF cr /\ buff[1] = LF
      THEN [ended |-> TRUE, line |-> line, cr |-> FALSE, rest |-> Front(buff)]
      ELSE IF ends # {}
      THEN [ended |-> TRUE, line |-> text \o SubSeq(buff, 1, Min(ends) - 1), cr |-> FALSE,
            rest |-> SubSeq(buff, Min(ends) + 2, Len(buff))]
      ELSE IF Last(buff) = CR
      THEN [ended |-> FALSE, line |-> text \o Front(buff), cr |-> TRUE, rest |-> <<>>]
      ELSE [ended |-> FALSE, line |-> text \o buff, cr |-> FALSE, rest |-> <<>>]

\* Mutant: the CR LF in front of the body is kept.
BlankLine_Kept(buff) == buff

\* The line that ends the headers is the whole buffer, without the CR LF in front if there is more.
BlankLine(buff) ==
  IF Len(buff) > 2 /\ buff[1] = CR /\ buff[2] = LF THEN SubSeq(buff, 3, Len(buff)) ELSE buff

-----------------------------------------------------------------------------
(* parse_request *)

Parsed(st) == place' = "parsed" /\ status' = st

\* parse_header: the last one of a name counts.  A number, or a boundary, with something behind it is
\* another, and a name with something in front of it is unknown.
WithHeader(l) ==
  CASE l[1][1] = "length" -> [req EXCEPT !.len = IF Len(l) = 1 THEN l[1][2] ELSE -1]
    [] l[1][1] = "type"   -> [req EXCEPT !.boundary = IF Len(l) = 1 THEN l[1][2] ELSE "garbled"]
    [] OTHER              -> req

FirstLine(l) ==
  /\ place = "first"
  /\ IF l[1][1] # "start" THEN Parsed(Status.BADREQ) /\ UNCHANGED req
     ELSE /\ req' = [req EXCEPT !.method = l[1][2], !.path = l[1][3]]
          /\ IF l[1][2] \in Methods THEN place' = "headers" /\ UNCHANGED status
             ELSE Parsed(Status.NOTIMPL)

HeaderLine(l) ==
  /\ place = "headers"
  /\ req' = WithHeader(l)
  /\ UNCHANGED <<place, status>>

\* What came with the blank line begins the body, however long it is.
HeadersEnd(body) ==
  IF place = "first" THEN Parsed(Status.BADREQ) /\ UNCHANGED req
  ELSE IF req.method # "POST" THEN Parsed(0) /\ UNCHANGED req
  ELSE IF req.len < 0 THEN Parsed(Status.LENGTHREQD) /\ UNCHANGED req
  ELSE /\ req' = [req EXCEPT !.body = body]
       /\ IF Len(body) < req.len THEN place' = "body" /\ UNCHANGED status ELSE Parsed(0)

\* Every way out of parse_request empties next_header's static buffer.
Line(buff, s) ==
  /\ IF ~s.ended THEN UNCHANGED <<place, req, status>>
     ELSE IF s.line = <<>> THEN HeadersEnd(BlankLine(buff))
     ELSE FirstLine(s.line) \/ HeaderLine(s.line)
  /\ line' = IF s.ended THEN <<>> ELSE s.line
  /\ cr' = s.cr
  /\ rest' = IF place' = "parsed" THEN <<>> ELSE s.rest
  /\ split' = (split \/ (cr /\ s.ended /\ buff[1] = LF))
  /\ late' = (late \/ (s.ended /\ s.line = <<>> /\ Len(buff) = 2))

\* next_header begins with what the last call kept.
TakeRest ==
  /\ place \in {"first", "headers"} /\ rest # <<>>
  /\ Line(rest, Scan(rest))
  /\ UNCHANGED <<wire, gone, shorts>>

\* read(2): some of what the client has said.
Reads(n, most) ==
  LET all == Min({most, Len(wire)})
  IN  /\ n \in 1 .. all
      /\ n < all => shorts < MaxShort
      /\ shorts' = IF n < all THEN shorts + 1 ELSE shorts
      /\ wire' = SubSeq(wire, n + 1, Len(wire))
      /\ UNCHANGED gone

ReadHeader(n) ==
  /\ place \in {"first", "headers"} /\ rest = <<>>
  /\ Reads(n, Buff)
  /\ Line(SubSeq(wire, 1, n), Scan(SubSeq(wire, 1, n)))

ReadBody(n) ==
  /\ place = "body"
  /\ Reads(n, req.len - Len(req.body))
  /\ req' = [req EXCEPT !.body = @ \o SubSeq(wire, 1, n)]
  /\ IF Len(req'.body) = req.len THEN Parsed(0) ELSE UNCHANGED <<place, status>>
  /\ UNCHANGED <<rest, line, cr, split, late>>

\* read(2) finds that the client has left.  A line cut short is a line all the same.
ReadEnd ==
  /\ place \in {"first", "headers", "body"}
  /\ (rest = <<>> \/ place = "body") /\ wire = <<>> /\ gone
  /\ IF line # <<>> THEN FirstLine(line) \/ HeaderLine(line)
     ELSE /\ Parsed(IF place = "headers" /\ req.method # "POST" THEN 0 ELSE Status.BADREQ)
          /\ UNCHANGED req
  /\ line' = <<>>
  /\ cr' = FALSE
  /\ UNCHANGED <<wire, gone, rest, split, late, shorts>>

ReadSome == (\E n \in 1 .. Buff : ReadHeader(n)) \/ (\E n \in 1 .. Len(wire) : ReadBody(n))

StreamStep == TakeRest \/ ReadSome \/ ReadEnd

\* A connection, and all the client is going to say on it.
Connect(said) ==
  /\ place = "idle"
  /\ place' = "first"
  /\ wire' = said
  /\ req' = NoRequest
  /\ status' = 0
  /\ UNCHANGED shorts
  /\ rest' = <<>> /\ line' = <<>>
  /\ gone' = FALSE /\ cr' = FALSE /\ split' = FALSE /\ late' = FALSE

\* The client goes away; what it has said before can still be read, or is lost.
Leave ==
  /\ place # "idle" /\ ~gone
  /\ gone' = TRUE
  /\ wire' \in {wire, <<>>}
  /\ UNCHANGED <<rest, line, cr, place, req, status, split, late, shorts>>

\* The socket is closed, and the request with it.
Hangup ==
  /\ place' = "idle"
  /\ wire' = <<>> /\ rest' = <<>> /\ line' = <<>>
  /\ req' = NoRequest
  /\ status' = 0
  /\ UNCHANGED shorts
  /\ gone' = FALSE /\ cr' = FALSE /\ split' = FALSE /\ late' = FALSE

=============================================================================
