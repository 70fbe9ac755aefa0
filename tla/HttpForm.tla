------------------------------- MODULE HttpForm -------------------------------
(***************************************************************************)
(* Taking a multipart form apart: parse_form_data of                       *)
(* src/src/web/request.c.  In a body, <<"sep", b>> is -- and the boundary  *)
(* b, DISPO a Content-Disposition header, and HYPHEN one of the two        *)
(* hyphens behind the last separator.                                      *)
(***************************************************************************)
EXTENDS HttpStream

DISPO  == <<"dispo">>
HYPHEN == <<"-">>

Sep(b) == <<"sep", b>>

\* What browsers send: one part for each value.
Form(b, values) ==
  FlattenSeq([i \in DOMAIN values |->
                <<Sep(b)>> \o CRLF \o <<DISPO>> \o CRLF \o CRLF \o values[i] \o CRLF])
    \o <<Sep(b), HYPHEN, HYPHEN>> \o CRLF

\* parse_form_data_part, without the headers: in body[from .. to] an end of line is not seen when it is
\* the last thing there.  noted says that a Content-Disposition was among them.
PartValue(body, from, to) ==
  LET ends(i)  == i + 1 < to /\ body[i] = CR /\ body[i + 1] = LF
      next(i)  == CHOOSE j \in i .. to + 1 : (j > to \/ ends(j)) /\ \A k \in i .. j - 1 : ~ends(k)
      value[i \in from .. to + 2, noted \in BOOLEAN] ==
        IF next(i) > to      THEN [noted |-> noted, value |-> SubSeq(body, i, to)]
        ELSE IF next(i) = i  THEN [noted |-> noted, value |-> SubSeq(body, i + 2, to)]
        ELSE value[next(i) + 2, noted \/ body[i] = DISPO]
  IN  value[from, FALSE]

NoPart == [noted |-> FALSE, value |-> <<>>]

\* parse_form_data_part: no part if it is too short, if the hyphens of the last separator are there, or
\* if it says no Content-Disposition.
Part(body, from, to) ==
  LET start == IF body[from] = CR /\ body[from + 1] = LF THEN from + 2 ELSE from
  IN  IF to - from <= 2 THEN NoPart
      ELSE IF body[from] = HYPHEN /\ body[from + 1] = HYPHEN THEN NoPart
      ELSE PartValue(body, start, to)

\* Mutant: the CR LF in front of a separator is not part of it.
SepFrom_Bare(body, b, i) ==
  LET seps == {k \in i .. Len(body) : body[k] = Sep(b)}
  IN  IF seps = {} THEN 0 ELSE Min(seps)

\* The next separator, with the CR LF in front of it, at or behind i; 0 if there is none.
SepFrom(body, b, i) ==
  LET seps == {k \in i .. Len(body) - 2 : SubSeq(body, k, k + 2) = CRLF \o <<Sep(b)>>}
  IN  IF seps = {} THEN 0 ELSE Min(seps)

\* parse_form_data: the values, up to the first part that is none.  A separator is skipped with a CR LF:
\* the one behind the first, and the one in front of those that follow.
PartsFrom(body, b, first) ==
  LET parts[i \in 1 .. Len(body) + 3] ==
        LET end  == SepFrom(body, b, i)
            part == IF end = 0 THEN NoPart ELSE Part(body, i, end - 1)
        IN  IF i > Len(body) \/ ~part.noted THEN <<>>
            ELSE <<part.value>> \o parts[end + 3]
  IN  parts[first + 3]

\* Two separators and what ends them, CR LF and two hyphens.
TooShort(body) == Len(body) < 10

FirstSep(body, b) == {i \in DOMAIN body : body[i] = Sep(b)}

\* There is no form (NULL) without a boundary, in a body too short, or with no separator in it.
IsForm(request, body) ==
  request.boundary # "none" /\ ~TooShort(body) /\ FirstSep(body, request.boundary) # {}

FormValues(request, body) ==
  PartsFrom(body, request.boundary, Min(FirstSep(body, request.boundary)))

=============================================================================
