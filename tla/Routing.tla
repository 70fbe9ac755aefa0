------------------------------- MODULE Routing -------------------------------
(***************************************************************************)
(* Which handler a request goes to (src/src/web/routing.c) and what the    *)
(* handlers do (src/src/web/routes.c).                                     *)
(*                                                                         *)
(* A dazibao is a sequence of slots, each a TLV, by its value, or a PAD;   *)
(* what module Mdazibao says of the bytes is left to it.  An offset is     *)
(* that of a slot, from 1, and 0 and less are in the file's header.        *)
(***************************************************************************)
EXTENDS HttpForm

CONSTANTS
  MaxValue,    \* TLV_MAX_VALUE_SIZE
  PublicFiles  \* the paths of public_html

PAD == <<<<"pad">>>>

\* Slots without a value; the only TLVs among them are texts.
Void == {PAD, <<>>}

-----------------------------------------------------------------------------
(* The operations of mdazibao.c, on slots. *)

\* Where a series of pads that ends in front of slot o may be taken to start: dz_pad_serie_start does
\* not always find the first of them.
PadStarts(f, o) == {s \in 1 .. o : \A i \in s .. o - 1 : f[i] = PAD}

\* Mutant: any pad is as good as one at the end.
Added_AnyPad(f, value) ==
  LET pads == {s \in DOMAIN f : f[s] = PAD}
  IN  IF pads = {} THEN {Append(f, value)} ELSE {[f EXCEPT ![s] = value] : s \in pads}

Added(f, value) == {Append(SubSeq(f, 1, s - 1), value) : s \in PadStarts(f, Len(f) + 1)}

\* Only the last slot shortens the dazibao.
Removed(f, o) ==
  IF o = Len(f) THEN {SubSeq(f, 1, s - 1) : s \in PadStarts(f, o)} ELSE {[f EXCEPT ![o] = PAD]}

\* The slots with a value, each behind those in front of it: an empty TLV goes as a pad does.
Compacted(f) ==
  LET kept[n \in 0 .. Len(f)] ==
        IF n = 0 THEN <<>> ELSE IF f[n] \in Void THEN kept[n - 1] ELSE Append(kept[n - 1], f[n])
  IN  kept[Len(f)]

\* dz_hash: the length.
Hash(f) == Len(f) + 1

-----------------------------------------------------------------------------
(* get_route_handler *)

Path(dir, off) == [dir |-> dir, off |-> off]

Route(method, dir, handler) == [method |-> method, dir |-> dir, handler |-> handler]

\* register_routes, in order; a directory is a prefix.
Routes ==
  <<Route("GET",  <<"index.html">>,         "index"),
    Route("POST", <<"tlv", "delete">>,      "rm_tlv"),
    Route("POST", <<"tlv", "add", "text">>, "new_tlv_text"),
    Route("POST", <<"tlv", "add", "form">>, "form_tlv"),
    Route("GET",  <<"tlv">>,                "media_tlv"),
    Route("POST", <<"compact">>,            "compact_dz"),
    Route("GET",  <<"hash">>,               "hash")>>

\* The routes a request matches: HEAD is as good as GET.
Matching(routes, method, dir) ==
  {i \in DOMAIN routes : /\ IsPrefix(routes[i].dir, dir)
                         /\ routes[i].method = IF method = "HEAD" THEN "GET" ELSE method}

\* The handler of the first of them, with / for /index.html.
HandlerOf(routes, method, path) ==
  LET fits == Matching(routes, method, IF path = NoPath THEN <<"index.html">> ELSE path.dir)
  IN  IF fits = {} THEN "none" ELSE routes[Min(fits)].handler

\* No route has the path of a file.
ASSUME PublicFilesAssumption ==
  \A dir \in PublicFiles : \A i \in DOMAIN Routes : ~IsPrefix(Routes[i].dir, dir)

-----------------------------------------------------------------------------
(* What a handler does: kept is what it leaves of the dazibao, says the body of its answer.  An answer   *)
(* with a result is written by route_request; a handler that fails leaves it to main, once the dazibao   *)
(* is closed.                                                                                            *)

Says(kept, st, body) == [kept |-> kept, status |-> st, says |-> body, direct |-> TRUE]

\* Mutant: a handler's -1 is not turned into 404.
Fails_Negative(kept, st) ==
  [kept |-> kept, status |-> IF st = Status.NOTFOUND THEN -1 ELSE st, says |-> <<>>, direct |-> FALSE]

Fails(kept, st) == [kept |-> kept, status |-> st, says |-> <<>>, direct |-> FALSE]

\* No body for a HEAD.
Shown(r, body) == IF r.method = "HEAD" THEN <<>> ELSE body

IsIndex(r) == r.path \in {Path(<<"index.html">>, -1), NoPath}

\* dz_read_tlv takes a text without bytes for a failure, and html_add_tlv gives up the page.
NoPage(r, f) == r.method # "HEAD" /\ \E o \in DOMAIN f : f[o] = <<>>

\* dz2html wants dz.fd not to be -1: that of a dazibao that dz_open has given up is a number still, and
\* what is mapped is shown.
GetIndex(r, f, open) ==
  IF ~IsIndex(r) THEN {Fails(f, Status.BADREQ)}
  ELSE {IF NoPage(r, f) THEN Fails(f, Status.ERR) ELSE Says(f, Status.OK, Shown(r, f))}
         \cup (IF open \/ r.method = "HEAD" THEN {} ELSE {Fails(f, Status.ERR)})

\* A pad has no value to send, or zeros; an empty text has none.
GetMediaTlv(r, f) ==
  IF r.path.dir # <<"tlv">> \/ r.path.off \notin DOMAIN f THEN {Fails(f, Status.NOTFOUND)}
  ELSE IF f[r.path.off] = <<>> THEN {Fails(f, Status.ERR)}
  ELSE IF f[r.path.off] = PAD THEN {Fails(f, Status.ERR), Says(f, Status.OK, <<PAD>>)}
  ELSE {Says(f, Status.OK, Shown(r, <<f[r.path.off]>>))}

GetHash(r, f) == {Says(f, Status.OK, Shown(r, <<Hash(f)>>))}

\* There is a TLV to remove at a pad too, unless it has been merged in a longer one.
PostRmTlv(r, f) ==
  IF r.path.off \notin DOMAIN f THEN {Fails(f, Status.NOTFOUND)}
  ELSE {Says(g, Status.NO_CT, <<>>) : g \in Removed(f, r.path.off)}
         \cup (IF f[r.path.off] = PAD THEN {Fails(f, Status.NOTFOUND)} ELSE {})

PostCompactDz(f) == {Says(Compacted(f), Status.OK, <<Len(f) - Len(Compacted(f))>>)}

\* dz_add_tlv fails when the mapping must grow and there is no file behind it.
Adds(f, value, open, st) ==
  {Says(g, st, <<>>) : g \in Added(f, value)}
    \cup (IF open THEN {} ELSE {Says(f, Status.ERR, <<>>)})

\* What was said that the Content-Length takes in.
BodyOf(r) == SubSeq(r.body, 1, r.len)

\* The length of a text is not checked: its field takes what it can.  That there is no body, which the
\* handler asks, is not met: parse_request refuses a POST without a length, and makes a body for any.
PostNewTlvText(r, f, open) ==
  Adds(f, SubSeq(BodyOf(r), 1, r.len % (MaxValue + 1)), open, Status.NO_CT)

\* tlv_guess_type, abstracted: too few bytes, or bytes that are no text, have no type.
Guessed(value) == value \notin {<<>>, CRLF} /\ <<"odd">> \notin ToSet(value)

PostFormTlv(r, f, open) ==
  LET body   == BodyOf(r)
      values == FormValues(r, body)
  IN  IF ~IsForm(r, body) THEN {Fails(f, Status.BADREQ)}
      ELSE IF \E i \in DOMAIN values : Len(values[i]) > MaxValue
      THEN {Says(f, Status.TOO_LARGE, <<>>)}
      ELSE IF Len(values) # 1       THEN {Says(f, Status.BADREQ, <<>>)}
      ELSE IF ~Guessed(values[1])   THEN {Fails(f, Status.UNSUPP_MEDIA)}
      ELSE Adds(f, values[1], open, Status.CREATED)

\* Without a handler, file_response, and an error when there is no such file: get_route_handler has
\* forgotten that a method was wrong.
NoHandler(r, f) ==
  IF r.method # "POST" /\ r.path.dir \in PublicFiles THEN {Says(f, Status.OK, <<>>)}
  ELSE {Says(f, Status.NOTFOUND, <<>>)}

\* route_request
Routed(routes, r, f, open) ==
  LET handler == HandlerOf(routes, r.method, r.path)
  IN  CASE handler = "index"        -> GetIndex(r, f, open)
        [] handler = "media_tlv"    -> GetMediaTlv(r, f)
        [] handler = "hash"         -> GetHash(r, f)
        [] handler = "rm_tlv"       -> PostRmTlv(r, f)
        [] handler = "compact_dz"   -> PostCompactDz(f)
        [] handler = "new_tlv_text" -> PostNewTlvText(r, f, open)
        [] handler = "form_tlv"     -> PostFormTlv(r, f, open)
        [] OTHER                    -> NoHandler(r, f)

=============================================================================
