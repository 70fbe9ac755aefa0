------------------------------- MODULE DzReading -------------------------------
(***************************************************************************)
(* The programs that walk a dazibao and say what it holds: dump and        *)
(* extract of dazicli (src/src/cli/cli.c) and the page of the web server   *)
(* (src/src/web/html.c).  The first two open long TLVs, in a copy of their *)
(* value with offsets of its own; the page takes them for TLVs that hold   *)
(* nothing.  m, n and o are a region, the length of what is in it, and an  *)
(* offset, as in TlvLayout.                                                *)
(***************************************************************************)
EXTENDS DazibaoContent, TlvInputs

\* dz_get_ltlv_value: the parts of the long TLV at o, put together.
LongValue(m, o) ==
  LET parts == Walk(m, o + LongTotal(m, o), o + SIZEOF_LONGH, o + LongTotal(m, o) - 1).offs
  IN  FlattenSeq([i \in DOMAIN parts |->
                    SubSeq(m, parts[i] + SIZEOF_HEADER + 1, parts[i] + TlvSize(m, parts[i]))])

LongType(m, o) == At(m, o + SIZEOF_HEADER)

\* ltlv_get_total_length, asked of the tlv_t in which dz_get_ltlv_value has left the last part: what it
\* takes for the length are bytes of that part's value, or whatever follows (stale) if it has too few.
TotalLeft(m, o, stale) ==
  LET parts == Walk(m, o + LongTotal(m, o), o + SIZEOF_LONGH, o + LongTotal(m, o) - 1).offs
      part  == Last(parts)
      data  == IF TlvSize(m, part) > SIZEOF_HEADER + SIZEOF_TYPE
               THEN At(m, part + SIZEOF_HEADER + SIZEOF_TYPE) ELSE stale
  IN  data + NbChunks(data) * SIZEOF_HEADER + SIZEOF_LONGH

\* Where the walk goes on: dz_set_offset refuses an offset past the end, and then the walk is where the
\* last part ended.
AfterParts(m, n, o, stale) ==
  IF o + TotalLeft(m, o, stale) <= n THEN o + TotalLeft(m, o, stale) ELSE o + LongTotal(m, o)

-----------------------------------------------------------------------------
(* dump: the offsets it prints, in order.  lvl counts down from --depth, and stays below 0 from -1.  An     *)
(* offset inside a long TLV's copy counts from the start of that copy: long says so.  st is -1 after an     *)
(* error, and lost says that the walk went on elsewhere than behind a long TLV.                             *)

Printed(st, lines, lost) == [st |-> st, lines |-> lines, lost |-> lost]

Line(o, long) == [off |-> o, long |-> long]

Both(a, b) == Printed(b.st, a.lines \o b.lines, a.lost \/ b.lost)

\* What follows is printed only if nothing failed before.
Then(a, b) == IF a.st = 0 THEN Both(a, b) ELSE a

RECURSIVE PrintDz(_, _, _, _, _, _)
RECURSIVE PrintLtlv(_, _, _, _, _, _)

\* cli_print_dz
PrintDz(m, n, o, lvl, long, stale) ==
  LET read  == NextTlv(m, n, o)
      type  == At(m, o)
      opens == lvl # 0
      line  == Printed(0, <<Line(o, long)>>, FALSE)
      next  == IF opens /\ IsContainer(LongType(m, o)) THEN AfterParts(m, n, o, stale)
               ELSE o + LongTotal(m, o)
      rest  == PrintDz(m, n, read.next, lvl, long, stale)
  IN  IF read.st = EOD       THEN Printed(0, <<>>, FALSE)
      ELSE IF read.st = FAIL THEN Printed(-1, <<>>, FALSE)
      ELSE IF IsPad(type)    THEN rest
      ELSE IF type = LONGH
      THEN LET printed == PrintLtlv(m, n, o, lvl, long, stale)
           IN  Then([printed EXCEPT !.lost = @ \/ next # o + LongTotal(m, o)],
                    PrintDz(m, n, next, lvl, long, stale))
      ELSE IF IsContainer(type) /\ opens
      THEN Then(Both(line, PrintDz(m, o + TlvSize(m, o), o + HeadSize(m, o), lvl - 1, long, stale)), rest)
      ELSE Both(line, rest)

\* cli_print_ltlv
PrintLtlv(m, n, o, lvl, long, stale) ==
  LET value == LongValue(m, o)
      from  == IF LongType(m, o) = DATED THEN SIZEOF_DATE ELSE 0
      line  == Printed(0, <<Line(o, long)>>, FALSE)
  IN  IF IsContainer(LongType(m, o)) /\ lvl # 0
      THEN Both(line, PrintDz(value, Len(value), from, lvl - 1, TRUE, stale))
      ELSE line

\* cli_dump_dz, without --debug
Dump(depth, stale) == PrintDz(mem, len, DZ_HEADER, depth, FALSE, stale)

-----------------------------------------------------------------------------
(* extract: a file for every TLV that holds no others, named after its offset, and its type if it has a   *)
(* name.  Inside a container the offset of the container is added to that of the TLV.                      *)

Named(type) == type \notin {UNKNOWN, LONGC}

NoFiles == [name \in {} |-> <<>>]

Extracted(st, files) == [st |-> st, files |-> files, lost |-> FALSE]

\* cli_write_file, O_EXCL.
WriteFile(s, number, type, value) ==
  LET name == <<number, IF Named(type) THEN type ELSE UNKNOWN>>
  IN  IF name \in DOMAIN s.files THEN [s EXCEPT !.st = -1]
      ELSE [s EXCEPT !.files = name :> value @@ @]

RECURSIVE ExtractAll(_, _, _, _, _, _)
RECURSIVE ExtractLtlv(_, _, _, _, _)
RECURSIVE ExtractTlv(_, _, _, _, _, _)

\* cli_extract_all
ExtractAll(m, n, o, mod, s, stale) ==
  LET read == NextTlv(m, n, o)
      long == read.st >= 0 /\ At(m, o) = LONGH
      done == IF long THEN ExtractLtlv(m, o, mod, s, stale) ELSE ExtractTlv(m, n, o, mod, s, stale)
      next == IF long THEN AfterParts(m, n, o, stale) ELSE read.next
      lost == long /\ next # o + LongTotal(m, o)
  IN  IF read.st = EOD          THEN s
      ELSE IF read.st = FAIL    THEN [s EXCEPT !.st = -1]
      ELSE IF IsPad(At(m, o))   THEN ExtractAll(m, n, read.next, mod, s, stale)
      ELSE IF done.st = -1      THEN done
      ELSE ExtractAll(m, n, next, mod, [done EXCEPT !.lost = @ \/ lost], stale)

\* cli_extract_ltlv
ExtractLtlv(m, o, mod, s, stale) ==
  LET value == LongValue(m, o)
      type  == LongType(m, o)
      from  == IF type = DATED THEN SIZEOF_DATE ELSE 0
  IN  IF IsContainer(type) THEN ExtractAll(value, Len(value), from, o + mod, s, stale)
      ELSE WriteFile(s, o + mod, type, value)

\* A walk that went astray can read past the end.
Value(m, o) == SubSeq(m, o + SIZEOF_HEADER + 1, Min({o + TlvSize(m, o), Len(m)}))

\* Mutant: the TLVs of every container are numbered alike.
ExtractTlv_NoMod(m, n, o, mod, s, stale) ==
  IF IsContainer(At(m, o))
  THEN ExtractAll(m, o + TlvSize(m, o), o + SIZEOF_HEADER, o + mod, s, stale)
  ELSE WriteFile(s, o + mod, At(m, o), Value(m, o))

\* cli_extract_tlv; dz_read_tlv fails on an empty value.
ExtractTlv(m, n, o, mod, s, stale) ==
  IF NextTlv(m, n, o).st < 0      THEN [s EXCEPT !.st = -1]
  ELSE IF IsContainer(At(m, o))
  THEN ExtractAll(m, o + TlvSize(m, o), o + HeadSize(m, o), o + mod, s, stale)
  ELSE IF At(m, o) = LONGH        THEN ExtractLtlv(m, o, mod, s, stale)
  ELSE IF TlvSize(m, o) <= SIZEOF_HEADER THEN [s EXCEPT !.st = -1]
  ELSE WriteFile(s, o + mod, At(m, o), Value(m, o))

\* cli_extract without offsets, in an empty directory.  It reports failure even when all went well.
ExtractDz(stale) == ExtractAll(mem, len, DZ_HEADER, 0, Extracted(0, NoFiles), stale)

-----------------------------------------------------------------------------
(* The page: st is -1 when there is none, because something in it cannot be read, and offs the offsets of    *)
(* the TLVs it shows, in order.                                                                              *)

Shown(st, offs) == [st |-> st, offs |-> offs]

\* One failure gives up the whole page.
ShownAll(parts) ==
  IF \E i \in DOMAIN parts : parts[i].st = -1 THEN Shown(-1, <<>>)
  ELSE Shown(0, FlattenSeq([i \in DOMAIN parts |-> parts[i].offs]))

IsEmptyTlv(m, o) == TlvSize(m, o) = SIZEOF_HEADER

\* html_add_text_tlv: dz_read_tlv takes a value of no bytes for one it could not read.
HtmlAddTextTlv(m, o) == Shown(IF IsEmptyTlv(m, o) THEN -1 ELSE 0, <<>>)

RECURSIVE HtmlAddTlv(_, _, _)

\* html_add_compound_tlv: what the dazibao's own walk meets up to the end of the compound.
HtmlAddCompoundTlv(m, n, o) ==
  LET kids == IF IsEmptyTlv(m, o) THEN <<>> ELSE Walk(m, n, o + SIZEOF_HEADER, o + TlvSize(m, o) - 1).offs
  IN  ShownAll([i \in DOMAIN kids |-> HtmlAddTlv(m, n, kids[i])])

\* html_add_dated_tlv: the one TLV behind the date.
HtmlAddDatedTlv(m, n, o) ==
  LET inner == o + SIZEOF_HEADER + SIZEOF_DATE
  IN  IF IsEmptyTlv(m, o)                   THEN Shown(0, <<>>)
      ELSE IF NextTlv(m, n, inner).st = FAIL THEN Shown(-1, <<>>)
      ELSE HtmlAddTlv(m, n, inner)

\* Mutant: a dated TLV's inside is looked for at its date.
HtmlAddTlv_AtDate(m, n, o) ==
  LET type == At(m, o)
      inside == CASE type = TEXT     -> HtmlAddTextTlv(m, o)
                  [] type = COMPOUND -> HtmlAddCompoundTlv(m, n, o)
                  [] type = DATED    -> HtmlAddTlv(m, n, o + SIZEOF_HEADER)
                  [] OTHER           -> Shown(0, <<>>)
  IN  IF IsPad(type) THEN Shown(0, <<>>) ELSE ShownAll(<<Shown(0, <<o>>), inside>>)

\* html_add_tlv: pads are left out, unless in debug mode.
HtmlAddTlv(m, n, o) ==
  LET type == At(m, o)
      inside == CASE type = TEXT     -> HtmlAddTextTlv(m, o)
                  [] type = COMPOUND -> HtmlAddCompoundTlv(m, n, o)
                  [] type = DATED    -> HtmlAddDatedTlv(m, n, o)
                  [] OTHER           -> Shown(0, <<>>)
  IN  IF IsPad(type) THEN Shown(0, <<>>) ELSE ShownAll(<<Shown(0, <<o>>), inside>>)

\* dz2html: top-level TLVs in reverse order.
Dz2Html(m, n) ==
  LET top == Walk(m, n, DZ_HEADER, n - 1).offs
  IN  ShownAll([i \in DOMAIN top |-> HtmlAddTlv(m, n, top[Len(top) + 1 - i])])

=============================================================================
