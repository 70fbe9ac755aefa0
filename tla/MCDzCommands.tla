----------------------------- MODULE MCDzCommands -----------------------------
(* Small calls of the commands for TLC. *)
EXTENDS DzCommands

TextOf(data) == [file |-> FALSE, data |-> data]
FileAt(data) == [file |-> TRUE, data |-> data]

A     == <<65>>
Word  == <<65, 66, 67, 68>>
Empty == <<>>
\* Two parts each: what a walk reads in the last one for a length is large in one and small in the other.
Long  == [i \in 1 .. MaxValue + 2 |-> 200]
LongZ == [i \in 1 .. MaxValue + 2 |-> IF i = MaxValue + 2 THEN 1 ELSE 65]

Call(args, types, date) == [args |-> args, types |-> types, date |-> date]

MCAddCalls ==
  {Call(<<TextOf(A)>>, <<>>, FALSE),
   Call(<<TextOf(Word)>>, <<>>, TRUE),
   Call(<<TextOf(Empty)>>, <<TEXT>>, FALSE),
   Call(<<FileAt(Empty)>>, <<>>, FALSE),
   Call(<<FileAt(Long)>>, <<3>>, FALSE),
   Call(<<FileAt(LongZ)>>, <<3>>, FALSE),
   Call(<<FileAt(Long)>>, <<>>, TRUE),
   Call(<<TextOf(A), FileAt(Word)>>, <<TEXT, 3>>, FALSE),
   Call(<<TextOf(Word), TextOf(Word)>>, <<>>, TRUE),
   Call(<<TextOf(A), TextOf(A)>>, <<TEXT>>, FALSE),
   Call(<<TextOf(Word)>>, <<3, TEXT>>, FALSE),
   Call(<<FileAt(LongZ), TextOf(Word)>>, <<3, TEXT>>, FALSE),
   Call(<<FileAt(Long), TextOf(A)>>, <<3, TEXT>>, TRUE)}

Opt(name)   == <<"opt", name>>
Types(list) == <<"types", list>>
File(data)  == <<"file", data>>
Itself      == <<"dazibao">>
T           == Opt("type")

MCAltCalls ==
  {<<T, Types(<<TEXT>>), File(Word), Itself>>,                      \* as the manual says
   <<T, Types(<<TEXT, 3>>), File(Word), Itself>>,
   <<T, Types(<<TEXT, 3>>), Opt("date"), File(A), Itself>>,
   <<Opt("compound"), T, Types(<<TEXT, 3>>), File(A), Itself>>,
   <<Opt("date"), Opt("compound"), T, Types(<<TEXT, TEXT, 3>>), File(A), File(A), Itself>>,
   <<Opt("compound"), File(A), Opt("date"), T, Types(<<3, TEXT>>), Itself>>,
   <<File(A), Opt("compound"), T, Types(<<TEXT, 3, 3>>), <<"-">>, Itself>>,
   <<Opt("dazibao"), <<"other">>, T, Types(<<3>>), Itself>>,
   <<Opt("dazibao"), Itself>>,
   <<<<"-">>, Opt("dazibao"), Itself>>}

MCStdin == <<66, 66>>
MCOther == <<MAGIC_NUMBER, 0, TEXT, 1, 65>>

\* The ends of the ranges of Unicode's table, and the starts of some signatures.
MCBytes ==
  {0, 9, 31, 65, 66, 77, 128, 143, 144, 159, 160, 187, 191, 193, 194, 223, 224, 237, 239, 240, 244, 245}

\* One input of up to four bytes, to be guessed, or several to be counted.
MCGiven ==
  LET As(n) == [i \in 1 .. n |-> 65]
      sizes == 1 .. MaxValue + 2
  IN  {<<src>> : src \in UNION {[1 .. n -> MCBytes] : n \in 0 .. 4}}
        \cup {<<As(n)>> : n \in 1 .. 3 * MaxValue}
        \cup {<<As(n), As(k)>> : n \in sizes, k \in sizes}
        \cup {<<As(n), As(k), As(l)>> : n \in sizes, k \in sizes, l \in 1 .. 4}

=============================================================================
