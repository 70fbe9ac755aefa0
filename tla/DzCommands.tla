------------------------------ MODULE DzCommands ------------------------------
(***************************************************************************)
(* The commands of dazicli (src/src/cli): add and alt-add, which make TLVs *)
(* of their arguments and add them to a dazibao, and rm, which makes pads. *)
(* The file operations are those of Mdazibao: a command holds the dazibao  *)
(* from Open to Close.                                                     *)
(***************************************************************************)
EXTENDS DzReading, Making

CONSTANTS
  AddCalls,   \* what add is called with: [args, types, date]
  AltCalls,   \* what alt-add is called with: sequences of tokens
  Stdin,      \* what there is to read on standard input
  Other       \* another dazibao, as bytes

VARIABLES
  cmd,        \* the command that runs, and what it still has to add or remove
  wrapped     \* a TLV was made longer than its length field can say

-----------------------------------------------------------------------------
(* add: one TLV of all the arguments. *)

\* --type names one type for each argument; an argument is [file, data].
\* A file that is empty cannot be mapped.  Types in excess are ignored, a missing one is an error.
AddInputs(call) ==
  [i \in DOMAIN call.args |->
     [data |-> call.args[i].data,
      type |-> IF call.types = <<>> THEN GuessType(call.args[i].data) ELSE call.types[i]]]

Typed(call) ==
  call.types # <<>> => \A i \in DOMAIN call.args : i \in DOMAIN call.types /\ call.types[i] # -1

Mapped(call) == \A i \in DOMAIN call.args : call.args[i].file => call.args[i].data # <<>>

\* cli_mk_tlv; the date is turned to network order before tlv_from_inputs sees it.
CliMkTlv(call) ==
  IF Mapped(call) /\ Typed(call)
  THEN FromInputs(AddInputs(call), IF call.date THEN Swap(Now) ELSE NoDate)
  ELSE [status |-> -1, tlv |-> <<>>, high |-> 0, room |-> 0]

-----------------------------------------------------------------------------
(* alt-add: its arguments are <<"opt", name>>, <<"types", list>>, <<"file", data>>, <<"-">>, <<"other">>     *)
(* and, last, <<"dazibao">>, the path of the dazibao itself, which main passes with the others.             *)

\* An option says - once at most.
IsPlain(token) == token[1] # "opt"

\* check_option_add: the options are taken out, and what is remembered of one is how many arguments
\* came before it; -1 if there is none.
PlainArgs(argv) == SelectSeq(argv, IsPlain)

OptionAt(argv, name) ==
  LET places == {i \in DOMAIN argv : argv[i] = <<"opt", name>>}
      place  == IF name = "type" THEN Max(places) ELSE Min(places)
  IN  IF places = {} THEN -1 ELSE Len(PlainArgs(SubSeq(argv, 1, place - 1)))

StdinAt(argv) ==
  LET plain == PlainArgs(argv)
  IN  IF \E i \in DOMAIN plain : plain[i][1] = "-"
      THEN (CHOOSE i \in DOMAIN plain : plain[i][1] = "-") - 1 ELSE -1

\* What alt-add knows once the types are taken out of its arguments: those after them move down.
Parsed(argv) ==
  LET plain == PlainArgs(argv)
      at    == OptionAt(argv, "type")
      down(i) == IF at >= 0 /\ at < Len(plain) - 1 /\ i > at THEN i - 1 ELSE i
  IN  [args  |-> IF at >= 0 THEN RemoveAt(plain, at + 1) ELSE plain,
       types |-> IF at < 0 THEN <<>>
                 ELSE IF plain[at + 1][1] = "types" THEN plain[at + 1][2] ELSE <<-1>>,
       typed |-> at >= 0,
       date  |-> down(OptionAt(argv, "date")),
       cmpnd |-> down(OptionAt(argv, "compound")),
       dz    |-> down(OptionAt(argv, "dazibao")),
       in    |-> down(StdinAt(argv))]

\* check_type_args; without --type there may only be a dazibao and -.
TypesFit(p) ==
  LET n == Len(p.args)
  IN  IF p.typed THEN /\ \A i \in DOMAIN p.types : p.types[i] # -1
                      /\ Len(p.types) = n - (IF p.dz >= 0 THEN 1 ELSE 0)
      ELSE n <= (IF p.dz >= 0 THEN 1 ELSE 0) + (IF p.in >= 0 THEN 1 ELSE 0)

\* What stands in the file an argument names.
FileOf(arg) ==
  CASE arg[1] = "file"    -> arg[2]
    [] arg[1] = "other"   -> Other
    [] arg[1] = "dazibao" -> mem
    [] OTHER              -> <<>>

\* check_args on argument i, counted from 0: the sizes it adds up are those of the files, without the
\* headers they will get, and -1, for no option, is an index like any other.
SizeFits(p, i) ==
  LET size(k)  == IF p.args[k + 1][1] = "-" THEN 0
                  ELSE Len(FileOf(p.args[k + 1])) - (IF k = p.dz THEN DZ_HEADER ELSE 0)
      cmpnd    == FoldLeft(LAMBDA sum, k : sum + (IF k # p.dz /\ k >= p.cmpnd THEN size(k) ELSE 0),
                           0, [k \in 1 .. i + 1 |-> k - 1])
      dated    == IF p.date <= p.cmpnd /\ i >= p.cmpnd
                  THEN cmpnd + SIZEOF_HEADER + SIZEOF_DATE ELSE size(i)
  IN  p.args[i + 1][1] # "-" => Max({size(i), dated, cmpnd}) <= MaxValue

ArgsFit(p) == TypesFit(p) /\ \A i \in 0 .. Len(p.args) - 1 : SizeFits(p, i)

ArgData(p, i) == IF i = p.in THEN Stdin ELSE FileOf(p.args[i + 1])

\* The types go to the arguments that are no dazibao, in order.
ArgType(p, i) == p.types[i + 1 - (IF p.dz >= 0 /\ p.dz # p.in /\ p.dz < i THEN 1 ELSE 0)]

\* action_add: what becomes of argument i.
ArgTlv(p, i) ==
  IF i # p.in /\ i = p.dz THEN Dz2Tlv(ArgData(p, i)) ELSE CreateTlv(ArgType(p, i), ArgData(p, i))

\* Without the option, no argument has an index as high.
DateAt(p)  == IF p.date = -1 THEN Len(p.args) ELSE p.date
CmpndAt(p) == IF p.cmpnd = -1 THEN Len(p.args) ELSE p.cmpnd

IsDated(p, i) == i >= DateAt(p)

\* A TLV to add for every argument before the compound, and one for those in it.
Recipes(p) ==
  [k \in 1 .. Min({CmpndAt(p) + 1, Len(p.args)}) |->
     IF k - 1 < CmpndAt(p) THEN k - 1 .. k - 1 ELSE CmpndAt(p) .. Len(p.args) - 1]

\* The arguments of a recipe, each dated on its own when --date comes after --compound, in a compound
\* when they come after it, and all of it dated when --date comes first.
InCompound(p, recipe) == Min(recipe) >= CmpndAt(p)

RecipeParts(p, recipe) ==
  [n \in 1 .. Cardinality(recipe) |->
     LET i   == Min(recipe) + n - 1
         tlv == ArgTlv(p, i)
     IN  IF InCompound(p, recipe) /\ IsDated(p, i) /\ DateAt(p) > CmpndAt(p)
         THEN CreateDate(tlv, Now) ELSE tlv]

RecipeOf(p, recipe, parts) ==
  LET tlv == IF InCompound(p, recipe) THEN CreateCompound(parts) ELSE parts
  IN  IF IsDated(p, Max(recipe)) /\ DateAt(p) <= CmpndAt(p) THEN CreateDate(tlv, Now) ELSE tlv

RecipeTlv(p, recipe) == RecipeOf(p, recipe, FlattenSeq(RecipeParts(p, recipe)))

\* How long it would be if no length were wrapped on the way.
RecipeSize(p, recipe) ==
  LET size(i) == SIZEOF_HEADER + Len(ArgData(p, i)) - (IF i = p.dz /\ i # p.in THEN DZ_HEADER ELSE 0)
      dates   == {i \in recipe : InCompound(p, recipe) /\ DateAt(p) > CmpndAt(p) /\ IsDated(p, i)}
      whole   == IsDated(p, Max(recipe)) /\ DateAt(p) <= CmpndAt(p)
  IN  FoldLeft(LAMBDA sum, i : sum + size(i), 0, SetToSeq(recipe))
        + (Cardinality(dates) + (IF whole THEN 1 ELSE 0)) * (SIZEOF_HEADER + SIZEOF_DATE)
        + (IF InCompound(p, recipe) THEN SIZEOF_HEADER ELSE 0)

\* A dazibao cannot be put in itself: dz2tlv opens it, and waits for the lock its own process holds.
TakesItself(p, recipe) == p.dz \in recipe /\ p.dz # p.in /\ p.args[p.dz + 1] = <<"dazibao">>

-----------------------------------------------------------------------------
(* The commands, step by step. *)

\* with is what the command was called with.
Run(op, with, todo) == [op |-> op, with |-> <<with>>, todo |-> todo]

Idle == [op |-> "none", with |-> <<>>, todo |-> <<>>]

CommandsInit ==
  /\ Init /\ MakingInit
  /\ cmd = Idle
  /\ wrapped = FALSE

MayStart == cmd.op = "none" /\ ops < MaxOps /\ ~wrapped /\ srcs = <<>>

\* cli_add
CliAdd(call) ==
  /\ MayStart /\ Open
  /\ cmd' = Run("add", call, <<call>>)
  /\ UNCHANGED wrapped

CliAddMade ==
  LET made == CliMkTlv(cmd.with[1])
  IN  /\ cmd.op = "add" /\ cmd.todo # <<>>
      /\ IF made.status = 0 THEN AddTlv(made.tlv) ELSE UNCHANGED vars
      /\ cmd' = [cmd EXCEPT !.todo = <<>>]
      /\ UNCHANGED wrapped

\* cmd_add: the arguments are checked before the dazibao is opened.
CmdAdd(argv) ==
  LET p == Parsed(argv)
  IN  /\ MayStart
      /\ IF ArgsFit(p)
         THEN /\ ops + Len(Recipes(p)) <= MaxOps
              /\ Open
              /\ cmd' = [Run("alt-add", p, Recipes(p)) EXCEPT !.with = <<p, argv>>]
         ELSE UNCHANGED <<vars, cmd>>
      /\ UNCHANGED wrapped

\* action_add, one TLV: without types, the type of what - reads is at address 0.
ActionAdd ==
  LET p == cmd.with[1]  recipe == Head(cmd.todo)
  IN  /\ cmd.op = "alt-add" /\ cmd.todo # <<>>
      /\ IF TakesItself(p, recipe)
         THEN cmd' = [cmd EXCEPT !.op = "stuck"] /\ UNCHANGED <<vars, wrapped>>
         ELSE IF ~p.typed
         THEN Crash /\ cmd' = Idle /\ UNCHANGED wrapped
         ELSE /\ AddTlv(RecipeTlv(p, recipe))
              /\ cmd' = [cmd EXCEPT !.todo = Tail(@)]
              /\ wrapped' = (wrapped \/ Len(RecipeTlv(p, recipe)) # RecipeSize(p, recipe))

\* cli_rm_tlv, of one offset
CliRmTlv(offset) ==
  /\ MayStart /\ Open
  /\ LET parent == CheckTlvAt(mem, len, offset).parent
     IN  CheckTlvAt(mem, len, offset).st = 1 => ~ShortRest(RmEnd(offset, parent) - RmStart(offset, parent))
  /\ cmd' = Run("rm", offset, <<offset>>)
  /\ UNCHANGED wrapped

RmMade ==
  /\ cmd.op = "rm" /\ cmd.todo # <<>>
  /\ RmTlv(cmd.with[1])
  /\ cmd' = [cmd EXCEPT !.todo = <<>>]
  /\ UNCHANGED wrapped

Finish ==
  /\ cmd.op \in {"add", "alt-add", "rm"} /\ cmd.todo = <<>>
  /\ Close
  /\ cmd' = Idle
  /\ UNCHANGED wrapped

\* Nothing is asked of a dazibao while inputs are made.
Make == cmd.op = "none" /\ ops = 0 /\ len = DZ_HEADER /\ Give /\ UNCHANGED <<vars, cmd, wrapped>>

CommandsNext ==
  \/ /\ \/ \E call \in AddCalls : CliAdd(call)
        \/ CliAddMade
        \/ \E argv \in AltCalls : CmdAdd(argv)
        \/ ActionAdd
        \/ \E offset \in Offsets : CliRmTlv(offset)
        \/ RmMade
        \/ Finish
     /\ UNCHANGED making
  \/ Make

commandVars == <<vars, cmd, wrapped, srcs, timestamp>>

CommandsSpec == CommandsInit /\ [][CommandsNext]_commandVars

-----------------------------------------------------------------------------
(* What the manual says a command adds (docs/manual.md, and the usage text of alternate_cmd.h), and what  *)
(* is there, as nodes [type, val, kids].                                                                  *)

Node(type, val, kids) == [type |-> type, val |-> val, kids |-> kids]

\* What TLVs mean to who reads them: a long one is a TLV of its type, pads are none, and a dated one has
\* its date, read back from network order.
RECURSIVE Meaning(_)
Meaning(bytes) ==
  LET long  == At(bytes, 0) = LONGH
      type  == IF long THEN LongType(bytes, 0) ELSE At(bytes, 0)
      size  == ItemSize(bytes, 0)
      value == IF long THEN LongValue(bytes, 0) ELSE SubSeq(bytes, SIZEOF_HEADER + 1, size)
      node  == CASE type = COMPOUND -> Node(type, <<>>, Meaning(value))
                 [] type = DATED    -> Node(type, <<Swap(value[1])>>,
                                            Meaning(SubSeq(value, SIZEOF_DATE + 1, Len(value))))
                 [] OTHER           -> Node(type, value, <<>>)
  IN  IF bytes = <<>> THEN <<>>
      ELSE (IF IsPad(type) THEN <<>> ELSE <<node>>) \o Meaning(SubSeq(bytes, size + 1, Len(bytes)))

FileMeaning(m, n) == Meaning(SubSeq(m, DZ_HEADER + 1, n))

InCmpnd(nodes)     == Node(COMPOUND, <<>>, nodes)
InDated(date, node) == Node(DATED, <<date>>, <<node>>)

\* add, manual.md:56-69: an input that is no file is a text, others have the type that is named for them,
\* or guessed when none are named or their number is wrong; several are merged into a compound, and the
\* whole is included in a dated TLV, "using the current time", if asked for.
AskedType(call, i) ==
  IF Len(call.types) = Len(call.args) THEN call.types[i]
  ELSE IF call.args[i].file THEN GuessType(call.args[i].data) ELSE TEXT

AskedOfAdd(call) ==
  LET nodes == [i \in DOMAIN call.args |-> Node(AskedType(call, i), call.args[i].data, <<>>)]
      node  == IF Len(nodes) > 1 THEN InCmpnd(nodes) ELSE nodes[1]
  IN  IF call.date THEN InDated(Now, node) ELSE node

\* What add does otherwise than the manual says.  A date is turned to network order twice (cli.c:35,
\* tlv_set_date), unless the dated TLV is a long one; and the type of a text is guessed as that of a file is,
\* while types in excess are ignored.
DateReversed(call) == call.date /\ At(CliMkTlv(call).tlv, 0) # LONGH

Mistyped(call) == \E i \in DOMAIN call.args : AddInputs(call)[i].type # AskedType(call, i)

\* alt-add, manual.md:76-91: its sources are what is neither an option nor the list of types, and the path
\* behind --dazibao is put in a compound; types name the others in order.  Those behind --compound are
\* merged into one TLV, which is dated as a whole if --date is there; else each behind --date is dated.
\* The manual does not mean the last argument, the dazibao itself, to be a source.
Sources(argv) == SelectSeq([i \in DOMAIN argv |-> i], LAMBDA i : argv[i][1] \notin {"opt", "types"})

Behind(argv, i, name) == \E j \in 1 .. i - 1 : argv[j] = <<"opt", name>>

Imported(argv, i) == i > 1 /\ argv[i - 1] = <<"opt", "dazibao">>

TypesOf(argv) == argv[CHOOSE i \in DOMAIN argv : argv[i][1] = "types"][2]

AskedLeaf(argv, i) ==
  LET typed == SelectSeq(Sources(argv), LAMBDA j : ~Imported(argv, j))
      place == CHOOSE k \in DOMAIN typed : typed[k] = i
  IN  IF Imported(argv, i) THEN InCmpnd(FileMeaning(Other, Len(Other)))
      ELSE Node(TypesOf(argv)[place], IF argv[i] = <<"-">> THEN Stdin ELSE FileOf(argv[i]), <<>>)

AskedOfAlt(argv) ==
  LET sources == Sources(argv)
      single  == SelectSeq(sources, LAMBDA i : ~Behind(argv, i, "compound"))
      grouped == SelectSeq(sources, LAMBDA i : Behind(argv, i, "compound"))
      dated(yes, node) == IF yes THEN InDated(Now, node) ELSE node
      cmpnd   == InCmpnd([k \in DOMAIN grouped |-> AskedLeaf(argv, grouped[k])])
  IN  [k \in DOMAIN single |-> dated(Behind(argv, single[k], "date"), AskedLeaf(argv, single[k]))]
        \o (IF grouped = <<>> THEN <<>>
            ELSE <<dated(Behind(argv, Last(grouped), "date"), cmpnd)>>)

\* When --date comes after a source that is in the compound, the sources behind it are dated one by one.
PartsDated(argv) ==
  \E i, j \in ToSet(Sources(argv)) :
    /\ Behind(argv, i, "compound") /\ ~Behind(argv, i, "date")
    /\ Behind(argv, j, "date")

-----------------------------------------------------------------------------

\* A node without dates and without the types of what holds no others.
RECURSIVE Bare(_)
Bare(node) ==
  IF node.type \in {COMPOUND, DATED}
  THEN Node(node.type, <<>>, [i \in DOMAIN node.kids |-> Bare(node.kids[i])])
  ELSE Node(UNKNOWN, node.val, <<>>)

\* The values of the TLVs that hold no others.
RECURSIVE ValuesOf(_)
ValuesOf(nodes) ==
  FlattenSeq([i \in DOMAIN nodes |->
                IF nodes[i].type \in {COMPOUND, DATED} THEN ValuesOf(nodes[i].kids)
                ELSE <<nodes[i].val>>])

\* Every TLV that add and alt-add put in a dazibao reads as what the manual says, however long and however
\* nested, and leaves the others as they were.  What the manual says otherwise is named: a date may come out
\* reversed and a type be another, but not a value or what holds it (Bare); and the parts of a compound may
\* be dated one by one, but the values are those, in order.  Of an alt-add the dazibao itself is one source
\* more, and nothing is said of a TLV whose length was wrapped.
MadeReadsBack ==
  [][/\ CliAddMade /\ ops' # ops =>
          LET call  == cmd.with[1]
              asked == AskedOfAdd(call)
              found == FileMeaning(mem', len')
          IN  /\ Front(found) = FileMeaning(mem, len)
              /\ Bare(Last(found)) = Bare(asked)
              /\ ~DateReversed(call) /\ ~Mistyped(call) => Last(found) = asked
     /\ ActionAdd /\ ops' # ops /\ ~wrapped' =>
          LET argv  == cmd.with[2]
              all   == AskedOfAlt(argv)
              asked == all[Len(all) + 1 - Len(cmd.todo)]
              found == FileMeaning(mem', len')
          IN  /\ Front(found) = FileMeaning(mem, len)
              /\ ValuesOf(<<Last(found)>>) = ValuesOf(<<asked>>)
              /\ ~PartsDated(argv) => Last(found) = asked
    ]_commandVars

\* No command leaves anything but a chain of whole TLVs, short of a wrapped length.
ChainWholeUnlessWrapped == ~wrapped => Whole

\* extract writes every value to a file of its own, once.  It can stop short on an empty value, or where a
\* container makes two names the same; and a long TLV whose last part begins with a small number sends it
\* astray.
ExtractGivesBack ==
  session = "none" /\ ~wrapped =>
    \A stale \in {0, 255} :
      LET done   == ExtractDz(stale)
          nodes  == FileMeaning(mem, len)
          values == ValuesOf(nodes)
          flat   == \A i \in DOMAIN nodes : nodes[i].type \notin {COMPOUND, DATED}
      IN  \/ done.lost
          \/ /\ done.st = 0 => /\ Cardinality(DOMAIN done.files) = Len(values)
                               /\ {done.files[name] : name \in DOMAIN done.files} = ToSet(values)
             /\ flat /\ (\A i \in DOMAIN values : values[i] # <<>>) => done.st = 0

Ascending(s) == \A i, j \in DOMAIN s : i < j => s[i] < s[j]

\* The offsets dump prints are those of the TLVs, in the order of the file and each once, unless the walk
\* went astray behind a long TLV.  There is a page unless it would show a text of no bytes, which it cannot
\* read; then it shows every TLV once, the top level backwards, and at offsets that rm takes.
ListedAreThere ==
  session = "none" /\ ~wrapped =>
    LET dump   == Dump(-1, 255)
        plain  == SelectSeq(dump.lines, LAMBDA line : ~line.long)
        listed == [i \in DOMAIN plain |-> plain[i].off]
        page   == Dz2Html(mem, len)
        top    == SelectSeq(page.offs, LAMBDA o : \E i \in DOMAIN Content : Content[i].off = o)
        blank  == \E o \in OffsetsOf(Content) : At(mem, o) = TEXT /\ At(mem, o + SIZEOF_TYPE) = 0
    IN  /\ dump.st = 0 /\ ~dump.lost => ToSet(listed) = OffsetsOf(Content) /\ Ascending(listed)
        /\ page.st = -1 <=> blank
        /\ page.st = 0 => /\ OffsetsOf(Content) \subseteq ToSet(page.offs)
                          /\ Len(page.offs) = Cardinality(ToSet(page.offs))
                          /\ Ascending(Reverse(top))
                          /\ \A o \in ToSet(page.offs) : CheckTlvAt(mem, len, o).st = 1

-----------------------------------------------------------------------------
(* What the manual says and the commands do not do. *)

\* manual.md:68: with --date "the TLV will be included in a dated one, using the current time."
DatedNow ==
  [][CliAddMade /\ ops' # ops /\ cmd.with[1].date =>
       Last(FileMeaning(mem', len')).val = <<Now>>]_commandVars

=============================================================================
