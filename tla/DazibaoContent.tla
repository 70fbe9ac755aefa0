---------------------------- MODULE DazibaoContent ----------------------------
(***************************************************************************)
(* What the bytes of a dazibao mean, and the properties of its operations: *)
(* they keep the chain of TLVs whole, and they implement the store of      *)
(* TLVs of module TlvStore.                                                *)
(***************************************************************************)
EXTENDS Mdazibao, TlvNodes

HeadSize(m, o) ==
  SIZEOF_HEADER + (IF At(m, o) = DATED THEN SIZEOF_DATE ELSE 0)

\* A long TLV is read with its parts.
ItemSize(m, o) == IF At(m, o) = LONGH THEN LongTotal(m, o) ELSE TlvSize(m, o)

\* The parts behind a long TLV's header make up its length, and are parts.
LongWhole(m, o) ==
  LET walk == Walk(m, o + LongTotal(m, o), o + SIZEOF_LONGH, o + LongTotal(m, o) - 1)
  IN  /\ walk.st >= 0
      /\ walk.next = o + LongTotal(m, o)
      /\ \A i \in DOMAIN walk.offs : At(m, walk.offs[i]) = LONGC

\* The bytes from o to to are a chain of whole TLVs, and so are the values of containers.
WellFormed(m, from, end) ==
  LET whole[o \in Nat, to \in Nat] ==
        \/ o = to
        \/ /\ o < to
           /\ At(m, o) # PAD1 => o + SIZEOF_HEADER <= to
           /\ At(m, o) = LONGH => o + SIZEOF_LONGH <= to
           /\ o + ItemSize(m, o) <= to
           /\ At(m, o) = LONGH => LongWhole(m, o)
           /\ IsContainer(At(m, o)) => whole[o + HeadSize(m, o), o + ItemSize(m, o)]
           /\ whole[o + ItemSize(m, o), to]
  IN  whole[from, end]

Leaf(m, o) ==
  [off |-> o, type |-> At(m, o), leaf |-> TRUE, kids |-> <<>>,
   val |-> SubSeq(m, o + SIZEOF_HEADER + 1, o + ItemSize(m, o))]

Container(m, o, kids) ==
  [off |-> o, type |-> At(m, o), leaf |-> FALSE, kids |-> kids,
   val |-> SubSeq(m, o + SIZEOF_HEADER + 1, o + HeadSize(m, o))]

\* The TLVs between two offsets, as nodes; pads are none.
Tree(m, from, end) ==
  LET tree[o \in Nat, to \in Nat] ==
        IF o = to THEN <<>>
        ELSE (IF IsPad(At(m, o)) THEN <<>>
              ELSE IF IsContainer(At(m, o))
              THEN <<Container(m, o, tree[o + HeadSize(m, o), o + ItemSize(m, o)])>>
              ELSE <<Leaf(m, o)>>)
             \o tree[o + ItemSize(m, o), to]
  IN  tree[from, end]

\* Is there a pad between two offsets, at any depth?
HasPad(m, from, end) ==
  LET has[o \in Nat, to \in Nat] ==
        /\ o < to
        /\ \/ IsPad(At(m, o))
           \/ IsContainer(At(m, o)) /\ has[o + HeadSize(m, o), o + ItemSize(m, o)]
           \/ has[o + ItemSize(m, o), to]
  IN  has[from, end]

OnlyPads(m, from, end) ==
  LET walk == Walk(m, end, from, end - 1)
  IN  walk.st >= 0 /\ walk.next = end /\ \A i \in DOMAIN walk.offs : IsPad(At(m, walk.offs[i]))

EndsWithPad(m, o, to) ==
  LET walk == Walk(m, to, o, to - 1)
  IN  walk.offs # <<>> /\ IsPad(At(m, walk.offs[Len(walk.offs)]))

\* The nodes without the empty ones: leaves of no value, containers left with nothing.
RECURSIVE Pruned(_)
Pruned(nodes) ==
  FoldLeft(LAMBDA acc, node:
             LET kids == Pruned(node.kids)
             IN  IF node.leaf THEN (IF node.val = <<>> THEN acc ELSE Append(acc, node))
                 ELSE IF kids = <<>> THEN acc ELSE Append(acc, [node EXCEPT !.kids = kids]),
           <<>>, nodes)

Whole   == WellFormed(mem, DZ_HEADER, len)
Content == IF Whole THEN Tree(mem, DZ_HEADER, len) ELSE <<>>

Store == INSTANCE TlvStore WITH
  Shapes  <- {Shape(Tree(tlv, 0, Len(tlv))[1]) : tlv \in Inputs},
  content <- Content

-----------------------------------------------------------------------------

\* Every byte is a byte, the dazibao lies inside the region mapped for it, and no operation writes
\* past that region, which is made of whole pages.
TypeOK ==
  /\ session \in Sessions /\ torn \in BOOLEAN
  /\ mem \in Seq(0 .. 255)
  /\ session # "none" => Len(mem) % Page = 0
  /\ len \in DZ_HEADER .. Len(mem)
  /\ ret \in Int /\ ops \in 0 .. MaxOps

\* Whatever is added, removed and compacted, with processes dying in between, the file stays one
\* chain of whole TLVs from its header to its end, and so does the value of every container:
\* dz_next_tlv never runs off the end.
ChainWhole == Whole

\* Adding, removing and compacting do to the TLVs what TlvStore says and nothing else: a removal
\* takes one TLV, the pads it merges hide no other, and offsets a caller holds stay good until the
\* file is compacted, which neither loses nor reorders data.
ImplementsStore == Store!Spec

\* dz_compact returns the bytes it saved (mdazibao.h:256), leaves no pad and no empty TLV at any
\* depth: compacting again would save nothing.
CompactSaves ==
  [][Compact => /\ ret' = len - len'
                /\ ~HasPad(mem, DZ_HEADER, len)'
                /\ Content' = Pruned(Content)']_vars

\* A process that dies with the dazibao open, after additions and removals, leaves the TLVs it had
\* made: what it did not truncate reads as pads.
CrashKeepsContent == [][Crash /\ ~torn' => Content' = Content]_vars

-----------------------------------------------------------------------------
(* What comments of the repository say and the code does not do. *)

\* mdazibao.c:887, 916: "empty TLV, we're removing it" of what dz_compact takes back.  So what a container holds when
\* it is compacted, pads and empty TLVs apart, it still holds afterwards.
CompactKeepsNesting ==
  [][Compact => ShapesOf(Content)' = ShapesOf(Pruned(Content))]_vars

\* mdazibao.h:215: "If it leaves pad1/padN at the end of dazibao, it will be truncated."
RmTruncatesPads ==
  [][\A offset \in Offsets :
       RmTlv(offset) /\ ret' = 0 /\ offset \in OffsetsOf(Content) =>
         ~EndsWithPad(mem, DZ_HEADER, len)']_vars

\* mdazibao.h:245, of the part dz_do_empty empties: "The part is filled with padN/pad1"
EmptiedIsPads ==
  [][\A offset \in Offsets :
       LET found == CheckTlvAt(mem, len, offset)
           start == RmStart(offset, found.parent)
           end   == RmEnd(offset, found.parent)
       IN  RmTlv(offset) /\ ret' = 0 =>
             OnlyPads(mem', start, end)]_vars

\* docs/report.md:77: "it is for instance impossible to remove a tlv inside a long tlv".
LongTlvsWhole == ChainWhole

=============================================================================
