------------------------------- MODULE TlvStore -------------------------------
(***************************************************************************)
(* What a dazibao promises to the programs that share it: an ordered store *)
(* of TLVs, each at an offset that names it, some of them holding others.  *)
(* Pads, lengths and the place of bytes do not appear here.                *)
(***************************************************************************)
EXTENDS TlvNodes

CONSTANT Shapes     \* what callers add: nodes without their offsets

VARIABLE content    \* the top-level nodes, in the order of the file

-----------------------------------------------------------------------------

Init == content = <<>>

\* A new node behind all others, which stay where they are.
AddTlv(shape) ==
  /\ Len(content') = Len(content) + 1
  /\ IsPrefix(content, content')
  /\ Shape(Last(content')) = shape
  /\ \A off \in OffsetsOf(content) : off < Last(content').off

\* One node goes, with what it holds; every other keeps its value, its place and its offset.
RemoveTlv(off) ==
  /\ off \in OffsetsOf(content)
  /\ content' = Without(content, off)

\* Nodes move, and containers may change, but no data is lost, invented or reordered.
Compact == Leaves(content') = Leaves(content)

Next ==
  \/ \E shape \in Shapes : AddTlv(shape)
  \/ \E off \in OffsetsOf(content) : RemoveTlv(off)
  \/ Compact

Spec == Init /\ [][Next]_content

=============================================================================
