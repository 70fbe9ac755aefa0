------------------------------- MODULE TlvNodes -------------------------------
(***************************************************************************)
(* TLVs as trees.  A node is [off, type, leaf, val, kids]: val is a leaf's *)
(* value, or the date of a dated TLV, and kids the TLVs a container holds. *)
(***************************************************************************)
EXTENDS Integers, Sequences, SequencesExt

\* A node without the offsets.
RECURSIVE Shape(_)
Shape(node) ==
  [type |-> node.type, val |-> node.val,
   kids |-> [i \in DOMAIN node.kids |-> Shape(node.kids[i])]]

ShapesOf(nodes) == [i \in DOMAIN nodes |-> Shape(nodes[i])]

\* Every offset that names a node.
RECURSIVE OffsetsOf(_)
OffsetsOf(nodes) ==
  UNION {{nodes[i].off} \cup OffsetsOf(nodes[i].kids) : i \in DOMAIN nodes}

\* The nodes without the one at off, wherever it is.
RECURSIVE Without(_, _)
Without(nodes, off) ==
  FoldLeft(LAMBDA acc, node:
             IF node.off = off THEN acc
             ELSE Append(acc, [node EXCEPT !.kids = Without(@, off)]),
           <<>>, nodes)

\* The values that carry data, in the order of the file, whatever holds them.
RECURSIVE Leaves(_)
Leaves(nodes) ==
  FoldLeft(LAMBDA acc, node:
             IF node.kids # <<>> THEN acc \o Leaves(node.kids)
             ELSE IF node.leaf /\ node.val # <<>> THEN Append(acc, <<node.type, node.val>>)
             ELSE acc,
           <<>>, nodes)

=============================================================================
