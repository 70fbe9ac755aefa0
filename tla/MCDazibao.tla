------------------------------- MODULE MCDazibao -------------------------------
(* Small dazibaos for TLC.  Values are made of 7s and 8s, and 9 is a date. *)
EXTENDS DazibaoContent

Text(value)     == <<TEXT, Len(value)>> \o value
Compound(value) == <<COMPOUND, Len(value)>> \o value
Dated(tlv)      == <<DATED, SIZEOF_DATE + Len(tlv), 9>> \o tlv

Short == Text(<<7>>)
Plain == Text(<<8, 8, 8>>)

\* A value one byte too long for one TLV: a header and two parts.
Long ==
  <<LONGH, SIZEOF_TYPE + SIZEOF_LENGTH, TEXT, MaxValue + 1>>
    \o <<LONGC, MaxValue>> \o [i \in 1 .. MaxValue |-> 7] \o <<LONGC, 1, 8>>

MCInputs ==
  {Short, Plain, Text(<<>>), Compound(<<PAD1>> \o Short), Dated(Compound(Short)), Long}

=============================================================================
