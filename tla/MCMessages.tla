------------------------------ MODULE MCMessages ------------------------------
(* Bytes of four values, so that numbers of 64 bits are those below 65536, and *)
(* every limit between two widths is met from both sides; buffers of 8 bytes,  *)
(* so that a value of 64 bits and a string may need more than one.  Components *)
(* of no stat, one and two, whose points differ.                               *)
EXTENDS Messages

MCBase == 4
Around == UNION {{MCBase^k - 1, MCBase^k} : k \in {1, 2, 3, 4}}
            \cup {2 * MCBase^3, MCBase^8 \div 2}
Text(n) == [i \in 1 .. n |-> 1 + (i % (MCBase - 1))]

MCValues ==
       [kind : {"uint", "string_lib"}, value : {0} \cup Around \cup {MCBase^8 - 1}]
  \cup [kind : {"int"}, value : {-i : i \in Around} \cup {0, 5, MCBase^8 \div 2 - 1}]
  \cup [kind : {"float"}, value : {<<3, 0, 1, 2>>}]
  \cup [kind : {"array"}, value : {3, 4, 16, 63, 64}]
  \cup {[kind |-> "string", value |-> Text(n)] : n \in {0, 2, 3, 8, 14, 15, 62, 63}}

MCStats == {<<>>, <<0>>, <<2>>, <<1, 2>>}

=============================================================================
