------------------------------ MODULE MCExt2Read ------------------------------
(***************************************************************************)
(* Files of up to six blocks of two bytes, the first two of them direct    *)
(* and the others two to an indirect block: blocks in a row, apart, out of *)
(* order, with holes at the start, in the middle, in front of a block that *)
(* follows on the disk, and all over.                                      *)
(***************************************************************************)
EXTENDS Ext2Read

Layout(s) == [b \in 0..Len(s) - 1 |-> s[b + 1]]

Layouts == {Layout(s) : s \in
  {<<5, 6, 7, 8, 9>>, <<5, 6, 0, 7, 8>>, <<0, 5, 6, 7, 20>>, <<5, 0, 0, 6, 0, 7>>,
   <<9, 8, 4, 5, 0, 2>>, <<5, 0>>, <<0, 0>>, <<5, 6, 0, 0, 7, 8>>}}

Fragments == {Layout(<<5, 6, 9>>)}

SomePositions == 0..13
SomeSizes     == 0..14
==============================================================================
