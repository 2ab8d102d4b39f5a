----------------------------- MODULE MCBootLoad -----------------------------
EXTENDS BootLoad

(***************************************************************************)
(* Memory of 14 steps of which claims may start in the first 12.  The      *)
(* firmware keeps the bottom and sometimes yaboot's image or a step in the *)
(* middle, so that claims are pushed upwards, refused, and separated from  *)
(* the chunk they should extend.                                           *)
(***************************************************************************)
Seg(v, m, f) == [vaddr |-> v, memsz |-> m, filesz |-> f]

OneSegment(dev) ==
  {[dev |-> dev, class |-> c, segs |-> <<Seg(5, m, 1)>>] : c \in {32, 64}, m \in {1, 2}}

(* Two segments with a gap between them, as of text and data. *)
TwoSegments ==
  {[dev |-> "block", class |-> c, segs |-> <<Seg(5, 1, 1), Seg(7, 1, 1)>>] : c \in {32, 64}}

Maps        == {{0}, {0, 4, 7}, {0, 8}}
Loader      == {4}
Bits        == {32, 64}
DiskKernels == OneSegment("block") \union TwoSegments \union
               {[dev |-> "block", class |-> 0, segs |-> <<>>]}
DiskRamdisks ==
  {[dev |-> "block", len |-> n, sized |-> s, told |-> 0] : n \in {1, 3}, s \in BOOLEAN}
  \union {[dev |-> "block", len |-> 3, sized |-> FALSE, told |-> 1]}

(* The network, whose buffer is released twice, takes memory that was     *)
(* granted to others meanwhile; that is a run of its own.                  *)
NetKernels  == {k \in OneSegment("net") : k.class = 64}
NetRamdisks == {[dev |-> "net", len |-> 2, sized |-> TRUE, told |-> 0],
                [dev |-> "block", len |-> 2, sized |-> FALSE, told |-> 1]}
=============================================================================
