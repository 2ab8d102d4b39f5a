----------------------------- MODULE MCOpenFile -----------------------------
(***************************************************************************)
(* One disk for each way partitions_lookup can go: a Mac map, one whose    *)
(* count is too high, a GPT, an msdos chain with a foreign partition in    *)
(* the middle, one with tables of four entries, one that breaks off, a CD  *)
(* with and without a volume, Amiga lists that end and that run in a       *)
(* circle, and a disk without a label that firmware can read all the same. *)
(***************************************************************************)
EXTENDS OpenFile, TLC

Nowhere == -1
Every   == -2

Hold(n, a, f, r, names) == [number |-> n, at |-> a, fs |-> f, reads |-> r, files |-> names]

MapEntry(c, a) == [valid |-> TRUE, count |-> c, at |-> a]

Mac == [label |-> "mac", bare |-> {},
  map   |-> <<MapEntry(3, 1), MapEntry(3, 10), MapEntry(3, 20)>>,
  holds |-> {Hold(1, 1, "map", FALSE, {}), Hold(2, 10, "of", TRUE, {"conf"}),
             Hold(3, 20, "ext2", FALSE, {"image"})}]

MacTooMany == [label |-> "mac", bare |-> {},
  map   |-> <<MapEntry(4, 1), MapEntry(4, 20)>>,
  holds |-> {Hold(1, 1, "map", FALSE, {}), Hold(2, 20, "ext2", FALSE, {"cnf", "image"})}]

Gpt == [label |-> "gpt", bare |-> {},
  entries |-> <<[wanted |-> TRUE, at |-> 2], [wanted |-> FALSE, at |-> 5], [wanted |-> TRUE, at |-> 8]>>,
  holds   |-> {Hold(1, 2, "of", TRUE, {"cnf"}), Hold(3, 8, "reiserfs", FALSE, {"image"})}]

Slot(k, s, n) == [kind |-> k, start |-> s, size |-> n]
Unused == Slot("empty", 0, 0)

Msdos == [label |-> "msdos", bare |-> {},
  table |-> <<Slot("fat", 1, 4), Slot("extended", 10, 20), Slot("linux", 40, 5), Unused>>,
  ebr   |-> 10 :> <<Slot("linux", 1, 3), Slot("extended", 5, 5), Unused, Unused>>
         @@ 15 :> <<Slot("other", 1, 3), Slot("extended", 10, 5), Unused, Unused>>
         @@ 20 :> <<Slot("linux", 1, 3), Unused, Unused, Unused>>,
  holds |-> {Hold(1, 1, "of", TRUE, {"cnf"}), Hold(3, 40, "xfs", FALSE, {}),
             Hold(5, 11, "ext2", FALSE, {"image"}), Hold(7, 21, "xfs", FALSE, {"image"})}]

MsdosFull == [label |-> "msdos", bare |-> {},
  table |-> <<Slot("extended", 10, 20), Unused, Slot("linux", 40, 5), Unused>>,
  ebr   |-> 10 :> <<Slot("linux", 1, 3), Slot("extended", 10, 8),
                    Slot("linux", 4, 3), Slot("linux", 18, 9)>>
         @@ 20 :> <<Slot("extended", 19, 1), Slot("linux", 1, 3),
                    Slot("other", 4, 2), Slot("linux", 6, 2)>>,
  holds |-> {Hold(3, 40, "ext2", FALSE, {"conf"}), Hold(5, 11, "ext2", FALSE, {}),
             Hold(6, 14, "of", FALSE, {}), Hold(7, 21, "ext2", FALSE, {"image"}),
             Hold(9, 26, "reiserfs", FALSE, {})}]

Cd == [label |-> "iso", volume |-> 17, bare |-> {}, holds |-> {Hold(0, 17, "of", TRUE, {"cnf", "image"})}]

CdBlank == [label |-> "iso", volume |-> Nowhere, bare |-> {"cnf"}, holds |-> {}]

Part(n, a) == [good |-> TRUE, next |-> n, at |-> a]

Amiga == [label |-> "amiga", rdb |-> 1, first |-> 3, bare |-> {},
  parts |-> 3 :> Part(6, 30) @@ 6 :> Part(Nowhere, 60),
  holds |-> {Hold(1, 30, "of", FALSE, {}), Hold(2, 60, "ext2", FALSE, {"cnf", "image"})}]

AmigaCircle == [label |-> "amiga", rdb |-> 0, first |-> 3, bare |-> {},
  parts |-> 3 :> Part(6, 30) @@ 6 :> Part(3, 60),
  holds |-> {Hold(1, 30, "xfs", FALSE, {"conf"}), Hold(2, 60, "ext2", FALSE, {"image"})}]

Blank == [label |-> "none", bare |-> {"cnf", "image"}, holds |-> {}]

SomeDisks == {Mac, MacTooMany, Gpt, Msdos, MsdosFull, Cd, CdBlank, Amiga, AmigaCircle, Blank}
TwoNames  == <<"cnf", "conf">>
SomeParts == {Every, 3, 7}
==============================================================================
