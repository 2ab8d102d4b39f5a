------------------------------ MODULE Partition ------------------------------
(***************************************************************************)
(* partition.c: partitions_lookup reads the label of a disk block by block *)
(* and lists the partitions yaboot may read from, the last one it found at *)
(* the head of the list.                                                   *)
(*                                                                         *)
(* A disk is a record: label (which of the tests for a label it answers),  *)
(* what that label holds, and holds, the partitions Linux would number on  *)
(* it and yaboot wants, which the code does not see: [number, at, fs, the  *)
(* driver for it, reads, firmware can be trusted with it, files].          *)
(*   mac    map: entries [valid, count, at] of blocks 1, 2, ...            *)
(*   gpt    entries [wanted, at]                                           *)
(*   msdos  table: four slots [kind, start, size], ebr: the tables of the  *)
(*          extended partition by block                                    *)
(*   iso    volume: block of the volume descriptor, or NoBlock             *)
(*   amiga  rdb: its block, first: a partition block, parts: by block      *)
(*          [good, next, at]                                               *)
(*   none   block 0 is no label at all                                     *)
(* Every read of the disk and every malloc may fail.                       *)
(***************************************************************************)
EXTENDS Integers, Sequences, FiniteSets

CONSTANTS
  Disks,
  PerBlock,            (* entries of a GPT in one block *)
  FirstVol, LastVol,   (* blocks searched for an ISO volume: 16 .. 99 *)
  RdbMax,              (* AMIGA_RDB_MAX *)
  NoBlock              (* AMIGA_END, and what an unreadable RDB points to *)

(* A FAT16 partition is wanted too, for a file system at its start.        *)
Kinds == {"empty", "linux", "fat", "other", "extended"}

ASSUME DiskAssumption ==
  /\ {PerBlock, FirstVol, LastVol, RdbMax} \subseteq Nat /\ NoBlock \notin Nat
  /\ \A d \in Disks : d.label \in {"mac", "gpt", "msdos", "iso", "amiga", "none"}
  /\ \A d \in Disks : d.label = "msdos" => \A slot \in 1..4 : d.table[slot].kind \in Kinds
  /\ \A d \in Disks : \A g, h \in d.holds : g.at = h.at => g = h

VARIABLES
  pc,
  disk,
  list,     (* what add_new_partition tacked together *)
  walk,     (* the counters of the reader that runs *)
  live,     (* handles of the firmware that are open *)
  failed,   (* history: something failed in this lookup or open *)
  short     (* malloc has returned NULL in this lookup, and would again *)

-----------------------------------------------------------------------------
(***************************************************************************)
(* A plausible error in a definition below, which ListedRight must tell    *)
(* from the code.                                                          *)
(***************************************************************************)
Counted_LinuxOnly(t, i, size) == t[i].kind = "linux"   (* others not numbered *)
-----------------------------------------------------------------------------

Entry(number, at, fat) == [number |-> number, at |-> at, label |-> disk.label, fat |-> fat]

(* add_new_partition: at the head of the list, or lost without memory. *)
Tack(e) ==
  \/ ~short /\ list' = <<e>> \o list /\ UNCHANGED <<short, failed>>
  \/ short' = TRUE /\ failed' = TRUE /\ UNCHANGED list

Nothing == UNCHANGED <<list, short, failed>>
Fails   == failed' = TRUE /\ UNCHANGED <<list, short>>

(* prom_open, block 0 and 1, and which label they are. *)
OpenDisk ==
  /\ pc = "lookup" /\ pc' = "boot" /\ live' = live + 1
  /\ list' = <<>> /\ walk' = [block |-> 0] /\ short' = FALSE /\ UNCHANGED <<disk, failed>>

OpenDiskFails ==
  /\ pc = "lookup" /\ pc' = "listed" /\ list' = <<>> /\ failed' = TRUE
  /\ UNCHANGED <<disk, walk, live, short>>

ReadBoot ==
  /\ pc = "boot"
  /\ pc' = CASE disk.label \in {"amiga", "none"} -> "rdb" [] OTHER -> disk.label
  /\ walk' = CASE disk.label = "mac"   -> [block |-> 1, size |-> 1]
               [] disk.label = "gpt"   -> [entry |-> 1]
               [] disk.label = "msdos" -> [slot |-> 1]
               [] disk.label = "iso"   -> [block |-> FirstVol]
               [] OTHER                -> [block |-> 0]
  /\ Nothing /\ UNCHANGED <<disk, live>>

(* A block size yaboot does not support, or no block 0. *)
BootFails ==
  /\ pc = "boot" /\ pc' = "close" /\ Fails
  /\ UNCHANGED <<disk, walk, live>>

(* Reads of the loops below: each that fails ends its loop. *)
ReadFails ==
  /\ \/ pc = "mac" /\ walk.block <= walk.size
     \/ pc = "gpt" /\ walk.entry = 1
     \/ pc = "chain" /\ walk.row = 1 /\ walk.at < walk.start + walk.size
     \/ pc = "part" /\ walk.part # NoBlock
  /\ pc' = IF pc = "chain" THEN "msdos" ELSE "close"
  /\ walk' = IF pc = "chain" THEN [slot |-> walk.slot + 1] ELSE walk
  /\ Fails /\ UNCHANGED <<disk, live>>

-----------------------------------------------------------------------------
(* partition_mac_lookup: the first entry says how many there are. *)
MacSigned(b) == b \in DOMAIN disk.map /\ disk.map[b].valid

MacEntry ==
  /\ pc = "mac" /\ walk.block <= walk.size /\ MacSigned(walk.block)
  /\ LET e == disk.map[walk.block] IN
     /\ walk' = [block |-> walk.block + 1,
                 size  |-> IF walk.block = 1 THEN e.count ELSE walk.size]
     /\ Tack(Entry(walk.block, e.at, FALSE))
  /\ UNCHANGED <<pc, disk, live>>

MacEnds ==
  /\ pc = "mac" /\ (walk.block > walk.size \/ ~MacSigned(walk.block))
  /\ pc' = "close" /\ Nothing /\ UNCHANGED <<disk, walk, live>>

(* partition_gpt_lookup reads one block of entries; what the loop finds    *)
(* behind it in block_buffer is the header and no partition.               *)
Seen(n) == n <= PerBlock /\ n \in DOMAIN disk.entries

GptEntry ==
  /\ pc = "gpt" /\ Seen(walk.entry)
  /\ LET e == disk.entries[walk.entry] IN
       IF e.wanted THEN Tack(Entry(walk.entry, e.at, TRUE)) ELSE Nothing
  /\ walk' = [entry |-> walk.entry + 1]
  /\ UNCHANGED <<pc, disk, live>>

GptEnds ==
  /\ pc = "gpt" /\ ~Seen(walk.entry)
  /\ pc' = "close" /\ Nothing /\ UNCHANGED <<disk, walk, live>>

-----------------------------------------------------------------------------
(* partition_msdos_lookup: four primary slots ... *)
PrimarySlot ==
  /\ pc = "msdos" /\ walk.slot <= 4
  /\ LET s == disk.table[walk.slot] IN
     /\ pc' = IF s.kind = "extended" THEN "chain" ELSE "msdos"
     /\ walk' = IF s.kind = "extended"
                THEN [slot |-> walk.slot, number |-> 5, start |-> s.start, size |-> s.size,
                      at |-> s.start, atSize |-> s.size, row |-> 1]
                ELSE [slot |-> walk.slot + 1]
     /\ IF s.kind \in {"linux", "fat"}
        THEN Tack(Entry(walk.slot, s.start, s.kind = "fat")) ELSE Nothing
  /\ UNCHANGED <<disk, live>>

PrimaryEnds ==
  /\ pc = "msdos" /\ walk.slot > 4
  /\ pc' = "close" /\ Nothing /\ UNCHANGED <<disk, walk, live>>

(* ... and msdos_parse_extended: a chain of tables, one logical partition  *)
(* in each, though the last two slots may name one that lies inside.       *)
Counted(t, i, size) ==
  /\ t[i].kind \notin {"empty", "extended"}
  /\ i > 2 => t[i].start + t[i].size <= size

Onward(t) == {i \in 1..4 : t[i].kind = "extended"}
FirstOnward(t) == CHOOSE i \in Onward(t) : \A j \in Onward(t) : i <= j

InChain == walk.at < walk.start + walk.size /\ walk.at \in DOMAIN disk.ebr

ChainSlot ==
  /\ pc = "chain" /\ InChain /\ walk.row <= 4
  /\ LET t  == disk.ebr[walk.at]
         it == Counted(t, walk.row, walk.atSize)
     IN  /\ IF it /\ t[walk.row].kind = "linux"
            THEN Tack(Entry(walk.number, walk.at + t[walk.row].start, FALSE)) ELSE Nothing
         /\ walk' = [walk EXCEPT !.row = @ + 1, !.number = IF it THEN @ + 1 ELSE @]
  /\ UNCHANGED <<pc, disk, live>>

ChainOnward ==
  /\ pc = "chain" /\ InChain /\ walk.row > 4
  /\ LET t  == disk.ebr[walk.at]
         on == FirstOnward(t)
     IN  IF Onward(t) = {}
         THEN pc' = "msdos" /\ walk' = [slot |-> walk.slot + 1]
         ELSE /\ UNCHANGED pc
              /\ walk' = [walk EXCEPT !.row = 1, !.at = walk.start + t[on].start, !.atSize = t[on].size]
  /\ Nothing /\ UNCHANGED <<disk, live>>

ChainEnds ==
  /\ pc = "chain" /\ ~InChain
  /\ pc' = "msdos" /\ walk' = [slot |-> walk.slot + 1]
  /\ Nothing /\ UNCHANGED <<disk, live>>

-----------------------------------------------------------------------------
(* identify_iso_fs; a disk without a volume is tried as an Amiga disk. *)
IsoBlock ==
  /\ pc = "iso"
  /\ IF walk.block = disk.volume
     THEN pc' = "close" /\ Tack(Entry(0, walk.block, FALSE)) /\ UNCHANGED walk
     ELSE /\ Nothing
          /\ IF walk.block < LastVol
             THEN UNCHANGED pc /\ walk' = [block |-> walk.block + 1]
             ELSE pc' = "rdb" /\ walk' = [block |-> 0]
  /\ UNCHANGED <<disk, live>>

IsoFails ==
  /\ pc = "iso" /\ pc' = "rdb" /\ walk' = [block |-> 0]
  /\ Fails /\ UNCHANGED <<disk, live>>

(* _amiga_find_rdb never returns -1: whatever block 0 holds is used for an *)
(* RDB when there is none, and its first partition block is none either.   *)
FirstPart(b) == [part |-> b, number |-> 1, used |-> {}]
HasRdb == disk.label = "amiga"

FindRdb ==
  /\ pc = "rdb"
  /\ CASE HasRdb /\ walk.block = disk.rdb -> pc' = "part" /\ walk' = FirstPart(disk.first)
       [] walk.block < RdbMax - 1 /\ ~(HasRdb /\ walk.block = disk.rdb) ->
            UNCHANGED pc /\ walk' = [block |-> walk.block + 1]
       [] OTHER -> pc' = "part" /\ walk' = FirstPart(0)
  /\ Nothing /\ UNCHANGED <<disk, live>>

RdbFails ==
  /\ pc = "rdb" /\ walk.block > 0
  /\ pc' = "part" /\ walk' = FirstPart(0)
  /\ Fails /\ UNCHANGED <<disk, live>>

(* partition_amiga_lookup: a list of blocks, each visited once. *)
GoodPart(b) ==
  /\ HasRdb /\ b \in DOMAIN disk.parts /\ disk.parts[b].good
  /\ b \notin walk.used

AmigaPart ==
  /\ pc = "part" /\ walk.part # NoBlock /\ GoodPart(walk.part)
  /\ LET p == disk.parts[walk.part] IN
     /\ Tack(Entry(walk.number, p.at, FALSE))
     /\ walk' = [part |-> p.next, number |-> walk.number + 1, used |-> walk.used \union {walk.part}]
  /\ UNCHANGED <<pc, disk, live>>

(* The end of it, or a damaged block. *)
AmigaEnds ==
  /\ pc = "part" /\ (walk.part = NoBlock \/ ~GoodPart(walk.part))
  /\ pc' = "close" /\ Nothing /\ UNCHANGED <<disk, walk, live>>

(* No memory for the bitmap of used blocks. *)
NoBitmap ==
  /\ pc = "part" /\ walk.number = 1
  /\ pc' = "close" /\ Fails /\ UNCHANGED <<disk, walk, live>>

-----------------------------------------------------------------------------
CloseDisk ==
  /\ pc = "close" /\ pc' = "listed" /\ live' = live - 1
  /\ Nothing /\ UNCHANGED <<disk, walk>>

Walk ==
  \/ OpenDisk \/ OpenDiskFails \/ ReadBoot \/ BootFails \/ ReadFails
  \/ MacEntry \/ MacEnds \/ GptEntry \/ GptEnds
  \/ PrimarySlot \/ PrimaryEnds \/ ChainSlot \/ ChainOnward \/ ChainEnds
  \/ IsoBlock \/ IsoFails \/ FindRdb \/ RdbFails \/ AmigaPart \/ AmigaEnds \/ NoBitmap
  \/ CloseDisk

-----------------------------------------------------------------------------
(***************************************************************************)
(* What Linux numbers on a disk, read off its label as a whole: triples of *)
(* the number, the place, and whether the slot is one that firmware can be *)
(* trusted with.                                                           *)
(***************************************************************************)
MacParts(d) ==
  {<<b, d.map[b].at, FALSE>> :
     b \in {c \in DOMAIN d.map : (c = 1 \/ c <= d.map[1].count) /\ \A e \in 1..c : d.map[e].valid}}

GptParts(d) == {<<n, d.entries[n].at, TRUE>> : n \in {m \in DOMAIN d.entries : d.entries[m].wanted}}

IsoParts(d) == {<<0, b, FALSE>> : b \in {d.volume} \intersect (FirstVol..LastVol)}

(* Blocks in a row, each named by the one before it. *)
Rows(blocks) == UNION {[1..n -> blocks] : n \in 0..Cardinality(blocks)}

(* Amiga: up to a damaged block, or one that was there before. *)
PartAfter(d, row, k) == IF k = 0 THEN d.first ELSE d.parts[row[k]].next
Sane(d, b) == b \in DOMAIN d.parts /\ d.parts[b].good

IsPartRow(d, row) ==
  /\ \A k \in DOMAIN row : row[k] = PartAfter(d, row, k - 1) /\ Sane(d, row[k])
  /\ \A j, k \in DOMAIN row : row[j] = row[k] => j = k
  /\ LET b == PartAfter(d, row, Len(row)) IN Sane(d, b) => \E j \in DOMAIN row : row[j] = b

PartRow(d) == CHOOSE row \in Rows(DOMAIN d.parts) : IsPartRow(d, row)
AmigaParts(d) == {<<k, d.parts[PartRow(d)[k]].at, FALSE>> : k \in DOMAIN PartRow(d)}

(* The tables of the extended partition s of an msdos label: up to one     *)
(* that names no other, or names one outside.                              *)
Inside(d, s, b) == b < s.start + s.size /\ b \in DOMAIN d.ebr
TableAfter(d, s, row, k) ==
  IF k = 0 THEN s.start ELSE LET t == d.ebr[row[k]] IN s.start + t[FirstOnward(t)].start

IsTableRow(d, s, row) ==
  /\ \A k \in DOMAIN row :
       /\ row[k] = TableAfter(d, s, row, k - 1) /\ Inside(d, s, row[k])
       /\ k > 1 => Onward(d.ebr[row[k - 1]]) # {}
  /\ \/ Len(row) > 0 /\ Onward(d.ebr[row[Len(row)]]) = {}
     \/ ~Inside(d, s, TableAfter(d, s, row, Len(row)))

TableRow(d, s) == CHOOSE row \in Rows(DOMAIN d.ebr) : IsTableRow(d, s, row)
RoomOf(d, s, row, k) == IF k = 1 THEN s.size ELSE LET t == d.ebr[row[k - 1]] IN t[FirstOnward(t)].size

(* The slots of these tables that are logical partitions, in their order.  *)
Logical(d, s) ==
  LET row == TableRow(d, s) IN
  {p \in (DOMAIN row) \X (1..4) :
     LET slot == d.ebr[row[p[1]]][p[2]] IN
     slot.kind \notin {"empty", "extended"} /\ (p[2] > 2 => slot.start + slot.size <= RoomOf(d, s, row, p[1]))}

Earlier(p, q) == p[1] < q[1] \/ (p[1] = q[1] /\ p[2] < q[2])
Ahead(d, s, p) == {q \in Logical(d, s) : Earlier(q, p)}

LogicalPart(d, s, p) ==
  LET b == TableRow(d, s)[p[1]] IN <<5 + Cardinality(Ahead(d, s, p)), b + d.ebr[b][p[2]].start, FALSE>>

LogicalParts(d, s) ==
  {LogicalPart(d, s, p) : p \in {q \in Logical(d, s) : d.ebr[TableRow(d, s)[q[1]]][q[2]].kind = "linux"}}

PrimaryParts(d) ==
  {<<i, d.table[i].start, d.table[i].kind = "fat">> : i \in {j \in 1..4 : d.table[j].kind \in {"linux", "fat"}}}

MsdosParts(d) == PrimaryParts(d) \union UNION {LogicalParts(d, d.table[i]) : i \in Onward(d.table)}

Numbered(d) ==
  CASE d.label = "mac" -> MacParts(d)
    [] d.label = "gpt" -> GptParts(d)
    [] d.label = "msdos" -> MsdosParts(d)
    [] d.label = "iso" -> IsoParts(d)
    [] d.label = "amiga" -> AmigaParts(d)
    [] OTHER -> {}

(* A disk holds what its label says, and the label is one yaboot can read: *)
(* the entries of a GPT are all in one block, there is one extended        *)
(* partition whose tables come to an end, the RDB is among the blocks that *)
(* are searched, and no partition of an Amiga label is described in the    *)
(* first block.                                                            *)
IsSeq(f) == f \in Seq({f[i] : i \in DOMAIN f})

ASSUME LabelAssumption ==
  /\ FirstVol <= LastVol
  /\ \A d \in Disks :
       /\ {<<h.number, h.at>> : h \in d.holds} = {<<p[1], p[2]>> : p \in Numbered(d)}
       /\ \A h \in d.holds, p \in Numbered(d) :
            h.at = p[2] => (h.reads <=> h.fs = "of" /\ d.label # "amiga" /\ (d.label = "msdos" => p[3]))
       /\ d.label = "mac" => IsSeq(d.map) /\ \A b \in DOMAIN d.map : d.map[b].count \in Nat
       /\ d.label = "gpt" => IsSeq(d.entries) /\ Len(d.entries) <= PerBlock
       /\ d.label = "msdos" => \A i \in Onward(d.table) :
            /\ \A j \in Onward(d.table) : i = j
            /\ \E row \in Rows(DOMAIN d.ebr) : IsTableRow(d, d.table[i], row)
       /\ d.label = "amiga" =>
            /\ d.rdb \in 0..RdbMax - 1 /\ {0, NoBlock} \intersect DOMAIN d.parts = {}
            /\ \E row \in Rows(DOMAIN d.parts) : IsPartRow(d, row)

(* Whatever label a disk has, and wherever its reading broke off, what is  *)
(* listed is a partition of that number and place, none twice; when        *)
(* nothing failed all are listed (path_part compares the number only).     *)
(* Each is marked so that of_open reads what firmware can be trusted with. *)
Listed ==
  LET got == {<<list[i].number, list[i].at>> : i \in DOMAIN list}
      all == {<<h.number, h.at>> : h \in disk.holds}
  IN  /\ got \subseteq all
      /\ \A i, j \in DOMAIN list : i # j => list[i].number # list[j].number
      /\ ~failed => got = all
      /\ \A i \in DOMAIN list, h \in disk.holds :
           h.at = list[i].at =>
             (h.reads <=> /\ h.fs = "of" /\ list[i].label # "amiga"
                          /\ list[i].label = "msdos" => list[i].fat)

ListedRight == pc = "listed" => Listed
==============================================================================
