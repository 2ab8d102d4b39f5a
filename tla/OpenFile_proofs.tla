--------------------------- MODULE OpenFile_proofs ---------------------------
(***************************************************************************)
(* Between two files nothing of the firmware is left open and the ext2     *)
(* driver is free, and open_file opens the right file or refuses with a    *)
(* reason: for every disk, every sequence of files and every failure.  The *)
(* second rests on what partitions_lookup lists, which is what the label   *)
(* says: of all six kinds, however long the chains of an extended or an    *)
(* Amiga partition are.                                                    *)
(***************************************************************************)
EXTENDS OpenFile, FiniteSetTheorems, SequenceTheorems, TLAPS

-----------------------------------------------------------------------------
(* The firmware's handles *)

Placed == LiveInv /\ PlaceInv

(* Nothing is open before the configuration is looked for. *)
LEMMA InitPlaced == Init => Placed
BY DEF Init, Placed, LiveInv, PlaceInv, Reading, Drivers

(* A step of partitions_lookup opens the disk, closes it, or stays within  *)
(* its readers.                                                            *)
LEMMA WalkPlaced ==
  ASSUME Placed, Walk, UNCHANGED <<caller, want, at, fs, device, opened, unset>>
  PROVE  Placed'
<1> USE DEF Placed, LiveInv, PlaceInv, Reading
<1>1. CASE OpenDisk
  BY <1>1 DEF OpenDisk
<1>2. CASE OpenDiskFails
  BY <1>2 DEF OpenDiskFails
<1>3. CASE ReadBoot
  <2>1. disk.label \in {"mac", "gpt", "msdos", "iso", "amiga", "none"}
    BY DiskAssumption
  <2>2. pc' \in {"mac", "gpt", "msdos", "iso", "rdb"}
    BY <1>3, <2>1 DEF ReadBoot
  <2> QED
    BY <1>3, <2>2 DEF ReadBoot
<1>4. CASE BootFails
  BY <1>4 DEF BootFails
<1>5. CASE ReadFails
  BY <1>5 DEF ReadFails
<1>6. CASE MacEntry \/ MacEnds
  BY <1>6 DEF MacEntry, MacEnds
<1>7. CASE GptEntry \/ GptEnds
  BY <1>7 DEF GptEntry, GptEnds
<1>8. CASE PrimarySlot \/ PrimaryEnds
  BY <1>8 DEF PrimarySlot, PrimaryEnds
<1>9. CASE ChainSlot \/ ChainOnward \/ ChainEnds
  BY <1>9 DEF ChainSlot, ChainOnward, ChainEnds
<1>10. CASE IsoBlock \/ IsoFails
  BY <1>10 DEF IsoBlock, IsoFails
<1>11. CASE FindRdb \/ RdbFails
  BY <1>11 DEF FindRdb, RdbFails
<1>12. CASE AmigaPart \/ AmigaEnds \/ NoBitmap
  BY <1>12 DEF AmigaPart, AmigaEnds, NoBitmap
<1>13. CASE CloseDisk
  BY <1>13 DEF CloseDisk
<1> QED
  BY <1>1, <1>2, <1>3, <1>4, <1>5, <1>6, <1>7, <1>8, <1>9, <1>10, <1>11, <1>12, <1>13 DEF Walk

(* The next driver or the next partition is one there may be. *)
LEMMA NextDriverType ==
  ASSUME at.part \in Nat \ {0}, at.driver \in DOMAIN Drivers, NextDriver
  PROVE  at'.part \in Nat \ {0} /\ at'.driver \in DOMAIN Drivers
BY DEF NextDriver, MoreDrivers, NextPart, Drivers

(* open_file is called with nothing open. *)
LEMMA OpensPlaced ==
  ASSUME Placed, Opens
  PROVE  Placed'
<1> USE DEF Placed, LiveInv, PlaceInv, Reading
<1>1. CASE Walk /\ UNCHANGED <<caller, want, at, fs, device, opened, unset>>
  BY <1>1, WalkPlaced
<1>2. CASE Start \/ SkipPart \/ NotFound
  BY <1>2 DEF Start, SkipPart, NotFound, NextPart, walkVars, Drivers
<1>3. CASE \E dev \in {device, "none", "closed"} : pc = "try" /\ GivesUp(dev)
  BY <1>3, NextDriverType DEF GivesUp
<1>4. CASE pc = "try" /\ \E d \in {"xfs", "reiserfs", "of"} : Succeeds(d) /\ UNCHANGED opened
  BY <1>4 DEF Succeeds
<1>5. CASE Ext2
  BY <1>3, <1>5 DEF Ext2, Succeeds, Trying
<1>6. CASE Xfs \/ Reiserfs \/ OfDriver
  BY <1>3, <1>4, <1>6 DEF Xfs, Reiserfs, OfDriver, Trying
<1>7. CASE DriverFails
  BY <1>3, <1>7 DEF DriverFails, Trying
<1>8. CASE TreeUnreadable
  BY <1>8 DEF TreeUnreadable, Trying
<1>9. CASE Bare \/ BareFails
  BY <1>9 DEF Bare, BareFails, Succeeds
<1>10. CASE Download \/ DownloadFails
  BY <1>10 DEF Download, DownloadFails, Succeeds
<1> QED
  BY <1>1, <1>2, <1>5, <1>6, <1>7, <1>8, <1>9, <1>10 DEF Opens

(* Whoever called closes the file that is open and has none that is not. *)
LEMMA CallsPlaced ==
  ASSUME Placed, Calls
  PROVE  Placed'
<1> USE DEF Placed, LiveInv, PlaceInv, Reading
<1>1. ASSUME NEW d \in Devices, NEW p \in Parts, NEW n, pc = "idle", Open(d, p, n)
      PROVE  Placed'
  BY <1>1, OpenAssumption DEF Open
<1>2. CASE pc = "open" /\ Closed
  <2>1. opened' <=> opened /\ fs # "ext2"
    BY <1>2, Zenon DEF Closed, Shut
  <2>2. ~opened'
    BY <1>2, <2>1
  <2> QED
    BY <1>2, <2>2 DEF Closed
<1>3. CASE Refused
  BY <1>3 DEF Refused
<1> QED
  BY <1>1, <1>2, <1>3 DEF Calls, OpenConfig, OpenOther, ConfigRead, ConfigRefused, MessageShown,
     MessageRefused, KernelRead, KernelRefused, RamdiskRead, RamdiskRefused

(* What is open is always the file at hand. *)
LEMMA PlacedAlways == Spec => []Placed
<1>1. Placed /\ [Next]_vars => Placed'
  <2>1. Placed /\ UNCHANGED vars => Placed'
    BY DEF Placed, LiveInv, PlaceInv, vars, walkVars, Held, HasFile
  <2> QED
    BY <2>1, OpensPlaced, CallsPlaced DEF Next
<1> QED
  BY InitPlaced, <1>1, PTL DEF Spec

(* Whatever failed while a label was walked or a driver tried, no handle   *)
(* is left over for the next file and ext2_open will not find itself busy. *)
THEOREM HandlesAreClosed == Spec => []NothingLeftOpen
<1>1. Placed => NothingLeftOpen
  BY DEF Placed, LiveInv, NothingLeftOpen, Reading
<1> QED
  BY PlacedAlways, <1>1, PTL

-----------------------------------------------------------------------------
(* What partitions_lookup lists *)

IsSequence(s) == \E S : s \in Seq(S)

Triple(e) == <<e.number, e.at, e.fat>>

(* The list l of a disk with that label holds partitions of V, none twice, *)
(* and all of them unless something failed.                                *)
Collects(l, label, fails, V) ==
  /\ \A i \in DOMAIN l : l[i].label = label /\ Triple(l[i]) \in V
  /\ \A i, j \in DOMAIN l : l[i].number = l[j].number => i = j
  /\ ~fails => \A v \in V : \E i \in DOMAIN l : Triple(l[i]) = v

Collected(V) == Collects(list, disk.label, failed, V)

Whole == Numbered(disk)
Below(n) == {v \in Whole : v[1] < n}

(* Each reader has collected what comes before the place it has come to.   *)
MacCame ==
  /\ disk.label = "mac" /\ walk.block \in Nat \ {0}
  /\ walk.size = IF walk.block = 1 THEN 1 ELSE disk.map[1].count
  /\ \A c \in 1..walk.block - 1 : MacSigned(c) /\ (c = 1 \/ c <= disk.map[1].count)
  /\ Collected(Below(walk.block))

GptCame == disk.label = "gpt" /\ walk.entry \in Nat \ {0} /\ Collected(Below(walk.entry))

IsoCame ==
  /\ disk.label = "iso" /\ walk.block \in FirstVol..LastVol /\ Collected({})
  /\ disk.volume \in FirstVol..LastVol => walk.block <= disk.volume

(* A disk without an Amiga label is searched for one when nothing of it    *)
(* has been listed that is there.                                          *)
RdbCame ==
  /\ walk.block \in Nat /\ Collected({})
  /\ IF HasRdb THEN walk.block <= disk.rdb ELSE ~failed => Whole = {}

PartCame ==
  \/ walk.part = 0 /\ Collected({}) /\ (~failed => ~HasRdb /\ Whole = {})
  \/ /\ HasRdb /\ walk.number \in 1..Len(PartRow(disk)) + 1
     /\ walk.part = PartAfter(disk, PartRow(disk), walk.number - 1)
     /\ walk.used = {PartRow(disk)[j] : j \in 1..walk.number - 1}
     /\ Collected(Below(walk.number))

(* The primary slots before n, and what an extended one of them holds.     *)
SlotsBefore(d, n) ==
  {v \in Numbered(d) : v[1] < n \/ (v[1] > 4 /\ \E i \in Onward(d.table) : i < n)}

MsdosCame == disk.label = "msdos" /\ walk.slot \in 1..5 /\ Collected(SlotsBefore(disk, walk.slot))

(* The k-th table of the extended partition s of d, or behind the last.    *)
InTable(d, s, w, k) ==
  /\ w.at = TableAfter(d, s, TableRow(d, s), k - 1)
  /\ w.number = 5 + Cardinality(Ahead(d, s, <<k, w.row>>))
  /\ k = Len(TableRow(d, s)) + 1 => w.row = 1 /\ ~Inside(d, s, w.at)
  /\ k <= Len(TableRow(d, s)) => w.atSize = RoomOf(d, s, TableRow(d, s), k)

ChainBefore(d, slot, n) == {v \in Numbered(d) : v[1] < slot \/ (4 < v[1] /\ v[1] < n)}

Chained(s, w) ==
  /\ DOMAIN w = {"slot", "number", "start", "size", "at", "atSize", "row"}
  /\ w.start = s.start /\ w.size = s.size

ChainCame ==
  /\ disk.label = "msdos" /\ walk.slot \in Onward(disk.table) /\ walk.row \in 1..5
  /\ Chained(disk.table[walk.slot], walk)
  /\ \E k \in 1..Len(TableRow(disk, disk.table[walk.slot])) + 1 : InTable(disk, disk.table[walk.slot], walk, k)
  /\ Collected(ChainBefore(disk, walk.slot, walk.number))

Came ==
  /\ pc = "boot" => Collected({})
  /\ pc = "mac" => MacCame
  /\ pc = "gpt" => GptCame
  /\ pc = "iso" => IsoCame
  /\ pc = "rdb" => RdbCame
  /\ pc = "part" => PartCame
  /\ pc = "msdos" => MsdosCame
  /\ pc = "chain" => ChainCame
  /\ pc \in {"close", "listed"} => Collected(Whole)

(* add_new_partition puts an entry before the others. *)
LEMMA Prepended ==
  ASSUME NEW l, IsSequence(l), NEW e
  PROVE  /\ IsSequence(<<e>> \o l)
         /\ DOMAIN l = 1..Len(l) /\ Len(l) \in Nat
         /\ DOMAIN (<<e>> \o l) = 1..Len(l) + 1
         /\ (<<e>> \o l)[1] = e
         /\ \A i \in DOMAIN l : (<<e>> \o l)[i + 1] = l[i]
<1>1. PICK S : l \in Seq(S)
  BY DEF IsSequence
<1>2. <<e>> \in Seq(S \union {e}) /\ l \in Seq(S \union {e}) /\ Len(<<e>>) = 1
  BY <1>1
<1>3. <<e>> \o l \in Seq(S \union {e}) /\ Len(<<e>> \o l) = 1 + Len(l)
  BY <1>2, ConcatProperties
<1>4. \A i \in 1..1 + Len(l) : (<<e>> \o l)[i] = IF i <= 1 THEN <<e>>[i] ELSE l[i - 1]
  BY <1>2, ConcatProperties
<1>5. Len(l) \in Nat /\ DOMAIN l = 1..Len(l)
  BY <1>1
<1>6. \A i \in DOMAIN l : (<<e>> \o l)[i + 1] = l[i]
  <2> SUFFICES ASSUME NEW i \in 1..Len(l)
               PROVE  (<<e>> \o l)[i + 1] = l[i]
    BY <1>5
  <2>1. i + 1 \in 1..1 + Len(l) /\ ~(i + 1 <= 1) /\ (i + 1) - 1 = i
    BY <1>5
  <2> QED
    BY <1>4, <2>1
<1>7. (<<e>> \o l)[1] = e
  BY <1>4, <1>5
<1>8. DOMAIN (<<e>> \o l) = 1..Len(l) + 1
  BY <1>3, <1>5
<1> QED
  BY <1>3, <1>5, <1>6, <1>7, <1>8 DEF IsSequence

(* So a partition that is new is collected with it. *)
LEMMA OneMore ==
  ASSUME NEW l, IsSequence(l), NEW label, NEW fails, NEW V, Collects(l, label, fails, V),
         NEW e, e.label = label, \A v \in V : v[1] # e.number
  PROVE  Collects(<<e>> \o l, label, fails, V \union {Triple(e)})
<1> DEFINE m == <<e>> \o l
<1>1. /\ DOMAIN l = 1..Len(l) /\ Len(l) \in Nat /\ DOMAIN m = 1..Len(l) + 1 /\ m[1] = e
      /\ \A i \in DOMAIN l : m[i + 1] = l[i]
  BY Prepended
<1> HIDE DEF m
<1>2. \A i \in DOMAIN m : i = 1 \/ (i - 1 \in DOMAIN l /\ m[i] = l[i - 1])
  <2> TAKE i \in DOMAIN m
  <2>1. i = 1 \/ (i - 1 \in 1..Len(l) /\ (i - 1) + 1 = i)
    BY <1>1
  <2> QED
    BY <1>1, <2>1
<1>3. \A i \in DOMAIN l : l[i].number # e.number
  BY DEF Collects, Triple
<1>4. \A i \in DOMAIN m : m[i].label = label /\ Triple(m[i]) \in V \union {Triple(e)}
  BY <1>1, <1>2 DEF Collects
<1>5. ASSUME NEW i \in DOMAIN m, NEW j \in DOMAIN m, m[i].number = m[j].number
      PROVE  i = j
  <2>1. CASE i = 1 \/ j = 1
    BY <1>1, <1>2, <1>3, <1>5, <2>1
  <2>2. CASE i # 1 /\ j # 1
    <3>1. i - 1 = j - 1
      BY <1>2, <1>5, <2>2 DEF Collects
    <3> QED
      BY <1>1, <3>1
  <2> QED
    BY <2>1, <2>2
<1>6. ASSUME ~fails, NEW v \in V \union {Triple(e)}
      PROVE  \E i \in DOMAIN m : Triple(m[i]) = v
  <2>1. CASE v = Triple(e)
    <3>1. 1 \in DOMAIN m
      BY <1>1
    <3> QED
      BY <1>1, <2>1, <3>1
  <2>2. CASE v \in V
    <3>1. PICK i \in DOMAIN l : Triple(l[i]) = v
      BY <1>6, <2>2 DEF Collects
    <3>2. i + 1 \in DOMAIN m
      BY <1>1
    <3> QED
      BY <1>1, <3>1, <3>2
  <2> QED
    BY <1>6, <2>1, <2>2
<1> QED
  BY <1>4, <1>5, <1>6 DEF Collects, m

(* What failed need not be complete. *)
LEMMA FailsAnyway ==
  ASSUME NEW l, NEW label, NEW fails, NEW V, NEW W, Collects(l, label, fails, V), V \subseteq W
  PROVE  Collects(l, label, TRUE, W)
BY DEF Collects

(* A partition is added, or lost to a shortage of memory. *)
LEMMA TackCollects ==
  ASSUME IsSequence(list), NEW V, NEW W, Collected(V), NEW n, NEW a, NEW f, Tack(Entry(n, a, f)),
         W = V \union {<<n, a, f>>}, \A v \in V : v[1] # n
  PROVE  Collects(list', disk.label, failed', W)
<1> DEFINE e == Entry(n, a, f)
<1>1. Triple(e) = <<n, a, f>> /\ e.label = disk.label /\ e.number = n
  BY DEF Entry, Triple
<1> HIDE DEF e
<1>2. CASE list' = <<e>> \o list /\ UNCHANGED failed
  <2>1. Collects(<<e>> \o list, disk.label, failed, V \union {Triple(e)})
    BY <1>1, OneMore DEF Collected
  <2> QED
    BY <1>1, <1>2, <2>1
<1>3. CASE UNCHANGED list /\ failed' = TRUE
  BY <1>3, FailsAnyway DEF Collected
<1> QED
  BY <1>2, <1>3 DEF Tack, e

(* What a reader has collected is part of the whole. *)
LEMMA BelowIsPart == \A n : Below(n) \subseteq Whole
BY DEF Below

(* Nothing is added and nothing fails, or it fails. *)
LEMMA Still ==
  ASSUME NEW V, Collected(V), Nothing
  PROVE  Collects(list', disk.label, failed', V)
BY DEF Collected, Nothing

LEMMA Broken ==
  ASSUME NEW V, Collected(V), Fails, NEW W, V \subseteq W
  PROVE  Collects(list', disk.label, failed', W)
BY FailsAnyway DEF Collected, Fails

(* The label says which partitions there are. *)
LEMMA WholeIs ==
  ASSUME disk \in Disks
  PROVE  /\ disk.label = "mac" => Whole = MacParts(disk)
         /\ disk.label = "gpt" => Whole = GptParts(disk)
         /\ disk.label = "msdos" => Whole = MsdosParts(disk)
         /\ disk.label = "iso" => Whole = IsoParts(disk)
         /\ disk.label = "amiga" => Whole = AmigaParts(disk)
         /\ disk.label = "none" => Whole = {}
BY DEF Whole, Numbered

LEMMA SeqIndex ==
  ASSUME NEW s, IsSeq(s)
  PROVE  DOMAIN s = 1..Len(s) /\ Len(s) \in Nat
BY DEF IsSeq

(* The first of a triple is its number. *)
LEMMA MacNumbers ==
  ASSUME NEW d, NEW v \in MacParts(d)
  PROVE  /\ v[1] \in DOMAIN d.map /\ v = <<v[1], d.map[v[1]].at, FALSE>>
         /\ (v[1] = 1 \/ v[1] <= d.map[1].count) /\ \A e \in 1..v[1] : d.map[e].valid
<1>1. PICK c \in DOMAIN d.map : /\ v = <<c, d.map[c].at, FALSE>>
                               /\ (c = 1 \/ c <= d.map[1].count) /\ \A e \in 1..c : d.map[e].valid
  BY DEF MacParts
<1>2. v[1] = c
  BY <1>1
<1> QED
  BY <1>1, <1>2

LEMMA GptNumbers ==
  ASSUME NEW d, NEW v \in GptParts(d)
  PROVE  v[1] \in DOMAIN d.entries /\ v = <<v[1], d.entries[v[1]].at, TRUE>> /\ d.entries[v[1]].wanted
<1>1. PICK c \in DOMAIN d.entries : v = <<c, d.entries[c].at, TRUE>> /\ d.entries[c].wanted
  BY DEF GptParts
<1>2. v[1] = c
  BY <1>1
<1> QED
  BY <1>1, <1>2

(* The map of a Mac disk: an entry more, or none follows. *)
LEMMA MacStep ==
  ASSUME disk \in Disks, IsSequence(list), Came, MacEntry \/ MacEnds \/ (ReadFails /\ pc = "mac")
  PROVE  Came'
<1>1. MacCame /\ pc = "mac" /\ UNCHANGED disk
  BY DEF Came, MacEntry, MacEnds, ReadFails
<1> DEFINE b == walk.block
           n == disk.map[1].count
<1>2. disk.label = "mac" /\ b \in Nat \ {0} /\ walk.size = (IF b = 1 THEN 1 ELSE n) /\ Collected(Below(b))
      /\ \A c \in 1..b - 1 : MacSigned(c) /\ (c = 1 \/ c <= n)
  BY <1>1 DEF MacCame
<1>3. IsSeq(disk.map) /\ \A c \in DOMAIN disk.map : disk.map[c].count \in Nat
  BY <1>2, LabelAssumption
<1>4. DOMAIN disk.map = 1..Len(disk.map) /\ Len(disk.map) \in Nat
  BY <1>3, SeqIndex
<1>5. Whole = MacParts(disk)
  BY <1>2, WholeIs
<1> HIDE DEF b, n
<1>6. CASE MacEntry
  <2>1. b <= walk.size /\ MacSigned(b) /\ Tack(Entry(b, disk.map[b].at, FALSE)) /\ pc' = "mac"
        /\ walk' = [block |-> b + 1, size |-> IF b = 1 THEN disk.map[b].count ELSE walk.size]
    BY <1>1, <1>6 DEF MacEntry, b
  <2>2. b = 1 \/ b <= n
    BY <1>2, <2>1
  <2>3. b \in DOMAIN disk.map /\ \A c \in 1..b : disk.map[c].valid
    BY <1>2, <2>1 DEF MacSigned
  <2>4. <<b, disk.map[b].at, FALSE>> \in Whole
    BY <1>5, <2>2, <2>3 DEF MacParts, n
  <2>5. \A v \in Whole : v[1] \in Nat /\ (v[1] = b => v = <<b, disk.map[b].at, FALSE>>)
    <3>1. \A v \in Whole : v[1] \in DOMAIN disk.map /\ v = <<v[1], disk.map[v[1]].at, FALSE>>
      BY <1>5, MacNumbers
    <3>2. \A v \in Whole : v[1] \in DOMAIN disk.map
      BY <3>1
    <3>3. \A v \in Whole : v[1] \in Nat
      BY <1>4, <3>2
    <3> QED
      BY <3>1, <3>3
  <2>6. Below(b + 1) = Below(b) \union {<<b, disk.map[b].at, FALSE>>}
    <3>1. \A v \in Whole : v[1] \in Nat
      BY <2>5
    <3>2. \A v \in Whole : v[1] < b + 1 <=> (v[1] < b \/ v[1] = b)
      BY <1>2, <3>1
    <3> QED
      BY <2>4, <2>5, <3>2 DEF Below
  <2>7. \A v \in Below(b) : v[1] # b
    BY <1>2, <2>5 DEF Below
  <2>8. Collects(list', disk.label, failed', Below(b + 1))
    BY <1>2, <2>1, <2>6, <2>7, TackCollects
  <2>9. b + 1 \in Nat \ {0} /\ b + 1 # 1
    BY <1>2
  <2>10. walk'.block = b + 1 /\ walk'.size = n
    BY <1>2, <2>1 DEF n
  <2>11. \A c \in 1..(b + 1) - 1 : MacSigned(c) /\ (c = 1 \/ c <= n)
    BY <1>2, <2>1, <2>2
  <2>12. MacCame'
    BY <1>1, <1>2, <2>8, <2>9, <2>10, <2>11 DEF MacCame, Collected, Below, Whole, MacSigned, n
  <2> QED
    BY <2>1, <2>12 DEF Came
<1>7. CASE MacEnds
  <2>1. pc' = "close" /\ Nothing /\ (b > walk.size \/ ~MacSigned(b))
    BY <1>1, <1>7 DEF MacEnds, b
  <2>2. 1 \in DOMAIN disk.map => n \in Nat
    BY <1>3 DEF n
  <2>3. ASSUME NEW c \in DOMAIN disk.map, c = 1 \/ c <= n, \A e \in 1..c : disk.map[e].valid
        PROVE  c < b
    <3>1. c \in Nat /\ 1 <= c /\ c <= Len(disk.map) /\ n \in Nat
      BY <1>4, <2>2
    <3>2. CASE b > walk.size
      BY <1>2, <2>3, <3>1, <3>2
    <3>3. CASE ~MacSigned(b)
      <4>1. ~(b \in 1..c)
        BY <1>4, <2>3, <3>1, <3>3 DEF MacSigned
      <4> QED
        BY <1>2, <3>1, <4>1
    <3> QED
      BY <2>1, <3>2, <3>3
  <2>4. Below(b) = Whole
    <3>1. \A v \in Whole : v[1] < b
      BY <1>5, <2>3, MacNumbers DEF n
    <3> QED
      BY <3>1 DEF Below
  <2>5. Collects(list', disk.label, failed', Whole)
    BY <1>2, <2>1, <2>4, Still
  <2> QED
    BY <1>1, <2>1, <2>5 DEF Came, Collected, Whole
<1>8. CASE ReadFails
  <2>1. pc' = "close" /\ Fails
    BY <1>1, <1>8 DEF ReadFails
  <2>2. Collects(list', disk.label, failed', Whole)
    BY <1>2, <2>1, Broken, BelowIsPart
  <2> QED
    BY <1>1, <2>1, <2>2 DEF Came, Collected, Whole
<1> QED
  BY <1>6, <1>7, <1>8

(* The entries of a GPT. *)
LEMMA GptStep ==
  ASSUME disk \in Disks, IsSequence(list), Came, GptEntry \/ GptEnds \/ (ReadFails /\ pc = "gpt")
  PROVE  Came'
<1>1. GptCame /\ pc = "gpt" /\ UNCHANGED disk
  BY DEF Came, GptEntry, GptEnds, ReadFails
<1> DEFINE n == walk.entry
<1>2. disk.label = "gpt" /\ n \in Nat \ {0} /\ Collected(Below(n))
  BY <1>1 DEF GptCame
<1>3. IsSeq(disk.entries) /\ Len(disk.entries) <= PerBlock
  BY <1>2, LabelAssumption
<1>4. DOMAIN disk.entries = 1..Len(disk.entries) /\ Len(disk.entries) \in Nat
  BY <1>3, SeqIndex
<1>5. Whole = GptParts(disk)
  BY <1>2, WholeIs
<1> HIDE DEF n
<1>6. CASE GptEntry
  <2>1. n \in DOMAIN disk.entries /\ pc' = "gpt" /\ walk' = [entry |-> n + 1]
    BY <1>1, <1>6 DEF GptEntry, Seen, n
  <2>2. IF disk.entries[n].wanted THEN Tack(Entry(n, disk.entries[n].at, TRUE)) ELSE Nothing
    BY <1>6 DEF GptEntry, n
  <2> DEFINE e == <<n, disk.entries[n].at, TRUE>>
  <2>3. \A v \in Whole : v[1] \in Nat /\ (v[1] = n => v = e /\ disk.entries[n].wanted)
    <3>1. \A v \in Whole : /\ v[1] \in DOMAIN disk.entries /\ disk.entries[v[1]].wanted
                            /\ v = <<v[1], disk.entries[v[1]].at, TRUE>>
      BY <1>5, GptNumbers
    <3>2. \A v \in Whole : v[1] \in DOMAIN disk.entries
      BY <3>1
    <3>3. \A v \in Whole : v[1] \in Nat
      BY <1>4, <3>2
    <3> QED
      BY <3>1, <3>3
  <2>4. \A v \in Whole : v[1] < n + 1 <=> (v[1] < n \/ v[1] = n)
    <3>1. \A v \in Whole : v[1] \in Nat
      BY <2>3
    <3> QED
      BY <1>2, <3>1
  <2>5. \A v \in Below(n) : v[1] # n
    BY <1>2, <2>3 DEF Below
  <2>6. Collects(list', disk.label, failed', Below(n + 1))
    <3>1. CASE disk.entries[n].wanted
      <4>1. e \in Whole
        BY <1>5, <2>1, <3>1 DEF GptParts
      <4>2. Below(n + 1) = Below(n) \union {e}
        BY <2>3, <2>4, <4>1 DEF Below
      <4> QED
        BY <1>2, <2>2, <2>5, <3>1, <4>2, TackCollects
    <3>2. CASE ~disk.entries[n].wanted
      <4>1. Below(n + 1) = Below(n)
        BY <2>3, <2>4, <3>2 DEF Below
      <4> QED
        BY <1>2, <2>2, <3>2, <4>1, Still
    <3> QED
      BY <3>1, <3>2
  <2>7. GptCame'
    BY <1>1, <1>2, <2>1, <2>6 DEF GptCame, Collected, Below, Whole
  <2> QED
    BY <2>1, <2>7 DEF Came
<1>7. CASE GptEnds
  <2>1. pc' = "close" /\ Nothing /\ ~Seen(n)
    BY <1>1, <1>7 DEF GptEnds, n
  <2>2. \A c \in DOMAIN disk.entries : c < n
    BY <1>2, <1>3, <1>4, <2>1, DiskAssumption DEF Seen
  <2>3. Below(n) = Whole
    <3>1. \A v \in Whole : v[1] < n
      BY <1>5, <2>2, GptNumbers
    <3> QED
      BY <3>1 DEF Below
  <2>4. Collects(list', disk.label, failed', Whole)
    BY <1>2, <2>1, <2>3, Still
  <2> QED
    BY <1>1, <2>1, <2>4 DEF Came, Collected, Whole
<1>8. CASE ReadFails
  <2>1. pc' = "close" /\ Fails
    BY <1>1, <1>8 DEF ReadFails
  <2>2. Collects(list', disk.label, failed', Whole)
    BY <1>2, <2>1, Broken, BelowIsPart
  <2> QED
    BY <1>1, <2>1, <2>2 DEF Came, Collected, Whole
<1> QED
  BY <1>6, <1>7, <1>8

(* The blocks where a CD may have its volume. *)
LEMMA IsoStep ==
  ASSUME disk \in Disks, IsSequence(list), Came, IsoBlock \/ IsoFails
  PROVE  Came'
<1>1. IsoCame /\ pc = "iso" /\ UNCHANGED disk
  BY DEF Came, IsoBlock, IsoFails
<1> DEFINE b == walk.block
<1>2. disk.label = "iso" /\ b \in FirstVol..LastVol /\ Collected({})
      /\ (disk.volume \in FirstVol..LastVol => b <= disk.volume)
  BY <1>1 DEF IsoCame
<1>3. Whole = IsoParts(disk)
  BY <1>2, WholeIs
<1>4. FirstVol \in Nat /\ LastVol \in Nat /\ RdbMax \in Nat
  BY DiskAssumption
<1>5. ~HasRdb
  BY <1>2 DEF HasRdb
<1>6. CASE IsoBlock /\ b = disk.volume
  <2>1. pc' = "close" /\ Tack(Entry(0, b, FALSE))
    BY <1>6 DEF IsoBlock
  <2> DEFINE none == {}
  <2>2. Whole = none \union {<<0, b, FALSE>>} /\ \A v \in none : v[1] # 0
    BY <1>2, <1>3, <1>6 DEF IsoParts
  <2>3. Collected(none)
    BY <1>2
  <2> HIDE DEF b, none
  <2>4. Collects(list', disk.label, failed', Whole)
    BY <2>1, <2>2, <2>3, TackCollects
  <2> QED
    BY <1>1, <2>1, <2>4 DEF Came, Collected, Whole
<1>7. CASE IsoBlock /\ b # disk.volume
  <2>1. Nothing
    BY <1>7 DEF IsoBlock
  <2>2. Collects(list', disk.label, failed', {})
    BY <1>2, <2>1, Still
  <2>3. CASE b < LastVol
    <3>1. pc' = "iso" /\ walk' = [block |-> b + 1]
      BY <1>1, <1>7, <2>3 DEF IsoBlock
    <3>2. b + 1 \in FirstVol..LastVol
      BY <1>2, <1>4, <2>3
    <3>3. disk.volume \in FirstVol..LastVol => b + 1 <= disk.volume
      BY <1>2, <1>4, <1>7
    <3>4. IsoCame'
      BY <1>1, <1>2, <2>2, <3>1, <3>2, <3>3 DEF IsoCame, Collected
    <3> QED
      BY <3>1, <3>4 DEF Came
  <2>4. CASE ~(b < LastVol)
    <3>1. pc' = "rdb" /\ walk' = [block |-> 0]
      BY <1>7, <2>4 DEF IsoBlock
    <3>2. disk.volume \notin FirstVol..LastVol
      BY <1>2, <1>4, <1>7, <2>4
    <3>3. Whole = {}
      BY <1>3, <3>2 DEF IsoParts
    <3>4. RdbCame'
      BY <1>1, <1>5, <2>2, <3>1, <3>3 DEF RdbCame, Collected, Whole, HasRdb
    <3> QED
      BY <3>1, <3>4 DEF Came
  <2> QED
    BY <2>3, <2>4
<1>8. CASE IsoFails
  <2>1. pc' = "rdb" /\ walk' = [block |-> 0] /\ Fails /\ failed'
    BY <1>8 DEF IsoFails, Fails
  <2>2. Collects(list', disk.label, failed', {})
    BY <1>2, <2>1 DEF Collects, Collected, Fails
  <2>3. RdbCame'
    BY <1>1, <1>5, <2>1, <2>2 DEF RdbCame, Collected, HasRdb
  <2> QED
    BY <2>1, <2>3 DEF Came
<1> QED
  BY <1>6, <1>7, <1>8

(* A row of blocks is a sequence of them. *)
LEMMA RowShape ==
  ASSUME NEW blocks, NEW row \in Rows(blocks)
  PROVE  DOMAIN row = 1..Len(row) /\ Len(row) \in Nat
<1>1. PICK n \in 0..Cardinality(blocks) : row \in [1..n -> blocks]
  BY DEF Rows
<1>2. n \in Nat
  OBVIOUS
<1>3. row \in Seq(blocks)
  BY <1>1, <1>2
<1> QED
  BY <1>3

(* The list of an Amiga label. *)
LEMMA AmigaRow ==
  ASSUME disk \in Disks, HasRdb
  PROVE  /\ IsPartRow(disk, PartRow(disk))
         /\ DOMAIN PartRow(disk) = 1..Len(PartRow(disk)) /\ Len(PartRow(disk)) \in Nat
         /\ disk.rdb \in 0..RdbMax - 1 /\ 0 \notin DOMAIN disk.parts /\ NoBlock \notin DOMAIN disk.parts
         /\ Whole = AmigaParts(disk)
<1>1. disk.label = "amiga"
  BY DEF HasRdb
<1>2. \E row \in Rows(DOMAIN disk.parts) : IsPartRow(disk, row)
  BY <1>1, LabelAssumption
<1>3. PartRow(disk) \in Rows(DOMAIN disk.parts) /\ IsPartRow(disk, PartRow(disk))
  BY <1>2, Zenon DEF PartRow
<1>4. disk.rdb \in 0..RdbMax - 1 /\ {0, NoBlock} \intersect DOMAIN disk.parts = {}
  BY <1>1, LabelAssumption
<1> QED
  BY <1>1, <1>3, <1>4, RowShape, WholeIs

LEMMA AmigaNumbers ==
  ASSUME NEW d, NEW v \in AmigaParts(d)
  PROVE  v[1] \in DOMAIN PartRow(d) /\ v = <<v[1], d.parts[PartRow(d)[v[1]]].at, FALSE>>
<1>1. PICK c \in DOMAIN PartRow(d) : v = <<c, d.parts[PartRow(d)[c]].at, FALSE>>
  BY DEF AmigaParts
<1>2. v[1] = c
  BY <1>1
<1> QED
  BY <1>1, <1>2

(* The blocks where an Amiga disk may have its RDB. *)
LEMMA RdbStep ==
  ASSUME disk \in Disks, Came, FindRdb \/ RdbFails
  PROVE  Came'
<1>1. RdbCame /\ pc = "rdb" /\ UNCHANGED disk
  BY DEF Came, FindRdb, RdbFails
<1> DEFINE b == walk.block
<1>2. b \in Nat /\ Collected({}) /\ (HasRdb => b <= disk.rdb) /\ (~HasRdb /\ ~failed => Whole = {})
  BY <1>1 DEF RdbCame
<1>3. RdbMax \in Nat
  BY DiskAssumption
<1>4. CASE FindRdb
  <2>1. Nothing
    BY <1>4 DEF FindRdb
  <2>2. Collects(list', disk.label, failed', {}) /\ (failed' <=> failed)
    BY <1>2, <2>1, Still DEF Nothing
  <2>3. CASE HasRdb /\ b = disk.rdb
    <3>1. pc' = "part" /\ walk' = FirstPart(disk.first)
      BY <1>4, <2>3 DEF FindRdb
    <3>2. walk'.part = disk.first /\ walk'.number = 1 /\ walk'.used = {}
      BY <3>1 DEF FirstPart
    <3> DEFINE row == PartRow(disk)
    <3>3. DOMAIN row = 1..Len(row) /\ Len(row) \in Nat /\ Whole = AmigaParts(disk)
      BY <2>3, AmigaRow
    <3>4. \A v \in Whole : v[1] \in DOMAIN row
      BY <3>3, AmigaNumbers
    <3>5. \A v \in Whole : ~ (v[1] < 1)
      BY <3>3, <3>4
    <3>6. Below(1) = {}
      BY <3>5 DEF Below
    <3> HIDE DEF row
    <3>7. 1 \in 1..Len(row) + 1 /\ 1 - 1 = 0 /\ {row[j] : j \in 1..0} = {}
      BY <3>3
    <3>8. disk.first = PartAfter(disk, row, 0)
      BY DEF PartAfter
    <3>9. PartCame'
      BY <1>1, <2>2, <2>3, <3>2, <3>6, <3>7, <3>8 DEF PartCame, Collected, Below, Whole, HasRdb, row
    <3> QED
      BY <3>1, <3>9 DEF Came
  <2>4. CASE ~(HasRdb /\ b = disk.rdb) /\ b < RdbMax - 1
    <3>1. pc' = "rdb" /\ walk' = [block |-> b + 1]
      BY <1>1, <1>4, <2>4 DEF FindRdb
    <3>2. b + 1 \in Nat
      BY <1>2
    <3>3. HasRdb => b + 1 <= disk.rdb
      <4> SUFFICES ASSUME HasRdb PROVE b + 1 <= disk.rdb
        OBVIOUS
      <4>1. disk.rdb \in 0..RdbMax - 1
        BY AmigaRow
      <4> QED
        BY <1>2, <1>3, <2>4, <4>1
    <3>4. RdbCame'
      BY <1>1, <1>2, <2>2, <3>1, <3>2, <3>3 DEF RdbCame, Collected, HasRdb, Whole
    <3> QED
      BY <3>1, <3>4 DEF Came
  <2>5. CASE ~(HasRdb /\ b = disk.rdb) /\ ~(b < RdbMax - 1)
    <3>1. pc' = "part" /\ walk' = FirstPart(0)
      BY <1>4, <2>5 DEF FindRdb
    <3>2. ~HasRdb
      <4> SUFFICES ASSUME HasRdb PROVE FALSE
        OBVIOUS
      <4>1. disk.rdb \in 0..RdbMax - 1
        BY AmigaRow
      <4> QED
        BY <1>2, <1>3, <2>5, <4>1
    <3>3. walk'.part = 0
      BY <3>1 DEF FirstPart
    <3>4. PartCame'
      BY <1>1, <1>2, <2>2, <3>2, <3>3 DEF PartCame, Collected, HasRdb, Whole
    <3> QED
      BY <3>1, <3>4 DEF Came
  <2> QED
    BY <2>3, <2>4, <2>5
<1>5. CASE RdbFails
  <2>1. pc' = "part" /\ walk' = FirstPart(0) /\ Fails /\ failed'
    BY <1>5 DEF RdbFails, Fails
  <2>2. Collects(list', disk.label, failed', {})
    BY <1>2, <2>1 DEF Collects, Collected, Fails
  <2>3. walk'.part = 0
    BY <2>1 DEF FirstPart
  <2>4. PartCame'
    BY <1>1, <2>1, <2>2, <2>3 DEF PartCame, Collected
  <2> QED
    BY <2>1, <2>4 DEF Came
<1> QED
  BY <1>4, <1>5

(* The list is through with a block that is not the next of it. *)
LEMMA PartRest ==
  ASSUME disk \in Disks, PartCame,
         Fails \/ (Nothing /\ (walk.part = NoBlock \/ ~GoodPart(walk.part)))
  PROVE  Collects(list', disk.label, failed', Whole)
<1>1. CASE walk.part = 0 /\ Collected({}) /\ (~failed => ~HasRdb /\ Whole = {})
  BY <1>1 DEF Collects, Collected, Fails, Nothing
<1>2. CASE ~(walk.part = 0 /\ Collected({}) /\ (~failed => ~HasRdb /\ Whole = {}))
  <2> DEFINE row == PartRow(disk)
             k == walk.number
  <2>1. /\ HasRdb /\ k \in 1..Len(row) + 1 /\ walk.part = PartAfter(disk, row, k - 1)
        /\ walk.used = {row[j] : j \in 1..k - 1} /\ Collected(Below(k))
    BY <1>2 DEF PartCame
  <2>2. /\ IsPartRow(disk, row) /\ DOMAIN row = 1..Len(row) /\ Len(row) \in Nat /\ NoBlock \notin DOMAIN disk.parts
        /\ Whole = AmigaParts(disk)
    BY <2>1, AmigaRow
  <2> HIDE DEF row, k
  <2>3. CASE Fails
    BY <2>1, <2>3, Broken, BelowIsPart
  <2>4. CASE Nothing /\ (walk.part = NoBlock \/ ~GoodPart(walk.part))
    <3>1. k = Len(row) + 1
      <4> SUFFICES ASSUME k # Len(row) + 1 PROVE FALSE
        OBVIOUS
      <4>1. k \in DOMAIN row
        BY <2>1, <2>2
      <4>2. walk.part = row[k] /\ Sane(disk, row[k]) /\ \A j \in DOMAIN row : row[j] = row[k] => j = k
        BY <2>1, <2>2, <4>1 DEF IsPartRow
      <4>3. walk.part \in walk.used
        BY <2>1, <2>2, <2>4, <4>2 DEF GoodPart, Sane
      <4>4. PICK j \in 1..k - 1 : row[j] = row[k]
        BY <2>1, <4>2, <4>3
      <4>5. j \in DOMAIN row /\ j # k
        BY <2>1, <2>2
      <4> QED
        BY <4>2, <4>4, <4>5
    <3>2. \A v \in Whole : v[1] \in DOMAIN row
      BY <2>2, AmigaNumbers DEF row
    <3>3. \A v \in Whole : v[1] < k
      BY <2>2, <3>1, <3>2
    <3>4. Below(k) = Whole
      BY <3>3 DEF Below
    <3> QED
      BY <2>1, <2>4, <3>4, Still
  <2> QED
    BY <2>3, <2>4
<1> QED
  BY <1>1, <1>2

(* The list of an Amiga label: a partition more, or none follows. *)
LEMMA PartStep ==
  ASSUME disk \in Disks, IsSequence(list), Came, AmigaPart \/ AmigaEnds \/ NoBitmap \/ (ReadFails /\ pc = "part")
  PROVE  Came'
<1>1. PartCame /\ pc = "part" /\ UNCHANGED disk
  BY DEF Came, AmigaPart, AmigaEnds, NoBitmap, ReadFails
<1>2. CASE AmigaPart
  <2> DEFINE row == PartRow(disk)
             k == walk.number
             b == walk.part
  <2>1. /\ HasRdb /\ b \in DOMAIN disk.parts /\ disk.parts[b].good /\ b \notin walk.used /\ pc' = "part"
        /\ Tack(Entry(k, disk.parts[b].at, FALSE))
        /\ walk' = [part |-> disk.parts[b].next, number |-> k + 1, used |-> walk.used \union {b}]
    BY <1>1, <1>2 DEF AmigaPart, GoodPart
  <2>2. /\ IsPartRow(disk, row) /\ DOMAIN row = 1..Len(row) /\ Len(row) \in Nat
        /\ 0 \notin DOMAIN disk.parts /\ Whole = AmigaParts(disk)
    BY <2>1, AmigaRow
  <2>3. /\ k \in 1..Len(row) + 1 /\ b = PartAfter(disk, row, k - 1)
        /\ walk.used = {row[j] : j \in 1..k - 1} /\ Collected(Below(k))
    BY <1>1, <2>1, <2>2 DEF PartCame
  <2> HIDE DEF row, k, b
  <2>4. k \in DOMAIN row
    <3> SUFFICES ASSUME k \notin DOMAIN row PROVE FALSE
      OBVIOUS
    <3>1. k - 1 = Len(row)
      BY <2>2, <2>3
    <3>2. \E j \in DOMAIN row : row[j] = b
      BY <2>1, <2>2, <2>3, <3>1 DEF IsPartRow, Sane
    <3> QED
      BY <2>1, <2>2, <2>3, <3>1, <3>2
  <2>5. row[k] = b
    BY <2>2, <2>3, <2>4 DEF IsPartRow
  <2> DEFINE e == <<k, disk.parts[b].at, FALSE>>
  <2>6. e \in Whole
    BY <2>2, <2>4, <2>5 DEF AmigaParts, row
  <2>7. \A v \in Whole : v[1] \in DOMAIN row /\ v = <<v[1], disk.parts[row[v[1]]].at, FALSE>>
    BY <2>2, AmigaNumbers DEF row
  <2>8. \A v \in Whole : v[1] \in DOMAIN row
    BY <2>7
  <2>9. \A v \in Whole : v[1] = k => v = e
    BY <2>5, <2>7
  <2> HIDE DEF e
  <2>10. \A v \in Whole : v[1] # k \/ ~ (v[1] < k)
    BY <2>2, <2>3, <2>8
  <2>11. \A v \in Whole : v[1] < k + 1 <=> (v[1] < k \/ v[1] = k)
    BY <2>2, <2>3, <2>8
  <2>12. Below(k + 1) = Below(k) \union {e} /\ \A v \in Below(k) : v[1] # k
    <3>1. e[1] = k
      BY DEF e
    <3> QED
      BY <2>6, <2>9, <2>10, <2>11, <3>1 DEF Below
  <2>13. Collects(list', disk.label, failed', Below(k + 1))
    BY <2>1, <2>3, <2>12, TackCollects DEF e
  <2>14. k + 1 \in 1..Len(row) + 1 /\ (k + 1) - 1 = k /\ k # 0
    BY <2>2, <2>4
  <2>15. disk.parts[b].next = PartAfter(disk, row, k)
    BY <2>5, <2>14 DEF PartAfter
  <2>16. walk.used \union {b} = {row[j] : j \in 1..k}
    <3>1. \A j : j \in 1..k <=> (j \in 1..k - 1 \/ j = k)
      BY <2>2, <2>4
    <3> QED
      BY <2>3, <2>5, <3>1
  <2>17. PartCame'
    <3>1. walk'.part = disk.parts[b].next /\ walk'.number = k + 1 /\ walk'.used = walk.used \union {b}
      BY <2>1
    <3> QED
      BY <1>1, <2>1, <2>13, <2>14, <2>15, <2>16, <3>1 DEF PartCame, Collected, Below, Whole, HasRdb, row
  <2> QED
    BY <2>1, <2>17 DEF Came
<1>3. CASE AmigaEnds \/ NoBitmap \/ ReadFails
  <2>1. /\ pc' = "close"
        /\ Fails \/ (Nothing /\ (walk.part = NoBlock \/ ~GoodPart(walk.part)))
    BY <1>1, <1>3 DEF AmigaEnds, NoBitmap, ReadFails
  <2>2. Collects(list', disk.label, failed', Whole)
    BY <1>1, <2>1, PartRest
  <2> QED
    BY <1>1, <2>1, <2>2 DEF Came, Collected, Whole
<1> QED
  BY <1>2, <1>3

(* The tables of the extended partition. *)
LEMMA TableRowIs ==
  ASSUME disk \in Disks, disk.label = "msdos", NEW i \in Onward(disk.table)
  PROVE  /\ IsTableRow(disk, disk.table[i], TableRow(disk, disk.table[i]))
         /\ DOMAIN TableRow(disk, disk.table[i]) = 1..Len(TableRow(disk, disk.table[i]))
         /\ Len(TableRow(disk, disk.table[i])) \in Nat
         /\ \A j \in Onward(disk.table) : j = i
<1> DEFINE s == disk.table[i]
<1>1. /\ \A j \in Onward(disk.table) : i = j
      /\ \E row \in Rows(DOMAIN disk.ebr) : IsTableRow(disk, s, row)
  BY LabelAssumption
<1> HIDE DEF s
<1>2. TableRow(disk, s) \in Rows(DOMAIN disk.ebr) /\ IsTableRow(disk, s, TableRow(disk, s))
  BY <1>1, Zenon DEF TableRow
<1> QED
  BY <1>1, <1>2, RowShape DEF s

(* The slots of it that are logical partitions are in order and many. *)
IsRow(d, s) == DOMAIN TableRow(d, s) = 1..Len(TableRow(d, s)) /\ Len(TableRow(d, s)) \in Nat

LEMMA LogicalShape ==
  ASSUME NEW d, NEW s, IsRow(d, s)
  PROVE  /\ \A p \in Logical(d, s) :
              p = <<p[1], p[2]>> /\ p[1] \in 1..Len(TableRow(d, s)) /\ p[2] \in 1..4
         /\ \A p : IsFiniteSet(Ahead(d, s, p)) /\ Cardinality(Ahead(d, s, p)) \in Nat
<1> DEFINE n == Len(TableRow(d, s))
<1>1. Logical(d, s) \subseteq (1..n) \X (1..4) /\ n \in Nat
  BY DEF Logical, IsRow
<1>2. IsFiniteSet((1..n) \X (1..4))
  <2>1. \A m \in Int : IsFiniteSet(1..m)
    BY FS_Interval
  <2>2. IsFiniteSet(1..n)
    BY <1>1, <2>1
  <2>3. 4 \in Int
    OBVIOUS
  <2>4. IsFiniteSet(1..4)
    BY <2>1, <2>3, Zenon
  <2> QED
    BY <2>2, <2>4, FS_Product
<1> HIDE DEF n
<1>3. \A p \in (1..n) \X (1..4) : p = <<p[1], p[2]>> /\ p[1] \in 1..n /\ p[2] \in 1..4
  OBVIOUS
<1>4. ASSUME NEW p
      PROVE  IsFiniteSet(Ahead(d, s, p)) /\ Cardinality(Ahead(d, s, p)) \in Nat
  <2>1. Ahead(d, s, p) \subseteq (1..n) \X (1..4)
    BY <1>1 DEF Ahead
  <2> QED
    BY <1>2, <2>1, FS_Subset, FS_CardinalityType
<1> QED
  BY <1>1, <1>3, <1>4 DEF n

LEMMA EarlierOrder ==
  ASSUME NEW p \in Nat \X Nat, NEW q \in Nat \X Nat
  PROVE  /\ \A r \in Nat \X Nat : Earlier(p, q) /\ Earlier(q, r) => Earlier(p, r)
         /\ Earlier(p, q) \/ Earlier(q, p) \/ p = q
         /\ ~Earlier(p, p)
<1>1. /\ p[1] \in Nat /\ p[2] \in Nat /\ q[1] \in Nat /\ q[2] \in Nat
      /\ \A r \in Nat \X Nat : r[1] \in Nat /\ r[2] \in Nat
  OBVIOUS
<1>2. p[1] = q[1] /\ p[2] = q[2] => p = q
  OBVIOUS
<1>3. Earlier(p, q) \/ Earlier(q, p) \/ (p[1] = q[1] /\ p[2] = q[2])
  BY <1>1 DEF Earlier
<1> QED
  BY <1>1, <1>2, <1>3 DEF Earlier

LEMMA EarlierNext ==
  ASSUME NEW r \in Nat \X Nat, NEW k \in Nat, NEW i \in Nat
  PROVE  Earlier(r, <<k, i + 1>>) <=> Earlier(r, <<k, i>>) \/ r = <<k, i>>
<1>1. r[1] \in Nat /\ r[2] \in Nat /\ (r = <<k, i>> <=> r[1] = k /\ r[2] = i)
  OBVIOUS
<1> QED
  BY <1>1 DEF Earlier

(* One that comes before another has the lower number. *)
LEMMA RankGrows ==
  ASSUME NEW d, NEW s, IsRow(d, s), NEW p \in Logical(d, s), NEW k \in Nat, NEW i \in Nat, Earlier(p, <<k, i>>)
  PROVE  Cardinality(Ahead(d, s, p)) < Cardinality(Ahead(d, s, <<k, i>>))
<1> DEFINE q == <<k, i>>
<1>1. Logical(d, s) \subseteq Nat \X Nat /\ q \in Nat \X Nat
  BY LogicalShape DEF IsRow
<1>2. p \notin Ahead(d, s, p)
  BY <1>1, EarlierOrder DEF Ahead
<1> HIDE DEF q
<1>3. \A r \in Logical(d, s) : Earlier(r, p) => Earlier(r, q)
  BY <1>1, EarlierOrder DEF q
<1>4. Ahead(d, s, p) \union {p} \subseteq Ahead(d, s, q)
  BY <1>3 DEF Ahead, q
<1>5. IsFiniteSet(Ahead(d, s, p)) /\ IsFiniteSet(Ahead(d, s, q)) /\ Cardinality(Ahead(d, s, p)) \in Nat
      /\ Cardinality(Ahead(d, s, q)) \in Nat
  BY LogicalShape
<1>6. Cardinality(Ahead(d, s, p) \union {p}) = Cardinality(Ahead(d, s, p)) + 1
  BY <1>2, <1>5, FS_AddElement
<1>7. Cardinality(Ahead(d, s, p) \union {p}) <= Cardinality(Ahead(d, s, q))
  BY <1>4, <1>5, FS_Subset
<1> QED
  BY <1>5, <1>6, <1>7 DEF q

(* So none has the number of another. *)
LEMMA RankIsOwn ==
  ASSUME NEW d, NEW s, IsRow(d, s), NEW p \in Logical(d, s), NEW q \in Logical(d, s),
         Cardinality(Ahead(d, s, p)) = Cardinality(Ahead(d, s, q))
  PROVE  p = q
<1>1. \A r \in Logical(d, s) : r = <<r[1], r[2]>> /\ r[1] \in Nat /\ r[2] \in Nat
  BY LogicalShape DEF IsRow
<1>2. Cardinality(Ahead(d, s, p)) \in Nat /\ Cardinality(Ahead(d, s, q)) \in Nat
  BY LogicalShape
<1>3. p = <<p[1], p[2]>> /\ p[1] \in Nat /\ p[2] \in Nat /\ q = <<q[1], q[2]>> /\ q[1] \in Nat /\ q[2] \in Nat
  BY <1>1
<1>4. Earlier(p, q) \/ Earlier(q, p) \/ p = q
  BY <1>3, EarlierOrder
<1>5. ~Earlier(p, q)
  <2> SUFFICES ASSUME Earlier(p, q) PROVE FALSE
    OBVIOUS
  <2>1. Cardinality(Ahead(d, s, p)) < Cardinality(Ahead(d, s, <<q[1], q[2]>>))
    BY <1>3, RankGrows
  <2> QED
    BY <1>2, <1>3, <2>1
<1>6. ~Earlier(q, p)
  <2> SUFFICES ASSUME Earlier(q, p) PROVE FALSE
    OBVIOUS
  <2>1. Cardinality(Ahead(d, s, q)) < Cardinality(Ahead(d, s, <<p[1], p[2]>>))
    BY <1>3, RankGrows
  <2> QED
    BY <1>2, <1>3, <2>1
<1> QED
  BY <1>3, <1>4, <1>5, <1>6

(* The number goes up by one where a slot is counted. *)
LEMMA RankStep ==
  ASSUME NEW d, NEW s, IsRow(d, s), NEW k \in Nat, NEW i \in Nat
  PROVE  Cardinality(Ahead(d, s, <<k, i + 1>>)) =
           IF <<k, i>> \in Logical(d, s) THEN Cardinality(Ahead(d, s, <<k, i>>)) + 1
                                         ELSE Cardinality(Ahead(d, s, <<k, i>>))
<1> DEFINE p == <<k, i>>
           q == <<k, i + 1>>
<1>1. Logical(d, s) \subseteq Nat \X Nat /\ p \in Nat \X Nat
  BY LogicalShape DEF IsRow
<1>2. \A r \in Logical(d, s) : Earlier(r, q) <=> Earlier(r, p) \/ r = p
  BY <1>1, EarlierNext
<1>3. ~Earlier(p, p)
  BY <1>1, EarlierOrder
<1> HIDE DEF p, q
<1>4. p \notin Ahead(d, s, p) /\ IsFiniteSet(Ahead(d, s, p))
  BY <1>3, LogicalShape DEF Ahead
<1>5. CASE p \in Logical(d, s)
  <2>1. Ahead(d, s, q) = Ahead(d, s, p) \union {p}
    BY <1>2, <1>5 DEF Ahead
  <2> QED
    BY <1>4, <1>5, <2>1, FS_AddElement DEF p, q
<1>6. CASE p \notin Logical(d, s)
  <2>1. Ahead(d, s, q) = Ahead(d, s, p)
    BY <1>2, <1>6 DEF Ahead
  <2> QED
    BY <1>6, <2>1 DEF p, q
<1> QED
  BY <1>5, <1>6

(* A partition of an msdos label is in a primary slot or in a table. *)
InSlot(d, v) ==
  /\ v[1] \in 1..4 /\ d.table[v[1]].kind \in {"linux", "fat"}
  /\ v = <<v[1], d.table[v[1]].start, d.table[v[1]].kind = "fat">>

InChainAt(d, s, v, q) ==
  /\ q \in Logical(d, s) /\ d.ebr[TableRow(d, s)[q[1]]][q[2]].kind = "linux"
  /\ v = LogicalPart(d, s, q) /\ v[1] = 5 + Cardinality(Ahead(d, s, q)) /\ v[1] \in Nat /\ v[1] > 4

LEMMA MsdosNumbers ==
  ASSUME disk \in Disks, disk.label = "msdos", NEW v \in Whole
  PROVE  \/ InSlot(disk, v)
         \/ \E i \in Onward(disk.table) : \E q : InChainAt(disk, disk.table[i], v, q)
<1>1. Whole = MsdosParts(disk)
  BY WholeIs
<1>2. CASE v \in PrimaryParts(disk)
  <2>1. PICK j \in 1..4 : /\ disk.table[j].kind \in {"linux", "fat"}
                         /\ v = <<j, disk.table[j].start, disk.table[j].kind = "fat">>
    BY <1>2 DEF PrimaryParts
  <2>2. v[1] = j
    BY <2>1
  <2> QED
    BY <2>1, <2>2 DEF InSlot
<1>3. ASSUME NEW i \in Onward(disk.table), v \in LogicalParts(disk, disk.table[i])
      PROVE  \E q : InChainAt(disk, disk.table[i], v, q)
  <2> DEFINE s == disk.table[i]
  <2>1. IsRow(disk, s)
    BY TableRowIs DEF IsRow
  <2> HIDE DEF s
  <2>2. PICK q \in Logical(disk, s) : /\ disk.ebr[TableRow(disk, s)[q[1]]][q[2]].kind = "linux"
                                     /\ v = LogicalPart(disk, s, q)
    BY <1>3 DEF LogicalParts, s
  <2>3. v[1] = 5 + Cardinality(Ahead(disk, s, q))
    BY <2>2 DEF LogicalPart
  <2>4. Cardinality(Ahead(disk, s, q)) \in Nat
    BY <2>1, LogicalShape
  <2>5. v[1] \in Nat /\ v[1] > 4
    BY <2>3, <2>4
  <2> QED
    BY <2>2, <2>3, <2>5 DEF InChainAt, s
<1> QED
  BY <1>1, <1>2, <1>3 DEF MsdosParts

(* A slot and a table that are partitions are of the whole. *)
LEMMA MsdosHas ==
  ASSUME disk \in Disks, disk.label = "msdos"
  PROVE  /\ \A i \in 1..4 : disk.table[i].kind \in {"linux", "fat"} =>
              <<i, disk.table[i].start, disk.table[i].kind = "fat">> \in Whole
         /\ \A i \in Onward(disk.table) : \A q \in Logical(disk, disk.table[i]) :
              disk.ebr[TableRow(disk, disk.table[i])[q[1]]][q[2]].kind = "linux" =>
                LogicalPart(disk, disk.table[i], q) \in Whole
BY WholeIs DEF MsdosParts, PrimaryParts, LogicalParts

(* The four primary slots: a partition, the extended one, or neither. *)
LEMMA MsdosStep ==
  ASSUME disk \in Disks, IsSequence(list), Came, PrimarySlot \/ PrimaryEnds
  PROVE  Came'
<1>1. MsdosCame /\ pc = "msdos" /\ UNCHANGED disk
  BY DEF Came, PrimarySlot, PrimaryEnds
<1> DEFINE n == walk.slot
           t == disk.table
<1>2. disk.label = "msdos" /\ n \in 1..5 /\ Collected(SlotsBefore(disk, n))
  BY <1>1 DEF MsdosCame
<1>3. \A v \in Whole :
        \/ InSlot(disk, v) /\ v[1] \in 1..4
        \/ v[1] \in Nat /\ v[1] > 4 /\ \E i \in Onward(t) : TRUE
  <2> SUFFICES ASSUME NEW v \in Whole
               PROVE  \/ InSlot(disk, v) /\ v[1] \in 1..4
                      \/ v[1] \in Nat /\ v[1] > 4 /\ \E i \in Onward(t) : TRUE
    OBVIOUS
  <2>1. CASE InSlot(disk, v)
    BY <2>1 DEF InSlot
  <2>2. ASSUME NEW i \in Onward(t), NEW q, InChainAt(disk, disk.table[i], v, q)
        PROVE  v[1] \in Nat /\ v[1] > 4 /\ \E j \in Onward(t) : TRUE
    <3>1. v[1] \in Nat /\ v[1] > 4
      BY <2>2 DEF InChainAt
    <3> QED
      BY <3>1
  <2> QED
    BY <1>2, <2>1, <2>2, MsdosNumbers
<1>4. \A v \in Whole : v[1] \in Nat
  BY <1>3
<1>5. Onward(t) \subseteq 1..4
  BY DEF Onward
<1> HIDE DEF n, t
<1>6. CASE PrimarySlot
  <2> DEFINE s == t[n]
  <2>1. /\ n \in 1..4 /\ pc' = (IF s.kind = "extended" THEN "chain" ELSE "msdos")
        /\ walk' = IF s.kind = "extended"
                   THEN [slot |-> n, number |-> 5, start |-> s.start, size |-> s.size,
                         at |-> s.start, atSize |-> s.size, row |-> 1]
                   ELSE [slot |-> n + 1]
        /\ IF s.kind \in {"linux", "fat"} THEN Tack(Entry(n, s.start, s.kind = "fat")) ELSE Nothing
    BY <1>1, <1>2, <1>6 DEF PrimarySlot, MsdosCame, n, t
  <2>2. CASE s.kind = "extended"
    <3>1. n \in Onward(t) /\ Nothing /\ pc' = "chain"
      BY <2>1, <2>2 DEF Onward
    <3> DEFINE row == TableRow(disk, s)
    <3>2. /\ IsTableRow(disk, s, row) /\ IsRow(disk, s) /\ Len(row) \in Nat
          /\ \A j \in Onward(t) : j = n
      BY <1>2, <3>1, TableRowIs DEF IsRow, t
    <3>3. /\ Chained(s, walk') /\ walk'.slot = n /\ walk'.number = 5 /\ walk'.at = s.start
          /\ walk'.atSize = s.size /\ walk'.row = 1
      <4> HIDE DEF s
      <4>1. walk' = [slot |-> n, number |-> 5, start |-> s.start, size |-> s.size,
                     at |-> s.start, atSize |-> s.size, row |-> 1]
        BY <2>1, <2>2
      <4> QED
        BY <4>1 DEF Chained
    <3>4. Ahead(disk, s, <<1, 1>>) = {}
      <4>1. \A q \in Logical(disk, s) : q[1] \in 1..Len(row) /\ q[2] \in 1..4
        BY <3>2, LogicalShape
      <4> HIDE DEF row
      <4>2. \A q \in Logical(disk, s) : ~Earlier(q, <<1, 1>>)
        BY <3>2, <4>1 DEF Earlier
      <4> QED
        BY <4>2 DEF Ahead
    <3>5. 5 = 5 + Cardinality(Ahead(disk, s, <<1, 1>>))
      BY <3>4, FS_EmptySet
    <3>6. s.start = TableAfter(disk, s, row, 0) /\ s.size = RoomOf(disk, s, row, 1)
      BY DEF TableAfter, RoomOf
    <3>7. Len(row) = 0 => ~Inside(disk, s, s.start)
      BY <3>2, <3>6 DEF IsTableRow
    <3> HIDE DEF row, s
    <3>8. InTable(disk, s, walk', 1)
      <4>1. walk'.at = s.start /\ walk'.number = 5 /\ walk'.row = 1 /\ walk'.atSize = s.size
        BY <3>3
      <4>2. 1 = Len(row) + 1 => Len(row) = 0
        BY <3>2
      <4>3. 1 - 1 = 0
        OBVIOUS
      <4> QED
        BY <3>5, <3>6, <3>7, <4>1, <4>2, <4>3 DEF InTable, row
    <3>9. SlotsBefore(disk, n) = ChainBefore(disk, n, 5)
      <4>1. \A v \in Whole : (v[1] > 4 /\ \E i \in Onward(t) : i < n) <=> (4 < v[1] /\ v[1] < 5)
        <5> SUFFICES ASSUME NEW v \in Whole
                     PROVE  (v[1] > 4 /\ \E i \in Onward(t) : i < n) <=> (4 < v[1] /\ v[1] < 5)
          OBVIOUS
        <5>1. v[1] \in Nat
          BY <1>4
        <5>2. ~ \E i \in Onward(t) : i < n
          BY <2>1, <3>2
        <5> QED
          BY <5>1, <5>2
      <4> QED
        BY <4>1 DEF SlotsBefore, ChainBefore, Whole, t
    <3>10. Collects(list', disk.label, failed', ChainBefore(disk, n, 5))
      BY <1>2, <3>1, <3>9, Still
    <3>11. 1 \in 1..Len(row) + 1 /\ 1 \in 1..5
      BY <3>2
    <3>12. ChainCame'
      BY <1>1, <1>2, <3>1, <3>3, <3>8, <3>10, <3>11 DEF ChainCame, Collected, s, t, row
    <3> QED
      BY <3>1, <3>12 DEF Came
  <2>3. CASE s.kind # "extended"
    <3>1. n \notin Onward(t) /\ pc' = "msdos" /\ walk'.slot = n + 1
      BY <2>1, <2>3 DEF Onward
    <3> DEFINE e == <<n, s.start, s.kind = "fat">>
    <3>2. \A i \in Onward(t) : i < n + 1 <=> i < n
      BY <1>5, <2>1, <3>1
    <3>3. \A v \in Whole : v[1] < n + 1 <=> (v[1] < n \/ v[1] = n)
      BY <1>4, <2>1
    <3>4. \A v \in Whole : v[1] = n => v = e /\ s.kind \in {"linux", "fat"}
      <4> SUFFICES ASSUME NEW v \in Whole, v[1] = n
                   PROVE  v = e /\ s.kind \in {"linux", "fat"}
        OBVIOUS
      <4>1. ~(v[1] > 4)
        BY <2>1
      <4> QED
        BY <1>3, <4>1 DEF InSlot, t
    <3> HIDE DEF e
    <3>5. Collects(list', disk.label, failed', SlotsBefore(disk, n + 1))
      <4>1. CASE s.kind \in {"linux", "fat"}
        <5>1. e \in Whole /\ e[1] = n
          BY <1>2, <2>1, <4>1, MsdosHas DEF e, t
        <5>2. SlotsBefore(disk, n + 1) = SlotsBefore(disk, n) \union {e}
          BY <3>2, <3>3, <3>4, <5>1 DEF SlotsBefore, Whole, t
        <5>3. \A v \in SlotsBefore(disk, n) : v[1] # n
          <6>1. \A v \in Whole : (v[1] < n \/ v[1] > 4) => v[1] # n
            BY <1>4, <2>1
          <6> QED
            BY <6>1 DEF SlotsBefore, Whole
        <5> QED
          BY <1>2, <2>1, <4>1, <5>2, <5>3, TackCollects DEF e
      <4>2. CASE s.kind \notin {"linux", "fat"}
        <5>1. SlotsBefore(disk, n + 1) = SlotsBefore(disk, n)
          BY <3>2, <3>3, <3>4, <4>2 DEF SlotsBefore, Whole, t
        <5> QED
          BY <1>2, <2>1, <4>2, <5>1, Still
      <4> QED
        BY <4>1, <4>2
    <3>6. n + 1 \in 1..5
      BY <2>1
    <3>7. MsdosCame'
      BY <1>1, <1>2, <3>1, <3>5, <3>6 DEF MsdosCame, Collected
    <3> QED
      BY <3>1, <3>7 DEF Came
  <2> QED
    BY <2>2, <2>3
<1>7. CASE PrimaryEnds
  <2>1. n = 5 /\ pc' = "close" /\ Nothing
    BY <1>2, <1>7 DEF PrimaryEnds, n
  <2>2. SlotsBefore(disk, n) = Whole
    <3>1. \A v \in Whole : v[1] < n \/ (v[1] > 4 /\ \E i \in Onward(t) : i < n)
      <4>1. \A i \in Onward(t) : i < n
        BY <1>5, <2>1
      <4> QED
        BY <1>3, <2>1, <4>1
    <3> QED
      BY <3>1 DEF SlotsBefore, Whole, t
  <2>3. Collects(list', disk.label, failed', Whole)
    BY <1>2, <2>1, <2>2, Still
  <2> QED
    BY <1>1, <2>1, <2>3 DEF Came, Collected, Whole
<1> QED
  BY <1>6, <1>7

(* Behind the last table all of the extended partition has been collected. *)
LEMMA ChainThrough ==
  ASSUME disk \in Disks, disk.label = "msdos", NEW n \in Onward(disk.table), NEW m,
         m = 5 + Cardinality(Logical(disk, disk.table[n]))
  PROVE  ChainBefore(disk, n, m) = SlotsBefore(disk, n + 1)
<1> DEFINE s == disk.table[n]
           N == Cardinality(Logical(disk, s))
<1>1. IsRow(disk, s) /\ \A j \in Onward(disk.table) : j = n
  BY TableRowIs DEF IsRow
<1>2. n \in 1..4 /\ disk.table[n].kind = "extended"
  BY DEF Onward
<1> DEFINE far == <<Len(TableRow(disk, s)) + 1, 0>>
<1>3. Ahead(disk, s, far) = Logical(disk, s)
  <2>1. \A q \in Logical(disk, s) : q[1] \in 1..Len(TableRow(disk, s))
    BY <1>1, LogicalShape
  <2>2. \A q \in Logical(disk, s) : q[1] < Len(TableRow(disk, s)) + 1
    BY <1>1, <2>1 DEF IsRow
  <2>3. \A q \in Logical(disk, s) : Earlier(q, far)
    BY <2>2 DEF Earlier
  <2> HIDE DEF far
  <2> QED
    BY <2>3 DEF Ahead
<1>4. N \in Nat
  BY <1>1, <1>3, LogicalShape
<1>5. \A q \in Logical(disk, s) : Cardinality(Ahead(disk, s, q)) \in Nat /\ Cardinality(Ahead(disk, s, q)) < N
  <2> TAKE q \in Logical(disk, s)
  <2>1. q[1] \in 1..Len(TableRow(disk, s)) /\ Len(TableRow(disk, s)) + 1 \in Nat
    BY <1>1, LogicalShape DEF IsRow
  <2>2. Earlier(q, far)
    BY <2>1 DEF Earlier
  <2>3. Cardinality(Ahead(disk, s, q)) < Cardinality(Ahead(disk, s, far))
    BY <1>1, <2>1, <2>2, RankGrows
  <2> QED
    BY <1>1, <1>3, <2>3, LogicalShape
<1>6. \A v \in Whole :
        \/ v[1] \in 1..4 /\ v[1] # n
        \/ v[1] \in Nat /\ v[1] > 4 /\ v[1] < m
  <2> SUFFICES ASSUME NEW v \in Whole
               PROVE  \/ v[1] \in 1..4 /\ v[1] # n
                      \/ v[1] \in Nat /\ v[1] > 4 /\ v[1] < m
    OBVIOUS
  <2>1. CASE InSlot(disk, v)
    BY <1>2, <2>1 DEF InSlot
  <2>2. ASSUME NEW q, InChainAt(disk, s, v, q)
        PROVE  v[1] \in Nat /\ v[1] > 4 /\ v[1] < m
    <3>1. q \in Logical(disk, s) /\ v[1] = 5 + Cardinality(Ahead(disk, s, q)) /\ v[1] \in Nat /\ v[1] > 4
      BY <2>2 DEF InChainAt
    <3>2. Cardinality(Ahead(disk, s, q)) \in Nat /\ Cardinality(Ahead(disk, s, q)) < N
      BY <1>5, <3>1
    <3> HIDE DEF N, s
    <3>3. m = 5 + N
      BY DEF N, s
    <3> QED
      BY <1>4, <3>1, <3>2, <3>3
  <2> QED
    BY <1>1, <2>1, <2>2, MsdosNumbers
<1>7. \A v \in Whole : (v[1] < n \/ (4 < v[1] /\ v[1] < m)) <=>
                       (v[1] < n + 1 \/ (v[1] > 4 /\ \E i \in Onward(disk.table) : i < n + 1))
  <2> SUFFICES ASSUME NEW v \in Whole
               PROVE  (v[1] < n \/ (4 < v[1] /\ v[1] < m)) <=>
                      (v[1] < n + 1 \/ (v[1] > 4 /\ \E i \in Onward(disk.table) : i < n + 1))
    OBVIOUS
  <2>1. \E i \in Onward(disk.table) : i < n + 1
    BY <1>2
  <2>2. CASE v[1] \in 1..4 /\ v[1] # n
    BY <1>2, <2>2
  <2>3. CASE v[1] \in Nat /\ v[1] > 4 /\ v[1] < m
    BY <2>1, <2>3
  <2> QED
    BY <1>6, <2>2, <2>3
<1> QED
  BY <1>7 DEF ChainBefore, SlotsBefore, Whole

(* A partition in the slot at hand has the number that is next. *)
LEMMA ChainNext ==
  ASSUME disk \in Disks, disk.label = "msdos", NEW n \in Onward(disk.table),
         NEW p \in Logical(disk, disk.table[n]), NEW m, m = 5 + Cardinality(Ahead(disk, disk.table[n], p))
  PROVE  /\ m \in Nat /\ m > 4
         /\ \A v \in Whole : v[1] = m =>
              /\ v = LogicalPart(disk, disk.table[n], p)
              /\ disk.ebr[TableRow(disk, disk.table[n])[p[1]]][p[2]].kind = "linux"
         /\ \A v \in Whole : v[1] < m + 1 <=> (v[1] < m \/ v[1] = m)
<1> DEFINE s == disk.table[n]
<1>1. IsRow(disk, s) /\ \A j \in Onward(disk.table) : j = n
  BY TableRowIs DEF IsRow
<1>2. Cardinality(Ahead(disk, s, p)) \in Nat
  BY <1>1, LogicalShape
<1>3. m \in Nat /\ m > 4
  BY <1>2
<1>4. ASSUME NEW v \in Whole
      PROVE  /\ v[1] \in Nat
             /\ v[1] = m =>
                  /\ v = LogicalPart(disk, s, p)
                  /\ disk.ebr[TableRow(disk, s)[p[1]]][p[2]].kind = "linux"
  <2>1. CASE InSlot(disk, v)
    <3>1. v[1] \in 1..4
      BY <2>1 DEF InSlot
    <3> QED
      BY <1>3, <3>1
  <2>2. ASSUME NEW q, InChainAt(disk, s, v, q)
        PROVE  /\ v[1] \in Nat
               /\ v[1] = m =>
                    /\ v = LogicalPart(disk, s, p)
                    /\ disk.ebr[TableRow(disk, s)[p[1]]][p[2]].kind = "linux"
    <3>1. q \in Logical(disk, s) /\ v[1] = 5 + Cardinality(Ahead(disk, s, q)) /\ v[1] \in Nat
      BY <2>2 DEF InChainAt
    <3>2. Cardinality(Ahead(disk, s, q)) \in Nat
      BY <1>1, LogicalShape
    <3>3. v[1] = m => Cardinality(Ahead(disk, s, p)) = Cardinality(Ahead(disk, s, q))
      BY <1>2, <3>1, <3>2
    <3>4. v[1] = m => p = q
      BY <1>1, <3>1, <3>3, RankIsOwn
    <3> QED
      BY <2>2, <3>1, <3>4 DEF InChainAt
  <2> QED
    BY <1>1, <2>1, <2>2, MsdosNumbers
<1>5. \A v \in Whole : v[1] \in Nat
  BY <1>4
<1>6. \A v \in Whole : v[1] < m + 1 <=> (v[1] < m \/ v[1] = m)
  BY <1>3, <1>5
<1> QED
  BY <1>3, <1>4, <1>6

(* One slot of a table. *)
LEMMA ChainSlotStep ==
  ASSUME disk \in Disks, IsSequence(list), Came, ChainSlot
  PROVE  Came'
<1>1. ChainCame /\ pc = "chain" /\ pc' = "chain" /\ UNCHANGED disk /\ InChain /\ walk.row <= 4
  BY DEF Came, ChainSlot
<1> DEFINE n == walk.slot
           m == walk.number
           i == walk.row
           s == disk.table[n]
           row == TableRow(disk, s)
           b == walk.at
           t == disk.ebr[b]
<1>2. /\ disk.label = "msdos" /\ n \in Onward(disk.table) /\ i \in 1..4
      /\ Chained(s, walk)
      /\ Collected(ChainBefore(disk, n, m))
  BY <1>1 DEF ChainCame
<1>3. PICK k \in 1..Len(row) + 1 : InTable(disk, s, walk, k)
  BY <1>1 DEF ChainCame
<1>4. IsTableRow(disk, s, row) /\ IsRow(disk, s) /\ Len(row) \in Nat /\ DOMAIN row = 1..Len(row)
  BY <1>2, TableRowIs DEF IsRow
<1>5. Inside(disk, s, b)
  <2>1. walk.start = s.start /\ walk.size = s.size
    BY <1>2 DEF Chained
  <2> QED
    BY <1>1, <2>1 DEF InChain, Inside
<1> DEFINE p == <<k, i>>
           it == Counted(t, i, walk.atSize)
           e == <<m, b + t[i].start, FALSE>>
<1>6. /\ IF it /\ t[i].kind = "linux" THEN Tack(Entry(m, b + t[i].start, FALSE)) ELSE Nothing
      /\ walk' = [walk EXCEPT !.row = @ + 1, !.number = IF it THEN @ + 1 ELSE @]
  BY DEF ChainSlot
<1> HIDE DEF s, row, n, m, i, b, t
<1>7. /\ b = TableAfter(disk, s, row, k - 1) /\ m = 5 + Cardinality(Ahead(disk, s, <<k, i>>))
      /\ (k = Len(row) + 1 => ~Inside(disk, s, b))
      /\ (k <= Len(row) => walk.atSize = RoomOf(disk, s, row, k))
  BY <1>3 DEF InTable, row, b, m, i
<1>8. k \in 1..Len(row) /\ k \in Nat /\ k <= Len(row) /\ k # Len(row) + 1 /\ i \in Nat
  BY <1>2, <1>4, <1>5, <1>7
<1>9. row[k] = b /\ walk.atSize = RoomOf(disk, s, row, k)
  BY <1>4, <1>7, <1>8 DEF IsTableRow
<1>10. p \in Logical(disk, s) <=> it
  <2>1. k \in DOMAIN row /\ i \in 1..4
    BY <1>2, <1>4, <1>8
  <2>2. p \in Logical(disk, s) <=>
          /\ t[i].kind \notin {"empty", "extended"}
          /\ i > 2 => t[i].start + t[i].size <= RoomOf(disk, s, row, k)
    BY <1>9, <2>1 DEF Logical, row, t
  <2> QED
    BY <1>9, <2>2 DEF Counted
<1> DEFINE m2 == IF it THEN m + 1 ELSE m
<1>11. /\ Chained(s, walk') /\ walk'.slot = n /\ walk'.number = m2 /\ walk'.at = b
       /\ walk'.atSize = walk.atSize /\ walk'.row = i + 1
  <2> HIDE DEF it
  <2>1. walk' = [walk EXCEPT !.row = i + 1, !.number = m2]
    BY <1>6 DEF i, m
  <2> HIDE DEF m2
  <2>2. Chained(s, walk)
    BY <1>2
  <2> QED
    BY <2>1, <2>2 DEF Chained, n, b
<1> HIDE DEF p, it, e
<1>12. m2 = 5 + Cardinality(Ahead(disk, s, <<k, i + 1>>))
  <2>1. Cardinality(Ahead(disk, s, <<k, i + 1>>)) =
          IF p \in Logical(disk, s) THEN Cardinality(Ahead(disk, s, p)) + 1 ELSE Cardinality(Ahead(disk, s, p))
    BY <1>4, <1>8, RankStep DEF p
  <2>2. m = 5 + Cardinality(Ahead(disk, s, p)) /\ Cardinality(Ahead(disk, s, p)) \in Nat
    BY <1>4, <1>7, LogicalShape DEF p
  <2>3. CASE it
    BY <1>10, <2>1, <2>2, <2>3
  <2>4. CASE ~it
    BY <1>10, <2>1, <2>2, <2>4
  <2> QED
    BY <2>3, <2>4
<1>13. Collects(list', disk.label, failed', ChainBefore(disk, n, m2))
  <2>1. CASE ~it
    <3>1. m2 = m /\ Nothing
      BY <1>6, <2>1
    <3> QED
      BY <1>2, <3>1, Still
  <2>2. CASE it
    <3>1. p \in Logical(disk, s) /\ m = 5 + Cardinality(Ahead(disk, s, p))
      BY <1>7, <1>10, <2>2 DEF p
    <3>2. LogicalPart(disk, s, p) = e
      BY <1>7, <1>9 DEF LogicalPart, p, e, row, t
    <3>3. disk.ebr[TableRow(disk, s)[p[1]]][p[2]] = t[i]
      BY <1>9 DEF p, row, t
    <3>4. /\ m \in Nat /\ m > 4
          /\ \A v \in Whole : v[1] = m => v = e /\ t[i].kind = "linux"
          /\ \A v \in Whole : v[1] < m + 1 <=> (v[1] < m \/ v[1] = m)
      <4>1. /\ m \in Nat /\ m > 4
            /\ \A v \in Whole : v[1] = m =>
                 v = LogicalPart(disk, s, p) /\ disk.ebr[TableRow(disk, s)[p[1]]][p[2]].kind = "linux"
            /\ \A v \in Whole : v[1] < m + 1 <=> (v[1] < m \/ v[1] = m)
        BY <1>2, <3>1, ChainNext DEF s
      <4> QED
        BY <3>2, <3>3, <4>1
    <3>5. m2 = m + 1 /\ e[1] = m
      BY <2>2 DEF e
    <3>6. n \in 1..4
      BY <1>2 DEF Onward
    <3>7. CASE t[i].kind = "linux"
      <4>1. e \in Whole
        BY <1>2, <3>1, <3>2, <3>3, <3>7, MsdosHas DEF s
      <4>2. 4 < m /\ ~(m < n)
        BY <3>4, <3>6
      <4>3. ChainBefore(disk, n, m + 1) = ChainBefore(disk, n, m) \union {e}
        BY <3>4, <3>5, <4>1, <4>2 DEF ChainBefore, Whole
      <4>4. \A v \in ChainBefore(disk, n, m) : v[1] # m
        <5>1. ~(m < m)
          BY <3>4
        <5> QED
          BY <4>2, <5>1 DEF ChainBefore
      <4>5. Tack(Entry(m, b + t[i].start, FALSE))
        BY <1>6, <2>2, <3>7
      <4> QED
        BY <1>2, <3>5, <4>3, <4>4, <4>5, TackCollects DEF e
    <3>8. CASE t[i].kind # "linux"
      <4>1. ChainBefore(disk, n, m + 1) = ChainBefore(disk, n, m)
        BY <3>4, <3>8 DEF ChainBefore, Whole
      <4> QED
        BY <1>2, <1>6, <3>5, <3>8, <4>1, Still
    <3> QED
      BY <3>7, <3>8
  <2> QED
    BY <2>1, <2>2
<1> HIDE DEF m2
<1>14. InTable(disk, s, walk', k)
  BY <1>7, <1>8, <1>11, <1>12 DEF InTable, row
<1>15. i + 1 \in 1..5
  BY <1>2
<1>16. ChainCame'
  BY <1>1, <1>2, <1>3, <1>11, <1>13, <1>14, <1>15 DEF ChainCame, Collected, s, row
<1> QED
  BY <1>1, <1>16 DEF Came

LEMMA LastOrNext ==
  ASSUME NEW n \in Nat, NEW k \in 1..n
  PROVE  k = n \/ k + 1 \in 1..n
OBVIOUS

(* On to the next table, or back to the primary slots. *)
LEMMA ChainOnStep ==
  ASSUME disk \in Disks, IsSequence(list), Came, ChainOnward \/ ChainEnds \/ (ReadFails /\ pc = "chain")
  PROVE  Came'
<1>1. ChainCame /\ pc = "chain" /\ UNCHANGED disk
  BY DEF Came, ChainOnward, ChainEnds, ReadFails
<1> DEFINE n == walk.slot
           m == walk.number
           i == walk.row
           s == disk.table[n]
           row == TableRow(disk, s)
           b == walk.at
           t == disk.ebr[b]
<1>2. /\ disk.label = "msdos" /\ n \in Onward(disk.table) /\ i \in 1..5
      /\ Chained(s, walk)
      /\ Collected(ChainBefore(disk, n, m))
  BY <1>1 DEF ChainCame
<1>3. PICK k \in 1..Len(row) + 1 : InTable(disk, s, walk, k)
  BY <1>1 DEF ChainCame
<1>4. IsTableRow(disk, s, row) /\ IsRow(disk, s) /\ Len(row) \in Nat /\ DOMAIN row = 1..Len(row)
  BY <1>2, TableRowIs DEF IsRow
<1>5. InChain <=> Inside(disk, s, b)
  <2>1. walk.start = s.start /\ walk.size = s.size
    BY <1>2 DEF Chained
  <2> QED
    BY <2>1 DEF InChain, Inside
<1>6. n \in 1..4
  BY <1>2 DEF Onward
<1>7. /\ b = TableAfter(disk, s, row, k - 1) /\ m = 5 + Cardinality(Ahead(disk, s, <<k, i>>))
      /\ (k = Len(row) + 1 => i = 1 /\ ~Inside(disk, s, b))
      /\ (k <= Len(row) => walk.atSize = RoomOf(disk, s, row, k))
  BY <1>3 DEF InTable
<1> HIDE DEF s, row, n, m, i, b, t
(* Back: all of it was collected, or something failed. *)
<1>8. ASSUME Collects(list', disk.label, failed', SlotsBefore(disk, n + 1)),
             pc' = "msdos", walk' = [slot |-> n + 1]
      PROVE  Came'
  <2>1. n + 1 \in 1..5 /\ walk'.slot = n + 1
    BY <1>6, <1>8
  <2>2. MsdosCame'
    BY <1>1, <1>2, <1>8, <2>1 DEF MsdosCame, Collected
  <2> QED
    BY <1>8, <2>2 DEF Came
<1>9. ASSUME Logical(disk, s) \subseteq Ahead(disk, s, <<k, i>>), Nothing
      PROVE  Collects(list', disk.label, failed', SlotsBefore(disk, n + 1))
  <2>1. Ahead(disk, s, <<k, i>>) = Logical(disk, s)
    BY <1>9 DEF Ahead
  <2>2. m = 5 + Cardinality(Logical(disk, s))
    BY <1>7, <2>1
  <2>3. ChainBefore(disk, n, m) = SlotsBefore(disk, n + 1)
    BY <1>2, <2>2, ChainThrough DEF s
  <2> QED
    BY <1>2, <1>9, <2>3, Still
<1>10. \A q \in Logical(disk, s) : q[1] \in 1..Len(row) /\ q[2] \in 1..4
  BY <1>4, LogicalShape DEF row
<1>11. CASE ChainOnward
  <2>1. Inside(disk, s, b) /\ ~(i <= 4) /\ Nothing
    BY <1>5, <1>11, <1>2 DEF ChainOnward, i
  <2>2. k \in 1..Len(row) /\ k \in Nat /\ k <= Len(row) /\ i = 5
    BY <1>2, <1>3, <1>4, <1>7, <2>1
  <2>3. row[k] = b /\ t = disk.ebr[row[k]]
    BY <1>4, <1>7, <2>2 DEF IsTableRow, t
  <2>4. CASE Onward(t) = {}
    <3>1. pc' = "msdos" /\ walk' = [slot |-> n + 1]
      BY <1>11, <2>4 DEF ChainOnward, n, t, b
    <3>2. k = Len(row)
      <4>1. k = Len(row) \/ k + 1 \in 1..Len(row)
        <5>1. Len(row) \in Nat /\ k \in 1..Len(row)
          BY <1>4, <2>2
        <5> QED
          BY ONLY <5>1, LastOrNext
      <4>2. k + 1 > 1 /\ (k + 1) - 1 = k
        BY <2>2
      <4>3. k + 1 \in DOMAIN row => Onward(disk.ebr[row[(k + 1) - 1]]) # {}
        BY <1>4, <4>2 DEF IsTableRow
      <4> QED
        BY <1>4, <2>3, <2>4, <4>1, <4>2, <4>3
    <3>3. \A q \in Logical(disk, s) : Earlier(q, <<k, i>>)
      <4>1. \A q \in Logical(disk, s) : (q[1] < k \/ q[1] = k) /\ q[2] < i
        BY <1>4, <1>10, <2>2, <3>2
      <4> QED
        BY <4>1 DEF Earlier
    <3>4. Logical(disk, s) \subseteq Ahead(disk, s, <<k, i>>)
      BY <3>3 DEF Ahead
    <3> QED
      BY <1>8, <1>9, <2>1, <3>1, <3>4
  <2>5. CASE Onward(t) # {}
    <3> DEFINE a2 == s.start + t[FirstOnward(t)].start
               z2 == t[FirstOnward(t)].size
    <3>1. pc' = "chain" /\ walk' = [walk EXCEPT !.row = 1, !.at = walk.start + t[FirstOnward(t)].start, !.atSize = z2]
      BY <1>1, <1>11, <2>5 DEF ChainOnward, t, b
    <3>2. walk.start = s.start
      BY <1>2 DEF Chained
    <3> HIDE DEF z2
    <3>3. /\ Chained(s, walk') /\ walk'.slot = n /\ walk'.number = m /\ walk'.at = a2
          /\ walk'.atSize = z2 /\ walk'.row = 1
      <4>1. walk' = [walk EXCEPT !.row = 1, !.at = a2, !.atSize = z2]
        BY <3>1, <3>2
      <4> HIDE DEF a2
      <4>2. Chained(s, walk)
        BY <1>2
      <4> QED
        BY <4>1, <4>2 DEF Chained, n, m
    <3>4. a2 = TableAfter(disk, s, row, k)
      BY <2>2, <2>3 DEF TableAfter
    <3>5. z2 = RoomOf(disk, s, row, k + 1)
      <4>1. k + 1 # 1 /\ (k + 1) - 1 = k
        BY <2>2
      <4> QED
        BY <2>3, <4>1 DEF RoomOf, z2
    <3>6. k = Len(row) => ~Inside(disk, s, a2)
      BY <1>4, <2>3, <2>5, <3>4 DEF IsTableRow
    <3> HIDE DEF a2
    <3>7. Ahead(disk, s, <<k, i>>) = Ahead(disk, s, <<k + 1, 1>>)
      <4>1. \A q \in Logical(disk, s) : q[1] < k \/ (q[1] = k /\ q[2] < i) <=>
                                        q[1] < k + 1 \/ (q[1] = k + 1 /\ q[2] < 1)
        BY <1>4, <1>10, <2>2
      <4>2. \A q \in Logical(disk, s) : Earlier(q, <<k, i>>) <=> Earlier(q, <<k + 1, 1>>)
        BY <4>1 DEF Earlier
      <4> QED
        BY <4>2 DEF Ahead
    <3>8. k + 1 \in 1..Len(row) + 1 /\ (k + 1) - 1 = k /\ (k + 1 = Len(row) + 1 => k = Len(row)) /\ 1 \in 1..5
      <4>1. Len(row) \in Nat
        BY <1>4
      <4> QED
        BY <2>2, <4>1
    <3>9. InTable(disk, s, walk', k + 1)
      BY <1>7, <3>3, <3>4, <3>5, <3>6, <3>7, <3>8 DEF InTable, row
    <3>10. Collects(list', disk.label, failed', ChainBefore(disk, n, m))
      BY <1>2, <2>1, Still
    <3>11. ChainCame'
      BY <1>1, <1>2, <3>3, <3>8, <3>9, <3>10 DEF ChainCame, Collected, s, row
    <3> QED
      BY <3>1, <3>11 DEF Came
  <2> QED
    BY <2>4, <2>5
<1>12. CASE ChainEnds
  <2>1. ~Inside(disk, s, b) /\ pc' = "msdos" /\ walk' = [slot |-> n + 1] /\ Nothing
    BY <1>5, <1>12 DEF ChainEnds, n
  <2>2. k = Len(row) + 1
    <3> SUFFICES ASSUME k # Len(row) + 1 PROVE FALSE
      OBVIOUS
    <3>1. k \in DOMAIN row
      BY <1>3, <1>4
    <3> QED
      BY <1>4, <1>7, <2>1, <3>1 DEF IsTableRow
  <2>3. \A q \in Logical(disk, s) : q[1] < k
    BY <1>4, <1>10, <2>2
  <2>4. Logical(disk, s) \subseteq Ahead(disk, s, <<k, i>>)
    BY <2>3 DEF Ahead, Earlier
  <2> QED
    BY <1>8, <1>9, <2>1, <2>4
<1>13. CASE ReadFails
  <2>1. pc' = "msdos" /\ walk' = [slot |-> n + 1] /\ Fails
    BY <1>1, <1>13 DEF ReadFails, n
  <2>2. ChainBefore(disk, n, m) \subseteq SlotsBefore(disk, n + 1)
    <3>1. \A v \in Whole : v[1] \in Nat
      BY <1>2, MsdosNumbers DEF InSlot, InChainAt
    <3>2. \A v \in Whole : v[1] < n => v[1] < n + 1
      BY <1>6, <3>1
    <3>3. \A v \in Whole : 4 < v[1] => v[1] > 4 /\ n < n + 1
      BY <1>6, <3>1
    <3> QED
      BY <1>2, <3>2, <3>3 DEF ChainBefore, SlotsBefore, Whole
  <2>3. Collects(list', disk.label, failed', SlotsBefore(disk, n + 1))
    BY <1>2, <2>1, <2>2, Broken
  <2> QED
    BY <1>8, <2>1, <2>3
<1> QED
  BY <1>11, <1>12, <1>13

(* What block 0 says starts a reader that has collected nothing. *)
LEMMA BootStep ==
  ASSUME disk \in Disks, IsSequence(list), Came, OpenDisk \/ OpenDiskFails \/ ReadBoot \/ BootFails \/ CloseDisk
  PROVE  Came'
<1>1. \A label, fails : Collects(<<>>, label, fails, {})
  BY DEF Collects
<1>2. \A label, V : Collects(<<>>, label, TRUE, V)
  BY DEF Collects
<1>3. CASE OpenDisk
  BY <1>1, <1>3 DEF OpenDisk, Came, Collected
<1>4. CASE OpenDiskFails
  BY <1>2, <1>4 DEF OpenDiskFails, Came, Collected
<1>5. CASE BootFails
  <2>1. Collected({}) /\ pc' = "close" /\ Fails /\ UNCHANGED disk
    BY <1>5 DEF BootFails, Came
  <2>2. Collects(list', disk.label, failed', Whole)
    BY <2>1, Broken
  <2> QED
    BY <2>1, <2>2 DEF Came, Collected, Whole
<1>6. CASE CloseDisk
  <2>1. Collected(Whole) /\ pc' = "listed" /\ Nothing /\ UNCHANGED disk
    BY <1>6 DEF CloseDisk, Came
  <2>2. Collects(list', disk.label, failed', Whole)
    BY <2>1, Still
  <2> QED
    BY <2>1, <2>2 DEF Came, Collected, Whole
<1>7. CASE ReadBoot
  <2>1. Collected({}) /\ Nothing /\ UNCHANGED disk
    BY <1>7 DEF ReadBoot, Came
  <2>2. Collects(list', disk.label, failed', {})
    BY <2>1, Still
  <2>3. CASE disk.label = "mac"
    <3>1. pc' = "mac" /\ walk' = [block |-> 1, size |-> 1]
      BY <1>7, <2>3 DEF ReadBoot
    <3>2. IsSeq(disk.map) /\ Whole = MacParts(disk)
      BY <2>3, WholeIs, LabelAssumption
    <3>3. DOMAIN disk.map = 1..Len(disk.map) /\ Len(disk.map) \in Nat
      BY <3>2, SeqIndex
    <3>4. \A v \in Whole : v[1] \in DOMAIN disk.map
      BY <3>2, MacNumbers
    <3>5. \A v \in Whole : ~ (v[1] < 1)
      BY <3>3, <3>4
    <3>6. Below(1) = {}
      BY <3>5 DEF Below
    <3>7. walk'.block = 1 /\ walk'.size = 1 /\ 1..1 - 1 = {}
      BY <3>1
    <3>8. MacCame'
      BY <2>1, <2>2, <2>3, <3>6, <3>7 DEF MacCame, Collected, Below, Whole
    <3> QED
      BY <3>1, <3>8 DEF Came
  <2>4. CASE disk.label = "gpt"
    <3>1. pc' = "gpt" /\ walk' = [entry |-> 1]
      BY <1>7, <2>4 DEF ReadBoot
    <3>2. IsSeq(disk.entries) /\ Whole = GptParts(disk)
      BY <2>4, WholeIs, LabelAssumption
    <3>3. DOMAIN disk.entries = 1..Len(disk.entries) /\ Len(disk.entries) \in Nat
      BY <3>2, SeqIndex
    <3>4. \A v \in Whole : v[1] \in DOMAIN disk.entries
      BY <3>2, GptNumbers
    <3>5. \A v \in Whole : ~ (v[1] < 1)
      BY <3>3, <3>4
    <3>6. Below(1) = {}
      BY <3>5 DEF Below
    <3>7. GptCame'
      BY <2>1, <2>2, <2>4, <3>1, <3>6 DEF GptCame, Collected, Below, Whole
    <3> QED
      BY <3>1, <3>7 DEF Came
  <2>5. CASE disk.label = "msdos"
    <3>1. pc' = "msdos" /\ walk' = [slot |-> 1]
      BY <1>7, <2>5 DEF ReadBoot
    <3>2. \A v \in Whole : v[1] \in 1..4 \/ (v[1] \in Nat /\ v[1] > 4)
      BY <2>5, MsdosNumbers DEF InSlot, InChainAt
    <3>3. \A v \in Whole : ~ (v[1] < 1)
      BY <3>2
    <3>4. \A i \in Onward(disk.table) : ~ (i < 1)
      BY DEF Onward
    <3>5. SlotsBefore(disk, 1) = {}
      BY <3>3, <3>4 DEF SlotsBefore, Whole
    <3>6. MsdosCame'
      BY <2>1, <2>2, <2>5, <3>1, <3>5 DEF MsdosCame, Collected
    <3> QED
      BY <3>1, <3>6 DEF Came
  <2>6. CASE disk.label = "iso"
    <3>1. pc' = "iso" /\ walk' = [block |-> FirstVol]
      BY <1>7, <2>6 DEF ReadBoot
    <3>2. FirstVol \in Nat /\ LastVol \in Nat /\ FirstVol <= LastVol
      BY DiskAssumption, LabelAssumption
    <3>3. FirstVol \in FirstVol..LastVol /\ (disk.volume \in FirstVol..LastVol => FirstVol <= disk.volume)
      BY <3>2
    <3>4. IsoCame'
      BY <2>1, <2>2, <2>6, <3>1, <3>3 DEF IsoCame, Collected
    <3> QED
      BY <3>1, <3>4 DEF Came
  <2>7. CASE disk.label \in {"amiga", "none"}
    <3>1. pc' = "rdb" /\ walk' = [block |-> 0]
      BY <1>7, <2>7 DEF ReadBoot
    <3>2. HasRdb => 0 <= disk.rdb
      <4>1. RdbMax \in Nat
        BY DiskAssumption
      <4>2. HasRdb => disk.rdb \in 0..RdbMax - 1
        BY AmigaRow
      <4> QED
        BY <4>1, <4>2
    <3>3. ~HasRdb => Whole = {}
      BY <2>7, WholeIs DEF HasRdb
    <3>4. RdbCame'
      BY <2>1, <2>2, <3>1, <3>2, <3>3 DEF RdbCame, Collected, HasRdb, Whole
    <3> QED
      BY <3>1, <3>4 DEF Came
  <2>8. disk.label \in {"mac", "gpt", "msdos", "iso", "amiga", "none"}
    BY DiskAssumption
  <2> QED
    BY <2>3, <2>4, <2>5, <2>6, <2>7, <2>8
<1> QED
  BY <1>3, <1>4, <1>5, <1>6, <1>7

(* Every step of partitions_lookup, and none of any other. *)
LEMMA CameStep ==
  ASSUME Placed, IsSequence(list), Came, [Next]_vars
  PROVE  Came'
<1>1. disk \in Disks
  BY DEF Placed, PlaceInv
<1>2. CASE Walk
  <2>1. CASE ReadFails
    <3>1. pc \in {"mac", "gpt", "part", "chain"}
      BY <2>1 DEF ReadFails
    <3> QED
      BY <1>1, <2>1, <3>1, MacStep, GptStep, PartStep, ChainOnStep
  <2> QED
    BY <1>1, <1>2, <2>1, BootStep, MacStep, GptStep, IsoStep, RdbStep, PartStep, MsdosStep, ChainSlotStep,
       ChainOnStep DEF Walk
<1>3. CASE pc' \in {"idle", "lookup", "try", "bare", "download", "open", "refused"}
  BY <1>3 DEF Came
<1>4. CASE Opens /\ ~Walk
  <2>1. pc' \in {"try", "bare", "open", "refused"}
    BY <1>4 DEF Opens, Start, SkipPart, NotFound, Ext2, Xfs, Reiserfs, DriverFails, TreeUnreadable,
       OfDriver, Bare, BareFails, Download, DownloadFails, Succeeds, GivesUp, Trying, walkVars
  <2> QED
    BY <1>3, <2>1
<1>5. CASE Calls
  <2>1. ASSUME NEW d \in Devices, NEW p \in Parts, NEW n, Open(d, p, n)
        PROVE  pc' \in {"lookup", "download", "refused"}
    BY <2>1, OpenAssumption DEF Open
  <2>2. pc' \in {"idle", "lookup", "download", "refused"}
    BY <1>5, <2>1 DEF Calls, OpenConfig, OpenOther, ConfigRead, ConfigRefused, MessageShown,
       MessageRefused, KernelRead, KernelRefused, RamdiskRead, RamdiskRefused, Closed, Refused
  <2> QED
    BY <1>3, <2>2
<1>6. CASE UNCHANGED vars
  BY <1>6 DEF vars, walkVars, Came, MacCame, GptCame, IsoCame, RdbCame, PartCame, MsdosCame, ChainCame,
     Collected, Whole, Below, MacSigned, HasRdb
<1> QED
  BY <1>2, <1>4, <1>5, <1>6 DEF Next

(* What was collected is what Linux numbers on the disk. *)
LEMMA CameListed ==
  ASSUME Placed, Came
  PROVE  ListedRight
<1> SUFFICES ASSUME Collected(Whole)
             PROVE  Listed
  BY DEF ListedRight, Came
<1>1. disk \in Disks
  BY DEF Placed, PlaceInv
<1> DEFINE all == {<<h.number, h.at>> : h \in disk.holds}
           got == {<<list[i].number, list[i].at>> : i \in DOMAIN list}
<1>2. all = {<<p[1], p[2]>> : p \in Whole}
  BY <1>1, LabelAssumption DEF Whole
<1>3. \A i \in DOMAIN list : /\ list[i].label = disk.label /\ Triple(list[i]) \in Whole
                            /\ Triple(list[i])[1] = list[i].number
                            /\ Triple(list[i])[2] = list[i].at /\ Triple(list[i])[3] = list[i].fat
  BY DEF Collected, Collects, Triple
<1>4. \A i \in DOMAIN list : <<list[i].number, list[i].at>> \in all
  BY <1>2, <1>3
<1>5. got \subseteq all
  BY <1>4
<1>6. \A i, j \in DOMAIN list : i # j => list[i].number # list[j].number
  BY DEF Collected, Collects
<1>7. ~failed => got = all
  <2>1. ASSUME ~failed, NEW v \in Whole
        PROVE  <<v[1], v[2]>> \in got
    <3>1. PICK i \in DOMAIN list : Triple(list[i]) = v
      BY <2>1 DEF Collected, Collects
    <3>2. v[1] = list[i].number /\ v[2] = list[i].at
      BY <1>3, <3>1
    <3> QED
      BY <3>2
  <2>2. ~failed => all \subseteq got
    BY <1>2, <2>1
  <2> QED
    BY <1>5, <2>2
<1>8. ASSUME NEW i \in DOMAIN list, NEW h \in disk.holds, h.at = list[i].at
      PROVE  h.reads <=> /\ h.fs = "of" /\ list[i].label # "amiga"
                         /\ list[i].label = "msdos" => list[i].fat
  <2>1. Triple(list[i]) \in Numbered(disk)
    BY <1>3 DEF Whole
  <2>2. h.at = Triple(list[i])[2]
    BY <1>3, <1>8
  <2>3. h.reads <=> h.fs = "of" /\ disk.label # "amiga" /\ (disk.label = "msdos" => Triple(list[i])[3])
    BY <1>1, <2>1, <2>2, LabelAssumption
  <2> QED
    BY <1>3, <2>3
<1> QED
  BY <1>5, <1>6, <1>7, <1>8 DEF Listed

(* The list of partitions is a sequence. *)
LEMMA TackSequence ==
  ASSUME IsSequence(list), NEW e, Tack(e)
  PROVE  IsSequence(list')
BY Prepended DEF Tack

(* ... whatever happens to it. *)
LEMMA SequenceStep ==
  ASSUME IsSequence(list), [Next]_vars
  PROVE  IsSequence(list')
<1>1. IsSequence(<<>>)
  BY DEF IsSequence
<1>2. CASE UNCHANGED list
  BY <1>2
<1>3. CASE Walk
  BY <1>1, <1>2, <1>3, TackSequence DEF Walk, Nothing, Fails, OpenDisk, OpenDiskFails, ReadBoot,
     BootFails, ReadFails, MacEntry, MacEnds, GptEntry, GptEnds, PrimarySlot, PrimaryEnds, ChainSlot,
     ChainOnward, ChainEnds, IsoBlock, IsoFails, FindRdb, RdbFails, AmigaPart, AmigaEnds, NoBitmap, CloseDisk
<1>4. CASE Opens /\ ~Walk
  BY <1>2, <1>4 DEF Opens, Start, SkipPart, NotFound, Ext2, Xfs, Reiserfs, DriverFails, TreeUnreadable,
     OfDriver, Bare, BareFails, Download, DownloadFails, Succeeds, GivesUp, walkVars
<1>5. CASE Calls
  BY <1>2, <1>5 DEF Calls, OpenConfig, OpenOther, Open, ConfigRead, ConfigRefused, MessageShown,
     MessageRefused, KernelRead, KernelRefused, RamdiskRead, RamdiskRefused, Closed, Refused
<1> QED
  BY <1>2, <1>3, <1>4, <1>5 DEF Next, vars, walkVars

(* The list is right from the first open to the last. *)
LEMMA CameAlways == Spec => [](IsSequence(list) /\ Came)
<1>1. Init => IsSequence(list) /\ Came
  <2>1. Init => IsSequence(list)
    BY EmptySeq DEF Init, IsSequence
  <2> QED
    BY <2>1 DEF Init, Came
<1>2. Placed /\ (IsSequence(list) /\ Came) /\ [Next]_vars => (IsSequence(list) /\ Came)'
  BY CameStep, SequenceStep
<1> QED
  BY PlacedAlways, <1>1, <1>2, PTL DEF Spec

(* Whichever label a disk has, and wherever its reading broke off,         *)
(* partitions_lookup lists partitions by the number Linux gives them, none *)
(* twice, and all of them if nothing failed.                               *)
THEOREM LabelIsListed == Spec => []ListedRight
<1>1. Placed /\ Came => ListedRight
  BY CameListed
<1> QED
  BY PlacedAlways, CameAlways, <1>1, PTL

-----------------------------------------------------------------------------
(* The file that is opened *)

Found == Placed /\ IsSequence(list) /\ ListInv /\ TriedInv /\ FindsFile

(* The list keeps its contents from partitions_lookup to the next open. *)
LEMMA ListedStays ==
  ASSUME Listed, UNCHANGED <<list, disk>>, failed => failed'
  PROVE  Listed'
BY DEF Listed

(* For a partition of the list there is one on the disk that it stands     *)
(* for, and that is the one a driver finds there.                          *)
LEMMA HeldIsListed ==
  ASSUME Placed, Listed, NEW i \in DOMAIN list
  PROVE  /\ Held(list[i]) \in disk.holds
         /\ Held(list[i]).at = list[i].at /\ Held(list[i]).number = list[i].number
<1>1. PICK h \in disk.holds : <<list[i].number, list[i].at>> = <<h.number, h.at>>
  BY DEF Listed
<1>2. disk \in Disks
  BY DEF Placed, PlaceInv
<1>3. \A g \in disk.holds : g.at = list[i].at => g = h
  BY <1>1, <1>2, DiskAssumption
<1>4. Held(list[i]) = h
  BY <1>1, <1>3 DEF Held
<1> QED
  BY <1>1, <1>4

(* What a driver opens is there to be opened ... *)
LEMMA OpenedIsReachable ==
  ASSUME Placed, Listed, NEW i \in DOMAIN list, NEW d \in DOMAIN Drivers,
         Fits(list[i]), OpensWith(list[i], Drivers[d])
  PROVE  LET h == Held(list[i]) IN
         h \in disk.holds /\ Reachable(h) /\ h.fs = Drivers[d] /\ h.at = list[i].at
<1> DEFINE h == Held(list[i])
<1>1. h \in disk.holds /\ h.at = list[i].at /\ h.number = list[i].number
  BY HeldIsListed
<1>2. Drivers[d] \in {"ext2", "xfs", "reiserfs", "of"}
  BY DEF Drivers
<1>3. h.fs = "of" => h.reads
  BY <1>1 DEF Listed, OpensWith, OfMay
<1> QED
  BY <1>1, <1>2, <1>3 DEF Reachable, Fits, OpensWith, HasFile

(* ... and what is there, some driver would open. *)
LEMMA ReachableIsOpened ==
  ASSUME Placed, Listed, NEW i \in DOMAIN list, Reachable(Held(list[i]))
  PROVE  Fits(list[i]) /\ \E d \in DOMAIN Drivers : OpensWith(list[i], Drivers[d])
<1> DEFINE h == Held(list[i])
<1>1. h \in disk.holds /\ h.at = list[i].at /\ h.number = list[i].number
  BY HeldIsListed
<1>2. h.reads => h.fs = "of" /\ OfMay(list[i])
  BY <1>1 DEF Listed, OfMay
<1>3. h.fs \in {"ext2", "xfs", "reiserfs"} \/ (h.fs = "of" /\ OfMay(list[i]))
  BY <1>2 DEF Reachable
<1>4. PICK d \in 1..4 : h.fs = Drivers[d]
  BY <1>3 DEF Drivers
<1>5. OpensWith(list[i], Drivers[d])
  BY <1>3, <1>4 DEF OpensWith, HasFile, Reachable
<1>6. d \in DOMAIN Drivers
  BY DEF Drivers
<1> QED
  BY <1>1, <1>5, <1>6 DEF Fits, Reachable

(* When the list is through, or empty, everything on the disk was tried. *)
LEMMA AllTried ==
  ASSUME Placed, Listed, ~failed,
         \A i \in DOMAIN list, d \in DOMAIN Drivers : Fits(list[i]) => ~OpensWith(list[i], Drivers[d])
  PROVE  \A h \in disk.holds : ~Reachable(h)
<1> SUFFICES ASSUME NEW h \in disk.holds, Reachable(h)
             PROVE  FALSE
  OBVIOUS
<1>1. PICK i \in DOMAIN list : <<list[i].number, list[i].at>> = <<h.number, h.at>>
  BY DEF Listed
<1>2. Held(list[i]) = h
  BY <1>1, HeldIsListed, DiskAssumption DEF Placed, PlaceInv
<1> QED
  BY <1>2, ReachableIsOpened

(* Giving up: of the driver whose turn it was, or of the whole partition. *)
LEMMA GiveUpTried ==
  ASSUME Found, pc = "try", at.part \in DOMAIN list, NextDriver, UNCHANGED <<pc, disk, list, want>>,
         failed => failed', ~failed' => ~OpensWith(Here, Drivers[at.driver])
  PROVE  TriedInv'
<1> SUFFICES ASSUME ~failed', NEW j \in DOMAIN list, NEW d \in DOMAIN Drivers, Fits(list[j]),
                    j < at'.part \/ (j = at'.part /\ d < at'.driver)
             PROVE  ~OpensWith(list[j], Drivers[d])
  BY DEF TriedInv, Fits, OpensWith, Held, HasFile
<1>1. PICK S : list \in Seq(S)
  BY DEF Found, IsSequence
<1>2. j \in Nat /\ at.part \in Nat /\ d \in 1..4 /\ at.driver \in 1..4
  BY <1>1 DEF Found, Placed, PlaceInv, Drivers
<1>3. \/ j < at.part \/ (j = at.part /\ d < at.driver)
      \/ (j = at.part /\ d = at.driver)
  <2>1. CASE MoreDrivers
    <3>1. at' = [at EXCEPT !.driver = @ + 1]
      BY <2>1 DEF NextDriver
    <3>2. at'.part = at.part
      BY <3>1
    <3>3. at'.driver = at.driver + 1 \/ at'.driver = at.driver
      BY <3>1
    <3> QED
      BY <1>2, <3>2, <3>3
  <2>2. CASE ~MoreDrivers
    <3>1. at' = NextPart /\ at.driver = 4
      BY <1>2, <2>2 DEF NextDriver, MoreDrivers, Drivers
    <3>2. at'.part = at.part + 1 /\ at'.driver = 1
      BY <3>1 DEF NextPart
    <3> QED
      BY <1>2, <3>1, <3>2
  <2> QED
    BY <2>1, <2>2
<1> QED
  BY <1>3 DEF Found, TriedInv, Here

-----------------------------------------------------------------------------
(* One step.  What partitions_lookup returns is taken from LabelIsListed.  *)

Kept == ListInv /\ TriedInv /\ FindsFile

(* A driver that gives up either failed or cannot open the file here. *)
LEMMA GiveUpStep ==
  ASSUME Found, NEW dev, NEW d \in DOMAIN Drivers, Trying(Drivers[d]), GivesUp(dev),
         failed => failed', ~failed' => ~OpensWith(Here, Drivers[d])
  PROVE  Kept'
<1>1. PICK S : list \in Seq(S)
  BY DEF Found, IsSequence
<1>2. pc = "try" /\ at.part \in DOMAIN list /\ at.driver = d
  BY <1>1 DEF Trying, Found, Placed, PlaceInv, Drivers
<1>3. TriedInv'
  BY <1>2, GiveUpTried DEF GivesUp
<1>4. ListInv'
  BY <1>2, ListedStays DEF Found, ListInv, GivesUp
<1>5. FindsFile'
  BY <1>2 DEF FindsFile, GivesUp
<1> QED
  BY <1>3, <1>4, <1>5 DEF Kept

(* A driver that succeeds has the file in the partition it was given. *)
LEMMA SucceedStep ==
  ASSUME Found, NEW d \in DOMAIN Drivers, Trying(Drivers[d]), Succeeds(Drivers[d]),
         OpensWith(Here, Drivers[d])
  PROVE  Kept'
<1>1. PICK S : list \in Seq(S)
  BY DEF Found, IsSequence
<1>2. pc = "try" /\ at.part \in DOMAIN list /\ Listed
  BY <1>1 DEF Trying, Found, Placed, PlaceInv, ListInv
<1>3. \E h \in disk.holds : Reachable(h) /\ h.fs = Drivers[d] /\ h.at = Here.at
  BY <1>2, OpenedIsReachable DEF Found, Here, Trying
<1>4. FindsFile'
  <2>1. list # <<>>
    BY <1>2
  <2>2. UNCHANGED <<list, disk, want, at>> /\ pc' = "open" /\ fs' = Drivers[d]
    BY DEF Succeeds
  <2> QED
    BY <1>3, <2>1, <2>2 DEF FindsFile, Reachable, Here
<1> QED
  BY <1>2, <1>4 DEF Kept, ListInv, TriedInv, Succeeds

(* Both together: a step of any of the drivers. *)
LEMMA DriversStep ==
  ASSUME Found, Ext2 \/ Xfs \/ Reiserfs \/ OfDriver \/ DriverFails
  PROVE  Kept'
<1>1. 1 \in DOMAIN Drivers /\ Drivers[1] = "ext2" /\ 2 \in DOMAIN Drivers /\ Drivers[2] = "xfs"
  BY DEF Drivers
<1>2. 3 \in DOMAIN Drivers /\ Drivers[3] = "reiserfs" /\ 4 \in DOMAIN Drivers /\ Drivers[4] = "of"
  BY DEF Drivers
<1>3. CASE Ext2
  <2>1. ~opened
    BY <1>3 DEF Ext2, Trying, Found, Placed, LiveInv
  <2>2. CASE Held(Here).fs = "ext2" /\ HasFile(Here)
    BY <1>1, <1>3, <2>1, <2>2, SucceedStep DEF Ext2, OpensWith
  <2>3. CASE ~(Held(Here).fs = "ext2" /\ HasFile(Here))
    BY <1>1, <1>3, <2>1, <2>3, GiveUpStep DEF Ext2, OpensWith
  <2> QED
    BY <2>2, <2>3
<1>4. CASE Xfs
  BY <1>1, <1>4, SucceedStep, GiveUpStep DEF Xfs, OpensWith
<1>5. CASE Reiserfs
  BY <1>2, <1>5, SucceedStep, GiveUpStep DEF Reiserfs, OpensWith
<1>6. CASE OfDriver
  BY <1>2, <1>6, SucceedStep, GiveUpStep DEF OfDriver, OpensWith
<1>7. CASE DriverFails
  BY <1>1, <1>2, <1>7, GiveUpStep DEF DriverFails
<1> QED
  BY <1>3, <1>4, <1>5, <1>6, <1>7

(* A step from one partition of the list, or from one driver, to the       *)
(* next.                                                                   *)
LEMMA ListStep ==
  ASSUME Found, Start \/ SkipPart \/ NotFound \/ TreeUnreadable \/ Bare \/ BareFails
  PROVE  Kept'
<1>1. PICK S : list \in Seq(S)
  BY DEF Found, IsSequence
<1>2. pc \in {"listed", "try", "bare"} => Listed
  BY DEF Found, ListInv
<1>3. DOMAIN list = 1..Len(list) /\ Len(list) \in Nat /\ at.part \in Nat
  BY <1>1 DEF Found, Placed, PlaceInv
<1>4. CASE Start
  <2>1. TriedInv'
    BY <1>3, <1>4 DEF TriedInv, Start, Drivers
  <2> QED
    BY <1>2, <1>4, <2>1, ListedStays DEF Kept, ListInv, FindsFile, Start
<1>5. CASE SkipPart
  <2>1. at' = NextPart /\ at'.part = at.part + 1 /\ at'.driver = 1
    BY <1>5 DEF SkipPart, NextPart
  <2>2. UNCHANGED <<pc, disk, list, failed, want>> /\ pc = "try" /\ ~Fits(Here)
    BY <1>5 DEF SkipPart, walkVars
  <2>3. TriedInv'
    <3> SUFFICES ASSUME ~failed, NEW j \in DOMAIN list, NEW d \in DOMAIN Drivers, Fits(list[j]),
                        j < at.part + 1 \/ (j = at.part + 1 /\ d < 1)
                 PROVE  ~OpensWith(list[j], Drivers[d])
      BY <2>1, <2>2 DEF TriedInv, Fits, OpensWith, Held, HasFile
    <3>1. j < at.part
      BY <1>3, <2>2 DEF Here, Drivers
    <3> QED
      BY <2>2, <3>1 DEF Found, TriedInv
  <2> QED
    BY <1>2, <2>2, <2>3, ListedStays DEF Kept, ListInv, FindsFile
<1>6. CASE NotFound
  <2>1. Listed /\ pc = "try" /\ at.part > Len(list)
    BY <1>2, <1>6 DEF NotFound
  <2>2. ~failed => \A i \in DOMAIN list, d \in DOMAIN Drivers :
                     Fits(list[i]) => ~OpensWith(list[i], Drivers[d])
    BY <1>3, <2>1 DEF Found, TriedInv
  <2>3. ~failed => \A h \in disk.holds : ~Reachable(h)
    BY <2>1, <2>2, AllTried DEF Found
  <2> QED
    BY <1>6, <2>3 DEF Kept, ListInv, TriedInv, FindsFile, NotFound, Reachable
<1>7. CASE TreeUnreadable
  BY <1>7 DEF Kept, ListInv, TriedInv, FindsFile, TreeUnreadable
<1>8. CASE Bare
  <2>1. Listed /\ list = <<>>
    BY <1>2, <1>8 DEF Bare, Found, ListInv
  <2>2. ~failed => \A h \in disk.holds : ~Reachable(h)
    BY <2>1, AllTried DEF Found
  <2> QED
    BY <1>8, <2>1, <2>2 DEF Kept, ListInv, TriedInv, FindsFile, Bare, Succeeds, Reachable
<1>9. CASE BareFails
  BY <1>9 DEF Kept, ListInv, TriedInv, FindsFile, BareFails
<1> QED
  BY <1>4, <1>5, <1>6, <1>7, <1>8, <1>9

(* Every step. *)
LEMMA FoundStep ==
  ASSUME Found, Placed', ListedRight', [Next]_vars
  PROVE  Found'
<1> SUFFICES Kept'
  BY SequenceStep DEF Found, Kept
<1>2. CASE Walk
  <2>1. disk.label \in {"mac", "gpt", "msdos", "iso", "amiga", "none"}
    BY DiskAssumption DEF Found, Placed, PlaceInv
  <2>2. pc' \in Reading \union {"listed"}
    BY <1>2, <2>1 DEF Walk, OpenDisk, OpenDiskFails, ReadBoot, BootFails, ReadFails, MacEntry, MacEnds, GptEntry,
       GptEnds, PrimarySlot, PrimaryEnds, ChainSlot, ChainOnward, ChainEnds, IsoBlock, IsoFails, FindRdb,
       RdbFails, AmigaPart, AmigaEnds, NoBitmap, CloseDisk, Reading, Placed, PlaceInv
  <2> QED
    BY <2>2 DEF Kept, ListInv, TriedInv, FindsFile, ListedRight, Reading
<1>3. CASE Start \/ SkipPart \/ NotFound \/ TreeUnreadable \/ Bare \/ BareFails
  BY <1>3, ListStep
<1>4. CASE Ext2 \/ Xfs \/ Reiserfs \/ OfDriver \/ DriverFails
  BY <1>4, DriversStep
<1>5. CASE Download \/ DownloadFails
  BY <1>5 DEF Kept, ListInv, TriedInv, FindsFile, Download, DownloadFails, Succeeds, Found, Placed, PlaceInv
<1>6. CASE Calls
  <2>1. ASSUME NEW d \in Devices, NEW p \in Parts, NEW n, Open(d, p, n)
        PROVE  Kept'
    BY <2>1, OpenAssumption DEF Kept, ListInv, TriedInv, FindsFile, Open
  <2>2. CASE pc' = "idle"
    BY <2>2 DEF Kept, ListInv, TriedInv, FindsFile
  <2> QED
    BY <1>6, <2>1, <2>2 DEF Calls, OpenConfig, OpenOther, ConfigRead, ConfigRefused, MessageShown,
       MessageRefused, KernelRead, KernelRefused, RamdiskRead, RamdiskRefused, Closed, Refused
<1>7. CASE UNCHANGED vars
  BY <1>7 DEF Found, Kept, ListInv, TriedInv, FindsFile, Listed, Fits, OpensWith, Held, HasFile, Reachable,
     Here, vars, walkVars
<1> QED
  BY <1>2, <1>3, <1>4, <1>5, <1>6, <1>7 DEF Next, Opens

(* open_file opens a partition's file with the driver of its file system,  *)
(* from a partition that was asked for, and refuses one that is there only *)
(* when something failed: whatever label the disk has.                     *)
THEOREM FileIsFound == Spec => []FindsFile
<1>1. Init => Found
  <2>1. Init => IsSequence(list)
    BY EmptySeq DEF Init, IsSequence
  <2> QED
    BY <2>1, InitPlaced DEF Init, Found, ListInv, TriedInv, FindsFile
<1>2. Found /\ Placed' /\ ListedRight' /\ [Next]_vars => Found'
  BY FoundStep
<1>3. Found => FindsFile
  BY DEF Found
<1> QED
  BY PlacedAlways, LabelIsListed, <1>1, <1>2, <1>3, PTL DEF Spec
==============================================================================
