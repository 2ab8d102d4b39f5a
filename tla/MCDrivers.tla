------------------------------ MODULE MCDrivers ------------------------------
(***************************************************************************)
(* Small disks of each driver.                                             *)
(***************************************************************************)
EXTENDS Driver

CONSTANTS Slots, Half, Tables, Patience

R == INSTANCE ReiserFS
X == INSTANCE Xfs
E == INSTANCE Ext2Names
Of == INSTANCE OfFile

-----------------------------------------------------------------------------
(* ReiserFS: the items of a tree are packed into leaves, and those under   *)
(* one or two levels of nodes.                                             *)
Stat(key, mode, size) ==
  [dir |-> key[1], obj |-> key[2], off |-> 0, type |-> "stat", mode |-> mode, size |-> size]
Dirent(key, off, entries) ==
  [dir |-> key[1], obj |-> key[2], off |-> off, type |-> "dirent", entries |-> entries]
Direct(key, off, tag, n) ==
  [dir |-> key[1], obj |-> key[2], off |-> off, type |-> "direct", tag |-> tag, len |-> n]
Indirect(key, off, blocks) ==
  [dir |-> key[1], obj |-> key[2], off |-> off, type |-> "indirect", blocks |-> blocks]
DirEntry(name, key) == [name |-> name, key |-> key, visible |-> TRUE]
Hidden(name, key) == [name |-> name, key |-> key, visible |-> FALSE]

RootKey == <<1, 2>>
K == <<2, 4>>   L == <<2, 3>>   D == <<2, 5>>   F == <<5, 6>>   U == <<5, 7>>  O == <<5, 8>>

ItemList ==
  << Stat(RootKey, "dir", 0), Dirent(RootKey, 1, <<DirEntry(".", RootKey), Hidden("f", K), DirEntry("k", K)>>),
     Dirent(RootKey, 7, <<DirEntry("l", L), DirEntry("d", D)>>),
     Stat(L, "link", 4), Direct(L, 1, 51, 4),
     Stat(K, "file", 5), Indirect(K, 1, <<30, 0>>), Direct(K, 5, 50, 2),
     Stat(D, "dir", 0), Dirent(D, 1, <<DirEntry("..", RootKey), DirEntry("f", F)>>),
     Dirent(D, 5, <<DirEntry("u", U), DirEntry("o", O)>>),
     Stat(F, "file", 4), Indirect(F, 1, <<31, 32>>),
     Stat(U, "link", 2), Direct(U, 1, 52, 2),
     Stat(O, "link", 2), Direct(O, 1, 53, 2) >>

Cut(s, cuts) ==   (* at the positions cuts, the last of which is Len(s) *)
  [i \in 1..Len(cuts) |-> SubSeq(s, IF i = 1 THEN 1 ELSE cuts[i - 1] + 1, cuts[i])]

(* Nodes of one level, with the place each lies at and its first key. *)
Leaves(items, cuts) ==
  [i \in 1..Len(cuts) |->
     LET part == Cut(items, cuts)[i]
     IN  [place |-> 100 + i, key |-> <<part[1].dir, part[1].obj, part[1].off>>,
          node  |-> [level |-> 1, items |-> part]]]

Up(below, cuts, level) ==
  [i \in 1..Len(cuts) |->
     LET part == Cut(below, cuts)[i]
     IN  [place |-> 100 * level + i, key |-> part[1].key,
          node  |-> [level    |-> level,
                     keys     |-> [j \in 1..Len(part) - 1 |-> part[j + 1].key],
                     children |-> [j \in 1..Len(part) |-> part[j].place]]]]

Placed(nodes) == [p \in {nodes[i].place : i \in DOMAIN nodes} |->
                    nodes[CHOOSE i \in DOMAIN nodes : nodes[i].place = p].node]

Layers(items, cuts, groups, tops) ==
  LET l1 == Leaves(items, cuts)
      l2 == IF groups = <<>> THEN <<>> ELSE Up(l1, groups, 2)
      l3 == IF tops = <<>> THEN <<>> ELSE Up(l2, tops, 3)
      l4 == IF Len(tops) < 2 THEN <<>> ELSE Up(l3, <<Len(tops)>>, 4)
      all == l1 \o l2 \o l3 \o l4
  IN  [at |-> Placed(all), root |-> all[Len(all)].place]

(* A journal: transactions of <<block, content>>, from position first on.  *)
Ring(n, first, transactions) ==
  LET start[t \in 1..Len(transactions) + 1] ==
        IF t = 1 THEN first ELSE start[t - 1] + Len(transactions[t - 1]) + 2
      record(t, j) ==
        LET tr == transactions[t] IN
        CASE j = 0 -> [k |-> "desc", id |-> 7 + t, mount |-> 1, len |-> Len(tr),
                       real |-> [i \in 1..Lesser(Len(tr), Half) |-> tr[i][1]]]
          [] j = Len(tr) + 1 ->
               [k |-> "commit", id |-> 7 + t, len |-> Len(tr),
                real |-> [i \in 1..Len(tr) - Half |-> tr[i + Half][1]]]
          [] OTHER -> [k |-> "block"] @@ tr[j][2]
  IN  [d \in 1..n |->
        LET hits == {<<t, j>> \in (1..Len(transactions)) \X (0..n) :
                       j <= Len(transactions[t]) + 1 /\ (start[t] + j) % n = d - 1}
        IN  IF hits = {} THEN [k |-> "old"]
            ELSE LET h == CHOOSE h \in hits : TRUE IN record(h[1], h[2])]

JBlock == 1000
NoJournal == <<[k |-> "old"]>>

Blank == [k |-> "data", level |-> 0]

Tree(last) ==
  RootKey :> [type |-> "dir", entries |-> "." :> RootKey @@ "k" :> K @@ "l" :> L @@ "d" :> D]
  @@ K :> [type |-> "file", bytes |-> BytesAt(last[30], 0, 2) \o Filled(Zero, 2) \o BytesAt(last[50], 0, 1)]
  @@ D :> [type |-> "dir", entries |-> ".." :> RootKey @@ "f" :> F @@ "u" :> U @@ "o" :> O]
  @@ F :> [type |-> "file", bytes |-> BytesAt(last[31], 0, 2) \o BytesAt(32, 0, 2)]
  @@ L :> [type |-> "link", abs |-> TRUE, target |-> <<"d", "u">>, bytes |-> BytesAt(51, 0, 4)]
  @@ U :> [type |-> "link", abs |-> FALSE, target |-> <<"f">>, bytes |-> BytesAt(52, 0, 2)]
  @@ O :> [type |-> "link", abs |-> FALSE, target |-> <<"o">>, bytes |-> BytesAt(53, 0, 2)]

ReiserDisk(layers, sb, header, ring, last) ==
  [fs |-> "reiserfs", sound |-> TRUE, root |-> RootKey, maxlinks |-> 5, linkmax |-> 6, copies |-> TRUE,
   nested |-> FALSE, anytype |-> FALSE, notdir |-> "NOTDIR", badtype |-> "BAD_TYPE", notfound |-> "NOTFOUND",
   bsize |-> 2, jblock |-> JBlock, header |-> header, ring |-> ring,
   tree |-> Tree(last),
   at |-> layers.at @@ sb @@ 16 :> Blank @@ 2 :> Blank
          @@ [p \in {JBlock + d : d \in 0..Len(ring) - 1} |-> ring[p - JBlock + 1]]]

SuperBlock(layers, journal) ==
  [k |-> "super", version |-> 2, journal |-> journal, root |-> layers.root]
Header(first) == [first |-> first, flushed |-> 7, mount |-> 1]

Home == 30 :> 30 @@ 31 :> 31 @@ 50 :> 50

Flat  == Layers(ItemList, <<17>>, <<>>, <<>>)
Two   == Layers(ItemList, <<2, 5, 7, 12, 13, 17>>, <<6>>, <<>>)
Three == Layers(ItemList, <<1, 3, 6, 7, 8, 11, 17>>, <<2, 4, 7>>, <<3>>)
Deep  == Layers(ItemList, <<3, 6, 7, 8, 11, 13, 17>>, <<2, 4, 7>>, <<1, 3>>)

(* The home places hold what was before: a leaf whose names are all hidden *)
(* and other data.  The newest versions are in the journal, which wraps;   *)
(* the last transaction was not committed.                                 *)
Stale(node) ==
  [node EXCEPT !.items = [i \in DOMAIN @ |->
    IF @[i].type = "dirent" THEN [@[i] EXCEPT !.entries = <<Hidden("k", F)>>]
    ELSE IF @[i].type = "direct" THEN [@[i] EXCEPT !.tag = 59] ELSE @[i]]]

Journaled ==
  LET leaf(p) == <<p, Two.at[p]>>
      old(p)  == <<p, Stale(Two.at[p])>>
      ring == Ring(16, 11, <<<<old(101), <<30, Blank>>, leaf(103)>>,
                            <<leaf(101), <<30, Blank>>>>,
                            <<<<31, Blank>>, <<16, SuperBlock(Two, TRUE)>>, leaf(104)>>>>)
      torn == [ring EXCEPT ![11] = [k |-> "desc", id |-> 11, mount |-> 1, len |-> 1, real |-> <<101>>]]
      d == ReiserDisk(Two, 16 :> [SuperBlock(Two, TRUE) EXCEPT !.root = 102], Header(11), torn,
                      Home @@ <<>>)
  IN  [d EXCEPT !.at = [p \in DOMAIN @ |-> IF p \in {101, 103, 104} THEN Stale(@[p]) ELSE @[p]],
                !.tree = Tree(30 :> JBlock + 2 @@ 31 :> JBlock + 5 @@ Home)]

Misplaced == [Three EXCEPT !.at[105].level = 2]

ReiserDisks ==
  {ReiserDisk(Flat, 2 :> SuperBlock(Flat, FALSE), Header(0), NoJournal, Home),
   ReiserDisk(Two, 16 :> SuperBlock(Two, TRUE), Header(0), [i \in 1..4 |-> [k |-> "old"]], Home),
   ReiserDisk(Three, 16 :> SuperBlock(Three, FALSE), Header(0), NoJournal, Home),
   ReiserDisk(Deep, 16 :> SuperBlock(Deep, FALSE), Header(0), NoJournal, Home),
   [ReiserDisk(Misplaced, 16 :> SuperBlock(Three, FALSE), Header(0), NoJournal, Home)
      EXCEPT !.sound = FALSE],
   Journaled}

-----------------------------------------------------------------------------
(* XFS: two inodes to a block, allocation groups of 5 blocks that are      *)
(* numbered as if they were of 8.  The inode of every object is at         *)
(* <<block of the disk, number in the block>>.                             *)
XRoot == 2   XK == 3   XL == 18   XD == 19   XF == 20   XU == 21   XO == 23

Local(entries, up) == [mode |-> "dir", format |-> "local", size |-> 6, parent |-> up, entries |-> entries]
OneBlock(entries, n) ==
  [mode |-> "dir", format |-> "extents", size |-> 8, block |-> TRUE, entries |-> entries,
   tail |-> [count |-> n, stale |-> 0]]
Many(entries, da) ==
  [mode |-> "dir", format |-> "btree", size |-> 16, block |-> FALSE, entries |-> entries, da |-> da]
At(name, ino) == [free |-> FALSE, name |-> name, ino |-> ino]
Free == [free |-> TRUE]
File(format, size, extents) ==
  [mode |-> "file", format |-> format, size |-> size, extents |-> extents]
Run(off, start, n) == [off |-> off, start |-> start, len |-> n]
ShortLink(bytes) == [mode |-> "link", format |-> "local", size |-> Len(bytes), bytes |-> bytes]
LongLink(size, start) ==
  [mode |-> "link", format |-> "extents", size |-> size, extents |-> <<Run(0, start, 1)>>]

RootEntries == <<At("k", XK), At("l", XL), At("d", XD)>>
DirEntries == <<At(".", XD), Free, At("..", XRoot), At("f", XF), At("u", XU), Free, At("o", XO)>>

XInodes ==
  <<1, 0>> :> Local(RootEntries, XRoot) @@ <<1, 1>> :> File("extents", 5, <<Run(0, 12, 1)>>)
  @@ <<6, 0>> :> LongLink(4, 4) @@ <<6, 1>> :> OneBlock(DirEntries, 5)
  @@ <<7, 0>> :> File("extents", 12, <<Run(0, 3, 1), Run(1, 17, 1)>>)
  @@ <<7, 1>> :> ShortLink(BytesAt(52, 0, 1)) @@ <<8, 1>> :> ShortLink(BytesAt(53, 0, 1))

(* The target of l has to end up behind what is left of the path in the    *)
(* same buffer, so u has a target that is shorter.                         *)
XTree ==
  XRoot :> [type |-> "dir", entries |-> "." :> XRoot @@ "k" :> XK @@ "l" :> XL @@ "d" :> XD]
  @@ XK :> [type |-> "file", bytes |-> BytesAt(9, 0, 5)]
  @@ XD :> [type |-> "dir", entries |-> "." :> XD @@ ".." :> XRoot @@ "f" :> XF @@ "u" :> XU @@ "o" :> XO]
  @@ XF :> [type |-> "file", bytes |-> BytesAt(3, 0, 8) \o BytesAt(11, 0, 4)]
  @@ XL :> [type |-> "link", abs |-> TRUE, target |-> <<"d", "u">>, bytes |-> BytesAt(4, 0, 4)]
  @@ XU :> [type |-> "link", abs |-> FALSE, target |-> <<"f">>, bytes |-> BytesAt(52, 0, 1)]
  @@ XO :> [type |-> "link", abs |-> FALSE, target |-> <<"o">>, bytes |-> BytesAt(53, 0, 1)]

XDisk(sound, inodes, tree) ==
  [fs |-> "xfs", sound |-> sound, root |-> XRoot, maxlinks |-> 8, linkmax |-> 6, copies |-> FALSE,
   nested |-> FALSE, anytype |-> FALSE, notdir |-> "NOTDIR", badtype |-> "BAD_TYPE", notfound |-> "NOTFOUND",
   magic |-> TRUE, version |-> 4, bsize |-> 8, agblklog |-> 3, agblocks |-> 5, inopblog |-> 1,
   inode |-> inodes @@ XInodes, tree |-> tree @@ XTree]

NoneX == <<>>
Sound(inodes, tree) == XDisk(TRUE, inodes, tree)
Odd(inodes, tree) == XDisk(FALSE, inodes, tree)

Leaf(count, stale, forw) == [type |-> "leaf", count |-> count, stale |-> stale, forw |-> forw]

XfsDisks ==
  {Sound(NoneX, NoneX),
   [Odd(NoneX, NoneX) EXCEPT !.version = 5],
   \* a directory of three leaves under a node, and an extent of two blocks
   Sound(<<6, 1>> :> Many(DirEntries, 1 :> [type |-> "node", before |-> 4] @@ 4 :> Leaf(2, 1, 5)
                                      @@ 5 :> Leaf(2, 0, 6) @@ 6 :> Leaf(3, 1, 0))
         @@ <<7, 0>> :> File("extents", 12, <<Run(0, 17, 2)>>),
         XF :> [type |-> "file", bytes |-> BytesAt(11, 0, 8) \o BytesAt(12, 0, 4)]),
   \* a target too long, and one that runs into the path
   Odd(<<6, 0>> :> LongLink(7, 4), XL :> [XTree[XL] EXCEPT !.bytes = BytesAt(4, 0, 7)]),
   Odd(<<7, 1>> :> ShortLink(BytesAt(52, 0, 5)), XU :> [XTree[XU] EXCEPT !.bytes = BytesAt(52, 0, 5)]),
   \* ".." of a directory in its inode
   Odd(<<6, 1>> :> Local(<<At("f", XF), At("u", XU), At("o", XO)>>, XRoot), NoneX),
   \* a file of many extents, and files with holes
   Odd(<<7, 0>> :> File("btree", 12, <<Run(0, 3, 1)>>), NoneX),
   Odd(<<1, 1>> :> File("extents", 12, <<Run(1, 12, 1)>>)
       @@ <<7, 0>> :> File("extents", 20, <<Run(0, 3, 1), Run(2, 17, 1)>>),
       XK :> [type |-> "file", bytes |-> Filled(Zero, 8) \o BytesAt(9, 0, 4)]
       @@ XF :> [type |-> "file", bytes |-> BytesAt(3, 0, 8) \o Filled(Zero, 8) \o BytesAt(11, 0, 4)])}

-----------------------------------------------------------------------------
(* ext2: blocks of 4 bytes, two inodes to a block, eight to a group, eight *)
(* blocks to a group.  The inode of every object is at <<block, offset>>.  *)
Places ==
  2 :> <<4, 2>> @@ 3 :> <<5, 0>> @@ 4 :> <<5, 2>> @@ 5 :> <<6, 0>> @@ 6 :> <<6, 2>> @@ 7 :> <<7, 0>>
  @@ 8 :> <<7, 2>> @@ 9 :> <<10, 0>> @@ 10 :> <<10, 2>> @@ 11 :> <<11, 0>> @@ 12 :> <<11, 2>>
  @@ 13 :> <<12, 0>> @@ 14 :> <<12, 2>> @@ 17 :> <<19, 0>> @@ 20 :> <<20, 2>>

Chain == <<"c1", "c2", "c3", "c4", "c5", "c6", "c7">>    (* each leads to the one before, c1 to f *)
ChainIno == <<4, 5, 6, 7, 8, 13, 14>>

Words(order, ns) == [i \in DOMAIN ns |-> [order |-> order, n |-> ns[i]]]
EDir(blocks) == [mode |-> "dir", blocks |-> Len(blocks), acl |-> FALSE, block |-> Words("native", blocks)]
EFile == [mode |-> "file", blocks |-> 1, acl |-> TRUE, block |-> Words("native", <<40>>)]
EFast(n) == [mode |-> "link", blocks |-> 0, acl |-> FALSE, block |-> Words("text", <<n>>)]
ESlow(n) == [mode |-> "link", blocks |-> 1, acl |-> FALSE, block |-> Words("native", <<n>>)]

EInodes ==
  2 :> EDir(<<30>>) @@ 3 :> EFile @@ 9 :> EDir(<<31, 0, 32>>) @@ 20 :> EFile
  @@ 10 :> ESlow(35) @@ 11 :> [EFast(11) EXCEPT !.acl = TRUE, !.blocks = 1] @@ 12 :> EFast(12) @@ 17 :> EFast(17)
  @@ [i \in {ChainIno[j] : j \in DOMAIN Chain} |-> EFast(i)]

Reordered(i) == IF i.block[1].order = "text" THEN i
                ELSE [i EXCEPT !.block = [j \in DOMAIN @ |-> [@[j] EXCEPT !.order = "little"]]]

DirBlock(entries) == [corrupt |-> FALSE, entries |-> entries]
In(name, ino) == [name |-> name, ino |-> ino]

Relative(name, text) == [type |-> "link", abs |-> FALSE, target |-> <<name>>, bytes |-> text]
Text(n) == Words("text", <<n>>)

ETree ==
  2 :> [type |-> "dir", entries |-> "k" :> 3 @@ "l" :> 10 @@ "d" :> 9]
  @@ 9 :> [type |-> "dir", entries |-> ".." :> 2 @@ "." :> 9 @@ "f" :> 20 @@ "u" :> 11 @@ "o" :> 12 @@ "s" :> 17
             @@ [c \in {Chain[j] : j \in DOMAIN Chain} |-> ChainIno[CHOOSE j \in DOMAIN Chain : Chain[j] = c]]]
  @@ 3 :> [type |-> "file"] @@ 20 :> [type |-> "file"]
  @@ 10 :> [type |-> "link", abs |-> TRUE, target |-> <<"d", "u">>, bytes |-> Text(10)]
  @@ 11 :> Relative("f", Text(11)) @@ 12 :> Relative("o", Text(12)) @@ 17 :> Relative(".", Text(17))
  @@ [i \in {ChainIno[j] : j \in DOMAIN Chain} |->
        LET j == CHOOSE j \in DOMAIN Chain : ChainIno[j] = i
        IN  Relative(IF j = 1 THEN "f" ELSE Chain[j - 1], Text(i))]

(* With blocks of descriptors of two groups each. *)
Ext2Disk(order, incompat, ro, firstMeta, places) ==
  LET table == Words(order, <<4, 10, 19, 0>>) IN
  [fs |-> "ext2", sound |-> TRUE, root |-> 2, maxlinks |-> 6, linkmax |-> 9, copies |-> FALSE,
   nested |-> TRUE, anytype |-> TRUE, notdir |-> "IOERR", badtype |-> "BAD_TYPE", notfound |-> "NOTFOUND", bsize |-> 4, perBlock |-> 2,
   super |-> [magic |-> order, revision |-> 1, incompat |-> incompat, ro_compat |-> ro, perGroup |-> 8,
              blocks |-> 25, first |-> 1, firstMeta |-> firstMeta, inodes |-> 24, inodesPerGroup |-> 8,
              inodeSize |-> 2],
   descriptors |-> [p \in {places[1], places[2]} |-> SubSeq(table, IF p = places[1] THEN 1 ELSE 3,
                                                                  IF p = places[1] THEN 2 ELSE 4)],
   inodes |-> EInodes, tree |-> ETree,
   inode |-> [p \in {Places[i] : i \in DOMAIN Places} |->
                LET i == EInodes[CHOOSE i \in DOMAIN Places : Places[i] = p]
                IN  IF order = "native" THEN i ELSE Reordered(i)],
   dirblock |-> 30 :> DirBlock(<<In("f", 0), In("k", 3), In("l", 10), In("d", 9)>>)
                @@ 31 :> DirBlock(<<In(".", 9), In("..", 2), In("f", 20), In("u", 11), In("o", 12), In("s", 17)>>)
                @@ 32 :> DirBlock([j \in DOMAIN Chain |-> In(Chain[j], ChainIno[j])]),
   text |-> 35 :> Text(10)]

Ext2Disks ==
  LET plain == Ext2Disk("little", {"filetype"}, {"sparse_super"}, 0, <<2, 3>>)
      odd(d) == [d EXCEPT !.sound = FALSE] IN
  {plain,
   Ext2Disk("native", {"meta_bg"}, {"sparse_super"}, 0, <<2, 17>>),
   Ext2Disk("little", {"meta_bg", "recover"}, {}, 1, <<2, 18>>),
   odd([plain EXCEPT !.super.incompat = {"extents"}]),
   odd([plain EXCEPT !.dirblock[31].corrupt = TRUE, !.dirblock[30].entries[4].ino = 9]),
   odd([plain EXCEPT !.dirblock[30].entries[2].ino = 25])}

-----------------------------------------------------------------------------
(* What the firmware reads. *)
(* It has one complaint for everything.                                   *)
OfError(net) == IF net THEN "IOERR" ELSE "BAD_FSYS"

OfDisk(net) ==
  [fs |-> "of", sound |-> TRUE, net |-> net, root |-> 2, maxlinks |-> 0, linkmax |-> 0, copies |-> FALSE,
   nested |-> FALSE, anytype |-> FALSE, notdir |-> OfError(net), badtype |-> OfError(net), notfound |-> OfError(net),
   names |-> <<"k">> :> 3 @@ <<"d", "f">> :> 5,
   tree |-> 2 :> [type |-> "dir", entries |-> "k" :> 3 @@ "d" :> 4]
            @@ 3 :> [type |-> "file", bytes |-> BytesAt(3, 0, 3)]
            @@ 4 :> [type |-> "dir", entries |-> "f" :> 5]
            @@ 5 :> [type |-> "file", bytes |-> BytesAt(5, 0, 5)]]

SomeDisks == ReiserDisks \cup XfsDisks \cup Ext2Disks \cup {OfDisk(TRUE), OfDisk(FALSE)}

-----------------------------------------------------------------------------
SomePaths == {<<"k">>, <<"l">>, <<"d", "f">>, <<"d", "..", "k">>, <<"d", "o">>, <<"d">>,
              <<"k", "f">>, <<"d", "k">>, <<"f">>, <<"l", "f">>,
              <<"d", "c6">>, <<"d", "c7">>, <<"d", "s", "s", "s", "s", "s", "s", "s", "f">>}
SomePositions == {0, 1, 4}
SomeSizes == {1, 2, 3, 5}

Init == R!Init \/ X!Init \/ E!Init \/ Of!Init
Next ==
  \/ disk.fs = "reiserfs" /\ R!Next
  \/ disk.fs = "xfs" /\ X!Next
  \/ disk.fs = "ext2" /\ E!Next
  \/ disk.fs = "of" /\ Of!Next
Spec == Init /\ [][Next]_vars

(***************************************************************************)
(* What a driver keeps of the disk is true: the nodes of ReiserFS and the  *)
(* inodes of ext2 are the ones their numbers say, whatever was read,       *)
(* evicted or refused before; the firmware is where file->pos says.        *)
(***************************************************************************)
CacheTrue ==
  /\ disk.fs = "reiserfs" => R!CacheTrue
  /\ disk.fs = "ext2" =>
       \A i \in DOMAIN info.cache : info.cache[i].ino # 0 => info.cache[i].inode = disk.inodes[info.cache[i].ino]
  /\ disk.fs = "of" /\ pc = "open" /\ ~disk.net => info.place = pos
==============================================================================
