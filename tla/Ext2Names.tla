------------------------------- MODULE Ext2Names -------------------------------
(***************************************************************************)
(* ext2_open: the ext2 library reads the super block and the descriptors   *)
(* of the groups, and open_namei walks the path: each name is looked up in *)
(* the blocks of a directory, and what is found is followed if it is a     *)
(* link.  open_namei calls itself for the target, so path has with each    *)
(* name the number of links it is nested in.  Inodes come from the table   *)
(* of their group through a buffer of one block and a cache of four.       *)
(*                                                                         *)
(* A word of the disk is [order |-> ..., n |-> ...]: the bytes of a number *)
(* as this machine has them ("native") or the other way round ("little"),  *)
(* or a piece of text.                                                     *)
(***************************************************************************)
EXTENDS Driver

(* Plausible errors. *)
Keep_Halves(ino, i) == [info EXCEPT !.cache[(info.last % 4) + 1].ino = ino, !.cache[info.last].inode = i,
                                    !.last = (@ % 4) + 1, !.inode = i]
Rest_Nested(n) == [i \in DOMAIN path |-> [path[i] EXCEPT !.nested = n + 1]]
-----------------------------------------------------------------------------
CacheSize == 4
NoInode == [mode |-> "none"]
NoInfo == [swap |-> FALSE, table |-> <<>>, cache |-> [i \in 1..CacheSize |-> [ino |-> 0, inode |-> NoInode]],
           last |-> CacheSize, buffer |-> 0, inode |-> NoInode, at |-> 0]

Inode == info.inode
super == disk.super

Nested(names, n) == [i \in DOMAIN names |-> [name |-> names[i], nested |-> n]]

Init ==
  /\ disk \in {d \in Disks : d.fs = "ext2"} /\ pc = "closed" /\ info = NoInfo
  /\ path = <<>> /\ obj = 0 /\ parent = 0 /\ links = 0 /\ pos = 0 /\ len = 0
  /\ buf = <<>> /\ err = "OK" /\ failed = 0 /\ calls = 0
  /\ asked = [path |-> <<>>, from |-> 0, size |-> 0]

(* The library is left: fs and the cache are freed. *)
Refuse(e) == pc' = "refused" /\ err' = e

Open(p) ==
  /\ pc \in {"closed", "refused"} /\ calls < MaxCalls /\ calls' = calls + 1
  /\ asked' = [path |-> p, from |-> 0, size |-> 0] /\ path' = Nested(p, 0)
  /\ obj' = disk.root /\ parent' = disk.root /\ links' = 0 /\ pos' = 0
  /\ info' = NoInfo /\ pc' = "super" /\ failed' = 0
  /\ UNCHANGED <<disk, len, buf, err>>

Close ==
  /\ pc = "open" /\ pc' = "closed"
  /\ UNCHANGED <<disk, info, lookup, pos, len, buf, err, failed, history>>

-----------------------------------------------------------------------------
(* ext2fs_open2 *)
MaxRevision == 1
Known == {"filetype", "meta_bg", "recover"}    (* a journal that was not replayed is no matter *)
KnownToWrite == {"sparse_super", "large_file"}         (* the flags say EXT2_FLAG_RW *)

Mountable ==
  /\ super.magic \in {"native", "little"} /\ super.revision <= MaxRevision
  /\ super.incompat \subseteq Known /\ super.ro_compat \subseteq KnownToWrite
  /\ super.perGroup \in 1..8 * disk.bsize

Groups == (super.blocks - super.first + super.perGroup - 1) \div super.perGroup
DescriptorBlocks == (Groups + disk.perBlock - 1) \div disk.perBlock

Root(a, b) == \E k \in 0..a : b ^ k = a
HasSuper(g) ==
  "sparse_super" \in super.ro_compat => g = 0 \/ Root(g, 3) \/ Root(g, 5) \/ Root(g, 7)

(* ext2fs_descriptor_block_loc, for the primary super block *)
DescriptorBlock(i) ==
  LET g == disk.perBlock * i IN
  IF "meta_bg" \notin super.incompat \/ i < super.firstMeta THEN super.first + i + 1
  ELSE super.first + (IF HasSuper(g) THEN 1 ELSE 0) + g * super.perGroup

Swapped(w) == [w EXCEPT !.order = CASE w.order = "little" -> "native" [] w.order = "native" -> "little"
                                    [] OTHER -> "garbled"]
InOrder(words) == IF info.swap THEN [i \in DOMAIN words |-> Swapped(words[i])] ELSE words
Number(w) == IF w.order = "native" THEN w.n ELSE -1

ReadSuper ==
  /\ pc = "super"
  /\ \/ Mountable /\ pc' = "descriptors" /\ UNCHANGED <<err, failed>>
     \/ ~Mountable /\ Refuse("BAD_FSYS") /\ UNCHANGED failed
     \/ Fails /\ Refuse("BAD_FSYS")
  /\ info' = [info EXCEPT !.swap = super.magic = "little"]
  /\ UNCHANGED <<disk, lookup, pos, len, buf, history>>

ReadDescriptors ==
  /\ pc = "descriptors"
  /\ \/ /\ info.at < DescriptorBlocks
        /\ info' = [info EXCEPT !.at = @ + 1,
                      !.table = @ \o InOrder(disk.descriptors[DescriptorBlock(info.at)])]
        /\ UNCHANGED <<pc, err, failed>>
     \/ info.at = DescriptorBlocks /\ pc' = "directory" /\ UNCHANGED <<info, err, failed>>
     \/ info.at < DescriptorBlocks /\ Fails /\ Refuse("BAD_FSYS") /\ UNCHANGED info
  /\ UNCHANGED <<disk, lookup, pos, len, buf, history>>

-----------------------------------------------------------------------------
(* ext2fs_read_inode *)
Hits == {i \in 1..CacheSize : info.cache[i].ino = obj}

Group == (obj - 1) \div super.inodesPerGroup
Offset == ((obj - 1) % super.inodesPerGroup) * super.inodeSize
Table == Number(info.table[Group + 1])
Place == <<Table + Offset \div disk.bsize, Offset % disk.bsize>>

(* What a link holds is text if it has no blocks of its own, apart from    *)
(* the one with its attributes.                                            *)
Fast(i) == i.mode = "link" /\ i.blocks - (IF i.acl THEN 1 ELSE 0) = 0
Converted(i) == IF Fast(i) THEN i ELSE [i EXCEPT !.block = InOrder(@)]

Keep(ino, i) == [info EXCEPT !.cache[(info.last % CacheSize) + 1] = [ino |-> ino, inode |-> i],
                             !.last = (@ % CacheSize) + 1, !.inode = i]

(* For check_directory or for follow_link. *)
ReadInode ==
  /\ pc \in {"directory", "found"}
  /\ LET next == IF pc = "directory" THEN "isdirectory" ELSE "islink"
         there == obj \in 1..super.inodes /\ Table > 0 /\ Place \in DOMAIN disk.inode
     IN
     \/ /\ Hits # {} /\ pc' = next
        /\ info' = [info EXCEPT !.inode = info.cache[CHOOSE i \in Hits : TRUE].inode]
        /\ UNCHANGED <<err, failed>>
     \/ /\ Hits = {} /\ there /\ pc' = next
        /\ info' = [Keep(obj, Converted(disk.inode[Place])) EXCEPT !.buffer = Place[1]]
        /\ UNCHANGED <<err, failed>>
     \/ Hits = {} /\ ~there /\ Refuse("IOERR") /\ UNCHANGED <<info, failed>>
     \/ Hits = {} /\ there /\ Place[1] # info.buffer /\ Fails /\ Refuse("IOERR") /\ UNCHANGED info
  /\ UNCHANGED <<disk, lookup, pos, len, buf, history>>

-----------------------------------------------------------------------------
(* ext2fs_lookup: the blocks of the directory one after the other, and in  *)
(* each the entries that are in use.                                       *)
CheckDirectory ==
  /\ pc = "isdirectory"
  /\ IF Inode.mode = "dir" THEN pc' = "block" /\ UNCHANGED err ELSE Refuse("IOERR")
  /\ info' = [info EXCEPT !.at = 1]
  /\ UNCHANGED <<disk, lookup, pos, len, buf, failed, history>>

Block == Number(Inode.block[info.at])
Entries == disk.dirblock[Block].entries
Named == {i \in DOMAIN Entries : Entries[i].ino # 0 /\ Entries[i].name = Head(path).name}

Lookup ==
  /\ pc = "block" /\ info.at <= Len(Inode.block) /\ Block # 0
  /\ LET readable == Block \in DOMAIN disk.dirblock /\ ~disk.dirblock[Block].corrupt IN
     \/ /\ readable /\ Named # {} /\ pc' = "found"
        /\ obj' = Entries[CHOOSE i \in Named : \A j \in Named : i <= j].ino
        /\ parent' = obj /\ path' = Tail(path) /\ links' = Head(path).nested
        /\ UNCHANGED <<info, err, failed>>
     \/ /\ readable /\ Named = {} /\ info' = [info EXCEPT !.at = @ + 1]
        /\ UNCHANGED <<pc, lookup, err, failed>>
     \/ ~readable /\ Refuse("IOERR") /\ UNCHANGED <<info, lookup, failed>>
     \/ Fails /\ Refuse("IOERR") /\ UNCHANGED <<info, lookup>>
  /\ UNCHANGED <<disk, pos, len, buf, history>>

SkipHole ==
  /\ pc = "block" /\ info.at <= Len(Inode.block) /\ Block = 0
  /\ info' = [info EXCEPT !.at = @ + 1]
  /\ UNCHANGED <<pc, disk, lookup, pos, len, buf, err, failed, history>>

NotFound ==
  /\ pc = "block" /\ info.at > Len(Inode.block) /\ Refuse("NOTFOUND")
  /\ UNCHANGED <<disk, info, lookup, pos, len, buf, failed, history>>

-----------------------------------------------------------------------------
(* follow_link *)
MaxNested == 5

Arrive == pc' = IF path' = <<>> THEN "open" ELSE "directory"

NotLink ==
  /\ pc = "islink" /\ Inode.mode # "link" /\ path' = path /\ Arrive
  /\ UNCHANGED <<disk, info, obj, parent, links, pos, len, buf, err, failed, history>>

TooManyLinks ==
  /\ pc = "islink" /\ Inode.mode = "link" /\ links > MaxNested /\ Refuse("SYMLINK_LOOP")
  /\ UNCHANGED <<disk, info, lookup, pos, len, buf, failed, history>>

(* The names behind the link keep the number of links they are nested in.  *)
Rest(n) == path

FollowLink ==
  /\ pc = "islink" /\ Inode.mode = "link" /\ links <= MaxNested
  /\ LET o == disk.tree[obj]
         text == IF Fast(Inode) THEN Inode.block ELSE disk.text[Number(Inode.block[1])]
     IN
     \/ /\ obj' = IF o.abs THEN disk.root ELSE parent
        /\ path' = Nested(o.target, links + 1) \o Rest(links)
        /\ IF text = o.bytes THEN Arrive ELSE pc' = "lost"
        /\ UNCHANGED <<err, failed>>
     \/ ~Fast(Inode) /\ Fails /\ Refuse("IOERR") /\ UNCHANGED <<obj, path>>
  /\ UNCHANGED <<disk, info, parent, links, pos, len, buf, history>>

Next ==
  \/ \E p \in Paths : Open(p)
  \/ Close \/ ReadSuper \/ ReadDescriptors \/ ReadInode
  \/ CheckDirectory \/ Lookup \/ SkipHole \/ NotFound
  \/ NotLink \/ TooManyLinks \/ FollowLink

Spec == Init /\ [][Next]_vars
==============================================================================
