---------------------------------- MODULE Xfs ----------------------------------
(***************************************************************************)
(* fs_xfs.c.  An inode is found by the bits of its number.  Short links    *)
(* and directories are in the inode itself (format "local"), everything    *)
(* else in extents: [off, start, len], the first block of the file, the    *)
(* place and the number of blocks, in the inode ("extents") or in the      *)
(* leaves of a tree ("btree").  A directory is a file of records, entries  *)
(* and free space; how many of the entries count is said by the leaf       *)
(* blocks, which are chained and lie far behind in the same file.          *)
(*                                                                         *)
(* No read of the disk is checked after the super block.  From what is     *)
(* then in the buffer the driver goes anywhere: pc = "lost".               *)
(***************************************************************************)
EXTENDS Driver

(* A plausible error. *)
ExtentRest_Whole(x) == x.len * disk.bsize
-----------------------------------------------------------------------------
(* agb2daddr, fsb2daddr, and the parts of an inode number *)
Linear(fsb) == (fsb \div 2 ^ disk.agblklog) * disk.agblocks + (fsb % (2 ^ disk.agblklog))

InodeAt(ino) == <<Linear(ino \div 2 ^ disk.inopblog), ino % (2 ^ disk.inopblog)>>

NoInode == [mode |-> "none", format |-> "none", size |-> 0]

(* ext, prev, left, end: xfs_read_data; forw, dirpos, dirmax, dablk: the    *)
(* directory, at: its next record; used: how far into linkbuf the path is.  *)
NoInfo == [inode |-> NoInode, ext |-> 0, prev |-> -1, left |-> 0, end |-> 0,
           forw |-> 0, dirpos |-> 0, dirmax |-> 0, at |-> 0, dablk |-> 0, used |-> 0]

Inode == info.inode

Init ==
  /\ disk \in {d \in Disks : d.fs = "xfs"} /\ pc = "closed" /\ info = NoInfo
  /\ path = <<>> /\ obj = 0 /\ parent = 0 /\ links = 0 /\ pos = 0 /\ len = 0
  /\ buf = <<>> /\ err = "OK" /\ failed = 0 /\ calls = 0
  /\ asked = [path |-> <<>>, from |-> 0, size |-> 0]

Refuse(e) == pc' = "refused" /\ err' = e

(* xfs_open and xfs_mount: errnum is not reset. *)
Open(p) ==
  /\ pc \in {"closed", "open", "refused"} /\ calls < MaxCalls /\ calls' = calls + 1
  /\ asked' = [path |-> p, from |-> 0, size |-> 0] /\ path' = p /\ parent' = disk.root
  /\ obj' = disk.root /\ links' = 0 /\ pos' = 0 /\ len' = 0 /\ buf' = <<>>
  /\ \/ disk.magic /\ disk.version = 4 /\ pc' = "inode" /\ failed' = 0 /\ UNCHANGED err
     \/ ~(disk.magic /\ disk.version = 4) /\ Refuse("BAD_FSYS") /\ failed' = 0
     \/ Failures > 0 /\ Refuse("BAD_FSYS") /\ failed' = 1
  /\ info' = [info EXCEPT !.used = disk.linkmax] /\ UNCHANGED disk

(* What a failed read leaves in a buffer is taken for what was asked for.  *)
Astray == pc' = "lost" /\ Fails

-----------------------------------------------------------------------------
(* di_read *)
ReadInode ==
  /\ pc = "inode"
  /\ \/ info' = [info EXCEPT !.inode = disk.inode[InodeAt(obj)]] /\ pc' = "kind" /\ UNCHANGED failed
     \/ Astray /\ UNCHANGED info
  /\ UNCHANGED <<disk, lookup, pos, len, buf, err, history>>

MaxLinks == 8

(* xfs_dir *)
OpenLink ==
  /\ pc = "kind" /\ Inode.mode = "link" /\ links' = links + 1
  /\ CASE links' > MaxLinks -> Refuse("SYMLINK_LOOP") /\ UNCHANGED <<pos, len>>
       [] links' <= MaxLinks /\ Inode.size > disk.linkmax -> Refuse("LENGTH") /\ UNCHANGED <<pos, len>>
       [] OTHER -> pos' = 0 /\ len' = Inode.size /\ pc' = "link" /\ UNCHANGED err
  /\ buf' = <<>>
  /\ UNCHANGED <<disk, info, path, obj, parent, failed, history>>

(* The rest of the path goes behind the target; what does not fit is cut   *)
(* off.  After the first link the rest is in linkbuf itself, and so it is   *)
(* lost where the target reaches it.                                        *)
Overwritten(n) == n > info.used
Fits(n) == n + NameLength(path) <= disk.linkmax + 1

FollowLink ==
  /\ pc = "linked"
  /\ LET o == disk.tree[obj] IN
     /\ obj' = IF o.abs THEN disk.root ELSE parent
     /\ path' = o.target \o path
     /\ info' = [info EXCEPT !.used = IF o.abs THEN 0 ELSE -1]
     /\ pc' = IF buf = o.bytes /\ Fits(Len(buf)) /\ ~Overwritten(Len(buf))
              THEN "inode" ELSE "lost"
  /\ buf' = <<>>
  /\ UNCHANGED <<disk, parent, links, pos, len, err, failed, history>>

Found ==
  /\ pc = "kind" /\ Inode.mode # "link" /\ path = <<>>
  /\ IF Inode.mode = "file" THEN pc' = "open" /\ UNCHANGED err ELSE Refuse("BAD_TYPE")
  /\ pos' = IF Inode.mode = "file" THEN 0 ELSE pos
  /\ len' = IF Inode.mode = "file" THEN Inode.size ELSE len
  /\ UNCHANGED <<disk, info, lookup, buf, failed, history>>

NotDirectory ==
  /\ pc = "kind" /\ Inode.mode = "file" /\ path # <<>> /\ Refuse("NOTDIR")
  /\ UNCHANGED <<disk, info, lookup, pos, len, buf, failed, history>>

-----------------------------------------------------------------------------
(* first_dentry: a directory of one block has the number of its entries    *)
(* in that block, others in leaves.                                        *)
DirMax(leaf) == leaf.count - leaf.stale

FirstEntry ==
  /\ pc = "kind" /\ Inode.mode = "dir" /\ path # <<>>
  /\ \/ /\ Inode.format = "local" /\ pc' = "entry"
        /\ info' = [info EXCEPT !.forw = 0, !.dirmax = Len(Inode.entries), !.dirpos = -2]
     \/ /\ Inode.format # "local" /\ Inode.block /\ pc' = "entry"
        /\ info' = [info EXCEPT !.forw = 0, !.dirmax = DirMax(Inode.tail), !.dirpos = 0, !.at = 1]
     \/ /\ Inode.format # "local" /\ ~Inode.block /\ pc' = "top"
        /\ info' = [info EXCEPT !.forw = 0, !.dablk = 1, !.at = 1]
  /\ UNCHANGED <<disk, lookup, pos, len, buf, err, failed, history>>

(* xfs_dabread.  From the top of the tree down to its first leaf, or along *)
(* the leaves.                                                             *)
ReadLeaf ==
  /\ pc \in {"top", "leaf"}
  /\ LET n == Inode.da[info.dablk] IN
     \/ /\ n.type = "node" /\ info' = [info EXCEPT !.dablk = n.before]
        /\ UNCHANGED <<pc, failed>>
     \/ /\ n.type = "leaf" /\ pc' = IF pc = "top" THEN "entry" ELSE "record"
        /\ info' = [info EXCEPT !.dirpos = 0, !.dirmax = DirMax(n), !.forw = n.forw]
        /\ UNCHANGED failed
     \/ Astray /\ UNCHANGED info
  /\ UNCHANGED <<disk, lookup, pos, len, buf, err, history>>

(* next_dentry *)
Exhausted == info.dirpos >= info.dirmax

NoMoreEntries ==
  /\ pc = "entry" /\ Exhausted
  /\ IF info.forw = 0 THEN Refuse("NOTFOUND") ELSE pc' = "leaf" /\ UNCHANGED err
  /\ info' = [info EXCEPT !.dablk = info.forw]
  /\ UNCHANGED <<disk, lookup, pos, len, buf, failed, history>>

Taking == pc = "record" \/ (pc = "entry" /\ ~Exhausted)
InInode == Inode.format = "local"
Record == IF InInode THEN Inode.entries[info.dirpos + 1] ELSE Inode.entries[info.at]

SkipFree ==
  /\ Taking /\ ~InInode /\ Record.free /\ pc' = "record"
  /\ info' = [info EXCEPT !.at = @ + 1]
  /\ UNCHANGED <<disk, lookup, pos, len, buf, err, failed, history>>

(* "." and ".." are not among the entries of a local directory; the name   *)
(* given for ".." is the empty one behind the dot of ".".                  *)
Name == IF InInode /\ info.dirpos < 0 THEN (IF info.dirpos = -2 THEN "." ELSE "") ELSE Record.name
Number == IF InInode /\ info.dirpos < 0 THEN (IF info.dirpos = -2 THEN 0 ELSE Inode.parent) ELSE Record.ino

Keeps(n) == IF n = 0 THEN obj ELSE n

Entry ==
  /\ Taking /\ (~InInode => ~Record.free)
  /\ \/ /\ Name = Head(path) /\ pc' = "inode"
        /\ parent' = obj /\ obj' = Keeps(Number) /\ path' = Tail(path)
        /\ info' = [info EXCEPT !.dirpos = @ + 1, !.at = @ + 1, !.used = @ + NameLength(<<Name>>)]
        /\ UNCHANGED failed
     \/ /\ Name # Head(path) /\ pc' = "entry"
        /\ info' = [info EXCEPT !.dirpos = @ + 1, !.at = @ + 1]
        /\ UNCHANGED <<parent, obj, path, failed>>
     \/ ~InInode /\ Astray /\ UNCHANGED <<info, parent, obj, path>>
  /\ UNCHANGED <<disk, links, pos, len, buf, err, history>>

-----------------------------------------------------------------------------
Seek(p) ==
  /\ pc = "open" /\ calls < MaxCalls /\ calls' = calls + 1
  /\ pos' = p /\ buf' = <<>> /\ asked' = [asked EXCEPT !.from = p, !.size = 0]
  /\ UNCHANGED <<pc, disk, info, lookup, len, err, failed>>

(* xfs_read_data; the length of the file is compared with the size asked   *)
(* for, wherever the position is.                                          *)
StartRead(size) ==
  /\ buf' = <<>>
  /\ info' = [info EXCEPT !.ext = 1, !.prev = -1, !.left = Lesser(size, len),
                          !.end = pos + Lesser(size, len)]

Read(size) ==
  /\ pc = "open" /\ calls < MaxCalls /\ calls' = calls + 1
  /\ asked' = [asked EXCEPT !.from = pos, !.size = size]
  /\ StartRead(size) /\ pc' = "extents"
  /\ UNCHANGED <<disk, lookup, pos, len, err, failed>>

ReadLink ==
  /\ pc = "link"
  /\ IF Inode.format = "local"
     THEN /\ buf' = SubSeq(Inode.bytes, 1, len) /\ pos' = len
          /\ pc' = "linked" /\ UNCHANGED info
     ELSE StartRead(len) /\ pc' = "linkextents" /\ UNCHANGED pos
  /\ UNCHANGED <<disk, lookup, len, err, failed, history>>

Reading == pc \in {"extents", "linkextents"} /\ info.left > 0 /\ info.ext <= Len(Inode.extents)
Extent == Inode.extents[info.ext]

InExtent(b, x) == b \in x.off..x.off + x.len - 1
Here == InExtent(pos \div disk.bsize, Extent)

Deliver(bytes, prev) ==
  /\ buf' = buf \o bytes /\ pos' = pos + Len(bytes)
  /\ info' = [info EXCEPT !.left = @ - Len(bytes), !.ext = @ + 1, !.prev = prev]
  /\ UNCHANGED <<pc, disk, lookup, len, err, history>>

ExtentRest(x) == (x.off + x.len) * disk.bsize - pos

EndOf(x) == x.off + x.len

(* Blocks of an extent follow each other on the disk. *)
ExtentBytes(x, n) ==
  LET first == pos - x.off * disk.bsize
  IN  [i \in 1..n |-> <<Linear(x.start) + ((first + i - 1) \div disk.bsize),
                        (first + i - 1) % disk.bsize>>]

CopyExtent ==
  /\ Reading /\ Here
  /\ LET n == Lesser(info.left, ExtentRest(Extent)) IN
     \/ Deliver(ExtentBytes(Extent, n), EndOf(Extent)) /\ UNCHANGED failed
     \/ Deliver(Filled(Junk, n), EndOf(Extent)) /\ Fails

(* An extent behind the position: zeros instead, up to the end of what is  *)
(* asked for.  If there is less to fill than that, the extent itself is not *)
(* read any more, and from inside the hole too much is filled.              *)
FillHole ==
  /\ Reading /\ ~Here /\ info.prev # -1 /\ Extent.off > info.prev
  /\ buf' = buf \o Filled(Zero, info.left) /\ pos' = pos + info.left
  /\ pc' = IF Extent.off * disk.bsize >= info.end THEN pc ELSE "lost"
  /\ info' = [info EXCEPT !.left = 0]
  /\ UNCHANGED <<disk, lookup, len, err, failed, history>>

SkipExtent ==
  /\ Reading /\ ~Here /\ (info.prev = -1 \/ Extent.off <= info.prev)
  /\ info' = [info EXCEPT !.ext = @ + 1, !.prev = EndOf(Extent)]
  /\ UNCHANGED <<pc, disk, lookup, pos, len, buf, err, failed, history>>

(* The end of the request or of the extents.  Where those of the first     *)
(* leaf of a tree end, the block to the left of that leaf is read next.     *)
EndRead ==
  /\ pc \in {"extents", "linkextents"} /\ (info.left = 0 \/ info.ext > Len(Inode.extents))
  /\ pc' = IF info.left > 0 /\ Inode.format = "btree" THEN "lost"
           ELSE IF pc = "extents" THEN "open" ELSE "linked"
  /\ UNCHANGED <<disk, info, lookup, pos, len, buf, err, failed, history>>

Next ==
  \/ \E p \in Paths : Open(p)
  \/ ReadInode \/ OpenLink \/ FollowLink \/ Found \/ NotDirectory
  \/ FirstEntry \/ ReadLeaf \/ NoMoreEntries \/ SkipFree \/ Entry
  \/ \E p \in Positions : Seek(p)
  \/ \E n \in Sizes : Read(n)
  \/ ReadLink \/ CopyExtent \/ FillHole \/ SkipExtent \/ EndRead

Spec == Init /\ [][Next]_vars
==============================================================================
