------------------------------- MODULE ReiserFS -------------------------------
(***************************************************************************)
(* fs_reiserfs.c.  The file system is one tree of nodes, sorted by key     *)
(* <<directory, object, offset>>; the leaves hold items, the nodes above   *)
(* them n keys and n + 1 children.  A block that is in a transaction of    *)
(* the journal is taken from there.  The nodes on the path to the current  *)
(* item are cached, the root in slot 0, the leaf in slot 1, those between  *)
(* in slots 2 and up, all that do not fit in the last one.                 *)
(*                                                                         *)
(* disk.at is what the blocks hold, disk.ring the journal (its blocks are  *)
(* at disk.jblock + 0, 1, ...).  search_stat and next_key are subroutines: *)
(* info.then is where they return to.                                      *)
(***************************************************************************)
EXTENDS Driver

CONSTANTS
  Slots,   (* INFO->cached_slots *)
  Half,    (* JOURNAL_TRANS_HALF *)
  Tables   (* what may lie behind FSYS_BUF, where JOURNAL_START points: *)
           (* "marker" is 0xffffffff, "zeros" is 0 *)

-----------------------------------------------------------------------------
(* Plausible errors in the definitions below. *)
RealBlock_DescOnly(desc, commit, i) == IF i <= Half THEN desc.real[i] ELSE 0
NextDesc_NoCommit(d, n) == (d + 1 + n) % Len(disk.ring)
Follows_StatOnly(k, key) == k[1] > key[1] \/ (k[1] = key[1] /\ k[2] > key[2] + 1)
Chase_FromHere(o) == IF o.abs THEN disk.root ELSE obj
-----------------------------------------------------------------------------
(* The journal *)

Ring(d) == disk.ring[(d % Len(disk.ring)) + 1]

NextDesc(d, n) == (d + 2 + n) % Len(disk.ring)

(* journal_init: transactions from the first one that is not flushed, as   *)
(* long as descriptor and commit agree.  What it caches goes to a table    *)
(* between JOURNAL_START and JOURNAL_END, which are the same address: it   *)
(* never writes there, not even the marker for its end.                    *)
Valid(d, id) ==
  LET desc == Ring(d) IN
  /\ desc.k = "desc" /\ desc.id = id /\ desc.mount = disk.header.mount
  /\ LET commit == Ring(d + desc.len + 1)
     IN  commit.k = "commit" /\ commit.id = id /\ commit.len = desc.len

Transactions ==
  LET start[n \in 0..Len(disk.ring)] ==   (* where the n-th one after the first starts *)
        IF n = 0 THEN disk.header.first ELSE NextDesc(start[n - 1], Ring(start[n - 1]).len)
      ok(n) == Valid(start[n], disk.header.flushed + n + 1)
      upTo  == {n \in 0..Len(disk.ring) - 1 :
                  \A m \in 0..n - 1 : Ring(start[m]).k = "desc" /\ ok(m)}
  IN  Max(upTo)

RealBlock(desc, commit, i) ==
  IF i <= Half THEN desc.real[i] ELSE commit.real[i - Half]

(* block_read, with the end marker in the empty table: later transactions  *)
(* override earlier ones.  With zeros there it finds empty transactions.   *)
Hop(t, desc, b) ==
  [at |-> LET hits == {i \in 1..desc.len : RealBlock(desc, Ring(t.d + 1 + desc.len), i) = b}
          IN  IF hits = {} THEN t.at ELSE disk.jblock + ((t.d + Min(hits)) % Len(disk.ring)),
   d  |-> NextDesc(t.d, desc.len)]

Translated(b) ==
  LET f[n \in 0..info.transactions] ==
        IF n = 0 THEN [at |-> b, d |-> disk.header.first]
        ELSE CHOOSE r \in {Hop(t, Ring(t.d), b) : t \in {f[n - 1]}} : TRUE
  IN  IF info.table = "marker" THEN f[info.transactions].at ELSE b

-----------------------------------------------------------------------------
Node(place) == disk.at[place]
Leaf == Node(info.slot[1])
Items == Leaf.items
Key(item) == <<item.dir, item.obj, item.off>>
NoItem == [dir |-> 0, obj |-> 0, off |-> 0, type |-> "none"]
Current == IF info.cur \in DOMAIN Items THEN Items[info.cur] ELSE NoItem  (* MAX_KEY *)

NoInfo ==
  [table |-> "marker", transactions |-> 0, depth |-> 0, slot |-> [i \in 0..Slots |-> 0],
   blocks |-> [i \in 1..6 |-> 0], next |-> [i \in 1..6 |-> 0], cur |-> 0,
   then |-> "", lvl |-> 0, want |-> <<0, 0>>, reading |-> "file", left |-> 0]

Init ==
  /\ disk \in {d \in Disks : d.fs = "reiserfs"} /\ pc = "closed" /\ info = NoInfo
  /\ path = <<>> /\ obj = <<0, 0>> /\ parent = <<0, 0>> /\ links = 0 /\ pos = 0 /\ len = 0
  /\ buf = <<>> /\ err = "OK" /\ failed = 0 /\ calls = 0
  /\ asked = [path |-> <<>>, from |-> 0, size |-> 0]

Refuse(e) == pc' = "refused" /\ err' = e

(* Call of search_stat, and of next_key. *)
Search(key, then) ==
  /\ pc' = "down"
  /\ info' = [info EXCEPT !.then = then, !.lvl = info.depth, !.want = key]
NextKey(then) ==
  /\ pc' = "next" /\ info' = [info EXCEPT !.then = then]

-----------------------------------------------------------------------------
(* reiserfs_open: reiserfs_read_super looks at two places; a super block   *)
(* from before journaling has its magic elsewhere and no journal.          *)
Super ==
  CASE Node(16).k = "super" -> Node(16) @@ [place |-> 16]
    [] Node(16).k # "super" /\ Node(2).k = "super" -> Node(2) @@ [place |-> 2]
    [] OTHER -> [version |-> 3]

Mountable ==
  /\ Super.version <= 2
  /\ Super.journal => Len(disk.ring) \in {1, 2, 4, 8, 16, 32}

Open(p) ==
  /\ pc \in {"closed", "open", "refused"} /\ calls < MaxCalls /\ calls' = calls + 1
  /\ asked' = [path |-> p, from |-> 0, size |-> 0] /\ path' = p
  /\ \E t \in Tables : info' = [NoInfo EXCEPT !.table = t]
  /\ parent' = disk.root /\ obj' = disk.root /\ links' = 0
  /\ pos' = 0 /\ len' = 0 /\ buf' = <<>> /\ failed' = 0
  /\ IF Mountable THEN pc' = "super" /\ err' = "OK" ELSE Refuse("BAD_FSYS")
  /\ UNCHANGED disk

MountFails ==
  /\ pc = "super" /\ Fails /\ Refuse("BAD_FSYS")
  /\ UNCHANGED <<disk, info, lookup, pos, len, buf, history>>

(* The transactions are counted; then the super block is read again,       *)
(* perhaps from the journal, and after it the root.                        *)
Mount ==
  /\ pc = "super" /\ pc' = "root"
  /\ info' = [info EXCEPT !.transactions =
                IF Super.journal /\ disk.header.first < Len(disk.ring) THEN Transactions ELSE 0]
  /\ UNCHANGED <<disk, lookup, pos, len, buf, err, failed, history>>

(* Nobody looks whether the journal, or the super block again, was read:   *)
(* what lies on the stack is taken for it.                                 *)
JournalUnread ==
  /\ pc = "super" /\ Super.journal /\ Fails /\ pc' = "lost"
  /\ UNCHANGED <<disk, info, lookup, pos, len, buf, err, history>>

Root == IF Super.journal THEN Node(Translated(Super.place)).root ELSE Super.root

ReadRoot ==
  /\ pc = "root"
  /\ LET place == Translated(Root)
         depth == Node(place).level
     IN  IF depth >= 7 THEN Refuse("BAD_FSYS") /\ UNCHANGED info
         ELSE /\ info' = [info EXCEPT !.depth = depth, !.slot[0] = place,
                            !.slot[1] = IF depth = 1 THEN place ELSE @]
              /\ pc' = "lookup" /\ err' = "OK"
  /\ UNCHANGED <<disk, lookup, pos, len, buf, failed, history>>

RootFails ==
  /\ pc = "root" /\ Fails /\ Refuse("BAD_FSYS")
  /\ UNCHANGED <<disk, info, lookup, pos, len, buf, history>>

-----------------------------------------------------------------------------
(* read_tree_node: the node of a block, from the cache if it is the one    *)
(* there.  A block at the wrong level stays in the cache although blocks   *)
(* still has the number of the one before.                                 *)
Slot(depth) == Lesser(depth, Slots)

Fresh(b, depth) == depth < Slots /\ info.blocks[depth] = b

(* What the subroutine returns to when it fails: search_stat and next_key  *)
(* are believed by the loop that reads, and by nobody else.                *)
Fallback(e) ==
  CASE info.then = "items" -> pc' = "items" /\ err' = e
    [] info.then = "again" -> pc' = "next" /\ err' = e
    [] info.then = "link"  -> Refuse("IOERR")
    [] OTHER               -> Refuse(e)

(* Child c of the node at level lvl is entered with the statics i. *)
Enter(i, child) ==
  LET depth == i.lvl - 1
      node  == Node(Translated(child))
  IN  IF Fresh(child, depth)
      THEN info' = [i EXCEPT !.lvl = depth] /\ err' = "OK" /\ UNCHANGED pc
      ELSE IF node.level = depth
      THEN /\ info' = [i EXCEPT !.lvl = depth, !.blocks[depth] = child,
                                !.slot[Slot(depth)] = Translated(child)]
           /\ err' = "OK" /\ UNCHANGED pc
      ELSE /\ info' = [i EXCEPT !.slot[Slot(depth)] = Translated(child),
                                !.then = IF @ = "again" THEN "items" ELSE @]
           /\ Fallback("BAD_FSYS")

EnterFails(i) ==
  /\ Fails /\ info' = [i EXCEPT !.then = IF @ = "again" THEN "items" ELSE @]
  /\ Fallback("OK")

(* The node at level l, which was read last. *)
Above(l) == Node(info.slot[IF l = info.depth THEN 0 ELSE Slot(l)])

(* search_stat *)
Follows(k, key) ==
  k[1] > key[1] \/ (k[1] = key[1] /\ (k[2] > key[2] \/ (k[2] = key[2] /\ k[3] > 0)))

AfterChild(i, n) == IF i = n THEN 0 ELSE i + 1

Child(n) ==
  LET over == {i \in DOMAIN n.keys : Follows(n.keys[i], info.want)}
  IN  IF over = {} THEN Len(n.keys) ELSE Min(over) - 1

SearchStep(Goes(_, _)) ==
  /\ pc = "down" /\ info.lvl > 1
  /\ LET n == Above(info.lvl)
         i == Child(n)
     IN  Goes([info EXCEPT !.next[info.lvl] = AfterChild(i, Len(n.keys))], n.children[i + 1])
  /\ UNCHANGED <<disk, lookup, pos, len, buf, history>>

Descend      == SearchStep(Enter) /\ UNCHANGED failed
DescendFails == SearchStep(LAMBDA i, child : EnterFails(i))

FindStat ==
  /\ pc = "down" /\ info.lvl = 1
  /\ LET at == {i \in DOMAIN Items : Items[i].type = "stat" /\ <<Items[i].dir, Items[i].obj>> = info.want}
     IN  IF at = {} THEN /\ Fallback("BAD_FSYS")
                         /\ info' = [info EXCEPT !.then = IF @ = "again" THEN "items" ELSE @]
         ELSE /\ info' = [info EXCEPT !.cur = Min(at),
                                      !.then = IF @ = "again" THEN "items" ELSE @]
              /\ pc' = IF info.then = "again" THEN "next" ELSE info.then
              /\ UNCHANGED err
  /\ UNCHANGED <<disk, lookup, pos, len, buf, failed, history>>

-----------------------------------------------------------------------------
(* next_key: the next item of the leaf, or the first one below the lowest  *)
(* node of the path that has another child, or the dummy with MAX_KEY.     *)
Higher == {d \in 2..info.depth : info.next[d] # 0}

InLeaf ==
  /\ pc = "next" /\ info.cur \in 1..Len(Items) - 1
  /\ info' = [info EXCEPT !.cur = @ + 1] /\ pc' = info.then
  /\ UNCHANGED <<disk, lookup, pos, len, buf, err, failed, history>>

NoMoreKeys ==
  /\ pc = "next" /\ info.cur \notin 1..Len(Items) - 1 /\ Higher = {}
  /\ info' = [info EXCEPT !.cur = 0] /\ pc' = info.then
  /\ UNCHANGED <<disk, lookup, pos, len, buf, err, failed, history>>

Kept(d) == d = info.depth \/ d <= Slots

Climb ==
  /\ pc = "next" /\ info.cur \notin 1..Len(Items) - 1 /\ Higher # {} /\ Kept(Min(Higher))
  /\ info' = [info EXCEPT !.lvl = Min(Higher)] /\ pc' = "below"
  /\ UNCHANGED <<disk, lookup, pos, len, buf, err, failed, history>>

(* A node that was not kept is read again, but it is the one below it.  It *)
(* is in the last slot all the same.                                       *)
Reread ==
  /\ pc = "next" /\ info.cur \notin 1..Len(Items) - 1 /\ Higher # {} /\ ~Kept(Min(Higher))
  /\ LET d == Min(Higher) - 1 IN
     \/ /\ info' = [info EXCEPT !.lvl = d, !.slot[Slot(d)] = Translated(info.blocks[d])]
        /\ pc' = "below" /\ err' = "OK" /\ UNCHANGED failed
     \/ Fails /\ Fallback("OK") /\ UNCHANGED info
  /\ UNCHANGED <<disk, lookup, pos, len, buf, history>>

NextStep(Goes(_, _)) ==
  /\ pc = "below" /\ info.lvl > 1
  /\ LET n == Above(info.lvl)
         i == info.next[info.lvl]
     IN  Goes([info EXCEPT !.next[info.lvl] = AfterChild(i, Len(n.keys))], n.children[i + 1])
  /\ UNCHANGED <<disk, lookup, pos, len, buf, history>>

Follow      == NextStep(Enter) /\ UNCHANGED failed
FollowFails == NextStep(LAMBDA i, child : EnterFails(i))

FirstItem ==
  /\ pc = "below" /\ info.lvl = 1
  /\ info' = [info EXCEPT !.cur = 1] /\ pc' = info.then
  /\ UNCHANGED <<disk, lookup, pos, len, buf, err, failed, history>>

-----------------------------------------------------------------------------
(* reiserfs_open_file *)
Lookup ==
  /\ pc = "lookup" /\ Search(obj, "stat") /\ err' = "OK"
  /\ UNCHANGED <<disk, lookup, pos, len, buf, failed, history>>

MaxLinks == 5

(* A link is read like a file, into linkbuf in front of what is left. *)
OpenLink ==
  /\ pc = "stat" /\ Current.mode = "link"
  /\ links' = links + 1
  /\ CASE links' > MaxLinks -> Refuse("SYMLINK_LOOP") /\ UNCHANGED <<info, len, pos>>
       [] links' <= MaxLinks /\ Current.size + NameLength(path) > disk.linkmax ->
            Refuse("LENGTH") /\ len' = Current.size /\ UNCHANGED <<info, pos>>
       [] OTHER -> /\ len' = Current.size /\ pos' = 0
                   /\ NextKey("link") /\ UNCHANGED err
  /\ UNCHANGED <<disk, path, obj, parent, buf, failed, history>>

Chase(o) == IF o.abs THEN disk.root ELSE parent

FollowLink ==
  /\ pc = "read" /\ info.reading = "link"
  /\ info' = [info EXCEPT !.reading = "file"]
  /\ IF err = "OK" /\ Len(buf) = len
     THEN /\ LET o == disk.tree[obj] IN
             /\ path' = IF buf = o.bytes THEN o.target \o path ELSE <<"?">>
             /\ obj' = Chase(o)
          /\ pc' = "lookup" /\ buf' = <<>> /\ UNCHANGED err
     ELSE Refuse("IOERR") /\ UNCHANGED <<path, obj, buf>>
  /\ UNCHANGED <<disk, parent, links, pos, len, failed, history>>

Found ==
  /\ pc = "stat" /\ Current.mode # "link" /\ path = <<>>
  /\ IF Current.mode = "file"
     THEN pos' = 0 /\ len' = Current.size /\ NextKey("open") /\ UNCHANGED err
     ELSE Refuse("BAD_TYPE") /\ UNCHANGED <<pos, len, info>>
  /\ UNCHANGED <<disk, lookup, buf, failed, history>>

Directory ==
  /\ pc = "stat" /\ Current.mode # "link" /\ path # <<>>
  /\ IF Current.mode = "dir" THEN NextKey("entries") /\ UNCHANGED err
                             ELSE Refuse("NOTDIR") /\ UNCHANGED info
  /\ UNCHANGED <<disk, lookup, pos, len, buf, failed, history>>

Matches(e) == e.visible /\ e.name = Head(path)

Entries ==
  /\ pc = "entries"
  /\ LET hits == {i \in DOMAIN Current.entries : Matches(Current.entries[i])} IN
     CASE Current.obj # obj[2] -> Refuse("NOTFOUND") /\ UNCHANGED <<lookup, info>>
       [] Current.obj = obj[2] /\ hits = {} -> NextKey("entries") /\ UNCHANGED <<lookup, err>>
       [] OTHER -> /\ parent' = obj /\ obj' = Current.entries[Min(hits)].key
                   /\ path' = Tail(path) /\ pc' = "lookup"
                   /\ UNCHANGED <<links, info, err>>
  /\ UNCHANGED <<disk, pos, len, buf, failed, history>>

-----------------------------------------------------------------------------
Seek(p) ==
  /\ pc = "open" /\ calls < MaxCalls /\ calls' = calls + 1
  /\ pos' = p /\ buf' = <<>> /\ asked' = [asked EXCEPT !.from = p, !.size = 0]
  /\ UNCHANGED <<pc, disk, info, lookup, len, err, failed>>

(* reiserfs_read_data starts at the current item unless the item is of     *)
(* another object or behind the position.                                  *)
StartRead(i, size) ==
  /\ buf' = <<>> /\ err' = "OK"
  /\ LET r == [i EXCEPT !.left = size] IN
     IF Current.obj # obj[2] \/ Current.off > pos + 1
     THEN info' = [r EXCEPT !.then = "again", !.lvl = info.depth, !.want = obj] /\ pc' = "down"
     ELSE info' = r /\ pc' = "items"

Read(size) ==
  /\ pc = "open" /\ calls < MaxCalls /\ calls' = calls + 1
  /\ asked' = [asked EXCEPT !.from = pos, !.size = size]
  /\ StartRead(info, size)
  /\ UNCHANGED <<disk, lookup, pos, len, failed>>

ReadLink ==
  /\ pc = "link" /\ StartRead([info EXCEPT !.reading = "link"], len)
  /\ UNCHANGED <<disk, lookup, pos, len, failed, history>>

ItemLength(item) == IF item.type = "indirect" THEN disk.bsize * Len(item.blocks) ELSE item.len

(* The difference is unsigned: before the item it is beyond its length. *)
InItem(item) == pos - item.off + 1 \in 0..ItemLength(item) - 1

Delivers == pc = "items" /\ err = "OK" /\ Current.obj = obj[2] /\ info.left > 0

Deliver(bytes) ==
  /\ buf' = buf \o bytes /\ pos' = pos + Len(bytes)
  /\ info' = [info EXCEPT !.left = @ - Len(bytes)]
  /\ UNCHANGED <<pc, disk, lookup, len, err, history>>

CopyDirect ==
  /\ Delivers /\ Current.type = "direct" /\ InItem(Current)
  /\ LET off == pos - Current.off + 1
     IN  Deliver(SubSeq(BytesAt(Current.tag, 0, Current.len), off + 1,
                        off + Lesser(Current.len - off, info.left)))
  /\ UNCHANGED failed

(* Nobody asks whether the block could be read. *)
CopyBlock ==
  /\ Delivers /\ Current.type = "indirect" /\ InItem(Current)
  /\ LET off == pos - Current.off + 1
         b   == Current.blocks[(off \div disk.bsize) + 1]
         n   == Lesser(disk.bsize - (off % disk.bsize), info.left)
     IN  \/ b = 0 /\ Deliver(Filled(Zero, n)) /\ UNCHANGED failed
         \/ b # 0 /\ Deliver(BytesAt(Translated(b), off % disk.bsize, n)) /\ UNCHANGED failed
         \/ b # 0 /\ Deliver(Filled(Junk, n)) /\ Fails

NextItem ==
  /\ Delivers /\ ~(Current.type \in {"direct", "indirect"} /\ InItem(Current))
  /\ NextKey("items")
  /\ UNCHANGED <<disk, lookup, pos, len, buf, err, failed, history>>

EndRead ==
  /\ pc = "items" /\ (info.left = 0 \/ err # "OK" \/ Current.obj # obj[2])
  /\ pc' = IF info.reading = "link" THEN "read" ELSE "open"
  /\ buf' = IF err = "OK" THEN buf ELSE <<>>
  /\ UNCHANGED <<disk, info, lookup, pos, len, err, failed, history>>

Next ==
  \/ \E p \in Paths : Open(p)
  \/ MountFails \/ Mount \/ JournalUnread \/ ReadRoot \/ RootFails
  \/ Descend \/ DescendFails \/ FindStat
  \/ InLeaf \/ NoMoreKeys \/ Climb \/ Reread \/ Follow \/ FollowFails \/ FirstItem
  \/ Lookup \/ OpenLink \/ FollowLink \/ Found \/ Directory \/ Entries
  \/ \E p \in Positions : Seek(p)
  \/ \E n \in Sizes : Read(n)
  \/ ReadLink \/ CopyDirect \/ CopyBlock \/ NextItem \/ EndRead

Spec == Init /\ [][Next]_vars

(***************************************************************************)
(* The node cache: as long as every node is at the level its parent says,  *)
(* a slot holds the block that blocks names for its depth, whatever reads  *)
(* failed and whichever paths came before.  read_tree_node serves a block  *)
(* from there without looking at it again.                                 *)
(***************************************************************************)
CacheTrue ==
  \A depth \in 1..Slots - 1 :
    info.blocks[depth] # 0 /\ disk.sound => info.slot[depth] = Translated(info.blocks[depth])
==============================================================================
