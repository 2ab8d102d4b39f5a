-------------------------------- MODULE Driver --------------------------------
(***************************************************************************)
(* What the drivers of a file system have in common, as open_file sees     *)
(* them: open looks a path up and leaves the inode of a regular file, seek *)
(* sets file->pos, read fills the caller's buffer from there.  Each driver *)
(* keeps what it knows of the disk in statics, the record info.            *)
(*                                                                         *)
(* A disk is a record; its field fs names the driver, tree is the          *)
(* directory tree that it stands for, from object to                       *)
(*   [type |-> "file", bytes |-> ...], [type |-> "dir", entries |-> ...]   *)
(*   or [type |-> "link", abs |-> ..., target |-> ..., bytes |-> ...]      *)
(* and the other fields are how the blocks encode it.  The disk is sound   *)
(* if there is no error in them, and none of the forms in them that the    *)
(* driver does not handle (README, "What the drivers do not handle").      *)
(***************************************************************************)
EXTENDS Integers, Sequences, FiniteSets, SequencesExt

CONSTANTS
  Disks,
  Paths,       (* file names asked for, as sequences of names *)
  Positions,   (* where callers seek *)
  Sizes,       (* how much they ask for *)
  Failures,    (* how many reads of the device may fail *)
  MaxCalls     (* bound: opens, seeks and reads *)

ASSUME DriverAssumption ==
  /\ Failures \in Nat /\ MaxCalls \in Nat
  /\ Positions \subseteq Nat /\ Sizes \subseteq Nat \ {0}

VARIABLES
  pc,       (* "closed", "open", "refused", where the driver is, or "lost" *)
  disk,
  info,     (* statics of the driver *)
  path,     (* what is left of the name *)
  obj,      (* the inode come to, and in the end the one that is open *)
  parent,   (* the directory it was found in *)
  links,    (* link_count *)
  pos, len, (* file->pos and file->len *)
  buf,      (* what the read has put into the caller's buffer *)
  err,      (* errnum *)
  asked,    (* history: the path that was opened, and of the last read the *)
            (* position and the size asked for *)
  failed,   (* history: reads that failed *)
  calls

vars == <<pc, disk, info, path, obj, parent, links, pos, len, buf, err, asked, failed, calls>>

lookup  == <<path, obj, parent, links>>
history == <<asked, calls>>

-----------------------------------------------------------------------------
Junk == <<"junk">>         (* a byte of the buffer nothing was read to *)
Zero == <<"zero">>

Lesser(a, b) == IF a < b THEN a ELSE b

(* n bytes from the off-th on of the block at a place of the disk. *)
BytesAt(place, off, n) == [i \in 1..n |-> <<place, off + i - 1>>]
Filled(byte, n) == [i \in 1..n |-> byte]

(* Bytes of what is left of a path: a slash and a letter for each name. *)
NameLength(names) == 2 * Len(names)

Fails == failed < Failures /\ failed' = failed + 1

-----------------------------------------------------------------------------
(* The object a path leads to, or why it leads to none.  max is the number *)
(* of links that may be followed, in all or, where links nest, one inside  *)
(* the other: each name comes with the number that were followed for it.   *)
No(e) == [obj |-> disk.root, err |-> e]

Counted(names, n) == [i \in DOMAIN names |-> <<names[i], n>>]
Behind(names, n) == IF disk.nested THEN names ELSE [i \in DOMAIN names |-> <<names[i][1], n>>]

RECURSIVE Walk(_, _, _, _)
Walk(at, from, names, followed) ==
  LET o == disk.tree[at] IN
  CASE o.type = "link" ->
         IF followed = disk.maxlinks THEN No("SYMLINK_LOOP")
         ELSE IF Len(o.bytes) + (IF disk.copies THEN NameLength(names) ELSE 0) > disk.linkmax
         THEN No("LENGTH")
         ELSE Walk(IF o.abs THEN disk.root ELSE from, from,
                   Counted(o.target, followed + 1) \o Behind(names, followed + 1), followed + 1)
    [] o.type # "link" /\ names = <<>> ->
         IF o.type = "file" \/ disk.anytype THEN [obj |-> at, err |-> "OK"] ELSE No(disk.badtype)
    [] o.type = "file" /\ names # <<>> -> No(disk.notdir)
    [] OTHER -> IF Head(names)[1] \notin DOMAIN o.entries THEN No(disk.notfound)
                ELSE Walk(o.entries[Head(names)[1]], at, Tail(names), Head(names)[2])

Resolved == Walk(disk.root, disk.root, Counted(asked.path, 0), 0)

Content == disk.tree[obj].bytes

(***************************************************************************)
(* Whatever mixture of directories, links, cached and journaled blocks and *)
(* failed reads the lookup goes through: the file that is open is the one  *)
(* the path names, a complaint is the one the path deserves, and the       *)
(* driver never takes for its data what is not.                            *)
(***************************************************************************)
FindsRight ==
  /\ pc = "open" => Resolved = [obj |-> obj, err |-> "OK"]
  /\ pc = "refused" /\ failed = 0 /\ disk.sound => Resolved.err = err
  /\ pc = "lost" => failed > 0 \/ ~disk.sound

(***************************************************************************)
(* Every byte a read returns is what the file holds there, or belongs to a *)
(* block the device would not give; and when the device gives everything   *)
(* the read returns all that was asked for, up to the end of the file.     *)
(* (What follows the end in the last block may be returned as well.)       *)
(***************************************************************************)
ReadsRight ==
  pc = "open" /\ asked.size > 0 =>
    /\ Len(buf) <= asked.size
    /\ \A i \in DOMAIN buf :
         asked.from + i <= Len(Content) => buf[i] \in {Content[asked.from + i], Junk}
    /\ failed = 0 /\ disk.sound => Len(buf) >= Lesser(asked.size, Len(Content) - asked.from)
==============================================================================
