------------------------------- MODULE Ext2Read -------------------------------
(***************************************************************************)
(* fs_ext2.c: reading from the one open file.  ext2fs_block_iterate calls  *)
(* read_iterator for every allocated block in the order of the file; runs  *)
(* of blocks that also follow each other on the disk are collected in a    *)
(* range and read in one go by read_dump_range, holes are filled with      *)
(* zeros, and the first and the last block may be wanted in part.          *)
(*                                                                         *)
(* A byte of the disk is <<block, offset>>.  What a read leaves in the     *)
(* caller's buffer is the sequence buf, whose length is read_total.        *)
(* Block numbers above the direct ones come from indirect blocks: one for  *)
(* the first group, the others through the double indirect block.          *)
(***************************************************************************)
EXTENDS Integers, Sequences, FiniteSets

CONSTANTS
  BlockSize,   (* bs *)
  MaxRange,    (* MAX_READ_RANGE *)
  Direct,      (* EXT2_NDIR_BLOCKS *)
  Group,       (* block numbers in an indirect block *)
  Files,       (* block of the disk for each block of the file, 0 for a hole *)
  Positions,   (* where callers seek *)
  Sizes,       (* how much they ask for *)
  Failures,    (* reads of the device may fail *)
  ShortReads,  (* or return in two pieces *)
  MaxCalls     (* bound: reads and seeks *)

Blocks(f) == Cardinality(DOMAIN f)

ASSUME Ext2Assumption ==
  /\ BlockSize \in Nat \ {0} /\ MaxRange \in Nat \ {0} /\ Group \in Nat \ {0}
  /\ Direct \in Nat /\ MaxCalls \in Nat /\ Positions \subseteq Nat /\ Sizes \subseteq Nat
  /\ \A f \in Files :
       Blocks(f) \in Nat /\ DOMAIN f = 0..Blocks(f) - 1 /\ \A b \in DOMAIN f : f[b] \in Nat
  /\ Failures \in BOOLEAN /\ ShortReads \in BOOLEAN

Zero == <<0, 0>>
Junk == <<0, 1>>       (* what the buffer held before *)

VARIABLES
  pc,
  file,      (* block numbers of the open inode *)
  pos,       (* file->pos *)
  start, count, last, max,  (* read_range_start and _count, read_last_logical, read_max *)
  at,        (* block of the file the iteration has come to *)
  bcount,    (* the number read_iterator is given for it *)
  ending,    (* the range is dumped by ext2_read and not by read_iterator *)
  buf,       (* read_buffer up to where it is filled *)
  error,     (* ext2fs_block_iterate or the last range failed: ext2_read says so *)
  lost,      (* history: a group of blocks was left out and the iteration went on *)
  want, from, failed,  (* history: size asked, position then, a read that failed *)
  calls

vars == <<pc, file, pos, start, count, last, max, at, bcount, ending, buf, error, lost,
          want, from, failed, calls>>
range == <<start, count, last>>
asked == <<file, want, from, calls>>

-----------------------------------------------------------------------------
(***************************************************************************)
(* Plausible errors in the definitions below, which the properties must    *)
(* tell from the code.                                                     *)
(***************************************************************************)
InRange_DiskOnly ==                      (* holes forgotten *)
  start # 0 /\ count < MaxRange /\ file[at] = start + count

Enough_Early(n) == (n + 1) * BlockSize >= max

HoleBytes_Unclamped == (bcount - last) * BlockSize - (pos % BlockSize)

-----------------------------------------------------------------------------
Smaller(a, b) == IF a < b THEN a ELSE b

(* n blocks of the disk from block b on. *)
Bytes(b, n) ==
  [i \in 1..n * BlockSize |-> <<b + (i - 1) \div BlockSize, (i - 1) % BlockSize>>]

(* linux_read_blk: when the device returns less than asked the loop asks   *)
(* for the rest, but into the same place.                                  *)
Overlaid(bytes, k) ==
  [i \in 1..Len(bytes) |-> IF i <= Len(bytes) - k THEN bytes[k + i]
                           ELSE IF i <= k THEN bytes[i] ELSE Junk]

Delivered(bytes) ==
  {bytes} \union (IF ShortReads THEN {Overlaid(bytes, k) : k \in 1..Len(bytes) - 1} ELSE {})

DeviceFails == Failures /\ failed' = TRUE

(* The bookkeeping every piece of data or hole comes with. *)
Advance(bytes) ==
  /\ buf' = buf \o bytes
  /\ max' = max - Len(bytes)
  /\ pos' = pos + Len(bytes)

-----------------------------------------------------------------------------
Init ==
  /\ pc = "done" /\ file \in Files /\ pos = 0 /\ start = 0 /\ count = 0 /\ last = 0
  /\ max = 0 /\ at = 0 /\ bcount = 0 /\ ending = FALSE /\ buf = <<>> /\ error = FALSE /\ lost = FALSE
  /\ want = 0 /\ from = 0 /\ failed = FALSE /\ calls = 0

Seek(p) ==
  /\ pc = "done" /\ calls < MaxCalls
  /\ pos' = p /\ from' = p /\ want' = 0 /\ buf' = <<>> /\ error' = FALSE /\ lost' = FALSE /\ failed' = FALSE
  /\ calls' = calls + 1
  /\ UNCHANGED <<pc, file, range, max, at, bcount, ending>>

Read(size) ==
  /\ pc = "done" /\ calls < MaxCalls
  /\ pc' = "next" /\ start' = 0 /\ count' = 0 /\ last' = pos \div BlockSize
  /\ max' = size /\ buf' = <<>> /\ error' = FALSE /\ at' = 0 /\ bcount' = 0 /\ ending' = FALSE
  /\ want' = size /\ from' = pos /\ lost' = FALSE /\ failed' = FALSE /\ calls' = calls + 1
  /\ UNCHANGED <<file, pos>>

(* The inode, or memory for the indirect blocks, cannot be had. *)
NoBlocks ==
  /\ pc = "next" /\ at = 0 /\ DeviceFails
  /\ error' = TRUE /\ pc' = "done"
  /\ UNCHANGED <<asked, pos, range, max, at, bcount, ending, buf, lost>>

-----------------------------------------------------------------------------
(* The iteration *)

ToNext == at' = at + 1 /\ bcount' = bcount + 1

Given == pc = "next" /\ at < Blocks(file) /\ file[at] # 0
Wanted == Given /\ bcount >= pos \div BlockSize

Skip ==
  /\ pc = "next" /\ at < Blocks(file) /\ ~Wanted
  /\ ToNext
  /\ UNCHANGED <<pc, asked, pos, range, max, ending, buf, error, lost, failed>>

(* An indirect block cannot be read.  After any but the first the          *)
(* iteration ends with an error.  After the first it goes on, without      *)
(* having counted the blocks it left out, and the double indirect block,   *)
(* if the file has one, is read next and its result kept as errcode in     *)
(* place of the error.                                                     *)
Allocated(first, past) == \E b \in first..past - 1 : file[b] # 0

IndirectFails ==
  /\ pc = "next" /\ at < Blocks(file) /\ at >= Direct /\ (at - Direct) % Group = 0
  /\ LET past == Smaller(at + Group, Blocks(file))
         on   == IF at = Direct THEN past ELSE Blocks(file)
     IN  /\ Allocated(at, past)
         /\ at' = on /\ error' = ~Allocated(on, Blocks(file))
  /\ DeviceFails /\ lost' = (lost \/ at = Direct)
  /\ UNCHANGED <<pc, asked, pos, range, max, bcount, ending, buf>>

Enough(n) == n * BlockSize >= max

InRange ==
  /\ start # 0 /\ count < MaxRange
  /\ file[at] = start + count /\ bcount = last + count

Extend ==
  /\ Wanted /\ InRange
  /\ count' = count + 1
  /\ IF Enough(count + 1) THEN pc' = "end" /\ UNCHANGED <<at, bcount>>
                          ELSE UNCHANGED pc /\ ToNext
  /\ UNCHANGED <<asked, pos, start, last, max, ending, buf, error, lost, failed>>

OtherRange ==
  /\ Wanted /\ ~InRange
  /\ pc' = IF start # 0 THEN "dump" ELSE "place"
  /\ UNCHANGED <<asked, pos, range, max, at, bcount, ending, buf, error, lost, failed>>

IterationEnds ==
  /\ pc = "next" /\ at = Blocks(file)
  /\ pc' = "end"
  /\ UNCHANGED <<asked, pos, range, max, at, bcount, ending, buf, error, lost, failed>>

-----------------------------------------------------------------------------
(* read_dump_range: whole blocks into the caller's buffer, what is left of *)
(* the last one through block_buffer.  A failure leaves the range as it is *)
(* and aborts the iteration, after which ext2_read dumps once more.        *)

WholeBlocks == IF count * BlockSize > max THEN count - 1 ELSE count

DumpFails ==
  /\ pc \in {"dump", "rest"} /\ count > 0
  /\ pc = "dump" => WholeBlocks > 0
  /\ pc = "rest" => max # 0
  /\ DeviceFails
  /\ pc' = IF ending THEN "done" ELSE "end"
  /\ error' = ending
  /\ UNCHANGED <<asked, pos, range, max, at, bcount, ending, buf, lost>>

DumpBlocks ==
  /\ pc = "dump" /\ pc' = "rest"
  /\ LET n == WholeBlocks IN
     IF n = 0 THEN UNCHANGED <<range, pos, max, buf>>
     ELSE /\ \E bytes \in Delivered(Bytes(start, n)) : Advance(bytes)
          /\ count' = count - n /\ start' = start + n /\ last' = last + n
  /\ UNCHANGED <<asked, at, bcount, ending, error, lost, failed>>

DumpRest ==
  /\ pc = "rest"
  /\ IF max # 0 /\ count # 0
     THEN \E bytes \in Delivered(Bytes(start, 1)) : Advance(SubSeq(bytes, 1, max))
     ELSE UNCHANGED <<pos, max, buf>>
  /\ start' = 0 /\ count' = 0
  /\ pc' = IF ending THEN "done" ELSE IF max' = 0 THEN "end" ELSE "place"
  /\ UNCHANGED <<asked, last, at, bcount, ending, error, lost, failed>>

-----------------------------------------------------------------------------
(* The rest of read_iterator, for a block that does not extend the range. *)

AfterHole == bcount # 0 /\ bcount # last

HoleBytes == Smaller((bcount - last) * BlockSize - (pos % BlockSize), max)

FillHole ==
  /\ pc = "place" /\ AfterHole
  /\ Advance([i \in 1..HoleBytes |-> Zero])
  /\ IF max' = 0 THEN pc' = "end" /\ UNCHANGED last ELSE UNCHANGED pc /\ last' = bcount
  /\ UNCHANGED <<asked, start, count, at, bcount, ending, error, lost, failed>>

Unaligned ==
  /\ pc = "place" /\ ~AfterHole /\ pos % BlockSize # 0
  /\ LET off  == pos % BlockSize
         size == Smaller(BlockSize - off, max)
     IN  \E bytes \in Delivered(Bytes(file[at], 1)) :
            Advance(SubSeq(bytes, off + 1, off + size))
  /\ last' = bcount + 1
  /\ IF max' = 0 THEN pc' = "end" /\ UNCHANGED <<at, bcount>> ELSE pc' = "next" /\ ToNext
  /\ UNCHANGED <<asked, start, count, ending, error, lost, failed>>

UnalignedFails ==
  /\ pc = "place" /\ ~AfterHole /\ pos % BlockSize # 0
  /\ DeviceFails /\ pc' = "end"
  /\ UNCHANGED <<asked, pos, range, max, at, bcount, ending, buf, error, lost>>

NewRange ==
  /\ pc = "place" /\ ~AfterHole /\ pos % BlockSize = 0
  /\ start' = file[at] /\ count' = 1
  /\ IF Enough(1) THEN pc' = "end" /\ UNCHANGED <<at, bcount>> ELSE pc' = "next" /\ ToNext
  /\ UNCHANGED <<asked, pos, last, max, ending, buf, error, lost, failed>>

(* Back in ext2_read: the last range is read unless the iteration failed. *)
Return ==
  /\ pc = "end"
  /\ IF ~error /\ start # 0 THEN pc' = "dump" /\ ending' = TRUE
                            ELSE pc' = "done" /\ UNCHANGED ending
  /\ UNCHANGED <<asked, pos, range, max, at, bcount, buf, error, lost, failed>>

Next ==
  \/ \E p \in Positions : Seek(p)
  \/ \E n \in Sizes : Read(n)
  \/ NoBlocks \/ Skip \/ IndirectFails \/ Extend \/ OtherRange \/ IterationEnds
  \/ DumpFails \/ DumpBlocks \/ DumpRest
  \/ FillHole \/ Unaligned \/ UnalignedFails \/ NewRange \/ Return

Spec == Init /\ [][Next]_vars

-----------------------------------------------------------------------------
(* What the file holds at a position, and where its last block ends. *)
Content(k) ==
  LET b == k \div BlockSize
  IN  IF b < Blocks(file) /\ file[b] # 0 THEN <<file[b], k % BlockSize>> ELSE Zero

End ==
  LET held == {b \in DOMAIN file : file[b] # 0}
  IN  IF held = {} THEN 0
      ELSE BlockSize * (1 + CHOOSE b \in held : \A c \in held : c <= b)

(* Whatever mixture of holes, ranges and partly wanted blocks a read goes  *)
(* through, and however often a range is read again after a failure, what  *)
(* ext2_read returns without a complaint is what the file holds there;     *)
(* where the first indirect block could not be read and the iteration went *)
(* on, that is true of the direct blocks.                                  *)
ReadsRight ==
  pc = "done" /\ ~error =>
    \A i \in DOMAIN buf :
      ~lost \/ from + i - 1 < Direct * BlockSize => buf[i] = Content(from + i - 1)

(* When nothing fails ext2_read returns all that was asked, or all up to   *)
(* the end of the last block (callers compare the length and nothing else),*)
(* and file->pos has moved by what was returned, also after a failure, so  *)
(* that the next chunk of a ramdisk continues where this one stopped.      *)
WholeRead ==
  pc = "done" =>
    /\ pos = from + Len(buf)
    /\ ~failed => Len(buf) = IF from > End THEN 0 ELSE Smaller(want, End - from)

(* No step of a read writes beyond the size the caller gave, in blocks     *)
(* collected ahead of it, a hole or the last block.                        *)
InBuffer == Len(buf) <= want

(* The CHANGES entry "handle short reads in yaboot ext2fs": a device that  *)
(* returns less than asked for does no harm.                               *)
ShortReadsHandled ==
  pc = "done" /\ ~failed => \A i \in DOMAIN buf : buf[i] = Content(from + i - 1)

-----------------------------------------------------------------------------
(***************************************************************************)
(* Why it holds.  A read goes over the blocks of the file once; at is the  *)
(* block it has come to and bcount the number it believes that block has.  *)
(* The two agree until a group of blocks is left out, which only happens   *)
(* behind the direct ones.  Of the blocks before bcount those up to last   *)
(* are in the buffer, the next count are the range, and the others holes.  *)
(***************************************************************************)
Places == {"next", "place", "dump", "rest"}     (* in the iteration *)

TypeOK ==
  /\ pc \in Places \union {"end", "done"} /\ file \in Files
  /\ pos \in Nat /\ start \in Nat /\ count \in Nat /\ last \in Nat /\ max \in Nat
  /\ at \in Nat /\ bcount \in Nat /\ want \in Nat /\ from \in Nat /\ calls \in Nat
  /\ ending \in BOOLEAN /\ error \in BOOLEAN /\ lost \in BOOLEAN /\ failed \in BOOLEAN
  /\ buf \in Seq(Nat \X Nat)

(* What was asked is in the buffer or still wanted. *)
SizeInv ==
  /\ pos = from + Len(buf) /\ Len(buf) <= want
  /\ pc # "done" => Len(buf) + max = want

(* No more than one block of the range is not wanted whole, and that one   *)
(* is what read_dump_range leaves for block_buffer.                        *)
RangeSize ==
  /\ start = 0 => count = 0
  /\ pc = "next" /\ start # 0 => count > 0 /\ count * BlockSize < max
  /\ pc \in {"dump", "end"} /\ start # 0 => count > 0 /\ (count - 1) * BlockSize <= max
  /\ pc = "dump" => start # 0
  /\ pc = "place" => start = 0
  /\ pc = "rest" => count = 0 \/ (count = 1 /\ max < BlockSize)

AtBlock == at < Blocks(file) /\ file[at] # 0

AtInv ==
  /\ at <= Blocks(file) /\ bcount <= at
  /\ pc # "done" /\ ~lost /\ ~error => bcount = at
  /\ pc # "done" /\ lost => bcount >= Direct
  /\ pc = "place" => AtBlock
  /\ pc \in {"dump", "rest"} /\ ~ending => AtBlock

ErrorInv ==
  /\ error => pc \in {"next", "end", "done"}
  /\ error /\ pc = "next" =>
       ~Allocated(at, Blocks(file)) /\ (~lost => at = Blocks(file))
  /\ ending => pc \in {"dump", "rest", "done"}
  /\ ~failed => ~lost /\ ~error

(* file->pos is in the block last, at its beginning if there is a range.   *)
InLast ==
  /\ last * BlockSize <= pos /\ pos < (last + 1) * BlockSize
  /\ start # 0 => pos = last * BlockSize

PlaceInv ==
  /\ pc \in Places => InLast
  /\ pc = "end" => InLast \/ (start = 0 /\ max = 0)
  /\ pc = "place" => bcount >= last
  /\ pc = "next" /\ start # 0 => bcount >= last + count
  /\ pc \in {"dump", "rest"} /\ ~ending => bcount >= last + count

Sure(b) == ~lost \/ b < Direct

RangeInv ==
  pc # "done" => \A k \in 0..count - 1 :
    Sure(last + k) => last + k < Blocks(file) /\ file[last + k] = start + k /\ file[last + k] # 0

HoleInv ==
  pc \in Places /\ ~ending => \A b \in last + count..bcount - 1 : Sure(b) => file[b] = 0

BufInv ==
  ~ShortReads => \A i \in DOMAIN buf :
    ~lost \/ from + i - 1 < Direct * BlockSize => buf[i] = Content(from + i - 1)

(* Nothing is read from beyond the last block, *)
ReachInv ==
  ~lost /\ buf # <<>> => \E b \in DOMAIN file : file[b] # 0 /\ pos <= (b + 1) * BlockSize

(* and the read does not end before it, or before what was asked. *)
EndInv ==
  ~failed =>
    /\ pc = "end" \/ (pc \in {"dump", "rest"} /\ ending) =>
         max <= count * BlockSize \/ \A b \in DOMAIN file : file[b] # 0 => b < last + count
    /\ pc = "done" =>
         Len(buf) = want \/ \A b \in DOMAIN file : file[b] # 0 => (b + 1) * BlockSize <= pos

IInv ==
  /\ TypeOK /\ SizeInv /\ RangeSize /\ AtInv /\ ErrorInv /\ PlaceInv
  /\ RangeInv /\ HoleInv /\ BufInv /\ ReachInv /\ EndInv
==============================================================================
