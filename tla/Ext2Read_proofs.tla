---------------------------- MODULE Ext2Read_proofs ----------------------------
(***************************************************************************)
(* That ext2_read returns what the file holds, all of it, and writes       *)
(* nothing beyond its buffer: for files of every layout, blocks and        *)
(* indirect blocks of every size, and any number of reads and seeks.       *)
(***************************************************************************)
EXTENDS Ext2Read, WellFoundedInduction, SequenceTheorems, TLAPS

Less == {p \in Nat \X Nat : p[1] < p[2]}

(* A set of numbers that is not empty has a lowest one, *)
LEMMA Lowest ==
  ASSUME NEW T, T \subseteq Nat, T # {}
  PROVE  \E x \in T : \A y \in T : x <= y
<1>1. IsWellFoundedOn(Less, Nat)
  BY NatLessThanWellFounded DEF Less, OpToRel
<1>2. PICK x \in T : \A y \in T : <<y, x>> \notin Less
  BY <1>1, WFMin
<1>3. \A y \in T : ~ (y < x)
  BY <1>2 DEF Less
<1> QED
  BY <1>2, <1>3

(* and a highest one if there is a bound. *)
LEMMA Highest ==
  ASSUME NEW T, NEW n \in Nat, T \subseteq 0 .. n, T # {}
  PROVE  \E x \in T : \A y \in T : y <= x
<1> DEFINE Below == {n - t : t \in T}
<1>1. Below \subseteq Nat /\ Below # {}
  <2>1. \A t \in T : n - t \in Nat
    OBVIOUS
  <2>2. \E t \in T : n - t \in Below
    OBVIOUS
  <2> QED BY <2>1, <2>2
<1> HIDE DEF Below
<1>2. PICK u \in Below : \A v \in Below : u <= v
  BY <1>1, Lowest
<1>3. PICK x \in T : u = n - x
  BY <1>2 DEF Below
<1>4. \A y \in T : n - x <= n - y
  BY <1>2, <1>3 DEF Below
<1> QED
  BY <1>3, <1>4


Bytestring == Seq(Nat \X Nat)

(* Division as the proofs need it. *)
LEMMA Divides ==
  ASSUME NEW a \in Nat, NEW b \in Nat \ {0}
  PROVE  \E q \in Nat, r \in 0..b - 1 : a = q * b + r /\ a \div b = q /\ a % b = r
<1>1. a \div b \in Nat
  OBVIOUS
<1>2. a % b \in 0..b - 1
  OBVIOUS
<1>3. a = (a \div b) * b + (a % b)
  OBVIOUS
<1> QED
  BY <1>1, <1>2, <1>3

(* The other way round. *)
LEMMA Divided ==
  ASSUME NEW b \in Nat \ {0}, NEW q \in Nat, NEW r \in 0..b - 1, NEW a \in Nat, a = q * b + r
  PROVE  a \div b = q /\ a % b = r
  OBVIOUS

(* Products with the block size. *)
LEMMA Times ==
  ASSUME NEW b \in Nat \ {0}, NEW q \in Nat, NEW r \in Nat
  PROVE  /\ q * b \in Nat
         /\ (q + r) * b = q * b + r * b
         /\ (q + 1) * b = q * b + b
         /\ q < r => q * b + b <= r * b
         /\ q <= r => q * b <= r * b
         /\ q * b < r * b => q < r
         /\ 1 * b = b /\ 0 * b = 0
  OBVIOUS

(* One block less. *)
LEMMA TimesLess ==
  ASSUME NEW b \in Nat \ {0}, NEW q \in Nat, q > 0
  PROVE  /\ q - 1 \in Nat
         /\ (q - 1) * b \in Nat
         /\ q * b = (q - 1) * b + b
  OBVIOUS

-----------------------------------------------------------------------------
(* What a piece of data adds to the buffer. *)
LEMMA Appended ==
  ASSUME NEW S, NEW s \in Seq(S), NEW t \in Seq(S)
  PROVE  /\ s \o t \in Seq(S)
         /\ Len(s \o t) = Len(s) + Len(t)
         /\ \A i \in 1..Len(s) : (s \o t)[i] = s[i]
         /\ \A i \in Len(s) + 1..Len(s) + Len(t) : (s \o t)[i] = t[i - Len(s)]
  OBVIOUS

(* Part of a block. *)
LEMMA PartOf ==
  ASSUME NEW S, NEW s \in Seq(S), NEW m \in Nat, NEW n \in Nat, m + n <= Len(s)
  PROVE  /\ SubSeq(s, m + 1, m + n) \in Seq(S)
         /\ Len(SubSeq(s, m + 1, m + n)) = n
         /\ \A i \in 1..n : SubSeq(s, m + 1, m + n)[i] = s[m + i]
  OBVIOUS

(* A function on 1..n is a sequence. *)
LEMMA MadeSeq ==
  ASSUME NEW S, NEW n \in Nat, NEW f \in [1..n -> S]
  PROVE  f \in Seq(S) /\ Len(f) = n
  OBVIOUS

(* Bytes of consecutive blocks of the disk. *)
LEMMA BytesOf ==
  ASSUME NEW b \in Nat, NEW n \in Nat
  PROVE  /\ Bytes(b, n) \in Bytestring
         /\ Len(Bytes(b, n)) = n * BlockSize
         /\ \A i \in 1..n * BlockSize :
              \E q \in Nat, r \in 0..BlockSize - 1 :
                i - 1 = q * BlockSize + r /\ Bytes(b, n)[i] = <<b + q, r>>
<1>1. BlockSize \in Nat \ {0} /\ n * BlockSize \in Nat
  BY Ext2Assumption
<1>2. \A i \in 1..n * BlockSize :
        \E q \in Nat, r \in 0..BlockSize - 1 :
          i - 1 = q * BlockSize + r /\ Bytes(b, n)[i] = <<b + q, r>>
  <2>1. TAKE i \in 1..n * BlockSize
  <2>2. i - 1 \in Nat
    BY <1>1
  <2>3. PICK q \in Nat, r \in 0..BlockSize - 1 :
          i - 1 = q * BlockSize + r /\ (i - 1) \div BlockSize = q /\ (i - 1) % BlockSize = r
    BY <1>1, <2>2, Divides
  <2>4. Bytes(b, n)[i] = <<b + q, r>>
    BY <2>3, Zenon DEF Bytes
  <2> QED
    BY <2>3, <2>4
<1>3. Bytes(b, n) \in [1..n * BlockSize -> Nat \X Nat]
  <2>1. \A i \in 1..n * BlockSize : Bytes(b, n)[i] \in Nat \X Nat
    <3>1. TAKE i \in 1..n * BlockSize
    <3>2. PICK q \in Nat, r \in 0..BlockSize - 1 : Bytes(b, n)[i] = <<b + q, r>>
      BY <1>2
    <3>3. b + q \in Nat /\ r \in Nat
      BY <1>1
    <3> QED
      BY <3>2, <3>3
  <2>2. DOMAIN Bytes(b, n) = 1..n * BlockSize /\ Bytes(b, n) = [i \in 1..n * BlockSize |-> Bytes(b, n)[i]]
    BY DEF Bytes
  <2> QED
    BY <2>1, <2>2
<1> QED
  BY <1>1, <1>2, <1>3, MadeSeq DEF Bytestring

(* Firmware that returns less than asked for leaves as many bytes. *)
LEMMA Arrives ==
  ASSUME NEW bytes \in Bytestring, NEW x \in Delivered(bytes)
  PROVE  /\ x \in Bytestring /\ Len(x) = Len(bytes)
         /\ ~ShortReads => x = bytes
<1>1. CASE x = bytes
  BY <1>1
<1>2. CASE x # bytes
  <2>1. ShortReads /\ \E k \in 1..Len(bytes) - 1 : x = Overlaid(bytes, k)
    BY <1>2 DEF Delivered
  <2>2. PICK k \in 1..Len(bytes) - 1 : x = Overlaid(bytes, k)
    BY <2>1
  <2>3. x \in [1..Len(bytes) -> Nat \X Nat]
    <3>1. Len(bytes) \in Nat /\ \A i \in 1..Len(bytes) : bytes[i] \in Nat \X Nat
      BY DEF Bytestring
    <3>2. ASSUME NEW i \in 1..Len(bytes)
          PROVE  (IF i <= Len(bytes) - k THEN bytes[k + i]
                  ELSE IF i <= k THEN bytes[i] ELSE Junk) \in Nat \X Nat
      BY <3>1 DEF Junk
    <3> QED
      BY <2>2, <3>1, <3>2 DEF Overlaid
  <2>4. Len(bytes) \in Nat
    BY DEF Bytestring
  <2>5. x \in Seq(Nat \X Nat) /\ Len(x) = Len(bytes)
    BY <2>3, <2>4, MadeSeq
  <2> QED
    BY <2>1, <2>5 DEF Bytestring
<1> QED
  BY <1>1, <1>2

-----------------------------------------------------------------------------
(* The open file. *)
LEMMA FileOf ==
  ASSUME TypeOK
  PROVE  /\ Blocks(file) \in Nat /\ DOMAIN file = 0..Blocks(file) - 1
         /\ \A b \in 0..Blocks(file) - 1 : file[b] \in Nat
  BY Ext2Assumption DEF TypeOK

(* What the file holds at a byte of a block. *)
LEMMA ContentOf ==
  ASSUME NEW q \in Nat, NEW r \in 0..BlockSize - 1, NEW k \in Nat, k = q * BlockSize + r
  PROVE  Content(k) = IF q < Blocks(file) /\ file[q] # 0 THEN <<file[q], r>> ELSE Zero
<1>1. k \div BlockSize = q /\ k % BlockSize = r
  BY Ext2Assumption, Divided
<1> QED
  BY <1>1, Zenon DEF Content

(* A step of the iteration that moves no data. *)
LEMMA NothingMoves ==
  ASSUME TypeOK, SizeInv, BufInv, ReachInv, pc # "done",
         UNCHANGED <<asked, pos, max, buf>>, lost => lost'
  PROVE  SizeInv' /\ BufInv' /\ ReachInv'
<1> USE DEF asked
<1>1. SizeInv'
  BY DEF SizeInv
<1>2. BufInv'
  <2>1. \A k : Content(k)' = Content(k)
    BY DEF Content, Blocks
  <2> QED
    BY <2>1 DEF BufInv
<1>3. ReachInv'
  BY DEF ReachInv
<1> QED
  BY <1>1, <1>2, <1>3

(* A step that does: what it adds has to fit, and to be what the file      *)
(* holds at the position.                                                  *)
LEMMA DataMoves ==
  ASSUME TypeOK, SizeInv, BufInv, pc # "done", NEW bytes \in Bytestring, Len(bytes) <= max,
         Advance(bytes), UNCHANGED <<asked, lost>>,
         ~ShortReads => \A j \in 1..Len(bytes) :
            ~lost \/ pos + j - 1 < Direct * BlockSize => bytes[j] = Content(pos + j - 1)
  PROVE  /\ pos' \in Nat /\ max' \in Nat /\ buf' \in Seq(Nat \X Nat)
         /\ pos' = pos + Len(bytes) /\ max' = max - Len(bytes)
         /\ buf' = <<>> => buf = <<>> /\ Len(bytes) = 0
         /\ Len(buf') + max' = want'
         /\ SizeInv' /\ BufInv'
<1>1. /\ buf' = buf \o bytes /\ max' = max - Len(bytes) /\ pos' = pos + Len(bytes)
      /\ want' = want /\ from' = from /\ file' = file /\ lost' = lost
  BY DEF Advance, asked
<1>2. /\ buf \in Seq(Nat \X Nat) /\ bytes \in Seq(Nat \X Nat) /\ Len(buf) \in Nat /\ Len(bytes) \in Nat
      /\ pos \in Nat /\ max \in Nat /\ from \in Nat /\ want \in Nat
  BY DEF TypeOK, Bytestring
<1>3. /\ buf' \in Seq(Nat \X Nat) /\ Len(buf') = Len(buf) + Len(bytes)
      /\ \A i \in 1..Len(buf) : buf'[i] = buf[i]
      /\ \A i \in Len(buf) + 1..Len(buf) + Len(bytes) : buf'[i] = bytes[i - Len(buf)]
  BY <1>1, <1>2, Appended
<1>4. SizeInv' /\ Len(buf') + max' = want'
  <2>1. PICK n \in Nat, m \in Nat : n = Len(buf) /\ m = Len(bytes)
    BY <1>2
  <2>2. n + max = want /\ pos = from + n /\ m <= max
    BY <2>1 DEF SizeInv
  <2>3. Len(buf') = n + m /\ pos' = pos + m /\ max' = max - m
    BY <2>1, <1>1, <1>3
  <2> QED
    BY <2>2, <2>3, <1>1, <1>2 DEF SizeInv
<1>5. BufInv'
  <2> SUFFICES ASSUME ~ShortReads, NEW i \in DOMAIN buf',
                      ~lost \/ from + i - 1 < Direct * BlockSize
               PROVE  buf'[i] = Content(from + i - 1)'
    BY <1>1 DEF BufInv
  <2>1. Content(from + i - 1)' = Content(from + i - 1)
    BY <1>1 DEF Content, Blocks
  <2>2. i \in 1..Len(buf) + Len(bytes)
    BY <1>2, <1>3
  <2>3. CASE i \in 1..Len(buf)
    <3>1. DOMAIN buf = 1..Len(buf)
      BY <1>2
    <3>2. buf[i] = Content(from + i - 1)
      BY <2>3, <3>1 DEF BufInv
    <3> QED
      BY <2>1, <2>3, <3>2, <1>3
  <2>4. CASE i \in Len(buf) + 1..Len(buf) + Len(bytes)
    <3>1. PICK j : j = i - Len(buf)
      OBVIOUS
    <3>0. j \in 1..Len(bytes) /\ i \in Nat
      <4>1. PICK n \in Nat, m \in Nat : n = Len(buf) /\ m = Len(bytes)
        BY <1>2
      <4> QED
        BY <2>4, <3>1, <4>1
    <3>2. pos + j - 1 = from + i - 1
      BY <3>0, <3>1, <1>2 DEF SizeInv
    <3>3. bytes[j] = Content(pos + j - 1)
      BY <3>0, <3>2
    <3> QED
      BY <2>1, <3>1, <3>2, <3>3, <2>4, <1>3
  <2> QED
    BY <2>2, <2>3, <2>4, <1>2
<1>6. buf' = <<>> => buf = <<>> /\ Len(bytes) = 0
  BY <1>2, <1>3
<1> QED
  BY <1>1, <1>2, <1>3, <1>4, <1>5, <1>6

-----------------------------------------------------------------------------
(* The block file->pos is in is read_last_logical. *)
LEMMA InBlock ==
  ASSUME TypeOK, InLast
  PROVE  /\ pos \div BlockSize = last
         /\ pos % BlockSize \in 0..BlockSize - 1 /\ pos = last * BlockSize + (pos % BlockSize)
         /\ last * BlockSize \in Nat
<1>1. /\ pos \in Nat /\ last \in Nat /\ BlockSize \in Nat \ {0} /\ last * BlockSize \in Nat
      /\ (last + 1) * BlockSize = last * BlockSize + BlockSize
  BY Ext2Assumption, Times DEF TypeOK
<1>2. PICK r : r = pos - last * BlockSize
  OBVIOUS
<1>3. r \in 0..BlockSize - 1 /\ pos = last * BlockSize + r
  BY <1>1, <1>2 DEF InLast
<1>4. pos \div BlockSize = last /\ pos % BlockSize = r
  BY <1>1, <1>3, Divided
<1> QED
  BY <1>1, <1>3, <1>4

(* A block whose number is to be trusted is the one the iteration is at.   *)
LEMMA Trusted ==
  ASSUME TypeOK, AtInv, ErrorInv, pc \in Places, at < Blocks(file), Sure(bcount)
  PROVE  bcount = at
<1>1. CASE lost
  BY <1>1, Ext2Assumption DEF AtInv, Sure, Places, TypeOK
<1>2. CASE ~lost
  <2>1. ~error
    BY <1>2, FileOf DEF ErrorInv, Places, TypeOK
  <2> QED
    BY <1>2, <2>1 DEF AtInv, Places
<1> QED
  BY <1>1, <1>2

(* One lemma for each action that moves no data. Most parts of the         *)
(* invariant follow at once.                                               *)
LEMMA NoBlocksKeeps ==
  ASSUME IInv, NoBlocks
  PROVE  IInv'
<1> USE FileOf, Ext2Assumption DEF NoBlocks, DeviceFails, asked, range
<1>0. /\ TypeOK /\ SizeInv /\ RangeSize /\ AtInv /\ ErrorInv /\ PlaceInv
      /\ RangeInv /\ HoleInv /\ BufInv /\ ReachInv /\ EndInv
  BY DEF IInv
<1>1. SizeInv' /\ BufInv' /\ ReachInv'
  BY <1>0, NothingMoves
<1>2. TypeOK'
  BY <1>0 DEF TypeOK, Places
<1>3. RangeSize'
  BY <1>0 DEF TypeOK, RangeSize
<1>4. AtInv'
  BY <1>0 DEF TypeOK, AtInv, AtBlock, ErrorInv, Blocks
<1>5. ErrorInv'
  BY <1>0 DEF TypeOK, ErrorInv, Blocks, Allocated
<1>6. PlaceInv'
  BY <1>0 DEF TypeOK, PlaceInv, InLast, Places, RangeSize
<1>7. RangeInv'
  BY <1>0 DEF TypeOK, RangeInv, RangeSize, Sure, AtInv, Blocks
<1>8. HoleInv'
  BY <1>0 DEF TypeOK, HoleInv, Places, Sure, AtInv, PlaceInv, InLast
<1>9. EndInv'
  BY <1>0 DEF TypeOK, EndInv, RangeSize, AtInv, HoleInv, ErrorInv
<1> QED
  BY <1>1, <1>2, <1>3, <1>4, <1>5, <1>6, <1>7, <1>8, <1>9 DEF IInv

(* A hole is remembered by not being in the range. *)
LEMMA SkipKeeps ==
  ASSUME IInv, Skip
  PROVE  IInv'
<1> USE FileOf, Ext2Assumption DEF Skip, ToNext, Wanted, Given, asked, range
<1>0. /\ TypeOK /\ SizeInv /\ RangeSize /\ AtInv /\ ErrorInv /\ PlaceInv
      /\ RangeInv /\ HoleInv /\ BufInv /\ ReachInv /\ EndInv
  BY DEF IInv
<1>1. SizeInv' /\ BufInv' /\ ReachInv'
  BY <1>0, NothingMoves
<1>2. TypeOK'
  BY <1>0 DEF TypeOK, Places
<1>3. RangeSize'
  BY <1>0 DEF TypeOK, RangeSize
<1>4. AtInv'
  BY <1>0 DEF TypeOK, AtInv, AtBlock, ErrorInv, Blocks
<1>5. ErrorInv'
  BY <1>0 DEF TypeOK, ErrorInv, Blocks, Allocated
<1>6. PlaceInv'
  BY <1>0 DEF TypeOK, PlaceInv, InLast, Places, RangeSize
<1>7. RangeInv'
  BY <1>0 DEF TypeOK, RangeInv, RangeSize, Sure, AtInv, Blocks
<1>8. HoleInv'
  <2> SUFFICES ASSUME NEW b \in last + count..bcount, Sure(b)
               PROVE  file[b] = 0
    BY <1>0 DEF HoleInv, TypeOK, Sure
  <2>1. CASE b \in last + count..bcount - 1
    BY <1>0, <2>1 DEF HoleInv, Places, ErrorInv
  <2>2. CASE b = bcount
    <3>1. bcount = at
      BY <1>0, <2>2, Trusted DEF Places
    <3>2. pos \div BlockSize = last
      BY <1>0, InBlock DEF PlaceInv, Places
    <3> QED
      BY <1>0, <2>2, <3>1, <3>2 DEF TypeOK
  <2> QED
    BY <1>0, <2>1, <2>2 DEF TypeOK
<1>9. EndInv'
  BY <1>0 DEF TypeOK, EndInv, RangeSize, AtInv, HoleInv, ErrorInv
<1> QED
  BY <1>1, <1>2, <1>3, <1>4, <1>5, <1>6, <1>7, <1>8, <1>9 DEF IInv

(* The number read_iterator is given falls behind only when the first      *)
(* indirect block was skipped; after any other the iteration is over.      *)
LEMMA IndirectFailsKeeps ==
  ASSUME IInv, IndirectFails
  PROVE  IInv'
<1> USE FileOf, Ext2Assumption DEF IndirectFails, DeviceFails, Smaller, asked, range
<1>0. /\ TypeOK /\ SizeInv /\ RangeSize /\ AtInv /\ ErrorInv /\ PlaceInv
      /\ RangeInv /\ HoleInv /\ BufInv /\ ReachInv /\ EndInv
  BY DEF IInv
<1>1. SizeInv' /\ BufInv' /\ ReachInv'
  BY <1>0, NothingMoves
<1>2. TypeOK'
  BY <1>0 DEF TypeOK, Places
<1>3. RangeSize'
  BY <1>0 DEF TypeOK, RangeSize
<1>4. AtInv'
  <2>0. /\ at < Blocks(file) /\ at >= Direct /\ pc = "next" /\ UNCHANGED <<pc, file, bcount, ending>>
        /\ lost' = (lost \/ at = Direct)
    OBVIOUS
  <2>1. PICK past : past = Smaller(at + Group, Blocks(file))
    OBVIOUS
  <2>2. PICK on : on = IF at = Direct THEN past ELSE Blocks(file)
    OBVIOUS
  <2>3. at' = on /\ error' = ~Allocated(on, Blocks(file))
    BY <2>1, <2>2
  <2>4. at <= on /\ on <= Blocks(file) /\ on \in Nat
    BY <1>0, <2>0, <2>1, <2>2 DEF TypeOK
  <2>5. ~error
    <3>1. PICK b \in at..past - 1 : file[b] # 0
      BY <2>1 DEF Allocated
    <3>2. b \in at..Blocks(file) - 1
      BY <1>0, <2>0, <2>1, <3>1 DEF TypeOK
    <3> QED
      BY <1>0, <2>0, <3>1, <3>2 DEF ErrorInv, Allocated
  <2>6. lost => bcount >= Direct
    BY <1>0, <2>0 DEF AtInv
  <2>7. ~lost => bcount = at
    BY <1>0, <2>0, <2>5 DEF AtInv
  <2>8. bcount >= Direct
    BY <2>0, <2>6, <2>7
  <2>9. lost' \/ error'
    <3>1. CASE at = Direct
      BY <2>0, <3>1
    <3>2. CASE at # Direct
      <4>1. on = Blocks(file) /\ ~Allocated(on, Blocks(file))
        BY <1>0, <2>2, <3>2 DEF Allocated
      <4> QED
        BY <2>3, <4>1
    <3> QED
      BY <3>1, <3>2
  <2>10. at' <= Blocks(file)' /\ bcount' <= at'
    BY <1>0, <2>0, <2>3, <2>4 DEF AtInv, Blocks, TypeOK
  <2> QED
    BY <2>0, <2>8, <2>9, <2>10 DEF AtInv
<1>5. ErrorInv'
  <2>0. at >= Direct /\ pc = "next" /\ UNCHANGED <<pc, file, ending>> /\ failed' = TRUE
        /\ lost' = (lost \/ at = Direct)
    OBVIOUS
  <2>1. PICK past : past = Smaller(at + Group, Blocks(file))
    OBVIOUS
  <2>2. PICK on : on = IF at = Direct THEN past ELSE Blocks(file)
    OBVIOUS
  <2>3. at' = on /\ error' = ~Allocated(on, Blocks(file))
    BY <2>1, <2>2
  <2>4. error' => ~Allocated(on, Blocks(file))
    BY <2>3
  <2>5. Allocated(on, Blocks(file))' <=> Allocated(on, Blocks(file))
    BY <2>0 DEF Allocated, Blocks
  <2>6. ~lost' => on = Blocks(file)
    BY <2>0, <2>2
  <2>7. Blocks(file)' = Blocks(file)
    BY <2>0 DEF Blocks
  <2>8. error' /\ pc' = "next" => ~Allocated(at, Blocks(file))' /\ (~lost' => at' = Blocks(file)')
    BY <2>3, <2>4, <2>5, <2>6, <2>7 DEF Allocated
  <2> QED
    BY <1>0, <2>0, <2>8 DEF ErrorInv
<1>6. PlaceInv'
  BY <1>0 DEF TypeOK, PlaceInv, InLast, Places, RangeSize
<1>7. RangeInv'
  BY <1>0 DEF TypeOK, RangeInv, RangeSize, Sure, AtInv, Blocks
<1>8. HoleInv'
  BY <1>0 DEF TypeOK, HoleInv, Places, Sure, AtInv, PlaceInv, InLast
<1>9. EndInv'
  BY <1>0 DEF TypeOK, EndInv, RangeSize, AtInv, HoleInv, ErrorInv
<1> QED
  BY <1>1, <1>2, <1>3, <1>4, <1>5, <1>6, <1>7, <1>8, <1>9 DEF IInv

(* A block extends the range if it follows on the disk and in the file. *)
LEMMA ExtendKeeps ==
  ASSUME IInv, Extend
  PROVE  IInv'
<1> USE FileOf, Ext2Assumption DEF Extend, Wanted, Given, InRange, Enough, ToNext, asked, range
<1>0. /\ TypeOK /\ SizeInv /\ RangeSize /\ AtInv /\ ErrorInv /\ PlaceInv
      /\ RangeInv /\ HoleInv /\ BufInv /\ ReachInv /\ EndInv
  BY DEF IInv
<1>1. SizeInv' /\ BufInv' /\ ReachInv'
  BY <1>0, NothingMoves
<1>2. TypeOK'
  BY <1>0 DEF TypeOK, Places
<1>3. RangeSize'
  BY <1>0 DEF TypeOK, RangeSize
<1>4. AtInv'
  <2>1. /\ pc = "next" /\ pc' \in {"end", "next"} /\ UNCHANGED <<file, lost, error>> /\ at < Blocks(file)
        /\ UNCHANGED <<at, bcount>> \/ (at' = at + 1 /\ bcount' = bcount + 1)
    OBVIOUS
  <2>2. Blocks(file)' = Blocks(file) /\ Blocks(file) \in Nat /\ at \in Nat /\ bcount \in Nat
    BY <1>0, <2>1 DEF Blocks, TypeOK
  <2> HIDE DEF Extend
  <2> QED
    BY <1>0, <2>1, <2>2 DEF AtInv
<1>5. ErrorInv'
  BY <1>0 DEF TypeOK, ErrorInv, Blocks, Allocated
<1>6. PlaceInv'
  BY <1>0 DEF TypeOK, PlaceInv, InLast, Places, RangeSize
<1>7. RangeInv'
  <2>0. /\ count' = count + 1 /\ count \in Nat /\ last' = last /\ start' = start /\ file' = file /\ lost' = lost
        /\ pc = "next" /\ file[at] # 0 /\ at < Blocks(file) /\ file[at] = start + count /\ bcount = last + count
    BY <1>0 DEF TypeOK
  <2>1. ASSUME NEW k \in 0..count, Sure(last + k)
        PROVE  last + k < Blocks(file) /\ file[last + k] = start + k /\ file[last + k] # 0
    <3>1. CASE k \in 0..count - 1
      BY <1>0, <2>0, <2>1, <3>1 DEF RangeInv
    <3>2. CASE k = count
      <4>1. bcount = at
        BY <1>0, <2>0, <2>1, <3>2, Trusted DEF Places
      <4> QED
        BY <2>0, <3>2, <4>1
    <3> QED
      BY <2>0, <3>1, <3>2
  <2>2. count' - 1 = count
    BY <2>0
  <2> HIDE DEF Extend
  <2> QED
    BY <2>0, <2>1, <2>2 DEF RangeInv, Sure, Blocks
<1>8. HoleInv'
  BY <1>0 DEF TypeOK, HoleInv, Places, Sure, AtInv, PlaceInv, InLast
<1>9. EndInv'
  BY <1>0 DEF TypeOK, EndInv, RangeSize, AtInv, HoleInv, ErrorInv
<1> QED
  BY <1>1, <1>2, <1>3, <1>4, <1>5, <1>6, <1>7, <1>8, <1>9 DEF IInv

(* The range is dumped before another begins. *)
LEMMA OtherRangeKeeps ==
  ASSUME IInv, OtherRange
  PROVE  IInv'
<1> USE FileOf, Ext2Assumption DEF OtherRange, Wanted, Given, InRange, asked, range
<1>0. /\ TypeOK /\ SizeInv /\ RangeSize /\ AtInv /\ ErrorInv /\ PlaceInv
      /\ RangeInv /\ HoleInv /\ BufInv /\ ReachInv /\ EndInv
  BY DEF IInv
<1>1. SizeInv' /\ BufInv' /\ ReachInv'
  BY <1>0, NothingMoves
<1>2. TypeOK'
  BY <1>0 DEF TypeOK, Places
<1>3. RangeSize'
  BY <1>0 DEF TypeOK, RangeSize
<1>4. AtInv'
  BY <1>0 DEF TypeOK, AtInv, AtBlock, ErrorInv, Blocks
<1>5. ErrorInv'
  BY <1>0 DEF TypeOK, ErrorInv, Blocks, Allocated
<1>6. PlaceInv'
  BY <1>0 DEF TypeOK, PlaceInv, InLast, Places, RangeSize
<1>7. RangeInv'
  BY <1>0 DEF TypeOK, RangeInv, RangeSize, Sure, AtInv, Blocks
<1>8. HoleInv'
  BY <1>0 DEF TypeOK, HoleInv, Places, Sure, AtInv, PlaceInv, InLast
<1>9. EndInv'
  BY <1>0 DEF TypeOK, EndInv, RangeSize, AtInv, HoleInv, ErrorInv
<1> QED
  BY <1>1, <1>2, <1>3, <1>4, <1>5, <1>6, <1>7, <1>8, <1>9 DEF IInv

(* When nothing failed, behind the range there are only holes. *)
LEMMA IterationEndsKeeps ==
  ASSUME IInv, IterationEnds
  PROVE  IInv'
<1> USE FileOf, Ext2Assumption DEF IterationEnds, asked, range
<1>0. /\ TypeOK /\ SizeInv /\ RangeSize /\ AtInv /\ ErrorInv /\ PlaceInv
      /\ RangeInv /\ HoleInv /\ BufInv /\ ReachInv /\ EndInv
  BY DEF IInv
<1>1. SizeInv' /\ BufInv' /\ ReachInv'
  BY <1>0, NothingMoves
<1>2. TypeOK'
  BY <1>0 DEF TypeOK, Places
<1>3. RangeSize'
  BY <1>0 DEF TypeOK, RangeSize
<1>4. AtInv'
  BY <1>0 DEF TypeOK, AtInv, AtBlock, ErrorInv, Blocks
<1>5. ErrorInv'
  BY <1>0 DEF TypeOK, ErrorInv, Blocks, Allocated
<1>6. PlaceInv'
  BY <1>0 DEF TypeOK, PlaceInv, InLast, Places, RangeSize
<1>7. RangeInv'
  BY <1>0 DEF TypeOK, RangeInv, RangeSize, Sure, AtInv, Blocks
<1>8. HoleInv'
  BY <1>0 DEF TypeOK, HoleInv, Places, Sure, AtInv, PlaceInv, InLast
<1>9. EndInv'
  <2> SUFFICES ASSUME ~failed, NEW b \in DOMAIN file, file[b] # 0
               PROVE  b < last + count
    BY <1>0 DEF EndInv, TypeOK
  <2>1. ~lost /\ ~error
    BY <1>0 DEF ErrorInv
  <2>2. bcount = Blocks(file)
    BY <1>0, <2>1 DEF AtInv
  <2>3. b \in 0..bcount - 1
    BY <1>0, <2>2
  <2> QED
    BY <1>0, <2>1, <2>3 DEF HoleInv, Places, Sure, TypeOK, ErrorInv
<1> QED
  BY <1>1, <1>2, <1>3, <1>4, <1>5, <1>6, <1>7, <1>8, <1>9 DEF IInv

(* The range stays to be dumped again. *)
LEMMA DumpFailsKeeps ==
  ASSUME IInv, DumpFails
  PROVE  IInv'
<1> USE FileOf, Ext2Assumption DEF DumpFails, DeviceFails, WholeBlocks, asked, range
<1>0. /\ TypeOK /\ SizeInv /\ RangeSize /\ AtInv /\ ErrorInv /\ PlaceInv
      /\ RangeInv /\ HoleInv /\ BufInv /\ ReachInv /\ EndInv
  BY DEF IInv
<1>1. SizeInv' /\ BufInv' /\ ReachInv'
  BY <1>0, NothingMoves
<1>2. TypeOK'
  BY <1>0 DEF TypeOK, Places
<1>3. RangeSize'
  BY <1>0 DEF TypeOK, RangeSize
<1>4. AtInv'
  BY <1>0 DEF TypeOK, AtInv, AtBlock, ErrorInv, Blocks
<1>5. ErrorInv'
  BY <1>0 DEF TypeOK, ErrorInv, Blocks, Allocated
<1>6. PlaceInv'
  BY <1>0 DEF TypeOK, PlaceInv, InLast, Places, RangeSize
<1>7. RangeInv'
  BY <1>0 DEF TypeOK, RangeInv, RangeSize, Sure, AtInv, Blocks
<1>8. HoleInv'
  BY <1>0 DEF TypeOK, HoleInv, Places, Sure, AtInv, PlaceInv, InLast
<1>9. EndInv'
  BY <1>0 DEF TypeOK, EndInv, RangeSize, AtInv, HoleInv, ErrorInv
<1> QED
  BY <1>1, <1>2, <1>3, <1>4, <1>5, <1>6, <1>7, <1>8, <1>9 DEF IInv

(* A first block in part that cannot be read leaves all as it was. *)
LEMMA UnalignedFailsKeeps ==
  ASSUME IInv, UnalignedFails
  PROVE  IInv'
<1> USE FileOf, Ext2Assumption DEF UnalignedFails, DeviceFails, asked, range
<1>0. /\ TypeOK /\ SizeInv /\ RangeSize /\ AtInv /\ ErrorInv /\ PlaceInv
      /\ RangeInv /\ HoleInv /\ BufInv /\ ReachInv /\ EndInv
  BY DEF IInv
<1>1. SizeInv' /\ BufInv' /\ ReachInv'
  BY <1>0, NothingMoves
<1>2. TypeOK'
  BY <1>0 DEF TypeOK, Places
<1>3. RangeSize'
  BY <1>0 DEF TypeOK, RangeSize
<1>4. AtInv'
  BY <1>0 DEF TypeOK, AtInv, AtBlock, ErrorInv, Blocks
<1>5. ErrorInv'
  BY <1>0 DEF TypeOK, ErrorInv, Blocks, Allocated
<1>6. PlaceInv'
  BY <1>0 DEF TypeOK, PlaceInv, InLast, Places, RangeSize
<1>7. RangeInv'
  BY <1>0 DEF TypeOK, RangeInv, RangeSize, Sure, AtInv, Blocks
<1>8. HoleInv'
  BY <1>0 DEF TypeOK, HoleInv, Places, Sure, AtInv, PlaceInv, InLast
<1>9. EndInv'
  BY <1>0 DEF TypeOK, EndInv, RangeSize, AtInv, HoleInv, ErrorInv
<1> QED
  BY <1>1, <1>2, <1>3, <1>4, <1>5, <1>6, <1>7, <1>8, <1>9 DEF IInv

(* A range begins with the block the position is at the beginning of. *)
LEMMA NewRangeKeeps ==
  ASSUME IInv, NewRange
  PROVE  IInv'
<1> USE FileOf, Ext2Assumption DEF NewRange, AfterHole, Enough, ToNext, asked, range
<1>0. /\ TypeOK /\ SizeInv /\ RangeSize /\ AtInv /\ ErrorInv /\ PlaceInv
      /\ RangeInv /\ HoleInv /\ BufInv /\ ReachInv /\ EndInv
  BY DEF IInv
<1>1. SizeInv' /\ BufInv' /\ ReachInv'
  BY <1>0, NothingMoves
<1>2. TypeOK'
  BY <1>0 DEF TypeOK, Places, AtInv, AtBlock
<1>3. RangeSize'
  <2>1. start' # 0 /\ count' = 1 /\ max' = max /\ pc' \in {"end", "next"}
    BY <1>0 DEF AtInv, AtBlock
  <2>2. 1 * BlockSize = BlockSize /\ 0 * BlockSize = 0 /\ max \in Nat
    BY <1>0, Times DEF TypeOK
  <2>3. pc' = "next" => BlockSize < max
    BY <2>2
  <2> QED
    BY <2>1, <2>2, <2>3 DEF RangeSize
<1>4. AtInv'
  BY <1>0 DEF TypeOK, AtInv, AtBlock, ErrorInv, Blocks
<1>5. ErrorInv'
  BY <1>0 DEF TypeOK, ErrorInv, Blocks, Allocated
<1>6. PlaceInv'
  <2>1. InLast /\ bcount >= last /\ (bcount = 0 \/ bcount = last)
    BY <1>0 DEF PlaceInv, Places
  <2>2. bcount = last
    BY <1>0, <2>1 DEF TypeOK
  <2>3. pos = last * BlockSize
    BY <1>0, <2>1, InBlock
  <2>4. InLast'
    BY <1>0, <2>1, <2>3 DEF InLast
  <2>5. (pc' = "end" \/ (pc' = "next" /\ bcount' = bcount + 1)) /\ last' = last /\ count' = 1
    OBVIOUS
  <2> QED
    BY <1>0, <2>2, <2>4, <2>5 DEF PlaceInv, TypeOK
<1>7. RangeInv'
  <2>1. InLast /\ bcount >= last /\ (bcount = 0 \/ bcount = last)
    BY <1>0 DEF PlaceInv, Places
  <2>2. bcount = last /\ last + 0 = last
    BY <1>0, <2>1 DEF TypeOK
  <2>3. at < Blocks(file) /\ file[at] # 0 /\ file[at] \in Nat
    BY <1>0 DEF AtInv, AtBlock, TypeOK
  <2>4. Sure(last) => bcount = at
    BY <1>0, <2>2, <2>3, Trusted DEF Places
  <2>5. \A k \in 0..count' - 1 : k = 0
    OBVIOUS
  <2> QED
    BY <2>2, <2>3, <2>4, <2>5 DEF RangeInv, Sure, Blocks
<1>8. HoleInv'
  BY <1>0 DEF TypeOK, HoleInv, Places, Sure, AtInv, PlaceInv, InLast
<1>9. EndInv'
  BY <1>0 DEF TypeOK, EndInv, RangeSize, AtInv, HoleInv, ErrorInv
<1> QED
  BY <1>1, <1>2, <1>3, <1>4, <1>5, <1>6, <1>7, <1>8, <1>9 DEF IInv

(* The last range is dumped by ext2_read; without one, all was read that   *)
(* there is.                                                               *)
LEMMA ReturnKeeps ==
  ASSUME IInv, Return
  PROVE  IInv'
<1> USE FileOf, Ext2Assumption DEF Return, asked, range
<1>0. /\ TypeOK /\ SizeInv /\ RangeSize /\ AtInv /\ ErrorInv /\ PlaceInv
      /\ RangeInv /\ HoleInv /\ BufInv /\ ReachInv /\ EndInv
  BY DEF IInv
<1>1. SizeInv' /\ BufInv' /\ ReachInv'
  BY <1>0, NothingMoves
<1>2. TypeOK'
  BY <1>0 DEF TypeOK, Places
<1>3. RangeSize'
  BY <1>0 DEF TypeOK, RangeSize
<1>4. AtInv'
  BY <1>0 DEF TypeOK, AtInv, AtBlock, ErrorInv, Blocks
<1>5. ErrorInv'
  BY <1>0 DEF TypeOK, ErrorInv, Blocks, Allocated
<1>6. PlaceInv'
  BY <1>0 DEF TypeOK, PlaceInv, InLast, Places, RangeSize
<1>7. RangeInv'
  BY <1>0 DEF TypeOK, RangeInv, RangeSize, Sure, AtInv, Blocks
<1>8. HoleInv'
  BY <1>0 DEF HoleInv, Places, Sure
<1>9. EndInv'
  <2> SUFFICES ASSUME ~failed
               PROVE  EndInv'
    BY <1>0 DEF EndInv
  <2>1. ~error /\ (max <= count * BlockSize \/ \A b \in DOMAIN file : file[b] # 0 => b < last + count)
    BY <1>0 DEF EndInv, ErrorInv
  <2>2. CASE start # 0
    BY <2>1, <2>2 DEF EndInv
  <2>3. CASE start = 0
    <3>1. count = 0 /\ 0 * BlockSize = 0
      BY <1>0, <2>3 DEF RangeSize
    <3>2. CASE max = 0
      <4>1. Len(buf) = want
        BY <1>0, <3>2 DEF SizeInv, TypeOK
      <4> QED
        BY <2>3, <4>1 DEF EndInv
    <3>3. CASE max # 0
      <4>1. InLast /\ \A b \in DOMAIN file : file[b] # 0 => b < last
        BY <1>0, <2>1, <3>1, <3>3 DEF PlaceInv, TypeOK
      <4>2. ASSUME NEW b \in DOMAIN file, file[b] # 0
            PROVE  (b + 1) * BlockSize <= pos
        <5>1. b \in Nat /\ b + 1 \in Nat /\ b + 1 <= last
          BY <1>0, <4>1, <4>2 DEF TypeOK
        <5>2. (b + 1) * BlockSize <= last * BlockSize /\ (b + 1) * BlockSize \in Nat /\ last * BlockSize \in Nat
          BY <1>0, <5>1, Times DEF TypeOK
        <5> QED
          BY <1>0, <4>1, <5>2 DEF InLast, TypeOK
      <4> QED
        BY <2>3, <4>2 DEF EndInv
    <3> QED
      BY <3>2, <3>3
  <2> QED
    BY <2>2, <2>3
<1> QED
  BY <1>1, <1>2, <1>3, <1>4, <1>5, <1>6, <1>7, <1>8, <1>9 DEF IInv


-----------------------------------------------------------------------------
(* The range is what the file holds from the position on. *)
LEMMA RangeRight ==
  ASSUME TypeOK, RangeInv, InLast, start # 0, pc # "done", NEW n \in 1..count,
         NEW j \in 1..n * BlockSize, ~lost \/ pos + j - 1 < Direct * BlockSize
  PROVE  Bytes(start, n)[j] = Content(pos + j - 1)
<1>1. /\ start \in Nat /\ last \in Nat /\ count \in Nat /\ n \in Nat /\ BlockSize \in Nat \ {0}
      /\ Direct \in Nat /\ n * BlockSize \in Nat
  BY Ext2Assumption, Times DEF TypeOK
<1>2. PICK q \in Nat, r \in 0..BlockSize - 1 :
        j - 1 = q * BlockSize + r /\ Bytes(start, n)[j] = <<start + q, r>>
  BY <1>1, BytesOf
<1>3. q < n
  <2>1. q * BlockSize < n * BlockSize
    <3>1. PICK u \in Nat, w \in Nat : u = q * BlockSize /\ w = n * BlockSize
      BY <1>1, Times
    <3> QED
      BY <3>1, <1>1, <1>2
  <2> QED
    BY <2>1, <1>1, Times
<1>4. pos + j - 1 = (last + q) * BlockSize + r /\ pos + j - 1 \in Nat
  <2>1. PICK u \in Nat, w \in Nat : u = q * BlockSize /\ w = last * BlockSize
    BY <1>1, Times
  <2>2. (last + q) * BlockSize = w + u
    BY <1>1, <2>1, Times
  <2>3. pos = w /\ j - 1 = u + r
    BY <1>2, <2>1 DEF InLast
  <2> QED
    BY <2>1, <2>2, <2>3, <1>1
<1>5. Sure(last + q)
  <2>1. CASE ~lost
    BY <2>1 DEF Sure
  <2>2. CASE pos + j - 1 < Direct * BlockSize
    <3>1. PICK u \in Nat, w \in Nat : u = (last + q) * BlockSize /\ w = Direct * BlockSize
      BY <1>1, Times
    <3>2. u < w
      BY <3>1, <2>2, <1>4, <1>1
    <3> QED
      BY <3>1, <3>2, <1>1, Times DEF Sure
  <2> QED
    BY <2>1, <2>2
<1>6. last + q < Blocks(file) /\ file[last + q] = start + q /\ file[last + q] # 0
  <2>1. q \in 0..count - 1
    BY <1>1, <1>3
  <2> QED
    BY <1>5, <2>1 DEF RangeInv
<1>7. last + q \in Nat
  BY <1>1
<1> QED
  BY <1>2, <1>4, <1>6, <1>7, ContentOf

(* Whole blocks go from the front of the range into the buffer. *)
LEMMA DumpBlocksKeeps ==
  ASSUME IInv, DumpBlocks
  PROVE  IInv'
<1>0. /\ TypeOK /\ SizeInv /\ RangeSize /\ AtInv /\ ErrorInv /\ PlaceInv
      /\ RangeInv /\ HoleInv /\ BufInv /\ ReachInv /\ EndInv
  BY DEF IInv
<1>1. /\ pc = "dump" /\ pc' = "rest" /\ UNCHANGED <<asked, at, bcount, ending, error, lost, failed>>
      /\ UNCHANGED <<file, want, from, calls>>
  BY DEF DumpBlocks, asked
<1>2. PICK n : n = WholeBlocks
  OBVIOUS
<1>3. /\ start \in Nat /\ count \in Nat /\ last \in Nat /\ max \in Nat /\ pos \in Nat /\ bcount \in Nat
      /\ BlockSize \in Nat \ {0} /\ start # 0 /\ count > 0 /\ (count - 1) * BlockSize <= max
      /\ last * BlockSize <= pos /\ pos < (last + 1) * BlockSize /\ pos = last * BlockSize /\ InLast
  BY <1>0, <1>1, Ext2Assumption DEF TypeOK, RangeSize, PlaceInv, Places, InLast
<1>4. /\ n \in 0..count /\ n * BlockSize \in Nat /\ n * BlockSize <= max
      /\ n = count \/ (n = count - 1 /\ max < n * BlockSize + BlockSize)
  <2>1. count * BlockSize = (count - 1) * BlockSize + BlockSize /\ (count - 1) * BlockSize \in Nat
    BY <1>3, TimesLess
  <2>2. PICK u \in Nat : u = (count - 1) * BlockSize
    BY <2>1
  <2>3. CASE count * BlockSize > max
    BY <2>1, <2>2, <2>3, <1>2, <1>3 DEF WholeBlocks
  <2>4. CASE ~(count * BlockSize > max)
    BY <2>1, <2>2, <2>4, <1>2, <1>3 DEF WholeBlocks
  <2> QED
    BY <2>3, <2>4
<1>5. CASE n = 0
  <2>1. UNCHANGED <<range, pos, max, buf>> /\ UNCHANGED <<start, count, last>>
    BY <1>2, <1>5 DEF DumpBlocks, range
  <2>2. SizeInv' /\ BufInv' /\ ReachInv'
    BY <1>0, <1>1, <2>1, NothingMoves
  <2>3. count = 1 /\ max < BlockSize
    <3>1. 0 * BlockSize = 0
      BY <1>3
    <3> QED
      BY <1>3, <1>4, <1>5, <3>1
  <2>4. TypeOK'
    BY <1>0, <1>1, <2>1 DEF TypeOK, Places
  <2>5. RangeSize'
    BY <1>0, <1>1, <2>1, <2>3 DEF RangeSize
  <2>6. AtInv' /\ ErrorInv'
    BY <1>0, <1>1 DEF AtInv, ErrorInv, AtBlock, Blocks
  <2>7. PlaceInv'
    BY <1>0, <1>1, <2>1 DEF PlaceInv, InLast, Places
  <2>8. RangeInv' /\ HoleInv'
    BY <1>0, <1>1, <2>1 DEF RangeInv, HoleInv, Sure, Places, Blocks
  <2>9. EndInv'
    BY <1>0, <1>1, <2>1 DEF EndInv
  <2> QED
    BY <2>2, <2>4, <2>5, <2>6, <2>7, <2>8, <2>9 DEF IInv
<1>6. CASE n # 0
  <2>1. PICK bytes \in Delivered(Bytes(start, n)) : Advance(bytes)
    BY <1>2, <1>6 DEF DumpBlocks
  <2>2. count' = count - n /\ start' = start + n /\ last' = last + n
    BY <1>2, <1>6 DEF DumpBlocks
  <2>3. n \in 1..count
    BY <1>3, <1>4, <1>6
  <2>4. /\ Bytes(start, n) \in Bytestring /\ Len(Bytes(start, n)) = n * BlockSize
        /\ bytes \in Bytestring /\ Len(bytes) = n * BlockSize
        /\ ~ShortReads => bytes = Bytes(start, n)
    <3>1. Bytes(start, n) \in Bytestring /\ Len(Bytes(start, n)) = n * BlockSize
      BY <1>3, <2>3, BytesOf
    <3> QED
      BY <2>1, <3>1, Arrives
  <2>5. ~ShortReads => \A j \in 1..Len(bytes) :
          ~lost \/ pos + j - 1 < Direct * BlockSize => bytes[j] = Content(pos + j - 1)
    BY <1>0, <1>1, <1>3, <2>3, <2>4, RangeRight
  <2>6. /\ pos' \in Nat /\ max' \in Nat /\ buf' \in Seq(Nat \X Nat)
        /\ pos' = pos + n * BlockSize /\ max' = max - n * BlockSize
        /\ SizeInv' /\ BufInv'
    BY <1>0, <1>1, <1>4, <2>1, <2>4, <2>5, DataMoves
  <2>7. PICK u \in Nat : u = n * BlockSize
    BY <1>4
  <2>8. TypeOK'
    BY <1>0, <1>1, <1>3, <2>2, <2>3, <2>6 DEF TypeOK, Places
  <2>9. RangeSize'
    <3>1. start' # 0
      BY <1>3, <2>2, <2>3
    <3>2. count' = 0 \/ (count' = 1 /\ max' < BlockSize)
      BY <1>3, <1>4, <2>2, <2>6, <2>7
    <3> QED
      BY <1>1, <3>1, <3>2 DEF RangeSize
  <2>10. AtInv' /\ ErrorInv'
    BY <1>0, <1>1 DEF AtInv, ErrorInv, AtBlock, Blocks
  <2>11. last' + count' = last + count /\ last' \in Nat /\ count' \in Nat
    BY <1>3, <2>2, <2>3
  <2>12. PlaceInv'
    <3>1. /\ last' * BlockSize = last * BlockSize + n * BlockSize
          /\ (last' + 1) * BlockSize = last' * BlockSize + BlockSize
          /\ last * BlockSize \in Nat
      BY <1>3, <2>2, <2>3, <2>11, Times
    <3>2. PICK w \in Nat : w = last * BlockSize
      BY <3>1
    <3>3. InLast'
      BY <3>1, <3>2, <2>6, <2>7, <1>3 DEF InLast
    <3> QED
      BY <1>0, <1>1, <2>11, <3>3 DEF PlaceInv, Places
  <2>13. RangeInv'
    <3>1. ASSUME NEW k \in 0..count' - 1, ~lost \/ last' + k < Direct
          PROVE  (last' + k < Blocks(file) /\ file[last' + k] = start' + k /\ file[last' + k] # 0)
      <4>1. n + k \in 0..count - 1 /\ last' + k = last + (n + k) /\ start' + k = start + (n + k)
        BY <1>3, <2>2, <2>3
      <4>2. Sure(last + (n + k))
        BY <1>1, <3>1, <4>1 DEF Sure
      <4>3. /\ last + (n + k) < Blocks(file) /\ file[last + (n + k)] = start + (n + k)
            /\ file[last + (n + k)] # 0
        BY <1>0, <1>1, <4>1, <4>2 DEF RangeInv
      <4> QED
        BY <4>1, <4>3
    <3>2. UNCHANGED <<lost, Blocks(file)>>
      BY <1>1 DEF Blocks
    <3> QED
      BY <1>1, <3>1, <3>2 DEF RangeInv, Sure
  <2>14. HoleInv'
    BY <1>0, <1>1, <2>11 DEF HoleInv, Sure, Places
  <2>15. ReachInv'
    <3> SUFFICES ASSUME ~lost
                 PROVE  \E b \in DOMAIN file : file[b] # 0 /\ pos' <= (b + 1) * BlockSize
      BY <1>1 DEF ReachInv
    <3>1. PICK b : b = last + (n - 1)
      OBVIOUS
    <3>2. b \in Nat /\ b < Blocks(file) /\ file[b] # 0
      BY <1>0, <1>1, <1>3, <2>3, <3>1 DEF RangeInv, Sure
    <3>3. b \in DOMAIN file
      BY <1>0, <3>2, FileOf
    <3>4. (b + 1) * BlockSize = last * BlockSize + n * BlockSize
      <4>1. b + 1 = last + n
        BY <1>3, <2>3, <3>1
      <4> QED
        BY <4>1, <1>3, <2>3, Times
    <3>5. PICK w \in Nat : w = last * BlockSize
      BY <1>3, Times
    <3>6. pos' <= (b + 1) * BlockSize
      BY <3>4, <3>5, <2>6, <2>7, <1>3
    <3> QED
      BY <3>2, <3>3, <3>6
  <2>16. EndInv'
    <3>1. max <= count * BlockSize => max' <= count' * BlockSize
      <4>1. count * BlockSize = n * BlockSize + count' * BlockSize /\ count' * BlockSize \in Nat
        <5>1. PICK c \in Nat : c = count'
          BY <2>11
        <5>2. n \in Nat /\ BlockSize \in Nat \ {0}
          BY <1>3, <2>3
        <5>3. (n + c) * BlockSize = n * BlockSize + c * BlockSize /\ c * BlockSize \in Nat
          BY <5>2, Times
        <5>4. count = n + c
          BY <1>3, <2>2, <2>3, <5>1
        <5> QED
          BY <5>1, <5>3, <5>4
      <4>2. PICK w \in Nat : w = count' * BlockSize
        BY <4>1
      <4> QED
        BY <4>1, <4>2, <2>6, <2>7, <1>3
    <3> QED
      BY <1>0, <1>1, <2>11, <3>1 DEF EndInv
  <2> QED
    BY <2>6, <2>8, <2>9, <2>10, <2>12, <2>13, <2>14, <2>15, <2>16 DEF IInv
<1> QED
  BY <1>5, <1>6

(* What is left of the last block completes what was asked. *)
LEMMA DumpRestKeeps ==
  ASSUME IInv, DumpRest
  PROVE  IInv'
<1>0. /\ TypeOK /\ SizeInv /\ RangeSize /\ AtInv /\ ErrorInv /\ PlaceInv
      /\ RangeInv /\ HoleInv /\ BufInv /\ ReachInv /\ EndInv
  BY DEF IInv
<1>1. /\ pc = "rest" /\ UNCHANGED <<asked, last, at, bcount, ending, error, lost, failed>>
      /\ UNCHANGED <<file, want, from, calls>> /\ start' = 0 /\ count' = 0
      /\ pc' = IF ending THEN "done" ELSE IF max' = 0 THEN "end" ELSE "place"
  BY DEF DumpRest, asked
<1>2. /\ start \in Nat /\ count \in Nat /\ last \in Nat /\ max \in Nat /\ pos \in Nat /\ bcount \in Nat
      /\ BlockSize \in Nat \ {0} /\ InLast /\ (count = 0 \/ (count = 1 /\ max < BlockSize))
      /\ want \in Nat /\ Len(buf) \in Nat /\ from \in Nat
  BY <1>0, <1>1, Ext2Assumption DEF TypeOK, RangeSize, PlaceInv, Places
<1>3. /\ ~error /\ pc' \in {"done", "end", "place"} /\ (pc' = "done" <=> ending)
      /\ Blocks(file)' = Blocks(file)
  BY <1>0, <1>1 DEF ErrorInv, Blocks
<1>4. AtInv'
  BY <1>0, <1>1, <1>3 DEF AtInv, AtBlock
<1>5. ErrorInv'
  BY <1>0, <1>1, <1>3 DEF ErrorInv
<1>6. RangeInv'
  BY <1>1, <1>3 DEF RangeInv
<1>7. RangeSize'
  BY <1>1, <1>3 DEF RangeSize
<1>8. CASE max # 0 /\ count # 0
  <2>1. PICK bytes \in Delivered(Bytes(start, 1)) : Advance(SubSeq(bytes, 1, max))
    BY <1>8 DEF DumpRest
  <2>2. count = 1 /\ max < BlockSize /\ start # 0 /\ 1 * BlockSize = BlockSize
    BY <1>0, <1>2, <1>8 DEF RangeSize
  <2>3. Bytes(start, 1) \in Bytestring /\ Len(Bytes(start, 1)) = BlockSize
    BY <1>2, <2>2, BytesOf
  <2>4. bytes \in Bytestring /\ Len(bytes) = BlockSize /\ (~ShortReads => bytes = Bytes(start, 1))
    BY <2>1, <2>3, Arrives
  <2>5. PICK part : part = SubSeq(bytes, 1, max)
    OBVIOUS
  <2>6. /\ part \in Bytestring /\ Len(part) = max
        /\ \A i \in 1..max : part[i] = bytes[i]
    <3>1. bytes \in Seq(Nat \X Nat) /\ 0 + max <= Len(bytes) /\ 0 \in Nat /\ 0 + 1 = 1 /\ 0 + max = max
          /\ \A i \in 1..max : 0 + i = i
      BY <2>4, <2>2, <1>2 DEF Bytestring
    <3>2. /\ SubSeq(bytes, 0 + 1, 0 + max) \in Seq(Nat \X Nat)
          /\ Len(SubSeq(bytes, 0 + 1, 0 + max)) = max
          /\ \A i \in 1..max : SubSeq(bytes, 0 + 1, 0 + max)[i] = bytes[0 + i]
      BY <3>1, <1>2, PartOf
    <3> QED
      BY <3>1, <3>2, <2>5 DEF Bytestring
  <2>7. ~ShortReads => \A j \in 1..Len(part) :
          ~lost \/ pos + j - 1 < Direct * BlockSize => part[j] = Content(pos + j - 1)
    <3> SUFFICES ASSUME ~ShortReads, NEW j \in 1..max, ~lost \/ pos + j - 1 < Direct * BlockSize
                 PROVE  part[j] = Content(pos + j - 1)
      BY <2>6
    <3>1. 1 \in 1..count /\ j \in 1..1 * BlockSize
      BY <2>2, <1>2
    <3>2. Bytes(start, 1)[j] = Content(pos + j - 1)
      BY <3>1, <1>0, <1>1, <1>2, <2>2, RangeRight
    <3> QED
      BY <3>2, <2>4, <2>6
  <2>8. /\ pos' \in Nat /\ max' \in Nat /\ buf' \in Seq(Nat \X Nat)
        /\ pos' = pos + max /\ max' = 0
        /\ SizeInv' /\ BufInv' /\ Len(buf') + max' = want'
    <3>1. Len(part) <= max /\ max - max = 0
      BY <2>6, <1>2
    <3> QED
      BY <1>0, <1>1, <2>1, <2>5, <2>6, <2>7, <3>1, DataMoves
  <2>9. TypeOK'
    BY <1>0, <1>1, <1>3, <2>8 DEF TypeOK, Places
  <2>10. pc' \in {"done", "end"}
    BY <1>1, <2>8
  <2>11. PlaceInv' /\ HoleInv'
    BY <1>1, <2>8, <2>10 DEF PlaceInv, HoleInv, Places
  <2>12. ReachInv'
    <3> SUFFICES ASSUME ~lost
                 PROVE  \E b \in DOMAIN file : file[b] # 0 /\ pos' <= (b + 1) * BlockSize
      BY <1>1 DEF ReachInv
    <3>1. last < Blocks(file) /\ file[last] # 0
      <4>1. 0 \in 0..count - 1 /\ last + 0 = last
        BY <1>2, <2>2
      <4> QED
        BY <1>0, <1>1, <4>1 DEF RangeInv, Sure
    <3>2. last \in DOMAIN file
      BY <1>0, <1>2, <3>1, FileOf
    <3>3. pos' <= (last + 1) * BlockSize
      <4>1. (last + 1) * BlockSize = last * BlockSize + BlockSize /\ last * BlockSize \in Nat
        BY <1>2, Times
      <4>2. PICK w \in Nat : w = last * BlockSize
        BY <4>1
      <4> QED
        BY <4>1, <4>2, <2>2, <2>8, <1>2 DEF InLast
    <3> QED
      BY <3>1, <3>2, <3>3
  <2>13. EndInv'
    <3>1. 0 * BlockSize = 0 /\ Len(buf') = want'
      <4>1. Len(buf') \in Nat
        BY <2>8
      <4> QED
        BY <1>2, <2>8, <4>1
    <3>2. max' <= count' * BlockSize
      BY <1>1, <2>8, <3>1
    <3> QED
      BY <3>1, <3>2 DEF EndInv
  <2> QED
    BY <1>4, <1>5, <1>6, <1>7, <2>8, <2>9, <2>11, <2>12, <2>13 DEF IInv
<1>9. CASE ~(max # 0 /\ count # 0)
  <2>1. UNCHANGED <<pos, max, buf>>
    BY <1>9 DEF DumpRest
  <2>2. SizeInv' /\ BufInv' /\ ReachInv'
    BY <1>0, <1>1, <2>1, NothingMoves
  <2>3. TypeOK'
    BY <1>0, <1>1, <1>3, <2>1 DEF TypeOK, Places
  <2>4. pc' = "place" => count = 0 /\ max # 0 /\ ~ending
    BY <1>1, <1>9, <2>1
  <2>5. PlaceInv'
    <3>1. InLast'
      BY <1>1, <1>2, <2>1 DEF InLast
    <3>2. pc' = "place" => bcount >= last
      BY <1>0, <1>1, <1>2, <2>4 DEF PlaceInv
    <3> QED
      BY <1>1, <1>3, <3>1, <3>2 DEF PlaceInv, Places
  <2>6. HoleInv'
    <3>1. pc' = "place" => count' = count
      BY <1>1, <2>4
    <3> QED
      BY <1>0, <1>1, <1>3, <2>4, <3>1 DEF HoleInv, Sure, Places
  <2>7. EndInv'
    <3> SUFFICES ASSUME ~failed
                 PROVE  EndInv'
      BY <1>1 DEF EndInv
    <3>1. 0 * BlockSize = 0
      BY <1>2
    <3>2. CASE pc' = "end"
      BY <1>1, <1>2, <2>1, <3>1, <3>2 DEF EndInv
    <3>3. CASE pc' = "done" /\ max = 0
      <4>1. Len(buf) = want
        BY <1>0, <1>1, <1>2, <3>3 DEF SizeInv
      <4> QED
        BY <1>1, <2>1, <3>3, <4>1 DEF EndInv
    <3>4. CASE pc' = "done" /\ max # 0
      <4>1. count = 0 /\ \A b \in DOMAIN file : file[b] # 0 => b < last
        <5>1. count = 0 /\ ending
          BY <1>3, <1>9, <3>4
        <5>2. max <= 0 \/ \A b \in DOMAIN file : file[b] # 0 => b < last + 0
          BY <1>0, <1>1, <5>1, <3>1 DEF EndInv
        <5> QED
          BY <5>1, <5>2, <3>4, <1>2
      <4>2. ASSUME NEW b \in DOMAIN file, file[b] # 0
            PROVE  (b + 1) * BlockSize <= pos
        <5>1. b \in Nat /\ b + 1 \in Nat /\ b + 1 <= last
          BY <1>0, <1>2, <4>1, <4>2, FileOf
        <5>2. (b + 1) * BlockSize <= last * BlockSize /\ (b + 1) * BlockSize \in Nat /\ last * BlockSize \in Nat
          BY <1>2, <5>1, Times
        <5> QED
          BY <1>2, <5>2 DEF InLast
      <4> QED
        BY <1>1, <2>1, <3>4, <4>2 DEF EndInv
    <3>5. CASE pc' = "place"
      BY <3>5 DEF EndInv
    <3> QED
      BY <1>3, <3>2, <3>3, <3>4, <3>5
  <2> QED
    BY <1>4, <1>5, <1>6, <1>7, <2>2, <2>3, <2>5, <2>6, <2>7 DEF IInv
<1> QED
  BY <1>8, <1>9

-----------------------------------------------------------------------------
(* The hole reaches from the position to the block the iteration is at,    *)
(* or to what is wanted.                                                   *)
LEMMA FillHoleKeeps ==
  ASSUME IInv, FillHole
  PROVE  IInv'
<1>0. /\ TypeOK /\ SizeInv /\ RangeSize /\ AtInv /\ ErrorInv /\ PlaceInv
      /\ RangeInv /\ HoleInv /\ BufInv /\ ReachInv /\ EndInv
  BY DEF IInv
<1>1. /\ pc = "place" /\ UNCHANGED <<asked, start, count, at, bcount, ending, error, lost, failed>>
      /\ UNCHANGED <<file, want, from, calls>> /\ bcount # 0 /\ bcount # last
      /\ \/ max' = 0 /\ pc' = "end" /\ last' = last
         \/ max' # 0 /\ pc' = pc /\ last' = bcount
  BY DEF FillHole, asked, AfterHole
<1>2. /\ last \in Nat /\ max \in Nat /\ pos \in Nat /\ bcount \in Nat /\ at \in Nat
      /\ BlockSize \in Nat \ {0} /\ Direct \in Nat /\ InLast /\ start = 0 /\ count = 0
      /\ bcount > last /\ bcount <= at /\ at < Blocks(file) /\ file[at] # 0 /\ Blocks(file) \in Nat
      /\ ~error /\ ~ending
  BY <1>0, <1>1, FileOf, Ext2Assumption DEF TypeOK, RangeSize, PlaceInv, Places, AtInv, AtBlock, ErrorInv
<1>3. PICK n \in Nat : n = HoleBytes /\ n <= max /\ pos + n <= bcount * BlockSize
                       /\ (n = max \/ pos + n = bcount * BlockSize)
  <2>1. /\ pos % BlockSize \in 0..BlockSize - 1 /\ pos = last * BlockSize + (pos % BlockSize)
        /\ last * BlockSize \in Nat
    BY <1>0, <1>2, InBlock
  <2>2. PICK gap \in Nat : bcount = last + gap /\ gap = bcount - last /\ gap > 0
    BY <1>2
  <2>3. /\ bcount * BlockSize = last * BlockSize + gap * BlockSize
        /\ BlockSize <= gap * BlockSize /\ gap * BlockSize \in Nat
    <3>1. (last + gap) * BlockSize = last * BlockSize + gap * BlockSize /\ gap * BlockSize \in Nat
      BY <1>2, <2>2, Times
    <3>2. 1 * BlockSize <= gap * BlockSize /\ 1 * BlockSize = BlockSize
      BY <1>2, <2>2, Times
    <3> QED
      BY <2>2, <3>1, <3>2
  <2>4. PICK o, l, g : o = pos % BlockSize /\ l = last * BlockSize /\ g = gap * BlockSize
    OBVIOUS
  <2>5. HoleBytes = Smaller(g - o, max)
    BY <2>2, <2>4 DEF HoleBytes
  <2>6. o \in 0..BlockSize - 1 /\ l \in Nat /\ g \in Nat /\ pos = l + o /\ bcount * BlockSize = l + g /\ BlockSize <= g
    BY <2>1, <2>3, <2>4
  <2> QED
    <3>1. PICK n : n = HoleBytes
      OBVIOUS
    <3>2. n \in Nat /\ n <= max /\ n <= g - o /\ (n = max \/ n = g - o)
      BY <2>5, <2>6, <3>1, <1>2 DEF Smaller
    <3>3. pos + n <= bcount * BlockSize /\ (n = max \/ pos + n = bcount * BlockSize)
      BY <2>6, <3>2
    <3> QED
      BY <3>1, <3>2, <3>3
<1>4. PICK bytes : bytes = [i \in 1..n |-> Zero]
  OBVIOUS
<1>5. /\ bytes \in Bytestring /\ Len(bytes) = n /\ \A j \in 1..n : bytes[j] = Zero
  <2>1. bytes \in [1..n -> Nat \X Nat]
    BY <1>4 DEF Zero
  <2> QED
    BY <1>4, <2>1, MadeSeq DEF Bytestring
<1>6. Advance(bytes)
  BY <1>3, <1>4 DEF FillHole
<1>7. ASSUME NEW j \in 1..n, ~lost \/ pos + j - 1 < Direct * BlockSize
      PROVE  Content(pos + j - 1) = Zero
  <2>1. pos + j - 1 \in Nat
    BY <1>2, <1>3
  <2>2. PICK q \in Nat, r \in 0..BlockSize - 1 : pos + j - 1 = q * BlockSize + r
    BY <1>2, <2>1, Divides
  <2>3. PICK u, w, l, d : u = q * BlockSize /\ w = bcount * BlockSize /\ l = last * BlockSize /\ d = Direct * BlockSize
    OBVIOUS
  <2>4. u \in Nat /\ w \in Nat /\ l \in Nat /\ d \in Nat
    BY <1>2, <2>2, <2>3, Times
  <2>5. q < bcount
    <3>1. u < w
      BY <1>2, <1>3, <2>2, <2>3, <2>4
    <3> QED
      BY <1>2, <2>2, <2>3, <3>1, Times
  <2>6. last <= q
    <3>1. l <= u + r
      BY <1>2, <2>2, <2>3, <2>4, <1>3 DEF InLast
    <3>2. l < u + BlockSize /\ (q + 1) * BlockSize = u + BlockSize /\ q + 1 \in Nat
      BY <3>1, <2>2, <2>3, <2>4, <1>2, Times
    <3>3. last < q + 1
      BY <3>2, <2>3, <1>2, Times
    <3> QED
      BY <3>3, <1>2, <2>2
  <2>7. Sure(q)
    <3>1. CASE ~lost
      BY <3>1 DEF Sure
    <3>2. CASE pos + j - 1 < Direct * BlockSize
      <4>1. u < d
        BY <3>2, <2>2, <2>3, <2>4
      <4> QED
        BY <4>1, <2>2, <2>3, <1>2, Times DEF Sure
    <3> QED
      BY <1>7, <3>1, <3>2
  <2>8. file[q] = 0
    BY <1>0, <1>1, <1>2, <2>2, <2>5, <2>6, <2>7 DEF HoleInv, Places
  <2> QED
    BY <2>1, <2>2, <2>8, ContentOf
<1>8. /\ pos' \in Nat /\ max' \in Nat /\ buf' \in Seq(Nat \X Nat)
      /\ pos' = pos + n /\ max' = max - n
      /\ SizeInv' /\ BufInv' /\ Len(buf') + max' = want'
  BY <1>0, <1>1, <1>2, <1>3, <1>5, <1>6, <1>7, DataMoves
<1>9. TypeOK'
  BY <1>0, <1>1, <1>2, <1>8 DEF TypeOK, Places
<1>10. RangeSize' /\ RangeInv'
  BY <1>1, <1>2, <1>8 DEF RangeSize, RangeInv
<1>11. AtInv' /\ ErrorInv'
  BY <1>0, <1>1 DEF AtInv, ErrorInv, AtBlock, Blocks
<1>12. PlaceInv'
  <2>1. CASE max' = 0
    BY <1>1, <1>2, <2>1 DEF PlaceInv, Places
  <2>2. CASE max' # 0
    <3>1. pos' = bcount * BlockSize /\ last' = bcount /\ start' = 0 /\ pc' = "place"
      BY <1>1, <1>2, <1>3, <1>8, <2>2
    <3>2. (bcount + 1) * BlockSize = bcount * BlockSize + BlockSize /\ bcount * BlockSize \in Nat
      BY <1>2, Times
    <3>3. InLast'
      <4>1. PICK w \in Nat : w = bcount * BlockSize
        BY <3>2
      <4> QED
        BY <3>1, <3>2, <4>1, <1>2 DEF InLast
    <3> QED
      BY <1>1, <1>2, <3>1, <3>3 DEF PlaceInv, Places
  <2> QED
    BY <2>1, <2>2
<1>13. HoleInv'
  <2>1. CASE pc' = "end"
    BY <2>1 DEF HoleInv, Places
  <2>2. CASE last' = bcount
    BY <1>1, <1>2, <2>2 DEF HoleInv
  <2> QED
    BY <1>1, <2>1, <2>2
<1>14. ReachInv'
  <2> SUFFICES ASSUME ~lost
               PROVE  \E b \in DOMAIN file : file[b] # 0 /\ pos' <= (b + 1) * BlockSize
    BY <1>1 DEF ReachInv
  <2>1. at \in DOMAIN file
    BY <1>0, <1>2, FileOf
  <2>2. bcount * BlockSize <= (at + 1) * BlockSize /\ bcount * BlockSize \in Nat /\ (at + 1) * BlockSize \in Nat
    <3>1. at + 1 \in Nat /\ bcount <= at + 1
      BY <1>2
    <3> QED
      BY <3>1, <1>2, Times
  <2>3. pos' <= (at + 1) * BlockSize
    <3>1. PICK u \in Nat, w \in Nat : u = bcount * BlockSize /\ w = (at + 1) * BlockSize
      BY <2>2
    <3>2. u <= w /\ pos' <= u
      BY <2>2, <3>1, <1>3, <1>8
    <3> QED
      BY <3>1, <3>2, <1>8
  <2> QED
    BY <2>1, <2>3, <1>2
<1>15. EndInv'
  <2>1. 0 * BlockSize = 0
    BY <1>2
  <2> QED
    BY <1>1, <1>2, <1>8, <2>1 DEF EndInv
<1> QED
  BY <1>8, <1>9, <1>10, <1>11, <1>12, <1>13, <1>14, <1>15 DEF IInv

(* A first block in part ends at the end of that block, or at what is      *)
(* wanted.                                                                 *)
LEMMA UnalignedKeeps ==
  ASSUME IInv, Unaligned
  PROVE  IInv'
<1>0. /\ TypeOK /\ SizeInv /\ RangeSize /\ AtInv /\ ErrorInv /\ PlaceInv
      /\ RangeInv /\ HoleInv /\ BufInv /\ ReachInv /\ EndInv
  BY DEF IInv
<1>1. /\ pc = "place" /\ UNCHANGED <<asked, start, count, ending, error, lost, failed>>
      /\ UNCHANGED <<file, want, from, calls>> /\ (bcount = 0 \/ bcount = last) /\ last' = bcount + 1
      /\ \/ max' = 0 /\ pc' = "end" /\ at' = at /\ bcount' = bcount
         \/ max' # 0 /\ pc' = "next" /\ at' = at + 1 /\ bcount' = bcount + 1
  BY DEF Unaligned, asked, AfterHole, ToNext
<1>2. /\ last \in Nat /\ max \in Nat /\ pos \in Nat /\ bcount \in Nat /\ at \in Nat
      /\ BlockSize \in Nat \ {0} /\ Direct \in Nat /\ InLast /\ start = 0 /\ count = 0
      /\ bcount = last /\ bcount <= at /\ at < Blocks(file) /\ file[at] # 0 /\ Blocks(file) \in Nat
      /\ file[at] \in Nat /\ ~error /\ ~ending
  BY <1>0, <1>1, FileOf, Ext2Assumption DEF TypeOK, RangeSize, PlaceInv, Places, AtInv, AtBlock, ErrorInv
<1>3. PICK off : off = pos % BlockSize
  OBVIOUS
<1>4. PICK size : size = Smaller(BlockSize - off, max)
  OBVIOUS
<1>5. PICK l : l = last * BlockSize
  OBVIOUS
<1>6. /\ off \in 0..BlockSize - 1 /\ pos = l + off /\ l \in Nat
      /\ (last + 1) * BlockSize = l + BlockSize
  BY <1>0, <1>2, <1>3, <1>5, InBlock, Times
<1>7. /\ size \in Nat /\ size <= max /\ off + size <= BlockSize
      /\ size = max \/ off + size = BlockSize
  BY <1>2, <1>4, <1>6 DEF Smaller
<1>8. PICK bytes \in Delivered(Bytes(file[at], 1)) : Advance(SubSeq(bytes, off + 1, off + size))
  BY <1>3, <1>4 DEF Unaligned
<1>9. PICK one : one = Bytes(file[at], 1)
  OBVIOUS
<1>10. /\ one \in Bytestring /\ Len(one) = BlockSize
       /\ \A i \in 1..BlockSize : one[i] = <<file[at], i - 1>>
  <2>1. 1 * BlockSize = BlockSize /\ \A q \in Nat : q > 0 => BlockSize <= q * BlockSize
    BY <1>2, Times
  <2>2. /\ one \in Bytestring /\ Len(one) = BlockSize
        /\ \A i \in 1..BlockSize : \E q \in Nat, r \in 0..BlockSize - 1 :
             i - 1 = q * BlockSize + r /\ one[i] = <<file[at] + q, r>>
    <3>1. /\ one \in Bytestring /\ Len(one) = 1 * BlockSize
          /\ \A i \in 1..1 * BlockSize : \E q \in Nat, r \in 0..BlockSize - 1 :
               i - 1 = q * BlockSize + r /\ one[i] = <<file[at] + q, r>>
      <4>1. 1 \in Nat /\ file[at] \in Nat
        BY <1>2
      <4> QED
        BY <4>1, <1>9, BytesOf, Zenon
    <3> QED
      BY <2>1, <3>1
  <2>3. ASSUME NEW i \in 1..BlockSize
        PROVE  one[i] = <<file[at], i - 1>>
    <3>1. PICK q \in Nat, r \in 0..BlockSize - 1 : i - 1 = q * BlockSize + r /\ one[i] = <<file[at] + q, r>>
      BY <2>2
    <3>2. PICK u \in Nat : u = q * BlockSize
      BY <1>2, Times
    <3>3. q = 0
      <4>1. u < BlockSize
        BY <3>1, <3>2, <1>2
      <4> QED
        BY <4>1, <3>2, <2>1, <1>2
    <3>4. u = 0 /\ file[at] + q = file[at]
      BY <3>2, <3>3, <1>2
    <3>5. i - 1 = r
      BY <3>1, <3>2, <3>4
    <3> QED
      BY <3>1, <3>4, <3>5
  <2> QED
    BY <2>2, <2>3
<1>11. bytes \in Bytestring /\ Len(bytes) = BlockSize /\ (~ShortReads => bytes = one)
  BY <1>8, <1>9, <1>10, Arrives
<1>12. PICK part : part = SubSeq(bytes, off + 1, off + size)
  OBVIOUS
<1>13. part \in Bytestring /\ Len(part) = size /\ \A i \in 1..size : part[i] = bytes[off + i]
  <2>1. bytes \in Seq(Nat \X Nat) /\ off \in Nat /\ off + size <= Len(bytes)
    BY <1>6, <1>7, <1>11 DEF Bytestring
  <2> QED
    BY <2>1, <1>7, <1>12, PartOf DEF Bytestring
<1>14. ASSUME ~ShortReads, NEW j \in 1..size, ~lost \/ pos + j - 1 < Direct * BlockSize
       PROVE  part[j] = Content(pos + j - 1)
  <2>1. off + j - 1 \in 0..BlockSize - 1 /\ off + j \in 1..BlockSize
    BY <1>2, <1>6, <1>7
  <2>0. PICK r \in 0..BlockSize - 1 : r = off + j - 1
    BY <2>1
  <2>2. pos + j - 1 = last * BlockSize + r /\ pos + j - 1 \in Nat
    BY <1>5, <1>6, <1>7, <2>0
  <2>3. part[j] = <<file[at], r>>
    <3>1. off + j \in 1..BlockSize /\ (off + j) - 1 = r
      BY <1>2, <1>6, <1>7, <2>0, <2>1
    <3> QED
      BY <3>1, <1>10, <1>11, <1>13, <1>14
  <2>4. Sure(last)
    <3>1. CASE ~lost
      BY <3>1 DEF Sure
    <3>2. CASE pos + j - 1 < Direct * BlockSize
      <4>1. PICK d \in Nat : d = Direct * BlockSize
        BY <1>2, Times
      <4>2. l < d
        BY <4>1, <3>2, <1>5, <1>6, <1>7
      <4> QED
        BY <4>1, <4>2, <1>5, <1>2, Times DEF Sure
    <3> QED
      BY <1>14, <3>1, <3>2
  <2>5. last = at
    BY <1>0, <1>1, <1>2, <2>4, Trusted DEF Places
  <2> QED
    BY <1>2, <2>2, <2>3, <2>5, ContentOf
<1>15. /\ pos' \in Nat /\ max' \in Nat /\ buf' \in Seq(Nat \X Nat)
       /\ pos' = pos + size /\ max' = max - size
       /\ SizeInv' /\ BufInv' /\ Len(buf') + max' = want'
  BY <1>0, <1>1, <1>2, <1>7, <1>8, <1>12, <1>13, <1>14, DataMoves
<1>16. TypeOK'
  <2>1. pc' \in Places \union {"end", "done"}
    BY <1>1 DEF Places
  <2>2. at' \in Nat /\ bcount' \in Nat /\ last' \in Nat
    BY <1>1, <1>2
  <2>3. /\ file' \in Files /\ start' \in Nat /\ count' \in Nat /\ want' \in Nat /\ from' \in Nat /\ calls' \in Nat
        /\ ending' \in BOOLEAN /\ error' \in BOOLEAN /\ lost' \in BOOLEAN /\ failed' \in BOOLEAN
    BY <1>0, <1>1 DEF TypeOK
  <2> QED
    BY <2>1, <2>2, <2>3, <1>15 DEF TypeOK
<1>17. RangeSize' /\ RangeInv'
  BY <1>1, <1>2, <1>15 DEF RangeSize, RangeInv
<1>18. AtInv'
  <2>1. Blocks(file)' = Blocks(file)
    BY <1>1 DEF Blocks
  <2>2. lost => bcount >= Direct
    BY <1>0, <1>1 DEF AtInv
  <2>3. ~lost => bcount = at
    BY <1>0, <1>1, <1>2 DEF AtInv
  <2> QED
    BY <1>1, <1>2, <2>1, <2>2, <2>3 DEF AtInv
<1>19. ErrorInv'
  BY <1>0, <1>1, <1>2 DEF ErrorInv
<1>20. PlaceInv'
  <2>1. CASE max' = 0
    BY <1>1, <1>2, <2>1 DEF PlaceInv, Places
  <2>2. CASE max' # 0
    <3>1. off + size = BlockSize
      BY <1>2, <1>7, <1>15, <2>2
    <3>2. pos' = last' * BlockSize /\ last' = last + 1 /\ (last' + 1) * BlockSize = last' * BlockSize + BlockSize
      <4>1. last' = last + 1 /\ last + 1 \in Nat
        BY <1>1, <1>2
      <4>2. ((last + 1) + 1) * BlockSize = (last + 1) * BlockSize + BlockSize
        BY <4>1, <1>2, Times
      <4>3. pos' = (last + 1) * BlockSize
        BY <1>2, <1>6, <1>7, <1>15, <3>1
      <4> QED
        BY <4>1, <4>2, <4>3
    <3>3. InLast'
      <4>1. PICK w \in Nat : w = last' * BlockSize
        BY <3>2, <1>15
      <4> QED
        BY <4>1, <3>2, <1>1, <1>2 DEF InLast
    <3> QED
      BY <1>1, <1>2, <2>2, <3>3 DEF PlaceInv, Places
  <2> QED
    BY <2>1, <2>2
<1>21. HoleInv'
  <2>1. CASE pc' = "end"
    BY <2>1 DEF HoleInv, Places
  <2>2. CASE pc' = "next"
    BY <1>1, <1>2, <2>2 DEF HoleInv
  <2> QED
    BY <1>1, <2>1, <2>2
<1>22. ReachInv'
  <2> SUFFICES ASSUME ~lost
               PROVE  \E b \in DOMAIN file : file[b] # 0 /\ pos' <= (b + 1) * BlockSize
    BY <1>1 DEF ReachInv
  <2>1. last = at /\ at \in DOMAIN file
    BY <1>0, <1>1, <1>2, FileOf DEF AtInv
  <2>2. pos' <= (last + 1) * BlockSize
    BY <1>2, <1>6, <1>7, <1>15
  <2> QED
    BY <2>1, <2>2, <1>2
<1>23. EndInv'
  <2>1. 0 * BlockSize = 0
    BY <1>2
  <2> QED
    BY <1>1, <1>2, <1>15, <2>1 DEF EndInv
<1> QED
  BY <1>15, <1>16, <1>17, <1>18, <1>19, <1>20, <1>21, <1>22, <1>23 DEF IInv

-----------------------------------------------------------------------------
(* Between two reads nothing but the position counts, *)
LEMMA SeekKeeps ==
  ASSUME IInv, NEW p \in Positions, Seek(p)
  PROVE  IInv'
<1>0. /\ TypeOK /\ AtInv /\ pc = "done" /\ pc' = "done" /\ UNCHANGED <<file, max, at, bcount, ending>>
      /\ UNCHANGED <<start, count, last>> /\ RangeSize /\ ErrorInv
      /\ pos' = p /\ from' = p /\ want' = 0 /\ buf' = <<>> /\ error' = FALSE /\ lost' = FALSE
      /\ failed' = FALSE /\ calls' = calls + 1 /\ p \in Nat /\ Len(buf') = 0
  BY Ext2Assumption DEF IInv, Seek, range
<1>1. buf' \in Seq(Nat \X Nat)
  BY <1>0
<1>2. TypeOK'
  <2>1. error' \in BOOLEAN /\ lost' \in BOOLEAN /\ failed' \in BOOLEAN
    BY <1>0, Zenon
  <2> QED
    BY <1>0, <1>1, <2>1 DEF TypeOK
<1>3. SizeInv' /\ RangeSize' /\ EndInv'
  BY <1>0 DEF SizeInv, RangeSize, EndInv
<1>4. AtInv' /\ ErrorInv'
  BY <1>0 DEF AtInv, ErrorInv, Blocks
<1>5. PlaceInv' /\ RangeInv' /\ HoleInv'
  BY <1>0 DEF PlaceInv, RangeInv, HoleInv, Places
<1>6. BufInv' /\ ReachInv'
  BY <1>0 DEF BufInv, ReachInv
<1> QED
  BY <1>2, <1>3, <1>4, <1>5, <1>6 DEF IInv

(* and a read begins with the block it is in. *)
LEMMA ReadKeeps ==
  ASSUME IInv, NEW size \in Sizes, Read(size)
  PROVE  IInv'
<1>0. /\ TypeOK /\ pc = "done" /\ pc' = "next" /\ UNCHANGED <<file, pos>> /\ ErrorInv
      /\ start' = 0 /\ count' = 0 /\ last' = pos \div BlockSize /\ max' = size /\ buf' = <<>>
      /\ error' = FALSE /\ at' = 0 /\ bcount' = 0 /\ ending' = FALSE /\ want' = size /\ from' = pos
      /\ lost' = FALSE /\ failed' = FALSE /\ calls' = calls + 1 /\ size \in Nat /\ Len(buf') = 0
      /\ pos \in Nat /\ BlockSize \in Nat \ {0}
  BY Ext2Assumption DEF IInv, Read, TypeOK
<1>1. /\ last' \in Nat /\ last' * BlockSize <= pos /\ pos < (last' + 1) * BlockSize
  <2>1. PICK q \in Nat, r \in 0..BlockSize - 1 : pos = q * BlockSize + r /\ pos \div BlockSize = q
    BY <1>0, Divides
  <2>2. (q + 1) * BlockSize = q * BlockSize + BlockSize /\ q * BlockSize \in Nat
    BY <1>0, <2>1, Times
  <2>3. PICK u \in Nat : u = q * BlockSize
    BY <2>2
  <2>4. q * BlockSize <= pos /\ pos < (q + 1) * BlockSize
    BY <1>0, <2>1, <2>2, <2>3
  <2> QED
    BY <1>0, <2>1, <2>4
<1>2. TypeOK'
  <2>1. buf' \in Seq(Nat \X Nat)
    BY <1>0
  <2> QED
    <3>1. error' \in BOOLEAN /\ lost' \in BOOLEAN /\ failed' \in BOOLEAN /\ ending' \in BOOLEAN
      BY <1>0, Zenon
    <3> QED
      BY <1>0, <1>1, <2>1, <3>1 DEF TypeOK, Places
<1>3. SizeInv' /\ RangeSize' /\ EndInv'
  BY <1>0 DEF SizeInv, RangeSize, EndInv
<1>4. AtInv' /\ ErrorInv'
  <2>1. Blocks(file)' = Blocks(file) /\ Blocks(file) \in Nat
    BY <1>0, FileOf DEF Blocks
  <2> QED
    BY <1>0, <2>1 DEF AtInv, ErrorInv
<1>5. PlaceInv'
  BY <1>0, <1>1 DEF PlaceInv, InLast, Places
<1>6. RangeInv' /\ HoleInv'
  BY <1>0, <1>1 DEF RangeInv, HoleInv, Places
<1>7. BufInv' /\ ReachInv'
  BY <1>0 DEF BufInv, ReachInv
<1> QED
  BY <1>2, <1>3, <1>4, <1>5, <1>6, <1>7 DEF IInv

-----------------------------------------------------------------------------
(* A file newly opened has not been read. *)
LEMMA InitHolds ==
  Init => IInv
<1> SUFFICES ASSUME Init PROVE IInv
  OBVIOUS
<1>0. BlockSize \in Nat \ {0} /\ 0 * BlockSize = 0 /\ (0 + 1) * BlockSize = BlockSize
  BY Ext2Assumption
<1>1. TypeOK
  <2>1. error \in BOOLEAN /\ lost \in BOOLEAN /\ failed \in BOOLEAN /\ ending \in BOOLEAN
    BY Zenon DEF Init
  <2> QED
    BY <2>1 DEF Init, TypeOK
<1>2. SizeInv /\ RangeSize /\ EndInv
  BY DEF Init, SizeInv, RangeSize, EndInv
<1>3. AtInv /\ ErrorInv
  BY <1>1, FileOf DEF Init, AtInv, ErrorInv
<1>4. PlaceInv /\ RangeInv /\ HoleInv
  BY DEF Init, PlaceInv, RangeInv, HoleInv, Places
<1>5. BufInv /\ ReachInv
  BY DEF Init, BufInv, ReachInv
<1> QED
  BY <1>1, <1>2, <1>3, <1>4, <1>5 DEF IInv

(* Nothing changes while nothing is done. *)
LEMMA StaysPut ==
  ASSUME IInv, UNCHANGED vars
  PROVE  IInv'
<1>1. /\ UNCHANGED <<pc, file, pos, start, count, last, max, at, bcount, ending, buf, error, lost,
                     want, from, failed, calls>>
      /\ \A k : Content(k)' = Content(k)
  BY DEF vars, Content, Blocks
<1> QED
  BY <1>1 DEF IInv, TypeOK, SizeInv, RangeSize, AtInv, AtBlock, ErrorInv, Allocated, PlaceInv, InLast,
              RangeInv, HoleInv, Sure, BufInv, ReachInv, EndInv, Blocks

(* The invariant holds of every behaviour: one lemma for each action. *)
THEOREM Ext2InvHolds == Spec => []IInv
<1>1. IInv /\ [Next]_vars => IInv'
  <2> SUFFICES ASSUME IInv, [Next]_vars PROVE IInv'
    OBVIOUS
  <2>1. CASE \E p \in Positions : Seek(p)
    BY <2>1, SeekKeeps
  <2>2. CASE \E n \in Sizes : Read(n)
    BY <2>2, ReadKeeps
  <2>3. CASE NoBlocks \/ Skip \/ IndirectFails \/ IterationEnds \/ Return
    BY <2>3, NoBlocksKeeps, SkipKeeps, IndirectFailsKeeps, IterationEndsKeeps, ReturnKeeps
  <2>4. CASE Extend \/ OtherRange \/ NewRange \/ FillHole \/ Unaligned \/ UnalignedFails
    BY <2>4, ExtendKeeps, OtherRangeKeeps, NewRangeKeeps, FillHoleKeeps, UnalignedKeeps, UnalignedFailsKeeps
  <2>5. CASE DumpFails \/ DumpBlocks \/ DumpRest
    BY <2>5, DumpFailsKeeps, DumpBlocksKeeps, DumpRestKeeps
  <2>6. CASE UNCHANGED vars
    BY <2>6, StaysPut
  <2> QED
    BY <2>1, <2>2, <2>3, <2>4, <2>5, <2>6 DEF Next
<1> QED
  BY <1>1, InitHolds, PTL DEF Spec

-----------------------------------------------------------------------------
(* Nothing is written beyond the size the caller of ext2_read gave, even   *)
(* from a device that returns less than it was asked for: read_dump_range  *)
(* takes the last block through block_buffer, and a hole is cut at max.    *)
THEOREM StaysInBuffer == Spec => []InBuffer
<1>1. IInv => InBuffer
  BY DEF IInv, SizeInv, InBuffer
<1> QED
  BY <1>1, Ext2InvHolds, PTL

(* From a device that returns whole blocks, what ext2_read returns without *)
(* a complaint is what the file holds, through every mixture of ranges,    *)
(* holes, blocks wanted in part and ranges read again after a failure.     *)
THEOREM WhatIsReadIsThere == ~ShortReads => (Spec => []ReadsRight)
<1> SUFFICES ASSUME ~ShortReads PROVE Spec => []ReadsRight
  OBVIOUS
<1>1. IInv => ReadsRight
  BY DEF IInv, BufInv, ReadsRight
<1> QED
  BY <1>1, Ext2InvHolds, PTL

(* The end of the file, as the blocks bound it. *)
LEMMA EndIs ==
  ASSUME TypeOK
  PROVE  /\ End \in Nat
         /\ \A b \in DOMAIN file : file[b] # 0 => (b + 1) * BlockSize <= End
         /\ \A n \in Nat : (\A b \in DOMAIN file : file[b] # 0 => (b + 1) * BlockSize <= n) => End <= n
<1>0. /\ BlockSize \in Nat \ {0} /\ Blocks(file) \in Nat /\ DOMAIN file = 0..Blocks(file) - 1
  BY Ext2Assumption, FileOf
<1>1. PICK held : held = {b \in DOMAIN file : file[b] # 0}
  OBVIOUS
<1>2. CASE held = {}
  <2>1. End = 0
    BY <1>1, <1>2 DEF End
  <2> QED
    BY <1>1, <1>2, <2>1
<1>3. CASE held # {}
  <2>1. \E b \in held : \A c \in held : c <= b
    <3>1. PICK m : m \in held
      BY <1>3
    <3>2. held \subseteq 0..Blocks(file) - 1
      BY <1>0, <1>1
    <3>3. Blocks(file) - 1 \in Nat
      BY <3>1, <3>2, <1>0
    <3> QED
      BY <1>3, <3>2, <3>3, Highest
  <2>2. PICK top : top = CHOOSE b \in held : \A c \in held : c <= b
    OBVIOUS
  <2>3. top \in held /\ \A c \in held : c <= top
    BY <2>1, <2>2
  <2>4. End = BlockSize * (1 + top)
    BY <1>1, <1>3, <2>2, Zenon DEF End
  <2>5. top \in Nat /\ top + 1 \in Nat /\ 1 + top = top + 1 /\ file[top] # 0 /\ top \in DOMAIN file
    BY <1>0, <1>1, <2>3
  <2>6. End = (top + 1) * BlockSize /\ End \in Nat
    BY <2>4, <2>5, <1>0
  <2>7. ASSUME NEW b \in DOMAIN file, file[b] # 0
        PROVE  (b + 1) * BlockSize <= End
    <3>1. b + 1 \in Nat /\ b + 1 <= top + 1
      BY <1>0, <1>1, <2>3, <2>5, <2>7
    <3> QED
      BY <3>1, <2>5, <2>6, <1>0, Times
  <2> QED
    BY <2>5, <2>6, <2>7
<1> QED
  BY <1>2, <1>3

(* When no read of the device failed ext2_read returns all that was asked  *)
(* or all up to the end of the last block, and file->pos has moved by what *)
(* it returned whatever failed.                                            *)
THEOREM ReadsAll == Spec => []WholeRead
<1>1. IInv => WholeRead
  <2> SUFFICES ASSUME IInv, pc = "done" PROVE WholeRead
    BY DEF WholeRead
  <2>1. TypeOK /\ SizeInv /\ ErrorInv /\ ReachInv /\ EndInv
    BY DEF IInv
  <2>2. /\ pos = from + Len(buf) /\ Len(buf) <= want
        /\ pos \in Nat /\ from \in Nat /\ want \in Nat /\ Len(buf) \in Nat /\ End \in Nat
        /\ buf = <<>> <=> Len(buf) = 0
    BY <2>1, EndIs DEF SizeInv, TypeOK
  <2>3. ASSUME ~failed
        PROVE  Len(buf) = IF from > End THEN 0 ELSE Smaller(want, End - from)
    <3>1. Len(buf) # 0 => pos <= End
      <4> SUFFICES ASSUME Len(buf) # 0 PROVE pos <= End
        OBVIOUS
      <4>1. PICK b \in DOMAIN file : file[b] # 0 /\ pos <= (b + 1) * BlockSize
        BY <2>1, <2>2, <2>3 DEF ReachInv, ErrorInv
      <4>2. (b + 1) * BlockSize <= End
        BY <2>1, <4>1, EndIs
      <4>3. (b + 1) * BlockSize \in Nat
        <5>1. b + 1 \in Nat
          BY <2>1, FileOf
        <5> QED
          BY <5>1, Ext2Assumption, Times
      <4>4. PICK u \in Nat : u = (b + 1) * BlockSize
        BY <4>3
      <4> QED
        BY <4>1, <4>2, <4>4, <2>2
    <3>2. Len(buf) = want \/ End <= pos
      <4>1. CASE Len(buf) = want
        BY <4>1
      <4>2. CASE Len(buf) # want
        <5>1. \A b \in DOMAIN file : file[b] # 0 => (b + 1) * BlockSize <= pos
          BY <2>1, <2>3, <4>2 DEF EndInv
        <5> QED
          BY <2>1, <2>2, <5>1, EndIs
      <4> QED
        BY <4>1, <4>2
    <3> QED
      BY <2>2, <3>1, <3>2 DEF Smaller
  <2> QED
    BY <2>2, <2>3 DEF WholeRead
<1> QED
  BY <1>1, Ext2InvHolds, PTL
================================================================================
