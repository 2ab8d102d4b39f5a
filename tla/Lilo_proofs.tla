------------------------------ MODULE Lilo_proofs ------------------------------
(***************************************************************************)
(* The installers, run any number of times on any machine of the           *)
(* assumptions. On machines with PC partitions a cloned installation       *)
(* survives every failure and crash, a run that ends well has installed    *)
(* what it was asked for, and boot-device is changed last. On every        *)
(* machine the loader then offers the kernels that lilo.conf asks for.     *)
(***************************************************************************)
EXTENDS Lilo, WellFoundedInduction, FiniteSetTheorems, SequenceTheorems, TLAPS

Less == {p \in Nat \X Nat : p[1] < p[2]}

(* A set of numbers that is not empty has a lowest one, *)
LEMMA Lowest ==
  ASSUME NEW T, T \subseteq Nat, T # {}
  PROVE  \E x \in T : \A y \in T : x <= y
<1>1. IsWellFoundedOn(Less, Nat)
  BY NatLessThanWellFounded DEF Less, OpToRel
<1>2. PICK x \in T : \A y \in T : <<y, x>> \notin Less
  BY <1>1, WFMin
<1>3. \A y \in T : ~ (y < x)
  BY <1>2 DEF Less
<1> QED
  BY <1>2, <1>3

(* and a highest one if there is a bound. *)
LEMMA Highest ==
  ASSUME NEW T, NEW n \in Nat, T \subseteq 0 .. n, T # {}
  PROVE  \E x \in T : \A y \in T : y <= x
<1> DEFINE Below == {n - t : t \in T}
<1>1. Below \subseteq Nat /\ Below # {}
  <2>1. \A t \in T : n - t \in Nat
    OBVIOUS
  <2>2. \E t \in T : n - t \in Below
    OBVIOUS
  <2> QED BY <2>1, <2>2
<1> HIDE DEF Below
<1>2. PICK u \in Below : \A v \in Below : u <= v
  BY <1>1, Lowest
<1>3. PICK x \in T : u = n - x
  BY <1>2 DEF Below
<1>4. \A y \in T : n - x <= n - y
  BY <1>2, <1>3 DEF Below
<1> QED
  BY <1>3, <1>4


(* The partition that is worked on exists, and the rest of the list too. *)
LEMMA TargetIs ==
  ASSUME TypeOK, QueueInv, queue # <<>>
  PROVE  /\ Target \in DOMAIN parts /\ Target \in Nat \X Nat
         /\ Target = <<Disk(Target), Number(Target)>>
         /\ parts[Target] \in Partition
         /\ Target \notin NoPath => Number(Target) \in 1..4
         /\ Tail(queue) \in Seq(DOMAIN parts)
<1>1. queue \in Seq(DOMAIN parts) /\ queue # <<>>
  BY DEF TypeOK
<1>2. Target \in DOMAIN parts /\ Tail(queue) \in Seq(DOMAIN parts)
  BY <1>1, HeadTailProperties DEF Target
<1>3. Target \in Parts /\ parts[Target] \in Partition
  BY <1>2 DEF TypeOK
<1>4. Target \in Nat \X Nat /\ (Target \notin NoPath => Number(Target) \in 1..4)
  BY <1>3, ChrpAssumption DEF ChrpAssumption
<1> QED
  BY <1>2, <1>3, <1>4 DEF Disk, Number

(* One partition at a time is changed. *)
LEMMA PartTyped ==
  ASSUME TypeOK, NEW p \in DOMAIN parts, NEW r \in Partition,
         r.kind = "prep" => Number(p) \in 1..4,
         parts' = [parts EXCEPT ![p] = r]
  PROVE  /\ DOMAIN parts' = DOMAIN parts /\ parts' \in [DOMAIN parts' -> Partition]
         /\ \A q \in DOMAIN parts' : parts'[q].kind = "prep" => Number(q) \in 1..4
  BY DEF TypeOK

(* Leaving entries out of a sequence. *)
LEMMA WithoutTyped ==
  ASSUME NEW S, NEW entries \in Seq(S), NEW dropped
  PROVE  Without(entries, dropped) \in Seq(S)
<1> DEFINE kept == {i \in DOMAIN entries : entries[i] \notin dropped}
           upto(i) == {j \in kept : j <= i}
<1>1. IsFiniteSet(kept) /\ kept \subseteq Nat
  <2>1. DOMAIN entries = 1..Len(entries) /\ Len(entries) \in Nat
    OBVIOUS
  <2>2. IsFiniteSet(1..Len(entries))
    BY <2>1, FS_Interval
  <2> QED BY <2>1, <2>2, FS_Subset
<1>2. Cardinality(kept) \in Nat
  BY <1>1, FS_CardinalityType
<1>3. ASSUME NEW k \in 1..Cardinality(kept)
      PROVE  \E i \in kept : Cardinality(upto(i)) = k
  <2> SUFFICES ASSUME \A i \in kept : Cardinality(upto(i)) # k
               PROVE  FALSE
    OBVIOUS
  <2> DEFINE high == {i \in kept : Cardinality(upto(i)) >= k}
  <2>0. \A i : upto(i) \subseteq kept /\ IsFiniteSet(upto(i)) /\ Cardinality(upto(i)) \in Nat
    BY <1>1, FS_Subset, FS_CardinalityType
  <2>1. kept # {} /\ kept \subseteq 0 .. Len(entries) /\ Len(entries) \in Nat
    BY <1>1, FS_EmptySet
  <2>2. PICK m \in kept : \A i \in kept : i <= m
    <3> HIDE DEF kept
    <3> QED BY <2>1, Highest
  <2>3. m \in high
    <3>1. upto(m) = kept
      BY <2>2
    <3> HIDE DEF upto, kept
    <3> QED BY <2>2, <3>1, <1>2
  <2>4. PICK i \in high : \A j \in high : i <= j
    <3>1. high \subseteq Nat /\ high # {}
      BY <1>1, <2>3
    <3> HIDE DEF high
    <3> QED BY <3>1, Lowest
  <2> DEFINE before == upto(i) \ {i}
  <2>5. before \subseteq kept /\ IsFiniteSet(before) /\ Cardinality(before) >= k
    <3>1. i \in upto(i) /\ Cardinality(upto(i)) >= k /\ Cardinality(upto(i)) # k
      BY <1>1, <2>4
    <3> HIDE DEF upto, kept
    <3>2. Cardinality(before) = Cardinality(upto(i)) - 1 /\ IsFiniteSet(before)
      BY <2>0, <3>1, FS_RemoveElement
    <3> QED BY <2>0, <3>1, <3>2
  <2>6. PICK j \in before : \A x \in before : x <= j
    <3>1. before # {} /\ before \subseteq 0 .. Len(entries) /\ Len(entries) \in Nat
      BY <2>1, <2>5, FS_EmptySet
    <3> HIDE DEF before
    <3> QED BY <3>1, Highest
  <2>7. upto(j) = before /\ j < i /\ j \in kept
    BY <1>1, <2>4, <2>5, <2>6
  <2> QED BY <1>1, <2>4, <2>5, <2>7
<1>4. ASSUME NEW k \in 1..Cardinality(kept)
      PROVE  entries[CHOOSE i \in kept : Cardinality(upto(i)) = k] \in S
  <2>1. PICK c : c = CHOOSE i \in kept : Cardinality(upto(i)) = k
    OBVIOUS
  <2>2. c \in kept
    BY <1>3, <2>1, Zenon
  <2> QED BY <2>1, <2>2
<1>5. Without(entries, dropped) =
        [k \in 1..Cardinality(kept) |-> entries[CHOOSE i \in kept : Cardinality(upto(i)) = k]]
  BY Zenon DEF Without
<1> DEFINE at(k) == entries[CHOOSE i \in kept : Cardinality(upto(i)) = k]
           n == Cardinality(kept)
<1>6. \A k \in 1..n : at(k) \in S
  BY <1>4
<1> HIDE DEF upto, kept, at, n
<1>7. [k \in 1..n |-> at(k)] \in Seq(S)
  BY <1>2, <1>6 DEF n
<1> QED BY <1>5, <1>7 DEF at, n

(* Only the files of a partition change. *)
LEMMA FilesTyped ==
  ASSUME TypeOK, NEW p \in DOMAIN parts, NEW S \in SUBSET Names,
         parts' = [parts EXCEPT ![p].files = S]
  PROVE  /\ DOMAIN parts' = DOMAIN parts /\ parts' \in [DOMAIN parts' -> Partition]
         /\ \A q \in DOMAIN parts' : parts'[q].kind = "prep" => Number(q) \in 1..4
<1>1. parts[p] \in Partition /\ (parts[p].kind = "prep" => Number(p) \in 1..4)
  BY DEF TypeOK
<1>2. [parts[p] EXCEPT !.files = S] \in Partition /\ [parts[p] EXCEPT !.files = S].kind = parts[p].kind
  BY <1>1 DEF Partition
<1> QED BY <1>1, <1>2, PartTyped

(* A file is put on a list of copies once or not at all. *)
LEMMA OneTyped ==
  ASSUME NEW S, NEW f \in S, NEW asked
  PROVE  One(f, asked) \in Seq(S) /\ Len(One(f, asked)) <= 1
<1>1. CASE asked
  BY <1>1 DEF One
<1>2. CASE ~asked
  BY <1>2, EmptySeq DEF One
<1> QED BY <1>1, <1>2

(* What is to be copied is named. *)
LEMMA ListTyped == Required \in Seq(Names) /\ Optional \in Seq(Names) /\ Required \o Optional \in Seq(Names)
<1>1. /\ One("vmlinux", job.named /\ "vmlinux" \in job.copies) \in Seq(Names)
      /\ One("initrd", job.named /\ "initrd" \in job.copies) \in Seq(Names)
      /\ Spare("vmlinux") \in Seq(Names) /\ Spare("vmlinux.old") \in Seq(Names) /\ Spare("initrd") \in Seq(Names)
  BY OneTyped DEF Names, Copies, Spare
<1>2. <<"loader", "conf", "bootinfo">> \in Seq(Names)
  BY DEF Names
<1>3. Required \in Seq(Names)
  BY <1>1, <1>2 DEF Required
<1>4. Optional \in Seq(Names)
  BY <1>1 DEF Optional
<1> QED BY <1>3, <1>4

FatStep ==
  \/ Room \/ Extend \/ NoRoom \/ SetType \/ SetTypeFails
  \/ Mkfs \/ MkfsFails \/ Copy \/ CopyFails \/ Umount

(* The types of the model are kept on the way over a FAT partition, *)
LEMMA FatTyped ==
  ASSUME TypeOK, QueueInv, FatStep
  PROVE  TypeOK'
<1> DEFINE r == parts[Target]
<1>1. pc \in OnFat /\ queue # <<>> /\ Target \notin NoPath
  BY DEF FatStep, OnFat, Room, Extend, NoRoom, SetType, SetTypeFails, Mkfs, MkfsFails, Copy, CopyFails, Umount, QueueInv, TypeOK
<1>2. Target \in DOMAIN parts /\ r \in Partition /\ Number(Target) \in 1..4
  BY <1>1, TargetIs
<1>3. CASE Room
  BY <1>3 DEF Room, Go, TypeOK, AtEnd, OnFat
<1>4. CASE Umount
  BY <1>4 DEF Umount, Go, TypeOK, AtEnd, OnFat
<1>5. CASE NoRoom
  BY <1>5, EmptySeq DEF NoRoom, Fail, TypeOK, AtEnd, OnFat
<1>6. CASE SetTypeFails
  BY <1>6, EmptySeq DEF SetTypeFails, Fail, TypeOK, AtEnd, OnFat
<1>7. CASE CopyFails
  BY <1>7, EmptySeq, HeadTailProperties DEF CopyFails, Fail, TypeOK, AtEnd, OnFat
<1>8. CASE Extend
  <2>1. [r EXCEPT !.fit = "fits", !.kind = "fat16"] \in Partition
    BY <1>2 DEF Partition, Fits, Kinds
  <2> QED BY <1>2, <1>8, <2>1, PartTyped DEF Extend, Go, TypeOK, AtEnd, OnFat
<1>9. CASE SetType
  <2>1. [r EXCEPT !.kind = "fat16"] \in Partition
    BY <1>2 DEF Partition, Kinds
  <2> QED BY <1>2, <1>9, <2>1, PartTyped DEF SetType, Change, Go, TypeOK, AtEnd, OnFat
<1>10. CASE Mkfs
  <2>1. [r EXCEPT !.files = {}, !.age = run] \in Partition
    BY <1>2 DEF Partition, TypeOK
  <2> QED BY <1>2, <1>10, <2>1, PartTyped, ListTyped DEF Mkfs, Go, TypeOK, AtEnd, OnFat, Partition
<1>11. CASE MkfsFails
  <2>1. parts' = [parts EXCEPT ![Target].files = {}] /\ {} \in SUBSET Names
    BY <1>11 DEF MkfsFails, Change
  <2>2. /\ DOMAIN parts' = DOMAIN parts /\ parts' \in [DOMAIN parts' -> Partition]
        /\ \A q \in DOMAIN parts' : parts'[q].kind = "prep" => Number(q) \in 1..4
    BY <1>2, <2>1, FilesTyped
  <2> QED BY <1>11, <2>2, EmptySeq DEF MkfsFails, Fail, TypeOK
<1>12. CASE Copy
  <2>1. r.files \union {Head(todo)} \in SUBSET Names
    BY <1>2, <1>12, HeadTailProperties DEF Copy, TypeOK, Partition
  <2> QED BY <1>2, <1>12, <2>1, FilesTyped, HeadTailProperties DEF Copy, Change, TypeOK, AtEnd, OnFat
<1> QED BY <1>3, <1>4, <1>5, <1>6, <1>7, <1>8, <1>9, <1>10, <1>11, <1>12 DEF FatStep

PrepStep ==
  Convert \/ ConvertFails \/ Delete \/ Resize \/ Dd \/ Conf \/ ConfFails

(* The numbers in front of a PReP partition are slots of the table. *)
LEMMA LowerTyped ==
  LowerPrep \in Seq(1..4)
<1>0. 1 \in 1..4 /\ 2 \in 1..4 /\ 3 \in 1..4
  OBVIOUS
<1>1. InFront(1) \in Seq(1..4) /\ InFront(2) \in Seq(1..4) /\ InFront(3) \in Seq(1..4)
  BY <1>0, OneTyped, Zenon DEF InFront
<1> QED BY <1>1 DEF LowerPrep

(* over a PReP partition, *)
LEMMA PrepTyped ==
  ASSUME TypeOK, QueueInv, PrepStep
  PROVE  TypeOK'
<1> DEFINE r == parts[Target]
<1>1. pc \in OnPrep /\ queue # <<>> /\ Target \notin NoPath
  BY DEF PrepStep, OnPrep, Convert, ConvertFails, Delete, Resize, Dd, Conf, ConfFails, QueueInv, TypeOK
<1>2. Target \in DOMAIN parts /\ r \in Partition /\ Number(Target) \in 1..4
  BY <1>1, TargetIs
<1>3. CASE Convert
  <2>1. [r EXCEPT !.kind = "prep"] \in Partition
    BY <1>2 DEF Partition, Kinds
  <2> QED BY <1>2, <1>3, <2>1, PartTyped, LowerTyped DEF Convert, Change, Go, TypeOK, OnPrep
<1>4. CASE ConvertFails
  BY <1>4, EmptySeq DEF ConvertFails, Fail, TypeOK
<1>5. CASE Delete
  <2> DEFINE p == <<Disk(Target), Head(lower)>>
  <2>1. Head(lower) \in 1..4 /\ Tail(lower) \in Seq(1..4)
    BY <1>5, HeadTailProperties DEF Delete, TypeOK
  <2>2. CASE UNCHANGED <<parts, flags>>
    BY <1>5, <2>1, <2>2 DEF Delete, TypeOK
  <2>3. CASE /\ p \in DOMAIN parts
             /\ parts' = [parts EXCEPT ![p].kind = "none", ![p].files = {}]
             /\ flags' = [flags EXCEPT ![Head(lower)] = "none"]
    <3>1. [parts[p] EXCEPT !.kind = "none", !.files = {}] \in Partition
      BY <2>3 DEF Partition, Kinds, TypeOK
    <3>2. [parts[p] EXCEPT !.kind = "none", !.files = {}].kind # "prep"
      BY <2>3 DEF Partition, TypeOK
    <3> QED BY <1>5, <2>1, <2>3, <3>1, <3>2, PartTyped DEF Delete, TypeOK, Kinds
  <2> QED BY <1>5, <2>2, <2>3 DEF Delete
<1>6. CASE Resize
  <2>1. \A fit \in Fits : /\ [r EXCEPT !.files = {}, !.fit = fit] \in Partition
                          /\ [r EXCEPT !.files = {}, !.fit = fit].kind = r.kind
    BY <1>2 DEF Partition
  <2>2. r.fit \in Fits /\ "fits" \in Fits
    BY <1>2 DEF Partition, Fits
  <2>3. CASE UNCHANGED parts
    BY <1>6, <2>3 DEF Resize, Go, TypeOK, OnPrep
  <2>4. CASE \E fit \in Fits : parts' = [parts EXCEPT ![Target].files = {}, ![Target].fit = fit]
    <3>1. PICK fit \in Fits : parts' = [parts EXCEPT ![Target] = [r EXCEPT !.files = {}, !.fit = fit]]
      BY <1>2, <2>4
    <3>2. /\ DOMAIN parts' = DOMAIN parts /\ parts' \in [DOMAIN parts' -> Partition]
          /\ \A q \in DOMAIN parts' : parts'[q].kind = "prep" => Number(q) \in 1..4
      BY <1>2, <2>1, <3>1, PartTyped
    <3> QED BY <1>6, <3>2 DEF Resize, Go, TypeOK, OnPrep
  <2> QED BY <1>6, <2>2, <2>3, <2>4 DEF Resize
<1>7. CASE Dd
  <2>1. \A S \in SUBSET Names : /\ [r EXCEPT !.age = run, !.files = S] \in Partition
                                /\ [r EXCEPT !.age = run, !.files = S].kind = r.kind
    BY <1>2 DEF Partition, TypeOK
  <2>2. PICK S \in SUBSET Names : parts' = [parts EXCEPT ![Target].age = run, ![Target].files = S]
    BY <1>7 DEF Dd, Names
  <2> QED BY <1>2, <1>7, <2>1, <2>2, PartTyped DEF Dd, Go, TypeOK, OnPrep
<1>8. CASE Conf
  BY <1>8 DEF Conf, Go, TypeOK, AtEnd, OnPrep
<1>9. CASE ConfFails
  BY <1>9, EmptySeq DEF ConfFails, TypeOK
<1> QED BY <1>3, <1>4, <1>5, <1>6, <1>7, <1>8, <1>9 DEF PrepStep
-----------------------------------------------------------------------------
(* by nvsetenv, *)
LEMMA NvramTyped ==
  ASSUME TypeOK, QueueInv, SetBootDevice
  PROVE  TypeOK'
<1>1. queue # <<>> /\ Target \notin NoPath
  BY DEF SetBootDevice, QueueInv
<1>2. Target \in Parts /\ Tail(queue) \in Seq(DOMAIN parts)
  BY <1>1, TargetIs DEF TypeOK
<1>3. BootPath \in Entry
  BY <1>2 DEF BootPath, Entry
<1>4. ASSUME NEW dropped PROVE Without(nvram, dropped) \in Seq(Entry)
  BY WithoutTyped DEF TypeOK
<1>5. nvram' \in Seq(Entry)
  <2>1. nvram \in Seq(Entry) /\ <<BootPath>> \in Seq(Entry)
    BY <1>3 DEF TypeOK
  <2>2. <<BootPath>> \o Without(nvram, {e \in Entry : StartsWith(e, BootPath)}) \in Seq(Entry)
    BY <2>1, <1>4, ConcatProperties
  <2> QED BY <2>1, <2>2 DEF SetBootDevice
<1> QED BY <1>2, <1>5 DEF SetBootDevice, TypeOK

(* and so by every step. *)
LEMMA TypeKept ==
  ASSUME TypeOK, QueueInv, ChrpNext
  PROVE  TypeOK'
<1>1. CASE StartRun
  <2>1. flags' \in [1..4 -> Kinds] /\ run' \in Runs
    BY <1>1, ChrpAssumption DEF StartRun, Kinds, ChrpAssumption, Runs, TypeOK
  <2>2. queue' \in Seq(DOMAIN parts)
    <3>1. CASE job.boot \in DOMAIN parts
      <4>1. job.clones \in Seq(DOMAIN parts) /\ <<job.boot>> \in Seq(DOMAIN parts)
        BY <3>1 DEF TypeOK
      <4>2. job.clones \o <<job.boot>> \in Seq(DOMAIN parts)
        BY <4>1, ConcatProperties
      <4> QED BY <1>1, <4>2, EmptySeq DEF StartRun
    <3>2. CASE job.boot \notin DOMAIN parts
      BY <1>1, <3>2, EmptySeq DEF StartRun
    <3> QED BY <3>1, <3>2
  <2>3. pc' \in {"idle", "next"} /\ status' \in {"error", "running"}
    BY <1>1 DEF StartRun
  <2>4. todo' = <<>> /\ lower' = <<>> /\ UNCHANGED <<job, parts, nvram>>
    BY <1>1 DEF StartRun
  <2> QED BY <2>1, <2>2, <2>3, <2>4, EmptySeq DEF TypeOK
<1>2. CASE SkipPartition
  BY <1>2, HeadTailProperties DEF SkipPartition, TypeOK
<1>3. CASE BeginPartition
  <2>1. queue # <<>> /\ UNCHANGED <<parts, nvram, todo, lower, job, queue, status, run>>
    BY <1>3 DEF BeginPartition, Go
  <2>2. flags' \in [1..4 -> Kinds]
    BY <1>3 DEF BeginPartition, FlagsOf, TypeOK, Partition
  <2>3. pc' \in {"room", "convert"}
    BY <1>3 DEF BeginPartition, Go
  <2> QED BY <2>1, <2>2, <2>3 DEF TypeOK, OnFat, OnPrep
<1>4. CASE Finish
  BY <1>4 DEF Finish, TypeOK
<1>5. CASE FatStep
  BY <1>5, FatTyped
<1>6. CASE PrepStep
  BY <1>6, PrepTyped
<1>7. CASE SetActive
  BY <1>7 DEF SetActive, Go, TypeOK, AtEnd
<1>8. CASE SetActiveFails
  BY <1>8, EmptySeq DEF SetActiveFails, Fail, TypeOK
<1>9. CASE SetBootDevice
  BY <1>9, NvramTyped
<1>10. CASE Crash
  <2>1. /\ DOMAIN parts' = DOMAIN parts /\ parts' \in [DOMAIN parts' -> Partition]
        /\ \A q \in DOMAIN parts' : parts'[q].kind = "prep" => Number(q) \in 1..4
    <3>1. CASE UNCHANGED parts
      BY <3>1 DEF TypeOK
    <3>2. CASE pc \in {"copy", "dd"} /\ \E S \in SUBSET parts[Target].files : parts' = [parts EXCEPT ![Target].files = S]
      <4>1. Target \in DOMAIN parts /\ parts[Target].files \subseteq Names
        BY <3>2, TargetIs DEF QueueInv, Partition
      <4> QED BY <3>2, <4>1, FilesTyped
    <3> QED BY <1>10, <3>1, <3>2 DEF Crash, Change
  <2> QED BY <1>10, <2>1, EmptySeq DEF Crash, TypeOK
<1> QED BY <1>1, <1>2, <1>3, <1>4, <1>5, <1>6, <1>7, <1>8, <1>9, <1>10 DEF ChrpNext, FatStep, PrepStep
-----------------------------------------------------------------------------
(* What the run is to do follows from its job alone. *)
LEMMA SameJob ==
  ASSUME UNCHANGED job
  PROVE  /\ FatBoot' <=> FatBoot
         /\ Cloned' <=> Cloned
         /\ Wanted(job)' = Wanted(job)
  BY DEF FatBoot, Cloned, Wanted

(* What every step does that works on a partition, and every failure. *)
Keeps ==
  /\ pc # "idle" /\ UNCHANGED <<job, nvram, healthy, run>> /\ (unnoticed => unnoticed')
  /\ DOMAIN parts' = DOMAIN parts
  /\ \/ pc' = "idle" /\ queue' = <<>> /\ status' \in {"error", "cut"}
     \/ /\ pc' \in OnFat \union OnPrep \union AtEnd /\ UNCHANGED <<queue, status>>
        /\ queue # <<>> /\ Target \notin NoPath
        /\ pc' \in OnFat => FatBoot
        /\ pc' \in OnPrep => ~FatBoot

(* No step before nvsetenv touches boot-device, and no failure is          *)
(* forgotten.                                                              *)
LEMMA StepKeeps ==
  ASSUME TypeOK, QueueInv, FatStep \/ PrepStep \/ SetActive \/ SetActiveFails \/ Crash
  PROVE  Keeps
<1>1. CASE FatStep
  <2>1. pc \in OnFat /\ queue # <<>> /\ Target \notin NoPath /\ FatBoot
    BY <1>1 DEF FatStep, OnFat, Room, Extend, NoRoom, SetType, SetTypeFails, Mkfs, MkfsFails, Copy, CopyFails, Umount, QueueInv, TypeOK
  <2>2. DOMAIN parts' = DOMAIN parts
    BY <1>1 DEF FatStep, Room, Extend, NoRoom, SetType, SetTypeFails, Mkfs, MkfsFails, Copy, CopyFails, Umount, Fail, Go, Change, TypeOK
  <2>3. UNCHANGED <<job, nvram, healthy, run>> /\ UNCHANGED unnoticed
    BY <1>1 DEF FatStep, Room, Extend, NoRoom, SetType, SetTypeFails, Mkfs, MkfsFails, Copy, CopyFails, Umount, Fail, Go
  <2>4. \/ pc' = "idle" /\ queue' = <<>> /\ status' = "error"
        \/ pc' \in OnFat \union AtEnd /\ UNCHANGED <<queue, status>>
    BY <1>1, <2>1 DEF FatStep, Room, Extend, NoRoom, SetType, SetTypeFails, Mkfs, MkfsFails, Copy, CopyFails, Umount, Fail, Go, OnFat, AtEnd
  <2> QED BY <2>1, <2>2, <2>3, <2>4 DEF Keeps, OnFat, OnPrep, AtEnd
<1>2. CASE PrepStep
  <2>1. pc \in OnPrep /\ queue # <<>> /\ Target \notin NoPath /\ ~FatBoot
    BY <1>2 DEF PrepStep, OnPrep, Convert, ConvertFails, Delete, Resize, Dd, Conf, ConfFails, QueueInv, TypeOK
  <2>2. DOMAIN parts' = DOMAIN parts
    BY <1>2 DEF PrepStep, Convert, ConvertFails, Delete, Resize, Dd, Conf, ConfFails, Fail, Go, Change, TypeOK
  <2>3. UNCHANGED <<job, nvram, healthy, run>>
    BY <1>2 DEF PrepStep, Convert, ConvertFails, Delete, Resize, Dd, Conf, ConfFails, Fail, Go
  <2>4. \/ pc' = "idle" /\ queue' = <<>> /\ status' = "error"
        \/ pc' \in OnPrep \union AtEnd /\ UNCHANGED <<queue, status>>
    BY <1>2, <2>1 DEF PrepStep, Convert, ConvertFails, Delete, Resize, Dd, Conf, ConfFails, Fail, Go, OnPrep, AtEnd
  <2>5. unnoticed => unnoticed'
    <3>1. CASE Dd
      BY <3>1, Zenon DEF Dd
    <3>2. CASE UNCHANGED unnoticed
      BY <3>2
    <3> QED BY <1>2, <3>1, <3>2 DEF PrepStep, Convert, ConvertFails, Delete, Resize, Conf, ConfFails, Fail, Go
  <2> QED BY <2>1, <2>2, <2>3, <2>4, <2>5 DEF Keeps, OnFat, OnPrep, AtEnd
<1>3. CASE SetActive \/ SetActiveFails
  <2>1. pc = "active" /\ queue # <<>> /\ Target \notin NoPath
    BY <1>3 DEF SetActive, SetActiveFails, QueueInv
  <2> QED BY <1>3, <2>1 DEF SetActive, SetActiveFails, Fail, Go, Keeps, OnFat, OnPrep, AtEnd
<1>4. CASE Crash
  <2>1. DOMAIN parts' = DOMAIN parts
    BY <1>4 DEF Crash, Change, TypeOK
  <2> QED BY <1>4, <2>1 DEF Crash, Keeps
<1> QED BY <1>1, <1>2, <1>3, <1>4

(* One partition is done with. *)
LEMMA TailKept ==
  ASSUME TypeOK, QueueInv, queue # <<>>, queue' = Tail(queue), UNCHANGED job
  PROVE  /\ queue' # <<>> => queue'[Len(queue')] = job'.boot
         /\ Cloned' => \A i, j \in DOMAIN queue' : i # j => queue'[i] # queue'[j]
         /\ queue' = <<>> => Target = job.boot
         /\ DOMAIN queue' = 1 .. Len(queue) - 1 /\ DOMAIN queue = 1 .. Len(queue)
         /\ Len(queue) \in Nat \ {0}
         /\ \A i \in DOMAIN queue' : queue'[i] = queue[i + 1]
<1>1. queue \in Seq(DOMAIN parts) /\ queue # <<>>
  BY DEF TypeOK
<1>2. /\ Len(queue) \in Nat \ {0} /\ DOMAIN queue = 1 .. Len(queue) /\ Len(queue') = Len(queue) - 1
      /\ DOMAIN queue' = 1 .. Len(queue) - 1 /\ \A i \in DOMAIN queue' : queue'[i] = queue[i + 1]
  BY <1>1
<1>3. queue[Len(queue)] = job.boot
  BY <1>1 DEF QueueInv
<1>4. queue' # <<>> => queue'[Len(queue')] = job'.boot
  BY <1>1, <1>2, <1>3
<1>5. queue' = <<>> => Target = job.boot
  <2>1. ASSUME queue' = <<>> PROVE Len(queue) = 1
    BY <1>2, <2>1
  <2> QED BY <1>1, <1>3, <2>1 DEF Target
<1>6. Cloned' => \A i, j \in DOMAIN queue' : i # j => queue'[i] # queue'[j]
  <2>1. Cloned => \A i, j \in DOMAIN queue : i # j => queue[i] # queue[j]
    BY DEF QueueInv
  <2> SUFFICES ASSUME Cloned, NEW i \in DOMAIN queue', NEW j \in DOMAIN queue', i # j
               PROVE  queue'[i] # queue'[j]
    BY SameJob
  <2> QED BY <1>2, <2>1
<1> QED BY <1>2, <1>4, <1>5, <1>6

(* The partitions still to be done are on the disks and apart. *)
LEMMA QueueKept ==
  ASSUME TypeOK, QueueInv, ChrpNext
  PROVE  QueueInv'
<1>1. CASE StartRun
  <2>1. CASE queue' = <<>> /\ pc' = "idle"
    BY <2>1 DEF QueueInv, OnFat, OnPrep
  <2>2. CASE /\ job.boot \in DOMAIN parts \ NoPath /\ pc' = "next" /\ status' = "running"
             /\ queue' = job.clones \o <<job.boot>>
    <3> DEFINE n == Len(job.clones)
    <3>1. job.clones \in Seq(DOMAIN parts) /\ n \in Nat /\ UNCHANGED <<job, parts>>
      BY <1>1 DEF StartRun, TypeOK
    <3>2. /\ Len(queue') = n + 1 /\ DOMAIN queue' = 1 .. n + 1 /\ DOMAIN job.clones = 1 .. n
          /\ queue'[n + 1] = job.boot /\ \A i \in 1 .. n : queue'[i] = job.clones[i]
      BY <2>2, <3>1
    <3>3. Cloned' => \A i, j \in DOMAIN queue' : i # j => queue'[i] # queue'[j]
      <4> SUFFICES ASSUME Cloned, NEW i \in 1 .. n + 1, NEW j \in 1 .. n + 1, i # j
                   PROVE  queue'[i] # queue'[j]
        BY <3>1, <3>2, SameJob
      <4>1. /\ \A k \in 1 .. n : job.clones[k] # job.boot
            /\ \A k, l \in 1 .. n : k # l => job.clones[k] # job.clones[l]
        BY <3>2 DEF Cloned
      <4> QED BY <3>1, <3>2, <4>1
    <3> QED BY <2>2, <3>1, <3>2, <3>3 DEF QueueInv, OnFat, OnPrep
  <2> QED BY <1>1, <2>1, <2>2 DEF StartRun
<1>2. CASE SkipPartition
  <2>1. queue # <<>> /\ queue' = Tail(queue) /\ pc = "next" /\ UNCHANGED <<pc, job, parts, status>>
    BY <1>2 DEF SkipPartition
  <2> QED BY <2>1, TailKept DEF QueueInv, OnFat, OnPrep
<1>3. CASE BeginPartition
  <2>1. queue # <<>> /\ Target \notin NoPath /\ pc = "next" /\ UNCHANGED <<job, parts, status, queue>>
    BY <1>3 DEF BeginPartition, Go
  <2>2. pc' = IF FatBoot THEN "room" ELSE "convert"
    BY <1>3 DEF BeginPartition, Go
  <2>3. Target' = Target /\ (FatBoot' <=> FatBoot) /\ (Cloned' <=> Cloned)
    BY <2>1, SameJob DEF Target
  <2> QED BY <2>1, <2>2, <2>3 DEF QueueInv, OnFat, OnPrep
<1>4. CASE Finish
  BY <1>4 DEF Finish, QueueInv, OnFat, OnPrep
<1>5. CASE Keeps
  <2>1. UNCHANGED job /\ (FatBoot' <=> FatBoot) /\ (Cloned' <=> Cloned)
    BY <1>5, SameJob DEF Keeps
  <2>2. CASE pc' = "idle" /\ queue' = <<>>
    BY <2>2 DEF QueueInv, OnFat, OnPrep
  <2>3. CASE /\ pc' \in OnFat \union OnPrep \union AtEnd /\ UNCHANGED <<queue, status>>
             /\ queue # <<>> /\ Target \notin NoPath
             /\ pc' \in OnFat => FatBoot
             /\ pc' \in OnPrep => ~FatBoot
    <3>1. Target' = Target /\ pc # "idle" /\ DOMAIN parts' = DOMAIN parts
      BY <1>5, <2>3 DEF Target, Keeps
    <3>2. pc' # "idle"
      BY <2>3 DEF OnFat, OnPrep, AtEnd
    <3> QED BY <2>1, <2>3, <3>1, <3>2 DEF QueueInv
  <2> QED BY <1>5, <2>2, <2>3 DEF Keeps
<1>6. CASE SetBootDevice
  <2>1. queue # <<>> /\ queue' = Tail(queue) /\ pc # "idle" /\ pc' = "next" /\ UNCHANGED <<job, parts, status>>
    BY <1>6 DEF SetBootDevice, QueueInv
  <2> QED BY <2>1, TailKept DEF QueueInv, OnFat, OnPrep
<1> QED BY <1>1, <1>2, <1>3, <1>4, <1>5, <1>6, StepKeeps DEF ChrpNext, FatStep, PrepStep
-----------------------------------------------------------------------------
(* Two lists of copies one after the other, *)
LEMMA Joined ==
  ASSUME NEW S, NEW s \in Seq(S), NEW t \in Seq(S)
  PROVE  /\ s \o t \in Seq(S) /\ Len(s \o t) = Len(s) + Len(t) /\ Len(s) \in Nat /\ Len(t) \in Nat
         /\ \A k \in 1 .. Len(s) : (s \o t)[k] = s[k]
         /\ \A k \in 1 .. Len(t) : (s \o t)[Len(s) + k] = t[k]
<1>1. Len(s) \in Nat /\ Len(t) \in Nat
  OBVIOUS
<1>2. s \o t \in Seq(S) /\ Len(s \o t) = Len(s) + Len(t)
  BY ConcatProperties
<1>3. ASSUME NEW k \in 1 .. Len(s) PROVE (s \o t)[k] = s[k]
  <2>1. k \in 1 .. Len(s) + Len(t) /\ k <= Len(s)
    BY <1>1
  <2> QED BY <2>1, ConcatProperties
<1>4. ASSUME NEW k \in 1 .. Len(t) PROVE (s \o t)[Len(s) + k] = t[k]
  <2>1. Len(s) + k \in 1 .. Len(s) + Len(t) /\ ~(Len(s) + k <= Len(s)) /\ Len(s) + k - Len(s) = k
    BY <1>1
  <2> QED BY <2>1, ConcatProperties
<1> QED BY <1>1, <1>2, <1>3, <1>4

(* and three. *)
LEMMA JoinedTwice ==
  ASSUME NEW S, NEW a \in Seq(S), NEW b \in Seq(S), NEW c \in Seq(S), NEW r, r = (a \o b) \o c
  PROVE  /\ Len(r) = Len(a) + Len(b) + Len(c) /\ r \in Seq(S)
         /\ Len(b) \in Nat /\ Len(c) \in Nat
         /\ \A k \in 1 .. Len(a) : r[k] = a[k]
         /\ \A k \in 1 .. Len(b) : r[Len(a) + k] = b[k]
         /\ \A k \in 1 .. Len(c) : r[Len(a) + Len(b) + k] = c[k]
<1> DEFINE d == a \o b
<1>1. /\ d \in Seq(S) /\ Len(d) = Len(a) + Len(b) /\ Len(a) \in Nat /\ Len(b) \in Nat
      /\ \A k \in 1 .. Len(a) : d[k] = a[k]
      /\ \A k \in 1 .. Len(b) : d[Len(a) + k] = b[k]
  BY Joined
<1>0. d \in Seq(S)
  BY <1>1
<1> HIDE DEF d
<1>2. /\ r \in Seq(S) /\ Len(r) = Len(d) + Len(c) /\ Len(c) \in Nat
      /\ \A k \in 1 .. Len(d) : r[k] = d[k]
      /\ \A k \in 1 .. Len(c) : r[Len(d) + k] = c[k]
  <2>1. r = d \o c
    BY DEF d
  <2> QED BY <1>0, <2>1, Joined
<1>3. ASSUME NEW k \in 1 .. Len(a) PROVE r[k] = a[k]
  BY <1>1, <1>2
<1>4. ASSUME NEW k \in 1 .. Len(b) PROVE r[Len(a) + k] = b[k]
  BY <1>1, <1>2
<1> QED BY <1>1, <1>2, <1>3, <1>4

(* Everything the default needs is among the files lilo insists on. *)
LEMMA WantedRequired ==
  ASSUME TypeOK, NEW f \in Wanted(job)
  PROVE  IsRequired(f)
<1>13. PICK a : a = <<"loader", "conf", "bootinfo">>
  OBVIOUS
<1>14. PICK b : b = One("vmlinux", job.named /\ "vmlinux" \in job.copies)
  OBVIOUS
<1>15. PICK c : c = One("initrd", job.named /\ "initrd" \in job.copies)
  OBVIOUS
<1>1. a \in Seq(Names) /\ b \in Seq(Names) /\ c \in Seq(Names)
  <2>1. "vmlinux" \in Names /\ "initrd" \in Names
    BY DEF Names, Copies
  <2> QED BY <1>13, <1>14, <1>15, <2>1, OneTyped DEF Names
<1>2. Required = (a \o b) \o c
  BY <1>13, <1>14, <1>15 DEF Required
<1>3. f \in {"loader", "conf"} \/ (job.named /\ f \in job.copies /\ f \in {"vmlinux", "initrd"})
  BY DEF Wanted, Default
<1>4. f \in {"loader", "conf"} => f = a[1] \/ f = a[2]
  BY <1>13
<1>5. f = "vmlinux" /\ job.named /\ f \in job.copies => b = <<f>>
  BY <1>14 DEF One
<1>6. f = "initrd" /\ job.named /\ f \in job.copies => c = <<f>>
  BY <1>15 DEF One
<1>7. Len(a) = 3
  BY <1>13
<1>8. /\ Len(Required) = 3 + Len(b) + Len(c) /\ Required \in Seq(Names)
      /\ Len(b) \in Nat /\ Len(c) \in Nat
      /\ \A k \in 1 .. 3 : Required[k] = a[k]
      /\ \A k \in 1 .. Len(b) : Required[3 + k] = b[k]
      /\ \A k \in 1 .. Len(c) : Required[3 + Len(b) + k] = c[k]
  <2>1. Required = (a \o b) \o c /\ Len(a) = 3
    BY <1>2, <1>7
  <2>2. a \in Seq(Names) /\ b \in Seq(Names) /\ c \in Seq(Names)
    BY <1>1
  <2>3. PICK S : S = Names
    OBVIOUS
  <2>4. a \in Seq(S) /\ b \in Seq(S) /\ c \in Seq(S)
    BY <2>2, <2>3
  <2>5. PICK r : r = (a \o b) \o c
    OBVIOUS
  <2>6. /\ Len(r) = Len(a) + Len(b) + Len(c) /\ r \in Seq(S)
        /\ Len(b) \in Nat /\ Len(c) \in Nat
        /\ \A k \in 1 .. Len(a) : r[k] = a[k]
        /\ \A k \in 1 .. Len(b) : r[Len(a) + k] = b[k]
        /\ \A k \in 1 .. Len(c) : r[Len(a) + Len(b) + k] = c[k]
    BY <2>4, <2>5, JoinedTwice
  <2>7. r = Required
    BY <2>1, <2>5
  <2> QED BY <2>1, <2>3, <2>6, <2>7
<1>9. CASE f \in {"loader", "conf"}
  <2>1. Required[1] = a[1] /\ Required[2] = a[2] /\ 1 \in DOMAIN Required /\ 2 \in DOMAIN Required
    BY <1>8
  <2> QED BY <1>4, <1>9, <2>1 DEF IsRequired
<1>10. CASE b = <<f>>
  <2>1. 3 + 1 \in DOMAIN Required /\ Required[3 + 1] = f
    BY <1>8, <1>10
  <2> QED BY <2>1 DEF IsRequired
<1>11. CASE c = <<f>>
  <2>1. 3 + Len(b) + 1 \in DOMAIN Required /\ Required[3 + Len(b) + 1] = f
    BY <1>8, <1>11
  <2> QED BY <2>1 DEF IsRequired
<1> QED BY <1>3, <1>5, <1>6, <1>9, <1>10, <1>11

(* On a FAT partition everything copied so far is there, and what is       *)
(* still to be copied is what is missing.                                  *)
LEMMA FatKept ==
  ASSUME TypeOK, QueueInv, FatInv, ChrpNext
  PROVE  FatInv'
<1> DEFINE there(f) == f \in parts[Target].files \/ \E i \in DOMAIN todo : todo[i] = f
<1> SUFFICES ASSUME (pc \in {"copy"} \union AtEnd)', FatBoot'
             PROVE  /\ (parts[Target].age = run)'
                    /\ \A f \in Wanted(job)' :
                         \/ f \in (parts[Target].files)'
                         \/ pc' = "copy" /\ \E i \in DOMAIN todo' : todo'[i] = f
  BY DEF FatInv
<1>1. pc' \in {"copy", "active", "nvram"}
  BY DEF AtEnd
<1>2. CASE Mkfs
  <2>1. queue # <<>> /\ pc = "mkfs" /\ UNCHANGED <<job, queue, run>>
    BY <1>2 DEF Mkfs, Go, QueueInv
  <2>2. Target \in DOMAIN parts /\ parts[Target] \in Partition /\ Target' = Target
    BY <2>1, TargetIs DEF Target
  <2>3. (parts[Target].age = run)' /\ todo' = Required \o Optional /\ pc' = "copy"
    BY <1>2, <2>1, <2>2 DEF Mkfs, Go, Partition, TypeOK
  <2>4. ASSUME NEW f \in Wanted(job)'
        PROVE  \E i \in DOMAIN todo' : todo'[i] = f
    <3>1. f \in Wanted(job)
      BY <2>1, SameJob
    <3>2. PICK i \in DOMAIN Required : Required[i] = f
      BY <3>1, WantedRequired DEF IsRequired
    <3>3. i \in DOMAIN (Required \o Optional) /\ (Required \o Optional)[i] = f
      BY <3>2, ListTyped
    <3> QED BY <2>3, <3>3
  <2> QED BY <2>3, <2>4
<1>3. CASE Copy
  <2>1. queue # <<>> /\ pc = "copy" /\ UNCHANGED <<pc, job, queue, run>> /\ todo # <<>> /\ todo' = Tail(todo)
    BY <1>3 DEF Copy, QueueInv
  <2>2. Target \in DOMAIN parts /\ parts[Target] \in Partition /\ Target' = Target
    BY <2>1, TargetIs DEF Target
  <2>3. /\ (parts[Target].files)' = parts[Target].files \union {Head(todo)}
        /\ (parts[Target].age)' = parts[Target].age
    BY <1>3, <2>1, <2>2 DEF Copy, Change, Partition, TypeOK
  <2>4. FatBoot /\ parts[Target].age = run /\ \A f \in Wanted(job) : there(f)
    BY <2>1, SameJob DEF FatInv
  <2>5. ASSUME NEW f \in Wanted(job), f \notin (parts[Target].files)'
        PROVE  \E i \in DOMAIN todo' : todo'[i] = f
    <3>1. PICK i \in DOMAIN todo : todo[i] = f
      BY <2>3, <2>4, <2>5
    <3>2. todo \in Seq(Names) /\ f # Head(todo)
      BY <2>3, <2>5 DEF TypeOK
    <3>3. i - 1 \in DOMAIN todo' /\ todo'[i - 1] = f
      BY <2>1, <3>1, <3>2
    <3> QED BY <3>3
  <2> QED BY <2>1, <2>3, <2>4, <2>5, SameJob
<1>4. CASE CopyFails
  <2>1. /\ queue # <<>> /\ pc = "copy" /\ todo # <<>> /\ UNCHANGED parts /\ ~IsRequired(Head(todo))
        /\ todo' = Tail(todo) /\ UNCHANGED <<pc, job, queue, run>>
    BY <1>1, <1>4 DEF CopyFails, Fail, QueueInv
  <2>2. Target' = Target
    BY <2>1 DEF Target
  <2>3. FatBoot /\ parts[Target].age = run /\ \A f \in Wanted(job) : there(f)
    BY <2>1, SameJob DEF FatInv
  <2>4. ASSUME NEW f \in Wanted(job), f \notin parts[Target].files
        PROVE  \E i \in DOMAIN todo' : todo'[i] = f
    <3>1. PICK i \in DOMAIN todo : todo[i] = f
      BY <2>3, <2>4
    <3>2. todo \in Seq(Names) /\ f # Head(todo)
      BY <2>1, WantedRequired DEF TypeOK
    <3>3. i - 1 \in DOMAIN todo' /\ todo'[i - 1] = f
      BY <2>1, <3>1, <3>2
    <3> QED BY <3>3
  <2> QED BY <2>1, <2>2, <2>3, <2>4, SameJob
<1>5. CASE Umount
  <2>1. pc = "copy" /\ todo = <<>> /\ UNCHANGED <<parts, job, queue, run>>
    BY <1>5 DEF Umount, Go
  <2>2. Target' = Target
    BY <2>1 DEF Target
  <2>3. FatBoot /\ parts[Target].age = run /\ \A f \in Wanted(job) : there(f)
    BY <2>1, SameJob DEF FatInv
  <2> QED BY <2>1, <2>2, <2>3, SameJob
<1>6. CASE SetActive
  <2>1. pc = "active" /\ UNCHANGED <<parts, job, queue, run>>
    BY <1>6 DEF SetActive, Go
  <2>2. Target' = Target
    BY <2>1 DEF Target
  <2>3. FatBoot /\ parts[Target].age = run /\ \A f \in Wanted(job) : f \in parts[Target].files
    BY <2>1, SameJob DEF FatInv, AtEnd
  <2> QED BY <2>1, <2>2, <2>3, SameJob
<1>7. CASE PrepStep
  <2>1. pc \in OnPrep /\ UNCHANGED job
    BY <1>7 DEF PrepStep, OnPrep, Convert, ConvertFails, Delete, Resize, Dd, Conf, ConfFails, Go, Fail
  <2> QED BY <2>1, SameJob DEF QueueInv
<1>8. CASE StartRun \/ SkipPartition \/ BeginPartition \/ Finish \/ SetBootDevice \/ Crash
  BY <1>1, <1>8 DEF StartRun, SkipPartition, BeginPartition, Finish, SetBootDevice, Crash, Go
<1>9. CASE Room \/ Extend \/ NoRoom \/ SetType \/ SetTypeFails \/ MkfsFails \/ SetActiveFails
  BY <1>1, <1>9 DEF Room, Extend, NoRoom, SetType, SetTypeFails, MkfsFails, SetActiveFails, Go, Fail
<1> QED BY <1>2, <1>3, <1>4, <1>5, <1>6, <1>7, <1>8, <1>9 DEF ChrpNext, PrepStep
-----------------------------------------------------------------------------
(* Only partitions in front of the target are looked at. *)
LEMMA LowerInFront ==
  ASSUME NEW i \in DOMAIN LowerPrep, Number(Target) \in 1..4
  PROVE  LowerPrep[i] # Number(Target)
<1>1. PICK S : S = {n \in 1..4 : n # Number(Target)}
  OBVIOUS
<1>2. ASSUME NEW n \in 1 .. 4
      PROVE  InFront(n) \in Seq(S)
  <2>1. CASE n < Number(Target) /\ flags[n] = "prep"
    <3>1. n \in S /\ InFront(n) = <<n>>
      BY <1>1, <2>1 DEF InFront, One
    <3> QED BY <3>1
  <2>2. CASE ~(n < Number(Target) /\ flags[n] = "prep")
    BY <2>2, EmptySeq DEF InFront, One
  <2> QED BY <2>1, <2>2
<1>3. InFront(1) \in Seq(S) /\ InFront(2) \in Seq(S) /\ InFront(3) \in Seq(S)
  BY <1>2
<1>4. LowerPrep \in Seq(S)
  BY <1>3 DEF LowerPrep
<1>5. LowerPrep[i] \in S
  BY <1>4
<1> QED BY <1>1, <1>5

(* The partition with another number is another one. *)
LEMMA OtherPart ==
  ASSUME TypeOK, QueueInv, queue # <<>>, NEW n, n # Number(Target)
  PROVE  <<Disk(Target), n>> # Target
<1>1. Target = <<Disk(Target), Number(Target)>>
  BY TargetIs
<1> QED BY <1>1

(* The table holds what sfdisk was told, and once yaboot is written the    *)
(* partition has it and nothing of the firmware's choice lies in front     *)
(* of it.                                                                  *)
LEMMA PrepKept ==
  ASSUME TypeOK, QueueInv, PrepInv, ChrpNext
  PROVE  PrepInv'
<1> SUFFICES ASSUME pc' \in {"convert", "delete", "dd", "conf", "active", "nvram"}, ~FatBoot'
             PROVE  PrepInv'
  BY DEF PrepInv, OnPrep, AtEnd
<1>0. ASSUME queue # <<>>
      PROVE  Target \in DOMAIN parts /\ parts[Target] \in Partition /\ (Target \notin NoPath => Number(Target) \in 1..4)
  BY <1>0, TargetIs
<1>1. CASE BeginPartition
  <2>1. /\ queue # <<>> /\ Target \notin NoPath /\ UNCHANGED <<job, queue, parts>>
        /\ flags' = FlagsOf(parts, Target) /\ pc' = IF FatBoot THEN "room" ELSE "convert"
    BY <1>1 DEF BeginPartition, Go
  <2>2. pc' = "convert"
    BY <2>1
  <2>3. Target' = Target
    BY <2>1 DEF Target
  <2>4. ASSUME NEW n \in 1 .. 4 PROVE Told(n)'
    BY <2>1, <2>3 DEF Told, FlagsOf
  <2>5. Number(Target) \in 1 .. 4
    BY <1>0, <2>1
  <2> QED BY <2>2, <2>3, <2>4, <2>5 DEF PrepInv, AtEnd
<1>2. CASE Convert
  <2>1. /\ queue # <<>> /\ pc = "convert" /\ UNCHANGED <<job, queue, flags, run>> /\ ~FatBoot /\ pc' = "delete"
        /\ Target \notin NoPath
    BY <1>2 DEF Convert, Go, QueueInv, OnPrep
  <2>2. Target' = Target /\ Target \in DOMAIN parts /\ parts[Target] \in Partition
    BY <1>0, <2>1 DEF Target
  <2>3. /\ \A n \in 1 .. 4 \ {Number(Target)} : Told(n)
        /\ Told(Number(Target))
    BY <2>1 DEF PrepInv, OnPrep
  <2>4. parts'[Target].kind = "prep" /\ DOMAIN parts' = DOMAIN parts /\ \A q \in DOMAIN parts \ {Target} : parts'[q] = parts[q]
    <3>1. CASE flags[Number(Target)] = "prep"
      <4>1. Target = <<Disk(Target), Number(Target)>>
        BY <2>1, TargetIs
      <4>2. parts[Target].kind = "prep"
        BY <2>2, <2>3, <3>1, <4>1 DEF Told
      <4> QED BY <1>2, <3>1, <4>2 DEF Convert
    <3>2. CASE flags[Number(Target)] # "prep"
      BY <1>2, <2>2, <3>2 DEF Convert, Change, Partition, TypeOK
    <3> QED BY <3>1, <3>2
  <2>5. ASSUME NEW n \in 1 .. 4 \ {Number(Target)} PROVE Told(n)'
    <3>1. <<Disk(Target), n>> # Target
      BY <2>1, OtherPart
    <3> QED BY <2>1, <2>2, <2>3, <2>4, <3>1 DEF Told
  <2>6. \A i \in DOMAIN lower' : lower'[i] # Number(Target)
    BY <1>0, <1>2, <2>1, LowerInFront DEF Convert
  <2> QED BY <2>1, <2>2, <2>4, <2>5, <2>6 DEF PrepInv, AtEnd
<1>3. CASE Delete
  <2> DEFINE p == <<Disk(Target), Head(lower)>>
  <2>1. /\ queue # <<>> /\ pc = "delete" /\ UNCHANGED <<pc, job, queue, run>> /\ ~FatBoot
        /\ lower # <<>> /\ lower' = Tail(lower) /\ lower \in Seq(1..4)
    BY <1>3 DEF Delete, QueueInv, OnPrep, TypeOK
  <2>2. Target' = Target /\ Target \in DOMAIN parts /\ parts[Target] \in Partition
    BY <1>0, <2>1 DEF Target
  <2>3. /\ \A n \in 1 .. 4 \ {Number(Target)} : Told(n)
        /\ parts[Target].kind = "prep"
        /\ \A i \in DOMAIN lower : lower[i] # Number(Target)
    BY <2>1 DEF PrepInv, OnPrep
  <2>4. Head(lower) # Number(Target) /\ Head(lower) \in 1..4 /\ \A i \in DOMAIN lower' : lower'[i] # Number(Target)
    BY <2>1, <2>3
  <2>5. p # Target
    BY <2>1, <2>4, OtherPart
  <2>6. CASE UNCHANGED <<parts, flags>>
    <3>1. \A n \in 1 .. 4 \ {Number(Target)} : Told(n)'
      BY <2>2, <2>3, <2>6 DEF Told
    <3> QED BY <2>1, <2>2, <2>3, <2>4, <2>6, <3>1 DEF PrepInv, AtEnd
  <2>7. CASE /\ p \in DOMAIN parts
             /\ parts' = [parts EXCEPT ![p].kind = "none", ![p].files = {}]
             /\ flags' = [flags EXCEPT ![Head(lower)] = "none"]
    <3>1. /\ DOMAIN parts' = DOMAIN parts /\ parts'[p].kind = "none"
          /\ \A q \in DOMAIN parts \ {p} : parts'[q] = parts[q]
      BY <2>7 DEF TypeOK, Partition
    <3>2. ASSUME NEW n \in 1 .. 4 \ {Number(Target)} PROVE Told(n)'
      <4>1. CASE n = Head(lower)
        BY <2>2, <2>4, <2>7, <3>1, <4>1 DEF Told, TypeOK
      <4>2. CASE n # Head(lower)
        <5>1. <<Disk(Target), n>> # p
          BY <4>2
        <5> QED BY <2>2, <2>3, <2>7, <3>1, <4>2, <5>1 DEF Told, TypeOK
      <4> QED BY <4>1, <4>2
    <3>3. parts'[Target].kind = "prep"
      BY <2>2, <2>3, <2>5, <3>1
    <3> QED BY <2>1, <2>2, <2>4, <3>2, <3>3 DEF PrepInv, AtEnd
  <2> QED BY <1>3, <2>6, <2>7 DEF Delete
<1>4. CASE Resize
  <2>1. /\ queue # <<>> /\ pc = "delete" /\ UNCHANGED <<job, queue, run, flags>> /\ ~FatBoot /\ pc' = "dd"
    BY <1>4 DEF Resize, Go, QueueInv, OnPrep
  <2>2. Target' = Target /\ Target \in DOMAIN parts /\ parts[Target] \in Partition
    BY <1>0, <2>1 DEF Target
  <2>3. /\ \A n \in 1 .. 4 \ {Number(Target)} : Told(n)
        /\ parts[Target].kind = "prep"
    BY <2>1 DEF PrepInv, OnPrep
  <2>4. /\ DOMAIN parts' = DOMAIN parts /\ parts'[Target].kind = "prep"
        /\ \A q \in DOMAIN parts \ {Target} : parts'[q] = parts[q]
    <3>1. CASE UNCHANGED parts
      BY <2>3, <3>1
    <3>2. ASSUME NEW fit, parts' = [parts EXCEPT ![Target].files = {}, ![Target].fit = fit]
          PROVE  /\ DOMAIN parts' = DOMAIN parts /\ parts'[Target].kind = "prep"
                 /\ \A q \in DOMAIN parts \ {Target} : parts'[q] = parts[q]
      BY <2>2, <2>3, <3>2 DEF Partition, TypeOK
    <3> QED BY <1>4, <3>1, <3>2 DEF Resize
  <2>5. \A n \in 1 .. 4 \ {Number(Target)} : Told(n)'
    BY <2>1, <2>2, <2>3, <2>4, OtherPart DEF Told
  <2> QED BY <2>1, <2>2, <2>4, <2>5 DEF PrepInv, AtEnd
<1>5. CASE Dd
  <2>1. /\ queue # <<>> /\ pc = "dd" /\ UNCHANGED <<job, queue, run, flags>> /\ ~FatBoot /\ pc' = "conf"
    BY <1>5 DEF Dd, Go, QueueInv, OnPrep
  <2>2. Target' = Target /\ Target \in DOMAIN parts /\ parts[Target] \in Partition
    BY <1>0, <2>1 DEF Target
  <2>3. /\ \A n \in 1 .. 4 \ {Number(Target)} : Told(n)
        /\ parts[Target].kind = "prep"
    BY <2>1 DEF PrepInv, OnPrep
  <2>4. PICK whole \in {TRUE, FALSE} :
          /\ parts' = [parts EXCEPT ![Target].age = run,
                         ![Target].files =
                            IF ~whole THEN {}
                            ELSE IF job.iscsi \/ job.builtin THEN {"loader", "conf"}
                            ELSE {"loader"}]
          /\ unnoticed' = (unnoticed \/ ~whole)
    BY <1>5, Zenon DEF Dd
  <2>5. /\ DOMAIN parts' = DOMAIN parts /\ parts'[Target].kind = "prep" /\ parts'[Target].age = run
        /\ \A q \in DOMAIN parts \ {Target} : parts'[q] = parts[q]
        /\ parts'[Target].files = IF ~whole THEN {}
                                  ELSE IF job.iscsi \/ job.builtin THEN {"loader", "conf"}
                                  ELSE {"loader"}
    BY <2>2, <2>3, <2>4 DEF Partition, TypeOK
  <2>6. ~unnoticed' => whole
    BY <2>4, Zenon
  <2>7. ~unnoticed' => /\ "loader" \in parts'[Target].files
                       /\ job'.iscsi \/ job'.builtin => "conf" \in parts'[Target].files
    BY <2>1, <2>5, <2>6
  <2>8. \A n \in 1 .. 4 \ {Number(Target)} : Told(n)'
    BY <2>1, <2>2, <2>3, <2>5, OtherPart DEF Told
  <2>9. pc' # "convert" /\ pc' # "delete" /\ pc' \notin AtEnd
    BY <2>1 DEF AtEnd
  <2>10. (parts[Target].kind = "prep")' /\ (parts[Target].age = run)'
    BY <2>1, <2>2, <2>5
  <2>11. (~unnoticed => /\ "loader" \in parts[Target].files
                        /\ job.iscsi \/ job.builtin => "conf" \in parts[Target].files)'
    BY <2>2, <2>7
  <2>12. (\A n \in 1 .. 4 \ {Number(Target)} : Told(n))'
    BY <2>2, <2>8
  <2>13. (IF pc = "convert" THEN Told(Number(Target)) ELSE parts[Target].kind = "prep")'
    BY <2>9, <2>10
  <2>14. (pc = "delete" => \A i \in DOMAIN lower : lower[i] # Number(Target))'
    BY <2>9
  <2>15. (pc \in {"conf"} \union AtEnd =>
           /\ parts[Target].age = run
           /\ ~unnoticed => /\ "loader" \in parts[Target].files
                            /\ job.iscsi \/ job.builtin => "conf" \in parts[Target].files)'
    BY <2>10, <2>11, Zenon
  <2>16. (pc \in AtEnd => job.iscsi \/ job.builtin \/ etc = run)'
    BY <2>9
  <2> QED BY <2>12, <2>13, <2>14, <2>15, <2>16, Zenon DEF PrepInv
<1>6. CASE Conf
  <2>1. /\ queue # <<>> /\ pc = "conf" /\ UNCHANGED <<job, parts, queue, run, flags, unnoticed>> /\ ~FatBoot /\ pc' = "active"
        /\ job.iscsi \/ job.builtin \/ etc' = run
    BY <1>6 DEF Conf, Go, QueueInv, OnPrep
  <2>2. Target' = Target
    BY <2>1 DEF Target
  <2>3. \A n \in 1 .. 4 \ {Number(Target)} : Told(n)'
    BY <2>1, <2>2 DEF PrepInv, OnPrep, Told
  <2> QED BY <2>1, <2>2, <2>3 DEF PrepInv, AtEnd, OnPrep
<1>7. CASE SetActive
  <2>1. /\ queue # <<>> /\ pc = "active" /\ UNCHANGED <<job, parts, queue, run, flags, etc, unnoticed>> /\ ~FatBoot /\ pc' = "nvram"
    BY <1>7, SameJob DEF SetActive, Go, QueueInv
  <2>2. Target' = Target
    BY <2>1 DEF Target
  <2>3. \A n \in 1 .. 4 \ {Number(Target)} : Told(n)'
    BY <2>1, <2>2 DEF PrepInv, AtEnd, Told
  <2> QED BY <2>1, <2>2, <2>3 DEF PrepInv, AtEnd, OnPrep
<1>8. CASE FatStep
  <2>1. pc \in OnFat /\ UNCHANGED job
    BY <1>8 DEF FatStep, OnFat, Room, Extend, NoRoom, SetType, SetTypeFails, Mkfs, MkfsFails, Copy, CopyFails, Umount, Go, Fail
  <2> QED BY <2>1, SameJob DEF QueueInv
<1>9. CASE StartRun \/ SkipPartition \/ Finish \/ SetBootDevice \/ Crash
  BY <1>9 DEF StartRun, SkipPartition, Finish, SetBootDevice, Crash
<1>10. CASE ConvertFails \/ ConfFails \/ SetActiveFails
  BY <1>10 DEF ConvertFails, ConfFails, SetActiveFails, Fail
<1> QED BY <1>1, <1>2, <1>3, <1>4, <1>5, <1>6, <1>7, <1>8, <1>9, <1>10 DEF ChrpNext, FatStep
-----------------------------------------------------------------------------
(* When the firmware is told, what it is told of is in place ... *)
LEMMA TargetWhole ==
  ASSUME TypeOK, QueueInv, FatInv, PrepInv, pc = "nvram", ~unnoticed
  PROVE  /\ Whole(Target) /\ parts[Target].age = run
         /\ ~(FatBoot \/ job.builtin \/ job.iscsi) => etc = run
<1>1. CASE FatBoot
  <2>1. parts[Target].age = run /\ \A f \in Wanted(job) : f \in parts[Target].files
    BY <1>1 DEF FatInv, AtEnd
  <2>2. Wanted(job) \subseteq parts[Target].files
    BY <2>1
  <2> QED BY <1>1, <2>1, <2>2 DEF Whole
<1>2. CASE ~FatBoot
  <2>1. /\ parts[Target].age = run /\ "loader" \in parts[Target].files
        /\ job.iscsi \/ job.builtin => "conf" \in parts[Target].files
        /\ job.iscsi \/ job.builtin \/ etc = run
    BY <1>2 DEF PrepInv, AtEnd
  <2>2. run \in Nat /\ None \notin Nat
    BY ChrpAssumption DEF TypeOK, Runs, None, ChrpAssumption
  <2> QED BY <1>2, <2>1, <2>2 DEF Whole
<1> QED BY <1>1, <1>2

(* ... and there is nothing else it could be taken for. *)
LEMMA PathMeant ==
  ASSUME TypeOK, QueueInv, PrepInv, pc = "nvram", ~Miscounts
  PROVE  Meant(BootPath) = {Target}
<1>1. queue # <<>> /\ Target \notin NoPath
  BY DEF QueueInv
<1>2. /\ Target \in DOMAIN parts /\ Number(Target) \in 1..4
      /\ Target = <<Disk(Target), Number(Target)>>
  BY <1>1, TargetIs
<1>3. BootPath.part = Target /\ BootPath.form \in {"fat", "full", "disk"}
  BY DEF BootPath
<1>4. CASE BootPath.form # "disk"
  BY <1>3, <1>4 DEF Meant
<1>5. CASE BootPath.form = "disk"
  <2>1. ~FatBoot
    BY <1>5 DEF BootPath
  <2>2. parts[Target].kind = "prep" /\ \A n \in 1 .. 4 \ {Number(Target)} : Told(n)
    BY <2>1 DEF PrepInv, AtEnd
  <2>3. ASSUME NEW p \in DOMAIN parts, Disk(p) = Disk(Target), parts[p].kind = "prep"
        PROVE  p = Target
    <3>1. p \in Nat \X Nat /\ Number(p) \in 1..4
      BY <2>3, ChrpAssumption DEF TypeOK, ChrpAssumption
    <3>2. p = <<Disk(Target), Number(p)>>
      BY <2>3, <3>1 DEF Disk, Number
    <3>3. Number(p) # Number(Target) => flags[Number(p)] = "prep"
      BY <2>2, <2>3, <3>1, <3>2 DEF Told
    <3> QED BY <1>2, <1>5, <3>1, <3>2, <3>3 DEF Miscounts
  <2>4. Meant(BootPath) = {p \in DOMAIN parts : Disk(p) = Disk(Target) /\ parts[p].kind = "prep"}
    BY <1>3, <1>5 DEF Meant
  <2> QED BY <1>2, <2>2, <2>3, <2>4
<1> QED BY <1>4, <1>5

(* What SetBootDevice leaves at the head of boot-device is the path of     *)
(* the partition just done.                                                *)
LEMMA Prepended ==
  ASSUME TypeOK, SetBootDevice, ~unnoticed', job.activate \/ nvram' # nvram
  PROVE  /\ nvram' # <<>> /\ nvram'[1] = BootPath /\ ~unnoticed
         /\ ~miscounted' => ~Miscounts
<1>1. /\ job.activate /\ (miscounted' <=> (miscounted \/ Miscounts))
      /\ nvram' = <<BootPath>> \o Without(nvram, {e \in Entry : StartsWith(e, BootPath)})
      /\ UNCHANGED unnoticed
  BY Zenon DEF SetBootDevice
<1>2. PICK w : w = Without(nvram, {e \in Entry : StartsWith(e, BootPath)})
  OBVIOUS
<1>3. w \in Seq(Entry)
  BY <1>2, WithoutTyped DEF TypeOK
<1>4. (<<BootPath>> \o w)[1] = BootPath /\ <<BootPath>> \o w # <<>>
  <2>1. PICK b : b = BootPath
    OBVIOUS
  <2>2. w \in Seq(Entry \union {b}) /\ <<b>> \in Seq(Entry \union {b})
    BY <1>3
  <2>3. (<<b>> \o w)[1] = b /\ <<b>> \o w # <<>>
    BY <2>2
  <2> QED BY <2>1, <2>3
<1>5. ~miscounted' => ~Miscounts
  BY <1>1, Zenon
<1>6. ~unnoticed
  BY <1>1, Zenon
<1> QED BY <1>1, <1>2, <1>4, <1>5, <1>6

(* What an entry means, and whether a partition is whole, depends on these. *)
LEMMA SameMeaning ==
  ASSUME UNCHANGED <<job, parts, etc>>, NEW e, NEW p
  PROVE  Meant(e)' = Meant(e) /\ (Whole(p)' <=> Whole(p))
<1>1. (FatBoot' <=> FatBoot) /\ Wanted(job)' = Wanted(job)
  BY SameJob
<1> QED BY <1>1 DEF Meant, Whole

(* Whether what is wanted is installed depends on the partitions, boot-    *)
(* device and /etc.                                                        *)
LEMMA SameInstalled ==
  ASSUME UNCHANGED <<job, parts, nvram, etc, run>>
  PROVE  Installed' <=> Installed
<1>1. PICK e, p : e = nvram[1] /\ p = job.boot
  OBVIOUS
<1>2. Meant(e)' = Meant(e) /\ (Whole(p)' <=> Whole(p)) /\ (FatBoot' <=> FatBoot)
  BY SameMeaning, SameJob
<1>3. Meant(nvram[1])' = Meant(nvram[1]) /\ (Whole(job.boot)' <=> Whole(job.boot))
  BY <1>1, <1>2
<1> QED BY <1>2, <1>3 DEF Installed

(* The path written to boot-device means the partition just done, which    *)
(* is whole and of this run.                                               *)
LEMMA ToldRight ==
  ASSUME TypeOK, QueueInv, FatInv, PrepInv, SetBootDevice,
         ~unnoticed', ~miscounted' \/ FatBoot, job.activate \/ nvram' # nvram, NEW t, t = Target
  PROVE  /\ nvram' # <<>> /\ Meant(nvram[1])' = {t} /\ Whole(t)'
         /\ parts'[t].age = run'
         /\ (~(FatBoot \/ job.builtin \/ job.iscsi) => etc = run)'
<1>1. pc = "nvram" /\ UNCHANGED <<job, parts, etc, run>>
  BY DEF SetBootDevice
<1>2. nvram' # <<>> /\ nvram'[1] = BootPath /\ ~unnoticed /\ ~Miscounts
  <2>1. FatBoot => ~Miscounts
    BY DEF Miscounts, BootPath
  <2> QED BY <2>1, Prepended
<1>3. Meant(BootPath) = {Target}
  BY <1>1, <1>2, PathMeant
<1>4. /\ Whole(Target) /\ parts[Target].age = run
      /\ ~(FatBoot \/ job.builtin \/ job.iscsi) => etc = run
  BY <1>1, <1>2, TargetWhole
<1>5. PICK e : e = BootPath
  OBVIOUS
<1>6. Meant(e)' = Meant(e) /\ (Whole(t)' <=> Whole(t)) /\ (FatBoot' <=> FatBoot)
  BY <1>1, SameMeaning, SameJob
<1>7. nvram'[1] = e
  BY <1>2, <1>5
<1>8. Meant(nvram[1])' = {t}
  BY <1>3, <1>5, <1>6, <1>7
<1> QED BY <1>1, <1>2, <1>4, <1>6, <1>8

(* A run that has come to its end without an unnoticed failure has         *)
(* installed what it was asked for.                                        *)
LEMMA DoneKept ==
  ASSUME TypeOK, QueueInv, FatInv, PrepInv, DoneInv, ChrpNext
  PROVE  DoneInv'
<1>1. CASE StartRun
  <2>1. run' > 0 /\ (queue' # <<>> \/ pc' = "idle") /\ status' \in {"error", "running"}
    <3>1. job.boot \in DOMAIN parts => job.clones \o <<job.boot>> # <<>>
      BY DEF TypeOK
    <3> QED BY <1>1, <3>1, ChrpAssumption DEF StartRun, TypeOK, Runs, ChrpAssumption
  <2> QED BY <2>1 DEF DoneInv
<1>2. CASE SkipPartition
  <2>1. queue # <<>> /\ pc = "next" /\ Target \in NoPath /\ queue' = Tail(queue) /\ UNCHANGED <<job, status>>
    BY <1>2 DEF SkipPartition
  <2>2. status = "running" /\ job.boot \notin NoPath
    BY <2>1 DEF QueueInv
  <2>3. queue' # <<>>
    BY <2>1, <2>2, TailKept
  <2> QED BY <2>1, <2>2, <2>3 DEF DoneInv
<1>3. CASE BeginPartition
  <2>1. pc' # "next" /\ status' # "done"
    BY <1>3 DEF BeginPartition, Go, QueueInv
  <2> QED BY <2>1 DEF DoneInv
<1>4. CASE Finish
  <2>1. (job.activate /\ ~unnoticed /\ ~miscounted => Installed)
    BY <1>4 DEF Finish, DoneInv
  <2>2. UNCHANGED <<job, parts, nvram, etc, run, unnoticed, miscounted>>
    BY <1>4 DEF Finish
  <2>3. Installed => Installed'
    BY <2>2, SameInstalled
  <2> QED BY <2>1, <2>2, <2>3, Zenon DEF DoneInv
<1>5. CASE Keeps
  <2>1. pc' # "next" /\ status' # "done"
    BY <1>5 DEF Keeps, OnFat, OnPrep, AtEnd, QueueInv
  <2> QED BY <2>1 DEF DoneInv
<1>6. CASE SetBootDevice
  <2> SUFFICES ASSUME queue' = <<>>, job'.activate, ~unnoticed', ~miscounted'
               PROVE  Installed'
    <3>1. status' # "done"
      BY <1>6 DEF SetBootDevice, QueueInv
    <3> QED BY <3>1, Zenon DEF DoneInv
  <2>1. queue # <<>> /\ queue' = Tail(queue) /\ UNCHANGED job
    BY <1>6 DEF SetBootDevice, QueueInv
  <2>2. PICK t : t = Target
    OBVIOUS
  <2>3. t = job.boot
    BY <2>1, <2>2, TailKept
  <2>4. /\ nvram' # <<>> /\ Meant(nvram[1])' = {t} /\ Whole(t)'
        /\ parts'[t].age = run'
        /\ (~(FatBoot \/ job.builtin \/ job.iscsi) => etc = run)'
    BY <1>6, <2>1, <2>2, ToldRight
  <2> QED BY <2>1, <2>3, <2>4 DEF Installed
<1> QED BY <1>1, <1>2, <1>3, <1>4, <1>5, <1>6, StepKeeps DEF ChrpNext, FatStep, PrepStep
-----------------------------------------------------------------------------
(* A step on a FAT partition touches no other. *)
LEMMA FatConfined ==
  ASSUME TypeOK, QueueInv, FatBoot, FatStep \/ SetActive \/ SetActiveFails \/ Crash
  PROVE  \/ UNCHANGED parts
         \/ /\ queue # <<>> /\ Target \in DOMAIN parts /\ DOMAIN parts' = DOMAIN parts
            /\ \A q \in DOMAIN parts \ {Target} : parts'[q] = parts[q]
            /\ parts'[Target].kind \in {parts[Target].kind, "fat16"}
<1>1. CASE UNCHANGED parts
  BY <1>1
<1>2. CASE \/ \E S : Change("files", S)
           \/ Change("kind", "fat16")
           \/ parts' = [parts EXCEPT ![Target].fit = "fits", ![Target].kind = "fat16"]
           \/ parts' = [parts EXCEPT ![Target].files = {}, ![Target].age = run]
  <2>1. CASE queue # <<>>
    <3>1. Target \in DOMAIN parts /\ parts[Target] \in Partition /\ parts \in [DOMAIN parts -> Partition]
      BY <2>1, TargetIs DEF TypeOK
    <3> QED BY <1>2, <2>1, <3>1 DEF Change, Partition
  <2>2. CASE queue = <<>>
    <3>1. pc \in {"idle", "next"}
      BY <2>2 DEF QueueInv
    <3> QED BY <3>1 DEF FatStep, Room, Extend, NoRoom, SetType, SetTypeFails, Mkfs, MkfsFails, Copy, CopyFails, Umount, SetActive, SetActiveFails, Crash
  <2> QED BY <2>1, <2>2
<1>3. CASE Crash
  BY <1>1, <1>2, <1>3 DEF Crash
<1>4. CASE FatStep \/ SetActive \/ SetActiveFails
  BY <1>1, <1>2, <1>4 DEF FatStep, Room, Extend, NoRoom, SetType, SetTypeFails, Mkfs, MkfsFails, Copy, CopyFails, Umount, SetActive, SetActiveFails
<1> QED BY <1>3, <1>4

(* The partition named first is not the one that is worked on. *)
LEMMA Elsewhere ==
  ASSUME TypeOK, QueueInv, Cloned, queue # <<>>, NEW p, Untouched(p)
  PROVE  p # Target
<1>1. queue \in Seq(DOMAIN parts)
  BY DEF TypeOK
<1>2. /\ Target = queue[1] /\ 1 \in DOMAIN queue /\ Len(queue) \in DOMAIN queue
      /\ queue[Len(queue)] = job.boot
  BY <1>1 DEF Target, QueueInv
<1>3. CASE p \notin Left
  BY <1>2, <1>3 DEF Left
<1>4. CASE p = job.boot /\ \E i \in 1..Len(queue) - 1 : queue[i] \notin NoPath
  <2>1. Len(queue) # 1
    <3>1. PICK n \in Nat : n = Len(queue)
      BY <1>1
    <3>2. PICK i \in 1..n - 1 : queue[i] \notin NoPath
      BY <1>4, <3>1
    <3>3. i \in Int /\ 1 <= i /\ i <= n - 1
      BY <3>2
    <3> QED BY <3>1, <3>3
  <2> QED BY <1>2, <1>4, <2>1 DEF QueueInv
<1> QED BY <1>3, <1>4 DEF Untouched

(* Of a cloned installation one partition is whole and can be reached at   *)
(* every moment: an untouched one, or one this run has finished and told   *)
(* the firmware about.                                                     *)
LEMMA AnchorKept ==
  ASSUME TypeOK, QueueInv, FatInv, PrepInv, AnchorInv, ChrpNext
  PROVE  AnchorInv'
<1> SUFFICES ASSUME healthy', Cloned', job'.activate, ~unnoticed'
             PROVE  Anchored'
  BY Zenon DEF AnchorInv
<1>1. CASE StartRun
  <2>1. UNCHANGED <<job, parts, etc, nvram>>
    BY <1>1 DEF StartRun
  <2>2. job.boot \in DOMAIN parts /\ nvram # <<>> /\ Meant(nvram[1]) = {job.boot} /\ Whole(job.boot)
    BY <1>1, Zenon DEF StartRun
  <2>3. PICK e, p : e = nvram[1] /\ p = job.boot
    OBVIOUS
  <2>4. Meant(e)' = Meant(e) /\ (Whole(p)' <=> Whole(p))
    BY <2>1, SameMeaning
  <2>5. Untouched(p)'
    <3>1. CASE queue' = <<>>
      BY <3>1 DEF Untouched, Left
    <3>2. CASE queue' = job.clones \o <<job.boot>>
      <4>1. job.clones \in Seq(DOMAIN parts) /\ <<job.boot>> \in Seq(DOMAIN parts)
        BY <2>2 DEF TypeOK
      <4>2. PICK i \in DOMAIN job.clones : job.clones[i] \notin NoPath
        BY <2>1, SameJob DEF Cloned
      <4>3. i \in 1..Len(queue') - 1 /\ queue'[i] = job.clones[i]
        BY <3>2, <4>1
      <4> QED BY <2>1, <2>3, <4>2, <4>3 DEF Untouched
    <3> QED BY <1>1, <3>1, <3>2 DEF StartRun
  <2>6. p \in DOMAIN parts' /\ nvram' # <<>> /\ Meant(nvram[1])' = {p}
    BY <2>1, <2>2, <2>3, <2>4
  <2> QED BY <2>2, <2>3, <2>4, <2>5, <2>6 DEF Anchored
<1>2. CASE ~StartRun /\ ~SetBootDevice
  <2>0. UNCHANGED <<job, nvram, healthy>> /\ (unnoticed => unnoticed')
    <3>1. CASE SkipPartition \/ BeginPartition \/ Finish
      <4>1. UNCHANGED <<job, nvram, healthy, unnoticed>>
        BY <3>1 DEF SkipPartition, BeginPartition, Finish, Go
      <4> QED BY <4>1, Zenon
    <3>2. CASE FatStep \/ PrepStep \/ SetActive \/ SetActiveFails \/ Crash
      BY <3>2, StepKeeps DEF Keeps
    <3> QED BY <1>2, <3>1, <3>2 DEF ChrpNext, FatStep, PrepStep
  <2>1. healthy /\ Cloned /\ job.activate /\ ~unnoticed /\ FatBoot /\ FatBoot'
    BY <2>0, SameJob, Zenon DEF Cloned
  <2>2. nvram # <<>> /\ \E p \in DOMAIN parts : Meant(nvram[1]) = {p} /\ Whole(p) /\ Untouched(p)
    BY <2>1, Zenon DEF AnchorInv, Anchored
  <2>3. PICK p \in DOMAIN parts : Meant(nvram[1]) = {p} /\ Whole(p) /\ Untouched(p)
    BY <2>2
  <2>4. \/ UNCHANGED parts
        \/ /\ queue # <<>> /\ Target \in DOMAIN parts /\ DOMAIN parts' = DOMAIN parts
           /\ \A q \in DOMAIN parts \ {Target} : parts'[q] = parts[q]
           /\ parts'[Target].kind \in {parts[Target].kind, "fat16"}
    <3>1. ~PrepStep
      BY <2>1 DEF PrepStep, OnPrep, Convert, ConvertFails, Delete, Resize, Dd, Conf, ConfFails, QueueInv
    <3>2. CASE SkipPartition \/ BeginPartition \/ Finish
      BY <3>2 DEF SkipPartition, BeginPartition, Finish
    <3> QED BY <1>2, <2>1, <3>1, <3>2, FatConfined DEF ChrpNext, FatStep, PrepStep
  <2>5. DOMAIN parts' = DOMAIN parts /\ (p # Target \/ UNCHANGED parts)
    BY <2>1, <2>3, <2>4, Elsewhere
  <2>6. Whole(p)'
    <3>1. Wanted(job)' = Wanted(job)
      BY <2>0, SameJob
    <3>2. parts'[p] = parts[p]
      BY <2>3, <2>4, <2>5
    <3> QED BY <2>1, <2>3, <3>1, <3>2 DEF Whole
  <2>7. Meant(nvram[1])' = {p}
    <3>1. CASE UNCHANGED parts
      BY <2>0, <2>3, <3>1 DEF Meant
    <3>2. CASE nvram[1].form # "disk"
      BY <2>0, <2>3, <3>2 DEF Meant
    <3>3. CASE ~UNCHANGED parts /\ nvram[1].form = "disk"
      <4>1. {q \in DOMAIN parts : Disk(q) = Disk(nvram[1].part) /\ parts[q].kind = "prep"} = {p}
        BY <2>3, <3>3 DEF Meant
      <4>2. ~(Disk(Target) = Disk(nvram[1].part) /\ parts'[Target].kind = "prep") /\ p # Target /\ DOMAIN parts' = DOMAIN parts
        BY <2>4, <2>5, <3>3, <4>1
      <4>3. {q \in DOMAIN parts' : Disk(q) = Disk(nvram[1].part) /\ parts'[q].kind = "prep"} = {p}
        BY <2>4, <3>3, <4>1, <4>2
      <4> QED BY <2>0, <3>3, <4>3 DEF Meant
    <3> QED BY <3>1, <3>2, <3>3
  <2>8. Untouched(p)'
    <3>1. CASE queue' = <<>>
      BY <3>1 DEF Untouched, Left
    <3>2. CASE UNCHANGED queue
      BY <2>0, <2>3, <3>2 DEF Untouched, Left
    <3>3. CASE SkipPartition
      <4>1. queue # <<>> /\ Target \in NoPath /\ queue' = Tail(queue) /\ Target = queue[1]
        BY <3>3 DEF SkipPartition, Target, TypeOK
      <4>2. /\ DOMAIN queue' = 1 .. Len(queue) - 1 /\ DOMAIN queue = 1 .. Len(queue)
            /\ Len(queue) \in Nat \ {0} /\ Len(queue') = Len(queue) - 1
            /\ \A i \in DOMAIN queue' : queue'[i] = queue[i + 1]
        BY <2>0, <4>1, TailKept DEF TypeOK
      <4>3. CASE p \notin Left
        BY <4>2, <4>3 DEF Untouched, Left
      <4>4. CASE p = job.boot /\ \E i \in 1..Len(queue) - 1 : queue[i] \notin NoPath
        <5>1. PICK i \in 1..Len(queue) - 1 : queue[i] \notin NoPath
          BY <4>4
        <5>2. i - 1 \in 1..Len(queue') - 1 /\ queue'[i - 1] = queue[i]
          BY <4>1, <4>2, <5>1
        <5> QED BY <2>0, <4>4, <5>1, <5>2 DEF Untouched
      <4> QED BY <2>3, <4>3, <4>4 DEF Untouched
    <3>4. CASE BeginPartition \/ Finish
      BY <3>2, <3>4 DEF BeginPartition, Finish, Go
    <3>5. CASE FatStep \/ PrepStep \/ SetActive \/ SetActiveFails \/ Crash
      BY <3>1, <3>2, <3>5, StepKeeps DEF Keeps
    <3> QED BY <1>2, <3>3, <3>4, <3>5 DEF ChrpNext, FatStep, PrepStep
  <2>9. p \in DOMAIN parts'
    BY <2>3, <2>5
  <2> QED BY <2>0, <2>2, <2>6, <2>7, <2>8, <2>9 DEF Anchored
<1>3. CASE SetBootDevice
  <2>1. /\ queue # <<>> /\ queue' = Tail(queue) /\ UNCHANGED <<job, parts>>
    BY <1>3 DEF SetBootDevice, QueueInv
  <2>2. FatBoot /\ Cloned /\ job.activate
    BY <2>1, SameJob DEF Cloned
  <2>3. PICK t : t = Target
    OBVIOUS
  <2>4. nvram' # <<>> /\ Meant(nvram[1])' = {t} /\ Whole(t)'
    BY <1>3, <2>2, <2>3, ToldRight
  <2>5. t \in DOMAIN parts'
    BY <2>1, <2>3, TargetIs
  <2>6. t \notin Left'
    <3>1. Target = queue[1] /\ 1 \in DOMAIN queue
      BY <2>1 DEF Target, TypeOK
    <3>2. ASSUME NEW i \in DOMAIN queue' PROVE queue'[i] # Target
      BY <2>1, <2>2, <3>1, TailKept DEF QueueInv
    <3> QED BY <2>3, <3>2 DEF Left
  <2> QED BY <2>4, <2>5, <2>6 DEF Anchored, Untouched
<1> QED BY <1>1, <1>2, <1>3
-----------------------------------------------------------------------------
(* What holds the machine up depends on the partitions, boot-device and    *)
(* the list of those to be done.                                           *)
LEMMA SameFront ==
  ASSUME UNCHANGED <<job, parts, etc, nvram, queue>>
  PROVE  Anchored' <=> Anchored
<1>1. PICK e : e = nvram[1]
  OBVIOUS
<1>2. \A p : Meant(e)' = Meant(e) /\ (Whole(p)' <=> Whole(p)) /\ (Untouched(p)' <=> Untouched(p))
  BY SameMeaning DEF Untouched, Left
<1>3. Meant(nvram[1])' = Meant(nvram[1])
  BY <1>1, <1>2
<1>4. \A p : (Meant(nvram[1])' = {p} /\ Whole(p)' /\ Untouched(p)')
               <=> (Meant(nvram[1]) = {p} /\ Whole(p) /\ Untouched(p))
  BY <1>2, <1>3
<1> QED BY <1>4, Zenon DEF Anchored

(* Nothing changes when the others work. *)
LEMMA Stutters ==
  ASSUME IInv, UNCHANGED chrpVars
  PROVE  IInv'
<1>1. UNCHANGED <<pc, job, parts, etc, nvram, queue, flags, todo, lower, status, unnoticed, miscounted, healthy, run>>
  BY DEF chrpVars
<1>2. TypeOK'
  BY <1>1 DEF IInv, TypeOK
<1>3. (FatBoot' <=> FatBoot) /\ (Cloned' <=> Cloned) /\ Wanted(job)' = Wanted(job) /\ Target' = Target
  BY <1>1, SameJob DEF Target
<1>4. QueueInv'
  BY <1>1, <1>3 DEF IInv, QueueInv
<1>5. FatInv'
  BY <1>1, <1>3 DEF IInv, FatInv
<1>6. PrepInv'
  BY <1>1, <1>3 DEF IInv, PrepInv, Told
<1>7. DoneInv'
  BY <1>1, SameInstalled DEF IInv, DoneInv
<1>8. AnchorInv'
  BY <1>1, <1>3, SameFront, Zenon DEF IInv, AnchorInv
<1> QED BY <1>2, <1>4, <1>5, <1>6, <1>7, <1>8 DEF IInv

(* The invariant is kept by every step of running_on_chrp, *)
LEMMA InvKept ==
  ASSUME IInv, ChrpNext
  PROVE  IInv'
  BY TypeKept, QueueKept, FatKept, PrepKept, DoneKept, AnchorKept DEF IInv

(* holds of a machine before lilo runs for the first time, *)
LEMMA InvStarts ==
  ASSUME NEW m \in Machines, ChrpInit(m)
  PROVE  IInv
<1>1. /\ pc = "idle" /\ job = JobOf(m) /\ parts = m.parts /\ nvram = m.nvram /\ queue = <<>> /\ todo = <<>> /\ lower = <<>>
      /\ flags = [n \in 1..4 |-> "none"] /\ status = "done" /\ run = 0 /\ ~healthy
  BY DEF ChrpInit
<1>2. /\ JobOf(m) \in Job /\ m.parts \in [DOMAIN m.parts -> Partition] /\ m.nvram \in Seq(Entry)
      /\ \A i \in DOMAIN JobOf(m).clones : JobOf(m).clones[i] \in DOMAIN m.parts
      /\ \A p \in DOMAIN m.parts : m.parts[p].kind = "prep" => Number(p) \in 1..4
      /\ 0 \in Runs /\ DOMAIN m.parts \subseteq Parts
  BY ChrpAssumption DEF ChrpAssumption, Parts, Runs
<1>3. job.clones \in Seq(DOMAIN parts)
  <2>1. job.clones \in Seq(Parts)
    BY <1>1, <1>2 DEF Job
  <2> QED BY <1>1, <1>2, <2>1
<1>4. TypeOK
  BY <1>1, <1>2, <1>3, EmptySeq DEF TypeOK, Kinds
<1> QED BY <1>1, <1>4 DEF IInv, QueueInv, FatInv, PrepInv, DoneInv, AnchorInv, OnFat, OnPrep, AtEnd

(* On the other machines nothing is asked of this installer. *)
LiloInv ==
  IF machine.type = "chrp" THEN IInv ELSE ~healthy /\ status = "never"

(* is that of the machine it started with, *)
LEMMA MachineStays ==
  ASSUME InstallNext
  PROVE  UNCHANGED machine
<1>1. GoTo("clean") \/ GoTo("copy") \/ GoTo("activate") \/ GoTo("write") \/ Stop \/ NextBoot => UNCHANGED machine
  BY DEF GoTo, Stop, NextBoot
<1>2. Begin \/ Mount \/ MountFails \/ Clean => UNCHANGED machine
  BY <1>1 DEF Begin, Mount, MountFails, Clean
<1>3. CopyFiles => UNCHANGED machine
  BY <1>1 DEF CopyFiles
<1>4. Activate \/ CheckPrep \/ WritePrep \/ MakeImage => UNCHANGED machine
  BY <1>1 DEF Activate, CheckPrep, WritePrep, MakeImage
<1>5. WriteSlot \/ SlotFails \/ WriteFile => UNCHANGED machine
  BY <1>1 DEF WriteSlot, SlotFails, WriteFile
<1>6. WriteBlock \/ FlagFails \/ WriteRefused => UNCHANGED machine
  BY <1>1 DEF WriteBlock, FlagFails, WriteRefused
<1>7. CopyYaboot \/ WriteKboot \/ DeviceUnknown \/ Cut => UNCHANGED machine
  BY <1>1 DEF CopyYaboot, WriteKboot, DeviceUnknown, Cut
<1> QED BY <1>2, <1>3, <1>4, <1>5, <1>6, <1>7 DEF InstallNext

LEMMA OtherType == \A m \in Others : m.type # "chrp"
<1>1. "chrp" \notin DOMAIN FirstStep
  BY DEF FirstStep
<1> QED BY <1>1, OthersAssumption DEF OthersAssumption

(* and so holds of every behaviour. *)
LEMMA LiloInvHolds == Spec => []LiloInv
<1>1. Init => LiloInv
  <2>1. ASSUME NEW m \in Machines, OnChrp(m) PROVE LiloInv
    <3>1. machine.type = "chrp"
      BY <2>1, ChrpAssumption DEF OnChrp, ChrpAssumption
    <3> QED BY <2>1, <3>1, InvStarts DEF OnChrp, LiloInv
  <2>2. ASSUME OnOthers PROVE LiloInv
    <3>1. machine.type # "chrp"
      BY <2>2, OtherType DEF OnOthers, InstallInit
    <3> QED BY <2>2, <3>1 DEF OnOthers, LiloInv
  <2> QED BY <2>1, <2>2 DEF Init
<1>2. LiloInv /\ [Next]_vars => LiloInv'
  <2> SUFFICES ASSUME LiloInv, [Next]_vars PROVE LiloInv'
    OBVIOUS
  <2>1. UNCHANGED machine
    BY MachineStays DEF Next, vars, installVars
  <2>2. CASE machine.type = "chrp"
    <3>1. IInv'
      BY <2>2, InvKept, Stutters DEF LiloInv, Next, vars
    <3> QED BY <2>1, <2>2, <3>1 DEF LiloInv
  <2>3. CASE machine.type # "chrp"
    <3>1. UNCHANGED <<healthy, status>>
      BY <2>3 DEF Next, vars, chrpVars
    <3> QED BY <2>1, <2>3, <3>1 DEF LiloInv
  <2> QED BY <2>2, <2>3
<1> QED BY <1>1, <1>2, PTL DEF Spec

-----------------------------------------------------------------------------
(* Wherever a run of lilo with clones stops, by a command that fails or    *)
(* the machine going down, the first entry of boot-device with a loader    *)
(* leads to a whole partition.                                             *)
THEOREM ClonesSurvive == Spec => []CloneSurvives
<1>1. LiloInv => CloneSurvives
  <2> SUFFICES ASSUME LiloInv, healthy, Cloned, job.activate, ~unnoticed
               PROVE  \E i \in DOMAIN nvram : /\ Boots(nvram[i])
                                             /\ \A j \in 1..i - 1 : ~HasLoader(nvram[j])
    BY Zenon DEF CloneSurvives
  <2>1. IInv
    BY DEF LiloInv
  <2>2. Anchored /\ nvram \in Seq(Entry)
    BY <2>1 DEF IInv, AnchorInv, TypeOK
  <2>3. Boots(nvram[1])
    BY <2>2 DEF Anchored, Boots
  <2>4. 1 \in DOMAIN nvram
    BY <2>2 DEF Anchored
  <2> QED BY <2>3, <2>4
<1> QED BY <1>1, LiloInvHolds, PTL

(* A run that ends well has put the loader, its configuration and the      *)
(* default's files of this run where the firmware looks first.             *)
THEOREM EndsInstalled == Spec => []SuccessInstalls
<1>1. LiloInv => SuccessInstalls
  <2> SUFFICES ASSUME LiloInv, status = "done", run > 0, job.activate, ~unnoticed, ~miscounted
               PROVE  /\ nvram # <<>> /\ Meant(nvram[1]) = {job.boot} /\ Boots(nvram[1])
                      /\ parts[job.boot].age = run
                      /\ ~(FatBoot \/ job.builtin \/ job.iscsi) => etc = run
    BY Zenon DEF SuccessInstalls
  <2>1. IInv
    BY DEF LiloInv
  <2>2. Installed
    BY <2>1 DEF IInv, DoneInv
  <2> QED BY <2>2 DEF Installed, Boots
<1> QED BY <1>1, LiloInvHolds, PTL

(* boot-device never names what is not in place. *)
THEOREM DeviceLast == Spec => BootDeviceLast
<1>1. LiloInv /\ [Next]_vars => [nvram' # nvram /\ ~unnoticed' /\ ~miscounted' => FirstBoots']_chrpVars
  <2> SUFFICES ASSUME LiloInv, Next, nvram' # nvram, ~unnoticed', ~miscounted'
               PROVE  FirstBoots'
    BY DEF vars
  <2>1. IInv /\ ChrpNext
    BY DEF Next, LiloInv, chrpVars
  <2>2. SetBootDevice
    <3>1. CASE FatStep \/ PrepStep \/ SetActive \/ SetActiveFails \/ Crash
      BY <2>1, <3>1, StepKeeps DEF IInv, Keeps
    <3>2. CASE StartRun \/ SkipPartition \/ BeginPartition \/ Finish
      BY <3>2 DEF StartRun, SkipPartition, BeginPartition, Finish
    <3> QED BY <2>1, <3>1, <3>2 DEF ChrpNext, FatStep, PrepStep
  <2>3. PICK t : t = Target
    OBVIOUS
  <2>4. nvram' # <<>> /\ Meant(nvram[1])' = {t} /\ Whole(t)'
    BY <2>1, <2>2, <2>3, ToldRight DEF IInv
  <2> QED BY <2>4 DEF FirstBoots, Boots
<1> QED BY <1>1, LiloInvHolds, PTL DEF Spec, BootDeviceLast

-----------------------------------------------------------------------------
(***************************************************************************)
(* Whatever the lines, what is read of them is a record of this shape.     *)
(***************************************************************************)
IsList(s) == \E T : s \in Seq(T)

SectionFields == {"file", "other", "optional", "copy", "label", "root", "append", "initrd"}

OneSystem(s) == DOMAIN s = SectionFields /\ "" \in {s.file, s.other}

Shaped(c) ==
  /\ DOMAIN c = DOMAIN NoLines /\ IsList(c.boot) /\ IsList(c.sections)
  /\ \A i \in DOMAIN c.sections : OneSystem(c.sections[i])

(* A function defined on the numbers up to m from its value before. *)
LEMMA ReadingIs ==
  ASSUME NEW place, NEW lines, Len(lines) \in Nat, NEW n \in 0..Len(lines)
  PROVE  Reading(place, lines)[n] =
           IF n = 0 THEN NoLines ELSE ReadLine(place, Reading(place, lines)[n - 1], lines[n])
<1> DEFINE R(u, i) == IF i = 0 THEN NoLines ELSE ReadLine(place, u[i - 1], lines[i])
           Good(m) == \E u : u = [i \in 0..m |-> R(u, i)]
           Bad == {m \in 0..Len(lines) : ~Good(m)}
<1>2. Bad = {}
  <2> SUFFICES ASSUME Bad # {} PROVE FALSE
    OBVIOUS
  <2>1. Bad \subseteq Nat
    OBVIOUS
  <2>2. PICK m \in Bad : \A k \in Bad : m <= k
    <3> HIDE DEF Bad
    <3> QED BY <2>1, Lowest
  <2>3. CASE m = 0
    <3> DEFINE u == [i \in 0..0 |-> NoLines]
    <3>1. u = [i \in 0..0 |-> R(u, i)]
      OBVIOUS
    <3> QED BY <2>2, <2>3, <3>1
  <2>4. CASE m # 0
    <3>1. m - 1 \in 0..Len(lines) /\ m \in Nat /\ m - 1 \notin Bad
      <4>1. m \in Nat /\ m <= Len(lines)
        BY <2>2
      <4>2. m - 1 \in 0..Len(lines) /\ ~(m <= m - 1)
        BY <2>4, <4>1
      <4> HIDE DEF Bad
      <4> QED BY <2>2, <4>1, <4>2
    <3>2. PICK u : u = [i \in 0..m-1 |-> R(u, i)]
      BY <3>1
    <3> DEFINE w == [i \in 0..m |-> IF i = m THEN R(u, m) ELSE u[i]]
    <3>3. ASSUME NEW i \in 0..m PROVE w[i] = R(w, i)
      <4>1. CASE i = m
        <5>1. w[m - 1] = u[m - 1]
          BY <3>1, <2>4
        <5> QED BY <4>1, <5>1, <2>4
      <4>2. CASE i # m
        <5>1. i \in 0..m-1 /\ u[i] = R(u, i) /\ w[i] = u[i]
          BY <3>1, <3>2, <4>2
        <5>2. i # 0 => w[i - 1] = u[i - 1]
          BY <3>1, <4>2
        <5> QED BY <5>1, <5>2
      <4> QED BY <4>1, <4>2
    <3>4. w = [i \in 0..m |-> R(w, i)]
      <4> HIDE DEF R
      <4> QED BY <3>3
    <3> QED BY <2>2, <3>4
  <2> QED BY <2>3, <2>4
<1>3. Good(Len(lines))
  BY <1>2
<1>4. Reading(place, lines) = CHOOSE u : u = [i \in 0..Len(lines) |-> R(u, i)]
  BY DEF Reading
<1>5. Reading(place, lines) = [i \in 0..Len(lines) |-> R(Reading(place, lines), i)]
  <2> HIDE DEF R
  <2> QED BY <1>3, <1>4
<1> QED BY <1>5

LEMMA Listing ==
  ASSUME NEW t, IsList(t)
  PROVE  Len(t) \in Nat /\ DOMAIN t = 1..Len(t)
<1>1. PICK T : t \in Seq(T)
  BY DEF IsList
<1> QED BY <1>1

(* A list stays one. *)
LEMMA Lists ==
  ASSUME NEW s, IsList(s), NEW x
  PROVE  IsList(Append(s, x)) /\ \A i : IsList([s EXCEPT ![i] = x])
<1>1. PICK T : s \in Seq(T)
  BY DEF IsList
<1>2. s \in Seq(T \union {x})
  BY <1>1
<1>3. Append(s, x) \in Seq(T \union {x})
  BY <1>2
<1>4. ASSUME NEW i PROVE [s EXCEPT ![i] = x] \in Seq(T \union {x})
  <2>1. s \in [1..Len(s) -> T \union {x}] /\ Len(s) \in Nat
    BY <1>2
  <2>2. [s EXCEPT ![i] = x] \in [1..Len(s) -> T \union {x}]
    BY <2>1
  <2> QED BY <2>1, <2>2, SeqDef
<1> QED BY <1>3, <1>4 DEF IsList

(* A line leaves the shape. *)
LEMMA LineShaped ==
  ASSUME NEW place, NEW c, Shaped(c), NEW l
  PROVE  Shaped(ReadLine(place, c, l))
<1> DEFINE Fields == DOMAIN NoLines
<1>1. {"ok", "boot", "clone", "activate", "force_fat", "no_os_chooser", "default", "root", "append", "initrd", "sections"} = Fields
  BY DEF NoLines
<1>2. /\ IsList(c.sections) /\ IsList(c.boot) /\ DOMAIN c = Fields
      /\ \A i \in DOMAIN c.sections : OneSystem(c.sections[i])
  BY DEF Shaped
<1>4. ASSUME NEW f \in Fields \ {"boot", "sections"}, NEW v
      PROVE  Shaped([c EXCEPT ![f] = v])
  BY <1>1, <1>2, <1>4 DEF Shaped
<1>5. \A v : IsList(v) => Shaped([c EXCEPT !.boot = v])
  BY <1>1, <1>2 DEF Shaped
<1>10. Shaped([c EXCEPT !.sections = Append(@, Section(l))])
  <2>1. OneSystem(Section(l))
    BY DEF Section, SectionFields, OneSystem
  <2>2. PICK T : c.sections \in Seq(T)
    BY <1>2 DEF IsList
  <2> DEFINE t == Append(c.sections, Section(l))
  <2>3. \A i \in DOMAIN t : OneSystem(t[i])
    <3>1. c.sections \in Seq(T \union {Section(l)})
      BY <2>2
    <3> QED BY <1>2, <2>1, <3>1
  <2>4. IsList(t)
    BY <1>2, Lists
  <2> HIDE DEF t
  <2>5. Shaped([c EXCEPT !.sections = t])
    BY <1>1, <1>2, <2>3, <2>4 DEF Shaped
  <2> QED BY <2>5 DEF t
<1>6. Shaped(Refuse(c))
  BY <1>1, <1>4 DEF Refuse
<1> DEFINE n == Len(c.sections)
<1>7. ASSUME NEW f, f \notin {"file", "other"}, NEW v PROVE Shaped([c EXCEPT !.sections[n][f] = v])
  <2> DEFINE d == [c EXCEPT !.sections[n][f] = v]
             t == [c.sections EXCEPT ![n] = [@ EXCEPT ![f] = v]]
  <2>1. d.sections = t /\ d.boot = c.boot /\ DOMAIN d = DOMAIN c
    BY <1>1, <1>2
  <2>2. IsList(t)
    BY <1>2, Lists
  <2>4. \A i \in DOMAIN t : OneSystem(t[i])
    BY <1>2, <1>7 DEF OneSystem, SectionFields
  <2> HIDE DEF d, t
  <2>3. Shaped(d)
    BY <1>2, <2>1, <2>2, <2>4 DEF Shaped
  <2> QED BY <2>3 DEF d
<1> DEFINE Set(v) == [c EXCEPT ![l.opt] = v]
           SetHere(v) == [c EXCEPT !.sections[n][l.opt] = v]
<1>8. CASE ~c.ok \/ l.opt \in IF n > 0 THEN GlobalOnly ELSE SectionOnly
  BY <1>6, <1>8 DEF ReadLine
<1>9. CASE c.ok /\ l.opt \notin IF n > 0 THEN GlobalOnly ELSE SectionOnly
  <2>1. CASE l.opt = "boot"
    BY <1>2, <1>5, <1>9, <2>1, Lists DEF ReadLine
  <2>2. CASE l.opt \in {"clone", "default"}
    BY <1>1, <1>4, <1>9, <2>2 DEF ReadLine
  <2>3. CASE l.opt \in {"activate", "force_fat", "no_os_chooser"}
    BY <1>1, <1>4, <1>9, <2>3 DEF ReadLine
  <2>4. CASE l.opt \in {"image", "other"}
    BY <1>10, <1>6, <1>9, <2>4 DEF ReadLine
  <2>5. CASE l.opt \in {"copy", "optional", "label"}
    BY <1>7, <1>9, <2>5 DEF ReadLine
  <2>6. CASE l.opt \in {"root", "append", "initrd"}
    BY <1>1, <1>4, <1>6, <1>7, <1>9, <2>6 DEF ReadLine
  <2>7. CASE l.opt \notin {"boot", "clone", "default", "activate", "force_fat", "no_os_chooser", "image", "other",
                          "copy", "optional", "label", "root", "append", "initrd"}
    BY <1>6, <1>9, <2>7 DEF ReadLine
  <2> QED BY <2>1, <2>2, <2>3, <2>4, <2>5, <2>6, <2>7
<1> QED BY <1>8, <1>9

(* And so does a whole file. *)
LEMMA ParsedShaped ==
  ASSUME NEW place, NEW lines, Len(lines) \in Nat
  PROVE  Shaped(Parsed(place, lines))
<1> DEFINE Bad == {n \in 0..Len(lines) : ~Shaped(Reading(place, lines)[n])}
<1>2. Shaped(NoLines)
  <2>1. IsList(<<>>) /\ DOMAIN <<>> = {}
    BY EmptySeq DEF IsList
  <2> QED BY <2>1 DEF Shaped, NoLines
<1>3. Bad = {}
  <2> SUFFICES ASSUME Bad # {} PROVE FALSE
    OBVIOUS
  <2>1. PICK m \in Bad : \A k \in Bad : m <= k
    <3>1. Bad \subseteq Nat
      OBVIOUS
    <3> HIDE DEF Bad
    <3> QED BY <3>1, Lowest
  <2>2. m \in 0..Len(lines) /\ m # 0
    BY <1>2, ReadingIs
  <2>3. m - 1 \in 0..Len(lines) /\ ~(m <= m - 1)
    BY <2>2
  <2>4. Shaped(Reading(place, lines)[m - 1])
    BY <2>1, <2>3
  <2>5. Shaped(Reading(place, lines)[m])
    BY <2>2, <2>4, ReadingIs, LineShaped
  <2> QED BY <2>1, <2>5
<1> QED BY <1>3 DEF Parsed

(***************************************************************************)
(* What check_config_file passes: one boot= line at least, where the       *)
(* machine needs one, and every section that is offered has its files.     *)
(***************************************************************************)
LEMMA ReadIs ==
  ASSUME NEW place, "" \notin DOMAIN place, NEW type, NEW lines, Len(lines) \in Nat,
         NEW c, c = Read(place, type, lines)
  PROVE  /\ Shaped(c)
         /\ c.ok => /\ BootGiven(type, c)
                    /\ \A i \in Offered(c) :
                         /\ c.sections[i].file \in Files(place)
                         /\ c.sections[i].initrd # "" => c.sections[i].initrd \in Files(place)
                    /\ \A i \in DOMAIN c.sections :
                         c.sections[i].label = c.default => ~Absent(place, c.sections[i])
<1> DEFINE d == Parsed(place, lines)
           refused == \/ ~d.ok \/ ~BootGiven(type, d) \/ d.sections = <<>>
                      \/ \E i \in DOMAIN d.sections : Absent(place, d.sections[i]) /\ Needed(d, d.sections[i])
           s == [i \in DOMAIN d.sections |->
                   IF Absent(place, d.sections[i]) THEN [d.sections[i] EXCEPT !.optional = "skip"] ELSE d.sections[i]]
<1>1. Shaped(d)
  BY ParsedShaped
<1>2. c = IF refused THEN [d EXCEPT !.ok = FALSE] ELSE [d EXCEPT !.sections = s]
  BY DEF Read, Checked, Refuse
<1>3. DOMAIN d = {"ok", "boot", "clone", "activate", "force_fat", "no_os_chooser", "default", "root", "append", "initrd", "sections"}
  BY <1>1 DEF Shaped, NoLines
<1>4. CASE refused
  <2>1. /\ ~c.ok /\ c.boot = d.boot /\ c.sections = d.sections /\ DOMAIN c = DOMAIN d
    <3> HIDE DEF d
    <3> QED BY <1>2, <1>3, <1>4
  <2> QED BY <1>1, <2>1 DEF Shaped
<1>5. CASE ~refused
  <2>1. /\ c.boot = d.boot /\ c.sections = s /\ DOMAIN c = DOMAIN d
    <3> HIDE DEF d, s
    <3> QED BY <1>2, <1>3, <1>5
  <2>2. \A i \in DOMAIN s : OneSystem(s[i])
    BY <1>1 DEF Shaped, OneSystem, SectionFields
  <2>3. IsList(s)
    <3>2. DOMAIN s = DOMAIN d.sections
      OBVIOUS
    <3>3. PICK n \in Nat : DOMAIN d.sections = 1..n
      BY <1>1, Listing DEF Shaped
    <3> DEFINE V == {s[i] : i \in 1..n}
    <3>4. s = [i \in 1..n |-> s[i]]
      BY <3>2, <3>3
    <3>5. s \in Seq(V)
      <4>1. s \in [1..n -> V]
        <5> HIDE DEF s
        <5> QED BY <3>4
      <4> HIDE DEF s, V
      <4> QED BY <3>3, <4>1, SeqDef
    <3> QED BY <3>5 DEF IsList
  <2>4. Shaped(c)
    BY <1>1, <2>1, <2>2, <2>3 DEF Shaped
  <2>5. BootGiven(type, c)
    BY <1>5, <2>1 DEF BootGiven
  <2>6. ASSUME NEW i \in Offered(c) PROVE ~Absent(place, d.sections[i]) /\ c.sections[i] = d.sections[i]
    <3>1. i \in DOMAIN d.sections /\ c.sections[i].optional # "skip"
      BY <2>1, <2>6 DEF Offered, Kernel
    <3>2. DOMAIN d.sections[i] = SectionFields
      BY <1>1, <3>1 DEF Shaped, OneSystem
    <3> HIDE DEF d
    <3> QED BY <2>1, <3>1, <3>2 DEF SectionFields
  <2>7. ASSUME NEW i \in Offered(c)
        PROVE  /\ c.sections[i].file \in Files(place)
               /\ c.sections[i].initrd # "" => c.sections[i].initrd \in Files(place)
    <3>1. c.sections[i].other = ""
      BY <2>7 DEF Offered, Kernel
    <3> QED BY <2>6, <2>7, <3>1 DEF Absent, Blocks
  <2>8. ASSUME NEW i \in DOMAIN c.sections, c.sections[i].label = c.default
        PROVE  ~Absent(place, c.sections[i])
    <3>1. i \in DOMAIN d.sections /\ c.default = d.default
      <4> HIDE DEF d
      <4> QED BY <1>2, <1>3, <1>5, <2>1, <2>8
    <3>2. DOMAIN d.sections[i] = SectionFields
      BY <1>1, <3>1 DEF Shaped, OneSystem
    <3> HIDE DEF d
    <3>3. /\ c.sections[i].label = d.sections[i].label /\ c.sections[i].file = d.sections[i].file
          /\ c.sections[i].other = d.sections[i].other /\ c.sections[i].initrd = d.sections[i].initrd
      <4>1. c.sections[i] = d.sections[i] \/ c.sections[i] = [d.sections[i] EXCEPT !.optional = "skip"]
        BY <2>1, <3>1
      <4>2. PICK r : r = d.sections[i]
        OBVIOUS
      <4> QED BY <3>2, <4>1, <4>2 DEF SectionFields
    <3>4. Needed(d, d.sections[i])
      BY <2>8, <3>1, <3>3 DEF Needed
    <3>5. ~Absent(place, d.sections[i])
      BY <1>5, <3>1, <3>4
    <3> QED BY <3>3, <3>5 DEF Absent
  <2> QED BY <2>4, <2>5, <2>7, <2>8
<1> QED BY <1>4, <1>5

(* The places up to i, and i's rank among them. *)
Upto(places, i) == {j \in places : j <= i}
Rank(places, i) == Cardinality(Upto(places, i))

(* Every rank is some place's, and every place has one. *)
LEMMA Ranks ==
  ASSUME NEW n \in Nat, NEW places \in SUBSET (1..n)
  PROVE  /\ IsFiniteSet(places) /\ Cardinality(places) \in Nat
         /\ \A i \in places : Rank(places, i) \in 1..Cardinality(places)
         /\ \A i, k \in places : Rank(places, i) = Rank(places, k) => i = k
         /\ \A k \in 1..Cardinality(places) : \E i \in places : Rank(places, i) = k
<1>1. IsFiniteSet(places) /\ places \subseteq Nat /\ Cardinality(places) \in Nat
  <2>1. IsFiniteSet(1..n)
    BY FS_Interval
  <2>2. IsFiniteSet(places)
    BY <2>1, FS_Subset
  <2> QED BY <2>2, FS_CardinalityType
<1>2. ASSUME NEW i
      PROVE  /\ Upto(places, i) \subseteq places /\ IsFiniteSet(Upto(places, i))
             /\ Rank(places, i) \in Nat /\ Rank(places, i) <= Cardinality(places)
  <2>1. Upto(places, i) \subseteq places
    BY DEF Upto
  <2> QED BY <1>1, <2>1, FS_Subset, FS_CardinalityType DEF Rank
<1>3. \A i \in places : Rank(places, i) \in 1..Cardinality(places)
  <2> SUFFICES ASSUME NEW i \in places PROVE Rank(places, i) \in 1..Cardinality(places)
    OBVIOUS
  <2>1. i \in Upto(places, i)
    BY <1>1 DEF Upto
  <2>2. Rank(places, i) # 0
    BY <1>2, <2>1, FS_EmptySet DEF Rank
  <2> QED BY <1>1, <1>2, <2>2
<1>4. ASSUME NEW i \in places, NEW k \in places, i < k
      PROVE  Rank(places, i) # Rank(places, k)
  <2>0. i \in Nat /\ k \in Nat /\ k \in places /\ ~(k <= i)
    BY <1>1, <1>4
  <2>1. Upto(places, i) \subseteq Upto(places, k) /\ k \in Upto(places, k) /\ k \notin Upto(places, i)
    <3>1. \A j \in places : j <= i => j <= k
      BY <1>1, <1>4, <2>0
    <3>2. Upto(places, i) \subseteq Upto(places, k)
      BY <3>1, Zenon DEF Upto
    <3>3. k <= k
      BY <2>0
    <3> QED BY <2>0, <3>2, <3>3, Zenon DEF Upto
  <2>2. SUFFICES ASSUME Rank(places, i) = Rank(places, k) PROVE FALSE
    OBVIOUS
  <2>3. Upto(places, k) = Upto(places, i)
    BY <1>2, <2>1, <2>2, FS_Subset DEF Rank
  <2> QED BY <2>1, <2>3
<1>5. \A i, k \in places : Rank(places, i) = Rank(places, k) => i = k
  <2> SUFFICES ASSUME NEW i \in places, NEW k \in places, Rank(places, i) = Rank(places, k)
               PROVE  i = k
    OBVIOUS
  <2>1. ~(i < k) /\ ~(k < i)
    BY <1>4
  <2> QED BY <1>1, <2>1
<1>6. ASSUME NEW k \in 1..Cardinality(places)
      PROVE  \E i \in places : Rank(places, i) = k
  <2> SUFFICES ASSUME \A i \in places : Rank(places, i) # k PROVE FALSE
    OBVIOUS
  <2> DEFINE high == {i \in places : Rank(places, i) >= k}
  <2>1. places # {} /\ places \subseteq 0..n
    BY <1>1, FS_EmptySet
  <2>2. PICK m \in places : \A i \in places : i <= m
    BY <2>1, Highest
  <2>3. Upto(places, m) = places
    BY <2>2 DEF Upto
  <2>4. high \subseteq Nat /\ high # {}
    <3>1. Rank(places, m) >= k
      BY <1>1, <2>3 DEF Rank
    <3> QED BY <1>1, <2>2, <3>1
  <2>5. PICK i \in high : \A j \in high : i <= j
    <3> HIDE DEF high
    <3> QED BY <2>4, Lowest
  <2> DEFINE before == Upto(places, i) \ {i}
  <2>6. before \subseteq places /\ IsFiniteSet(before) /\ Cardinality(before) >= k
    <3>1. i \in Upto(places, i) /\ Rank(places, i) >= k /\ Rank(places, i) # k
      BY <1>1, <2>5 DEF Upto
    <3>2. Cardinality(before) = Rank(places, i) - 1 /\ IsFiniteSet(before)
      BY <1>2, <3>1, FS_RemoveElement DEF Rank
    <3> QED BY <1>2, <3>1, <3>2
  <2>7. PICK j \in before : \A x \in before : x <= j
    <3>1. before \subseteq 0..n
      BY <2>1, <2>6
    <3>2. before # {}
      <4> HIDE DEF before
      <4>1. Cardinality(before) # 0
        BY <1>1, <2>6
      <4> QED BY <4>1, FS_EmptySet
    <3> HIDE DEF before
    <3> QED BY <3>1, <3>2, Highest
  <2>8. Upto(places, j) = before /\ j < i /\ j \in places
    <3>1. j \in places /\ i \in Nat /\ j \in Nat /\ j <= i /\ j # i
      BY <1>1, <2>5, <2>7 DEF Upto
    <3>2. \A x \in places : x <= j => x <= i /\ x # i
      BY <1>1, <3>1
    <3>3. \A x \in places : x <= i /\ x # i => x <= j
      BY <2>7 DEF Upto
    <3>4. before = {x \in places : x <= i} \ {i}
      BY Zenon DEF Upto
    <3>5. Upto(places, j) = {x \in places : x <= j}
      BY Zenon DEF Upto
    <3> HIDE DEF before
    <3>6. \A x : x \in before <=> x \in Upto(places, j)
      BY <3>2, <3>3, <3>4, <3>5
    <3>7. before = Upto(places, j)
      BY <3>6
    <3> QED BY <3>1, <3>7
  <2>9. j \in high
    BY <2>6, <2>8 DEF Rank
  <2> QED BY <1>1, <2>5, <2>8, <2>9
<1> QED BY <1>1, <1>3, <1>5, <1>6

(* The members of a set of numbers in order are these numbers. *)
LEMMA InOrderIs ==
  ASSUME NEW n \in Nat, NEW S \in SUBSET (1..n)
  PROVE  /\ \A k \in DOMAIN InOrder(S) : InOrder(S)[k] \in S
         /\ \A i \in S : \E k \in DOMAIN InOrder(S) : InOrder(S)[k] = i
<1> DEFINE place(k) == CHOOSE i \in S : Rank(S, i) = k
<1>1. InOrder(S) = [k \in 1..Cardinality(S) |-> place(k)]
  BY Zenon DEF InOrder, Rank, Upto
<1>2. \A k \in 1..Cardinality(S) : place(k) \in S /\ Rank(S, place(k)) = k
  BY Ranks
<1>3. \A i \in S : Rank(S, i) \in 1..Cardinality(S) /\ place(Rank(S, i)) = i
  <2> SUFFICES ASSUME NEW i \in S PROVE Rank(S, i) \in 1..Cardinality(S) /\ place(Rank(S, i)) = i
    OBVIOUS
  <2>1. Rank(S, i) \in 1..Cardinality(S)
    BY Ranks
  <2>2. \A j, k \in S : Rank(S, j) = Rank(S, k) => j = k
    BY Ranks
  <2> QED BY <1>2, <2>1, <2>2
<1> HIDE DEF place
<1> QED BY <1>1, <1>2, <1>3

-----------------------------------------------------------------------------
(***************************************************************************)
(* What is written into the configuration of a CHRP machine, and where     *)
(* each path of it leads.                                                  *)
(***************************************************************************)
Before(place, c, kind, i) ==
  {j \in Offered(c) : j <= i /\ Named(c, kind, j) # "" /\ MustCopy(place, c, Named(c, kind, j))}

PathTo(place, c, boot, kind, i) ==
  LET f == Named(c, kind, i) IN
  IF MustCopy(place, c, f) THEN Copied(kind, Cardinality(Before(place, c, kind, i)))
  ELSE StripDevice(place[f].part, boot[1], PartitionLine(place, c, boot), f)

(* The sections that are offered are some of a list. *)
LEMMA OfferedIs ==
  ASSUME NEW c, Shaped(c)
  PROVE  \E n \in Nat : Offered(c) \in SUBSET (1..n) /\ DOMAIN c.sections = 1..n
<1>1. Len(c.sections) \in Nat /\ DOMAIN c.sections = 1..Len(c.sections)
  BY Listing DEF Shaped
<1> QED BY <1>1 DEF Offered

EntryOf(e, c, paths) ==
  /\ e.section \in Offered(c) /\ e.label = c.sections[e.section].label
  /\ e.image = paths["vmlinux"][e.section]
  /\ e.initrd = IF c.sections[e.section].initrd = "" THEN NoFile ELSE paths["initrd"][e.section]

EntriesOf(es, c, paths) ==
  /\ {es[n].section : n \in DOMAIN es} = Offered(c)
  /\ \A n \in DOMAIN es : EntryOf(es[n], c, paths)

LEMMA EntriesAre ==
  ASSUME NEW c, Shaped(c), NEW paths
  PROVE  EntriesOf(Entries(c, paths), c, paths)
<1> DEFINE entry(i) == [label |-> c.sections[i].label, section |-> i, image |-> paths["vmlinux"][i],
                        initrd |-> IF c.sections[i].initrd = "" THEN NoFile ELSE paths["initrd"][i]]
           order == InOrder(Offered(c))
<1>0. PICK es : es = Entries(c, paths)
  OBVIOUS
<1>1. es = [n \in DOMAIN order |-> entry(order[n])]
  BY <1>0 DEF Entries
<1>2. /\ \A n \in DOMAIN order : order[n] \in Offered(c)
      /\ \A i \in Offered(c) : \E n \in DOMAIN order : order[n] = i
  <2>1. PICK k \in Nat : Offered(c) \in SUBSET (1..k)
    BY OfferedIs
  <2>2. PICK S \in SUBSET (1..k) : S = Offered(c)
    BY <2>1
  <2>3. (\A n \in DOMAIN InOrder(S) : InOrder(S)[n] \in S) /\ \A i \in S : \E n \in DOMAIN InOrder(S) : InOrder(S)[n] = i
    BY InOrderIs
  <2> QED BY <2>2, <2>3
<1>3. \A i \in Offered(c) : EntryOf(entry(i), c, paths) /\ entry(i).section = i
  BY DEF EntryOf
<1> HIDE DEF entry, order
<1>4. DOMAIN es = DOMAIN order /\ \A n \in DOMAIN es : es[n] = entry(order[n])
  BY <1>1
<1>5. \A n \in DOMAIN es : EntryOf(es[n], c, paths) /\ es[n].section = order[n]
  BY <1>2, <1>3, <1>4
<1>6. {es[n].section : n \in DOMAIN es} = Offered(c)
  BY <1>2, <1>4, <1>5
<1> QED BY <1>0, <1>5, <1>6 DEF EntriesOf

ChrpPaths(place, c, boot) == [k \in Paths |-> [i \in Offered(c) |-> PathTo(place, c, boot, k, i)]]

LEMMA ChrpConfIs ==
  ASSUME NEW place, NEW c, Shaped(c), NEW boot
  PROVE  /\ ChrpConf(place, c, boot).partition = PartitionLine(place, c, boot)
         /\ EntriesOf(ChrpConf(place, c, boot).entries, c, ChrpPaths(place, c, boot))
<1>1. /\ ChrpConf(place, c, boot).partition = PartitionLine(place, c, boot)
      /\ ChrpConf(place, c, boot).entries = Entries(c, ChrpPaths(place, c, boot))
  BY DEF ChrpConf, ChrpPaths, PathTo, Before
<1> QED BY <1>1, EntriesAre

-----------------------------------------------------------------------------
(* A path without its device, or without its disk, leads to its file from  *)
(* the partitions of that disk.                                            *)
LEMMA StripName ==
  ASSUME NEW part, NEW disk, NEW nr, NEW f
  PROVE  StripDevice(part, disk, nr, f).name = <<f, 0>>
  BY DEF StripDevice, Original

LEMMA StripLeads ==
  ASSUME NEW part \in Nat \X (Nat \ {0}), NEW at, NEW cf, NEW f,
         NEW path, path = StripDevice(part, at[1], cf.partition, f)
  PROVE  PartOf(cf, at, path) = part
<1> DEFINE nr == cf.partition
<1>1. part = <<part[1], part[2]>> /\ part[2] # 0
  OBVIOUS
<1>2. CASE part = <<at[1], nr>>
  <2>1. path = Original("here", Nowhere, f)
    BY <1>2 DEF StripDevice
  <2>2. nr # 0
    BY <1>1, <1>2
  <2> QED BY <1>2, <2>1, <2>2 DEF Original, PartOf
<1>3. CASE part # <<at[1], nr>> /\ part[1] = at[1]
  <2>1. part[2] # nr
    BY <1>1, <1>3
  <2>2. path = Original("device", <<0, part[2]>>, f)
    BY <1>3, <2>1 DEF StripDevice
  <2> QED BY <1>1, <1>3, <2>2 DEF Original, PartOf
<1>4. CASE part[1] # at[1]
  <2>1. path = Original("full", part, f)
    BY <1>1, <1>4 DEF StripDevice
  <2> QED BY <2>1 DEF Original, PartOf
<1> QED BY <1>2, <1>3, <1>4

-----------------------------------------------------------------------------
(***************************************************************************)
(* A partition that this run has done with has what the default needs,     *)
(* until the run ends well.                                                *)
(***************************************************************************)
Asked == {job.boot} \union {job.clones[i] : i \in DOMAIN job.clones}

ServedInv ==
  pc # "idle" \/ (status = "done" /\ run > 0) =>
    /\ job.boot \in DOMAIN parts \ NoPath
    /\ FatBoot => \A p \in Asked \ (NoPath \union Left) : Wanted(job) \subseteq parts[p].files

LEMMA ServedKept ==
  ASSUME TypeOK, QueueInv, FatInv, ServedInv, ChrpNext
  PROVE  ServedInv'
<1>1. CASE StartRun
  <2> SUFFICES ASSUME pc' # "idle" \/ (status' = "done" /\ run' > 0)
               PROVE  /\ job.boot \in DOMAIN parts \ NoPath /\ UNCHANGED <<job, parts>>
                      /\ Asked \subseteq Left'
    BY SameJob DEF ServedInv, Asked
  <2>1. /\ job.boot \in DOMAIN parts \ NoPath /\ UNCHANGED <<job, parts>>
        /\ queue' = job.clones \o <<job.boot>>
    BY <1>1 DEF StartRun
  <2>2. job.clones \in Seq(DOMAIN parts) /\ <<job.boot>> \in Seq(DOMAIN parts) /\ Len(<<job.boot>>) = 1 /\ <<job.boot>>[1] = job.boot
    BY <2>1 DEF TypeOK
  <2> DEFINE n == Len(job.clones)
  <2>3. /\ Len(queue') = n + 1 /\ n \in Nat /\ queue' \in Seq(DOMAIN parts)
        /\ \A k \in 1..n : queue'[k] = job.clones[k]
        /\ queue'[n + 1] = job.boot
    BY <2>1, <2>2, Joined
  <2>4. DOMAIN job.clones = 1..n /\ DOMAIN queue' = 1..n + 1
    BY <2>2, <2>3
  <2> HIDE DEF n
  <2>5. \A p \in Asked : \E k \in DOMAIN queue' : queue'[k] = p
    BY <2>3, <2>4 DEF Asked
  <2> QED BY <2>1, <2>5 DEF Left
<1>2. CASE SkipPartition \/ SetBootDevice
  <2>1. /\ pc # "idle" /\ queue # <<>> /\ queue' = Tail(queue) /\ UNCHANGED <<job, parts>>
        /\ Target \in NoPath \/ (FatBoot => Wanted(job) \subseteq parts[Target].files)
    <3>1. CASE SkipPartition
      BY <3>1 DEF SkipPartition
    <3>2. CASE SetBootDevice
      <4>1. pc = "nvram" /\ queue # <<>> /\ queue' = Tail(queue) /\ UNCHANGED <<job, parts>>
        BY <3>2 DEF SetBootDevice, QueueInv
      <4> QED BY <4>1 DEF FatInv, AtEnd
    <3> QED BY <1>2, <3>1, <3>2
  <2>2. /\ DOMAIN queue' = 1..Len(queue) - 1 /\ DOMAIN queue = 1..Len(queue) /\ Len(queue) \in Nat \ {0}
        /\ \A i \in DOMAIN queue' : queue'[i] = queue[i + 1]
    BY <2>1, TailKept
  <2>3. ASSUME NEW i \in DOMAIN queue, queue[i] # Target PROVE queue[i] \in Left'
    <3>1. i # 1
      BY <2>3 DEF Target
    <3>2. i - 1 \in DOMAIN queue' /\ i - 1 + 1 = i
      BY <2>2, <3>1
    <3>3. queue'[i - 1] = queue[i]
      BY <2>2, <3>2
    <3> QED BY <3>2, <3>3 DEF Left
  <2>4. Left \subseteq Left' \union {Target}
    BY <2>3 DEF Left
  <2>5. job.boot \in DOMAIN parts \ NoPath
    BY <2>1 DEF ServedInv
  <2>6. ASSUME FatBoot, NEW p \in Asked \ (NoPath \union Left') PROVE Wanted(job) \subseteq parts[p].files
    <3>1. CASE p = Target
      BY <2>1, <2>6, <3>1
    <3>2. CASE p # Target
      BY <2>1, <2>4, <2>6, <3>2 DEF ServedInv
    <3> QED BY <3>1, <3>2
  <2>7. Asked' = Asked
    BY <2>1 DEF Asked
  <2> QED BY <2>1, <2>5, <2>6, <2>7, SameJob DEF ServedInv
<1>3. CASE BeginPartition \/ Finish
  <2>1. pc # "idle" /\ UNCHANGED <<job, parts, queue>>
    BY <1>3 DEF BeginPartition, Finish, Go
  <2> QED BY <2>1, SameJob DEF ServedInv, Asked, Left
<1>4. CASE FatStep \/ PrepStep \/ SetActive \/ SetActiveFails \/ Crash
  <2>1. Keeps
    BY <1>4, StepKeeps
  <2> SUFFICES ASSUME pc' # "idle" \/ (status' = "done" /\ run' > 0) PROVE ServedInv'
    BY DEF ServedInv
  <2>2. /\ pc # "idle" /\ UNCHANGED <<job, queue>> /\ DOMAIN parts' = DOMAIN parts
        /\ queue # <<>>
    BY <2>1 DEF Keeps
  <2>3. Asked' = Asked /\ Left' = Left /\ (FatBoot' <=> FatBoot) /\ Wanted(job)' = Wanted(job)
    BY <2>2, SameJob DEF Asked, Left
  <2>4. job.boot \in DOMAIN parts \ NoPath
    BY <2>2 DEF ServedInv
  <2>5. ASSUME FatBoot, NEW p \in Asked \ (NoPath \union Left) PROVE Wanted(job) \subseteq parts'[p].files
    <3>1. Wanted(job) \subseteq parts[p].files
      BY <2>2, <2>5 DEF ServedInv
    <3>2. p # Target
      <4>1. queue \in Seq(DOMAIN parts)
        BY DEF TypeOK
      <4>2. Target = queue[1] /\ 1 \in DOMAIN queue
        BY <2>2, <4>1 DEF Target
      <4> QED BY <2>5, <4>2 DEF Left
    <3>3. p \in DOMAIN parts
      <4>1. job.clones \in Seq(DOMAIN parts)
        BY DEF TypeOK
      <4>2. \A i \in DOMAIN job.clones : job.clones[i] \in DOMAIN parts
        BY <4>1
      <4> QED BY <2>4, <2>5, <4>2 DEF Asked
    <3>4. ~PrepStep
      BY <2>5 DEF PrepStep, OnPrep, Convert, ConvertFails, Delete, Resize, Dd, Conf, ConfFails, QueueInv
    <3>5. parts'[p] = parts[p]
      BY <1>4, <2>5, <3>2, <3>3, <3>4, FatConfined
    <3> QED BY <3>1, <3>5
  <2> QED BY <2>2, <2>3, <2>4, <2>5 DEF ServedInv
<1> QED BY <1>1, <1>2, <1>3, <1>4 DEF ChrpNext, FatStep, PrepStep

-----------------------------------------------------------------------------
(***************************************************************************)
(* What a machine with PC partitions was asked to do is what its lilo.conf *)
(* says.                                                                   *)
(***************************************************************************)
OnThis == machine \in Machines /\ conf = Read(Place, "chrp", machine.lines) /\ job = JobOf(machine)

(* The partition of boot= was found, so lilo.conf was accepted. *)
LEMMA ConfTaken ==
  ASSUME OnThis, TypeOK, job.boot \in DOMAIN parts \ NoPath
  PROVE  /\ Shaped(conf) /\ conf.ok
         /\ \A i \in Offered(conf) :
              /\ conf.sections[i].file \in Files(Place)
              /\ conf.sections[i].initrd # "" => conf.sections[i].initrd \in Files(Place)
<1>1. Len(machine.lines) \in Nat /\ "" \notin DOMAIN Place
  BY PlacesAssumption DEF PlacesAssumption, OnThis, Place
<1>2. conf.ok
  <2>1. Number(job.boot) \in 1..4
    BY ChrpAssumption DEF ChrpAssumption, TypeOK
  <2>2. ~conf.ok => job.boot = Nowhere
    BY DEF OnThis, JobOf, ChrpJob, Place
  <2> QED BY <2>1, <2>2 DEF Nowhere, Number
<1> QED BY <1>1, <1>2, ReadIs DEF OnThis

(* What yaboot reads on the way to the file of an entry. *)
LEMMA PathRight ==
  ASSUME OnThis, TypeOK, ServedInv, status = "done", pc = "idle", run > 0, QueueInv, ~job.iscsi,
         NEW p \in Asked \ NoPath, NEW kind \in Paths, NEW i \in Offered(conf),
         NEW f, f = Named(conf, kind, i), f \in Files(Place),
         NEW cf, cf.partition = PartitionLine(Place, conf, p),
         NEW copies, kind \in parts[p].files => <<PathTo(Place, conf, p, kind, i).name, f>> \in copies
  PROVE  \/ conf.sections[i].label # conf.default /\ PathTo(Place, conf, p, kind, i).name # <<f, 0>>
         \/ Leads(Place, cf, ConfAt(p), copies, PathTo(Place, conf, p, kind, i), f)
<1> DEFINE path == PathTo(Place, conf, p, kind, i)
<1>1. job.boot \in DOMAIN parts \ NoPath /\ Shaped(conf) /\ conf.ok
  BY ConfTaken DEF ServedInv
<1>2. p \in Nat \X Nat
  <2>1. job.clones \in Seq(DOMAIN parts) /\ DOMAIN parts \subseteq Nat \X Nat
    BY ChrpAssumption DEF TypeOK, ChrpAssumption
  <2>2. \A k \in DOMAIN job.clones : job.clones[k] \in DOMAIN parts
    BY <2>1
  <2> QED BY <1>1, <2>1, <2>2 DEF Asked
<1>3. Place[f].part \in Nat \X (Nat \ {0})
  BY PlacesAssumption DEF PlacesAssumption, OnThis, Place
<1>4. /\ job.copies = ChrpCopies(Place, conf) /\ job.forcefat = conf.force_fat
      /\ job.named <=> \E j \in Offered(conf) : conf.sections[j].label = conf.default
      /\ job.builtin <=> ~EtcSeen(Place, job.boot)
  BY <1>1 DEF OnThis, JobOf, ChrpJob, Place
<1>5. CASE ~MustCopy(Place, conf, f)
  <2>1. path = StripDevice(Place[f].part, p[1], cf.partition, f) /\ Place[f].readable
    BY <1>5 DEF PathTo, MustCopy
  <2>2. ConfAt(p)[1] = p[1]
    <3>1. CASE FatBoot \/ job.builtin
      BY <3>1 DEF ConfAt
    <3>2. CASE ~FatBoot /\ ~job.builtin
      <4>1. job.clones = <<>>
        BY <3>2 DEF FatBoot
      <4>2. p = job.boot
        BY <4>1 DEF Asked
      <4> QED BY <1>4, <3>2, <4>2 DEF ConfAt, EtcSeen
    <3> QED BY <3>1, <3>2
  <2>3. path.name = <<f, 0>> /\ PartOf(cf, ConfAt(p), path) = Place[f].part
    <3>1. PICK part, at, q : part = Place[f].part /\ at = ConfAt(p) /\ q = path
      OBVIOUS
    <3> HIDE DEF path
    <3>2. q = StripDevice(part, at[1], cf.partition, f)
      BY <2>1, <2>2, <3>1
    <3>3. part \in Nat \X (Nat \ {0})
      BY <1>3, <3>1
    <3>4. q.name = <<f, 0>> /\ PartOf(cf, at, q) = part
      BY <3>2, <3>3, StripName, StripLeads
    <3> QED BY <3>1, <3>4
  <2> QED BY <2>1, <2>3 DEF Leads
<1>6. CASE MustCopy(Place, conf, f)
  <2> DEFINE n == Cardinality(Before(Place, conf, kind, i))
  <2>1. path = Copied(kind, n)
    BY <1>6 DEF PathTo
  <2>2. f # ""
    BY PlacesAssumption DEF PlacesAssumption, OnThis, Place, Files
  <2>3. n # 0
    <3>1. PICK m \in Nat : Offered(conf) \in SUBSET (1..m)
      BY <1>1, OfferedIs
    <3>2. i \in Before(Place, conf, kind, i) /\ Before(Place, conf, kind, i) \subseteq 1..m
      <4>1. i <= i
        BY <3>1
      <4> QED BY <1>6, <2>2, <3>1, <4>1 DEF Before
    <3>3. IsFiniteSet(Before(Place, conf, kind, i))
      <4>1. IsFiniteSet(1..m)
        BY FS_Interval
      <4> QED BY <3>2, <4>1, FS_Subset
    <3> QED BY <3>2, <3>3, FS_EmptySet
  <2> HIDE DEF n
  <2>4. path.name = <<kind, n>> /\ path.form = "here" /\ path.name # <<f, 0>>
    BY <2>1, <2>3 DEF Copied
  <2>5. CASE conf.sections[i].label = conf.default
    <3>1. job.named
      BY <1>4, <2>5
    <3>2. kind \in job.copies
      <4>1. i \in {j \in Offered(conf) : conf.sections[j].label = conf.default}
        BY <2>5
      <4> QED BY <1>4, <1>6, <2>2, <4>1 DEF ChrpCopies, Named, Paths
    <3>3. FatBoot /\ ConfAt(p) = p
      BY <3>2 DEF FatBoot, ConfAt
    <3>4. kind \in parts[p].files
      <4>1. Left = {}
        BY DEF QueueInv, Left
      <4>2. kind \in Wanted(job)
        BY <3>1, <3>2 DEF Wanted, Default, Paths
      <4> QED BY <3>3, <4>1, <4>2 DEF ServedInv
    <3>5. cf.partition = p[2]
      <4>1. Copying(Place, conf)
        BY <1>6, <2>2 DEF Copying, Named, Paths
      <4> QED BY <4>1 DEF PartitionLine
    <3>6. PartOf(cf, p, path) = p
      BY <1>2, <2>4, <3>5 DEF PartOf
    <3> QED BY <2>4, <3>3, <3>4, <3>6 DEF Leads
  <2> QED BY <2>4, <2>5
<1> QED BY <1>5, <1>6

(* Every entry of the configuration on a partition that was asked for.     *)
LEMMA ChrpServed ==
  ASSUME OnThis, TypeOK, QueueInv, ServedInv, status = "done", run > 0, ~job.iscsi, NEW p \in Asked \ NoPath
  PROVE  ChrpRight(p)
<1> DEFINE cf == ChrpConf(Place, conf, p)
           right(e, path, f) ==
             \/ f = ""
             \/ e.label # conf.default /\ path.name # <<f, 0>>
             \/ Leads(Place, cf, ConfAt(p), CopiesOn(p, e), path, f)
<1>1. /\ Shaped(conf) /\ pc = "idle"
      /\ \A i \in Offered(conf) :
              /\ conf.sections[i].file \in Files(Place)
              /\ conf.sections[i].initrd # "" => conf.sections[i].initrd \in Files(Place)
  BY ConfTaken DEF ServedInv, QueueInv
<1>2. /\ cf.partition = PartitionLine(Place, conf, p)
      /\ EntriesOf(cf.entries, conf, ChrpPaths(Place, conf, p))
  BY <1>1, ChrpConfIs
<1>3. ASSUME NEW n \in DOMAIN cf.entries
      PROVE  LET e == cf.entries[n] IN
             /\ right(e, e.image, conf.sections[e.section].file)
             /\ right(e, e.initrd, conf.sections[e.section].initrd)
  <2>1. PICK e : e = cf.entries[n]
    OBVIOUS
  <2>2. PICK i : i = e.section
    OBVIOUS
  <2>3. PICK file, initrd : file = conf.sections[i].file /\ initrd = conf.sections[i].initrd
    OBVIOUS
  <2>4. EntryOf(e, conf, ChrpPaths(Place, conf, p))
    BY <1>2, <1>3, <2>1 DEF EntriesOf
  <2>5. /\ i \in Offered(conf) /\ e.label = conf.sections[i].label
        /\ e.image = PathTo(Place, conf, p, "vmlinux", i)
        /\ initrd # "" => e.initrd = PathTo(Place, conf, p, "initrd", i)
    BY <2>2, <2>3, <2>4 DEF EntryOf, ChrpPaths, Paths
  <2>6. /\ file = Named(conf, "vmlinux", i) /\ file \in Files(Place)
        /\ initrd = Named(conf, "initrd", i) /\ (initrd # "" => initrd \in Files(Place))
    BY <1>1, <2>3, <2>5 DEF Named
  <2>7. /\ "vmlinux" \in parts[p].files => <<e.image.name, file>> \in CopiesOn(p, e)
        /\ "initrd" \in parts[p].files => <<e.initrd.name, initrd>> \in CopiesOn(p, e)
    BY <2>2, <2>3 DEF CopiesOn
  <2> HIDE DEF cf
  <2>8. \/ conf.sections[i].label # conf.default /\ e.image.name # <<file, 0>>
        \/ Leads(Place, cf, ConfAt(p), CopiesOn(p, e), e.image, file)
    <3>1. "vmlinux" \in Paths
      BY DEF Paths
    <3>2. "vmlinux" \in parts[p].files => <<PathTo(Place, conf, p, "vmlinux", i).name, file>> \in CopiesOn(p, e)
      BY <2>5, <2>7
    <3>3. PICK copies : copies = CopiesOn(p, e)
      OBVIOUS
    <3> QED BY <1>1, <1>2, <2>5, <2>6, <3>1, <3>2, <3>3, PathRight
  <2>9. initrd # "" =>
          \/ conf.sections[i].label # conf.default /\ e.initrd.name # <<initrd, 0>>
          \/ Leads(Place, cf, ConfAt(p), CopiesOn(p, e), e.initrd, initrd)
    <3> SUFFICES ASSUME initrd # ""
                 PROVE  \/ conf.sections[i].label # conf.default /\ e.initrd.name # <<initrd, 0>>
                        \/ Leads(Place, cf, ConfAt(p), CopiesOn(p, e), e.initrd, initrd)
      OBVIOUS
    <3>1. "initrd" \in Paths
      BY DEF Paths
    <3>2. "initrd" \in parts[p].files => <<PathTo(Place, conf, p, "initrd", i).name, initrd>> \in CopiesOn(p, e)
      BY <2>5, <2>7
    <3>3. PICK copies : copies = CopiesOn(p, e)
      OBVIOUS
    <3> QED BY <1>1, <1>2, <2>5, <2>6, <3>1, <3>2, <3>3, PathRight
  <2> QED BY <2>1, <2>2, <2>3, <2>5, <2>8, <2>9
<1>4. {cf.entries[n].section : n \in DOMAIN cf.entries} = Offered(conf)
  BY <1>2 DEF EntriesOf
<1> QED BY <1>3, <1>4 DEF ChrpRight

(* All this holds in every state. *)
ChrpServes == machine.type = "chrp" => OnThis /\ ServedInv

LEMMA ChrpServesHolds == Spec => []ChrpServes
<1>1. Init => ChrpServes
  <2>1. ASSUME NEW m \in Machines, OnChrp(m) PROVE ChrpServes
    <3>1. OnThis
      BY <2>1, ChrpAssumption DEF OnChrp, ChrpInit, OnThis, Place, ChrpAssumption
    <3>2. pc = "idle" /\ run = 0
      BY <2>1 DEF OnChrp, ChrpInit
    <3> QED BY <3>1, <3>2 DEF ChrpServes, ServedInv
  <2>2. ASSUME OnOthers PROVE ChrpServes
    BY <2>2, OtherType DEF OnOthers, InstallInit, ChrpServes
  <2> QED BY <2>1, <2>2 DEF Init
<1>2. LiloInv /\ ChrpServes /\ [Next]_vars => ChrpServes'
  <2> SUFFICES ASSUME LiloInv, ChrpServes, [Next]_vars, machine'.type = "chrp" PROVE OnThis' /\ ServedInv'
    BY DEF ChrpServes
  <2>1. machine' = machine
    BY MachineStays DEF Next, vars, installVars
  <2>2. machine.type = "chrp" /\ IInv /\ OnThis /\ ServedInv
    BY <2>1 DEF ChrpServes, LiloInv
  <2>3. CASE ChrpNext /\ UNCHANGED installVars
    <3>1. job' = job
      <4>1. CASE FatStep \/ PrepStep \/ SetActive \/ SetActiveFails \/ Crash
        BY <2>2, <4>1, StepKeeps DEF IInv, Keeps
      <4>2. CASE StartRun
        BY <4>2 DEF StartRun
      <4>3. CASE SkipPartition \/ BeginPartition \/ Finish
        BY <4>3 DEF SkipPartition, BeginPartition, Finish, Go
      <4>4. CASE SetBootDevice
        BY <4>4 DEF SetBootDevice
      <4> QED BY <2>3, <4>1, <4>2, <4>3, <4>4 DEF ChrpNext, FatStep, PrepStep
    <3>2. OnThis'
      BY <2>1, <2>2, <2>3, <3>1 DEF OnThis, Place, installVars
    <3> QED BY <2>2, <2>3, <3>2, ServedKept DEF IInv
  <2>4. CASE UNCHANGED vars
    <3>1. UNCHANGED <<pc, job, parts, queue, status, run, machine, conf>>
      BY <2>4 DEF vars, chrpVars, installVars
    <3>2. OnThis'
      BY <2>2, <3>1 DEF OnThis, Place
    <3>3. Asked' = Asked /\ Left' = Left /\ (FatBoot' <=> FatBoot) /\ Wanted(job)' = Wanted(job)
      BY <3>1, SameJob DEF Asked, Left
    <3>4. ServedInv'
      BY <2>2, <3>1, <3>3 DEF ServedInv
    <3> QED BY <3>2, <3>4
  <2> QED BY <2>2, <2>3, <2>4 DEF Next
<1> QED BY <1>1, <1>2, LiloInvHolds, PTL DEF Spec

(* Every kernel comes up that lilo.conf asks for. *)
LEMMA ChrpOffersHolds == Spec => []ChrpOffers
<1>1. LiloInv /\ ChrpServes => ChrpOffers
  <2> SUFFICES ASSUME LiloInv, ChrpServes, machine.type = "chrp", status = "done", run > 0, ~job.iscsi,
                      NEW p \in Asked, p \notin NoPath
               PROVE  ChrpRight(p)
    BY DEF ChrpOffers, Asked
  <2>1. OnThis /\ TypeOK /\ QueueInv /\ ServedInv
    BY DEF ChrpServes, LiloInv, IInv
  <2> QED BY <2>1, ChrpServed
<1> QED BY <1>1, LiloInvHolds, ChrpServesHolds, PTL

-----------------------------------------------------------------------------
(***************************************************************************)
(* The other installers: what each has left to do, and what it has done.   *)
(***************************************************************************)
PowerMac == machine.type \in {"pmac_new", "pmac_old"}

StepsOf ==
  [pmac_new |-> {"mount", "clean", "copy", "activate"}, pmac_old |-> {"mount", "copy"},
   prep |-> {"check", "dd"}, iseries |-> {"image", "write"}, pegasos |-> {"copy"}, ps3 |-> {"kboot"}]

Accepted ==
  IF machine.type = "ps3" THEN conf = NoLines
  ELSE conf.ok /\ \E lines \in machine.files : conf = Read(Place, machine.type, lines)

MediumOk ==
  /\ DOMAIN medium = DOMAIN machine.medium
  /\ \A b \in DOMAIN medium : DOMAIN medium[b] = DOMAIN Empty

Working ==
  /\ machine \in Others /\ MediumOk
  /\ step \in {"idle"} \union StepsOf[machine.type]
  /\ step # "idle" => /\ ended = "running" /\ left # <<>> /\ IsList(left)
                      /\ step # "check" => \A k \in DOMAIN left : left[k] \in DOMAIN medium
                      /\ machine.type # "iseries" => Len(left) = 1
                      /\ machine.type \notin {"prep", "iseries"} => left = BootsOf(conf)
  /\ step = "dd" => Boot \in machine.prep
  /\ step # "idle" \/ ended = "done" => Accepted

Loaded(m) ==
  /\ m.loader /\ m.conf = IF NewWorld THEN NewWorldConf(Place, conf) ELSE OldWorldConf(conf)
  /\ GlobalCopy \union (IF NewWorld THEN NewWorldCopies ELSE OldWorldCopies) \subseteq m.copies
  /\ NewWorld => ~m.cnf /\ m.script = BootScript(conf)

Waits(b) == step # "idle" /\ \E k \in DOMAIN left : left[k] = b

Written(b) ==
  Image.kernel \in Files(Place) =>
    IF b.kind = "slot" THEN medium[b].image = Image
    ELSE medium[b].image.kernel = Image.kernel /\ medium[b].image.initrd = Image.initrd

Result ==
  /\ NewWorld /\ step = "copy" => ~medium[conf.boot[1]].cnf
  /\ PowerMac /\ (step = "activate" \/ ended = "done") => Loaded(medium[conf.boot[1]])
  /\ NewWorld /\ ended = "done" /\ conf.activate => known
  /\ machine.type = "prep" /\ ended = "done" =>
       \E b \in machine.prep : medium[b].image = PrepImage(conf)
  /\ machine.type = "iseries" /\ (step # "idle" \/ ended = "done") =>
       \A i \in DOMAIN conf.boot : Waits(conf.boot[i]) \/ Written(conf.boot[i])
  /\ machine.type = "pegasos" /\ ended = "done" =>
       medium[BootsOf(conf)[1]] = [Empty EXCEPT !.loader = TRUE, !.conf = PegasosConf(Place, conf)]

Ps3Done == machine.type = "ps3" /\ ended = "done" => medium["/etc/kboot.conf"].loader

InstallInv == Working /\ (~missed => Result) /\ Ps3Done

(* A lilo.conf that was accepted is one that the man page allows. *)
LEMMA AcceptedIs ==
  ASSUME machine \in Others, machine.type # "ps3", NEW c, c.ok,
         NEW lines \in machine.files, c = Read(Place, machine.type, lines)
  PROVE  /\ Shaped(c) /\ BootGiven(machine.type, c) /\ Suitable(machine, c)
         /\ \A i \in Offered(c) :
              /\ c.sections[i].file \in Files(Place)
              /\ c.sections[i].initrd # "" => c.sections[i].initrd \in Files(Place)
         /\ \A i \in DOMAIN c.sections :
              c.sections[i].label = c.default => ~Absent(Place, c.sections[i])
<1>1. Len(lines) \in Nat /\ "" \notin DOMAIN Place /\ Suitable(machine, c)
  BY OthersAssumption DEF OthersAssumption, Place
<1> QED BY <1>1, ReadIs

LEMMA TypeIs ==
  ASSUME machine \in Others
  PROVE  machine.type \in {"pmac_new", "pmac_old", "prep", "iseries", "pegasos", "ps3"}
<1>1. DOMAIN FirstStep = {"pmac_new", "pmac_old", "prep", "iseries", "pegasos", "ps3"}
  BY DEF FirstStep
<1> QED BY <1>1, OthersAssumption DEF OthersAssumption

(* Each step is one of some machines only. *)
LEMMA StepIs ==
  ASSUME Working
  PROVE  /\ step = "mount" => PowerMac
         /\ step \in {"clean", "activate"} => NewWorld
         /\ step = "copy" => PowerMac \/ machine.type = "pegasos"
         /\ step \in {"check", "dd"} => machine.type = "prep"
         /\ step \in {"image", "write"} => machine.type = "iseries"
         /\ step = "kboot" => machine.type = "ps3"
  BY TypeIs DEF Working, StepsOf, PowerMac, NewWorld

(* What is written to the first place that is left. *)
LEMMA LeaveIs ==
  ASSUME MediumOk, Boot \in DOMAIN medium, NEW w, DOMAIN w = DOMAIN Empty, Leave(w), machine' = machine
  PROVE  /\ MediumOk' /\ medium'[Boot] = w
         /\ \A b \in DOMAIN medium \ {Boot} : medium'[b] = medium[b]
<1>1. PICK b : b = Boot
  OBVIOUS
<1>2. medium' = [medium EXCEPT ![b] = w] /\ b \in DOMAIN medium
  BY <1>1 DEF Leave
<1> QED BY <1>1, <1>2 DEF MediumOk, Empty

(* lilo may stop anywhere. *)
LEMMA Halted ==
  ASSUME InstallInv, step' = "idle", ended' \notin {"done", "running"}, machine' = machine, MediumOk'
  PROVE  InstallInv'
<1>1. Working'
  BY DEF InstallInv, Working
<1>2. Result' /\ Ps3Done'
  BY DEF Result, Ps3Done
<1> QED BY <1>1, <1>2 DEF InstallInv

LEMMA Nonempty ==
  ASSUME NEW t, IsList(t)
  PROVE  /\ t = <<>> \/ Len(t) # 0
         /\ Len(t) = 1 => Tail(t) = <<>>
         /\ t # <<>> => /\ Head(t) = t[1] /\ 1 \in DOMAIN t /\ IsList(Tail(t))
                        /\ \A k \in DOMAIN Tail(t) : Tail(t)[k] = t[k + 1] /\ k + 1 \in DOMAIN t
                        /\ \A k \in DOMAIN t : k = 1 \/ (k - 1 \in DOMAIN Tail(t) /\ Tail(t)[k - 1] = t[k])
<1>1. PICK T : t \in Seq(T)
  BY DEF IsList
<1>2. ASSUME t # <<>> PROVE IsList(Tail(t))
  <2>1. Tail(t) \in Seq(T)
    BY <1>1, <1>2
  <2> QED BY <2>1 DEF IsList
<1>3. t = <<>> \/ Len(t) # 0
  BY <1>1
<1>4. ASSUME Len(t) = 1 PROVE Tail(t) = <<>>
  <2>1. t # <<>>
    BY <1>4, EmptySeq
  <2>2. PICK r : r = Tail(t)
    OBVIOUS
  <2>3. r \in Seq(T) /\ Len(r) = 0
    BY <1>1, <1>4, <2>1, <2>2
  <2>4. r = <<>>
    BY <2>3, EmptySeq
  <2> QED BY <2>2, <2>4
<1>5. ASSUME t # <<>>
      PROVE  /\ Head(t) = t[1] /\ 1 \in DOMAIN t
             /\ \A k \in DOMAIN Tail(t) : Tail(t)[k] = t[k + 1] /\ k + 1 \in DOMAIN t
             /\ \A k \in DOMAIN t : k = 1 \/ (k - 1 \in DOMAIN Tail(t) /\ Tail(t)[k - 1] = t[k])
  <2>1. DOMAIN t = 1..Len(t) /\ Len(t) \in Nat \ {0}
    BY <1>1, <1>5
  <2>2. Head(t) = t[1] /\ Len(Tail(t)) = Len(t) - 1 /\ Tail(t) \in Seq(T)
    BY <1>1, <1>5
  <2>3. DOMAIN Tail(t) = 1..Len(t) - 1
    BY <2>2
  <2>4. \A k \in 1..Len(t) - 1 : Tail(t)[k] = t[k + 1]
    BY <1>1, <1>5
  <2>5. \A k \in 1..Len(t) : k = 1 \/ (k - 1 \in 1..Len(t) - 1 /\ k - 1 + 1 = k)
    BY <2>1
  <2>6. \A k \in 1..Len(t) - 1 : k + 1 \in 1..Len(t)
    BY <2>1
  <2>7. 1 \in DOMAIN t
    BY <2>1
  <2>8. \A k \in DOMAIN t : k = 1 \/ (k - 1 \in DOMAIN Tail(t) /\ Tail(t)[k - 1] = t[k])
    <3> TAKE k \in DOMAIN t
    <3>1. k = 1 \/ (k - 1 \in 1..Len(t) - 1 /\ k - 1 + 1 = k)
      BY <2>1, <2>5
    <3>2. CASE k - 1 \in 1..Len(t) - 1 /\ k - 1 + 1 = k
      <4>1. Tail(t)[k - 1] = t[k - 1 + 1]
        BY <2>4, <3>2
      <4> QED BY <2>3, <3>2, <4>1
    <3> QED BY <3>1, <3>2
  <2> QED BY <2>1, <2>2, <2>3, <2>4, <2>6, <2>7, <2>8
<1> QED BY <1>2, <1>3, <1>4, <1>5

LEMMA Single ==
  ASSUME NEW b
  PROVE  IsList(<<b>>) /\ <<b>> # <<>> /\ Len(<<b>>) = 1 /\ DOMAIN <<b>> = {1} /\ <<b>>[1] = b
<1>1. <<b>> \in Seq({b}) /\ <<b>> # <<>> /\ Len(<<b>>) = 1 /\ DOMAIN <<b>> = 1..1 /\ <<b>>[1] = b
  OBVIOUS
<1>2. IsList(<<b>>)
  BY <1>1 DEF IsList
<1> QED BY <1>1, <1>2

(* Where lilo is to install. *)
LEMMA BootsAre ==
  ASSUME machine \in Others, NEW c,
         IF machine.type = "ps3" THEN c = NoLines
         ELSE c.ok /\ \E lines \in machine.files : c = Read(Place, machine.type, lines)
  PROVE  /\ IsList(BootsOf(c)) /\ BootsOf(c) # <<>>
         /\ machine.type # "iseries" => Len(BootsOf(c)) = 1
         /\ machine.type # "prep" => \A k \in DOMAIN BootsOf(c) : BootsOf(c)[k] \in DOMAIN machine.medium
         /\ machine.type \in {"pmac_new", "pmac_old", "prep", "iseries"} => BootsOf(c) = c.boot
<1>2. CASE machine.type = "ps3"
  <2>1. BootsOf(c) = <<"/etc/kboot.conf">> /\ "/etc/kboot.conf" \in DOMAIN machine.medium
    BY <1>2, OthersAssumption DEF BootsOf, OthersAssumption
  <2> QED BY <1>2, <2>1, Single
<1>3. CASE machine.type # "ps3"
  <2>1. Shaped(c) /\ BootGiven(machine.type, c) /\ Suitable(machine, c)
    BY <1>3, AcceptedIs
  <2>2. PICK boot : boot = c.boot
    OBVIOUS
  <2>3. IsList(boot) /\ Len(boot) \in Nat /\ DOMAIN boot = 1..Len(boot)
    BY <2>1, <2>2, Listing DEF Shaped
  <2>4. machine.type # "prep" => \A k \in DOMAIN boot : boot[k] \in DOMAIN machine.medium
    BY <2>1, <2>2 DEF Suitable
  <2>5. boot = <<>> => machine.type = "pegasos"
    BY <2>1, <2>2 DEF BootGiven
  <2>6. machine.type \notin {"iseries", "pegasos"} => Len(boot) = 1
    BY <2>1, <2>2, <2>5 DEF BootGiven
  <2>7. CASE machine.type # "pegasos"
    <3>1. BootsOf(c) = boot
      BY <1>3, <2>2, <2>5, <2>7 DEF BootsOf
    <3> QED BY <2>2, <2>3, <2>4, <2>5, <2>6, <2>7, <3>1
  <2>8. CASE machine.type = "pegasos"
    <3>1. CASE boot = <<>>
      <4>1. BootsOf(c) = <<"/yaboot">> /\ "/yaboot" \in DOMAIN machine.medium
        BY <2>2, <2>8, <3>1, OthersAssumption DEF BootsOf, OthersAssumption
      <4> QED BY <2>8, <4>1, Single
    <3>2. CASE boot # <<>>
      <4>1. BootsOf(c) = <<boot[1]>>
        BY <2>2, <2>8, <3>2 DEF BootsOf
      <4>2. boot[1] \in DOMAIN machine.medium
        <5>1. Len(boot) # 0
          BY <2>3, <3>2, Nonempty
        <5>2. 1 \in DOMAIN boot
          BY <2>3, <5>1
        <5> QED BY <2>4, <2>8, <5>2
      <4> QED BY <2>8, <4>1, <4>2, Single
    <3> QED BY <3>1, <3>2
  <2> QED BY <2>7, <2>8
<1> QED BY <1>2, <1>3

LEMMA BeginKept ==
  ASSUME InstallInv, Begin
  PROVE  InstallInv'
<1>1. machine' = machine /\ medium' = medium /\ missed' = FALSE /\ step = "idle"
  BY DEF Begin
<1>2. MediumOk'
  BY <1>1 DEF InstallInv, Working, MediumOk
<1>3. CASE ~conf'.ok
  <2>1. step' = "idle" /\ ended' = "error"
    BY <1>1, <1>3 DEF Begin
  <2> QED BY <1>1, <1>2, <2>1, Halted
<1>4. CASE conf'.ok
  <2>1. PICK c : c = conf'
    OBVIOUS
  <2>2. /\ step' = FirstStep[machine.type] /\ left' = BootsOf(c) /\ ended' = "running"
        /\ IF machine.type = "ps3" THEN c = NoLines
           ELSE c.ok /\ \E lines \in machine.files : c = Read(Place, machine.type, lines)
    <3>1. BootsOf(conf') = BootsOf(c)
      BY <2>1
    <3> QED BY <1>1, <1>4, <2>1, <3>1 DEF Begin
  <2>3. /\ machine \in Others
        /\ machine.type \in {"pmac_new", "pmac_old", "prep", "iseries", "pegasos", "ps3"}
    BY TypeIs DEF InstallInv, Working
  <2>4. /\ step' \in StepsOf[machine.type] /\ step' \notin {"idle", "dd", "activate"}
        /\ step' = "copy" => machine.type = "pegasos"
    BY <2>2, <2>3 DEF FirstStep, StepsOf
  <2>5. step' \in {"idle"} \union StepsOf[machine.type]
    BY <2>3, <2>4 DEF StepsOf
  <2>6. Accepted'
    <3>1. Place' = Place
      BY <1>1 DEF Place
    <3> QED BY <1>1, <2>1, <2>2, <3>1 DEF Accepted
  <2>7. /\ IsList(left') /\ left' # <<>>
        /\ machine.type # "iseries" => Len(left') = 1
        /\ machine.type # "prep" => \A k \in DOMAIN left' : left'[k] \in DOMAIN machine.medium
        /\ machine.type = "iseries" => left' = c.boot
    BY <2>2, <2>3, BootsAre
  <2>8. machine.type = "prep" => step' = "check"
    BY <2>2 DEF FirstStep
  <2>9. BootsOf(conf)' = BootsOf(c)
    BY <1>1, <2>1 DEF BootsOf
  <2>10. Working'
    BY <1>1, <1>2, <2>2, <2>3, <2>4, <2>5, <2>6, <2>7, <2>8, <2>9 DEF Working, InstallInv, MediumOk
  <2>11. Result'
    <3>1. ended' # "done" /\ step' # "activate" /\ (step' = "copy" => machine.type = "pegasos")
      BY <2>2, <2>4
    <3>2. step' # "idle" /\ (machine.type = "iseries" => \A i \in DOMAIN conf'.boot : Waits(conf.boot[i])')
      BY <2>1, <2>4, <2>7 DEF Waits
    <3> QED BY <1>1, <3>1, <3>2 DEF Result, NewWorld
  <2>12. Ps3Done'
    BY <2>2 DEF Ps3Done
  <2> QED BY <2>10, <2>11, <2>12 DEF InstallInv
<1> QED BY <1>3, <1>4

LEMMA BootIs ==
  ASSUME Working, step \notin {"idle", "check"}
  PROVE  Boot \in DOMAIN medium /\ DOMAIN medium[Boot] = DOMAIN Empty
<1>1. left # <<>> /\ IsList(left) /\ \A k \in DOMAIN left : left[k] \in DOMAIN medium
  BY DEF Working
<1>2. Boot = left[1] /\ 1 \in DOMAIN left
  BY <1>1, Nonempty DEF Boot
<1> QED BY <1>1, <1>2 DEF Working, MediumOk

(* The next step for the same boot= line, *)
LEMMA Moved ==
  ASSUME Working, step \notin {"idle", "check"}, MediumOk',
         step' \in StepsOf[machine.type] \ {"idle", "check", "dd"}, UNCHANGED <<machine, conf, left, ended>>
  PROVE  Working'
<1>1. Accepted' /\ BootsOf(conf)' = BootsOf(conf)
  BY DEF Accepted, BootsOf, Working, Place
<1>2. DOMAIN medium' = DOMAIN medium
  BY DEF MediumOk, Working
<1> QED BY <1>1, <1>2 DEF Working

(* and the end. *)
LEMMA Ended ==
  ASSUME Working, step # "idle", MediumOk', step' = "idle", ended' = "done", UNCHANGED <<machine, conf>>
  PROVE  Working'
<1>1. Accepted'
  BY DEF Accepted, Working, Place
<1> QED BY <1>1 DEF Working

LEMMA NextIs ==
  ASSUME Working, step # "idle", machine.type # "iseries", NextBoot, MediumOk'
  PROVE  Working' /\ step' = "idle" /\ ended' = "done" /\ UNCHANGED <<machine, conf, known>>
<1>1. Tail(left) = <<>>
  BY Nonempty DEF Working
<1>2. step' = "idle" /\ ended' = "done" /\ UNCHANGED <<machine, conf, known>>
  BY <1>1 DEF NextBoot
<1> QED BY <1>2, Ended

(* The file system of a PowerMac's boot partition. *)
LEMMA MacBoot ==
  ASSUME Working, step # "idle", PowerMac
  PROVE  Boot = conf.boot[1]
<1>1. left = BootsOf(conf)
  BY DEF Working, PowerMac
<1>2. BootsOf(conf) = conf.boot
  BY BootsAre DEF Working, Accepted, PowerMac
<1> QED BY <1>1, <1>2, Nonempty DEF Boot, Working

LEMMA MountKept ==
  ASSUME InstallInv, Mount
  PROVE  InstallInv'
<1>1. PowerMac /\ Working /\ step = "mount"
  BY StepIs DEF InstallInv, Mount
<1>2. MediumOk' /\ machine' = machine
  BY <1>1, BootIs, LeaveIs DEF Mount, GoTo, MediumOk, Working
<1>3. UNCHANGED <<machine, conf, left, ended>> /\ step' = IF NewWorld THEN "clean" ELSE "copy"
  BY DEF Mount, GoTo
<1>4. Working' /\ ended' = "running"
  <2>1. step' \in StepsOf[machine.type] \ {"idle", "check", "dd"}
    BY <1>1, <1>3 DEF PowerMac, NewWorld, StepsOf
  <2> QED BY <1>1, <1>2, <1>3, <2>1, Moved DEF Working
<1>5. Result' /\ Ps3Done'
  BY <1>1, <1>3, <1>4 DEF Result, Ps3Done, PowerMac, NewWorld
<1> QED BY <1>4, <1>5 DEF InstallInv

LEMMA CleanKept ==
  ASSUME InstallInv, Clean
  PROVE  InstallInv'
<1>1. NewWorld /\ Working /\ step = "clean"
  BY StepIs DEF InstallInv, Clean
<1>2. /\ Boot \in DOMAIN medium /\ DOMAIN medium[Boot] = DOMAIN Empty /\ MediumOk
      /\ UNCHANGED <<machine, conf, left, ended>> /\ step' = "copy"
  BY <1>1, BootIs DEF Clean, GoTo, Working
<1>3. PICK old : old = medium[Boot]
  OBVIOUS
<1>4. DOMAIN Cleaned(old) = DOMAIN Empty /\ ~Cleaned(old).cnf
  BY <1>2, <1>3 DEF Cleaned, Empty
<1>5. Leave(Cleaned(old)) \/ (Leave(old) /\ missed')
  BY <1>3 DEF Clean, Unchecked
<1>6. MediumOk'
  BY <1>2, <1>3, <1>4, <1>5, LeaveIs
<1>7. Working' /\ ended' = "running"
  <2>1. step' \in StepsOf[machine.type] \ {"idle", "check", "dd"}
    BY <1>1, <1>2 DEF NewWorld, StepsOf
  <2> QED BY <1>1, <1>2, <1>6, <2>1, Moved DEF Working
<1>8. ASSUME ~missed' PROVE Result'
  <2>1. medium'[Boot] = Cleaned(old)
    BY <1>2, <1>4, <1>5, <1>8, LeaveIs
  <2>2. Boot = conf.boot[1]
    BY <1>1, MacBoot DEF PowerMac, NewWorld
  <2>3. ~medium'[conf'.boot[1]].cnf
    BY <1>2, <1>4, <2>1, <2>2
  <2> QED BY <1>1, <1>2, <1>7, <2>3 DEF Result, NewWorld
<1>9. Ps3Done'
  BY <1>7 DEF Ps3Done
<1> QED BY <1>7, <1>8, <1>9 DEF InstallInv

LEMMA CopyKept ==
  ASSUME InstallInv, CopyFiles
  PROVE  InstallInv'
<1>1. /\ PowerMac /\ Working /\ step = "copy" /\ Boot = conf.boot[1] /\ MediumOk /\ ended = "running"
      /\ Boot \in DOMAIN medium /\ DOMAIN medium[Boot] = DOMAIN Empty
  BY MacBoot, BootIs DEF InstallInv, CopyFiles, PowerMac, Working
<1> DEFINE files == GlobalCopy \union (IF NewWorld THEN NewWorldCopies ELSE OldWorldCopies)
           loader == IF NewWorld THEN NewWorldConf(Place, conf) ELSE OldWorldConf(conf)
           after(old) == [old EXCEPT !.loader = TRUE, !.conf = loader,
                                     !.script = IF NewWorld THEN BootScript(conf) ELSE @,
                                     !.copies = Put(@, files)]
<1>2. PICK old, new : old = medium[Boot] /\ new = after(old)
  OBVIOUS
<1>3. /\ DOMAIN new = DOMAIN Empty /\ new.loader /\ new.conf = loader /\ files \subseteq new.copies
      /\ new.cnf = old.cnf /\ (NewWorld => new.script = BootScript(conf))
  <2> HIDE DEF files, loader
  <2>1. DOMAIN old = {"loader", "script", "cnf", "conf", "copies", "image"}
    BY <1>1, <1>2 DEF Empty
  <2>2. files \subseteq new.copies
    BY <1>2, <2>1 DEF Put
  <2> QED BY <1>2, <2>1, <2>2 DEF Empty
<1>4. Unchecked(new, {old, [new EXCEPT !.copies = old.copies], [new EXCEPT !.loader = FALSE]})
  BY <1>2 DEF CopyFiles
<1>5. Leave(new) \/ (missed' /\ \E w : DOMAIN w = DOMAIN Empty /\ Leave(w))
  <2>1. \A w \in {old, [new EXCEPT !.copies = old.copies], [new EXCEPT !.loader = FALSE]} : DOMAIN w = DOMAIN Empty
    BY <1>1, <1>2, <1>3
  <2> HIDE DEF after
  <2> QED BY <1>4, <2>1 DEF Unchecked
<1> HIDE DEF files, loader, after
<1>6. machine' = machine /\ conf' = conf
  BY DEF CopyFiles, GoTo, NextBoot
<1>7. MediumOk' /\ (~missed' => medium'[Boot] = new)
  BY <1>1, <1>3, <1>5, <1>6, LeaveIs
<1>8. NewWorld /\ ~missed' => ~old.cnf
  <2>1. ~missed' => ~missed
    BY DEF CopyFiles, Unchecked
  <2> QED BY <1>1, <1>2, <2>1 DEF InstallInv, Result
<1>9. ~missed' => Loaded(medium[conf.boot[1]])'
  <2>1. ~missed' => Loaded(new)
    BY <1>3, <1>8 DEF Loaded, files, loader
  <2>2. Loaded(new)' <=> Loaded(new)
    BY <1>6 DEF Loaded, NewWorld, Place, GlobalCopy, NewWorldCopies, OldWorldCopies
  <2>3. ~missed' => (Loaded(medium[conf.boot[1]])' <=> Loaded(new)')
    BY <1>1, <1>6, <1>7
  <2> QED BY <2>1, <2>2, <2>3
<1>10. CASE NewWorld
  <2>1. step' = "activate" /\ UNCHANGED <<machine, conf, left, ended>>
    BY <1>10 DEF CopyFiles, GoTo
  <2>2. Working' /\ ended' = "running"
    <3>1. step' \in StepsOf[machine.type] \ {"idle", "check", "dd"}
      BY <1>10, <2>1 DEF NewWorld, StepsOf
    <3> QED BY <1>1, <1>7, <2>1, <3>1, Moved
  <2>3. (~missed' => Result') /\ Ps3Done'
    BY <1>9, <1>10, <2>1, <2>2 DEF Result, Ps3Done, NewWorld
  <2> QED BY <2>2, <2>3 DEF InstallInv
<1>11. CASE ~NewWorld
  <2>1. NextBoot
    BY <1>11 DEF CopyFiles
  <2>2. Working' /\ step' = "idle" /\ ended' = "done"
    BY <1>1, <1>7, <2>1, NextIs DEF PowerMac
  <2>3. (~missed' => Result') /\ Ps3Done'
    BY <1>1, <1>6, <1>9, <1>11, <2>2 DEF Result, Ps3Done, NewWorld, PowerMac
  <2> QED BY <2>2, <2>3 DEF InstallInv
<1> QED BY <1>10, <1>11

LEMMA ActivateKept ==
  ASSUME InstallInv, Activate
  PROVE  InstallInv'
<1>1. /\ NewWorld /\ Working /\ step = "activate"
      /\ medium' = medium /\ machine' = machine /\ conf' = conf /\ step' = "idle" /\ ended' = "done"
  BY StepIs DEF InstallInv, Activate
<1>2. Working'
  <2>1. MediumOk'
    BY <1>1 DEF Working, MediumOk
  <2> QED BY <1>1, <2>1, Ended
<1>3. ASSUME ~missed' PROVE Result'
  <2>1. ~missed /\ (conf.activate => known')
    <3>1. known' = (known \/ conf.activate) /\ missed' = missed
      BY <1>3, Zenon DEF Activate
    <3>2. conf.activate => known'
      BY <3>1, Zenon
    <3> QED BY <1>3, <3>1, <3>2
  <2>2. Loaded(medium[conf.boot[1]])
    BY <1>1, <2>1 DEF InstallInv, Result, PowerMac, NewWorld
  <2>3. Loaded(medium[conf.boot[1]])'
    <3>1. PICK m : m = medium[conf.boot[1]]
      OBVIOUS
    <3>2. Loaded(m)' <=> Loaded(m)
      BY <1>1 DEF Loaded, NewWorld, Place, GlobalCopy, NewWorldCopies, OldWorldCopies
    <3>3. Loaded(medium[conf.boot[1]])' <=> Loaded(m)'
      BY <1>1, <3>1
    <3> QED BY <2>2, <3>1, <3>2, <3>3
  <2> QED BY <1>1, <2>1, <2>3 DEF Result, NewWorld
<1>4. Ps3Done'
  BY <1>1 DEF Ps3Done, NewWorld
<1> QED BY <1>2, <1>3, <1>4 DEF InstallInv

LEMMA StopKept ==
  ASSUME InstallInv, Stop, MediumOk'
  PROVE  InstallInv'
  BY Halted DEF Stop

(* PReP. *)
LEMMA CheckKept ==
  ASSUME InstallInv, CheckPrep
  PROVE  InstallInv'
<1>1. machine.type = "prep" /\ Working /\ step = "check" /\ medium' = medium /\ ended = "running"
  BY StepIs DEF InstallInv, CheckPrep, Working
<1> DEFINE found == {p \in machine.prep : IF Boot[2] = 0 THEN p[1] = Boot[1] ELSE p = Boot}
<1>2. CASE Cardinality(found) # 1
  <2>1. Stop
    BY <1>2 DEF CheckPrep
  <2>2. MediumOk'
    BY <1>1, <2>1 DEF Stop, Working, MediumOk
  <2> QED BY <2>1, <2>2, StopKept
<1>3. CASE Cardinality(found) = 1
  <2>1. PICK p : p = CHOOSE q \in found : TRUE
    OBVIOUS
  <2>2. p \in machine.prep
    <3>1. found # {}
      BY <1>3, FS_EmptySet
    <3>2. p \in found
      BY <2>1, <3>1
    <3> QED BY <3>2
  <2>3. left' = <<p>> /\ step' = "dd" /\ UNCHANGED <<machine, conf, ended>>
    BY <1>3, <2>1 DEF CheckPrep
  <2> HIDE DEF found
  <2>4. p \in DOMAIN medium
    BY <1>1, <2>2, OthersAssumption DEF OthersAssumption, Working, MediumOk
  <2>5. Boot' = p
    <3>1. Head(<<p>>) = p
      OBVIOUS
    <3> QED BY <2>3, <3>1 DEF Boot
  <2>6. Accepted'
    BY <1>1, <2>3 DEF Working, Accepted, Place
  <2>7. "dd" \in StepsOf[machine.type]
    BY <1>1 DEF StepsOf
  <2>8. IsList(left') /\ left' # <<>> /\ Len(left') = 1 /\ \A k \in DOMAIN left' : left'[k] = p
    BY <2>3, Single
  <2>9. MediumOk'
    BY <1>1, <2>3 DEF Working, MediumOk
  <2>10. Working'
    BY <1>1, <2>2, <2>3, <2>4, <2>5, <2>6, <2>7, <2>8, <2>9 DEF Working
  <2>11. Result' /\ Ps3Done'
    BY <1>1, <2>3 DEF Result, Ps3Done, NewWorld, PowerMac
  <2> QED BY <2>10, <2>11 DEF InstallInv
<1> QED BY <1>2, <1>3

LEMMA DdKept ==
  ASSUME InstallInv, WritePrep
  PROVE  InstallInv'
<1>1. /\ machine.type = "prep" /\ Working /\ step = "dd" /\ MediumOk /\ Boot \in machine.prep
      /\ Boot \in DOMAIN medium /\ DOMAIN medium[Boot] = DOMAIN Empty
  BY StepIs, BootIs DEF InstallInv, WritePrep, Working
<1>2. PICK old, i : old = medium[Boot] /\ i = PrepImage(conf)
  OBVIOUS
<1>3. DOMAIN old = DOMAIN Empty /\ \A j : DOMAIN [old EXCEPT !.image = j] = DOMAIN Empty /\ [old EXCEPT !.image = j].image = j
  BY <1>1, <1>2 DEF Empty
<1>4. Leave([old EXCEPT !.image = i]) \/ (missed' /\ \E w : DOMAIN w = DOMAIN Empty /\ Leave(w))
  <2>1. IF i.kernel \in Files(Place)
        THEN Unchecked([old EXCEPT !.image = i],
                       {old, Empty, [old EXCEPT !.image = [i EXCEPT !.root = "", !.append = ""]]})
        ELSE Leave(old) /\ missed' = TRUE
    BY <1>2 DEF WritePrep
  <2>2. \A w \in {old, Empty, [old EXCEPT !.image = [i EXCEPT !.root = "", !.append = ""]]} : DOMAIN w = DOMAIN Empty
    BY <1>3
  <2>3. CASE i.kernel \in Files(Place)
    BY <2>1, <2>2, <2>3 DEF Unchecked
  <2>4. CASE i.kernel \notin Files(Place)
    BY <1>3, <2>1, <2>4
  <2> QED BY <2>3, <2>4
<1>5. NextBoot
  BY DEF WritePrep
<1>6. machine' = machine
  BY <1>5 DEF NextBoot
<1>7. MediumOk' /\ (~missed' => medium'[Boot].image = i)
  BY <1>1, <1>3, <1>4, <1>6, LeaveIs
<1>8. Working' /\ step' = "idle" /\ ended' = "done" /\ conf' = conf
  BY <1>1, <1>5, <1>7, NextIs
<1>9. PrepImage(conf)' = PrepImage(conf)
  BY <1>8
<1>10. (~missed' => Result') /\ Ps3Done'
  BY <1>1, <1>2, <1>6, <1>7, <1>8, <1>9 DEF Result, Ps3Done, NewWorld, PowerMac
<1> QED BY <1>8, <1>10 DEF InstallInv

(* iSeries. *)
LEMMA MakeKept ==
  ASSUME InstallInv, MakeImage
  PROVE  InstallInv'
<1>1. machine.type = "iseries" /\ Working /\ step = "image" /\ medium' = medium
  BY StepIs DEF InstallInv, MakeImage
<1>2. CASE Stop
  <2>1. MediumOk'
    BY <1>1, <1>2 DEF Stop, Working, MediumOk
  <2> QED BY <1>2, <2>1, StopKept
<1>3. CASE GoTo("write") /\ UNCHANGED missed
  <2>1. step' = "write" /\ UNCHANGED <<machine, conf, left, ended>>
    BY <1>3 DEF GoTo
  <2>2. MediumOk'
    BY <1>1, <2>1 DEF Working, MediumOk
  <2>3. Working' /\ ended' = "running"
    <3>1. step' \in StepsOf[machine.type] \ {"idle", "check", "dd"}
      BY <1>1, <2>1 DEF StepsOf
    <3> QED BY <1>1, <2>1, <2>2, <3>1, Moved DEF Working
  <2>4. ASSUME ~missed', NEW i \in DOMAIN conf.boot PROVE Waits(conf.boot[i])' \/ Written(conf.boot[i])'
    <3>1. PICK b : b = conf.boot[i]
      OBVIOUS
    <3>2. Waits(b) \/ Written(b)
      BY <1>1, <1>3, <2>4, <3>1 DEF InstallInv, Result
    <3>3. Waits(b)' \/ Written(b)'
      BY <1>1, <2>1, <3>2 DEF Waits, Written, Image, Place
    <3>4. conf.boot[i]' = b
      BY <2>1, <3>1
    <3> QED BY <3>3, <3>4
  <2>5. (~missed' => Result') /\ Ps3Done'
    BY <1>1, <2>1, <2>3, <2>4 DEF Result, Ps3Done, NewWorld, PowerMac
  <2> QED BY <2>3, <2>5 DEF InstallInv
<1> QED BY <1>2, <1>3 DEF MakeImage

LEMMA WroteKept ==
  ASSUME InstallInv, step = "write", NextBoot, MediumOk',
         \A b \in DOMAIN medium \ {Boot} : medium'[b] = medium[b],
         ~missed' => ~missed,
         NEW here, here = Boot, ~missed' => Written(here)'
  PROVE  InstallInv'
<1>1. /\ machine.type = "iseries" /\ Working /\ left' = Tail(left) /\ UNCHANGED <<machine, conf, known>>
      /\ IF Tail(left) = <<>> THEN step' = "idle" /\ ended' = "done" ELSE step' = "image" /\ ended' = "running"
  BY StepIs DEF InstallInv, NextBoot, Working
<1>2. PICK rest : rest = Tail(left)
  OBVIOUS
<1>3. /\ left # <<>> /\ IsList(left) /\ \A k \in DOMAIN left : left[k] \in DOMAIN medium
      /\ DOMAIN medium' = DOMAIN medium /\ Accepted
  BY <1>1 DEF Working, MediumOk
<1>4. /\ here = left[1] /\ IsList(rest)
      /\ \A k \in DOMAIN rest : rest[k] = left[k + 1] /\ k + 1 \in DOMAIN left
      /\ \A k \in DOMAIN left : k = 1 \/ (k - 1 \in DOMAIN rest /\ rest[k - 1] = left[k])
  BY <1>2, <1>3, Nonempty DEF Boot
<1>5. Working'
  <2>1. Accepted'
    BY <1>1, <1>3 DEF Accepted, Place
  <2>2. \A k \in DOMAIN rest : rest[k] \in DOMAIN medium'
    BY <1>3, <1>4
  <2>3. "image" \in StepsOf[machine.type]
    BY <1>1 DEF StepsOf
  <2> QED BY <1>1, <1>2, <1>4, <2>1, <2>2, <2>3 DEF Working
<1>6. ASSUME ~missed', NEW i \in DOMAIN conf.boot PROVE Waits(conf.boot[i])' \/ Written(conf.boot[i])'
  <2>1. PICK b : b = conf.boot[i]
    OBVIOUS
  <2>2. Waits(b) \/ Written(b)
    BY <1>1, <1>6, <2>1 DEF InstallInv, Result
  <2>3. b \in DOMAIN medium
    <3>1. PICK lines \in machine.files : conf = Read(Place, machine.type, lines)
      BY <1>1, <1>3 DEF Accepted
    <3>2. conf.ok
      BY <1>1, <1>3 DEF Accepted
    <3>3. Suitable(machine, conf)
      BY <1>1, <3>1, <3>2, AcceptedIs DEF Working
    <3> QED BY <1>1, <2>1, <3>3 DEF Suitable, Working, MediumOk
  <2>4. CASE b = here
    BY <1>1, <1>6, <2>1, <2>4
  <2>5. CASE b # here /\ Written(b)
    <3>1. medium'[b] = medium[b]
      BY <2>3, <2>5
    <3>2. Written(b)'
      BY <1>1, <2>5, <3>1 DEF Written, Image, Place
    <3> QED BY <1>1, <2>1, <3>2
  <2>6. CASE b # here /\ Waits(b)
    <3>1. PICK k \in DOMAIN left : left[k] = b
      BY <2>6 DEF Waits
    <3>2. k - 1 \in DOMAIN rest /\ rest[k - 1] = b
      BY <1>4, <2>6, <3>1
    <3>3. rest # <<>>
      <4>1. DOMAIN <<>> = {}
        OBVIOUS
      <4> QED BY <3>2, <4>1
    <3>4. Waits(b)'
      BY <1>1, <1>2, <3>2, <3>3 DEF Waits
    <3> QED BY <1>1, <2>1, <3>4
  <2> QED BY <2>2, <2>4, <2>5, <2>6
<1>7. (~missed' => Result') /\ Ps3Done'
  BY <1>1, <1>6 DEF Result, Ps3Done, NewWorld, PowerMac
<1> QED BY <1>5, <1>7 DEF InstallInv

(* What each kind of place is left with, *)
LEMMA PutKept ==
  ASSUME InstallInv, step = "write", NextBoot, NEW here, here = Boot, NEW w, DOMAIN w = DOMAIN Empty, Leave(w),
         missed' \/ (~missed /\ IF here.kind = "slot" THEN w.image = Image
                               ELSE w.image.kernel = Image.kernel /\ w.image.initrd = Image.initrd)
  PROVE  InstallInv'
<1>1. /\ Working /\ MediumOk /\ here \in DOMAIN medium /\ UNCHANGED <<machine, conf>>
  BY BootIs DEF InstallInv, Working, NextBoot
<1>2. Image' = Image /\ Place' = Place
  BY <1>1 DEF Image, Place
<1>3. /\ MediumOk' /\ medium'[here] = w
      /\ \A b \in DOMAIN medium \ {Boot} : medium'[b] = medium[b]
  BY <1>1, LeaveIs
<1>4. ~missed' => ~missed /\ Written(here)'
  BY <1>2, <1>3 DEF Written
<1> QED BY <1>3, <1>4, WroteKept

(* and without a kernel, or when a command has failed, as it was. *)
LEMMA LeftKept ==
  ASSUME InstallInv, step = "write", NextBoot, medium' = medium,
         missed' \/ (~missed /\ Image.kernel \notin Files(Place))
  PROVE  InstallInv'
<1>1. Working /\ MediumOk /\ UNCHANGED <<machine, conf>>
  BY DEF InstallInv, Working, NextBoot
<1>2. PICK here : here = Boot
  OBVIOUS
<1>3. MediumOk'
  BY <1>1 DEF MediumOk
<1>4. ~missed' => ~missed /\ Written(here)'
  BY <1>1 DEF Written, Image, Place
<1> QED BY <1>2, <1>3, <1>4, WroteKept

LEMMA SlotKept ==
  ASSUME InstallInv, WriteSlot
  PROVE  InstallInv'
<1>1. step = "write" /\ NextBoot /\ Boot.kind = "slot" /\ Working
  BY DEF WriteSlot, Write, InstallInv
<1>2. PICK here, old : here = Boot /\ old = medium[Boot]
  OBVIOUS
<1>3. \A i : DOMAIN [old EXCEPT !.image = i] = DOMAIN Empty /\ [old EXCEPT !.image = i].image = i
  BY <1>1, <1>2, BootIs DEF Empty
<1>4. CASE Image.kernel \notin Files(Place)
  <2>1. medium' = medium /\ missed' = missed
    BY <1>4 DEF WriteSlot
  <2> QED BY <1>1, <1>4, <2>1, LeftKept
<1>5. CASE Image.kernel \in Files(Place)
  <2> DEFINE worse == {[old EXCEPT !.image = [Image EXCEPT !.root = r, !.append = a]] :
                         r \in {old.image.root, ""}, a \in {old.image.append, ""}}
  <2>1. Unchecked([old EXCEPT !.image = Image], worse)
    BY <1>2, <1>5 DEF WriteSlot
  <2>2. \A w \in worse : DOMAIN w = DOMAIN Empty
    BY <1>3
  <2> HIDE DEF worse
  <2>3. CASE Leave([old EXCEPT !.image = Image]) /\ missed' = missed
    BY <1>1, <1>2, <1>3, <2>3, PutKept
  <2>4. ASSUME NEW w \in worse, Leave(w), missed' PROVE InstallInv'
    BY <1>1, <1>2, <2>2, <2>4, PutKept
  <2> QED BY <2>1, <2>3, <2>4 DEF Unchecked
<1> QED BY <1>4, <1>5

LEMMA NoWordsIs ==
  /\ NoWords.kernel = Image.kernel /\ NoWords.initrd = Image.initrd
  /\ [Empty EXCEPT !.image = NoWords].image = NoWords
  /\ DOMAIN [Empty EXCEPT !.image = NoWords] = DOMAIN Empty
<1>1. DOMAIN Image = {"kernel", "initrd", "root", "append"}
  BY DEF Image, IseriesImage, NoImage
<1> QED BY <1>1 DEF NoWords, Empty

LEMMA FileKept ==
  ASSUME InstallInv, WriteFile \/ WriteBlock
  PROVE  InstallInv'
<1>1. step = "write" /\ NextBoot /\ Boot.kind # "slot" /\ Working
  BY DEF WriteFile, WriteBlock, Write, InstallInv
<1>2. PICK here : here = Boot
  OBVIOUS
<1>3. DOMAIN medium[here] = DOMAIN Empty
  BY <1>1, <1>2, BootIs
<1>4. \/ Leave([Empty EXCEPT !.image = NoWords]) /\ missed' = missed
      \/ missed' /\ \E w : DOMAIN w = DOMAIN Empty /\ Leave(w)
      \/ medium' = medium /\ missed'
  <2>1. CASE WriteFile
    <3>1. CASE Image.kernel \in Files(Place)
      BY <2>1, <3>1 DEF WriteFile, Unchecked
    <3>2. CASE Image.kernel \notin Files(Place)
      BY <2>1, <3>2 DEF WriteFile
    <3> QED BY <3>1, <3>2
  <2>2. CASE WriteBlock
    <3>1. CASE Image.kernel \in Files(Place)
      BY <1>2, <1>3, <2>2, <3>1 DEF WriteBlock, Unchecked
    <3>2. CASE Image.kernel \notin Files(Place)
      BY <2>2, <3>2 DEF WriteBlock
    <3> QED BY <3>1, <3>2
  <2> QED BY <2>1, <2>2
<1>5. CASE Leave([Empty EXCEPT !.image = NoWords]) /\ missed' = missed
  BY <1>1, <1>2, <1>5, NoWordsIs, PutKept
<1>6. ASSUME NEW w, DOMAIN w = DOMAIN Empty, Leave(w), missed' PROVE InstallInv'
  BY <1>1, <1>2, <1>6, PutKept
<1>7. CASE medium' = medium /\ missed'
  BY <1>1, <1>7, LeftKept
<1> QED BY <1>4, <1>5, <1>6, <1>7

LEMMA RefusedKept ==
  ASSUME InstallInv, SlotFails \/ FlagFails \/ WriteRefused \/ MountFails \/ DeviceUnknown
  PROVE  InstallInv'
<1>1. step \notin {"idle", "check"} /\ Stop /\ Working
  BY DEF SlotFails, FlagFails, WriteRefused, MountFails, DeviceUnknown, Write, InstallInv
<1>2. UNCHANGED medium \/ \E w : DOMAIN w = DOMAIN Empty /\ Leave(w)
  BY NoWordsIs DEF SlotFails, FlagFails, WriteRefused, MountFails, DeviceUnknown
<1>3. MediumOk'
  BY <1>1, <1>2, BootIs, LeaveIs DEF Stop, Working, MediumOk
<1> QED BY <1>1, <1>3, StopKept

LEMMA CutKept ==
  ASSUME InstallInv, Cut
  PROVE  InstallInv'
<1>1. Working /\ MediumOk /\ machine' = machine /\ step' = "idle" /\ ended' = "cut"
  BY DEF Cut, InstallInv, Working
<1>2. MediumOk'
  <2>1. CASE UNCHANGED medium
    BY <1>1, <2>1 DEF MediumOk
  <2>2. CASE step \notin {"check", "image", "activate"} /\ Leave(Empty)
    BY <1>1, <2>2, BootIs, LeaveIs DEF Cut
  <2> QED BY <2>1, <2>2 DEF Cut
<1> QED BY <1>1, <1>2, Halted

(* Pegasos and PS3. *)
LEMMA YabootKept ==
  ASSUME InstallInv, CopyYaboot
  PROVE  InstallInv'
<1>1. /\ machine.type = "pegasos" /\ Working /\ step = "copy" /\ MediumOk /\ NextBoot
      /\ UNCHANGED <<machine, conf>>
  BY DEF InstallInv, CopyYaboot, Working, NextBoot
<1>2. PICK here, new : here = Boot /\ new = [Empty EXCEPT !.loader = TRUE, !.conf = PegasosConf(Place, conf)]
  OBVIOUS
<1>3. here \in DOMAIN medium /\ here = BootsOf(conf)[1]
  <2>1. left = BootsOf(conf) /\ IsList(left) /\ left # <<>>
    BY <1>1 DEF Working
  <2> QED BY <1>1, <1>2, <2>1, BootIs, Nonempty DEF Boot
<1>4. DOMAIN new = DOMAIN Empty
  BY <1>2 DEF Empty
<1>5. Leave(new) \/ (missed' /\ Leave(Empty))
  BY <1>2 DEF CopyYaboot, Unchecked
<1>6. MediumOk' /\ (~missed' => medium'[here] = new)
  BY <1>1, <1>2, <1>3, <1>4, <1>5, LeaveIs
<1>7. Working' /\ step' = "idle" /\ ended' = "done"
  BY <1>1, <1>6, NextIs
<1>8. BootsOf(conf)' = BootsOf(conf) /\ PegasosConf(Place, conf)' = PegasosConf(Place, conf)
  BY <1>1 DEF BootsOf, Place
<1>9. ~missed' => medium'[BootsOf(conf)'[1]] = [Empty EXCEPT !.loader = TRUE, !.conf = PegasosConf(Place, conf)']
  BY <1>2, <1>3, <1>6, <1>8
<1>10. (~missed' => Result') /\ Ps3Done'
  BY <1>1, <1>7, <1>9 DEF Result, Ps3Done, NewWorld, PowerMac
<1> QED BY <1>7, <1>10 DEF InstallInv

LEMMA KbootKept ==
  ASSUME InstallInv, WriteKboot
  PROVE  InstallInv'
<1>1. /\ machine.type = "ps3" /\ Working /\ step = "kboot" /\ MediumOk /\ NextBoot
      /\ UNCHANGED <<machine, conf>>
  BY StepIs DEF InstallInv, WriteKboot, Working, NextBoot
<1>2. PICK here : here = Boot
  OBVIOUS
<1>3. here \in DOMAIN medium /\ here = "/etc/kboot.conf"
  <2>1. left = <<"/etc/kboot.conf">>
    BY <1>1 DEF Working, BootsOf
  <2>2. Boot = "/etc/kboot.conf"
    BY <2>1 DEF Boot
  <2> QED BY <1>1, <1>2, <2>2, BootIs
<1>4. MediumOk' /\ medium'[here].loader
  <2>1. CASE medium[here].loader
    <3>1. medium' = medium
      BY <1>2, <2>1 DEF WriteKboot
    <3> QED BY <1>1, <2>1, <3>1 DEF MediumOk
  <2>2. CASE ~medium[here].loader
    <3>1. \E c : Leave([Empty EXCEPT !.loader = TRUE, !.conf = c])
      BY <1>2, <2>2 DEF WriteKboot
    <3>2. PICK c : Leave([Empty EXCEPT !.loader = TRUE, !.conf = c])
      BY <3>1
    <3>3. PICK w : w = [Empty EXCEPT !.loader = TRUE, !.conf = c]
      OBVIOUS
    <3>4. DOMAIN w = DOMAIN Empty /\ w.loader
      BY <3>3 DEF Empty
    <3> QED BY <1>1, <1>2, <1>3, <3>2, <3>3, <3>4, LeaveIs
  <2> QED BY <2>1, <2>2
<1>5. Working'
  BY <1>1, <1>4, NextIs
<1>6. Result' /\ Ps3Done'
  BY <1>1, <1>3, <1>4 DEF Result, Ps3Done, NewWorld, PowerMac
<1> QED BY <1>5, <1>6 DEF InstallInv

LEMMA InstallKept ==
  ASSUME InstallInv, InstallNext
  PROVE  InstallInv'
  BY BeginKept, MountKept, CleanKept, CopyKept, ActivateKept, CheckKept, DdKept, MakeKept, SlotKept, FileKept,
     RefusedKept, YabootKept, KbootKept, CutKept DEF InstallNext

(* All this holds in every state. *)
OthersInv == IF machine.type = "chrp" THEN ended = "never" ELSE InstallInv

LEMMA OthersInvHolds == Spec => []OthersInv
<1>1. Init => OthersInv
  <2>1. ASSUME NEW m \in Machines, OnChrp(m) PROVE OthersInv
    <3>1. machine.type = "chrp" /\ ended = "never"
      BY <2>1, ChrpAssumption DEF OnChrp, ChrpAssumption
    <3> QED BY <3>1 DEF OthersInv
  <2>2. ASSUME OnOthers PROVE InstallInv
    <3>1. machine \in Others /\ medium = machine.medium /\ step = "idle" /\ ended = "never"
      BY <2>2 DEF OnOthers, InstallInit
    <3>2. MediumOk
      BY <3>1, OthersAssumption DEF OthersAssumption, MediumOk
    <3> QED BY <3>1, <3>2 DEF InstallInv, Working, Result, Ps3Done
  <2>3. ASSUME OnOthers PROVE machine.type # "chrp"
    BY <2>3, OtherType DEF OnOthers, InstallInit
  <2> QED BY <2>1, <2>2, <2>3 DEF Init, OthersInv
<1>2. OthersInv /\ [Next]_vars => OthersInv'
  <2> SUFFICES ASSUME OthersInv, [Next]_vars PROVE OthersInv'
    OBVIOUS
  <2>1. machine' = machine
    BY MachineStays DEF Next, vars, installVars
  <2>10. CASE machine.type = "chrp"
    BY <2>1, <2>10 DEF OthersInv, Next, vars, installVars
  <2> SUFFICES ASSUME machine.type # "chrp" PROVE InstallInv'
    BY <2>1, <2>10 DEF OthersInv
  <2>2. InstallInv
    BY DEF OthersInv
  <2>3. CASE InstallNext
    BY <2>2, <2>3, InstallKept
  <2>4. CASE UNCHANGED installVars
    <3>1. UNCHANGED <<machine, conf, step, left, medium, known, ended, missed>>
      BY <2>4 DEF installVars
    <3>2. Working'
      BY <2>2, <3>1 DEF InstallInv, Working, MediumOk, Accepted, BootsOf, Boot, Place
    <3>3. Ps3Done'
      BY <2>2, <3>1 DEF InstallInv, Ps3Done
    <3>4. Result => Result'
      <4>1. BootsOf(conf)' = BootsOf(conf) /\ (NewWorld' <=> NewWorld) /\ (PowerMac' <=> PowerMac)
            /\ PegasosConf(Place, conf)' = PegasosConf(Place, conf) /\ PrepImage(conf)' = PrepImage(conf)
        BY <3>1 DEF BootsOf, NewWorld, PowerMac, Place
      <4>2. \A m : Loaded(m) <=> Loaded(m)'
        BY <3>1 DEF Loaded, NewWorld, Place, GlobalCopy, NewWorldCopies, OldWorldCopies
      <4>3. \A b : (Waits(b) <=> Waits(b)') /\ (Written(b) <=> Written(b)')
        BY <3>1 DEF Waits, Written, Image, Place
      <4>4. PICK m, t : m = medium[conf.boot[1]] /\ t = medium[BootsOf(conf)[1]]
        OBVIOUS
      <4>5. medium[conf.boot[1]]' = m /\ medium[BootsOf(conf)[1]]' = t
        BY <3>1, <4>1, <4>4
      <4>6. Loaded(medium[conf.boot[1]])' <=> Loaded(m)'
        BY <4>5
      <4>7. \A i : conf.boot[i]' = conf.boot[i]
        BY <3>1
      <4> QED BY <3>1, <4>1, <4>2, <4>3, <4>4, <4>5, <4>6, <4>7 DEF Result
    <3> QED BY <2>2, <3>1, <3>2, <3>3, <3>4 DEF InstallInv
  <2> QED BY <2>1, <2>3, <2>4 DEF Next, vars
<1> QED BY <1>1, <1>2, PTL DEF Spec

-----------------------------------------------------------------------------
(* The first of some sections. *)
LEMMA FirstIs ==
  ASSUME NEW n \in Nat, NEW S \in SUBSET (1..n), NEW i \in S, \A j \in S : i <= j
  PROVE  First(S) = i
<1>1. \A k \in S : (\A j \in S : k <= j) => k = i
  OBVIOUS
<1> QED BY <1>1 DEF First

LEMMA Before1 ==
  ASSUME NEW n \in Nat, NEW i \in 1..n, NEW j \in 1..n, j \notin 1..i - 1
  PROVE  i <= j
  OBVIOUS

LEMMA OfferedNr ==
  ASSUME NEW c, Shaped(c), NEW i \in Offered(c)
  PROVE  i # 0
<1>1. PICK n \in Nat : Offered(c) \in SUBSET (1..n)
  BY OfferedIs
<1>2. i \in 1..n
  BY <1>1
<1>3. \A k \in 1..n : k # 0
  OBVIOUS
<1> QED BY <1>2, <1>3

(* What was read when lilo ended well. *)
LEMMA ConfIs ==
  ASSUME Working, ended = "done", machine.type # "ps3"
  PROVE  /\ Shaped(conf) /\ BootGiven(machine.type, conf) /\ Suitable(machine, conf)
         /\ "" \notin DOMAIN Place /\ \A f \in Files(Place) : Place[f].part \in Nat \X Nat
         /\ \A i \in Offered(conf) :
              /\ conf.sections[i].file \in Files(Place)
              /\ conf.sections[i].initrd # "" => conf.sections[i].initrd \in Files(Place)
         /\ \A i \in DOMAIN conf.sections :
              conf.sections[i].label = conf.default => ~Absent(Place, conf.sections[i])
<1>1. machine \in Others /\ conf.ok /\ \E lines \in machine.files : conf = Read(Place, machine.type, lines)
  BY DEF Working, Accepted
<1>2. "" \notin DOMAIN Place /\ \A f \in Files(Place) : Place[f].part \in Nat \X Nat
  BY <1>1, OthersAssumption DEF OthersAssumption, Place
<1> QED BY <1>1, <1>2, AcceptedIs

(* The one kernel of a machine without a loader. *)
ImageOf(c, i) ==
  [kernel |-> c.sections[i].file, initrd |-> Or(c.sections[i].initrd, c.initrd),
   root |-> Or(c.sections[i].root, c.root), append |-> Or(c.sections[i].append, c.append)]

LEMMA ChosenIs ==
  ASSUME Working, ended = "done", machine.type \in {"prep", "iseries"}, Sound(conf)
  PROVE  \E i \in Offered(conf) : First(Chosen(conf)) = i /\ Chosen(conf) # {} /\ WantedImage(conf) = ImageOf(conf, i)
<1>1. /\ Shaped(conf) /\ \A i, j \in DOMAIN conf.sections : conf.sections[i].label = conf.sections[j].label => i = j
      /\ conf.default = "" => conf.sections[1].other = ""
  BY ConfIs DEF Suitable
<1>2. PICK n \in Nat : Offered(conf) \in SUBSET (1..n) /\ DOMAIN conf.sections = 1..n
  BY <1>1, OfferedIs
<1>3. CASE conf.default = ""
  <2>1. PICK i \in Offered(conf) : \A j \in 1..i - 1 : conf.sections[j].other # ""
    BY <1>3 DEF Sound
  <2>2. i = 1
    <3>1. i \in 1..n
      BY <1>2, <2>1
    <3>2. i = 1 \/ (1 \in 1..i - 1 /\ 1 \in 1..n)
      BY <3>1
    <3> QED BY <1>1, <1>2, <1>3, <2>1, <3>2
  <2>3. First(Offered(conf)) = 1
    <3>1. \A j \in Offered(conf) : j \in 1..n
      BY <1>2
    <3>2. \A j \in 1..n : 1 <= j
      OBVIOUS
    <3> QED BY <1>2, <2>1, <2>2, <3>1, <3>2, FirstIs
  <2>4. Chosen(conf) = {1} /\ First({1}) = 1
    <3>1. {1} \in SUBSET (1..1) /\ 1 \in {1} /\ (\A j \in {1} : 1 <= j) /\ 1 \in Nat
      OBVIOUS
    <3>2. First({1}) = 1
      BY <3>1, FirstIs
    <3> QED BY <1>3, <3>2 DEF Chosen
  <2> QED BY <1>3, <2>1, <2>2, <2>3, <2>4 DEF WantedImage, ImageOf
<1>4. CASE conf.default # ""
  <2>1. PICK i \in Offered(conf) : conf.sections[i].label = conf.default
    BY <1>4 DEF Sound, NewWorld
  <2>2. i \in 1..n /\ \A j \in DOMAIN conf.sections : conf.sections[j].label = conf.default => j = i
    BY <1>1, <1>2, <2>1
  <2>3. Chosen(conf) = {i}
    BY <1>2, <1>4, <2>1, <2>2 DEF Chosen
  <2>4. First({i}) = i
    BY <2>2, FirstIs
  <2>5. i = CHOOSE j \in Offered(conf) : conf.sections[j].label = conf.default
    BY <1>2, <2>1, <2>2
  <2> QED BY <1>4, <2>1, <2>3, <2>4, <2>5 DEF WantedImage, ImageOf
<1> QED BY <1>3, <1>4

LEMMA PrepRight ==
  ASSUME InstallInv, ended = "done", ~missed, machine.type = "prep", Sound(conf)
  PROVE  InstallRight
<1>1. Working /\ \E b \in machine.prep : medium[b].image = PrepImage(conf)
  BY DEF InstallInv, Result
<1>2. PICK b \in machine.prep : medium[b].image = PrepImage(conf)
  BY <1>1
<1>3. b \in DOMAIN medium
  BY <1>1, OthersAssumption DEF OthersAssumption, Working, MediumOk
<1>4. PICK i \in Offered(conf) : First(Chosen(conf)) = i /\ Chosen(conf) # {} /\ WantedImage(conf) = ImageOf(conf, i)
  BY <1>1, ChosenIs
<1>5. "" \in {conf.sections[i].root, conf.root}
  BY <1>1, <1>4, ConfIs DEF Suitable, Offered
<1>6. PrepImage(conf) = WantedImage(conf)
  BY <1>4, <1>5 DEF PrepImage, ImageOf, Or
<1> QED BY <1>2, <1>3, <1>6 DEF InstallRight, ImageRight

LEMMA IseriesRight ==
  ASSUME InstallInv, ended = "done", ~missed, machine.type = "iseries", Sound(conf)
  PROVE  InstallRight
<1>1. Working /\ \A i \in DOMAIN conf.boot : Waits(conf.boot[i]) \/ Written(conf.boot[i])
  BY DEF InstallInv, Result
<1>2. step = "idle"
  BY <1>1 DEF Working
<1>3. PICK i \in Offered(conf) : First(Chosen(conf)) = i /\ Chosen(conf) # {} /\ WantedImage(conf) = ImageOf(conf, i)
  BY <1>1, ChosenIs
<1>4. Image = WantedImage(conf)
  BY <1>3 DEF IseriesImage, ImageOf, Image
<1>5. Image.kernel \in Files(Place)
  <2>1. conf.sections[i].file \in Files(Place)
    BY <1>1, <1>3, ConfIs
  <2> QED BY <1>3, <1>4, <2>1 DEF ImageOf
<1>6. ASSUME NEW k \in DOMAIN conf.boot PROVE ImageRight(conf.boot[k], medium[conf.boot[k]].image)
  <2>1. PICK b : b = conf.boot[k]
    OBVIOUS
  <2>2. Written(b)
    BY <1>1, <1>2, <2>1 DEF Waits
  <2>3. ImageRight(b, medium[b].image)
    BY <1>4, <1>5, <2>2 DEF Written, ImageRight
  <2> QED BY <2>1, <2>3
<1> QED BY <1>6 DEF InstallRight

(* What makes a loader's configuration right. *)
LEMMA EntriesLead ==
  ASSUME NEW m, m.loader, NEW at, NEW paths, EntriesOf(m.conf.entries, conf, paths),
         \A i \in Offered(conf) :
           /\ Leads(Place, m.conf, at, m.copies, paths["vmlinux"][i], conf.sections[i].file)
           /\ conf.sections[i].initrd # "" =>
                Leads(Place, m.conf, at, m.copies, paths["initrd"][i], conf.sections[i].initrd),
         conf.initrd # "" => Leads(Place, m.conf, at, m.copies, m.conf.initrd, conf.initrd),
         m.conf.default # "" => \E i \in Offered(conf) : conf.sections[i].label = m.conf.default
  PROVE  LoaderRight(m, at)
<1>1. PICK cf, copies : cf = m.conf /\ copies = m.copies
  OBVIOUS
<1>2. /\ {cf.entries[n].section : n \in DOMAIN cf.entries} = Offered(conf)
      /\ \A n \in DOMAIN cf.entries : EntryOf(cf.entries[n], conf, paths)
  BY <1>1 DEF EntriesOf
<1>3. ASSUME NEW n \in DOMAIN cf.entries
      PROVE  LET e == cf.entries[n]
                 s == conf.sections[e.section]
             IN /\ e.label = s.label /\ Leads(Place, cf, at, copies, e.image, s.file)
                /\ s.initrd # "" => Leads(Place, cf, at, copies, e.initrd, s.initrd)
  <2>1. PICK e, i : e = cf.entries[n] /\ i = e.section
    OBVIOUS
  <2>2. EntryOf(e, conf, paths)
    BY <1>2, <1>3, <2>1
  <2>3. /\ i \in Offered(conf) /\ e.label = conf.sections[i].label /\ e.image = paths["vmlinux"][i]
        /\ conf.sections[i].initrd # "" => e.initrd = paths["initrd"][i]
    BY <2>1, <2>2 DEF EntryOf
  <2>4. /\ Leads(Place, cf, at, copies, e.image, conf.sections[i].file)
        /\ conf.sections[i].initrd # "" => Leads(Place, cf, at, copies, e.initrd, conf.sections[i].initrd)
    BY <1>1, <2>3
  <2> QED BY <2>1, <2>3, <2>4
<1>4. cf.default # "" => \E n \in DOMAIN cf.entries : cf.entries[n].label = cf.default
  <2> SUFFICES ASSUME cf.default # "" PROVE \E n \in DOMAIN cf.entries : cf.entries[n].label = cf.default
    OBVIOUS
  <2>1. PICK i \in Offered(conf) : conf.sections[i].label = cf.default
    BY <1>1
  <2>2. PICK n \in DOMAIN cf.entries : cf.entries[n].section = i
    BY <1>2, <2>1
  <2> QED BY <1>3, <2>1, <2>2
<1>5. conf.initrd # "" => Leads(Place, cf, at, copies, cf.initrd, conf.initrd)
  BY <1>1
<1> QED BY <1>1, <1>2, <1>3, <1>4, <1>5 DEF LoaderRight

PegasosPaths(place, c) ==
  [k \in Paths |-> [i \in Offered(c) |-> Original("full", place[Named(c, k, i)].part, Named(c, k, i))]]

LEMMA PegasosConfIs ==
  ASSUME NEW place, NEW c, Shaped(c), NEW cf, cf = PegasosConf(place, c)
  PROVE  /\ cf.partition = 0 /\ cf.default = c.default /\ EntriesOf(cf.entries, c, PegasosPaths(place, c))
         /\ c.initrd # "" => cf.initrd = Original("here", Nowhere, c.initrd)
<1>1. cf.entries = Entries(c, PegasosPaths(place, c))
  BY DEF PegasosConf, PegasosPaths
<1>2. /\ cf.partition = 0 /\ cf.default = c.default
      /\ c.initrd # "" => cf.initrd = Original("here", Nowhere, c.initrd)
  BY DEF PegasosConf
<1> QED BY <1>1, <1>2, EntriesAre

LEMMA PegasosRight ==
  ASSUME InstallInv, ended = "done", ~missed, machine.type = "pegasos", Sound(conf)
  PROVE  InstallRight
<1>1. Working /\ medium[BootsOf(conf)[1]] = [Empty EXCEPT !.loader = TRUE, !.conf = PegasosConf(Place, conf)]
  BY DEF InstallInv, Result
<1>2. PICK m : m = medium[BootsOf(conf)[1]]
  OBVIOUS
<1> DEFINE paths == PegasosPaths(Place, conf)
<1>3. m.loader /\ m.conf = PegasosConf(Place, conf)
  BY <1>1, <1>2 DEF Empty
<1>4. Shaped(conf)
  BY <1>1, ConfIs
<1>5. /\ m.conf.partition = 0 /\ m.conf.default = conf.default /\ EntriesOf(m.conf.entries, conf, paths)
      /\ conf.initrd # "" => m.conf.initrd = Original("here", Nowhere, conf.initrd)
  <2>1. PICK cf, place, c : cf = m.conf /\ place = Place /\ c = conf
    OBVIOUS
  <2>2. Shaped(c) /\ cf = PegasosConf(place, c)
    BY <1>3, <1>4, <2>1
  <2>3. /\ cf.partition = 0 /\ cf.default = c.default /\ EntriesOf(cf.entries, c, PegasosPaths(place, c))
        /\ c.initrd # "" => cf.initrd = Original("here", Nowhere, c.initrd)
    BY <2>2, PegasosConfIs
  <2> QED BY <2>1, <2>3
<1>6. ASSUME NEW i \in Offered(conf)
      PROVE  /\ Leads(Place, m.conf, machine.at, m.copies, paths["vmlinux"][i], conf.sections[i].file)
             /\ conf.sections[i].initrd # "" =>
                  Leads(Place, m.conf, machine.at, m.copies, paths["initrd"][i], conf.sections[i].initrd)
  <2>1. ASSUME NEW k \in Paths, Named(conf, k, i) # ""
        PROVE  Leads(Place, m.conf, machine.at, m.copies, paths[k][i], Named(conf, k, i))
    <3>1. PICK f : f = Named(conf, k, i)
      OBVIOUS
    <3>2. paths[k][i] = Original("full", Place[f].part, f)
      BY <2>1, <3>1 DEF PegasosPaths
    <3>3. Place[f].readable
      BY <1>1, <2>1, <3>1, ConfIs DEF Suitable, Place
    <3> QED BY <3>1, <3>2, <3>3 DEF Leads, Original, PartOf
  <2>2. conf.sections[i].file # ""
    BY <1>1, ConfIs DEF Files
  <2> QED BY <2>1, <2>2 DEF Named, Paths
<1>7. conf.initrd # "" => Leads(Place, m.conf, machine.at, m.copies, m.conf.initrd, conf.initrd)
  <2> SUFFICES ASSUME conf.initrd # "" PROVE Leads(Place, m.conf, machine.at, m.copies, m.conf.initrd, conf.initrd)
    OBVIOUS
  <2>1. Place[conf.initrd].readable /\ Place[conf.initrd].part = machine.at
    BY <1>1, ConfIs DEF Suitable, Place
  <2>2. PICK p, q : p = m.conf.initrd /\ q = m.conf.partition
    OBVIOUS
  <2>3. p = Original("here", Nowhere, conf.initrd) /\ q = 0
    BY <1>5, <2>2
  <2>4. p.name = <<conf.initrd, 0>> /\ p.form = "here"
    BY <2>3 DEF Original
  <2> QED BY <2>1, <2>2, <2>3, <2>4 DEF Leads, PartOf
<1>8. m.conf.default # "" => \E i \in Offered(conf) : conf.sections[i].label = m.conf.default
  BY <1>5 DEF Sound, NewWorld
<1> HIDE DEF paths
<1>9. LoaderRight(m, machine.at)
  BY <1>3, <1>5, <1>6, <1>7, <1>8, EntriesLead
<1> QED BY <1>2, <1>9 DEF InstallRight

MacPath(place, c, kind, i) ==
  LET f == Named(c, kind, i) IN
  IF IF kind = "vmlinux" THEN ImageCopied(place, c.sections[i]) ELSE InitrdCopied(place, c.sections[i])
  THEN Copied(kind, i)
  ELSE IF place[f].part[1] = c.boot[1][1] THEN Original("device", <<0, place[f].part[2]>>, f)
  ELSE Original("full", place[f].part, f)

MacPaths(place, c) == [k \in Paths |-> [i \in Offered(c) |-> MacPath(place, c, k, i)]]
OldPaths(c) == [k \in Paths |-> [i \in Offered(c) |-> Copied(k, i)]]

LEMMA MacConfIs ==
  ASSUME NEW place, NEW c, Shaped(c), NEW cf, cf = NewWorldConf(place, c)
  PROVE  /\ cf.partition = 0 /\ cf.default = NewWorldDefault(c) /\ EntriesOf(cf.entries, c, MacPaths(place, c))
         /\ c.initrd # "" => cf.initrd = Copied("initrd.def", 0)
<1>1. cf.entries = Entries(c, MacPaths(place, c))
  BY DEF NewWorldConf, MacPaths, MacPath
<1>2. /\ cf.partition = 0 /\ cf.default = NewWorldDefault(c)
      /\ c.initrd # "" => cf.initrd = Copied("initrd.def", 0)
  BY DEF NewWorldConf
<1> QED BY <1>1, <1>2, EntriesAre

LEMMA OldConfIs ==
  ASSUME NEW c, Shaped(c), NEW cf, cf = OldWorldConf(c)
  PROVE  /\ cf.partition = 0 /\ cf.default = c.default /\ EntriesOf(cf.entries, c, OldPaths(c))
         /\ c.initrd # "" => cf.initrd = Copied("initrd.def", 0)
<1>1. cf.entries = Entries(c, OldPaths(c))
  BY DEF OldWorldConf, OldPaths
<1>2. /\ cf.partition = 0 /\ cf.default = c.default
      /\ c.initrd # "" => cf.initrd = Copied("initrd.def", 0)
  BY DEF OldWorldConf
<1> QED BY <1>1, <1>2, EntriesAre

(* A copy is found where yaboot is, *)
LEMMA CopyLeads ==
  ASSUME NEW cf, cf.partition = 0, NEW at, NEW copies, NEW kind, NEW i, NEW f,
         <<kind, i>> # <<f, 0>>, <<<<kind, i>>, f>> \in copies
  PROVE  Leads(Place, cf, at, copies, Copied(kind, i), f)
  BY DEF Leads, Copied, PartOf

(* and an original on its own partition. *)
LEMMA OriginalLeads ==
  ASSUME NEW cf, NEW at, NEW copies, NEW f, NEW part, Place[f].part = part, Place[f].readable,
         part \in Nat \X Nat
  PROVE  /\ Leads(Place, cf, at, copies, Original("full", part, f), f)
         /\ at[1] = part[1] => Leads(Place, cf, at, copies, Original("device", <<0, part[2]>>, f), f)
<1>1. part = <<part[1], part[2]>>
  OBVIOUS
<1> QED BY <1>1 DEF Leads, Original, PartOf

LEMMA MacLeads ==
  ASSUME Working, ended = "done", NewWorld, NEW cf, cf.partition = 0, NEW copies, NewWorldCopies \subseteq copies,
         NEW kind \in Paths, NEW i \in Offered(conf), NEW f, f = Named(conf, kind, i), f # ""
  PROVE  Leads(Place, cf, conf.boot[1], copies, MacPath(Place, conf, kind, i), f)
<1> DEFINE copied == IF kind = "vmlinux" THEN ImageCopied(Place, conf.sections[i])
                     ELSE InitrdCopied(Place, conf.sections[i])
<1>1. /\ Shaped(conf) /\ Suitable(machine, conf) /\ f \in Files(Place) /\ Place[f].part \in Nat \X Nat
  BY ConfIs DEF NewWorld, Named
<1>2. CASE copied
  <2>1. MacPath(Place, conf, kind, i) = Copied(kind, i)
    BY <1>2 DEF MacPath
  <2>2. <<<<kind, i>>, f>> \in NewWorldCopies
    BY <1>2 DEF NewWorldCopies, Paths, Named
  <2>3. i # 0
    BY <1>1, OfferedNr
  <2> QED BY <2>1, <2>2, <2>3, CopyLeads
<1>3. CASE ~copied
  <2>1. Place[f].readable
    <3>1. ~conf.sections[i].copy /\ Place[f].named
      BY <1>3 DEF ImageCopied, InitrdCopied, Paths, Named
    <3> QED BY <1>1, <3>1 DEF Suitable, NewWorld, Place
  <2>2. PICK part : part = Place[f].part
    OBVIOUS
  <2>3. \/ MacPath(Place, conf, kind, i) = Original("full", part, f)
        \/ /\ MacPath(Place, conf, kind, i) = Original("device", <<0, part[2]>>, f)
           /\ conf.boot[1][1] = part[1]
    BY <1>3, <2>2 DEF MacPath
  <2> QED BY <1>1, <2>1, <2>2, <2>3, OriginalLeads
<1> QED BY <1>2, <1>3

(* What yaboot starts by itself on a PowerMac, *)
LEMMA MacDefault ==
  ASSUME Shaped(conf), Sound(conf), PowerMac,
         NEW default, default = (IF NewWorld THEN NewWorldDefault(conf) ELSE conf.default), default # ""
  PROVE  \E i \in Offered(conf) : conf.sections[i].label = default
<1>1. CASE NewWorld /\ conf.default \in Mac
  <2> DEFINE kernels == {i \in DOMAIN conf.sections : conf.sections[i].other = ""}
  <2>1. PICK i \in Offered(conf) : \A j \in 1..i - 1 : conf.sections[j].other # ""
    BY <1>1 DEF Sound
  <2>2. PICK n \in Nat : Offered(conf) \in SUBSET (1..n) /\ DOMAIN conf.sections = 1..n
    BY OfferedIs
  <2>3. i \in kernels /\ kernels \in SUBSET (1..n) /\ i \in 1..n
    BY <2>1, <2>2 DEF Offered, Kernel
  <2>4. ASSUME NEW j \in kernels PROVE i <= j
    <3>1. j \in 1..n /\ j \notin 1..i - 1
      BY <2>1, <2>3, <2>4
    <3> QED BY <2>2, <2>3, <3>1, Before1
  <2>5. First(kernels) = i
    <3> HIDE DEF kernels
    <3> QED BY <2>2, <2>3, <2>4, FirstIs
  <2>6. kernels # {}
    BY <2>3
  <2>7. default = conf.sections[First(kernels)].label
    BY <1>1, <2>6 DEF NewWorldDefault
  <2> QED BY <2>1, <2>5, <2>7
<1>2. CASE ~(NewWorld /\ conf.default \in Mac)
  <2>1. default = conf.default
    BY <1>2 DEF NewWorldDefault
  <2> QED BY <1>2, <2>1 DEF Sound
<1> QED BY <1>1, <1>2

(* and the firmware when Mac OS is the default. *)
LEMMA MacScript ==
  ASSUME Working, ended = "done", NewWorld, conf.default \in Mac, ~conf.no_os_chooser
  PROVE  Place[BootScript(conf).alone].kind = "block"
<1> DEFINE others == {i \in DOMAIN conf.sections : conf.sections[i].other # ""}
<1>1. /\ Shaped(conf) /\ Suitable(machine, conf) /\ "" \notin DOMAIN Place
      /\ \A i \in DOMAIN conf.sections : conf.sections[i].label = conf.default => ~Absent(Place, conf.sections[i])
  BY ConfIs DEF NewWorld
<1>2. PICK i \in DOMAIN conf.sections : /\ conf.sections[i].other # "" /\ conf.sections[i].label = conf.default
                                       /\ \A j \in 1..i - 1 : conf.sections[j].other = ""
  BY <1>1 DEF Suitable, NewWorld
<1>3. PICK n \in Nat : DOMAIN conf.sections = 1..n
  BY <1>1, OfferedIs
<1>4. First(others) = i /\ others # {}
  <2>1. i \in others /\ others \in SUBSET (1..n) /\ i \in 1..n
    BY <1>2, <1>3
  <2>2. ASSUME NEW j \in others PROVE i <= j
    <3>1. j \in 1..n /\ j \notin 1..i - 1
      BY <1>2, <2>1, <2>2
    <3> QED BY <1>3, <2>1, <3>1, Before1
  <2> HIDE DEF others
  <2> QED BY <1>3, <2>1, <2>2, FirstIs
<1>5. BootScript(conf).alone = conf.sections[i].other
  BY <1>4 DEF BootScript
<1>6. conf.sections[i].other \in Blocks(Place)
  <2>1. conf.sections[i].file = ""
    BY <1>1, <1>2 DEF Shaped, OneSystem
  <2>2. conf.sections[i].file \notin Files(Place)
    BY <1>1, <2>1 DEF Files
  <2> QED BY <1>1, <1>2, <2>2 DEF Absent
<1> QED BY <1>5, <1>6 DEF Blocks

LEMMA MacRight ==
  ASSUME InstallInv, ended = "done", ~missed, PowerMac, Sound(conf)
  PROVE  InstallRight
<1>1. Working /\ Loaded(medium[conf.boot[1]]) /\ (NewWorld /\ conf.activate => known)
  BY DEF InstallInv, Result
<1>2. PICK m, at : m = medium[conf.boot[1]] /\ at = conf.boot[1]
  OBVIOUS
<1>3. /\ m.loader /\ m.conf = (IF NewWorld THEN NewWorldConf(Place, conf) ELSE OldWorldConf(conf))
      /\ GlobalCopy \subseteq m.copies /\ (IF NewWorld THEN NewWorldCopies ELSE OldWorldCopies) \subseteq m.copies
      /\ NewWorld => ~m.cnf /\ m.script = BootScript(conf)
  BY <1>1, <1>2 DEF Loaded
<1>4. /\ Shaped(conf) /\ conf.initrd # "initrd.def"
      /\ \A i \in Offered(conf) : conf.sections[i].file # ""
  BY <1>1, ConfIs DEF PowerMac, Suitable, Files
<1>5. PICK cf, paths : cf = m.conf /\ paths = IF NewWorld THEN MacPaths(Place, conf) ELSE OldPaths(conf)
  OBVIOUS
<1>6. /\ cf.partition = 0 /\ cf.default = (IF NewWorld THEN NewWorldDefault(conf) ELSE conf.default)
      /\ EntriesOf(cf.entries, conf, paths) /\ (conf.initrd # "" => cf.initrd = Copied("initrd.def", 0))
  <2>1. PICK place, c : place = Place /\ c = conf
    OBVIOUS
  <2>2. CASE NewWorld
    <3>1. Shaped(c) /\ cf = NewWorldConf(place, c)
      BY <1>3, <1>4, <1>5, <2>1, <2>2
    <3>2. /\ cf.partition = 0 /\ cf.default = NewWorldDefault(c) /\ EntriesOf(cf.entries, c, MacPaths(place, c))
          /\ c.initrd # "" => cf.initrd = Copied("initrd.def", 0)
      BY <3>1, MacConfIs
    <3> QED BY <1>5, <2>1, <2>2, <3>2
  <2>3. CASE ~NewWorld
    <3>1. Shaped(c) /\ cf = OldWorldConf(c)
      BY <1>3, <1>4, <1>5, <2>1, <2>3
    <3>2. /\ cf.partition = 0 /\ cf.default = c.default /\ EntriesOf(cf.entries, c, OldPaths(c))
          /\ c.initrd # "" => cf.initrd = Copied("initrd.def", 0)
      BY <3>1, OldConfIs
    <3> QED BY <1>5, <2>1, <2>3, <3>2
  <2> QED BY <2>2, <2>3
<1>7. ASSUME NEW kind \in Paths, NEW i \in Offered(conf), Named(conf, kind, i) # ""
      PROVE  Leads(Place, cf, at, m.copies, paths[kind][i], Named(conf, kind, i))
  <2>1. PICK f, copies : f = Named(conf, kind, i) /\ copies = m.copies
    OBVIOUS
  <2>2. CASE NewWorld
    <3>1. paths[kind][i] = MacPath(Place, conf, kind, i)
      BY <1>5, <1>7, <2>2 DEF MacPaths
    <3>2. NewWorldCopies \subseteq copies
      BY <1>3, <2>1, <2>2
    <3>3. Leads(Place, cf, conf.boot[1], copies, MacPath(Place, conf, kind, i), f)
      BY <1>1, <1>6, <1>7, <2>1, <2>2, <3>2, MacLeads
    <3> QED BY <1>2, <2>1, <3>1, <3>3
  <2>3. CASE ~NewWorld
    <3>1. paths[kind][i] = Copied(kind, i)
      BY <1>5, <1>7, <2>3 DEF OldPaths
    <3>2. <<<<kind, i>>, f>> \in copies
      BY <1>3, <1>7, <2>1, <2>3 DEF OldWorldCopies, Paths, Named
    <3>3. i # 0
      BY <1>4, <1>7, OfferedNr
    <3> QED BY <1>6, <2>1, <3>1, <3>2, <3>3, CopyLeads
  <2> QED BY <2>2, <2>3
<1>8. ASSUME NEW i \in Offered(conf)
      PROVE  /\ Leads(Place, cf, at, m.copies, paths["vmlinux"][i], conf.sections[i].file)
             /\ conf.sections[i].initrd # "" =>
                  Leads(Place, cf, at, m.copies, paths["initrd"][i], conf.sections[i].initrd)
  <2>1. /\ "vmlinux" \in Paths /\ "initrd" \in Paths
        /\ Named(conf, "vmlinux", i) = conf.sections[i].file /\ Named(conf, "initrd", i) = conf.sections[i].initrd
    BY DEF Paths, Named
  <2> QED BY <1>4, <1>7, <1>8, <2>1
<1>9. conf.initrd # "" => Leads(Place, cf, at, m.copies, cf.initrd, conf.initrd)
  <2> SUFFICES ASSUME conf.initrd # "" PROVE Leads(Place, cf, at, m.copies, cf.initrd, conf.initrd)
    OBVIOUS
  <2>1. PICK f, copies : f = conf.initrd /\ copies = m.copies
    OBVIOUS
  <2>2. <<<<"initrd.def", 0>>, f>> \in copies /\ cf.initrd = Copied("initrd.def", 0) /\ f # "initrd.def"
    BY <1>3, <1>4, <1>6, <2>1 DEF GlobalCopy
  <2> QED BY <1>6, <2>1, <2>2, CopyLeads
<1>10. cf.default # "" => \E i \in Offered(conf) : conf.sections[i].label = cf.default
  BY <1>4, <1>6, MacDefault
<1>11. LoaderRight(m, at)
  BY <1>3, <1>5, <1>6, <1>8, <1>9, <1>10, EntriesLead
<1>12. NewWorld /\ conf.default \in Mac /\ ~conf.no_os_chooser => Place[m.script.alone].kind = "block"
  BY <1>1, <1>3, MacScript
<1> QED BY <1>1, <1>2, <1>3, <1>11, <1>12 DEF InstallRight, PowerMac

(* What comes up offers the kernels that lilo.conf asks for, on every      *)
(* machine and after any number of runs.                                   *)
THEOREM KernelsOffered == Spec => []OffersWhatIsAsked
<1>1. OthersInv => OthersOffer
  <2> SUFFICES ASSUME OthersInv, ended = "done", ~missed, machine.type = "ps3" \/ Sound(conf) PROVE InstallRight
    BY DEF OthersOffer
  <2>1. InstallInv
    BY DEF OthersInv
  <2>2. CASE machine.type = "ps3"
    <3>1. medium["/etc/kboot.conf"].loader
      BY <2>1, <2>2 DEF InstallInv, Ps3Done
    <3> QED BY <2>2, <3>1 DEF InstallRight
  <2>3. CASE machine.type # "ps3"
    <3>1. Sound(conf)
      BY <2>3
    <3>2. machine.type \in {"pmac_new", "pmac_old", "prep", "iseries", "pegasos"}
      BY <2>1, <2>3, TypeIs DEF InstallInv, Working
    <3> QED BY <2>1, <3>1, <3>2, MacRight, PegasosRight, PrepRight, IseriesRight DEF PowerMac
  <2> QED BY <2>2, <2>3
<1> QED BY <1>1, ChrpOffersHolds, OthersInvHolds, PTL DEF OffersWhatIsAsked
=============================================================================
