---------------------------- MODULE BootLoad_proofs ----------------------------
(***************************************************************************)
(* What TLAPS proves of loading a kernel and its ramdisk, for every size   *)
(* of memory, every firmware map and every set of kernels and ramdisks:    *)
(* the memory handed to the kernel is claimed for it, nothing the attempt  *)
(* claimed is lost before the kernel is loaded, and the ramdisk is whole.  *)
(***************************************************************************)
EXTENDS BootLoad, WellFoundedInduction, SequenceTheorems, TLAPS

Less == {p \in Nat \X Nat : p[1] < p[2]}

(* A set of numbers that is not empty has a lowest one, *)
LEMMA Lowest ==
  ASSUME NEW T, T \subseteq Nat, T # {}
  PROVE  \E x \in T : \A y \in T : x <= y
<1>1. IsWellFoundedOn(Less, Nat)
  BY NatLessThanWellFounded DEF Less, OpToRel
<1>2. PICK x \in T : \A y \in T : <<y, x>> \notin Less
  BY <1>1, WFMin
<1>3. \A y \in T : ~ (y < x)
  BY <1>2 DEF Less
<1> QED
  BY <1>2, <1>3

(* and a highest one if there is a bound. *)
LEMMA Highest ==
  ASSUME NEW T, NEW n \in Nat, T \subseteq 0 .. n, T # {}
  PROVE  \E x \in T : \A y \in T : y <= x
<1> DEFINE Below == {n - t : t \in T}
<1>1. Below \subseteq Nat /\ Below # {}
  <2>1. \A t \in T : n - t \in Nat
    OBVIOUS
  <2>2. \E t \in T : n - t \in Below
    OBVIOUS
  <2> QED BY <2>1, <2>2
<1> HIDE DEF Below
<1>2. PICK u \in Below : \A v \in Below : u <= v
  BY <1>1, Lowest
<1>3. PICK x \in T : u = n - x
  BY <1>2 DEF Below
<1>4. \A y \in T : n - x <= n - y
  BY <1>2, <1>3 DEF Below
<1> QED
  BY <1>3, <1>4


-----------------------------------------------------------------------------
(* The claim search of prom.c *)

(* prom_claim_chunk fails, or returns a free place at or above the hint. *)
LEMMA ChunkAtSound ==
  ASSUME NEW o, NEW hint \in Nat, NEW size
  PROVE  LET at == ChunkAt(o, hint, size)
         IN  at = Failed \/ (at \in Nat /\ hint <= at /\ Claimable(o, at, size))
<1> DEFINE places == ChunkPlaces(o, hint, size)
<1>1. places \subseteq Nat /\ \A a \in places : hint <= a /\ Claimable(o, a, size)
  BY MemAssumption DEF ChunkPlaces
<1>2. CASE places = {}
  BY <1>2 DEF ChunkAt
<1>3. CASE places # {}
  <2>1. \E a \in places : \A b \in places : a <= b
    BY <1>1, <1>3, Lowest
  <2>2. ChunkAt(o, hint, size) \in places
    BY <1>3, <2>1 DEF ChunkAt
  <2> QED
    BY <1>1, <2>2
<1> QED
  BY <1>2, <1>3

(* prom_claim_chunk_top fails, or returns a free place. *)
LEMMA ChunkTopAtSound ==
  ASSUME NEW o, NEW size \in Nat
  PROVE  LET at == ChunkTopAt(o, size)
         IN  at = Failed \/ (at \in Nat /\ Claimable(o, at, size))
<1> DEFINE places == TopPlaces(o, size)
<1>1. places \subseteq 0 .. ClaimMax /\ \A a \in places : Claimable(o, a, size)
  BY MemAssumption DEF TopPlaces
<1>2. CASE places = {}
  BY <1>2 DEF ChunkTopAt
<1>3. CASE places # {}
  <2>1. \E a \in places : \A b \in places : b <= a
    BY <1>1, <1>3, MemAssumption, Highest
  <2>2. ChunkTopAt(o, size) \in places
    BY <1>3, <2>1 DEF ChunkTopAt
  <2> QED
    BY <1>1, <2>2
<1> QED
  BY <1>2, <1>3

(* A claim and a release leave a map of the memory. *)
LEMMA ClaimedType ==
  ASSUME NEW o \in [Mem -> Use], NEW b, NEW s, NEW use \in Use
  PROVE  /\ Claimed(o, b, s, use) \in [Mem -> Use]
         /\ \A u \in Mem : Claimed(o, b, s, use)[u] = IF u \in Region(b, s) THEN use ELSE o[u]
  BY DEF Claimed

(* A release leaves a set of owners' pieces. *)
LEMMA ReleasedType ==
  ASSUME NEW o \in [Mem -> Use], NEW b, NEW s
  PROVE  /\ Released(o, b, s) \in [Mem -> Use]
         /\ \A u \in Mem : Released(o, b, s)[u] = IF u \in Region(b, s) THEN "free" ELSE o[u]
  BY ClaimedType DEF Released, Use

(* To release what was claimed a moment ago undoes the claim. *)
LEMMA ReleaseUndoes ==
  ASSUME NEW o \in [Mem -> Use], NEW b, NEW s, NEW use \in Use, Claimable(o, b, s)
  PROVE  Released(Claimed(o, b, s, use), b, s) = o
<1> DEFINE r == Released(Claimed(o, b, s, use), b, s)
<1>1. r \in [Mem -> Use] /\ \A u \in Mem : r[u] = o[u]
  BY ClaimedType, ReleasedType DEF Claimable
<1> QED
  BY <1>1

(* To release what is free changes nothing. *)
LEMMA ReleaseFree ==
  ASSUME NEW o \in [Mem -> Use], NEW b, NEW s,
         \A u \in Region(b, s) : u \in Mem /\ o[u] = "free"
  PROVE  Released(o, b, s) = o
<1>1. Released(o, b, s) \in [Mem -> Use] /\ \A u \in Mem : Released(o, b, s)[u] = o[u]
  BY ReleasedType
<1> QED
  BY <1>1

(* Nothing is claimed that is empty. *)
LEMMA SizesPositive ==
  /\ HeapSize \in Nat \ {0} /\ NetSize \in Nat \ {0} /\ Room \in Nat \ {0}
  /\ ChunkSize \in Nat \ {0} /\ Slack \in Nat \ {0} /\ RamdiskBase32 \in Nat
  BY SizeAssumption

(* The segment the claim is for is one of the kernel's. *)
LEMMA MainType ==
  ASSUME NEW k \in Image, k.segs # <<>>
  PROVE  Main(k) \in Segment /\ Main(k).memsz \in Nat /\ Main(k).vaddr \in Nat
<1>1. k.segs \in Seq(Segment) /\ Len(k.segs) \in Nat \ {0}
  BY EmptySeq DEF Image
<1>2. k.segs[1] \in Segment /\ k.segs[Len(k.segs)] \in Segment
  BY <1>1, ElementOfSeq
<1> QED
  BY <1>2 DEF Main, Segment

(* The claim for a kernel covers its size and Room on top. *)
LEMMA RoundUpCovers ==
  ASSUME NEW n \in Nat
  PROVE  RoundUp(n) \in Nat /\ n <= RoundUp(n)
  BY SizesPositive DEF RoundUp

-----------------------------------------------------------------------------
(* The inductive invariant *)

(* Nothing of the loader's is claimed when it starts. *)
LEMMA InitInv == Init => IInv
<1> SUFFICES ASSUME Init PROVE IInv
  OBVIOUS
<1>1. TypeOK
  BY SizeAssumption DEF Init, TypeOK, Stages, RamdiskStage, Image, Use, Failed
<1>2. AttemptInv /\ SizeInv /\ ClaimInv /\ WholeRamdisk
  BY DEF Init, AttemptInv, SizeInv, ClaimInv, WholeRamdisk, RamdiskStage, KernelHeld
<1>3. HeldInv
  BY DEF Init, HeldInv, KernelHeld
<1> QED
  BY <1>1, <1>2, <1>3 DEF IInv

(* The buffer of a network file, after open_file and after close. *)
LEMMA OpenType ==
  ASSUME TypeOK, NEW dev, Open(dev)
  PROVE  /\ buffer' \in Nat \union {Failed}
         /\ buffer' # Failed => Claimable(owner, buffer', NetSize)
         /\ dev # "net" => buffer' = Failed
         /\ (IF buffer' = Failed THEN owner ELSE AfterOpen(buffer')) = owner
<1>1. dev = "net" => buffer' # Failed /\ buffer' \in Nat /\ Claimable(owner, buffer', NetSize)
  BY ChunkTopAtSound, SizeAssumption DEF Open
<1>2. buffer' # Failed => AfterOpen(buffer') = owner
  BY <1>1, ReleaseUndoes DEF Open, AfterOpen, TypeOK, Use
<1> QED
  BY <1>1, <1>2 DEF Open

(* Closing a file keeps the types of the model. *)
LEMMA CloseType ==
  ASSUME TypeOK
  PROVE  Close \in [Mem -> Use] /\ (buffer = Failed => Close = owner)
  BY ReleasedType DEF TypeOK, Close

(* Every step leaves each variable in its range. *)
LEMMA TypeStep == IInv /\ [Next]_vars => TypeOK'
<1> SUFFICES ASSUME IInv, [Next]_vars PROVE TypeOK'
  OBVIOUS
<1> USE DEF kernelVars, rdVars, choice
<1>0. TypeOK /\ SizeInv
  BY DEF IInv
<1>1. CASE Start
  <2>1. OwnImage \in [Mem -> Use]
    BY <1>0 DEF OwnImage, TypeOK, Use
  <2>2. owner' \in [Mem -> Use]
    BY <1>1, <2>1, ClaimedType DEF Start, Use
  <2> QED BY <1>0, <1>1, <2>2 DEF Start, TypeOK, Stages
<1>2. ASSUME NEW k \in Kernels, NEW r \in Ramdisks \union {NoRamdisk}, Choose(k, r) PROVE TypeOK'
  BY <1>0, <1>2, ImageAssumption DEF Choose, TypeOK, Stages
<1>3. CASE Quit
  BY <1>0, <1>3, ReleasedType DEF Quit, TypeOK, Stages
<1>4. CASE OpenKernel
  BY <1>0, <1>4, OpenType DEF OpenKernel, TypeOK, Stages
<1>5. CASE Unreadable
  BY <1>0, <1>5, CloseType DEF Unreadable, BackToPrompt, TypeOK, Stages
<1>6. CASE ClaimKernel
  <2>1. memsize' \in Nat
    <3>1. MainSegment.memsz \in Nat
      BY <1>0, <1>6, MainType DEF ClaimKernel, TypeOK, MainSegment
    <3>2. memsize' = RoundUp(MainSegment.memsz) + Room
      BY <1>6 DEF ClaimKernel
    <3>3. RoundUp(MainSegment.memsz) \in Nat
      BY <3>1, RoundUpCovers
    <3> QED BY <3>2, <3>3, SizesPositive
  <2>2. PICK hint \in Hints :
           LET at == ChunkAt(owner, hint, memsize')
           IN  IF at = Failed
               THEN BackToPrompt /\ base' = Failed
               ELSE /\ pc' = "segments" /\ base' = at
                    /\ owner' = Claimed(owner, at, memsize', "kernel")
                    /\ UNCHANGED buffer
    BY <1>6 DEF ClaimKernel
  <2>3. hint \in Nat
    BY MemAssumption DEF Hints
  <2>4. /\ base' \in Nat \union {Failed} /\ owner' \in [Mem -> Use] /\ pc' \in Stages
        /\ buffer' \in Nat \union {Failed}
    BY <1>0, <2>2, <2>3, ChunkAtSound, ClaimedType, CloseType DEF BackToPrompt, TypeOK, Use, Stages
  <2> QED BY <1>0, <1>6, <2>1, <2>4 DEF ClaimKernel, TypeOK
<1>7. CASE ReadSegment
  BY <1>0, <1>7 DEF ReadSegment, TypeOK
<1>8. CASE SegmentFails
  BY <1>0, <1>8, ReleasedType DEF SegmentFails, TypeOK, Stages
<1>9. CASE KernelLoaded
  BY <1>0, <1>9, CloseType DEF KernelLoaded, TypeOK, Stages
<1>10. CASE OpenRamdiskFails
  BY <1>0, <1>10 DEF OpenRamdiskFails, TypeOK, Stages
<1>11. CASE OpenRamdisk
  <2>1. rd \in Initrd
    BY <1>0, <1>11, ImageAssumption DEF OpenRamdisk, TypeOK, SizeInv
  <2>2. chunk' \in Nat
    BY <1>11, <2>1, SizesPositive DEF OpenRamdisk, Unsized, Initrd
  <2> QED BY <1>0, <1>11, <2>2, OpenType DEF OpenRamdisk, TypeOK, Stages, RamdiskStage
<1>12. CASE ClaimRamdisk
  <2>1. RamdiskHint \in Nat
    BY <1>0, SizeAssumption DEF RamdiskHint, TypeOK
  <2> QED
    BY <1>0, <1>12, <2>1, ChunkAtSound, ClaimedType, CloseType
       DEF ClaimRamdisk, BackToPrompt, TypeOK, Use, Stages, RamdiskStage
<1>13. CASE ReadFirst
  <2>1. PICK n \in 0 .. Full : rdSize' = n /\ lastRead' = n
    BY <1>13 DEF ReadFirst
  <2>2. n \in Nat
    OBVIOUS
  <2> QED
    BY <1>0, <1>13, <2>1, <2>2, CloseType
       DEF ReadFirst, BackToPrompt, TypeOK, Stages, RamdiskStage, Failed
<1>14. CASE ReadMore
  <2>1. PICK n \in 0 .. Full : lastRead' = n /\ rdSize' = rdSize + n
    BY <1>14 DEF ReadMore
  <2>2. n \in Nat /\ rdSize' \in Nat
    BY <1>0, <2>1 DEF TypeOK
  <2>3. more' \in Nat
    BY <1>0, <1>14 DEF ReadMore, SizeInv, TypeOK
  <2> QED
    BY <1>0, <1>14, <2>1, <2>2, <2>3, ClaimedType DEF ReadMore, TypeOK, Use
<1>15. CASE NoRoomForMore
  BY <1>0, <1>15, CloseType DEF NoRoomForMore, TypeOK, Stages
<1>16. CASE RamdiskLoaded
  BY <1>0, <1>16, CloseType DEF RamdiskLoaded, TypeOK, Stages
<1>17. CASE UNCHANGED vars
  BY <1>0, <1>17 DEF vars, TypeOK
<1> QED
  BY <1>1, <1>2, <1>3, <1>4, <1>5, <1>6, <1>7, <1>8, <1>9, <1>10, <1>11, <1>12, <1>13,
     <1>14, <1>15, <1>16, <1>17 DEF Next, Step, Over

(* What a failed attempt gives back before the kernel is loaded is all it  *)
(* claimed.                                                                *)
LEMMA AttemptStep == IInv /\ [Next]_vars => AttemptInv'
<1> SUFFICES ASSUME IInv, [Next]_vars PROVE AttemptInv'
  OBVIOUS
<1> USE DEF kernelVars, rdVars, choice
<1>0. TypeOK /\ AttemptInv /\ SizeInv
  BY DEF IInv
<1>a. /\ pc \in {"open", "ident", "segments", "rdopen", "rdclaim", "rdread"} => lost = "none"
      /\ pc \in {"prompt", "open", "ident"} /\ lost = "none" => owner = before
      /\ pc = "segments" => before = Released(owner, base, memsize)
      /\ pc \in {"ident", "segments"} /\ buffer # Failed =>
           \A u \in Region(buffer, NetSize) : u \in Mem /\ before[u] = "free"
  BY <1>0 DEF AttemptInv
<1>b. pc = "ident" => Close = owner
  BY <1>0, <1>a, ReleaseFree DEF Close, TypeOK
<1>1. CASE Start
  BY <1>1, <1>a DEF Start, AttemptInv
<1>2. ASSUME NEW k \in Kernels, NEW r \in Ramdisks \union {NoRamdisk}, Choose(k, r) PROVE AttemptInv'
  BY <1>2 DEF Choose, AttemptInv
<1>3. CASE Quit
  BY <1>3 DEF Quit, AttemptInv
<1>4. CASE OpenKernel
  BY <1>0, <1>a, <1>4, OpenType DEF OpenKernel, AttemptInv, Claimable
<1>5. CASE Unreadable
  BY <1>a, <1>b, <1>5 DEF Unreadable, BackToPrompt, AttemptInv
<1>6. CASE ClaimKernel
  <2>1. PICK hint \in Hints :
           LET at == ChunkAt(owner, hint, memsize')
           IN  IF at = Failed
               THEN BackToPrompt /\ base' = Failed
               ELSE /\ pc' = "segments" /\ base' = at
                    /\ owner' = Claimed(owner, at, memsize', "kernel")
                    /\ UNCHANGED buffer
    BY <1>6 DEF ClaimKernel
  <2>2. hint \in Nat
    BY MemAssumption DEF Hints
  <2>3. pc = "ident" /\ UNCHANGED <<before, lost>>
    BY <1>6 DEF ClaimKernel
  <2>4. CASE ChunkAt(owner, hint, memsize') = Failed
    BY <1>a, <1>b, <2>1, <2>3, <2>4 DEF BackToPrompt, AttemptInv
  <2>5. CASE ChunkAt(owner, hint, memsize') # Failed
    <3>1. Claimable(owner, base', memsize') /\ owner' = Claimed(owner, base', memsize', "kernel")
          /\ pc' = "segments" /\ buffer' = buffer
      BY <2>1, <2>2, <2>5, ChunkAtSound
    <3>2. Released(owner', base', memsize') = owner
      BY <1>0, <3>1, ReleaseUndoes DEF TypeOK, Use
    <3> QED BY <1>a, <2>3, <3>1, <3>2 DEF AttemptInv
  <2> QED BY <2>4, <2>5
<1>7. CASE ReadSegment
  BY <1>a, <1>7 DEF ReadSegment, AttemptInv
<1>8. CASE SegmentFails
  <2>1. buffer # Failed => Released(before, buffer, NetSize) = before
    BY <1>0, <1>a, <1>8, ReleaseFree DEF SegmentFails, TypeOK
  <2>2. owner' = before /\ pc' = "prompt" /\ before' = before
    BY <1>a, <1>8, <2>1 DEF SegmentFails
  <2> QED BY <2>2 DEF AttemptInv
<1>9. CASE KernelLoaded
  BY <1>a, <1>9 DEF KernelLoaded, AttemptInv
<1>10. CASE OpenRamdiskFails
  BY <1>a, <1>10 DEF OpenRamdiskFails, AttemptInv
<1>11. CASE OpenRamdisk
  BY <1>a, <1>11 DEF OpenRamdisk, AttemptInv
<1>12. CASE ClaimRamdisk
  BY <1>a, <1>12 DEF ClaimRamdisk, BackToPrompt, AttemptInv
<1>13. CASE ReadFirst
  BY <1>a, <1>13 DEF ReadFirst, BackToPrompt, AttemptInv
<1>14. CASE ReadMore
  BY <1>a, <1>14 DEF ReadMore, AttemptInv
<1>15. CASE NoRoomForMore
  BY <1>a, <1>15 DEF NoRoomForMore, AttemptInv
<1>16. CASE RamdiskLoaded
  BY <1>a, <1>16 DEF RamdiskLoaded, AttemptInv
<1>17. CASE UNCHANGED vars
  BY <1>a, <1>17 DEF vars, AttemptInv
<1> QED
  BY <1>1, <1>2, <1>3, <1>4, <1>5, <1>6, <1>7, <1>8, <1>9, <1>10, <1>11, <1>12, <1>13,
     <1>14, <1>15, <1>16, <1>17 DEF Next, Step, Over

(* How much of the ramdisk is there, and that it is all of it. *)
LEMMA SizeStep == IInv /\ [Next]_vars => SizeInv' /\ WholeRamdisk'
<1> SUFFICES ASSUME IInv, [Next]_vars PROVE SizeInv' /\ WholeRamdisk'
  OBVIOUS
<1> USE DEF kernelVars, rdVars, choice, RamdiskStage
<1>0. TypeOK /\ AttemptInv /\ SizeInv /\ WholeRamdisk
  BY DEF IInv
<1>1. CASE Start \/ Quit \/ Unreadable \/ ReadSegment \/ SegmentFails \/ OpenRamdiskFails
  BY <1>0, <1>1 DEF Start, Quit, Unreadable, BackToPrompt, ReadSegment, SegmentFails,
     OpenRamdiskFails, SizeInv, WholeRamdisk
<1>2. ASSUME NEW k \in Kernels, NEW r \in Ramdisks \union {NoRamdisk}, Choose(k, r)
      PROVE  SizeInv' /\ WholeRamdisk'
  BY <1>2 DEF Choose, SizeInv, WholeRamdisk
<1>3. CASE OpenKernel
  BY <1>0, <1>3 DEF OpenKernel, SizeInv, WholeRamdisk
<1>4. CASE ClaimKernel
  BY <1>0, <1>4 DEF ClaimKernel, BackToPrompt, SizeInv, WholeRamdisk
<1>5. CASE KernelLoaded
  BY <1>0, <1>5 DEF KernelLoaded, SizeInv, WholeRamdisk
<1>6. CASE OpenRamdisk
  <2>1. rd \in Initrd
    BY <1>0, <1>6, ImageAssumption DEF OpenRamdisk, TypeOK, SizeInv
  <2>2. chunk' # 0 /\ (SizeKnown => chunk' = rd.len + Slack)
    BY <1>6, <2>1, SizesPositive DEF OpenRamdisk, Unsized, Initrd
  <2>3. pc' = "rdclaim" /\ rd' = rd /\ rdSize' = 0 /\ rd # NoRamdisk
    BY <1>0, <1>6 DEF OpenRamdisk, SizeInv
  <2> QED BY <2>2, <2>3 DEF SizeInv, WholeRamdisk, SizeKnown
<1>7. CASE ClaimRamdisk
  <2>1. RamdiskHint \in Nat /\ RamdiskHint' = RamdiskHint
    BY <1>0, <1>7, SizesPositive DEF ClaimRamdisk, RamdiskHint, TypeOK
  <2>2. CASE ChunkAt(owner, RamdiskHint, chunk) = Failed
    BY <1>0, <1>7, <2>2 DEF ClaimRamdisk, BackToPrompt, SizeInv, WholeRamdisk
  <2>3. CASE ChunkAt(owner, RamdiskHint, chunk) # Failed
    <3>1. /\ pc' = "rdread" /\ rdBase' \in Nat /\ more' = rdBase' /\ RamdiskHint <= rdBase'
          /\ UNCHANGED <<rd, rdSize, chunk>>
      BY <1>7, <2>1, <2>3, ChunkAtSound DEF ClaimRamdisk
    <3>2. rdBase' # Failed
      BY <3>1 DEF Failed
    <3> QED BY <1>0, <1>7, <2>1, <3>1, <3>2 DEF ClaimRamdisk, SizeInv, WholeRamdisk, SizeKnown
  <2> QED BY <2>2, <2>3
<1>8. CASE ReadFirst
  <2>1. PICK n \in 0 .. Full :
       /\ rdSize' = n /\ lastRead' = n
       /\ IF n = 0
          THEN /\ BackToPrompt /\ rdBase' = Failed /\ lost' = "read"
          ELSE /\ pc' = "rdmore" /\ lost' = IF n < Full THEN "short" ELSE lost
               /\ UNCHANGED <<rdBase, owner, buffer>>
    BY <1>8 DEF ReadFirst
  <2>2. /\ pc = "rdread" /\ lost = "none" /\ rdSize = 0 /\ more = rdBase /\ rdBase \in Nat
        /\ chunk \in Nat /\ rd # NoRamdisk /\ UNCHANGED <<rd, cpu, memsize, chunk, more>>
    BY <1>0, <1>8 DEF ReadFirst, SizeInv, AttemptInv, TypeOK, Failed
  <2>3. rd \in Initrd /\ rd.len \in Nat
    BY <1>0, <2>2, ImageAssumption DEF TypeOK, Initrd
  <2>4. Full \in Nat /\ Full <= chunk /\ Full <= rd.len /\ (Full = chunk \/ Full = rd.len)
    BY <2>2, <2>3 DEF Full, Lesser
  <2>5. RamdiskHint' = RamdiskHint /\ (SizeKnown' <=> SizeKnown)
    BY <2>2 DEF RamdiskHint, SizeKnown
  <2>6. CASE n = 0
    BY <2>1, <2>6 DEF BackToPrompt, SizeInv, WholeRamdisk
  <2>7. CASE n # 0
    BY <1>0, <2>1, <2>2, <2>3, <2>4, <2>5, <2>7 DEF SizeInv, WholeRamdisk
  <2> QED BY <2>6, <2>7
<1>9. CASE ReadMore
  <2>1. PICK n \in 0 .. Full :
       /\ lastRead' = n /\ rdSize' = rdSize + n
       /\ lost' = IF n < Full THEN "short" ELSE lost
    BY <1>9 DEF ReadMore
  <2>2. /\ pc = "rdmore" /\ rdSize \in Nat /\ more \in Nat /\ rdBase \in Nat /\ rdBase <= more
        /\ chunk \in Nat /\ rd # NoRamdisk /\ more' = more + chunk /\ rdSize <= rd.len
        /\ rdSize <= more + chunk - rdBase /\ lost \in {"none", "short"}
        /\ UNCHANGED <<pc, rd, cpu, memsize, chunk, rdBase>>
    BY <1>0, <1>9 DEF ReadMore, SizeInv, TypeOK
  <2>3. rd \in Initrd /\ rd.len \in Nat
    BY <1>0, <2>2, ImageAssumption DEF TypeOK, Initrd
  <2>4. Full \in Nat /\ Full <= chunk /\ Full <= rd.len - rdSize
        /\ (Full = chunk \/ Full = rd.len - rdSize)
    BY <2>2, <2>3 DEF Full, Lesser
  <2>5. RamdiskHint' = RamdiskHint /\ (SizeKnown' <=> SizeKnown)
    BY <2>2 DEF RamdiskHint, SizeKnown
  <2>6. more' # Failed /\ rdBase' <= more' /\ rdSize' <= more' + chunk' - rdBase'
        /\ lastRead' <= chunk' /\ lastRead' <= rdSize' /\ rdSize' <= rd.len
    BY <2>1, <2>2, <2>3, <2>4 DEF Failed
  <2>7. lost' = "none" /\ lastRead' # chunk' => rdSize' = rd.len
    BY <2>1, <2>2, <2>3, <2>4
  <2> QED
    BY <1>0, <2>1, <2>2, <2>5, <2>6, <2>7 DEF SizeInv, WholeRamdisk
<1>10. CASE NoRoomForMore
  <2>1. rd \in Initrd /\ rd.len \in Nat
    BY <1>0, <1>10, ImageAssumption DEF NoRoomForMore, SizeInv, TypeOK, Initrd
  <2>2. ~ SizeKnown
    BY <1>0, <1>10, <2>1, SizesPositive DEF NoRoomForMore, SizeInv, TypeOK
  <2>3. RamdiskHint' = RamdiskHint /\ (SizeKnown' <=> SizeKnown)
    BY <1>10 DEF NoRoomForMore, RamdiskHint, SizeKnown
  <2> QED
    BY <1>0, <1>10, <2>2, <2>3 DEF NoRoomForMore, SizeInv, WholeRamdisk
<1>11. CASE RamdiskLoaded
  <2>1. RamdiskHint' = RamdiskHint
    BY <1>11 DEF RamdiskLoaded, RamdiskHint
  <2> QED
    BY <1>0, <1>11, <2>1 DEF RamdiskLoaded, SizeInv, WholeRamdisk
<1>12. CASE UNCHANGED vars
  BY <1>0, <1>12 DEF vars, SizeInv, WholeRamdisk, SizeKnown, RamdiskHint
<1> QED
  BY <1>1, <1>2, <1>3, <1>4, <1>5, <1>6, <1>7, <1>8, <1>9, <1>10, <1>11, <1>12
     DEF Next, Step, Over

(* What a claim for a kernel gives, when there is a place for it. *)
LEMMA KernelClaim ==
  ASSUME IInv, ClaimKernel
  PROVE  \/ /\ BackToPrompt /\ base' = Failed
         \/ /\ pc' = "segments" /\ base' \in Nat /\ Claimable(owner, base', memsize')
            /\ owner' = Claimed(owner, base', memsize', "kernel") /\ buffer' = buffer
            /\ MainSegment.memsz + Room <= memsize'
<1>1. PICK hint \in Hints :
         LET at == ChunkAt(owner, hint, memsize')
         IN  IF at = Failed
             THEN BackToPrompt /\ base' = Failed
             ELSE /\ pc' = "segments" /\ base' = at
                  /\ owner' = Claimed(owner, at, memsize', "kernel")
                  /\ UNCHANGED buffer
  BY DEF ClaimKernel
<1>2. hint \in Nat
  BY MemAssumption DEF Hints
<1>3. MainSegment.memsz \in Nat
  BY MainType DEF ClaimKernel, IInv, TypeOK, MainSegment
<1>4. memsize' = RoundUp(MainSegment.memsz) + Room
  BY DEF ClaimKernel
<1>5. MainSegment.memsz + Room <= memsize'
  BY <1>3, <1>4, RoundUpCovers, SizesPositive
<1> QED
  BY <1>1, <1>2, <1>5, ChunkAtSound

(* The kernel's memory is claimed for its main segment and the room above. *)
LEMMA ClaimStep == IInv /\ [Next]_vars => ClaimInv'
<1> SUFFICES ASSUME IInv, [Next]_vars PROVE ClaimInv'
  OBVIOUS
<1> USE DEF kernelVars, rdVars, choice, KernelHeld
<1>0. TypeOK /\ SizeInv /\ ClaimInv
  BY DEF IInv
<1>1. CASE Start \/ Quit \/ Unreadable \/ SegmentFails \/ OpenRamdiskFails
  BY <1>0, <1>1 DEF Start, Quit, Unreadable, BackToPrompt, SegmentFails, OpenRamdiskFails,
     ClaimInv
<1>2. ASSUME NEW k \in Kernels, NEW r \in Ramdisks \union {NoRamdisk}, Choose(k, r)
      PROVE  ClaimInv'
  BY <1>2 DEF Choose, ClaimInv
<1>3. CASE OpenKernel
  BY <1>0, <1>3 DEF OpenKernel, ClaimInv
<1>4. CASE ClaimKernel
  <2>1. /\ pc = "ident" /\ seg' = 1 /\ kernel' = kernel
        /\ kernel.class # 0 /\ kernel.segs # <<>>
    BY <1>4 DEF ClaimKernel
  <2>2. MainSegment' = MainSegment
    BY <2>1 DEF MainSegment
  <2>3. base' \in Nat => base' # Failed
    BY DEF Failed
  <2> QED
    BY <1>0, <1>4, <2>1, <2>2, <2>3, KernelClaim DEF BackToPrompt, ClaimInv
<1>5. CASE ReadSegment
  <2>1. /\ pc = "segments" /\ base \in Nat /\ seg \in Nat /\ seg >= 1 /\ kernel.class # 0
        /\ kernel.segs # <<>> /\ kernel \in Kernels /\ kernel \in Image
        /\ UNCHANGED <<pc, base, memsize, kernel>> /\ seg' = seg + 1
    BY <1>0, <1>5 DEF ReadSegment, ClaimInv, TypeOK, Failed
  <2>2. MainSegment' = MainSegment
    BY <2>1 DEF MainSegment
  <2> QED
    BY <1>0, <2>1, <2>2 DEF ClaimInv
<1>6. CASE KernelLoaded
  BY <1>0, <1>6 DEF KernelLoaded, ClaimInv, MainSegment
<1>7. CASE OpenRamdisk \/ ClaimRamdisk \/ ReadFirst
  BY <1>0, <1>7 DEF OpenRamdisk, ClaimRamdisk, ReadFirst, BackToPrompt, ClaimInv, MainSegment
<1>8. CASE ReadMore \/ NoRoomForMore \/ RamdiskLoaded
  BY <1>0, <1>8 DEF ReadMore, NoRoomForMore, RamdiskLoaded, ClaimInv, MainSegment
<1>9. CASE UNCHANGED vars
  BY <1>0, <1>9 DEF vars, ClaimInv, MainSegment
<1> QED
  BY <1>1, <1>2, <1>3, <1>4, <1>5, <1>6, <1>7, <1>8, <1>9 DEF Next, Step, Over

(* Without a network file nobody takes the kernel's memory or a chunk of   *)
(* the ramdisk away.                                                       *)
LEMMA HeldStep == IInv /\ DiskOnly /\ [Next]_vars => HeldInv'
<1> SUFFICES ASSUME IInv, DiskOnly, [Next]_vars PROVE HeldInv'
  OBVIOUS
<1> USE DEF kernelVars, rdVars, choice, KernelHeld
<1>0. TypeOK /\ SizeInv /\ ClaimInv /\ HeldInv /\ TypeOK' /\ SizeInv'
  BY TypeStep, SizeStep DEF IInv
<1>a. buffer = Failed /\ Close = owner
  BY <1>0 DEF HeldInv, Close
<1>1. CASE Start
  BY <1>a, <1>1 DEF Start, HeldInv
<1>2. ASSUME NEW k \in Kernels, NEW r \in Ramdisks \union {NoRamdisk}, Choose(k, r)
      PROVE  HeldInv'
  BY <1>a, <1>2 DEF Choose, HeldInv
<1>3. CASE Quit \/ Unreadable \/ SegmentFails \/ OpenRamdiskFails
  BY <1>a, <1>3 DEF Quit, Unreadable, BackToPrompt, SegmentFails, OpenRamdiskFails, HeldInv
<1>4. CASE OpenKernel
  <2>1. kernel.dev = "block"
    BY <1>0, <1>4 DEF OpenKernel, DiskOnly, TypeOK
  <2> QED BY <1>a, <1>4, <2>1 DEF OpenKernel, Open, HeldInv
<1>5. CASE ClaimKernel
  <2>1. BackToPrompt => HeldInv'
    BY DEF BackToPrompt, HeldInv
  <2>2. ASSUME pc' = "segments", Claimable(owner, base', memsize'), buffer' = buffer,
               owner' = Claimed(owner, base', memsize', "kernel")
        PROVE  HeldInv'
    BY <1>0, <1>a, <2>2, ClaimedType DEF HeldInv, Claimable, TypeOK, Use
  <2> QED BY <1>5, <2>1, <2>2, KernelClaim
<1>6. CASE ReadSegment
  BY <1>0, <1>6 DEF ReadSegment, HeldInv
<1>7. CASE KernelLoaded
  BY <1>0, <1>a, <1>7 DEF KernelLoaded, HeldInv
<1>8. CASE OpenRamdisk
  BY <1>0, <1>a, <1>8, OpenType DEF OpenRamdisk, HeldInv, DiskOnly, SizeInv, TypeOK
<1>9. CASE ClaimRamdisk
  <2>1. RamdiskHint \in Nat
    BY <1>0, SizesPositive DEF RamdiskHint, TypeOK
  <2>2. CASE ChunkAt(owner, RamdiskHint, chunk) = Failed
    BY <1>9, <2>2 DEF ClaimRamdisk, BackToPrompt, HeldInv
  <2>3. CASE ChunkAt(owner, RamdiskHint, chunk) # Failed
    <3>1. /\ pc = "rdclaim" /\ pc' = "rdread" /\ rdBase' \in Nat /\ more' = rdBase'
          /\ Claimable(owner, rdBase', chunk)
          /\ owner' = Claimed(owner, rdBase', chunk, "rd")
          /\ UNCHANGED <<buffer, chunk, base, memsize>>
      BY <1>9, <2>1, <2>3, ChunkAtSound DEF ClaimRamdisk
    <3>2. \A u \in Region(rdBase', chunk) : u \in Mem /\ owner'[u] = "rd"
      BY <1>0, <3>1, ClaimedType DEF Claimable, TypeOK, Use
    <3>3. \A u \in Region(base, memsize) : u \in Mem /\ owner'[u] = "kernel"
      BY <1>0, <3>1, ClaimedType DEF HeldInv, Claimable, TypeOK, Use
    <3> QED BY <1>a, <3>1, <3>2, <3>3 DEF HeldInv, Region
  <2> QED BY <2>2, <2>3
<1>10. CASE ReadFirst
  BY <1>0, <1>a, <1>10 DEF ReadFirst, BackToPrompt, HeldInv
<1>11. CASE ReadMore
  <2>1. /\ pc = "rdmore" /\ pc' = "rdmore" /\ more \in Nat /\ chunk \in Nat /\ rdBase \in Nat
        /\ rdBase <= more /\ more' = more + chunk
        /\ Claimable(owner, more + chunk, chunk)
        /\ owner' = Claimed(owner, more + chunk, chunk, "rd")
        /\ UNCHANGED <<buffer, chunk, rdBase, base, memsize>>
    BY <1>0, <1>11 DEF ReadMore, SizeInv, TypeOK
  <2>2. \A u \in rdBase .. more + chunk - 1 : u \in Mem /\ owner[u] = "rd"
    BY <1>0, <2>1 DEF HeldInv
  <2>3. \A u \in rdBase .. more' + chunk - 1 : u \in Mem /\ owner'[u] = "rd"
    <3>1. ASSUME NEW u \in rdBase .. more' + chunk - 1
          PROVE  u \in rdBase .. more + chunk - 1 \/ u \in Region(more + chunk, chunk)
      BY <2>1 DEF Region
    <3> QED BY <1>0, <2>1, <2>2, <3>1, ClaimedType DEF Claimable, TypeOK, Use
  <2>4. \A u \in Region(base, memsize) : u \in Mem /\ owner'[u] = "kernel"
    BY <1>0, <2>1, ClaimedType DEF HeldInv, Claimable, TypeOK, Use
  <2> QED BY <1>a, <2>1, <2>3, <2>4 DEF HeldInv
<1>12. CASE NoRoomForMore \/ RamdiskLoaded
  <2>1. /\ pc = "rdmore" /\ pc' = "enter" /\ owner' = owner /\ buffer' = Failed
        /\ UNCHANGED <<rdBase, rdSize, base, memsize>>
    BY <1>a, <1>12 DEF NoRoomForMore, RamdiskLoaded
  <2>2. \A u \in Region(rdBase, rdSize) : u \in rdBase .. more + chunk - 1
    BY <1>0, <2>1 DEF SizeInv, TypeOK, Region
  <2> QED BY <1>0, <2>1, <2>2 DEF HeldInv
<1>13. CASE UNCHANGED vars
  BY <1>0, <1>13 DEF vars, HeldInv
<1> QED
  BY <1>1, <1>2, <1>3, <1>4, <1>5, <1>6, <1>7, <1>8, <1>9, <1>10, <1>11, <1>12, <1>13
     DEF Next, Step, Over

-----------------------------------------------------------------------------
(* The theorems *)

(* The invariant of the two attempts. *)
LEMMA Invariant == Spec => []IInv
<1>1. IInv /\ [Next]_vars => IInv'
  BY TypeStep, AttemptStep, SizeStep, ClaimStep, HeldStep DEF IInv
<1> QED
  BY <1>1, InitInv, PTL DEF Spec

(* An attempt that fails before the kernel is loaded leaves memory as it   *)
(* found it, with network files too.                                       *)
THEOREM RetriesFindMemory == Spec => []RetryFindsMemory
<1>1. IInv => RetryFindsMemory
  BY DEF IInv, AttemptInv, RetryFindsMemory
<1> QED
  BY <1>1, Invariant, PTL

(* The chunks of load_initrd make up the whole file unless a read came up  *)
(* short or there was no room, which a known size rules out.               *)
THEOREM RamdiskIsWhole == Spec => []WholeRamdisk
<1>1. IInv => WholeRamdisk
  BY DEF IInv
<1> QED
  BY <1>1, Invariant, PTL

(* From the claim until the kernel is entered nobody else gets its memory, *)
(* unless a network file gives its buffer back twice.                      *)
THEOREM KernelIsHeld == DiskOnly => (Spec => []KernelMemoryHeld)
<1> SUFFICES ASSUME DiskOnly PROVE Spec => []KernelMemoryHeld
  OBVIOUS
<1>1. IInv => KernelMemoryHeld
  BY DEF IInv, HeldInv, KernelMemoryHeld
<1> QED
  BY <1>1, Invariant, PTL

(* The ramdisk handed over lies in memory claimed for it, above where the  *)
(* kernel moves itself.                                                    *)
THEOREM RamdiskIsClear == DiskOnly => (Spec => []RamdiskClear)
<1> SUFFICES ASSUME DiskOnly PROVE Spec => []RamdiskClear
  OBVIOUS
<1>1. IInv => RamdiskClear
  <2> SUFFICES ASSUME IInv, pc = "enter", rd # NoRamdisk
               PROVE  /\ \A u \in Region(rdBase, rdSize) : owner[u] = "rd"
                      /\ cpu = 64 \/ memsize <= RamdiskBase32 => rdBase >= memsize
    BY DEF RamdiskClear
  <2>1. \A u \in Region(rdBase, rdSize) : owner[u] = "rd"
    BY DEF IInv, HeldInv
  <2>2. rdBase >= RamdiskHint /\ rdBase \in Int /\ memsize \in Nat
    BY DEF IInv, SizeInv, TypeOK, Failed
  <2> QED
    BY <2>1, <2>2, SizesPositive DEF RamdiskHint
<1> QED
  BY <1>1, Invariant, PTL
================================================================================
