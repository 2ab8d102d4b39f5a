------------------------------ MODULE BootLoad ------------------------------
(***************************************************************************)
(* The memory side of yaboot_start and yaboot_text_ui: yaboot claims its   *)
(* heap, and each attempt to boot opens the kernel, claims memory for it,  *)
(* reads its segments, and loads the ramdisk chunk by chunk above it.  An  *)
(* attempt that fails goes back to the prompt; what it claimed and did not *)
(* release stays claimed.                                                  *)
(*                                                                         *)
(* A kernel is [dev, class, segs]: the kind of device it comes from, its   *)
(* ELF class (0: not ELF) and its PT_LOAD segments [vaddr, memsz, filesz]. *)
(* A ramdisk is [dev, len, sized, told]: sized when the driver implements  *)
(* ino_size, told the initrdsize= of the configuration or 0.  Every call   *)
(* that reads may fail.                                                    *)
(***************************************************************************)
EXTENDS Integers, FiniteSets, Sequences

-----------------------------------------------------------------------------
(***************************************************************************)
(* Physical memory as Open Firmware keeps it, and the three ways prom.c    *)
(* asks for it.  Memory is counted in steps of the claim search (256 KB);  *)
(* owner says what each step is claimed for.                               *)
(***************************************************************************)

CONSTANTS
  MemSize,   (* installed memory, in steps *)
  ClaimMax   (* PROM_CLAIM_MAX_ADDR, in steps *)

ASSUME MemAssumption == MemSize \in Nat /\ ClaimMax \in Nat

Failed == -1
Mem    == 0 .. MemSize - 1

(* What a step may be claimed for: "fw" is the firmware itself, "loader"   *)
(* yaboot's own image, "net" the TFTP buffer.                              *)
Use == {"free", "fw", "loader", "heap", "net", "kernel", "rd"}

Region(base, size) == base .. base + size - 1

(* The firmware grants a claim exactly where it is asked for, if all of it *)
(* is installed and free.                                                  *)
Claimable(owner, base, size) ==
  /\ Region(base, size) \subseteq Mem
  /\ \A u \in Region(base, size) : owner[u] = "free"

Claimed(owner, base, size, use) ==
  [u \in DOMAIN owner |-> IF u \in Region(base, size) THEN use ELSE owner[u]]

(* release frees whatever lies there, without asking who claimed it. *)
Released(owner, base, size) == Claimed(owner, base, size, "free")

(* prom_claim_chunk: the first place at or above hint. *)
ChunkPlaces(owner, hint, size) ==
  {a \in hint .. ClaimMax : Claimable(owner, a, size)}

ChunkAt(owner, hint, size) ==
  LET places == ChunkPlaces(owner, hint, size)
  IN  IF places = {} THEN Failed
      ELSE CHOOSE a \in places : \A b \in places : a <= b

(* prom_claim_chunk_top: the last place at or below the claim limit. *)
TopPlaces(owner, size) ==
  {a \in size .. ClaimMax : Claimable(owner, a, size)}

ChunkTopAt(owner, size) ==
  LET places == TopPlaces(owner, size)
  IN  IF places = {} THEN Failed
      ELSE CHOOSE a \in places : \A b \in places : b <= a

-----------------------------------------------------------------------------
CONSTANTS
  FirmwareMaps,   (* the sets of steps the firmware may keep for itself *)
  LoaderSteps,    (* where yaboot itself was loaded: _start .. _end *)
  HeapSize,       (* MALLOCSIZE *)
  NetSize,        (* LOAD_BUFFER_SIZE *)
  Room,           (* the 1 MB a kernel is rounded up to and given on top *)
  ChunkSize,      (* INITRD_CHUNKSIZE *)
  Slack,          (* the 0x1000 added to a known size, at least one step *)
  RamdiskBase32,  (* 32 MB, where the search starts on a 32 bit cpu *)
  Cpus,           (* word sizes of the machine: subset of {32, 64} *)
  Kernels, Ramdisks,
  NoRamdisk,      (* the choice of no ramdisk *)
  MaxTries        (* bound: attempts to boot *)

ASSUME SizeAssumption ==
  /\ \A n \in {HeapSize, NetSize, Room, ChunkSize, Slack} : n \in Nat \ {0}
  /\ RamdiskBase32 \in Nat /\ MaxTries \in Nat
  /\ LoaderSteps \subseteq Mem
  /\ \A f \in FirmwareMaps : f \subseteq Mem
  /\ Cpus \subseteq {32, 64} /\ NoRamdisk \notin Ramdisks

Segment == [vaddr : Nat, memsz : Nat, filesz : Nat]
Image   == [dev : {"block", "net"}, class : {0, 32, 64}, segs : Seq(Segment)]
Initrd  == [dev : {"block", "net"}, len : Nat, sized : BOOLEAN, told : Nat]

ASSUME ImageAssumption ==
  /\ \A k \in Kernels : k \in Image
  /\ \A r \in Ramdisks : r \in Initrd

VARIABLES
  pc, owner, cpu, heap,
  kernel, rd, tries,
  base, memsize,      (* loadinfo.base and loadinfo.memsize *)
  seg,                (* the segment to be read next *)
  buffer,             (* file.buffer while a network file is open, or Failed *)
  rdBase, rdSize, chunk, lastRead, more,
                      (* initrd_base, initrd_size, chunksize, initrd_read, initrd_more *)
  written,            (* history: the steps the segments were read into *)
  before,             (* history: owner when the attempt began *)
  lost                (* history: what failed after the kernel was claimed *)

kernelVars == <<base, memsize, seg, written>>
rdVars     == <<rdBase, rdSize, chunk, lastRead, more>>
choice     == <<kernel, rd, tries, before>>
vars == <<pc, owner, cpu, heap, choice, kernelVars, buffer, rdVars, lost>>

(***************************************************************************)
(* Plausible errors in the definitions below, which the properties must    *)
(* tell from the code.                                                     *)
(***************************************************************************)
Close_Kernel     == Released(owner, base, memsize)      (* the wrong region *)
RamdiskHint_Zero == 0                                   (* below the kernel *)

RoundUp(n) == Room * ((n + Room - 1) \div Room)
Lesser(a, b) == IF a <= b THEN a ELSE b

-----------------------------------------------------------------------------
(* Firmware hands over: whether it claimed yaboot's own image varies. *)
Init ==
  /\ pc = "start" /\ cpu \in Cpus /\ heap = Failed
  /\ \E f \in FirmwareMaps :
       owner = [u \in Mem |-> IF u \in f THEN "fw" ELSE "free"]
  /\ kernel = [dev |-> "block", class |-> 0, segs |-> <<>>]
  /\ rd = NoRamdisk /\ tries = 0
  /\ base = Failed /\ memsize = 0 /\ seg = 1 /\ buffer = Failed
  /\ rdBase = Failed /\ rdSize = 0 /\ chunk = 0 /\ lastRead = 0 /\ more = Failed
  /\ written = {} /\ before = owner /\ lost = "none"

(* yaboot_start: claim the image if the firmware did not, then the heap. *)
OwnImage ==
  IF \A u \in LoaderSteps : owner[u] = "free"
  THEN [u \in Mem |-> IF u \in LoaderSteps THEN "loader" ELSE owner[u]]
  ELSE owner

Start ==
  /\ pc = "start"
  /\ LET at == ChunkTopAt(OwnImage, HeapSize)
     IN  IF at = Failed
         THEN pc' = "exit" /\ owner' = OwnImage /\ heap' = Failed
         ELSE /\ pc' = "prompt" /\ heap' = at
              /\ owner' = Claimed(OwnImage, at, HeapSize, "heap")
  /\ before' = owner'
  /\ UNCHANGED <<cpu, kernel, rd, tries, kernelVars, buffer, rdVars, lost>>

(* get_params chose what to boot ... *)
Choose(k, r) ==
  /\ pc = "prompt" /\ tries < MaxTries
  /\ pc' = "open" /\ tries' = tries + 1
  /\ kernel' = k /\ rd' = r
  /\ rdBase' = Failed /\ rdSize' = 0
  /\ written' = {} /\ before' = owner /\ lost' = "none"
  /\ UNCHANGED <<owner, cpu, heap, base, memsize, seg, buffer, chunk, lastRead, more>>

(* ... or yaboot returns: the heap is released and firmware entered. *)
Quit ==
  /\ pc = "prompt"
  /\ pc' = "exit"
  /\ owner' = Released(owner, heap, HeapSize)
  /\ UNCHANGED <<cpu, heap, choice, kernelVars, buffer, rdVars, lost>>

-----------------------------------------------------------------------------
(***************************************************************************)
(* open_file.  A network file is downloaded whole by of_net_download into  *)
(* a buffer at the top of memory, which is released before open returns    *)
(* whether or not the download worked, and released again by of_close.     *)
(***************************************************************************)
Open(dev) ==
  IF dev = "net"
  THEN LET at == ChunkTopAt(owner, NetSize)
       IN  at # Failed /\ buffer' = at
  ELSE buffer' = Failed

AfterOpen(at) == Released(Claimed(owner, at, NetSize, "net"), at, NetSize)

Close == IF buffer = Failed THEN owner ELSE Released(owner, buffer, NetSize)

OpenKernel ==
  /\ pc = "open"
  /\ \/ /\ Open(kernel.dev) /\ pc' = "ident"
        /\ owner' = IF buffer' = Failed THEN owner ELSE AfterOpen(buffer')
     \/ pc' = "prompt" /\ UNCHANGED <<buffer, owner>>
  /\ UNCHANGED <<cpu, heap, choice, kernelVars, rdVars, lost>>

(* The headers cannot be read, or the image is not ELF. *)
BackToPrompt == pc' = "prompt" /\ owner' = Close /\ buffer' = Failed

Unreadable ==
  /\ pc = "ident" /\ BackToPrompt
  /\ UNCHANGED <<cpu, heap, choice, kernelVars, rdVars, lost>>

(* The segment whose size and address are used for the whole image: the    *)
(* last one of an ELF32 kernel, the first one of an ELF64 kernel.          *)
Main(k) == IF k.class = 32 THEN k.segs[Len(k.segs)] ELSE k.segs[1]
MainSegment == Main(kernel)

(* load_elf32 leaves the search hint uninitialised, load_elf64 uses 0. *)
Hints == IF kernel.class = 32 THEN 0 .. ClaimMax + 1 ELSE {0}

(* load_elf32 and load_elf64 up to the claim. *)
ClaimKernel ==
  /\ pc = "ident" /\ kernel.class # 0 /\ kernel.segs # <<>>
  /\ MainSegment.memsz # 0
  /\ memsize' = RoundUp(MainSegment.memsz) + Room
  /\ \E hint \in Hints :
       LET at == ChunkAt(owner, hint, memsize')
       IN  IF at = Failed
           THEN BackToPrompt /\ base' = Failed
           ELSE /\ pc' = "segments" /\ base' = at
                /\ owner' = Claimed(owner, at, memsize', "kernel")
                /\ UNCHANGED buffer
  /\ seg' = 1
  /\ UNCHANGED <<cpu, heap, choice, written, rdVars, lost>>

(* Where segment i is read to, relative to the segment the claim is for. *)
Target(i) == Region(base + kernel.segs[i].vaddr - MainSegment.vaddr, kernel.segs[i].filesz)

SegmentFails_Keeps ==          (* prom_release forgotten *)
  /\ pc = "segments" /\ seg <= Len(kernel.segs) /\ BackToPrompt
  /\ UNCHANGED <<cpu, heap, choice, kernelVars, rdVars, lost>>

ReadSegment ==
  /\ pc = "segments" /\ seg <= Len(kernel.segs)
  /\ written' = written \union Target(seg)
  /\ seg' = seg + 1
  /\ UNCHANGED <<pc, owner, cpu, heap, choice, base, memsize, buffer, rdVars, lost>>

(* A failed seek or read gives the kernel's memory back. *)
SegmentFails ==
  /\ pc = "segments" /\ seg <= Len(kernel.segs)
  /\ pc' = "prompt"
  /\ owner' = LET freed == Released(owner, base, memsize)
              IN  IF buffer = Failed THEN freed ELSE Released(freed, buffer, NetSize)
  /\ buffer' = Failed
  /\ UNCHANGED <<cpu, heap, choice, kernelVars, rdVars, lost>>

KernelLoaded ==
  /\ pc = "segments" /\ seg > Len(kernel.segs)
  /\ owner' = Close /\ buffer' = Failed
  /\ pc' = IF rd = NoRamdisk THEN "enter" ELSE "rdopen"
  /\ UNCHANGED <<cpu, heap, choice, kernelVars, rdVars, lost>>

-----------------------------------------------------------------------------
(* The ramdisk does not open: back to the prompt, with the kernel's memory *)
(* still claimed.                                                          *)
OpenRamdiskFails ==
  /\ pc = "rdopen"
  /\ pc' = "prompt" /\ lost' = "open"
  /\ UNCHANGED <<owner, cpu, heap, choice, kernelVars, buffer, rdVars>>

SizeKnown == rd.sized /\ rd.len > 0

(* What to claim for a file of unknown size: as initrdsize= says. *)
Unsized == IF rd.told > 0 THEN rd.told + Slack ELSE ChunkSize

OpenRamdisk_Exact ==           (* the 0x1000 not added *)
  /\ pc = "rdopen" /\ Open(rd.dev)
  /\ owner' = IF buffer' = Failed THEN owner ELSE AfterOpen(buffer')
  /\ chunk' = IF SizeKnown THEN rd.len ELSE Unsized
  /\ pc' = "rdclaim"
  /\ UNCHANGED <<cpu, heap, choice, kernelVars, rdBase, rdSize, lastRead, more, lost>>

OpenRamdisk ==
  /\ pc = "rdopen" /\ Open(rd.dev)
  /\ owner' = IF buffer' = Failed THEN owner ELSE AfterOpen(buffer')
  /\ chunk' = IF SizeKnown THEN rd.len + Slack ELSE Unsized
  /\ pc' = "rdclaim"
  /\ UNCHANGED <<cpu, heap, choice, kernelVars, rdBase, rdSize, lastRead, more, lost>>

RamdiskHint == IF cpu = 64 THEN memsize ELSE RamdiskBase32

ClaimRamdisk ==
  /\ pc = "rdclaim"
  /\ LET at == ChunkAt(owner, RamdiskHint, chunk)
     IN  IF at = Failed
         THEN BackToPrompt /\ lost' = "claim" /\ UNCHANGED <<rdBase, more>>
         ELSE /\ pc' = "rdread" /\ rdBase' = at /\ more' = at
              /\ owner' = Claimed(owner, at, chunk, "rd")
              /\ UNCHANGED <<buffer, lost>>
  /\ UNCHANGED <<cpu, heap, choice, kernelVars, rdSize, chunk, lastRead>>

(* What a read asks for that the file still has; a read the firmware fails *)
(* comes up short, and only a first read of nothing is noticed.            *)
Full == Lesser(chunk, rd.len - rdSize)

ReadFirst ==
  /\ pc = "rdread"
  /\ \E n \in 0 .. Full :
       /\ rdSize' = n /\ lastRead' = n
       /\ IF n = 0
          THEN /\ BackToPrompt /\ rdBase' = Failed /\ lost' = "read"
          ELSE /\ pc' = "rdmore" /\ lost' = IF n < Full THEN "short" ELSE lost
               /\ UNCHANGED <<rdBase, owner, buffer>>
  /\ UNCHANGED <<cpu, heap, choice, kernelVars, chunk, more>>

NoRoomForMore_Loops ==         (* the break forgotten *)
  /\ pc = "rdmore" /\ lastRead = chunk
  /\ ~ Claimable(owner, more + chunk, chunk)
  /\ UNCHANGED vars

(* while (initrd_read == chunksize): the place right after the last chunk. *)
ReadMore ==
  /\ pc = "rdmore" /\ lastRead = chunk
  /\ Claimable(owner, more + chunk, chunk)
  /\ more' = more + chunk
  /\ owner' = Claimed(owner, more', chunk, "rd")
  /\ \E n \in 0 .. Full :
       /\ lastRead' = n /\ rdSize' = rdSize + n
       /\ lost' = IF n < Full THEN "short" ELSE lost
  /\ UNCHANGED <<pc, cpu, heap, choice, kernelVars, buffer, rdBase, chunk>>

(* The place is taken: yaboot says so, waits for a key and goes on with    *)
(* the part of the ramdisk it has.                                         *)
NoRoomForMore ==
  /\ pc = "rdmore" /\ lastRead = chunk
  /\ ~ Claimable(owner, more + chunk, chunk)
  /\ pc' = "enter" /\ owner' = Close /\ buffer' = Failed
  /\ lost' = "truncated"
  /\ UNCHANGED <<cpu, heap, choice, kernelVars, rdVars>>

RamdiskLoaded ==
  /\ pc = "rdmore" /\ lastRead # chunk
  /\ pc' = "enter" /\ owner' = Close /\ buffer' = Failed
  /\ UNCHANGED <<cpu, heap, choice, kernelVars, rdVars, lost>>

(* The kernel has been entered, or yaboot left to the firmware. *)
Over == pc \in {"enter", "exit"} /\ UNCHANGED vars

-----------------------------------------------------------------------------
Step == \/ Start \/ OpenKernel \/ Unreadable \/ ClaimKernel
        \/ ReadSegment \/ SegmentFails \/ KernelLoaded
        \/ OpenRamdiskFails \/ OpenRamdisk \/ ClaimRamdisk
        \/ ReadFirst \/ ReadMore \/ NoRoomForMore \/ RamdiskLoaded

Next == \/ Step
        \/ \E k \in Kernels, r \in Ramdisks \union {NoRamdisk} : Choose(k, r)
        \/ Quit
        \/ Over

Spec == Init /\ [][Next]_vars

(* yaboot is one thread that runs until it waits at the prompt. *)
FairSpec == Spec /\ WF_vars(Step)

-----------------------------------------------------------------------------
KernelHeld == pc \in {"segments", "rdopen", "rdclaim", "rdread", "rdmore", "enter"}

(***************************************************************************)
(* From the claim until it is entered the kernel's memory stays claimed    *)
(* for it: no close, no ramdisk claim and no failed chunk takes a step of  *)
(* it away.                                                                *)
(***************************************************************************)
KernelMemoryHeld ==
  KernelHeld => \A u \in Region(base, memsize) : owner[u] = "kernel"

(***************************************************************************)
(* load_elf32/64 claim memory for one segment -- "look only at the first   *)
(* ELF PT_LOAD section" -- and "leave some room (1Mb) for boot infos"      *)
(* above it.  So what is read lies in the claim, below that room.  A       *)
(* kernel of two segments breaks it: all of them are read.                 *)
(***************************************************************************)
SegmentsInside ==
  KernelHeld => \A u \in written :
                  {u, u + Room} \subseteq Region(base, memsize)

(***************************************************************************)
(* The ramdisk handed to the kernel is claimed memory, and lies where the  *)
(* kernel will not move itself: "put initrd after the kernels final        *)
(* location".  On a 32 bit cpu that takes a kernel of at most 32 MB.       *)
(***************************************************************************)
RamdiskClear ==
  pc = "enter" /\ rd # NoRamdisk =>
    /\ \A u \in Region(rdBase, rdSize) : owner[u] = "rd"
    /\ cpu = 64 \/ memsize <= RamdiskBase32 => rdBase >= memsize

(***************************************************************************)
(* A kernel is entered with all of its ramdisk, unless a read came up      *)
(* short or there was no room for one more chunk; and where the driver     *)
(* knows the file's size the second never happens, for the claim covers    *)
(* the whole of it.                                                        *)
(***************************************************************************)
WholeRamdisk ==
  pc = "enter" /\ rd # NoRamdisk =>
    /\ lost = "none" => rdSize = rd.len
    /\ lost = "truncated" => ~ SizeKnown

(***************************************************************************)
(* An attempt that failed before the kernel was loaded gave back all it    *)
(* claimed, so that the next one finds memory as it was.                   *)
(***************************************************************************)
RetryFindsMemory == pc = "prompt" /\ lost = "none" => owner = before

(* Every attempt comes to an end: the kernel is entered or the prompt is   *)
(* back, however the chunks fall.                                          *)
AttemptEnds == pc = "open" ~> pc \in {"prompt", "enter"}

(***************************************************************************)
(* The comment at the head of fs_of.c: a network file is read from "a huge *)
(* block of memory" that is allocated for it and freed when the kernel is  *)
(* booted.  So the block is held as long as the file is open.              *)
(***************************************************************************)
BufferHeld ==
  buffer # Failed => \A u \in Region(buffer, NetSize) : owner[u] = "net"

-----------------------------------------------------------------------------
(***************************************************************************)
(* What two of the properties need: no kernel or ramdisk comes from the    *)
(* network, whose buffer is released twice.                                *)
(***************************************************************************)
DiskOnly ==
  /\ \A k \in Kernels : k.dev = "block"
  /\ \A r \in Ramdisks : r.dev = "block"

RamdiskStage == {"rdclaim", "rdread", "rdmore"}
Stages == {"start", "exit", "prompt", "open", "ident"} \union
          {"segments", "rdopen", "enter"} \union RamdiskStage

TypeOK ==
  /\ pc \in Stages /\ cpu \in {32, 64}
  /\ owner \in [Mem -> Use] /\ before \in [Mem -> Use]
  /\ pc \notin {"start", "prompt", "exit"} => kernel \in Kernels
  /\ kernel \in Image /\ rd \in Ramdisks \union {NoRamdisk}
  /\ base \in Nat \union {Failed} /\ buffer \in Nat \union {Failed}
  /\ rdBase \in Nat \union {Failed} /\ more \in Nat \union {Failed}
  /\ {memsize, seg, rdSize, chunk, lastRead} \subseteq Nat
  /\ lost \in {"none", "open", "claim", "read", "short", "truncated"}

(* Whose claims an attempt may still give back: what it began with is what *)
(* is left without the kernel, and the buffer of a network file was free.  *)
AttemptInv ==
  /\ pc \in {"open", "ident", "segments", "rdopen", "rdclaim", "rdread"} => lost = "none"
  /\ pc \in {"prompt", "open", "ident"} /\ lost = "none" => owner = before
  /\ pc = "segments" => before = Released(owner, base, memsize)
  /\ pc \in {"ident", "segments"} /\ buffer # Failed =>
       \A u \in Region(buffer, NetSize) : u \in Mem /\ before[u] = "free"

(* How much of the ramdisk there is, by what the last read returned. *)
SizeInv ==
  /\ pc \in RamdiskStage \union {"rdopen"} => rd # NoRamdisk
  /\ pc \in RamdiskStage => chunk # 0 /\ (SizeKnown => chunk = rd.len + Slack)
  /\ pc \in {"open", "ident", "segments", "rdopen", "rdclaim", "rdread"} => rdSize = 0
  /\ pc = "rdread" => more = rdBase
  /\ pc \in {"rdread", "rdmore"} => more # Failed /\ rdBase # Failed /\ rdBase <= more
  /\ pc = "rdmore" =>
       /\ lastRead <= chunk /\ lastRead <= rdSize /\ rdSize <= rd.len
       /\ rdSize <= more + chunk - rdBase
       /\ lost \in {"none", "short"}
       /\ lost = "none" /\ lastRead # chunk => rdSize = rd.len
  /\ pc \in {"rdread", "rdmore", "enter"} /\ rd # NoRamdisk => rdBase >= RamdiskHint

(* What the kernel's memory was claimed for. *)
ClaimInv ==
  KernelHeld => /\ base # Failed /\ kernel.class # 0 /\ kernel.segs # <<>> /\ seg >= 1
                /\ MainSegment.memsz + Room <= memsize

(* The kernel and each chunk of the ramdisk have their memory. *)
HeldInv ==
  /\ buffer = Failed
  /\ KernelHeld => \A u \in Region(base, memsize) : u \in Mem /\ owner[u] = "kernel"
  /\ pc \in {"rdread", "rdmore"} =>
       \A u \in rdBase .. more + chunk - 1 : u \in Mem /\ owner[u] = "rd"
  /\ pc = "enter" /\ rd # NoRamdisk =>
       \A u \in Region(rdBase, rdSize) : owner[u] = "rd"

IInv == TypeOK /\ AttemptInv /\ SizeInv /\ ClaimInv /\ WholeRamdisk /\ (DiskOnly => HeldInv)
=============================================================================
