--------------------------- MODULE Wrappers_proofs ---------------------------
(***************************************************************************)
(* What TLAPS proves of the images and their wrappers, for every image and *)
(* machine that the assumptions allow: the line is the image's, the        *)
(* wrapper runs on its own code to the end, and what the kernel is given   *)
(* is whole.                                                               *)
(***************************************************************************)
EXTENDS Wrappers, WellFoundedInduction, SequenceTheorems, TLAPS

Less == {p \in Nat \X Nat : p[1] < p[2]}

(* A set of numbers that is not empty has a lowest one, *)
LEMMA Lowest ==
  ASSUME NEW T, T \subseteq Nat, T # {}
  PROVE  \E x \in T : \A y \in T : x <= y
<1>1. IsWellFoundedOn(Less, Nat)
  BY NatLessThanWellFounded DEF Less, OpToRel
<1>2. PICK x \in T : \A y \in T : <<y, x>> \notin Less
  BY <1>1, WFMin
<1>3. \A y \in T : ~ (y < x)
  BY <1>2 DEF Less
<1> QED
  BY <1>2, <1>3

(* and a highest one if there is a bound. *)
LEMMA Highest ==
  ASSUME NEW T, NEW n \in Nat, T \subseteq 0 .. n, T # {}
  PROVE  \E x \in T : \A y \in T : y <= x
<1> DEFINE Below == {n - t : t \in T}
<1>1. Below \subseteq Nat /\ Below # {}
  <2>1. \A t \in T : n - t \in Nat
    OBVIOUS
  <2>2. \E t \in T : n - t \in Below
    OBVIOUS
  <2> QED BY <2>1, <2>2
<1> HIDE DEF Below
<1>2. PICK u \in Below : \A v \in Below : u <= v
  BY <1>1, Lowest
<1>3. PICK x \in T : u = n - x
  BY <1>2 DEF Below
<1>4. \A y \in T : n - x <= n - y
  BY <1>2, <1>3 DEF Below
<1> QED
  BY <1>3, <1>4


(* Who is where. *)
Running == {"md5", "cpu", "initrd", "unpack", "wait", "edit", "bootargs", "enter", "entered"}
PlaceInv ==
  /\ image \in Images /\ machine \in Machines /\ machine.kind = image.kind
  /\ machine.claimed \cup machine.busy \subseteq 0..image.link - 1 \cup End(image)..machine.top
  /\ {End(image), LoadAt + End(image) - image.link} \subseteq 0..machine.memory
  /\ Chrp => pc \in Running \cup {"linked", "made", "aborted"}
  /\ Prep => pc \in {"linked", "made", "relocate", "firmware", "wait", "edit", "unpack", "initrd",
                     "records", "moving", "entered", "aborted", "crashed"}
  /\ Iseries => pc \in {"linked", "attached", "made", "entered", "aborted"}

(* The records have their fields, and memory its size. *)
IsMemory(m) == m = [a \in 0..machine.top |-> m[a]]

ShapeInv ==
  /\ file = [prefer |-> file.prefer, string |-> file.string, headers |-> file.headers, length |-> file.length,
             blocks |-> file.blocks, naca |-> file.naca, sysmap |-> file.sysmap]
  /\ at = [kernel |-> at.kernel, rd |-> at.rd, base |-> at.base, rec |-> at.rec, size |-> at.size]
  /\ told = [rd |-> told.rd, args |-> told.args, memory |-> told.memory, smp |-> told.smp]
  /\ pc \notin {"linked", "attached", "made", "aborted"} => IsMemory(mem)

FirmwareArgs == <<"of the firmware">>

(* Whose line it is. *)
LineInv ==
  /\ file.prefer \in {"0", "1"} /\ (Iseries => file.prefer = "0")
  /\ file.string \in Seq(Typed) /\ line \in Seq(Typed)
  /\ Len(file.string) < LineSize /\ Len(line) < LineSize
  /\ ~Iseries /\ ~typed /\ pc \notin {"linked", "made", "aborted"} => line = file.string
  /\ Chrp /\ pc \in {"wait", "edit", "bootargs"} => file.prefer = "1"
  /\ pc = "entered" /\ Prep => told.args = line
  /\ ~(pc = "entered" /\ Prep) =>
       told.args = IF Chrp /\ pc \in {"enter", "entered"} /\ file.prefer = "1" THEN line ELSE FirmwareArgs
  /\ Prep /\ pc = "moving" =>
       /\ Find(recs, "CMD_LINE", <<>>) = line
       /\ image.rd > 0 => Find(recs, "INITRD", <<Nowhere, 0>>) = <<at.rd, image.rd>>

(* What addnote, mkprep and the iSeries tools write. *)
ImageInv ==
  /\ \/ file.headers = head.headers
     \/ /\ Fits /\ Zero
        /\ \E ns \in {TableEnd + 2 * head.ps} :
             file.headers = head.headers \o <<[type |-> "note", offset |-> ns, size |-> nnote],
                                              [type |-> "note", offset |-> ns + nnote, size |-> nnote2]>>
  /\ pc = "linked" => file.headers = head.headers
  /\ Prep /\ pc # "linked" => file.length = Sectors
  /\ ~Prep => file.length = Nowhere
  /\ Iseries /\ pc = "attached" => image.rd > 0 /\ file.blocks = OnDisk(WithRamDisk)
  /\ Iseries /\ pc = "made" =>
       IF image.rd > 0 THEN file.blocks = OnDisk(WithRamDisk) /\ file.naca = <<OffsetEnd, Total(image.rd) \div Page>>
       ELSE file.blocks = OnDisk(Behind(MapAt, "map", image.map, Total(image.map)))
            /\ file.sysmap = <<MapStart, MapStart + image.map>>
  /\ Iseries /\ pc = "entered" => HandsOverWhole

(* All of the image came, or the sum said so. *)
Came == (image.md5 /\ pc # "md5") \/ machine.loads >= RdEnd(image) - image.link
KernelAt == at.kernel..at.kernel + Memsize - 1
RdAt == told.rd[1]..told.rd[1] + image.rd - 1
Stuff == IF image.gz THEN "z" ELSE "kernel"

Intact ==
  /\ mem[image.link] = <<"code", 0>> /\ mem[End(image) - 1] = <<"bss", 0>>
  /\ \A a \in machine.busy : mem[a] = <<"busy", a>>
Claims ==
  IF pc = "md5" THEN claimed = machine.claimed \/ claimed = machine.claimed \cup Image(image)
  ELSE machine.claimed \cup Image(image) \subseteq claimed
PartsThere ==
  /\ pc \in {"md5", "cpu", "initrd", "unpack"} /\ Came => Holds(mem, Start(image), image.z, Stuff)
  /\ pc \in {"md5", "cpu", "initrd"} /\ Came => Holds(mem, RdStart(image), image.rd, "rd")
KernelApart ==
  /\ at.kernel \in Nat /\ at.kernel >= Base /\ at.base = at.kernel + Memsize
  /\ KernelAt \subseteq claimed \cap 0..machine.memory - 1
  /\ KernelAt \cap (Image(image) \cup machine.busy) = {}
RamdiskApart ==
  /\ told.rd = <<told.rd[1], image.rd>> /\ told.rd[1] \in Nat /\ told.rd[1] >= image.memsize
  /\ RdAt \subseteq claimed \cap 0..machine.memory - 1
  /\ RdAt \cap KernelAt = {}
  /\ Came => Holds(mem, told.rd[1], image.rd, "rd")

ChrpInv ==
  Chrp /\ pc \in Running =>
    /\ Intact /\ Claims /\ PartsThere
    /\ pc = "cpu" => at.base = Base
    /\ pc \notin {"md5", "cpu"} => KernelApart
    /\ pc \notin {"md5", "cpu", "initrd"} /\ image.rd > 0 => RamdiskApart
    /\ pc \in {"wait", "edit", "bootargs", "enter", "entered"} /\ Came => Holds(mem, at.kernel, Loaded, "kernel")

(* Where the kernel is unpacked to. *)
BufInv ==
  \/ buf = 0 /\ ~machine.of
  \/ machine.of /\ buf \in Nat /\ buf >= End(image) /\ buf + VMLINUX_SIZE <= machine.memory

AsLoaded == \A k \in 0..Size - 1 : mem[LoadAt + k] = Block(image, image.link + k)
AsLinked == \A a \in Image(image) : mem[a] = Block(image, a)
Measured == BufInv /\ at.size = image.size /\ at.rec = Align(image.size + MB - 1, MB)
OwnCode == mem[image.link] = <<"code", 0>> /\ mem[End(image) - 1] = <<"bss", 0>>
RamdiskBeside ==
  /\ at.rd \in Nat /\ at.rd > image.link /\ at.rd + image.rd <= machine.memory
  /\ at.rd + image.rd <= at.rec \/ at.rec + RecBlocks <= at.rd
  /\ machine.of => at.rd + image.rd <= buf
  /\ Holds(mem, at.rd, image.rd, "rd")

PrepInv ==
  Prep =>
    /\ pc = "relocate" => AsLoaded
    /\ pc \in {"firmware", "wait", "edit", "unpack", "initrd"} => AsLinked
    /\ pc \in {"wait", "edit", "unpack"} => BufInv \/ buf = Nowhere
    /\ pc \in {"initrd", "records", "moving", "entered"} => Measured
    /\ pc = "initrd" => at.rd = RdStart(image) /\ Holds(mem, buf, image.size, "kernel")
    /\ pc \in {"records", "moving", "entered"} /\ Clear =>
         OwnCode /\ Holds(mem, IF pc = "entered" THEN 0 ELSE buf, image.size, "kernel") /\ (image.rd > 0 => RamdiskBeside)
    /\ pc \in {"moving", "entered"} /\ Clear => Holds(mem, at.rec, RecBlocks, "recs")
    /\ pc = "entered" /\ image.rd > 0 => told.rd = <<at.rd, image.rd>>

IInv == PlaceInv /\ ShapeInv /\ LineInv /\ ImageInv /\ ChrpInv /\ PrepInv

-----------------------------------------------------------------------------
(* The image and the machine stay what they are. *)
LEMMA Same == [Next]_allVars => image' = image /\ machine' = machine
<1> SUFFICES ASSUME [Next]_allVars PROVE image' = image /\ machine' = machine
  OBVIOUS
<1>1. CASE MakeImage
  BY <1>1 DEF MakeImage, NoteThere, NoSpace, AddNote, Mkprep, NotKernel, AddRamDisk, Fixup, Death, NoEnd,
     AddSystemMap, EnterIseries, Finish, Fails, Abort
<1>2. CASE MkzimageCmdline \/ Load \/ InflateFails \/ Timeout \/ Key
  BY <1>2 DEF MkzimageCmdline, Load, InflateFails, Timeout, Key, Abort
<1>3. CASE ChrpNext
  BY <1>3 DEF ChrpNext, CheckMd5, Corrupted, NoCpu, NoRoom, ClaimKernel, LeaveInitrd, MoveInitrd,
     NoRoomForInitrd, NoInitrd, Unpack, Bootargs, Enter, Abort
<1>4. CASE PrepNext
  BY <1>4 DEF PrepNext, Relocate, LoadKernel, UnpackNowhere, UnpackKernel, MoveFromRecs, StaysThere,
     Bootinfo, EnterPrep
<1>5. CASE UNCHANGED allVars
  BY <1>5 DEF allVars, vars
<1> QED BY <1>1, <1>2, <1>3, <1>4, <1>5 DEF Next

(* The sizes and addresses of an image and its machine are numbers. *)
LEMMA Numbers ==
  PlaceInv => /\ image.link \in Nat /\ image.z \in Nat /\ image.rd \in Nat /\ image.size \in Nat /\ image.memsize \in Nat
              /\ machine.top \in Nat /\ machine.memory \in Nat /\ machine.memory <= machine.top + 1
              /\ machine.loads \in Nat \ {0}
  BY ZImageAssumption DEF PlaceInv

LEMMA Flags ==
  PlaceInv => /\ image.gz \in BOOLEAN /\ image.md5 \in BOOLEAN
              /\ image.kind \in {"chrp", "prep", "iseries"} /\ machine.kind = image.kind
  BY ZImageAssumption DEF PlaceInv

(* and so is where everything is. *)
LEMMA Regions ==
  PlaceInv => /\ Start(image) = image.link + 1 /\ RdStart(image) = image.link + 1 + image.z
              /\ RdEnd(image) = image.link + 1 + image.z + image.rd
              /\ End(image) = image.link + 2 + image.z + image.rd
              /\ Start(image) \in Nat /\ RdStart(image) \in Nat /\ RdEnd(image) \in Nat /\ End(image) \in Nat
              /\ Image(image) = image.link..image.link + 1 + image.z + image.rd
<1> SUFFICES ASSUME PlaceInv PROVE Regions!2
  OBVIOUS
<1>1. image.link \in Nat /\ image.z \in Nat /\ image.rd \in Nat
  BY Numbers
<1>2. /\ Start(image) = image.link + 1 /\ RdStart(image) = image.link + 1 + image.z
      /\ RdEnd(image) = image.link + 1 + image.z + image.rd
      /\ End(image) = image.link + 2 + image.z + image.rd
  BY <1>1 DEF Start, RdStart, RdEnd, End
<1>3. /\ Start(image) \in Nat /\ RdStart(image) \in Nat /\ RdEnd(image) \in Nat /\ End(image) \in Nat
  BY <1>1, <1>2
<1>4. Image(image) = image.link..image.link + 1 + image.z + image.rd
  <2>1. End(image) - 1 = image.link + 1 + image.z + image.rd
    BY <1>1, <1>2
  <2> QED BY <2>1 DEF Image
<1> QED BY <1>2, <1>3, <1>4

LEMMA LoadedAt ==
  PlaceInv => /\ LoadAt \in Nat /\ Size = image.z + image.rd + 2 /\ LoadAt + Size <= machine.memory
              /\ End(image) <= machine.memory
<1> SUFFICES ASSUME PlaceInv PROVE LoadedAt!2
  OBVIOUS
<1>1. machine.load \in Nat \cup {Nowhere}
  BY ZImageAssumption DEF PlaceInv
<1>2. LoadAt \in Nat
  BY <1>1, Numbers DEF LoadAt, Nowhere
<1>3. /\ image.link \in Nat /\ image.z \in Nat /\ image.rd \in Nat /\ machine.memory \in Nat
      /\ End(image) = image.link + 2 + image.z + image.rd
  BY Numbers, Regions
<1>4. Size = image.z + image.rd + 2
  BY <1>3 DEF Size
<1>5. End(image) <= machine.memory /\ LoadAt + End(image) - image.link <= machine.memory
  BY Numbers DEF PlaceInv
<1>6. LoadAt + Size <= machine.memory
  BY <1>2, <1>3, <1>5 DEF Size
<1> QED BY <1>2, <1>4, <1>5, <1>6

(* What firmware and the makers of CHRP images keep to. *)
LEMMA ChrpNumbers ==
  PlaceInv /\ Chrp =>
         /\ Base \in Nat /\ Memsize \in Nat /\ Memsize >= image.memsize
         /\ Loaded \in Nat /\ Loaded <= image.memsize
         /\ LoadAt = image.link /\ machine.busy \subseteq Nat
         /\ \A b \in machine.busy : b \in machine.claimed \/ b < Base
         /\ machine.claimed \cap Image(image) = {} /\ machine.busy \cap Image(image) = {}
<1> SUFFICES ASSUME PlaceInv, Chrp PROVE ChrpNumbers!2
  OBVIOUS
<1>1. /\ image \in Images /\ machine \in Machines /\ image.kind = "chrp" /\ machine.kind = "chrp"
  BY DEF PlaceInv, Chrp
<1>2. /\ machine.load = Nowhere /\ machine.busy \subseteq Nat
      /\ \A b \in machine.busy : b \in machine.claimed \/ b < Base
      /\ Base \in Nat
  BY <1>1, ChrpAssumption DEF Base
<1>3. (IF image.gz THEN image.size ELSE image.z) <= image.memsize /\ Extra \in Nat
  BY <1>1, ChrpAssumption
<1>4. machine.claimed \cap Image(image) = {} /\ machine.busy \cap Image(image) = {}
  <2>1. image.link \in Nat /\ End(image) \in Nat /\ Image(image) = image.link..End(image) - 1
    BY Numbers, Regions DEF Image
  <2>2. machine.claimed \cup machine.busy \subseteq 0..image.link - 1 \cup End(image)..machine.top
    BY DEF PlaceInv
  <2>3. machine.top \in Nat /\ \A x \in 0..image.link - 1 \cup End(image)..machine.top : x \notin image.link..End(image) - 1
    BY <2>1, Numbers
  <2> QED BY <2>1, <2>2, <2>3
<1>5. LoadAt = image.link
  BY <1>2 DEF LoadAt
<1>6. Loaded \in Nat /\ Loaded <= image.memsize /\ Memsize \in Nat /\ Memsize >= image.memsize
  BY <1>3, Numbers DEF Memsize, Loaded
<1> QED BY <1>2, <1>4, <1>5, <1>6

(* The line in the place for it. *)
LEMMA LineSizes == LineSize \in Nat /\ LineSize > 0 /\ Strings \subseteq Seq(Typed)
  BY ZImageAssumption

(* What is copied. *)
LEMMA Moved ==
  ASSUME NEW m, IsMemory(m), NEW dst \in Int, NEW src \in Int, NEW n \in Nat
  PROVE  /\ IsMemory(MemMove(m, dst, src, n))
         /\ \A a \in 0..machine.top : MemMove(m, dst, src, n)[a] = IF a \in dst..dst + n - 1 THEN m[src + (a - dst)] ELSE m[a]
<1>1. DOMAIN m = 0..machine.top
  BY DEF IsMemory
<1> QED BY <1>1 DEF MemMove, Write, IsMemory

(* do_relocate copies in the order in which nothing is lost. *)
LEMMA Relocation ==
  ASSUME NEW m, IsMemory(m), NEW dst \in Nat, NEW src \in Nat, NEW n \in Nat
  PROVE  /\ IsMemory(Relocated(m, dst, src, n))
         /\ \A a \in 0..machine.top : Relocated(m, dst, src, n)[a] = IF a \in dst..dst + n - 1 THEN m[src + (a - dst)] ELSE m[a]
<1>1. DOMAIN m = 0..machine.top
  BY DEF IsMemory
<1>2. dst > src \/ dst = src \/ src > dst
  OBVIOUS
<1> QED BY <1>1, <1>2 DEF Relocated, Write, Upwards, IsMemory

LEMMA InitInv == Made => IInv
<1> SUFFICES ASSUME Made PROVE IInv
  OBVIOUS
<1> USE DEF Made, Init
<1>1. PlaceInv
  <2>1. machine.kind \in {"chrp", "prep", "iseries"}
    BY ZImageAssumption
  <2> QED BY <2>1 DEF PlaceInv, Chrp, Prep, Iseries, Running
<1>2. ShapeInv
  BY DEF ShapeInv
<1>3. LineInv
  <2>1. file.prefer = "0" /\ file.string = <<>> /\ told.args = FirmwareArgs
    BY DEF FirmwareArgs
  <2>2. <<>> \in Seq(Typed) /\ Len(<<>>) = 0
    BY EmptySeq
  <2> QED BY <2>1, <2>2, LineSizes DEF LineInv, Chrp, Prep, Iseries
<1>4. ImageInv /\ ChrpInv /\ PrepInv
  BY DEF ImageInv, ChrpInv, PrepInv, head, Running, Chrp, Prep, Iseries
<1> QED BY <1>1, <1>2, <1>3, <1>4 DEF IInv

-----------------------------------------------------------------------------
(* Nobody leaves the way of his machine. *)
LEMMA PlaceStep == PlaceInv /\ [Next]_allVars => PlaceInv'
<1> SUFFICES ASSUME PlaceInv, [Next]_allVars PROVE PlaceInv'
  OBVIOUS
<1>1. image' = image /\ machine' = machine
  BY Same
<1>2. machine.kind \in {"chrp", "prep", "iseries"}
  BY Flags
<1> DEFINE Places ==
      /\ Chrp => pc \in Running \cup {"linked", "made", "aborted"}
      /\ Prep => pc \in {"linked", "made", "relocate", "firmware", "wait", "edit", "unpack", "initrd",
                         "records", "moving", "entered", "aborted", "crashed"}
      /\ Iseries => pc \in {"linked", "attached", "made", "entered", "aborted"}
<1>3. Places
  BY DEF PlaceInv
<1>4. Places'
  <2> USE DEF Chrp, Prep, Iseries, Running
  <2>1. CASE MakeImage
    BY <1>1, <1>2, <1>3, <2>1 DEF MakeImage, NoteThere, NoSpace, AddNote, Mkprep, NotKernel, AddRamDisk, Fixup, Death, NoEnd,
       AddSystemMap, EnterIseries, Finish, Fails, Abort
  <2>2. CASE MkzimageCmdline \/ Load \/ InflateFails \/ Timeout
    BY <1>1, <1>2, <1>3, <2>2 DEF MkzimageCmdline, Load, InflateFails, Timeout, Abort, Leave, After
  <2>3. CASE Key
    BY <1>1, <1>2, <1>3, <2>3 DEF Key, Plain, After
  <2>4. CASE ChrpNext
    BY <1>1, <1>2, <1>3, <2>4 DEF ChrpNext, CheckMd5, Corrupted, NoCpu, NoRoom, ClaimKernel, LeaveInitrd, MoveInitrd,
       NoRoomForInitrd, NoInitrd, Unpack, Bootargs, Enter, Abort, AtInitrd
  <2>5. CASE PrepNext
    BY <1>1, <1>2, <1>3, <2>5 DEF PrepNext, Relocate, LoadKernel, UnpackNowhere, UnpackKernel, MoveFromRecs, StaysThere,
       Bootinfo, EnterPrep
  <2>6. CASE UNCHANGED allVars
    BY <1>3, <2>6 DEF allVars, vars
  <2> QED BY <2>1, <2>2, <2>3, <2>4, <2>5, <2>6 DEF Next
<1> QED BY <1>1, <1>4 DEF PlaceInv, LoadAt, Chrp, Prep, Iseries

(* The records keep their fields, and memory its size. *)
LEMMA ShapeStep == PlaceInv /\ ShapeInv /\ [Next]_allVars => ShapeInv'
<1> SUFFICES ASSUME PlaceInv, ShapeInv, [Next]_allVars PROVE ShapeInv'
  OBVIOUS
<1>1. image' = image /\ machine' = machine
  BY Same
<1> USE <1>1 DEF ShapeInv, IsMemory
<1>2. CASE MakeImage
  <2>1. CASE EnterIseries
    BY <2>1 DEF EnterIseries
  <2>2. CASE MakeImage /\ ~EnterIseries
    BY <2>2 DEF MakeImage, NoteThere, NoSpace, AddNote, Mkprep, NotKernel, AddRamDisk, Fixup, Death, NoEnd,
       AddSystemMap, Finish, Fails, Abort, store
  <2> QED BY <1>2, <2>1, <2>2
<1>3. CASE MkzimageCmdline \/ Load \/ InflateFails \/ Timeout
  <2>1. CASE MkzimageCmdline
    BY <2>1 DEF MkzimageCmdline, store
  <2>2. CASE Load
    BY <2>2 DEF Load
  <2>3. CASE InflateFails \/ Timeout
    BY <2>3 DEF InflateFails, Timeout, Abort, Leave, store
  <2> QED BY <1>3, <2>1, <2>2, <2>3
<1>4. CASE Key
  BY <1>4 DEF Key, Plain, store
<1>5. CASE ChrpNext
  <2>1. CASE MoveInitrd
    BY <2>1 DEF MoveInitrd, MemMove, Write, AtInitrd
  <2>2. CASE Unpack
    BY <2>2 DEF Unpack, Gunzip, MemMove, Write
  <2>3. CASE CheckMd5 \/ Corrupted \/ NoCpu \/ NoRoom \/ ClaimKernel \/ LeaveInitrd
    BY <2>3 DEF CheckMd5, Corrupted, NoCpu, NoRoom, ClaimKernel, LeaveInitrd, Abort, AtInitrd, store
  <2>4. CASE NoRoomForInitrd \/ NoInitrd \/ Bootargs \/ Enter
    BY <2>4 DEF NoRoomForInitrd, NoInitrd, Bootargs, Enter, Abort, AtInitrd, store
  <2> QED BY <1>5, <2>1, <2>2, <2>3, <2>4 DEF ChrpNext
<1>6. CASE PrepNext
  <2>1. CASE Relocate
    <3>1. CASE LoadAt = image.link
      BY <2>1, <3>1 DEF Relocate
    <3>2. CASE LoadAt # image.link
      <4> HIDE DEF IsMemory
      <4> DEFINE Copied == Write(mem, Safe, 1, LAMBDA k : <<"code", 0>>)
      <4>1. IsMemory(Copied)
        BY <2>1 DEF Relocate, Write, IsMemory
      <4>2. mem' = Relocated(Copied, image.link, LoadAt, Size)
        BY <2>1, <3>2 DEF Relocate
      <4> HIDE DEF Copied
      <4>3. image.link \in Nat /\ LoadAt \in Nat /\ Size \in Nat
        BY LoadedAt, Numbers
      <4>4. IsMemory(mem')
        BY <4>1, <4>2, <4>3, Relocation
      <4>5. at' = at /\ told' = told /\ file' = file /\ machine' = machine
        BY <2>1 DEF Relocate
      <4> QED BY <4>4, <4>5 DEF IsMemory
    <3> QED BY <3>1, <3>2
  <2>2. CASE LoadKernel \/ UnpackNowhere \/ StaysThere
    BY <2>2 DEF LoadKernel, UnpackNowhere, StaysThere, store
  <2>3. CASE UnpackKernel
    BY <2>3 DEF UnpackKernel, Gunzip, Write
  <2>4. CASE MoveFromRecs
    BY <2>4 DEF MoveFromRecs, MemMove, Write
  <2>5. CASE Bootinfo
    BY <2>5 DEF Bootinfo, Write
  <2>6. CASE EnterPrep
    BY <2>6 DEF EnterPrep, MemMove, Write
  <2> QED BY <1>6, <2>1, <2>2, <2>3, <2>4, <2>5, <2>6 DEF PrepNext
<1>7. CASE UNCHANGED allVars
  BY <1>7 DEF allVars, vars, store
<1> QED BY <1>2, <1>3, <1>4, <1>5, <1>6, <1>7 DEF Next

-----------------------------------------------------------------------------
(* The beginning of a sequence. *)
LEMMA Prefix ==
  ASSUME NEW S, NEW s \in Seq(S), NEW n \in 0..Len(s)
  PROVE  /\ SubSeq(s, 1, n) \in Seq(S) /\ Len(SubSeq(s, 1, n)) = n
         /\ \A k \in 1..n : SubSeq(s, 1, n)[k] = s[k]
<1>1. \A k \in 1..n : s[k] \in S
  BY LenProperties, ElementOfSeq
<1>2. n \in Int /\ n \in Nat
  BY LenProperties
<1>3. SubSeq(s, 1, n) \in Seq(S) /\ Len(SubSeq(s, 1, n)) = (IF 1 <= n THEN n - 1 + 1 ELSE 0)
  BY <1>1, <1>2, SubSeqProperties
<1>4. \A k \in 1..n - 1 + 1 : SubSeq(s, 1, n)[k] = s[1 + k - 1]
  BY <1>1, <1>2, SubSeqProperties
<1> QED BY <1>2, <1>3, <1>4

(* ^w leaves a beginning of the line. *)
LEMMA DropWordIs ==
  ASSUME NEW s \in Seq(Typed)
  PROVE  DropWord(s) \in Seq(Typed) /\ Len(DropWord(s)) <= Len(s)
<1>1. CASE s = <<>>
  BY <1>1, EmptySeq DEF DropWord
<1>2. CASE s # <<>>
  <2> DEFINE Ends(n) == n < Len(s) /\ (n = 0 \/ (s[n] = " " /\ s[n + 1] # " "))
             T == {n \in 0..Len(s) : Ends(n)}
             x == CHOOSE n \in 0..Len(s) : Ends(n) /\ \A k \in n + 1..Len(s) : ~Ends(k)
  <2>1. Len(s) \in Nat \ {0}
    BY <1>2, EmptySeq
  <2>2. T \subseteq 0..Len(s) /\ T # {}
    <3>1. 0 \in T
      BY <2>1
    <3> QED BY <3>1
  <2>3. PICK n \in T : \A y \in T : y <= n
    BY <2>1, <2>2, Highest
  <2>7. n \in 0..Len(s) /\ Ends(n)
    BY <2>3
  <2> HIDE DEF Ends
  <2>4. \A k \in n + 1..Len(s) : ~Ends(k)
    <3> SUFFICES ASSUME NEW k \in n + 1..Len(s), Ends(k) PROVE FALSE
      OBVIOUS
    <3>1. k \in 0..Len(s) /\ ~(k <= n)
      BY <2>1, <2>7
    <3> QED BY <2>3, <3>1
  <2>5. x \in 0..Len(s)
    BY <2>4, <2>7
  <2>6. DropWord(s) = SubSeq(s, 1, x)
    BY <1>2 DEF DropWord, Ends
  <2> HIDE DEF x
  <2>8. SubSeq(s, 1, x) \in Seq(Typed) /\ Len(SubSeq(s, 1, x)) = x
    BY <2>5, Prefix
  <2> QED BY <2>1, <2>5, <2>6, <2>8
<1> QED BY <1>1, <1>2

(* bootinfo_append puts a record over the last one and a last one behind. *)
LastRecord == [tag |-> "LAST"]
LEMMA RecAppended ==
  ASSUME NEW S, NEW list \in Seq(S), list # <<>>, NEW rec \in S, LastRecord \in S
  PROVE  /\ RecAppend(list, rec) \in Seq(S) /\ Len(RecAppend(list, rec)) = Len(list) + 1
         /\ \A k \in 1..Len(list) - 1 : RecAppend(list, rec)[k] = list[k]
         /\ RecAppend(list, rec)[Len(list)] = rec /\ RecAppend(list, rec)[Len(list) + 1] = LastRecord
<1> DEFINE n == Len(list) - 1  tail == <<rec, LastRecord>>  longer == RecAppend(list, rec)
<1>1. n \in Nat /\ n \in 0..Len(list)
  BY EmptySeq, LenProperties
<1>2. Front(list) \in Seq(S) /\ Len(Front(list)) = n /\ \A k \in 1..n : Front(list)[k] = list[k]
  BY <1>1, Prefix DEF Front
<1>3. tail \in Seq(S) /\ Len(tail) = 2 /\ tail[1] = rec /\ tail[2] = LastRecord
  OBVIOUS
<1>4. longer = Front(list) \o tail
  BY DEF RecAppend, LastRecord
<1> HIDE DEF tail, longer
<1>5. longer \in Seq(S) /\ Len(longer) = n + 2 /\ \A i \in 1..n + 2 : longer[i] = IF i <= n THEN Front(list)[i] ELSE tail[i - n]
  <2>1. /\ Front(list) \o tail \in Seq(S) /\ Len(Front(list) \o tail) = Len(Front(list)) + Len(tail)
        /\ \A i \in 1..Len(Front(list)) + Len(tail) :
             (Front(list) \o tail)[i] = IF i <= Len(Front(list)) THEN Front(list)[i] ELSE tail[i - Len(Front(list))]
    BY <1>2, <1>3, ConcatProperties
  <2> QED BY <1>2, <1>3, <1>4, <2>1
<1>6. /\ n + 1 \in 1..n + 2 /\ n + 2 \in 1..n + 2 /\ (n + 1) - n = 1 /\ (n + 2) - n = 2 /\ n + 1 = Len(list)
      /\ ~(n + 1 <= n) /\ ~(n + 2 <= n)
  BY <1>1
<1>7. longer[n + 1] = rec /\ longer[n + 2] = LastRecord
  BY <1>3, <1>5, <1>6
<1>8. \A k \in 1..n : longer[k] = list[k]
  BY <1>1, <1>2, <1>5
<1> QED BY <1>1, <1>5, <1>6, <1>7, <1>8 DEF longer

(* The kernel finds the only record of its kind. *)
LEMMA FoundIs ==
  ASSUME NEW list, NEW k \in DOMAIN list, NEW tag, list[k].tag = tag,
         \A j \in DOMAIN list : list[j].tag = tag => j = k, NEW none
  PROVE  Find(list, tag, none) = list[k].data
<1>1. {j \in DOMAIN list : list[j].tag = tag} = {k}
  OBVIOUS
<1> QED BY <1>1 DEF Find

(* The line and the ramdisk are found among the records, whatever these are *)
Records(small, with, M, C, I) ==
  LET a == IF small THEN BootinfoInit ELSE RecAppend(BootinfoInit, M)
      b == RecAppend(a, C)
  IN IF with THEN RecAppend(b, I) ELSE b

LEMMA RecordsAre ==
  ASSUME NEW M, NEW C, NEW I, NEW small \in BOOLEAN, NEW with \in BOOLEAN,
         M.tag = "MEMSIZE", C.tag = "CMD_LINE", I.tag = "INITRD"
  PROVE  /\ Find(Records(small, with, M, C, I), "CMD_LINE", <<>>) = C.data
         /\ with => Find(Records(small, with, M, C, I), "INITRD", <<Nowhere, 0>>) = I.data
<1> DEFINE F == [tag |-> "FIRST"]
<1>11. F.tag = "FIRST" /\ BootinfoInit[1] = F /\ Len(BootinfoInit) = 2 /\ BootinfoInit \in Seq({F, M, C, I, LastRecord})
  BY DEF BootinfoInit, LastRecord
<1> HIDE DEF F
<1> SUFFICES ASSUME NEW a, NEW b, NEW c,
                    a = IF small THEN BootinfoInit ELSE RecAppend(BootinfoInit, M),
                    b = RecAppend(a, C),
                    c = IF with THEN RecAppend(b, I) ELSE b
             PROVE  /\ Find(c, "CMD_LINE", <<>>) = C.data
                    /\ with => Find(c, "INITRD", <<Nowhere, 0>>) = I.data
  BY DEF Records
<1> USE <1>11
<1> DEFINE S == {F, M, C, I, LastRecord}
<1>1. F \in S /\ M \in S /\ C \in S /\ I \in S /\ LastRecord \in S /\ LastRecord.tag = "LAST"
  BY DEF LastRecord
<1>2. BootinfoInit \in Seq(S)
  OBVIOUS
<1> HIDE DEF S
<1>3. BootinfoInit # <<>>
  BY <1>2, EmptySeq
<1>5. a \in Seq(S) /\ (Len(a) = 2 \/ Len(a) = 3)
  <2>1. CASE small
    BY <1>2, <2>1
  <2>2. CASE ~small
    <3>1. RecAppend(BootinfoInit, M) \in Seq(S) /\ Len(RecAppend(BootinfoInit, M)) = Len(BootinfoInit) + 1
      BY ONLY <1>1, <1>2, <1>3, RecAppended
    <3> QED BY <2>2, <3>1
  <2> QED BY <2>1, <2>2
<1>10. \A k \in 1..Len(a) - 1 : a[k] = F \/ a[k] = M
  <2>1. CASE small
    <3>1. a = BootinfoInit
      BY <2>1
    <3>2. \A k \in 1..2 - 1 : k = 1
      OBVIOUS
    <3> QED BY <3>1, <3>2
  <2>2. CASE ~small
    <3>1. /\ RecAppend(BootinfoInit, M)[Len(BootinfoInit)] = M /\ Len(RecAppend(BootinfoInit, M)) = Len(BootinfoInit) + 1
          /\ \A k \in 1..Len(BootinfoInit) - 1 : RecAppend(BootinfoInit, M)[k] = BootinfoInit[k]
      BY ONLY <1>1, <1>2, <1>3, RecAppended
    <3>2. a = RecAppend(BootinfoInit, M)
      BY <2>2
    <3>3. Len(a) = 3 /\ a[1] = F /\ a[2] = M
      BY <3>1, <3>2
    <3>4. \A k \in 1..3 - 1 : k = 1 \/ k = 2
      OBVIOUS
    <3> QED BY <3>3, <3>4
  <2> QED BY <2>1, <2>2
<1> DEFINE n == Len(a)
<1>4. n \in Nat /\ n >= 2 /\ a # <<>>
  <2>1. n \in Nat /\ n >= 2
    BY ONLY <1>5 DEF n
  <2>2. Len(<<>>) = 0
    BY EmptySeq
  <2> QED BY ONLY <2>1, <2>2
<1>6. /\ b \in Seq(S) /\ Len(b) = n + 1 /\ b[n] = C /\ b[n + 1] = LastRecord
      /\ \A k \in 1..n - 1 : b[k] = a[k]
  <2>1. /\ RecAppend(a, C) \in Seq(S) /\ Len(RecAppend(a, C)) = Len(a) + 1
        /\ RecAppend(a, C)[Len(a)] = C /\ RecAppend(a, C)[Len(a) + 1] = LastRecord
        /\ \A k \in 1..Len(a) - 1 : RecAppend(a, C)[k] = a[k]
    BY ONLY <1>1, <1>4, <1>5, RecAppended
  <2>2. b = RecAppend(a, C)
    OBVIOUS
  <2> QED BY ONLY <2>1, <2>2 DEF n
<1>9. \A k \in 1..n - 1 : b[k] = F \/ b[k] = M
  BY <1>6, <1>10
<1> HIDE DEF n
<1>7. CASE ~with
  <2>1. c = b /\ DOMAIN c = 1..n + 1
    <3>1. c = b
      BY <1>7
    <3> QED BY <1>6, <3>1, LenProperties
  <2>2. \A j \in 1..n + 1 : j \in 1..n - 1 \/ j = n \/ j = n + 1
    BY <1>4
  <2>3. n \in DOMAIN c /\ c[n].tag = "CMD_LINE"
    BY <1>4, <1>6, <2>1
  <2>4. \A j \in DOMAIN c : c[j].tag = "CMD_LINE" => j = n
    BY <1>1, <1>6, <1>9, <2>1, <2>2
  <2>5. Find(c, "CMD_LINE", <<>>) = c[n].data
    BY ONLY <2>3, <2>4, FoundIs
  <2> QED BY <1>6, <1>7, <2>1, <2>5
<1>8. CASE with
  <2>1. b # <<>> /\ c = RecAppend(b, I)
    <3>1. c = RecAppend(b, I)
      BY <1>8
    <3>2. Len(b) # 0
      BY <1>4, <1>6
    <3> QED BY <3>1, <3>2, EmptySeq
  <2>2. /\ c \in Seq(S) /\ Len(c) = Len(b) + 1 /\ c[Len(b)] = I /\ c[Len(b) + 1] = LastRecord
        /\ \A k \in 1..Len(b) - 1 : c[k] = b[k]
    <3>1. /\ RecAppend(b, I) \in Seq(S) /\ Len(RecAppend(b, I)) = Len(b) + 1
          /\ RecAppend(b, I)[Len(b)] = I /\ RecAppend(b, I)[Len(b) + 1] = LastRecord
          /\ \A k \in 1..Len(b) - 1 : RecAppend(b, I)[k] = b[k]
      <4>1. b \in Seq(S) /\ b # <<>>
        BY <1>6, <2>1
      <4> QED BY ONLY <1>1, <4>1, RecAppended
    <3> QED BY ONLY <2>1, <3>1
  <2>3. n + 1 + 1 = n + 2 /\ n + 1 - 1 = n /\ n \in 1..n /\ n \in 1..n + 2 /\ n + 1 \in 1..n + 2
    BY <1>4
  <2>4. Len(c) = n + 2 /\ c[n + 1] = I /\ c[n + 2] = LastRecord /\ \A k \in 1..n : c[k] = b[k]
    BY <1>6, <2>2, <2>3
  <2>5. DOMAIN c = 1..n + 2
    BY <2>2, <2>4, LenProperties
  <2>6. c[n] = C /\ \A k \in 1..n - 1 : c[k] = F \/ c[k] = M
    BY <1>4, <1>6, <1>9, <2>3, <2>4
  <2>7. \A j \in DOMAIN c : j \in 1..n - 1 \/ j = n \/ j = n + 1 \/ j = n + 2
    BY <1>4, <2>5
  <2>8. \A j \in DOMAIN c : c[j].tag = "CMD_LINE" => j = n
    BY <1>1, <2>4, <2>6, <2>7
  <2>9. \A j \in DOMAIN c : c[j].tag = "INITRD" => j = n + 1
    BY <1>1, <2>4, <2>6, <2>7
  <2>10. Find(c, "CMD_LINE", <<>>) = c[n].data
    <3>1. n \in DOMAIN c /\ c[n].tag = "CMD_LINE"
      BY <2>3, <2>5, <2>6
    <3> QED BY ONLY <2>8, <3>1, FoundIs
  <2>11. Find(c, "INITRD", <<Nowhere, 0>>) = c[n + 1].data
    <3>1. n + 1 \in DOMAIN c /\ c[n + 1].tag = "INITRD"
      BY <2>3, <2>4, <2>5
    <3> QED BY ONLY <2>9, <3>1, FoundIs
  <2> QED BY <2>4, <2>6, <2>10, <2>11
<1> QED BY <1>7, <1>8

(* What bootinfo writes says so. *)
LEMMA BootinfoTells ==
  ASSUME Bootinfo
  PROVE  /\ Find(recs', "CMD_LINE", <<>>) = line
         /\ image.rd # 0 => Find(recs', "INITRD", <<Nowhere, 0>>) = <<at.rd, image.rd>>
<1> DEFINE M == [tag |-> "MEMSIZE", data |-> MemSize]
           C == [tag |-> "CMD_LINE", data |-> line]
           I == [tag |-> "INITRD", data |-> <<at.rd, image.rd>>]
           small == MemSize = 0
           with == image.rd # 0
<1>1. recs' = Records(small, with, M, C, I)
  BY DEF Bootinfo, Records
<1>2. /\ M.tag = "MEMSIZE" /\ C.tag = "CMD_LINE" /\ I.tag = "INITRD"
      /\ C.data = line /\ I.data = <<at.rd, image.rd>>
      /\ small \in BOOLEAN /\ with \in BOOLEAN
  OBVIOUS
<1>3. with = (image.rd # 0)
  OBVIOUS
<1> HIDE DEF M, C, I, small, with
<1>4. /\ Find(Records(small, with, M, C, I), "CMD_LINE", <<>>) = C.data
      /\ with => Find(Records(small, with, M, C, I), "INITRD", <<Nowhere, 0>>) = I.data
  BY ONLY <1>2, RecordsAre
<1> QED BY <1>1, <1>2, <1>3, <1>4

(* The line stays the image's until somebody types, and gets where it is  *)
(* wanted.                                                                 *)
LEMMA LineStep == IInv /\ [Next]_allVars => LineInv'
<1> SUFFICES ASSUME PlaceInv, ShapeInv, LineInv, ImageInv, [Next]_allVars PROVE LineInv'
  BY DEF IInv
<1>1. image' = image /\ machine' = machine /\ machine.kind \in {"chrp", "prep", "iseries"}
  BY Same, Flags
<1>2. LineSize \in Nat \ {0}
  BY LineSizes
<1>3. (Chrp' <=> Chrp) /\ (Prep' <=> Prep) /\ (Iseries' <=> Iseries)
  BY <1>1 DEF Chrp, Prep, Iseries
<1>4. CASE MakeImage
  <2>1. CASE EnterIseries
    BY <1>1, <1>3, <2>1 DEF EnterIseries, LineInv, ShapeInv, FirmwareArgs, editing, Iseries, Chrp, Prep
  <2>2. CASE MakeImage /\ ~EnterIseries
    <3>1. /\ pc \in {"linked", "attached"} /\ pc' \in {"made", "attached", "aborted"}
          /\ file'.prefer = file.prefer /\ file'.string = file.string
          /\ line' = line /\ typed' = typed /\ told' = told
      BY <2>2 DEF MakeImage, NoteThere, NoSpace, AddNote, Mkprep, NotKernel, AddRamDisk, Fixup, Death, NoEnd,
         AddSystemMap, Finish, Fails, Abort, editing, ShapeInv
    <3>2. pc' = "attached" => Iseries
      BY <2>2 DEF MakeImage, NoteThere, NoSpace, AddNote, Mkprep, NotKernel, AddRamDisk, Fixup, Death, NoEnd,
         AddSystemMap, Finish, Fails, Abort
    <3> QED BY <1>3, <3>1, <3>2 DEF LineInv, Chrp, Prep, Iseries
  <2> QED BY <1>4, <2>1, <2>2
<1>5. CASE MkzimageCmdline
  <2>1. /\ pc' = pc /\ pc = "made" /\ ~Iseries /\ line' = line /\ typed' = typed /\ told' = told
    BY <1>5 DEF MkzimageCmdline, editing, Iseries
  <2>2. file'.prefer \in {"0", "1"} /\ file'.string \in Seq(Typed) /\ Len(file'.string) < LineSize
    <3>1. PICK activate \in {"no", "0", "1"}, clear \in BOOLEAN, set \in Strings \cup {<<"no">>} :
            file' = [file EXCEPT !.prefer = IF activate = "no" THEN @ ELSE activate,
                                 !.string = IF set # <<"no">> THEN Cut(set) ELSE IF clear THEN <<>> ELSE @]
      BY <1>5 DEF MkzimageCmdline
    <3>2. /\ file'.prefer = IF activate = "no" THEN file.prefer ELSE activate
          /\ file'.string = IF set # <<"no">> THEN Cut(set) ELSE IF clear THEN <<>> ELSE file.string
      BY <3>1 DEF ShapeInv
    <3>3. CASE set # <<"no">>
      <4>1. set \in Seq(Typed)
        BY <3>3, LineSizes
      <4>2. Cut(set) \in Seq(Typed) /\ Len(Cut(set)) < LineSize
        <5>1. CASE Len(set) < LineSize
          BY <4>1, <5>1 DEF Cut
        <5>2. CASE ~(Len(set) < LineSize)
          <6>1. LineSize - 1 \in 0..Len(set)
            BY <1>2, <4>1, <5>2, LenProperties
          <6>2. SubSeq(set, 1, LineSize - 1) \in Seq(Typed) /\ Len(SubSeq(set, 1, LineSize - 1)) = LineSize - 1
            BY <4>1, <6>1, Prefix
          <6> QED BY <1>2, <5>2, <6>2 DEF Cut
        <5> QED BY <5>1, <5>2
      <4> QED BY <3>2, <3>3, <4>2 DEF LineInv
    <3>4. CASE set = <<"no">>
      BY <1>2, <3>2, <3>4, EmptySeq DEF LineInv
    <3> QED BY <3>2, <3>3, <3>4 DEF LineInv
  <2> QED BY <1>3, <2>1, <2>2 DEF LineInv
<1>6. CASE Load
  BY <1>1, <1>3, <1>6 DEF Load, LineInv, Chrp, Prep, Iseries
<1>7. CASE InflateFails \/ Timeout
  <2>1. CASE InflateFails
    BY <1>1, <1>3, <2>1 DEF InflateFails, Abort, LineInv, editing, Chrp, Prep, Iseries
  <2>2. CASE Timeout
    BY <1>1, <1>3, <2>2 DEF Timeout, Leave, After, LineInv, Chrp, Prep, Iseries
  <2> QED BY <1>7, <2>1, <2>2
<1>8. CASE Key
  <2>1. PICK c \in Typed :
       \/ c = "esc" /\ escape' = 1 /\ pc' = "edit" /\ line' = line
       \/ c # "esc" /\ c = "[" /\ escape = 1 /\ escape' = 2 /\ pc' = "edit" /\ line' = line
       \/ c # "esc" /\ escape = 2 /\ escape' = 0 /\ pc' = "edit" /\ line' = line
       \/ c # "esc" /\ escape # 2 /\ ~(c = "[" /\ escape = 1) /\ Plain(c)
    BY <1>8 DEF Key
  <2>2. line' \in Seq(Typed) /\ Len(line') < LineSize
    <3>1. line \in Seq(Typed) /\ Len(line) \in Nat /\ Len(line) < LineSize
      BY LenProperties DEF LineInv
    <3>2. <<>> \in Seq(Typed) /\ Len(<<>>) < LineSize
      BY <1>2, EmptySeq
    <3>3. line # <<>> => Front(line) \in Seq(Typed) /\ Len(Front(line)) < LineSize
      <4> SUFFICES ASSUME line # <<>> PROVE Front(line) \in Seq(Typed) /\ Len(Front(line)) < LineSize
        OBVIOUS
      <4>1. Len(line) # 0
        BY <3>1, EmptySeq
      <4>2. Len(line) - 1 \in 0..Len(line)
        BY <3>1, <4>1
      <4>3. SubSeq(line, 1, Len(line) - 1) \in Seq(Typed) /\ Len(SubSeq(line, 1, Len(line) - 1)) = Len(line) - 1
        BY <3>1, <4>2, Prefix
      <4> QED BY <1>2, <3>1, <4>3 DEF Front
    <3>4. DropWord(line) \in Seq(Typed) /\ Len(DropWord(line)) < LineSize
      BY <1>2, <3>1, DropWordIs, LenProperties
    <3>5. Len(line) < LineSize - 1 => Append(line, c) \in Seq(Typed) /\ Len(Append(line, c)) < LineSize
      BY <1>2, <3>1, AppendProperties
    <3>6. \/ line' = line \/ line' = <<>> \/ line' = DropWord(line)
          \/ line # <<>> /\ line' = Front(line)
          \/ Len(line) < LineSize - 1 /\ line' = Append(line, c)
      BY <2>1 DEF Plain
    <3> QED BY <3>1, <3>2, <3>3, <3>4, <3>5, <3>6, Zenon
  <2>3. /\ pc \in {"wait", "edit"} /\ typed' = TRUE /\ pc' \in {"edit", "bootargs", "unpack", "aborted"}
        /\ pc' = "bootargs" => Chrp
        /\ file' = file /\ told' = told
    BY <1>8, <2>1 DEF Key, Plain, After, Chrp
  <2>4. Chrp \/ Prep
    BY <1>1, <2>3 DEF PlaceInv, Chrp, Prep, Iseries
  <2> QED BY <1>1, <1>3, <2>2, <2>3, <2>4 DEF LineInv, Chrp, Prep, Iseries
<1>9. CASE ChrpNext
  <2>1. CASE CheckMd5 \/ Corrupted \/ NoCpu \/ NoRoom \/ ClaimKernel
    BY <1>1, <1>3, <2>1 DEF CheckMd5, Corrupted, NoCpu, NoRoom, ClaimKernel, Abort, LineInv, editing, Chrp, Prep, Iseries, PlaceInv
  <2>2. CASE LeaveInitrd \/ MoveInitrd \/ NoRoomForInitrd \/ NoInitrd
    BY <1>1, <1>3, <2>2 DEF LeaveInitrd, MoveInitrd, NoRoomForInitrd, NoInitrd, AtInitrd, Abort, LineInv, ShapeInv, editing, Chrp, Prep, Iseries
  <2>3. CASE Unpack
    BY <1>1, <1>3, <2>3 DEF Unpack, Preferred, LineInv, editing, Chrp, Prep, Iseries
  <2>4. CASE Bootargs \/ Enter
    BY <1>1, <1>3, <2>4 DEF Bootargs, Enter, LineInv, ShapeInv, editing, PlaceInv, Chrp, Prep, Iseries
  <2> QED BY <1>9, <2>1, <2>2, <2>3, <2>4 DEF ChrpNext
<1>10. CASE PrepNext
  <2>1. CASE Relocate \/ LoadKernel \/ UnpackNowhere \/ UnpackKernel \/ MoveFromRecs \/ StaysThere
    <3>1. /\ UNCHANGED <<file, line, typed, told>> /\ pc \notin {"linked", "made", "aborted", "bootargs", "edit", "wait", "entered", "moving", "enter"}
          /\ pc' \in {"firmware", "wait", "crashed", "initrd", "records"}
      BY <2>1 DEF Relocate, LoadKernel, UnpackNowhere, UnpackKernel, MoveFromRecs, StaysThere, editing
    <3>2. Prep
      BY <1>1, <2>1 DEF Relocate, LoadKernel, UnpackNowhere, UnpackKernel, MoveFromRecs, StaysThere, PlaceInv,
         Running, Chrp, Prep, Iseries
    <3> QED BY <1>1, <1>3, <3>1, <3>2 DEF LineInv, Chrp, Prep, Iseries
  <2>2. CASE Bootinfo
    <3>1. pc = "records" /\ pc' = "moving" /\ UNCHANGED <<image, file, line, typed, told, at>> /\ Prep
      BY <1>1, <2>2 DEF Bootinfo, editing, PlaceInv, Chrp, Prep, Iseries, Running
    <3>2. image.rd \in Nat
      BY Numbers
    <3> QED BY <1>1, <1>3, <2>2, <3>1, <3>2, BootinfoTells DEF LineInv, Chrp, Prep, Iseries
  <2>3. CASE EnterPrep
    <3>1. pc = "moving" /\ pc' = "entered" /\ UNCHANGED <<image, file, line, typed>> /\ Prep
      BY <1>1, <2>3 DEF EnterPrep, editing, PlaceInv, Chrp, Prep, Iseries, Running
    <3>2. told'.args = Find(recs, "CMD_LINE", <<>>)
      BY <2>3 DEF EnterPrep
    <3> QED BY <1>1, <1>3, <3>1, <3>2 DEF LineInv, Chrp, Prep, Iseries
  <2> QED BY <1>10, <2>1, <2>2, <2>3 DEF PrepNext
<1>11. CASE UNCHANGED allVars
  BY <1>3, <1>11 DEF allVars, vars, editing, LineInv, prep
<1> QED BY <1>4, <1>5, <1>6, <1>7, <1>8, <1>9, <1>10, <1>11 DEF Next

-----------------------------------------------------------------------------
(* Division, and rounding to a multiple. *)
LEMMA Divides ==
  ASSUME NEW a \in Nat, NEW b \in Nat \ {0}
  PROVE  a \div b \in Nat /\ a % b \in 0..b - 1 /\ a = (a \div b) * b + (a % b)
  OBVIOUS

LEMMA Multiple == ASSUME NEW q \in Nat, NEW b \in Nat PROVE q * b \in Nat
  OBVIOUS

LEMMA Divided == ASSUME NEW q \in Nat, NEW b \in Nat \ {0} PROVE (q * b) \div b = q
  OBVIOUS

LEMMA NextMultiple == ASSUME NEW q \in Nat, NEW p \in Nat, NEW b \in Nat, q < p PROVE q * b + b <= p * b
  OBVIOUS

LEMMA AlignIs ==
  ASSUME NEW a \in Nat, NEW s \in Nat \ {0}
  PROVE  Align(a, s) \in Nat /\ Align(a, s) >= a
<1>1. a + s - 1 \in Nat
  OBVIOUS
<1>2. PICK q \in Nat : q = (a + s - 1) \div s
  BY <1>1, Divides
<1>3. PICK r \in 0..s - 1 : a + s - 1 = q * s + r
  BY <1>1, <1>2, Divides
<1>4. q * s \in Nat
  BY Multiple
<1> QED BY <1>2, <1>3, <1>4 DEF Align

LEMMA RoundUpIs == ASSUME NEW n \in Nat PROVE RoundUp(n) \in Nat /\ RoundUp(n) >= n /\ \E q \in Nat : RoundUp(n) = q * Page
<1>1. Page \in Nat \ {0}
  BY ZImageAssumption
<1>2. n + Page - 1 \in Nat
  BY <1>1
<1>3. PICK q \in Nat : q = (n + Page - 1) \div Page
  BY <1>1, <1>2, Divides
<1>4. RoundUp(n) = q * Page
  BY <1>3 DEF RoundUp
<1>5. RoundUp(n) = Align(n, Page)
  BY DEF RoundUp, Align
<1> QED BY <1>1, <1>4, <1>5, AlignIs

LEMMA TotalIs == ASSUME NEW n \in Nat PROVE Total(n) \in Nat /\ Total(n) > n /\ (Total(n) \div Page) * Page = Total(n)
<1>1. Page \in Nat \ {0}
  BY ZImageAssumption
<1>2. PICK q \in Nat, r \in 0..Page - 1 : n = q * Page + r /\ n % Page = r
  BY <1>1, Divides
<1>3. q * Page \in Nat
  BY <1>1, Multiple
<1>4. Total(n) = (q + 1) * Page
  BY <1>1, <1>2, <1>3 DEF Total
<1>5. ((q + 1) * Page) \div Page = q + 1
  BY <1>1, Divided
<1> QED BY <1>1, <1>2, <1>3, <1>4, <1>5 DEF Total

(* What is behind an iSeries kernel begins behind all of it. *)
LEMMA BehindKernel ==
  ASSUME PlaceInv
  PROVE  /\ OffsetEnd \in Nat /\ OffsetEnd >= image.memsize /\ OffsetEnd >= image.z
         /\ MapStart \in Nat /\ MapStart >= image.memsize /\ MapStart >= image.z
         /\ MapAt \in Nat /\ MapAt >= image.z /\ (image.memsize % Page = 0 => MapAt = MapStart)
<1>1. image.z \in Nat /\ image.memsize \in Nat /\ Page \in Nat \ {0}
  BY Numbers, ZImageAssumption
<1>2. /\ RoundUp(image.z) \in Nat /\ RoundUp(image.z) >= image.z
      /\ RoundUp(image.memsize) \in Nat /\ RoundUp(image.memsize) >= image.memsize
  BY <1>1, RoundUpIs
<1>3. OffsetEnd \in Nat /\ OffsetEnd >= image.memsize /\ OffsetEnd >= image.z
  BY <1>1, <1>2 DEF OffsetEnd
<1>4. PICK q \in Nat : RoundUp(image.z) = q * Page
  BY <1>1, RoundUpIs
<1>5. RoundUp(image.z) \div Page = q
  BY <1>1, <1>4, Divided
<1>6. PICK m \in Nat, r \in 0..Page - 1 : image.memsize = m * Page + r /\ image.memsize \div Page = m /\ image.memsize % Page = r
  BY <1>1, Divides
<1>7. m * Page \in Nat /\ q * Page \in Nat
  BY <1>1, Multiple
<1>8. CASE m < q
  <2>1. m * Page + Page <= q * Page
    BY <1>1, <1>8, NextMultiple
  <2>2. RoundUp(image.z) >= image.memsize
    BY <1>1, <1>4, <1>6, <1>7, <2>1
  <2>3. MapStart = q * Page
    BY <1>4, <1>5, <1>6, <1>8 DEF MapStart
  <2>4. MapAt = q * Page
    BY <1>1, <2>3, Divided DEF MapAt
  <2> QED BY <1>2, <1>3, <1>4, <1>7, <2>2, <2>3, <2>4
<1>9. CASE ~(m < q)
  <2>1. q * Page <= m * Page
    <3>1. CASE q = m
      BY <3>1, <1>7
    <3>2. CASE q < m
      <4>1. q * Page + Page <= m * Page
        BY <1>1, <3>2, NextMultiple
      <4> QED BY <1>1, <1>7, <4>1
    <3> QED BY <1>9, <3>1, <3>2
  <2>2. image.memsize >= RoundUp(image.z)
    BY <1>1, <1>4, <1>6, <1>7, <2>1
  <2>3. MapStart = image.memsize
    BY <1>1, <1>5, <1>6, <1>9 DEF MapStart
  <2>4. MapAt = m * Page
    BY <1>6, <2>3 DEF MapAt
  <2>5. image.memsize % Page = 0 => m * Page = image.memsize
    BY <1>1, <1>6, <1>7
  <2> QED BY <1>1, <1>2, <1>3, <1>4, <1>7, <2>1, <2>2, <2>3, <2>4, <2>5
<1> QED BY <1>8, <1>9

-----------------------------------------------------------------------------
(* Sequences put behind one another. *)
LEMMA Appended ==
  ASSUME NEW S, NEW s \in Seq(S), NEW t \in Seq(S)
  PROVE  /\ s \o t \in Seq(S)
         /\ Len(s \o t) = Len(s) + Len(t)
         /\ \A i \in 1..Len(s) : (s \o t)[i] = s[i]
         /\ \A i \in Len(s) + 1..Len(s) + Len(t) : (s \o t)[i] = t[i - Len(s)]
  OBVIOUS

LEMMA MadeSeq ==
  ASSUME NEW S, NEW n \in Nat, NEW f \in [1..n -> S]
  PROVE  f \in Seq(S) /\ Len(f) = n
  OBVIOUS

Whats == {"header", "kernel", "rd", "map", "zero"}
Units == Whats \X Int

LEMMA PagesAre ==
  ASSUME NEW what \in Whats, NEW n \in Nat, NEW total \in Nat
  PROVE  /\ Pages(what, n, total) \in Seq(Units) /\ Len(Pages(what, n, total)) = total
         /\ \A k \in 1..total : Pages(what, n, total)[k] = IF k <= n THEN <<what, k - 1>> ELSE <<"zero", 0>>
<1>1. \A k \in 1..total : (IF k <= n THEN <<what, k - 1>> ELSE <<"zero", 0>>) \in Units
  BY DEF Units, Whats
<1>2. Pages(what, n, total) \in [1..total -> Units]
  BY <1>1 DEF Pages
<1> QED BY <1>2, MadeSeq DEF Pages

IsBehind(B, end, what, n, total) ==
  /\ B \in Seq(Units) /\ Len(B) = Header + end + total
  /\ \A a \in 0..end - 1 : a < image.z => B[Header + a + 1] = <<"kernel", a>>
  /\ \A a \in 0..total - 1 : B[Header + end + a + 1] = IF a < n THEN <<what, a>> ELSE <<"zero", 0>>

LEMMA BehindIs ==
  ASSUME PlaceInv, NEW end \in Nat, NEW what \in Whats, NEW n \in Nat, NEW total \in Nat
  PROVE  IsBehind(Behind(end, what, n, total), end, what, n, total)
<1> DEFINE H == Pages("header", Header, Header)  K == Pages("kernel", image.z, end)  P == Pages(what, n, total)
           B == Behind(end, what, n, total)
<1>1. Header \in Nat /\ image.z \in Nat
  BY Numbers, ZImageAssumption
<1>2. H \in Seq(Units) /\ Len(H) = Header
  <2>1. "header" \in Whats
    BY DEF Whats
  <2> QED BY ONLY <1>1, <2>1, PagesAre DEF H
<1>3. /\ K \in Seq(Units) /\ Len(K) = end
      /\ \A k \in 1..end : K[k] = IF k <= image.z THEN <<"kernel", k - 1>> ELSE <<"zero", 0>>
  <2>1. "kernel" \in Whats
    BY DEF Whats
  <2> QED BY ONLY <1>1, <2>1, end \in Nat, PagesAre DEF K
<1>4. /\ P \in Seq(Units) /\ Len(P) = total
      /\ \A k \in 1..total : P[k] = IF k <= n THEN <<what, k - 1>> ELSE <<"zero", 0>>
  BY PagesAre
<1>5. B = (H \o K) \o P
  BY DEF Behind
<1> HIDE DEF H, K, P, B
<1>6. /\ H \o K \in Seq(Units) /\ Len(H \o K) = Header + end
      /\ \A i \in Header + 1..Header + end : (H \o K)[i] = K[i - Header]
  BY <1>2, <1>3, Appended
<1> DEFINE HK == H \o K
<1>10. B = HK \o P /\ HK \in Seq(Units) /\ Len(HK) = Header + end
       /\ \A i \in Header + 1..Header + end : HK[i] = K[i - Header]
  BY <1>5, <1>6
<1> HIDE DEF HK
<1>7. /\ B \in Seq(Units) /\ Len(B) = Header + end + total
      /\ \A i \in 1..Header + end : B[i] = HK[i]
      /\ \A i \in Header + end + 1..Header + end + total : B[i] = P[i - (Header + end)]
  <2>1. /\ HK \o P \in Seq(Units) /\ Len(HK \o P) = Len(HK) + Len(P)
        /\ \A i \in 1..Len(HK) : (HK \o P)[i] = HK[i]
        /\ \A i \in Len(HK) + 1..Len(HK) + Len(P) : (HK \o P)[i] = P[i - Len(HK)]
    BY ONLY <1>4, <1>10, Appended
  <2>2. Len(HK) = Header + end /\ Len(P) = total /\ B = HK \o P
    BY <1>4, <1>10
  <2> QED BY ONLY <2>1, <2>2
<1>8. \A a \in 0..end - 1 : a < image.z => B[Header + a + 1] = <<"kernel", a>>
  <2> SUFFICES ASSUME NEW a \in 0..end - 1, a < image.z PROVE B[Header + a + 1] = <<"kernel", a>>
    OBVIOUS
  <2>1. /\ Header + a + 1 \in Header + 1..Header + end /\ Header + a + 1 \in 1..Header + end
        /\ (Header + a + 1) - Header = a + 1 /\ a + 1 \in 1..end /\ a + 1 <= image.z /\ a + 1 - 1 = a
    BY <1>1
  <2>2. B[Header + a + 1] = HK[Header + a + 1]
    BY ONLY <1>7, <2>1
  <2>3. HK[Header + a + 1] = K[a + 1]
    BY ONLY <1>10, <2>1
  <2>4. K[a + 1] = <<"kernel", a>>
    BY ONLY <1>3, <2>1
  <2> QED BY ONLY <2>2, <2>3, <2>4
<1>9. \A a \in 0..total - 1 : B[Header + end + a + 1] = IF a < n THEN <<what, a>> ELSE <<"zero", 0>>
  <2> SUFFICES ASSUME NEW a \in 0..total - 1
               PROVE  B[Header + end + a + 1] = IF a < n THEN <<what, a>> ELSE <<"zero", 0>>
    OBVIOUS
  <2>1. /\ Header + end + a + 1 \in Header + end + 1..Header + end + total
        /\ (Header + end + a + 1) - (Header + end) = a + 1 /\ a + 1 \in 1..total /\ (a + 1 <= n <=> a < n) /\ a + 1 - 1 = a
    BY <1>1
  <2>2. B[Header + end + a + 1] = P[a + 1]
    BY ONLY <1>7, <2>1
  <2>3. P[a + 1] = IF a < n THEN <<what, a>> ELSE <<"zero", 0>>
    <3>1. P[a + 1] = IF a + 1 <= n THEN <<what, a + 1 - 1>> ELSE <<"zero", 0>>
      BY ONLY <1>4, <2>1
    <3> QED BY <2>1, <3>1
  <2> QED BY ONLY <2>2, <2>3
<1>11. IsBehind(B, end, what, n, total)
  BY <1>7, <1>8, <1>9 DEF IsBehind
<1> QED BY <1>11 DEF B

(* A disk that is not full has all that was written to it. *)
LEMMA WholeDisk ==
  ASSUME NEW s \in Seq(Units), machine.disk \in Nat, Len(OnDisk(s)) < machine.disk
  PROVE  OnDisk(s) = s
<1>1. Len(s) \in Nat
  BY LenProperties
<1>2. CASE Len(s) < machine.disk
  <2>1. OnDisk(s) = SubSeq(s, 1, Len(s))
    BY <1>2 DEF OnDisk
  <2>2. /\ SubSeq(s, 1, Len(s)) \in Seq(Units) /\ Len(SubSeq(s, 1, Len(s))) = Len(s)
        /\ \A k \in 1..Len(s) : SubSeq(s, 1, Len(s))[k] = s[k]
    BY <1>1, Prefix
  <2> QED BY <2>1, <2>2, SeqEqual
<1>3. CASE ~(Len(s) < machine.disk)
  <2>1. machine.disk \in 0..Len(s) /\ OnDisk(s) = SubSeq(s, 1, machine.disk)
    BY <1>1, <1>3 DEF OnDisk
  <2>2. Len(SubSeq(s, 1, machine.disk)) = machine.disk
    BY <2>1, Prefix
  <2> QED BY <2>1, <2>2
<1> QED BY <1>2, <1>3

-----------------------------------------------------------------------------
(* addnote adds its headers behind those there are, and the notes behind   *)
(* its headers, where there was nothing.                                   *)
LEMMA NotesAreFit == ASSUME PlaceInv, ImageInv PROVE NotesFit
<1> DEFINE ns == TableEnd + 2 * head.ps
           one == [type |-> "note", offset |-> ns, size |-> nnote]
           two == [type |-> "note", offset |-> ns + nnote, size |-> nnote2]
           HeaderType == [type : STRING, offset : Nat, size : Nat] \cup {one, two}
<1>1. head.headers \in Seq(HeaderType) /\ head.ph \in Nat /\ head.ps \in Nat /\ head.n \in Nat
  <2>1. /\ head.headers \in Seq([type : STRING, offset : Nat, size : Nat])
        /\ head.ph \in Nat /\ head.ps \in Nat /\ head.n \in Nat
    BY ZImageAssumption DEF PlaceInv, head
  <2> QED BY <2>1, SeqMonotonic
<1>2. np \in Nat /\ np = Len(head.headers)
  BY <1>1, LenProperties DEF np
<1>3. TableEnd \in Nat
  <2>1. np * head.ps \in Nat
    BY <1>1, <1>2, Multiple
  <2> QED BY <1>1, <2>1 DEF TableEnd
<1>4. CASE file.headers = head.headers
  BY <1>2, <1>4 DEF NotesFit
<1>5. CASE Fits /\ Zero /\ file.headers = head.headers \o <<one, two>>
  <2>1. /\ one \in HeaderType /\ two \in HeaderType /\ one.offset = ns /\ one.size = nnote
        /\ two.offset = ns + nnote /\ two.size = nnote2 /\ ns = TableEnd + 2 * head.ps /\ ns \in Nat
    <3>1. ns = TableEnd + 2 * head.ps /\ ns \in Nat /\ nnote \in Nat /\ nnote2 \in Nat /\ ns + nnote \in Nat
      BY <1>1, <1>3 DEF nnote, nnote2
    <3> HIDE DEF ns
    <3>2. one \in HeaderType /\ two \in HeaderType
      OBVIOUS
    <3>3. one.offset = ns /\ one.size = nnote /\ two.offset = ns + nnote /\ two.size = nnote2
      OBVIOUS
    <3> QED BY <3>1, <3>2, <3>3
  <2> HIDE DEF HeaderType, one, two, ns
  <2>2. <<one, two>> \in Seq(HeaderType) /\ Len(<<one, two>>) = 2
    BY <2>1
  <2>3. /\ file.headers \in Seq(HeaderType) /\ Len(file.headers) = np + 2
        /\ \A i \in 1..np : file.headers[i] = head.headers[i]
        /\ \A i \in np + 1..np + 2 : file.headers[i] = <<one, two>>[i - np]
    BY <1>1, <1>2, <1>5, <2>2, Appended
  <2>4. /\ np + 1 \in np + 1..np + 2 /\ np + 2 \in np + 1..np + 2 /\ (np + 1) - np = 1 /\ (np + 2) - np = 2
        /\ np \in 0..np + 2
    BY <1>2
  <2>5. file.headers[np + 1] = one /\ file.headers[np + 2] = two
    BY <2>3, <2>4
  <2>6. SubSeq(file.headers, 1, np) = head.headers
    <3>1. /\ SubSeq(file.headers, 1, np) \in Seq(HeaderType) /\ Len(SubSeq(file.headers, 1, np)) = np
          /\ \A k \in 1..np : SubSeq(file.headers, 1, np)[k] = file.headers[k]
      BY <2>3, <2>4, Prefix
    <3> QED BY <1>1, <1>2, <2>3, <3>1, SeqEqual
  <2>7. /\ TableEnd + (2 * head.ps + 11 + 17) <= head.n
        /\ TableEnd..TableEnd + (2 * head.ps + 11 + 17) - 1 \cap head.taken = {}
    BY <1>1, <1>3, <1>5 DEF Fits, Zero, Room, nnote, nnote2
  <2> DEFINE new == [i \in 1..2 |-> file.headers[np + i]]
             Area(i) == new[i].offset..new[i].offset + new[i].size - 1
             Table == TableEnd..TableEnd + 2 * head.ps - 1
  <2>8. Area(1) = ns..ns + 10 /\ Area(2) = ns + 11..ns + 27
    <3>1. new[1] = one /\ new[2] = two
      BY <2>5
    <3> HIDE DEF new
    <3> QED BY <2>1, <3>1 DEF nnote, nnote2
  <2>9. Table \cup Area(1) \cup Area(2) \subseteq (TableEnd..head.n - 1) \ head.taken
    <3>1. Table \subseteq TableEnd..TableEnd + (2 * head.ps + 11 + 17) - 1
      BY <1>1, <1>3
    <3>2. ns..ns + 10 \subseteq TableEnd..TableEnd + (2 * head.ps + 11 + 17) - 1
      BY <1>1, <1>3 DEF ns
    <3>3. ns + 11..ns + 27 \subseteq TableEnd..TableEnd + (2 * head.ps + 11 + 17) - 1
      BY <1>1, <1>3 DEF ns
    <3>4. TableEnd..TableEnd + (2 * head.ps + 11 + 17) - 1 \subseteq (TableEnd..head.n - 1) \ head.taken
      BY <1>1, <1>3, <2>7
    <3> HIDE DEF Table, Area
    <3> QED BY <2>8, <3>1, <3>2, <3>3, <3>4, Zenon
  <2>10. Table \cap (Area(1) \cup Area(2)) = {} /\ Area(1) \cap Area(2) = {}
    <3>1. Table \cap (ns..ns + 10) = {} /\ Table \cap (ns + 11..ns + 27) = {}
      BY <1>1, <1>3 DEF ns
    <3>2. (ns..ns + 10) \cap (ns + 11..ns + 27) = {}
      BY <1>1, <1>3 DEF ns
    <3> HIDE DEF Table, Area
    <3> QED BY <2>8, <3>1, <3>2
  <2> QED BY <2>6, <2>9, <2>10 DEF NotesFit
<1> QED BY <1>4, <1>5 DEF ImageInv

(* An iSeries kernel is entered as it was written, if all of it was. *)
LEMMA IseriesHandsOver ==
  ASSUME PlaceInv, ShapeInv, ImageInv, EnterIseries
  PROVE  HandsOverWhole'
<1>1. /\ pc = "made" /\ Iseries /\ ~Chrp /\ ~Prep /\ image' = image /\ machine' = machine /\ file' = file
      /\ mem' = [a \in 0..machine.top |-> IF Header + a + 1 \in DOMAIN file.blocks THEN file.blocks[Header + a + 1] ELSE Nothing]
      /\ told'.rd = <<file.naca[1], file.naca[2] * Page>>
  BY DEF EnterIseries, Iseries, Chrp, Prep, ShapeInv
<1>2. NotesFit'
  <2>1. NotesFit
    BY NotesAreFit
  <2> QED BY <1>1, <2>1 DEF NotesFit, np, TableEnd, head
<1>3. /\ image.z \in Nat /\ image.rd \in Nat /\ machine.top \in Nat /\ machine.memory \in Nat
      /\ machine.memory <= machine.top + 1 /\ Header \in Nat /\ Page \in Nat \ {0}
  BY Numbers, ZImageAssumption
<1>4. image.kind = "iseries" /\ ~image.gz /\ image.map \in Nat /\ machine.disk \in Nat
  BY <1>1, ZImageAssumption DEF PlaceInv, Iseries
<1>5. SUFFICES ASSUME Checked'
      PROVE  /\ Holds(mem', 0, image.z, "kernel")
             /\ image.rd > 0 => /\ told'.rd[2] >= image.rd /\ Holds(mem', told'.rd[1], image.rd, "rd")
                                /\ told'.rd[1] >= image.memsize
                                /\ \A a \in told'.rd[1] + image.rd..told'.rd[1] + told'.rd[2] - 1 : mem'[a] = <<"zero", 0>>
             /\ image.rd = 0 =>
                  /\ file.sysmap[1] >= image.memsize
                  /\ image.memsize % Page = 0 => Holds(mem', file.sysmap[1], file.sysmap[2] - file.sysmap[1], "map")
  BY <1>1, <1>2, <1>4 DEF HandsOverWhole, Entry, Loaded, Iseries, Chrp, Prep
<1>6. Len(file.blocks) < machine.disk /\ Len(file.blocks) <= Header + machine.memory
  BY <1>1, <1>5 DEF Checked, Iseries
(* Whatever was put behind the kernel. *)
<1>7. ASSUME NEW end \in Nat, NEW what \in Whats, NEW n \in Nat, NEW total \in Nat, end >= image.z, total >= n,
             file.blocks = OnDisk(Behind(end, what, n, total))
      PROVE  /\ Holds(mem', 0, image.z, "kernel") /\ Holds(mem', end, n, what)
             /\ \A a \in end + n..end + total - 1 : mem'[a] = <<"zero", 0>>
  <2> DEFINE B == Behind(end, what, n, total)
  <2>1. /\ B \in Seq(Units) /\ Len(B) = Header + end + total
        /\ \A a \in 0..end - 1 : a < image.z => B[Header + a + 1] = <<"kernel", a>>
        /\ \A a \in 0..total - 1 : B[Header + end + a + 1] = IF a < n THEN <<what, a>> ELSE <<"zero", 0>>
    <3>1. IsBehind(B, end, what, n, total)
      BY BehindIs
    <3> HIDE DEF B
    <3> QED BY <3>1 DEF IsBehind
  <2>2. file.blocks = B
    BY <1>4, <1>6, <1>7, <2>1, WholeDisk
  <2> HIDE DEF B
  <2>3. end + total <= machine.top + 1
    BY <1>3, <1>6, <2>1, <2>2
  <2>4. \A a \in 0..end + total - 1 : mem'[a] = B[Header + a + 1]
    <3> SUFFICES ASSUME NEW a \in 0..end + total - 1 PROVE mem'[a] = B[Header + a + 1]
      OBVIOUS
    <3>1. DOMAIN file.blocks = 1..Header + end + total
      BY <2>1, <2>2, LenProperties
    <3>2. a \in 0..machine.top /\ Header + a + 1 \in 1..Header + end + total
      BY <1>3, <2>3
    <3> QED BY <1>1, <2>2, <3>1, <3>2
  <2>5. Holds(mem', 0, image.z, "kernel")
    <3> SUFFICES ASSUME NEW k \in 0..image.z - 1 PROVE mem'[0 + k] = <<"kernel", k>>
      BY DEF Holds
    <3>1. k \in 0..end - 1 /\ k < image.z /\ k \in 0..end + total - 1 /\ 0 + k = k
      BY <1>3, <1>7
    <3>2. mem'[k] = B[Header + k + 1] /\ B[Header + k + 1] = <<"kernel", k>>
      BY <2>1, <2>4, <3>1
    <3> QED BY <3>1, <3>2
  <2>6. \A a \in 0..total - 1 : mem'[end + a] = IF a < n THEN <<what, a>> ELSE <<"zero", 0>>
    <3> SUFFICES ASSUME NEW a \in 0..total - 1 PROVE mem'[end + a] = IF a < n THEN <<what, a>> ELSE <<"zero", 0>>
      OBVIOUS
    <3>1. end + a \in 0..end + total - 1 /\ Header + (end + a) + 1 = Header + end + a + 1
      BY <1>3
    <3>2. mem'[end + a] = B[Header + (end + a) + 1]
      BY <2>4, <3>1
    <3> QED BY <2>1, <3>1, <3>2
  <2>7. Holds(mem', end, n, what)
    <3> SUFFICES ASSUME NEW k \in 0..n - 1 PROVE mem'[end + k] = <<what, k>>
      BY DEF Holds
    <3>1. k \in 0..total - 1 /\ k < n
      BY <1>7
    <3> QED BY <2>6, <3>1
  <2>8. \A a \in end + n..end + total - 1 : mem'[a] = <<"zero", 0>>
    <3> SUFFICES ASSUME NEW a \in end + n..end + total - 1 PROVE mem'[a] = <<"zero", 0>>
      OBVIOUS
    <3>1. a - end \in 0..total - 1 /\ ~(a - end < n) /\ end + (a - end) = a
      BY <1>7
    <3> QED BY <2>6, <3>1
  <2> QED BY <2>5, <2>7, <2>8
<1>8. CASE image.rd > 0
  <2>1. file.blocks = OnDisk(Behind(OffsetEnd, "rd", image.rd, Total(image.rd)))
        /\ file.naca = <<OffsetEnd, Total(image.rd) \div Page>>
    BY <1>1, <1>8 DEF ImageInv, WithRamDisk
  <2>2. /\ Total(image.rd) \in Nat /\ Total(image.rd) >= image.rd /\ (Total(image.rd) \div Page) * Page = Total(image.rd)
    BY <1>3, TotalIs
  <2>3. told'.rd[1] = OffsetEnd /\ told'.rd[2] = Total(image.rd)
    BY <1>1, <2>1, <2>2
  <2>4. OffsetEnd \in Nat /\ OffsetEnd >= image.z /\ OffsetEnd >= image.memsize /\ "rd" \in Whats
    BY BehindKernel DEF Whats
  <2>5. /\ Holds(mem', 0, image.z, "kernel") /\ Holds(mem', OffsetEnd, image.rd, "rd")
        /\ \A a \in OffsetEnd + image.rd..OffsetEnd + Total(image.rd) - 1 : mem'[a] = <<"zero", 0>>
    BY <1>3, <1>7, <2>1, <2>2, <2>4
  <2> QED BY <1>8, <2>2, <2>3, <2>4, <2>5
<1>9. CASE image.rd = 0
  <2>1. /\ file.blocks = OnDisk(Behind(MapAt, "map", image.map, Total(image.map)))
        /\ file.sysmap = <<MapStart, MapStart + image.map>>
    BY <1>1, <1>9 DEF ImageInv
  <2>2. Total(image.map) \in Nat /\ Total(image.map) >= image.map
    BY <1>4, TotalIs
  <2>3. /\ MapStart \in Nat /\ MapStart >= image.memsize /\ "map" \in Whats
        /\ MapAt \in Nat /\ MapAt >= image.z /\ (image.memsize % Page = 0 => MapAt = MapStart)
    BY BehindKernel DEF Whats
  <2>4. Holds(mem', 0, image.z, "kernel") /\ Holds(mem', MapAt, image.map, "map")
    BY <1>4, <1>7, <2>1, <2>2, <2>3
  <2>5. file.sysmap[1] = MapStart /\ file.sysmap[2] - file.sysmap[1] = image.map
    BY <1>4, <2>1, <2>3
  <2> QED BY <1>9, <2>3, <2>4, <2>5
<1> QED BY <1>3, <1>8, <1>9

(* The headers, the boot record and what is behind an iSeries kernel. *)
LEMMA ImageStep == IInv /\ [Next]_allVars => ImageInv'
<1> SUFFICES ASSUME PlaceInv, ShapeInv, ImageInv, [Next]_allVars PROVE ImageInv'
  BY DEF IInv
<1>1. image' = image /\ machine' = machine /\ machine.kind \in {"chrp", "prep", "iseries"}
  BY Same, Flags
<1>2. /\ (Chrp' <=> Chrp) /\ (Prep' <=> Prep) /\ (Iseries' <=> Iseries) /\ head' = head /\ TableEnd' = TableEnd
      /\ (Fits' <=> Fits) /\ (Zero' <=> Zero) /\ Sectors' = Sectors /\ OnDisk(WithRamDisk)' = OnDisk(WithRamDisk)
      /\ OffsetEnd' = OffsetEnd /\ MapStart' = MapStart /\ MapAt' = MapAt
      /\ OnDisk(Behind(MapAt, "map", image.map, Total(image.map)))' = OnDisk(Behind(MapAt, "map", image.map, Total(image.map)))
  BY <1>1 DEF Chrp, Prep, Iseries, head, TableEnd, np, Fits, Room, Zero, Sectors, CopyImage, OnDisk, WithRamDisk, Behind,
     OffsetEnd, MapStart, MapAt, RoundUp, Pages
<1>3. CASE EnterIseries
  <2>1. HandsOverWhole' /\ file' = file /\ pc' = "entered"
    BY <1>3, IseriesHandsOver DEF EnterIseries
  <2> QED BY <1>1, <1>2, <1>3, <2>1 DEF ImageInv, EnterIseries
<1>4. CASE AddNote \/ NoteThere \/ NoSpace
  <2>1. CASE AddNote
    <3> DEFINE ns == TableEnd + 2 * head.ps
               more == <<[type |-> "note", offset |-> ns, size |-> nnote],
                         [type |-> "note", offset |-> ns + nnote, size |-> nnote2]>>
    <3>1. /\ pc = "linked" /\ pc' = "made" /\ Chrp /\ Fits /\ Zero /\ ~HasNote /\ image.note
          /\ file' = [file EXCEPT !.headers = @ \o more]
      BY <2>1 DEF AddNote, Finish
    <3>2. file.headers = head.headers
      BY <3>1 DEF ImageInv
    <3>3. file'.headers = head.headers \o more /\ file'.length = file.length
      BY <3>1, <3>2 DEF ShapeInv
    <3> HIDE DEF more
    <3>4. ImageInv!1'
      BY <1>2, <3>1, <3>3 DEF more
    <3> QED BY <1>1, <1>2, <3>1, <3>3, <3>4 DEF ImageInv, Chrp, Prep, Iseries
  <2>2. CASE NoteThere \/ NoSpace
    BY <1>1, <1>2, <2>2 DEF NoteThere, NoSpace, Finish, Fails, Abort, ImageInv, Chrp, Prep, Iseries
  <2> QED BY <1>4, <2>1, <2>2
<1>5. CASE Mkprep
  BY <1>1, <1>2, <1>5 DEF Mkprep, Finish, ImageInv, ShapeInv, Chrp, Prep, Iseries
<1>6. CASE NotKernel \/ Death \/ NoEnd
  BY <1>1, <1>2, <1>6 DEF NotKernel, Death, NoEnd, Fails, Abort, ImageInv, ShapeInv, PlaceInv, Chrp, Prep, Iseries, Running
<1>7. CASE AddRamDisk
  BY <1>1, <1>2, <1>7 DEF AddRamDisk, ImageInv, ShapeInv, Chrp, Prep, Iseries
<1>8. CASE Fixup
  BY <1>1, <1>2, <1>8 DEF Fixup, Finish, ImageInv, ShapeInv, PlaceInv, Chrp, Prep, Iseries, Running
<1>9. CASE AddSystemMap
  BY <1>1, <1>2, <1>9 DEF AddSystemMap, Finish, ImageInv, ShapeInv, Chrp, Prep, Iseries
<1>10. CASE MkzimageCmdline
  BY <1>1, <1>2, <1>10 DEF MkzimageCmdline, ImageInv, ShapeInv, Chrp, Prep, Iseries
<1>11. CASE Load \/ InflateFails \/ Timeout \/ Key \/ ChrpNext \/ PrepNext \/ UNCHANGED allVars
  <2>1. UNCHANGED file
    BY <1>11 DEF Load, InflateFails, Timeout, Key, ChrpNext, PrepNext, CheckMd5, Corrupted, NoCpu, NoRoom, ClaimKernel,
       LeaveInitrd, MoveInitrd, NoRoomForInitrd, NoInitrd, Unpack, Bootargs, Enter, Relocate, LoadKernel, UnpackNowhere,
       UnpackKernel, MoveFromRecs, StaysThere, Bootinfo, EnterPrep, Abort, allVars, vars
  <2>2. (Prep /\ pc = "linked" => UNCHANGED pc) /\ (pc' = "linked" => pc = "linked")
    BY <1>11 DEF Load, InflateFails, Timeout, Key, ChrpNext, PrepNext, CheckMd5, Corrupted, NoCpu, NoRoom, ClaimKernel,
       LeaveInitrd, MoveInitrd, NoRoomForInitrd, NoInitrd, AtInitrd, Unpack, Bootargs, Enter, Relocate, LoadKernel, UnpackNowhere,
       UnpackKernel, MoveFromRecs, StaysThere, Bootinfo, EnterPrep, Abort, Leave, After, Plain, allVars, vars
  <2>3. Iseries => UNCHANGED vars
    <3> SUFFICES ASSUME Iseries PROVE UNCHANGED vars
      OBVIOUS
    <3>1. pc \in {"linked", "attached", "made", "entered", "aborted"} /\ machine.kind = "iseries"
      BY DEF PlaceInv, Iseries
    <3> QED BY <1>11, <3>1 DEF Load, InflateFails, Timeout, Key, ChrpNext, PrepNext, CheckMd5, Corrupted, NoCpu, NoRoom, ClaimKernel,
       LeaveInitrd, MoveInitrd, NoRoomForInitrd, NoInitrd, AtInitrd, Unpack, Bootargs, Enter, Relocate, LoadKernel, UnpackNowhere,
       UnpackKernel, MoveFromRecs, StaysThere, Bootinfo, EnterPrep, allVars
  <2>4. UNCHANGED vars => (HandsOverWhole' <=> HandsOverWhole)
    BY DEF vars, store, editing, HandsOverWhole, NotesFit, Checked, Clear, Loc, Entry, Loaded, Chrp, Prep, Iseries,
       np, TableEnd, head, Start, RdStart, RdEnd, End
  <2>5. CASE Iseries
    BY <1>1, <1>2, <2>3, <2>4, <2>5 DEF ImageInv, vars, Prep, Iseries
  <2>6. CASE ~Iseries
    BY <1>1, <1>2, <2>1, <2>2, <2>6 DEF ImageInv
  <2> QED BY <2>5, <2>6
<1> QED BY <1>3, <1>4, <1>5, <1>6, <1>7, <1>8, <1>9, <1>10, <1>11 DEF Next, MakeImage

-----------------------------------------------------------------------------
(* Where ld put what. *)
LEMMA BlockIs ==
  ASSUME PlaceInv
  PROVE  /\ Block(image, image.link) = <<"code", 0>> /\ Block(image, End(image) - 1) = <<"bss", 0>>
         /\ \A k \in 0..image.z - 1 : Block(image, Start(image) + k) = <<Stuff, k>>
         /\ \A k \in 0..image.rd - 1 : Block(image, RdStart(image) + k) = <<"rd", k>>
<1> DEFINE l == image.link  z == image.z  r == image.rd
<1>1. l \in Nat /\ z \in Nat /\ r \in Nat
  BY Numbers
<1>2. Start(image) = l + 1 /\ RdStart(image) = l + 1 + z /\ RdEnd(image) = l + 1 + z + r /\ End(image) = l + 2 + z + r
  BY Regions
<1>3. Block(image, l) = <<"code", 0>>
  <2>1. l \notin Start(image)..RdStart(image) - 1 /\ l \notin RdStart(image)..RdEnd(image) - 1
    BY <1>1, <1>2
  <2> QED BY <2>1 DEF Block
<1> HIDE DEF l, z, r
<1>4. Block(image, End(image) - 1) = <<"bss", 0>>
  <2>1. /\ End(image) - 1 # image.link /\ End(image) - 1 \notin Start(image)..RdStart(image) - 1
        /\ End(image) - 1 \notin RdStart(image)..RdEnd(image) - 1
    BY <1>1, <1>2 DEF l
  <2> QED BY <2>1 DEF Block
<1>5. ASSUME NEW k \in 0..z - 1 PROVE Block(image, Start(image) + k) = <<Stuff, k>>
  <2>1. Start(image) + k # image.link /\ Start(image) + k \in Start(image)..RdStart(image) - 1
        /\ Start(image) + k \notin RdStart(image)..RdEnd(image) - 1 /\ (Start(image) + k) - Start(image) = k
    BY <1>1, <1>2 DEF l
  <2> QED BY <2>1 DEF Block, Stuff
<1>6. ASSUME NEW k \in 0..r - 1 PROVE Block(image, RdStart(image) + k) = <<"rd", k>>
  <2>1. /\ RdStart(image) + k # image.link /\ RdStart(image) + k \notin Start(image)..RdStart(image) - 1
        /\ RdStart(image) + k \in RdStart(image)..RdEnd(image) - 1 /\ (RdStart(image) + k) - RdStart(image) = k
    BY <1>1, <1>2 DEF l
  <2> QED BY <2>1 DEF Block
<1> QED BY <1>3, <1>4, <1>5, <1>6 DEF l, z, r

(* What a copy or the unpacking changes is what it writes to. *)
Leaves(after, before, where) ==
  IsMemory(after) /\ \A a \in (0..machine.top) \ where : after[a] = before[a]

LEMMA Kept ==
  ASSUME NEW m1, NEW m2, NEW where, Leaves(m2, m1, where), NEW q \in Nat, NEW n \in Nat, NEW what,
         machine.top \in Nat, q + n <= machine.top + 1, q..q + n - 1 \cap where = {}, Holds(m1, q, n, what)
  PROVE  Holds(m2, q, n, what)
<1> SUFFICES ASSUME NEW k \in 0..n - 1 PROVE m2[q + k] = <<what, k>>
  BY DEF Holds
<1>1. q + k \in 0..machine.top /\ q + k \in q..q + n - 1
  OBVIOUS
<1>2. m1[q + k] = <<what, k>>
  BY DEF Holds
<1> QED BY <1>1, <1>2 DEF Leaves

LEMMA Copied ==
  ASSUME NEW m, IsMemory(m), machine.top \in Nat, NEW dst \in Nat, NEW src \in Nat, NEW n \in Nat, NEW what
  PROVE  /\ Leaves(MemMove(m, dst, src, n), m, dst..dst + n - 1)
         /\ Holds(m, src, n, what) /\ dst + n <= machine.top + 1 => Holds(MemMove(m, dst, src, n), dst, n, what)
<1>1. Leaves(MemMove(m, dst, src, n), m, dst..dst + n - 1)
  BY Moved DEF Leaves
<1>2. ASSUME Holds(m, src, n, what), dst + n <= machine.top + 1
      PROVE  Holds(MemMove(m, dst, src, n), dst, n, what)
  <2> SUFFICES ASSUME NEW k \in 0..n - 1 PROVE MemMove(m, dst, src, n)[dst + k] = <<what, k>>
    BY DEF Holds
  <2>1. dst + k \in 0..machine.top /\ dst + k \in dst..dst + n - 1 /\ src + (dst + k - dst) = src + k
    BY <1>2
  <2>2. MemMove(m, dst, src, n)[dst + k] = m[src + k]
    BY <2>1, Moved
  <2> QED BY <1>2, <2>2 DEF Holds
<1> QED BY <1>1, <1>2

LEMMA Unpacks ==
  ASSUME NEW m, IsMemory(m), machine.top \in Nat, image.size \in Nat,
         NEW dst \in Nat, NEW room \in Nat, NEW src \in Nat, image.size <= room
  PROVE  /\ Leaves(Gunzip(m, dst, room, src), m, dst..dst + image.size - 1)
         /\ Holds(m, src, image.z, "z") /\ dst + image.size <= machine.top + 1 =>
              Holds(Gunzip(m, dst, room, src), dst, image.size, "kernel")
<1> DEFINE G == Gunzip(m, dst, room, src)  whole == Holds(m, src, image.z, "z")
<1>1. (IF image.size < room THEN image.size ELSE room) = image.size
  OBVIOUS
<1>2. G = [a \in DOMAIN m |-> IF a \in dst..dst + image.size - 1 THEN <<IF whole THEN "kernel" ELSE "rubbish", a - dst>> ELSE m[a]]
  BY <1>1 DEF Gunzip, Write
<1>3. DOMAIN m = 0..machine.top
  BY DEF IsMemory
<1>4. Leaves(G, m, dst..dst + image.size - 1)
  BY <1>2, <1>3 DEF Leaves, IsMemory
<1>5. ASSUME whole, dst + image.size <= machine.top + 1 PROVE Holds(G, dst, image.size, "kernel")
  <2> SUFFICES ASSUME NEW k \in 0..image.size - 1 PROVE G[dst + k] = <<"kernel", k>>
    BY DEF Holds
  <2>1. dst + k \in 0..machine.top /\ dst + k \in dst..dst + image.size - 1 /\ (dst + k) - dst = k
    BY <1>5
  <2> QED BY <1>2, <1>3, <1>5, <2>1
<1> QED BY <1>4, <1>5

-----------------------------------------------------------------------------
(* The first address that is free is one of those that are. *)
LEMMA FirstIs ==
  ASSUME NEW n, at.base \in Nat, Tries(n) # {}
  PROVE  First(Tries(n)) \in Nat /\ First(Tries(n)) >= at.base /\ Free(claimed, First(Tries(n)), n)
<1>1. RAM_END \in Nat
  BY ChrpAssumption
<1>2. Tries(n) \subseteq Nat
  BY <1>1 DEF Tries
<1>3. \E x \in Tries(n) : \A y \in Tries(n) : x <= y
  BY <1>2, Lowest
<1>4. First(Tries(n)) \in Tries(n)
  BY <1>3 DEF First
<1> QED BY <1>1, <1>4 DEF Tries

(* Parts of an interval. *)
LEMMA Intervals ==
  ASSUME NEW l \in Nat, NEW z \in Nat, NEW r \in Nat, NEW t \in Nat, l + 2 + z + r <= t
  PROVE  /\ l \in l..l + 1 + z + r /\ l + 2 + z + r - 1 \in l..l + 1 + z + r
         /\ l + 1..l + 1 + z - 1 \subseteq l..l + 1 + z + r
         /\ l + 1 + z..l + 1 + z + r - 1 \subseteq l..l + 1 + z + r
         /\ l..l + 1 + z + r \subseteq 0..t - 1
         /\ 0..l - 1 \cup l + 2 + z + r..t \subseteq 0..t
         /\ l + 1 + z <= t /\ l + 1 + z + r <= t
  OBVIOUS

LEMMA Within == ASSUME NEW n \in Nat, NEW t \in Nat, n <= t + 1 PROVE 0..n - 1 \subseteq 0..t
  OBVIOUS

(* The image lies in memory, and a CHRP machine's other things outside. *)
LEMMA ChrpPlaces ==
  ASSUME PlaceInv, Chrp
  PROVE  /\ image.link \in Image(image) /\ End(image) - 1 \in Image(image)
         /\ Start(image)..Start(image) + image.z - 1 \subseteq Image(image)
         /\ RdStart(image)..RdStart(image) + image.rd - 1 \subseteq Image(image)
         /\ Image(image) \subseteq 0..machine.memory - 1 /\ Image(image) \subseteq 0..machine.top
         /\ machine.busy \subseteq 0..machine.top
         /\ Start(image) \in Nat /\ RdStart(image) \in Nat
         /\ Start(image) + image.z <= machine.top + 1 /\ RdStart(image) + image.rd <= machine.top + 1
<1>1. /\ image.link \in Nat /\ image.z \in Nat /\ image.rd \in Nat
      /\ machine.top \in Nat /\ machine.memory \in Nat /\ machine.memory <= machine.top + 1
  BY Numbers
<1>2. /\ Start(image) = image.link + 1 /\ RdStart(image) = image.link + 1 + image.z
      /\ End(image) = image.link + 2 + image.z + image.rd
      /\ Image(image) = image.link..image.link + 1 + image.z + image.rd
  BY Regions
<1>3. End(image) <= machine.memory
  BY LoadedAt
<1> DEFINE l == image.link  z == image.z  r == image.rd  t == machine.memory
<1> HIDE DEF l, z, r, t
<1>4. l \in Nat /\ z \in Nat /\ r \in Nat /\ t \in Nat /\ l + 2 + z + r <= t
  BY <1>1, <1>2, <1>3 DEF l, z, r, t
<1>5. /\ l \in l..l + 1 + z + r /\ l + 2 + z + r - 1 \in l..l + 1 + z + r
      /\ l + 1..l + 1 + z - 1 \subseteq l..l + 1 + z + r
      /\ l + 1 + z..l + 1 + z + r - 1 \subseteq l..l + 1 + z + r
      /\ l..l + 1 + z + r \subseteq 0..t - 1
      /\ l + 1 + z <= t /\ l + 1 + z + r <= t
  BY <1>4, Intervals
<1>6. 0..machine.memory - 1 \subseteq 0..machine.top
  BY <1>1, Within
<1>7. machine.busy \subseteq 0..machine.top
  <2>1. machine.claimed \cup machine.busy \subseteq 0..image.link - 1 \cup End(image)..machine.top
    BY DEF PlaceInv
  <2>2. \A a \in 0..image.link - 1 \cup End(image)..machine.top : a \in 0..machine.top
    <3>1. image.link <= machine.top + 1 /\ End(image) \in Nat
      <4>1. image.link + 2 + image.z + image.rd <= machine.memory
        BY <1>2, <1>3
      <4>2. image.link <= machine.top + 1
        BY <1>1, <4>1
      <4> QED BY <4>2, Regions
    <3>2. 0..image.link - 1 \subseteq 0..machine.top
      BY <1>1, <3>1, Within
    <3>3. End(image)..machine.top \subseteq 0..machine.top
      BY <1>1, <3>1
    <3> QED BY <3>2, <3>3
  <2> QED BY <2>1, <2>2
<1>8. Image(image) \subseteq 0..machine.memory - 1
  BY <1>2, <1>5 DEF l, z, r, t
<1>9. image.link \in Image(image) /\ End(image) - 1 \in Image(image)
  <2>1. image.link = l /\ End(image) = l + 2 + z + r /\ Image(image) = l..l + 1 + z + r
    BY <1>2 DEF l, z, r
  <2>2. l \in l..l + 1 + z + r /\ l + 2 + z + r - 1 \in l..l + 1 + z + r
    BY <1>5
  <2> QED BY <1>4, <2>1, <2>2
<1>10. /\ Start(image)..Start(image) + image.z - 1 \subseteq Image(image)
       /\ RdStart(image)..RdStart(image) + image.rd - 1 \subseteq Image(image)
  <2>1. Start(image) = l + 1 /\ RdStart(image) = l + 1 + z /\ Image(image) = l..l + 1 + z + r
    BY <1>2 DEF l, z, r
  <2>2. Start(image)..Start(image) + z - 1 \subseteq Image(image)
    BY <1>5, <2>1
  <2>3. RdStart(image)..RdStart(image) + r - 1 \subseteq Image(image)
    BY <1>5, <2>1
  <2> QED BY <2>2, <2>3 DEF z, r
<1>11. Start(image) \in Nat /\ RdStart(image) \in Nat
  BY Regions
<1>12. Start(image) + image.z <= machine.top + 1 /\ RdStart(image) + image.rd <= machine.top + 1
  <2>1. Start(image) + image.z <= machine.memory /\ RdStart(image) + image.rd <= machine.memory
    BY <1>2, <1>5 DEF l, z, r, t
  <2>2. Start(image) + image.z \in Nat /\ RdStart(image) + image.rd \in Nat
    BY <1>1, <1>11
  <2> QED BY <1>1, <2>1, <2>2
<1> QED BY <1>6, <1>7, <1>8, <1>9, <1>10, <1>11, <1>12

(* What stands at the image's places does not move. *)
LEMMA Unmoved ==
  image' = image /\ machine' = machine =>
    /\ (Chrp' <=> Chrp) /\ Start(image)' = Start(image) /\ RdStart(image)' = RdStart(image) /\ RdEnd(image)' = RdEnd(image)
    /\ End(image)' = End(image) /\ Image(image)' = Image(image) /\ Base' = Base /\ Memsize' = Memsize
    /\ Stuff' = Stuff /\ Loaded' = Loaded
  BY DEF Chrp, Start, RdStart, RdEnd, End, Image, Base, Memsize, Stuff, Loaded

(* What was not written to stays. *)
LEMMA IntactKept ==
  ASSUME PlaceInv, Chrp, Intact, image' = image, machine' = machine,
         NEW where, Leaves(mem', mem, where), where \cap (Image(image) \cup machine.busy) = {}
  PROVE  Intact'
<1>1. /\ image.link \in (0..machine.top) \ where /\ End(image) - 1 \in (0..machine.top) \ where
      /\ machine.busy \subseteq (0..machine.top) \ where
  BY ChrpPlaces
<1> QED BY <1>1, Unmoved DEF Intact, Leaves

LEMMA ChrpLoad ==
  ASSUME PlaceInv, ImageInv, Chrp, Load
  PROVE  ChrpInv'
<1>1. /\ pc' = "md5" /\ image' = image /\ machine' = machine /\ file.length = Nowhere
      /\ claimed' \in {machine.claimed, machine.claimed \cup {LoadAt + a - image.link : a \in Image(image)}}
  BY DEF Load, Chrp, ImageInv, Prep
<1>2. /\ image.link \in Nat /\ image.z \in Nat /\ image.rd \in Nat /\ machine.loads \in Nat \ {0} /\ machine.top \in Nat
      /\ LoadAt = image.link /\ Loads = machine.loads
  BY <1>1, Numbers, ChrpNumbers DEF Loads
<1>3. \A a \in 0..machine.top :
        mem'[a] = IF a \in Image(image) /\ (a < image.link + machine.loads \/ a = End(image) - 1) THEN Block(image, a)
                  ELSE IF a \in machine.busy THEN <<"busy", a>> ELSE Nothing
  <2> SUFFICES ASSUME NEW a \in 0..machine.top
               PROVE  mem'[a] = IF a \in Image(image) /\ (a < image.link + machine.loads \/ a = End(image) - 1) THEN Block(image, a)
                                ELSE IF a \in machine.busy THEN <<"busy", a>> ELSE Nothing
    OBVIOUS
  <2>1. a - LoadAt + image.link = a /\ LoadAt + End(image) - image.link - 1 = End(image) - 1
    <3>1. a \in Int /\ image.link \in Nat /\ LoadAt = image.link /\ End(image) \in Nat
      BY <1>2, Regions
    <3> QED BY <3>1
  <2>2. mem'[a] = IF a - LoadAt + image.link \in Image(image) /\ (a < LoadAt + Loads \/ a = LoadAt + End(image) - image.link - 1)
                  THEN Block(image, a - LoadAt + image.link)
                  ELSE IF a \in machine.busy THEN <<"busy", a>> ELSE Nothing
    BY DEF Load
  <2> HIDE DEF Load
  <2> QED BY <1>2, <2>1, <2>2
<1>4. Intact'
  <2>1. mem'[image.link] = <<"code", 0>>
    <3>1. image.link < image.link + machine.loads
      BY <1>2
    <3> QED BY <1>3, <3>1, ChrpPlaces, BlockIs
  <2>2. mem'[End(image) - 1] = <<"bss", 0>>
    BY <1>3, ChrpPlaces, BlockIs
  <2>3. ASSUME NEW b \in machine.busy PROVE mem'[b] = <<"busy", b>>
    <3>1. b \in 0..machine.top /\ b \notin Image(image)
      BY ChrpPlaces, ChrpNumbers
    <3> QED BY <1>3, <3>1
  <2> QED BY <1>1, <2>1, <2>2, <2>3, Unmoved DEF Intact
<1>5. Claims'
  <2>1. {LoadAt + a - image.link : a \in Image(image)} = Image(image)
    <3>1. \A a \in Image(image) : LoadAt + a - image.link = a
      BY <1>2, Regions
    <3> QED BY <3>1
  <2> QED BY <1>1, <2>1, Unmoved DEF Claims
<1>6. PartsThere'
  <2> SUFFICES ASSUME Came' PROVE Holds(mem', Start(image), image.z, Stuff) /\ Holds(mem', RdStart(image), image.rd, "rd")
    BY <1>1, Unmoved DEF PartsThere, Came
  <2>1. machine.loads >= RdEnd(image) - image.link
    BY <1>1, Unmoved DEF Came
  <2>2. ASSUME NEW a \in Image(image), a < RdEnd(image) PROVE mem'[a] = Block(image, a)
    <3>1. a \in 0..machine.top
      BY ChrpPlaces
    <3>2. a \in Int /\ RdEnd(image) \in Nat
      BY <3>1, Regions
    <3>3. a < image.link + machine.loads
      BY <1>2, <2>1, <2>2, <3>2
    <3> QED BY <1>3, <3>1, <3>3
  <2>3. ASSUME NEW k \in 0..image.z - 1 PROVE mem'[Start(image) + k] = <<Stuff, k>>
    <3>1. Start(image) + k \in Image(image)
      <4>1. Start(image) + k \in Start(image)..Start(image) + image.z - 1
        <5>1. Start(image) \in Nat
          BY Regions
        <5> QED BY <1>2, <5>1
      <4> QED BY <4>1, ChrpPlaces
    <3>2. Start(image) + k < RdEnd(image)
      <4>1. Start(image) = image.link + 1 /\ RdEnd(image) = image.link + 1 + image.z + image.rd
        BY Regions
      <4> QED BY <1>2, <4>1
    <3> QED BY <2>2, <3>1, <3>2, BlockIs
  <2>4. ASSUME NEW k \in 0..image.rd - 1 PROVE mem'[RdStart(image) + k] = <<"rd", k>>
    <3>1. RdStart(image) + k \in Image(image)
      <4>1. RdStart(image) + k \in RdStart(image)..RdStart(image) + image.rd - 1
        <5>1. RdStart(image) \in Nat
          BY Regions
        <5> QED BY <1>2, <5>1
      <4> QED BY <4>1, ChrpPlaces
    <3>2. RdStart(image) + k < RdEnd(image)
      <4>1. RdStart(image) = image.link + 1 + image.z /\ RdEnd(image) = image.link + 1 + image.z + image.rd
        BY Regions
      <4> QED BY <1>2, <4>1
    <3> QED BY <2>2, <3>1, <3>2, BlockIs
  <2> QED BY <2>3, <2>4 DEF Holds
<1> QED BY <1>1, <1>4, <1>5, <1>6 DEF ChrpInv

(* What may be claimed is free, and what was claimed is not. *)
LEMMA ChrpCheckMd5 ==
  ASSUME PlaceInv, ShapeInv, ChrpInv, Chrp, CheckMd5
  PROVE  ChrpInv'
<1>1. /\ pc = "md5" /\ pc' = "cpu" /\ image' = image /\ machine' = machine /\ mem' = mem /\ at'.base = Base /\ Md5Right
      /\ claimed' = claimed \cup IF Free(claimed, image.link, End(image) - image.link) THEN Image(image) ELSE {}
  BY DEF CheckMd5, store, ShapeInv
<1>2. Intact /\ Claims /\ PartsThere
  BY <1>1 DEF ChrpInv, Running
<1>3. Intact'
  BY <1>1, <1>2, Unmoved DEF Intact
<1>4. Claims'
  <2>1. CASE claimed = machine.claimed
    <3>1. image.link..image.link + (End(image) - image.link) - 1 = Image(image)
      <4>1. image.link \in Nat /\ End(image) \in Nat
        BY Numbers, Regions
      <4> QED BY <4>1 DEF Image
    <3>2. Image(image) \subseteq (0..machine.memory - 1) \ claimed
      BY <2>1, ChrpPlaces, ChrpNumbers
    <3>3. Free(claimed, image.link, End(image) - image.link)
      BY <3>1, <3>2 DEF Free
    <3> QED BY <1>1, <2>1, <3>3, Unmoved DEF Claims
  <2>2. CASE claimed = machine.claimed \cup Image(image)
    BY <1>1, <2>2, Unmoved DEF Claims
  <2> QED BY <1>1, <1>2, <2>1, <2>2 DEF Claims
<1>5. PartsThere'
  <2> SUFFICES ASSUME Came' PROVE Holds(mem, Start(image), image.z, Stuff) /\ Holds(mem, RdStart(image), image.rd, "rd")
    BY <1>1, Unmoved DEF PartsThere
  <2>1. CASE image.md5
    BY <1>1, <2>1 DEF Md5Right, Stuff
  <2>2. CASE ~image.md5
    <3>1. Came
      BY <1>1, <2>2, Unmoved DEF Came
    <3> QED BY <1>1, <1>2, <3>1 DEF PartsThere
  <2> QED BY <2>1, <2>2
<1> QED BY <1>1, <1>3, <1>4, <1>5, Unmoved DEF ChrpInv

(* What firmware uses is not given to anybody. *)
LEMMA ChrpFree ==
  ASSUME PlaceInv, Chrp, Claims, pc # "md5", NEW f \in Nat, NEW n, f >= Base, Free(claimed, f, n)
  PROVE  /\ f..f + n - 1 \subseteq (0..machine.memory - 1) \ claimed
         /\ f..f + n - 1 \cap (Image(image) \cup machine.busy) = {}
<1>1. f..f + n - 1 \subseteq (0..machine.memory - 1) \ claimed
  BY DEF Free
<1>2. f..f + n - 1 \cap (Image(image) \cup machine.claimed) = {}
  BY <1>1 DEF Claims
<1>3. ASSUME NEW b \in machine.busy, b \in f..f + n - 1 PROVE FALSE
  <2>1. b \in machine.claimed \/ b < Base
    BY ChrpNumbers
  <2>2. Base \in Nat /\ b >= f /\ b \in Nat
    <3>1. b \in Nat /\ Base \in Nat
      BY ChrpNumbers
    <3>2. b >= f
      BY <1>3
    <3> QED BY <3>1, <3>2
  <2>3. ~(b < Base)
    BY <2>2
  <2> QED BY <1>2, <1>3, <2>1, <2>3
<1> QED BY <1>1, <1>2, <1>3

LEMMA ChrpClaimKernel ==
  ASSUME PlaceInv, ShapeInv, ChrpInv, Chrp, ClaimKernel
  PROVE  ChrpInv'
<1> DEFINE f == First(Tries(Memsize))
<1>1. /\ pc = "cpu" /\ pc' = "initrd" /\ image' = image /\ machine' = machine /\ mem' = mem
      /\ Tries(Memsize) # {} /\ claimed' = claimed \cup f..f + Memsize - 1
      /\ at'.kernel = f /\ at'.base = f + Memsize
  BY DEF ClaimKernel, ShapeInv
<1>2. Intact /\ Claims /\ PartsThere /\ at.base = Base
  BY <1>1 DEF ChrpInv, Running
<1>3. Base \in Nat
  BY ChrpNumbers
<1>4. f \in Nat /\ f >= Base /\ Free(claimed, f, Memsize)
  BY <1>1, <1>2, <1>3, FirstIs
<1> HIDE DEF f
<1>5. /\ f..f + Memsize - 1 \subseteq (0..machine.memory - 1) \ claimed
      /\ f..f + Memsize - 1 \cap (Image(image) \cup machine.busy) = {}
  BY <1>1, <1>2, <1>4, ChrpFree
<1>6. KernelAt' = f..f + Memsize - 1
  BY <1>1, Unmoved DEF KernelAt
<1>7. KernelApart'
  BY <1>1, <1>4, <1>5, <1>6, Unmoved DEF KernelApart
<1>8. Intact' /\ Claims' /\ PartsThere'
  <2>1. Came' => Came
    BY <1>1, Unmoved DEF Came
  <2> QED BY <1>1, <1>2, <2>1, Unmoved DEF Intact, Claims, PartsThere
<1> QED BY <1>1, <1>7, <1>8 DEF ChrpInv

LEMMA ChrpLeaveInitrd ==
  ASSUME PlaceInv, ShapeInv, ChrpInv, Chrp, LeaveInitrd
  PROVE  ChrpInv'
<1>1. /\ pc = "initrd" /\ pc' = "unpack" /\ image' = image /\ machine' = machine /\ mem' = mem /\ claimed' = claimed /\ at' = at
      /\ told'.rd = <<RdStart(image), image.rd>> /\ Memsize < RdStart(image)
  BY DEF LeaveInitrd, AtInitrd, store, ShapeInv, Stays
<1>2. Intact /\ Claims /\ PartsThere /\ KernelApart
  BY <1>1 DEF ChrpInv, Running
<1>3. RdStart(image) >= image.memsize /\ RdStart(image) \in Nat
  <2>1. Memsize \in Nat /\ Memsize >= image.memsize /\ image.memsize \in Nat /\ RdStart(image) \in Nat
    BY ChrpNumbers, Numbers, Regions
  <2> QED BY <1>1, <2>1
<1>4. RdAt' = RdStart(image)..RdStart(image) + image.rd - 1 /\ KernelAt' = KernelAt
  BY <1>1, Unmoved DEF RdAt, KernelAt
<1>5. RdAt' \subseteq Image(image) /\ Image(image) \subseteq 0..machine.memory - 1
  BY <1>4, ChrpPlaces
<1>6. Image(image) \subseteq claimed /\ KernelAt \cap Image(image) = {}
  BY <1>1, <1>2 DEF Claims, KernelApart
<1>7. Came' => Came
  BY <1>1, Unmoved DEF Came
<1>8. RamdiskApart'
  <2>1. Came' => Holds(mem', told'.rd[1], image'.rd, "rd")
    BY <1>1, <1>2, <1>7 DEF PartsThere
  <2>2. told'.rd[1] = RdStart(image)
    BY <1>1
  <2> QED BY <1>1, <1>3, <1>4, <1>5, <1>6, <2>1, <2>2 DEF RamdiskApart
<1>9. Intact' /\ Claims' /\ PartsThere' /\ KernelApart'
  BY <1>1, <1>2, <1>4, <1>7, Unmoved DEF Intact, Claims, PartsThere, KernelApart
<1> QED BY <1>1, <1>8, <1>9 DEF ChrpInv

LEMMA ChrpMoveInitrd ==
  ASSUME PlaceInv, ShapeInv, ChrpInv, Chrp, MoveInitrd
  PROVE  ChrpInv'
<1> DEFINE f == First(Tries(image.rd))
           to == f..f + image.rd - 1
<1>1. /\ pc = "initrd" /\ pc' = "unpack" /\ image' = image /\ machine' = machine /\ at' = at
      /\ Tries(image.rd) # {} /\ claimed' = claimed \cup to
      /\ mem' = MemMove(mem, f, RdStart(image), image.rd) /\ told'.rd = <<f, image.rd>>
  BY DEF MoveInitrd, AtInitrd, ShapeInv
<1>2. Intact /\ Claims /\ PartsThere /\ KernelApart
  BY <1>1 DEF ChrpInv, Running
<1>3. /\ Base \in Nat /\ Memsize \in Nat /\ image.memsize \in Nat /\ Memsize >= image.memsize /\ at.kernel \in Nat
      /\ at.kernel >= Base /\ at.base = at.kernel + Memsize
  BY <1>2, ChrpNumbers, Numbers DEF KernelApart
<1>4. at.base \in Nat /\ at.base >= Base /\ at.base >= image.memsize
  BY <1>3
<1>5. f \in Nat /\ f >= at.base /\ Free(claimed, f, image.rd)
  BY <1>1, <1>4, FirstIs
<1> HIDE DEF f
<1>6. f >= Base /\ f >= image.memsize
  BY <1>3, <1>4, <1>5
<1>7. to \subseteq (0..machine.memory - 1) \ claimed /\ to \cap (Image(image) \cup machine.busy) = {}
  BY <1>1, <1>2, <1>5, <1>6, ChrpFree
<1>8. image.rd \in Nat /\ machine.top \in Nat /\ machine.memory \in Nat /\ machine.memory <= machine.top + 1
      /\ image.z \in Nat
  BY Numbers
<1>9. f + image.rd <= machine.top + 1
  <2>1. image.rd > 0
    BY DEF MoveInitrd
  <2>2. f + image.rd - 1 \in to
    BY <1>5, <1>8, <2>1
  <2>3. f + image.rd - 1 \in 0..machine.memory - 1
    BY <1>7, <2>2
  <2> QED BY <1>5, <1>8, <2>3
<1>10. RdStart(image) \in Nat /\ IsMemory(mem)
  BY <1>1, Regions DEF ShapeInv
<1>11. /\ Leaves(mem', mem, to)
       /\ Holds(mem, RdStart(image), image.rd, "rd") => Holds(mem', f, image.rd, "rd")
  BY <1>1, <1>5, <1>8, <1>9, <1>10, Copied
<1> HIDE DEF to
<1>12. RdAt' = to /\ KernelAt' = KernelAt
  BY <1>1, Unmoved DEF RdAt, KernelAt, to
<1>13. Came' => Came
  BY <1>1, Unmoved DEF Came
<1>14. RamdiskApart'
  <2>1. told'.rd[1] = f
    BY <1>1
  <2>2. Came' => Holds(mem', f, image'.rd, "rd")
    BY <1>1, <1>2, <1>11, <1>13 DEF PartsThere
  <2>3. to \cap KernelAt = {}
    BY <1>2, <1>7 DEF KernelApart
  <2> QED BY <1>1, <1>5, <1>6, <1>7, <1>12, <2>1, <2>2, <2>3 DEF RamdiskApart
<1>15. Intact'
  BY <1>1, <1>2, <1>7, <1>11, IntactKept
<1>16. Claims' /\ KernelApart'
  BY <1>1, <1>2, <1>12, Unmoved DEF Claims, KernelApart
<1>17. PartsThere'
  <2> SUFFICES ASSUME Came PROVE Holds(mem', Start(image), image.z, Stuff)
    BY <1>1, <1>13, Unmoved DEF PartsThere
  <2>1. Holds(mem, Start(image), image.z, Stuff)
    BY <1>1, <1>2 DEF PartsThere
  <2>2. /\ Start(image) \in Nat /\ Start(image) + image.z <= machine.top + 1
        /\ Start(image)..Start(image) + image.z - 1 \cap to = {}
    BY <1>7, ChrpPlaces
  <2> QED BY <1>8, <1>11, <2>1, <2>2, Kept
<1> QED BY <1>1, <1>14, <1>15, <1>16, <1>17 DEF ChrpInv

LEMMA ChrpUnpack ==
  ASSUME PlaceInv, ShapeInv, ChrpInv, Chrp, Unpack
  PROVE  ChrpInv'
<1> DEFINE K == at.kernel
           to == K..K + Loaded - 1
<1>1. /\ pc = "unpack" /\ pc' \in {"wait", "enter"} /\ image' = image /\ machine' = machine /\ at' = at
      /\ claimed' = claimed /\ told' = told
      /\ mem' = IF image.gz THEN Gunzip(mem, K, Memsize, Start(image)) ELSE MemMove(mem, K, Start(image), image.z)
  BY DEF Unpack
<1>2. Intact /\ Claims /\ PartsThere /\ KernelApart /\ (image.rd > 0 => RamdiskApart)
  BY <1>1 DEF ChrpInv, Running
<1>3. K \in Nat /\ Memsize \in Nat /\ Loaded \in Nat /\ Loaded <= Memsize
  <2>1. Memsize \in Nat /\ Memsize >= image.memsize /\ Loaded \in Nat /\ Loaded <= image.memsize /\ image.memsize \in Nat
    BY ChrpNumbers, Numbers
  <2> QED BY <1>2, <2>1 DEF KernelApart
<1>4. /\ image.rd \in Nat /\ machine.top \in Nat /\ machine.memory \in Nat /\ machine.memory <= machine.top + 1
      /\ image.z \in Nat /\ image.size \in Nat /\ Start(image) \in Nat /\ IsMemory(mem)
  BY <1>1, Numbers, Regions DEF ShapeInv
<1> HIDE DEF K
<1>5. to \subseteq K..K + Memsize - 1
  BY <1>3
<1>6. to \subseteq 0..machine.memory - 1 /\ to \cap (Image(image) \cup machine.busy) = {}
      /\ (image.rd > 0 => RdAt \cap to = {})
  BY <1>2, <1>5 DEF KernelApart, KernelAt, RamdiskApart, K
<1>7. K + Loaded <= machine.top + 1 \/ Loaded = 0
  <2> SUFFICES ASSUME Loaded > 0 PROVE K + Loaded <= machine.top + 1
    BY <1>3
  <2>1. K + Loaded - 1 \in to
    BY <1>3
  <2>2. K + Loaded - 1 \in 0..machine.memory - 1
    BY <1>6, <2>1
  <2> QED BY <1>3, <1>4, <2>2
<1>8. Leaves(mem', mem, to) /\ (Holds(mem, Start(image), image.z, Stuff) => Holds(mem', K, Loaded, "kernel"))
  <2>1. CASE image.gz
    <3>1. Loaded = image.size /\ Stuff = "z" /\ mem' = Gunzip(mem, K, Memsize, Start(image))
      BY <1>1, <2>1 DEF Loaded, Stuff
    <3>2. /\ Leaves(Gunzip(mem, K, Memsize, Start(image)), mem, K..K + image.size - 1)
          /\ Holds(mem, Start(image), image.z, "z") /\ K + image.size <= machine.top + 1 =>
               Holds(Gunzip(mem, K, Memsize, Start(image)), K, image.size, "kernel")
      BY <1>3, <1>4, <3>1, Unpacks
    <3>3. Loaded = 0 => Holds(mem', K, Loaded, "kernel")
      BY DEF Holds
    <3> QED BY <1>7, <3>1, <3>2, <3>3
  <2>2. CASE ~image.gz
    <3>1. Loaded = image.z /\ Stuff = "kernel" /\ mem' = MemMove(mem, K, Start(image), image.z)
      BY <1>1, <2>2 DEF Loaded, Stuff
    <3>2. /\ Leaves(MemMove(mem, K, Start(image), image.z), mem, K..K + image.z - 1)
          /\ Holds(mem, Start(image), image.z, "kernel") /\ K + image.z <= machine.top + 1 =>
               Holds(MemMove(mem, K, Start(image), image.z), K, image.z, "kernel")
      BY <1>3, <1>4, Copied
    <3>3. Loaded = 0 => Holds(mem', K, Loaded, "kernel")
      BY DEF Holds
    <3> QED BY <1>7, <3>1, <3>2, <3>3
  <2> QED BY <2>1, <2>2
<1> HIDE DEF to
<1>9. Came' => Came
  BY <1>1, Unmoved DEF Came
<1>10. RdAt' = RdAt /\ KernelAt' = KernelAt
  BY <1>1, Unmoved DEF RdAt, KernelAt
<1>11. Intact'
  BY <1>1, <1>2, <1>6, <1>8, IntactKept
<1>12. Claims' /\ KernelApart' /\ PartsThere'
  BY <1>1, <1>2, <1>10, Unmoved DEF Claims, KernelApart, PartsThere
<1>13. Came' => Holds(mem', at'.kernel, Loaded', "kernel")
  BY <1>1, <1>2, <1>8, <1>9, Unmoved DEF PartsThere, K
<1>14. ASSUME image.rd > 0 PROVE RamdiskApart'
  <2> DEFINE q == told.rd[1]
  <2>1. q \in Nat /\ RdAt = q..q + image.rd - 1 /\ RdAt \subseteq 0..machine.memory - 1
        /\ (Came => Holds(mem, q, image.rd, "rd"))
    BY <1>2, <1>14 DEF RamdiskApart, RdAt
  <2> HIDE DEF q
  <2>2. q + image.rd <= machine.top + 1
    <3>1. q + image.rd - 1 \in q..q + image.rd - 1
      BY <1>4, <1>14, <2>1
    <3>2. q + image.rd - 1 \in 0..machine.memory - 1
      BY <2>1, <3>1
    <3> QED BY <1>4, <2>1, <3>2
  <2>3. q..q + image.rd - 1 \cap to = {}
    BY <1>6, <1>14, <2>1
  <2>4. Came' => Holds(mem', q, image.rd, "rd")
    BY <1>4, <1>8, <1>9, <2>1, <2>2, <2>3, Kept
  <2> QED BY <1>1, <1>2, <1>10, <1>14, <2>4 DEF RamdiskApart, q
<1> QED BY <1>1, <1>11, <1>12, <1>13, <1>14 DEF ChrpInv

(* Nobody changes what the kernel is given any more. *)
LEMMA ChrpQuiet ==
  ASSUME PlaceInv, ChrpInv, Chrp, image' = image, machine' = machine, mem' = mem, claimed' = claimed, at' = at, told'.rd = told.rd,
         \/ pc \in {"wait", "edit", "bootargs", "enter"} /\ pc' \in {"wait", "edit", "bootargs", "enter", "entered"}
         \/ pc' = pc
         \/ pc = "initrd" /\ pc' = "unpack" /\ image.rd = 0
  PROVE  ChrpInv'
<1> SUFFICES ASSUME pc' \in Running PROVE ChrpInv'
  BY DEF ChrpInv
<1>1. pc \in Running
  BY DEF Running
<1>2. Came' => Came
  BY Unmoved DEF Came
<1>3. Intact' /\ Claims' /\ PartsThere'
  BY <1>1, <1>2, Unmoved DEF ChrpInv, Intact, Claims, PartsThere
<1>4. (KernelApart => KernelApart') /\ (RamdiskApart => RamdiskApart')
  BY <1>2, Unmoved DEF KernelApart, KernelAt, RamdiskApart, RdAt
<1>5. /\ pc' = "cpu" => at'.base = Base'
      /\ pc' \notin {"md5", "cpu"} => KernelApart'
  BY <1>1, <1>4, Unmoved DEF ChrpInv
<1>6. /\ pc' \notin {"md5", "cpu", "initrd"} /\ image'.rd > 0 => RamdiskApart'
      /\ pc' \in {"wait", "edit", "bootargs", "enter", "entered"} /\ Came' => Holds(mem', at'.kernel, Loaded', "kernel")
  <2>1. image.rd = 0 => ~(image.rd > 0)
    OBVIOUS
  <2> QED BY <1>1, <1>2, <1>4, <2>1, Unmoved DEF ChrpInv
<1> QED BY <1>3, <1>5, <1>6 DEF ChrpInv

(* The wrapper for CHRP. *)
LEMMA ChrpStep == IInv /\ [Next]_allVars => ChrpInv'
<1> SUFFICES ASSUME PlaceInv, ShapeInv, ImageInv, ChrpInv, [Next]_allVars PROVE ChrpInv'
  BY DEF IInv
<1>1. image' = image /\ machine' = machine
  BY Same
<1> SUFFICES ASSUME Chrp PROVE ChrpInv'
  BY <1>1, Unmoved DEF ChrpInv
<1>2. pc \in Running \cup {"linked", "made", "aborted"} /\ machine.kind = "chrp"
  BY DEF PlaceInv, Chrp
<1>3. pc' \notin Running => ChrpInv'
  BY DEF ChrpInv
<1>4. CASE MakeImage \/ MkzimageCmdline \/ InflateFails \/ Corrupted \/ NoCpu \/ NoRoom \/ NoRoomForInitrd
  <2>1. pc' \notin Running
    BY <1>2, <1>4 DEF MakeImage, NoteThere, NoSpace, AddNote, Mkprep, NotKernel, AddRamDisk, Fixup, Death, NoEnd,
       AddSystemMap, EnterIseries, Finish, Fails, Abort, MkzimageCmdline, InflateFails, Corrupted, NoCpu, NoRoom, NoRoomForInitrd,
       Iseries, Running
  <2> QED BY <1>3, <2>1
<1>5. CASE Load
  BY <1>5, ChrpLoad
<1>6. CASE CheckMd5 \/ ClaimKernel \/ LeaveInitrd \/ MoveInitrd \/ Unpack
  BY <1>6, ChrpCheckMd5, ChrpClaimKernel, ChrpLeaveInitrd, ChrpMoveInitrd, ChrpUnpack
<1>7. CASE Timeout \/ Key \/ NoInitrd \/ Bootargs \/ Enter
  <2> SUFFICES ASSUME pc' \in Running PROVE ChrpInv'
    BY <1>3
  <2>1. mem' = mem /\ claimed' = claimed /\ at' = at
    BY <1>7 DEF Timeout, Key, NoInitrd, Bootargs, Enter, store
  <2>2. told'.rd = told.rd
    <3>1. CASE Bootargs
      BY <3>1 DEF Bootargs, ShapeInv
    <3>2. CASE Timeout \/ Key \/ NoInitrd \/ Enter
      BY <3>2 DEF Timeout, Key, NoInitrd, Enter
    <3> QED BY <1>7, <3>1, <3>2
  <2>3. \/ pc \in {"wait", "edit", "bootargs", "enter"} /\ pc' \in {"wait", "edit", "bootargs", "enter", "entered"}
        \/ pc = "initrd" /\ pc' = "unpack" /\ image.rd = 0
    BY <1>2, <1>7 DEF Timeout, Key, Leave, After, Plain, NoInitrd, AtInitrd, Bootargs, Enter, Running
  <2> QED BY <1>1, <2>1, <2>2, <2>3, ChrpQuiet
<1>8. CASE PrepNext
  BY <1>2, <1>8 DEF PrepNext, Relocate, LoadKernel, UnpackNowhere, UnpackKernel, MoveFromRecs, StaysThere, Bootinfo, EnterPrep, Running
<1>9. CASE UNCHANGED allVars
  BY <1>1, <1>9, ChrpQuiet DEF allVars, vars, store
<1> QED BY <1>4, <1>5, <1>6, <1>7, <1>8, <1>9 DEF Next, ChrpNext
-----------------------------------------------------------------------------
(* What makers of PReP images keep to. *)
LEMMA PrepNumbers ==
  ASSUME PlaceInv, Prep
  PROVE  /\ image.gz /\ image.link = VMLINUX_SIZE /\ image.size <= image.memsize /\ image.memsize <= image.link
         /\ MB \in Nat \ {0} /\ RecBlocks \in Nat \ {0} /\ VMLINUX_SIZE \in Nat \ {0}
         /\ image.size <= image.link /\ Loaded = image.size /\ Stuff = "z"
<1>1. image \in Images /\ image.kind = "prep"
  BY DEF PlaceInv, Prep
<1>2. /\ image.gz /\ image.link = VMLINUX_SIZE /\ image.size <= image.memsize /\ image.memsize <= image.link
      /\ MB \in Nat \ {0} /\ RecBlocks \in Nat \ {0} /\ VMLINUX_SIZE \in Nat \ {0}
  BY <1>1, PrepAssumption
<1>3. image.size <= image.link
  BY <1>2, Numbers
<1> QED BY <1>2, <1>3 DEF Loaded, Stuff

LEMMA PrepSame ==
  image' = image /\ machine' = machine =>
    /\ (Prep' <=> Prep) /\ Start(image)' = Start(image) /\ RdStart(image)' = RdStart(image) /\ RdEnd(image)' = RdEnd(image)
    /\ End(image)' = End(image) /\ Image(image)' = Image(image) /\ Size' = Size /\ LoadAt' = LoadAt
    /\ \A a : Block(image, a)' = Block(image, a)
  BY DEF Prep, Start, RdStart, RdEnd, End, Image, Size, LoadAt, Block

(* The image in memory, each of its places. *)
LEMMA Places ==
  ASSUME PlaceInv
  PROVE  /\ Image(image) = image.link..image.link + Size - 1 /\ Image(image) \subseteq 0..machine.top
         /\ \A a \in Image(image) : a \in Nat /\ a - image.link \in 0..Size - 1
         /\ \A k \in 0..Size - 1 : image.link + k \in Image(image)
         /\ image.link \in Nat /\ Size \in Nat
<1>1. /\ image.link \in Nat /\ Size \in Nat /\ machine.top \in Nat /\ machine.memory \in Nat
      /\ machine.memory <= machine.top + 1
  <2>1. image.z \in Nat /\ image.rd \in Nat /\ Size = image.z + image.rd + 2
    BY Numbers, LoadedAt
  <2> QED BY <2>1, Numbers
<1>2. End(image) = image.link + Size /\ End(image) <= machine.memory
  <2>1. End(image) \in Nat
    BY Regions
  <2> QED BY <1>1, <2>1, LoadedAt DEF Size
<1>3. Image(image) = image.link..image.link + Size - 1
  <2>1. End(image) - 1 = image.link + Size - 1
    BY <1>1, <1>2
  <2> QED BY <2>1 DEF Image
<1>4. Image(image) \subseteq 0..machine.top
  BY <1>1, <1>2, <1>3
<1>5. /\ \A a \in Image(image) : a \in Nat /\ a - image.link \in 0..Size - 1
      /\ \A k \in 0..Size - 1 : image.link + k \in Image(image)
  BY <1>1, <1>3
<1> QED BY <1>1, <1>3, <1>4, <1>5

(* As much as the boot record says is all of it. *)
LEMMA PrepLoad ==
  ASSUME PlaceInv, ImageInv, Prep, Load
  PROVE  PrepInv'
<1>1. pc = "made" /\ pc' = "relocate" /\ image' = image /\ machine' = machine /\ file.length = Sectors
  BY DEF Load, ImageInv, Prep
<1>2. /\ image.z \in Nat /\ image.rd \in Nat /\ image.link \in Nat /\ LoadAt \in Nat /\ Size = image.z + image.rd + 2
      /\ LoadAt + Size <= machine.memory /\ machine.memory <= machine.top + 1 /\ machine.top \in Nat /\ machine.memory \in Nat
      /\ End(image) = image.link + 2 + image.z + image.rd
  BY Numbers, LoadedAt, Regions
<1>3. Loads = image.z + image.rd + 1
  BY <1>1, <1>2 DEF Loads, Sectors, CopyImage, Nowhere
<1>4. ASSUME NEW k \in 0..Size - 1 PROVE mem'[LoadAt + k] = Block(image, image.link + k)
  <2> DEFINE a == LoadAt + k
  <2>1. a \in 0..machine.top /\ a - LoadAt + image.link = image.link + k
    BY <1>2
  <2>2. a < LoadAt + Loads \/ a = LoadAt + End(image) - image.link - 1
    BY <1>2, <1>3
  <2>3. image.link + k \in Image(image)
    BY Places
  <2> HIDE DEF a
  <2>4. mem'[a] = IF a - LoadAt + image.link \in Image(image) /\ (a < LoadAt + Loads \/ a = LoadAt + End(image) - image.link - 1)
                  THEN Block(image, a - LoadAt + image.link)
                  ELSE IF a \in machine.busy THEN <<"busy", a>> ELSE Nothing
    BY <2>1 DEF Load
  <2>5. mem'[a] = Block(image, image.link + k)
    BY <2>1, <2>2, <2>3, <2>4
  <2> QED BY <2>5 DEF a
<1>5. AsLoaded'
  BY <1>1, <1>4, PrepSame DEF AsLoaded
<1> QED BY <1>1, <1>5 DEF PrepInv

(* The code that moves the image is not written over, and all moves. *)
LEMMA PrepRelocate ==
  ASSUME PlaceInv, ShapeInv, PrepInv, Prep, Relocate
  PROVE  PrepInv'
<1> DEFINE n == Write(mem, Safe, 1, LAMBDA k : <<"code", 0>>)
<1>1. /\ pc = "relocate" /\ pc' = "firmware" /\ image' = image /\ machine' = machine
      /\ mem' = IF LoadAt = image.link THEN mem ELSE Relocated(n, image.link, LoadAt, Size)
  BY DEF Relocate
<1>2. AsLoaded /\ IsMemory(mem)
  BY <1>1 DEF PrepInv, ShapeInv
<1>3. image.link \in Nat /\ LoadAt \in Nat /\ Size \in Nat /\ End(image) = image.link + Size
  <2>1. End(image) \in Nat
    BY Regions
  <2> QED BY <2>1, LoadedAt, Places DEF Size
<1>4. ASSUME NEW a \in Image(image) PROVE mem'[a] = Block(image, a)
  <2> DEFINE k == a - image.link
  <2>1. k \in 0..Size - 1 /\ a = image.link + k /\ a \in 0..machine.top /\ a \in image.link..image.link + Size - 1
    BY Places
  <2> HIDE DEF k
  <2>2. mem[LoadAt + k] = Block(image, a)
    BY <1>2, <2>1 DEF AsLoaded
  <2>3. CASE LoadAt = image.link
    BY <1>1, <2>1, <2>2, <2>3
  <2>4. CASE LoadAt # image.link
    <3>1. n = [b \in DOMAIN mem |-> IF b \in Safe..Safe + 1 - 1 THEN <<"code", 0>> ELSE mem[b]]
      BY DEF Write
    <3>2. DOMAIN mem = 0..machine.top
      BY <1>2 DEF IsMemory
    <3> HIDE DEF n
    <3>3. IsMemory(n)
      BY <3>1, <3>2 DEF IsMemory
    <3>4. LoadAt + k \in 0..machine.top
      <4>1. LoadAt + Size <= machine.memory /\ machine.memory <= machine.top + 1 /\ machine.memory \in Nat /\ machine.top \in Nat
        BY LoadedAt, Numbers
      <4> QED BY <1>3, <2>1, <4>1
    <3>5. Safe \in Nat /\ LoadAt + k \notin Safe..Safe + 1 - 1
      <4>1. CASE LoadAt > image.link
        <5>1. Safe = LoadAt + Size
          BY <4>1 DEF Safe
        <5> QED BY <1>3, <2>1, <5>1
      <4>2. CASE ~(LoadAt > image.link)
        <5>1. Safe = image.link + Size
          BY <1>3, <4>2 DEF Safe
        <5> QED BY <1>3, <2>1, <4>2, <5>1
      <4> QED BY <4>1, <4>2
    <3>6. n[LoadAt + k] = mem[LoadAt + k]
      BY <3>1, <3>2, <3>4, <3>5
    <3>7. Relocated(n, image.link, LoadAt, Size)[a] = n[LoadAt + (a - image.link)]
      BY <1>3, <2>1, <3>3, Relocation
    <3> QED BY <1>1, <2>2, <2>4, <3>6, <3>7 DEF k
  <2> QED BY <2>3, <2>4
<1>5. AsLinked'
  BY <1>1, <1>4, PrepSame DEF AsLinked
<1> QED BY <1>1, <1>5 DEF PrepInv

LEMMA PrepLoadKernel ==
  ASSUME PlaceInv, PrepInv, Prep, LoadKernel
  PROVE  PrepInv'
<1> DEFINE want == Align(End(image), MB)  c == WithOwn(claimed)
<1>1. /\ pc = "firmware" /\ pc' = "wait" /\ image' = image /\ machine' = machine /\ mem' = mem
      /\ \/ ~machine.of /\ buf' = 0
         \/ machine.of /\ Free(c, want, VMLINUX_SIZE) /\ buf' = want
         \/ buf' = Nowhere
  BY DEF LoadKernel
<1>2. AsLinked'
  BY <1>1, PrepSame DEF PrepInv, AsLinked
<1>3. want \in Nat /\ want >= End(image)
  BY AlignIs, PrepNumbers, Regions
<1> HIDE DEF want, c
<1>4. Free(c, want, VMLINUX_SIZE) => want + VMLINUX_SIZE <= machine.memory
  <2> SUFFICES ASSUME want..want + VMLINUX_SIZE - 1 \subseteq 0..machine.memory - 1 PROVE want + VMLINUX_SIZE <= machine.memory
    BY DEF Free
  <2>1. VMLINUX_SIZE \in Nat \ {0} /\ machine.memory \in Nat
    BY PrepNumbers, Numbers
  <2>2. want + VMLINUX_SIZE - 1 \in want..want + VMLINUX_SIZE - 1
    BY <1>3, <2>1
  <2>3. want + VMLINUX_SIZE - 1 \in 0..machine.memory - 1
    BY <2>2
  <2> QED BY <1>3, <2>1, <2>3
<1>5. BufInv' \/ buf' = Nowhere
  BY <1>1, <1>3, <1>4, PrepSame DEF BufInv
<1> QED BY <1>1, <1>2, <1>5 DEF PrepInv

(* Unpacking leaves the image alone. *)
LEMMA PrepUnpack ==
  ASSUME PlaceInv, ShapeInv, PrepInv, Prep, UnpackKernel
  PROVE  PrepInv'
<1> DEFINE to == buf..buf + image.size - 1
<1>1. /\ pc = "unpack" /\ pc' = "initrd" /\ image' = image /\ machine' = machine /\ buf' = buf /\ buf # Nowhere
      /\ mem' = Gunzip(mem, buf, VMLINUX_SIZE, Start(image))
      /\ at'.size = Unpacked /\ at'.rec = Align(Unpacked + MB - 1, MB) /\ at'.rd = RdStart(image)
  BY DEF UnpackKernel, prep, ShapeInv
<1>2. AsLinked /\ BufInv /\ IsMemory(mem)
  BY <1>1 DEF PrepInv, ShapeInv
<1>3. /\ image.size \in Nat /\ VMLINUX_SIZE \in Nat /\ image.link \in Nat /\ image.size <= VMLINUX_SIZE /\ image.link = VMLINUX_SIZE
      /\ machine.top \in Nat /\ machine.memory \in Nat /\ machine.memory <= machine.top + 1 /\ image.link + Size <= machine.memory
      /\ Size \in Nat /\ image.z \in Nat
  <2>1. End(image) = image.link + Size
    <3>1. End(image) \in Nat /\ image.link \in Nat
      BY Regions, Numbers
    <3> QED BY <3>1 DEF Size
  <2> QED BY <2>1, PrepNumbers, Numbers, Places, LoadedAt
<1>4. Unpacked = image.size
  BY <1>3 DEF Unpacked
<1>5. buf \in Nat /\ buf + image.size <= machine.top + 1 /\ to \cap Image(image) = {}
  <2>1. Image(image) = image.link..image.link + Size - 1 /\ End(image) = image.link + Size
    <3>1. End(image) \in Nat
      BY Regions
    <3> QED BY <1>3, <3>1, Places DEF Size
  <2>2. CASE buf = 0
    BY <1>3, <2>1, <2>2
  <2>3. CASE machine.of /\ buf \in Nat /\ buf >= End(image) /\ buf + VMLINUX_SIZE <= machine.memory
    BY <1>3, <2>1, <2>3
  <2> QED BY <1>2, <2>2, <2>3 DEF BufInv
<1>6. Start(image) \in Nat
  BY Regions
<1>7. /\ Leaves(mem', mem, to)
      /\ Holds(mem, Start(image), image.z, "z") => Holds(mem', buf, image.size, "kernel")
  BY <1>1, <1>2, <1>3, <1>5, <1>6, Unpacks
<1>8. Holds(mem, Start(image), image.z, "z")
  <2> SUFFICES ASSUME NEW k \in 0..image.z - 1 PROVE mem[Start(image) + k] = <<"z", k>>
    BY DEF Holds
  <2>1. Block(image, Start(image) + k) = <<"z", k>>
    BY BlockIs, PrepNumbers
  <2>2. Start(image) + k \in Image(image)
    <3>1. Start(image) + k = image.link + (1 + k) /\ 1 + k \in 0..Size - 1
      <4>1. image.rd \in Nat /\ Size = image.z + image.rd + 2 /\ Start(image) = image.link + 1
        BY Numbers, LoadedAt, Regions
      <4> QED BY <1>3, <4>1
    <3> QED BY <3>1, Places
  <2> QED BY <1>2, <2>1, <2>2 DEF AsLinked
<1> HIDE DEF to
<1>9. AsLinked'
  <2>1. ASSUME NEW a \in Image(image) PROVE mem'[a] = Block(image, a)
    <3>1. a \in (0..machine.top) \ to
      BY <1>5, Places
    <3> QED BY <1>2, <1>7, <3>1 DEF AsLinked, Leaves
  <2> QED BY <1>1, <2>1, PrepSame DEF AsLinked
<1>10. Measured' /\ at'.rd = RdStart(image)
  <2>1. BufInv'
    BY <1>1, <1>2, PrepSame DEF BufInv
  <2> QED BY <1>1, <1>4, <2>1 DEF Measured
<1> QED BY <1>1, <1>7, <1>8, <1>9, <1>10, PrepSame DEF PrepInv
LEMMA ClearSame ==
  image' = image /\ machine' = machine /\ at'.rec = at.rec /\ at'.size = at.size => (Clear' <=> Clear)
  BY DEF Clear, Loc, Prep, Start, RdStart, RdEnd, End

(* An image that is where it was linked has all its parts. *)
LEMMA LinkedParts ==
  ASSUME PlaceInv, AsLinked
  PROVE  OwnCode /\ Holds(mem, RdStart(image), image.rd, "rd")
<1>1. /\ image.link \in Nat /\ image.z \in Nat /\ image.rd \in Nat /\ Size = image.z + image.rd + 2
      /\ RdStart(image) = image.link + 1 + image.z /\ End(image) = image.link + 2 + image.z + image.rd
  BY Numbers, LoadedAt, Regions
<1>2. image.link \in Image(image) /\ End(image) - 1 \in Image(image)
  <2>1. image.link + 0 = image.link /\ 0 \in 0..Size - 1
    BY <1>1
  <2>2. End(image) - 1 = image.link + (Size - 1) /\ Size - 1 \in 0..Size - 1
    BY <1>1
  <2> QED BY <2>1, <2>2, Places
<1>3. OwnCode
  BY <1>2, BlockIs DEF OwnCode, AsLinked
<1>4. ASSUME NEW k \in 0..image.rd - 1 PROVE mem[RdStart(image) + k] = <<"rd", k>>
  <2>1. RdStart(image) + k = image.link + (1 + image.z + k) /\ 1 + image.z + k \in 0..Size - 1
    BY <1>1
  <2>2. RdStart(image) + k \in Image(image)
    BY <2>1, Places
  <2> QED BY <2>2, BlockIs DEF AsLinked
<1> QED BY <1>3, <1>4 DEF Holds

(* The records are put where nothing is that is still needed, except the   *)
(* ramdisk. *)
LEMMA RecsClear ==
  ASSUME PlaceInv, Prep, Measured, Clear
  PROVE  /\ at.rec \in Nat /\ at.rec >= image.size /\ at.rec + RecBlocks <= machine.memory
         /\ image.link \notin at.rec..at.rec + RecBlocks - 1 /\ End(image) - 1 \notin at.rec..at.rec + RecBlocks - 1
         /\ buf..buf + image.size - 1 \cap at.rec..at.rec + RecBlocks - 1 = {}
         /\ buf \in Nat /\ buf + image.size <= machine.memory /\ (buf = 0 \/ buf >= End(image))
<1>1. /\ image.link \in Nat /\ image.z \in Nat /\ image.rd \in Nat /\ image.size \in Nat /\ image.size <= image.link
      /\ MB \in Nat \ {0} /\ RecBlocks \in Nat \ {0} /\ VMLINUX_SIZE = image.link /\ machine.memory \in Nat
  BY Numbers, PrepNumbers
<1>2. /\ RdStart(image) = image.link + 1 + image.z /\ RdEnd(image) = image.link + 1 + image.z + image.rd
      /\ End(image) = image.link + 2 + image.z + image.rd
  BY Regions
<1>3. End(image) <= machine.memory
  BY LoadedAt
<1>4. at.rec \in Nat /\ at.rec >= image.size
  <2>1. image.size + MB - 1 \in Nat /\ image.size + MB - 1 >= image.size
    BY <1>1
  <2>2. at.rec \in Nat /\ at.rec >= image.size + MB - 1
    BY <1>1, <2>1, AlignIs DEF Measured
  <2> QED BY <1>1, <2>1, <2>2
<1>5. buf \in Nat /\ buf + image.size <= machine.memory /\ (buf = 0 \/ buf >= End(image))
  BY <1>1, <1>2, <1>3 DEF Measured, BufInv
<1>6. CASE at.rec + RecBlocks <= image.link
  BY <1>1, <1>2, <1>3, <1>4, <1>5, <1>6
<1>7. CASE ~machine.of /\ at.rec >= End(image) /\ at.rec + RecBlocks <= machine.memory
  <2>1. buf = 0
    BY <1>7 DEF Measured, BufInv
  <2> QED BY <1>1, <1>2, <1>3, <1>4, <1>5, <1>7, <2>1
<1>8. CASE ~machine.of /\ RdStart(image) < at.rec /\ at.rec + RecBlocks <= RdEnd(image)
  <2>1. buf = 0
    BY <1>8 DEF Measured, BufInv
  <2> QED BY <1>1, <1>2, <1>3, <1>4, <1>5, <1>8, <2>1
<1> QED BY <1>6, <1>7, <1>8 DEF Clear

(* The ramdisk goes where there is memory, if it has to go. *)
LEMMA PrepMoveFromRecs ==
  ASSUME PlaceInv, ShapeInv, PrepInv, Prep, MoveFromRecs
  PROVE  PrepInv'
<1>1. /\ pc = "initrd" /\ pc' = "records" /\ image' = image /\ machine' = machine /\ buf' = buf /\ RecsInside
      /\ mem' = MemMove(mem, Loc, RdStart(image), image.rd)
      /\ at'.rd = Loc /\ at'.rec = at.rec /\ at'.size = at.size
  BY DEF MoveFromRecs, prep, ShapeInv
<1>2. AsLinked /\ Measured /\ at.rd = RdStart(image) /\ Holds(mem, buf, image.size, "kernel") /\ IsMemory(mem)
  BY <1>1 DEF PrepInv, ShapeInv
<1>3. Measured'
  BY <1>1, <1>2, PrepSame DEF Measured, BufInv
<1>4. OwnCode /\ Holds(mem, RdStart(image), image.rd, "rd")
  BY <1>2, LinkedParts
<1>5. ASSUME Clear' PROVE OwnCode' /\ Holds(mem', buf, image.size, "kernel") /\ RamdiskBeside'
  <2> DEFINE to == Loc..Loc + image.rd - 1
  <2>1. Clear
    BY <1>1, <1>5, ClearSame
  <2>2. /\ image.link \in Nat /\ image.z \in Nat /\ image.rd \in Nat /\ image.size \in Nat /\ image.size <= image.link
        /\ MB \in Nat \ {0} /\ RecBlocks \in Nat \ {0} /\ machine.memory \in Nat /\ machine.top \in Nat
        /\ machine.memory <= machine.top + 1
    BY Numbers, PrepNumbers
  <2>3. /\ RdStart(image) = image.link + 1 + image.z /\ RdEnd(image) = image.link + 1 + image.z + image.rd
        /\ End(image) = image.link + 2 + image.z + image.rd
    BY Regions
  <2>4. at.rec > RdStart(image) /\ at.rec < RdEnd(image) /\ at.rec \in Nat
    <3>1. at.rec > RdStart(image) /\ RdStart(image) + image.rd > at.rec
      BY <1>1, <1>2 DEF RecsInside
    <3>2. at.rec \in Nat
      BY <1>2, <2>1, RecsClear
    <3> QED BY <2>2, <2>3, <3>1, <3>2
  <2>5. /\ ~machine.of /\ at.rec + RecBlocks <= RdEnd(image) /\ End(image) <= Loc /\ Loc + image.rd <= machine.memory
    <3>1. ~(at.rec + RecBlocks <= image.link) /\ ~(at.rec >= End(image))
      BY <2>2, <2>3, <2>4
    <3> QED BY <2>1, <3>1 DEF Clear
  <2>6. buf = 0
    BY <1>2, <2>5 DEF Measured, BufInv
  <2>7. Loc \in Nat
    <3>1. at.size + 2 * MB - 1 \in Nat /\ 2 * MB \in Nat \ {0}
      BY <1>2, <2>2 DEF Measured
    <3> QED BY <3>1, AlignIs DEF Loc
  <2>8. RdStart(image) \in Nat
    BY Regions
  <2>9. Loc + image.rd <= machine.top + 1
    BY <2>2, <2>5, <2>7
  <2>10. /\ Leaves(mem', mem, to)
         /\ Holds(mem, RdStart(image), image.rd, "rd") => Holds(mem', Loc, image.rd, "rd")
    BY <1>1, <1>2, <2>2, <2>7, <2>8, <2>9, Copied
  <2>11. /\ image.link \in (0..machine.top) \ to /\ End(image) - 1 \in (0..machine.top) \ to
         /\ buf..buf + image.size - 1 \cap to = {} /\ buf + image.size <= machine.top + 1
    <3>1. End(image) <= machine.memory
      BY LoadedAt
    <3> QED BY <2>2, <2>3, <2>5, <2>6, <2>7, <3>1
  <2> HIDE DEF to
  <2>12. OwnCode'
    BY <1>1, <1>4, <2>10, <2>11, PrepSame DEF OwnCode, Leaves
  <2>13. Holds(mem', buf, image.size, "kernel")
    <3>1. buf \in Nat
      BY <2>6
    <3> QED BY <1>2, <2>2, <2>10, <2>11, <3>1, Kept
  <2>14. RamdiskBeside'
    <3>1. Loc > image.link /\ at.rec + RecBlocks <= Loc
      BY <2>2, <2>3, <2>4, <2>5, <2>7
    <3>2. Holds(mem', Loc, image.rd, "rd")
      BY <1>4, <2>10
    <3> QED BY <1>1, <2>5, <2>7, <3>1, <3>2 DEF RamdiskBeside
  <2> QED BY <2>12, <2>13, <2>14
<1> QED BY <1>1, <1>3, <1>5 DEF PrepInv

LEMMA PrepStaysThere ==
  ASSUME PlaceInv, ShapeInv, PrepInv, Prep, StaysThere
  PROVE  PrepInv'
<1>1. /\ pc = "initrd" /\ pc' = "records" /\ image' = image /\ machine' = machine /\ buf' = buf /\ mem' = mem /\ at' = at
      /\ ~(image.rd > 0 /\ RecsInside)
  BY DEF StaysThere, prep, store
<1>2. AsLinked /\ Measured /\ at.rd = RdStart(image) /\ Holds(mem, buf, image.size, "kernel")
  BY <1>1 DEF PrepInv
<1>3. Measured'
  BY <1>1, <1>2, PrepSame DEF Measured, BufInv
<1>4. OwnCode /\ Holds(mem, RdStart(image), image.rd, "rd")
  BY <1>2, LinkedParts
<1>5. ASSUME Clear', image.rd > 0 PROVE RamdiskBeside'
  <2>1. Clear
    BY <1>1, <1>5, ClearSame
  <2>2. /\ image.link \in Nat /\ image.z \in Nat /\ image.rd \in Nat /\ RecBlocks \in Nat \ {0} /\ machine.memory \in Nat
        /\ at.rec \in Nat
    BY <1>2, <2>1, Numbers, PrepNumbers, RecsClear
  <2>3. /\ RdStart(image) = image.link + 1 + image.z /\ RdEnd(image) = image.link + 1 + image.z + image.rd
        /\ End(image) = image.link + 2 + image.z + image.rd
    BY Regions
  <2>4. End(image) <= machine.memory
    BY LoadedAt
  <2>5. ~(at.rec > RdStart(image) /\ RdStart(image) + image.rd > at.rec)
    BY <1>1, <1>2, <1>5 DEF RecsInside
  <2>6. RdStart(image) + image.rd <= at.rec \/ at.rec + RecBlocks <= RdStart(image)
    <3>1. CASE at.rec + RecBlocks <= image.link
      BY <2>2, <2>3, <3>1
    <3>2. CASE at.rec >= End(image)
      BY <2>2, <2>3, <3>2
    <3>3. CASE RdStart(image) < at.rec /\ at.rec + RecBlocks <= RdEnd(image)
      BY <2>2, <2>3, <2>5, <3>3
    <3> QED BY <2>1, <3>1, <3>2, <3>3 DEF Clear
  <2>7. RdStart(image) \in Nat /\ RdStart(image) > image.link /\ RdStart(image) + image.rd <= machine.memory
    BY <2>2, <2>3, <2>4
  <2>8. machine.of => RdStart(image) + image.rd <= buf
    <3> SUFFICES ASSUME machine.of PROVE RdStart(image) + image.rd <= buf
      OBVIOUS
    <3>1. buf \in Nat /\ buf >= End(image)
      BY <1>2 DEF Measured, BufInv
    <3> QED BY <2>2, <2>3, <3>1
  <2> QED BY <1>1, <1>2, <1>4, <2>6, <2>7, <2>8 DEF RamdiskBeside
<1>6. OwnCode'
  BY <1>1, <1>4, PrepSame DEF OwnCode
<1> QED BY <1>1, <1>2, <1>3, <1>5, <1>6 DEF PrepInv

LEMMA PrepBootinfo ==
  ASSUME PlaceInv, ShapeInv, PrepInv, Prep, Bootinfo
  PROVE  PrepInv'
<1> DEFINE to == at.rec..at.rec + RecBlocks - 1
<1>1. /\ pc = "records" /\ pc' = "moving" /\ image' = image /\ machine' = machine /\ buf' = buf /\ at' = at
      /\ mem' = Write(mem, at.rec, RecBlocks, LAMBDA k : <<"recs", k>>)
  BY DEF Bootinfo
<1>2. Measured /\ IsMemory(mem)
  BY <1>1 DEF PrepInv, ShapeInv
<1>3. Measured'
  BY <1>1, <1>2, PrepSame DEF Measured, BufInv
<1>4. ASSUME Clear'
      PROVE  OwnCode' /\ Holds(mem', buf, image.size, "kernel") /\ (image.rd > 0 => RamdiskBeside')
             /\ Holds(mem', at.rec, RecBlocks, "recs")
  <2>1. Clear
    BY <1>1, <1>4, ClearSame
  <2>2. OwnCode /\ Holds(mem, buf, image.size, "kernel") /\ (image.rd > 0 => RamdiskBeside)
    BY <1>1, <2>1 DEF PrepInv
  <2>3. /\ image.link \in Nat /\ image.rd \in Nat /\ image.size \in Nat /\ RecBlocks \in Nat \ {0}
        /\ machine.memory \in Nat /\ machine.top \in Nat /\ machine.memory <= machine.top + 1
    BY Numbers, PrepNumbers
  <2>4. /\ at.rec \in Nat /\ at.rec + RecBlocks <= machine.memory
        /\ image.link \notin to /\ End(image) - 1 \notin to /\ buf..buf + image.size - 1 \cap to = {}
        /\ buf \in Nat /\ buf + image.size <= machine.memory
    BY <1>2, <2>1, RecsClear
  <2>5. mem' = [a \in 0..machine.top |-> IF a \in to THEN <<"recs", a - at.rec>> ELSE mem[a]]
    BY <1>1, <1>2 DEF Write, IsMemory
  <2>6. Leaves(mem', mem, to)
    BY <2>5 DEF Leaves, IsMemory
  <2>7. Holds(mem', at.rec, RecBlocks, "recs")
    <3> SUFFICES ASSUME NEW k \in 0..RecBlocks - 1 PROVE mem'[at.rec + k] = <<"recs", k>>
      BY DEF Holds
    <3>1. at.rec + k \in 0..machine.top /\ at.rec + k \in to /\ (at.rec + k) - at.rec = k
      BY <2>3, <2>4
    <3> QED BY <2>5, <3>1
  <2>8. image.link \in (0..machine.top) \ to /\ End(image) - 1 \in (0..machine.top) \ to
    <3>1. image.link \in 0..machine.top /\ End(image) - 1 \in 0..machine.top
      <4>1. /\ End(image) = image.link + 2 + image.z + image.rd /\ image.z \in Nat
        BY Regions, Numbers
      <4>2. End(image) <= machine.memory
        BY LoadedAt
      <4> QED BY <2>3, <4>1, <4>2
    <3> QED BY <2>4, <3>1
  <2>9. OwnCode'
    BY <1>1, <2>2, <2>6, <2>8, PrepSame DEF OwnCode, Leaves
  <2> HIDE DEF to
  <2>10. Holds(mem', buf, image.size, "kernel")
    <3>1. buf + image.size <= machine.top + 1
      BY <2>3, <2>4
    <3> QED BY <2>2, <2>3, <2>4, <2>6, <3>1, Kept
  <2>11. ASSUME image.rd > 0 PROVE RamdiskBeside'
    <3>1. RamdiskBeside
      BY <2>2, <2>11
    <3>2. /\ at.rd \in Nat /\ at.rd + image.rd <= machine.memory /\ Holds(mem, at.rd, image.rd, "rd")
          /\ at.rd + image.rd <= at.rec \/ at.rec + RecBlocks <= at.rd
      BY <3>1 DEF RamdiskBeside
    <3>3. at.rd..at.rd + image.rd - 1 \cap to = {} /\ at.rd + image.rd <= machine.top + 1
      BY <2>3, <2>4, <3>2 DEF to
    <3>4. Holds(mem', at.rd, image.rd, "rd")
      BY <2>3, <2>6, <3>2, <3>3, Kept
    <3> QED BY <1>1, <3>1, <3>4 DEF RamdiskBeside
  <2> QED BY <2>7, <2>9, <2>10, <2>11
<1> QED BY <1>1, <1>3, <1>4 DEF PrepInv

(* The kernel is copied below everything else. *)
LEMMA PrepEnter ==
  ASSUME PlaceInv, ShapeInv, LineInv, PrepInv, Prep, EnterPrep
  PROVE  PrepInv'
<1> DEFINE to == 0..0 + image.size - 1
<1>1. /\ pc = "moving" /\ pc' = "entered" /\ image' = image /\ machine' = machine /\ buf' = buf /\ at' = at
      /\ mem' = IF buf = 0 THEN mem ELSE MemMove(mem, 0, buf, at.size)
      /\ told'.rd = Find(recs, "INITRD", <<Nowhere, 0>>)
  BY DEF EnterPrep, prep
<1>2. Measured /\ IsMemory(mem)
  BY <1>1 DEF PrepInv, ShapeInv
<1>3. Measured'
  BY <1>1, <1>2, PrepSame DEF Measured, BufInv
<1>4. image.rd > 0 => told'.rd = <<at.rd, image.rd>>
  BY <1>1 DEF LineInv
<1>5. ASSUME Clear'
      PROVE  OwnCode' /\ Holds(mem', 0, image.size, "kernel") /\ (image.rd > 0 => RamdiskBeside')
             /\ Holds(mem', at.rec, RecBlocks, "recs")
  <2>1. Clear
    BY <1>1, <1>5, ClearSame
  <2>2. OwnCode /\ Holds(mem, buf, image.size, "kernel") /\ (image.rd > 0 => RamdiskBeside) /\ Holds(mem, at.rec, RecBlocks, "recs")
    BY <1>1, <2>1 DEF PrepInv
  <2>3. /\ image.link \in Nat /\ image.rd \in Nat /\ image.size \in Nat /\ RecBlocks \in Nat \ {0} /\ image.size <= image.link
        /\ machine.memory \in Nat /\ machine.top \in Nat /\ machine.memory <= machine.top + 1
    BY Numbers, PrepNumbers
  <2>4. /\ at.rec \in Nat /\ at.rec >= image.size /\ at.rec + RecBlocks <= machine.memory
        /\ buf \in Nat /\ buf + image.size <= machine.memory
    BY <1>2, <2>1, RecsClear
  <2>5. CASE buf = 0
    BY <1>1, <2>2, <2>5, PrepSame DEF OwnCode, RamdiskBeside
  <2>6. CASE buf # 0
    <3>1. mem' = MemMove(mem, 0, buf, image.size)
      BY <1>1, <1>2, <2>6 DEF Measured
    <3>2. 0 + image.size <= machine.top + 1
      BY <2>3, <2>4
    <3>3. Leaves(mem', mem, to) /\ (Holds(mem, buf, image.size, "kernel") => Holds(mem', 0, image.size, "kernel"))
      BY <1>2, <2>3, <2>4, <3>1, <3>2, Copied
    <3>4. image.link \in (0..machine.top) \ to /\ End(image) - 1 \in (0..machine.top) \ to
      <4>1. /\ End(image) = image.link + 2 + image.z + image.rd /\ image.z \in Nat
        BY Regions, Numbers
      <4>2. End(image) <= machine.memory
        BY LoadedAt
      <4> QED BY <2>3, <4>1, <4>2
    <3>5. OwnCode'
      BY <1>1, <2>2, <3>3, <3>4, PrepSame DEF OwnCode, Leaves
    <3>6. at.rec..at.rec + RecBlocks - 1 \cap to = {} /\ at.rec + RecBlocks <= machine.top + 1
      BY <2>3, <2>4
    <3>7. Holds(mem', at.rec, RecBlocks, "recs")
      <4>1. RecBlocks \in Nat
        BY <2>3
      <4> HIDE DEF to
      <4> QED BY <2>2, <2>3, <2>4, <3>3, <3>6, <4>1, Kept
    <3>8. ASSUME image.rd > 0 PROVE RamdiskBeside'
      <4>1. RamdiskBeside
        BY <2>2, <3>8
      <4>2. /\ at.rd \in Nat /\ at.rd + image.rd <= machine.memory /\ Holds(mem, at.rd, image.rd, "rd") /\ at.rd > image.link
        BY <4>1 DEF RamdiskBeside
      <4>3. at.rd..at.rd + image.rd - 1 \cap to = {} /\ at.rd + image.rd <= machine.top + 1
        BY <2>3, <4>2
      <4> HIDE DEF to
      <4>4. Holds(mem', at.rd, image.rd, "rd")
        BY <2>3, <3>3, <4>2, <4>3, Kept
      <4> QED BY <1>1, <4>1, <4>4 DEF RamdiskBeside
    <3> QED BY <2>2, <3>3, <3>5, <3>7, <3>8
  <2> QED BY <2>5, <2>6
<1> QED BY <1>1, <1>3, <1>4, <1>5 DEF PrepInv

(* Waiting and editing leave memory alone. *)
LEMMA PrepQuiet ==
  ASSUME PrepInv, Prep, image' = image, machine' = machine, mem' = mem, at' = at, told'.rd = told.rd, buf' = buf,
         pc' = pc \/ (pc \in {"wait", "edit"} /\ pc' \in {"wait", "edit", "unpack"})
  PROVE  PrepInv'
<1>1. /\ (AsLoaded => AsLoaded') /\ (AsLinked => AsLinked') /\ (BufInv => BufInv') /\ (Measured => Measured')
      /\ (OwnCode => OwnCode') /\ (RamdiskBeside => RamdiskBeside') /\ (Clear' <=> Clear) /\ RdStart(image)' = RdStart(image)
  BY PrepSame, ClearSame DEF AsLoaded, AsLinked, BufInv, Measured, OwnCode, RamdiskBeside
<1>2. CASE pc' = pc
  BY <1>1, <1>2 DEF PrepInv
<1>3. CASE pc \in {"wait", "edit"} /\ pc' \in {"wait", "edit", "unpack"}
  BY <1>1, <1>3 DEF PrepInv
<1> QED BY <1>2, <1>3

(* The wrapper for PReP. *)
LEMMA PrepStep == IInv /\ [Next]_allVars => PrepInv'
<1> SUFFICES ASSUME PlaceInv, ShapeInv, LineInv, ImageInv, PrepInv, [Next]_allVars PROVE PrepInv'
  BY DEF IInv
<1>1. image' = image /\ machine' = machine
  BY Same
<1> SUFFICES ASSUME Prep PROVE PrepInv'
  BY <1>1, PrepSame DEF PrepInv
<1>2. /\ pc \in {"linked", "made", "relocate", "firmware", "wait", "edit", "unpack", "initrd",
                   "records", "moving", "entered", "aborted", "crashed"}
      /\ machine.kind = "prep"
  BY DEF PlaceInv, Prep
<1>3. pc' \in {"linked", "made", "attached", "aborted", "crashed"} => PrepInv'
  BY DEF PrepInv
<1>4. CASE MakeImage \/ MkzimageCmdline \/ InflateFails
  <2>1. pc' \in {"linked", "made", "attached", "aborted", "crashed"}
    BY <1>2, <1>4 DEF MakeImage, NoteThere, NoSpace, AddNote, Mkprep, NotKernel, AddRamDisk, Fixup, Death, NoEnd,
       AddSystemMap, EnterIseries, Finish, Fails, Abort, MkzimageCmdline, InflateFails, Iseries
  <2> QED BY <1>3, <2>1
<1>5. CASE Load
  BY <1>5, PrepLoad
<1>6. CASE (Timeout \/ Key) /\ UNCHANGED prep
  <2>1. mem' = mem /\ at' = at /\ told' = told /\ buf' = buf
    BY <1>6 DEF Timeout, Key, store, prep
  <2>2. (pc \in {"wait", "edit"} /\ pc' \in {"wait", "edit", "unpack"}) \/ pc' = "aborted"
    BY <1>2, <1>6 DEF Timeout, Key, Leave, After, Plain
  <2> QED BY <1>1, <1>3, <2>1, <2>2, PrepQuiet
<1>7. CASE ChrpNext /\ UNCHANGED prep
  <2>1. pc' \in {"aborted"} \/ UNCHANGED <<pc, mem, at, told, buf>>
    BY <1>2, <1>7 DEF ChrpNext, CheckMd5, Corrupted, NoCpu, NoRoom, ClaimKernel, LeaveInitrd, MoveInitrd,
       NoRoomForInitrd, NoInitrd, AtInitrd, Unpack, Bootargs, Enter, Abort
  <2> QED BY <1>1, <1>3, <2>1, PrepQuiet
<1>8. CASE Relocate \/ LoadKernel \/ UnpackKernel \/ MoveFromRecs \/ StaysThere \/ Bootinfo \/ EnterPrep
  BY <1>8, PrepRelocate, PrepLoadKernel, PrepUnpack, PrepMoveFromRecs, PrepStaysThere, PrepBootinfo, PrepEnter
<1>9. CASE UnpackNowhere
  BY <1>3, <1>9 DEF UnpackNowhere
<1>10. CASE UNCHANGED allVars
  BY <1>1, <1>10, PrepQuiet DEF allVars, vars, store, prep
<1> QED BY <1>4, <1>5, <1>6, <1>7, <1>8, <1>9, <1>10 DEF Next, PrepNext
-----------------------------------------------------------------------------
LEMMA Invariant == Spec => []IInv
<1>1. IInv /\ [Next]_allVars => IInv'
  <2> SUFFICES ASSUME IInv, [Next]_allVars PROVE IInv'
    OBVIOUS
  <2>1. PlaceInv' /\ ShapeInv' /\ LineInv' /\ ImageInv'
    BY PlaceStep, ShapeStep, LineStep, ImageStep DEF IInv
  <2>2. ChrpInv' /\ PrepInv'
    BY ChrpStep, PrepStep
  <2> QED BY <2>1, <2>2 DEF IInv
<1> QED BY InitInv, <1>1, PTL DEF Spec

(* LineOfImage: nobody at the console, and the kernel gets the line that   *)
(* mkzimage_cmdline.c stored where that is wanted, and the firmware's      *)
(* where it is not; get_cmdline never writes past the end of its buffer.   *)
THEOREM LineIsTheImages == Spec => []LineOfImage
<1>1. IInv => LineOfImage
  <2> SUFFICES ASSUME PlaceInv, LineInv PROVE LineOfImage
    BY DEF IInv
  <2>1. machine.kind \in {"chrp", "prep", "iseries"}
    BY Flags
  <2>2. ASSUME pc = "entered", ~typed
        PROVE  told.args = IF ~Prep /\ file.prefer # "1" THEN <<"of the firmware">> ELSE file.string
    <3>1. CASE Chrp
      BY <2>2, <3>1 DEF LineInv, FirmwareArgs, Chrp, Prep, Iseries
    <3>2. CASE Prep
      BY <2>2, <3>2 DEF LineInv, FirmwareArgs, Chrp, Prep, Iseries
    <3>3. CASE Iseries
      BY <2>2, <3>3 DEF LineInv, FirmwareArgs, Chrp, Prep, Iseries
    <3> QED BY <2>1, <3>1, <3>2, <3>3 DEF Chrp, Prep, Iseries
  <2>3. Len(line) < LineSize
    BY DEF LineInv
  <2> QED BY <2>2, <2>3 DEF LineOfImage
<1> QED BY Invariant, <1>1, PTL

(* RunsOnIntact: claiming, unpacking, moving the ramdisk and writing the   *)
(* records in chrp/main.c and prep/main.c touch neither the wrapper's own  *)
(* code and data nor what firmware still uses, and do_relocate moves the   *)
(* wrapper whole.                                                          *)
THEOREM WrapperStaysIntact == Spec => []RunsOnIntact
<1>1. IInv => RunsOnIntact
  <2> SUFFICES ASSUME PlaceInv, ChrpInv, PrepInv,
                      pc \notin {"linked", "attached", "made", "relocate", "aborted", "crashed"}, ~Iseries, Prep => Clear
               PROVE  /\ Chrp => \A a \in machine.busy : mem[a] = <<"busy", a>>
                      /\ mem[image.link] = <<"code", 0>> /\ mem[End(image) - 1] = <<"bss", 0>>
    BY DEF IInv, RunsOnIntact
  <2>1. CASE Chrp
    <3>1. pc \in Running
      BY <2>1 DEF PlaceInv
    <3> QED BY <2>1, <3>1 DEF ChrpInv, Intact
  <2>2. CASE Prep
    <3>1. pc \in {"firmware", "wait", "edit", "unpack", "initrd", "records", "moving", "entered"}
      BY <2>2 DEF PlaceInv
    <3>2. OwnCode
      BY <2>2, <3>1, LinkedParts DEF PrepInv
    <3> QED BY <2>2, <3>2 DEF OwnCode, Chrp, Prep
  <2> QED BY <2>1, <2>2, Flags DEF Chrp, Prep, Iseries
<1> QED BY Invariant, <1>1, PTL

(* HandsOverWhole: when the kernel is entered it is whole, the ramdisk is  *)
(* whole where the kernel is told, in claimed memory and clear of where    *)
(* the kernel moves to; the records of PReP are; and so is what the        *)
(* iSeries tools put behind the kernel and what addnote.c added.           *)
THEOREM KernelGetsAll == Spec => []HandsOverWhole
<1>1. IInv => HandsOverWhole
  <2> SUFFICES ASSUME PlaceInv, ImageInv, ChrpInv, PrepInv PROVE HandsOverWhole
    BY DEF IInv
  <2>1. NotesFit
    BY NotesAreFit
  <2>2. CASE pc # "entered"
    BY <2>1, <2>2 DEF HandsOverWhole
  <2>3. CASE Iseries /\ pc = "entered"
    BY <2>3 DEF ImageInv
  <2>4. CASE Chrp /\ pc = "entered"
    <3> SUFFICES ASSUME Checked PROVE HandsOverWhole
      BY <2>1 DEF HandsOverWhole
    <3>1. ~Prep /\ ~Iseries /\ Entry = at.kernel
      BY <2>4 DEF Chrp, Prep, Iseries, Entry
    <3>2. Came
      BY <2>4, <3>1 DEF Checked, Came
    <3>3. Holds(mem, Entry, Loaded, "kernel") /\ (image.rd > 0 => RamdiskApart)
      BY <2>4, <3>1, <3>2 DEF ChrpInv, Running
    <3>4. ASSUME image.rd > 0
          PROVE  /\ told.rd[2] >= image.rd /\ Holds(mem, told.rd[1], image.rd, "rd") /\ told.rd[1] >= image.memsize
                 /\ \A a \in told.rd[1] + image.rd..told.rd[1] + told.rd[2] - 1 : Iseries /\ mem[a] = <<"zero", 0>>
                 /\ told.rd[1]..told.rd[1] + image.rd - 1 \subseteq claimed
      <4>1. RamdiskApart /\ image.rd \in Nat
        BY <3>3, <3>4, Numbers
      <4>2. told.rd[2] = image.rd /\ told.rd[1] \in Nat
        BY <4>1 DEF RamdiskApart
      <4>3. told.rd[1] + image.rd..told.rd[1] + told.rd[2] - 1 = {}
        BY <4>1, <4>2
      <4>4. told.rd[1]..told.rd[1] + image.rd - 1 \subseteq claimed
        BY <4>1 DEF RamdiskApart, RdAt
      <4>5. Holds(mem, told.rd[1], image.rd, "rd") /\ told.rd[1] >= image.memsize
        BY <3>2, <4>1 DEF RamdiskApart
      <4> QED BY <4>1, <4>2, <4>3, <4>4, <4>5
    <3> QED BY <2>1, <3>1, <3>3, <3>4 DEF HandsOverWhole
  <2>5. CASE Prep /\ pc = "entered"
    <3> SUFFICES ASSUME Clear PROVE HandsOverWhole
      BY <2>1, <2>5 DEF HandsOverWhole
    <3>1. ~Chrp /\ ~Iseries /\ Entry = 0 /\ Loaded = image.size
      BY <2>5, PrepNumbers DEF Chrp, Prep, Iseries, Entry
    <3>2. /\ Measured /\ Holds(mem, 0, image.size, "kernel") /\ (image.rd > 0 => RamdiskBeside /\ told.rd = <<at.rd, image.rd>>)
          /\ Holds(mem, at.rec, RecBlocks, "recs")
      BY <2>5 DEF PrepInv
    <3>3. at.rec >= image.size
      BY <2>5, <3>2, RecsClear
    <3>4. ASSUME image.rd > 0
          PROVE  /\ told.rd[2] >= image.rd /\ Holds(mem, told.rd[1], image.rd, "rd") /\ told.rd[1] >= image.memsize
                 /\ \A a \in told.rd[1] + image.rd..told.rd[1] + told.rd[2] - 1 : Iseries /\ mem[a] = <<"zero", 0>>
      <4>1. RamdiskBeside /\ image.rd \in Nat /\ image.link \in Nat /\ image.memsize \in Nat /\ image.memsize <= image.link
        BY <2>5, <3>2, <3>4, Numbers, PrepNumbers
      <4>2. told.rd[1] = at.rd /\ told.rd[2] = image.rd
        BY <3>2, <3>4
      <4>3. at.rd \in Nat /\ at.rd > image.link /\ Holds(mem, at.rd, image.rd, "rd")
        BY <4>1 DEF RamdiskBeside
      <4>4. told.rd[1] >= image.memsize /\ told.rd[1] + image.rd..told.rd[1] + told.rd[2] - 1 = {}
        BY <4>1, <4>2, <4>3
      <4> QED BY <4>1, <4>2, <4>3, <4>4
    <3> QED BY <2>1, <2>5, <3>1, <3>2, <3>3, <3>4 DEF HandsOverWhole
  <2> QED BY <2>2, <2>3, <2>4, <2>5, Flags DEF Chrp, Prep, Iseries
<1> QED BY Invariant, <1>1, PTL
-----------------------------------------------------------------------------
(* Of each CHRP machine that has processors, the tree or the table says    *)
(* what they are, or neither does.                                         *)
ProcessorsTold ==
  \A m \in Machines : m.kind = "chrp" /\ m.nodes # <<>> =>
    /\ BootCpu(m.nodes) # 0 /\ m.bits \in {32, 64}
    /\ CpuType(m.nodes, m.pvr) \in IF m.known THEN {m.bits} ELSE {0, m.bits}

(* What made the wrapper, or the tool before it, give up. *)
Reason ==
  \/ typed \/ NotMade \/ machine.loads < End(image) - image.link
  \/ machine.bits # image.class \/ machine.nodes = <<>> \/ NoMemory

WhyInv ==
  /\ Chrp /\ pc \in {"linked", "made", "md5", "cpu"} => at.kernel = Nowhere
  /\ Chrp /\ pc \in Running \ {"md5", "cpu"} => CpuFits
  /\ pc = "aborted" => Reason

LEMMA WhySame ==
  image' = image /\ machine' = machine =>
    /\ (CpuFits' <=> CpuFits) /\ (Chrp' <=> Chrp)
    /\ UNCHANGED <<typed, claimed, at>> => (Reason' <=> Reason)
    /\ typed' => Reason'
<1> SUFFICES ASSUME image' = image, machine' = machine
             PROVE  /\ (CpuFits' <=> CpuFits) /\ (Chrp' <=> Chrp)
                    /\ UNCHANGED <<typed, claimed, at>> => (Reason' <=> Reason)
                    /\ typed' => Reason'
  OBVIOUS
<1>1. (NotMade' <=> NotMade) /\ End(image)' = End(image)
  BY DEF NotMade, Chrp, Iseries, Fits, Zero, Room, TableEnd, np, head, End, RdEnd, RdStart, Start
<1>2. UNCHANGED <<claimed, at>> => (NoMemory' <=> NoMemory)
  BY DEF NoMemory
<1> QED BY <1>1, <1>2 DEF Reason, CpuFits, Chrp

(* A processor that does not fit is another, or there is none. *)
LEMMA CpuTold ==
  ASSUME ProcessorsTold, PlaceInv, Chrp
  PROVE  /\ ~CpuFits => machine.bits # image.class \/ machine.nodes = <<>>
         /\ CpuFits /\ machine.known => machine.bits = image.class
<1>1. machine \in Machines /\ machine.kind = "chrp"
  BY DEF PlaceInv, Chrp
<1>2. machine.nodes = <<>> => BootCpu(machine.nodes) = 0
  BY DEF BootCpu
<1>3. machine.nodes # <<>> =>
        /\ BootCpu(machine.nodes) # 0 /\ machine.bits \in {32, 64}
        /\ CpuType(machine.nodes, machine.pvr) \in IF machine.known THEN {machine.bits} ELSE {0, machine.bits}
  BY <1>1 DEF ProcessorsTold
<1>4. CASE machine.nodes = <<>>
  BY <1>2, <1>4 DEF CpuFits
<1>5. CASE machine.nodes # <<>>
  <2>1. CASE machine.known
    <3>1. CpuType(machine.nodes, machine.pvr) = machine.bits
      BY <1>3, <1>5, <2>1
    <3> QED BY <1>3, <1>5, <3>1 DEF CpuFits
  <2>2. CASE ~machine.known
    <3>1. CpuType(machine.nodes, machine.pvr) \in {0, machine.bits}
      BY <1>3, <1>5, <2>2
    <3> QED BY <1>3, <1>5, <2>2, <3>1 DEF CpuFits
  <2> QED BY <2>1, <2>2
<1> QED BY <1>4, <1>5

(* What iseries-addRamDisk cannot read back is not in the kernel or did    *)
(* not come to the disk.                                                   *)
LEMMA DeathReason ==
  ASSUME PlaceInv, ImageInv, Death, Iseries
  PROVE  NotMade
<1> DEFINE B == Behind(OffsetEnd, "rd", image.rd, Total(image.rd))
<1>1. image.rd > 0 /\ file.blocks = OnDisk(B) /\ ~NacaFits
  BY DEF Death, ImageInv, WithRamDisk
<1>2. image.kind = "iseries" /\ image \in Images /\ machine \in Machines /\ machine.kind = "iseries"
  BY DEF PlaceInv, Iseries
<1>3. image.naca \in Nat /\ machine.disk \in Nat /\ Header \in Nat
  BY <1>2, ZImageAssumption
<1>4. image.rd \in Nat /\ image.z \in Nat /\ OffsetEnd \in Nat /\ OffsetEnd >= image.z /\ "rd" \in Whats
  BY Numbers, BehindKernel DEF Whats
<1>5. Total(image.rd) \in Nat /\ Total(image.rd) > image.rd
  BY <1>4, TotalIs
<1>6. B \in Seq(Units) /\ Len(B) = Header + OffsetEnd + Total(image.rd)
  <2>1. IsBehind(B, OffsetEnd, "rd", image.rd, Total(image.rd))
    BY <1>4, <1>5, BehindIs
  <2> HIDE DEF B
  <2> QED BY <2>1 DEF IsBehind
<1> HIDE DEF B
<1>7. Len(file.blocks) = IF Len(B) < machine.disk THEN Len(B) ELSE machine.disk
  <2> DEFINE n == IF Len(B) < machine.disk THEN Len(B) ELSE machine.disk
  <2>1. n \in 0..Len(B)
    BY <1>3, <1>4, <1>5, <1>6
  <2>2. file.blocks = SubSeq(B, 1, n)
    BY <1>1 DEF OnDisk
  <2> HIDE DEF n
  <2>3. Len(SubSeq(B, 1, n)) = n
    BY <1>6, <2>1, Prefix
  <2> QED BY <2>2, <2>3 DEF n
<1>8. CASE ~ReadsBack(0) \/ ~ReadsBack(image.naca)
  <2>1. Header + image.naca >= Len(file.blocks)
    <3>1. Len(file.blocks) \in Nat
      BY <1>3, <1>4, <1>5, <1>6, <1>7
    <3> QED BY <1>3, <1>8, <3>1 DEF ReadsBack
  <2>2. CASE Len(B) < machine.disk
    <3>1. Header + image.naca >= Header + OffsetEnd + Total(image.rd)
      BY <1>6, <1>7, <2>1, <2>2
    <3>2. image.naca >= image.z
      BY <1>3, <1>4, <1>5, <3>1
    <3> QED BY <3>2 DEF NotMade
  <2>3. CASE ~(Len(B) < machine.disk)
    BY <1>7, <2>1, <2>3 DEF NotMade
  <2> QED BY <2>2, <2>3
<1>9. CASE ReadsBack(0) /\ ReadsBack(image.naca)
  BY <1>1, <1>9 DEF NacaFits, NotMade
<1> QED BY <1>8, <1>9

(* Where a search found nothing there was nothing. *)
LEMMA NotFound ==
  ASSUME NEW base \in Nat, NEW n, at.base = base, Tries(n) = {}, machine.memory \in Nat
  PROVE  \A a \in base..RAM_END - 1 : \E b \in a..a + n - 1 : b \in claimed \/ b >= machine.memory
<1> SUFFICES ASSUME NEW a \in base..RAM_END - 1 PROVE \E b \in a..a + n - 1 : b \in claimed \/ b >= machine.memory
  OBVIOUS
<1>1. ~Free(claimed, a, n)
  BY DEF Tries
<1>2. PICK b \in a..a + n - 1 : b \notin (0..machine.memory - 1) \ claimed
  BY <1>1 DEF Free
<1>3. a \in Nat
  BY ChrpAssumption
<1>4. b \in Int /\ b >= 0
  BY <1>2, <1>3
<1> QED BY <1>2, <1>4

LEMMA WhyStep ==
  ASSUME ProcessorsTold, IInv, WhyInv, [Next]_allVars
  PROVE  WhyInv'
<1>1. image' = image /\ machine' = machine /\ machine.kind \in {"chrp", "prep", "iseries"}
  BY Same, Flags DEF IInv
<1> USE DEF IInv
<1>2. ASSUME Reason, Abort PROVE WhyInv'
  BY <1>1, <1>2, WhySame DEF Abort, WhyInv, editing, store, Running
<1>3. ASSUME NEW q, pc' = q, q # "aborted", ~Chrp PROVE WhyInv'
  BY <1>1, <1>3, WhySame DEF WhyInv
<1>4. machine.loads < RdEnd(image) - image.link => machine.loads < End(image) - image.link
  <2>1. RdEnd(image) \in Nat /\ End(image) = RdEnd(image) + 1 /\ image.link \in Nat /\ machine.loads \in Nat
    BY Numbers, Regions DEF End
  <2> QED BY <2>1
<1>5. ASSUME Chrp, pc \in Running, ~Came PROVE Reason
  <2>1. ~(machine.loads >= RdEnd(image) - image.link)
    BY <1>5 DEF Came
  <2>2. RdEnd(image) \in Nat /\ image.link \in Nat /\ machine.loads \in Nat
    BY Numbers, Regions
  <2>3. machine.loads < RdEnd(image) - image.link
    BY <2>1, <2>2
  <2> QED BY <1>4, <2>3 DEF Reason
<1>6. CASE NoSpace \/ NotKernel \/ NoEnd \/ Death
  <2>1. Abort
    BY <1>6 DEF NoSpace, NotKernel, NoEnd, Death, Fails
  <2>2. NotMade
    <3>1. CASE NoSpace \/ NotKernel \/ NoEnd
      BY <3>1 DEF NoSpace, NotKernel, NoEnd, NotMade, IsElf64
    <3>2. CASE Death
      <4>1. Iseries
        BY <1>1, <3>2 DEF Death, PlaceInv, Chrp, Prep, Iseries, Running
      <4> QED BY <3>2, <4>1, DeathReason
    <3> QED BY <1>6, <3>1, <3>2
  <2> QED BY <1>2, <2>1, <2>2 DEF Reason
<1>7. CASE NoteThere \/ AddNote \/ Mkprep \/ AddRamDisk \/ Fixup \/ AddSystemMap \/ EnterIseries
  <2>1. CASE NoteThere \/ AddNote
    BY <1>1, <2>1, WhySame DEF NoteThere, AddNote, Finish, WhyInv, Running
  <2>2. CASE Mkprep \/ AddRamDisk \/ AddSystemMap \/ EnterIseries
    <3>1. ~Chrp /\ pc' # "aborted"
      BY <2>2 DEF Mkprep, AddRamDisk, AddSystemMap, EnterIseries, Finish, Chrp, Prep, Iseries
    <3> QED BY <1>3, <3>1
  <2>3. CASE Fixup
    <3>1. ~Chrp /\ pc' # "aborted"
      BY <2>3 DEF Fixup, Finish, PlaceInv, Chrp, Running
    <3> QED BY <1>3, <3>1
  <2> QED BY <1>7, <2>1, <2>2, <2>3
<1>8. CASE MkzimageCmdline \/ Load
  BY <1>1, <1>8, WhySame DEF MkzimageCmdline, Load, WhyInv, Running, Chrp
<1>9. CASE InflateFails
  <2>1. pc \in {"cpu", "unpack"} /\ image.gz /\ ~Holds(mem, Start(image), image.z, "z") /\ Abort
    BY <1>9 DEF InflateFails
  <2>2. CASE Chrp
    <3>1. pc \in Running /\ Stuff = "z"
      BY <2>1 DEF Running, Stuff
    <3>2. ~Came
      BY <2>1, <2>2, <3>1 DEF ChrpInv, PartsThere
    <3> QED BY <1>2, <1>5, <2>1, <2>2, <3>1, <3>2
  <2>3. CASE Prep
    <3>1. AsLinked
      BY <2>1, <2>3 DEF PrepInv, PlaceInv
    <3>2. Holds(mem, Start(image), image.z, "z")
      <4> SUFFICES ASSUME NEW k \in 0..image.z - 1 PROVE mem[Start(image) + k] = <<"z", k>>
        BY DEF Holds
      <4>1. Block(image, Start(image) + k) = <<"z", k>>
        BY <2>1, BlockIs DEF Stuff
      <4>2. Start(image) + k = image.link + (1 + k) /\ 1 + k \in 0..Size - 1
        <5>1. /\ image.z \in Nat /\ image.rd \in Nat /\ image.link \in Nat /\ Size = image.z + image.rd + 2
              /\ Start(image) = image.link + 1
          BY Numbers, LoadedAt, Regions
        <5> QED BY <5>1
      <4>3. Start(image) + k \in Image(image)
        BY <4>2, Places
      <4> QED BY <3>1, <4>1, <4>3 DEF AsLinked
    <3> QED BY <2>1, <3>2
  <2>4. ~Iseries
    BY <2>1 DEF PlaceInv
  <2> QED BY <1>1, <2>2, <2>3, <2>4 DEF Chrp, Prep, Iseries
<1>10. CASE Timeout
  <2>1. pc = "wait" /\ pc' \in {"bootargs", "unpack"} /\ UNCHANGED <<image, machine, typed, claimed, at>>
    BY <1>10 DEF Timeout, Leave, After, store
  <2> QED BY <2>1, WhySame DEF WhyInv, Running
<1>11. CASE Key
  <2>1. pc \in {"wait", "edit"} /\ typed' = TRUE /\ pc' \in {"wait", "edit", "bootargs", "unpack", "aborted"}
    BY <1>11 DEF Key, Plain, After
  <2> QED BY <1>1, <2>1, WhySame DEF WhyInv, Running
<1>12. CASE CheckMd5
  <2>1. pc = "md5" /\ pc' = "cpu" /\ at'.kernel = at.kernel
    BY <1>12 DEF CheckMd5, ShapeInv
  <2> QED BY <1>1, <2>1, WhySame DEF WhyInv, Running
<1>13. CASE Corrupted
  <2>1. pc = "md5" /\ ~Md5Right /\ Abort
    BY <1>13 DEF Corrupted
  <2>2. Chrp
    BY <1>1, <2>1 DEF PlaceInv, Chrp, Prep, Iseries
  <2>3. ~Came
    <3> SUFFICES ASSUME Came PROVE FALSE
      OBVIOUS
    <3>1. Holds(mem, Start(image), image.z, Stuff) /\ Holds(mem, RdStart(image), image.rd, "rd")
      BY <2>1, <2>2 DEF ChrpInv, PartsThere, Running
    <3> QED BY <2>1, <3>1 DEF Md5Right, Stuff
  <2> QED BY <1>2, <1>5, <2>1, <2>2, <2>3 DEF Running
<1>14. CASE NoCpu
  <2>1. pc = "cpu" /\ ~CpuFits /\ Abort
    BY <1>14 DEF NoCpu
  <2>2. Chrp
    BY <1>1, <2>1 DEF PlaceInv, Chrp, Prep, Iseries
  <2>3. machine.bits # image.class \/ machine.nodes = <<>>
    BY <2>1, <2>2, CpuTold
  <2> QED BY <1>2, <2>1, <2>3 DEF Reason
<1>15. CASE NoRoom
  <2>1. pc = "cpu" /\ Tries(Memsize) = {} /\ Abort
    BY <1>15 DEF NoRoom
  <2>2. Chrp
    BY <1>1, <2>1 DEF PlaceInv, Chrp, Prep, Iseries
  <2>3. at.kernel = Nowhere /\ at.base = Base
    BY <2>1, <2>2 DEF WhyInv, ChrpInv, Running
  <2>4. Base \in Nat /\ machine.memory \in Nat
    BY <2>2, ChrpNumbers, Numbers
  <2>5. \A a \in Base..RAM_END - 1 : \E b \in a..a + Memsize - 1 : b \in claimed \/ b >= machine.memory
    BY <2>1, <2>3, <2>4, NotFound
  <2>6. NoMemory
    BY <2>3, <2>5 DEF NoMemory, Base, Memsize
  <2> QED BY <1>2, <2>1, <2>6 DEF Reason
<1>16. CASE NoRoomForInitrd
  <2>1. pc = "initrd" /\ Chrp /\ Tries(image.rd) = {} /\ Abort
    BY <1>16 DEF NoRoomForInitrd, AtInitrd, Chrp
  <2>2. at.kernel \in Nat /\ at.base = at.kernel + Memsize
    BY <2>1 DEF ChrpInv, Running, KernelApart
  <2>3. image.memsize \in Nat /\ Extra \in Nat /\ machine.memory \in Nat
    BY Numbers, ChrpAssumption
  <2>4. at.base = at.kernel + image.memsize + Extra /\ at.base \in Nat /\ at.kernel # Nowhere
    BY <2>2, <2>3 DEF Memsize, Nowhere
  <2>5. \A a \in at.base..RAM_END - 1 : \E b \in a..a + image.rd - 1 : b \in claimed \/ b >= machine.memory
    BY <2>1, <2>3, <2>4, NotFound
  <2>6. NoMemory
    BY <2>4, <2>5 DEF NoMemory
  <2> QED BY <1>2, <2>1, <2>6 DEF Reason
<1>17. CASE ClaimKernel
  <2>1. pc = "cpu" /\ pc' = "initrd" /\ CpuFits
    BY <1>17 DEF ClaimKernel
  <2> QED BY <1>1, <2>1, WhySame DEF WhyInv, Running
<1>18. CASE LeaveInitrd \/ MoveInitrd \/ NoInitrd \/ Unpack \/ Bootargs \/ Enter
  <2>1. pc \in {"initrd", "unpack", "bootargs", "enter"} /\ pc' \in {"unpack", "wait", "enter", "entered"}
    BY <1>18 DEF LeaveInitrd, MoveInitrd, NoInitrd, AtInitrd, Unpack, Bootargs, Enter
  <2> QED BY <1>1, <2>1, WhySame DEF WhyInv, Running
<1>19. CASE PrepNext
  <2>1. ~Chrp /\ pc' # "aborted"
    BY <1>19 DEF PrepNext, Relocate, LoadKernel, UnpackNowhere, UnpackKernel, MoveFromRecs, StaysThere, Bootinfo, EnterPrep,
       PlaceInv, Chrp, Running
  <2> QED BY <1>3, <2>1
<1>20. CASE UNCHANGED allVars
  <2>1. UNCHANGED <<pc, image, machine, typed, claimed, at>>
    BY <1>20 DEF allVars, vars, editing, store
  <2> QED BY <2>1, WhySame DEF WhyInv
<1> QED BY <1>6, <1>7, <1>8, <1>9, <1>10, <1>11, <1>12, <1>13, <1>14, <1>15, <1>16, <1>17, <1>18, <1>19, <1>20
        DEF Next, MakeImage, ChrpNext

(* GivesUpForReason: where tree and table know the processors, the         *)
(* wrapper stops only for what is missing or does not fit: half an image,  *)
(* another processor, no memory above where try_claim begins, ^c; and a    *)
(* known processor is never given the other's kernel.                      *)
THEOREM StopsForReason == ProcessorsTold => (Spec => []GivesUpForReason)
<1> SUFFICES ASSUME ProcessorsTold PROVE Spec => []GivesUpForReason
  OBVIOUS
<1>1. Made => WhyInv
  <2> SUFFICES ASSUME Made PROVE WhyInv
    OBVIOUS
  <2>1. pc = "linked" /\ at.kernel = Nowhere
    BY DEF Made, Init
  <2> QED BY <2>1 DEF WhyInv, Running
<1>2. IInv /\ WhyInv /\ [Next]_allVars => WhyInv'
  BY WhyStep
<1>3. IInv /\ WhyInv => GivesUpForReason
  <2> SUFFICES ASSUME PlaceInv, WhyInv PROVE GivesUpForReason
    BY DEF IInv
  <2>1. ASSUME pc = "entered", Chrp, machine.known PROVE machine.bits = image.class
    <3>1. CpuFits
      BY <2>1 DEF WhyInv, Running
    <3> QED BY <2>1, <3>1, CpuTold
  <2>2. pc = "aborted" => Reason
    BY DEF WhyInv
  <2> QED BY <2>1, <2>2 DEF GivesUpForReason, Reason
<1> QED BY Invariant, <1>1, <1>2, <1>3, PTL DEF Spec
=============================================================================
