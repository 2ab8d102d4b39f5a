----------------------------- MODULE ChrpWrapper -----------------------------
(***************************************************************************)
(* chrp/main.c: the wrapper for Open Firmware machines.  It runs where     *)
(* firmware put it, claims memory for the kernel and, when it is not far   *)
(* enough up, for the ramdisk, unpacks and enters the kernel, which moves  *)
(* itself to address 0.                                                    *)
(***************************************************************************)
EXTENDS ZImage, CpuTable

CONSTANTS
  RAM_END,     (* where try_claim gives up *)
  HighBase, LowBase,   (* where it begins: 32 MB, and 5 MB with the old firmware *)
  Extra        (* the 3 MB for the device tree *)

(* What firmware uses without claiming it lies below where the search      *)
(* begins, and no part of a kernel that is loaded is left out of its size. *)
ASSUME ChrpAssumption ==
  /\ {RAM_END, HighBase, LowBase, Extra} \subseteq Nat
  /\ \A i \in Images : i.kind = "chrp" => (IF i.gz THEN i.size ELSE i.z) <= i.memsize
  /\ \A m \in Machines : m.kind = "chrp" =>
       /\ m.load = Nowhere /\ m.busy \subseteq Nat
       /\ \A b \in m.busy : b \in m.claimed \/ b < IF m.needsMap THEN LowBase ELSE HighBase

-----------------------------------------------------------------------------
(* Plausible errors in the definitions below. *)
Stays_Always == TRUE
Base_Low == LowBase                                        (* on any firmware *)
Tries_Once(n) == {a \in {at.base} : Free(claimed, a, n)}   (* no second address *)

-----------------------------------------------------------------------------
Base == IF machine.needsMap THEN LowBase ELSE HighBase

Md5Right ==
  image.md5 => Holds(mem, Start(image), image.z, IF image.gz THEN "z" ELSE "kernel")
               /\ Holds(mem, RdStart(image), image.rd, "rd")

(* The memory of the image may not be claimed. *)
CheckMd5 ==
  /\ pc = "md5" /\ Md5Right /\ pc' = "cpu"
  /\ claimed' = claimed \cup IF Free(claimed, image.link, End(image) - image.link) THEN Image(image) ELSE {}
  /\ at' = [at EXCEPT !.base = Base]
  /\ UNCHANGED <<image, machine, file, calls, editing, mem, told>>

Corrupted == pc = "md5" /\ ~Md5Right /\ Abort

(* "must be a dream", or a kernel for another processor; 0 is one that is  *)
(* not in the table and has no 64-bit property.                            *)
CpuFits ==
  /\ BootCpu(machine.nodes) # 0
  /\ CpuType(machine.nodes, machine.pvr) \in {0, image.class}
NoCpu == pc = "cpu" /\ ~CpuFits /\ Abort

(* try_claim *)
Tries(n) == {a \in at.base..RAM_END - 1 : Free(claimed, a, n)}

First(S) == CHOOSE a \in S : \A b \in S : a <= b

Memsize == image.memsize + Extra
NoRoom == pc = "cpu" /\ CpuFits /\ Tries(Memsize) = {} /\ Abort

ClaimKernel ==
  /\ pc = "cpu" /\ CpuFits /\ pc' = "initrd"
  /\ \E S \in {Tries(Memsize)} :
       /\ S # {}
       /\ at' = [at EXCEPT !.kernel = First(S), !.base = First(S) + Memsize]
       /\ claimed' = claimed \cup First(S)..First(S) + Memsize - 1
  /\ UNCHANGED <<image, machine, file, calls, editing, mem, told>>

(* The kernel moves itself to 0: a ramdisk that is higher can stay. *)
Stays == Memsize < RdStart(image)

AtInitrd == pc = "initrd" /\ machine.kind = "chrp"

LeaveInitrd ==
  /\ AtInitrd /\ image.rd > 0 /\ Stays /\ pc' = "unpack"
  /\ told' = [told EXCEPT !.rd = <<RdStart(image), image.rd>>]
  /\ UNCHANGED <<image, machine, file, calls, editing, store, at>>

MoveInitrd ==
  /\ AtInitrd /\ image.rd > 0 /\ ~Stays /\ pc' = "unpack"
  /\ \E S \in {Tries(image.rd)} :
       /\ S # {}
       /\ claimed' = claimed \cup First(S)..First(S) + image.rd - 1
       /\ mem' = MemMove(mem, First(S), RdStart(image), image.rd)
       /\ told' = [told EXCEPT !.rd = <<First(S), image.rd>>]
  /\ UNCHANGED <<image, machine, file, calls, editing, at>>

NoRoomForInitrd == AtInitrd /\ image.rd > 0 /\ ~Stays /\ Tries(image.rd) = {} /\ Abort

(* What came in r3 and r4 is passed on. *)
NoInitrd ==
  /\ AtInitrd /\ image.rd = 0 /\ pc' = "unpack"
  /\ UNCHANGED <<image, machine, file, calls, editing, store, at, told>>

Unpack ==
  /\ pc = "unpack" /\ machine.kind = "chrp"
  /\ mem' = IF image.gz THEN Gunzip(mem, at.kernel, Memsize, Start(image))
            ELSE MemMove(mem, at.kernel, Start(image), image.z)
  /\ pc' = IF Preferred THEN "wait" ELSE "enter"
  /\ UNCHANGED <<image, machine, file, calls, editing, claimed, at, told>>

Bootargs ==
  /\ pc = "bootargs" /\ pc' = "enter" /\ told' = [told EXCEPT !.args = line]
  /\ UNCHANGED <<image, machine, file, calls, editing, store, at>>

Enter ==
  /\ pc = "enter" /\ pc' = "entered"
  /\ UNCHANGED <<image, machine, file, calls, editing, store, at, told>>

ChrpNext ==
  \/ CheckMd5 \/ Corrupted \/ NoCpu \/ NoRoom \/ ClaimKernel
  \/ LeaveInitrd \/ MoveInitrd \/ NoRoomForInitrd \/ NoInitrd \/ Unpack \/ Bootargs \/ Enter
=============================================================================
