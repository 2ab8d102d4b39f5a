----------------------------- MODULE PrepWrapper -----------------------------
(***************************************************************************)
(* prep/relocate.S and main.c: the wrapper for PReP machines.  It moves    *)
(* itself to where it was linked, unpacks the kernel below or, with Open   *)
(* Firmware, above itself, puts the records for the kernel a megabyte or   *)
(* two behind where the kernel is going to end, and moves the ramdisk out  *)
(* of their way.  Keyboard, screen, serial port and the reset of the       *)
(* Ethernet chip are left out.                                             *)
(***************************************************************************)
EXTENDS ZImage

CONSTANTS
  MB, VMLINUX_SIZE,   (* the latter is also where the image is linked *)
  RecBlocks,          (* what the records take *)
  Guess               (* memory when nobody tells *)

(* The kernel fits below the wrapper, its bss included. *)
ASSUME PrepAssumption ==
  /\ {MB, RecBlocks, VMLINUX_SIZE} \subseteq Nat \ {0}
  /\ \A i \in Images : i.kind = "prep" =>
       i.gz /\ i.link = VMLINUX_SIZE /\ i.size <= i.memsize /\ i.memsize <= VMLINUX_SIZE

VARIABLES buf, recs, held   (* vmlinux_buf, the list at birec, hold_residual->TotalMemory *)

prep == <<buf, recs, held>>

Align(a, s) == ((a + s - 1) \div s) * s

-----------------------------------------------------------------------------
(* Plausible errors in the definitions below. *)
Upwards_Never(dst, src) == FALSE      (* always from the start *)

-----------------------------------------------------------------------------
Size == End(image) - image.link
Upwards(dst, src) == dst > src

(* do_relocate: word by word, from the end when the image goes up.  What   *)
(* is copied over what was not read yet comes around again.                *)
Relocated(m, dst, src, n) ==
  LET d == IF dst > src THEN dst - src ELSE src - dst
      from(k) == CASE dst = src -> k
                   [] Upwards(dst, src) -> IF dst > src THEN k ELSE n - 1 - ((n - 1 - k) % d)
                   [] ~Upwards(dst, src) /\ dst # src -> IF dst > src THEN k % d ELSE k
  IN Write(m, dst, n, LAMBDA k : m[src + from(k)])

(* The code that does it is copied out of its way first. *)
Safe == IF LoadAt > image.link THEN LoadAt + Size ELSE End(image)

Relocate ==
  /\ pc = "relocate" /\ pc' = "firmware"
  /\ mem' = IF LoadAt = image.link THEN mem
            ELSE Relocated(Write(mem, Safe, 1, LAMBDA k : <<"code", 0>>), image.link, LoadAt, Size)
  /\ UNCHANGED <<image, machine, file, calls, editing, claimed, at, told, prep>>

(* From where the image was loaded to the end of where it is now.          *)
WithOwn(c) ==
  IF Free(c, LoadAt, End(image) - LoadAt) THEN c \cup LoadAt..End(image) - 1 ELSE c

(* load_kernel.  The code that asks firmware for memory takes any answer.  *)
LoadKernel ==
  /\ pc = "firmware" /\ pc' = "wait" /\ recs' = <<>> /\ held' = machine.residual
  /\ \E want \in {Align(End(image), MB)}, c \in {WithOwn(claimed)} :
       \/ ~machine.of /\ buf' = 0 /\ claimed' = claimed
       \/ machine.of /\ Free(c, want, VMLINUX_SIZE) /\ buf' = want
          /\ claimed' = c \cup want..want + VMLINUX_SIZE - 1
       \/ machine.of /\ ~Free(c, want, VMLINUX_SIZE) /\ buf' = Nowhere /\ claimed' = c
  /\ UNCHANGED <<image, machine, file, calls, editing, mem, at, told>>

(* mpc10x_get_mem_size: of each bank that is enabled its end, which counts *)
(* in the bank, less its start.                                            *)
Banks(banks) == FoldSeq(LAMBDA b, sum : sum + IF b.on THEN b.end - b.start + 1 ELSE 0, 0, banks)

(* get_mem_size *)
MemSize ==
  CASE machine.banks # <<>> -> Banks(machine.banks)
    [] machine.banks = <<>> /\ held # 0 -> held
    [] machine.banks = <<>> /\ held = 0 /\ machine.of /\ machine.reg # 0 -> machine.reg
    [] OTHER -> Guess

(* With nowhere to go the kernel is unpacked over the end of the address   *)
(* space.                                                                  *)
UnpackNowhere ==
  /\ pc = "unpack" /\ machine.kind = "prep" /\ buf = Nowhere /\ pc' = "crashed"
  /\ UNCHANGED <<image, machine, file, calls, editing, store, at, told, prep>>

Unpacked == IF image.size < VMLINUX_SIZE THEN image.size ELSE VMLINUX_SIZE

UnpackKernel ==
  /\ pc = "unpack" /\ machine.kind = "prep" /\ buf # Nowhere /\ pc' = "initrd"
  /\ mem' = Gunzip(mem, buf, VMLINUX_SIZE, Start(image))
  /\ at' = [at EXCEPT !.size = Unpacked, !.rec = Align(Unpacked + MB - 1, MB), !.rd = RdStart(image)]
  /\ UNCHANGED <<image, machine, file, calls, editing, claimed, told, prep>>

RecsInside == at.rec > at.rd /\ at.rd + image.rd > at.rec

Loc == Align(at.size + 2 * MB - 1, 2 * MB)

MoveFromRecs ==
  /\ pc = "initrd" /\ machine.kind = "prep" /\ image.rd > 0 /\ RecsInside /\ pc' = "records"
  /\ mem' = MemMove(mem, Loc, RdStart(image), image.rd) /\ at' = [at EXCEPT !.rd = Loc]
  /\ UNCHANGED <<image, machine, file, calls, editing, claimed, told, prep>>

StaysThere ==
  /\ pc = "initrd" /\ machine.kind = "prep" /\ ~(image.rd > 0 /\ RecsInside) /\ pc' = "records"
  /\ UNCHANGED <<image, machine, file, calls, editing, store, at, told, prep>>

(* bootinfo_append: over the last record, with a new last one behind it.   *)
RecAppend(list, rec) == Front(list) \o <<rec, [tag |-> "LAST"]>>
BootinfoInit == <<[tag |-> "FIRST"], [tag |-> "LAST"]>>

Bootinfo ==
  /\ pc = "records" /\ pc' = "moving"
  /\ \E a \in {IF MemSize = 0 THEN BootinfoInit ELSE RecAppend(BootinfoInit, [tag |-> "MEMSIZE", data |-> MemSize])} :
       \E b \in {RecAppend(a, [tag |-> "CMD_LINE", data |-> line])} :
         recs' = IF image.rd = 0 THEN b ELSE RecAppend(b, [tag |-> "INITRD", data |-> <<at.rd, image.rd>>])
  /\ mem' = Write(mem, at.rec, RecBlocks, LAMBDA k : <<"recs", k>>)
  /\ UNCHANGED <<image, machine, file, calls, editing, claimed, at, told, buf, held>>

(* What the kernel finds in a list of records. *)
Find(list, tag, none) ==
  LET found == {k \in DOMAIN list : list[k].tag = tag} IN IF found = {} THEN none ELSE list[CHOOSE k \in found : TRUE].data

(* On a Motorola board with several processors the second is parked where  *)
(* the kernel will find it.                                                *)
EnterPrep ==
  /\ pc = "moving" /\ pc' = "entered"
  /\ mem' = IF buf = 0 THEN mem ELSE MemMove(mem, 0, buf, at.size)
  /\ told' = [rd |-> Find(recs, "INITRD", <<Nowhere, 0>>), args |-> Find(recs, "CMD_LINE", <<>>),
              memory |-> Find(recs, "MEMSIZE", 0), smp |-> machine.bug /\ machine.cpus > 1]
  /\ UNCHANGED <<image, machine, file, calls, editing, claimed, at, prep>>

PrepNext ==
  \/ Relocate \/ LoadKernel \/ UnpackNowhere \/ UnpackKernel \/ MoveFromRecs \/ StaysThere
  \/ Bootinfo \/ EnterPrep
=============================================================================
