------------------------------- MODULE Wrappers -------------------------------
(***************************************************************************)
(* An image from make_zimage_*.sh to the kernel: what is done to it, the   *)
(* command line that mkzimage_cmdline puts in, loading, and the wrapper of *)
(* the machine.                                                            *)
(***************************************************************************)
EXTENDS ChrpWrapper, PrepWrapper

allVars == <<vars, prep>>

Next ==
  \/ (MakeImage \/ MkzimageCmdline \/ Load \/ InflateFails \/ Timeout \/ Key \/ ChrpNext) /\ UNCHANGED prep
  \/ PrepNext

Made == Init /\ buf = 0 /\ recs = <<>> /\ held = 0

Spec == Made /\ [][Next]_allVars

-----------------------------------------------------------------------------
(* Where the kernel is entered, and what it takes once it is at 0. *)
Entry == IF Chrp THEN at.kernel ELSE 0
Loaded == IF image.gz THEN image.size ELSE image.z

(* The records stay below the image, which they do of a kernel that is a   *)
(* megabyte or two smaller than the space below the wrapper; or, where the *)
(* kernel was unpacked to 0, there is memory for them behind the image, or *)
(* they lie in the ramdisk and that can be moved behind the image.         *)
Clear ==
  \/ at.rec + RecBlocks <= image.link
  \/ /\ Prep /\ ~machine.of
     /\ \/ at.rec >= End(image) /\ at.rec + RecBlocks <= machine.memory
        \/ /\ RdStart(image) < at.rec /\ at.rec + RecBlocks <= RdEnd(image)
           /\ End(image) <= Loc /\ Loc + image.rd <= machine.memory

(* All of the image came to memory, or a missing part would be seen; on    *)
(* iSeries all of it came to the disk, and there is memory for it.         *)
Checked ==
  IF Iseries THEN Len(file.blocks) < machine.disk /\ Len(file.blocks) <= Header + machine.memory
  ELSE image.md5 \/ Prep \/ machine.loads >= RdEnd(image) - image.link

(* The new headers and the notes are in what addnote read, behind the      *)
(* headers there were, apart from each other and from everything else.     *)
NotesFit ==
  LET new == [i \in 1..2 |-> file.headers[np + i]]
      Table == TableEnd..TableEnd + 2 * head.ps - 1
      Area(i) == new[i].offset..new[i].offset + new[i].size - 1
  IN Len(file.headers) > np =>
       /\ SubSeq(file.headers, 1, np) = head.headers
       /\ Table \cup Area(1) \cup Area(2) \subseteq (TableEnd..head.n - 1) \ head.taken
       /\ Table \cap (Area(1) \cup Area(2)) = {} /\ Area(1) \cap Area(2) = {}

(* What addnote adds is where it is looked for.  When the kernel is        *)
(* entered it is whole, the ramdisk is whole where the kernel is told,     *)
(* neither the kernel in its last place nor the records are in it; so are  *)
(* the symbols behind a kernel for iSeries that ends with a page, and      *)
(* nothing but zeros follows the ramdisk there.                            *)
HandsOverWhole ==
  /\ NotesFit
  /\ pc = "entered" /\ Checked /\ (Prep => Clear) =>
    /\ Holds(mem, Entry, Loaded, "kernel")
    /\ image.rd > 0 => /\ told.rd[2] >= image.rd /\ Holds(mem, told.rd[1], image.rd, "rd")
                       /\ told.rd[1] >= image.memsize
                       /\ \A a \in told.rd[1] + image.rd..told.rd[1] + told.rd[2] - 1 : Iseries /\ mem[a] = <<"zero", 0>>
                       /\ Chrp => told.rd[1]..told.rd[1] + image.rd - 1 \subseteq claimed
    /\ Prep => Holds(mem, at.rec, RecBlocks, "recs") /\ at.rec >= image.size
    /\ Iseries /\ image.rd = 0 =>
         /\ file.sysmap[1] >= image.memsize
         /\ image.memsize % Page = 0 => Holds(mem, file.sysmap[1], file.sysmap[2] - file.sysmap[1], "map")

(* What firmware or the wrapper itself still needs is not written over     *)
(* before the kernel is entered.                                           *)
RunsOnIntact ==
  pc \notin {"linked", "attached", "made", "relocate", "aborted", "crashed"} /\ ~Iseries /\ (Prep => Clear) =>
    /\ Chrp => \A a \in machine.busy : mem[a] = <<"busy", a>>
    /\ pc # "md5" => mem[image.link] = <<"code", 0>> /\ mem[End(image) - 1] = <<"bss", 0>>

(* Nobody at the console: the kernel gets the line of the image where that *)
(* is wanted, and else what the firmware has.  No line, stored or typed,   *)
(* is longer than its place.                                               *)
LineOfImage ==
  /\ pc = "entered" /\ ~typed =>
       told.args = IF ~Prep /\ file.prefer # "1" THEN <<"of the firmware">> ELSE file.string
  /\ Len(line) < LineSize

(* No image is made only where the notes do not fit, or something is wrong *)
(* with the kernel, the symbols or the disk.                               *)
NotMade ==
  \/ Chrp /\ image.note /\ (~Fits \/ ~Zero)
  \/ Iseries /\ (~image.elf \/ ~image.eye \/ image.attached \/ ~image.ends \/ image.naca >= image.z
                 \/ machine.disk <= Header + image.naca)

(* For the kernel from where the search begins, for the ramdisk above that. *)
NoMemory ==
  \A a \in (IF at.kernel # Nowhere THEN at.kernel + image.memsize + Extra
            ELSE IF machine.needsMap THEN LowBase ELSE HighBase)..RAM_END - 1 :
    \E b \in a..a + (IF at.kernel = Nowhere THEN image.memsize + Extra ELSE image.rd) - 1 :
      b \in claimed \/ b >= machine.memory

(* The wrapper gives up only over a part of the image that is missing, a   *)
(* kernel that is really for another processor, a tree without one, ^c,    *)
(* and memory that is not to be had; and a processor that the tree or the  *)
(* table knows never gets the other's kernel.                              *)
GivesUpForReason ==
  /\ pc = "entered" /\ Chrp /\ machine.known => machine.bits = image.class
  /\ pc = "aborted" =>
    \/ typed \/ NotMade
    \/ machine.loads < End(image) - image.link
    \/ machine.bits # image.class
    \/ machine.nodes = <<>>
    \/ NoMemory
=============================================================================
