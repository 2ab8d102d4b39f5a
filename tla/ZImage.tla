------------------------------- MODULE ZImage -------------------------------
(***************************************************************************)
(* What the wrappers of bootheader/ share: an image that make_zimage_*.sh  *)
(* makes, whose built-in command line mkzimage_cmdline.c changes, in the   *)
(* memory it is loaded to; claiming memory, unpacking (common/gunzip.c)    *)
(* and the line that can be edited (common/get_cmdline.c).                 *)
(*                                                                         *)
(* Memory is counted in blocks, and a block holds a block of something:    *)
(*   "z" and "rd"    the kernel and the ramdisk attached to the image      *)
(*   "kernel"        the kernel, unpacked                                  *)
(*   "code", "bss"   the wrapper                                           *)
(*   "busy"          what firmware still needs, claimed or not             *)
(* A character of the line is a member of Strings' sequences; what is on   *)
(* the screen is left out.                                                 *)
(***************************************************************************)
EXTENDS Integers, SequencesExt

CONSTANTS
  Images,     (* [link, z, rd, gz, md5, size, memsize, class, head, note]: what was linked *)
  Machines,   (* firmware, memory and processor *)
  Strings,    (* for mkzimage_cmdline -s *)
  Typed,      (* the characters and control keys of the console *)
  LineSize,   (* of _builtin_cmd_line.string *)
  MaxCalls,   (* of mkzimage_cmdline *)
  Page,       (* units in a page, for iSeries *)
  Header      (* ElfHeaderSize, in units *)

Nowhere == -1

ASSUME ZImageAssumption ==
  /\ {LineSize, Page} \subseteq Nat \ {0} /\ Header \in Nat /\ Strings \subseteq Seq(Typed)
  /\ \A i \in Images :
       /\ i.kind \in {"chrp", "prep", "iseries"} /\ {i.gz, i.md5} \subseteq BOOLEAN
       /\ {i.link, i.z, i.rd, i.size, i.memsize, i.head.ph, i.head.ps, i.head.n} \subseteq Nat
       /\ i.head.headers \in Seq([type : STRING, offset : Nat, size : Nat])
       /\ i.kind = "iseries" => ~i.gz /\ {i.map, i.naca} \subseteq Nat
  /\ \A m \in Machines :
       /\ m.load \in Nat \cup {Nowhere} /\ m.loads \in Nat \ {0}
       /\ m.kind = "iseries" => m.disk \in Nat
       /\ {m.top, m.memory} \subseteq Nat /\ m.memory <= m.top + 1

VARIABLES
  pc, image, machine,
  file,       (* the image: _builtin_cmd_line is [prefer, string]; the rest is of the last step *)
  calls,      (* of mkzimage_cmdline so far *)
  line,       (* _builtin_cmd_line.string in memory *)
  escape,     (* of get_cmdline *)
  typed,      (* somebody pressed a key *)
  mem, claimed,
  at,         (* addresses and sizes the wrapper keeps *)
  told        (* what the kernel is given *)

store   == <<mem, claimed>>
editing == <<line, escape, typed>>
vars    == <<pc, image, machine, file, calls, editing, store, at, told>>

Nothing == <<"free", 0>>

Start(i)   == i.link + 1                    (* _vmlinuz_start: after the code *)
RdStart(i) == Start(i) + i.z
RdEnd(i)   == RdStart(i) + i.rd
End(i)     == RdEnd(i) + 1                  (* _end: after the bss *)
Image(i)   == i.link .. End(i) - 1

Block(i, a) ==
  CASE a = i.link -> <<"code", 0>>
    [] a \in Start(i)..RdStart(i) - 1 -> <<IF i.gz THEN "z" ELSE "kernel", a - Start(i)>>
    [] a \in RdStart(i)..RdEnd(i) - 1 -> <<"rd", a - RdStart(i)>>
    [] OTHER -> <<"bss", 0>>

Write(m, dst, n, F(_)) == [a \in DOMAIN m |-> IF a \in dst..dst + n - 1 THEN F(a - dst) ELSE m[a]]
MemMove(m, dst, src, n) == Write(m, dst, n, LAMBDA k : m[src + k])
Holds(m, a, n, what) == \A k \in 0..n - 1 : m[a + k] = <<what, k>>

-----------------------------------------------------------------------------
(* Plausible errors in the definitions below. *)
Preferred_NonZero == TRUE                       (* the character '0' is not the number 0 *)
-----------------------------------------------------------------------------

Preferred == file.prefer = "1"

Cut(s) == IF Len(s) < LineSize THEN s ELSE SubSeq(s, 1, LineSize - 1)

LoadAt == IF machine.load = Nowhere THEN image.link ELSE machine.load

(* What ld leaves, or on iSeries what comes from the kernel's makefile. *)
Init ==
  /\ image \in Images /\ machine \in Machines /\ machine.kind = image.kind
  /\ pc = "linked" /\ calls = 0
  /\ file = [prefer |-> "0", string |-> <<>>, headers |-> image.head.headers, length |-> Nowhere,
             blocks |-> <<>>, naca |-> <<0, 0>>, sysmap |-> <<0, 0>>]
  /\ machine.claimed \cup machine.busy \subseteq 0..image.link - 1 \cup End(image)..machine.top
  /\ {End(image), LoadAt + End(image) - image.link} \subseteq 0..machine.memory
  /\ line = <<>> /\ escape = 0 /\ typed = FALSE
  /\ mem = <<>> /\ claimed = {}
  /\ at = [kernel |-> Nowhere, rd |-> Nowhere, base |-> Nowhere, rec |-> Nowhere, size |-> 0]
  /\ told = [rd |-> <<Nowhere, 0>>, args |-> <<"of the firmware">>, memory |-> 0, smp |-> FALSE]

(* main of mkzimage_cmdline.c *)
MkzimageCmdline ==
  /\ pc = "made" /\ machine.kind # "iseries" /\ calls < MaxCalls /\ calls' = calls + 1
  /\ \E activate \in {"no", "0", "1"}, clear \in BOOLEAN, set \in Strings \cup {<<"no">>} :
       file' = [file EXCEPT !.prefer = IF activate = "no" THEN @ ELSE activate,
                            !.string = IF set # <<"no">> THEN Cut(set) ELSE IF clear THEN <<>> ELSE @]
  /\ UNCHANGED <<pc, image, machine, editing, store, at, told>>

(* Firmware puts the image, or only its beginning, where it was linked or, *)
(* on PReP, somewhere else and as much as the boot record says, and may    *)
(* claim the memory for it.                                                *)
Loads == IF file.length = Nowhere THEN machine.loads ELSE file.length - 1

Load ==
  /\ pc = "made" /\ machine.kind # "iseries"
  /\ mem' = [a \in 0..machine.top |->
               IF a - LoadAt + image.link \in Image(image) /\ (a < LoadAt + Loads \/ a = LoadAt + End(image) - image.link - 1)
               THEN Block(image, a - LoadAt + image.link)
               ELSE IF a \in machine.busy THEN <<"busy", a>> ELSE Nothing]
  /\ claimed' \in {machine.claimed, machine.claimed \cup {LoadAt + a - image.link : a \in Image(image)}}
  /\ line' = file.string
  /\ pc' = IF machine.kind = "chrp" THEN "md5" ELSE "relocate"
  /\ UNCHANGED <<image, machine, file, calls, escape, typed, at, told>>

-----------------------------------------------------------------------------
Free(c, a, n) == a..a + n - 1 \subseteq (0..machine.memory - 1) \ c

(* gunzip: as much as fits of what src holds; without all of it, nothing   *)
(* that could be run.                                                      *)
Gunzip(m, dst, room, src) ==
  LET whole == Holds(m, src, image.z, "z")
      n == IF image.size < room THEN image.size ELSE room
  IN Write(m, dst, n, LAMBDA k : <<IF whole THEN "kernel" ELSE "rubbish", k>>)

Abort == pc' = "aborted" /\ UNCHANGED <<image, machine, file, calls, editing, store, at, told>>

(* What inflate, on CHRP already for the ELF header, may say of half a     *)
(* kernel; or it takes that for a good one.                                *)
InflateFails == pc \in {"cpu", "unpack"} /\ image.gz /\ ~Holds(mem, Start(image), image.z, "z") /\ Abort

-----------------------------------------------------------------------------
(* get_cmdline *)

After == IF machine.kind = "chrp" THEN "bootargs" ELSE "unpack"
Leave == pc' = After /\ UNCHANGED <<line, escape>>

Timeout ==
  /\ pc = "wait" /\ Leave
  /\ UNCHANGED <<image, machine, file, calls, typed, store, at, told>>

(* What is left of s when ^w has taken the last word and the blanks behind *)
(* it, at least one character.                                             *)
DropWord(s) ==
  LET Ends(n) == n < Len(s) /\ (n = 0 \/ (s[n] = " " /\ s[n + 1] # " "))
  IN IF s = <<>> THEN s ELSE SubSeq(s, 1, CHOOSE n \in 0..Len(s) : Ends(n) /\ \A k \in n + 1..Len(s) : ~Ends(k))

(* A key that is no part of an escape sequence. *)
Plain(c) ==
  /\ escape' = escape
  /\ \/ c = "^m" /\ pc' = After /\ line' = line
     \/ c = "^c" /\ pc' = "aborted" /\ line' = line
     \/ c = "^h" /\ pc' = "edit" /\ line' = IF line = <<>> THEN line ELSE Front(line)
     \/ c = "^u" /\ pc' = "edit" /\ line' = <<>>
     \/ c = "^w" /\ pc' = "edit" /\ line' = DropWord(line)
     \/ c \notin {"^m", "^c", "^h", "^u", "^w"} /\ pc' = "edit"
        /\ line' = IF Len(line) < LineSize - 1 THEN Append(line, c) ELSE line

Key ==
  /\ pc \in {"wait", "edit"} /\ typed' = TRUE
  /\ \E c \in Typed :
       \/ c = "esc" /\ escape' = 1 /\ pc' = "edit" /\ line' = line
       \/ c # "esc" /\ c = "[" /\ escape = 1 /\ escape' = 2 /\ pc' = "edit" /\ line' = line
       \/ c # "esc" /\ escape = 2 /\ escape' = 0 /\ pc' = "edit" /\ line' = line
       \/ c # "esc" /\ escape # 2 /\ ~(c = "[" /\ escape = 1) /\ Plain(c)
  /\ UNCHANGED <<image, machine, file, calls, store, at, told>>

-----------------------------------------------------------------------------
(***************************************************************************)
(* The last step of make_zimage_*.sh: utils/addnote.c gives an image for   *)
(* CHRP the notes its firmware looks for, mkprep.c turns one for PReP into *)
(* a boot partition, iseries-addRamDisk.c and iseries-addSystemMap.c put a *)
(* ramdisk or the symbols behind the kernel, which the hypervisor of an    *)
(* iSeries enters without a wrapper.                                       *)
(*                                                                         *)
(* The beginning of a CHRP image is counted in words of 4 bytes, an image  *)
(* for PReP in blocks as in memory, the boot record being one, a kernel    *)
(* for iSeries in units that are parts of a page.  Files that do not open  *)
(* and writing over a file that stops halfway are left out.                *)
(***************************************************************************)

Chrp == machine.kind = "chrp"
Prep == machine.kind = "prep"
Iseries == machine.kind = "iseries"

RoundUp(n) == ((n + Page - 1) \div Page) * Page

Finish == pc' = "made" /\ UNCHANGED <<image, machine, calls, editing, store, at, told>>
Fails == pc = "linked" /\ Abort

-----------------------------------------------------------------------------
(* addnote *)

nnote == 3 + 2 + 6       (* "PowerPC" and descr *)
nnote2 == 3 + 6 + 8      (* "IBM,RPA-Client-Config" and rpanote *)

head == image.head
np == Len(head.headers)
TableEnd == head.ph + np * head.ps

(* Plausible errors in the definitions below. *)
Room_Notes == nnote + nnote2                      (* two more headers forgotten *)
Sectors_Body == image.z + image.rd + 1            (* without the boot record *)
OffsetEnd_Kernel == RoundUp(image.z)              (* what is not in the file forgotten *)

(* What must be zero: two more headers and the notes. *)
Room == 2 * head.ps + nnote + nnote2

HasNote == \E i \in 1..np : head.headers[i].type = "note"
Fits == TableEnd + Room <= head.n
Zero == TableEnd..TableEnd + Room - 1 \cap head.taken = {}

(* There is one already, of whatever kind: that is no error. *)
NoteThere ==
  /\ pc = "linked" /\ Chrp /\ (~image.note \/ (Fits /\ HasNote)) /\ Finish
  /\ UNCHANGED file

NoSpace == Chrp /\ image.note /\ (~Fits \/ (~HasNote /\ ~Zero)) /\ Fails

AddNote ==
  /\ pc = "linked" /\ Chrp /\ image.note /\ Fits /\ ~HasNote /\ Zero /\ Finish
  /\ \E ns \in {TableEnd + 2 * head.ps} :
       file' = [file EXCEPT !.headers = @ \o <<[type |-> "note", offset |-> ns, size |-> nnote],
                                              [type |-> "note", offset |-> ns + nnote, size |-> nnote2]>>]

-----------------------------------------------------------------------------
(* mkprep: the boot record says how much follows it, itself included.  The *)
(* bss is not in the file.                                                 *)
CopyImage == image.z + image.rd + 1
Sectors == CopyImage + 1

Mkprep ==
  /\ pc = "linked" /\ Prep /\ Finish
  /\ file' = [file EXCEPT !.length = Sectors]

-----------------------------------------------------------------------------
(* iseries-addRamDisk and iseries-addSystemMap *)

(* get4k and put4k: whole pages, and what does not go to the disk is lost  *)
(* without a word.                                                         *)
Pages(what, n, total) == [k \in 1..total |-> IF k <= n THEN <<what, k - 1>> ELSE <<"zero", 0>>]
OnDisk(s) == SubSeq(s, 1, IF Len(s) < machine.disk THEN Len(s) ELSE machine.disk)

Behind(end, what, n, total) ==
  Pages("header", Header, Header) \o Pages("kernel", image.z, end) \o Pages(what, n, total)

(* A page is added even where nothing is left over. *)
Total(n) == n + Page - (n % Page)

(* check_elf64 *)
IsElf64 == image.elf

(* What is behind the kernel begins where that ends in memory, or in the   *)
(* file if that goes further.                                              *)
OffsetEnd ==
  LET end == RoundUp(image.memsize) IN IF end < RoundUp(image.z) THEN RoundUp(image.z) ELSE end

WithRamDisk == Behind(OffsetEnd, "rd", image.rd, Total(image.rd))

NotKernel == Iseries /\ image.rd > 0 /\ ~IsElf64 /\ Fails

AddRamDisk ==
  /\ pc = "linked" /\ Iseries /\ image.rd > 0 /\ IsElf64 /\ pc' = "attached"
  /\ file' = [file EXCEPT !.blocks = OnDisk(WithRamDisk)]
  /\ UNCHANGED <<image, machine, calls, editing, store, at, told>>

(* hvReleaseData and the naca are read back from what was written. *)
ReadsBack(offset) == Header + offset < Len(file.blocks)
NacaFits == ReadsBack(0) /\ ReadsBack(image.naca) /\ image.eye /\ ~image.attached

Fixup ==
  /\ pc = "attached" /\ NacaFits /\ Finish
  /\ file' = [file EXCEPT !.naca = <<OffsetEnd, Total(image.rd) \div Page>>]

Death == pc = "attached" /\ ~NacaFits /\ Abort

(* _end, the end in memory, in the last line of System.map.  The kernel is *)
(* told that the map is there; but the padding is of whole pages, and an   *)
(* _end within a page has the map in the file from the page's beginning.   *)
NoEnd == Iseries /\ image.rd = 0 /\ ~image.ends /\ Fails

MapStart == IF image.memsize \div Page < RoundUp(image.z) \div Page THEN RoundUp(image.z) ELSE image.memsize
MapAt == (MapStart \div Page) * Page

AddSystemMap ==
  /\ pc = "linked" /\ Iseries /\ image.rd = 0 /\ image.ends /\ Finish
  /\ file' = [file EXCEPT !.blocks = OnDisk(Behind(MapAt, "map", image.map, Total(image.map))),
                          !.sysmap = <<MapStart, MapStart + image.map>>]

(* The hypervisor: what follows the header, at 0. *)
EnterIseries ==
  /\ pc = "made" /\ Iseries /\ pc' = "entered"
  /\ mem' = [a \in 0..machine.top |->
               IF Header + a + 1 \in DOMAIN file.blocks THEN file.blocks[Header + a + 1] ELSE Nothing]
  /\ told' = [told EXCEPT !.rd = <<file.naca[1], file.naca[2] * Page>>]
  /\ UNCHANGED <<image, machine, file, calls, editing, claimed, at>>

MakeImage ==
  \/ NoteThere \/ NoSpace \/ AddNote \/ Mkprep
  \/ NotKernel \/ AddRamDisk \/ Fixup \/ Death \/ NoEnd \/ AddSystemMap \/ EnterIseries
=============================================================================
