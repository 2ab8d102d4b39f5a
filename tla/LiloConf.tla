------------------------------- MODULE LiloConf -------------------------------
(***************************************************************************)
(* What lilo makes of /etc/lilo.conf: parse_config_file and                *)
(* check_config_file of lilo.new, and of each installer the part that      *)
(* decides which files are copied and under which paths the configuration  *)
(* of the loader names them.                                               *)
(*                                                                         *)
(* A line is a record of an option and its value.  place says of each file *)
(* or device where it is: on which partition, whether firmware has a path  *)
(* to it, whether yaboot reads that file system.  A partition is a disk    *)
(* and a number; number 0 is the whole disk.                               *)
(***************************************************************************)
EXTENDS Integers, Sequences, FiniteSets

Nowhere == <<0, 0>>
Mac == {"macos", "macosx"}

GlobalOnly  == {"boot", "clone", "activate", "force_fat", "no_os_chooser", "default"}
SectionOnly == {"copy", "optional", "label"}

NoLines ==
  [ok |-> TRUE, boot |-> <<>>, clone |-> <<>>, activate |-> FALSE, force_fat |-> FALSE,
   no_os_chooser |-> FALSE, default |-> "", root |-> "", append |-> "", initrd |-> "",
   sections |-> <<>>]

Section(l) ==
  [file |-> IF l.opt = "image" THEN l.val ELSE "", other |-> IF l.opt = "other" THEN l.val ELSE "",
   optional |-> IF l.opt = "image" THEN "no" ELSE "", copy |-> FALSE,
   label |-> "", root |-> "", append |-> "", initrd |-> ""]

Files(place) == {f \in DOMAIN place : place[f].kind = "file"}
Blocks(place) == {f \in DOMAIN place : place[f].kind = "block"}
Refuse(c) == [c EXCEPT !.ok = FALSE]

(* One turn of the loop in parse_config_file; error ends the script. *)
ReadLine(place, c, l) ==
  LET n == Len(c.sections)
      Set(v) == [c EXCEPT ![l.opt] = v]
      SetHere(v) == [c EXCEPT !.sections[n][l.opt] = v]
  IN IF ~c.ok THEN c
     ELSE IF l.opt \in IF n > 0 THEN GlobalOnly ELSE SectionOnly THEN Refuse(c)
     ELSE CASE l.opt = "boot" -> Set(Append(c.boot, l.val))
       [] l.opt \in {"clone", "default"} -> Set(l.val)
       [] l.opt \in {"activate", "force_fat", "no_os_chooser"} -> Set(TRUE)
       [] l.opt \in {"image", "other"} ->
            IF n > 0 /\ c.sections[n].file = "" /\ c.sections[n].other = "" THEN Refuse(c)
            ELSE [c EXCEPT !.sections = Append(@, Section(l))]
       [] l.opt = "copy" -> SetHere(TRUE)
       [] l.opt = "optional" -> SetHere("yes")
       [] l.opt = "label" -> SetHere(l.val)
       [] l.opt \in {"root", "append", "initrd"} ->
            IF n > 0 THEN SetHere(l.val)
            ELSE IF l.opt = "initrd" /\ l.val \notin Files(place) THEN Refuse(c)
            ELSE Set(l.val)
       [] l.opt = "sysmap" -> c
       [] OTHER -> Refuse(c)

(* What the first lines, as many as are asked for, come to. *)
Reading(place, lines) ==
  LET upto[n \in 0..Len(lines)] ==
        IF n = 0 THEN NoLines ELSE ReadLine(place, upto[n - 1], lines[n])
  IN upto

Parsed(place, lines) == Reading(place, lines)[Len(lines)]

(* A boot= line is needed, and one only, but for iSeries and Pegasos. *)
BootGiven(type, c) ==
  IF c.boot = <<>> THEN type = "pegasos"
  ELSE type \notin {"iseries", "pegasos"} => Len(c.boot) = 1

Absent(place, s) ==
  \/ s.file \notin Files(place) /\ ~(s.label = "macos" /\ s.other \in Blocks(place))
  \/ s.initrd # "" /\ s.initrd \notin Files(place)

Needed(c, s) == s.optional = "no" \/ s.label = c.default

(* An optional section whose files are not there is skipped from now on.   *)
Checked(place, type, c) ==
  IF \/ ~c.ok \/ ~BootGiven(type, c) \/ c.sections = <<>>
     \/ \E i \in DOMAIN c.sections : Absent(place, c.sections[i]) /\ Needed(c, c.sections[i])
  THEN Refuse(c)
  ELSE [c EXCEPT !.sections = [i \in DOMAIN @ |->
          IF Absent(place, @[i]) THEN [@[i] EXCEPT !.optional = "skip"] ELSE @[i]]]

Read(place, type, lines) == Checked(place, type, Parsed(place, lines))

Kernel(s) == s.other = "" /\ s.optional # "skip"
Offered(c) == {i \in DOMAIN c.sections : Kernel(c.sections[i])}
First(S) == CHOOSE i \in S : \A j \in S : i <= j
InOrder(S) == [n \in 1..Cardinality(S) |-> CHOOSE i \in S : Cardinality({j \in S : j <= i}) = n]
Or(own, global) == IF own # "" THEN own ELSE global

-----------------------------------------------------------------------------
(***************************************************************************)
(* Paths in the configuration of the loader: a name without a device, one  *)
(* on the device yaboot was read from, or the whole path.  A copy has a    *)
(* number, an original number 0.                                           *)
(***************************************************************************)
Copied(kind, i) == [form |-> "here", part |-> Nowhere, name |-> <<kind, i>>]
Original(form, part, f) == [form |-> form, part |-> part, name |-> <<f, 0>>]
NoFile == [form |-> "none", part |-> Nowhere, name |-> <<"", 0>>]
NoConf == [partition |-> 0, default |-> "", initrd |-> NoFile, entries |-> <<>>]

(* The entries of a configuration: paths maps the kind of a file and the   *)
(* number of its section to the path to write.                             *)
Entries(c, paths) ==
  LET entry(i) ==
        [label |-> c.sections[i].label, section |-> i, image |-> paths["vmlinux"][i],
         initrd |-> IF c.sections[i].initrd = "" THEN NoFile ELSE paths["initrd"][i]]
      order == InOrder(Offered(c))
  IN [n \in DOMAIN order |-> entry(order[n])]

(* The file a section names, the kernel or the ramdisk. *)
Named(c, kind, i) == IF kind = "vmlinux" THEN c.sections[i].file ELSE c.sections[i].initrd

Paths == {"vmlinux", "initrd"}

(* How yaboot, which was read from partition at, understands a path. *)
PartOf(conf, at, p) ==
  CASE p.form = "here" -> IF conf.partition = 0 THEN at ELSE <<at[1], conf.partition>>
    [] p.form = "device" -> <<at[1], p.part[2]>>
    [] OTHER -> p.part

(* Whether that leads to the file, of which copies are the copies on at. *)
Leads(place, conf, at, copies, p, f) ==
  IF p.name = <<f, 0>>
  THEN place[f].readable /\ PartOf(conf, at, p) = place[f].part
  ELSE PartOf(conf, at, p) = at /\ <<p.name, f>> \in copies

-----------------------------------------------------------------------------
(* CHRP *)

(* A path written without its device although it is not on partition=. *)
StripDevice_Always(part, disk, partnr, f) ==
  IF part[1] = disk THEN Original("here", Nowhere, f) ELSE Original("full", part, f)

(* strip_device_partnr *)
StripDevice(part, disk, partnr, f) ==
  CASE part = <<disk, partnr>> -> Original("here", Nowhere, f)
    [] part[1] = disk /\ part[2] # partnr -> Original("device", <<0, part[2]>>, f)
    [] OTHER -> Original("full", part, f)

OnIscsi(place, c) ==
  \E i \in Offered(c) : c.sections[i].label = c.default /\ place[c.sections[i].file].iscsi

MustCopy(place, c, f) == c.force_fat \/ ~place[f].named \/ ~place[f].readable

Copying(place, c) ==
  \/ \E i \in Offered(c) : \/ MustCopy(place, c, c.sections[i].file)
                           \/ c.sections[i].initrd # "" /\ MustCopy(place, c, c.sections[i].initrd)
  \/ c.initrd # "" /\ MustCopy(place, c, c.initrd)

(* partition=: that of the copies, else the one of /boot, / or /etc when it *)
(* is a primary one of the same disk.                                      *)
PartitionLine(place, c, boot) ==
  IF Copying(place, c) THEN boot[2]
  ELSE LET near == SelectSeq(<<"/boot", "/", "/etc">>,
                             LAMBDA d : place[d].part[1] = boot[1] /\ place[d].part[2] \in 1..4)
       IN IF near = <<>> THEN 0 ELSE place[near[1]].part[2]

ChrpConf(place, c, boot) ==
  LET nr == PartitionLine(place, c, boot)
      before(kind, i) ==          (* vmlinux_nr, initrd_nr *)
        {j \in Offered(c) : j <= i /\ Named(c, kind, j) # "" /\ MustCopy(place, c, Named(c, kind, j))}
      path(kind, i) ==
        LET f == Named(c, kind, i) IN
        IF MustCopy(place, c, f) THEN Copied(kind, Cardinality(before(kind, i)))
        ELSE StripDevice(place[f].part, boot[1], nr, f)
      initrds == before("initrd", Len(c.sections))
  IN [partition |-> nr, default |-> c.default, entries |-> Entries(c, [k \in Paths |-> [i \in Offered(c) |-> path(k, i)]]),
      initrd |-> CASE c.initrd = "" -> NoFile
                   [] c.initrd # "" /\ MustCopy(place, c, c.initrd) ->
                        Copied("initrd", Cardinality(initrds) + 1)
                   [] OTHER -> StripDevice(place[c.initrd].part, boot[1], nr, c.initrd)]

(* The only PReP or FAT16 partition of the disk, or its only FAT32 one.    *)
GuessChrp(parts, disk) ==
  LET of(kinds) == {p \in DOMAIN parts : p[1] = disk /\ parts[p].kind \in kinds}
      guess == IF of({"prep", "fat16"}) = {} THEN of({"fat32"}) ELSE of({"prep", "fat16"})
  IN IF Cardinality(guess) = 1 THEN CHOOSE p \in guess : TRUE ELSE Nowhere

(* /etc/yaboot.conf is on the boot disk, where yaboot looks for it. *)
EtcSeen(place, boot) ==
  /\ place["/etc"].part[1] = boot[1] /\ place["/etc"].part[2] \in 1..4
  /\ place["/etc"].readable

(* The copies of the default's kernel and ramdisk, and all others. *)
ChrpCopies(place, c) ==
  LET named == {i \in Offered(c) : c.sections[i].label = c.default}
      def == IF named # {} THEN named ELSE IF Offered(c) = {} THEN {} ELSE {First(Offered(c))}
      copied(i, f) == f # "" /\ MustCopy(place, c, f)
  IN {f \in {"vmlinux", "initrd", "vmlinux.old"} :
        CASE f = "vmlinux" -> \E i \in def : copied(i, c.sections[i].file)
          [] f = "initrd"  -> \E i \in def : copied(i, c.sections[i].initrd)
          [] OTHER -> \/ \E i \in Offered(c) \ def : \/ copied(i, c.sections[i].file)
                                                     \/ copied(i, c.sections[i].initrd)
                      \/ copied(0, c.initrd)}

ChrpJob(place, c, parts) ==
  LET asked == IF c.ok THEN c.boot[1] ELSE Nowhere
      boot  == IF c.ok /\ asked[2] = 0 THEN GuessChrp(parts, asked[1]) ELSE asked
      iscsi == c.ok /\ OnIscsi(place, c)
  IN [boot |-> boot, clones |-> c.clone, activate |-> c.activate, forcefat |-> c.force_fat,
      named |-> c.ok /\ \E i \in Offered(c) : c.sections[i].label = c.default,
      copies |-> IF ~c.ok \/ iscsi THEN {} ELSE ChrpCopies(place, c),
      iscsi |-> iscsi, builtin |-> c.ok /\ ~iscsi /\ ~EtcSeen(place, boot)]

-----------------------------------------------------------------------------
(* PowerMac: what firmware has no path to is copied; a ramdisk so found    *)
(* sets the flag after the path of its kernel has been chosen.             *)

ImageCopied(place, s) == s.copy \/ ~place[s.file].named
InitrdCopied(place, s) == ImageCopied(place, s) \/ ~place[s.initrd].named

(* The comment says first available, the loop takes an omitted one too. *)
NewWorldDefault(c) ==
  LET kernels == {i \in DOMAIN c.sections : c.sections[i].other = ""} IN
  IF c.default \notin Mac THEN c.default
  ELSE IF kernels = {} THEN "" ELSE c.sections[First(kernels)].label

NewWorldConf(place, c) ==
  LET disk == c.boot[1][1]
      path(kind, i) ==
        LET f == Named(c, kind, i) IN
        IF IF kind = "vmlinux" THEN ImageCopied(place, c.sections[i])
           ELSE InitrdCopied(place, c.sections[i])
        THEN Copied(kind, i)
        ELSE IF place[f].part[1] = disk THEN Original("device", <<0, place[f].part[2]>>, f)
        ELSE Original("full", place[f].part, f)
  IN [partition |-> 0, default |-> NewWorldDefault(c),
      entries |-> Entries(c, [k \in Paths |-> [i \in Offered(c) |-> path(k, i)]]),
      initrd |-> IF c.initrd = "" THEN NoFile ELSE Copied("initrd.def", 0)]

OldWorldConf(c) ==
  [partition |-> 0, default |-> c.default,
   entries |-> Entries(c, [k \in Paths |-> [i \in Offered(c) |-> Copied(k, i)]]),
   initrd |-> IF c.initrd = "" THEN NoFile ELSE Copied("initrd.def", 0)]

(* What the script that firmware runs starts by itself and on a key. *)
BootScript(c) ==
  LET others == {i \in DOMAIN c.sections : c.sections[i].other # ""}
      mac == IF others = {} THEN "" ELSE c.sections[First(others)].other
  IN IF c.no_os_chooser \/ others = {} THEN [alone |-> "yaboot", space |-> ""]
     ELSE IF c.default \in Mac THEN [alone |-> mac, space |-> "yaboot"]
     ELSE [alone |-> "yaboot", space |-> mac]

(* The path of the global ramdisk is not made one of the firmware. *)
PegasosConf(place, c) ==
  [partition |-> 0, default |-> c.default,
   entries |-> Entries(c, [k \in Paths |-> [i \in Offered(c) |->
                            Original("full", place[Named(c, k, i)].part, Named(c, k, i))]]),
   initrd |-> IF c.initrd = "" THEN NoFile ELSE Original("here", Nowhere, c.initrd)]

-----------------------------------------------------------------------------
(* PReP and iSeries have no loader: one kernel, with its ramdisk and       *)
(* command line.                                                           *)

NoImage == [kernel |-> "", initrd |-> "", root |-> "", append |-> ""]

Chosen(c) ==
  IF c.default = "" THEN {1} ELSE {i \in DOMAIN c.sections : c.sections[i].label = c.default}

(* Of two root= words the kernel takes the later, here the global one. *)
PrepImage(c) ==
  IF Chosen(c) = {} THEN NoImage
  ELSE LET s == c.sections[First(Chosen(c))] IN
       [kernel |-> s.file, initrd |-> Or(s.initrd, c.initrd), append |-> Or(s.append, c.append),
        root |-> Or(c.root, s.root)]

IseriesImage(c) ==
  IF Chosen(c) = {} THEN NoImage
  ELSE LET s == c.sections[First(Chosen(c))] IN
       [kernel |-> s.file, initrd |-> Or(s.initrd, c.initrd), append |-> Or(s.append, c.append),
        root |-> Or(s.root, c.root)]

==============================================================================
