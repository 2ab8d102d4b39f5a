------------------------------ MODULE Installers ------------------------------
(***************************************************************************)
(* lilo on machines other than CHRP: lilo-pmac.lib, lilo-iseries.lib,      *)
(* running_on_prep and running_on_pegasos of lilo-chrp.lib, running_on_ps3 *)
(* and the end of lilo.new.  lilo.conf may have been changed between two   *)
(* runs, so that a run meets what another left behind.                     *)
(*                                                                         *)
(* Most commands here are not checked: missed says that one has failed in  *)
(* this run and nobody looked.  dd, hcopy, cp and mkzimage then leave what *)
(* was there, or nothing.                                                  *)
(***************************************************************************)
EXTENDS LiloConf

CONSTANTS
  Others,       (* machines: type, place, the lilo.conf files, what is there *)
  MaxInstalls   (* bound: runs of lilo *)

VARIABLES
  machine,
  conf,      (* lilo.conf as read in this run *)
  step,
  left,      (* boot= entries still to do *)
  medium,    (* what firmware, loader or hypervisor find at each of them *)
  known,     (* boot-device names the boot partition *)
  ended,     (* how the last run ended *)
  missed,
  installs

installVars == <<machine, conf, step, left, medium, known, ended, missed, installs>>

Place == machine.place
Boot == Head(left)

Empty ==
  [loader |-> FALSE, script |-> [alone |-> "", space |-> ""], cnf |-> FALSE,
   conf |-> NoConf, copies |-> {}, image |-> NoImage]

InstallInit ==
  /\ machine \in Others /\ medium = machine.medium
  /\ conf = NoLines /\ step = "idle" /\ left = <<>> /\ known = FALSE
  /\ ended = "never" /\ missed = FALSE /\ installs = 0

-----------------------------------------------------------------------------
(* A plausible error: an old yaboot.cnf, which yaboot finds first, is left. *)
Cleaned_KeepsCnf(m) == [m EXCEPT !.copies = {c \in @ : c[1][2] > 9}]

FirstStep ==
  [pmac_new |-> "mount", pmac_old |-> "mount", prep |-> "check", iseries |-> "image",
   pegasos |-> "copy", ps3 |-> "kboot"]

(* Pegasos looks at the first boot= only. *)
BootsOf(c) ==
  IF machine.type = "ps3" THEN <<"/etc/kboot.conf">>
  ELSE IF c.boot = <<>> THEN <<"/yaboot">>
  ELSE IF machine.type = "pegasos" THEN <<c.boot[1]>> ELSE c.boot

(* ps3 reads no lilo.conf. *)
Begin ==
  /\ step = "idle" /\ installs < MaxInstalls
  /\ \E lines \in machine.files :
       conf' = IF machine.type = "ps3" THEN NoLines ELSE Read(Place, machine.type, lines)
  /\ IF conf'.ok
     THEN step' = FirstStep[machine.type] /\ left' = BootsOf(conf') /\ ended' = "running"
     ELSE ended' = "error" /\ UNCHANGED <<step, left>>
  /\ installs' = installs + 1 /\ missed' = FALSE
  /\ UNCHANGED <<machine, medium, known>>

GoTo(there) == step' = there /\ UNCHANGED <<machine, conf, left, known, ended, installs>>

Stop ==                                                     (* error, exit 1 *)
  /\ step' = "idle" /\ ended' = "error"
  /\ UNCHANGED <<machine, conf, left, known, missed, installs>>

(* The next boot= entry, or the end of the script. *)
NextBoot ==
  /\ left' = Tail(left)
  /\ IF Tail(left) = <<>> THEN step' = "idle" /\ ended' = "done"
     ELSE step' = "image" /\ UNCHANGED ended
  /\ UNCHANGED <<machine, conf, known, installs>>

Leave(m) == medium' = [medium EXCEPT ![Boot] = m]

(* One of some commands nobody checks may fail: m is what they should      *)
(* leave, worse what there may be else.                                    *)
Unchecked(m, worse) ==
  \/ Leave(m) /\ UNCHANGED missed
  \/ \E w \in worse : Leave(w) /\ missed' = TRUE

-----------------------------------------------------------------------------
(* PowerMac *)

NewWorld == machine.type = "pmac_new"

(* A partition below a megabyte is formatted, and one that hmount refuses. *)
Mount ==
  /\ step = "mount"
  /\ Leave(Empty) \/ (~(NewWorld /\ machine.small) /\ UNCHANGED medium)
  /\ GoTo(IF NewWorld THEN "clean" ELSE "copy") /\ UNCHANGED missed

(* Still mounted, or locked, or hformat has failed. *)
MountFails == step = "mount" /\ (UNCHANGED medium \/ Leave(Empty)) /\ Stop

Cleaned(m) == [m EXCEPT !.cnf = FALSE, !.copies = {c \in @ : c[1][2] > 9}]

Clean ==
  /\ step = "clean"
  /\ Unchecked(Cleaned(medium[Boot]), {medium[Boot]})
  /\ GoTo("copy")

Put(old, new) == {c \in old : \A n \in new : n[1] # c[1]} \union new

NewWorldCopies ==
  LET s == conf.sections IN
     {<<<<"vmlinux", i>>, s[i].file>> : i \in {i \in Offered(conf) : ImageCopied(Place, s[i])}}
  \union {<<<<"initrd", i>>, s[i].initrd>> :
            i \in {i \in Offered(conf) : s[i].initrd # "" /\ InitrdCopied(Place, s[i])}}

OldWorldCopies ==
  LET s == conf.sections IN
     {<<<<"vmlinux", i>>, s[i].file>> : i \in Offered(conf)}
  \union {<<<<"initrd", i>>, s[i].initrd>> : i \in {i \in Offered(conf) : s[i].initrd # ""}}

GlobalCopy == IF conf.initrd = "" THEN {} ELSE {<<<<"initrd.def", 0>>, conf.initrd>>}

(* The loader, its configuration, the script and the copies. *)
CopyFiles ==
  /\ step = "copy" /\ machine.type \in {"pmac_new", "pmac_old"}
  /\ LET old == medium[Boot]
         new == [old EXCEPT !.loader = TRUE,
                   !.conf   = IF NewWorld THEN NewWorldConf(Place, conf) ELSE OldWorldConf(conf),
                   !.script = IF NewWorld THEN BootScript(conf) ELSE @,
                   !.copies = Put(@, GlobalCopy \union
                                      IF NewWorld THEN NewWorldCopies ELSE OldWorldCopies)]
     IN Unchecked(new, {old, [new EXCEPT !.copies = old.copies], [new EXCEPT !.loader = FALSE]})
  /\ IF NewWorld THEN GoTo("activate") ELSE NextBoot

(* nvsetenv *)
Activate ==
  /\ step = "activate" /\ UNCHANGED medium
  /\ \/ known' = (known \/ conf.activate) /\ UNCHANGED missed
     \/ conf.activate /\ missed' = TRUE /\ UNCHANGED known
  /\ left' = Tail(left) /\ step' = "idle" /\ ended' = "done"
  /\ UNCHANGED <<machine, conf, installs>>

-----------------------------------------------------------------------------
(* PReP: the only PReP partition of the disk, or the one that was named.   *)

CheckPrep ==
  /\ step = "check" /\ UNCHANGED medium
  /\ LET found == {p \in machine.prep : IF Boot[2] = 0 THEN p[1] = Boot[1] ELSE p = Boot} IN
     IF Cardinality(found) # 1 THEN Stop
     ELSE /\ left' = <<CHOOSE p \in found : TRUE>> /\ step' = "dd"
          /\ UNCHANGED <<machine, conf, known, ended, missed, installs>>

(* mkzimage, mkzimage_cmdline and dd *)
WritePrep ==
  /\ step = "dd"
  /\ LET old == medium[Boot]
         i == PrepImage(conf)
     IN IF i.kernel \in Files(Place)
        THEN Unchecked([old EXCEPT !.image = i],
                       {old, Empty, [old EXCEPT !.image = [i EXCEPT !.root = "", !.append = ""]]})
        ELSE Leave(old) /\ missed' = TRUE
  /\ NextBoot

-----------------------------------------------------------------------------
(* iSeries: a kernel slot, a file, or a PReP partition for each boot=.     *)

Image == IseriesImage(conf)

(* mkzimage is needed only for a ramdisk, and is checked. *)
MakeImage ==
  /\ step = "image" /\ UNCHANGED medium
  /\ \/ Image.initrd # "" /\ Stop
     \/ (Image.initrd # "" => Image.kernel \in Files(Place)) /\ GoTo("write") /\ UNCHANGED missed

Write(kind) == step = "write" /\ Boot.kind = kind

(* Only a slot has a command line; without a kernel nothing is written.    *)
WriteSlot ==
  /\ Write("slot")
  /\ IF Image.kernel \in Files(Place)
     THEN LET old == medium[Boot] IN
          Unchecked([old EXCEPT !.image = Image],
                    {[old EXCEPT !.image = [Image EXCEPT !.root = r, !.append = a]] :
                       r \in {old.image.root, ""}, a \in {old.image.append, ""}})
     ELSE UNCHANGED <<medium, missed>>
  /\ NextBoot

(* dd has failed down to the smallest chunk. *)
SlotFails == Write("slot") /\ Image.kernel \in Files(Place) /\ Leave(Empty) /\ Stop

NoWords == [Image EXCEPT !.root = "", !.append = ""]

(* cp after rm; without a kernel there is nothing to copy. *)
WriteFile ==
  /\ Write("file")
  /\ IF Image.kernel \in Files(Place)
     THEN Unchecked([Empty EXCEPT !.image = NoWords], {Empty})
     ELSE Leave(Empty) /\ missed' = TRUE
  /\ NextBoot

WriteBlock ==
  /\ Write("block") /\ Boot \in machine.prep
  /\ IF Image.kernel \in Files(Place)
     THEN Unchecked([Empty EXCEPT !.image = NoWords], {Empty, medium[Boot]})
     ELSE UNCHANGED medium /\ missed' = TRUE
  /\ NextBoot

(* parted cannot set the flag; the kernel has been written. *)
FlagFails ==
  /\ Write("block") /\ Boot \in machine.prep
  /\ Leave([Empty EXCEPT !.image = NoWords]) \/ UNCHANGED medium
  /\ Stop

(* A device of another kind, a relative name, a partition that is not PReP. *)
WriteRefused ==
  /\ \/ Write("invalid") \/ Write("relative")
     \/ Write("block") /\ Boot \notin machine.prep
  /\ UNCHANGED medium /\ Stop

-----------------------------------------------------------------------------
(* Pegasos: a loader with its configuration inside is copied to a file.    *)

CopyYaboot ==
  /\ step = "copy" /\ machine.type = "pegasos"
  /\ Unchecked([Empty EXCEPT !.loader = TRUE, !.conf = PegasosConf(Place, conf)], {Empty})
  /\ NextBoot

(* PS3: kboot.conf is written once, for whatever /boot/vmlinux then is.    *)
WriteKboot ==
  /\ step = "kboot"
  /\ IF medium[Boot].loader THEN UNCHANGED medium
     ELSE LET at(f) == Original("full", Place["vmlinux"].part, f) IN
          Leave([Empty EXCEPT !.loader = TRUE, !.conf =
            [NoConf EXCEPT !.default = "openSuSE", !.entries =
               <<[label |-> "openSuSE", section |-> 0,
                  image |-> at("vmlinux"), initrd |-> at("initrd")]>>]])
  /\ NextBoot /\ UNCHANGED missed

(* /sys/block does not list the device of /boot/vmlinux. *)
DeviceUnknown == step = "kboot" /\ ~medium[Boot].loader /\ UNCHANGED medium /\ Stop

(* The machine goes down: what was written to is whole, as before or gone. *)
Cut ==
  /\ step # "idle" /\ step' = "idle" /\ ended' = "cut"
  /\ UNCHANGED medium \/ (step \notin {"check", "image", "activate"} /\ Leave(Empty))
  /\ UNCHANGED <<machine, conf, left, known, missed, installs>>

InstallNext ==
  \/ Begin \/ Mount \/ MountFails \/ Clean \/ CopyFiles \/ Activate
  \/ CheckPrep \/ WritePrep
  \/ MakeImage \/ WriteSlot \/ SlotFails \/ WriteFile \/ WriteBlock \/ FlagFails \/ WriteRefused
  \/ CopyYaboot \/ WriteKboot \/ DeviceUnknown
  \/ Cut

-----------------------------------------------------------------------------
(* What lilo.conf asks for, read off its sections: used by Lilo.           *)

(* The default label is that of a kernel that is offered, or the first     *)
(* kernel is.  (README: "Known divergences" for what happens else.)        *)
Sound(c) ==
  IF c.default = "" \/ (NewWorld /\ c.default \in Mac)
  THEN \E i \in Offered(c) : \A j \in 1..i - 1 : c.sections[j].other # ""
  ELSE \E i \in Offered(c) : c.sections[i].label = c.default

WantedImage(c) ==
  LET s == c.sections[IF c.default = "" THEN First(Offered(c))
                      ELSE CHOOSE i \in Offered(c) : c.sections[i].label = c.default]
  IN [kernel |-> s.file, initrd |-> Or(s.initrd, c.initrd), root |-> Or(s.root, c.root),
      append |-> Or(s.append, c.append)]

(* A loader read from partition at finds every kernel that was asked for,  *)
(* its own ramdisk and the global one, in order, and the default.          *)
LoaderRight(m, at) ==
  LET cf == m.conf
      leads(p, f) == Leads(Place, cf, at, m.copies, p, f)
  IN /\ m.loader
     /\ {cf.entries[n].section : n \in DOMAIN cf.entries} = Offered(conf)
     /\ \A n \in DOMAIN cf.entries :
          LET e == cf.entries[n]
              s == conf.sections[e.section]
          IN /\ e.label = s.label /\ leads(e.image, s.file)
             /\ s.initrd # "" => leads(e.initrd, s.initrd)
     /\ conf.initrd # "" => leads(cf.initrd, conf.initrd)
     /\ cf.default # "" => \E n \in DOMAIN cf.entries : cf.entries[n].label = cf.default

ImageRight(b, image) ==
  LET want == WantedImage(conf) IN
  IF machine.type = "prep" \/ b.kind = "slot" THEN image = want
  ELSE image.kernel = want.kernel /\ image.initrd = want.initrd

(* Where yaboot is: all paths are whole on Pegasos but that of the global  *)
(* ramdisk, which is looked for beside the loader.                         *)
InstallRight ==
  CASE machine.type \in {"pmac_new", "pmac_old"} ->
         /\ LoaderRight(medium[conf.boot[1]], conf.boot[1])
         /\ NewWorld => ~medium[conf.boot[1]].cnf /\ (conf.activate => known)
         /\ NewWorld /\ conf.default \in Mac /\ ~conf.no_os_chooser =>
              Place[medium[conf.boot[1]].script.alone].kind = "block"
    [] machine.type = "pegasos" -> LoaderRight(medium[BootsOf(conf)[1]], machine.at)
    [] machine.type = "prep" ->
         \E b \in DOMAIN medium : b \in machine.prep /\ ImageRight(b, medium[b].image)
    [] machine.type = "iseries" ->
         \A i \in DOMAIN conf.boot : ImageRight(conf.boot[i], medium[conf.boot[i]].image)
    [] OTHER -> medium["/etc/kboot.conf"].loader

==============================================================================
