--------------------------------- MODULE Lilo ---------------------------------
(***************************************************************************)
(* lilo.new: the kind of the machine decides which installer runs.         *)
(***************************************************************************)
EXTENDS LiloChrp, Installers

(* What a lilo.conf is that is not known to go wrong on the other machines *)
(* (README: "Known divergences"): where one kernel is installed, labels    *)
(* are unique, the first section is one if there is no default=, and on    *)
(* PReP root= is global or local; a PowerMac is told to copy what yaboot   *)
(* cannot read, and to start Mac OS only by the label of the first other=; *)
(* on Pegasos yaboot reads all files, the global ramdisk beside itself; no *)
(* ramdisk has the name that copies of the global one get.                 *)
Suitable(m, c) ==
  LET s == c.sections
      readable(f) == f # "" => m.place[f].readable
  IN
  /\ c.initrd # "initrd.def"
  /\ m.type # "prep" => \A i \in DOMAIN c.boot : c.boot[i] \in DOMAIN m.medium
  /\ m.type \in {"prep", "iseries"} =>
       /\ \A i, j \in DOMAIN s : s[i].label = s[j].label => i = j
       /\ c.default = "" => s[1].other = ""
       /\ m.type = "prep" => \A i \in DOMAIN s : "" \in {s[i].root, c.root}
  /\ m.type = "pmac_new" =>
       /\ \A i \in Offered(c), k \in Paths :
            readable(Named(c, k, i)) \/ s[i].copy \/ ~m.place[Named(c, k, i)].named
       /\ c.default \in Mac =>
            \E i \in DOMAIN s : /\ s[i].other # "" /\ s[i].label = c.default
                                /\ \A j \in 1..i - 1 : s[j].other = ""
  /\ m.type = "pegasos" =>
       /\ \A i \in Offered(c), k \in Paths : readable(Named(c, k, i))
       /\ readable(c.initrd) /\ (c.initrd # "" => m.place[c.initrd].part = m.at)

(* The firmware and its files are there, and each lilo.conf is like that.  *)
ASSUME OthersAssumption ==
  \A m \in Others :
    /\ m.type \in DOMAIN FirstStep /\ "" \notin DOMAIN m.place
    /\ \A f \in Files(m.place) : m.place[f].part \in Nat \X Nat
    /\ \A b \in DOMAIN m.medium : DOMAIN m.medium[b] = DOMAIN Empty
    /\ m.type = "prep" => m.prep \subseteq DOMAIN m.medium
    /\ m.type = "pegasos" => "/yaboot" \in DOMAIN m.medium
    /\ m.type = "ps3" => "/etc/kboot.conf" \in DOMAIN m.medium
    /\ \A lines \in m.files :
         /\ Len(lines) \in Nat
         /\ Read(m.place, m.type, lines).ok => Suitable(m, Read(m.place, m.type, lines))

(* No file is called by the empty name, and each is on a partition.        *)
ASSUME PlacesAssumption ==
  \A m \in Machines :
    /\ Len(m.lines) \in Nat /\ "" \notin DOMAIN m.place
    /\ \A f \in Files(m.place) : m.place[f].part \in Nat \X (Nat \ {0})

vars == <<chrpVars, installVars>>

(* Of the other installers' variables a CHRP machine has the machine and   *)
(* its lilo.conf.                                                          *)
OnChrp(m) ==
  /\ ChrpInit(m)
  /\ machine = m /\ conf = Read(m.place, "chrp", m.lines)
  /\ step = "idle" /\ left = <<>> /\ medium = <<>> /\ known = FALSE
  /\ ended = "never" /\ missed = FALSE /\ installs = 0

OnOthers ==
  /\ InstallInit
  /\ pc = "idle" /\ job = <<>> /\ parts = <<>> /\ etc = None /\ nvram = <<>> /\ queue = <<>>
  /\ flags = <<>> /\ todo = <<>> /\ lower = <<>> /\ status = "never"
  /\ unnoticed = FALSE /\ miscounted = FALSE /\ healthy = FALSE /\ run = 0

Init == OnOthers \/ \E m \in Machines : OnChrp(m)

Next ==
  \/ machine.type = "chrp" /\ ChrpNext /\ UNCHANGED installVars
  \/ machine.type # "chrp" /\ InstallNext /\ UNCHANGED chrpVars

Spec == Init /\ [][Next]_vars

-----------------------------------------------------------------------------
(* Where yaboot reads its configuration when it comes from partition p. *)
ConfAt(p) == IF FatBoot \/ job.builtin THEN p ELSE Place["/etc"].part

(* Of the default's copies on p those that are there. *)
CopiesOn(p, e) ==
  LET s == conf.sections[e.section] IN
     (IF "vmlinux" \in parts[p].files THEN {<<e.image.name, s.file>>} ELSE {})
  \union (IF "initrd" \in parts[p].files THEN {<<e.initrd.name, s.initrd>>} ELSE {})

(* Copies of what is not the default may be missing: lilo has warned.      *)
ChrpRight(p) ==
  LET cf == ChrpConf(Place, conf, p)
      right(e, path, f) ==
        \/ f = ""
        \/ e.label # conf.default /\ path.name # <<f, 0>>
        \/ Leads(Place, cf, ConfAt(p), CopiesOn(p, e), path, f)
  IN /\ {cf.entries[n].section : n \in DOMAIN cf.entries} = Offered(conf)
     /\ \A n \in DOMAIN cf.entries :
          LET e == cf.entries[n] IN
          /\ right(e, e.image, conf.sections[e.section].file)
          /\ right(e, e.initrd, conf.sections[e.section].initrd)

(* When lilo has ended well, and no command failed without notice, what    *)
(* comes up at each place it was to install on offers the kernels of the   *)
(* present lilo.conf: each path, understood the way yaboot does from where *)
(* it was read, leads to the file that lilo.conf names, whatever an        *)
(* earlier run left there; where there is no loader, it is the default     *)
(* with its own or the global ramdisk and command line.                    *)
ChrpOffers ==
  machine.type = "chrp" /\ status = "done" /\ run > 0 /\ ~unnoticed /\ ~job.iscsi =>
    \A p \in {job.boot} \union {job.clones[i] : i \in DOMAIN job.clones} :
      p \in NoPath \/ ChrpRight(p)

OthersOffer ==
  ended = "done" /\ ~missed /\ (machine.type = "ps3" \/ Sound(conf)) => InstallRight

OffersWhatIsAsked == ChrpOffers /\ OthersOffer

==============================================================================
