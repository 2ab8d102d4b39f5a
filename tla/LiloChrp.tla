------------------------------- MODULE LiloChrp -------------------------------
(***************************************************************************)
(* lilo-chrp.lib: running_on_chrp, which lilo runs on a machine with Open  *)
(* Firmware and PC partitions.  For each of the partitions named by clone= *)
(* and then the one named by boot= it either makes a FAT file system with  *)
(* the loader, a configuration and copies of kernels, or writes the loader *)
(* onto a PReP partition; then it puts the partition in front of the       *)
(* firmware's boot-device variable.                                        *)
(*                                                                         *)
(* Every command may fail and the machine may go down between any two.     *)
(* Some failures end the script, some are warned about, some pass without  *)
(* notice.  What the files contain is not modelled, only which are there   *)
(* and from which run of lilo they are.                                    *)
(***************************************************************************)
EXTENDS LiloConf

CONSTANTS
  Machines, (* lines of lilo.conf, where its files are, partitions, boot-device *)
  NoPath,   (* partitions without a firmware path, or not primary *)
  MaxRuns   (* bound: runs of lilo *)

Copies  == {"vmlinux", "initrd", "vmlinux.old"}  (* the last is not the default *)
Default == {"vmlinux", "initrd"}
Names   == {"loader", "conf", "bootinfo"} \union Copies
Kinds   == {"prep", "fat16", "fat32", "none"}
Fits    == {"fits", "small", "big"}    (* "big": for a PReP partition *)
Parts   == UNION {DOMAIN m.parts : m \in Machines}       (* <<disk, number>> *)
Disk(p) == p[1]
Number(p) == p[2]
Entry   == [part : Parts, form : {"fat", "full", "disk"}]

(* One number for what is there before the first run. *)
Runs == 0..MaxRuns

Partition == [kind : Kinds, fit : Fits, room : BOOLEAN, files : SUBSET Names, age : Runs]

Job == [boot : Parts \union {Nowhere}, clones : Seq(Parts), copies : SUBSET Copies, named : BOOLEAN,
        forcefat : BOOLEAN, iscsi : BOOLEAN, builtin : BOOLEAN, activate : BOOLEAN]

JobOf(m) == ChrpJob(m.place, Read(m.place, "chrp", m.lines), m.parts)

ASSUME ChrpAssumption ==
  /\ NoPath \subseteq Parts /\ MaxRuns \in Nat
  /\ Parts \subseteq Nat \X Nat /\ \A p \in Parts \ NoPath : Number(p) \in 1..4
  /\ \A m \in Machines :
       /\ m.type = "chrp" /\ JobOf(m) \in Job
       /\ \A i \in DOMAIN JobOf(m).clones : JobOf(m).clones[i] \in DOMAIN m.parts
       /\ m.parts \in [DOMAIN m.parts -> Partition]
       /\ \A p \in DOMAIN m.parts : m.parts[p].kind = "prep" => Number(p) \in 1..4
       /\ m.nvram \in Seq(Entry)

VARIABLES
  pc, job, parts,
  etc,      (* the run /etc/yaboot.conf is from, -1 without one *)
  nvram,    (* boot-device *)
  queue,    (* partitions still to do: the first is boot_partition *)
  flags,    (* p_flags *)
  todo,     (* files still to copy *)
  lower,    (* partitions in front still to look at *)
  status,   (* how the last run ended *)
  unnoticed,  (* history: a command failed and nothing was said *)
  miscounted, (* history: boot-device names a disk that p_flags says has another PReP partition *)
  healthy,    (* history: boot-device led to a whole boot= partition when this run began *)
  run

chrpVars == <<pc, job, parts, etc, nvram, queue, flags, todo, lower, status, unnoticed, miscounted, healthy, run>>

None == -1

-----------------------------------------------------------------------------
(***************************************************************************)
(* Plausible errors in the definitions below, which the properties must    *)
(* tell from the code.                                                     *)
(***************************************************************************)
Required_NoImages == <<"loader", "conf", "bootinfo">>     (* a warning is enough *)

FlagsOf_Disk(t, p) ==             (* flags forgotten: never two PReP partitions *)
  [n \in 1..4 |-> IF n = p[2] /\ p \in DOMAIN t THEN t[p].kind ELSE "none"]

ConfFails_GoesOn ==
  /\ pc = "conf" /\ ~(job.iscsi \/ job.builtin)
  /\ etc' = None /\ pc' = "active"
  /\ UNCHANGED <<job, parts, nvram, queue, flags, todo, lower, status, unnoticed, miscounted, healthy, run>>

-----------------------------------------------------------------------------
Target  == Head(queue)

FatBoot ==
  /\ ~job.iscsi
  /\ job.forcefat \/ job.copies # {} \/ job.clones # <<>>

(* parted_print: minors the disk does not have keep what an earlier disk   *)
(* of this run left.                                                       *)
FlagsOf(t, p) ==
  [n \in 1..4 |-> IF <<Disk(p), n>> \in DOMAIN t THEN t[<<Disk(p), n>>].kind ELSE flags[n]]

(* Files without which lilo gives up; the others only rate a warning.  The *)
(* default's are among them only when default= names it.                   *)
One(f, asked) == IF asked THEN <<f>> ELSE <<>>

Required ==
  <<"loader", "conf", "bootinfo">>
    \o One("vmlinux", job.named /\ "vmlinux" \in job.copies)
    \o One("initrd", job.named /\ "initrd" \in job.copies)

IsRequired(f) == \E i \in DOMAIN Required : Required[i] = f

Spare(f) == One(f, f \in job.copies /\ ~IsRequired(f))
Optional == Spare("vmlinux") \o Spare("vmlinux.old") \o Spare("initrd")

(* The partitions the firmware may take an entry for: with the disk alone  *)
(* any PReP partition on it.                                               *)
Meant(e) ==
  IF e.form = "disk"
  THEN {p \in DOMAIN parts : Disk(p) = Disk(e.part) /\ parts[p].kind = "prep"}
  ELSE {e.part}

(* What is needed to come up with the default of lilo.conf. *)
Wanted(j) == {"loader", "conf"} \union (IF j.named THEN j.copies \intersect Default ELSE {})

Whole(p) ==
  LET files == parts[p].files IN
  IF FatBoot THEN Wanted(job) \subseteq files
  ELSE "loader" \in files /\ ("conf" \in files \/ etc # None)

Boots(e) == Meant(e) # {} /\ \A p \in Meant(e) : Whole(p)
FirstBoots == nvram # <<>> /\ Boots(nvram[1])
HasLoader(e) == \E p \in Meant(e) : "loader" \in parts[p].files

-----------------------------------------------------------------------------
ChrpInit(m) ==
  /\ pc = "idle" /\ job = JobOf(m) /\ parts = m.parts /\ nvram = m.nvram
  /\ etc \in {None, 0} /\ queue = <<>> /\ todo = <<>> /\ lower = <<>>
  /\ flags = [n \in 1..4 |-> "none"]
  /\ status = "done" /\ unnoticed = FALSE /\ miscounted = FALSE /\ healthy = FALSE /\ run = 0

StartRun ==
  /\ pc = "idle" /\ run < MaxRuns
  /\ run' = run + 1 /\ flags' = [n \in 1..4 |-> "none"] /\ todo' = <<>> /\ lower' = <<>>
  /\ IF \/ job.boot \notin DOMAIN parts            (* refused, or not guessed *)
        \/ parts[job.boot].kind = "none"             (* neither PReP nor FAT *)
        \/ job.boot \in NoPath
     THEN pc' = "idle" /\ status' = "error" /\ queue' = <<>>
     ELSE pc' = "next" /\ status' = "running" /\ queue' = job.clones \o <<job.boot>>
  /\ healthy' = /\ job.boot \in DOMAIN parts /\ nvram # <<>>
                /\ Meant(nvram[1]) = {job.boot} /\ Whole(job.boot)
  /\ UNCHANGED <<job, parts, etc, nvram, unnoticed, miscounted>>

Fail ==                                                        (* exit, error *)
  /\ pc' = "idle" /\ status' = "error" /\ queue' = <<>>
  /\ UNCHANGED <<job, etc, nvram, flags, todo, lower, unnoticed, miscounted, healthy, run>>

Go(there) ==
  /\ pc' = there
  /\ UNCHANGED <<job, queue, status, healthy, run>>

SkipPartition ==
  /\ pc = "next" /\ queue # <<>> /\ Target \in NoPath
  /\ queue' = Tail(queue)
  /\ UNCHANGED <<pc, job, parts, etc, nvram, flags, todo, lower, status, unnoticed, miscounted, healthy, run>>

BeginPartition ==
  /\ pc = "next" /\ queue # <<>> /\ Target \notin NoPath
  /\ flags' = FlagsOf(parts, Target)
  /\ Go(IF FatBoot THEN "room" ELSE "convert")
  /\ UNCHANGED <<parts, etc, nvram, todo, lower, unnoticed, miscounted>>

Finish ==
  /\ pc = "next" /\ queue = <<>>
  /\ pc' = "idle" /\ status' = "done"
  /\ UNCHANGED <<job, parts, etc, nvram, queue, flags, todo, lower, unnoticed, miscounted, healthy, run>>

Change(field, value) == parts' = [parts EXCEPT ![Target][field] = value]

-----------------------------------------------------------------------------
(* A FAT partition *)

Room ==
  /\ pc = "room" /\ parts[Target].fit # "small"
  /\ Go("type") /\ UNCHANGED <<parts, etc, nvram, flags, todo, lower, unnoticed, miscounted>>

Extend ==
  /\ pc = "room" /\ parts[Target].fit = "small" /\ parts[Target].room
  /\ parts' = [parts EXCEPT ![Target].fit = "fits", ![Target].kind = "fat16"]
  /\ Go("type") /\ UNCHANGED <<etc, nvram, flags, todo, lower, unnoticed, miscounted>>

NoRoom == pc = "room" /\ parts[Target].fit = "small" /\ Fail /\ UNCHANGED parts

SetType ==
  /\ pc = "type"
  /\ IF flags[Number(Target)] = "fat16" THEN UNCHANGED parts ELSE Change("kind", "fat16")
  /\ Go("mkfs") /\ UNCHANGED <<etc, nvram, flags, todo, lower, unnoticed, miscounted>>

SetTypeFails == pc = "type" /\ flags[Number(Target)] # "fat16" /\ Fail /\ UNCHANGED parts

Mkfs ==
  /\ pc = "mkfs"
  /\ parts' = [parts EXCEPT ![Target].files = {}, ![Target].age = run]
  /\ todo' = Required \o Optional
  /\ Go("copy") /\ UNCHANGED <<etc, nvram, flags, lower, unnoticed, miscounted>>

MkfsFails == pc = "mkfs" /\ Change("files", {}) /\ Fail

Copy ==
  /\ pc = "copy" /\ todo # <<>>
  /\ Change("files", parts[Target].files \union {Head(todo)})
  /\ todo' = Tail(todo)
  /\ UNCHANGED <<pc, job, etc, nvram, queue, flags, lower, status, unnoticed, miscounted, healthy, run>>

(* The mount or a file: the trap of lilo.new unmounts what was mounted.    *)
CopyFails ==
  /\ pc = "copy" /\ todo # <<>> /\ UNCHANGED parts
  /\ IF IsRequired(Head(todo)) THEN Fail
     ELSE /\ todo' = Tail(todo)
          /\ UNCHANGED <<pc, job, etc, nvram, queue, flags, lower, status, unnoticed, miscounted, healthy, run>>

Umount ==
  /\ pc = "copy" /\ todo = <<>>
  /\ Go("active") /\ UNCHANGED <<parts, etc, nvram, flags, todo, lower, unnoticed, miscounted>>

-----------------------------------------------------------------------------
(* A PReP partition *)

InFront(n) == One(n, n < Number(Target) /\ flags[n] = "prep")
LowerPrep == InFront(1) \o InFront(2) \o InFront(3)

Convert ==
  /\ pc = "convert"
  /\ IF flags[Number(Target)] = "prep" THEN UNCHANGED parts ELSE Change("kind", "prep")
  /\ lower' = LowerPrep
  /\ Go("delete") /\ UNCHANGED <<etc, nvram, flags, todo, unnoticed, miscounted>>

ConvertFails == pc = "convert" /\ flags[Number(Target)] # "prep" /\ Fail /\ UNCHANGED parts

Delete ==
  /\ pc = "delete" /\ lower # <<>>
  /\ LET p == <<Disk(Target), Head(lower)>> IN
     \/ /\ p \in DOMAIN parts
        /\ parts' = [parts EXCEPT ![p].kind = "none", ![p].files = {}]
        /\ flags' = [flags EXCEPT ![Head(lower)] = "none"]
     \/ UNCHANGED <<parts, flags>>                                (* a warning *)
  /\ lower' = Tail(lower)
  /\ UNCHANGED <<pc, job, etc, nvram, queue, todo, status, unnoticed, miscounted, healthy, run>>

(* The start of the partition is cleared before it is shrunk or extended;  *)
(* when parted refuses there is a warning and the script goes on.          *)
Resize ==
  /\ pc = "delete" /\ lower = <<>>
  /\ IF parts[Target].fit = "fits" THEN UNCHANGED parts
     ELSE \E fit \in {"fits", parts[Target].fit} :
            parts' = [parts EXCEPT ![Target].files = {}, ![Target].fit = fit]
  /\ Go("dd") /\ UNCHANGED <<etc, nvram, flags, todo, lower, unnoticed, miscounted>>

(* dd or the program that makes the image may fail, or the partition be    *)
(* too small; nobody looks.                                                *)
Dd ==
  /\ pc = "dd"
  /\ \E whole \in {TRUE, FALSE} :
        /\ whole => parts[Target].fit # "small"
        /\ parts' = [parts EXCEPT ![Target].age = run,
                       ![Target].files =
                          IF ~whole THEN {}
                          ELSE IF job.iscsi \/ job.builtin THEN {"loader", "conf"}
                          ELSE {"loader"}]
        /\ unnoticed' = (unnoticed \/ ~whole)
  /\ Go("conf") /\ UNCHANGED <<etc, nvram, flags, todo, lower, miscounted>>

Conf ==
  /\ pc = "conf"
  /\ etc' = IF job.iscsi \/ job.builtin THEN None ELSE run
  /\ Go("active") /\ UNCHANGED <<parts, nvram, flags, todo, lower, unnoticed, miscounted>>

ConfFails ==
  /\ pc = "conf" /\ ~(job.iscsi \/ job.builtin)
  /\ etc' = None
  /\ pc' = "idle" /\ status' = "error" /\ queue' = <<>>
  /\ UNCHANGED <<job, parts, nvram, flags, todo, lower, unnoticed, miscounted, healthy, run>>

-----------------------------------------------------------------------------
(* The partition is made active in its table, then known to the firmware.  *)

SetActive ==
  /\ pc = "active"
  /\ Go("nvram") /\ UNCHANGED <<parts, etc, nvram, flags, todo, lower, unnoticed, miscounted>>

SetActiveFails == pc = "active" /\ Fail /\ UNCHANGED parts

(* With one PReP partition on the disk the disk alone is named. *)
BootPath ==
  [part |-> Target,
   form |-> IF FatBoot THEN "fat"
            ELSE IF Cardinality({n \in 1..4 : flags[n] = "prep"}) > 1 THEN "full" ELSE "disk"]

(* "disk" is the beginning of "disk:2", which is that of "disk:2,yaboot".  *)
StartsWith(e, path) ==
  \/ e = path
  \/ path.form = "disk" /\ Disk(e.part) = Disk(path.part)
  \/ path.form = "full" /\ e.part = path.part /\ e.form = "fat"

(* The entries that are not of a set, in their order. *)
Without(entries, dropped) ==
  LET kept == {i \in DOMAIN entries : entries[i] \notin dropped}
  IN  [k \in 1..Cardinality(kept) |->
         entries[CHOOSE i \in kept : Cardinality({j \in kept : j <= i}) = k]]

(* p_flags is not brought up to date when the target is converted to PReP: *)
(* with one other PReP partition on the disk the path is cut all the same. *)
Miscounts ==
  BootPath.form = "disk" /\ \E n \in 1..4 \ {Number(Target)} : flags[n] = "prep"

SetBootDevice ==
  /\ pc = "nvram"
  /\ \/ ~job.activate /\ UNCHANGED <<nvram, unnoticed, miscounted>>
     \/ /\ job.activate /\ miscounted' = (miscounted \/ Miscounts)
        /\ \/ /\ nvram' = <<BootPath>> \o Without(nvram, {e \in Entry : StartsWith(e, BootPath)})
              /\ UNCHANGED unnoticed
           \/ /\ unnoticed' = TRUE                  (* not read, or not written *)
              /\ nvram' \in {<<BootPath>>, nvram}
  /\ pc' = "next" /\ queue' = Tail(queue)
  /\ UNCHANGED <<job, parts, etc, flags, todo, lower, status, healthy, run>>

(* The machine goes down: of a file system still mounted any file may be   *)
(* missing, and of a loader being written a part.                          *)
Crash ==
  /\ pc # "idle"
  /\ \/ pc = "copy" /\ \E kept \in SUBSET parts[Target].files : Change("files", kept)
     \/ pc = "dd" /\ Change("files", {})
     \/ pc # "copy" /\ UNCHANGED parts
  /\ pc' = "idle" /\ status' = "cut" /\ queue' = <<>>
  /\ UNCHANGED <<job, etc, nvram, flags, todo, lower, unnoticed, miscounted, healthy, run>>

ChrpNext ==
  \/ StartRun \/ SkipPartition \/ BeginPartition \/ Finish
  \/ Room \/ Extend \/ NoRoom \/ SetType \/ SetTypeFails \/ Mkfs \/ MkfsFails
  \/ Copy \/ CopyFails \/ Umount
  \/ Convert \/ ConvertFails \/ Delete \/ Resize \/ Dd \/ Conf \/ ConfFails
  \/ SetActive \/ SetActiveFails \/ SetBootDevice
  \/ Crash

-----------------------------------------------------------------------------
(* clone= is for the members of a RAID: other partitions than that of      *)
(* boot=, each named once, one of them with a path at least.               *)
Cloned ==
  LET clones == {job.clones[i] : i \in DOMAIN job.clones} IN
  /\ FatBoot /\ job.boot \notin clones /\ ~(clones \subseteq NoPath)
  /\ \A i, j \in DOMAIN job.clones : i # j => job.clones[i] # job.clones[j]

(* Once the boot= partition is whole and first, wherever a command fails   *)
(* or the machine goes down in the next run, the first entry of            *)
(* boot-device that has a loader at all leads to a whole one, old or new.  *)
CloneSurvives ==
  healthy /\ Cloned /\ job.activate /\ ~unnoticed =>
    \E i \in DOMAIN nvram : /\ Boots(nvram[i])
                            /\ \A j \in 1..i - 1 : ~HasLoader(nvram[j])

(* A run that ends well has put the boot= partition in front, there is no  *)
(* other partition the firmware could take for it, and what is on it is    *)
(* whole and of this run; unless the PReP partitions were miscounted.      *)
SuccessInstalls ==
  status = "done" /\ run > 0 /\ job.activate /\ ~unnoticed /\ ~miscounted =>
    /\ nvram # <<>> /\ Meant(nvram[1]) = {job.boot} /\ Boots(nvram[1])
    /\ parts[job.boot].age = run
    /\ ~(FatBoot \/ job.builtin \/ job.iscsi) => etc = run

(* boot-device is changed only when what it is to name is in place; every  *)
(* failure that ends the script leaves it alone.                           *)
BootDeviceLast ==
  [][nvram' # nvram /\ ~unnoticed' /\ ~miscounted' => FirstBoots']_chrpVars

-----------------------------------------------------------------------------
(***************************************************************************)
(* The inductive invariant behind them.                                    *)
(***************************************************************************)
OnFat  == {"room", "type", "mkfs", "copy"}
OnPrep == {"convert", "delete", "dd", "conf"}
AtEnd  == {"active", "nvram"}

TypeOK ==
  /\ pc \in {"idle", "next"} \union OnFat \union OnPrep \union AtEnd
  /\ job \in Job /\ run \in Runs /\ status \in {"done", "running", "error", "cut"}
  /\ DOMAIN parts \subseteq Parts /\ parts \in [DOMAIN parts -> Partition]
  /\ \A p \in DOMAIN parts : parts[p].kind = "prep" => Number(p) \in 1..4
  /\ job.clones \in Seq(DOMAIN parts) /\ queue \in Seq(DOMAIN parts)
  /\ nvram \in Seq(Entry) /\ flags \in [1..4 -> Kinds]
  /\ todo \in Seq(Names) /\ lower \in Seq(1..4)

(* What is still to do ends with the boot= partition. *)
QueueInv ==
  /\ pc = "idle" => queue = <<>>
  /\ pc # "idle" => job.boot \in DOMAIN parts \ NoPath /\ status = "running"
  /\ pc \notin {"idle", "next"} => queue # <<>> /\ Target \notin NoPath
  /\ pc \in OnFat => FatBoot
  /\ pc \in OnPrep => ~FatBoot
  /\ queue # <<>> => queue[Len(queue)] = job.boot
  /\ Cloned => \A i, j \in DOMAIN queue : i # j => queue[i] # queue[j]

(* Where the work on a FAT partition stands. *)
FatInv ==
  pc \in {"copy"} \union AtEnd /\ FatBoot =>
    /\ parts[Target].age = run
    /\ \A f \in Wanted(job) :
         \/ f \in parts[Target].files
         \/ pc = "copy" /\ \E i \in DOMAIN todo : todo[i] = f

(* Of the partitions of the disk parted still tells the truth, but for the *)
(* one that has been converted.                                            *)
Told(n) == <<Disk(Target), n>> \in DOMAIN parts => flags[n] = parts[<<Disk(Target), n>>].kind

PrepInv ==
  pc \in OnPrep \union AtEnd /\ ~FatBoot =>
    /\ \A n \in 1..4 \ {Number(Target)} : Told(n)
    /\ IF pc = "convert" THEN Told(Number(Target)) ELSE parts[Target].kind = "prep"
    /\ pc = "delete" => \A i \in DOMAIN lower : lower[i] # Number(Target)
    /\ pc \in {"conf"} \union AtEnd =>
         /\ parts[Target].age = run
         /\ ~unnoticed => /\ "loader" \in parts[Target].files
                          /\ job.iscsi \/ job.builtin => "conf" \in parts[Target].files
    /\ pc \in AtEnd => job.iscsi \/ job.builtin \/ etc = run

Installed ==
  /\ nvram # <<>> /\ Meant(nvram[1]) = {job.boot} /\ Whole(job.boot)
  /\ parts[job.boot].age = run
  /\ ~(FatBoot \/ job.builtin \/ job.iscsi) => etc = run

DoneInv ==
  (pc = "next" /\ queue = <<>>) \/ (status = "done" /\ run > 0) =>
    (job.activate /\ ~unnoticed /\ ~miscounted => Installed)

(* The partition named first is whole and will not be touched, or it is    *)
(* that of boot= and a clone comes before it.                              *)
Left == {queue[i] : i \in DOMAIN queue}
Untouched(p) ==
  \/ p \notin Left
  \/ p = job.boot /\ \E i \in 1..Len(queue) - 1 : queue[i] \notin NoPath

Anchored ==
  nvram # <<>> /\ \E p \in DOMAIN parts : Meant(nvram[1]) = {p} /\ Whole(p) /\ Untouched(p)

AnchorInv == healthy /\ Cloned /\ job.activate /\ ~unnoticed => Anchored

IInv == TypeOK /\ QueueInv /\ FatInv /\ PrepInv /\ DoneInv /\ AnchorInv
==============================================================================
