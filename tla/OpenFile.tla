------------------------------- MODULE OpenFile -------------------------------
(***************************************************************************)
(* open_file of file.c and those who call it.  A file is looked for in     *)
(* every partition of the number asked for, or in all of them (-1), by     *)
(* every driver in turn, until one opens it.  Each driver opens the whole  *)
(* disk through firmware and has to close it again when it gives up; the   *)
(* ext2 driver keeps its state in statics and refuses a second file.       *)
(* yaboot_main and yaboot_text_ui open one file after another: the         *)
(* configuration under several names, a message, kernels and ramdisks.     *)
(***************************************************************************)
EXTENDS Partition

CONSTANTS
  ConfigNames,   (* config_file_names_block or _net, in order *)
  Names,         (* of messages, kernels and ramdisks *)
  Parts,         (* partition numbers asked for; AnyPart for none *)
  AnyPart,
  Devices,       (* what prop device_type says: "block", "net", "other" *)
  MaxLoads       (* bound: attempts to load a kernel *)

ASSUME OpenAssumption ==
  /\ MaxLoads \in Nat /\ Devices \subseteq {"block", "net", "other"}
  /\ AnyPart \notin Nat /\ Parts \subseteq Nat \union {AnyPart}

Drivers == <<"ext2", "xfs", "reiserfs", "of">>      (* block_filesystems *)

VARIABLES
  stage,   (* whose turn it is: the caller of open_file *)
  name,    (* of the configuration that is tried *)
  loads,
  want,    (* path_description: [dev, part, name] *)
  at,      (* the partition of the list and the driver tried *)
  fs,      (* file->fs: driver of the file that is open, or "default" *)
  device,  (* the firmware's side of file->of_device *)
  opened,  (* of fs_ext2.c *)
  unset    (* history: a driver gave up without a code for it *)

walkVars == <<pc, disk, list, walk, live, failed, short>>
caller   == <<stage, name, loads>>
vars == <<walkVars, caller, want, at, fs, device, opened, unset>>

-----------------------------------------------------------------------------
(* Plausible errors in the definitions below. *)
Fits_First(p) == p = list[1]                          (* only the head is tried *)

Shut_Stays == opened' = opened                        (* opened is not reset *)

NextPart_Again == [part |-> at.part, driver |-> 1]    (* p is not moved on *)
-----------------------------------------------------------------------------

Init ==
  /\ disk \in Disks /\ pc = "idle" /\ list = <<>> /\ walk = [block |-> 0] /\ live = 0
  /\ failed = FALSE /\ short = FALSE
  /\ stage = "config" /\ name = 1 /\ loads = 0
  /\ want = [dev |-> "block", part |-> AnyPart, name |-> ConfigNames[1]]
  /\ at = [part |-> 1, driver |-> 1] /\ fs = "default" /\ device = "none"
  /\ opened = FALSE /\ unset = FALSE

(* open_file: the kind of device decides. *)
Open(d, p, n) ==
  /\ want' = [dev |-> d, part |-> p, name |-> n]
  /\ pc' = CASE d = "block" -> "lookup" [] d = "net" -> "download" [] OTHER -> "refused"
  /\ fs' = "default" /\ device' = "none" /\ failed' = FALSE /\ unset' = FALSE
  /\ UNCHANGED <<disk, list, walk, live, short, at, opened>>

OpenConfig ==
  /\ pc = "idle" /\ stage = "config" /\ name <= Len(ConfigNames)
  /\ \E d \in Devices, p \in Parts :
       (name > 1 => d = want.dev /\ p = want.part) /\ Open(d, p, ConfigNames[name])
  /\ UNCHANGED caller

OpenOther ==
  /\ pc = "idle" /\ stage \in {"message", "kernel", "ramdisk"}
  /\ \E d \in Devices, p \in Parts, n \in Names : Open(d, p, n)
  /\ UNCHANGED caller

-----------------------------------------------------------------------------
(* file_block_open and fs_open *)

Fits(p) == want.part \in {AnyPart, p.number}

Here == list[at.part]

Trying(d) == pc = "try" /\ at.part <= Len(list) /\ Fits(Here) /\ Drivers[at.driver] = d

Start ==
  /\ pc = "listed" /\ pc' = IF list = <<>> THEN "bare" ELSE "try"
  /\ at' = [part |-> 1, driver |-> 1]
  /\ UNCHANGED <<disk, list, walk, live, failed, short, caller, want, fs, device, opened, unset>>

NextPart == [part |-> at.part + 1, driver |-> 1]

SkipPart ==
  /\ pc = "try" /\ at.part <= Len(list) /\ ~Fits(Here)
  /\ at' = NextPart
  /\ UNCHANGED <<walkVars, caller, want, fs, device, opened, unset>>

(* FILE_ERR_BADDEV, whatever the last driver said; the list is freed. *)
NotFound ==
  /\ pc = "try" /\ at.part > Len(list) /\ pc' = "refused"
  /\ UNCHANGED <<disk, list, walk, live, failed, short, caller, want, at, fs, device, opened, unset>>

MoreDrivers == at.driver < Len(Drivers)

NextDriver == at' = IF MoreDrivers THEN [at EXCEPT !.driver = @ + 1] ELSE NextPart

Held(p) == CHOOSE h \in disk.holds : h.at = p.at
HasFile(p) == want.name \in Held(p).files

(* A driver opens the file, or gives up and has closed its handle again. *)
Succeeds(d) ==
  /\ pc' = "open" /\ fs' = d /\ device' = "open" /\ live' = live + 1
  /\ UNCHANGED <<disk, list, walk, failed, short, caller, want, at, unset>>

GivesUp(dev) ==
  /\ NextDriver /\ device' = dev
  /\ UNCHANGED <<pc, disk, list, walk, live, short, caller, want, fs, opened>>

(* A second ext2 file is refused as busy: it never comes to that, but only *)
(* because every caller closes the first.  Then ext2fs_open, the block     *)
(* buffer, ext2fs_namei_follow.                                            *)
Ext2 ==
  /\ Trying("ext2")
  /\ CASE opened -> GivesUp(device) /\ UNCHANGED <<failed, unset>>
       [] ~opened /\ Held(Here).fs = "ext2" /\ HasFile(Here) -> Succeeds("ext2") /\ opened' = TRUE
       [] OTHER -> GivesUp("closed") /\ UNCHANGED <<failed, unset>>

Xfs ==
  /\ Trying("xfs")
  /\ IF Held(Here).fs = "xfs" /\ HasFile(Here)
     THEN Succeeds("xfs") /\ UNCHANGED opened
     ELSE GivesUp("closed") /\ UNCHANGED <<failed, unset>>

Reiserfs ==
  /\ Trying("reiserfs")
  /\ IF Held(Here).fs = "reiserfs" /\ HasFile(Here)
     THEN Succeeds("reiserfs") /\ UNCHANGED opened
     ELSE GivesUp("closed") /\ UNCHANGED <<failed, unset>>

(* The device does not open, a read fails, there is no memory ... *)
DriverFails ==
  /\ \E d \in {"ext2", "xfs", "reiserfs", "of"} : Trying(d) /\ (d = "ext2" => ~opened)
  /\ \E dev \in {"none", "closed"} : GivesUp(dev)
  /\ failed' = TRUE /\ UNCHANGED unset

(* ... but a node of the tree that cannot be read leaves errnum 0, which   *)
(* reiserfs_open returns after it closed the device: the file counts as    *)
(* open.                                                                   *)
TreeUnreadable ==
  /\ Trying("reiserfs") /\ Held(Here).fs = "reiserfs"
  /\ pc' = "open" /\ fs' = "reiserfs" /\ device' = "closed"
  /\ failed' = TRUE /\ unset' = TRUE
  /\ UNCHANGED <<disk, list, walk, live, short, caller, want, at, opened>>

(* of_open leaves alone what the firmware is not to be trusted with. *)
OfMay(p) == p.label # "amiga" /\ (p.label = "msdos" => p.fat)

OfDriver ==
  /\ Trying("of")
  /\ IF OfMay(Here) /\ Held(Here).fs = "of" /\ HasFile(Here)
     THEN Succeeds("of") /\ UNCHANGED opened
     ELSE GivesUp("none") /\ UNCHANGED <<failed, unset>>

(* No partitions at all: the firmware may still know the disk. *)
Bare ==
  /\ pc = "bare"
  /\ IF want.name \in disk.bare
     THEN Succeeds("of") /\ UNCHANGED opened
     ELSE /\ pc' = "refused" /\ device' = "none"
          /\ UNCHANGED <<disk, list, walk, live, failed, short, caller, want, at, fs, opened, unset>>

BareFails ==
  /\ pc = "bare" /\ pc' = "refused" /\ failed' = TRUE /\ device' = "none"
  /\ UNCHANGED <<disk, list, walk, live, short, caller, want, at, fs, opened, unset>>

(* of_net_open: firmware opens the device, the file is loaded whole. *)
Download == pc = "download" /\ Succeeds("net") /\ UNCHANGED opened

DownloadFails ==
  /\ pc = "download" /\ pc' = "refused" /\ failed' = TRUE
  /\ device' \in {"none", "closed"} /\ fs' = "net"
  /\ UNCHANGED <<disk, list, walk, live, short, caller, want, at, opened, unset>>

-----------------------------------------------------------------------------
(* The callers.  Each reads what it needs and closes the file whether that *)
(* went well or not.                                                       *)

Shut == opened' = (opened /\ fs # "ext2")

Closed ==
  /\ pc' = "idle" /\ device' = "closed" /\ fs' = "default" /\ Shut
  /\ live' = IF device = "open" THEN live - 1 ELSE live
  /\ UNCHANGED <<disk, list, walk, failed, short, want, at, unset>>

Refused ==
  /\ pc = "refused" /\ pc' = "idle"
  /\ UNCHANGED <<disk, list, walk, live, failed, short, want, at, fs, device, opened, unset>>

(* find_and_load_config_file, load_config_file; with a configuration there *)
(* may be a message to print.                                              *)
ConfigRead ==
  /\ pc = "open" /\ stage = "config" /\ Closed
  /\ stage' \in {"message", "kernel"} /\ UNCHANGED <<name, loads>>

ConfigRefused ==
  /\ stage = "config" /\ Refused
  /\ name' = name + 1 /\ stage' = IF name < Len(ConfigNames) THEN "config" ELSE "kernel"
  /\ UNCHANGED loads

(* print_message_file *)
MessageShown == pc = "open" /\ stage = "message" /\ Closed /\ stage' = "kernel" /\ UNCHANGED <<name, loads>>
MessageRefused == stage = "message" /\ Refused /\ stage' = "kernel" /\ UNCHANGED <<name, loads>>

(* yaboot_text_ui: the image is read, or is none, and closed; then the     *)
(* ramdisk if there is one; then the kernel is entered or the prompt back. *)
Again == stage' = (IF loads < MaxLoads THEN "kernel" ELSE "over") /\ loads' = loads + 1

KernelRead ==
  /\ pc = "open" /\ stage = "kernel" /\ Closed
  /\ \/ stage' \in {"ramdisk", "over"} /\ UNCHANGED loads
     \/ Again
  /\ UNCHANGED name

KernelRefused == stage = "kernel" /\ Refused /\ Again /\ UNCHANGED name

RamdiskRead ==
  /\ pc = "open" /\ stage = "ramdisk" /\ Closed
  /\ \/ stage' = "over" /\ UNCHANGED loads
     \/ Again
  /\ UNCHANGED name

RamdiskRefused == stage = "ramdisk" /\ Refused /\ Again /\ UNCHANGED name

-----------------------------------------------------------------------------
Opens ==
  \/ Walk /\ UNCHANGED <<caller, want, at, fs, device, opened, unset>>
  \/ Start \/ SkipPart \/ NotFound
  \/ Ext2 \/ Xfs \/ Reiserfs \/ DriverFails \/ TreeUnreadable \/ OfDriver
  \/ Bare \/ BareFails \/ Download \/ DownloadFails

Calls ==
  \/ OpenConfig \/ OpenOther
  \/ ConfigRead \/ ConfigRefused \/ MessageShown \/ MessageRefused
  \/ KernelRead \/ KernelRefused \/ RamdiskRead \/ RamdiskRefused

Next == Opens \/ Calls

Spec == Init /\ [][Next]_vars /\ WF_vars(Opens)

-----------------------------------------------------------------------------
(* Whatever failed on the way, between two files no handle of the firmware *)
(* is left open and the ext2 driver is free; otherwise every later open    *)
(* of an ext2 file would be refused as busy.                               *)
NothingLeftOpen == pc \in {"idle", "refused"} => live = 0 /\ ~opened

(* A file is opened from a partition that was asked for and that holds it, *)
(* by the driver of its file system; one that is there is refused only     *)
(* when something failed.                                                  *)
Reachable(h) ==
  /\ want.part \in {AnyPart, h.number} /\ want.name \in h.files
  /\ h.fs \in {"ext2", "xfs", "reiserfs"} \/ h.reads

FindsFile ==
  /\ pc = "open" /\ fs # "net" /\ ~unset =>
       IF list = <<>> THEN want.name \in disk.bare
       ELSE \E h \in disk.holds : Reachable(h) /\ h.fs = fs /\ h.at = Here.at
  /\ pc = "refused" /\ want.dev = "block" /\ ~failed =>
       \A h \in disk.holds : ~Reachable(h)

(* Every open comes to an end: the walk of a label and of drivers over     *)
(* partitions stops, also where the blocks of an Amiga label run in a      *)
(* circle.  (A chain of msdos tables that does is followed for ever.)      *)
OpenReturns == pc = "lookup" ~> pc \in {"open", "refused"}

-----------------------------------------------------------------------------
(***************************************************************************)
(* What the safety properties above rest on, step by step.                 *)
(***************************************************************************)

(* The handle of partitions_lookup is open while it reads the label, that  *)
(* of a driver while the file is; fs_ext2.c holds its statics exactly      *)
(* while the open file is one of its own.                                  *)
Reading == {"boot", "mac", "gpt", "msdos", "chain", "iso", "rdb", "part", "close"}

LiveInv ==
  /\ live = IF pc \in Reading \/ (pc = "open" /\ device = "open") THEN 1 ELSE 0
  /\ opened <=> pc = "open" /\ fs = "ext2"

(* Where the steps of an open are, and for which kind of device. *)
PlaceInv ==
  /\ disk \in Disks /\ at.part \in Nat \ {0} /\ at.driver \in DOMAIN Drivers
  /\ pc \in Reading \union {"idle", "lookup", "listed", "try", "bare", "download", "open", "refused"}
  /\ pc \in Reading \union {"lookup", "listed", "try", "bare"} => want.dev = "block"
  /\ pc = "download" => want.dev = "net"
  /\ pc = "open" => (fs = "net" <=> want.dev = "net") /\ (fs # "net" => want.dev = "block")

(* The list stays what partitions_lookup returned. *)
ListInv ==
  /\ pc \in {"listed", "try", "bare"} => Listed
  /\ pc = "bare" => list = <<>>

(* No driver tried so far could have opened the file, unless one failed. *)
OpensWith(p, d) == Held(p).fs = d /\ HasFile(p) /\ (d = "of" => OfMay(p))

TriedInv ==
  pc = "try" /\ ~failed =>
    \A j \in DOMAIN list, d \in DOMAIN Drivers :
      Fits(list[j]) /\ (j < at.part \/ (j = at.part /\ d < at.driver)) => ~OpensWith(list[j], Drivers[d])
==============================================================================
