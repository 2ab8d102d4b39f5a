------------------------------- MODULE TextUI -------------------------------
(***************************************************************************)
(* What yaboot boots and who allowed it: the prompt (get_params), the      *)
(* password (check_password), the two ways a command line is left for the  *)
(* next start -- the boot-once line in block 0 of the disk and the         *)
(* boot-last-label variable for a firmware that has to reboot -- and the   *)
(* loop of yaboot_text_ui around them.  Loading succeeds or fails here;    *)
(* BootLoad says how.                                                      *)
(*                                                                         *)
(* A command line is [name, args].  word_split leaves args NULL when       *)
(* nothing follows the name, while a line chosen without typing has the    *)
(* empty string there; the code tells the two apart.                       *)
(***************************************************************************)
EXTENDS Integers, Sequences

CONSTANTS
  Configs,      (* what yaboot.conf may say, see Config below *)
  Labels,       (* the image sections *)
  Custom,       (* a path that is no label *)
  Args,         (* arguments a user may add *)
  ZeroPages,    (* what the bytes at address 0 may read as: args or Empty *)
  Macs,         (* whether the boot disk may have a Mac partition map *)
  Lines,        (* what is typed or left on the disk *)
  HeapMayFail,  (* malloc may return NULL *)
  MaxStarts     (* bound: times yaboot is started *)

(* Named words of the prompt, and values that are no name and no args. *)
Blank == "blank"
Null  == "NULL"
Empty == "empty"

Commands == {"help", "halt", "bye", "forth"}
Names    == Labels \union Commands \union {Custom, Blank}
Line     == [name : Names, args : Args \union {Null, Empty}]
NoLine   == [name |-> "none", args |-> Null]

(* useconf: the file was parsed; timer: the timeout option; restricted and *)
(* single: the labels that have restricted (or inherit it) and single-key; *)
(* default: the default image or first label.                              *)
Config == [useconf : BOOLEAN, timer : {"unset", "zero", "set"}, password : BOOLEAN,
           restricted : SUBSET Labels, single : SUBSET Labels,
           default : Labels \union {Custom}]

ASSUME UIAssumption ==
  /\ Configs \subseteq Config
  /\ ZeroPages \subseteq Args \union {Empty} /\ Macs \subseteq BOOLEAN /\ HeapMayFail \in BOOLEAN
  /\ {Null, Empty} \intersect Args = {} /\ Lines \subseteq Line
  /\ Custom \notin Labels /\ MaxStarts \in Nat
  /\ (Commands \union {Blank, "none"}) \intersect (Labels \union {Custom}) = {}

VARIABLES
  pc,
  cfg,        (* the configuration read at this start *)
  zero,       (* the bytes at address 0 *)
  mac,        (* the boot disk has a Mac partition map *)
  gpr,        (* the result get_params is called with *)
  once,       (* lilo_once_cmdline, or NoLine *)
  line,       (* cmdbuff while it is edited: Empty or the one key typed *)
  sel,        (* the line get_params settled on *)
  tries,      (* wrong passwords while one is asked for *)
  diskOnce,   (* the boot-once line in block 0, or NoLine *)
  saved,      (* boot-last-label in NVRAM, or NoLine *)
  cas,        (* the firmware says it rebooted for the kernel *)
  starts,
  authed,     (* history: how the password was answered for sel *)
  keyed,      (* history: somebody pressed a key since this start *)
  failed,     (* history: an attempt failed since this start *)
  uses,       (* history: starts that took diskOnce since it was set *)
  unwritten,  (* history: block 0 could not be written *)
  unsaved,    (* history: boot-last-label is not the line of the kernel entered *)
  running     (* history: the kernel last entered and its bootargs *)

label   == <<saved, unsaved>>
nvram   == <<label, diskOnce, cas>>
disk    == <<uses, unwritten>>
history == <<keyed, failed, disk, running>>
machine == <<cfg, zero, mac, starts>>
vars == <<pc, machine, gpr, once, line, sel, tries, nvram, authed, history>>

Labelled(l) == cfg.useconf /\ l.name \in Labels
Password    == cfg.useconf /\ cfg.password
DefaultLine == [name |-> cfg.default, args |-> Empty]

-----------------------------------------------------------------------------
(***************************************************************************)
(* Plausible errors in the definitions below, which the properties must    *)
(* tell from the code.                                                     *)
(***************************************************************************)
AsksPassword_LabelsOnly(l) ==        (* a custom image slips through *)
  /\ Password /\ Labelled(l)
  /\ l.args # Null \/ l.name \notin cfg.restricted

Saved_Label(l) == [l EXCEPT !.args = Null]          (* the arguments not saved *)

Written_Later(ok) == diskOnce                       (* block 0 not written back *)

UseOnce_Keeps ==                                    (* the line not cleared *)
  /\ pc = "prompt" /\ once # NoLine
  /\ pc' = "prompt"
  /\ UNCHANGED <<machine, gpr, once, line, sel, tries, nvram, authed, history>>

-----------------------------------------------------------------------------
Init ==
  /\ pc = "firmware" /\ cfg \in Configs /\ zero \in ZeroPages /\ mac \in Macs
  /\ gpr = "OK" /\ once = NoLine /\ line = Empty
  /\ sel = [name |-> Blank, args |-> Null]
  /\ tries = 0 /\ diskOnce = NoLine /\ saved = NoLine /\ cas = FALSE
  /\ starts = 0 /\ authed = "no"
  /\ keyed = FALSE /\ failed = FALSE /\ uses = 0 /\ unwritten = FALSE
  /\ unsaved = FALSE /\ running = NoLine

(***************************************************************************)
(* yaboot starts.  Looking at the partitions of a Mac disk for the         *)
(* configuration it takes the boot-once line and writes the block back     *)
(* without it; that the write failed is only printed.  yaboot_text_ui then *)
(* asks the firmware whether this is a reboot for the kernel and, if so,   *)
(* takes the saved line instead.                                           *)
(***************************************************************************)
Written(ok) == IF ok THEN NoLine ELSE diskOnce

Start ==
  /\ pc = "firmware" /\ starts < MaxStarts
  /\ starts' = starts + 1
  /\ cfg' \in Configs /\ (cas => cfg' = cfg)
  /\ pc' = "prompt" /\ gpr' = "OK"
  /\ \E ok \in BOOLEAN :
       /\ diskOnce' = IF mac THEN Written(ok) ELSE diskOnce
       /\ unwritten' = (unwritten \/ (mac /\ diskOnce # NoLine /\ ~ ok))
  /\ uses' = IF mac /\ diskOnce # NoLine THEN uses + 1 ELSE uses
  /\ once' = IF cas THEN saved ELSE IF mac THEN diskOnce ELSE NoLine
  /\ keyed' = FALSE /\ failed' = FALSE
  /\ UNCHANGED <<zero, mac, line, sel, tries, label, cas, authed, running>>

(* cmdlineinit or make_params_buffer: no memory, back to the firmware. *)
NoMemory ==
  /\ HeapMayFail /\ pc = "prompt"
  /\ pc' = "firmware" /\ cas' = FALSE /\ failed' = TRUE
  /\ UNCHANGED <<machine, gpr, once, line, sel, tries, label, diskOnce, authed,
                 keyed, disk, running>>

-----------------------------------------------------------------------------
(* The line is settled: an empty one means the default when there is a     *)
(* configuration, it is saved in NVRAM if there is memory for the text --  *)
(* else the variable keeps the line of an earlier time -- and labels are   *)
(* looked up.  A NULL args is read as whatever lies at address 0.          *)
Settled(l) == IF cfg.useconf /\ l.name = Blank
              THEN [l EXCEPT !.name = cfg.default] ELSE l

ReadArgs(l) == IF l.args = Null THEN zero ELSE l.args

Saved(l) == [l EXCEPT !.args = ReadArgs(l)]

AsksPassword(l) ==
  /\ Password /\ l.name # "help"
  /\ Labelled(l) => l.args # Null \/ l.name \notin cfg.restricted

Settle(l) ==
  /\ sel' = Settled(l)
  /\ \E stored \in IF HeapMayFail THEN BOOLEAN ELSE {TRUE} :
       saved' = IF stored THEN Saved(sel') ELSE saved
  /\ unsaved' = IF cas THEN unsaved ELSE saved' # Saved(sel')
  /\ authed' = "no" /\ tries' = 0
  /\ pc' = IF AsksPassword(sel') THEN "password" ELSE "act"
  /\ UNCHANGED <<machine, diskOnce, cas, failed, disk, running>>

(* What word_split makes of a stored line: empty arguments are gone. *)
Split(l) == IF l.args = Empty THEN [l EXCEPT !.args = Null] ELSE l

UseOnce ==
  /\ pc = "prompt" /\ once # NoLine
  /\ once' = NoLine
  /\ Settle(Split(once))
  /\ UNCHANGED <<gpr, line, keyed>>

Timed == gpr = "OK" /\ cfg.useconf /\ cfg.timer # "unset"

(* Nobody pressed a key in time, or timeout=0. *)
TimedOut ==
  /\ pc = "prompt" /\ once = NoLine /\ Timed
  /\ Settle(DefaultLine)
  /\ UNCHANGED <<gpr, once, line, keyed>>

(* A key while the time runs: return boots the default image, ... *)
ReturnInTime ==
  /\ pc = "prompt" /\ once = NoLine /\ Timed /\ cfg.timer = "set"
  /\ keyed' = TRUE
  /\ Settle(DefaultLine)
  /\ UNCHANGED <<gpr, once, line>>

(* ... the key of a single-key image boots that, ... *)
SingleKey(k) ==
  /\ pc = "prompt" /\ once = NoLine /\ Timed /\ cfg.timer = "set"
  /\ k \in cfg.single
  /\ keyed' = TRUE
  /\ Settle([name |-> k, args |-> Empty])
  /\ UNCHANGED <<gpr, once, line>>

(* ... and any other starts the line editor. *)
OtherKey(k) ==
  /\ pc = "prompt" /\ once = NoLine /\ Timed /\ cfg.timer = "set"
  /\ k \notin cfg.single
  /\ keyed' = TRUE /\ pc' = "edit" /\ line' = k
  /\ UNCHANGED <<machine, gpr, once, sel, tries, nvram, authed, failed, disk, running>>

Editor ==
  /\ pc = "prompt" /\ once = NoLine /\ ~ Timed
  /\ pc' = "edit" /\ line' = Empty
  /\ UNCHANGED <<machine, gpr, once, sel, tries, nvram, authed, history>>

TypeFirst(k) ==
  /\ pc = "edit" /\ line = Empty
  /\ line' = k /\ keyed' = TRUE
  /\ UNCHANGED <<pc, machine, gpr, once, sel, tries, nvram, authed, failed, disk, running>>

(* The rest of the line is typed and return pressed. *)
Enter(l) ==
  /\ pc = "edit"
  /\ keyed' = TRUE /\ line' = Empty
  /\ Settle(l)
  /\ UNCHANGED <<gpr, once>>

-----------------------------------------------------------------------------
(* check_password: three tries, then the machine is reset. *)
RightPassword ==
  /\ pc = "password"
  /\ pc' = "act" /\ authed' = "yes" /\ keyed' = TRUE /\ tries' = 0
  /\ UNCHANGED <<machine, gpr, once, line, sel, nvram, failed, disk, running>>

WrongPassword ==
  /\ pc = "password"
  /\ keyed' = TRUE
  /\ IF tries < 2 THEN tries' = tries + 1 /\ UNCHANGED <<pc, cas>>
                  ELSE tries' = 0 /\ pc' = "firmware" /\ cas' = FALSE
  /\ UNCHANGED <<machine, gpr, once, line, sel, label, diskOnce, authed,
                 failed, disk, running>>

(* passwdinit found no memory: check_password returns. *)
NoPasswordBuffer ==
  /\ HeapMayFail /\ pc = "password" /\ tries = 0
  /\ pc' = "act" /\ authed' = "nobuffer"
  /\ UNCHANGED <<machine, gpr, once, line, sel, tries, nvram, history>>

-----------------------------------------------------------------------------
(* What is not a label may be a command or nothing at all. *)
Command ==
  /\ pc = "act" /\ ~ Labelled(sel)
  /\ \/ /\ sel.name \in {"help", "forth", Blank}
        /\ pc' = "prompt" /\ gpr' = "STOP" /\ UNCHANGED cas
     \/ /\ sel.name \in {"halt", "bye"}
        /\ pc' = "firmware" /\ cas' = FALSE /\ UNCHANGED gpr
  /\ UNCHANGED <<machine, once, line, sel, tries, label, diskOnce, authed, history>>

IsImage == Labelled(sel) \/ sel.name \notin Commands \union {Blank}

(* The path does not parse, the kernel or its ramdisk does not load. *)
LoadFails ==
  /\ pc = "act" /\ IsImage
  /\ pc' = "prompt" /\ gpr' = "STOP" /\ failed' = TRUE
  /\ UNCHANGED <<machine, once, line, sel, tries, nvram, authed, keyed, disk, running>>

(* The kernel gets the image's own parameters and the arguments of the     *)
(* line: make_params copes with NULL, a custom image passes it on.         *)
BootArgs == IF Labelled(sel) /\ sel.args = Null THEN Empty ELSE ReadArgs(sel)

EnterKernel ==
  /\ pc = "act" /\ IsImage
  /\ pc' = "kernel" /\ gpr' = "OK"
  /\ running' = [name |-> sel.name, args |-> BootArgs]
  /\ UNCHANGED <<machine, once, line, sel, tries, nvram, authed, keyed, failed, disk>>

-----------------------------------------------------------------------------
(* The system that booted: it may leave a line for one boot, restart, or   *)
(* early on tell a pSeries firmware to reboot for it.  (setup_boot_once of *)
(* this lilo returns before it writes the line; another may have left it.) *)
SetOnce(l) ==
  /\ mac /\ pc = "kernel" /\ diskOnce = NoLine
  /\ diskOnce' = l /\ uses' = 0
  /\ UNCHANGED <<pc, machine, gpr, once, line, sel, tries, label, cas, authed,
                 keyed, failed, unwritten, running>>

Restart(asked) ==
  /\ pc = "kernel"
  /\ asked => ~ mac /\ ~ cas
  /\ pc' = "firmware" /\ cas' = asked
  /\ UNCHANGED <<machine, gpr, once, line, sel, tries, label, diskOnce, authed, history>>

-----------------------------------------------------------------------------
Step == \/ UseOnce \/ TimedOut \/ Editor \/ Command \/ LoadFails \/ EnterKernel

User == \/ ReturnInTime \/ RightPassword \/ WrongPassword
        \/ \E k \in Labels : SingleKey(k) \/ OtherKey(k) \/ TypeFirst(k)
        \/ \E l \in Lines : Enter(l)

World == \/ Start \/ NoMemory \/ NoPasswordBuffer
         \/ \E asked \in BOOLEAN : Restart(asked)
         \/ \E l \in Lines : SetOnce(l)

Next == Step \/ User \/ World
Spec == Init /\ [][Next]_vars

(* yaboot is one thread, its timer runs out, and firmware that was told to *)
(* reboot does so; keys come or do not.                                    *)
FairSpec == Spec /\ WF_vars(Step) /\ WF_vars(Start)

-----------------------------------------------------------------------------
(* What the manual protects: every image that is not restricted or not in  *)
(* the file, a restricted one that gets arguments, and the commands that   *)
(* leave yaboot or run Forth.                                              *)
Protected(l) ==
  /\ Password /\ l.name # "help"
  /\ Labelled(l) => l.name \notin cfg.restricted \/ l.args \in Args

(***************************************************************************)
(* Nothing protected is acted on unless the password was given for this    *)
(* very line, however it came about: typed, timed out, one key, left on    *)
(* the disk or saved before a reboot, and after any number of failures.    *)
(* Where there is no memory for the password buffer, check_password lets   *)
(* everybody through.                                                      *)
(***************************************************************************)
NoUnauthorisedBoot ==
  pc = "act" /\ Protected(sel) =>
    authed = "yes" \/ (HeapMayFail /\ authed = "nobuffer")

(* A line left on the disk is used by one start, even if that start or the *)
(* kernel it boots fails, as long as the disk can be written.              *)
OnceUsedOnce == unwritten \/ uses <= 1

(***************************************************************************)
(* "Store them in nvram in case the pSeries firmware has to reboot": the   *)
(* kernel that made the firmware reboot is entered again with the same     *)
(* arguments, if nobody touches the keyboard and it loads, whatever was    *)
(* stored before and however the line came about.  Two things the code     *)
(* does not promise: without memory for the text nothing is stored, and a  *)
(* line without arguments may come back with what lies at address 0.       *)
(***************************************************************************)
SameAfterReboot ==
  [][cas /\ ~ unsaved /\ ~ keyed /\ ~ failed /\ EnterKernel =>
       /\ running'.name = running.name
       /\ \/ running'.args = running.args
          \/ running.args = Empty /\ running'.args = zero]_vars

(***************************************************************************)
(* With a timeout, or a line left for this start, and no password, the     *)
(* first prompt leads on by itself: a kernel is entered, unless it does    *)
(* not load, somebody presses a key or the line is a command.              *)
(***************************************************************************)
UnattendedBoot ==
  pc = "prompt" /\ ~ Password /\
    (once # NoLine \/ (gpr = "OK" /\ cfg.useconf /\ cfg.timer # "unset"))
    ~> pc = "kernel" \/ failed \/ keyed \/ (pc = "act" /\ ~ IsImage)
=============================================================================
