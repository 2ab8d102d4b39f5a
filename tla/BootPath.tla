------------------------------- MODULE BootPath -------------------------------
(***************************************************************************)
(* yaboot_start, yaboot_main and get_params of yaboot.c as far as they     *)
(* name files: once it has started, possibly twice, the loader makes the   *)
(* boot path the default device, conf= may replace it,                     *)
(* the configuration is looked for on it and changes it, and one attempt   *)
(* after another names a kernel and a ramdisk relative to it.              *)
(*                                                                         *)
(* boot is what firmware hands over: the path, NULL without one, and the   *)
(* arguments, in words; whether a configuration is built in; and conf, the *)
(* file the arguments are meant to name.  Whether a file is there, and can *)
(* be loaded, is left open.                                                *)
(***************************************************************************)
EXTENDS Integers, SequencesExt, CpuTable

-----------------------------------------------------------------------------
(***************************************************************************)
(* parse_device_path.c: a path as firmware writes it                       *)
(*   <device>:<partition>,<directory><file>           on a disk            *)
(*   <device>:<options>,<server>,<file>,<the rest>    on the network       *)
(* is taken apart into a path_description, kept as what relative paths are *)
(* completed with, and put together again.                                 *)
(*                                                                         *)
(* A string is a sequence of words and of the delimiters : , / \ =, and a  *)
(* word is a name, a number or an address.  The two pointers of the union  *)
(* in path_description are s1 (ip_before_filename) and s2 (directory,      *)
(* ip_after_filename).  Of the flags only those that somebody reads are    *)
(* kept.  malloc is taken to succeed, words are shorter than their buffers *)
(* and there is no bare "blksize," (parse_options never gets past it).     *)
(***************************************************************************)

CONSTANTS
  DevTypes,     (* device_type of each device firmware knows *)
  Number,       (* of the words that begin with digits: the number *)
  Addresses     (* the words ascii_to_ipv4 accepts *)

VARIABLE chosen (* of /chosen: nas, the string nas-bootdevice; bootp, the server, client,  *)
                (* router ("" for none) and netmask of bootp-response.  NULL: missing.    *)

(* A plausible error in the definitions below. *)
Comma_Always(d) == <<",">>       (* also after filename= *)

(* F(x), with x a value. *)
With(x, F(_)) == CHOOSE y \in {F(z) : z \in {x}} : TRUE

NULL == <<"(null)">>
Text(p) == IF p = NULL THEN <<>> ELSE p

NoPath == [type |-> "unset", part |-> 0, flags |-> {}, device |-> NULL, s1 |-> NULL, s2 |-> NULL, file |-> NULL]

StrChr(s, c)  == SelectInSeq(s, LAMBDA x : x = c)         (* 0 for none *)
StrRChr(s, c) == SelectLastInSeq(s, LAMBDA x : x = c)
Past(s, n)  == SubSeq(s, n + 1, Len(s))
(* Where what begins after n words of s ends, at c or at the end. *)
EndAt(s, n, c) == CHOOSE e \in n..Len(s) : (e = Len(s) \/ s[e + 1] = c) /\ \A k \in n + 1..e : s[k] # c
Upto(s, c)  == SubSeq(s, 1, EndAt(s, 0, c))
Strtol(s, d) == IF s # <<>> /\ Head(s) \in DOMAIN Number THEN Number[Head(s)] ELSE d
Digits(n) == <<ToString(n)>>

Cut(r, rest, n) == [r EXCEPT !.s2 = IF n = 0 THEN @ ELSE SubSeq(rest, 1, n), !.file = Past(rest, n)]

ParseBlock(r, s) ==
  With(Past(s, StrChr(s, ",")), LAMBDA rest :
    Cut([r EXCEPT !.part = IF Strtol(s, 0) <= 0 THEN -1 ELSE Strtol(s, 0)], rest,
        IF StrRChr(rest, "/") # 0 THEN StrRChr(rest, "/") ELSE StrRChr(rest, "\\")))

Interface == [o \in {"duplex", "speed", "promiscuous"} |-> {}]
Commands == [o \in {"iscsi"} |-> {"iscsi"}]
Qualifiers == [o \in {"rawio", "ipv6", "bootp", "dhcpv6", "isns", "slp"} |-> IF o = "ipv6" THEN {o} ELSE {}]
Bootstrap ==
  [o \in {"dhcpv6", "ciaddr", "giaddr", "siaddr", "filename", "tftp-retries", "blksize"} |->
     (IF o = "dhcpv6" THEN {} ELSE {"needs ="}) \cup (IF o = "filename" THEN {o} ELSE {})]

(* The option after n words of s is one of the table. *)
IsOption(s, n, table) ==
  /\ n < Len(s) /\ s[n + 1] \in DOMAIN table
  /\ n + 1 = Len(s) \/ s[n + 2] \in {"=", ","}
  /\ "needs =" \in table[s[n + 1]] => n + 1 < Len(s) /\ s[n + 2] = "="

(* How far the options of a table go from at, and their flags.  The last   *)
(* option of the string is not passed over: no comma follows it.           *)
ParseOptions(s, at, table) ==
  LET after[n \in 0..Len(s)] ==
        IF ~IsOption(s, n, table) THEN [at |-> n, flags |-> {}]
        ELSE IF "filename" \in table[s[n + 1]] THEN [at |-> n + 2, flags |-> table[s[n + 1]]]
        ELSE With(EndAt(s, n, ","), LAMBDA e :
               IF e = Len(s) THEN [at |-> n, flags |-> table[s[n + 1]]]
               ELSE [after[e + 1] EXCEPT !.flags = @ \cup table[s[n + 1]]])
  IN after[at]

IscsiOptions(r) ==
  [r EXCEPT !.part = -1, !.type = "iscsi", !.device = IF chosen.nas = NULL THEN @ ELSE chosen.nas]

(* What follows n words of s: the file name up to a comma, and the rest. *)
FileAndRest(r, s, n) ==
  With(EndAt(s, n, ","), LAMBDA e :
    [r EXCEPT !.file = SubSeq(s, n + 1, e), !.s2 = IF e = Len(s) THEN @ ELSE Past(s, e + 1)])

TftpIpv6(r, s, at) ==
  With(ParseOptions(s, at, Bootstrap), LAMBDA o :
    IF o.at = at THEN r ELSE FileAndRest([r EXCEPT !.s1 = SubSeq(s, 1, o.at)], s, o.at))

(* Firmware with bootp-response wants all addresses written out: those of  *)
(* the response, and the numbers that stand in the path after the file and *)
(* the client.  A path that ends before bootp-retry has the field it ends  *)
(* with read as that number.  A gateway among the options of the response  *)
(* goes before the one in the path.                                        *)
AsciiToIpv4(word) == IF word # <<>> /\ word[1] \in Addresses THEN word[1] ELSE "0.0.0.0"
Gateway(inPath) == IF chosen.bootp[3] # "" THEN chosen.bootp[3] ELSE inPath

CASNumbers(f) ==
  [gateway |-> Gateway(IF Len(f) >= 5 THEN AsciiToIpv4(f[4]) ELSE "0.0.0.0"),
   bootpRetry |-> IF Len(f) \in {1, 3} THEN 5 ELSE Strtol(f[IF Len(f) >= 5 THEN 5 ELSE Len(f)], 5),
   tftpRetry |-> IF Len(f) >= 6 THEN Strtol(f[6], 5) ELSE 5]

(* f: what stands between the commas *)
IbmCAS(r, before, f) ==
  With(CASNumbers(f), LAMBDA n :
    [r EXCEPT !.file = IF Len(f) = 1 THEN @ ELSE f[2],
              !.s1 = before \o <<chosen.bootp[1]>>,
              !.s2 = <<chosen.bootp[2], ",", n.gateway, ",">> \o Digits(n.bootpRetry) \o <<",">> \o Digits(n.tftpRetry)
                       \o <<",", chosen.bootp[4], ",", "1024">>])

Fields(s, at) ==
  LET from[n \in at..Len(s)] ==
        With(EndAt(s, n, ","), LAMBDA e : <<SubSeq(s, n + 1, e)>> \o IF e = Len(s) THEN <<>> ELSE from[e + 1])
  IN from[at]

TftpIpv4(r, s, at) ==
  IF at = Len(s) THEN [r EXCEPT !.s1 = s]
  ELSE IF chosen.bootp # NULL THEN With(Fields(s, at), LAMBDA f : IbmCAS(r, SubSeq(s, 1, at), f))
  ELSE With(EndAt(s, at, ","), LAMBDA e :
         IF e = Len(s) THEN [r EXCEPT !.s1 = Past(s, at)]
         ELSE FileAndRest([r EXCEPT !.s1 = SubSeq(s, 1, e)], s, e + 1))

Tftp(r, s, at) == IF "ipv6" \in r.flags THEN TftpIpv6(r, s, at) ELSE TftpIpv4(r, s, at)

ParseNet(r, s) ==
  With(ParseOptions(s, 0, Interface), LAMBDA a :
  With(ParseOptions(s, a.at, Commands), LAMBDA b :
  With(ParseOptions(s, b.at, Qualifiers), LAMBDA c :
  With([r EXCEPT !.flags = a.flags \cup b.flags \cup c.flags], LAMBDA q :
    IF "iscsi" \in q.flags THEN IscsiOptions(q) ELSE Tftp(q, s, c.at)))))

(* prom_get_devtype *)
DevType(device) ==
  IF device \notin DOMAIN DevTypes THEN "invalid"
  ELSE CASE DevTypes[device] = "block" -> "block" [] DevTypes[device] = "network" -> "net" [] OTHER -> "unknown"

(* r: device and type are known; s: what follows the colon *)
ParseOn(r, s) ==
  CASE r.type = "block" -> [ok |-> TRUE, d |-> ParseBlock(r, s)]
    [] r.type = "net"   -> [ok |-> TRUE, d |-> ParseNet(r, s)]
    [] OTHER -> [ok |-> FALSE, d |-> r]

ParseDevicePath(s) ==
  IF s = NULL THEN [ok |-> FALSE, d |-> NoPath]
  ELSE With(Upto(s, ":"), LAMBDA device :
       With(Past(s, Len(device) + 1), LAMBDA rest :
       With([NoPath EXCEPT !.device = device, !.type = DevType(device)], LAMBDA r : ParseOn(r, rest))))

Part(d) == IF d.part > 0 THEN Digits(d.part) ELSE <<>>
Comma(d) == IF "ipv6" \in d.flags THEN <<>> ELSE <<",">>

PathDescriptionToString(d) ==
  CASE d.type \in {"block", "iscsi"} -> d.device \o <<":">> \o Part(d) \o <<",">> \o Text(d.s2) \o d.file
    [] d.type = "net" -> d.device \o <<":">> \o d.s1 \o Comma(d) \o d.file \o (IF d.s2 = NULL THEN <<>> ELSE <<",">> \o d.s2)
    [] OTHER -> NULL

IsShortcut(s) == Len(s) > 1 /\ s[1] = "&device;" /\ s[2] = ":"
IsAbsolute(s) == s # <<>> /\ s[1] \in {"/", "\\"}

(* The pathname that a path without a device, or with &device;, becomes. *)
Completed(s, default) ==
  LET past == Past(s, 2)
      start == default.device \o <<":">>
  IN CASE default.type = "block" /\ IsShortcut(s) -> start \o past
       [] default.type = "block" /\ ~IsShortcut(s) ->
            start \o Part(default) \o <<",">> \o (IF IsAbsolute(s) THEN <<>> ELSE Text(default.s2)) \o s
       [] default.type = "net" /\ IsShortcut(s) ->
            start \o Text(default.s1) \o Comma(default) \o past \o Text(default.s2)
       [] default.type = "net" /\ ~IsShortcut(s) ->
            start \o Text(default.s1) \o Comma(default) \o s \o (IF default.s2 = NULL THEN <<>> ELSE <<",">> \o default.s2)
       [] OTHER -> NULL

ImagepathToPathDescription(s, default) ==
  With(StrChr(s, ":") # 0 /\ ~IsShortcut(s), LAMBDA full :
    IF ~full /\ default.type = "iscsi"
    THEN [ok |-> TRUE, d |-> [NoPath EXCEPT !.part = default.part, !.device = default.device, !.file = s]]
    ELSE With(IF full THEN s ELSE Completed(s, default), LAMBDA pathname : ParseDevicePath(pathname)))

SetDefaultDevice(dev, partition, default) ==
  LET d == IF dev = NULL THEN default ELSE [default EXCEPT !.device = Upto(dev, ":"), !.type = DevType(Upto(dev, ":"))]
      n == Strtol(partition, -1)
  IN IF partition = NULL \/ Len(partition) # 1 \/ partition[1] # ToString(n) THEN d
     ELSE [d EXCEPT !.part = n, !.type = IF @ = "unset" THEN "block" ELSE @]
-----------------------------------------------------------------------------
(***************************************************************************)
(* yaboot_start, and yaboot_main up to the boot path: the handles yaboot   *)
(* lives on, the processor, and the note that makes firmware move itself   *)
(* out of the way.  Firmware may reset the machine when it gets the note,  *)
(* and then starts yaboot again.                                           *)
(*                                                                         *)
(* fw is the firmware: handles, what it has in /chosen; nodes and pvr, the *)
(* device tree and the version register of its processor; options, those   *)
(* of /options that are set, in megabytes; loader, whether it has          *)
(* /packages/elf-loader.  The heap that is claimed in between is that of   *)
(* BootLoad, and a Mac's screen is taken to be open.                       *)
(***************************************************************************)

CONSTANT Residues   (* numbers that what lies on the stack may read as; not 32 *)

VARIABLES pc, fw

-----------------------------------------------------------------------------
(* Plausible errors in the definitions below. *)
WantsNote_Above(cpu, base, size) == cpu = 64 /\ base >= 12 /\ size > 16   (* where it shall lie is too high *)

-----------------------------------------------------------------------------
Needed == {"/chosen", "stdout", "stdin", "mmu"}

(* prom_init: each of the four is asked for, and yaboot leaves without it. *)
PromInit ==
  /\ pc = "firmware"
  /\ pc' = IF Needed \subseteq fw.handles THEN "cpu" ELSE "stopped"
  /\ UNCHANGED fw

(* Without a cpu node yaboot_start goes back to firmware. *)
FindCpu ==
  /\ pc = "cpu" /\ pc' = IF BootCpu(fw.nodes) = 0 THEN "stopped" ELSE "note"
  /\ UNCHANGED fw

(* An option that is not set leaves the buffer, which nobody cleared, as   *)
(* it was.                                                                 *)
GetOptionsLong(name, tmp) == IF name \in DOMAIN fw.options THEN fw.options[name] ELSE tmp

(* fake_elf: it says where firmware is to lie and "don't care" to the rest *)
DontCare == -1
Note == [o \in {"real-base", "real-size", "virt-base", "virt-size", "load-base"} |-> IF o = "real-base" THEN 12 ELSE DontCare]

WantsNote(cpu, base, size) == cpu = 64 /\ base = 32 /\ size > 16

(* process-elf-header: firmware keeps what the note says for the next      *)
(* start, and starts at once or goes on; or it does not heed the note.     *)
ProcessElfHeader ==
  \/ /\ fw' = [fw EXCEPT !.options = [o \in DOMAIN @ |-> IF Note[o] = DontCare THEN @[o] ELSE Note[o]]]
     /\ pc' \in {"firmware", "start"}
  \/ pc' = "start" /\ UNCHANGED fw

(* load_fake_elf_note.  Both numbers are read into a buffer at the same    *)
(* place of the stack.                                                     *)
LoadFakeElfNote ==
  /\ pc = "note"
  /\ \E tmp \in Residues : \E base \in {GetOptionsLong("real-base", tmp)} :
       IF WantsNote(CpuType(fw.nodes, fw.pvr), base, GetOptionsLong("real-size", base)) /\ fw.loader
       THEN ProcessElfHeader
       ELSE pc' = "start" /\ UNCHANGED fw

Starting == PromInit \/ FindCpu \/ LoadFakeElfNote

(***************************************************************************)
(* Firmware that was given the note and started again is not given it for  *)
(* ever: yaboot comes to its boot path, or is left at once.                *)
(***************************************************************************)
ComesUp == <>[](pc \notin {"firmware", "cpu", "note"})

-----------------------------------------------------------------------------
CONSTANTS
  Boots,     (* the records boot may be, with the firmware and the properties of /chosen *)
  ConfigsOf(_),   (* what the configuration may say: [global, images]: device, partition, initrd; and image *)
  Typed,     (* paths typed instead of a label *)
  Initrds,   (* of initrd= on the command line; NULL for none *)
  BlockNames, NetNames   (* config_file_names_block and _net *)

VARIABLES
  boot,
  default,      (* default_device *)
  configfile,   (* what conf= says, while it can be parsed *)
  name,         (* of the configuration names that is tried *)
  config,       (* what the configuration says; None while useconf is 0 *)
  imgDef,       (* img_def_device *)
  asked,        (* the paths that were to be resolved: kernel and ramdisk *)
  kernel, rd,   (* of params *)
  spec          (* config_fspec *)

vars == <<chosen, fw, pc, boot, default, configfile, name, config, imgDef, asked, kernel, rd, spec>>

None == [global |-> [device |-> NULL, partition |-> NULL, initrd |-> NULL], images |-> <<>>]

-----------------------------------------------------------------------------
(* Plausible errors in the definitions below. *)
ImageOption_Global(i, item) == config.global[item]    (* the section is not asked *)

ConfFilepath_First(args) ==                           (* the first conf=, not the last *)
  With(StrChr(args, "conf="), LAMBDA n :
    IF n \in {0, EndAt(args, n, " ")} THEN NULL ELSE SubSeq(args, n + 1, EndAt(args, n, " ")))

-----------------------------------------------------------------------------

Init ==
  /\ boot \in Boots /\ chosen = [nas |-> boot.nas, bootp |-> boot.bootp] /\ fw = boot.firmware
  /\ pc = "firmware" /\ default = NoPath /\ configfile = NULL /\ name = 1 /\ config = None
  /\ imgDef = NoPath /\ asked = [kernel |-> NULL, rd |-> NULL]
  /\ kernel = NoPath /\ rd = NoPath /\ spec = NoPath

StartUpStep == Starting /\ UNCHANGED <<chosen, boot, default, configfile, name, config, imgDef, asked, kernel, rd, spec>>

(* Without a boot path there is no default device. *)
SetBootpath ==
  /\ pc = "start"
  /\ \E r \in {ParseDevicePath(boot.path)} :
       default' = r.d /\ pc' = IF r.ok \/ boot.path = NULL THEN "args" ELSE "stopped"
  /\ UNCHANGED <<chosen, fw, boot, configfile, name, config, imgDef, asked, kernel, rd, spec>>

(* check_manual_config_filepath: what follows the last conf= up to a       *)
(* blank.                                                                  *)
ConfFilepath(args) ==
  With(StrRChr(args, "conf="), LAMBDA n :
    IF n \in {0, EndAt(args, n, " ")} THEN NULL ELSE SubSeq(args, n + 1, EndAt(args, n, " ")))

(* The description of conf= is written over the default device it is to be *)
(* completed with, which is cleared first.                                 *)
ReadArgs ==
  /\ pc = "args" /\ pc' = "find"
  /\ \E conf \in {ConfFilepath(boot.args)} :
       IF conf = NULL THEN UNCHANGED <<default, configfile>>
       ELSE \E r \in {ImagepathToPathDescription(conf, NoPath)} :
              default' = r.d /\ configfile' = IF r.ok THEN conf ELSE NULL
  /\ UNCHANGED <<chosen, fw, boot, name, config, imgDef, asked, kernel, rd, spec>>

(* process_configfile *)
Processed(c) ==
  /\ config' = c /\ pc' = "prompt"
  /\ default' = SetDefaultDevice(c.global.device, c.global.partition, default)

NoConfig == pc' = "prompt" /\ UNCHANGED <<default, config>>

(* load_config_file: one name, and no other when it is not there. *)
LoadConfigFile ==
  /\ pc = "find" /\ configfile # NULL
  /\ \E r \in {ImagepathToPathDescription(configfile, default)} :
       /\ spec' = r.d
       /\ NoConfig \/ (r.ok /\ \E c \in ConfigsOf(boot.path) : Processed(c))
  /\ UNCHANGED <<chosen, fw, boot, configfile, name, imgDef, asked, kernel, rd>>

UseBuiltIn ==
  /\ pc = "find" /\ configfile = NULL /\ boot.builtIn
  /\ \E c \in ConfigsOf(boot.path) : Processed(c)
  /\ UNCHANGED <<chosen, fw, boot, configfile, name, imgDef, asked, kernel, rd, spec>>

ConfigNames ==
  CASE default.type = "net" -> NetNames [] default.type \in {"iscsi", "block"} -> BlockNames [] OTHER -> <<>>

Searches == pc = "find" /\ configfile = NULL /\ ~boot.builtIn

(* find_and_load_config_file: one turn of its loop, and its end. *)
FindConfigFile ==
  /\ Searches /\ name <= Len(ConfigNames)
  /\ \E r \in {ImagepathToPathDescription(ConfigNames[name], default)} :
       /\ spec' = r.d
       /\ \/ name' = name + 1 /\ UNCHANGED <<pc, default, config>>
          \/ r.ok /\ (\E c \in ConfigsOf(boot.path) : Processed(c)) /\ UNCHANGED name
  /\ UNCHANGED <<chosen, fw, boot, configfile, imgDef, asked, kernel, rd>>

NotFound ==
  /\ Searches /\ name > Len(ConfigNames) /\ NoConfig
  /\ UNCHANGED <<chosen, fw, boot, configfile, name, imgDef, asked, kernel, rd, spec>>

-----------------------------------------------------------------------------
(* get_params *)

ImageOption(i, item) ==
  IF config.images[i][item] # NULL THEN config.images[i][item] ELSE config.global[item]

Global == SetDefaultDevice(config.global.device, config.global.partition, default)

(* A ramdisk whose path cannot be parsed is reported and then left out. *)
Resolve(image, initrd, d) ==
  \E k \in {ImagepathToPathDescription(image, d)},
     r \in {With(initrd, LAMBDA p : IF p = NULL THEN NoPath ELSE ImagepathToPathDescription(p, d).d)} :
    /\ kernel' = k.d /\ imgDef' = d /\ asked' = [kernel |-> image, rd |-> IF k.ok THEN initrd ELSE NULL]
    /\ rd' = IF k.ok THEN r ELSE NoPath
    /\ pc' = IF k.ok THEN "load" ELSE "prompt"
  /\ UNCHANGED <<chosen, fw, boot, default, configfile, name, config, spec>>

Initrd(typed, option) == IF typed # NULL THEN typed ELSE option

ChooseLabel ==
  /\ pc = "prompt"
  /\ \E i \in 1..Len(config.images), typed \in Initrds :
       \E d \in {SetDefaultDevice(ImageOption(i, "device"), ImageOption(i, "partition"), Global)} :
         Resolve(config.images[i].image, Initrd(typed, ImageOption(i, "initrd")), d)

TypePath ==
  /\ pc = "prompt"
  /\ \E path \in Typed, typed \in Initrds, d \in {Global} :
       Resolve(path, Initrd(typed, config.global.initrd), d)

(* The kernel or the ramdisk cannot be loaded. *)
Again ==
  /\ pc = "load" /\ pc' = "prompt"
  /\ UNCHANGED <<chosen, fw, boot, default, configfile, name, config, imgDef, asked, kernel, rd, spec>>

Next ==
  \/ StartUpStep \/ SetBootpath \/ ReadArgs \/ LoadConfigFile \/ UseBuiltIn \/ FindConfigFile \/ NotFound
  \/ ChooseLabel \/ TypePath \/ Again

(* yaboot is one thread, and firmware that resets starts it again. *)
Spec == Init /\ [][Next]_vars /\ WF_vars(StartUpStep)

-----------------------------------------------------------------------------
HasDevice(path) == StrChr(path, ":") # 0

(* What yaboot was loaded from, or what conf= names in its place. *)
Base ==
  With(boot.conf, LAMBDA conf :
    IF conf = NULL THEN ParseDevicePath(boot.path).d ELSE ImagepathToPathDescription(conf, NoPath).d)

(* Firmware that wants all addresses and whose boot path has none gets     *)
(* those of its bootp-response.                                            *)
Filled(base) == chosen.bootp # NULL /\ base.s2 = NULL /\ "ipv6" \notin base.flags

(* d is the file that path, which has no device, means on the device on:   *)
(* the name stands in place of the file yaboot was loaded from, on a disk  *)
(* under the directory of that file unless it begins with / or \.          *)
Means(d, path, on) ==
  LET dir == IF on.type # "block" \/ IsAbsolute(path) THEN <<>> ELSE Text(on.s2)
  IN /\ d.device = on.device
     /\ d.type = "block" \/ on.type = "iscsi" => d.part = IF on.part > 0 THEN on.part ELSE -1
     /\ (IF d.type = "block" THEN Text(d.s2) ELSE <<>>) \o Text(d.file) = dir \o path
     /\ d.type = "net" => IF Filled(on) THEN d.s1 = on.s1 \o <<chosen.bootp[1]>> ELSE d.s1 = on.s1 /\ d.s2 = on.s2

(* What the documentation says the default device is: what stands in the   *)
(* section of the image, what stands above all sections, and the device    *)
(* yaboot was loaded from.                                                 *)
Documented(base, sections) ==
  LET devices == SelectSeq(sections, LAMBDA x : x.device # NULL)
      numbers == SelectSeq(sections, LAMBDA x : x.partition[1] \in DOMAIN Number)
  IN [base EXCEPT !.device = IF devices = <<>> THEN @ ELSE Upto(devices[1].device, ":"),
                  !.part = IF numbers = <<>> THEN @ ELSE Number[numbers[1].partition[1]]]

(* The section that was chosen, the one whose image was asked for, and what *)
(* stands above it.                                                         *)
Sections == SelectSeq(config.images, LAMBDA x : x.image = asked.kernel) \o <<config.global>>

(* A path without a device names a file where yaboot was loaded from,      *)
(* device= and partition= override that, and those of the image come       *)
(* first: true of every configuration file that is looked for, kernel and  *)
(* ramdisk, after any number of attempts with other images.                *)
RelativeStays ==
  /\ pc = "load" =>
       \A base \in {Base}, sections \in {Sections} :
         \A on \in {Documented(base, sections)} :
           /\ ~HasDevice(asked.kernel) => Means(kernel, asked.kernel, on)
           /\ rd.file # NULL /\ ~HasDevice(asked.rd) => Means(rd, asked.rd, on)
  /\ pc = "find" /\ configfile = NULL /\ spec.device # NULL =>
       \A base \in {Base} : \E n \in 1..Len(ConfigNames) : Means(spec, ConfigNames[n], base)

(* The path that is printed, and told to the kernel in yaboot,image, names *)
(* the file that was opened: parsed again it gives the same description.   *)
PrintedNamesSame ==
  \A d \in {kernel, rd} :
    pc = "load" /\ d.file # NULL /\ d.type \in {"block", "net"} =>
      \E s \in {PathDescriptionToString(d)} : ParseDevicePath(s) = [ok |-> TRUE, d |-> d]
=============================================================================
