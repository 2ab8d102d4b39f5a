------------------------------ MODULE MCBootPath ------------------------------
(***************************************************************************)
(* Instances of BootPath: boot paths of the kinds that util/split_of_path  *)
(* lists, on two disks and two network cards, with and without the         *)
(* bootp-response of newer firmware.                                       *)
(***************************************************************************)
EXTENDS BootPath

HD   == <<"hd">>
HD2  == <<"hd2">>
Net  == <<"enet">>
Net2 == <<"enet2">>
Disk == <<"nas-disk">>

MCDevTypes == HD :> "block" @@ HD2 :> "block" @@ Net :> "network" @@ Net2 :> "network" @@ Disk :> "block" @@ <<"tty">> :> "serial"
MCAddresses == {"10.0.0.1", "10.0.0.2", "10.0.0.3", "10.0.0.9", "0.0.0.0"}
MCNumber == "3" :> 3 @@ "5" :> 5 @@ "7" :> 7 @@ "9" :> 9 @@ "1024" :> 1024 @@ [a \in MCAddresses |-> IF a = "0.0.0.0" THEN 0 ELSE 10]

Response(router) == <<"10.0.0.1", "10.0.0.2", router, "mask">>

BlockPaths ==
  {HD \o <<":", "9", ",", "\\", "suse", "\\", "yaboot">>, HD \o <<":", "9", ",", "yaboot">>,
   HD \o <<":", "\\", "\\", "yaboot">>, HD \o <<":", ",", "\\", "\\", ":", "tbxi">>, HD, HD \o <<":", "9", ",", "/", "boot", "/", "yaboot">>}
Before == <<"speed", "=", "auto", ",", "bootp", ",">>
ToGateway == Net \o <<":">> \o Before \o <<"10.0.0.1", ",", "yaboot", ",", "10.0.0.2", ",", "10.0.0.3">>
PlainBootp == Net \o <<":", "bootp">>
NetPaths == {ToGateway, PlainBootp} \cup
  {Net \o p : p \in {
     <<>>, <<":", "bootp", ",">>, <<":", "10.0.0.1", ",", "yaboot">>, <<":", ",", "yaboot">>,
     <<":">> \o Before \o <<"10.0.0.1", ",", "yaboot", ",", "10.0.0.2", ",", "10.0.0.3", ",", "7">>,
     <<":">> \o Before \o <<"0.0.0.0", ",", ",", "0.0.0.0", ",", "10.0.0.3", ",", "7", ",", "9", ",", "mask", ",", "512">>,
     <<":", "10.0.0.1", ",", "5", ",", "10.0.0.2">>,
     <<":", "ipv6", ",", "dhcpv6", ",", "siaddr", "=", "fe80", ",", "filename", "=", "yaboot", ",", "blksize", "=", "512">>,
     <<":", "ipv6", ",", "ciaddr", "=", "fe80", ",", "filename", "=", "yaboot">>}}
OtherPaths == {Net \o <<":", "iscsi", ",", "ciaddr", "=", "10.0.0.2">>, <<"tty", ":">>, <<"nothing", ",", "yaboot">>}

(* Firmware: with one processor and all there is to have, its numbers, or  *)
(* with something missing.                                                 *)
Cpus == <<[type |-> "", wide |-> FALSE], [type |-> "cpu", wide |-> TRUE]>>
Plain == [handles |-> Needed, nodes |-> Cpus, pvr |-> <<64, 0>>, options |-> <<>>, loader |-> TRUE]
Firmwares ==
  {Plain} \cup {[Plain EXCEPT !.handles = @ \ {h}] : h \in Needed} \cup {[Plain EXCEPT !.nodes = <<Cpus[1]>>]} \cup
  {[Plain EXCEPT !.options = o, !.nodes[2].wide = w, !.loader = l] :
     o \in {"real-base" :> b : b \in {12, 32}} \cup {"real-base" :> b @@ "real-size" :> s : b \in {12, 32, 40}, s \in {16, 32}},
     w \in BOOLEAN, l \in BOOLEAN}
Registers == {<<64, 0>>, <<8, 0>>, <<2, 0>>}

(* The arguments that name conf, with an earlier conf= and others around. *)
ArgsFor(conf) ==
  IF conf = NULL THEN <<"install", " ", "conf=">> \o <<" ", "quiet">>
  ELSE <<"install", " ", "conf=">> \o HD2 \o <<":", "7", ",", "/", "y.conf", " ", "conf=">> \o conf \o <<" ", "quiet">>

Boot(path, conf, builtIn, nas, bootp) ==
  [path |-> path, args |-> ArgsFor(conf), conf |-> conf, builtIn |-> builtIn, nas |-> nas, bootp |-> bootp, firmware |-> Plain]
MCBoots ==
  {Boot(p, c, b, NULL, NULL) : p \in BlockPaths, c \in {NULL, HD2 \o <<":", "3", ",", "/", "y.conf">>, <<"y.conf">>}, b \in {FALSE}}
  \cup {Boot(p, NULL, b, NULL, r) : p \in NetPaths \ {PlainBootp}, b \in BOOLEAN, r \in {NULL}}
  \cup {Boot(p, NULL, b, NULL, r) : p \in NetPaths \ {ToGateway}, b \in BOOLEAN, r \in {Response(""), Response("10.0.0.9")}}
  \cup {Boot(p, NULL, FALSE, Disk, NULL) : p \in OtherPaths}
  \cup {[Boot(p, NULL, FALSE, NULL, NULL) EXCEPT !.args = <<>>, !.firmware = [f EXCEPT !.pvr = r]] :
           p \in {NULL, <<"nothing">>}, f \in Firmwares, r \in Registers}

Sect(dev, part, r, image) == [device |-> dev, partition |-> part, initrd |-> r, image |-> image]
Glob(dev, part, r) == [device |-> dev, partition |-> part, initrd |-> r]
Kernel == <<"/", "boot", "/", "vmlinux">>
Three == <<"3">>
Images(dev) ==
  <<Sect(NULL, NULL, NULL, <<"linux">>), Sect(dev \o <<":">>, NULL, NULL, Kernel), Sect(NULL, Three, <<"initrd">>, <<"\\", "vmlinux">>),
    Sect(dev, <<"0x7">>, NULL, <<"old", "/", "linux">>)>>

(* Devices of the type of the boot device. *)
SameType(path) ==
  IF path \in NetPaths THEN {NULL, Net2} ELSE IF path \in BlockPaths THEN {NULL, HD2, HD \o <<":", "5">>} ELSE {NULL}
MCConfigsOf(path) ==
  LET devs == SameType(path)
  IN {[global |-> Glob(d, p, r), images |-> Images(IF devs = {NULL} THEN Disk ELSE CHOOSE e \in devs : e # NULL)] :
        d \in devs, p \in IF path \in NetPaths THEN {NULL} ELSE {NULL, <<"5">>, <<"all">>}, r \in {NULL, <<"initrd", ".", "gz">>}}

MCTyped == {<<"linux", ".", "old">>, HD2 \o <<":", "3", ",", "/", "linux">>, HD \o <<":", ",", "a">>, Net \o <<":", "10.0.0.1", ",", "linux">>, <<"tty", ":">>}
MCInitrds == {NULL, <<"/", "rd">>, <<"nodev", ":", "rd">>}

MCBlockNames == << <<"yaboot.cnf">>, <<"yaboot.conf">>, <<"/", "etc", "/", "yaboot.conf">> >>
MCNetNames == << <<"01-mac">>, <<"yaboot.conf">> >>

(* Only the paths that are refused in MCBoots. *)
BootpBoots == {Boot(PlainBootp, NULL, b, NULL, NULL) : b \in BOOLEAN}
=============================================================================
