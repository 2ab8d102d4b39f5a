-------------------------------- MODULE MCLilo --------------------------------
(***************************************************************************)
(* CHRP: a RAID of two disks with a boot partition each, and a disk with a *)
(* boot partition behind or in front of another PReP partition, too big,   *)
(* too small, or formatted for something else; with and without default=.  *)
(* The other machines meet two different lilo.conf one after the other,    *)
(* some of them refused.                                                   *)
(* Labels are unique; what yaboot cannot read is marked copy, as           *)
(* lilo.conf.5 asks for on PowerMac; on PReP root is global or local.      *)
(***************************************************************************)
EXTENDS Lilo, TLC

A == <<1, 1>>
B == <<2, 1>>
C == <<1, 2>>
D == <<2, 2>>

Is(kind, part, named, readable) ==
  [kind |-> kind, part |-> part, named |-> named, readable |-> readable, iscsi |-> FALSE]
File(part) == Is("file", part, TRUE, TRUE)
Lone(part) == Is("file", part, FALSE, FALSE)      (* no path, not readable *)

O(opt, val) == [opt |-> opt, val |-> val]
Image1 == <<O("image", "k1"), O("label", "l1"), O("initrd", "i1")>>
Image2 == <<O("image", "k2"), O("label", "l2")>>
Both == Image1 \o Image2
Active(boot) == <<O("boot", boot), O("activate", "")>>
Default1 == <<O("default", "l1")>>

-----------------------------------------------------------------------------
Dirs(conf_at) == [d \in {"/boot", "/", "/etc"} |->
                Is("dir", IF d = "/etc" THEN conf_at ELSE IF d = "/" THEN <<1, 5>> ELSE <<1, 3>>, TRUE, TRUE)]

Kernels(k1, k2, i1) ==
  [f \in {"k1", "k2", "i1"} |-> IF f = "k1" THEN k1 ELSE IF f = "k2" THEN k2 ELSE i1]

Hidden   == Dirs(<<1, 3>>) @@ Kernels(Lone(<<1, 5>>), Lone(<<1, 5>>), Lone(<<1, 5>>))
Here(conf_at) == Dirs(conf_at) @@ Kernels(File(<<1, 3>>), File(<<2, 3>>), File(<<1, 4>>))
Iscsi    == [Here(<<1, 3>>) EXCEPT !["k1"].iscsi = TRUE]

Part(kind, fit, room, files) ==
  [kind |-> kind, fit |-> fit, room |-> room, files |-> files, age |-> 0]

All == {"loader", "conf"} \union Default
To(part, form) == [part |-> part, form |-> form]
Other == To(D, "full")

Machine(place, lines, ps, order) ==
  [type |-> "chrp", place |-> place, lines |-> lines, parts |-> ps, nvram |-> order]

Raid ==
  {Machine(where, Active(B) \o <<O("clone", clones)>> \o Default1 \o Both,
           [p \in {A, B, D} |-> IF p = B THEN Part(k, f, r, All) ELSE Part("fat16", "fits", FALSE, All)],
           order) :
     where \in {Hidden}, clones \in {<<A>>, <<D, A>>}, k \in {"fat16", "fat32"},
     f \in {"fits", "small"}, r \in BOOLEAN,
     order \in {<<To(B, "fat"), To(A, "fat"), Other>>, <<To(B, "fat"), Other>>}}
  \union
  {Machine(Here(<<1, 3>>), Active(B) \o <<O("clone", <<A>>)>> \o Default1 \o Both,
           [p \in {A, B} |-> Part("fat16", "fits", FALSE, All)], <<To(B, "fat"), To(A, "fat")>>)}
  \union
  {Machine(Here(<<1, 3>>), Active(B) \o <<O("clone", clones)>> \o d \o Both,
           [p \in {A, B, D} |-> Part("fat16", "fits", FALSE, All)], <<To(B, "fat")>>) :
     clones \in {<<A>>, <<D>>, <<A, A>>}, d \in {<<>>, Default1}}

Single ==
  {Machine(where, Active(boot) \o Default1 \o Both, [p \in {C} |-> Part(k, f, FALSE, {"loader"})],
           <<To(C, "disk")>>) :
     where \in {Here(<<1, 3>>), Here(<<2, 3>>), Iscsi}, boot \in {C, <<1, 0>>},
     k \in {"prep", "fat16", "fat32", "none"}, f \in Fits}

Pair ==
  {Machine(Here(<<1, 4>>), Active(boot) \o <<O("initrd", "i1")>> \o Image2,
           [p \in {A, C} |-> Part("prep", f, FALSE, {"loader"})], <<To(A, "full"), Other>>) :
     boot \in {A, C, <<1, 0>>}, f \in Fits}
  \union
  {Machine(Here(<<1, 4>>), Active(boot) \o Image2,
           [p \in {A, C} |-> Part(IF p = boot THEN "fat16" ELSE "prep", "fits", FALSE, {"loader"})],
           <<To(C, "disk")>>) : boot \in {A, C}}

Fat ==
  {Machine(Here(<<1, 3>>), <<O("boot", C)>> \o a \o <<O("force_fat", "")>> \o d \o Both,
           [p \in {A, C, D} |-> Part("prep", "fits", FALSE, {})], <<>>) :
     a \in {<<>>, <<O("activate", "")>>}, d \in {<<>>, Default1}}

SomeMachines == Raid \union Single \union Pair \union Fat
Lost == {D}

-----------------------------------------------------------------------------
Mixed ==
  [f \in {"k1", "k2", "k3", "i1", "i2", "mac"} |->
     CASE f = "k1" -> File(<<1, 3>>) [] f = "k2" -> File(<<2, 1>>) [] f = "k3" -> Lone(<<1, 5>>)
       [] f = "i1" -> File(<<1, 3>>) [] f = "i2" -> Lone(<<1, 5>>)
       [] OTHER -> Is("block", <<1, 6>>, TRUE, FALSE)]

MacOS(label) == <<O("other", "mac"), O("label", label)>>
Gone == <<O("image", "gone"), O("label", "test"), O("optional", "")>>
Rescue == <<O("image", "k2"), O("label", "rescue"), O("copy", ""), O("initrd", "i2"), O("append", "a2")>>
NoPathRamdisk == <<O("image", "k1"), O("label", "l1"), O("initrd", "i2"), O("root", "r1")>>

Refused(boot) ==
  {<<O("label", "l1")>> \o boot \o Image1,                  (* outside of a section *)
   boot \o Image1 \o Default1,                              (* inside of one *)
   boot \o <<O("image", "")>> \o Image2,
   boot \o <<O("initrd", "gone")>> \o Image1,
   boot \o <<O("image", "gone"), O("label", "l1")>>,
   boot \o <<O("default", "macosx")>> \o Image1 \o MacOS("macosx"),
   boot \o <<O("lba32", "")>> \o Image1,
   boot}

MacFiles(boot) ==
  {Active(boot) \o Default1 \o NoPathRamdisk \o Rescue \o MacOS("macos") \o Gone,
   <<O("boot", boot), O("default", "macos"), O("initrd", "i2"), O("sysmap", "")>>
     \o MacOS("macos") \o <<O("image", "k3"), O("label", "l3")>> \o Gone,
   <<O("boot", boot), O("no_os_chooser", "")>> \o Image1 \o Gone \o MacOS("macosx"),
   <<O("boot", boot), O("boot", boot)>> \o Image1}
  \union Refused(<<O("boot", boot)>>)

Before(targets) ==
  [t \in targets |-> [Empty EXCEPT !.cnf = TRUE, !.copies = {<<<<"vmlinux", 1>>, "old">>}]]

PowerMacs ==
  {[type |-> t, place |-> Mixed, files |-> MacFiles(C), medium |-> Before({C}), small |-> s] :
     t \in {"pmac_new", "pmac_old"}, s \in BOOLEAN}

(* A whole kernel each, with the ramdisk and options of all or of one.     *)
KernelFiles(boots) ==
  {boots \o Default1 \o <<O("append", "all"), O("initrd", "i1")>> \o Rescue \o NoPathRamdisk,
   boots \o <<O("root", "r0")>> \o Rescue \o Gone,
   boots \o Gone \o Image1,                          (* the first one is omitted *)
   boots \o Default1 \o Image2,                      (* no such label *)
   boots \o <<O("append", "all")>> \o Image2,
   Image1}

Preps ==
  {[type |-> "prep", place |-> Mixed, files |-> UNION {KernelFiles(<<O("boot", b)>>) : b \in {A, <<1, 0>>}},
    medium |-> [t \in p |-> Empty], prep |-> p] :
     p \in {{A}, {A, <<1, 3>>}, {B}}}

Slot(n) == [kind |-> "slot", name |-> n]
Node(k) == [kind |-> k, name |-> k]

Iseries ==
  {[type |-> "iseries", place |-> Mixed,
    files |-> UNION {KernelFiles(b) : b \in {<<O("boot", Slot("A")), O("boot", Node("file"))>>,
                                             <<O("boot", Slot("B")), O("boot", Node("block"))>>,
                                             <<O("boot", Node("relative"))>>,
                                             <<O("boot", Slot("A")), O("boot", Node("invalid"))>>}},
    medium |-> [t \in {Slot("A"), Slot("B"), Node("file"), Node("block"), Node("invalid"),
                       Node("relative")} |-> Empty],
    prep |-> p] : p \in {{}, {Node("block")}}}

Pegasos ==
  {[type |-> "pegasos", place |-> [Mixed EXCEPT !["k3"] = File(<<1, 5>>)], at |-> <<1, 3>>,
    files |-> {boot \o Default1 \o <<O("initrd", "i1")>> \o Both \o Gone : boot \in {<<>>, <<O("boot", "/y")>>}}
              \union {Image2, <<O("boot", "/y")>>},
    medium |-> [t \in {"/yaboot", "/y"} |-> Empty]]}

Ps3 ==
  {[type |-> "ps3", place |-> [f \in {"vmlinux"} |-> File(<<1, 2>>)], files |-> {<<>>},
    medium |-> [t \in {"/etc/kboot.conf"} |-> [Empty EXCEPT !.loader = l]]] : l \in BOOLEAN}

SomeOthers == PowerMacs \union Preps \union Iseries \union Pegasos \union Ps3
==============================================================================
