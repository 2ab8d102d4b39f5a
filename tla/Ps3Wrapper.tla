----------------------------- MODULE Ps3Wrapper -----------------------------
(***************************************************************************)
(* bootheader/ps3/ps3.c, devtree.c and flatdevtree_misc.c: platform_init,  *)
(* which takes the device tree that is linked into the image, puts into it *)
(* what the kernel has to know, and enters the kernel; and, in its place,  *)
(* any other client of dt_ops and of the heap.                             *)
(*                                                                         *)
(* boot is what the machine and the image bring: the tree, whether the     *)
(* hypervisor tells the size of the memory, the attached ramdisk, the      *)
(* command line built in.                                                  *)
(***************************************************************************)
EXTENDS FlatTree, TLC

CONSTANTS Boots,            \* the records boot may be
          MemTop, HeapBase, HeapSize, Grain, MaxAllocs, MaxFind,
          Chosen, Memory, NodeNames,
          AddressCells, SizeCells, Reg, DeviceType, BootArgs, InitrdStart, InitrdEnd, PropNames,
          RmSize, Garbage, MemoryType, Values, Searches,
          LateParents,      \* whether it asks for parents when nodes have moved
          MaxCalls          \* calls of the other client

VARIABLES f,        \* the context
          boot,
          pc,       \* what platform_init does next; "client" for the other one
          chosen, naddr, nsize, memory,
          answer,   \* what the last call returned
          lent,     \* areas the client has from the heap
          calls,    \* calls it has left
          seen      \* what the block says: the nodes, the paths of the handles
                    \* and of the nodes in gen, and the reserved areas

local == <<boot, chosen, naddr, nsize, memory, lent>>
vars == <<f, boot, pc, chosen, naddr, nsize, memory, answer, lent, calls, seen>>

Seen(g) ==
  LET nodes == Nodes(g)
  IN [tree |-> TreeOf(nodes), paths |-> [h \in DOMAIN g.tbl |-> PathAt(nodes, g.tbl[h])], areas |-> AreasOf(g),
      above |-> [d \in DOMAIN g.gen |-> PathAt(nodes, g.gen[d])]]

NoNode == <<"none", 0>>
Handed(h) == IF h = Null THEN NoNode ELSE <<"handle", h>>
Outcome(ok) == IF ok THEN <<"done", 0>> ELSE <<"failed", 0>>

(* The image lies below the heap; the rest of the memory is zero.  The     *)
(* other client has handles already.                                       *)
Zeros(n) == [i \in 1..n |-> 0]
Image(blob) == Zeros(blob.at - 1) \o blob.words \o Zeros(MemTop - blob.at + 1 - Len(blob.words))

Opened == FtOpen(Image(boot.blob), NewHeap(HeapBase, HeapSize, Grain, MaxAllocs), boot.blob.at, boot.blob.hdr, boot.expand, 0, MaxFind)

Init ==
  /\ boot \in Boots
  /\ f = FoldLeft(LAMBDA g, path : FindDevice(g, Null, path).f, Opened, boot.found)
  /\ pc = IF boot.client THEN "client" ELSE "chosen"
  /\ chosen = Null /\ memory = Null /\ naddr = 0 /\ nsize = 0
  /\ answer = NoNode /\ lent = {} /\ calls = MaxCalls
  /\ seen = Seen(f)

Returns(g, result) == f' = g /\ answer' = result /\ seen' = Seen(g)

(***************************************************************************)
(* platform_init.                                                          *)
(***************************************************************************)
At(here, there) == pc = here /\ pc' = there /\ UNCHANGED <<boot, lent, calls>>

FindChosen ==
  At("chosen", "root") /\ \E r \in {FindDevice(f, Null, <<Chosen>>)} :
     chosen' = r.h /\ Returns(r.f, Handed(r.h)) /\ UNCHANGED <<memory, naddr, nsize>>

(* dt_fixup_memory.  The root always comes first. *)
FindRoot ==
  At("root", "naddr") /\ \E r \in {FindDevice(f, Null, <<>>)} :
     Returns(r.f, Handed(r.h)) /\ UNCHANGED <<chosen, memory, naddr, nsize>>

CellsOf(name, default) ==
  LET h == answer[2] IN IF HasProp(f, Node(f, h), name) THEN ValueAt(f, Node(f, h), name)[1] ELSE default

Cells ==
  /\ pc = "naddr"
  /\ naddr' = CellsOf(AddressCells, 2) /\ nsize' = CellsOf(SizeCells, 1)
  /\ pc' = IF naddr' \in 1..2 /\ nsize' \in 1..2 THEN "memory" ELSE "exit"
  /\ UNCHANGED <<f, boot, chosen, memory, answer, lent, calls, seen>>

FindMemory ==
  pc = "memory" /\ \E r \in {FindDevice(f, Null, <<Memory>>)} :
     /\ At("memory", IF r.h = Null THEN "create" ELSE "reg")
     /\ memory' = r.h /\ Returns(r.f, Handed(r.h)) /\ UNCHANGED <<chosen, naddr, nsize>>

CreateMemory ==
  At("create", "type") /\ \E r \in {CreateNode(f, Null, Memory)} :
     memory' = r.h /\ Returns(r.f, Handed(r.h)) /\ UNCHANGED <<chosen, naddr, nsize>>

Sets(here, there, h, name, value) ==
  At(here, there) /\ \E r \in {SetProp(f, h, name, value)} :
     Returns(r.f, Outcome(r.ok)) /\ UNCHANGED <<chosen, memory, naddr, nsize>>

SetType == Sets("type", "reg", memory, DeviceType, <<MemoryType>>)

(* The size is what lv1 wrote, or whatever was on the stack when a call of *)
(* lv1 failed: the result of ps3_repository_read_rm_size is not looked at. *)
Number(value, cells) == IF cells = 2 THEN <<0, value>> ELSE <<value>>
MemReg(size) == Number(0, naddr) \o Number(size, nsize)
SetReg ==
  \E size \in IF boot.lv1 THEN {RmSize} ELSE {RmSize, Garbage} :
    Sets("reg", IF boot.initrd = <<>> THEN "cmdline" ELSE "start", memory, Reg, MemReg(size))

SetInitrdStart == Sets("start", "end", chosen, InitrdStart, <<boot.initrd[1]>>)

(* A plausible error: the size where the end is meant. *)
SetInitrdEnd_Size == Sets("end", "cmdline", chosen, InitrdEnd, <<boot.initrd[2] - boot.initrd[1]>>)

SetInitrdEnd == Sets("end", "cmdline", chosen, InitrdEnd, <<boot.initrd[2]>>)

(* prep_cmdline: only what is built in is written. *)
SetBootArgs == boot.cmdline # <<>> /\ Sets("cmdline", "finalize", chosen, BootArgs, boot.cmdline)
KeepBootArgs == boot.cmdline = <<>> /\ At("cmdline", "finalize") /\ UNCHANGED <<f, chosen, memory, naddr, nsize, answer, seen>>

Finalize ==
  At("finalize", "kernel") /\ f' = EndTree(f) /\ UNCHANGED <<chosen, memory, naddr, nsize, answer, seen>>

PlatformInit ==
  \/ FindChosen \/ FindRoot \/ Cells \/ FindMemory \/ CreateMemory \/ SetType \/ SetReg
  \/ SetInitrdStart \/ SetInitrdEnd \/ SetBootArgs \/ KeepBootArgs \/ Finalize

(***************************************************************************)
(* Another client: any calls of dt_ops and of the heap, in any order.      *)
(***************************************************************************)
Client(left) == pc = "client" /\ calls > 0 /\ calls' = left /\ UNCHANGED <<boot, pc, chosen, naddr, nsize, memory>>
OnTree(g, result) == Client(calls - 1) /\ Returns(g, result) /\ UNCHANGED lent
Asks(r) == OnTree(r.f, Handed(r.h))
Held == DOMAIN f.tbl

ClientFinds == \E search \in Searches : Asks(FindDevice(f, search.top, search.path))

(* A call that only reads is made last, as it changes nothing. *)
Reads(result) == calls = 1 /\ Client(0) /\ answer' = result /\ UNCHANGED <<f, seen, lent>>
ClientGets ==
  \E h \in Held, name \in PropNames :
    Reads(IF HasProp(f, Node(f, h), name) THEN <<"value", ValueAt(f, Node(f, h), name)>> ELSE NoNode)

(* A name that is new to the tree is only added while the room that        *)
(* ft_reorder left for it lasts, which it does in platform_init.           *)
NameFits(name) ==
  \/ \E a \in f.start[STRINGS]..(End(f, STRINGS) - 1) : Word(f, a) = name
  \/ ~ f.ordered
  \/ End(f, STRUCT) < f.start[STRINGS]
ClientSets ==
  \E h \in Held, name \in PropNames, value \in Values :
    NameFits(name) /\ \E r \in {SetProp(f, h, name, value)} : OnTree(r.f, Outcome(r.ok))

(* ops.h: "The node must not already exist." *)
Absent(parent, name) ==
  LET above == IF parent = Null THEN <<>> ELSE seen.paths[parent]
  IN \A i \in DOMAIN seen.tree : seen.tree[i].path # Append(above, name)
ClientCreates == \E parent \in {Null} \cup Held, name \in NodeNames : Absent(parent, name) /\ Asks(CreateNode(f, parent, name))

(* The nodes above the one found last are known by address.  They have to *)
(* be where they were, unless LateParents.                                *)
AboveIsTrue ==
  \A d \in DOMAIN f.gen :
    f.gen[d] # Null /\ (\A c \in 0..d : f.gen[c] # Null) =>
      /\ seen.above[d] # Lost /\ Len(seen.above[d]) = d
      /\ d > 0 => seen.above[d - 1] = Front(seen.above[d])
ClientAsksParent == \E h \in Held : (AboveIsTrue \/ LateParents) /\ Asks(GetParent(f, h))
ClientAsksPath == \E h \in Held : \E r \in {GetPath(f, h)} : Reads(IF r.known THEN <<"path", r.names>> ELSE NoNode)
ClientLooksFor == \E prev \in {Null} \cup Held, value \in Values : Asks(FindByValue(f, prev, DeviceType, value))
ClientReserves == \E r \in {AddReserve(f, <<0, calls, 0, 1>>)} : OnTree(r.f, Outcome(r.ok))

(* The areas the client gets are written all over. *)
ClientMallocs ==
  LET n == 9 IN
    LET r == SimpleMalloc(f.heap, n)
        g == [Write(f, r.ptr, [i \in 1..n |-> Garbage]) EXCEPT !.heap = r.heap]
    IN /\ Client(calls - 1) /\ r.ptr # Null /\ lent' = lent \cup {[at |-> r.ptr, size |-> n]}
       /\ f' = g /\ seen' = Seen(g) /\ UNCHANGED answer

ClientFrees ==
  \E area \in lent :
    /\ Client(calls - 1) /\ lent' = lent \ {area}
    /\ f' = [f EXCEPT !.heap = SimpleFree(@, area.at)]
    /\ UNCHANGED <<answer, seen>>

(* Then it finalizes the tree. *)
ClientFinalizes ==
  /\ pc = "client" /\ pc' = "kernel" /\ f' = EndTree(f)
  /\ UNCHANGED <<boot, chosen, naddr, nsize, memory, lent, calls, answer, seen>>

OtherClient ==
  \/ ClientFinds \/ ClientGets \/ ClientSets \/ ClientCreates \/ ClientAsksParent \/ ClientAsksPath
  \/ ClientLooksFor \/ ClientReserves \/ ClientMallocs \/ ClientFrees \/ ClientFinalizes

Next == PlatformInit \/ OtherClient
Spec == Init /\ [][Next]_vars

(***************************************************************************)
(* The kernel goes by the header: the nodes, properties and reserved areas *)
(* that its parser finds there are those that were in the block before it  *)
(* was finalized.                                                          *)
(***************************************************************************)
KernelSeesTree ==
  pc = "kernel" => TreeOf(Nodes(KernelView(f))) = seen.tree /\ AreasOf(KernelView(f)) = seen.areas

(***************************************************************************)
(* Whatever moves, the block of the tree, the table of the nodes and the   *)
(* areas of the client stay apart, in use in the heap, and a client's area *)
(* keeps what it wrote.                                                    *)
(***************************************************************************)
BlockHeld ==
  /\ f.ordered => InUse(f.heap, f.bph) /\ f.max <= f.heap.tbl[Entry(f.heap, f.bph)].size
  /\ \A area \in lent : InUse(f.heap, area.at) /\ area.at # f.bph
  /\ \A area \in lent : \A a \in area.at..(area.at + area.size - 1) : f.mem[a] = Garbage
  /\ ~ f.wild

(***************************************************************************)
(* platform_init: the kernel is told the size of the memory, the ramdisk   *)
(* and the command line, and all else as it is in the linked tree.         *)
(***************************************************************************)
Original == TreeOf(Nodes(Opened))
PropsAt(tree, path) == UNION {tree[i].props : i \in {j \in DOMAIN tree : tree[j].path = path}}
Told == {Reg, InitrdStart, InitrdEnd, BootArgs, DeviceType}
KernelToldAll ==
  pc = "kernel" /\ ~ boot.client =>
    LET tree == TreeOf(Nodes(KernelView(f)))
        paths == {Original[i].path : i \in DOMAIN Original}
    IN /\ boot.lv1 => <<Reg, MemReg(RmSize)>> \in PropsAt(tree, <<Memory>>)
       /\ <<Chosen>> \in paths /\ boot.initrd # <<>> =>
            {<<InitrdStart, <<boot.initrd[1]>> >>, <<InitrdEnd, <<boot.initrd[2]>> >>} \subseteq PropsAt(tree, <<Chosen>>)
       /\ <<Chosen>> \in paths /\ boot.cmdline # <<>> => <<BootArgs, boot.cmdline>> \in PropsAt(tree, <<Chosen>>)
       /\ \A path \in paths : \A v \in PropsAt(Original, path) :
            (path \in {<<Chosen>>, <<Memory>>} /\ v[1] \in Told) \/ v \in PropsAt(tree, path)

(***************************************************************************)
(* flatdevtree.c keeps "node ptrs returned by ft_find_device current":     *)
(* a handle is always that of a node.                                      *)
(***************************************************************************)
HandlesAreNodes == \A h \in DOMAIN seen.paths : seen.paths[h] # Lost
=============================================================================
