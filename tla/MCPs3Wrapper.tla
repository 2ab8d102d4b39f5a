---------------------------- MODULE MCPs3Wrapper ----------------------------
(***************************************************************************)
(* Instances of Ps3Wrapper: the tree of ps3.dts with its names and values  *)
(* made short, trees of other machines, and both clients on them.          *)
(***************************************************************************)
EXTENDS Ps3Wrapper

BootBlobs ==
  LET Prop(off, value) == <<PROP, Len(value), off>> \o value
      Open(name) == <<BEGIN_NODE, name>>
      Blob(struct, names) ==
        [at |-> 2,
         words |-> [i \in 1..HdrSize |-> 0] \o <<0, 0, 0, 0>> \o struct \o names,
         hdr |-> [rsv |-> HdrSize, struct |-> HdrSize + RsvSize, strings |-> HdrSize + RsvSize + Len(struct),
                  strsize |-> Len(names), total |-> HdrSize + RsvSize + Len(struct) + Len(names)]]
      cpus == Open(40) \o Prop(0, <<1>>)
                \o Open(51) \o Prop(3, <<77>>) \o <<END_NODE>> \o Open(52) \o Prop(2, <<1>>) \o Prop(3, <<77>>) \o <<END_NODE>>
                \o <<END_NODE>>
      ps3 == Blob(Open(0) \o Prop(1, <<2>>) \o Prop(0, <<2>>) \o Open(Chosen) \o <<END_NODE>>
                    \o Open(Memory) \o Prop(3, <<88>>) \o Prop(2, <<0, 0, 0, 0>>) \o <<END_NODE>> \o cpus \o <<END_NODE, END>>,
                  <<AddressCells, SizeCells, Reg, DeviceType>>)
      bare == Blob(Open(0) \o Prop(0, <<1>>) \o cpus \o Open(Chosen) \o Prop(4, <<5, 6>>) \o <<END_NODE>> \o <<END_NODE, END>>,
                   <<AddressCells, SizeCells, Reg, DeviceType, BootArgs>>)
      odd == Blob(Open(0) \o Prop(0, <<3>>) \o <<END_NODE, END>>, <<AddressCells>>)
  IN [ps3 |-> ps3, bare |-> bare, odd |-> odd]

MCBoots ==
  [client : {FALSE}, found : {<<>>}, expand : {28}, blob : {BootBlobs.ps3, BootBlobs.bare, BootBlobs.odd}, lv1 : BOOLEAN, initrd : {<<>>, <<300, 340>>},
   cmdline : {<<>>, <<7>>, <<7, 8, 9>>}]
  \cup [client : {TRUE}, found : {<< <<>>, <<40, 51>>, <<40, 52>> >>}, expand : {4}, blob : {BootBlobs.bare}, lv1 : {TRUE}, initrd : {<<>>}, cmdline : {<<>>}]

MCSearches ==
  {[top |-> Null, path |-> <<40, 50>>], [top |-> Null, path |-> <<20>>],
   [top |-> 2, path |-> <<>>]}
LateBoots == {[b EXCEPT !.expand = 28] : b \in {c \in MCBoots : c.client}}
LateSearches == {[top |-> Null, path |-> <<40, 52>>]}
LateValues == {<<1, 2, 3, 4>>}
MCValues == {<<77>>, <<1, 2, 3>>}

(***************************************************************************)
(* Whatever moves in the block, the nodes, their values, the handles and   *)
(* the answers are those of a tree that is edited call by call.            *)
(***************************************************************************)
Promise ==
  INSTANCE DevTree WITH tree <- seen.tree, handles <- seen.paths, areas <- seen.areas,
    NodeNames <- NodeNames \cup {Memory}, PropNames <- PropNames \cup {Reg, DeviceType, InitrdStart, InitrdEnd, BootArgs},
    Values <- Values \cup {<<300>>, <<340>>, <<7>>, <<7, 8, 9>>} \cup {Number(0, a) \o Number(v, s) : a, s \in 1..2, v \in {RmSize, Garbage}} \cup {<<MemoryType>>},
    Searches <- {s.path : s \in Searches} \cup {<<Memory>>}
KeepsPromise == Promise!Spec
=============================================================================
