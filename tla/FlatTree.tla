------------------------------ MODULE FlatTree ------------------------------
(***************************************************************************)
(* bootheader/ps3/flatdevtree.c: a device tree in one block of memory, a   *)
(* map of reserved areas, the nodes and the names of the properties behind *)
(* each other, edited in place.  Room is made by moving what follows, what *)
(* precedes, or the block, and every address that was given out or kept    *)
(* has to follow.                                                          *)
(*                                                                         *)
(* Memory is in words of four bytes.  A name, of a node or of a property,  *)
(* is a number that fills a word; 10 * b + u is node b@u.  The context cxt *)
(* is a record: the words mem, the heap, the block bph of max words, the   *)
(* start and size of the three regions, anchor (str_anchor), p, gen        *)
(* (genealogy), tbl and limit (node_tbl without entry 0, node_max), the    *)
(* header hdr as the kernel will read it, expand (EXPAND_INCR), and wild:  *)
(* a copy went to NULL.                                                    *)
(***************************************************************************)
EXTENDS Integers, SequencesExt, FiniteSets

-----------------------------------------------------------------------------
(***************************************************************************)
(* bootheader/ps3/simple_alloc.c: a table of areas, handed out one behind  *)
(* the other and never cut or joined again.  A heap is a record            *)
(*   tbl   the entries that have been used, in order, with base, size and  *)
(*         whether they are in use                                         *)
(*   next, left   where the untouched space starts and how much of it      *)
(*   entries, grain   the length of the table and the granularity          *)
(* Sizes and addresses are in words of four bytes; Null is the NULL        *)
(* pointer.                                                                *)
(***************************************************************************)

Null == 0
AlignUp(x, a) == ((x + a - 1) \div a) * a

(* base is behind the table. *)
NewHeap(base, size, grain, entries) ==
  [tbl |-> <<>>, next |-> AlignUp(base, grain), left |-> AlignUp(size, grain), entries |-> entries, grain |-> grain]

(* A plausible error: a free area is taken whatever its size. *)
Reusable_AnySize(h, size) == {i \in DOMAIN h.tbl : ~ h.tbl[i].inuse}

Reusable(h, size) == {i \in DOMAIN h.tbl : ~ h.tbl[i].inuse /\ size <= h.tbl[i].size}

Untouched(h, size) == Len(h.tbl) < h.entries /\ size <= h.left

(* The used entries are looked at before the first one never used. *)
SimpleMalloc(h, bytes) ==
  LET size == AlignUp(bytes, h.grain)
      i == CHOOSE i \in Reusable(h, size) : \A j \in Reusable(h, size) : i <= j
      entry == [base |-> h.next, size |-> size, inuse |-> TRUE]
  IN CASE bytes = 0 -> [heap |-> h, ptr |-> Null]
       [] bytes # 0 /\ Reusable(h, size) # {} -> [heap |-> [h EXCEPT !.tbl[i].inuse = TRUE], ptr |-> h.tbl[i].base]
       [] bytes # 0 /\ Reusable(h, size) = {} /\ Untouched(h, size) ->
            [heap |-> [h EXCEPT !.tbl = Append(@, entry), !.next = @ + size, !.left = @ - size], ptr |-> h.next]
       [] OTHER -> [heap |-> h, ptr |-> Null]

Entries(h, ptr) == {i \in DOMAIN h.tbl : h.tbl[i].inuse /\ h.tbl[i].base = ptr}
InUse(h, ptr) == Entries(h, ptr) # {}
Entry(h, ptr) == CHOOSE i \in Entries(h, ptr) : TRUE

SimpleFree(h, ptr) == IF InUse(h, ptr) THEN [h EXCEPT !.tbl[Entry(h, ptr)].inuse = FALSE] ELSE h

(* When nothing larger is to be had the area is copied to NULL and freed.  *)
(* "copied" is how many words go from ptr to the new area.                 *)
SimpleRealloc(h, ptr, size) ==
  LET new == SimpleMalloc(h, size)
      old == h.tbl[Entry(h, ptr)].size
      Same(r) == [heap |-> h, ptr |-> r, copied |-> 0]
  IN CASE size = 0 -> [heap |-> SimpleFree(h, ptr), ptr |-> Null, copied |-> 0]
       [] size # 0 /\ ptr = Null -> [heap |-> new.heap, ptr |-> new.ptr, copied |-> 0]
       [] size # 0 /\ ptr # Null /\ ~ InUse(h, ptr) -> Same(Null)
       [] size # 0 /\ ptr # Null /\ InUse(h, ptr) /\ size <= old -> Same(ptr)
       [] OTHER -> [heap |-> SimpleFree(new.heap, ptr), ptr |-> new.ptr, copied |-> old]

-----------------------------------------------------------------------------
CONSTANT MaxDepth       \* FT_MAX_DEPTH

RSVMAP == 0
STRUCT == 1
STRINGS == 2
Regions == {RSVMAP, STRUCT, STRINGS}

BEGIN_NODE == 1
END_NODE == 2
PROP == 3
END == 9
HdrSize == 10
RsvSize == 4
NoString == 1000000

(* What F makes of x, which is evaluated once. *)
With(x, F(_)) == CHOOSE y \in {F(z) : z \in {x}} : TRUE

Word(f, a) == IF a \in 1..Len(f.mem) THEN f.mem[a] ELSE 0
Words(f, a, n) == [i \in 1..n |-> Word(f, a + i - 1)]
Write(f, at, words) == [f EXCEPT !.mem = SubSeq(@, 1, at - 1) \o words \o SubSeq(@, at + Len(words), Len(@))]
MemMove(f, to, from, n) == Write(f, to, Words(f, from, n))

(* ft_put_word and ft_put_bin. *)
Put(f, words) == [Write(f, f.p, words) EXCEPT !.p = @ + Len(words)]

End(f, r) == f.start[r] + f.size[r]
PrevEnd(f, r) == IF r > RSVMAP THEN End(f, r - 1) ELSE f.bph + HdrSize
NextStart(f, r) == IF r < STRINGS THEN f.start[r + 1] ELSE f.bph + f.max

(***************************************************************************)
(* Stepping through the tree: ft_next.                                     *)
(***************************************************************************)
FtNext(f, p) ==
  LET tag == Word(f, p)
      Atom(next, name, data, size) == [at |-> p, tag |-> tag, next |-> next, name |-> name, data |-> data, size |-> size]
  IN CASE p < End(f, STRUCT) /\ tag = BEGIN_NODE -> Atom(p + 2, Word(f, p + 1), p, 0)
       [] p < End(f, STRUCT) /\ tag = PROP ->
            Atom(p + 3 + Word(f, p + 1), Word(f, f.anchor + Word(f, p + 2)), p + 3, Word(f, p + 1))
       [] p < End(f, STRUCT) /\ tag = END_NODE -> Atom(p + 1, 0, 0, 0)
       [] OTHER -> Atom(Null, 0, 0, 0)

Atoms(f, from) ==
  LET atoms[p \in Nat] == With(FtNext(f, p), LAMBDA atom : IF atom.next = Null THEN <<>> ELSE <<atom>> \o atoms[atom.next])
  IN atoms[from]

(* Those of one node, its end tag included. *)
AtomsBelow(f, node) ==
  LET Deeper(tag) == CASE tag = BEGIN_NODE -> 1 [] tag = END_NODE -> -1 [] OTHER -> 0
      atoms[p \in Nat, depth \in Nat] ==
        With(FtNext(f, p), LAMBDA atom :
          IF atom.next = Null \/ depth + Deeper(atom.tag) <= 0 THEN <<atom>> ELSE <<atom>> \o atoms[atom.next, depth + Deeper(atom.tag)])
  IN atoms[node, 0]

Root(f) == f.start[STRUCT]

(* A loop over atoms, whose accumulator says when it is over. *)
LoopOver(list, Step(_, _), init) ==
  With(list, LAMBDA atoms :
    LET at[i \in Nat] ==
          IF i = 0 THEN init ELSE With(at[i - 1], LAMBDA acc : IF acc.over THEN acc ELSE Step(acc, atoms[i]))
    IN at[Len(atoms)])
Loop(f, from, Step(_, _), init) == LoopOver(Atoms(f, from), Step, init)

(***************************************************************************)
(* Handles.                                                                *)
(***************************************************************************)
Node(f, h) == IF h \in DOMAIN f.tbl THEN f.tbl[h] ELSE Null

Handle(f, node) ==
  LET known == {i \in DOMAIN f.tbl : f.tbl[i] = node}
  IN CASE node = Null -> [f |-> f, h |-> Null]
       [] node # Null /\ known # {} -> [f |-> f, h |-> CHOOSE i \in known : \A j \in known : i <= j]
       [] node # Null /\ known = {} /\ Len(f.tbl) + 1 < f.limit -> [f |-> [f EXCEPT !.tbl = Append(@, node)], h |-> Len(f.tbl) + 1]
       [] OTHER -> [f |-> f, h |-> Null]

(* A plausible error: the node that moved first keeps its old address. *)
UpdateAfter_Behind(f, addr, shift) == [f EXCEPT !.tbl = [i \in DOMAIN @ |-> IF @[i] > addr THEN @[i] + shift ELSE @[i]]]

UpdateAfter(f, addr, shift) == [f EXCEPT !.tbl = [i \in DOMAIN @ |-> IF @[i] >= addr THEN @[i] + shift ELSE @[i]]]

UpdateBefore(f, addr, shift) == [f EXCEPT !.tbl = [i \in DOMAIN @ |-> IF @[i] < addr THEN @[i] + shift ELSE @[i]]]

(***************************************************************************)
(* Making room.                                                            *)
(***************************************************************************)
Realloc(f, ptr, size) ==
  With(SimpleRealloc(f.heap, ptr, size), LAMBDA r :
    LET g == [f EXCEPT !.heap = r.heap, !.wild = @ \/ (r.copied > 0 /\ r.ptr = Null)]
    IN [f |-> IF r.copied > 0 /\ r.ptr # Null THEN MemMove(g, r.ptr, ptr, r.copied) ELSE g, ptr |-> r.ptr])

(* ft_reorder: into a block of its own, nodes in front and names at the end. *)
ReorderInto(r, f, tot) ==
  LET rsv == r.ptr + HdrSize
      struct == rsv + f.size[RSVMAP]
      strings == r.ptr + tot - f.size[STRINGS]
      g1 == MemMove(r.f, rsv, f.start[RSVMAP], f.size[RSVMAP])
      g2 == MemMove(g1, struct, f.start[STRUCT], f.size[STRUCT])
      g3 == UpdateAfter(g2, f.start[STRUCT], struct - f.start[STRUCT])
      g4 == MemMove(g3, strings, f.start[STRINGS], f.size[STRINGS])
  IN [ok |-> TRUE,
      f |-> [g4 EXCEPT !.bph = r.ptr, !.max = tot, !.p = @ + struct - f.start[STRUCT], !.ordered = TRUE,
                       !.anchor = strings + f.anchor - f.start[STRINGS],
                       !.start = (RSVMAP :> rsv) @@ (STRUCT :> struct) @@ (STRINGS :> strings)]]

Reorder(f, nextra) ==
  LET extra == IF nextra > 0 THEN nextra ELSE 0
  IN With(AlignUp(HdrSize + f.expand + f.size[RSVMAP] + f.size[STRUCT] + f.size[STRINGS] + extra, 2), LAMBDA tot :
       With(Realloc(f, Null, tot), LAMBDA r : IF r.ptr = Null THEN [ok |-> FALSE, f |-> f] ELSE ReorderInto(r, f, tot)))

(* ft_shuffle.  pp is the place in the region where nextra words go in. *)
Shuffle(f, pp, rgn, nextra) ==
  LET start == f.start[rgn]
      after == nextra <= 0 \/ End(f, rgn) + nextra <= NextStart(f, rgn)
      before == PrevEnd(f, rgn) <= start - nextra
      moved == IF pp >= End(f, rgn) THEN f
               ELSE LET g == IF nextra < 0 THEN MemMove(f, pp, pp - nextra, End(f, rgn) - pp + nextra)
                                           ELSE MemMove(f, pp + nextra, pp, End(f, rgn) - pp)
                    IN IF rgn = STRUCT THEN UpdateAfter(g, pp, nextra) ELSE g
      pulled == IF pp <= start THEN f
                ELSE LET g == MemMove(f, start - nextra, start, pp - start)
                     IN IF rgn = STRUCT THEN UpdateBefore(g, pp, - nextra) ELSE g
  IN CASE after -> [ok |-> TRUE, pp |-> pp,
                    f |-> [moved EXCEPT !.size[rgn] = @ + nextra, !.anchor = @ + IF rgn = STRINGS THEN nextra ELSE 0]]
       [] ~ after /\ before -> [ok |-> TRUE, pp |-> pp - nextra,
                                f |-> [pulled EXCEPT !.start[rgn] = @ - nextra, !.size[rgn] = @ + nextra]]
       [] OTHER -> [ok |-> FALSE, pp |-> pp, f |-> f]

StringsTo(f, str) == [MemMove(f, str, f.start[STRINGS], f.size[STRINGS])
                        EXCEPT !.anchor = @ + str - f.start[STRINGS], !.start[STRINGS] = str]

(* What ft_make_space takes for the free room behind a region, unsigned.   *)
(* (It asks for the start of the same following region at every turn.)     *)
Behind(f, rgn) ==
  CASE rgn = RSVMAP -> (f.start[STRUCT] - End(f, RSVMAP)) + (f.start[STRUCT] - End(f, STRUCT))
    [] rgn = STRUCT -> f.start[STRINGS] - End(f, STRUCT)
    [] rgn = STRINGS -> 0
TooLittle(f, rgn, nextra) == Behind(f, rgn) \in 0..(nextra - 1)

(* The block gets larger, and elsewhere when it has to. *)
EnlargeTo(r, f, pp, size) ==
  LET shift == r.ptr - f.bph
      g == [UpdateAfter(r.f, f.start[STRUCT], shift)
              EXCEPT !.bph = r.ptr, !.max = size, !.anchor = @ + shift, !.start = [k \in Regions |-> @[k] + shift]]
  IN IF r.ptr = Null THEN [ok |-> FALSE, f |-> r.f, pp |-> pp]
     ELSE [ok |-> TRUE, f |-> With(g, LAMBDA h : StringsTo(h, r.ptr + size - f.size[STRINGS])), pp |-> pp + shift]

Enlarge(f, pp, rgn, nextra) ==
  With(AlignUp(f.max + (nextra - Behind(f, rgn)) + f.expand, 2), LAMBDA size :
    With(Realloc(f, f.bph, size), LAMBDA r : EnlargeTo(r, f, pp, size)))

(* The nodes make way for a reserved area. *)
StructUp(f, nextra) ==
  [UpdateAfter(MemMove(f, End(f, RSVMAP) + nextra, f.start[STRUCT], f.size[STRUCT]), f.start[STRUCT], nextra)
     EXCEPT !.start[STRUCT] = End(f, RSVMAP) + nextra]

(* ft_make_space: in place; with the names at the end of the block; in a    *)
(* larger block; with the nodes out of the way.  A result s has the place  *)
(* pp; a caller that passes &cxt->p sets f.p to it.                        *)
LastTry(s, rgn, nextra) ==
  IF ~ s.ok /\ rgn = RSVMAP /\ End(s.f, RSVMAP) + nextra + s.f.size[STRUCT] < s.f.start[STRINGS]
  THEN With(StructUp(s.f, nextra), LAMBDA g : Shuffle(g, s.pp, rgn, nextra)) ELSE s

TryLarger(s, rgn, nextra) ==
  CASE s.ok -> s
    [] ~ s.ok /\ TooLittle(s.f, rgn, nextra) ->
         With(Enlarge(s.f, s.pp, rgn, nextra), LAMBDA e :
           IF e.ok THEN With(Shuffle(e.f, e.pp, rgn, nextra), LAMBDA t : LastTry(t, rgn, nextra)) ELSE e)
    [] OTHER -> LastTry(s, rgn, nextra)

NamesUp(f, pp, rgn, nextra) ==
  With(StringsTo(f, f.bph + f.max - f.size[STRINGS]), LAMBDA g :
    CASE End(f, STRINGS) >= f.bph + f.max -> [ok |-> FALSE, f |-> f, pp |-> pp]
      [] End(f, STRINGS) < f.bph + f.max /\ rgn < STRUCT -> [ok |-> FALSE, f |-> g, pp |-> pp]
      [] OTHER -> Shuffle(g, pp, rgn, nextra))

TryNamesUp(s, rgn, nextra) ==
  IF s.ok THEN s ELSE With(NamesUp(s.f, s.pp, rgn, nextra), LAMBDA t : TryLarger(t, rgn, nextra))

MakeSpace(f, pp, rgn, nextra) ==
  With(IF f.ordered THEN [ok |-> TRUE, f |-> f] ELSE Reorder(f, nextra), LAMBDA o :
    IF ~ o.ok THEN [ok |-> FALSE, f |-> f, pp |-> pp]
    ELSE With(Shuffle(o.f, o.f.start[rgn] + (pp - f.start[rgn]), rgn, nextra), LAMBDA s : TryNamesUp(s, rgn, nextra)))

(***************************************************************************)
(* Nodes and properties.  A result has the context f and what the call     *)
(* returned.                                                               *)
(***************************************************************************)
(* ft_begin_node and ft_end_node: when there is no room only the end tag   *)
(* is written, over the one of the parent.                                 *)
NewNode(f, name) ==
  With(MakeSpace(f, f.p, STRUCT, 3), LAMBDA ms :
    LET g == [ms.f EXCEPT !.p = ms.pp]
    IN IF ms.ok THEN [f |-> Put(g, <<BEGIN_NODE, name, END_NODE>>), node |-> ms.pp]
       ELSE [f |-> Put(g, <<END_NODE>>), node |-> Null])

MapString(f, name) ==
  LET there == {a \in f.start[STRINGS]..(End(f, STRINGS) - 1) : Word(f, a) = name}
  IN IF there # {} THEN [f |-> f, off |-> (CHOOSE a \in there : \A b \in there : a <= b) - f.anchor]
     ELSE With(MakeSpace(f, f.start[STRINGS], STRINGS, 1), LAMBDA ms :
            IF ~ ms.ok THEN [f |-> ms.f, off |-> NoString]
            ELSE [f |-> Write(ms.f, ms.pp, <<name>>), off |-> ms.pp - ms.f.anchor])

(* ft_prop: at cxt->p. *)
AddProp(f, name, value) ==
  With(MapString(f, name), LAMBDA str :
    IF str.off = NoString THEN [f |-> str.f, ok |-> FALSE]
    ELSE With(MakeSpace(str.f, str.f.p, STRUCT, 3 + Len(value)), LAMBDA ms :
           LET g == [ms.f EXCEPT !.p = ms.pp]
           IN IF ms.ok THEN [f |-> Put(g, <<PROP, Len(value), str.off>> \o value), ok |-> TRUE] ELSE [f |-> g, ok |-> FALSE]))

(* ft_find_descendent: matched says how many components of the path have   *)
(* been found on the way to where the loop is, itself included.            *)
Matches(name, comp) == name = comp \/ (comp % 10 = 0 /\ name \div 10 = comp \div 10)

FindStep(acc, atom, path) ==
  LET d == acc.depth + 1
      fits == d = 0 \/ Matches(atom.name, path[d])
      gen == [acc.gen EXCEPT ![d] = atom.at, ![d + 1] = Null]
  IN CASE atom.tag = BEGIN_NODE /\ d # acc.matched -> [acc EXCEPT !.depth = d]
       [] atom.tag = BEGIN_NODE /\ d = acc.matched /\ ~ fits -> [acc EXCEPT !.depth = d, !.gen = gen]
       [] atom.tag = BEGIN_NODE /\ d = acc.matched /\ fits /\ d = Len(path) ->
            [acc EXCEPT !.depth = d, !.gen = gen, !.node = atom.at, !.over = TRUE]
       [] atom.tag = BEGIN_NODE /\ d = acc.matched /\ fits /\ d # Len(path) ->
            [acc EXCEPT !.depth = d, !.gen = gen, !.matched = @ + 1]
       [] atom.tag = END_NODE /\ acc.depth = 0 -> [acc EXCEPT !.over = TRUE]
       [] atom.tag = END_NODE /\ acc.depth # 0 ->
            [acc EXCEPT !.depth = @ - 1, !.matched = IF @ > acc.depth THEN @ - 1 ELSE @]
       [] OTHER -> acc

FindDescendent(f, top, path) ==
  LET r == Loop(f, top, LAMBDA acc, atom : FindStep(acc, atom, path),
                [depth |-> -1, matched |-> 0, gen |-> f.gen, node |-> Null, over |-> FALSE])
  IN [f |-> [f EXCEPT !.gen = r.gen], node |-> r.node]

(* ft_find_device. *)
FindDevice(f, top, path) ==
  LET from == IF top = Null THEN Root(f) ELSE Node(f, top)
      r == FindDescendent(f, from, path)
  IN IF from = Null THEN [f |-> f, h |-> Null] ELSE Handle(r.f, r.node)

(* __ft_get_parent: the nodes above the last one that was found are known, *)
(* by their addresses at that time.                                        *)
Known(f, node) == {d \in DOMAIN f.gen : f.gen[d] = node /\ \A c \in 0..d : f.gen[c] # Null}

ParentStep(acc, atom, node) ==
  LET gen == [acc.gen EXCEPT ![acc.depth] = atom.at]
  IN CASE atom.tag = BEGIN_NODE /\ atom.at = node ->
            [acc EXCEPT !.gen = [gen EXCEPT ![acc.depth + 1] = Null], !.over = TRUE,
                        !.parent = IF acc.depth > 0 THEN gen[acc.depth - 1] ELSE Null]
       [] atom.tag = BEGIN_NODE /\ atom.at # node -> [acc EXCEPT !.gen = gen, !.depth = @ + 1]
       [] atom.tag = END_NODE -> [acc EXCEPT !.depth = @ - 1]
       [] OTHER -> acc

GetParent(f, h) ==
  LET node == Node(f, h)
      d == CHOOSE d \in Known(f, node) : \A e \in Known(f, node) : d <= e
      r == Loop(f, Root(f), LAMBDA acc, atom : ParentStep(acc, atom, node),
                [depth |-> 0, gen |-> f.gen, parent |-> Null, over |-> FALSE])
  IN CASE node = Null -> [f |-> f, h |-> Null]
       [] node # Null /\ Known(f, node) # {} -> Handle(f, IF d > 0 THEN f.gen[d - 1] ELSE Null)
       [] OTHER -> Handle([f EXCEPT !.gen = r.gen], r.parent)

(* __ft_get_prop: the data is Null when the node has no such property. *)
PropStep(acc, atom, name) ==
  CASE atom.tag = BEGIN_NODE -> [acc EXCEPT !.depth = @ + 1]
    [] atom.tag = PROP /\ acc.depth = 1 /\ atom.name = name -> [acc EXCEPT !.data = atom.data, !.size = atom.size, !.over = TRUE]
    [] atom.tag = END_NODE -> [acc EXCEPT !.depth = @ - 1, !.over = acc.depth <= 1]
    [] OTHER -> acc

PropAt(f, node, name) ==
  LoopOver(AtomsBelow(f, node), LAMBDA acc, atom : PropStep(acc, atom, name), [depth |-> 0, data |-> Null, size |-> 0, over |-> FALSE])

HasProp(f, node, name) == PropAt(f, node, name).data # Null
ValueAt(f, node, name) == With(PropAt(f, node, name), LAMBDA r : Words(f, r.data, r.size))
PropIs(f, node, name, value) == With(PropAt(f, node, name), LAMBDA r : r.data # Null /\ r.size = Len(value) /\ Words(f, r.data, r.size) = value)

(* __ft_find_node_by_prop_value; prev is an address, or Null. *)
ByValueStep(f, acc, atom, prev, name, value) ==
  LET hit == acc.past /\ acc.depth >= 0 /\ PropIs(f, atom.at, name, value)
  IN CASE atom.tag = BEGIN_NODE /\ atom.at = prev -> [acc EXCEPT !.depth = @ + 1, !.past = TRUE]
       [] atom.tag = BEGIN_NODE /\ atom.at # prev /\ hit -> [acc EXCEPT !.depth = @ + 1, !.node = atom.at, !.over = TRUE]
       [] atom.tag = BEGIN_NODE /\ atom.at # prev /\ ~ hit -> [acc EXCEPT !.depth = @ + 1]
       [] atom.tag = END_NODE -> [acc EXCEPT !.depth = @ - 1, !.over = acc.depth = 0]
       [] OTHER -> acc

FindByValue(f, prev, name, value) ==
  LET after == Node(f, prev)
      r == Loop(f, Root(f), LAMBDA acc, atom : ByValueStep(f, acc, atom, after, name, value),
                [depth |-> -1, past |-> prev = Null, node |-> Null, over |-> FALSE])
  IN IF prev # Null /\ after = Null THEN [f |-> f, h |-> Null] ELSE Handle(f, r.node)

(* ft_set_prop: the value is replaced, or the property comes last before   *)
(* the nodes below.                                                        *)
Overwrite(f, atom, value) ==
  LET nextra == Len(value) - atom.size
  IN With(IF nextra = 0 THEN [ok |-> TRUE, f |-> f, pp |-> atom.data] ELSE MakeSpace(f, atom.data, STRUCT, nextra), LAMBDA ms :
       LET sized == [Write(ms.f, ms.pp - 2, <<Len(value)>>) EXCEPT !.p = ms.pp]
       IN IF ms.ok THEN [f |-> Put(sized, value), ok |-> TRUE] ELSE [f |-> [ms.f EXCEPT !.p = ms.pp], ok |-> FALSE])

SetProp(f, h, name, value) ==
  With(SelectSeq(Atoms(f, Node(f, h)), LAMBDA atom : atom.at # Node(f, h) /\ (atom.tag = PROP => atom.name = name)), LAMBDA stops :
    CASE Node(f, h) = Null \/ stops = <<>> -> [f |-> f, ok |-> FALSE]
      [] Node(f, h) # Null /\ stops # <<>> /\ Head(stops).tag = PROP -> Overwrite(f, Head(stops), value)
      [] OTHER -> AddProp([f EXCEPT !.p = Head(stops).at], name, value))

(* ft_create_node.  The name is compared with that of the parent, which is *)
(* the node at depth one.                                                  *)
CreateStep(acc, atom) ==
  CASE atom.tag = BEGIN_NODE -> [acc EXCEPT !.depth = @ + 1]
    [] atom.tag = END_NODE -> [acc EXCEPT !.depth = @ - 1, !.over = acc.depth <= 1, !.last = IF acc.depth <= 1 THEN atom.at ELSE @]
    [] OTHER -> acc

CreateNode(f, parent, name) ==
  LET top == IF parent = Null THEN Root(f) ELSE Node(f, parent)
  IN With(LoopOver(AtomsBelow(f, top), CreateStep, [depth |-> 0, last |-> Null, over |-> FALSE]).last, LAMBDA last :
       IF top = Null \/ last = Null \/ FtNext(f, top).name = name THEN [f |-> f, h |-> Null]
       ELSE With(NewNode([f EXCEPT !.p = last], name), LAMBDA new : Handle(new.f, new.node)))

(* ft_add_rsvmap: in front of the empty entry at the end. *)
AddReserve(f, area) ==
  With(MakeSpace(f, End(f, RSVMAP) - RsvSize, RSVMAP, RsvSize), LAMBDA ms :
    IF ms.ok THEN [f |-> Write(ms.f, ms.pp, area), ok |-> TRUE] ELSE [f |-> ms.f, ok |-> FALSE])

(* ft_get_path: the names on the way down, without that of the root. *)
PathStep(acc, atom, node) ==
  CASE atom.tag = BEGIN_NODE -> [acc EXCEPT !.names = Append(@, atom.name), !.over = atom.at = node, !.found = atom.at = node]
    [] atom.tag = END_NODE -> [acc EXCEPT !.names = Front(@), !.over = Len(acc.names) = 1]
    [] OTHER -> acc

GetPath(f, h) ==
  LET r == Loop(f, Root(f), LAMBDA acc, atom : PathStep(acc, atom, Node(f, h)), [names |-> <<>>, found |-> FALSE, over |-> FALSE])
  IN [known |-> Node(f, h) # Null /\ r.found, names |-> IF r.names = <<>> THEN <<>> ELSE Tail(r.names)]

(***************************************************************************)
(* Opening a tree and handing it over.                                     *)
(***************************************************************************)
Zero == [k \in Regions |-> 0]
NoContext(mem, heap) ==
  [mem |-> mem, heap |-> heap, bph |-> Null, max |-> 0, ordered |-> FALSE, anchor |-> 0, p |-> 0, start |-> Zero, size |-> Zero,
   gen |-> [d \in 0..MaxDepth |-> Null], tbl |-> <<>>, limit |-> 0, hdr |-> <<>>, expand |-> 0, wild |-> FALSE]

(* rsvmap_size: up to the first entry of zeros.  struct_size: up to the end tag. *)
RsvMapSize(f, from) ==
  LET size[a \in Nat] == IF \A i \in 0..(RsvSize - 1) : Word(f, a + i) = 0 THEN RsvSize ELSE RsvSize + size[a + RsvSize]
  IN size[from]

StructSize(f) ==
  LET whole == [f EXCEPT !.size[STRUCT] = 1000000]
      atoms == Atoms(whole, Root(f))
  IN (IF atoms = <<>> THEN Root(f) ELSE Last(atoms).next) + 1 - Root(f)

(* ft_open: the table of nodes comes from the heap. *)
FtOpen(mem, heap, blob, hdr, expand, maxsize, maxfind) ==
  LET r == SimpleRealloc(heap, Null, maxfind + 1)
      f == [NoContext(mem, r.heap) EXCEPT !.bph = blob, !.max = maxsize, !.limit = maxfind + 1, !.hdr = hdr, !.expand = expand,
              !.start = (RSVMAP :> blob + hdr.rsv) @@ (STRUCT :> blob + hdr.struct) @@ (STRINGS :> blob + hdr.strings)]
      g == [f EXCEPT !.size = (RSVMAP :> RsvMapSize(f, f.start[RSVMAP])) @@ (STRUCT :> StructSize(f)) @@ (STRINGS :> hdr.strsize)]
  IN IF r.ptr = Null THEN NoContext(mem, heap) ELSE [g EXCEPT !.p = g.start[STRUCT], !.anchor = g.start[STRINGS]]

(* A plausible error: names that were put in front are not allowed for. *)
AdjustOffsets_Not(f, adj) == f

(* adjust_string_offsets. *)
AdjustOffsets(f, adj) ==
  LET props == {a.at : a \in {b \in ToSet(Atoms(f, Root(f))) : b.tag = PROP}}
  IN FoldSet(LAMBDA at, g : Write(g, at + 2, <<Word(g, at + 2) + adj>>), f, props)

(* ft_end_tree: offsets from the first name, names behind the nodes, the   *)
(* places of all three in the header.                                      *)
EndTree(f) ==
  LET ssize == f.size[STRINGS]
      adjusted == AdjustOffsets(f, f.anchor - f.start[STRINGS])
      endp == AlignUp(End(f, STRUCT) + ssize, 2)
      str == endp - ssize
      g == [MemMove(adjusted, str, f.start[STRINGS], ssize) EXCEPT !.anchor = str, !.start[STRINGS] = str]
  IN IF ~ f.ordered THEN f
     ELSE [g EXCEPT !.hdr = [rsv |-> f.start[RSVMAP] - f.bph, struct |-> f.start[STRUCT] - f.bph, strings |-> str - f.bph,
                             strsize |-> ssize, total |-> endp - f.bph]]

(***************************************************************************)
(* What the block says: the nodes in order, each with its path and its     *)
(* properties, and the reserved areas.                                     *)
(***************************************************************************)
ReadStep(f, acc, atom) ==
  LET path == IF acc.open = <<>> THEN <<>> ELSE Append(acc.nodes[Last(acc.open)].path, atom.name)
  IN CASE atom.tag = BEGIN_NODE ->
            [acc EXCEPT !.nodes = Append(@, [at |-> atom.at, path |-> path, props |-> {}]), !.open = Append(@, Len(acc.nodes) + 1)]
       [] atom.tag = PROP /\ acc.open # <<>> ->
            [acc EXCEPT !.nodes[Last(acc.open)].props = @ \cup {<<atom.name, Words(f, atom.data, atom.size)>>}]
       [] atom.tag = END_NODE /\ acc.open # <<>> -> [acc EXCEPT !.open = Front(@)]
       [] OTHER -> acc

Nodes(f) == Loop(f, Root(f), LAMBDA acc, atom : ReadStep(f, acc, atom), [nodes |-> <<>>, open |-> <<>>, over |-> FALSE]).nodes
TreeOf(nodes) == [i \in DOMAIN nodes |-> [path |-> nodes[i].path, props |-> nodes[i].props]]

(* The path of the node at an address, Lost when there is none. *)
Lost == <<0>>
PathAt(nodes, a) == IF \E i \in DOMAIN nodes : nodes[i].at = a THEN nodes[CHOOSE i \in DOMAIN nodes : nodes[i].at = a].path ELSE Lost

Areas(f, from) ==
  LET areas[a \in Nat] == IF \A i \in 0..(RsvSize - 1) : Word(f, a + i) = 0 THEN <<>> ELSE <<Words(f, a, RsvSize)>> \o areas[a + RsvSize]
  IN areas[from]
AreasOf(f) == IF f.bph = Null THEN <<>> ELSE Areas(f, f.start[RSVMAP])

(* The kernel goes by the header alone. *)
KernelView(f) ==
  [f EXCEPT !.start = (RSVMAP :> f.bph + f.hdr.rsv) @@ (STRUCT :> f.bph + f.hdr.struct) @@ (STRINGS :> f.bph + f.hdr.strings),
            !.anchor = f.bph + f.hdr.strings, !.size[STRUCT] = 1000000]
=============================================================================
