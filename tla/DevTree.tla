------------------------------ MODULE DevTree ------------------------------
(***************************************************************************)
(* What a device tree promises to the code that edits it through dt_ops    *)
(* (bootheader/ps3/ops.h): the nodes in order, each a path from the root   *)
(* and a set of named values; handles that go on meaning the node they     *)
(* were given out for, whatever is edited; and the answer of each call.    *)
(* How and where any of it is stored is left open.  A call that needs      *)
(* room may fail, and then changes nothing.                                *)
(***************************************************************************)
EXTENDS Integers, Sequences, SequencesExt

CONSTANTS MaxFind,           \* handles there can be
          NodeNames, PropNames, Values, Searches   \* what is asked for

VARIABLES tree,       \* [path, props], in the order of the nodes
          handles,    \* the paths handed out
          areas,      \* reserved areas
          answer
vars == <<tree, handles, areas, answer>>

Root == <<>>
Matches(name, comp) == name = comp \/ (comp % 10 = 0 /\ name \div 10 = comp \div 10)
Paths == {tree[i].path : i \in DOMAIN tree}
At(path) == CHOOSE i \in DOMAIN tree : tree[i].path = path
HasProp(i, name) == \E v \in tree[i].props : v[1] = name
Value(i, name) == (CHOOSE v \in tree[i].props : v[1] = name)[2]
First(S) == CHOOSE i \in S : \A j \in S : i <= j

Init == areas = <<>> /\ answer = <<"none", 0>>

None == answer' = <<"none", 0>> /\ UNCHANGED handles

(* The node has its handle, gets one, or all are given out. *)
Give(path) ==
  \/ \E h \in DOMAIN handles : handles[h] = path /\ answer' = <<"handle", h>> /\ UNCHANGED handles
  \/ ~ Contains(handles, path) /\ Len(handles) < MaxFind /\ handles' = Append(handles, path) /\ answer' = <<"handle", Len(handles) + 1>>
  \/ ~ Contains(handles, path) /\ Len(handles) = MaxFind /\ None

(* finddevice: the first node whose path fits, from the root or from a node. *)
Fitting(top, path) ==
  {i \in DOMAIN tree : /\ Len(tree[i].path) = Len(top) + Len(path)
                       /\ IsPrefix(top, tree[i].path)
                       /\ \A k \in DOMAIN path : Matches(tree[i].path[Len(top) + k], path[k])}
Find(top, path) ==
  /\ IF Fitting(top, path) = {} THEN None ELSE Give(tree[First(Fitting(top, path))].path)
  /\ UNCHANGED <<tree, areas>>

GetProp(h, name) ==
  LET i == At(handles[h])
  IN /\ answer' = IF HasProp(i, name) THEN <<"value", Value(i, name)>> ELSE <<"none", 0>>
     /\ UNCHANGED <<tree, handles, areas>>

SetProp(h, name, value) ==
  LET i == At(handles[h])
      others == {v \in tree[i].props : v[1] # name}
  IN /\ \/ tree' = [tree EXCEPT ![i].props = others \cup {<<name, value>>}] /\ answer' = <<"done", 0>>
        \/ UNCHANGED tree /\ answer' = <<"failed", 0>>
     /\ UNCHANGED <<handles, areas>>

(* create_node: "The node must not already exist"; it comes last below its *)
(* parent.  The node may be there and no handle left for it.               *)
Below(path) == {i \in DOMAIN tree : IsPrefix(path, tree[i].path)}
CreateNode(parent, name) ==
  LET path == Append(parent, name)
      last == CHOOSE i \in Below(parent) : \A j \in Below(parent) : j <= i
  IN /\ path \notin Paths
     /\ \/ tree' = InsertAt(tree, last + 1, [path |-> path, props |-> {}]) /\ Give(path)
        \/ None /\ UNCHANGED tree
     /\ UNCHANGED areas

GetParent(h) == (IF handles[h] = Root THEN None ELSE Give(Front(handles[h]))) /\ UNCHANGED <<tree, areas>>

(* find_node_by_prop_value: the next one after a node, never the root. *)
After(prev) == IF prev = 0 THEN 0 ELSE At(handles[prev])
With(prev, name, value) == {i \in DOMAIN tree : i > 1 /\ i > After(prev) /\ <<name, value>> \in tree[i].props}
FindByValue(prev, name, value) ==
  /\ IF With(prev, name, value) = {} THEN None ELSE Give(tree[First(With(prev, name, value))].path)
  /\ UNCHANGED <<tree, areas>>

GetPath(h) == answer' = <<"path", handles[h]>> /\ UNCHANGED <<tree, handles, areas>>

Reserve(area) ==
  /\ \/ areas' = Append(areas, area) /\ answer' = <<"done", 0>>
     \/ UNCHANGED areas /\ answer' = <<"failed", 0>>
  /\ UNCHANGED <<tree, handles>>

(* A call on no node fails. *)
NoNode == answer' = <<"failed", 0>> /\ UNCHANGED <<tree, handles, areas>>

Next ==
  \/ NoNode
  \/ \E top \in {Root} \cup ToSet(handles), path \in Searches : Find(top, path)
  \/ \E h \in DOMAIN handles, name \in PropNames : GetProp(h, name) \/ \E value \in Values : SetProp(h, name, value)
  \/ \E parent \in {Root} \cup ToSet(handles), name \in NodeNames : CreateNode(parent, name)
  \/ \E h \in DOMAIN handles : GetParent(h) \/ GetPath(h)
  \/ \E prev \in {0} \cup DOMAIN handles, name \in PropNames, value \in Values : FindByValue(prev, name, value)
  \/ \E n \in 1..3 : Reserve(<<0, n, 0, 1>>)

Spec == Init /\ [][Next]_vars
=============================================================================
