---------------------------- MODULE HeapContract ----------------------------
(***************************************************************************)
(* What the callers of malloc.c are promised, with no pointer and no last  *)
(* block: a block handed out lies in the arena apart from every block      *)
(* still held, it stays as it is until its holder frees or resizes it, and *)
(* nothing else ever changes what is held.                                 *)
(***************************************************************************)
EXTENDS Integers

CONSTANTS Low, High, Header   (* the arena and the bytes kept before a block *)
VARIABLE live                 (* the blocks held: [addr, size] *)

First(b) == b.addr - Header
Past(b)  == b.addr + b.size

Apart(a, b)   == Past(a) <= First(b) \/ Past(b) <= First(a)
Usable(b, S)  == Low <= First(b) /\ Past(b) <= High /\ \A a \in S : Apart(a, b)

Init == live = {}

(* malloc: one more block, apart from those held. *)
Obtain == \E b \in live' \ live :
            live' = live \union {b} /\ Usable(b, live)

(* realloc: one block is traded for another that is apart from the rest. *)
Resize == \E a \in live : \E b \in live' :
            live' = (live \ {a}) \union {b} /\ Usable(b, live \ {a})

(* free, release and the end of the heap: blocks are given back. *)
GiveBack == live' \subseteq live

Next == Obtain \/ Resize \/ GiveBack
Spec == Init /\ [][Next]_live
=============================================================================
