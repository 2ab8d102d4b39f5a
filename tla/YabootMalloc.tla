---------------------------- MODULE YabootMalloc ----------------------------
(***************************************************************************)
(* The heap of yaboot's second stage, lib/malloc.c: one arena claimed from *)
(* Open Firmware, a pointer that grows upwards, and the address of the     *)
(* last block handed out, the only block free() and realloc() can do       *)
(* anything about.                                                         *)
(*                                                                         *)
(* mallocPtr, mallocTop and lastAlloc are the three static variables of    *)
(* the file.  live and marks belong to the callers: the blocks they may    *)
(* still use (with the size in the block's header) and the pointers mark() *)
(* gave them that release() may still be called with.  The callers keep    *)
(* the usual contract: they free, realloc and release only what they hold. *)
(***************************************************************************)
EXTENDS Integers, FiniteSets

CONSTANTS
  Bottom,    (* address of the arena, prom_claim_chunk_top's result *)
  ArenaSize, (* MALLOCSIZE *)
  Sizes,     (* the sizes callers ask for *)
  MaxMarks   (* bound: marks outstanding at a time *)

NULL  == 0
Hdr   == 4     (* sizeof(int): every block is preceded by its size *)

(***************************************************************************)
(* Claimed memory starts above the first page and is page aligned.  The    *)
(* sizes are far below 2^32 - Bottom, so the 32 bit sum in malloc() does   *)
(* not wrap.                                                               *)
(***************************************************************************)
ASSUME ArenaAssumption ==
  /\ Bottom \in Nat /\ Bottom > Hdr
  /\ ArenaSize \in Nat
ASSUME SizesAssumption == Sizes \subseteq Nat
ASSUME MarksAssumption == MaxMarks \in Nat

VARIABLES mallocPtr, mallocTop, lastAlloc, live, marks
vars == <<mallocPtr, mallocTop, lastAlloc, live, marks>>

Block  == [addr : Nat, size : Nat]
End(b) == b.addr + b.size

(***************************************************************************)
(* Plausible errors in the definitions below, which the properties must    *)
(* tell from the code: a top that leaves out the bottom, the pointer       *)
(* rounded down, the header forgotten in the room test, free() moving back *)
(* over a block that is not the last one.                                  *)
(***************************************************************************)
Align_Down(p)       == 4 * (p \div 4)
Fits_NoHeader(size) == mallocPtr # NULL /\ mallocPtr + size <= mallocTop
Reclaims_Any(b)     == mallocPtr # NULL

(* (p + 3) & ~3 *)
Align(p) == 4 * ((p + 3) \div 4)

-----------------------------------------------------------------------------
(* malloc_init(bottom, size) *)
Init ==
  /\ mallocPtr = Bottom
  /\ mallocTop = Bottom + ArenaSize
  /\ lastAlloc = NULL
  /\ live      = {}
  /\ marks     = {}

Fits(size) == mallocPtr # NULL /\ mallocPtr + size + Hdr <= mallocTop

(* The block malloc(size) carves; the pointer is aligned after it moved. *)
Carve(size) ==
  /\ lastAlloc' = mallocPtr + Hdr
  /\ mallocPtr' = Align(mallocPtr + Hdr + size)
  /\ live'      = live \union {[addr |-> mallocPtr + Hdr, size |-> size]}
  /\ UNCHANGED <<mallocTop, marks>>

(* malloc(size), strdup() included; out of room it returns NULL. *)
Malloc(size)     == Fits(size) /\ Carve(size)
MallocFail(size) == ~ Fits(size) /\ UNCHANGED vars

(***************************************************************************)
(* realloc(ptr, size).  The last block is resized in place, without        *)
(* aligning the pointer; any other block is copied to a new one, and the   *)
(* old one is not given back.  The copy is of the old size: into a smaller *)
(* block it goes on past its end, where nothing is allocated yet (and past *)
(* mallocTop, when that is near).  Contents are not modelled.              *)
(***************************************************************************)
ReallocLast(b, size) ==
  /\ mallocPtr # NULL /\ b.addr = lastAlloc
  /\ b.addr + size <= mallocTop
  /\ mallocPtr' = b.addr + size
  /\ live'      = (live \ {b}) \union {[b EXCEPT !.size = size]}
  (* a mark taken above the block may now point into it: no longer usable *)
  /\ marks'     = {m \in marks : m <= b.addr - Hdr}
  /\ UNCHANGED <<mallocTop, lastAlloc>>

ReallocMove(b, size) ==
  /\ b.addr # lastAlloc /\ Fits(size)
  /\ lastAlloc' = mallocPtr + Hdr
  /\ mallocPtr' = Align(mallocPtr + Hdr + size)
  /\ live'      = (live \ {b}) \union {[addr |-> mallocPtr + Hdr, size |-> size]}
  /\ UNCHANGED <<mallocTop, marks>>

ReallocFail(b, size) ==
  /\ IF b.addr = lastAlloc THEN b.addr + size > mallocTop ELSE ~ Fits(size)
  /\ UNCHANGED vars

(***************************************************************************)
(* free(m): the pointer goes back over the last block.  lastAlloc stays,   *)
(* so that the block below it can never be reclaimed in its turn.          *)
(***************************************************************************)
Reclaims(b) == mallocPtr # NULL /\ b.addr = lastAlloc

Free(b) ==
  /\ mallocPtr' = IF Reclaims(b) THEN lastAlloc - Hdr ELSE mallocPtr
  /\ live'      = live \ {b}
  /\ marks'     = {m \in marks : m <= mallocPtr'}
  /\ UNCHANGED <<mallocTop, lastAlloc>>

(* mark(&p) and release(p); release gives back every block above p and     *)
(* does not touch lastAlloc.                                               *)
Mark ==
  /\ mallocPtr # NULL
  /\ Cardinality(marks) < MaxMarks
  /\ marks' = marks \union {mallocPtr}
  /\ UNCHANGED <<mallocPtr, mallocTop, lastAlloc, live>>

Release(p) ==
  /\ mallocPtr # NULL
  /\ mallocPtr' = p
  /\ live'      = {b \in live : b.addr < p}
  /\ marks'     = {m \in marks : m <= p}
  /\ UNCHANGED <<mallocTop, lastAlloc>>

(* malloc_dispose(): yaboot is done, every later call returns at once. *)
Dispose ==
  /\ mallocPtr # NULL
  /\ mallocPtr' = NULL
  /\ lastAlloc' = NULL
  /\ live'      = {}
  /\ marks'     = {}
  /\ UNCHANGED mallocTop

Next ==
  \/ \E size \in Sizes : Malloc(size) \/ MallocFail(size)
  \/ \E b \in live : Free(b)
  \/ \E b \in live, size \in Sizes :
       ReallocLast(b, size) \/ ReallocMove(b, size) \/ ReallocFail(b, size)
  \/ Mark
  \/ \E p \in marks : Release(p)
  \/ Dispose

Spec == Init /\ [][Next]_vars

-----------------------------------------------------------------------------
TypeOK ==
  /\ mallocPtr \in Nat
  /\ mallocTop = Bottom + ArenaSize
  /\ lastAlloc \in Nat
  /\ live \subseteq Block
  /\ marks \subseteq Nat

(***************************************************************************)
(* No two blocks the callers hold share a byte, headers included.          *)
(***************************************************************************)
LiveDisjoint ==
  \A a, b \in live :
    a # b => End(a) <= b.addr - Hdr \/ End(b) <= a.addr - Hdr

(***************************************************************************)
(* Every block the callers hold lies in the arena and below the pointer,   *)
(* where malloc() will not hand it out again.                              *)
(***************************************************************************)
LiveBelowPtr ==
  \A b \in live : /\ Bottom <= b.addr - Hdr
                  /\ End(b) <= mallocTop
                  /\ End(b) <= mallocPtr

HeapSafe == LiveDisjoint /\ LiveBelowPtr

(***************************************************************************)
(* What the in-place branches of free() and realloc() rely on: if the      *)
(* block at lastAlloc is still held, no other block lies above it.         *)
(***************************************************************************)
LastIsTopmost ==
  \A a, b \in live : a.addr = lastAlloc /\ a # b => End(b) <= a.addr - Hdr

(***************************************************************************)
(* The strengthening that is inductive: where the pointer and the marks    *)
(* may be, relative to the blocks.                                         *)
(***************************************************************************)
PtrInv ==
  /\ mallocPtr # NULL => Bottom <= mallocPtr
  /\ mallocPtr = NULL => live = {} /\ marks = {}
  /\ lastAlloc = NULL \/ Bottom + Hdr <= lastAlloc

MarksInv ==
  /\ \A p \in marks : Bottom <= p /\ p <= mallocPtr
  /\ \A p \in marks : \A b \in live :
        End(b) <= p \/ p <= b.addr - Hdr

(***************************************************************************)
(* malloc.c keeps the promise of HeapContract: every call hands out memory *)
(* nobody holds, and takes back only what the caller gave up.              *)
(***************************************************************************)
Contract == INSTANCE HeapContract
              WITH Low <- Bottom, High <- Bottom + ArenaSize, Header <- Hdr
KeepsContract == Contract!Spec

IInv == TypeOK /\ PtrInv /\ LiveDisjoint /\ LiveBelowPtr /\ LastIsTopmost /\ MarksInv
=============================================================================
