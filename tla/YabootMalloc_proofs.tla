------------------------ MODULE YabootMalloc_proofs ------------------------
(***************************************************************************)
(* What TLAPS proves of lib/malloc.c for every arena and every set of      *)
(* request sizes: the blocks the callers hold never overlap and never lie  *)
(* above the pointer, whatever sequence of calls is made.                  *)
(***************************************************************************)
EXTENDS YabootMalloc, TLAPS

(* The rounded pointer is at or above the one that was rounded. *)
LEMMA AlignUp == ASSUME NEW p \in Nat PROVE Align(p) \in Nat /\ p <= Align(p)
  BY DEF Align

(* malloc_init leaves an empty heap. *)
LEMMA InitInv == Init => IInv
  BY ArenaAssumption DEF Init, IInv, TypeOK, PtrInv, LiveDisjoint,
     LiveBelowPtr, LastIsTopmost, MarksInv, NULL, Hdr

(* A block put at the pointer, above every block that is left: the step of *)
(* malloc() and of realloc() when it moves.                                *)
LEMMA FreshBlock ==
  ASSUME IInv, NEW size \in Nat, Fits(size),
         NEW keep \in SUBSET live,
         lastAlloc' = mallocPtr + Hdr,
         mallocPtr' = Align(mallocPtr + Hdr + size),
         live' = keep \union {[addr |-> mallocPtr + Hdr, size |-> size]},
         UNCHANGED <<mallocTop, marks>>
  PROVE  IInv'
<1> DEFINE new == [addr |-> mallocPtr + Hdr, size |-> size]
<1>1. /\ mallocPtr \in Nat /\ mallocTop \in Nat /\ Bottom \in Nat
      /\ Bottom <= mallocPtr /\ mallocPtr # NULL
      /\ mallocPtr + size + Hdr <= mallocTop
  BY ArenaAssumption DEF IInv, TypeOK, PtrInv, Fits
<1>2. mallocPtr' \in Nat /\ mallocPtr + Hdr + size <= mallocPtr'
  BY <1>1, AlignUp DEF Hdr
<1>3. new \in Block /\ End(new) = mallocPtr + Hdr + size /\ new.addr = mallocPtr + Hdr
  BY <1>1 DEF Block, End, Hdr
<1>4. \A b \in keep : /\ b \in Block /\ b.addr \in Nat /\ b.size \in Nat
                      /\ End(b) \in Nat /\ b.addr <= End(b)
                      /\ End(b) <= mallocPtr
  BY DEF IInv, TypeOK, LiveBelowPtr, Block, End
<1>5. TypeOK'
  BY <1>1, <1>2, <1>3, <1>4 DEF IInv, TypeOK, Hdr
<1>6. PtrInv'
  BY <1>1, <1>2, <1>3 DEF IInv, PtrInv, NULL, Hdr
<1>7. LiveDisjoint'
  BY <1>1, <1>3, <1>4 DEF IInv, LiveDisjoint, Hdr, End
<1>8. LiveBelowPtr'
  BY <1>1, <1>2, <1>3, <1>4 DEF IInv, LiveBelowPtr, TypeOK, Hdr, End
<1>9. LastIsTopmost'
  BY <1>1, <1>3, <1>4 DEF LastIsTopmost, Hdr, End
<1>10. MarksInv'
  <2>1. ASSUME NEW p \in marks PROVE Bottom <= p /\ p <= mallocPtr /\ p \in Nat
    BY DEF IInv, MarksInv, TypeOK
  <2>2. \A p \in marks : p <= new.addr - Hdr
    BY <1>1, <1>3, <2>1 DEF Hdr
  <2>3. \A p \in marks : \A b \in keep : End(b) <= p \/ p <= b.addr - Hdr
    BY DEF IInv, MarksInv
  <2>4. \A p \in marks : p <= mallocPtr'
    BY <1>1, <1>2, <2>1 DEF Hdr
  <2> QED
    BY <2>1, <2>2, <2>3, <2>4 DEF MarksInv, End
<1> QED
  BY <1>5, <1>6, <1>7, <1>8, <1>9, <1>10 DEF IInv

(* Blocks and marks that lie below a pointer that moved within the arena   *)
(* keep the invariant: the step of free() and release().                   *)
LEMMA PtrBack ==
  ASSUME IInv, mallocPtr # NULL,
         mallocPtr' \in Nat, Bottom <= mallocPtr',
         live' \in SUBSET live,
         \A b \in live' : End(b) <= mallocPtr',
         marks' = {m \in marks : m <= mallocPtr'},
         UNCHANGED <<mallocTop, lastAlloc>>
  PROVE  IInv'
<1>1. TypeOK'
  BY DEF IInv, TypeOK
<1>2. PtrInv'
  <2>1. mallocPtr' # NULL
    BY ArenaAssumption DEF NULL, Hdr
  <2> QED BY <2>1 DEF IInv, PtrInv
<1>3. LiveDisjoint' /\ LiveBelowPtr' /\ LastIsTopmost' /\ MarksInv'
  BY DEF IInv, LiveDisjoint, LiveBelowPtr, LastIsTopmost, MarksInv, End
<1> QED
  BY <1>1, <1>2, <1>3 DEF IInv

(* Every call keeps the invariant. *)
LEMMA StepInv == IInv /\ [Next]_vars => IInv'
<1> SUFFICES ASSUME IInv, [Next]_vars PROVE IInv'
  OBVIOUS
<1>1. ASSUME NEW size \in Sizes, Malloc(size) PROVE IInv'
  BY <1>1, FreshBlock, SizesAssumption DEF Malloc, Carve
<1>2. ASSUME NEW b \in live, NEW size \in Sizes, ReallocMove(b, size) PROVE IInv'
  <2>1. live \ {b} \in SUBSET live
    OBVIOUS
  <2> QED
    BY <1>2, <2>1, FreshBlock, SizesAssumption DEF ReallocMove
<1>3. ASSUME NEW b \in live, Free(b) PROVE IInv'
  <2>1. CASE ~ Reclaims(b)
    <3>1. CASE mallocPtr = NULL
      BY <1>3, <3>1 DEF IInv, PtrInv
    <3>2. CASE mallocPtr # NULL
      BY <1>3, <2>1, <3>2, PtrBack DEF Free, IInv, TypeOK, PtrInv, LiveBelowPtr
    <3> QED BY <3>1, <3>2
  <2>2. CASE Reclaims(b)
    <3>1. mallocPtr' = b.addr - Hdr /\ b.addr = lastAlloc /\ mallocPtr # NULL
      BY <1>3, <2>2 DEF Free, Reclaims
    <3>2. mallocPtr' \in Nat /\ Bottom <= mallocPtr'
      BY <3>1, ArenaAssumption DEF IInv, TypeOK, LiveBelowPtr, Hdr, Block
    <3>3. \A c \in live' : End(c) <= mallocPtr'
      BY <1>3, <3>1 DEF Free, IInv, LastIsTopmost
    <3> QED
      BY <1>3, <3>1, <3>2, <3>3, PtrBack DEF Free
  <2> QED BY <2>1, <2>2
<1>4. ASSUME NEW b \in live, NEW size \in Sizes, ReallocLast(b, size) PROVE IInv'
  <2> DEFINE new == [b EXCEPT !.size = size]
  <2>1. /\ b \in Block /\ size \in Nat /\ Bottom \in Nat
        /\ mallocPtr # NULL /\ b.addr = lastAlloc
        /\ b.addr + size <= mallocTop /\ mallocPtr' = b.addr + size
        /\ live' = (live \ {b}) \union {new}
        /\ marks' = {m \in marks : m <= b.addr - Hdr}
        /\ mallocTop' = mallocTop /\ lastAlloc' = lastAlloc
    BY <1>4, SizesAssumption, ArenaAssumption DEF ReallocLast, IInv, TypeOK
  <2>2. new \in Block /\ new.addr = b.addr /\ new.size = size
        /\ End(new) = b.addr + size
    BY <2>1 DEF Block, End
  <2>3. b.addr \in Nat /\ Bottom <= b.addr - Hdr
    BY <2>1 DEF IInv, LiveBelowPtr, Block
  <2>4. \A c \in live \ {b} : /\ c \in Block /\ End(c) <= b.addr - Hdr
                              /\ c.addr \in Nat /\ c.size \in Nat
    BY <2>1 DEF IInv, LastIsTopmost, TypeOK, Block
  <2>5. TypeOK'
    BY <2>1, <2>2, <2>3 DEF IInv, TypeOK
  <2>6. PtrInv'
    BY <2>1, <2>3, ArenaAssumption DEF IInv, PtrInv, NULL, Hdr
  <2>7. LiveDisjoint'
    BY <2>1, <2>2, <2>4 DEF IInv, LiveDisjoint
  <2>8. LiveBelowPtr'
    BY <2>1, <2>2, <2>3, <2>4 DEF IInv, LiveBelowPtr, TypeOK, Block, End, Hdr
  <2>9. LastIsTopmost'
    BY <2>1, <2>2, <2>3, <2>4 DEF LastIsTopmost, End, Hdr
  <2>10. MarksInv'
    <3>1. \A p \in marks' : p \in Nat /\ Bottom <= p /\ p <= b.addr - Hdr
      BY <2>1 DEF IInv, MarksInv, TypeOK
    <3>2. \A p \in marks' : p <= mallocPtr'
      BY <2>1, <2>3, <3>1 DEF Hdr
    <3>3. \A p \in marks' : \A c \in live \ {b} : End(c) <= p \/ p <= c.addr - Hdr
      BY <2>1 DEF IInv, MarksInv
    <3> QED
      BY <2>1, <2>2, <3>1, <3>2, <3>3 DEF MarksInv, End
  <2> QED
    BY <2>5, <2>6, <2>7, <2>8, <2>9, <2>10 DEF IInv
<1>5. CASE Mark
  <2>1. TypeOK' /\ PtrInv' /\ LiveDisjoint' /\ LiveBelowPtr' /\ LastIsTopmost'
    BY <1>5 DEF Mark, IInv, TypeOK, PtrInv, LiveDisjoint, LiveBelowPtr, LastIsTopmost
  <2>2. MarksInv'
    BY <1>5 DEF Mark, IInv, TypeOK, PtrInv, LiveBelowPtr, MarksInv, End
  <2> QED BY <2>1, <2>2 DEF IInv
<1>6. ASSUME NEW p \in marks, Release(p) PROVE IInv'
  <2>1. p \in Nat /\ Bottom <= p
    BY DEF IInv, TypeOK, MarksInv
  <2>2. \A b \in live : b.addr < p => End(b) <= p
    BY <2>1 DEF IInv, TypeOK, MarksInv, Block, Hdr, End
  <2>3. /\ mallocPtr # NULL /\ mallocPtr' = p
        /\ live' = {b \in live : b.addr < p}
        /\ marks' = {m \in marks : m <= mallocPtr'}
        /\ UNCHANGED <<mallocTop, lastAlloc>>
    BY <1>6 DEF Release
  <2> QED
    BY <2>1, <2>2, <2>3, PtrBack
<1>7. CASE Dispose
  BY <1>7, ArenaAssumption DEF Dispose, IInv, TypeOK, PtrInv, LiveDisjoint,
     LiveBelowPtr, LastIsTopmost, MarksInv, NULL
<1>8. ASSUME UNCHANGED vars PROVE IInv'
  BY <1>8 DEF vars, IInv, TypeOK, PtrInv, LiveDisjoint, LiveBelowPtr,
     LastIsTopmost, MarksInv, End
<1> QED
  BY <1>1, <1>2, <1>3, <1>4, <1>5, <1>6, <1>7, <1>8
     DEF Next, MallocFail, ReallocFail

(***************************************************************************)
(* malloc(), realloc(), free(), mark() and release() only ever leave the   *)
(* pointer and lastAlloc where the invariant says.                         *)
(***************************************************************************)
THEOREM Inductive == Spec => []IInv
  BY InitInv, StepInv, PTL DEF Spec

(* The static variables of malloc.c and its blocks keep their types. *)
THEOREM TypeCorrect == Spec => []TypeOK
<1>1. IInv => TypeOK
  BY DEF IInv
<1> QED BY <1>1, Inductive, PTL

(* No two blocks malloc() has handed out and not taken back overlap, and   *)
(* every one lies in the arena below the pointer.                          *)
THEOREM BlocksSafe == Spec => []HeapSafe
<1>1. IInv => HeapSafe
  BY DEF IInv, HeapSafe
<1> QED BY <1>1, Inductive, PTL

(* Every call is one step of the contract, or changes nothing it speaks of. *)
LEMMA StepContract == IInv /\ [Next]_vars => [Contract!Next]_live
<1> SUFFICES ASSUME IInv, [Next]_vars PROVE [Contract!Next]_live
  OBVIOUS
<1>1. \A b \in live : /\ b.addr \in Nat /\ b.size \in Nat
                      /\ Bottom <= b.addr - Hdr
                      /\ b.addr + b.size <= mallocPtr
  BY DEF IInv, TypeOK, LiveBelowPtr, Block, End
<1>2. ASSUME NEW size \in Nat, Fits(size), NEW keep \in SUBSET live
      PROVE  LET new == [addr |-> mallocPtr + Hdr, size |-> size]
             IN  Contract!Usable(new, keep) /\ new \notin live
  <2> DEFINE new == [addr |-> mallocPtr + Hdr, size |-> size]
  <2>1. /\ mallocPtr \in Nat /\ Bottom <= mallocPtr /\ Bottom \in Nat
        /\ mallocPtr + size + Hdr <= Bottom + ArenaSize /\ ArenaSize \in Nat
    BY <1>2, ArenaAssumption DEF IInv, TypeOK, PtrInv, Fits
  <2>2. new.addr = mallocPtr + Hdr /\ new.size = size
    OBVIOUS
  <2>3. \A a \in live : Contract!Apart(a, new) /\ a # new
    BY <1>1, <2>1, <2>2 DEF Contract!Apart, Contract!Past, Contract!First, Hdr
  <2>4. Bottom <= Contract!First(new) /\ Contract!Past(new) <= Bottom + ArenaSize
    BY <2>1, <2>2 DEF Contract!Past, Contract!First, Hdr
  <2> QED
    BY <2>3, <2>4 DEF Contract!Usable
<1>3. ASSUME NEW size \in Sizes, Malloc(size) PROVE Contract!Obtain
  BY <1>2, <1>3, SizesAssumption DEF Malloc, Carve, Contract!Obtain
<1>4. ASSUME NEW b \in live, NEW size \in Sizes, ReallocMove(b, size)
      PROVE  Contract!Resize
  BY <1>2, <1>4, SizesAssumption DEF ReallocMove, Contract!Resize
<1>5. ASSUME NEW b \in live, NEW size \in Sizes, ReallocLast(b, size)
      PROVE  Contract!Resize
  <2> DEFINE new == [b EXCEPT !.size = size]
  <2>1. b \in Block /\ size \in Nat
    BY SizesAssumption DEF IInv, TypeOK
  <2>2. new.addr = b.addr /\ new.size = size
    BY <2>1 DEF Block
  <2>3. /\ b.addr = lastAlloc /\ b.addr + size <= mallocTop
        /\ live' = (live \ {b}) \union {new}
    BY <1>5 DEF ReallocLast
  <2>4. \A a \in live \ {b} : Contract!Apart(a, new)
    BY <2>2, <2>3 DEF IInv, LastIsTopmost, End, Contract!Apart, Contract!Past,
       Contract!First
  <2>5. Bottom <= Contract!First(new) /\ Contract!Past(new) <= Bottom + ArenaSize
    BY <1>1, <2>2, <2>3 DEF IInv, TypeOK, Contract!Past, Contract!First
  <2> QED
    BY <2>3, <2>4, <2>5 DEF Contract!Resize, Contract!Usable
<1>6. ASSUME \/ \E b \in live : Free(b)
             \/ \E p \in marks : Release(p)
             \/ Dispose
      PROVE  Contract!GiveBack
  BY <1>6 DEF Free, Release, Dispose, Contract!GiveBack
<1>7. CASE Mark \/ UNCHANGED vars
  BY <1>7 DEF Mark, vars
<1> QED
  BY <1>3, <1>4, <1>5, <1>6, <1>7
     DEF Next, MallocFail, ReallocFail, vars, Contract!Next

(***************************************************************************)
(* malloc.c implements the contract its callers rely on.                   *)
(***************************************************************************)
THEOREM Implements == Spec => KeepsContract
<1>1. Init => Contract!Init
  BY DEF Init, Contract!Init
<1> QED
  BY <1>1, Inductive, StepContract, PTL DEF Spec, KeepsContract, Contract!Spec
=============================================================================
