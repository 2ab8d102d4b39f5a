------------------------------- MODULE CpuTable -------------------------------
(***************************************************************************)
(* cputable.c: whether a processor is one of 64 or of 32 bits, by its      *)
(* version register.  The register is <<version, revision>>, its two       *)
(* halves.  Rows of the tables that differ in the revisions of a version   *)
(* and in nothing but the name are one here: nobody reads the name.        *)
(***************************************************************************)
EXTENDS Integers, Sequences

(* Plausible errors in the definitions below. *)
LoopCpuList_Low(versions, pvr) == pvr[2] \in versions      (* the wrong half *)

-----------------------------------------------------------------------------
(* POWER3, RS64, POWER4, 970, POWER5 and the Broadband Engine, with any    *)
(* revision *)
cpu_specs_64 ==
  {\h40, \h41, \h33, \h34, \h36, \h37, \h35, \h38, \h39, \h3C, \h44, \h3A, \h3B, \h70}

(* 601 to 7400 and 750FX to 7447A *)
Desktop ==
  {\h1, \h3, \h6, \h7, \h4, \h9, \hA, \h8, \h7000, \h7002,
   \hC, \h800C, \h8000, \h8001, \h8002, \h8003}

(* 8xx, 403, 405 and e500 *)
Embedded ==
  {\h50, \h20, \h4011, \h4013, \h4181, \h4161, \h40B1, \h4141, \h5091, \h5151,
   \h41F1, \h2001, \h5121, \h8020, \h8021}

(* 82xx, G2_LE and e300: the top bit does not count. *)
Cores603e(pvr) == pvr[1] % \h8000 \in {\h81, \h82, \h83}

(* 440: the family, and a revision that tells the member *)
Is440(pvr) ==
  \/ pvr[1] \div \h1000 = 4 /\ pvr[2] % \h1000 \in {\h850, \h8D3, \h440, \h481}
  \/ pvr[1] \div \h1000 = 5 /\ pvr[2] % \h1000 \in {\h850, \h851, \h892}

(* e200 *)
IsE200(pvr) == pvr[1] \div 16 \in {\h810, \h811}

LoopCpuList(versions, pvr) == pvr[1] \in versions

(* 0: in neither table *)
IdentifyCpu(pvr) ==
  IF LoopCpuList(cpu_specs_64, pvr) THEN 64
  ELSE IF LoopCpuList(Desktop \union Embedded, pvr) \/ Cores603e(pvr) \/ Is440(pvr) \/ IsE200(pvr) THEN 32
  ELSE 0

-----------------------------------------------------------------------------
(* find_type_devices: the nodes of the device tree in the order they are   *)
(* visited, each with its device_type or "" when it has none.  Then ptype  *)
(* still holds what the node before had.                                   *)
Read(nodes, i) ==
  LET typed == {j \in 1..i : nodes[j].type # ""}
  IN  IF typed = {} THEN "" ELSE nodes[CHOOSE j \in typed : \A k \in typed : k <= j].type

(* The first processor is put into nodes[0]; 0 if there is none. *)
BootCpu(nodes) ==
  LET found == {i \in DOMAIN nodes : Read(nodes, i) = "cpu"}
  IN  IF found = {} THEN 0 ELSE CHOOSE i \in found : \A j \in found : i <= j

(* What is loaded is asked of the node first, then of the register. *)
CpuType(nodes, pvr) ==
  IF nodes[BootCpu(nodes)].wide THEN 64 ELSE IdentifyCpu(pvr)
===============================================================================
