------------------------------ MODULE MCWrappers ------------------------------
(* Small images and machines.  A block stands for 8 MB on CHRP and for a   *)
(* quarter of a megabyte on PReP; there the space below the wrapper is 4   *)
(* megabytes and not 8.  On iSeries it is half a page.                     *)
EXTENDS Wrappers

(* Of an image that ld made: two headers, then zeros.                      *)
ElfHead(n, headers, taken) == [n |-> n, ph |-> 13, ps |-> 8, headers |-> headers, taken |-> taken]
Segment(type) == [type |-> type, offset |-> 0, size |-> 1]
Usual == ElfHead(128, <<Segment("load"), Segment("stack")>>, {})

Zs(link, z, rd, gz, md5, size, memsize, class) ==
  [head |-> Usual, note |-> TRUE, kind |-> "chrp", link |-> link, z |-> z, rd |-> rd, gz |-> gz, md5 |-> md5, size |-> size, memsize |-> memsize, class |-> class]
Ps(z, rd, size) ==
  [head |-> Usual, note |-> FALSE, kind |-> "prep", link |-> 16, z |-> z, rd |-> rd, gz |-> TRUE, md5 |-> FALSE, size |-> size, memsize |-> size, class |-> 32]

(* With little room, with a note, with something behind the headers.       *)
Headed(h, note) == [Zs(2, 1, 1, TRUE, TRUE, 2, 2, 64) EXCEPT !.head = h, !.note = note]
OddHeads ==
  {Headed(ElfHead(n, <<Segment("load")>>, t), TRUE) : n \in {64, 65}, t \in {{}, {20}, {21}, {36}, {37}, {64}}}
  \cup {Headed(ElfHead(n, <<Segment("load"), Segment("note")>>, {}), TRUE) : n \in {72, 128}}
  \cup {Headed(ElfHead(60, <<Segment("load")>>, {}), FALSE)}

Is(z, memsize, rd, map, wrong) ==
  [head |-> Usual, note |-> FALSE, kind |-> "iseries", link |-> 0, z |-> z, rd |-> rd, gz |-> FALSE, md5 |-> FALSE,
   size |-> z, memsize |-> memsize, class |-> 64, map |-> map, naca |-> 1,
   elf |-> wrong # "elf", eye |-> wrong # "eye", attached |-> wrong = "attached", ends |-> wrong # "ends"]
IseriesImages ==
  {Is(z, m, rd, 3, "") : z \in {2, 3, 5}, m \in {4, 6}, rd \in {0, 1, 2}}
  \cup {Is(2, 3, rd, 1, "") : rd \in {0, 1}}
  \cup {Is(2, 4, rd, 2, w) : rd \in {0, 1}, w \in {"elf", "eye", "attached", "ends"}}

SomeImages ==
  {Zs(l, 1, rd, TRUE, l = 8, 2, m, c) : l \in {2, 8}, rd \in {0, 1, 3}, m \in {2, 5}, c \in {64}}
  \cup {Zs(2, 1, 1, TRUE, FALSE, 2, 2, 32)}
  \cup {Zs(8, 2, 2, FALSE, TRUE, 2, 2, 64)}
  \cup OddHeads \cup IseriesImages
  \cup {Ps(z, rd, s) : z \in {2}, rd \in {0, 1, 3, 6}, s \in {7, 8, 11, 14}}

(* Processors with their nodes, as firmware may lay them out: one that     *)
(* says it is wide and one that does not, known by the tree, by the table  *)
(* or by neither.                                                          *)
Node(type, wide) == [type |-> type, wide |-> wide]
Proc(pvr, nodes, bits, known) == [pvr |-> pvr, nodes |-> nodes, bits |-> bits, known |-> known]

G5      == Proc(<<\h3C, \h301>>, <<Node("", FALSE), Node("cpu", TRUE), Node("cpu", TRUE)>>, 64, TRUE)
Power3  == Proc(<<\h40, \h104>>, <<Node("pci", FALSE), Node("", FALSE), Node("cpu", FALSE), Node("", FALSE)>>, 64, TRUE)
Power6  == Proc(<<\h3E, \h301>>, <<Node("cpu", TRUE)>>, 64, TRUE)
G4      == Proc(<<\h800C, \h1104>>, <<Node("cpu", FALSE), Node("", FALSE)>>, 32, TRUE)
Mpc8245 == Proc(<<\h8081, \h1014>>, <<Node("cpu", FALSE)>>, 32, TRUE)
Ppc440  == Proc(<<\h4222, \h1850>>, <<Node("cpu", FALSE)>>, 32, TRUE)
E200    == Proc(<<\h8112, \h40>>, <<Node("cpu", FALSE)>>, 32, TRUE)
Newer   == Proc(<<\h12, \h33>>, <<Node("cpu", FALSE)>>, 64, FALSE)
Dream   == Proc(<<\h39, \h202>>, <<>>, 64, FALSE)

Chrps(needsMap, taken, busy, size, proc, loads) ==
  [kind |-> "chrp", top |-> 24, load |-> -1, loads |-> loads, busy |-> busy, claimed |-> taken,
   memory |-> size, needsMap |-> needsMap, pvr |-> proc.pvr, nodes |-> proc.nodes, bits |-> proc.bits, known |-> proc.known,
   of |-> TRUE, banks |-> <<>>, residual |-> 0, reg |-> 0]
Preps(load, of, taken, banks, residual, reg) ==
  [kind |-> "prep", top |-> 60, load |-> load, loads |-> 40, busy |-> {}, claimed |-> taken,
   memory |-> 60, needsMap |-> FALSE, pvr |-> <<0, 0>>, nodes |-> <<>>, bits |-> 32, known |-> FALSE, of |-> of, banks |-> banks, residual |-> residual, reg |-> reg,
   bug |-> ~of, cpus |-> IF load = 20 THEN 2 ELSE 1]

(* With the disk full, nearly full and empty. *)
IseriesMachine(disk) == [kind |-> "iseries", top |-> 24, load |-> -1, loads |-> 24, busy |-> {}, claimed |-> {}, memory |-> 24,
  bits |-> 64, known |-> FALSE, nodes |-> <<>>, needsMap |-> FALSE, disk |-> disk]

Bank(on, s, e) == [on |-> on, start |-> s, end |-> e]

SomeMachines ==
  {IseriesMachine(d) : d \in {2, 3, 4, 7, 9, 30}} \cup
  {Chrps(FALSE, {0, 23}, {0, 1, 23}, 20, c, n) : c \in {Newer, G5}, n \in {1, 2, 40}}
  \cup {Chrps(FALSE, {0, 23}, {0, 1, 23}, 20, c, 40) : c \in {Power6, Mpc8245, E200, Dream}}
  \cup {Chrps(FALSE, {0} \cup 4..6, {0, 1, 5}, m, Power3, 40) : m \in {12, 14, 20}}
  \cup {Chrps(FALSE, {0}, {0, 1}, 15, G5, 40)}
  \cup {Chrps(TRUE, {0}, {0}, m, c, 40) : c \in {G4, Ppc440}, m \in {8, 16}}
  \cup {Preps(l, FALSE, {}, b, 0, 0) : l \in {12, 16, 20}, b \in {<<>>, <<Bank(FALSE, 0, 0)>>, <<Bank(TRUE, 0, 15), Bank(FALSE, 0, 0), Bank(TRUE, 16, 31)>>}}
  \cup {Preps(12, TRUE, t, <<>>, r[1], r[2]) : t \in {{}, {25}}, r \in {<<32, 16>>, <<0, 16>>, <<0, 0>>}}

Lines == {<<"c", " ", "c", "c">>, <<" ">>}
Keyboard == {"c", " ", "[", "esc", "^h", "^u", "^w", "^m", "^c"}
=============================================================================
