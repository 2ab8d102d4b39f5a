-------------------------------- MODULE OfFile --------------------------------
(***************************************************************************)
(* fs_of.c and the calls of prom.c under it: files that the firmware       *)
(* itself reads, from a disk or over the network.  From a disk the         *)
(* firmware keeps a position of its own, may give less than it is asked    *)
(* for, nothing for a while, or an error; a file from the network is       *)
(* loaded whole when it is opened.                                         *)
(*                                                                         *)
(* That firmware keeps its position when it refuses to seek is assumed;    *)
(* that the buffer of the download is still there is BootLoad's question.  *)
(***************************************************************************)
EXTENDS Driver

CONSTANT Patience   (* how often in a row a device gives nothing and then goes on *)

(* Plausible errors. *)
Tries_Fewer == 8
Moved_Always(p, ok) == p
-----------------------------------------------------------------------------
(* place: the position of the firmware; want: what is left to be read;     *)
(* retries: what prom_read still tries; i: of of_read; quiet: how often in *)
(* a row there was nothing.                                                *)
NoInfo == [place |-> 0, want |-> 0, retries |-> 0, i |-> 0, quiet |-> 0]

Init ==
  /\ disk \in {d \in Disks : d.fs = "of"} /\ pc = "closed" /\ info = NoInfo
  /\ path = <<>> /\ obj = disk.root /\ parent = disk.root /\ links = 0 /\ pos = 0 /\ len = 0
  /\ buf = <<>> /\ err = "OK" /\ failed = 0 /\ calls = 0
  /\ asked = [path |-> <<>>, from |-> 0, size |-> 0]

Refuse(e) == pc' = "refused" /\ err' = e

(* open_file starts with an empty boot_file_t. *)
Open(p) ==
  /\ pc \in {"closed", "open", "refused"} /\ calls < MaxCalls /\ calls' = calls + 1
  /\ asked' = [path |-> p, from |-> 0, size |-> 0]
  /\ pc' = "opening" /\ pos' = 0 /\ len' = 0 /\ buf' = <<>> /\ failed' = 0 /\ info' = NoInfo
  /\ UNCHANGED <<disk, lookup, err>>

(* What firmware finds. *)
IsFile == asked.path \in DOMAIN disk.names
Found == disk.names[asked.path]

(* of_open: firmware finds the file, or it does not. *)
OpenBlock ==
  /\ pc = "opening" /\ ~disk.net /\ IsFile /\ obj' = Found /\ pc' = "open"
  /\ UNCHANGED <<disk, info, path, parent, links, pos, len, buf, err, failed, history>>

(* of_net_open: the name is looked at only when the file is loaded. *)
OpenNet ==
  /\ pc = "opening" /\ disk.net /\ pc' = "download"
  /\ UNCHANGED <<disk, info, lookup, pos, len, buf, err, failed, history>>

OpenFails ==
  /\ pc = "opening" /\ Refuse("BAD_FSYS")
  /\ \/ ~disk.net /\ ~IsFile /\ UNCHANGED failed
     \/ Fails
  /\ UNCHANGED <<disk, info, lookup, pos, len, buf, history>>

Download ==
  /\ pc = "download" /\ IsFile /\ obj' = Found /\ pc' = "open"
  /\ len' = Len(disk.tree[Found].bytes)
  /\ UNCHANGED <<disk, info, path, parent, links, pos, buf, err, failed, history>>

DownloadFails ==
  /\ pc = "download" /\ Refuse("IOERR")
  /\ \/ ~IsFile /\ UNCHANGED failed
     \/ Fails
  /\ UNCHANGED <<disk, info, lookup, pos, len, buf, history>>

-----------------------------------------------------------------------------
Moved(p, ok) == IF ok THEN p ELSE pos

(* of_seek and of_net_seek *)
Seek(p) ==
  /\ pc = "open" /\ calls < MaxCalls /\ calls' = calls + 1 /\ buf' = <<>>
  /\ asked' = [asked EXCEPT !.from = p, !.size = 0]
  /\ \/ /\ ~disk.net /\ p <= Len(Content) /\ pos' = Moved(p, TRUE)
        /\ info' = [info EXCEPT !.place = p] /\ UNCHANGED <<err, failed>>
     \/ /\ ~disk.net /\ ((p > Len(Content) /\ UNCHANGED failed) \/ Fails)
        /\ err' = "CANT_SEEK" /\ pos' = Moved(p, FALSE) /\ UNCHANGED info
     \/ disk.net /\ pos' = Lesser(p, len) /\ UNCHANGED <<info, err, failed>>
  /\ UNCHANGED <<pc, disk, lookup, len>>

-----------------------------------------------------------------------------
Tries == 9     (* prom_read: while (--retries) from 10 *)

(* of_read: i, the answers of prom_read in a row that were no use, starts  *)
(* where one is left.                                                      *)
Read(size) ==
  /\ pc = "open" /\ ~disk.net /\ calls < MaxCalls /\ calls' = calls + 1
  /\ asked' = [asked EXCEPT !.from = pos, !.size = size]
  /\ buf' = <<>> /\ pc' = "reading"
  /\ info' = [info EXCEPT !.want = size, !.retries = Tries, !.i = 5, !.quiet = 0]
  /\ UNCHANGED <<disk, lookup, pos, len, err, failed>>

EndRead(count) == pc' = "open" /\ pos' = pos + count

Left == Len(Content) - info.place

Gives(k) ==
  /\ pc = "reading" /\ k <= Lesser(info.want, Left)
  /\ buf' = buf \o SubSeq(Content, info.place + 1, info.place + k)
  /\ info' = [info EXCEPT !.place = @ + k, !.want = @ - k, !.retries = Tries, !.i = 0, !.quiet = 0]
  /\ \/ info.want > k /\ UNCHANGED <<pc, pos>>
     \/ info.want = k /\ EndRead(Len(buf'))
  /\ UNCHANGED <<disk, lookup, len, err, failed, history>>

(* prom_read came back with nothing or -1, which is more than was asked for *)
NoUse ==
  /\ UNCHANGED buf
  /\ \/ info.i <= 5 /\ info' = [info EXCEPT !.i = @ + 1, !.retries = Tries, !.quiet = @ + 1] /\ UNCHANGED <<pc, pos>>
     \/ info.i > 5 /\ EndRead(Len(buf)) /\ UNCHANGED info

GivesNothing ==
  /\ pc = "reading" /\ (Left = 0 \/ info.quiet < Patience)
  /\ \/ info.retries > 1 /\ info' = [info EXCEPT !.retries = @ - 1, !.quiet = @ + 1] /\ UNCHANGED <<pc, pos, buf>>
     \/ info.retries = 1 /\ NoUse
  /\ UNCHANGED <<disk, lookup, len, err, failed, history>>

GivesError ==
  /\ pc = "reading" /\ Fails /\ NoUse
  /\ UNCHANGED <<disk, lookup, len, err, history>>

(* of_net_read *)
NetRead(size) ==
  /\ pc = "open" /\ disk.net /\ calls < MaxCalls /\ calls' = calls + 1
  /\ asked' = [asked EXCEPT !.from = pos, !.size = size]
  /\ \E count \in {Lesser(size, len - pos)} :
       buf' = SubSeq(Content, pos + 1, pos + count) /\ pos' = pos + count
  /\ UNCHANGED <<pc, disk, info, lookup, len, err, failed>>

Next ==
  \/ \E p \in Paths : Open(p)
  \/ OpenBlock \/ OpenNet \/ OpenFails \/ Download \/ DownloadFails
  \/ \E p \in Positions : Seek(p)
  \/ \E n \in Sizes : Read(n) \/ NetRead(n)
  \/ pc = "reading" /\ \E k \in 1..info.want : Gives(k)
  \/ GivesNothing \/ GivesError
==============================================================================
