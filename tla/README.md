# A TLA+ development of yaboot and lilo for PowerPC

This directory holds a specification of the boot chain in this repository: the
second stage loader `yaboot`, the installer scripts `lilo` around it, and the
kernel wrappers in `lilo/bootheader`. TLC checks the modules on small instances
and TLAPS proves some of the results for every value of their constants.

## Inventory

### yaboot, second stage (`yaboot/second`, `yaboot/lib`, `yaboot/include`)

One thread, no interrupts of its own; everything outside it is reached by calls
to Open Firmware (OF): claim and release of physical memory, device open, seek
and read, properties of the device tree, the clock, the keyboard.

| component | state | operations | what makes it correct |
|---|---|---|---|
| heap, `lib/malloc.c` | arena, growing pointer, last block | malloc, realloc, free, mark, release, dispose | blocks in use never overlap; free takes back only what was given up |
| firmware claims and image loading, `prom.c`, `yaboot.c` | memory claimed for heap, kernel, ramdisk, TFTP buffer | prom_claim_chunk, prom_claim_chunk_top, prom_release, load_elf32, load_elf64, the ramdisk loop | every byte the kernel is given was claimed for it; a failed attempt gives back what it took |
| user interface, `yaboot.c`, `cmdline.c` | command line buffer, password buffer, boot-once label, timeout | get_params, check_password, yaboot_text_ui | nothing protected boots without the password; the boot-once label is used once; the prompt always leads on |
| configuration, `cfg.c` | token reader, current table, list of images | cfg_next, cfg_set, cfg_parse, cfg_get_strg, cfg_get_default | an option belongs to the image it follows and to the machine it names; a faulty file is reported |
| files, `file.c`, `fs_*.c` | the open file, one set of statics per driver | open_file, fs_open, read, seek, close | what read returns is what the file holds; an open that fails leaves the driver usable |
| partition tables, `partition.c` | list of partitions, boot-once copy | partitions_lookup and one reader for each label | the walk of a table ends; every partition is listed once |
| device paths, `parse_device_path.c` | default device | imagepath_to_path_description, set_default_device, path_description_to_string | a path without a device means the default device; what is printed names what was opened |
| start, `yaboot.c`, `prom.c` | handles of the firmware, the note | yaboot_start, prom_init, setup_display | a reset the note asks for is asked for once |
| line editor, `cmdline.c`, `cfg_print_images` | word to complete, the widest name | cmdedit, tab completion | the tab key adds what the names leave no choice about and stays in its buffers |

### Installer scripts (`lilo/lilo.new`, `lilo/lilo-*.lib`, `lilo/show_of_path.sh`)

Bash, run as root on the installed system. `lilo.new` reads `/etc/lilo.conf`
and calls the installer for the kind of machine: CHRP, PReP and Pegasos
(`lilo-chrp.lib`), PowerMac (`lilo-pmac.lib`), iSeries (`lilo-iseries.lib`) or
PS3. State: the boot partition, its place and flag in the partition table, the
files or the image on it, `/etc/yaboot.conf`, and the firmware's `boot-device`
variable. The steps are not atomic, each may fail or be cut short, and what an
earlier run left is still there; what matters is that the machine still boots,
and that it boots what `lilo.conf` now asks for.

### Kernel wrappers (`lilo/bootheader`)

An image is a wrapper, a compressed kernel, a ramdisk, a command line and
checksums, which `mkzimage` links together and the programs in `utils` finish.
The `chrp`, `prep` and `ps3` wrappers run in memory that firmware or the image
itself occupies, unpack the kernel and the ramdisk, and enter the kernel.
`ps3/simple_alloc.c` is a heap of its own and `ps3/flatdevtree.c` edits the
device tree handed to the kernel. What makes them correct: the kernel finds
itself, its ramdisk, its command line and its tree whole where it is told they
are, and nothing that is still needed is written over before.

### Legacy and build parts

`yaboot/ybin` (the older installer), `yaboot/first/ofboot` (Forth), host
utilities, and `x86` (tarball and patches). Vendored code: zlib (`inf*.c`),
`md5.c`, `vsprintf.c`; the ext2 library in `e2fsprogs_*.c` is vendored too, but
what yaboot calls of it is in the models.

## Modules and the code

Every module names at its head the functions it stands for; `map` in
`PROJECT.json` gives the lines of each definition. In all of them an action is
one handler, or the part of a handler between two calls that may fail, and a
failure is an action of its own.

| module | code | state and its counterpart |
|---|---|---|
| `YabootMalloc`, `HeapContract` | `lib/malloc.c` | `mallocPtr`, `mallocTop`, `lastAlloc` are the statics; `live` are the blocks the callers still hold |
| `BootLoad` | `prom_claim`, `prom_claim_chunk`, `prom_claim_chunk_top`, `prom_release`; `yaboot_start`, `load_elf32`, `load_elf64`, the second half of `yaboot_text_ui`, `of_net_download` | `owner`: who holds each step of memory; `base`, `memsize`, `rdBase`, ... are the locals of the same meaning |
| `TextUI` | `get_params`, `check_password`, the loop of `yaboot_text_ui`, the boot-once line in `partition_mac_lookup` | `sel` is what is going to be booted, `once` the buffer `lilo_once_cmdline`, `saved` the variable `boot-last-label`; `unsaved` remembers that there was no memory to write the last line to it |
| `Cfg` | the token reader, `cfg_next`, `cfg_set`, `cfg_parse`, `cfg_get_strg`, `cfg_get_flag`, `cfg_get_default` | `globals`, `images`, `table` are the tables; `skipping` is `reuse_prev_image`; `read` is what the entries mean, `filed` what `cfg_set` was called with |
| `TabCompletion` (on `Cfg`) | `cmdedit` and `cfg_print_images` | `line` is the command line; `tab` holds the locals of one press of the key, `tab.buf` being `tab_completion_buf` |
| `BootPath` (on `CpuTable`) | `parse_device_path.c`, where a description is a record with the fields of `path_description`; `yaboot_start`, `prom_init`, `yaboot_main`, `find_and_load_config_file`, `get_params` as far as they name files | `chosen`: the handles and what firmware keeps of them; `fw`: the machine; `default` is `default_device`, `spec`, `kernel`, `rd` the descriptions |
| `Ext2Read` | `ext2_read`, `read_iterator`, `read_dump_range`, `linux_read_blk`, block iteration of the ext2 library | `start`, `count`, `last` are the range, `buf` what is in the caller's buffer |
| `Partition` | `partition.c` | `list`, and `walk`: the counters of the reader that runs |
| `OpenFile` (on `Partition`) | `file.c`, open and close of `fs_ext2.c`, `fs_xfs.c`, `fs_reiserfs.c`, `fs_of.c`, the callers in `yaboot.c` | `at`: the partition and driver tried; `fs`, `device` are in the `boot_file_t`; `opened` the static of the ext2 driver; `live` counts the handles the firmware has open |
| `Driver` | what the drivers share: open, seek, read, and what they promise | `disk`: a directory tree and its encoding; `info`: the statics of the driver |
| `Ext2Names` | `ext2_open` through the ext2 library: super block, groups, inode cache, `open_namei`, directories, links, byte order | `info.cache` and `info.last` are the inode cache, `info.table` the group descriptors; `path` the names still to follow |
| `ReiserFS` | `fs_reiserfs.c`: node cache, `search_stat`, `next_key`, journal table, directories, links, reads | `info.blocks` is `blocks`, `info.slot` what lies in the cached nodes; `info.transactions` the journal's, `info.table` what lies behind `FSYS_BUF` |
| `Xfs` | `fs_xfs.c`: inodes, extents, the extent tree, directory blocks, links, reads | `info.ext`, `prev`, `left`, `end` are the locals of `xfs_read_data`, `info.forw`, `dirpos`, `dirmax`, `dablk` the statics of the directory |
| `OfFile` | `fs_of.c` and `prom_read`, `prom_seek`, `prom_lseek`, `prom_loadmethod` | `info.place` is the firmware's own position, apart from `file->pos` |
| `LiloConf` | `parse_config_file`, `check_config_file`, and in each installer what decides which file is copied and how it is named | pure: `conf` has a field for each `OPTION_` and a record for each `CONFIG_IMAGE_` index |
| `LiloChrp` (on `LiloConf`) | `running_on_chrp` with `error` and the exit trap of `lilo.new` | `parts`: tables and files of the disks; `flags` is `p_flags`; `nvram` is `boot-device` |
| `Installers` (on `LiloConf`) | the installers for PowerMac, PReP, iSeries, Pegasos and PS3 | `medium`: what lies at each `boot=`; `left`: entries still to do |
| `Lilo` (on both) | the end of `lilo.new`: one installer by the kind of machine | |
| `FlatTree` | `simple_alloc.c`, `flatdevtree.c` | pure: a heap is a record with the table, the context is a record, memory a function from words |
| `DevTree` | the promise of `dt_ops` (`ops.h`): nodes with named values, handles that keep their meaning | abstract |
| `Ps3Wrapper` (on `FlatTree`) | `platform_init`, `devtree.c`, `flatdevtree_misc.c`, or any other client of `dt_ops` and the heap | `f` is the context with the memory; `seen` what a client has been told |
| `ZImage` | common to the wrappers: image, memory, claims, `gunzip.c`, `get_cmdline.c`, `mkzimage_cmdline.c`; `addnote.c`, `mkprep.c`, `iseries-addRamDisk.c`, `iseries-addSystemMap.c` | `mem`: what each block holds; `claimed`; `file`: what has been written |
| `CpuTable` | `cputable.c`, the one of yaboot and its copy in the wrappers | pure |
| `ChrpWrapper`, `PrepWrapper` | `chrp/main.c` with `of1275_*`; `prep/relocate.S`, `prep/main.c` | `at`: the addresses of the locals |
| `Wrappers` (on all of these) | one image from the build to the kernel | |
| `*_proofs` | | the theorems about the module of that name, and their lemmas |

`HeapContract` is the abstract specification of a heap: grant blocks that touch
no other, take back what is given up. `YabootMalloc` implements it under the
mapping that forgets the pointer (`KeepsContract`). `DevTree` is the abstract
specification of a device tree; every step of `Ps3Wrapper` on its block of
words is a step of it under the mapping that reads nodes and handles off the
block (`KeepsPromise`). `Driver` states what a lookup and a read promise, and
`MCDrivers` holds the four drivers to it as disjuncts of one machine.

`OpenFile` extends `Partition`, so that every open goes through the walk of the
label that the same disk has; `BootLoad` and `TextUI` take up where a file
has been opened or a command line typed, and `BootPath` is where its name comes
from. `Lilo` is the composition of the installers; what `LiloConf` writes into a
`yaboot.conf` is read back in it with the rules of `BootPath`, put in short.

## What the runs check

| run | instance | distinct states | what it shows |
|---|---|---|---|
| `heap` | an arena of 26 bytes, three sizes, two marks | 44,223 | `HeapSafe`: blocks in use are apart and below the pointer; `KeepsContract`: refinement |
| `bootload` | memory of 14 steps, firmware that keeps steps in the middle, kernels of one and two segments, two attempts | 330,066 | `KernelMemoryHeld`, `RamdiskClear`, `WholeRamdisk`, `RetryFindsMemory`; `AttemptEnds` |
| `bootload_held` (fails) | the same from the network | | `BufferHeld`: the download buffer is released while the file in it is open |
| `textui` | two labels, one restricted, six configurations with every kind of timer, seven lines, malloc failing or not, three starts | 1,852,322 | `NoUnauthorisedBoot`, `OnceUsedOnce`, `SameAfterReboot`; `UnattendedBoot` |
| `cfg` | every file of up to four entries from eleven spellings and five that are refused, on each kind of cpu; then lines typed and completed | 1,692,115 | `ReadsWhatIsMeant`: `cfg_set` is called with what each spelling means, once and in order; `FiledWhereItStands`: as long as options are spelled as the manual spells them, the tables hold at any time what it says the entries so far mean; `Completes`: the tab key adds what the names have in common and no more |
| `ext2` | eight layouts with holes and fragments, every position and size, three calls | 132,662 | `ReadsRight`, `WholeRead`, `InBuffer` |
| `files` | ten disks, one for each way through `partitions_lookup` | 397,079 | `ListedRight`, `NothingLeftOpen`, `FindsFile`; `OpenReturns` |
| `drivers` | ReiserFS, XFS and ext2 disks and files of the firmware; links, journals, trees of three levels, either byte order; three calls with two failures | 269,348 | `FindsRight`, `ReadsRight`; `CacheTrue`: nodes, inodes and positions that are kept are true |
| `paths` | boot paths of disks and of two kinds of network, firmware that fills in addresses, configurations and typed names | 45,799 | `RelativeStays`, `PrintedNamesSame`; `ComesUp` |
| `wrappers` | images for CHRP, PReP and iSeries, loaded whole or in part, on machines with much or little memory | 1,975,148 | `HandsOverWhole`, `RunsOnIntact`, `LineOfImage`, `GivesUpForReason` |
| `ps3` | three trees; the wrapper itself, or a client that makes three calls in any order | 23,072 | `KernelSeesTree`, `BlockHeld`, `KernelToldAll`; `KeepsPromise`: refinement of `DevTree` |
| `lilo` | every kind of machine, two runs; on CHRP RAID members, one PReP partition, two of them, forced FAT; on the others `lilo.conf` changed in between | 2,134,803 | `CloneSurvives`, `SuccessInstalls`, `OffersWhatIsAsked`; `BootDeviceLast` |

The run that fails is a disagreement of the code with a line of its own
documentation; `findings` in `PROJECT.json` quotes it. The type invariants of
`YabootMalloc` and of the prompt are proved as parts of `IInv` and `UIInv`; where a module has variables of structured values, its properties apply
functions to them, so that a value of another kind would stop TLC.

### Bounds

Unbounded loops are cut by named constants, and each bound is beyond the point
where behaviour repeats.

- `heap`: three blocks fit into the arena, so there is always one below, one
  between and one above; a request that does not fit; nested marks.
- `bootload`: a claim is answered at the hint, above it, or not at all; a
  ramdisk is smaller than, equal to and a multiple of the chunk. `MaxTries = 2`,
  because an attempt depends on an earlier one only through the memory that one
  left claimed. The second of two segments lies behind
  what is claimed for the first (ELF64), the first below what is claimed for the
  second (ELF32).
- `textui`: `MaxStarts = 3` is one start that leaves a line, one that uses it
  and one that must not. What lies at address 0, where `args` is read when it is
  NULL, is an argument or nothing.
- `cfg`: four entries allow two sections with options, a section for the
  other cpu between them, and two names of which one begins the other.
  `MaxToken = 4` and `CmdLeng = 6` are reached by some word, as
  `TOKEN` and `CMD_LENG` are not by ordinary files; two characters typed and a
  tab reach every turn of the completion loop with the names there are.
- `ext2`: two byte blocks have a partly wanted first and last block;
  `MaxRange = 2` splits a run of three; `Direct = Group = 2` reaches the
  direct, the indirect and the double indirect blocks. `MaxCalls = 3` is a
  read after a seek and one that continues.
- `files`: two configuration names, `MaxLoads = 2` attempts to load, after
  which the loop only repeats what it did. `LastVol` and `RdbMax` are small but
  both loops run to their ends.
- `drivers`: `MaxCalls = 3` is an open, a read and one that goes on or
  starts elsewhere, or two opens through the same caches; `Failures = 2` lets a
  device fail once in each of two calls. `Slots = 2` and `Half = 2` fill the
  node cache and split a journal's table between descriptor and commit block.
  `Patience = 17` is the number of empty answers after which a read gives up.
- `paths`: one kernel after another, as an attempt changes only
  `default_device`, which the next one starts from; there is no bound on the
  number of attempts.
- `wrappers`: at most 25 blocks of memory, on PReP 61, and a search for memory that
  ends at 16; `LineSize = 4` is reached by a stored and a
  typed line; `Page = 2` and `Header = 2` leave files that end at a page, in
  front of one, and behind one.
- `ps3`: `MaxCalls = 3`: an edit that moves, one that moves what the first
  gave out, and one that looks. Calls that only read come last, as nothing can
  come of them. `MaxDepth = 6` is more than any tree has.
- `lilo`: `MaxRuns = MaxInstalls = 2`, one run and the one that meets what it
  left, or is cut short.

`CHECK_DEADLOCK FALSE` stands where a bound or the program ends the behaviour:
the last start, read, load or run has happened, or the kernel was entered.

### Fairness

yaboot is one thread without interrupts, so its next step is taken: `WF` on the
steps of the loader (`Step`, `Opens`). `TextUI` adds that a timer runs out and
that firmware which was told to reboot does so, and `BootPath` needs fairness only
of the steps from the reset to the boot path (`StartUpStep`). Nothing is assumed of the
person at the keyboard, of the commands of the installer or of the power, and
calls to the firmware are taken to return.

## What is proved

The proofs are in the modules named `*_proofs`. Each argument is the usual one:
an invariant holds at first, each action keeps it (one lemma for each action,
or for those that treat the state alike), and it implies the property. The
bounds of the runs (attempts, starts, calls, sizes) are constants of any value
there.

- `YabootMalloc_proofs`: `IInv` is inductive for every arena and every set of
  sizes (`Inductive`); from it `TypeCorrect`, `BlocksSafe` and the refinement
  `Implements`. `HeapSafe` alone is not inductive: a free of the last block
  moves the pointer back, and only `LastIsTopmost` (the last block, while it is
  in use, is above all others) and `MarksInv` (a mark is no higher than the pointer,
  and no block in use lies across it) make a free and a release keep the blocks
  below the pointer. Assumed: the arena does not begin at 0 and leaves room for one
  header before it (`ArenaAssumption`).
- `BootLoad_proofs`, for every memory, firmware map, kernel and ramdisk:
  `RamdiskIsWhole`, `RetriesFindMemory`, `KernelIsHeld` and `RamdiskIsClear`. `IInv` says at each `pc` whose the memory at `base` and `rdBase`
  is (`HeldInv`), how it differs from what it was before the attempt (`AttemptInv`),
  how much of the ramdisk is in it (`SizeInv`) and that
  the claim is for the main segment and the room above it (`ClaimInv`). The last two have a
  hypothesis without which the code is wrong, as the next section says: `DiskOnly`
  (nothing comes from the network, whose buffer is released twice). That the two claim searches
  return free memory, or fail, are lemmas of their own.
- `TextUI_proofs`: `UIInv` is inductive for every configuration, set of labels,
  arguments and lines (`PromptInductive`), and with it nothing protected is
  acted on without the password (`OnlyWithPassword`). The strengthening says
  that the line in hand and every line kept anywhere for later is a line of
  the constants' types (so that `AsksPassword` has a value for it), and that
  whoever is past the password was let through by it. `OnlyOnce`: a line on the
  disk that is still to be used has been used by no start (`OnceInv`).
  `RebootsSame` relates `saved` to `sel` at each `pc` (`RebootInv`) and needs a
  lemma on what a saved line reads as, also when `args` is NULL and the line is saved
  with what lies at address 0, which is then what the kernel gets after the reboot.
  Nothing is claimed of a reboot after `malloc` had failed (`unsaved`).
  `UIAssumption` only separates NULL and the empty string from real arguments.
- `OpenFile_proofs`: `HandlesAreClosed`, from the number of open handles at
  each `pc` (`LiveInv`, `PlaceInv`), for every disk; `LabelIsListed`
  (`ListedRight`): `partitions_lookup` lists what Linux numbers on the disk, for
  all six kinds of label, maps and tables of any size and chains of any length; and
  from it `FileIsFound` (`FindsFile`). `Partition` defines what the label says as a whole
  (`Numbered`): the entries of a map up to the first without a signature, the
  row of tables of an extended partition (`TableRow`) and in it the slots that
  are counted, each with the number of those ahead of it (`LogicalPart`), the row of
  blocks of an Amiga label (`PartRow`). The inductive invariant `Came`
  says for each reader that the list holds what comes before the place it has
  come to, each once, and all of it unless something failed (`Collected`); in a
  chain it needs that the place is a table of the row, that the counter is the
  rank of the slot (`InTable`), and that ranks differ (`RankGrows`). TLC
  checked `Came` on the disks of `files` before it was proved. Assumed is
  `LabelAssumption`: the label is one yaboot can read (GPT entries in one block, one
  extended partition, whose tables come to an end, an RDB where it is looked for);
  the section on divergences says what the code does with others. For the
  search the invariant `Found` says that of the partitions that were passed none
  has the file, unless something failed.
- `Ext2Read_proofs`: `Ext2InvHolds`, and from it `StaysInBuffer`, `ReadsAll`
  and `WhatIsReadIsThere`, for files of every layout, blocks of every size and every
  split into direct and indirect ones. `IInv` stands at the end of `Ext2Read`: the
  blocks up to `last` are in the buffer (`BufInv`, `InLast`), the next `count` are the
  range (`RangeInv`), those up to `bcount` are holes (`HoleInv`), at most one block of
  the range is not wanted whole (`RangeSize`), and what is not wanted any more has
  been reached (`ReachInv`, `EndInv`). The last of the theorems assumes
  `~ShortReads`, a device that returns what it was asked for: with one that does
  not the code is wrong.
- `Lilo_proofs`: `LiloInvHolds`, for every machine with PC partitions, configuration
  and any number of runs, failing commands and crashes, and from it `ClonesSurvive`,
  `EndsInstalled` and `DeviceLast`. `IInv` says what each stage has done to its
  target (`FatInv`, `PrepInv`), that a run past its last target has installed it
  (`DoneInv`), and, for clones, that the partition `boot-device` names first is whole
  and not still to be worked on, or comes after one (`AnchorInv`). Assumed are names and
  numbers that differ (`ChrpAssumption`).
- `Lilo_proofs` also has `KernelsOffered` (`OffersWhatIsAsked`), for every kind of
  machine, every `lilo.conf` and any number of runs. Half of it is about what was left
  behind: with PC partitions `ServedInv` says that a target the run is done with has
  all the default needs, on the others `InstallInv` says what each step has left on
  the medium, or that a command failed without notice (`missed`), that what is still
  to be written is named by `lilo.conf` (`Working`, `Waits`), and that the configuration in
  hand is one that was accepted (`Accepted`). The other half is about paths: what
  `lilo.conf` comes to has the shape of the `OPTION_` and `CONFIG_IMAGE_` variables,
  whatever the lines (`Shaped`), its entries are the kernels on offer in order, each
  once (`InOrderIs`, `EntriesAre`), and each path, stripped of its device or naming
  a copy, leads yaboot to the file of its section (`StripLeads`, `CopyLeads`,
  `OriginalLeads`). `Parsed` goes through the lines with a recursive function; that
  every prefix is read (`ReadingIs`) and gives that shape (`ParsedShaped`) is proved
  from the shortest prefix of which it would be false (`Lowest`). Assumed: a file has
  a name and lies on a partition (`PlacesAssumption`); of the other machines, that
  they do not answer as one with PC partitions, that firmware and its files are there,
  and that a `lilo.conf` that is accepted is none of those known to go wrong
  (`OthersAssumption`, with `Suitable`; the next section says what happens to the others).
- `Wrappers_proofs`: `LineIsTheImages`, `WrapperStaysIntact`, `KernelGetsAll` and
  `StopsForReason`, for every image, machine, place it is loaded to and memory it is
  granted. `IInv`
  says which places belong to which machine (`PlaceInv`), that records and memory
  keep their form (`ShapeInv`), whose line it is and what the records say of it
  (`LineInv`), what `addnote`, `mkprep` and the iSeries tools have written
  (`ImageInv`), and on CHRP and PReP what is whole and what lies apart from what at
  each `pc` (`ChrpInv`, `PrepInv`). None of the properties is inductive: that the
  ramdisk arrives needs that claims never hand out the image, nor what firmware uses
  (`Claims`), that the kernel has its own memory (`KernelApart`), and on PReP, that
  the image is still as linked until the records are written (`AsLinked`). Lemmas
  say what a copy, `do_relocate` and `Gunzip` leave alone (`Copied`, `Relocation`,
  `Unpacks`, `Kept`), what the kernel finds in the records (`BootinfoTells`), and what
  the rounding to pages and megabytes gives (`AlignIs`, `TotalIs`). Assumed: the
  image fits into memory and nobody has claimed its place (`Init`), a kernel's size in
  memory is not less than what is loaded of it and what firmware uses unclaimed lies
  below where the search begins (`ChrpAssumption`), and the kernel with its bss fits
  below the PReP wrapper (`PrepAssumption`). The properties themselves speak of images
  that came whole or have a checksum (`Checked`) and whose records miss the wrapper
  (`Clear`); the next section says what happens to others. `StopsForReason` adds what
  was known of the processor and the claims at each stop (`WhyInv`); its hypothesis
  `ProcessorsTold`, that tree and table are right about the processor, holds of those
  of the run, one for each kind of row in `CpuTable`.
- `TabCompletion_proofs`: `CompletionInv` and from it `TabCompletes` (`Completes`), for
  every configuration file, every line that is typed and every length of the command
  line. `Completes` speaks of the end of a search and of the whole names; the code
  settles one character a turn and compares only the next one. What joins the two is
  `Searching`: after the first turn the names that match the buffer are those that
  matched the word, there are at least two, the character to settle is the next of
  one of them, and a list is printed only if another goes on differently. From
  that, and from what a longest common beginning is (`CommonIs`, `GrownPrefix`), the buffer
  is the longest one when they differ (`DifferStep`), and a search that comes to the end
  of a name with all agreeing has met two equal names only (`SettleStep`). `Editable`
  says that the blanks and the word are the line and the word no longer than the widest
  name, and `Typed` carries the names through the parser. `PickedIs` is the lemma on
  lists: the elements picked at some places come in order, each once. TLC
  checked the invariants on the files of `cfg` before they were proved. Assumed: the
  command line has room for a character, and a name is a text of characters that holds
  neither the end of a string nor -1 (`CompletionAssumption`, `CfgAssumption`).
- `TabCompletion_proofs` also has `FilesRight` (`FiledWhereItStands`), for every file,
  cpu and failing of memory, as long as options are spelled as in the manual (`Spelled`). The code keeps one flag and one pointer, the manual speaks
  of the lines a section goes over. What joins them is `Standing`: the flag says that
  the section the next entry stands in is one of another cpu, and if it does not, the
  table is that of the last section that counts. An entry more moves no other entry to
  another section (`HeadAppended`) and changes the meaning of one option of one section
  (`MeantAppended`); a section that counts is the last one, so its rank is the number of
  tables (`CountedAppended`, `SectionAppended`). That the first section is the default
  needs that it can be found by its name: its `image` is a text that was read
  (`ReadWell`), and no such text holds the end of a string. Assumed: the options of
  the tables have names of their own and entries are texts (`CfgAssumption`). What
  `cfg_set` is called with is where the lexer ends, and there is a property of its own
  for that, `ReadsWhatIsMeant`, which TLC checks.

Only model-checked, and why:

- Liveness (`AttemptEnds`, `UnattendedBoot`, `OpenReturns`, `ComesUp`) is out of the
  prover's reach.
- What recursive definitions, folds and chains in the data compute for every input
  cannot be proved without induction over data:
  `ReadsWhatIsMeant` (texts of any length), `RelativeStays` and
  `PrintedNamesSame` (words of a path), `FindsRight`, `ReadsRight` and `CacheTrue` of the
  drivers (paths, trees, journals), `KernelSeesTree`, `KernelToldAll` and
  `KeepsPromise` (a tree in a block of words).
- `BlockHeld` is about the heap of the PS3 wrapper under its client, a list of regions
  of any length.

## Known divergences without a run

Read off the code while modelling; a model either shows them with other
constants or leaves them out, as said.

Loading and the prompt:

- A network file's buffer is released twice (`fs_of.c:129`, `:255`): where
  memory is tight `KernelMemoryHeld` and `RamdiskClear` fail for network
  devices. `bootload` uses block devices, `bootload_held` shows the cause.
- With two loadable segments one is read outside the claim or into the room
  left for the boot infos: the claim is sized for the last one of an ELF32 kernel
  (`yaboot.c:418`) and the first one of an ELF64 kernel, while `lilo.changes:1779` says
  that it looks "only at the first ELF PT_LOAD section" and the message at `:395` that
  there is one. `bootload` has such kernels, of which its properties hold;
  `SegmentsInside`, put into `MCBootLoad.cfg`, fails with them.
- A restricted image that boots because the time has run out asks for the
  password (`yaboot.c:964`; `yaboot.conf.5:291` says that it does not).
- When there is no memory for the line, `boot-last-label` is not written
  (`yaboot.c:945`): firmware that then reboots finds the line of an earlier start, or
  none, and another kernel may come up than was asked for. `SameAfterReboot` leaves such
  reboots out (`unsaved`), and there is no complaint in the code.
- A single key boots only while the first countdown runs (`yaboot.c:925`;
  `yaboot.conf.5:279` says otherwise), and `args` may be NULL when
  `boot-last-label` is written (`yaboot.c:944`): what lies at address 0 is saved in its
  place, and a kernel that was to get no arguments gets these after a reboot
  (`SameAfterReboot` says so).
- `realloc` of a block that is not the last one copies its old size also into a smaller
  block (`malloc.c:82`), past its end; blocks have addresses and no contents in
  `YabootMalloc`, and nothing is allocated there yet.
- Start: the note that asks for `real-base` 12 MB is passed when `real-base`
  is 32 MB and `real-size` above 16 MB on a 64 bit processor; a missing
  `real-size` reads as the text of `real-base` that is still in the buffer. The
  last `conf=` of the arguments wins, and an empty one is none.

Configuration and the tab key:

- Names of options are compared without regard to case (`cfg.c:307`), while
  `yaboot.conf.5:103` calls them case sensitive; only the `image` lines are
  compared exactly. So `Label=` is filed as a label, and where the cpu is not known
  `Image=` as an image. The lexer and the files of `cfg` have such spellings
  (`ReadsWhatIsMeant`, `Completes`); `FiledWhereItStands` states what the manual says of a
  file and ends with the first of them (`Spelled`).
- A file without any label or alias is not used (`cfg.c:360`;
  `yaboot.conf.5:212` calls them optional), and a section without a value for
  `image` makes the search for one compare with NULL (`cfg.c:385`); in the
  model it answers to no name.
- Only `label` and `alias` in exactly these letters are measured for
  `tab_completion_buf`, so that `Label=` with a long value writes past it;
  the last part of `Completes` speaks of measured names. After a
  syntax error, or when there was no memory for it, the buffer is NULL while
  its length may not be. Of two equal names that are all that matches the
  search runs past the ends (`cfg.c:532`; "gone" in the model). Sections
  without label or alias are neither completed nor listed.

Files and partitions:

- An indirect block that cannot be read is skipped, so that later blocks move
  up; when a double indirect one follows, the error itself is lost
  (`e2fsprogs_block.c:57`, `:129`, `:384`), and callers look at the length only
  (`yaboot.c:461`). `ReadsRight` exempts a read that was complained about.
  `ext2_read` returns the rest of the last block, not of the file. When
  firmware returns less than asked for, the rest is read over the beginning
  (`fs_ext2.c:462`; `lilo.changes:343` says otherwise): with `ShortReads` TRUE
  `ShortReadsHandled` fails. The run has firmware that reads whole blocks.
- An unreadable ReiserFS node makes the open succeed with a device that is
  closed (`search_stat` returns 0 and sets no `errnum`, `fs_reiserfs.c:594`;
  comment at `:551`). `FindsFile` leaves such an open out (`unset`). At the mount
  nobody looks whether the journal and, after it, the super block could be read
  (`fs_reiserfs.c:237`, `:249`, `:256`, `:384`): from there on the driver works with what lay on
  the stack (`JournalUnread`, after which `pc` is `"lost"`, as in `Xfs`).
- GPT: only the entries in the one block that is read are found
  (`partition.c:235`). An msdos chain that comes back to an earlier table is
  followed for ever (`:160`), and with two extended partitions both number
  from 5. `_amiga_find_rdb` never returns -1, so that a disk without a label
  is read as an Amiga disk and the message at `:424` cannot appear. The
  comment at `:434` hopes for the heap: of a freed list only the block that
  was allocated last is reclaimed.

Device paths (`parse_device_path.c`):

- `enet:bootp` without a comma, which `README.searchpath:53` and
  `lilo.changes:2155` name, loses its option (`:212`); options before a last
  one without a comma are lost likewise. `blksize` without `=` and followed by
  a comma is never got past. Such words are not in the run.
- `&device;:file` on a network device puts what follows the old name behind
  the new one without a comma, in memory sized without it.
- Firmware that wants all addresses: a boot path that ends at the client or
  the gateway has the gateway read as the number of retries and prints
  0.0.0.0 (comment at `:388`); without a client the number that a file's name
  begins with is that count.
- A relative `conf=` clears the default device it is completed with
  (`yaboot.c:1367`), after which no relative path parses and the search for a
  configuration reports that type 0 is not handled.
- `device=` of another type reads the two pointers of the union as the other
  type's; `device=enet:10.0.0.1` is cut at the colon
  (`yaboot-howto.sgml:437`); `device:,/path` looks through all partitions
  (`yaboot.conf.5:58` says the default one). A description of type iSCSI is
  not made into a text, so `yaboot,image` is not set.

lilo:

- `p_flags` is not updated after a conversion (`lilo-chrp.lib:641`) and
  kept from one disk to the next, so that the test at `:713` may miss a
  second PReP partition, which the comment there says confuses firmware; `dd`, `umount`, `nvsetenv`,
  `make_yaboot.sh` and `mkzimage` are not checked, nor is anything copied to a
  Mac, and runs in which they fail (`unnoticed`, `missed`) are exempt;
  `boot-device` entries are removed by prefix (`:727`), so `sd@1` removes
  `sd@10`; without `default=` the copy of the default kernel may fail with a
  warning (`:178`), which the comment at `:130` does not say.
- A section of `other` labelled `macosx`, which `lilo.conf.5:49` allows, is
  warned about and skipped (`lilo.new:982` knows `macos` only), and
  `default=macosx` ends in an error. The comment at `lilo.new:865` speaks of
  the label, the test is of the file. A `default=` that no section has is not
  noticed.
- With `default=macos` on a NewWorld Mac the default written is the first
  kernel section, also when it was skipped (`lilo-pmac.lib:147`; comment at
  `:146`: "first available"). Without `default=` PReP and iSeries take
  section 1, also when it was skipped or is `other` (`lilo-chrp.lib:797`,
  `lilo-iseries.lib:41`): nothing is then written to a slot, and a file is
  removed. `OffersWhatIsAsked` leaves both out (`Sound`, and `Suitable` for a
  first section that is `other`). Two sections of one label are not refused, and the
  one kernel that is installed is then the last of them.
- A PowerMac starts Mac OS from the first `other=` that is written, whichever section
  `default=` names (`lilo-pmac.lib:95`).
- On PReP both `root=` words are written, the section's first, so that the
  global one wins (`lilo-chrp.lib:782`); the run has one of them at a time. A
  file or block target on iSeries gets no command line, and the image for
  iSCSI no global options (`lilo-chrp.lib:364`).
- On CHRP a global ramdisk that has to be copied may be missing with a warning;
  on Pegasos its path is written as Linux knows it (`lilo-chrp.lib:853`), and a
  `boot=` that is a device is passed over (`:876`).
- NewWorld copies what has no firmware path; that yaboot cannot read a file
  system is left to the `copy` option. When only the ramdisk has no path, the
  kernel is copied too, to a name it is not looked for under. `Suitable` has
  no kernel or ramdisk with a firmware path that yaboot cannot read and no `copy`. Copies above
  number 9 are not removed.

Wrappers:

- A kernel that is a megabyte or two smaller than the space below the PReP
  wrapper has its records written into the running wrapper
  (`prep/main.c:475`): the properties speak of images that are `Clear`. Moving the
  ramdisk may write over data of the wrapper (`:489`) and, with Open Firmware,
  over the kernel that is unpacked above the wrapper and not yet moved (`:517`),
  as may the records behind a small image. A ramdisk that begins
  just where the records do is not moved (`:485`; comment at `:477`), and
  when the space to unpack to is not granted nobody looks (`:544`,
  `UnpackNowhere`).
- The search for memory only goes up (`chrp/main.c:164`): a ramdisk that has to move
  is not put into a gap that was too small for the kernel, and the wrapper may give
  up although there is one (`NoMemory` speaks of what is above the kernel).
- A note of another owner makes `addnote` leave an image without the notes
  firmware looks for. `iseries-addRamDisk` and `iseries-addSystemMap` always
  add a page when a file ends at one, and do not look at the result of
  `fwrite`. A kernel whose `_end` is not at the beginning of a page has the map in the
  file from the beginning of that page on, while it is told `_end`
  (`iseries-addSystemMap.c:164`); `HandsOverWhole` asks for the map of kernels that end with
  a page, as the linker script of the kernel has them. The fields of `mkprep` are longs of the host.
- `find_type_devices` keeps the type of the node before when one has none, and
  writes one entry past a list of one (`of1275_find_type_devices.c`).
- PS3: handles the genealogy keeps are stale when nodes have moved
  (`flatdevtree.c:718`; comment at `:37`): with `LateParents` TRUE
  `HandlesAreNodes` fails, the run asks for parents before. Names that do not
  fit into what is left of the block are written over the nodes
  (`NameFits` keeps them out: `platform_init` adds far less). Adding a
  reserved area never enlarges the block, `simple_realloc` copies to NULL when
  there is no memory (the heap of the run always has some), and a failed call
  of `lv1` leaves the size of the memory to chance.

## What the drivers do not handle

`Driver` calls a disk sound when it has none of these; on others the properties
ask only that nothing wrong is taken for right, or leave them out.

- XFS: the extent after a hole is passed over, and a read from inside a hole
  fills in too much (`fs_xfs.c:617`); leaves of an extent tree are followed
  by the wrong link (`leftsib` read where `rightsib` is meant, `xfs.h:134`). No read is
  checked after the super block. Of a link inside a link the second may write
  over what is left of the path, and a path longer than a block is cut.
  `..` of a directory in the inode is not found.
- ReiserFS: `next_key` reads a node again and again when the tree is deeper
  than the cached levels (comment at `fs_reiserfs.c:472`); a node of the wrong
  level stays cached (`:452`). `JOURNAL_START` and `JOURNAL_END` are one address, so
  that the table of a journal that was not replayed has no room
  (`reiserfs.h:401`; comment at `fs_reiserfs.c:147`); the model has no room there either, and what `block_read` finds
  in it is the mark of an end that happens to lie there (`Tables`). A file may be read past its end to that of its block.
- ext2: opening a directory succeeds, a name under a file is reported as an
  error of the device, a journal that was not replayed is accepted and not
  applied, and a read-only feature that is not known refuses the file system
  although nothing is written.
- Firmware: `OfFile` assumes that a position is kept when a seek is refused, and
  gives up after 17 empty answers in a row, as `prom_read` does after its tries.

## Abstractions

- Paths are words and delimiters; a MAC address, malloc failing and words longer than
  their buffers are left out. A configuration names devices of the type that
  yaboot was loaded from.
- Blocks in `wrappers` stand for 8 MB on CHRP, a quarter of one on PReP, half a
  page on iSeries. The two tables of processors have the same rows, and `map`
  names yaboot's. A processor in neither table that the tree does not call
  "64-bit" is given whatever kernel there is.
- `lilo`: on which partition a file lies, and whether firmware and yaboot can read
  it, are inputs; labels are unique; `bootfolder` and the timeouts are passed
  through and left out, as are lines with a faulty separator, which are
  ignored. An iSeries `boot=` names its partition in full.
- Display, echo, messages and colours are left out everywhere.

## Plan

Done: heap, loading, prompt, configuration, tab completion, start, device
paths, the ext2, ReiserFS and XFS drivers and files of the firmware, partition
tables and opening files, the wrappers with the programs that finish their
images, the device tree of the PS3, and lilo on every kind of machine.

Left to model: `show_of_path.sh` and `ofpath` as functions from a device to a
path; `ybin`, which installs in the order of `Installers` with a backup of
its own; `check_arch` and `collect_path_info`.

Left to prove: the heap of the PS3 wrapper (`BlockHeld`) from an invariant on its
table of regions; that `RelativeStays` follows from a lemma on what
`imagepath_to_path_description` gives for a name without a device.

## Not modelled

The components with status `not_modelled` in `PROJECT.json` each say why. In
short: the ISO9660 driver, which no table of drivers names; vendored code (zlib, md5,
printf); Forth that the firmware interprets; scripts that ask questions or
translate names; `mkzimage`, which runs one program after another; documents and
packaging.
