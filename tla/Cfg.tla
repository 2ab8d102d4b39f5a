--------------------------------- MODULE Cfg ---------------------------------
(***************************************************************************)
(* cfg.c: cfg_get_token takes yaboot.conf apart, cfg_next puts items and   *)
(* values together and cfg_set files each under the global options or      *)
(* under the image section it stands in, skipping the sections for the     *)
(* other kind of cpu; then cfg_get_strg and cfg_get_default answer         *)
(* questions about the result.                                             *)
(*                                                                         *)
(* A file is a sequence of entries.  Each has its text, a sequence of      *)
(* characters and of words that stay whole, and what its author means by   *)
(* it: the option, whether it is spelled in the letters of the table or    *)
(* only in another case, and the value or None where there is no "=".  The *)
(* file is made up, entry after entry, as the parser asks for it, so that  *)
(* every file up to MaxEntries is read.                                    *)
(***************************************************************************)
EXTENDS Integers, Sequences, FiniteSets

CONSTANTS
  Cpus,         (* what machines: 32, 64 or neither *)
  Strings,      (* string options every section may have, besides the below *)
  Flags,        (* options without a value *)
  Entries,      (* the entries files are made of *)
  OddCase,      (* option names in other letters, and what they stand for *)
  MaxToken,     (* MAX_TOKEN, 512 in the code: no token is that long *)
  HeapMayFail,  (* malloc may return NULL *)
  MaxEntries    (* bound: entries of a file *)

(* Strings are sequences; these two pointers are not strings. *)
None == <<"NULL">>
Set  == <<"flag_set">>     (* &flag_set *)

EOF   == "EOF"
NL    == "newline"
Blank == {" ", "tab"}

ImageItems == {"image", "image[32bit]", "image[64bit]"}
NameItems  == {"label", "alias"}
ImageOptions  == {"image"} \union NameItems \union Strings \union Flags
GlobalOptions == {"default"} \union Strings \union Flags
Items == ImageItems \union NameItems \union Strings \union Flags
           \union {"default", "unknown"}

ASSUME CfgAssumption ==
  /\ Strings \intersect Flags = {} /\ HeapMayFail \in BOOLEAN
  /\ MaxEntries \in Nat /\ MaxToken \in Nat \ {0}
  /\ (Strings \union Flags) \intersect
       (ImageItems \union NameItems \union {"default", "unknown"}) = {}
  /\ \A a \in DOMAIN OddCase : OddCase[a] \in Items /\ a \notin Items
  /\ \A e \in Entries :
       /\ e.means.item \in Items /\ e.means.exact \in BOOLEAN
       /\ e.text \in Seq(STRING) /\ e.text # <<>>
       /\ \A i \in DOMAIN e.text : e.text[i] \notin {EOF, "NULL", "flag_set"}

VARIABLES
  pc, cpu,
  text,        (* the part of the entry from currp on *)
  ended,       (* nothing follows it *)
  mode,        (* where cfg_get_token stands *)
  here,        (* buf up to here *)
  stage,       (* what cfg_next waits for: an item, "=" or a value *)
  item,        (* *item *)
  globals,     (* cf_options *)
  images,      (* the list of tables *)
  table,       (* curr_table: 0 for cf_options, else a position in images *)
  skipping,    (* reuse_prev_image *)
  widest,      (* tab_completion_len *)
  useconf,     (* what cfg_parse returned *)
  read,        (* history: what the entries read mean *)
  filed        (* history: what cfg_set was called with *)

lexer  == <<text, mode, here>>
pairs  == <<stage, item>>
tables == <<globals, images, table, skipping, widest>>
vars == <<pc, cpu, lexer, ended, pairs, tables, useconf, read, filed>>

-----------------------------------------------------------------------------
(***************************************************************************)
(* Plausible errors in the definitions below, which the properties must    *)
(* tell from the code.                                                     *)
(***************************************************************************)
Skip_Forgets(e) == UNCHANGED <<skipping, images, table, widest, globals>>

SectionName_Alias(t) == t["alias"]                  (* the wrong name *)

-----------------------------------------------------------------------------
NoOptions(options) == [o \in options |-> None]

Init ==
  /\ pc = "parse" /\ cpu \in Cpus /\ globals = NoOptions(GlobalOptions) /\ images = <<>>
  /\ text = <<>> /\ ended = FALSE /\ mode = "between" /\ here = <<>>
  /\ stage = "item" /\ item = <<>>
  /\ table = 0 /\ skipping = FALSE /\ widest = 0 /\ useconf = FALSE
  /\ read = <<>> /\ filed = <<>>

(* The author goes on, or the file ends here; a last line may be left      *)
(* without its newline.                                                    *)
More(e) ==
  /\ pc = "parse" /\ text = <<>> /\ ~ ended /\ Len(read) < MaxEntries
  /\ text' = e.text /\ read' = Append(read, e.means)
  /\ ended' = (e.text[Len(e.text)] # NL)
  /\ UNCHANGED <<pc, cpu, mode, here, pairs, tables, useconf, filed>>

Close ==
  /\ pc = "parse" /\ text = <<>> /\ ~ ended
  /\ ended' = TRUE
  /\ UNCHANGED <<pc, cpu, lexer, pairs, tables, useconf, read, filed>>

-----------------------------------------------------------------------------
(***************************************************************************)
(* cfg_get_token, a character at a time: next() takes one, again() leaves  *)
(* it for the next token.  Whether there is room is asked before each.     *)
(***************************************************************************)
ch   == IF text = <<>> THEN EOF ELSE Head(text)
Room == Len(here) < MaxToken
Ends == Blank \union {NL, "#", "=", EOF}

Scan(m, buf) == mode' = m /\ here' = buf /\ text' = Tail(text)
Again(m, buf) == mode' = m /\ here' = buf /\ UNCHANGED text

Between ==
  /\ mode = "between"
  /\ \/ ch \in Blank \union {NL} /\ Scan("between", <<>>)
     \/ ch = "#" /\ Scan("comment", <<>>)
     \/ ch = "\"" /\ Scan("quoted", <<>>)
     \/ ch \notin Ends \union {"\""} /\ Again("word", <<>>)

Comment ==
  /\ mode = "comment" /\ ch # EOF
  /\ Scan(IF ch = NL THEN "between" ELSE "comment", <<>>)

Word ==
  \/ /\ mode = "word" /\ Room
     /\ \/ ch = "\\" /\ Scan("escaped", here)
        \/ ch \notin Ends \union {"\\"} /\ Scan("word", Append(here, ch))
  \/ /\ mode = "escaped" /\ ch # EOF
     /\ Scan("word", IF ch = NL THEN here ELSE Append(here, IF ch = "tab" THEN " " ELSE ch))

(* In quotes a backslash keeps a quote or itself, "\n" is a newline, and   *)
(* the end of a line with the blanks after it becomes one blank.           *)
Quoted ==
  \/ /\ mode = "quoted" /\ Room
     /\ \/ ch = "\\" /\ Scan("backslash", here)
        \/ ch \notin {EOF, NL, "\"", "\\"} /\ Scan("quoted", Append(here, ch))
  \/ /\ mode = "backslash"
     /\ \/ ch \in {"\"", "\\"} /\ Scan("quoted", Append(here, ch))
        \/ ch = "n" /\ Scan("quoted", Append(here, NL))
        \/ ch = NL /\ Scan("joined", here)
  \/ /\ mode = "joined"
     /\ \/ ch \in Blank /\ Scan("joined", here)
        \/ ch \notin Blank /\ Again("quoted", Append(here, " "))

Lex ==
  /\ pc = "parse" /\ (text # <<>> \/ ended)
  /\ Between \/ Comment \/ Word \/ Quoted
  /\ UNCHANGED <<pc, cpu, ended, pairs, tables, useconf, read, filed>>

Token(token) ==
  /\ mode' = "between" /\ here' = <<>>
  /\ \/ mode \in {"between", "comment"} /\ ch = EOF /\ token = None /\ UNCHANGED text
     \/ mode = "between" /\ ch = "=" /\ token = <<"=">> /\ text' = Tail(text)
     \/ mode = "quoted" /\ Room /\ ch = "\"" /\ token = here /\ text' = Tail(text)
     \/ mode = "word" /\ Room /\ ch \in Ends /\ token = here /\ UNCHANGED text

BadToken ==
  \/ mode \in {"word", "quoted"} /\ ~ Room
  \/ mode = "escaped" /\ ch = EOF
  \/ mode = "quoted" /\ ch \in {EOF, NL}
  \/ mode = "backslash" /\ ch \notin {"\"", "\\", "n", NL}

-----------------------------------------------------------------------------
Arch == IF cpu = 32 THEN "image[32bit]" ELSE IF cpu = 64 THEN "image[64bit]" ELSE "none"

(* Options are looked up regardless of case. *)
Entry(token, value) ==
  LET word == IF Len(token) = 1 THEN token[1] ELSE "unknown"
  IN  IF word \in DOMAIN OddCase
      THEN [item |-> OddCase[word], exact |-> FALSE, value |-> value]
      ELSE [item |-> word, exact |-> TRUE, value |-> value]

StartsSection(e) == e.item \in ImageItems

(* Sections are told apart regardless of case, but on a known cpu they are *)
(* wanted only in the exact spelling.                                      *)
ForThisCpu(e) ==
  IF Arch = "none" THEN e.item = "image"
  ELSE e.exact /\ e.item \in {"image", Arch}

(* The option an entry sets in a table, and what it sets it to.  Flags     *)
(* with a value and strings without one are only warned about.             *)
Option(e) == IF StartsSection(e) THEN "image" ELSE e.item

Fits(options, e) ==
  /\ Option(e) \in options
  /\ Option(e) \in Flags <=> e.value = None

Filed(t, e) ==
  IF Fits(DOMAIN t, e)
  THEN [t EXCEPT ![Option(e)] = IF Option(e) \in Flags THEN Set ELSE e.value]
  ELSE t

(* Labels and aliases are measured for tab completion in exact spelling. *)
Width(options, e) ==
  IF e.item \in NameItems /\ e.exact /\ Fits(options, e) THEN Len(e.value) ELSE 0

Skip(e) ==
  /\ skipping' = TRUE
  /\ UNCHANGED <<images, table, widest, globals>>

NewSection(e) ==
  /\ skipping' = FALSE
  /\ images' = Append(images, Filed(NoOptions(ImageOptions), e))
  /\ table' = Len(images')
  /\ UNCHANGED <<widest, globals>>

FileOption(e) ==
  /\ IF table = 0
     THEN globals' = Filed(globals, e) /\ UNCHANGED <<images, widest>>
     ELSE LET width == Width(ImageOptions, e)
          IN  /\ images' = [images EXCEPT ![table] = Filed(@, e)]
              /\ widest' = IF width > widest THEN width ELSE widest
              /\ UNCHANGED globals
  /\ UNCHANGED <<table, skipping>>

(* No memory for a section: the loop ends with what has been read. *)
NoSection(e) ==
  /\ HeapMayFail
  /\ pc' = "cut" /\ skipping' = FALSE
  /\ UNCHANGED <<globals, images, table, widest>>

(* cfg_set *)
File(e) ==
  /\ filed' = Append(filed, e)
  /\ \/ StartsSection(e) /\ ~ ForThisCpu(e) /\ Skip(e) /\ UNCHANGED pc
     \/ StartsSection(e) /\ ForThisCpu(e) /\ NewSection(e) /\ UNCHANGED pc
     \/ StartsSection(e) /\ ForThisCpu(e) /\ NoSection(e)
     \/ ~ StartsSection(e) /\ skipping /\ UNCHANGED <<tables, pc>>
     \/ ~ StartsSection(e) /\ ~ skipping /\ FileOption(e) /\ UNCHANGED pc

(***************************************************************************)
(* cfg_next and the loop of cfg_parse: a token other than "=" after an     *)
(* item is the next item.                                                  *)
(***************************************************************************)
Reading(token) ==
  /\ pc = "parse" /\ (text # <<>> \/ ended)
  /\ Token(token)
  /\ UNCHANGED <<cpu, ended, useconf, read>>

TakeItem(token) ==
  /\ stage = "item" /\ token \notin {None, <<"=">>}
  /\ item' = token /\ stage' = "mark"
  /\ Reading(token) /\ UNCHANGED <<pc, tables, filed>>

TakeMark(token) ==
  /\ stage = "mark" /\ token = <<"=">>
  /\ stage' = "value"
  /\ Reading(token) /\ UNCHANGED <<pc, item, tables, filed>>

(* A plausible error: what follows a flag is not given back. *)
NoMark_Loses(token) ==
  /\ stage = "mark" /\ token # <<"=">>
  /\ item' = <<>> /\ stage' = "item"
  /\ Reading(token) /\ File(Entry(item, None))

NoMark(token) ==
  /\ stage = "mark" /\ token # <<"=">>
  /\ item' = IF token = None THEN <<>> ELSE token
  /\ stage' = IF token = None THEN "item" ELSE "mark"
  /\ Reading(token) /\ File(Entry(item, None))

TakeValue(token) ==
  /\ stage = "value" /\ token \notin {None, <<"=">>}
  /\ stage' = "item" /\ item' = <<>>
  /\ Reading(token) /\ File(Entry(item, token))

NoItem(token) ==
  /\ stage = "item" /\ token = None
  /\ pc' = "eof"
  /\ Reading(token) /\ UNCHANGED <<pairs, tables, filed>>

(* cfg_error leaves everything as it is. *)
SyntaxError ==
  /\ pc = "parse" /\ (text # <<>> \/ ended)
  /\ \/ BadToken /\ UNCHANGED lexer
     \/ stage # "mark" /\ Token(<<"=">>)
     \/ stage = "value" /\ Token(None)
  /\ pc' = "error" /\ useconf' = FALSE
  /\ UNCHANGED <<cpu, ended, pairs, tables, read, filed>>

(* End of the file, or of the loop: the configuration is used if there is  *)
(* something to complete.                                                  *)
EndOfFile ==
  /\ pc \in {"eof", "cut"}
  /\ pc' = IF pc = "eof" THEN "done" ELSE "short"
  /\ \/ useconf' = (widest # 0)
     \/ HeapMayFail /\ useconf' = FALSE
  /\ UNCHANGED <<cpu, lexer, ended, pairs, tables, read, filed>>

Parse ==
  \/ \E e \in Entries : More(e)
  \/ Close \/ Lex \/ SyntaxError \/ EndOfFile
  \/ \E token \in {here, <<"=">>, None} :
       \/ TakeItem(token) \/ TakeMark(token) \/ NoMark(token)
       \/ TakeValue(token) \/ NoItem(token)

-----------------------------------------------------------------------------
(* cfg_get_strg: the first section of that name, then the global options.  *)
(* A file name stands for its last component.  A section without an image  *)
(* makes strrchr read NULL; it answers to no name here.                    *)
LastPart(path) ==
  LET cuts == {i \in DOMAIN path : path[i] = "/"}
  IN  IF cuts = {} THEN path
      ELSE SubSeq(path, (CHOOSE i \in cuts : \A j \in cuts : j <= i) + 1, Len(path))

SectionName(t) ==
  IF t["label"] # None THEN t["label"]
  ELSE IF t["image"] # None THEN LastPart(t["image"]) ELSE None

Answers(t, name) == name # None /\ name \in {SectionName(t), t["alias"]}

Global(o) == IF o \in GlobalOptions THEN globals[o] ELSE None

GetStrg(name, o) ==
  LET hits == {i \in DOMAIN images : Answers(images[i], name)}
  IN  IF hits = {} THEN None
      ELSE LET t == images[CHOOSE i \in hits : \A j \in hits : i <= j]
           IN  IF t[o] # None THEN t[o] ELSE Global(o)

GetDefault ==
  IF globals["default"] # None THEN globals["default"]
  ELSE IF images = <<>> THEN None
  ELSE SectionName(images[1])

-----------------------------------------------------------------------------
(***************************************************************************)
(* cfg_get_token and cfg_next: however an entry is written, cfg_set is     *)
(* called with what its author means, once and in order, up to the first   *)
(* error; and at the end of the file nothing has been left out.            *)
(***************************************************************************)
ReadsWhatIsMeant ==
  /\ Len(filed) <= Len(read) /\ filed = SubSeq(read, 1, Len(filed))
  /\ pc \in {"done", "short"} => filed = read

(***************************************************************************)
(* What the manual says a file means: a section goes "from the image line  *)
(* on until next image line", counts on its own cpu only, and holds the    *)
(* last value given to each of its options.  A parse that ran out of       *)
(* memory stopped before its last section.  "Variable names are case       *)
(* sensitive", so all this is of files that spell them as the manual does; *)
(* the code takes others for the same options.                             *)
(***************************************************************************)
Heads(s)     == {i \in DOMAIN s : StartsSection(s[i])}
HeadOf(s, i) == LET above == {h \in Heads(s) : h <= i}
                IN  IF above = {} THEN 0 ELSE CHOOSE h \in above : \A g \in above : g <= h

Wanted(e) ==
  \/ e.item = "image"
  \/ cpu = 32 /\ e.item = "image[32bit]"
  \/ cpu = 64 /\ e.item = "image[64bit]"

WantedHeads ==
  {h \in Heads(filed) \ (IF pc \in {"cut", "short"} THEN {Len(filed)} ELSE {}) : Wanted(filed[h])}

Given(s, head, option) ==
  {i \in DOMAIN s : /\ HeadOf(s, i) = head
                    /\ option = IF i = head THEN "image" ELSE s[i].item
                    /\ option \in Flags <=> s[i].value = None}

Meant(s, head, option) ==
  LET given == Given(s, head, option)
  IN  IF given = {} THEN None
      ELSE IF option \in Flags THEN Set
      ELSE s[CHOOSE i \in given : \A j \in given : j <= i].value

(* The name a prompt without default= starts with finds the first section  *)
(* meant for this cpu, its own options before the global ones.             *)
FirstIsDefault ==
  /\ GetStrg(GetDefault, "image") = images[1]["image"]
  /\ \A o \in Strings \union Flags :
       GetStrg(GetDefault, o) = IF images[1][o] # None THEN images[1][o] ELSE globals[o]

(* The options so far are spelled in the letters of the table. *)
Spelled == \A i \in DOMAIN filed : filed[i].exact

(***************************************************************************)
(* At any time every option that was read is filed under the section it    *)
(* stands in, none leaks into another one, and the sections of the other   *)
(* cpu leave no trace, in whatever order they alternate; and without       *)
(* default= the prompt boots the first of them.                            *)
(***************************************************************************)
FiledWhereItStands == Spelled =>
  /\ useconf /\ pc = "done" /\ globals["default"] = None /\ images[1]["image"] # None => FirstIsDefault
  /\ \A o \in GlobalOptions : globals[o] = Meant(filed, 0, o)
  /\ Len(images) = Cardinality(WantedHeads)
  /\ \A h \in WantedHeads :
       LET n == Cardinality({g \in WantedHeads : g <= h})
       IN  \A o \in ImageOptions : images[n][o] = Meant(filed, h, o)
=============================================================================
