---------------------------- MODULE TabCompletion ----------------------------
(***************************************************************************)
(* The line editor of cmdline.c and cfg_print_images of cfg.c: the tab key *)
(* completes the first word of the command line to what the labels and     *)
(* aliases of the configuration leave no choice about, or lists them.      *)
(* cfg_print_images goes over the list of images again and again, one      *)
(* character at a time; each turn of its loop is a step here.              *)
(***************************************************************************)
EXTENDS Cfg, SequencesExt

CONSTANTS
  Keys,         (* the characters that are typed *)
  CmdLeng,      (* CMD_LENG, 512 in the code *)
  MaxTyped,     (* bound: length of a line that is typed *)
  MaxListed     (* bound: entries of a file that lines are typed for *)

NUL     == "NUL"            (* the end of a string *)
Nothing == "nothing"        (* following_char = -1 *)

ASSUME CompletionAssumption ==
  /\ CmdLeng \in Nat \ {0} /\ MaxTyped \in Nat /\ MaxListed \in Nat
  /\ \A e \in Entries : \A i \in DOMAIN e.text : e.text[i] \notin {NUL, Nothing}

VARIABLES
  line,        (* cmdbuff *)
  tab,         (* cfg_print_images: where it is and its variables, see Tab *)
  shown        (* the labels it has listed *)

console == <<line, tab, shown>>
allVars == <<vars, console>>

(* at: "out" of it, in its "loop", "leaving", or "gone" past the end of a  *)
(* string; blanks: those before the word; word: what was typed; buf:       *)
(* tab_completion_buf, all of it settled; follow: following_char; listing: *)
(* print_matching_labels.                                                  *)
NoTab == [at |-> "out", blanks |-> 0, word |-> <<>>, buf |-> <<>>,
          follow |-> Nothing, listing |-> FALSE]

Made == Init /\ line = <<>> /\ tab = NoTab /\ shown = <<>>

-----------------------------------------------------------------------------
CharAt(name, i) == IF i < Len(name) THEN name[i + 1] ELSE NUL

(* Plausible errors in the definitions below. *)
Agree_First(hits) == CharAt(hits[1], Len(tab.buf)) = tab.follow
Remaining_Whole == CmdLeng                          (* what is typed not counted *)

(* The elements of s at these places, in their order. *)
Picked(s, places) ==
  [k \in 1..Cardinality(places) |->
     s[CHOOSE i \in places : Cardinality({j \in places : j <= i}) = k]]

(* Labels and aliases in the order they are looked at; a section with      *)
(* neither is never completed.                                             *)
AllNames ==
  [k \in 1..2 * Len(images) |->
     images[(k + 1) \div 2][IF k % 2 = 1 THEN "label" ELSE "alias"]]

NameList == Picked(AllNames, {k \in DOMAIN AllNames : AllNames[k] # None})

Remaining == CmdLeng - Len(line) - 1

Matches(start) ==
  {i \in DOMAIN NameList : Len(NameList[i]) < Remaining /\ IsPrefix(start, NameList[i])}

Hits == Picked(NameList, Matches(tab.buf))

Agree(hits) ==
  \A i \in DOMAIN hits : CharAt(hits[i], Len(tab.buf)) = tab.follow

-----------------------------------------------------------------------------
Editing ==
  /\ pc \in {"done", "short", "error"} /\ Len(read) <= MaxListed
  /\ tab.at = "out"

Type(k) ==
  /\ Editing /\ Len(line) < CmdLeng - 2 /\ Len(line) < MaxTyped
  /\ line' = Append(line, k)
  /\ UNCHANGED <<vars, tab, shown>>

Backspace ==
  /\ Editing /\ line # <<>>
  /\ line' = Front(line)
  /\ UNCHANGED <<vars, tab, shown>>

(* Tab on an empty line lists everything. *)
TabAll ==
  /\ Editing /\ line = <<>>
  /\ tab' = [NoTab EXCEPT !.at = "leaving"]
  /\ shown' = NameList
  /\ UNCHANGED <<vars, line>>

(* Only the first word is completed, if nothing follows it and it is not   *)
(* longer than any name.                                                   *)
TabWord ==
  /\ Editing
  /\ \E n \in 0 .. Len(line) - 1 :
       /\ \A i \in DOMAIN line : line[i] = " " <=> i <= n
       /\ Len(line) - n <= widest
       /\ LET word == SubSeq(line, n + 1, Len(line))
          IN  tab' = [NoTab EXCEPT !.at = "loop", !.blanks = n, !.word = word, !.buf = word]
  /\ UNCHANGED <<vars, line, shown>>

-----------------------------------------------------------------------------
(* The first turn counts the names that match. *)
Count(hits) ==
  /\ ~ tab.listing /\ tab.follow = Nothing
  /\ \/ hits = <<>> /\ tab' = [tab EXCEPT !.at = "leaving"]
     \/ Len(hits) = 1 /\ tab' = [tab EXCEPT !.at = "leaving", !.buf = Append(hits[1], " ")]
     \/ Len(hits) > 1 /\ tab' = [tab EXCEPT !.follow = CharAt(hits[1], Len(tab.buf))]
  /\ UNCHANGED shown

(* Each further one settles a character all of them go on with, ... *)
Settle(hits) ==
  /\ ~ tab.listing /\ tab.follow # Nothing /\ Agree(hits)
  /\ tab' = IF tab.follow = NUL THEN [tab EXCEPT !.at = "gone"]
            ELSE [tab EXCEPT !.buf = Append(@, tab.follow),
                             !.follow = CharAt(hits[1], Len(tab.buf) + 1)]
  /\ UNCHANGED shown

(* ... until they differ, and a last one lists them. *)
Differ(hits) ==
  /\ ~ tab.listing /\ tab.follow # Nothing /\ ~ Agree(hits)
  /\ tab' = [tab EXCEPT !.listing = TRUE]
  /\ UNCHANGED shown

List(hits) ==
  /\ tab.listing
  /\ shown' = hits /\ tab' = [tab EXCEPT !.at = "leaving"]

Turn ==
  /\ tab.at = "loop"
  /\ \E hits \in {Hits} : Count(hits) \/ Settle(hits) \/ Differ(hits) \/ List(hits)
  /\ UNCHANGED <<vars, line>>

(* The line gets what was settled. *)
Leave ==
  /\ tab.at = "leaving"
  /\ line' = SubSeq(line, 1, tab.blanks) \o tab.buf
  /\ tab' = NoTab /\ shown' = <<>>
  /\ UNCHANGED vars

-----------------------------------------------------------------------------
Edit == \/ \E k \in Keys : Type(k)
        \/ Backspace \/ TabAll \/ TabWord \/ Turn \/ Leave

Next == (Parse /\ UNCHANGED console) \/ Edit

Spec == Made /\ [][Next]_allVars

-----------------------------------------------------------------------------
(***************************************************************************)
(* The tab key adds what all names that begin like the word and still fit  *)
(* into the line have in common, with a blank behind the only one there    *)
(* is, and lists them just when it leaves a choice.  Nothing is written    *)
(* past the command line, nor past tab_completion_buf if the widest name   *)
(* was measured; the search runs off the end of a name only where two      *)
(* equal ones are all that matches.                                        *)
(***************************************************************************)
Fitting == {n \in Range(NameList) : Len(n) < Remaining /\ IsPrefix(tab.word, n)}

Completed ==
  IF Fitting = {} THEN tab.word
  ELSE IF \E n \in Fitting : Fitting = {n} THEN Append(CHOOSE n \in Fitting : TRUE, " ")
  ELSE LongestCommonPrefix(Fitting)

Completes ==
  /\ tab.at = "leaving" /\ tab.word = <<>> => shown = NameList
  /\ tab.at = "leaving" /\ tab.word # <<>> =>
       /\ tab.buf = Completed
       /\ Range(shown) = IF Cardinality(Fitting) > 1 THEN Fitting ELSE {}
  /\ tab.at = "gone" => Cardinality(Fitting) = 1 /\ Len(Hits) > 1
  /\ Len(line) < CmdLeng
  /\ (\A n \in Range(NameList) : Len(n) <= widest) => Len(tab.buf) + 1 <= widest + 2
=============================================================================
