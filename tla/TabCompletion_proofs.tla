-------------------------- MODULE TabCompletion_proofs --------------------------
(***************************************************************************)
(* Tab completion, proved for every configuration file, every line that is *)
(* typed and every length of the command line: what the turns of           *)
(* cfg_print_images settle, one character at a time, is the longest        *)
(* beginning that all names which still fit into the line have in common,  *)
(* and nothing is written past the buffers.  And of the parser: what       *)
(* cfg_set was called with stands in the section it was read in.           *)
(***************************************************************************)
EXTENDS TabCompletion, FiniteSetTheorems, SequenceTheorems, WellFoundedInduction, TLAPS

Less == {p \in Nat \X Nat : p[1] < p[2]}

(* A set of numbers that is not empty has a lowest one, *)
LEMMA Lowest ==
  ASSUME NEW T, T \subseteq Nat, T # {}
  PROVE  \E x \in T : \A y \in T : x <= y
<1>1. IsWellFoundedOn(Less, Nat)
  BY NatLessThanWellFounded DEF Less, OpToRel
<1>2. PICK x \in T : \A y \in T : <<y, x>> \notin Less
  BY <1>1, WFMin
<1>3. \A y \in T : ~ (y < x)
  BY <1>2 DEF Less
<1> QED
  BY <1>2, <1>3

(* and a highest one if there is a bound. *)
LEMMA Highest ==
  ASSUME NEW T, NEW n \in Nat, T \subseteq 0 .. n, T # {}
  PROVE  \E x \in T : \A y \in T : y <= x
<1> DEFINE Below == {n - t : t \in T}
<1>1. Below \subseteq Nat /\ Below # {}
  <2>1. \A t \in T : n - t \in Nat
    OBVIOUS
  <2>2. \E t \in T : n - t \in Below
    OBVIOUS
  <2> QED BY <2>1, <2>2
<1> HIDE DEF Below
<1>2. PICK u \in Below : \A v \in Below : u <= v
  BY <1>1, Lowest
<1>3. PICK x \in T : u = n - x
  BY <1>2 DEF Below
<1>4. \A y \in T : n - x <= n - y
  BY <1>2, <1>3 DEF Below
<1> QED
  BY <1>3, <1>4

-----------------------------------------------------------------------------
(* The places up to i, and i's rank among them. *)
Upto(places, i) == {j \in places : j <= i}
Rank(places, i) == Cardinality(Upto(places, i))

(* Every rank is some place's, and every place has one. *)
LEMMA Ranks ==
  ASSUME NEW n \in Nat, NEW places \in SUBSET (1..n)
  PROVE  /\ IsFiniteSet(places) /\ Cardinality(places) \in Nat
         /\ \A i \in places : Rank(places, i) \in 1..Cardinality(places)
         /\ \A i, k \in places : Rank(places, i) = Rank(places, k) => i = k
         /\ \A k \in 1..Cardinality(places) : \E i \in places : Rank(places, i) = k
<1>1. IsFiniteSet(places) /\ places \subseteq Nat /\ Cardinality(places) \in Nat
  <2>1. IsFiniteSet(1..n)
    BY FS_Interval
  <2>2. IsFiniteSet(places)
    BY <2>1, FS_Subset
  <2> QED BY <2>2, FS_CardinalityType
<1>2. ASSUME NEW i
      PROVE  /\ Upto(places, i) \subseteq places /\ IsFiniteSet(Upto(places, i))
             /\ Rank(places, i) \in Nat /\ Rank(places, i) <= Cardinality(places)
  <2>1. Upto(places, i) \subseteq places
    BY DEF Upto
  <2> QED BY <1>1, <2>1, FS_Subset, FS_CardinalityType DEF Rank
<1>3. \A i \in places : Rank(places, i) \in 1..Cardinality(places)
  <2> SUFFICES ASSUME NEW i \in places PROVE Rank(places, i) \in 1..Cardinality(places)
    OBVIOUS
  <2>1. i \in Upto(places, i)
    BY <1>1 DEF Upto
  <2>2. Rank(places, i) # 0
    BY <1>2, <2>1, FS_EmptySet DEF Rank
  <2> QED BY <1>1, <1>2, <2>2
<1>4. ASSUME NEW i \in places, NEW k \in places, i < k
      PROVE  Rank(places, i) # Rank(places, k)
  <2>0. i \in Nat /\ k \in Nat /\ k \in places /\ ~(k <= i)
    BY <1>1, <1>4
  <2>1. Upto(places, i) \subseteq Upto(places, k) /\ k \in Upto(places, k) /\ k \notin Upto(places, i)
    <3>1. \A j \in places : j <= i => j <= k
      BY <1>1, <1>4, <2>0
    <3>2. Upto(places, i) \subseteq Upto(places, k)
      BY <3>1, Zenon DEF Upto
    <3>3. k <= k
      BY <2>0
    <3> QED BY <2>0, <3>2, <3>3, Zenon DEF Upto
  <2>2. SUFFICES ASSUME Rank(places, i) = Rank(places, k) PROVE FALSE
    OBVIOUS
  <2>3. Upto(places, k) = Upto(places, i)
    BY <1>2, <2>1, <2>2, FS_Subset DEF Rank
  <2> QED BY <2>1, <2>3
<1>5. \A i, k \in places : Rank(places, i) = Rank(places, k) => i = k
  <2> SUFFICES ASSUME NEW i \in places, NEW k \in places, Rank(places, i) = Rank(places, k)
               PROVE  i = k
    OBVIOUS
  <2>1. ~(i < k) /\ ~(k < i)
    BY <1>4
  <2> QED BY <1>1, <2>1
<1>6. ASSUME NEW k \in 1..Cardinality(places)
      PROVE  \E i \in places : Rank(places, i) = k
  <2> SUFFICES ASSUME \A i \in places : Rank(places, i) # k PROVE FALSE
    OBVIOUS
  <2> DEFINE high == {i \in places : Rank(places, i) >= k}
  <2>1. places # {} /\ places \subseteq 0..n
    BY <1>1, FS_EmptySet
  <2>2. PICK m \in places : \A i \in places : i <= m
    BY <2>1, Highest
  <2>3. Upto(places, m) = places
    BY <2>2 DEF Upto
  <2>4. high \subseteq Nat /\ high # {}
    <3>1. Rank(places, m) >= k
      BY <1>1, <2>3 DEF Rank
    <3> QED BY <1>1, <2>2, <3>1
  <2>5. PICK i \in high : \A j \in high : i <= j
    <3> HIDE DEF high
    <3> QED BY <2>4, Lowest
  <2> DEFINE before == Upto(places, i) \ {i}
  <2>6. before \subseteq places /\ IsFiniteSet(before) /\ Cardinality(before) >= k
    <3>1. i \in Upto(places, i) /\ Rank(places, i) >= k /\ Rank(places, i) # k
      BY <1>1, <2>5 DEF Upto
    <3>2. Cardinality(before) = Rank(places, i) - 1 /\ IsFiniteSet(before)
      BY <1>2, <3>1, FS_RemoveElement DEF Rank
    <3> QED BY <1>2, <3>1, <3>2
  <2>7. PICK j \in before : \A x \in before : x <= j
    <3>1. before \subseteq 0..n
      BY <2>1, <2>6
    <3>2. before # {}
      <4> HIDE DEF before
      <4>1. Cardinality(before) # 0
        BY <1>1, <2>6
      <4> QED BY <4>1, FS_EmptySet
    <3> HIDE DEF before
    <3> QED BY <3>1, <3>2, Highest
  <2>8. Upto(places, j) = before /\ j < i /\ j \in places
    <3>1. j \in places /\ i \in Nat /\ j \in Nat /\ j <= i /\ j # i
      BY <1>1, <2>5, <2>7 DEF Upto
    <3>2. \A x \in places : x <= j => x <= i /\ x # i
      BY <1>1, <3>1
    <3>3. \A x \in places : x <= i /\ x # i => x <= j
      BY <2>7 DEF Upto
    <3>4. before = {x \in places : x <= i} \ {i}
      BY Zenon DEF Upto
    <3>5. Upto(places, j) = {x \in places : x <= j}
      BY Zenon DEF Upto
    <3> HIDE DEF before
    <3>6. \A x : x \in before <=> x \in Upto(places, j)
      BY <3>2, <3>3, <3>4, <3>5
    <3>7. before = Upto(places, j)
      BY <3>6
    <3> QED BY <3>1, <3>7
  <2>9. j \in high
    BY <2>6, <2>8 DEF Rank
  <2> QED BY <1>1, <2>5, <2>8, <2>9
<1> QED BY <1>1, <1>3, <1>5, <1>6

(* What is picked are the elements at those places, and no others. *)
LEMMA PickedIs ==
  ASSUME NEW S, NEW s \in Seq(S), NEW places \in SUBSET (DOMAIN s)
  PROVE  /\ Picked(s, places) \in Seq(S)
         /\ Cardinality(places) \in Nat /\ IsFiniteSet(places)
         /\ Len(Picked(s, places)) = Cardinality(places)
         /\ \A k \in 1..Len(Picked(s, places)) : \E i \in places : Picked(s, places)[k] = s[i]
         /\ \A i \in places : \E k \in 1..Len(Picked(s, places)) : Picked(s, places)[k] = s[i]
<1> DEFINE n == Cardinality(places)
           place(k) == CHOOSE i \in places : Rank(places, i) = k
<1>1. DOMAIN s = 1..Len(s) /\ Len(s) \in Nat
  OBVIOUS
<1>2. places \in SUBSET (1..Len(s))
  BY <1>1
<1>3. /\ IsFiniteSet(places) /\ n \in Nat
      /\ \A i \in places : Rank(places, i) \in 1..n
      /\ \A i, k \in places : Rank(places, i) = Rank(places, k) => i = k
      /\ \A k \in 1..n : \E i \in places : Rank(places, i) = k
  BY <1>1, <1>2, Ranks
<1>4. Picked(s, places) = [k \in 1..n |-> s[place(k)]]
  BY Zenon DEF Picked, Rank, Upto
<1>5. \A k \in 1..n : place(k) \in places /\ Rank(places, place(k)) = k
  BY <1>3
<1>6. \A i \in places : place(Rank(places, i)) = i
  BY <1>3, <1>5
<1> HIDE DEF n, place
<1>7. \A k \in 1..n : s[place(k)] \in S
  BY <1>5
<1>8. [k \in 1..n |-> s[place(k)]] \in Seq(S)
  BY <1>3, <1>7
<1>9. Len(Picked(s, places)) = n /\ Picked(s, places) \in Seq(S) /\ \A k \in 1..n : Picked(s, places)[k] = s[place(k)]
  BY <1>3, <1>4, <1>8
<1> QED BY <1>3, <1>5, <1>6, <1>9 DEF n

-----------------------------------------------------------------------------
(***************************************************************************)
(* What the parser leaves, and what the line editor keeps.                 *)
(***************************************************************************)
Literals  == {EOF, NL, "NULL", "flag_set", "=", " ", "tab", "\"", "\\", "n", "#"}
Character == Literals \union UNION {{e.text[i] : i \in DOMAIN e.text} : e \in Entries}
Texts     == Seq(Character)
Typeable  == Character \union Keys   (* on a line there is also what was typed *)
Lines     == Seq(Typeable)
Tables    == [ImageOptions -> Texts]

ParserTyped ==
  /\ text \in Texts /\ here \in Texts /\ item \in Texts
  /\ images \in Seq(Tables) /\ table \in 0..Len(images) /\ widest \in Nat

EditorTyped ==
  /\ line \in Lines /\ Len(line) < CmdLeng /\ shown \in Seq(Texts)
  /\ tab \in [at : {"out", "loop", "leaving", "gone"}, blanks : Nat, word : Lines, buf : Lines,
              follow : Character \union {NUL, Nothing}, listing : BOOLEAN]

Typed == ParserTyped /\ EditorTyped

(* These are characters. *)
LEMMA Characters ==
  /\ Literals \subseteq Character /\ Character \subseteq Typeable
  /\ NUL \notin Character /\ Nothing \notin Character /\ NUL # Nothing
  /\ \A e \in Entries : e.text \in Texts /\ e.text # <<>>
<1>1. Literals \subseteq Character /\ Character \subseteq Typeable
  BY DEF Character, Typeable
<1>2. NUL \notin Literals /\ Nothing \notin Literals /\ NUL # Nothing
  BY DEF Literals, EOF, NL, NUL, Nothing
<1>3. \A e \in Entries : \A i \in DOMAIN e.text : e.text[i] \notin {NUL, Nothing}
  BY CompletionAssumption
<1>4. NUL \notin Character /\ Nothing \notin Character
  BY <1>2, <1>3 DEF Character
<1>5. ASSUME NEW e \in Entries PROVE e.text \in Texts /\ e.text # <<>>
  <2>1. e.text \in Seq(STRING) /\ e.text # <<>>
    BY CfgAssumption
  <2>2. \A i \in DOMAIN e.text : e.text[i] \in Character
    BY DEF Character
  <2>3. DOMAIN e.text = 1..Len(e.text) /\ Len(e.text) \in Nat
    BY <2>1
  <2>4. e.text = [i \in 1..Len(e.text) |-> e.text[i]]
    BY <2>1
  <2>5. [i \in 1..Len(e.text) |-> e.text[i]] \in Seq(Character)
    BY <2>2, <2>3
  <2>6. e.text \in Seq(Character)
    BY <2>4, <2>5, Zenon
  <2> QED BY <2>1, <2>6 DEF Texts
<1> QED BY <1>1, <1>2, <1>4, <1>5

(* Names can be parts of a line. *)
LEMMA TextsAreLines == Texts \subseteq Lines
<1> SUFFICES ASSUME NEW t \in Texts PROVE t \in Lines
  OBVIOUS
<1> QED BY Characters, SeqMonotonic DEF Texts, Lines

LEMMA Pointers == None \in Texts /\ Set \in Texts /\ <<>> \in Texts /\ <<"=">> \in Texts
<1>1. "NULL" \in Character /\ "flag_set" \in Character /\ "=" \in Character
  BY Characters DEF Literals
<1>2. \A c \in Character : <<c>> \in Seq(Character)
  OBVIOUS
<1>3. <<>> \in Seq(Character)
  BY EmptySeq
<1> QED BY <1>1, <1>2, <1>3 DEF None, Set, Texts

(* The list of names is one of sequences of characters. *)
LEMMA NamesTyped ==
  ASSUME ParserTyped
  PROVE  /\ NameList \in Seq(Texts) /\ DOMAIN NameList = 1..Len(NameList) /\ Len(NameList) \in Nat
         /\ \A i \in DOMAIN NameList : NameList[i] \in Texts /\ NameList[i] \in Lines /\ Len(NameList[i]) \in Nat
<1> DEFINE name(k) == images[(k + 1) \div 2][IF k % 2 = 1 THEN "label" ELSE "alias"]
           n == 2 * Len(images)
<1>1. images \in Seq(Tables) /\ Len(images) \in Nat /\ n \in Nat
  BY DEF ParserTyped
<1>2. \A k \in 1..n : (k + 1) \div 2 \in 1..Len(images)
  BY <1>1
<1>3. "label" \in ImageOptions /\ "alias" \in ImageOptions
  BY DEF ImageOptions, NameItems
<1>4. \A k \in 1..n : name(k) \in Texts
  <2> SUFFICES ASSUME NEW k \in 1..n PROVE name(k) \in Texts
    OBVIOUS
  <2>1. images[(k + 1) \div 2] \in Tables
    BY <1>1, <1>2
  <2> QED BY <1>3, <2>1 DEF Tables
<1>5. AllNames = [k \in 1..n |-> name(k)]
  BY Zenon DEF AllNames
<1> HIDE DEF n, name
<1>6. AllNames \in Seq(Texts)
  BY <1>1, <1>4, <1>5
<1>7. {k \in DOMAIN AllNames : AllNames[k] # None} \in SUBSET (DOMAIN AllNames)
  OBVIOUS
<1>8. NameList \in Seq(Texts)
  BY <1>6, <1>7, PickedIs, Zenon DEF NameList
<1>9. DOMAIN NameList = 1..Len(NameList) /\ Len(NameList) \in Nat
  BY <1>8, LenProperties
<1>10. \A i \in DOMAIN NameList : NameList[i] \in Texts
  BY <1>8, <1>9
<1>11. \A t \in Texts : t \in Lines /\ Len(t) \in Nat
  BY TextsAreLines, LenProperties DEF Texts
<1> QED BY <1>8, <1>9, <1>10, <1>11

(* The hits are the names at the places that match. *)
LEMMA MatchesAre ==
  ASSUME ParserTyped, NEW start
  PROVE  /\ Matches(start) \in SUBSET (DOMAIN NameList) /\ IsFiniteSet(Matches(start))
         /\ Cardinality(Matches(start)) \in Nat
<1>1. Matches(start) \in SUBSET (DOMAIN NameList)
  BY DEF Matches
<1> QED BY <1>1, NamesTyped, PickedIs

LEMMA HitsAre ==
  ASSUME ParserTyped
  PROVE  /\ Hits \in Seq(Texts) /\ Len(Hits) = Cardinality(Matches(tab.buf)) /\ Len(Hits) \in Nat
         /\ \A k \in 1..Len(Hits) : \E i \in Matches(tab.buf) : Hits[k] = NameList[i]
         /\ \A i \in Matches(tab.buf) : \E k \in 1..Len(Hits) : Hits[k] = NameList[i]
<1>1. NameList \in Seq(Texts) /\ Matches(tab.buf) \in SUBSET (DOMAIN NameList)
  BY NamesTyped, MatchesAre
<1> HIDE DEF Matches
<1> QED BY <1>1, PickedIs DEF Hits

LEMMA FittingIs ==
  ASSUME ParserTyped
  PROVE  /\ Fitting = {NameList[i] : i \in Matches(tab.word)}
         /\ IsFiniteSet(Fitting) /\ Cardinality(Fitting) \in Nat
         /\ Fitting \subseteq Texts
<1>1. Fitting = {NameList[i] : i \in Matches(tab.word)}
  BY NamesTyped DEF Fitting, Matches, Range
<1>2. Matches(tab.word) \in SUBSET (DOMAIN NameList) /\ IsFiniteSet(Matches(tab.word))
  BY MatchesAre
<1> DEFINE f == [i \in Matches(tab.word) |-> NameList[i]]
<1>3. f \in Surjection(Matches(tab.word), Fitting)
  BY <1>1 DEF Surjection
<1>4. IsFiniteSet(Fitting)
  BY <1>2, <1>3, FS_Surjection
<1> HIDE DEF f
<1> QED BY <1>1, <1>2, <1>4, NamesTyped, FS_CardinalityType

-----------------------------------------------------------------------------
(***************************************************************************)
(* The parser keeps its types, and is over when a line is edited.          *)
(***************************************************************************)
LEMMA FiledTyped ==
  ASSUME NEW t \in Tables, NEW e, e.value \in Texts
  PROVE  Filed(t, e) \in Tables
<1> DEFINE v == IF Option(e) \in Flags THEN Set ELSE e.value
<1>1. v \in Texts
  BY Pointers
<1> HIDE DEF v
<1>2. [t EXCEPT ![Option(e)] = v] \in Tables
  BY <1>1 DEF Tables
<1>3. Filed(t, e) = [t EXCEPT ![Option(e)] = v] \/ Filed(t, e) = t
  BY Zenon DEF Filed, v
<1> QED BY <1>2, <1>3

LEMMA NoOptionsTyped == NoOptions(ImageOptions) \in Tables
  BY Pointers DEF NoOptions, Tables

LEMMA WidthTyped ==
  ASSUME NEW options, NEW e, e.value \in Texts
  PROVE  Width(options, e) \in Nat
<1>1. Len(e.value) \in Nat
  BY LenProperties DEF Texts
<1> QED BY <1>1 DEF Width

(* What cfg_set files under the sections. *)
LEMMA FileStep ==
  ASSUME ParserTyped, NEW e, e.value \in Texts, File(e) \/ UNCHANGED <<images, table, widest>>
  PROVE  images' \in Seq(Tables) /\ table' \in 0..Len(images') /\ widest' \in Nat
<1>1. /\ images \in Seq(Tables) /\ table \in 0..Len(images) /\ widest \in Nat
      /\ Len(images) \in Nat
  BY LenProperties DEF ParserTyped
<1>2. CASE UNCHANGED <<images, table, widest>>
  BY <1>1, <1>2
<1>3. CASE NewSection(e)
  <2>1. images' = Append(images, Filed(NoOptions(ImageOptions), e)) /\ table' = Len(images') /\ widest' = widest
    BY <1>3 DEF NewSection
  <2>2. Filed(NoOptions(ImageOptions), e) \in Tables
    BY NoOptionsTyped, FiledTyped
  <2>3. images' \in Seq(Tables) /\ Len(images') \in Nat
    BY <1>1, <2>1, <2>2
  <2> QED BY <1>1, <2>1, <2>3
<1>4. CASE FileOption(e)
  <2>1. CASE table = 0
    BY <1>1, <1>4, <2>1 DEF FileOption
  <2>2. CASE table # 0
    <3> DEFINE width == Width(ImageOptions, e)
    <3>1. images' = [images EXCEPT ![table] = Filed(@, e)] /\ table' = table
      BY <1>4, <2>2 DEF FileOption
    <3>2. widest' = IF width > widest THEN width ELSE widest
      BY <1>4, <2>2 DEF FileOption
    <3>3. width \in Nat
      BY WidthTyped
    <3>4. table \in 1..Len(images) /\ images[table] \in Tables
      BY <1>1, <2>2
    <3>5. Filed(images[table], e) \in Tables
      BY <3>4, FiledTyped
    <3> HIDE DEF width
    <3>6. images' \in Seq(Tables) /\ Len(images') = Len(images)
      BY <1>1, <3>1, <3>4, <3>5, ExceptSeq
    <3> QED BY <1>1, <3>1, <3>2, <3>3, <3>6
  <2> QED BY <2>1, <2>2
<1>5. File(e) => NewSection(e) \/ FileOption(e) \/ UNCHANGED <<images, table, widest>>
  BY DEF File, Skip, NoSection, tables
<1> QED BY <1>2, <1>3, <1>4, <1>5

(* A character is taken, or left; what is read grows by one or ends. *)
LEMMA LexStep ==
  ASSUME NEW C, EOF \in C, NL \in C, " " \in C, text \in Seq(C), here \in Seq(C), Lex
  PROVE  text' \in Seq(C) /\ here' \in Seq(C)
<1>1. text \in Seq(C) /\ here \in Seq(C) /\ <<>> \in Seq(C)
  BY EmptySeq
<1>2. ch \in C /\ (ch # EOF => Tail(text) \in Seq(C))
  <2>1. CASE text = <<>>
    BY <2>1 DEF ch
  <2>2. CASE text # <<>>
    BY <1>1, <2>2, HeadTailProperties DEF ch
  <2> QED BY <2>1, <2>2
<1>3. NL \in C /\ " " \in C
  OBVIOUS
<1>4. \A c \in C : Append(here, c) \in Seq(C)
  BY <1>1, AppendProperties
<1> DEFINE Taken(buf) == here' = buf /\ text' = Tail(text) /\ ch # EOF
           Kept(buf) == here' = buf /\ text' = text
<1>5. EOF \notin Blank \union {NL, "#", "\"", "\\", "n"} /\ EOF \in Ends
  BY DEF EOF, NL, Blank, Ends
<1>6. CASE Between
  <2>1. Taken(<<>>) \/ Kept(<<>>)
    BY <1>5, <1>6 DEF Between, Scan, Again
  <2> QED BY <1>1, <1>2, <2>1
<1>7. CASE Comment
  BY <1>1, <1>2, <1>7 DEF Comment, Scan
<1>8. CASE Word
  <2>1. Taken(here) \/ \E c \in C : Taken(Append(here, c))
    <3>1. CASE mode = "word"
      BY <1>2, <1>5, <1>8, <3>1 DEF Word, Scan
    <3>2. CASE mode = "escaped"
      BY <1>2, <1>3, <1>8, <3>2 DEF Word, Scan
    <3> QED BY <1>8, <3>1, <3>2 DEF Word
  <2> QED BY <1>1, <1>2, <1>4, <2>1
<1>9. CASE Quoted
  <2>1. Taken(here) \/ \E c \in C : Taken(Append(here, c)) \/ Kept(Append(here, c))
    <3>1. CASE mode = "quoted"
      BY <1>2, <1>5, <1>9, <3>1 DEF Quoted, Scan
    <3>2. CASE mode = "backslash"
      BY <1>2, <1>3, <1>5, <1>9, <3>2 DEF Quoted, Scan
    <3>3. CASE mode = "joined"
      BY <1>2, <1>3, <1>5, <1>9, <3>3 DEF Quoted, Scan, Again
    <3> QED BY <1>9, <3>1, <3>2, <3>3 DEF Quoted
  <2> QED BY <1>1, <1>2, <1>4, <2>1
<1> QED BY <1>6, <1>7, <1>8, <1>9 DEF Lex

(* A token leaves nothing read, and what was read is one of its characters. *)
LEMMA TokenStep ==
  ASSUME NEW C, text \in Seq(C), NEW token, Token(token)
  PROVE  text' \in Seq(C) /\ here' \in Seq(C)
<1>1. text \in Seq(C) /\ here' = <<>> /\ <<>> \in Seq(C)
  BY EmptySeq DEF Token
<1>2. text' = text \/ (text' = Tail(text) /\ ch \in {"=", "\""})
  BY DEF Token
<1>3. ch \in {"=", "\""} => text # <<>>
  BY DEF ch, EOF
<1>4. text # <<>> => Tail(text) \in Seq(C)
  BY <1>1, HeadTailProperties
<1> QED BY <1>1, <1>2, <1>3, <1>4

LEMMA ParserStep ==
  ASSUME ParserTyped, Parse
  PROVE  ParserTyped' /\ pc \in {"parse", "eof", "cut"}
<1>0. text \in Texts /\ here \in Texts /\ item \in Texts /\ <<>> \in Texts /\ None \in Texts /\ <<"=">> \in Texts
  BY Pointers DEF ParserTyped
<1> USE DEF ParserTyped, tables, pairs, lexer
<1>1. ASSUME NEW e \in Entries, More(e)
      PROVE  ParserTyped' /\ pc \in {"parse", "eof", "cut"}
  BY <1>1, Characters DEF More
<1>2. CASE Close
  BY <1>2 DEF Close
<1>3. CASE Lex
  <2>1. pc = "parse" /\ UNCHANGED <<item, images, table, widest>>
    BY <1>3 DEF Lex
  <2>2. EOF \in Character /\ NL \in Character /\ " " \in Character
    BY Characters DEF Literals
  <2>3. text' \in Texts /\ here' \in Texts
    BY <1>0, <1>3, <2>2, LexStep DEF Texts
  <2> QED BY <2>1, <2>3
<1>4. CASE SyntaxError
  <2>1. pc = "parse" /\ UNCHANGED <<item, images, table, widest>>
    BY <1>4 DEF SyntaxError
  <2>2. UNCHANGED lexer \/ \E token : Token(token)
    BY <1>4 DEF SyntaxError
  <2>3. text' \in Texts /\ here' \in Texts
    BY <1>0, <2>2, TokenStep DEF Texts
  <2> QED BY <2>1, <2>3
<1>5. CASE EndOfFile
  BY <1>5 DEF EndOfFile
<1>6. ASSUME NEW token \in {here, <<"=">>, None},
             TakeItem(token) \/ TakeMark(token) \/ NoMark(token) \/ TakeValue(token) \/ NoItem(token)
      PROVE  ParserTyped' /\ pc \in {"parse", "eof", "cut"}
  <2>1. token \in Texts
    BY <1>0
  <2>2. Reading(token)
    BY <1>6 DEF TakeItem, TakeMark, NoMark, TakeValue, NoItem
  <2>3. pc = "parse" /\ text' \in Texts /\ here' \in Texts
    BY <1>0, <2>2, TokenStep DEF Reading, Texts
  <2>4. item' \in Texts
    BY <1>0, <1>6, <2>1 DEF TakeItem, TakeMark, NoMark, TakeValue, NoItem
  <2>5. PICK e : e.value \in Texts /\ (File(e) \/ UNCHANGED <<images, table, widest>>)
    <3>1. Entry(item, None).value \in Texts /\ Entry(item, token).value \in Texts
      BY <1>0, <2>1 DEF Entry
    <3>2. File(Entry(item, None)) \/ File(Entry(item, token)) \/ UNCHANGED <<images, table, widest>>
      BY <1>6 DEF TakeItem, TakeMark, NoMark, TakeValue, NoItem
    <3> QED BY <3>1, <3>2
  <2>6. images' \in Seq(Tables) /\ table' \in 0..Len(images') /\ widest' \in Nat
    <3> HIDE DEF ParserTyped
    <3> QED BY <2>5, FileStep
  <2> QED BY <2>3, <2>4, <2>6
<1> QED BY <1>1, <1>2, <1>3, <1>4, <1>5, <1>6 DEF Parse

-----------------------------------------------------------------------------
(***************************************************************************)
(* Beginnings of names                                                     *)
(***************************************************************************)
LEMMA PrefixIs ==
  ASSUME NEW s \in Lines, NEW t \in Lines
  PROVE  IsPrefix(s, t) <=> Len(s) <= Len(t) /\ \A i \in 1..Len(s) : s[i] = t[i]
<1>1. SubSeq(s, 1, Len(s)) = s /\ Len(s) \in Nat /\ Len(t) \in Nat
  BY SubSeqFull, LenProperties DEF Lines
<1>2. ASSUME Len(s) <= Len(t)
      PROVE  /\ SubSeq(t, 1, Len(s)) \in Lines /\ Len(SubSeq(t, 1, Len(s))) = Len(s)
             /\ \A i \in 1..Len(s) : SubSeq(t, 1, Len(s))[i] = t[i]
  <2>1. \A i \in 1..Len(s) : t[i] \in Typeable
    BY <1>1, <1>2 DEF Lines
  <2> QED BY <1>1, <2>1, SubSeqProperties DEF Lines
<1>3. ASSUME Len(s) <= Len(t), \A i \in 1..Len(s) : s[i] = t[i]
      PROVE  s = SubSeq(t, 1, Len(s))
  <2>1. /\ SubSeq(t, 1, Len(s)) \in Lines /\ Len(SubSeq(t, 1, Len(s))) = Len(s)
        /\ \A i \in 1..Len(s) : s[i] = SubSeq(t, 1, Len(s))[i]
    BY <1>2, <1>3
  <2> QED BY <2>1, SeqEqual DEF Lines
<1>4. ASSUME Len(s) <= Len(t), s = SubSeq(t, 1, Len(s))
      PROVE  \A i \in 1..Len(s) : s[i] = t[i]
  BY <1>2, <1>4
<1> QED BY <1>1, <1>3, <1>4 DEF IsPrefix

(* A beginning that is as long is all of it. *)
LEMMA WholePrefix ==
  ASSUME NEW s \in Lines, NEW t \in Lines, IsPrefix(s, t), Len(t) <= Len(s)
  PROVE  s = t
<1>1. Len(s) = Len(t) /\ \A i \in 1..Len(s) : s[i] = t[i]
  BY PrefixIs, LenProperties DEF Lines
<1> QED BY <1>1, SeqEqual DEF Lines

(* A beginning that grows by a character. *)
LEMMA GrownPrefix ==
  ASSUME NEW s \in Lines, NEW t \in Lines, NEW c \in Typeable
  PROVE  /\ Append(s, c) \in Lines /\ Len(Append(s, c)) = Len(s) + 1 /\ Len(s) \in Nat
         /\ IsPrefix(Append(s, c), t) <=> IsPrefix(s, t) /\ Len(s) < Len(t) /\ t[Len(s) + 1] = c
<1>1. /\ Append(s, c) \in Lines /\ Len(Append(s, c)) = Len(s) + 1 /\ Len(s) \in Nat /\ Len(t) \in Nat
      /\ \A i \in 1..Len(s) : Append(s, c)[i] = s[i]
      /\ Append(s, c)[Len(s) + 1] = c
  BY DEF Lines
<1> DEFINE a == Append(s, c)
           m == Len(s)
           n == Len(t)
<1>2. IsPrefix(a, t) <=> m + 1 <= n /\ \A i \in 1..m + 1 : a[i] = t[i]
  BY <1>1, PrefixIs
<1>3. IsPrefix(s, t) <=> m <= n /\ \A i \in 1..m : s[i] = t[i]
  BY PrefixIs
<1>4. m \in Nat /\ n \in Nat /\ a[m + 1] = c /\ \A i \in 1..m : a[i] = s[i]
  BY <1>1
<1> HIDE DEF a, m, n
<1>5. (\A i \in 1..m + 1 : a[i] = t[i]) <=> (\A i \in 1..m : s[i] = t[i]) /\ t[m + 1] = c
  <2>1. \A i \in 1..m + 1 : i \in 1..m \/ i = m + 1
    BY <1>4
  <2>2. m + 1 \in 1..m + 1 /\ \A i \in 1..m : i \in 1..m + 1
    BY <1>4
  <2> QED BY <1>4, <2>1, <2>2
<1>6. m + 1 <= n <=> m < n
  BY <1>4
<1>7. m < n => m <= n
  BY <1>4
<1>8. IsPrefix(a, t) <=> IsPrefix(s, t) /\ m < n /\ t[m + 1] = c
  BY <1>2, <1>3, <1>5, <1>6, <1>7
<1> QED BY <1>1, <1>8 DEF a, m, n

(* Where two names of a set go on differently, what they and all others    *)
(* begin with is the longest beginning they have in common.                *)
LEMMA CommonIs ==
  ASSUME NEW S, S \subseteq Lines, NEW b \in Lines, \A t \in S : IsPrefix(b, t),
         NEW p \in S, NEW q \in S, CharAt(p, Len(b)) # CharAt(q, Len(b))
  PROVE  LongestCommonPrefix(S) = b
<1>0. p \in Lines /\ q \in Lines /\ Len(b) \in Nat
  BY LenProperties DEF Lines
<1>1. b \in CommonPrefixes(S)
  <2>1. Len(b) \in 0..Len(p) /\ SubSeq(p, 1, Len(b)) = SubSeq(b, 1, Len(b)) /\ SubSeq(b, 1, Len(b)) = b
    BY <1>0, SubSeqFull, LenProperties DEF IsPrefix, Lines
  <2>2. b \in Prefixes(p)
    BY <2>1 DEF Prefixes
  <2> QED BY <2>2 DEF CommonPrefixes
<1>2. ASSUME NEW o \in CommonPrefixes(S)
      PROVE  o \in Lines /\ Len(o) \in Nat /\ Len(o) <= Len(b) /\ IsPrefix(o, p)
  <2>1. PICK t \in S : o \in Prefixes(t)
    BY <1>2 DEF CommonPrefixes
  <2>2. PICK l \in 0..Len(t) : o = SubSeq(t, 1, l)
    BY <2>1 DEF Prefixes
  <2>3. t \in Seq(Typeable) /\ Len(t) \in Nat
    BY LenProperties DEF Lines
  <2>4. \A i \in 1..l : t[i] \in Typeable
    BY <2>2, <2>3
  <2>5. o \in Lines
    BY <2>2, <2>3, <2>4, SubSeqProperties DEF Lines
  <2>6. IsPrefix(o, p) /\ IsPrefix(o, q)
    BY <1>2 DEF CommonPrefixes
  <2>7. /\ Len(o) \in Nat /\ Len(o) <= Len(p) /\ Len(o) <= Len(q)
        /\ \A i \in 1..Len(o) : p[i] = q[i]
    BY <1>0, <2>5, <2>6, PrefixIs, LenProperties DEF Lines
  <2>8. ASSUME Len(o) > Len(b) PROVE FALSE
    <3>1. Len(b) < Len(p) /\ Len(b) < Len(q) /\ Len(b) + 1 \in 1..Len(o)
      BY <1>0, <2>7, <2>8, LenProperties DEF Lines
    <3> QED BY <2>7, <3>1 DEF CharAt
  <2> QED BY <1>0, <2>5, <2>6, <2>7, <2>8
<1>3. b \in CommonPrefixes(S) /\ \A o \in CommonPrefixes(S) : Len(o) <= Len(b)
  BY <1>1, <1>2
<1> DEFINE longest == LongestCommonPrefix(S)
<1>4. longest \in CommonPrefixes(S) /\ \A o \in CommonPrefixes(S) : Len(o) <= Len(longest)
  <2> HIDE DEF CommonPrefixes
  <2> QED BY <1>3 DEF LongestCommonPrefix
<1> HIDE DEF longest
<1>5. longest \in Lines /\ Len(longest) = Len(b) /\ IsPrefix(longest, p)
  BY <1>0, <1>1, <1>2, <1>4
<1>6. longest = b
  <2>1. /\ Len(longest) <= Len(p) /\ \A i \in 1..Len(longest) : longest[i] = p[i]
    BY <1>0, <1>5, PrefixIs
  <2>2. \A i \in 1..Len(b) : b[i] = p[i]
    BY <1>0, PrefixIs
  <2>3. \A i \in 1..Len(b) : longest[i] = b[i]
    BY <1>5, <2>1, <2>2
  <2> QED BY <1>5, <2>3, SeqEqual DEF Lines
<1> QED BY <1>6 DEF longest

-----------------------------------------------------------------------------
(***************************************************************************)
(* Where the editor stands: nothing is read any more while a name is       *)
(* completed, and blanks, word and line fit together.                      *)
(***************************************************************************)
Editable ==
  /\ tab.at = "out" => tab.buf = <<>> /\ shown = <<>>
  /\ tab.at # "out" => pc \in {"done", "short", "error"}
  /\ tab.at # "out" /\ tab.word = <<>> => tab.at = "leaving" /\ tab.blanks = 0 /\ tab.buf = <<>>
  /\ tab.at # "out" /\ tab.word # <<>> =>
       tab.blanks < Len(line) /\ tab.blanks + Len(tab.word) = Len(line) /\ Len(tab.word) <= widest
  /\ tab.at = "leaving" => tab.blanks + Len(tab.buf) < CmdLeng

(***************************************************************************)
(* The loop of cfg_print_images: after the first turn at least two places  *)
(* match the word, what is settled so far is a beginning of all of them,   *)
(* and follow is the character that one of them goes on with; they are     *)
(* listed only if another one does not.                                    *)
(***************************************************************************)
Searching ==
  tab.at = "loop" =>
    /\ tab.word # <<>> /\ shown = <<>>
    /\ tab.follow = Nothing => tab.buf = tab.word /\ ~tab.listing
    /\ tab.follow # Nothing =>
         /\ Matches(tab.buf) = Matches(tab.word) /\ Cardinality(Matches(tab.word)) > 1
         /\ \E i \in Matches(tab.word) : tab.follow = CharAt(NameList[i], Len(tab.buf))
         /\ tab.listing => \E i \in Matches(tab.word) : tab.follow # CharAt(NameList[i], Len(tab.buf))

IInv == Typed /\ Editable /\ Searching /\ Completes

(* Lines and names as they are, the line editor may go on. *)
LEMMA NamesStay ==
  ASSUME UNCHANGED <<images, line>>
  PROVE  NameList' = NameList /\ Remaining' = Remaining
<1>1. AllNames' = AllNames
  BY DEF AllNames
<1>2. NameList' = NameList
  BY <1>1 DEF NameList, Picked
<1> QED BY <1>2 DEF Remaining

(* The characters behind a beginning. *)
LEMMA CharTyped ==
  ASSUME NEW t \in Texts, NEW i \in Nat
  PROVE  /\ CharAt(t, i) \in Character \union {NUL} /\ CharAt(t, i) # Nothing
         /\ CharAt(t, i) = NUL <=> Len(t) <= i
         /\ CharAt(t, i) # NUL => i < Len(t) /\ t[i + 1] = CharAt(t, i)
<1>1. Len(t) \in Nat
  BY LenProperties DEF Texts
<1>2. CASE i < Len(t)
  <2>1. i + 1 \in 1..Len(t)
    BY <1>1, <1>2
  <2>2. CharAt(t, i) = t[i + 1] /\ t[i + 1] \in Character
    BY <1>2, <2>1 DEF CharAt, Texts
  <2> QED BY <1>1, <1>2, <2>2, Characters
<1>3. CASE ~(i < Len(t))
  <2>1. CharAt(t, i) = NUL
    BY <1>3 DEF CharAt
  <2> QED BY <1>1, <1>3, <2>1, Characters
<1> QED BY <1>2, <1>3

(* A place that matches: its name begins like that, and fits. *)
LEMMA AtPlace ==
  ASSUME ParserTyped, NEW start, NEW i \in Matches(start)
  PROVE  /\ NameList[i] \in Texts /\ NameList[i] \in Lines /\ Len(NameList[i]) \in Nat
         /\ Len(NameList[i]) < Remaining /\ IsPrefix(start, NameList[i])
         /\ NameList[i] \in Range(NameList)
<1>1. i \in DOMAIN NameList /\ Len(NameList[i]) < Remaining /\ IsPrefix(start, NameList[i])
  BY DEF Matches
<1> QED BY <1>1, NamesTyped DEF Range

-----------------------------------------------------------------------------
(* The numbers of a line, the word on it and a name that fits. *)
LEMMA LineHolds ==
  ASSUME NEW c \in Nat, NEW l \in Nat, NEW b \in Nat, NEW w \in Nat,
         b < l, b + w = l, l < c
  PROVE  /\ b + w < c
         /\ \A n \in Nat : n < c - l - 1 => b + n < c /\ b + (n + 1) < c
  OBVIOUS

(* The first turn. *)
LEMMA CountStep ==
  ASSUME IInv, tab.at = "loop", Count(Hits), UNCHANGED <<vars, line>>
  PROVE  IInv'
<1> DEFINE W == Matches(tab.word)
           At(b) == {i \in DOMAIN NameList : Len(NameList[i]) < Remaining /\ IsPrefix(b, NameList[i])}
<1>0. ParserTyped /\ EditorTyped /\ ParserTyped' /\ line' = line /\ widest' = widest /\ pc' = pc /\ shown' = shown
  BY DEF IInv, Typed, ParserTyped, vars, lexer, pairs, tables, Count
<1>1. /\ tab.word # <<>> /\ shown = <<>> /\ ~tab.listing /\ tab.follow = Nothing /\ tab.buf = tab.word
      /\ tab.blanks < Len(line) /\ tab.blanks + Len(tab.word) = Len(line) /\ Len(tab.word) <= widest
      /\ pc \in {"done", "short", "error"}
  BY DEF IInv, Searching, Count, Editable
<1>2. /\ tab.word \in Lines /\ Len(tab.word) \in Nat /\ Len(line) \in Nat /\ Len(line) < CmdLeng
      /\ tab.blanks \in Nat /\ widest \in Nat /\ CmdLeng \in Nat /\ line \in Lines
  BY <1>0, CompletionAssumption, LenProperties DEF EditorTyped, ParserTyped, Lines
<1>3. NameList' = NameList /\ Remaining' = Remaining /\ Remaining = CmdLeng - Len(line) - 1
  BY NamesStay DEF vars, tables, Remaining
<1>4. Len(Hits) = Cardinality(W) /\ Len(Hits) \in Nat /\ Hits \in Seq(Texts)
      /\ \A k \in 1..Len(Hits) : \E i \in W : Hits[k] = NameList[i]
  BY <1>0, <1>1, HitsAre
<1>5. /\ Fitting = {NameList[i] : i \in W} /\ IsFiniteSet(Fitting) /\ Cardinality(Fitting) \in Nat
      /\ IsFiniteSet(W)
  BY <1>0, FittingIs, MatchesAre
<1>6. ASSUME tab'.word = tab.word
      PROVE  /\ Fitting' = Fitting /\ Completed' = Completed /\ Matches(tab.word)' = W
             /\ Matches(tab.buf)' = At(tab'.buf)
  <2>1. Fitting' = Fitting
    BY <1>3, <1>6 DEF Fitting
  <2> QED BY <1>3, <1>6, <2>1 DEF Completed, Matches
<1>7. tab \in [at : {"out", "loop", "leaving", "gone"}, blanks : Nat, word : Lines, buf : Lines,
               follow : Character \union {NUL, Nothing}, listing : BOOLEAN]
  BY <1>0 DEF EditorTyped
<1>8. CASE Hits = <<>> /\ tab' = [tab EXCEPT !.at = "leaving"]
  <2>1. /\ tab'.at = "leaving" /\ tab'.word = tab.word /\ tab'.buf = tab.word /\ tab'.blanks = tab.blanks
        /\ EditorTyped'
    BY <1>0, <1>1, <1>7, <1>8 DEF EditorTyped
  <2>2. Fitting = {} /\ Cardinality(Fitting) = 0 /\ Completed = tab.word
    BY <1>4, <1>5, <1>8, FS_EmptySet DEF Completed
  <2>3. tab.blanks + Len(tab.word) < CmdLeng
    BY <1>1, <1>2
  <2>4. Editable'
    BY <1>0, <1>1, <2>1, <2>3 DEF Editable
  <2>5. Range(shown') = {}
    BY <1>0, <1>1 DEF Range
  <2>6. tab'.buf = Completed' /\ Range(shown') = IF Cardinality(Fitting') > 1 THEN Fitting' ELSE {}
    BY <1>6, <2>1, <2>2, <2>5
  <2>7. Len(tab'.buf) + 1 <= widest' + 2 /\ Len(line') < CmdLeng
    BY <1>0, <1>1, <1>2, <2>1
  <2>8. Completes'
    BY <1>1, <2>1, <2>6, <2>7 DEF Completes
  <2> QED BY <1>0, <2>1, <2>4, <2>8 DEF IInv, Typed, Searching
<1>9. CASE Len(Hits) = 1 /\ tab' = [tab EXCEPT !.at = "leaving", !.buf = Append(Hits[1], " ")]
  <2>1. PICK i \in W : Hits[1] = NameList[i]
    BY <1>4, <1>9
  <2>2. W = {i}
    <3>1. Cardinality(W) = 1 /\ i \in W /\ IsFiniteSet(W)
      BY <1>4, <1>5, <1>9, <2>1
    <3> HIDE DEF W
    <3>2. PICK x : W = {x}
      BY <3>1, FS_Singleton
    <3> QED BY <3>1, <3>2
  <2> DEFINE h == NameList[i]
  <2>3. /\ h \in Lines /\ Len(h) \in Nat /\ Len(h) < Remaining /\ h \in Range(NameList)
    BY <1>0, AtPlace
  <2>4. Append(h, " ") \in Lines /\ Len(Append(h, " ")) = Len(h) + 1
    <3>1. " " \in Typeable
      BY Characters DEF Literals
    <3> QED BY <2>3, <3>1, GrownPrefix
  <2>5. Fitting = {h} /\ Cardinality(Fitting) = 1
    <3>1. Fitting = {h}
      BY <1>5, <2>2, Zenon
    <3> QED BY <3>1, FS_Singleton
  <2> HIDE DEF h
  <2>6. Completed = Append(h, " ")
    BY <2>5 DEF Completed
  <2>7. /\ tab'.at = "leaving" /\ tab'.word = tab.word /\ tab'.buf = Append(h, " ") /\ tab'.blanks = tab.blanks
        /\ EditorTyped'
    BY <1>0, <1>1, <1>7, <1>9, <2>1, <2>4 DEF EditorTyped, h
  <2>8. tab.blanks + Len(tab'.buf) < CmdLeng
    <3>1. Len(h) < CmdLeng - Len(line) - 1 /\ Len(h) \in Nat /\ Len(tab'.buf) = Len(h) + 1
      BY <1>3, <2>3, <2>4, <2>7
    <3> QED BY <1>1, <1>2, <3>1, LineHolds
  <2>9. Editable'
    BY <1>0, <1>1, <2>7, <2>8 DEF Editable
  <2>10. Range(shown') = {}
    BY <1>0, <1>1 DEF Range
  <2>11. (\A n \in Range(NameList) : Len(n) <= widest) => Len(tab'.buf) + 1 <= widest + 2
    <3> SUFFICES ASSUME \A n \in Range(NameList) : Len(n) <= widest PROVE Len(tab'.buf) + 1 <= widest + 2
      OBVIOUS
    <3>1. Len(h) <= widest /\ Len(h) \in Nat /\ Len(tab'.buf) = Len(h) + 1
      BY <2>3, <2>4, <2>7
    <3> QED BY <1>2, <3>1
  <2>12. tab'.buf = Completed' /\ Range(shown') = IF Cardinality(Fitting') > 1 THEN Fitting' ELSE {}
    <3>1. Completed' = Completed /\ Fitting' = Fitting
      BY <1>6, <2>7
    <3>2. Cardinality(Fitting') = 1
      BY <2>5, <3>1
    <3>3. ~(Cardinality(Fitting') > 1)
      BY <3>2
    <3>4. tab'.buf = Completed'
      BY <2>6, <2>7, <3>1
    <3> QED BY <2>10, <3>3, <3>4
  <2>13. (\A n \in Range(NameList') : Len(n) <= widest') => Len(tab'.buf) + 1 <= widest' + 2
    BY <1>0, <1>3, <2>11
  <2>14. Completes'
    BY <1>0, <1>1, <1>2, <2>7, <2>12, <2>13 DEF Completes
  <2> QED BY <1>0, <2>7, <2>9, <2>14 DEF IInv, Typed, Searching
<1>10. CASE Len(Hits) > 1 /\ tab' = [tab EXCEPT !.follow = CharAt(Hits[1], Len(tab.buf))]
  <2>1. PICK i \in W : Hits[1] = NameList[i]
    BY <1>4, <1>10
  <2>2. NameList[i] \in Texts
    BY <1>0, AtPlace
  <2> DEFINE c == CharAt(NameList[i], Len(tab.word))
  <2>3. c \in Character \union {NUL} /\ c # Nothing
    BY <1>2, <2>2, CharTyped
  <2> HIDE DEF c
  <2>4. /\ tab'.at = "loop" /\ tab'.word = tab.word /\ tab'.buf = tab.word /\ tab'.blanks = tab.blanks
        /\ tab'.follow = c /\ tab'.listing = FALSE /\ EditorTyped'
    BY <1>0, <1>1, <1>7, <1>10, <2>1, <2>3 DEF EditorTyped, c
  <2>5. Editable'
    BY <1>0, <1>1, <2>4 DEF Editable
  <2>6. Matches(tab.buf)' = Matches(tab.word)'
    BY <1>6, <2>4 DEF Matches
  <2>7. Cardinality(W) > 1
    BY <1>4, <1>10
  <2>8. Searching'
    BY <1>0, <1>1, <1>3, <1>6, <2>3, <2>4, <2>6, <2>7 DEF Searching, c
  <2>9. Completes'
    BY <1>0, <1>1, <1>2, <2>4 DEF Completes
  <2> QED BY <1>0, <2>4, <2>5, <2>8, <2>9 DEF IInv, Typed
<1> QED BY <1>8, <1>9, <1>10 DEF Count

(* What the further turns find: the places that match are those of the     *)
(* word, all their names begin with what is settled, and one goes on with  *)
(* follow.                                                                 *)
LEMMA Onward ==
  ASSUME IInv, tab.at = "loop", tab.follow # Nothing
  PROVE  /\ Matches(tab.buf) = Matches(tab.word) /\ Len(Hits) = Cardinality(Matches(tab.word)) /\ Len(Hits) > 1
         /\ Hits \in Seq(Texts) /\ Len(Hits) \in Nat
         /\ \A k \in 1..Len(Hits) : \E i \in Matches(tab.word) : Hits[k] = NameList[i]
         /\ \A i \in Matches(tab.word) : \E k \in 1..Len(Hits) : Hits[k] = NameList[i]
         /\ \E i \in Matches(tab.word) : tab.follow = CharAt(NameList[i], Len(tab.buf))
         /\ \A i \in Matches(tab.word) :
              /\ NameList[i] \in Texts /\ NameList[i] \in Lines /\ Len(NameList[i]) \in Nat
              /\ Len(NameList[i]) < Remaining /\ NameList[i] \in Range(NameList)
              /\ IsPrefix(tab.word, NameList[i]) /\ IsPrefix(tab.buf, NameList[i])
         /\ tab.buf \in Lines /\ Len(tab.buf) \in Nat
<1>1. ParserTyped /\ tab.buf \in Lines /\ Len(tab.buf) \in Nat
  BY LenProperties DEF IInv, Typed, EditorTyped, Lines
<1>2. /\ Matches(tab.buf) = Matches(tab.word) /\ Cardinality(Matches(tab.word)) > 1
      /\ \E i \in Matches(tab.word) : tab.follow = CharAt(NameList[i], Len(tab.buf))
  BY DEF IInv, Searching
<1> QED BY <1>1, <1>2, HitsAre, AtPlace

(* The facts about a further turn that is not the last. *)
LEMMA FurtherStep ==
  ASSUME IInv, tab.at = "loop", tab.follow # Nothing, UNCHANGED <<vars, line>>,
         tab'.word = tab.word
  PROVE  /\ ParserTyped /\ EditorTyped /\ ParserTyped' /\ line' = line /\ widest' = widest /\ pc' = pc
         /\ tab.word # <<>> /\ shown = <<>>
         /\ tab.blanks < Len(line) /\ tab.blanks + Len(tab.word) = Len(line) /\ Len(tab.word) <= widest
         /\ pc \in {"done", "short", "error"}
         /\ Len(tab.word) \in Nat /\ Len(line) \in Nat /\ Len(line) < CmdLeng
         /\ tab.blanks \in Nat /\ widest \in Nat /\ CmdLeng \in Nat
         /\ NameList' = NameList /\ Remaining = CmdLeng - Len(line) - 1
         /\ Fitting = {NameList[i] : i \in Matches(tab.word)} /\ IsFiniteSet(Fitting)
         /\ Cardinality(Fitting) \in Nat
         /\ Fitting' = Fitting /\ Completed' = Completed /\ Matches(tab.word)' = Matches(tab.word)
         /\ Matches(tab.buf)' = {i \in DOMAIN NameList : /\ Len(NameList[i]) < Remaining
                                                         /\ IsPrefix(tab'.buf, NameList[i])}
<1>0. ParserTyped /\ EditorTyped /\ ParserTyped' /\ line' = line /\ widest' = widest /\ pc' = pc
  BY DEF IInv, Typed, ParserTyped, vars, lexer, pairs, tables
<1>1. /\ tab.word # <<>> /\ shown = <<>>
      /\ tab.blanks < Len(line) /\ tab.blanks + Len(tab.word) = Len(line) /\ Len(tab.word) <= widest
      /\ pc \in {"done", "short", "error"}
  BY DEF IInv, Searching, Editable
<1>2. /\ Len(tab.word) \in Nat /\ Len(line) \in Nat /\ Len(line) < CmdLeng
      /\ tab.blanks \in Nat /\ widest \in Nat /\ CmdLeng \in Nat
  BY <1>0, CompletionAssumption, LenProperties DEF EditorTyped, ParserTyped, Lines
<1>3. NameList' = NameList /\ Remaining' = Remaining /\ Remaining = CmdLeng - Len(line) - 1
  BY NamesStay DEF vars, tables, Remaining
<1>4. /\ Fitting = {NameList[i] : i \in Matches(tab.word)} /\ IsFiniteSet(Fitting)
      /\ Cardinality(Fitting) \in Nat
  BY <1>0, FittingIs
<1>5. Fitting' = Fitting
  BY <1>3 DEF Fitting
<1>6. Completed' = Completed
  BY <1>3, <1>5 DEF Completed
<1>7. Matches(tab.word)' = Matches(tab.word)
  BY <1>3 DEF Matches
<1>8. Matches(tab.buf)' = {i \in DOMAIN NameList : /\ Len(NameList[i]) < Remaining
                                                  /\ IsPrefix(tab'.buf, NameList[i])}
  BY <1>3 DEF Matches
<1> QED BY <1>0, <1>1, <1>2, <1>3, <1>4, <1>5, <1>6, <1>7, <1>8

(* A character is settled, or the search runs off the end of the names. *)
LEMMA SettleStep ==
  ASSUME IInv, tab.at = "loop", Settle(Hits), UNCHANGED <<vars, line>>
  PROVE  IInv'
<1> DEFINE W == Matches(tab.word)
           b == tab.buf
           m == Len(tab.buf)
<1>1. ~tab.listing /\ tab.follow # Nothing /\ shown' = shown /\ \A k \in DOMAIN Hits : CharAt(Hits[k], m) = tab.follow
  BY DEF Settle, Agree
<1>2. /\ Matches(b) = W /\ Len(Hits) = Cardinality(W) /\ Len(Hits) > 1 /\ Hits \in Seq(Texts) /\ Len(Hits) \in Nat
      /\ \A k \in 1..Len(Hits) : \E i \in W : Hits[k] = NameList[i]
      /\ \A i \in W : \E k \in 1..Len(Hits) : Hits[k] = NameList[i]
      /\ \A i \in W :
              /\ NameList[i] \in Texts /\ NameList[i] \in Lines /\ Len(NameList[i]) \in Nat
              /\ Len(NameList[i]) < Remaining /\ NameList[i] \in Range(NameList)
              /\ IsPrefix(b, NameList[i])
      /\ b \in Lines /\ m \in Nat
  BY <1>1, Onward
<1>3. DOMAIN Hits = 1..Len(Hits)
  BY <1>2
<1>4. \A i \in W : CharAt(NameList[i], m) = tab.follow
  BY <1>1, <1>2, <1>3
<1>5. PICK first \in W : Hits[1] = NameList[first]
  <2>1. 1 \in 1..Len(Hits)
    BY <1>2
  <2> QED BY <1>2, <2>1
<1>6. EditorTyped /\ tab \in [at : {"out", "loop", "leaving", "gone"}, blanks : Nat, word : Lines, buf : Lines,
               follow : Character \union {NUL, Nothing}, listing : BOOLEAN]
  BY DEF IInv, Typed, EditorTyped
<1>7. CASE tab.follow = NUL
  <2>1. tab' = [tab EXCEPT !.at = "gone"]
    BY <1>7 DEF Settle
  <2>2. /\ tab'.at = "gone" /\ tab'.word = tab.word /\ tab'.buf = b /\ tab'.blanks = tab.blanks
        /\ tab' \in [at : {"out", "loop", "leaving", "gone"}, blanks : Nat, word : Lines, buf : Lines,
               follow : Character \union {NUL, Nothing}, listing : BOOLEAN]
    BY <1>6, <2>1
  <2>3. /\ ParserTyped' /\ line' = line /\ widest' = widest /\ pc' = pc /\ tab.word # <<>>
        /\ tab.blanks < Len(line) /\ tab.blanks + Len(tab.word) = Len(line) /\ Len(tab.word) <= widest
        /\ pc \in {"done", "short", "error"} /\ Len(line) < CmdLeng
        /\ NameList' = NameList /\ Fitting = {NameList[i] : i \in W} /\ Fitting' = Fitting
    BY <1>1, <2>2, FurtherStep
  <2>4. \A i \in W : NameList[i] = b
    <3> SUFFICES ASSUME NEW i \in W PROVE NameList[i] = b
      OBVIOUS
    <3>1. Len(NameList[i]) <= m
      BY <1>2, <1>4, <1>7, CharTyped
    <3> QED BY <1>2, <3>1, WholePrefix
  <2>5. Cardinality(Fitting) = 1
    <3>1. Fitting = {b}
      BY <1>5, <2>3, <2>4
    <3> QED BY <3>1, FS_Singleton
  <2>6. Len(Hits') > 1
    <3>1. Matches(tab.buf)' = Matches(tab.buf)
      BY <2>2, <2>3, NamesStay DEF Matches, vars, tables
    <3>2. Hits' = Hits
      BY <2>3, <3>1 DEF Hits, Picked
    <3> QED BY <1>2, <3>2
  <2>7. EditorTyped'
    BY <1>1, <1>6, <2>2, <2>3 DEF EditorTyped
  <2>8. Editable'
    BY <2>2, <2>3 DEF Editable
  <2>9. (\A n \in Range(NameList') : Len(n) <= widest') => Len(tab'.buf) + 1 <= widest' + 2
    BY <2>2, <2>3 DEF IInv, Completes
  <2>10. Completes'
    BY <2>2, <2>3, <2>5, <2>6, <2>9 DEF Completes
  <2> QED BY <2>2, <2>3, <2>7, <2>8, <2>10 DEF IInv, Typed, Searching
<1>8. CASE tab.follow # NUL
  <2> DEFINE c == tab.follow
             a == Append(b, c)
             f == CharAt(Hits[1], m + 1)
  <2>1. tab' = [tab EXCEPT !.buf = a, !.follow = f]
    BY <1>8 DEF Settle
  <2>2. \A i \in W : m < Len(NameList[i]) /\ NameList[i][m + 1] = c
    BY <1>2, <1>4, <1>8, CharTyped
  <2>3. c \in Typeable
    BY <1>1, <1>6, <1>8, Characters
  <2>4. a \in Lines /\ Len(a) = m + 1
    BY <1>2, <2>3, GrownPrefix
  <2>5. f \in Character \union {NUL} /\ f # Nothing
    BY <1>2, <1>5, CharTyped
  <2>6. \A i \in W : IsPrefix(a, NameList[i])
    <3> SUFFICES ASSUME NEW i \in W PROVE IsPrefix(a, NameList[i])
      OBVIOUS
    <3> QED BY <1>2, <2>2, <2>3, GrownPrefix
  <2>7. f = CharAt(NameList[first], Len(a))
    BY <1>5, <2>4
  <2> HIDE DEF a, f
  <2>8. /\ tab'.at = "loop" /\ tab'.word = tab.word /\ tab'.buf = a /\ tab'.blanks = tab.blanks
        /\ tab'.follow = f /\ tab'.listing = FALSE
        /\ tab' \in [at : {"out", "loop", "leaving", "gone"}, blanks : Nat, word : Lines, buf : Lines,
               follow : Character \union {NUL, Nothing}, listing : BOOLEAN]
    BY <1>1, <1>6, <2>1, <2>4, <2>5
  <2>9. /\ ParserTyped' /\ line' = line /\ widest' = widest /\ pc' = pc /\ tab.word # <<>> /\ shown = <<>>
        /\ tab.blanks < Len(line) /\ tab.blanks + Len(tab.word) = Len(line) /\ Len(tab.word) <= widest
        /\ pc \in {"done", "short", "error"} /\ Len(line) < CmdLeng /\ widest \in Nat
        /\ NameList' = NameList /\ Matches(tab.word)' = W
        /\ Matches(tab.buf)' = {i \in DOMAIN NameList : Len(NameList[i]) < Remaining /\ IsPrefix(a, NameList[i])}
    BY <1>1, <2>8, FurtherStep
  <2>10. Matches(tab.buf)' = W
    <3>1. W = {i \in DOMAIN NameList : Len(NameList[i]) < Remaining /\ IsPrefix(b, NameList[i])}
      BY <1>2 DEF Matches
    <3>2. \A i \in DOMAIN NameList : IsPrefix(a, NameList[i]) => IsPrefix(b, NameList[i])
      <4>1. \A i \in DOMAIN NameList : NameList[i] \in Lines
        BY NamesTyped DEF IInv, Typed
      <4> QED BY <1>2, <2>3, <4>1, GrownPrefix DEF a
    <3> HIDE DEF W
    <3> QED BY <2>6, <2>9, <3>1, <3>2
  <2>11. EditorTyped'
    BY <1>1, <1>6, <2>8, <2>9 DEF EditorTyped
  <2>12. Editable'
    BY <2>8, <2>9 DEF Editable
  <2>13. Searching'
    <3>1. Cardinality(W) > 1
      BY <1>2
    <3>2. Matches(tab.buf)' = Matches(tab.word)' /\ Cardinality(Matches(tab.word)') > 1
      BY <2>9, <2>10, <3>1
    <3>3. first \in Matches(tab.word)' /\ tab'.follow = CharAt(NameList'[first], Len(tab'.buf))
      BY <1>5, <2>7, <2>8, <2>9
    <3> QED BY <1>1, <2>5, <2>8, <2>9, <3>2, <3>3 DEF Searching
  <2>14. (\A n \in Range(NameList') : Len(n) <= widest') => Len(tab'.buf) + 1 <= widest' + 2
    <3> SUFFICES ASSUME \A n \in Range(NameList) : Len(n) <= widest PROVE Len(a) + 1 <= widest + 2
      BY <2>8, <2>9
    <3>1. Len(NameList[first]) <= widest /\ m < Len(NameList[first]) /\ Len(NameList[first]) \in Nat
      BY <1>2, <1>5, <2>2
    <3> QED BY <1>2, <2>4, <2>9, <3>1
  <2>15. Completes'
    BY <2>8, <2>9, <2>14 DEF Completes
  <2> QED BY <2>9, <2>11, <2>12, <2>13, <2>15 DEF IInv, Typed
<1> QED BY <1>7, <1>8

(* They differ in the next character: the last turn will list them. *)
LEMMA DifferStep ==
  ASSUME IInv, tab.at = "loop", Differ(Hits), UNCHANGED <<vars, line>>
  PROVE  IInv'
<1> DEFINE W == Matches(tab.word)
<1>1. tab.follow # Nothing /\ tab' = [tab EXCEPT !.listing = TRUE] /\ shown' = shown /\ ~Agree(Hits)
  BY DEF Differ
<1>2. /\ Matches(tab.buf) = W /\ Len(Hits) > 1 /\ Len(Hits) = Cardinality(W) /\ Hits \in Seq(Texts)
      /\ \A k \in 1..Len(Hits) : \E i \in W : Hits[k] = NameList[i]
      /\ \E i \in W : tab.follow = CharAt(NameList[i], Len(tab.buf))
  BY <1>1, Onward
<1>3. \E i \in W : tab.follow # CharAt(NameList[i], Len(tab.buf))
  <2>1. PICK k \in DOMAIN Hits : CharAt(Hits[k], Len(tab.buf)) # tab.follow
    BY <1>1 DEF Agree
  <2>2. k \in 1..Len(Hits)
    BY <1>2
  <2> QED BY <1>2, <2>1, <2>2
<1>4. EditorTyped /\ tab \in [at : {"out", "loop", "leaving", "gone"}, blanks : Nat, word : Lines, buf : Lines,
               follow : Character \union {NUL, Nothing}, listing : BOOLEAN]
  BY DEF IInv, Typed, EditorTyped
<1>5. /\ tab'.at = "loop" /\ tab'.word = tab.word /\ tab'.buf = tab.buf /\ tab'.blanks = tab.blanks
      /\ tab'.follow = tab.follow
      /\ tab' \in [at : {"out", "loop", "leaving", "gone"}, blanks : Nat, word : Lines, buf : Lines,
               follow : Character \union {NUL, Nothing}, listing : BOOLEAN]
  BY <1>1, <1>4
<1>6. /\ ParserTyped' /\ line' = line /\ widest' = widest /\ pc' = pc /\ tab.word # <<>> /\ shown = <<>>
      /\ tab.blanks < Len(line) /\ tab.blanks + Len(tab.word) = Len(line) /\ Len(tab.word) <= widest
      /\ pc \in {"done", "short", "error"} /\ Len(line) < CmdLeng
      /\ NameList' = NameList /\ Matches(tab.word)' = W
  BY <1>1, <1>5, FurtherStep
<1>7. Matches(tab.buf)' = W
  <2>1. Matches(tab.buf)' = Matches(tab.buf)
    BY <1>5, NamesStay DEF Matches, vars, tables
  <2> QED BY <1>2, <2>1
<1>8. EditorTyped'
  BY <1>1, <1>4, <1>5, <1>6 DEF EditorTyped
<1>9. Editable'
  BY <1>5, <1>6 DEF Editable
<1>10. Searching'
  <2>1. Cardinality(W) > 1
    BY <1>2
  <2> HIDE DEF W
  <2>2. Matches(tab.buf)' = Matches(tab.word)' /\ Cardinality(Matches(tab.word)') > 1
    BY <1>6, <1>7, <2>1
  <2>3. \E i \in Matches(tab.word)' : tab'.follow = CharAt(NameList'[i], Len(tab'.buf))
    BY <1>2, <1>5, <1>6
  <2>4. \E i \in Matches(tab.word)' : tab'.follow # CharAt(NameList'[i], Len(tab'.buf))
    BY <1>3, <1>5, <1>6
  <2> QED BY <1>1, <1>5, <1>6, <2>2, <2>3, <2>4 DEF Searching
<1>11. (\A n \in Range(NameList') : Len(n) <= widest') => Len(tab'.buf) + 1 <= widest' + 2
  BY <1>5, <1>6 DEF IInv, Completes
<1>12. Completes'
  BY <1>5, <1>6, <1>11 DEF Completes
<1> QED BY <1>6, <1>8, <1>9, <1>10, <1>12 DEF IInv, Typed

(* The names are listed, and what they have in common is settled. *)
LEMMA ListStep ==
  ASSUME IInv, tab.at = "loop", List(Hits), UNCHANGED <<vars, line>>
  PROVE  IInv'
<1> DEFINE W == Matches(tab.word)
           b == tab.buf
           m == Len(tab.buf)
<1>1. tab.listing /\ shown' = Hits /\ tab' = [tab EXCEPT !.at = "leaving"]
  BY DEF List
<1>2. tab.follow # Nothing
  BY <1>1 DEF IInv, Searching
<1>3. /\ Matches(b) = W /\ Hits \in Seq(Texts) /\ Len(Hits) \in Nat
      /\ \A k \in 1..Len(Hits) : \E i \in W : Hits[k] = NameList[i]
      /\ \A i \in W : \E k \in 1..Len(Hits) : Hits[k] = NameList[i]
      /\ \E i \in W : tab.follow = CharAt(NameList[i], m)
      /\ \A i \in W :
              /\ NameList[i] \in Lines /\ Len(NameList[i]) \in Nat
              /\ Len(NameList[i]) < Remaining /\ IsPrefix(b, NameList[i])
      /\ b \in Lines /\ m \in Nat
  BY <1>2, Onward
<1>4. \E i \in W : tab.follow # CharAt(NameList[i], m)
  BY <1>1, <1>2 DEF IInv, Searching
<1>5. PICK i \in W : tab.follow = CharAt(NameList[i], m)
  BY <1>3
<1>6. PICK j \in W : tab.follow # CharAt(NameList[j], m)
  BY <1>4
<1>7. EditorTyped /\ tab \in [at : {"out", "loop", "leaving", "gone"}, blanks : Nat, word : Lines, buf : Lines,
               follow : Character \union {NUL, Nothing}, listing : BOOLEAN]
  BY DEF IInv, Typed, EditorTyped
<1>8. /\ tab'.at = "leaving" /\ tab'.word = tab.word /\ tab'.buf = b /\ tab'.blanks = tab.blanks
      /\ tab' \in [at : {"out", "loop", "leaving", "gone"}, blanks : Nat, word : Lines, buf : Lines,
               follow : Character \union {NUL, Nothing}, listing : BOOLEAN]
  BY <1>1, <1>7
<1>9. /\ ParserTyped' /\ line' = line /\ widest' = widest /\ pc' = pc /\ tab.word # <<>>
      /\ tab.blanks < Len(line) /\ tab.blanks + Len(tab.word) = Len(line) /\ Len(tab.word) <= widest
      /\ pc \in {"done", "short", "error"} /\ Len(line) < CmdLeng /\ Remaining = CmdLeng - Len(line) - 1
      /\ Len(line) \in Nat /\ tab.blanks \in Nat /\ CmdLeng \in Nat
      /\ NameList' = NameList /\ Fitting = {NameList[x] : x \in W} /\ IsFiniteSet(Fitting)
      /\ Cardinality(Fitting) \in Nat /\ Fitting' = Fitting /\ Completed' = Completed
  BY <1>2, <1>8, FurtherStep
<1> DEFINE p == NameList[i]
           q == NameList[j]
<1>10. p \in Fitting /\ q \in Fitting /\ CharAt(p, m) # CharAt(q, m) /\ p # q
  BY <1>5, <1>6, <1>9
<1>11. Fitting \subseteq Lines /\ \A t \in Fitting : IsPrefix(b, t)
  BY <1>3, <1>9
<1>12. p \in Lines /\ Len(p) \in Nat /\ Len(p) < CmdLeng - Len(line) - 1 /\ m <= Len(p)
  <2>1. p \in Lines /\ Len(p) \in Nat /\ Len(p) < Remaining /\ IsPrefix(b, p)
    BY <1>3, <1>5
  <2>2. m <= Len(p)
    BY <2>1 DEF IsPrefix
  <2> QED BY <1>9, <2>1, <2>2
<1> HIDE DEF p, q
<1>13. Completed = b
  <2>1. LongestCommonPrefix(Fitting) = b
    <3>1. CharAt(p, Len(tab.buf)) # CharAt(q, Len(tab.buf)) /\ tab.buf \in Lines
      BY <1>3, <1>10
    <3>2. p \in Fitting /\ q \in Fitting /\ Fitting \subseteq Lines /\ \A t \in Fitting : IsPrefix(tab.buf, t)
      BY <1>10, <1>11
    <3> HIDE DEF b, m
    <3>3. LongestCommonPrefix(Fitting) = tab.buf
      BY <3>1, <3>2, CommonIs
    <3> QED BY <3>3 DEF b
  <2>2. Fitting # {} /\ ~ \E n \in Fitting : Fitting = {n}
    BY <1>10
  <2> QED BY <2>1, <2>2 DEF Completed
<1>14. Cardinality(Fitting) > 1
  <2>1. Cardinality(Fitting) # 0
    BY <1>9, <1>10, FS_EmptySet
  <2>2. Cardinality(Fitting) # 1
    <3> SUFFICES ASSUME Cardinality(Fitting) = 1 PROVE FALSE
      OBVIOUS
    <3>1. PICK x : Fitting = {x}
      BY <1>9, FS_Singleton
    <3> QED BY <1>10, <3>1
  <2> QED BY <1>9, <2>1, <2>2
<1>15. Range(shown') = Fitting
  <2>1. DOMAIN Hits = 1..Len(Hits)
    BY <1>3
  <2>2. \A x : x \in Fitting <=> \E y \in W : x = NameList[y]
    BY <1>9
  <2>3. \A x : x \in Range(Hits) <=> \E k \in 1..Len(Hits) : x = Hits[k]
    BY <2>1 DEF Range
  <2>4. \A x : x \in Range(Hits) <=> x \in Fitting
    <3>1. /\ \A k \in 1..Len(Hits) : \E y \in W : Hits[k] = NameList[y]
          /\ \A y \in W : \E k \in 1..Len(Hits) : Hits[k] = NameList[y]
      BY <1>3
    <3> HIDE DEF W
    <3> QED BY <2>2, <2>3, <3>1
  <2>5. Range(Hits) = Fitting
    BY <2>4
  <2> QED BY <1>1, <2>5
<1>16. tab.blanks + m < CmdLeng
  <2>1. /\ tab.blanks \in Nat /\ m \in Nat /\ Len(line) \in Nat /\ CmdLeng \in Nat /\ Len(p) \in Nat
        /\ tab.blanks < Len(line) /\ m <= Len(p) /\ Len(p) < CmdLeng - Len(line) - 1
    BY <1>3, <1>9, <1>12
  <2> HIDE DEF m
  <2> QED BY <2>1
<1>17. EditorTyped'
  BY <1>1, <1>3, <1>7, <1>8, <1>9 DEF EditorTyped
<1>18. Editable'
  BY <1>8, <1>9, <1>16 DEF Editable
<1>19. tab'.buf = Completed' /\ Range(shown') = IF Cardinality(Fitting') > 1 THEN Fitting' ELSE {}
  <2>1. Cardinality(Fitting') > 1 /\ Range(shown') = Fitting'
    BY <1>9, <1>14, <1>15
  <2>2. tab'.buf = Completed'
    BY <1>8, <1>9, <1>13
  <2> QED BY <2>1, <2>2
<1>20. (\A n \in Range(NameList') : Len(n) <= widest') => Len(tab'.buf) + 1 <= widest' + 2
  BY <1>8, <1>9 DEF IInv, Completes
<1>21. Completes'
  BY <1>8, <1>9, <1>19, <1>20 DEF Completes
<1> QED BY <1>8, <1>9, <1>17, <1>18, <1>21 DEF IInv, Typed, Searching

-----------------------------------------------------------------------------
(* The keys. *)
LEMMA EditStep ==
  ASSUME IInv, Edit
  PROVE  IInv'
<1>0. ParserTyped /\ EditorTyped
  BY DEF IInv, Typed
<1>1. /\ line \in Lines /\ Len(line) \in Nat /\ Len(line) < CmdLeng /\ CmdLeng \in Nat \ {0}
      /\ shown \in Seq(Texts) /\ widest \in Nat
      /\ tab.blanks \in Nat /\ tab.buf \in Lines /\ Len(tab.buf) \in Nat
      /\ <<>> \in Lines /\ <<>> \in Seq(Texts)
  BY <1>0, CompletionAssumption, LenProperties, EmptySeq DEF EditorTyped, ParserTyped, Lines
<1>2. ASSUME UNCHANGED vars
      PROVE  ParserTyped' /\ widest' = widest /\ pc' = pc
  BY <1>0, <1>2 DEF ParserTyped, vars, lexer, pairs, tables
<1>3. /\ NoTab \in [at : {"out", "loop", "leaving", "gone"}, blanks : Nat, word : Lines, buf : Lines,
                    follow : Character \union {NUL, Nothing}, listing : BOOLEAN]
      /\ NoTab.at = "out" /\ NoTab.buf = <<>> /\ NoTab.blanks = 0 /\ NoTab.word = <<>>
      /\ NoTab.follow = Nothing /\ ~NoTab.listing
  BY <1>1 DEF NoTab
(* The line is another one, and no name is completed. *)
<1>4. ASSUME UNCHANGED vars, line' \in Lines, Len(line') < CmdLeng, shown' = <<>>,
             tab' = NoTab \/ (tab' = tab /\ tab.at = "out")
      PROVE  IInv'
  <2>1. ParserTyped' /\ widest' = widest
    BY <1>2, <1>4
  <2>2. tab'.at = "out" /\ tab'.buf = <<>>
    BY <1>3, <1>4 DEF IInv, Editable
  <2>3. EditorTyped'
    BY <1>0, <1>1, <1>3, <1>4 DEF EditorTyped
  <2>4. Len(tab'.buf) + 1 <= widest' + 2
    BY <1>1, <2>1, <2>2
  <2>5. Completes'
    BY <1>4, <2>2, <2>4 DEF Completes
  <2>6. Editable'
    BY <1>4, <2>2 DEF Editable
  <2> QED BY <2>1, <2>2, <2>3, <2>5, <2>6 DEF IInv, Typed, Searching
<1>5. ASSUME NEW k \in Keys, Type(k) PROVE IInv'
  <2>1. line' = Append(line, k) /\ Len(line) < CmdLeng - 2 /\ tab.at = "out" /\ UNCHANGED <<vars, tab, shown>>
    BY <1>5 DEF Type, Editing
  <2>2. k \in Typeable
    BY DEF Typeable
  <2>3. line' \in Lines /\ Len(line') = Len(line) + 1
    BY <1>1, <2>1, <2>2, GrownPrefix
  <2> QED BY <1>1, <1>4, <2>1, <2>3 DEF IInv, Editable
<1>6. CASE Backspace
  <2>1. line' = Front(line) /\ line # <<>> /\ tab.at = "out" /\ UNCHANGED <<vars, tab, shown>>
    BY <1>6 DEF Backspace, Editing
  <2>2. line' = SubSeq(line, 1, Len(line) - 1) /\ Len(line) # 0
    BY <1>1, <2>1, EmptySeq DEF Front, Lines
  <2>3. \A i \in 1..Len(line) - 1 : line[i] \in Typeable
    BY <1>1 DEF Lines
  <2>4. line' \in Lines /\ Len(line') <= Len(line)
    BY <1>1, <2>2, <2>3, SubSeqProperties DEF Lines
  <2>5. Len(line') < CmdLeng
    BY <1>1, <2>4, LenProperties DEF Lines
  <2> QED BY <1>4, <2>1, <2>4, <2>5 DEF IInv, Editable
<1>7. CASE TabAll
  <2>1. line = <<>> /\ line' = line /\ tab' = [NoTab EXCEPT !.at = "leaving"] /\ shown' = NameList /\ UNCHANGED vars
        /\ pc \in {"done", "short", "error"}
    BY <1>7 DEF TabAll, Editing
  <2>2. ParserTyped' /\ widest' = widest /\ pc' = pc
    BY <1>2, <2>1
  <2>3. /\ tab'.at = "leaving" /\ tab'.buf = <<>> /\ tab'.blanks = 0 /\ tab'.word = <<>>
        /\ tab' \in [at : {"out", "loop", "leaving", "gone"}, blanks : Nat, word : Lines, buf : Lines,
                    follow : Character \union {NUL, Nothing}, listing : BOOLEAN]
    BY <1>3, <2>1
  <2>4. NameList' = NameList
    BY <2>1, NamesStay DEF vars, tables
  <2>5. NameList \in Seq(Texts)
    BY <1>0, NamesTyped
  <2>6. EditorTyped'
    BY <1>1, <2>1, <2>3, <2>5 DEF EditorTyped
  <2>7. Editable'
    BY <1>1, <2>1, <2>2, <2>3 DEF Editable
  <2>8. Len(tab'.buf) + 1 <= widest' + 2 /\ Len(line') < CmdLeng
    BY <1>1, <2>1, <2>2, <2>3
  <2>9. Completes'
    BY <2>1, <2>3, <2>4, <2>8 DEF Completes
  <2> QED BY <2>2, <2>3, <2>6, <2>7, <2>9 DEF IInv, Typed, Searching
<1>8. CASE TabWord
  <2>1. PICK n \in 0 .. Len(line) - 1 :
          /\ Len(line) - n <= widest
          /\ tab' = [NoTab EXCEPT !.at = "loop", !.blanks = n, !.word = SubSeq(line, n + 1, Len(line)),
                                  !.buf = SubSeq(line, n + 1, Len(line))]
    BY <1>8, Zenon DEF TabWord
  <2>2. UNCHANGED <<vars, line, shown>> /\ pc \in {"done", "short", "error"} /\ tab.at = "out"
    BY <1>8 DEF TabWord, Editing
  <2> DEFINE word == SubSeq(line, n + 1, Len(line))
  <2>3. word \in Lines /\ Len(word) = Len(line) - n /\ Len(word) \in Nat \ {0}
    <3>1. \A i \in n + 1..Len(line) : line[i] \in Typeable
      BY <1>1, <2>1 DEF Lines
    <3> QED BY <1>1, <2>1, <3>1, SubSeqProperties DEF Lines
  <2>4. word # <<>>
    BY <2>3, EmptySeq
  <2> HIDE DEF word
  <2>5. tab' = [NoTab EXCEPT !.at = "loop", !.blanks = n, !.word = word, !.buf = word] /\ n \in Nat
    BY <2>1 DEF word
  <2>6. /\ tab'.at = "loop" /\ tab'.buf = word /\ tab'.blanks = n /\ tab'.word = word
        /\ tab'.follow = Nothing /\ tab'.listing = FALSE
        /\ tab' \in [at : {"out", "loop", "leaving", "gone"}, blanks : Nat, word : Lines, buf : Lines,
                    follow : Character \union {NUL, Nothing}, listing : BOOLEAN]
    BY <1>3, <2>3, <2>5
  <2>7. ParserTyped' /\ widest' = widest /\ pc' = pc
    BY <1>2, <2>2
  <2>8. EditorTyped'
    BY <1>0, <2>2, <2>6 DEF EditorTyped
  <2>9. n < Len(line) /\ n + Len(word) = Len(line) /\ Len(word) <= widest /\ Len(word) + 1 <= widest + 2
    BY <1>1, <2>1, <2>3
  <2>10. Editable'
    BY <2>2, <2>4, <2>6, <2>7, <2>9 DEF Editable
  <2>11. Searching'
    BY <2>2, <2>4, <2>6 DEF Searching, IInv, Editable
  <2>12. Completes'
    BY <1>1, <2>2, <2>6, <2>7, <2>9 DEF Completes
  <2> QED BY <2>7, <2>8, <2>10, <2>11, <2>12 DEF IInv, Typed
<1>9. CASE Turn
  <2>1. tab.at = "loop" /\ UNCHANGED <<vars, line>>
    BY <1>9 DEF Turn
  <2>2. Count(Hits) \/ Settle(Hits) \/ Differ(Hits) \/ List(Hits)
    BY <1>9, Zenon DEF Turn
  <2> QED BY <2>1, <2>2, CountStep, SettleStep, DifferStep, ListStep
<1>10. CASE Leave
  <2>1. line' = SubSeq(line, 1, tab.blanks) \o tab.buf /\ tab' = NoTab /\ shown' = <<>> /\ UNCHANGED vars
        /\ tab.at = "leaving"
    BY <1>10 DEF Leave
  <2>2. tab.blanks + Len(tab.buf) < CmdLeng /\ tab.blanks <= Len(line)
    BY <1>1, <2>1 DEF IInv, Editable
  <2> DEFINE front == SubSeq(line, 1, tab.blanks)
  <2>3. front \in Lines /\ Len(front) = tab.blanks
    <3>1. \A i \in 1..tab.blanks : line[i] \in Typeable
      BY <1>1, <2>2 DEF Lines
    <3> QED BY <1>1, <3>1, SubSeqProperties DEF Lines
  <2>4. line' \in Lines /\ Len(line') = tab.blanks + Len(tab.buf)
    BY <1>1, <2>1, <2>3, ConcatProperties DEF Lines
  <2> QED BY <1>4, <2>1, <2>2, <2>4
<1> QED BY <1>5, <1>6, <1>7, <1>8, <1>9, <1>10 DEF Edit

(* The parser goes on only while nothing is completed. *)
LEMMA ParseStep ==
  ASSUME IInv, Parse, UNCHANGED console
  PROVE  IInv'
<1>1. ParserTyped' /\ pc \in {"parse", "eof", "cut"}
  BY ParserStep DEF IInv, Typed
<1>2. line' = line /\ tab' = tab /\ shown' = shown
  BY DEF console
<1>3. tab.at = "out" /\ tab.buf = <<>>
  BY <1>1 DEF IInv, Editable
<1>4. EditorTyped' /\ Len(line') < CmdLeng
  BY <1>2 DEF IInv, Typed, EditorTyped
<1>5. Len(tab'.buf) + 1 <= widest' + 2
  <2>1. tab'.buf = <<>>
    BY <1>2, <1>3
  <2>2. Len(tab'.buf) = 0
    BY <2>1, EmptySeq
  <2>3. widest' \in Nat
    BY <1>1 DEF ParserTyped
  <2>4. \A w \in Nat : 0 + 1 <= w + 2
    OBVIOUS
  <2> QED BY <2>2, <2>3, <2>4
<1>6. Completes'
  BY <1>2, <1>3, <1>4, <1>5 DEF Completes
<1>7. Editable'
  BY <1>2, <1>3 DEF IInv, Editable
<1> QED BY <1>1, <1>2, <1>3, <1>4, <1>6, <1>7 DEF IInv, Typed, Searching

-----------------------------------------------------------------------------
(* The types and what the loop has settled: inductive, whatever the file   *)
(* says and whatever is typed.                                             *)
THEOREM CompletionInv == Spec => []IInv
<1>1. Made => IInv
  <2> SUFFICES ASSUME Made PROVE IInv
    OBVIOUS
  <2>1. /\ text = <<>> /\ here = <<>> /\ item = <<>> /\ images = <<>> /\ table = 0 /\ widest = 0
        /\ line = <<>> /\ shown = <<>> /\ tab = NoTab
    BY DEF Made, Init
  <2>2. /\ <<>> \in Lines /\ <<>> \in Seq(Texts) /\ <<>> \in Texts /\ <<>> \in Seq(Tables) /\ Len(<<>>) = 0
        /\ CmdLeng \in Nat \ {0}
    BY CompletionAssumption, EmptySeq DEF Lines, Texts
  <2>3. tab.at = "out" /\ tab.buf = <<>> /\ EditorTyped
    BY <2>1, <2>2 DEF NoTab, EditorTyped
  <2>4. ParserTyped
    BY <2>1, <2>2 DEF ParserTyped
  <2>5. Completes
    BY <2>1, <2>2, <2>3 DEF Completes
  <2> QED BY <2>1, <2>3, <2>4, <2>5 DEF IInv, Typed, Editable, Searching
<1>2. IInv /\ [Next]_allVars => IInv'
  <2> SUFFICES ASSUME IInv, [Next]_allVars PROVE IInv'
    OBVIOUS
  <2>1. CASE Parse /\ UNCHANGED console
    BY <2>1, ParseStep
  <2>2. CASE Edit
    BY <2>2, EditStep
  <2>3. CASE UNCHANGED allVars
    <3>1. UNCHANGED <<pc, text, here, item, images, table, widest, line, tab, shown>>
      BY <2>3 DEF allVars, vars, console, lexer, pairs, tables
    <3>2. NameList' = NameList /\ Remaining' = Remaining
      BY <3>1, NamesStay
    <3>3. Fitting' = Fitting
      BY <3>1, <3>2 DEF Fitting
    <3>4. Completed' = Completed
      BY <3>1, <3>2, <3>3 DEF Completed
    <3>5. Matches(tab.buf)' = Matches(tab.buf) /\ Matches(tab.word)' = Matches(tab.word)
      BY <3>1, <3>2 DEF Matches
    <3>6. Hits' = Hits
      BY <3>2, <3>5 DEF Hits, Picked
    <3>7. Completes'
      BY <3>1, <3>2, <3>3, <3>4, <3>6 DEF IInv, Completes
    <3>8. Searching'
      BY <3>1, <3>2, <3>5 DEF IInv, Searching
    <3>9. Typed' /\ Editable'
      BY <3>1 DEF IInv, Typed, ParserTyped, EditorTyped, Editable
    <3> QED BY <3>7, <3>8, <3>9 DEF IInv
  <2> QED BY <2>1, <2>2, <2>3 DEF Next
<1> QED BY <1>1, <1>2, PTL DEF Spec

(* cfg_print_images: the tab key adds what all names that begin like the   *)
(* word and still fit have in common, lists them just when a choice is     *)
(* left, and writes past neither buffer.                                   *)
THEOREM TabCompletes == Spec => []Completes
<1>1. IInv => Completes
  BY DEF IInv
<1> QED BY <1>1, CompletionInv, PTL

-----------------------------------------------------------------------------
(***************************************************************************)
(* Where cfg_set files what it is called with: the entries so far and the  *)
(* section each stands in.                                                 *)
(***************************************************************************)
(* The section of an entry is the last one that has begun, if any has.     *)
LEMMA HeadOfIs ==
  ASSUME NEW S, NEW s \in Seq(S), NEW i \in 0..Len(s)
  PROVE  /\ HeadOf(s, i) \in 0..i /\ (HeadOf(s, i) # 0 => HeadOf(s, i) \in Heads(s))
         /\ \A h \in Heads(s) : h <= i => HeadOf(s, i) # 0 /\ h <= HeadOf(s, i)
<1> DEFINE above == {h \in Heads(s) : h <= i}
<1>1. Len(s) \in Nat /\ i \in Nat /\ Heads(s) \subseteq 1..Len(s)
  BY DEF Heads
<1>2. above \subseteq 0..i /\ 0 \notin above /\ above \subseteq Heads(s)
  BY <1>1
<1>3. HeadOf(s, i) = IF above = {} THEN 0 ELSE CHOOSE h \in above : \A g \in above : g <= h
  BY Zenon DEF HeadOf
<1>4. \A h \in Heads(s) : h <= i => h \in above
  OBVIOUS
<1> HIDE DEF above
<1>5. CASE above = {}
  BY <1>1, <1>3, <1>4, <1>5
<1>6. CASE above # {}
  <2>1. \E h \in above : \A g \in above : g <= h
    BY <1>1, <1>2, <1>6, Highest
  <2>2. HeadOf(s, i) \in above /\ \A g \in above : g <= HeadOf(s, i)
    BY <1>3, <1>6, <2>1
  <2> QED BY <1>2, <1>4, <2>2
<1> QED BY <1>5, <1>6

(* The section of an entry, from those before it. *)
LastOf(above) == IF above = {} THEN 0 ELSE CHOOSE h \in above : \A g \in above : g <= h

(* An entry more leaves the others in the sections they are in, and is in  *)
(* its own or in that of the one before it.                                *)
LEMMA HeadAppended ==
  ASSUME NEW S, NEW s \in Seq(S), NEW e \in S
  PROVE  /\ Heads(Append(s, e)) = Heads(s) \union (IF StartsSection(e) THEN {Len(s) + 1} ELSE {})
         /\ \A i \in 1..Len(s) : HeadOf(Append(s, e), i) = HeadOf(s, i)
         /\ HeadOf(Append(s, e), Len(s) + 1) = IF StartsSection(e) THEN Len(s) + 1 ELSE HeadOf(s, Len(s))
<1> DEFINE t == Append(s, e)
           n == Len(s)
<1>1. /\ n \in Nat /\ t \in Seq(S) /\ DOMAIN t = 1..n + 1 /\ DOMAIN s = 1..n /\ Len(t) = n + 1
      /\ t[n + 1] = e /\ \A i \in 1..n : t[i] = s[i]
  OBVIOUS
<1> HIDE DEF t, n
<1>2. \A i : i \in 1..n + 1 <=> i \in 1..n \/ i = n + 1
  BY <1>1
<1>3. Heads(t) = Heads(s) \union (IF StartsSection(e) THEN {n + 1} ELSE {})
  <2>1. \A i \in 1..n : StartsSection(t[i]) <=> StartsSection(s[i])
    BY <1>1
  <2> QED BY <1>1, <1>2, <2>1 DEF Heads
<1>4. Heads(s) \subseteq 1..n
  BY <1>1 DEF Heads
<1>0. \A r, i : HeadOf(r, i) = LastOf({h \in Heads(r) : h <= i})
  BY Zenon DEF HeadOf, LastOf
<1>5. ASSUME NEW i \in 1..n PROVE HeadOf(t, i) = HeadOf(s, i)
  <2>1. \A h : h \in Heads(t) /\ h <= i <=> h \in Heads(s) /\ h <= i
    <3>1. ~(n + 1 <= i)
      BY <1>1, <1>5
    <3> QED BY <1>3, <3>1
  <2>2. {h \in Heads(t) : h <= i} = {h \in Heads(s) : h <= i}
    BY <2>1
  <2> QED BY <1>0, <2>2
<1>6. CASE StartsSection(e)
  <2>1. n + 1 \in Heads(t) /\ n + 1 \in 0..Len(t) /\ n + 1 <= n + 1
    BY <1>1, <1>3, <1>6
  <2>2. HeadOf(t, n + 1) \in 0..n + 1 /\ n + 1 <= HeadOf(t, n + 1)
    BY <1>1, <2>1, HeadOfIs
  <2>3. HeadOf(t, n + 1) = n + 1
    BY <1>1, <2>2
  <2> QED BY <1>3, <1>5, <1>6, <2>3 DEF t, n
<1>7. CASE ~StartsSection(e)
  <2>1. \A h : h \in Heads(t) /\ h <= n + 1 <=> h \in Heads(s) /\ h <= n
    BY <1>1, <1>3, <1>4, <1>7
  <2>2. {h \in Heads(t) : h <= n + 1} = {h \in Heads(s) : h <= n}
    BY <2>1
  <2>3. HeadOf(t, n + 1) = HeadOf(s, n)
    BY <1>0, <2>2
  <2> QED BY <1>3, <1>5, <1>7, <2>3 DEF t, n
<1> QED BY <1>6, <1>7

(* What it means is what it meant, but for an option the new entry gives.  *)
Gives(s, e, head, option) ==
  /\ HeadOf(Append(s, e), Len(s) + 1) = head
  /\ option = IF Len(s) + 1 = head THEN "image" ELSE e.item
  /\ option \in Flags <=> e.value = None

LEMMA MeantAppended ==
  ASSUME NEW S, NEW s \in Seq(S), NEW e \in S, NEW head, NEW option
  PROVE  /\ ~Gives(s, e, head, option) => Meant(Append(s, e), head, option) = Meant(s, head, option)
         /\ Gives(s, e, head, option) =>
              Meant(Append(s, e), head, option) = IF option \in Flags THEN Set ELSE e.value
<1> DEFINE t == Append(s, e)
           n == Len(s)
           old == Given(s, head, option)
           new == Given(t, head, option)
<1>1. /\ n \in Nat /\ t \in Seq(S) /\ DOMAIN t = 1..n + 1 /\ DOMAIN s = 1..n
      /\ t[n + 1] = e /\ \A i \in 1..n : t[i] = s[i]
  OBVIOUS
<1>2. \A i \in 1..n : HeadOf(t, i) = HeadOf(s, i)
  BY HeadAppended
<1>3. Gives(s, e, head, option) <=>
        /\ HeadOf(t, n + 1) = head
        /\ option = IF n + 1 = head THEN "image" ELSE t[n + 1].item
        /\ option \in Flags <=> t[n + 1].value = None
  BY <1>1 DEF Gives
<1> HIDE DEF t, n
<1>4. \A i : i \in 1..n + 1 <=> i \in 1..n \/ i = n + 1
  BY <1>1
<1>5. old \subseteq 1..n
  BY <1>1 DEF Given
<1>6. \A i \in 1..n : i \in new <=> i \in old
  BY <1>1, <1>2, <1>4 DEF Given
<1>7. n + 1 \in new <=> Gives(s, e, head, option)
  BY <1>1, <1>3, <1>4 DEF Given
<1>8. new \subseteq 1..n + 1
  BY <1>1 DEF Given
<1>9. /\ Meant(t, head, option) = IF new = {} THEN None ELSE IF option \in Flags THEN Set
                                  ELSE t[CHOOSE i \in new : \A j \in new : j <= i].value
      /\ Meant(s, head, option) = IF old = {} THEN None ELSE IF option \in Flags THEN Set
                                  ELSE s[CHOOSE i \in old : \A j \in old : j <= i].value
  BY Zenon DEF Meant
<1> HIDE DEF old, new
<1>10. CASE ~Gives(s, e, head, option)
  <2>1. new = old
    BY <1>4, <1>5, <1>6, <1>7, <1>8, <1>10
  <2>2. CASE old = {}
    BY <1>9, <2>1, <2>2, <1>10 DEF t
  <2>3. CASE old # {}
    <3>1. old \subseteq 0..n
      BY <1>1, <1>5
    <3>2. \E i \in old : \A j \in old : j <= i
      BY <1>1, <2>3, <3>1, Highest
    <3>3. (CHOOSE i \in old : \A j \in old : j <= i) \in 1..n
      BY <1>5, <3>2
    <3> QED BY <1>1, <1>9, <2>1, <3>3, <1>10 DEF t
  <2> QED BY <2>2, <2>3
<1>11. CASE Gives(s, e, head, option)
  <2>1. n + 1 \in new /\ \A j \in new : j <= n + 1
    BY <1>1, <1>7, <1>8, <1>11
  <2>2. (CHOOSE i \in new : \A j \in new : j <= i) = n + 1
    <3>1. \A i \in new : (\A j \in new : j <= i) => i = n + 1
      BY <1>1, <1>8, <2>1
    <3> QED BY <2>1, <3>1
  <2>3. Meant(t, head, option) = IF option \in Flags THEN Set ELSE e.value
    BY <1>1, <1>9, <2>1, <2>2
  <2> QED BY <2>3, <1>11 DEF t
<1> QED BY <1>10, <1>11

-----------------------------------------------------------------------------
(***************************************************************************)
(* What holds at any time: the tables say what the entries mean (that is   *)
(* FiledRight); while more may come, skipping says that the section they   *)
(* would stand in does not count, and table is the one of a section that   *)
(* does, the last in the list.                                             *)
(***************************************************************************)
Filing == [item : Character \union Items, exact : BOOLEAN, value : Texts]

(* The sections that count: those that are meant for this cpu, which on a  *)
(* known cpu have to be spelled as they are in the table.                  *)
Counted(e) == Wanted(e) /\ (cpu \in {32, 64} => e.exact)
CountedHeads ==
  {h \in Heads(filed) \ (IF pc \in {"cut", "short"} THEN {Len(filed)} ELSE {}) : Counted(filed[h])}

Recorded == filed \in Seq(Filing) /\ globals \in [GlobalOptions -> Texts] /\ skipping \in BOOLEAN

(* Whose the options are that come next. *)
Section == HeadOf(filed, Len(filed))

Standing ==
  pc = "parse" =>
    /\ skipping <=> Section # 0 /\ Section \notin CountedHeads
    /\ ~skipping => table = IF Section = 0 THEN 0 ELSE Len(images)

FiledRight ==
  /\ \A o \in GlobalOptions : globals[o] = Meant(filed, 0, o)
  /\ Len(images) = Cardinality(CountedHeads)
  /\ \A h \in CountedHeads : \A o \in ImageOptions : images[Rank(CountedHeads, h)][o] = Meant(filed, h, o)

Filings == Recorded /\ Standing /\ FiledRight

(* The heads that count are some of the entries. *)
LEMMA CountedAre ==
  ASSUME Recorded
  PROVE  /\ Len(filed) \in Nat /\ Heads(filed) \subseteq 1..Len(filed)
         /\ CountedHeads \in SUBSET (1..Len(filed)) /\ CountedHeads \subseteq Heads(filed)
         /\ IsFiniteSet(CountedHeads) /\ Cardinality(CountedHeads) \in Nat
         /\ pc \notin {"cut", "short"} => CountedHeads = {h \in Heads(filed) : Counted(filed[h])}
<1>1. Len(filed) \in Nat /\ DOMAIN filed = 1..Len(filed)
  BY DEF Recorded
<1>2. Heads(filed) \subseteq 1..Len(filed)
  BY <1>1 DEF Heads
<1>3. CountedHeads \subseteq Heads(filed)
  BY DEF CountedHeads
<1>4. CountedHeads \in SUBSET (1..Len(filed))
  BY <1>2, <1>3
<1>5. IsFiniteSet(CountedHeads) /\ Cardinality(CountedHeads) \in Nat
  BY <1>1, <1>4, Ranks
<1>6. ASSUME pc \notin {"cut", "short"} PROVE CountedHeads = {h \in Heads(filed) : Counted(filed[h])}
  BY <1>6 DEF CountedHeads
<1> QED BY <1>1, <1>2, <1>3, <1>4, <1>5, <1>6

(* cfg_set wants the sections that count. *)
LEMMA CountedIs ==
  ASSUME NEW e \in Filing, StartsSection(e)
  PROVE  ForThisCpu(e) <=> Counted(e)
<1>1. e.item \in ImageItems /\ e.exact \in BOOLEAN
  BY DEF StartsSection, Filing
<1>2. CASE cpu = 32
  BY <1>1, <1>2 DEF ForThisCpu, Counted, Wanted, Arch, ImageItems
<1>3. CASE cpu = 64
  BY <1>1, <1>3 DEF ForThisCpu, Counted, Wanted, Arch, ImageItems
<1>4. CASE cpu \notin {32, 64}
  BY <1>1, <1>4 DEF ForThisCpu, Counted, Wanted, Arch
<1> QED BY <1>2, <1>3, <1>4

(* A section that comes last and is wanted is counted, another is not. *)
LEMMA CountedAppended ==
  ASSUME Recorded, NEW e \in Filing, filed' = Append(filed, e), cpu' = cpu, pc = "parse"
  PROVE  CountedHeads' = CountedHeads \union
           (IF StartsSection(e) /\ Counted(e) /\ pc' \notin {"cut", "short"} THEN {Len(filed) + 1} ELSE {})
<1> DEFINE n == Len(filed)
<1>1. /\ n \in Nat /\ Heads(filed) \subseteq 1..n /\ Len(filed') = n + 1
      /\ CountedHeads = {h \in Heads(filed) : Counted(filed[h])}
  BY CountedAre DEF Recorded
<1>2. Heads(filed)' = Heads(filed) \union (IF StartsSection(e) THEN {n + 1} ELSE {})
  BY HeadAppended DEF Recorded
<1>3. filed'[n + 1] = e /\ \A h \in 1..n : filed'[h] = filed[h]
  BY DEF Recorded
<1>4. \A x : Counted(x)' <=> Counted(x)
  BY DEF Counted, Wanted
<1>5. \A h : h \in CountedHeads' <=> /\ h \in Heads(filed)' /\ Counted(filed'[h])
                                     /\ pc' \in {"cut", "short"} => h # n + 1
  BY <1>1, <1>4 DEF CountedHeads
<1> HIDE DEF n
<1>6. \A h : h \in Heads(filed) => h \in 1..n /\ h # n + 1
  BY <1>1
<1>7. ASSUME NEW h
      PROVE  h \in CountedHeads' <=>
               h \in CountedHeads \/ (h = n + 1 /\ StartsSection(e) /\ Counted(e) /\ pc' \notin {"cut", "short"})
  BY <1>1, <1>2, <1>3, <1>5, <1>6
<1> QED BY <1>7 DEF n

(* An entry more begins a section or stands in the last. *)
LEMMA SectionAppended ==
  ASSUME Recorded, NEW e \in Filing, filed' = Append(filed, e)
  PROVE  /\ Section' = IF StartsSection(e) THEN Len(filed) + 1 ELSE Section
         /\ HeadOf(filed', Len(filed) + 1) = Section' /\ Section \in 0..Len(filed)
         /\ Section # 0 => Section \in Heads(filed)
         /\ \A h \in Heads(filed) : Section # 0 /\ h <= Section
         /\ Recorded' <=> globals' \in [GlobalOptions -> Texts] /\ skipping' \in BOOLEAN
<1>1. Len(filed) \in Nat /\ Len(filed') = Len(filed) + 1 /\ filed' \in Seq(Filing)
  BY DEF Recorded
<1>2. HeadOf(filed', Len(filed) + 1) = IF StartsSection(e) THEN Len(filed) + 1 ELSE Section
  BY HeadAppended DEF Recorded, Section
<1>3. Section' = HeadOf(filed', Len(filed) + 1)
  BY <1>1 DEF Section
<1>4. Len(filed) \in 0..Len(filed) /\ \A h \in Heads(filed) : h <= Len(filed)
  BY <1>1, CountedAre
<1>5. /\ Section \in 0..Len(filed) /\ (Section # 0 => Section \in Heads(filed))
      /\ \A h \in Heads(filed) : h <= Len(filed) => Section # 0 /\ h <= Section
  BY <1>1, <1>4, HeadOfIs DEF Recorded, Section
<1> QED BY <1>1, <1>2, <1>3, <1>4, <1>5 DEF Recorded

(* Nothing is filed of a section that does not count. *)
LEMMA FiledStays ==
  ASSUME Recorded, FiledRight, NEW e \in Filing, filed' = Append(filed, e), CountedHeads' = CountedHeads,
         UNCHANGED <<globals, images>>, Section' # 0, Section' \notin CountedHeads
  PROVE  FiledRight'
<1>1. HeadOf(filed', Len(filed) + 1) = Section'
  BY SectionAppended
<1>2. ASSUME NEW h \in {0} \union CountedHeads, NEW o
      PROVE  Meant(filed, h, o)' = Meant(filed, h, o)
  <2>1. ~Gives(filed, e, h, o)
    BY <1>1 DEF Gives
  <2> QED BY <2>1, MeantAppended DEF Recorded
<1>3. \A o \in GlobalOptions : globals'[o] = Meant(filed, 0, o)'
  BY <1>2 DEF FiledRight
<1>4. Len(images') = Cardinality(CountedHeads')
  BY DEF FiledRight
<1>5. ASSUME NEW h \in CountedHeads', NEW o \in ImageOptions
      PROVE  images'[Rank(CountedHeads', h)][o] = Meant(filed, h, o)'
  <2>1. h \in CountedHeads
    OBVIOUS
  <2>2. images[Rank(CountedHeads, h)][o] = Meant(filed, h, o)
    BY <2>1 DEF FiledRight
  <2>3. Meant(filed, h, o)' = Meant(filed, h, o)
    BY <1>2, <2>1
  <2> QED BY <2>2, <2>3
<1> QED BY <1>3, <1>4, <1>5 DEF FiledRight

(* A section for another cpu, or one there is no memory for. *)
LEMMA SkipStep ==
  ASSUME ParserTyped, Filings, NEW e \in Filing, filed' = Append(filed, e), cpu' = cpu, pc = "parse",
         StartsSection(e), \/ ~ForThisCpu(e) /\ Skip(e) /\ UNCHANGED pc
                           \/ NoSection(e)
  PROVE  Filings'
<1>1. Recorded /\ FiledRight
  BY DEF Filings
<1>2. /\ UNCHANGED <<globals, images, table>> /\ skipping' \in BOOLEAN
      /\ \/ ~Counted(e) /\ pc' = "parse" /\ skipping'
         \/ pc' = "cut"
  BY CountedIs DEF Skip, NoSection
<1>3. Len(filed) \in Nat /\ CountedHeads \subseteq 1..Len(filed)
  BY <1>1, CountedAre
<1>4. Section' = Len(filed) + 1
  BY <1>1, SectionAppended
<1>5. CountedHeads' = CountedHeads
  BY <1>1, <1>2, CountedAppended
<1>6. Section' # 0 /\ Section' \notin CountedHeads
  BY <1>3, <1>4
<1>7. FiledRight'
  BY <1>1, <1>2, <1>5, <1>6, FiledStays
<1>8. Recorded'
  BY <1>1, <1>2, SectionAppended DEF Recorded
<1>9. Standing'
  BY <1>2, <1>5, <1>6 DEF Standing
<1> QED BY <1>7, <1>8, <1>9 DEF Filings

(* An option in such a section. *)
LEMMA IgnoreStep ==
  ASSUME ParserTyped, Filings, NEW e \in Filing, filed' = Append(filed, e), cpu' = cpu, pc = "parse",
         ~StartsSection(e), skipping, UNCHANGED <<tables, pc>>
  PROVE  Filings'
<1>1. Recorded /\ FiledRight /\ Standing
  BY DEF Filings
<1>2. UNCHANGED <<globals, images, table, skipping, pc>>
  BY DEF tables
<1>4. Section' = Section
  BY <1>1, SectionAppended
<1>5. CountedHeads' = CountedHeads
  BY <1>1, <1>2, CountedAppended
<1>6. Section' # 0 /\ Section' \notin CountedHeads
  BY <1>1, <1>4 DEF Standing
<1>7. FiledRight'
  BY <1>1, <1>2, <1>5, <1>6, FiledStays
<1>8. Recorded'
  BY <1>1, <1>2, SectionAppended DEF Recorded
<1>9. Standing'
  BY <1>1, <1>2, <1>4, <1>5 DEF Standing
<1> QED BY <1>7, <1>8, <1>9 DEF Filings

(* An option is set in a table, or is none of it. *)
LEMMA FiledIs ==
  ASSUME NEW options, NEW t \in [options -> Texts], NEW e \in Filing, NEW o \in options
  PROVE  Filed(t, e)[o] = IF o = Option(e) /\ (o \in Flags <=> e.value = None)
                          THEN IF o \in Flags THEN Set ELSE e.value
                          ELSE t[o]
<1> DEFINE v == IF Option(e) \in Flags THEN Set ELSE e.value
<1>1. Filed(t, e) = IF Fits(options, e) THEN [t EXCEPT ![Option(e)] = v] ELSE t
  BY Zenon DEF Filed
<1>2. Fits(options, e) <=> Option(e) \in options /\ (Option(e) \in Flags <=> e.value = None)
  BY Zenon DEF Fits
<1>3. CASE o = Option(e)
  <2>1. o = Option(e) => v = IF o \in Flags THEN Set ELSE e.value
    OBVIOUS
  <2> HIDE DEF v
  <2> QED BY <1>1, <1>2, <1>3, <2>1
<1>4. CASE o # Option(e)
  <2> HIDE DEF v
  <2> QED BY <1>1, <1>2, <1>4
<1> QED BY <1>3, <1>4

(* A section that counts is the last in the list. *)
LEMMA NewSectionStep ==
  ASSUME ParserTyped, Filings, NEW e \in Filing, filed' = Append(filed, e), cpu' = cpu, pc = "parse",
         StartsSection(e), ForThisCpu(e), NewSection(e), UNCHANGED pc
  PROVE  Filings'
<1> DEFINE n == Len(filed)
           m == Len(images)
           new == Filed(NoOptions(ImageOptions), e)
<1>1. Recorded /\ FiledRight
  BY DEF Filings
<1>2. /\ n \in Nat /\ CountedHeads \subseteq 1..n /\ IsFiniteSet(CountedHeads) /\ Cardinality(CountedHeads) = m
      /\ m \in Nat /\ images \in Seq(Tables)
  BY <1>1, CountedAre DEF FiledRight, ParserTyped
<1>3. /\ images' = Append(images, new) /\ table' = Len(images') /\ globals' = globals /\ ~skipping'
      /\ skipping' \in BOOLEAN
  BY DEF NewSection
<1>4. Section' = n + 1 /\ HeadOf(filed', n + 1) = n + 1
  BY <1>1, SectionAppended
<1>5. CountedHeads' = CountedHeads \union {n + 1}
  BY <1>1, CountedIs, CountedAppended
<1>6. new \in Tables
  BY NoOptionsTyped, FiledTyped DEF Filing
<1> HIDE DEF n, m, new
<1>7. Len(images') = m + 1 /\ images'[m + 1] = new /\ \A i \in 1..m : images'[i] = images[i]
  BY <1>2, <1>3, <1>6 DEF m
<1>8. n + 1 \notin CountedHeads /\ \A h \in CountedHeads : h < n + 1
  BY <1>2
<1>9. Cardinality(CountedHeads') = m + 1 /\ IsFiniteSet(CountedHeads')
  BY <1>2, <1>5, <1>8, FS_AddElement
<1>10. Upto(CountedHeads', n + 1) = CountedHeads'
  <2>1. n + 1 <= n + 1 /\ \A h \in CountedHeads : h <= n + 1
    BY <1>2
  <2> QED BY <1>5, <2>1 DEF Upto
<1>11. ASSUME NEW h \in CountedHeads
       PROVE  Upto(CountedHeads', h) = Upto(CountedHeads, h) /\ Rank(CountedHeads, h) \in 1..m
  <2>1. Rank(CountedHeads, h) \in 1..m
    BY <1>2, Ranks
  <2>2. ~(n + 1 <= h)
    BY <1>2
  <2> QED BY <1>5, <2>1, <2>2 DEF Upto
<1>12. ASSUME NEW h \in {0} \union CountedHeads, NEW o
       PROVE  Meant(filed, h, o)' = Meant(filed, h, o)
  <2>1. ~Gives(filed, e, h, o)
    BY <1>2, <1>4 DEF Gives, n
  <2> QED BY <1>1, <2>1, MeantAppended DEF Recorded
<1>13. ASSUME NEW o \in ImageOptions
       PROVE  new[o] = Meant(filed', n + 1, o)
  <2>1. Option(e) = "image" /\ NoOptions(ImageOptions)[o] = None
    BY DEF Option, NoOptions
  <2>2. Gives(filed, e, n + 1, o) <=> o = "image" /\ (o \in Flags <=> e.value = None)
    BY <1>4 DEF Gives, n
  <2>3. new[o] = IF o = Option(e) /\ (o \in Flags <=> e.value = None)
                 THEN IF o \in Flags THEN Set ELSE e.value ELSE NoOptions(ImageOptions)[o]
    BY NoOptionsTyped, FiledIs DEF new, Tables
  <2>4. Meant(filed, n + 1, o) = None
    <3>1. \A i \in 1..n : HeadOf(filed, i) # n + 1
      <4>1. \A i \in 1..n : HeadOf(filed, i) \in 0..i
        BY <1>1, <1>2, HeadOfIs DEF Recorded, n
      <4> QED BY <1>2, <4>1
    <3>2. Given(filed, n + 1, o) = {}
      BY <1>1, <3>1 DEF Given, Recorded, n
    <3> QED BY <3>2 DEF Meant
  <2>5. /\ ~Gives(filed, e, n + 1, o) => Meant(filed', n + 1, o) = None
        /\ Gives(filed, e, n + 1, o) => Meant(filed', n + 1, o) = IF o \in Flags THEN Set ELSE e.value
    BY <1>1, <2>4, MeantAppended DEF Recorded, n
  <2> QED BY <2>1, <2>2, <2>3, <2>5
<1>14. \A o \in GlobalOptions : globals'[o] = Meant(filed, 0, o)'
  BY <1>1, <1>3, <1>12 DEF FiledRight
<1>15. ASSUME NEW h \in CountedHeads', NEW o \in ImageOptions
       PROVE  images'[Rank(CountedHeads', h)][o] = Meant(filed, h, o)'
  <2>1. CASE h = n + 1
    <3>1. Rank(CountedHeads', h) = m + 1
      BY <1>9, <1>10, <2>1 DEF Rank
    <3> QED BY <1>7, <1>13, <2>1, <3>1
  <2>2. CASE h \in CountedHeads
    <3>1. Rank(CountedHeads', h) = Rank(CountedHeads, h) /\ Rank(CountedHeads, h) \in 1..m
      BY <1>11, <2>2 DEF Rank
    <3>2. images[Rank(CountedHeads, h)][o] = Meant(filed, h, o)
      BY <1>1, <2>2 DEF FiledRight
    <3> QED BY <1>7, <1>12, <2>2, <3>1, <3>2
  <2> QED BY <1>5, <2>1, <2>2
<1>16. FiledRight'
  BY <1>7, <1>9, <1>14, <1>15 DEF FiledRight
<1>17. Recorded'
  BY <1>1, <1>3, SectionAppended DEF Recorded
<1>18. Standing'
  <2>1. n + 1 # 0 /\ n + 1 \in CountedHeads'
    BY <1>2, <1>5
  <2> QED BY <1>3, <1>4, <2>1 DEF Standing
<1> QED BY <1>16, <1>17, <1>18 DEF Filings

(* An option is filed in the table of the section it stands in. *)
LEMMA FileOptionStep ==
  ASSUME ParserTyped, Filings, NEW e \in Filing, filed' = Append(filed, e), cpu' = cpu, pc = "parse",
         ~StartsSection(e), ~skipping, FileOption(e), UNCHANGED pc
  PROVE  Filings'
<1> DEFINE n == Len(filed)
           m == Len(images)
<1>1. Recorded /\ FiledRight /\ Standing
  BY DEF Filings
<1>2. /\ n \in Nat /\ CountedHeads \in SUBSET (1..n) /\ Cardinality(CountedHeads) = m /\ m \in Nat
      /\ CountedHeads \subseteq Heads(filed) /\ images \in Seq(Tables)
  BY <1>1, CountedAre DEF FiledRight, ParserTyped
<1>3. /\ Section' = Section /\ HeadOf(filed', n + 1) = Section /\ Section \in 0..n
      /\ \A h \in Heads(filed) : Section # 0 /\ h <= Section
  BY <1>1, SectionAppended
<1>4. CountedHeads' = CountedHeads
  BY <1>1, CountedAppended
<1>5. (Section # 0 => Section \in CountedHeads) /\ table = IF Section = 0 THEN 0 ELSE m
  BY <1>1 DEF Standing
<1>6. UNCHANGED <<table, skipping>>
  BY DEF FileOption
<1> HIDE DEF n, m
<1>7. \A o : Gives(filed, e, Section, o) <=> o = Option(e) /\ (o \in Flags <=> e.value = None)
  <2>1. n + 1 # Section
    BY <1>2, <1>3
  <2> QED BY <1>3, <2>1 DEF Gives, Option, n
<1>8. ASSUME NEW h, h # Section, NEW o
      PROVE  Meant(filed, h, o)' = Meant(filed, h, o)
  <2>1. ~Gives(filed, e, h, o)
    BY <1>3, <1>8 DEF Gives, n
  <2> QED BY <1>1, <2>1, MeantAppended DEF Recorded
<1>9. ASSUME NEW o
      PROVE  Meant(filed, Section, o)' = IF o = Option(e) /\ (o \in Flags <=> e.value = None)
                                         THEN IF o \in Flags THEN Set ELSE e.value
                                         ELSE Meant(filed, Section, o)
  <2>1. PICK h : h = Section
    OBVIOUS
  <2>2. Section' = h
    BY <1>3, <2>1
  <2>3. /\ ~Gives(filed, e, h, o) => Meant(filed', h, o) = Meant(filed, h, o)
        /\ Gives(filed, e, h, o) => Meant(filed', h, o) = IF o \in Flags THEN Set ELSE e.value
    BY <1>1, MeantAppended DEF Recorded
  <2> QED BY <1>7, <2>1, <2>2, <2>3
<1>10. CASE Section = 0
  <2>1. globals' = Filed(globals, e) /\ UNCHANGED images
    BY <1>5, <1>10 DEF FileOption
  <2>2. CountedHeads = {}
    BY <1>2, <1>3, <1>10
  <2>3. \A o \in GlobalOptions : globals'[o] = Meant(filed, 0, o)'
    <3> SUFFICES ASSUME NEW o \in GlobalOptions PROVE globals'[o] = Meant(filed, 0, o)'
      OBVIOUS
    <3>1. globals[o] = Meant(filed, 0, o)
      BY <1>1 DEF FiledRight
    <3>2. globals'[o] = IF o = Option(e) /\ (o \in Flags <=> e.value = None)
                        THEN IF o \in Flags THEN Set ELSE e.value ELSE globals[o]
      BY <1>1, <2>1, FiledIs DEF Recorded
    <3>3. Section' = 0
      BY <1>3, <1>10
    <3> QED BY <1>9, <1>10, <3>1, <3>2, <3>3
  <2>4. FiledRight'
    BY <1>1, <1>2, <1>4, <2>1, <2>2, <2>3 DEF FiledRight
  <2>5. globals' \in [GlobalOptions -> Texts]
    <3> DEFINE v == IF Option(e) \in Flags THEN Set ELSE e.value
    <3>1. v \in Texts
      BY Pointers DEF Filing
    <3>2. globals' = [globals EXCEPT ![Option(e)] = v] \/ globals' = globals
      BY <2>1, Zenon DEF Filed
    <3> HIDE DEF v
    <3> QED BY <1>1, <3>1, <3>2 DEF Recorded
  <2>6. Recorded'
    BY <1>1, <1>6, <2>5, SectionAppended DEF Recorded
  <2>7. Standing'
    BY <1>1, <1>3, <1>4, <1>6, <1>10 DEF Standing
  <2> QED BY <2>4, <2>6, <2>7 DEF Filings
<1>11. CASE Section # 0
  <2>1. Section \in CountedHeads /\ table = m /\ Upto(CountedHeads, Section) = CountedHeads
    BY <1>2, <1>3, <1>5, <1>11 DEF Upto
  <2>2. Rank(CountedHeads, Section) = m /\ m \in 1..m
    <3>1. Rank(CountedHeads, Section) = m
      BY <1>2, <2>1 DEF Rank
    <3>2. Rank(CountedHeads, Section) \in 1..m
      BY <1>2, <2>1, Ranks
    <3> QED BY <3>1, <3>2
  <2>3. images' = [images EXCEPT ![m] = Filed(images[m], e)] /\ globals' = globals
    BY <1>2, <2>1, <2>2 DEF FileOption
  <2>4. images[m] \in Tables /\ Filed(images[m], e) \in Tables
    BY <1>2, <2>2, FiledTyped DEF Filing, m
  <2>5. Len(images') = m /\ images'[m] = Filed(images[m], e) /\ \A i \in 1..m : i # m => images'[i] = images[i]
    BY <1>2, <2>2, <2>3, <2>4 DEF m
  <2>6. \A o \in GlobalOptions : globals'[o] = Meant(filed, 0, o)'
    BY <1>1, <1>8, <1>11, <2>3 DEF FiledRight
  <2>7. ASSUME NEW h \in CountedHeads, NEW o \in ImageOptions
        PROVE  images'[Rank(CountedHeads, h)][o] = Meant(filed, h, o)'
    <3>0. images[Rank(CountedHeads, h)][o] = Meant(filed, h, o)
      BY <1>1 DEF FiledRight
    <3>1. CASE h = Section
      <4>1. Filed(images[m], e)[o] = IF o = Option(e) /\ (o \in Flags <=> e.value = None)
                                     THEN IF o \in Flags THEN Set ELSE e.value ELSE images[m][o]
        BY <2>4, FiledIs DEF Tables
      <4>2. Section' = h
        BY <1>3, <3>1
      <4> QED BY <1>9, <2>2, <2>5, <3>0, <3>1, <4>1, <4>2
    <3>2. CASE h # Section
      <4>1. Rank(CountedHeads, h) \in 1..m /\ Rank(CountedHeads, h) # m
        BY <1>2, <2>1, <2>2, <3>2, Ranks
      <4> QED BY <1>8, <2>5, <3>0, <3>2, <4>1
    <3> QED BY <3>1, <3>2
  <2>8. FiledRight'
    <3>1. \A h \in CountedHeads' : \A o \in ImageOptions : images'[Rank(CountedHeads', h)][o] = Meant(filed, h, o)'
      BY <1>4, <2>7
    <3> QED BY <1>2, <1>4, <2>5, <2>6, <3>1 DEF FiledRight
  <2>9. Recorded'
    BY <1>1, <1>6, <2>3, SectionAppended DEF Recorded
  <2>10. Standing'
    BY <1>1, <1>2, <1>3, <1>4, <1>5, <1>6, <2>5 DEF Standing, m
  <2> QED BY <2>8, <2>9, <2>10 DEF Filings
<1> QED BY <1>10, <1>11

(* What cfg_set is called with. *)
LEMMA EntryIs ==
  ASSUME NEW token \in Texts, NEW value \in Texts
  PROVE  Entry(token, value) \in Filing /\ Entry(token, value).value = value
<1> DEFINE word == IF Len(token) = 1 THEN token[1] ELSE "unknown"
<1>1. word \in Character \union Items
  <2>1. Len(token) = 1 => token[1] \in Character
    BY DEF Texts
  <2>2. "unknown" \in Items
    BY DEF Items
  <2> QED BY <2>1, <2>2
<1>2. Entry(token, value) = IF word \in DOMAIN OddCase
                            THEN [item |-> OddCase[word], exact |-> FALSE, value |-> value]
                            ELSE [item |-> word, exact |-> TRUE, value |-> value]
  BY Zenon DEF Entry
<1> HIDE DEF word
<1>3. word \in DOMAIN OddCase => OddCase[word] \in Items
  BY CfgAssumption
<1> QED BY <1>1, <1>2, <1>3 DEF Filing

(* cfg_set as a whole. *)
LEMMA FilingStep ==
  ASSUME ParserTyped, Filings, NEW e \in Filing, cpu' = cpu, pc = "parse", File(e)
  PROVE  Filings'
<1>1. filed' = Append(filed, e)
  BY DEF File
<1>2. \/ StartsSection(e) /\ ~ForThisCpu(e) /\ Skip(e) /\ UNCHANGED pc
      \/ StartsSection(e) /\ ForThisCpu(e) /\ NewSection(e) /\ UNCHANGED pc
      \/ StartsSection(e) /\ ForThisCpu(e) /\ NoSection(e)
      \/ ~StartsSection(e) /\ skipping /\ UNCHANGED <<tables, pc>>
      \/ ~StartsSection(e) /\ ~skipping /\ FileOption(e) /\ UNCHANGED pc
  BY DEF File
<1>3. CASE StartsSection(e) /\ ~ForThisCpu(e) /\ Skip(e) /\ UNCHANGED pc
  BY <1>1, <1>3, SkipStep
<1>4. CASE StartsSection(e) /\ ForThisCpu(e) /\ NewSection(e) /\ UNCHANGED pc
  BY <1>1, <1>4, NewSectionStep
<1>5. CASE StartsSection(e) /\ ForThisCpu(e) /\ NoSection(e)
  BY <1>1, <1>5, SkipStep
<1>6. CASE ~StartsSection(e) /\ skipping /\ UNCHANGED <<tables, pc>>
  BY <1>1, <1>6, IgnoreStep
<1>7. CASE ~StartsSection(e) /\ ~skipping /\ FileOption(e) /\ UNCHANGED pc
  BY <1>1, <1>7, FileOptionStep
<1> QED BY <1>2, <1>3, <1>4, <1>5, <1>6, <1>7

(* While nothing is filed all stands as it did. *)
LEMMA FilingsStay ==
  ASSUME Filings, UNCHANGED <<tables, filed, cpu>>, pc' = "parse" => pc = "parse",
         pc' \in {"cut", "short"} <=> pc \in {"cut", "short"}
  PROVE  Filings'
<1>1. UNCHANGED <<globals, images, table, skipping, filed, cpu>>
  BY DEF tables
<1>2. \A e : Counted(e)' <=> Counted(e)
  BY <1>1 DEF Counted, Wanted
<1>3. CountedHeads' = CountedHeads
  <2>1. Heads(filed)' = Heads(filed)
    BY <1>1
  <2>2. \A h : h \in CountedHeads' <=> h \in CountedHeads
    BY <1>1, <1>2, <2>1 DEF CountedHeads
  <2> QED BY <2>2
<1>4. Section' = Section
  BY <1>1 DEF Section
<1>5. Recorded'
  BY <1>1 DEF Filings, Recorded
<1>6. Standing'
  BY <1>1, <1>3, <1>4 DEF Filings, Standing
<1>7. FiledRight'
  <2>1. \A h, o : Meant(filed, h, o)' = Meant(filed, h, o)
    BY <1>1
  <2>2. ASSUME NEW h \in CountedHeads', NEW o \in ImageOptions
        PROVE  images'[Rank(CountedHeads', h)][o] = Meant(filed, h, o)'
    <3>1. h \in CountedHeads /\ images[Rank(CountedHeads, h)][o] = Meant(filed, h, o)
      BY <1>3, <2>2 DEF Filings, FiledRight
    <3> QED BY <1>1, <1>3, <2>1, <3>1
  <2>3. (\A o \in GlobalOptions : globals'[o] = Meant(filed, 0, o)') /\ Len(images') = Cardinality(CountedHeads')
    BY <1>1, <1>3, <2>1 DEF Filings, FiledRight
  <2> QED BY <2>2, <2>3 DEF FiledRight
<1> QED BY <1>5, <1>6, <1>7 DEF Filings

-----------------------------------------------------------------------------
(***************************************************************************)
(* The name of an image is one that was read, so that a section answers to *)
(* it, and a configuration that is used has a section.                     *)
(***************************************************************************)
Readable == Character \ {"NULL"}

ReadWell ==
  /\ text \in Seq(Readable) /\ here \in Seq(Readable)
  /\ \A n \in 1..Len(images) : images[n]["image"] # None => images[n]["image"] \in Seq(Readable)
  /\ widest # 0 => images # <<>>
  /\ pc = "done" /\ useconf => widest # 0

(* Neither text nor its characters are NULL. *)
LEMMA ReadableAre ==
  /\ \A e \in Entries : e.text \in Seq(Readable)
  /\ EOF \in Readable /\ NL \in Readable /\ " " \in Readable /\ "=" \in Readable
  /\ None \notin Seq(Readable)
<1>1. ASSUME NEW e \in Entries PROVE e.text \in Seq(Readable)
  <2>1. e.text \in Seq(Character)
    BY Characters DEF Texts
  <2>2. \A i \in DOMAIN e.text : e.text[i] # "NULL"
    BY CfgAssumption
  <2>3. e.text = [i \in 1..Len(e.text) |-> e.text[i]] /\ Len(e.text) \in Nat
    BY <2>1
  <2>4. \A i \in 1..Len(e.text) : e.text[i] \in Readable
    BY <2>1, <2>2 DEF Readable
  <2>5. [i \in 1..Len(e.text) |-> e.text[i]] \in Seq(Readable)
    BY <2>3, <2>4
  <2> QED BY <2>3, <2>5, Zenon
<1>2. EOF \in Readable /\ NL \in Readable /\ " " \in Readable /\ "=" \in Readable
  BY Characters DEF Readable, Literals, EOF, NL
<1>3. None \notin Seq(Readable)
  <2> SUFFICES ASSUME None \in Seq(Readable) PROVE FALSE
    OBVIOUS
  <2>1. Len(None) = 1 /\ None[1] = "NULL"
    BY DEF None
  <2>2. None[1] \in Readable
    BY <2>1
  <2> QED BY <2>1, <2>2 DEF Readable
<1> QED BY <1>1, <1>2, <1>3

(* An image is named by what was read. *)
LEMMA ImagesReadWell ==
  ASSUME ParserTyped, ReadWell, NEW e \in Filing, File(e), e.value = None \/ e.value \in Seq(Readable)
  PROVE  /\ \A n \in 1..Len(images') : images'[n]["image"] # None => images'[n]["image"] \in Seq(Readable)
         /\ widest' # 0 => images' # <<>>
<1> DEFINE Good(v) == v # None => v \in Seq(Readable)
           m == Len(images)
<1>1. /\ images \in Seq(Tables) /\ m \in Nat /\ table \in 0..m /\ "image" \in ImageOptions /\ "image" \notin Flags
      /\ \A n \in 1..m : Good(images[n]["image"])
  <2>1. (Strings \union Flags) \intersect (ImageItems \union NameItems \union {"default", "unknown"}) = {}
    BY CfgAssumption
  <2>2. "image" \notin Flags
    BY <2>1 DEF ImageItems
  <2> QED BY <2>2 DEF ParserTyped, ReadWell, ImageOptions
<1>2. ASSUME NEW t \in Tables, Good(t["image"])
      PROVE  Filed(t, e) \in Tables /\ Good(Filed(t, e)["image"])
  <2>1. Filed(t, e) \in Tables
    BY FiledTyped DEF Filing
  <2>2. Filed(t, e)["image"] = e.value \/ Filed(t, e)["image"] = t["image"]
    BY <1>1, FiledIs DEF Tables
  <2> QED BY <1>2, <2>1, <2>2
<1>3. CASE NewSection(e)
  <2> DEFINE new == Filed(NoOptions(ImageOptions), e)
  <2>1. images' = Append(images, new) /\ widest' = widest
    BY <1>3 DEF NewSection
  <2>2. NoOptions(ImageOptions)["image"] = None
    BY <1>1 DEF NoOptions
  <2>3. new \in Tables /\ Good(new["image"])
    BY <1>2, <2>2, NoOptionsTyped
  <2> HIDE DEF new
  <2>4. Len(images') = m + 1 /\ images'[m + 1] = new /\ \A n \in 1..m : images'[n] = images[n]
    BY <1>1, <2>1, <2>3
  <2>5. images' # <<>>
    BY <1>1, <2>4
  <2> QED BY <1>1, <2>3, <2>4, <2>5
<1>4. CASE FileOption(e)
  <2>1. CASE table = 0
    BY <1>1, <1>4, <2>1 DEF FileOption, ReadWell
  <2>2. CASE table # 0
    <3> DEFINE new == Filed(images[table], e)
    <3>1. images' = [images EXCEPT ![table] = new]
      BY <1>4, <2>2 DEF FileOption
    <3>2. table \in 1..m /\ images[table] \in Tables /\ Good(images[table]["image"])
      BY <1>1, <2>2
    <3>3. new \in Tables /\ Good(new["image"])
      BY <1>2, <3>2
    <3> HIDE DEF new
    <3>4. Len(images') = m /\ images'[table] = new /\ \A n \in 1..m : n # table => images'[n] = images[n]
      BY <1>1, <3>1, <3>2, <3>3
    <3>5. images' # <<>>
      BY <1>1, <3>2, <3>4
    <3> QED BY <1>1, <3>3, <3>4, <3>5
  <2> QED BY <2>1, <2>2
<1>5. CASE UNCHANGED <<images, widest>>
  BY <1>5 DEF ReadWell
<1>6. File(e) => NewSection(e) \/ FileOption(e) \/ UNCHANGED <<images, widest>>
  BY DEF File, Skip, NoSection, tables
<1> QED BY <1>3, <1>4, <1>5, <1>6

(* The parser, step by step. *)
LEMMA ParseFiles ==
  ASSUME ParserTyped, Filings, ReadWell, Parse
  PROVE  Filings' /\ ReadWell'
<1>0. /\ text \in Seq(Readable) /\ here \in Seq(Readable)
      /\ EOF \in Readable /\ NL \in Readable /\ " " \in Readable
  BY ReadableAre DEF ReadWell
<1>1. ASSUME NEW e \in Entries, More(e)
      PROVE  Filings' /\ ReadWell'
  <2>1. UNCHANGED <<tables, filed, cpu, pc, here, images, widest, useconf>> /\ text' = e.text
    BY <1>1 DEF More, tables
  <2>2. ReadWell'
    BY <2>1, ReadableAre DEF ReadWell
  <2> QED BY <2>1, <2>2, FilingsStay
<1>2. CASE Close
  <2>1. UNCHANGED <<tables, filed, cpu, pc, text, here, images, widest, useconf>>
    BY <1>2 DEF Close, tables, lexer
  <2>2. ReadWell'
    BY <2>1 DEF ReadWell
  <2> QED BY <2>1, <2>2, FilingsStay
<1>3. CASE Lex
  <2>1. UNCHANGED <<tables, filed, cpu, pc, images, widest, useconf>>
    BY <1>3 DEF Lex, tables
  <2>2. text' \in Seq(Readable) /\ here' \in Seq(Readable)
    BY <1>0, <1>3, LexStep
  <2>3. ReadWell'
    BY <2>1, <2>2 DEF ReadWell
  <2> QED BY <2>1, <2>3, FilingsStay
<1>4. CASE SyntaxError
  <2>1. UNCHANGED <<tables, filed, cpu, images, widest>> /\ pc = "parse" /\ pc' = "error"
    BY <1>4 DEF SyntaxError, tables
  <2>2. UNCHANGED lexer \/ \E token : Token(token)
    BY <1>4 DEF SyntaxError
  <2>3. text' \in Seq(Readable) /\ here' \in Seq(Readable)
    BY <1>0, <2>2, TokenStep DEF lexer
  <2>4. ReadWell'
    BY <2>1, <2>3 DEF ReadWell
  <2> QED BY <2>1, <2>4, FilingsStay
<1>5. CASE EndOfFile
  <2>1. /\ UNCHANGED <<tables, filed, cpu, text, here, images, widest>> /\ pc \in {"eof", "cut"}
        /\ pc' = IF pc = "eof" THEN "done" ELSE "short"
        /\ useconf' => widest # 0
    BY <1>5 DEF EndOfFile, tables, lexer
  <2>2. ReadWell'
    BY <2>1 DEF ReadWell
  <2> QED BY <2>1, <2>2, FilingsStay
<1>6. ASSUME NEW token \in {here, <<"=">>, None},
             TakeItem(token) \/ TakeMark(token) \/ NoMark(token) \/ TakeValue(token) \/ NoItem(token)
      PROVE  Filings' /\ ReadWell'
  <2>1. Reading(token)
    BY <1>6 DEF TakeItem, TakeMark, NoMark, TakeValue, NoItem
  <2>2. pc = "parse" /\ UNCHANGED <<cpu, useconf>> /\ text' \in Seq(Readable) /\ here' \in Seq(Readable)
    BY <1>0, <2>1, TokenStep DEF Reading
  <2>3. CASE TakeItem(token) \/ TakeMark(token) \/ NoItem(token)
    <3>1. UNCHANGED <<tables, filed, images, widest>> /\ pc' \in {"parse", "eof"}
      BY <2>2, <2>3 DEF TakeItem, TakeMark, NoItem, tables
    <3>2. ReadWell'
      BY <2>2, <3>1 DEF ReadWell
    <3> QED BY <2>2, <3>1, <3>2, FilingsStay
  <2>4. CASE NoMark(token) \/ TakeValue(token)
    <3>1. token \in Texts /\ item \in Texts /\ None \in Texts
      BY Pointers DEF ParserTyped
    <3>2. PICK e \in Filing : File(e) /\ (e.value = None \/ e.value \in Seq(Readable))
      <4>1. CASE NoMark(token)
        <5>1. File(Entry(item, None))
          BY <4>1 DEF NoMark
        <5>2. Entry(item, None) \in Filing /\ Entry(item, None).value = None
          BY <3>1, EntryIs
        <5> QED BY <5>1, <5>2
      <4>2. CASE TakeValue(token)
        <5>1. File(Entry(item, token)) /\ token = here
          BY <4>2 DEF TakeValue
        <5>2. Entry(item, token) \in Filing /\ Entry(item, token).value = token
          BY <3>1, EntryIs
        <5>3. token \in Seq(Readable)
          BY <1>0, <5>1
        <5> QED BY <5>1, <5>2, <5>3
      <4> QED BY <2>4, <4>1, <4>2
    <3>3. Filings'
      BY <2>2, <3>2, FilingStep
    <3>4. pc' # "done"
      BY <2>2, <3>2 DEF File, NoSection
    <3>5. ReadWell'
      BY <2>2, <3>2, <3>4, ImagesReadWell DEF ReadWell
    <3> QED BY <3>3, <3>5
  <2> QED BY <1>6, <2>3, <2>4
<1> QED BY <1>1, <1>2, <1>3, <1>4, <1>5, <1>6 DEF Parse

(* The first section answers to the name the prompt begins with. *)
LEMMA FirstAnswers ==
  ASSUME ParserTyped, ReadWell, useconf, pc = "done", globals["default"] = None, images[1]["image"] # None
  PROVE  FirstIsDefault
<1> DEFINE t == images[1]
           name == SectionName(t)
           hits == {i \in DOMAIN images : Answers(images[i], name)}
<1>1. images # <<>> /\ Len(images) \in Nat /\ DOMAIN images = 1..Len(images) /\ 1 \in DOMAIN images
  BY DEF ReadWell, ParserTyped
<1>2. GetDefault = name
  BY <1>1 DEF GetDefault
<1>3. LastPart(t["image"]) # None
  <2> DEFINE path == t["image"]
             cuts == {i \in DOMAIN path : path[i] = "/"}
  <2>1. path \in Seq(Readable)
    BY <1>1 DEF ReadWell
  <2> HIDE DEF path
  <2>2. CASE cuts = {}
    BY <2>1, <2>2, ReadableAre DEF LastPart, path
  <2>3. CASE cuts # {}
    <3>1. PICK c : c = CHOOSE i \in cuts : \A j \in cuts : j <= i
      OBVIOUS
    <3>2. Len(path) \in Nat /\ cuts \subseteq 0..Len(path)
      BY <2>1
    <3>3. c \in cuts
      <4>1. \E i \in cuts : \A j \in cuts : j <= i
        <5> HIDE DEF cuts
        <5> QED BY <2>3, <3>2, Highest
      <4> QED BY <3>1, <4>1
    <3>4. c + 1 \in Nat \ {0}
      BY <3>2, <3>3
    <3>5. SubSeq(path, c + 1, Len(path)) \in Seq(Readable)
      <4>1. \A i \in c + 1 .. Len(path) : path[i] \in Readable
        BY <2>1, <3>2, <3>4
      <4> QED BY <3>2, <3>4, <4>1, SubSeqProperties
    <3>6. LastPart(path) = SubSeq(path, c + 1, Len(path))
      BY <2>3, <3>1, Zenon DEF LastPart
    <3> QED BY <3>5, <3>6, ReadableAre DEF path
  <2> QED BY <2>2, <2>3
<1>4. name # None
  BY <1>3 DEF SectionName
<1>5. 1 \in hits /\ \A j \in hits : 1 <= j
  BY <1>1, <1>4 DEF Answers
<1> HIDE DEF hits, name
<1>6. (CHOOSE i \in hits : \A j \in hits : i <= j) = 1
  <2>1. \A i \in hits : (\A j \in hits : i <= j) => i = 1
    <3>1. hits \subseteq Nat
      BY <1>1 DEF hits
    <3> QED BY <1>5, <3>1
  <2> QED BY <1>5, <2>1
<1>7. ASSUME NEW o PROVE GetStrg(name, o) = IF t[o] # None THEN t[o] ELSE Global(o)
  BY <1>5, <1>6, Zenon DEF GetStrg, hits
<1>8. \A o \in Strings \union Flags : Global(o) = globals[o]
  BY DEF Global, GlobalOptions
<1> QED BY <1>2, <1>7, <1>8 DEF FirstIsDefault

(* cfg_set: at any time every option that was read stands in the section   *)
(* it was read in, and the first section is the default, as long as the    *)
(* options are spelled as the manual spells them.                          *)
THEOREM FilesRight == Spec => []FiledWhereItStands
<1>1. Made => Filings /\ ReadWell
  <2> SUFFICES ASSUME Made PROVE Filings /\ ReadWell
    OBVIOUS
  <2>1. /\ filed = <<>> /\ images = <<>> /\ text = <<>> /\ here = <<>> /\ table = 0 /\ widest = 0
        /\ ~skipping /\ skipping \in BOOLEAN /\ pc = "parse" /\ globals = NoOptions(GlobalOptions)
    BY DEF Made, Init
  <2>2. Heads(filed) = {} /\ Len(filed) = 0 /\ DOMAIN filed = {}
    BY <2>1 DEF Heads
  <2>3. CountedHeads = {} /\ Cardinality(CountedHeads) = 0
    BY <2>2, FS_EmptySet DEF CountedHeads
  <2>4. Section = 0
    BY <2>2 DEF Section, HeadOf
  <2>5. \A o : Meant(filed, 0, o) = None
    BY <2>2 DEF Meant, Given
  <2>6. globals \in [GlobalOptions -> Texts] /\ \A o \in GlobalOptions : globals[o] = None
    BY <2>1, Pointers DEF NoOptions
  <2>7. Filings
    BY <2>1, <2>3, <2>4, <2>5, <2>6 DEF Filings, Recorded, Standing, FiledRight
  <2>8. ReadWell
    BY <2>1 DEF ReadWell
  <2> QED BY <2>7, <2>8
<1>2. IInv /\ Filings /\ ReadWell /\ [Next]_allVars => (Filings /\ ReadWell)'
  <2> SUFFICES ASSUME IInv, Filings, ReadWell, [Next]_allVars PROVE (Filings /\ ReadWell)'
    OBVIOUS
  <2>1. ParserTyped
    BY DEF IInv, Typed
  <2>2. CASE Parse
    BY <2>1, <2>2, ParseFiles
  <2>3. CASE UNCHANGED vars
    <3>1. UNCHANGED <<tables, filed, cpu, pc, text, here, images, widest, useconf>>
      BY <2>3 DEF vars, lexer, tables
    <3>2. ReadWell'
      BY <3>1 DEF ReadWell
    <3> QED BY <3>1, <3>2, FilingsStay
  <2>4. Edit => UNCHANGED vars
    BY DEF Edit, Type, Backspace, TabAll, TabWord, Turn, Leave
  <2> QED BY <2>2, <2>3, <2>4 DEF Next, allVars
<1>3. IInv /\ Filings /\ ReadWell => FiledWhereItStands
  <2> SUFFICES ASSUME IInv, Filings, ReadWell, Spelled PROVE FiledWhereItStands
    BY DEF FiledWhereItStands
  <2>1. ParserTyped
    BY DEF IInv, Typed
  <2>2. useconf /\ pc = "done" /\ globals["default"] = None /\ images[1]["image"] # None => FirstIsDefault
    BY <2>1, FirstAnswers
  <2>3. CountedHeads = WantedHeads
    <3>1. \A h \in Heads(filed) : filed[h].exact
      BY DEF Spelled, Heads
    <3> QED BY <3>1 DEF CountedHeads, WantedHeads, Counted
  <2>4. \A h \in CountedHeads :
          LET n == Cardinality({g \in CountedHeads : g <= h})
          IN  \A o \in ImageOptions : images[n][o] = Meant(filed, h, o)
    BY Zenon DEF Filings, FiledRight, Rank, Upto
  <2> QED BY <2>2, <2>3, <2>4 DEF FiledWhereItStands, Filings, FiledRight
<1> QED BY <1>1, <1>2, <1>3, CompletionInv, PTL DEF Spec
=================================================================================
