---------------------------- MODULE TextUI_proofs ----------------------------
(***************************************************************************)
(* Nothing protected is acted on without the password, for every           *)
(* configuration, set of labels and number of starts.  The invariant says  *)
(* of every line waiting to be acted on that either it never needed the    *)
(* password, in the code's sense, or the password was answered; and that   *)
(* the code asks at least whenever the manual says it should.  Then two    *)
(* results on what is left for the next start: a line on the disk is used  *)
(* by one start, and a firmware that reboots gets the same kernel again.   *)
(***************************************************************************)
EXTENDS TextUI, TLAPS

(* The code asks wherever the manual protects: arguments given by the user *)
(* are never NULL.                                                         *)
LEMMA AsksEnough ==
  ASSUME NEW l \in Line, Protected(l)
  PROVE  AsksPassword(l)
<1>1. Null \notin Args
  BY UIAssumption
<1>2. l.args \in Args => l.args # Null
  BY <1>1
<1> QED
  BY <1>2 DEF Protected, AsksPassword

(* What is waiting to be acted on was asked for or needed no password. *)
Answered == pc = "act" /\ AsksPassword(sel) => authed = "yes" \/ (HeapMayFail /\ authed = "nobuffer")
SelIsLine == sel \in Line /\ cfg \in Config /\ once \in Line \union {NoLine}
             /\ saved \in Line \union {NoLine} /\ diskOnce \in Line \union {NoLine}
             /\ zero \in Args \union {Empty}

UIInv == Answered /\ SelIsLine

(* What the prompt settles on is a line that was typed or stands           *)
(* somewhere.                                                              *)
LEMMA SettledIsLine ==
  ASSUME NEW l \in Line, cfg \in Config
  PROVE  Settled(l) \in Line
<1>1. l.name \in Names /\ l.args \in Args \union {Null, Empty}
  BY DEF Line
<1>2. cfg.default \in Names
  BY DEF Config, Names
<1>3. [l EXCEPT !.name = cfg.default] \in Line
  BY <1>1, <1>2 DEF Line
<1> QED
  BY <1>3 DEF Settled

(* What is saved for the next start reads as the line it was saved from. *)
LEMMA SavedIsLine ==
  ASSUME NEW l \in Line, zero \in Args \union {Empty}
  PROVE  Saved(l) \in Line
<1>1. ReadArgs(l) \in Args \union {Null, Empty}
  BY DEF ReadArgs, Line
<1> QED
  BY <1>1 DEF Saved, Line

(* Settling on a line either asks for the password or finds it not needed, *)
(* and forgets every earlier answer.                                       *)
LEMMA SettleStep ==
  ASSUME UIInv, NEW l \in Line, Settle(l), once' = once \/ once' = NoLine
  PROVE  UIInv'
<1> USE DEF UIInv, SelIsLine
<1>1. sel' \in Line
  BY SettledIsLine DEF Settle
<1>2. saved' \in Line \union {NoLine}
  BY SavedIsLine, <1>1 DEF Settle
<1>3. cfg' = cfg /\ zero' = zero /\ diskOnce' = diskOnce
  BY DEF Settle, machine
<1>4. AsksPassword(sel)' <=> AsksPassword(sel')
  BY <1>3 DEF AsksPassword, Password, Labelled
<1>5. Answered'
  BY <1>4 DEF Answered, Settle
<1> QED
  BY <1>1, <1>2, <1>3, <1>5

(* A start, on a saved line or not. *)
LEMMA StartStep ==
  ASSUME UIInv, Start
  PROVE  UIInv'
<1> USE DEF UIInv, SelIsLine
<1>1. sel' = sel /\ saved' = saved /\ zero' = zero
  BY DEF Start, label
<1>2. cfg' \in Config
  BY UIAssumption DEF Start
<1>3. diskOnce' \in Line \union {NoLine}
  BY DEF Start, Written
<1>4. once' \in Line \union {NoLine}
  BY DEF Start
<1>5. Answered'
  BY DEF Start, Answered
<1> QED
  BY <1>1, <1>2, <1>3, <1>4, <1>5

(* The actions that settle on a line. *)
LEMMA ChoosingStep ==
  ASSUME UIInv,
         UseOnce \/ TimedOut \/ ReturnInTime
         \/ (\E k \in Labels : SingleKey(k)) \/ (\E l \in Lines : Enter(l))
  PROVE  UIInv'
<1>1. CASE UseOnce
  <2>1. once \in Line
    BY <1>1 DEF UseOnce, UIInv, SelIsLine
  <2>2. Split(once) \in Line
    BY <2>1 DEF Split, Line
  <2> QED
    BY <1>1, <2>2, SettleStep DEF UseOnce
<1>2. DefaultLine \in Line
  BY DEF DefaultLine, Line, UIInv, SelIsLine, Config, Names
<1>3. CASE TimedOut
  BY <1>2, <1>3, SettleStep DEF TimedOut
<1>4. CASE ReturnInTime
  BY <1>2, <1>4, SettleStep DEF ReturnInTime
<1>5. ASSUME NEW k \in Labels, SingleKey(k) PROVE UIInv'
  <2>1. [name |-> k, args |-> Empty] \in Line
    BY DEF Line, Names
  <2> QED
    BY <1>5, <2>1, SettleStep DEF SingleKey
<1>6. ASSUME NEW l \in Lines, Enter(l) PROVE UIInv'
  BY <1>6, UIAssumption, SettleStep DEF Enter
<1> QED
  BY <1>1, <1>3, <1>4, <1>5, <1>6

(* The actions that leave the line and what is stored alone. *)
LEMMA QuietStep ==
  ASSUME UIInv,
         UNCHANGED <<sel, saved, zero, cfg, once>>,
         diskOnce' = diskOnce \/ diskOnce' \in Line,
         pc' # "act" \/ (pc = "password" /\ authed' \in {"yes", "nobuffer"}
                         /\ (authed' = "nobuffer" => HeapMayFail))
                    \/ UNCHANGED <<pc, authed>>
  PROVE  UIInv'
<1>1. SelIsLine'
  BY DEF UIInv, SelIsLine
<1>2. AsksPassword(sel)' <=> AsksPassword(sel)
  BY DEF AsksPassword, Password, Labelled
<1>3. Answered'
  BY <1>2 DEF UIInv, Answered
<1> QED
  BY <1>1, <1>3 DEF UIInv

(* The invariant of the prompt: every behaviour of TextUI keeps it. *)
THEOREM PromptInductive == Spec => []UIInv
<1>1. Init => UIInv
  <2> SUFFICES ASSUME Init PROVE UIInv
    OBVIOUS
  <2>1. Answered
    BY DEF Init, Answered
  <2>2. sel \in Line
    BY DEF Init, Line, Names
  <2>3. cfg \in Config /\ zero \in Args \union {Empty}
    BY UIAssumption DEF Init
  <2> QED
    BY <2>1, <2>2, <2>3 DEF Init, UIInv, SelIsLine
<1>2. UIInv /\ [Next]_vars => UIInv'
  <2> SUFFICES ASSUME UIInv, [Next]_vars PROVE UIInv'
    OBVIOUS
  <2> USE DEF machine, label, nvram
  <2>1. CASE UseOnce \/ TimedOut \/ ReturnInTime
             \/ (\E k \in Labels : SingleKey(k)) \/ (\E l \in Lines : Enter(l))
    BY <2>1, ChoosingStep
  <2>2. CASE Editor
    BY <2>2, QuietStep DEF Editor
  <2>3. CASE Command
    BY <2>3, QuietStep DEF Command
  <2>4. CASE LoadFails
    BY <2>4, QuietStep DEF LoadFails
  <2>5. CASE EnterKernel
    BY <2>5, QuietStep DEF EnterKernel
  <2>6. CASE RightPassword
    BY <2>6, QuietStep DEF RightPassword
  <2>7. CASE WrongPassword
    BY <2>7, QuietStep DEF WrongPassword
  <2>8. ASSUME NEW k \in Labels, OtherKey(k) \/ TypeFirst(k) PROVE UIInv'
    BY <2>8, QuietStep DEF OtherKey, TypeFirst
  <2>9. CASE Start
    BY <2>9, StartStep
  <2>10. CASE NoMemory
    BY <2>10, QuietStep DEF NoMemory
  <2>11. CASE NoPasswordBuffer
    BY <2>11, QuietStep DEF NoPasswordBuffer
  <2>12. ASSUME NEW asked \in BOOLEAN, Restart(asked) PROVE UIInv'
    BY <2>12, QuietStep DEF Restart
  <2>13. ASSUME NEW l \in Lines, SetOnce(l) PROVE UIInv'
    BY <2>13, UIAssumption, QuietStep DEF SetOnce
  <2>14. CASE UNCHANGED vars
    BY <2>14, QuietStep DEF vars
  <2> QED
    BY <2>1, <2>2, <2>3, <2>4, <2>5, <2>6, <2>7, <2>8, <2>9, <2>10, <2>11,
       <2>12, <2>13, <2>14 DEF Next, Step, User, World
<1> QED
  BY <1>1, <1>2, PTL DEF Spec

(* NoUnauthorisedBoot: whatever get_params acts on without the password is *)
(* not protected, however the line came about.                             *)
THEOREM OnlyWithPassword == Spec => []NoUnauthorisedBoot
<1>1. UIInv => NoUnauthorisedBoot
  BY AsksEnough DEF UIInv, SelIsLine, Answered, NoUnauthorisedBoot
<1> QED
  BY <1>1, PromptInductive, PTL

-----------------------------------------------------------------------------
(* A line on the disk that was not used yet is a line no start has taken.  *)
OnceInv ==
  /\ uses \in Nat
  /\ unwritten \/ (uses <= 1 /\ (diskOnce # NoLine => uses = 0))

(* OnceUsedOnce: the start that finds the boot-once line takes it away.    *)
THEOREM OnlyOnce == Spec => []OnceUsedOnce
<1>1. Init => OnceInv
  BY DEF Init, OnceInv
<1>2. OnceInv /\ [Next]_vars => OnceInv'
  <2> SUFFICES ASSUME OnceInv, [Next]_vars PROVE OnceInv'
    OBVIOUS
  <2> USE DEF machine, label, nvram, disk, history, OnceInv
  <2>1. CASE Start
    <3>1. uses' = IF mac /\ diskOnce # NoLine THEN uses + 1 ELSE uses
      BY <2>1 DEF Start
    <3>2. CASE mac /\ diskOnce # NoLine
      <4>1. PICK ok \in BOOLEAN :
               /\ diskOnce' = IF mac THEN Written(ok) ELSE diskOnce
               /\ unwritten' = (unwritten \/ (mac /\ diskOnce # NoLine /\ ~ ok))
        BY <2>1 DEF Start
      <4>2. CASE unwritten \/ ~ ok
        <5>1. unwritten'
          BY <3>2, <4>1, <4>2, Zenon
        <5>2. uses' \in Nat
          BY <3>1
        <5> QED BY <5>1, <5>2
      <4>3. CASE ~ unwritten /\ ok
        <5>1. diskOnce' = NoLine /\ uses = 0
          BY <3>2, <4>1, <4>3 DEF Written
        <5> QED BY <3>1, <3>2, <5>1
      <4> QED BY <4>2, <4>3
    <3>3. CASE ~ mac \/ diskOnce = NoLine
      BY <2>1, <3>1, <3>3 DEF Start, Written
    <3> QED BY <3>2, <3>3
  <2>2. ASSUME NEW l \in Lines, SetOnce(l) PROVE OnceInv'
    BY <2>2 DEF SetOnce
  <2>3. CASE UseOnce \/ TimedOut \/ ReturnInTime
    BY <2>3 DEF UseOnce, TimedOut, ReturnInTime, Settle
  <2>4. ASSUME NEW k \in Labels, SingleKey(k) \/ OtherKey(k) \/ TypeFirst(k) PROVE OnceInv'
    BY <2>4 DEF SingleKey, OtherKey, TypeFirst, Settle
  <2>5. ASSUME NEW l \in Lines, Enter(l) PROVE OnceInv'
    BY <2>5 DEF Enter, Settle
  <2>6. CASE Editor \/ Command \/ LoadFails \/ EnterKernel
    BY <2>6 DEF Editor, Command, LoadFails, EnterKernel
  <2>7. CASE RightPassword \/ WrongPassword \/ NoMemory \/ NoPasswordBuffer
    BY <2>7 DEF RightPassword, WrongPassword, NoMemory, NoPasswordBuffer
  <2>8. ASSUME NEW asked \in BOOLEAN, Restart(asked) PROVE OnceInv'
    BY <2>8 DEF Restart
  <2>9. CASE UNCHANGED vars
    BY <2>9 DEF vars
  <2> QED
    BY <2>1, <2>2, <2>3, <2>4, <2>5, <2>6, <2>7, <2>8, <2>9 DEF Next, Step, User, World
<1>3. OnceInv => OnceUsedOnce
  BY DEF OnceInv, OnceUsedOnce
<1> QED
  BY <1>1, <1>2, <1>3, PTL DEF Spec

-----------------------------------------------------------------------------
(* What a line boots, whether it boots anything, and when what the line    *)
(* that was stored boots is no other than what was booted before.          *)
Runs(l)    == [name |-> l.name,
               args |-> IF Labelled(l) /\ l.args = Null THEN Empty ELSE ReadArgs(l)]
Bootable(l) == Labelled(l) \/ l.name \notin Commands \union {Blank}
Near(again, before) ==
  /\ again.name = before.name
  /\ again.args = before.args \/ (before.args = Empty /\ again.args = zero)

(* Until somebody interferes, the line of the kernel that made the         *)
(* firmware reboot is the one that is saved, found again and settled on.   *)
Untouched == cas /\ ~ unsaved /\ ~ keyed /\ ~ failed
Rebooting == running = Runs(sel) /\ Bootable(sel)

RebootInv ==
  /\ pc \in {"password", "act", "kernel"} /\ ~ cas /\ ~ unsaved => saved = Saved(sel)
  /\ pc = "kernel" => Rebooting
  /\ pc = "firmware" /\ cas /\ ~ unsaved => saved = Saved(sel) /\ Rebooting
  /\ pc = "prompt" /\ Untouched => once = saved /\ saved = Saved(sel) /\ Rebooting
  /\ pc \in {"password", "act"} /\ Untouched => Near(Runs(sel), running) /\ Bootable(sel)
  /\ pc = "edit" => ~ Untouched

(* The text that stands for a line at boot-last-label reads as a line that *)
(* boots the same.                                                         *)
LEMMA SavedBootsSame ==
  ASSUME UIInv, NEW l \in Line, Bootable(l)
  PROVE  LET again == Settled(Split(Saved(l)))
         IN  Near(Runs(again), Runs(l)) /\ Bootable(again)
<1> DEFINE again == Split(Saved(l))
<1>1. l.name # Blank
  BY UIAssumption DEF Bootable, Labelled, Commands
<1>2. l.args \in Args \union {Null, Empty} /\ Null \notin Args /\ Empty \notin Args /\ Null # Empty
  BY UIAssumption DEF Line, Null, Empty
<1>3. zero \in Args \union {Empty}
  BY DEF UIInv, SelIsLine
<1>4. again.name = l.name /\ again.args = IF ReadArgs(l) = Empty THEN Null ELSE ReadArgs(l)
  BY <1>2, <1>3 DEF Saved, Split, ReadArgs, Line
<1>5. Settled(again) = again
  BY <1>1, <1>4 DEF Settled
<1>6. Labelled(again) <=> Labelled(l)
  BY <1>4 DEF Labelled
<1>7. Runs(again).args = Runs(l).args \/ (Runs(l).args = Empty /\ Runs(again).args = zero)
  BY <1>2, <1>3, <1>4, <1>6 DEF Runs, ReadArgs
<1>8. Near(Runs(again), Runs(l))
  BY <1>4, <1>7 DEF Runs, Near
<1>9. Bootable(again)
  BY <1>4, <1>6 DEF Bootable
<1> QED
  BY <1>5, <1>8, <1>9

(* Nothing a line means depends on more than the configuration. *)
LEMMA SameMeaning ==
  ASSUME UNCHANGED <<cfg, zero, sel>>
  PROVE  /\ Saved(sel)' = Saved(sel) /\ Runs(sel)' = Runs(sel)
         /\ Bootable(sel)' <=> Bootable(sel)
  BY DEF Saved, ReadArgs, Runs, Bootable, Labelled

(* What is stored for a line is not what stands for no line at all. *)
LEMMA SavedIsSomething ==
  ASSUME UIInv
  PROVE  Saved(sel) # NoLine
<1>1. "none" \notin Names
  BY UIAssumption DEF Names, Commands, Blank
<1>2. Saved(sel) \in Line
  BY SavedIsLine DEF UIInv, SelIsLine
<1> QED
  BY <1>1, <1>2 DEF NoLine, Line

(* A machine that reboots for the kernel has that line before it. *)
LEMMA RebootStep == UIInv /\ RebootInv /\ [Next]_vars => RebootInv'
<1> SUFFICES ASSUME UIInv, RebootInv, [Next]_vars PROVE RebootInv'
  OBVIOUS
<1> USE DEF machine, label, nvram, disk, history, Untouched, Rebooting
<1>1. CASE Start
  <2>1. cas => Saved(sel)' = Saved(sel) /\ Runs(sel)' = Runs(sel) /\ (Bootable(sel)' <=> Bootable(sel))
    BY <1>1, SameMeaning DEF Start
  <2> QED BY <1>1, <2>1 DEF Start, RebootInv
<1>2. CASE UseOnce
  <2>1. /\ pc = "prompt" /\ sel' = Settled(Split(once)) /\ pc' \in {"password", "act"}
        /\ unsaved' = IF cas THEN unsaved ELSE saved' # Saved(sel')
        /\ UNCHANGED <<cfg, zero, cas, keyed, failed, running>>
    BY <1>2 DEF UseOnce, Settle
  <2>2. Saved(sel)' = Saved(sel')
    BY <2>1 DEF Saved, ReadArgs
  <2>3. Runs(sel)' = Runs(sel') /\ (Bootable(sel)' <=> Bootable(sel'))
    BY <2>1 DEF Runs, ReadArgs, Bootable, Labelled
  <2>4. Untouched => Near(Runs(sel'), running) /\ Bootable(sel')
    BY <2>1, SavedBootsSame DEF RebootInv, UIInv, SelIsLine
  <2>5. Near(Runs(sel), running)' <=> Near(Runs(sel'), running)
    BY <2>1, <2>3 DEF Near
  <2> QED BY <2>1, <2>2, <2>3, <2>4, <2>5 DEF RebootInv
<1>3. CASE TimedOut \/ ReturnInTime
  <2>1. /\ pc = "prompt" /\ once = NoLine /\ pc' \in {"password", "act"}
        /\ unsaved' = IF cas THEN unsaved ELSE saved' # Saved(sel')
        /\ UNCHANGED <<cfg, zero, cas, failed>> /\ (~ keyed' => ~ keyed)
    <3>1. CASE TimedOut
      BY <3>1 DEF TimedOut, Settle
    <3>2. CASE ReturnInTime
      BY <3>2 DEF ReturnInTime, Settle
    <3> QED BY <1>3, <3>1, <3>2
  <2>2. Saved(sel)' = Saved(sel')
    BY <2>1 DEF Saved, ReadArgs
  <2>3. ~ Untouched /\ ~ Untouched'
    BY <2>1, SavedIsSomething DEF RebootInv
  <2> QED BY <2>1, <2>2, <2>3 DEF RebootInv
<1>4. ASSUME NEW l \in Line, Settle(l), keyed' = TRUE PROVE RebootInv'
  <2>1. /\ pc' \in {"password", "act"} /\ zero' = zero /\ cas' = cas
        /\ unsaved' = IF cas THEN unsaved ELSE saved' # Saved(sel')
    BY <1>4 DEF Settle
  <2>2. Saved(sel)' = Saved(sel')
    BY <2>1 DEF Saved, ReadArgs
  <2> QED BY <1>4, <2>1, <2>2 DEF RebootInv
<1>5. ASSUME NEW k \in Labels, SingleKey(k) PROVE RebootInv'
  <2>1. [name |-> k, args |-> Empty] \in Line
    BY DEF Line, Names
  <2> QED BY <1>4, <1>5, <2>1 DEF SingleKey
<1>6. ASSUME NEW k \in Labels, OtherKey(k) \/ TypeFirst(k) PROVE RebootInv'
  BY <1>6 DEF OtherKey, TypeFirst, RebootInv
<1>7. ASSUME NEW l \in Lines, Enter(l) PROVE RebootInv'
  BY <1>4, <1>7, UIAssumption DEF Enter
<1>8. CASE Editor
  BY <1>8, SavedIsSomething DEF Editor, RebootInv
<1>9. CASE Command
  BY <1>9 DEF Command, RebootInv, Bootable, Labelled, Commands
<1>10. CASE LoadFails
  BY <1>10 DEF LoadFails, RebootInv
<1>11. CASE EnterKernel
  <2>1. pc = "act" /\ pc' = "kernel" /\ running' = Runs(sel) /\ Bootable(sel)
        /\ UNCHANGED <<cfg, zero, sel, saved, cas, unsaved>>
    BY <1>11 DEF EnterKernel, BootArgs, Runs, IsImage, Bootable
  <2> QED BY <2>1, SameMeaning DEF RebootInv
<1>12. CASE RightPassword \/ WrongPassword
  BY <1>12, SameMeaning DEF RightPassword, WrongPassword, RebootInv
<1>13. CASE NoMemory \/ NoPasswordBuffer
  BY <1>13, SameMeaning DEF NoMemory, NoPasswordBuffer, RebootInv, Near
<1>14. ASSUME NEW asked \in BOOLEAN, Restart(asked) PROVE RebootInv'
  BY <1>14, SameMeaning DEF Restart, RebootInv
<1>15. ASSUME NEW l \in Lines, SetOnce(l) PROVE RebootInv'
  BY <1>15, SameMeaning DEF SetOnce, RebootInv
<1>16. CASE UNCHANGED vars
  BY <1>16, SameMeaning DEF vars, RebootInv, Near
<1> QED
  BY <1>1, <1>2, <1>3, <1>5, <1>6, <1>7, <1>8, <1>9, <1>10, <1>11, <1>12, <1>13, <1>14,
     <1>15, <1>16 DEF Next, Step, User, World

(* SameAfterReboot: the kernel that made the firmware reboot is entered    *)
(* again as it was, wherever its line could be stored.                     *)
THEOREM RebootsSame == Spec => SameAfterReboot
<1>1. Init => RebootInv
  BY DEF Init, RebootInv, Untouched
<1>2. UIInv /\ RebootInv /\ [Next]_vars =>
        [cas /\ ~ unsaved /\ ~ keyed /\ ~ failed /\ EnterKernel =>
           /\ running'.name = running.name
           /\ \/ running'.args = running.args
              \/ running.args = Empty /\ running'.args = zero]_vars
  <2> SUFFICES ASSUME RebootInv, cas, ~ unsaved, ~ keyed, ~ failed, EnterKernel
               PROVE  Near(running', running)
    BY DEF Near
  <2>1. pc = "act" /\ Near(Runs(sel), running)
    BY DEF EnterKernel, RebootInv, Untouched
  <2> QED BY <2>1 DEF EnterKernel, BootArgs, Runs
<1> QED
  BY <1>1, <1>2, RebootStep, PromptInductive, PTL DEF Spec, SameAfterReboot
=============================================================================
