------------------------------ MODULE MCTextUI ------------------------------
EXTENDS TextUI

(***************************************************************************)
(* Two image sections, the second restricted, either of them selected by a *)
(* single key and either of them the default; one argument, which may also *)
(* be what lies at address 0.                                              *)
(***************************************************************************)
TwoLabels == {"a", "r"}
OneArg    == {"single"}
Blanks    == {Empty, "single"}

Conf(t, p, d) ==
  [useconf |-> TRUE, timer |-> t, password |-> p,
   restricted |-> {"r"}, single |-> {"a"}, default |-> d]

NoConf == [Conf("unset", FALSE, "a") EXCEPT !.useconf = FALSE]

SomeConfigs == {Conf("set", TRUE, d) : d \in TwoLabels}
               \union {NoConf, Conf("set", FALSE, "a"), Conf("unset", TRUE, "a"),
                       Conf("zero", FALSE, "r")}

SomeLines == {[name |-> n, args |-> Null] : n \in {"r", "custom", "help", "halt", Blank}}
             \union {[name |-> n, args |-> "single"] : n \in TwoLabels}
=============================================================================
