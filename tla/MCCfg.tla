-------------------------------- MODULE MCCfg --------------------------------
(***************************************************************************)
(* Files of up to four entries: sections of three kinds, names with common *)
(* beginnings, a string and a flag between them, each written in another   *)
(* of the ways the parser has to understand, and some it has to refuse.    *)
(***************************************************************************)
EXTENDS TabCompletion, CpuTable

OneString  == {"root"}
OneFlag    == {"read-only"}
Bits       == {IdentifyCpu(<<\h12, 0>>), IdentifyCpu(<<\h8, \h8202>>), IdentifyCpu(<<\h40, 0>>)}
Letters    == {"a", " "}
InCapitals == [Image |-> "image", Label |-> "label"]

As(option, given)  == [item |-> option, exact |-> TRUE, value |-> given]
Odd(option, given) == [item |-> option, exact |-> FALSE, value |-> given]
Written(characters, meaning) == [text |-> characters, means |-> meaning]

Spellings == {
  Written(<<"image", "=", "/", "a", NL>>, As("image", <<"/", "a">>)),
  Written(<<"image[32bit]", "=", "\"", "b", "\"", NL>>, As("image[32bit]", <<"b">>)),
  Written(<<"#", "image", "=", "b", NL, "Image", "=", "b", NL>>, Odd("image", <<"b">>)),
  Written(<<"label", " ", "=", "b", "#", "a", NL>>, As("label", <<"b">>)),
  Written(<<"label", "=", "\"", "a", "b", "\"", NL>>, As("label", <<"a", "b">>)),
  Written(<<"alias", "=", "a", "b", "a", NL>>, As("alias", <<"a", "b", "a">>)),
  Written(<<"Label", "=", NL, "a", NL>>, Odd("label", <<"a">>)),
  Written(<<"root", "=", "\"", "a", "\\", NL, "tab", "b", "\"", NL>>, As("root", <<"a", " ", "b">>)),
  Written(<<"root", "=", "b", "\\", "tab", "\\", NL, "a", NL>>, As("root", <<"b", " ", "a">>)),
  Written(<<"read-only", NL>>, As("read-only", None)),
  Written(<<"read-only", "=", "\"", "\\", "n", "\\", "\"", "\"", NL>>, As("read-only", <<NL, "\"">>)) }

(* What the parser has to refuse: newlines and unknown escapes in quotes,  *)
(* quotes and backslashes left open, a missing value, two marks, a token   *)
(* that is too long.                                                       *)
Refused == {
  Written(<<"root", "=", "\"", "a", NL>>, As("root", None)),
  Written(<<"root", "=", "a", "b", "a", "b", NL>>, As("root", None)),
  Written(<<"root", "=", "=", NL>>, As("root", None)),
  Written(<<"root", "=", "\"", "\\", "a">>, As("root", None)),
  Written(<<"root", "=", "a", "\\">>, As("root", None)) }

Texts == Spellings \union Refused
=============================================================================
