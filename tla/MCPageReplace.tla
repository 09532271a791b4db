--------------------------- MODULE MCPageReplace ----------------------------
(***************************************************************************)
(* All short strings over a few pages.                                     *)
(***************************************************************************)
EXTENDS PageReplace

(* Pages are only compared, so that the first three references may be      *)
(* 0, 1 and 2.                                                             *)
ShortStrings == {s \in [0 .. N - 1 -> Page] : \A j \in 0 .. 2 : s[j] = j}
=============================================================================
