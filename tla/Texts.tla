------------------------------- MODULE Texts -------------------------------
(***************************************************************************)
(* A text is [core, padded]: what TrimSpace leaves of it, and whether      *)
(* blanks surround that.  Two texts with blanks around one core are taken  *)
(* to be written alike.                                                    *)
(***************************************************************************)

Texts == [core : STRING, padded : BOOLEAN]

TrimSpace(t) == [core |-> t.core, padded |-> FALSE]
Blank(t) == TrimSpace(t).core = ""
=============================================================================
