--------------------------- MODULE MC_InitScripts ---------------------------
(* Constant values for checking InitScripts with TLC. *)
EXTENDS InitScripts

\* Two visible names and a hidden one, in alphasort order.
MC_NameOrder == <<".h", "a", "b">>
=============================================================================
