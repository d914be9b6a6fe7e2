------------------------- MODULE MC_ServerLifecycle -------------------------
(* Constant values for checking ServerLifecycle with TLC. *)
EXTENDS ServerLifecycle

\* serverid without -s, and with -s 2 (index 1).
MC_ServerSels == {-1, 1}

=============================================================================
