--------------------------- MODULE MC_FileStorage ---------------------------
(* Constant values for checking FileStorage with TLC. *)
EXTENDS FileStorage

\* An existing file of the daemon (uid 33) with two chunks of old content,
\* and one of another account (uid 1001) the daemon may not write.
MC_InitFiles == ("f" :> [data |-> <<"o", "o">>, owner |-> 33]) @@
                ("g" :> [data |-> <<"o">>, owner |-> 1001])

MC_Bodies == {<<>>, <<"x">>}
=============================================================================
