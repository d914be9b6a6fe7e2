-------------------------- MODULE MC_AuthConnector --------------------------
(***************************************************************************)
(* Constant values for checking AuthConnector with TLC.                    *)
(* Two users, u1 (a system account with a home directory "/a") and u2     *)
(* (a system account without home).  Uris are sequences of characters    *)
(* without the leading '/':                                                *)
(*   "a", "a/" : inside u1's home     "p" : a protected page              *)
(*   "l"      : the login page (path of config->redirect)                 *)
(*   "o"      : a page listed in config->unprotect                        *)
(***************************************************************************)
EXTENDS AuthRefinement

MC_Uid == [u \in Users |-> IF u = "u1" THEN 1001 ELSE 1002]
MC_Gid == [u \in Users |-> IF u = "u1" THEN 101 ELSE 102]
MC_Home == [u \in Users |-> IF u = "u1" THEN <<"/", "a">> ELSE <<>>]

UriA == <<"a">>
UriP == <<"p">>
UriL == <<"l">>
UriO == <<"o">>

\* protect left empty: mod_auth_create sets it to "*", every uri.
MC_ProtectUris == {UriA, UriP, UriL, UriO}
MC_UnprotectUris == {UriO}

MC_AuthzAll == {Absent, Cred("u1"), Cred(NoUser), OtherScheme}
MC_AuthzU1 == {Absent, Cred("u1")}
MC_AuthzBoth == {Absent, Cred("u1"), Cred("u2")}
MC_CookieVals == {Absent, Cred("u2")}

\* Uris of the runs
MC_UrisCore == {UriA, UriP, UriO}
MC_UrisLogin == {UriP, UriL}
MC_UrisOne == {UriP}
MC_UrisRights == {UriP, UriO}
=============================================================================
