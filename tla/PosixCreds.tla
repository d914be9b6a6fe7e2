----------------------------- MODULE PosixCreds -----------------------------
(***************************************************************************)
(* The process credentials that ouistiti changes: real, effective and     *)
(* saved user and group ids, and the POSIX rules under which seteuid()    *)
(* and setegid() succeed.  A call that is refused leaves the credentials   *)
(* unchanged; the code only logs a warning.                                *)
(*                                                                         *)
(* Linux rule: a process whose effective uid is 0 holds CAP_SETUID and     *)
(* CAP_SETGID and may set any id; otherwise seteuid(x) succeeds only for   *)
(* x among the real, effective and saved uids, and setegid(g) only for g  *)
(* among the real, effective and saved gids.                               *)
(***************************************************************************)
EXTENDS Naturals

Creds == [ruid : Nat, euid : Nat, suid : Nat, rgid : Nat, egid : Nat, sgid : Nat]

\* A process started by user id u (gid u): all six ids equal.
StartedAs(u) ==
    [ruid |-> u, euid |-> u, suid |-> u, rgid |-> u, egid |-> u, sgid |-> u]

Privileged(cr) == cr.euid = 0

SetEuidOk(cr, x) == Privileged(cr) \/ x \in {cr.ruid, cr.euid, cr.suid}

SetEgidOk(cr, g) == Privileged(cr) \/ g \in {cr.rgid, cr.egid, cr.sgid}

\* seteuid(x): the effective uid becomes x, or the call fails.
seteuid(cr, x) == IF SetEuidOk(cr, x) THEN [cr EXCEPT !.euid = x] ELSE cr

\* setegid(g): the effective gid becomes g, or the call fails.
setegid(cr, g) == IF SetEgidOk(cr, g) THEN [cr EXCEPT !.egid = g] ELSE cr

(***************************************************************************)
(* auth_setowner(user) of main.c, for a user found in the password        *)
(* database with ids (uid, gid): seteuid(getuid()), then setegid(gid),    *)
(* then seteuid(uid), each step taken only if the previous one succeeded  *)
(* (the else-if chain).                                                    *)
(***************************************************************************)
auth_setowner(cr, uid, gid) ==
    IF ~SetEuidOk(cr, cr.ruid) THEN cr
    ELSE LET c1 == seteuid(cr, cr.ruid)
         IN  IF ~SetEgidOk(c1, gid) THEN c1
             ELSE seteuid(setegid(c1, gid), uid)
=============================================================================
