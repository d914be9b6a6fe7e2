---------------------------- MODULE AuthConnector ----------------------------
(***************************************************************************)
(* mod_auth.c: the per-connection authentication context, the home and    *)
(* authn connectors run for every request, token issuance, and the        *)
(* process-wide privilege transition performed after a successful check. *)
(* main.c: the process start (module creation, auth_setowner) and a       *)
(* process crash followed by a restart.                                    *)
(*                                                                         *)
(* A connection goes through stages:                                       *)
(*   closed -> idle -> [home] -> authn -> [priv1 -> priv2 -> priv3]        *)
(*          -> content (chain continues: EREJECT) | done (ESUCCESS)        *)
(* "content" means the auth connectors let the request through to the     *)
(* modules that serve it; "done" means an auth connector wrote the        *)
(* response.  The credential-scheme backend (check, challenge) and the    *)
(* identity-store backend (home, join, token lookup) are not in this      *)
(* repository and are modelled from their contract in spec.md.            *)
(***************************************************************************)
EXTENDS Naturals, Sequences, SequencesExt, FiniteSets, TLC, PosixCreds

CONSTANTS
    Conns,            \* accepted connections (http_client_t)
    Users,            \* user names the credential scheme may accept
    NoUser,           \* check() returned NULL
    Passwd,           \* users found by getpwnam()
    Uid, Gid,         \* their pw_uid / pw_gid
    DaemonUid, DaemonGid, \* ids of ouistiticonfig->user ("www-data")
    StartUid,         \* uid the server was started with (0: root)
    Uris,             \* decoded request uris, without the leading '/'
    Home,             \* home path of each user, with its leading '/'
    ProtectUris,      \* uris matched by config->protect
    UnprotectUris,    \* uris matched by config->unprotect
    RedirectUri,      \* path part of config->redirect, or NoRedirect
    NoRedirect,
    AuthzVals,        \* values of the Authorization request header
    CookieVals,       \* values of the Authorization cookie
    LogoutVals,       \* WWW-Authenticate request header non-empty?
    AjaxVals,         \* X-Requested-With contains XMLHttpRequest?
    WsVals,           \* Sec-WebSocket-Version non-empty?
    TokenE, HeaderE, CookieE, UnixE, HomeE, \* AUTHZ_*_E flags of authz->type
    SchemeChallenges, \* authn rules->challenge() writes a 401 itself
    SchemeAcceptsToken, \* authn rules->check() resolves tokens via authz
    Mode,             \* "single", "thread" or "fork": how clients run
    Expire,           \* config->expire
    MaxClock,         \* bound on time(NULL), in seconds
    MaxDraws,         \* bound on tokens drawn by one process
    Absent, NoInfo, NoToken, NoReq

ASSUME Mode \in {"single", "thread", "fork"}
ASSUME ~(HeaderE /\ CookieE)

VARIABLES
    phase,    \* "boot" (process starting) or "run"
    stage,    \* stage of each connection
    req,      \* the request a connection is processing
    resp,     \* the response the auth connectors built for it
    info,     \* ctx->info: the identity bound to the connection
    creds,    \* credentials of each process
    prng,     \* random() state of each process: seed and draws taken
    clock,    \* time(NULL)
    store,    \* identity store: token -> [user, expires] (persistent)
    issuedTo  \* history: the user each token value was first issued to

vars == <<phase, stage, req, resp, info, creds, prng, clock, store, issuedTo>>

Stages == {"closed", "idle", "home", "authn", "priv1", "priv2", "priv3",
           "content", "done"}

\* In fork mode each client runs in a child process of its own.
Procs == {"server"} \cup Conns
ProcOf(c) == IF Mode = "fork" THEN c ELSE "server"

\* Credential material as it reaches check().
Cred(u) == [kind |-> "cred", user |-> u, val |-> <<>>]
OtherScheme == [kind |-> "other", user |-> NoUser, val |-> <<>>]
Tok(t) == [kind |-> "token", user |-> NoUser, val |-> t]

Tokens == (0..MaxClock) \X (0..MaxDraws - 1)
TokenVals == IF TokenE THEN {Absent} \cup {Tok(t) : t \in DOMAIN issuedTo}
                       ELSE {Absent}

Requests == [uri : Uris, authz : AuthzVals, cookie : CookieVals,
             xtoken : TokenVals, logout : LogoutVals, ajax : AjaxVals,
             websocket : WsVals]

NoResp == [status |-> 0, location |-> <<>>, user |-> NoUser, token |-> NoToken]

-----------------------------------------------------------------------------
(* Helpers translated from mod_auth.c *)

\* _authn_getauthorization: header, else cookie; a value whose scheme
\* prefix is not mod->type is dropped; then the X-Auth-Token carrier.
authn_getauthorization(r) ==
    LET hdr   == IF r.authz # Absent THEN r.authz ELSE r.cookie
        typed == IF hdr # Absent /\ hdr.kind # "cred" THEN Absent ELSE hdr
    IN  IF typed = Absent /\ TokenE THEN r.xtoken ELSE typed

\* authn rules->check(): the user the material proves, or NoUser.
\* A token is resolved through the identity store while unexpired.
check(m) ==
    CASE m.kind = "cred"  -> m.user
      [] m.kind = "token" -> IF SchemeAcceptsToken /\ m.val \in DOMAIN store
                                /\ clock < store[m.val].expires
                             THEN store[m.val].user ELSE NoUser
      [] OTHER            -> NoUser

\* The user _authn_checkauthorization accepts for request r, or NoUser.
\* A WWW-Authenticate request header skips the check (ret = ESUCCESS).
CheckedUser(r) ==
    LET m == authn_getauthorization(r)
    IN  IF ~r.logout /\ m # Absent THEN check(m) ELSE NoUser

\* The protect / unprotect decision of _authn_connector.
Unprotected(uri) == uri \notin ProtectUris \/ uri \in UnprotectUris

\* _authn_setauthorization: identity emitted on the response when the
\* header or the cookie transport is configured.
authn_setauthorization(rs, i) ==
    IF HeaderE \/ CookieE THEN [rs EXCEPT !.user = i.user, !.token = i.token]
    ELSE rs

\* Mutation: the token is taken from the state after the draw.
authz_generatetoken_late(p) == <<prng[p].seed, prng[p].draws + 1>>

\* authz_generatetoken: 24 bytes drawn from random(); the value is fixed
\* by the process's seed and the number of draws already taken.
authz_generatetoken(p) == <<prng[p].seed, prng[p].draws>>

\* Status written by _authn_challenge (it always returns ESUCCESS).
authn_challenge(r) ==
    CASE SchemeChallenges                         -> [status |-> 401, location |-> <<>>]
      [] r.ajax                                   -> [status |-> 403, location |-> <<>>]
      [] RedirectUri # NoRedirect /\ r.uri = RedirectUri
                                                  -> [status |-> 200, location |-> <<>>]
      [] RedirectUri # NoRedirect                 -> [status |-> 302, location |-> RedirectUri]
      [] OTHER                                    -> [status |-> 401, location |-> <<>>]

\* _home_connector: redirect when the uri does not start with the home
\* path (strncmp of home + 1 over homelength - 1 characters).
HomeRedirects(i, r) ==
    /\ i # NoInfo
    /\ ~r.websocket
    /\ Len(i.home) > 0
    /\ ~IsPrefix(Tail(i.home), r.uri)

-----------------------------------------------------------------------------
Init ==
    /\ phase = "boot"
    /\ stage = [c \in Conns |-> "closed"]
    /\ req = [c \in Conns |-> NoReq]
    /\ resp = [c \in Conns |-> NoResp]
    /\ info = [c \in Conns |-> NoInfo]
    /\ creds = [p \in Procs |-> StartedAs(StartUid)]
    /\ prng = [p \in Procs |-> [seed |-> 0, draws |-> 0]]
    /\ clock = 0
    /\ store = [t \in {} |-> NoUser]
    /\ issuedTo = [t \in {} |-> NoUser]

\* main(): ouistiti_loadservers creates mod_auth (srandom(time(NULL))),
\* then auth_setowner(ouistiticonfig->user), then main_run.
Boot ==
    /\ phase = "boot"
    /\ phase' = "run"
    /\ creds' = [creds EXCEPT !["server"] = auth_setowner(@, DaemonUid, DaemonGid)]
    /\ prng' = [prng EXCEPT !["server"] = [seed |-> clock, draws |-> 0]]
    /\ UNCHANGED <<stage, req, resp, info, clock, store, issuedTo>>

\* The process dies; every connection is lost, the store persists.
Crash ==
    /\ phase = "run"
    /\ phase' = "boot"
    /\ stage' = [c \in Conns |-> "closed"]
    /\ req' = [c \in Conns |-> NoReq]
    /\ resp' = [c \in Conns |-> NoResp]
    /\ info' = [c \in Conns |-> NoInfo]
    /\ creds' = [p \in Procs |-> StartedAs(StartUid)]
    /\ UNCHANGED <<prng, clock, store, issuedTo>>

Tick ==
    /\ clock < MaxClock
    /\ clock' = clock + 1
    /\ UNCHANGED <<phase, stage, req, resp, info, creds, prng, store, issuedTo>>

\* _mod_auth_getctx: a new connection gets an empty context.  In fork
\* mode the child inherits the server's credentials and random() state.
mod_auth_getctx(c) ==
    /\ phase = "run"
    /\ stage[c] = "closed"
    /\ stage' = [stage EXCEPT ![c] = "idle"]
    /\ info' = [info EXCEPT ![c] = NoInfo]
    /\ creds' = IF Mode = "fork" THEN [creds EXCEPT ![c] = creds["server"]] ELSE creds
    /\ prng' = IF Mode = "fork" THEN [prng EXCEPT ![c] = prng["server"]] ELSE prng
    /\ UNCHANGED <<phase, req, resp, clock, store, issuedTo>>

\* Mutation: the connection context is released without clearing
\* ctx->info.
mod_auth_freectx_keepinfo(c) ==
    /\ stage[c] = "idle"
    /\ stage' = [stage EXCEPT ![c] = "closed"]
    /\ UNCHANGED <<phase, req, resp, info, creds, prng, clock, store, issuedTo>>

\* _mod_auth_freectx: the identity and its token are freed.
mod_auth_freectx(c) ==
    /\ stage[c] = "idle"
    /\ stage' = [stage EXCEPT ![c] = "closed"]
    /\ info' = [info EXCEPT ![c] = NoInfo]
    /\ UNCHANGED <<phase, req, resp, creds, prng, clock, store, issuedTo>>

\* A request arrives.  In single mode the server runs one client's
\* connector chain at a time.
Arrive(c) ==
    /\ stage[c] = "idle"
    /\ Mode = "single" => \A d \in Conns \ {c} : stage[d] \in {"closed", "idle"}
    /\ \E r \in Requests : req' = [req EXCEPT ![c] = r]
    /\ stage' = [stage EXCEPT ![c] = IF HomeE THEN "home" ELSE "authn"]
    /\ resp' = [resp EXCEPT ![c] = NoResp]
    /\ UNCHANGED <<phase, info, creds, prng, clock, store, issuedTo>>

\* _home_connector with an identity whose home the uri is outside of:
\* 301 to "<home>/", the chain stops.
home_connector_redirect(c) ==
    /\ stage[c] = "home"
    /\ HomeRedirects(info[c], req[c])
    /\ stage' = [stage EXCEPT ![c] = "done"]
    /\ resp' = [resp EXCEPT ![c] = [@ EXCEPT !.status = 301,
                                          !.location = info[c].home \o <<"/">>]]
    /\ UNCHANGED <<phase, req, info, creds, prng, clock, store, issuedTo>>

\* _home_connector returning EREJECT: the authn connector runs next.
home_connector_pass(c) ==
    /\ stage[c] = "home"
    /\ ~HomeRedirects(info[c], req[c])
    /\ stage' = [stage EXCEPT ![c] = "authn"]
    /\ UNCHANGED <<phase, req, resp, info, creds, prng, clock, store, issuedTo>>

\* _authn_connector, ctx->info set: emit the identity, EREJECT.
authn_connector_bound(c) ==
    /\ stage[c] = "authn"
    /\ info[c] # NoInfo
    /\ stage' = [stage EXCEPT ![c] = "content"]
    /\ resp' = [resp EXCEPT ![c] = authn_setauthorization(@, info[c])]
    /\ UNCHANGED <<phase, req, info, creds, prng, clock, store, issuedTo>>

\* _authn_connector -> _authn_checkauthorization, check() accepted a
\* user: build ctx->info (token generated and joined, home from the
\* store), emit it, then the privilege transition when AUTHZ_UNIX_E and
\* getpwnam() finds the user.
authn_connector_accept(c) ==
    LET r   == req[c]
        u   == CheckedUser(r)
        p   == ProcOf(c)
        tok == IF TokenE THEN authz_generatetoken(p) ELSE NoToken
        i   == [user |-> u, token |-> tok, home |-> Home[u]]
    IN
    /\ stage[c] = "authn"
    /\ info[c] = NoInfo
    /\ u # NoUser
    /\ TokenE => prng[p].draws < MaxDraws
    /\ info' = [info EXCEPT ![c] = i]
    /\ prng' = IF TokenE THEN [prng EXCEPT ![p].draws = @ + 1] ELSE prng
    /\ store' = IF TokenE
                THEN (tok :> [user |-> u, expires |-> clock + Expire]) @@ store
                ELSE store
    /\ issuedTo' = IF TokenE /\ tok \notin DOMAIN issuedTo
                   THEN (tok :> u) @@ issuedTo ELSE issuedTo
    /\ resp' = [resp EXCEPT ![c] = authn_setauthorization(@, i)]
    /\ stage' = [stage EXCEPT ![c] = IF UnixE /\ u \in Passwd
                                     THEN "priv1" ELSE "content"]
    /\ UNCHANGED <<phase, req, creds, clock>>

\* First step of the transition: seteuid(getuid()).
authn_seteuid_real(c) ==
    LET p == ProcOf(c) IN
    /\ stage[c] = "priv1"
    /\ creds' = [creds EXCEPT ![p] = seteuid(@, @.ruid)]
    /\ stage' = [stage EXCEPT ![c] = "priv2"]
    /\ UNCHANGED <<phase, req, resp, info, prng, clock, store, issuedTo>>

\* Second step: setegid(pw->pw_gid), attempted whatever the first gave.
authn_setegid_user(c) ==
    LET p == ProcOf(c) IN
    /\ stage[c] = "priv2"
    /\ creds' = [creds EXCEPT ![p] = setegid(@, Gid[info[c].user])]
    /\ stage' = [stage EXCEPT ![c] = "priv3"]
    /\ UNCHANGED <<phase, req, resp, info, prng, clock, store, issuedTo>>

\* Mutation: the final seteuid(pw->pw_uid) is left out.
authn_seteuid_skipped(c) ==
    /\ stage[c] = "priv3"
    /\ stage' = [stage EXCEPT ![c] = "content"]
    /\ UNCHANGED <<phase, req, resp, info, creds, prng, clock, store, issuedTo>>

\* Third step: seteuid(pw->pw_uid); the connector then returns EREJECT.
authn_seteuid_user(c) ==
    LET p == ProcOf(c) IN
    /\ stage[c] = "priv3"
    /\ creds' = [creds EXCEPT ![p] = seteuid(@, Uid[info[c].user])]
    /\ stage' = [stage EXCEPT ![c] = "content"]
    /\ UNCHANGED <<phase, req, resp, info, prng, clock, store, issuedTo>>

\* _authn_connector, no identity and the uri is not protected: EREJECT.
authn_connector_public(c) ==
    /\ stage[c] = "authn"
    /\ info[c] = NoInfo
    /\ CheckedUser(req[c]) = NoUser
    /\ Unprotected(req[c].uri)
    /\ stage' = [stage EXCEPT ![c] = "content"]
    /\ UNCHANGED <<phase, req, resp, info, creds, prng, clock, store, issuedTo>>

\* _authn_connector, no identity on a protected uri: _authn_challenge.
authn_connector_challenge(c) ==
    LET ch == authn_challenge(req[c]) IN
    /\ stage[c] = "authn"
    /\ info[c] = NoInfo
    /\ CheckedUser(req[c]) = NoUser
    /\ ~Unprotected(req[c].uri)
    /\ stage' = [stage EXCEPT ![c] = "done"]
    /\ resp' = [resp EXCEPT ![c] = [@ EXCEPT !.status = ch.status,
                                          !.location = ch.location]]
    /\ UNCHANGED <<phase, req, info, creds, prng, clock, store, issuedTo>>

\* The modules after the auth stage serve the request.
Serve(c) ==
    /\ stage[c] = "content"
    /\ stage' = [stage EXCEPT ![c] = "idle"]
    /\ req' = [req EXCEPT ![c] = NoReq]
    /\ resp' = [resp EXCEPT ![c] = NoResp]
    /\ UNCHANGED <<phase, info, creds, prng, clock, store, issuedTo>>

\* The response an auth connector completed is sent.
Reply(c) ==
    /\ stage[c] = "done"
    /\ stage' = [stage EXCEPT ![c] = "idle"]
    /\ req' = [req EXCEPT ![c] = NoReq]
    /\ resp' = [resp EXCEPT ![c] = NoResp]
    /\ UNCHANGED <<phase, info, creds, prng, clock, store, issuedTo>>

home_connector(c) == home_connector_redirect(c) \/ home_connector_pass(c)

authn_connector(c) ==
    \/ authn_connector_bound(c)
    \/ authn_connector_accept(c)
    \/ authn_connector_public(c)
    \/ authn_connector_challenge(c)

authn_privilege(c) ==
    \/ authn_seteuid_real(c)
    \/ authn_setegid_user(c)
    \/ authn_seteuid_user(c)

Next ==
    \/ Boot \/ Crash \/ Tick
    \/ \E c \in Conns :
        \/ mod_auth_getctx(c) \/ mod_auth_freectx(c) \/ Arrive(c)
        \/ home_connector(c) \/ authn_connector(c) \/ authn_privilege(c)
        \/ Serve(c) \/ Reply(c)

Spec == Init /\ [][Next]_vars

-----------------------------------------------------------------------------
(* Properties *)

TypeOK ==
    /\ phase \in {"boot", "run"}
    /\ stage \in [Conns -> Stages]
    /\ \A c \in Conns : req[c] = NoReq \/ req[c] \in Requests
    /\ \A c \in Conns : info[c] = NoInfo \/
          info[c] \in [user : Users, token : Tokens \cup {NoToken}, home : Seq(STRING)]
    /\ creds \in [Procs -> Creds]
    /\ clock \in 0..MaxClock
    /\ DOMAIN store \subseteq Tokens
    /\ DOMAIN issuedTo = DOMAIN store

\* After auth_setowner dropped root, no request is ever served while the
\* process serving it has effective uid 0 (the seteuid(getuid())
\* of _authn_checkauthorization restores root for a moment).
NoServeAsRoot ==
    \A c \in Conns : stage[c] = "content" => creds[ProcOf(c)].euid # 0

\* With AUTHZ_UNIX_E, a request on a connection bound to a system account
\* is served with that account's effective uid and gid (the purpose of
\* the seteuid/setegid block of _authn_checkauthorization), and a request
\* without an identity with the daemon account's that auth_setowner set at
\* start (spec 7: failures only down-scope a request), never with the
\* rights an earlier check of another client left in the process.
ServedWithOwnRights ==
    \A c \in Conns :
        stage[c] = "content" /\ UnixE =>
            \/ /\ info[c] # NoInfo
               /\ info[c].user \in Passwd
               /\ creds[ProcOf(c)].euid = Uid[info[c].user]
               /\ creds[ProcOf(c)].egid = Gid[info[c].user]
            \/ /\ info[c] # NoInfo
               /\ info[c].user \notin Passwd
            \/ /\ info[c] = NoInfo
               /\ creds[ProcOf(c)].euid = DaemonUid
               /\ creds[ProcOf(c)].egid = DaemonGid

\* Spec 4.4 step 2: a request carrying a WWW-Authenticate header (the
\* client logging out) is re-verified even on a bound connection, so it
\* never reaches a protected uri's content on the cached identity.
LogoutForcesChallenge ==
    \A c \in Conns :
        stage[c] = "content" /\ req[c].logout
        => req[c].uri \notin ProtectUris \ UnprotectUris

\* Spec 4.4 step 6 and scenario C: an unauthenticated request for the
\* login page (the path of config->redirect) is accepted so that the next
\* module serves the page; _authn_challenge must not end it with its own
\* empty response.
LoginPagePassThrough ==
    \A c \in Conns :
        stage[c] = "done" /\ info[c] = NoInfo /\ ~req[c].ajax
        /\ RedirectUri # NoRedirect /\ req[c].uri = RedirectUri
        => SchemeChallenges

\* Spec 4.3 and section 8, token round trip: while a joined token has not
\* expired, the store resolves it to the user it was issued to.
TokenRoundTrip ==
    \A t \in DOMAIN store :
        clock < store[t].expires => store[t].user = issuedTo[t]

\* Spec 4.3: a token the auth connector hands to the client (X-Auth-Token
\* by _authn_setauthorization, on acceptance and again on every request of
\* a bound connection) is, when it is handed out, one the store resolves
\* to the response's user.
EmittedTokenLive ==
    [][\A c \in Conns :
         (stage[c] = "authn" /\ stage'[c] # "authn" /\ resp'[c].token # NoToken)
         => LET t == resp'[c].token IN
            /\ t \in DOMAIN store'
            /\ clock' < store'[t].expires
            /\ store'[t].user = resp'[c].user]_vars
=============================================================================
