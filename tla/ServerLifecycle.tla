--------------------------- MODULE ServerLifecycle ---------------------------
(***************************************************************************)
(* The life of the ouistiti process (main.c): module registration         *)
(* (ouistiti_registermodule, called by the module loader), loading of the *)
(* configured servers and of every registered module into each           *)
(* (ouistiti_loadservers, ouistiti_loadserver, ouistiti_setmodules,       *)
(* ouistiti_loadmodule), the signal dispositions, the run loop            *)
(* (main_run and the handler setting run = 'q') and main_destroy.  Signals *)
(* come from the environment at any time; SIGPIPE comes while clients are *)
(* served, when one closes its socket before the response is written.     *)
(*                                                                         *)
(* Module objects are <<server, module>> pairs; their create() may fail.  *)
(* The module "auth" is mod_auth (AuthEngine): its create() is            *)
(* mod_auth_create over the configuration ouistiti_loadmodule finds for   *)
(* it, which is NULL (see LoadConfig).                                     *)
(***************************************************************************)
EXTENDS Naturals, Sequences, SequencesExt, FiniteSets, AuthEngine

CONSTANTS
    Modules,        \* module names the loader can register
    Deprecated,     \* modules whose version has MODULE_VERSION_DEPRECATED
    ServerIds,      \* indexes i < MAX_SERVERS with ouistiticonfig->config[i]
    MaxServers,     \* MAX_SERVERS
    MaxModules,     \* MAX_MODULES
    ServerSels,     \* values of serverid: -1, or the index given by -s
    NULL

Signals == {"SIGTERM", "SIGINT", "SIGPIPE"}

VARIABLES
    sphase,     \* "args", "register", "config", "initd", "load",
                \* "signals", "run", "destroy", "exit", "killed"
    gmods,      \* g_modules: the registered modules, head first
    nexti,      \* the loop index of ouistiti_loadservers
    servers,    \* the server list, head first (first)
    slots,      \* server -> server->modules[]: objects or NULL, in order
    live,       \* module objects created and not destroyed
    disp,       \* signal -> "default", "handler", "ignore"
    run,        \* the static run flag: "run" or "q"
    stopBy,     \* history: what ended the run ("none", a signal, "error")
    serverid,   \* the -s option (atoi(optarg) - 1), -1 without it
    exitcode    \* the value main returns

svars == <<sphase, gmods, nexti, servers, slots, live, disp, run, stopBy,
           serverid, exitcode>>

\* The objects of a server main_destroy reaches: it walks modules[] until
\* the first slot whose obj is NULL.
Reached(sl) ==
    LET nulls == {i \in DOMAIN sl : sl[i] = NULL}
        k == IF nulls = {} THEN Len(sl) ELSE CHOOSE i \in nulls : \A j \in nulls : i <= j
    IN  {sl[i] : i \in {j \in DOMAIN sl : j < k \/ (nulls = {} /\ j = k)}}

\* Mutant: the MAX_MODULES test is lost.
ouistiti_loadmodule_nolimit(sl, m, created) ==
    IF m \in Deprecated \/ ~created THEN sl ELSE Append(sl, m)

\* Mutant: the free slot is searched by ops instead of obj, so a slot
\* whose create() failed is never reused and stays NULL.
ouistiti_loadmodule_byops(sl, m, created) ==
    IF Len(sl) = MaxModules \/ m \in Deprecated THEN sl
    ELSE Append(sl, IF created THEN m ELSE NULL)

\* ouistiti_loadmodule: the first slot with a NULL obj is used; the module
\* is refused when all MAX_MODULES are taken or it is deprecated; a failed
\* create() leaves obj NULL, so the next module takes the same slot.
ouistiti_loadmodule(sl, m, created) ==
    IF Len(sl) = MaxModules \/ m \in Deprecated \/ ~created THEN sl
    ELSE Append(sl, m)

\* ouistiti_setmodules: every module of the list mods (g_modules), in list
\* order, with the outcome of its create() given by ok.
ouistiti_setmodules(ok, mods) ==
    FoldLeft(LAMBDA sl, m : ouistiti_loadmodule(sl, m, ok[m]), <<>>, mods)

\* The config ouistiti_loadmodule passes to mod_auth's create(): mod_auth
\* has no configure() and ouistiti_loadserver calls ouistiti_setmodules
\* with configure NULL, so config stays NULL.
LoadConfig == CHOOSE c \in EngineConfig : ~c.present

-----------------------------------------------------------------------------
SInit ==
    /\ sphase = "args"
    /\ gmods = <<>>
    /\ nexti = 0
    /\ servers = <<>>
    /\ slots = [s \in {} |-> <<>>]
    /\ live = {}
    /\ disp = [g \in Signals |-> "default"]
    /\ run = "run"
    /\ stopBy = "none"
    /\ serverid \in ServerSels
    /\ exitcode = 0

\* ouistiti_registermodule: a module of that name registered before is
\* refused ("loaded twice"); otherwise it is pushed at the head.
ouistiti_registermodule(m) ==
    /\ sphase = "register"
    /\ m \notin Range(gmods)
    /\ gmods' = <<m>> \o gmods
    /\ UNCHANGED <<sphase, nexti, servers, slots, live, disp, run, stopBy, serverid, exitcode>>

\* What the steps of main's start-up leave alone.
startvars == <<gmods, nexti, servers, slots, live, disp, run, stopBy,
               serverid>>

(* Each bit of mode (-D, -K, -C) is tested once, by the step below that  *)
(* takes its branch, so the bits are not kept as state.                   *)

\* -K: ouistiti_kill signals the daemon of the pid file and calls
\* main_destroy(first) while first is NULL and no module is registered;
\* main returns 0.
main_kill ==
    /\ sphase = "args"
    /\ sphase' = "exit"
    /\ UNCHANGED <<startvars, exitcode>>

\* Without -K: chdir(workingdir) when -W was given; on failure main
\* returns 1, otherwise ouistiti_initmodules loads and registers modules.
main_chdir ==
    /\ sphase = "args"
    /\ \/ /\ sphase' = "register"
          /\ UNCHANGED exitcode
       \/ /\ sphase' = "exit"
          /\ exitcode' = 1
    /\ UNCHANGED startvars

\* The module loader is done; main reads the configuration.
EndRegister ==
    /\ sphase = "register"
    /\ sphase' = "config"
    /\ UNCHANGED <<gmods, nexti, servers, slots, live, disp, run, stopBy, serverid, exitcode>>

\* ouistiticonfig_create: without a configuration main returns 1; with -C
\* it displays the configuration and returns 0.  Both returns leave the
\* registered module list as it is.
main_config ==
    /\ sphase = "config"
    /\ \/ /\ sphase' = "exit"                     \* configuration not found
          /\ exitcode' = 1
       \/ /\ sphase' = "exit"                     \* -C
          /\ UNCHANGED exitcode
       \/ /\ sphase' = "initd"
          /\ UNCHANGED exitcode
    /\ UNCHANGED startvars

\* main_initat over init_d (InitScripts), then daemonize with -D: in the
\* process where it returns -1 main returns 0 at once, before any server
\* is loaded (main_destroy is left commented out there); the daemon, or
\* main without -D, goes on to load the servers.  The later test of
\* ouistiticonfig == NULL can no longer hold.
main_daemonize ==
    /\ sphase = "initd"
    /\ sphase' \in {"exit", "load"}
    /\ UNCHANGED <<startvars, exitcode>>

\* One turn of the loop of ouistiti_loadservers: an index other than the
\* one -s selected is skipped; ouistiti_loadserver when config[i] is set;
\* httpserver_create may fail, and the server is pushed at the head of the
\* list with its modules loaded.
ouistiti_loadserver(i) ==
    /\ sphase = "load"
    /\ nexti = i /\ i < MaxServers
    /\ nexti' = i + 1
    /\ \/ /\ i \in ServerIds /\ serverid \in {-1, i}
          /\ \E ok \in [Range(gmods) \ {"auth"} -> BOOLEAN] :
               LET okA == [m \in Range(gmods) |->
                             IF m = "auth" THEN mod_auth_create(LoadConfig).obj
                             ELSE ok[m]]
                   sl  == ouistiti_setmodules(okA, gmods)
               IN
               /\ servers' = <<i>> \o servers
               /\ slots' = slots @@ (i :> sl)
               /\ live' = live \cup {<<i, m>> : m \in Range(sl) \ {NULL}}
       \/ /\ i \in ServerIds /\ serverid \in {-1, i}
          /\ UNCHANGED <<servers, slots, live>>   \* httpserver_create: NULL
       \/ /\ i \notin ServerIds \/ serverid \notin {-1, i}
          /\ UNCHANGED <<servers, slots, live>>
    /\ UNCHANGED <<sphase, gmods, disp, run, stopBy, serverid, exitcode>>

\* ouistiti_loadservers: the loop over i < MAX_SERVERS.
ouistiti_loadservers == \E i \in 0..MaxServers - 1 : ouistiti_loadserver(i)

\* The loop is over; main installs the signal handlers: SIGTERM and SIGINT
\* to handler, and SIGPIPE, meant to be ignored, with the same action.
main_signals ==
    /\ sphase = "load" /\ nexti = MaxServers
    /\ sphase' = "signals"
    /\ disp' = [g \in Signals |-> "handler"]
    /\ UNCHANGED <<gmods, nexti, servers, slots, live, run, stopBy, serverid, exitcode>>

\* auth_setowner, then main_run connects every server.
main_connect ==
    /\ sphase = "signals"
    /\ sphase' = "run"
    /\ UNCHANGED <<gmods, nexti, servers, slots, live, disp, run, stopBy, serverid, exitcode>>

\* Mutant: the loop leaves only when there is no server.
main_run_quit_noflag ==
    /\ sphase = "run"
    /\ servers = <<>>
    /\ sphase' = "destroy"
    /\ UNCHANGED <<gmods, nexti, servers, slots, live, disp, run, stopBy, serverid, exitcode>>

\* main_run leaves its loop: run = 'q', or there is no server.
main_run_quit ==
    /\ sphase = "run"
    /\ run = "q" \/ servers = <<>>
    /\ sphase' = "destroy"
    /\ UNCHANGED <<gmods, nexti, servers, slots, live, disp, run, stopBy, serverid, exitcode>>

\* httpserver_run(first->server) returned ESUCCESS: the loop breaks.
main_run_error ==
    /\ sphase = "run"
    /\ run # "q" /\ servers # <<>>
    /\ sphase' = "destroy"
    /\ stopBy' = "error"
    /\ UNCHANGED <<gmods, nexti, servers, slots, live, disp, run, serverid, exitcode>>

\* A signal is delivered: the handler sets run = 'q'; the default action
\* of SIGTERM, SIGINT and SIGPIPE ends the process.
Signal(g) ==
    /\ sphase \notin {"exit", "killed"}
    /\ g = "SIGPIPE" => sphase = "run" /\ servers # <<>>
    /\ \/ /\ disp[g] = "handler"
          /\ run' = "q"
          /\ stopBy' = IF stopBy = "none" THEN g ELSE stopBy
          /\ UNCHANGED sphase
       \/ /\ disp[g] = "default"
          /\ sphase' = "killed"
          /\ stopBy' = IF stopBy = "none" THEN g ELSE stopBy
          /\ UNCHANGED run
    /\ UNCHANGED <<gmods, nexti, servers, slots, live, disp, serverid, exitcode>>

\* main_destroy: for each server, destroy() of the objects up to the first
\* NULL slot, then the server and
\* the module list are freed.
main_destroy ==
    /\ sphase = "destroy"
    /\ live' = live \ UNION {{<<s, m>> : m \in Reached(slots[s])} : s \in Range(servers)}
    /\ sphase' = "exit"
    /\ UNCHANGED <<gmods, nexti, servers, slots, disp, run, stopBy, serverid, exitcode>>

\* The steps main takes by itself (not the signals, not a server error).
MainStep ==
    \/ main_kill \/ main_chdir \/ EndRegister \/ main_config \/ main_daemonize
    \/ main_signals \/ main_connect \/ main_run_quit
    \/ main_destroy \/ ouistiti_loadservers

SNext ==
    \/ \E m \in Modules : ouistiti_registermodule(m)
    \/ MainStep
    \/ main_run_error
    \/ \E g \in Signals : Signal(g)

\* main is a single thread that is never blocked for good: each of its
\* steps, once enabled, is taken.
SSpec == SInit /\ [][SNext]_svars /\ WF_svars(MainStep)

-----------------------------------------------------------------------------
STypeOK ==
    /\ sphase \in {"args", "register", "config", "initd", "load", "signals",
                   "run", "destroy", "exit", "killed"}
    /\ exitcode \in {0, 1}
    /\ gmods \in Seq(Modules) /\ IsInjective(gmods)
    /\ nexti \in 0..MaxServers
    /\ servers \in Seq(ServerIds)
    /\ \A s \in DOMAIN slots : Len(slots[s]) <= MaxModules
    /\ live \subseteq ServerIds \X Modules
    /\ disp \in [Signals -> {"default", "handler", "ignore"}]
    /\ run \in {"run", "q"}

(* Every module object created while loading the servers is destroyed    *)
(* by main_destroy when the process leaves its run loop: the slots of     *)
(* server->modules[] are filled without a hole, so main_destroy's walk   *)
(* up to the first NULL obj reaches them all.                              *)
NoModuleLeak == sphase = "exit" => live = {}

(* After a SIGTERM or SIGINT reached the handler (run = 'q'), main leaves *)
(* its loop and destroys the servers: the process ends cleanly.           *)
StopsOnRequest == run = "q" ~> sphase = "exit"

(* Only the operator (SIGTERM, SIGINT) or a failing server loop ends the  *)
(* server: a client closing its connection early (SIGPIPE, which the code *)
(* means to ignore with SIG_IGN) must not.                                 *)
ClientsCannotStop == stopBy # "SIGPIPE"
=============================================================================
