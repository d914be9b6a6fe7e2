----------------------------- MODULE AuthModule -----------------------------
(***************************************************************************)
(* One server's mod_auth slot under a loader that gives the module a       *)
(* configuration: create() is mod_auth_create(server, config), and        *)
(* destroy() mod_auth_destroy when create() returned an object.  The      *)
(* loader of main.c passes no configuration to mod_auth (it has no         *)
(* configure() and ouistiti_loadserver passes NULL), so there mod_auth     *)
(* never gets past its first test; this module checks the engine for the  *)
(* configurations a configuring loader can pass.                           *)
(***************************************************************************)
EXTENDS AuthEngine

CONSTANT Configs    \* the auth configurations the loader may pass

VARIABLES
    cfg,        \* the configuration passed to create()
    engine,     \* what mod_auth_create left behind
    aphase      \* "load", "served" (an engine is in the slot), "exit"

avars == <<cfg, engine, aphase>>

AInit ==
    /\ cfg \in Configs
    /\ engine = Failed({})
    /\ aphase = "load"

\* ouistiti_loadmodule calls create(); a NULL result leaves the slot
\* empty and nothing is ever destroyed for it.
Create ==
    /\ aphase = "load"
    /\ engine' = mod_auth_create(cfg)
    /\ aphase' = IF engine'.obj THEN "served" ELSE "exit"
    /\ UNCHANGED cfg

\* main_destroy reaches the slot and calls destroy().
Destroy ==
    /\ aphase = "served"
    /\ engine' = mod_auth_destroy(engine)
    /\ aphase' = "exit"
    /\ UNCHANGED cfg

ANext == Create \/ Destroy

ASpec == AInit /\ [][ANext]_avars

-----------------------------------------------------------------------------
(* Spec 2 and 7: an engine that transports tokens (AUTHZ_TOKEN_E in      *)
(* mod->authz->type, which the connectors test) has a token generator    *)
(* and, unless tokens are jwt, an identity store that can join them; the  *)
(* spec says construction rejects the flag otherwise.  A violation means  *)
(* the first successful check calls generatetoken through NULL.           *)
TokenNeedsJoin ==
    engine.obj /\ engine.tokenE =>
        /\ engine.generator # "none"
        /\ engine.generator = "random" => engine.join

(* Every allocation of the engine is released before the process exits:  *)
(* on mod_auth_create's own failure paths (it returns NULL and destroy()  *)
(* is never called for the slot) or by mod_auth_destroy.                  *)
NoLeak == aphase = "exit" => engine.live = {}
=============================================================================
