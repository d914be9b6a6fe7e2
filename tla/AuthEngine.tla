----------------------------- MODULE AuthEngine -----------------------------
(***************************************************************************)
(* mod_auth_create and mod_auth_destroy (mod_auth.c) as operators: the    *)
(* auth module's create() and destroy(), which main.c calls from          *)
(* ouistiti_loadmodule and main_destroy.  An engine is the record         *)
(* mod_auth_create leaves behind: whether it returned an object, the     *)
(* TOKEN flag of mod->authz->type, the token generator,                    *)
(* whether the store has join(), and the allocations not yet released:    *)
(* "mod", "authz", "authn" (calloc'd by mod_auth_create) and "authzctx",  *)
(* "authnctx" (returned by the backends' create()).                       *)
(***************************************************************************)
EXTENDS Naturals, FiniteSets

CONSTANT JwtBuild    \* compiled with AUTHZ_JWT

\* One configuration of the engine: whether the module has a configuration
\* section, whether authz_rules[authz_type & MASK] and authn_rules[authn_type]
\* exist, whether the authz backend has join(), whether AUTHZ_TOKEN_E is
\* set, and whether each backend's create() succeeds.
EngineConfig ==
    [present : BOOLEAN, authzRules : BOOLEAN, hasJoin : BOOLEAN,
     tokenE : BOOLEAN, authzCreate : BOOLEAN, authnRules : BOOLEAN,
     authnCreate : BOOLEAN]

Resources == {"mod", "authz", "authn", "authzctx", "authnctx"}

\* The TOKEN check: the engine keeps the authz type of the configuration
\* (mod->authz->type, the flag the connectors test); with jwt the jwt
\* generator is set; otherwise a TOKEN flag without join only clears the
\* flag in the configuration, leaving the engine's flag set and its
\* generator unset, and the random generator is set in the else branch.
TokenSetup(c) ==
    IF JwtBuild THEN [flag |-> c.tokenE, gen |-> "jwt"]
    ELSE IF c.tokenE /\ ~c.hasJoin THEN [flag |-> c.tokenE, gen |-> "none"]
    ELSE [flag |-> c.tokenE, gen |-> "random"]

\* What mod_auth_create leaves allocated when the authn context could not
\* be made: the authz context is destroyed only if authn->rules is set.
FailedAuthnCleanup(c) == IF c.authnRules THEN {} ELSE {"authzctx"}

\* The engine mod_auth_create returned.
Engine(flag, gen, c) ==
    [obj |-> TRUE, tokenE |-> flag, generator |-> gen, join |-> c.hasJoin,
     live |-> Resources]

\* mod_auth_create returned NULL: no engine, only what it failed to free.
Failed(leaked) ==
    [obj |-> FALSE, tokenE |-> FALSE, generator |-> "none", join |-> FALSE,
     live |-> leaked]

\* mod_auth_create(server, config): NULL without a configuration or an
\* authz backend; the TOKEN check; NULL when the authz context cannot be
\* created; the authn context is created only when authn_rules has the
\* type, and without it the engine is freed; otherwise the engine is
\* registered with httpserver_addmod and returned.
mod_auth_create(c) ==
    LET ts == TokenSetup(c) IN
    CASE ~c.present \/ ~c.authzRules -> Failed({})
      [] ~c.authzCreate -> Failed({})
      [] c.authnRules /\ c.authnCreate -> Engine(ts.flag, ts.gen, c)
      [] OTHER -> Failed(FailedAuthnCleanup(c))

\* mod_auth_destroy: both contexts destroyed, the three objects freed.
mod_auth_destroy(e) == [e EXCEPT !.live = {}]
=============================================================================
