--------------------------- MODULE MC_AuthModule ---------------------------
(* Constant values for checking AuthModule with TLC. *)
EXTENDS AuthModule

\* Every auth configuration.
MC_AllConfigs == EngineConfig

\* Every auth configuration whose authn type is in authn_rules.
MC_AuthnTypeKnown == {c \in EngineConfig : c.authnRules}
=============================================================================
