\* Every auth configuration, including an authn type missing from authn_rules.
CONSTANTS
    JwtBuild = FALSE
    Configs <- MC_AllConfigs
SPECIFICATION ASpec
INVARIANT NoLeak
CHECK_DEADLOCK FALSE
