\* Auth configurations with a known authn type, random tokens (no jwt).
CONSTANTS
    JwtBuild = FALSE
    Configs <- MC_AuthnTypeKnown
SPECIFICATION ASpec
INVARIANT TokenNeedsJoin
CHECK_DEADLOCK FALSE
