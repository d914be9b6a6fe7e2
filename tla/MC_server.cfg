CONSTANTS
    Modules = {"auth", "static", "fs", "cgi", "old"}
    Deprecated = {"old"}
    ServerIds = {0, 1}
    MaxServers = 3
    MaxModules = 2
    NULL = NULL
    JwtBuild = FALSE
    ServerSels <- MC_ServerSels
SPECIFICATION SSpec
INVARIANTS STypeOK NoModuleLeak
PROPERTIES StopsOnRequest
CHECK_DEADLOCK FALSE
