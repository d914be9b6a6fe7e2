CONSTANTS
    Modules = {"auth", "static", "fs", "cgi", "old"}
    Deprecated = {"old"}
    ServerIds = {0, 1}
    MaxServers = 3
    MaxModules = 2
    NULL = NULL
    JwtBuild = FALSE
    ServerSels <- MC_ServerSels
SPECIFICATION SSpec
INVARIANT ClientsCannotStop
CHECK_DEADLOCK FALSE
