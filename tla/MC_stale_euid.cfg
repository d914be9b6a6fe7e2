\* Single-threaded server, two connections authenticating as two system accounts.
CONSTANTS
    Conns = {c1, c2}
    Users = {"u1", "u2"}
    NoUser = NoUser
    Passwd = {"u1", "u2"}
    Uid <- MC_Uid
    Gid <- MC_Gid
    DaemonUid = 33
    DaemonGid = 33
    StartUid = 0
    Uris <- MC_UrisRights
    Home <- MC_Home
    ProtectUris <- MC_ProtectUris
    UnprotectUris <- MC_UnprotectUris
    RedirectUri = NoRedirect
    NoRedirect = NoRedirect
    AuthzVals <- MC_AuthzBoth
    CookieVals = {Absent}
    LogoutVals = {FALSE}
    AjaxVals = {FALSE}
    WsVals = {FALSE}
    TokenE = FALSE
    HeaderE = TRUE
    CookieE = FALSE
    UnixE = TRUE
    HomeE = FALSE
    SchemeChallenges = FALSE
    SchemeAcceptsToken = TRUE
    Mode = "single"
    Expire = 1
    MaxClock = 1
    MaxDraws = 1
    Absent = Absent
    NoInfo = NoInfo
    NoToken = NoToken
    NoReq = NoReq
SPECIFICATION Spec
INVARIANTS
    ServedWithOwnRights
