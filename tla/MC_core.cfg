\* Single-threaded server, every feature flag on: the connector chain,
\* tokens, home redirection and the privilege transition, and the
\* refinement of AuthAbstract.
CONSTANTS
    Conns = {c1, c2}
    Users = {"u1", "u2"}
    NoUser = NoUser
    Passwd = {"u1", "u2"}
    Uid <- MC_Uid
    Gid <- MC_Gid
    DaemonUid = 33
    DaemonGid = 33
    StartUid = 0
    Uris <- MC_UrisCore
    Home <- MC_Home
    ProtectUris <- MC_ProtectUris
    UnprotectUris <- MC_UnprotectUris
    RedirectUri = NoRedirect
    NoRedirect = NoRedirect
    AuthzVals <- MC_AuthzAll
    CookieVals <- MC_CookieVals
    LogoutVals = {FALSE, TRUE}
    AjaxVals = {FALSE}
    WsVals = {FALSE, TRUE}
    TokenE = TRUE
    HeaderE = TRUE
    CookieE = FALSE
    UnixE = TRUE
    HomeE = TRUE
    SchemeChallenges = FALSE
    SchemeAcceptsToken = TRUE
    Mode = "single"
    Expire = 1
    MaxClock = 1
    MaxDraws = 1
    Absent = Absent
    NoInfo = NoInfo
    NoToken = NoToken
    NoReq = NoReq
SPECIFICATION Spec
INVARIANTS
    TypeOK
    NoServeAsRoot
PROPERTIES
    AuthAbstractSpec
