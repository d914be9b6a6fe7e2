\* Browser login flow: config->redirect names the login page "l".
CONSTANTS
    Conns = {c1}
    Users = {"u1", "u2"}
    NoUser = NoUser
    Passwd = {"u1", "u2"}
    Uid <- MC_Uid
    Gid <- MC_Gid
    DaemonUid = 33
    DaemonGid = 33
    StartUid = 0
    Uris <- MC_UrisLogin
    Home <- MC_Home
    ProtectUris <- MC_ProtectUris
    UnprotectUris <- MC_UnprotectUris
    RedirectUri <- UriL
    NoRedirect = NoRedirect
    AuthzVals <- MC_AuthzU1
    CookieVals = {Absent}
    LogoutVals = {FALSE}
    AjaxVals = {FALSE}
    WsVals = {FALSE}
    TokenE = FALSE
    HeaderE = TRUE
    CookieE = FALSE
    UnixE = FALSE
    HomeE = FALSE
    SchemeChallenges = FALSE
    SchemeAcceptsToken = TRUE
    Mode = "single"
    Expire = 1
    MaxClock = 1
    MaxDraws = 1
    Absent = Absent
    NoInfo = NoInfo
    NoToken = NoToken
    NoReq = NoReq
SPECIFICATION Spec
INVARIANTS
    LoginPagePassThrough
