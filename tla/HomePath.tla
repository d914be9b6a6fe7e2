------------------------------ MODULE HomePath ------------------------------
(***************************************************************************)
(* The home test of _home_connector (mod_auth.c): with a bound identity   *)
(* whose home is h, a request whose decoded uri u (without its leading    *)
(* '/') fails strncmp(h + 1, u, strlen(h) - 1) == 0 is redirected with    *)
(* 301 to "<h>/", and the client requests that location next.             *)
(*                                                                         *)
(* Strings are sequences of characters; a C string ends at the first     *)
(* position past its length, where strncmp sees the NUL byte.             *)
(***************************************************************************)
EXTENDS Naturals, Sequences, SequencesExt

CONSTANTS
    Chars,      \* characters of paths, '/' included
    MaxLen      \* longest home (after its leading '/') and uri

VARIABLES
    home,       \* info->home of the bound identity
    uri,        \* the uri of the current request
    followed    \* history: the request is the location of a redirect

hvars == <<home, uri, followed>>

Strings(n) == UNION {[1..k -> Chars] : k \in 0..n}
Homes == {<<"/">> \o s : s \in Strings(MaxLen)}
Uris == Strings(MaxLen)

\* strncmp(a, b, n) == 0: the first n bytes agree, comparison stopping
\* after a NUL common to both.
RECURSIVE StrnEqual(_, _, _)
StrnEqual(a, b, n) ==
    \/ n = 0
    \/ a = <<>> /\ b = <<>>
    \/ /\ a # <<>> /\ b # <<>>
       /\ Head(a) = Head(b)
       /\ StrnEqual(Tail(a), Tail(b), n - 1)

\* Mutant: strncmp over strlen(home) bytes instead of strlen(home) - 1.
Redirects_fullLength(h, u) ==
    /\ Len(h) > 0
    /\ ~StrnEqual(Tail(h), u, Len(h))

\* The condition of the redirect in _home_connector.
Redirects(h, u) ==
    /\ Len(h) > 0
    /\ ~StrnEqual(Tail(h), u, Len(h) - 1)

\* Mutant: the location keeps the home's leading '/' in the next uri.
Location_keepslash(h) == h \o <<"/">>

\* The Location header: snprintf("%s/", home), requested by the client
\* with its leading '/' stripped like every uri.
Location(h) == Tail(h \o <<"/">>)

-----------------------------------------------------------------------------
HInit ==
    /\ home \in Homes
    /\ uri \in Uris
    /\ followed = FALSE

\* The client follows the 301 the connector answered.
FollowRedirect ==
    /\ Redirects(home, uri)
    /\ uri' = Location(home)
    /\ followed' = TRUE
    /\ UNCHANGED home

\* The client sends a request of its own on the connection.
NewRequest ==
    /\ uri' \in Uris
    /\ followed' = FALSE
    /\ UNCHANGED home

HNext == FollowRedirect \/ NewRequest

HSpec == HInit /\ [][HNext]_hvars

-----------------------------------------------------------------------------
HTypeOK ==
    /\ home \in Homes
    /\ uri \in Strings(MaxLen + 1)
    /\ followed \in BOOLEAN

(* No redirect loop: the location _home_connector sends the client to   *)
(* ("<home>/") is itself accepted by _home_connector, for every home.   *)
NoRedirectLoop == followed => ~Redirects(home, uri)

(* spec.md 4.5 and scenario E: a request is passed on only when its path *)
(* begins under the home path: the home itself, or a path continuing it  *)
(* after a '/'.  The strncmp test of _home_connector compares characters,*)
(* not path segments.                                                     *)
UnderHomeBySegment ==
    ~Redirects(home, uri) =>
        LET p == Tail(home) IN
        \/ p = <<>>
        \/ /\ IsPrefix(p, uri)
           /\ \/ Len(uri) = Len(p)
              \/ Last(p) = "/"
              \/ uri[Len(p) + 1] = "/"
=============================================================================
