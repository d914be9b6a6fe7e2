---------------------------- MODULE AuthAbstract ----------------------------
(***************************************************************************)
(* What the authentication engine promises a connection (spec.md 3, 4.4): *)
(* an identity is bound at most once per connection and stays bound      *)
(* until the connection closes; a request is admitted to the serving      *)
(* modules only for a public uri or on a connection with an identity.     *)
(***************************************************************************)
CONSTANTS Conns, Users, NoUser, Uris, Public, NoUri

VARIABLES open, bound, admitted

avars == <<open, bound, admitted>>

AbsTypeOK ==
    /\ open \in [Conns -> BOOLEAN]
    /\ bound \in [Conns -> Users \cup {NoUser}]
    /\ admitted \in [Conns -> Uris \cup {NoUri}]

AbsInit ==
    /\ open = [c \in Conns |-> FALSE]
    /\ bound = [c \in Conns |-> NoUser]
    /\ admitted = [c \in Conns |-> NoUri]

Open(c) ==
    /\ ~open[c]
    /\ open' = [open EXCEPT ![c] = TRUE]
    /\ UNCHANGED <<bound, admitted>>

Close(c) ==
    /\ open[c]
    /\ admitted[c] = NoUri
    /\ open' = [open EXCEPT ![c] = FALSE]
    /\ bound' = [bound EXCEPT ![c] = NoUser]
    /\ UNCHANGED admitted

\* Every connection is lost at once (the server process dies).
LoseAll ==
    /\ open' = [c \in Conns |-> FALSE]
    /\ bound' = [c \in Conns |-> NoUser]
    /\ admitted' = [c \in Conns |-> NoUri]

Admissible(c, uri) == uri \in Public \/ bound'[c] # NoUser

\* The identity is bound; the request that proved it may be admitted in
\* the same step.
Authenticate(c, u) ==
    /\ open[c]
    /\ bound[c] = NoUser
    /\ admitted[c] = NoUri
    /\ bound' = [bound EXCEPT ![c] = u]
    /\ \/ UNCHANGED admitted
       \/ \E uri \in Uris : admitted' = [admitted EXCEPT ![c] = uri]
    /\ UNCHANGED open

Admit(c, uri) ==
    /\ open[c]
    /\ admitted[c] = NoUri
    /\ UNCHANGED <<open, bound>>
    /\ Admissible(c, uri)
    /\ admitted' = [admitted EXCEPT ![c] = uri]

Finish(c) ==
    /\ admitted[c] # NoUri
    /\ admitted' = [admitted EXCEPT ![c] = NoUri]
    /\ UNCHANGED <<open, bound>>

AbsNext ==
    \/ LoseAll
    \/ \E c \in Conns :
        \/ Open(c) \/ Close(c) \/ Finish(c)
        \/ \E u \in Users : Authenticate(c, u)
        \/ \E uri \in Uris : Admit(c, uri)

AbsSpec == AbsInit /\ [][AbsNext]_avars
=============================================================================
