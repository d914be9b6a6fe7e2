--------------------------- MODULE AuthRefinement ---------------------------
(***************************************************************************)
(* AuthConnector implements AuthAbstract.  A connection is open unless    *)
(* its stage is "closed"; its bound identity is the user of ctx->info;    *)
(* it is admitted to a uri while its request is in the "content" stage.   *)
(***************************************************************************)
EXTENDS AuthConnector

\* No uri admitted: the empty uri, never a request uri of the model.
NoUri == <<>>
ASSUME NoUri \notin Uris

Abs == INSTANCE AuthAbstract WITH
           open     <- [c \in Conns |-> stage[c] # "closed"],
           bound    <- [c \in Conns |-> IF info[c] = NoInfo THEN NoUser
                                         ELSE info[c].user],
           admitted <- [c \in Conns |-> IF stage[c] = "content" THEN req[c].uri
                                         ELSE NoUri],
           Public   <- Uris \ (ProtectUris \ UnprotectUris)

\* The detailed connector chain implements the abstract promise: an
\* identity, once cached in ctx->info, is never replaced while the
\* connection lives, and protected uris are admitted only with one.
AuthAbstractSpec == Abs!AbsSpec
=============================================================================
